------------------------- MODULE ChatSessionProofs -------------------------
(***************************************************************************)
(* Proofs about ChatSession, for any number of requests and clients, any   *)
(* history limit and any combination of faults.                            *)
(***************************************************************************)
EXTENDS ChatSession, Sequences, FiniteSetTheorems, TLAPS

\* Who holds the row lock, and what that says about the row.
DraftsAreLocked == \A r \in Requests : draft[r] # NoDraft => rowLock = r
LockedRowExists == rowLock # NoOne => row # NoRow \/ draft[rowLock].insert
SelectedRowIsReal == \A r \in Turns : pc[r] = "lock" => snapshot[r] \in Requests
GuardedIsLocked == \A r \in Turns : pc[r] \in Guarded => rowLock = r

Locking == DraftsAreLocked /\ LockedRowExists /\ SelectedRowIsReal /\ GuardedIsLocked

\* What a commit is about to do to the numbering.
CommitsNextExchange ==
    \A r \in Turns : pc[r] = "commit" => draft[r].add = Exchange(r, LastNo(messages))

Numbering == IsFiniteSet(messages) /\ WellNumbered /\ CommitsNextExchange

\* Whose the row is, committed or not.
EmptyWithoutRow == row = NoRow => messages = {}
InsertedIsNew == \A r \in Requests : draft[r].insert => row = NoRow
GuardedIsOwner == \A r \in Turns : pc[r] \in Guarded => OwnsRow(r)

Ownership == EmptyWithoutRow /\ InsertedIsNew /\ GuardedIsOwner /\ OneClientPerTranscript

\* The inductive invariant.
IInv == TypeOK /\ Locking /\ FreshContext /\ Numbering /\ Ownership

LEMMA NoDraftFacts == /\ NoDraft.insert = FALSE /\ NoDraft.delete = FALSE
                      /\ NoRow.creator = NoOne /\ NoRow.client = NoOne
                      /\ NoRow \in Row
BY DEF NoDraft, NoRow, Row

LEMMA RealRows ==
    ASSUME NEW w \in Row, w # NoRow
    PROVE  w.creator \in Requests /\ w.client \in Clients
BY DEF Row

LEMMA SeenIsRow ==
    ASSUME TypeOK, NEW r \in Requests
    PROVE  RowSeenBy(r) \in Row
BY ConstantsAssumption DEF TypeOK, RowSeenBy, Row

\* A step that neither touches the locks nor enters the steps they protect.
LEMMA LockingFrame ==
    ASSUME TypeOK, Locking, NEW r \in Requests, NEW step,
           step \notin Guarded \union {"lock"},
           pc' = [pc EXCEPT ![r] = step],
           UNCHANGED <<row, rowLock, draft, snapshot>>
    PROVE  Locking'
BY DEF TypeOK, Locking, DraftsAreLocked, LockedRowExists, SelectedRowIsReal,
       GuardedIsLocked, Turns, Requests

\* The end of a transaction, with or without a lock; one that changes the row
\* holds the lock, so nobody else can have counted on the row.
LEMMA LockingEnd ==
    ASSUME TypeOK, Locking, NEW r \in Requests, NEW step,
           step \notin Guarded \union {"lock"},
           pc' = [pc EXCEPT ![r] = step],
           EndTransaction(r),
           UNCHANGED snapshot,
           row' = row \/ rowLock = r
    PROVE  Locking'
<1> USE DEF TypeOK, EndTransaction
<1>1. DraftsAreLocked'
  BY DEF Locking, DraftsAreLocked
<1>2. LockedRowExists'
  BY DEF Locking, LockedRowExists
<1>3. SelectedRowIsReal' /\ GuardedIsLocked'
  BY DEF Locking, SelectedRowIsReal, GuardedIsLocked, Turns, Requests
<1> QED
  BY <1>1, <1>2, <1>3 DEF Locking

LEMMA InsertLocking ==
    ASSUME TypeOK, Locking, NEW r \in Turns, InsertConversation(r)
    PROVE  Locking'
<1> USE DEF TypeOK, Requests, Turns, InsertConversation, Goto
<1>1. row = NoRow => rowLock \in {NoOne, r}
  BY DEF Locking, LockedRowExists, RowWrittenByAnother, NoDraft
<1>2. DraftsAreLocked'
  <2> SUFFICES ASSUME NEW q \in Requests, draft'[q] # NoDraft PROVE rowLock' = q
    BY DEF DraftsAreLocked
  <2>1. CASE q = r
    BY <2>1 DEF Locking, DraftsAreLocked
  <2>2. CASE q # r
    <3>1. draft[q] # NoDraft
      BY <2>2
    <3>2. rowLock = q
      BY <3>1 DEF Locking, DraftsAreLocked
    <3> QED
      BY <1>1, <2>2, <3>2, ConstantsAssumption
  <2> QED
    BY <2>1, <2>2
<1>3. LockedRowExists'
  <2>1. CASE row = NoRow
    BY <2>1, <1>1 DEF LockedRowExists
  <2>2. CASE row # NoRow
    BY <2>2 DEF LockedRowExists
  <2> QED
    BY <2>1, <2>2
<1>4. SelectedRowIsReal' /\ GuardedIsLocked'
  <2>1. \A q \in Turns : pc'[q] = "lock" => q # r /\ pc[q] = "lock"
    OBVIOUS
  <2>2. \A q \in Turns : pc'[q] \in Guarded => q # r /\ pc[q] \in Guarded
    BY DEF Guarded
  <2> QED
    BY <1>1, <2>1, <2>2, ConstantsAssumption
    DEF Locking, SelectedRowIsReal, GuardedIsLocked
<1> QED
  BY <1>2, <1>3, <1>4 DEF Locking

LEMMA LockingStep ==
    ASSUME TypeOK, Locking, [Next]_vars
    PROVE  Locking'
<1> USE ConstantsAssumption DEF Turns, Requests, Goto, Answer
<1>1. ASSUME NEW r \in Turns, AcquireRequestLock(r) PROVE Locking'
  BY <1>1, LockingFrame DEF Guarded, database, AcquireRequestLock
<1>2. ASSUME NEW r \in Turns, InsertConversation(r) PROVE Locking'
  BY <1>2, InsertLocking
<1>3. ASSUME NEW r \in Turns, SelectConversation(r) PROVE Locking'
  <2>1. RowSeenBy(r) # NoRow => RowSeenBy(r).creator \in Requests
    BY SeenIsRow, RealRows
  <2> QED
    BY <2>1, <1>3
    DEF TypeOK, Locking, DraftsAreLocked, LockedRowExists, SelectedRowIsReal,
        GuardedIsLocked, Guarded, database, SelectConversation
<1>4. ASSUME NEW r \in Turns, LockConversation(r) PROVE Locking'
  <2>1. RowSeenBy(r).creator = snapshot[r] => row # NoRow \/ draft[r].insert
    BY <1>4, NoDraftFacts
    DEF TypeOK, LockConversation, Locking, SelectedRowIsReal, RowSeenBy
  <2> QED
    BY <2>1, <1>4
    DEF TypeOK, Locking, DraftsAreLocked, LockedRowExists, SelectedRowIsReal,
        GuardedIsLocked, Guarded, RowFreeFor, LockConversation
<1>5. ASSUME NEW r \in Turns, ReadHistory(r) PROVE Locking'
  BY <1>5 DEF TypeOK, Locking, DraftsAreLocked, LockedRowExists, SelectedRowIsReal,
              GuardedIsLocked, Guarded, database, ReadHistory
<1>6. ASSUME NEW r \in Turns, RunGates(r) PROVE Locking'
  BY <1>6 DEF TypeOK, Locking, DraftsAreLocked, LockedRowExists, SelectedRowIsReal,
              GuardedIsLocked, Guarded, database, RunGates
<1>7. ASSUME NEW r \in Turns, PersistExchange(r) PROVE Locking'
  <2>1. row # NoRow \/ draft[r].insert
    BY <1>7 DEF PersistExchange, RowSeenBy
  <2>2. rowLock = r
    BY <1>7 DEF PersistExchange, Locking, GuardedIsLocked, Guarded
  <2> QED
    BY <2>1, <2>2, <1>7
    DEF TypeOK, Locking, DraftsAreLocked, LockedRowExists, SelectedRowIsReal,
        GuardedIsLocked, Guarded, PersistExchange
<1>8. ASSUME NEW r \in Turns, CommitTurn(r) PROVE Locking'
  <2>1. rowLock = r
    BY <1>8 DEF CommitTurn, Locking, GuardedIsLocked, Guarded
  <2> QED
    BY <2>1, <1>8, LockingEnd DEF Guarded, CommitTurn
<1>9. ASSUME NEW r \in Turns, FailTurn(r) PROVE Locking'
  BY <1>9, LockingEnd DEF Guarded, FailTurn, Rollback
<1>10. ASSUME NEW r \in Turns, CacheMessage(r) \/ CacheAnswer(r) PROVE Locking'
  BY <1>10, LockingFrame DEF Guarded, CacheMessage, CacheAnswer, database
<1>11. ASSUME NEW r \in Turns, ReleaseRequestLock(r) PROVE Locking'
  BY <1>11, LockingFrame DEF Guarded, ReleaseRequestLock, database
<1>12. ASSUME NEW r \in Turns, CloseSession(r) PROVE Locking'
  BY <1>12, LockingEnd DEF Guarded, CloseSession, Rollback
<1>13. ASSUME NEW r \in Turns, Disconnect(r) PROVE Locking'
  BY <1>13, LockingFrame DEF Guarded, Disconnect, database
<1>14. ASSUME NEW r \in Turns, CloseBeforeRelease(r) PROVE Locking'
  <2>1. pc' = [pc EXCEPT ![r] = "release"]
    BY <1>14 DEF CloseBeforeRelease, TypeOK
  <2> QED
    BY <2>1, <1>14, LockingEnd DEF Guarded, CloseBeforeRelease, Rollback
<1>15. ASSUME NEW d \in Deletes, FindOwned(d) \/ DeleteSession(d) PROVE Locking'
  BY <1>15, LockingFrame DEF Guarded, FindOwned, DeleteSession, database
<1>16. ASSUME NEW d \in Deletes, TargetRow(d) PROVE Locking'
  <2>1. UNCHANGED <<row, rowLock, draft>> /\ \A r \in Turns : pc'[r] = pc[r]
    BY <1>16 DEF TypeOK, TargetRow, database
  <2>2. \A r \in Turns : snapshot'[r] = snapshot[r]
    BY <1>16 DEF TypeOK, TargetRow
  <2> QED
    BY <2>1, <2>2
    DEF Locking, DraftsAreLocked, LockedRowExists, SelectedRowIsReal, GuardedIsLocked
<1>17. ASSUME NEW d \in Deletes, RemoveRow(d) PROVE Locking'
  <2>1. \A r \in Turns : pc'[r] = pc[r] /\ snapshot'[r] = snapshot[r]
    BY <1>17 DEF TypeOK, RemoveRow
  <2>2. \A r \in Turns : pc[r] \in Guarded => rowLock' = rowLock
    BY <1>17 DEF RemoveRow, RowFreeFor, Locking, GuardedIsLocked
  <2>3. DraftsAreLocked' /\ LockedRowExists'
    BY <1>17 DEF TypeOK, RemoveRow, RowFreeFor, Locking, DraftsAreLocked, LockedRowExists
  <2> QED
    BY <2>1, <2>2, <2>3
    DEF Locking, SelectedRowIsReal, GuardedIsLocked
<1>18. ASSUME NEW d \in Deletes, CommitDelete(d) PROVE Locking'
  <2>1. draft[d].delete => rowLock = d
    BY NoDraftFacts DEF Locking, DraftsAreLocked
  <2> QED
    BY <2>1, <1>18, LockingEnd DEF Guarded, CommitDelete
<1>19. ASSUME ExpireRequestLock PROVE Locking'
  BY <1>19
  DEF ExpireRequestLock, database, Locking, DraftsAreLocked, LockedRowExists,
      SelectedRowIsReal, GuardedIsLocked
<1>20. ASSUME NEW r \in Requests, Crash(r) PROVE Locking'
  BY <1>20, LockingEnd DEF Guarded, Crash, Rollback
<1>21. CASE UNCHANGED vars
  BY <1>21
  DEF vars, database, Locking, DraftsAreLocked, LockedRowExists,
      SelectedRowIsReal, GuardedIsLocked
<1> QED
  BY <1>1, <1>2, <1>3, <1>4, <1>5, <1>6, <1>7, <1>8, <1>9, <1>10, <1>11, <1>12, <1>13,
     <1>14, <1>15, <1>16, <1>17, <1>18, <1>19, <1>20, <1>21
  DEF Next, TurnStep, DeleteStep, Finished

-----------------------------------------------------------------------------
(* The context of a turn.                                                  *)

LEMMA ContextFrame ==
    ASSUME TypeOK, FreshContext, NEW r \in Requests, NEW step,
           step \notin {"gates", "persist", "commit"},
           pc' = [pc EXCEPT ![r] = step],
           UNCHANGED <<messages, history>>
    PROVE  FreshContext'
BY DEF TypeOK, FreshContext, Turns, Requests

\* Whoever changes the messages holds the row lock, so no other turn is between
\* reading its context and committing.
LEMMA ContextCommit ==
    ASSUME TypeOK, Locking, FreshContext, NEW r \in Requests, NEW step,
           step \notin {"gates", "persist", "commit"},
           pc' = [pc EXCEPT ![r] = step],
           rowLock = r,
           UNCHANGED history
    PROVE  FreshContext'
<1> SUFFICES ASSUME NEW q \in Turns, pc'[q] \in {"gates", "persist", "commit"}
             PROVE  FALSE
  BY DEF FreshContext
<1>1. q # r /\ pc[q] \in Guarded
  BY DEF TypeOK, Guarded, Turns, Requests
<1> QED
  BY <1>1 DEF Locking, GuardedIsLocked

LEMMA ContextStep ==
    ASSUME TypeOK, Locking, FreshContext, [Next]_vars
    PROVE  FreshContext'
<1> USE DEF Turns, Requests, Goto, Answer
<1>1. ASSUME NEW r \in Turns, AcquireRequestLock(r) PROVE FreshContext'
  BY <1>1, ContextFrame DEF database, AcquireRequestLock
<1>2. ASSUME NEW r \in Turns, InsertConversation(r) \/ SelectConversation(r)
      PROVE FreshContext'
  BY <1>2, ContextFrame DEF database, InsertConversation, SelectConversation
<1>3. ASSUME NEW r \in Turns, LockConversation(r) PROVE FreshContext'
  BY <1>3, ContextFrame DEF LockConversation
<1>4. ASSUME NEW r \in Turns, ReadHistory(r) PROVE FreshContext'
  BY <1>4 DEF TypeOK, FreshContext, database, ReadHistory
<1>5. ASSUME NEW r \in Turns, RunGates(r) PROVE FreshContext'
  BY <1>5 DEF TypeOK, FreshContext, database, RunGates
<1>6. ASSUME NEW r \in Turns, PersistExchange(r) PROVE FreshContext'
  BY <1>6 DEF TypeOK, FreshContext, PersistExchange
<1>7. ASSUME NEW r \in Turns, CommitTurn(r) PROVE FreshContext'
  <2>1. rowLock = r
    BY <1>7 DEF CommitTurn, Locking, GuardedIsLocked, Guarded
  <2> QED
    BY <2>1, <1>7, ContextCommit DEF CommitTurn
<1>8. ASSUME NEW r \in Turns, FailTurn(r) \/ CloseSession(r) PROVE FreshContext'
  BY <1>8, ContextFrame DEF FailTurn, CloseSession, Rollback
<1>9. ASSUME NEW r \in Turns, CacheMessage(r) \/ CacheAnswer(r) PROVE FreshContext'
  BY <1>9, ContextFrame DEF CacheMessage, CacheAnswer, database
<1>10. ASSUME NEW r \in Turns, ReleaseRequestLock(r) \/ Disconnect(r) PROVE FreshContext'
  BY <1>10, ContextFrame DEF ReleaseRequestLock, Disconnect, database
<1>11. ASSUME NEW r \in Turns, CloseBeforeRelease(r) PROVE FreshContext'
  BY <1>11 DEF FreshContext, CloseBeforeRelease, Rollback
<1>12. ASSUME NEW d \in Deletes, FindOwned(d) \/ TargetRow(d) PROVE FreshContext'
  BY <1>12, ContextFrame DEF FindOwned, TargetRow, database
<1>13. ASSUME NEW d \in Deletes, RemoveRow(d) \/ DeleteSession(d) PROVE FreshContext'
  BY <1>13, ContextFrame DEF RemoveRow, DeleteSession, database
<1>14. ASSUME NEW d \in Deletes, CommitDelete(d) PROVE FreshContext'
  <2>1. CASE draft[d].delete
    <3>1. rowLock = d
      BY <2>1, NoDraftFacts DEF Locking, DraftsAreLocked
    <3> QED
      BY <3>1, <1>14, ContextCommit DEF CommitDelete
  <2>2. CASE ~draft[d].delete
    BY <2>2, <1>14, ContextFrame DEF CommitDelete
  <2> QED
    BY <2>1, <2>2
<1>15. ASSUME ExpireRequestLock PROVE FreshContext'
  BY <1>15 DEF ExpireRequestLock, database, FreshContext
<1>16. ASSUME NEW r \in Requests, Crash(r) PROVE FreshContext'
  BY <1>16, ContextFrame DEF Crash, Rollback
<1>17. CASE UNCHANGED vars
  BY <1>17 DEF vars, database, FreshContext
<1> QED
  BY <1>1, <1>2, <1>3, <1>4, <1>5, <1>6, <1>7, <1>8, <1>9, <1>10, <1>11, <1>12, <1>13,
     <1>14, <1>15, <1>16, <1>17
  DEF Next, TurnStep, DeleteStep, Finished

-----------------------------------------------------------------------------
(* The numbering of the transcript.                                        *)

\* max(sequence_no) is the number of messages when they are numbered from 1.
LEMMA LastNoIsCount ==
    ASSUME NEW msgs, IsFiniteSet(msgs), {m.no : m \in msgs} = 1..Cardinality(msgs)
    PROVE  LastNo(msgs) = Cardinality(msgs)
<1>1. Cardinality(msgs) \in Nat
  BY FS_CardinalityType
<1>2. CASE msgs = {}
  BY <1>2, FS_EmptySet DEF LastNo
<1>3. CASE msgs # {}
  <2>1. Cardinality(msgs) # 0
    BY <1>3, FS_EmptySet
  <2>2. Cardinality(msgs) \in {m.no : m \in msgs}
    BY <1>1, <2>1
  <2>3. \A m \in msgs : m.no \in 1..Cardinality(msgs)
    OBVIOUS
  <2>4. \A n \in {m.no : m \in msgs} :
            (\A m \in msgs : m.no <= n) => n = Cardinality(msgs)
    BY <1>1, <2>2, <2>3
  <2>5. \A m \in msgs : m.no <= Cardinality(msgs)
    BY <1>1, <2>3
  <2> QED
    BY <1>3, <2>2, <2>4, <2>5 DEF LastNo
<1> QED
  BY <1>2, <1>3

\* An exchange appended to a numbered transcript leaves it numbered.
LEMMA ExchangeExtends ==
    ASSUME NEW msgs, IsFiniteSet(msgs), {m.no : m \in msgs} = 1..Cardinality(msgs),
           NEW r \in Turns, NEW next, next = msgs \union Exchange(r, Cardinality(msgs))
    PROVE  IsFiniteSet(next) /\ {m.no : m \in next} = 1..Cardinality(next)
<1> DEFINE count == Cardinality(msgs)
           question == [no |-> count + 1, role |-> "user", by |-> r]
           response == [no |-> count + 2, role |-> "assistant", by |-> r]
<1>1. count \in Nat
  BY FS_CardinalityType
<1>2. \A m \in msgs : m.no \in 1..count
  OBVIOUS
<1>3. question.no = count + 1 /\ response.no = count + 2
  OBVIOUS
<1>4. question \notin msgs /\ response \notin msgs \union {question}
  BY <1>1, <1>2, <1>3
<1>5. /\ IsFiniteSet(msgs \union {question})
      /\ Cardinality(msgs \union {question}) = count + 1
  BY <1>4, FS_AddElement
<1>6. next = (msgs \union {question}) \union {response}
  BY DEF Exchange
<1>7. IsFiniteSet(next) /\ Cardinality(next) = count + 2
  <2>1. /\ IsFiniteSet((msgs \union {question}) \union {response})
        /\ Cardinality((msgs \union {question}) \union {response})
             = Cardinality(msgs \union {question}) + 1
    BY <1>4, <1>5, FS_AddElement
  <2>2. IsFiniteSet(next) /\ Cardinality(next) = Cardinality(msgs \union {question}) + 1
    BY <1>6, <2>1, Zenon
  <2>3. Cardinality(next) = (count + 1) + 1
    BY <1>5, <2>2, Zenon
  <2>4. (count + 1) + 1 = count + 2
    BY <1>1
  <2> QED
    BY <2>2, <2>3, <2>4, Zenon
<1>8. {m.no : m \in next} = {m.no : m \in msgs} \union {count + 1, count + 2}
  BY <1>3, <1>6
<1>9. 1..(count + 2) = (1..count) \union {count + 1, count + 2}
  BY <1>1
<1> QED
  BY <1>7, <1>8, <1>9

\* A step that leaves the messages and the drafts of committing turns alone.
LEMMA NumberingFrame ==
    ASSUME Numbering,
           UNCHANGED messages,
           \A r \in Turns : pc'[r] = "commit" => /\ pc[r] = "commit"
                                                 /\ draft'[r] = draft[r]
    PROVE  Numbering'
BY DEF Numbering, WellNumbered, CommitsNextExchange

\* A step of r that does not lead to its commit and writes no draft but its own.
LEMMA NumberingOfOthers ==
    ASSUME TypeOK, Numbering, NEW r \in Requests, NEW step, step # "commit",
           pc' = [pc EXCEPT ![r] = step],
           UNCHANGED messages,
           \A q \in Turns : q # r => draft'[q] = draft[q]
    PROVE  Numbering'
<1>1. \A q \in Turns : pc'[q] = "commit" => q # r /\ pc[q] = "commit"
  BY DEF TypeOK, Turns, Requests
<1> QED
  BY <1>1, NumberingFrame

LEMMA PersistNumbering ==
    ASSUME TypeOK, Numbering, NEW r \in Turns, PersistExchange(r)
    PROVE  Numbering'
<1> USE DEF PersistExchange, Goto
<1>1. IsFiniteSet(messages)' /\ WellNumbered'
  BY DEF Numbering, WellNumbered
<1>2. CommitsNextExchange'
  <2> SUFFICES ASSUME NEW q \in Turns, pc'[q] = "commit"
               PROVE  draft'[q].add = Exchange(q, LastNo(messages))
    BY DEF CommitsNextExchange
  <2>1. CASE q = r
    BY <2>1 DEF TypeOK, Turns, Requests
  <2>2. CASE q # r
    BY <2>2 DEF TypeOK, Numbering, CommitsNextExchange, Turns, Requests
  <2> QED
    BY <2>1, <2>2
<1> QED
  BY <1>1, <1>2 DEF Numbering

LEMMA CommitNumbering ==
    ASSUME TypeOK, Locking, Numbering, NEW r \in Turns, CommitTurn(r)
    PROVE  Numbering'
<1> USE DEF CommitTurn, Goto
<1>1. LastNo(messages) = Cardinality(messages)
  BY LastNoIsCount DEF Numbering, WellNumbered
<1>2. messages' = messages \union Exchange(r, Cardinality(messages))
  BY <1>1 DEF Numbering, CommitsNextExchange
<1>3. IsFiniteSet(messages') /\ {m.no : m \in messages'} = 1..Cardinality(messages')
  BY <1>2, ExchangeExtends DEF Numbering, WellNumbered
<1>4. ASSUME NEW m \in messages', m.role = "user"
      PROVE  [no |-> m.no + 1, role |-> "assistant", by |-> m.by] \in messages'
  <2>1. CASE m \in messages
    BY <2>1, <1>2, <1>4 DEF Numbering, WellNumbered
  <2>2. CASE m \in Exchange(r, Cardinality(messages))
    <3>1. m = [no |-> Cardinality(messages) + 1, role |-> "user", by |-> r]
      BY <2>2, <1>4 DEF Exchange
    <3>2. Cardinality(messages) \in Nat
      BY FS_CardinalityType DEF Numbering
    <3>3. m.no + 1 = Cardinality(messages) + 2 /\ m.by = r
      BY <3>1, <3>2
    <3> QED
      BY <1>2, <3>3 DEF Exchange
  <2> QED
    BY <1>2, <2>1, <2>2
<1>5. \A q \in Turns : pc'[q] # "commit"
  <2>1. rowLock = r
    BY DEF Locking, GuardedIsLocked, Guarded
  <2> QED
    BY <2>1 DEF TypeOK, Locking, GuardedIsLocked, Guarded, Turns, Requests
<1> QED
  BY <1>3, <1>4, <1>5 DEF Numbering, WellNumbered, CommitsNextExchange

LEMMA EraseNumbering ==
    ASSUME TypeOK, Locking, Numbering, NEW d \in Deletes, CommitDelete(d)
    PROVE  Numbering'
<1> USE DEF CommitDelete, Goto, EndTransaction
<1>1. CASE draft[d].delete
  <2>1. messages' = {}
    BY <1>1
  <2>2. IsFiniteSet({}) /\ Cardinality({}) = 0 /\ 1..0 = {}
    BY FS_EmptySet
  <2>3. WellNumbered'
    <3>1. {m.no : m \in {}} = 1..Cardinality({})
      BY <2>2
    <3> QED
      BY <2>1, <3>1 DEF WellNumbered
  <2>4. rowLock = d
    BY <1>1, NoDraftFacts DEF Locking, DraftsAreLocked, Requests
  <2>5. \A q \in Turns : pc'[q] # "commit"
    BY <2>4, ConstantsAssumption
    DEF TypeOK, Locking, GuardedIsLocked, Guarded, Turns, Requests
  <2> QED
    BY <2>1, <2>2, <2>3, <2>5 DEF Numbering, CommitsNextExchange
<1>2. CASE ~draft[d].delete
  BY <1>2, NumberingOfOthers DEF TypeOK, Turns, Requests
<1> QED
  BY <1>1, <1>2

LEMMA NumberingStep ==
    ASSUME TypeOK, Locking, Numbering, [Next]_vars
    PROVE  Numbering'
<1> USE DEF Turns, Requests, Goto, Answer
<1>1. ASSUME NEW r \in Turns, AcquireRequestLock(r) PROVE Numbering'
  BY <1>1, NumberingOfOthers DEF database, AcquireRequestLock
<1>2. ASSUME NEW r \in Turns, InsertConversation(r) PROVE Numbering'
  BY <1>2, NumberingOfOthers DEF TypeOK, InsertConversation
<1>3. ASSUME NEW r \in Turns, SelectConversation(r) \/ LockConversation(r)
      PROVE Numbering'
  BY <1>3, NumberingOfOthers DEF database, SelectConversation, LockConversation
<1>4. ASSUME NEW r \in Turns, ReadHistory(r) \/ RunGates(r) PROVE Numbering'
  BY <1>4, NumberingOfOthers DEF database, ReadHistory, RunGates
<1>5. ASSUME NEW r \in Turns, PersistExchange(r) PROVE Numbering'
  BY <1>5, PersistNumbering
<1>6. ASSUME NEW r \in Turns, CommitTurn(r) PROVE Numbering'
  BY <1>6, CommitNumbering
<1>7. ASSUME NEW r \in Turns, FailTurn(r) \/ CloseSession(r) PROVE Numbering'
  BY <1>7, NumberingOfOthers
  DEF TypeOK, FailTurn, CloseSession, Rollback, EndTransaction
<1>8. ASSUME NEW r \in Turns, CacheMessage(r) \/ CacheAnswer(r) PROVE Numbering'
  BY <1>8, NumberingOfOthers DEF CacheMessage, CacheAnswer, database
<1>9. ASSUME NEW r \in Turns, ReleaseRequestLock(r) \/ Disconnect(r) PROVE Numbering'
  BY <1>9, NumberingOfOthers DEF ReleaseRequestLock, Disconnect, database
<1>10. ASSUME NEW r \in Turns, CloseBeforeRelease(r) PROVE Numbering'
  BY <1>10, NumberingFrame DEF TypeOK, CloseBeforeRelease, Rollback, EndTransaction
<1>11. ASSUME NEW d \in Deletes, FindOwned(d) \/ TargetRow(d) \/ DeleteSession(d)
       PROVE Numbering'
  BY <1>11, NumberingOfOthers DEF FindOwned, TargetRow, DeleteSession, database
<1>12. ASSUME NEW d \in Deletes, RemoveRow(d) PROVE Numbering'
  BY <1>12, NumberingOfOthers DEF TypeOK, RemoveRow
<1>13. ASSUME NEW d \in Deletes, CommitDelete(d) PROVE Numbering'
  BY <1>13, EraseNumbering
<1>14. ASSUME ExpireRequestLock PROVE Numbering'
  BY <1>14, NumberingFrame DEF ExpireRequestLock, database
<1>15. ASSUME NEW r \in Requests, Crash(r) PROVE Numbering'
  BY <1>15, NumberingOfOthers DEF TypeOK, Crash, Rollback, EndTransaction
<1>16. CASE UNCHANGED vars
  BY <1>16, NumberingFrame DEF vars, database
<1> QED
  BY <1>1, <1>2, <1>3, <1>4, <1>5, <1>6, <1>7, <1>8, <1>9, <1>10, <1>11, <1>12, <1>13,
     <1>14, <1>15, <1>16
  DEF Next, TurnStep, DeleteStep, Finished

-----------------------------------------------------------------------------
(* Whose transcript it is.                                                 *)

\* A step that leaves the database alone and does not enter a guarded step.
LEMMA OwnershipFrame ==
    ASSUME TypeOK, Ownership, NEW r \in Requests, NEW step, step \notin Guarded,
           pc' = [pc EXCEPT ![r] = step],
           UNCHANGED <<row, messages, draft>>
    PROVE  Ownership'
<1>1. \A q \in Turns : pc'[q] \in Guarded => pc[q] \in Guarded
  BY DEF TypeOK, Turns, Requests
<1> QED
  BY <1>1 DEF Ownership, EmptyWithoutRow, InsertedIsNew, GuardedIsOwner, OwnsRow, RowSeenBy,
              OneClientPerTranscript, Guarded

LEMMA OwnershipRollback ==
    ASSUME TypeOK, Ownership, NEW r \in Requests, NEW step, step \notin Guarded,
           pc' = [pc EXCEPT ![r] = step],
           Rollback(r)
    PROVE  Ownership'
<1> USE DEF Rollback, EndTransaction
<1>1. \A q \in Turns : pc'[q] \in Guarded => pc[q] \in Guarded /\ q # r
  BY DEF TypeOK, Turns, Requests
<1>2. \A q \in Requests : q # r => draft'[q] = draft[q]
  BY DEF TypeOK
<1>3. GuardedIsOwner'
  BY <1>1, <1>2 DEF Ownership, GuardedIsOwner, OwnsRow, RowSeenBy, Turns, Requests, Guarded
<1>4. InsertedIsNew'
  BY NoDraftFacts DEF TypeOK, Ownership, InsertedIsNew
<1> QED
  BY <1>3, <1>4 DEF Ownership, EmptyWithoutRow, OneClientPerTranscript

LEMMA InsertOwnership ==
    ASSUME TypeOK, Ownership, NEW r \in Turns, InsertConversation(r)
    PROVE  Ownership'
<1> USE DEF InsertConversation, Goto
<1>1. \A q \in Requests : q # r => draft'[q] = draft[q]
  BY DEF TypeOK, Turns, Requests
<1>2. \A q \in Turns : pc'[q] \in Guarded => pc[q] \in Guarded /\ q # r
  BY DEF TypeOK, Turns, Requests, Guarded
<1>3. GuardedIsOwner'
  BY <1>1, <1>2 DEF Ownership, GuardedIsOwner, OwnsRow, RowSeenBy, Turns, Requests, Guarded
<1>4. InsertedIsNew'
  <2>1. row # NoRow => draft' = draft
    OBVIOUS
  <2>2. row' = row
    OBVIOUS
  <2> QED
    BY <2>1, <2>2 DEF Ownership, InsertedIsNew
<1> QED
  BY <1>3, <1>4 DEF Ownership, EmptyWithoutRow, OneClientPerTranscript

LEMMA CommitOwnership ==
    ASSUME TypeOK, Locking, Numbering, Ownership, NEW r \in Turns, CommitTurn(r)
    PROVE  Ownership'
<1> USE DEF CommitTurn, Goto, EndTransaction
<1>1. rowLock = r
  BY DEF Locking, GuardedIsLocked, Guarded
<1>2. row'.client = ClientOf[r] /\ row' \in Row
  BY SeenIsRow DEF Ownership, GuardedIsOwner, OwnsRow, Guarded, Turns, Requests
<1>3. row' # NoRow
  BY <1>2, NoDraftFacts, ConstantsAssumption DEF Turns, Requests
<1>4. \A q \in Requests : ~draft'[q].insert
  BY <1>1, NoDraftFacts DEF TypeOK, Locking, DraftsAreLocked
<1>5. \A q \in Turns : pc'[q] \notin Guarded
  BY <1>1 DEF TypeOK, Locking, GuardedIsLocked, Guarded, Turns, Requests
<1>6. OneClientPerTranscript'
  <2> SUFFICES ASSUME NEW m \in messages' PROVE row'.client = ClientOf[m.by]
    BY DEF OneClientPerTranscript
  <2>1. CASE m \in messages
    <3>1. row # NoRow
      BY <2>1 DEF Ownership, EmptyWithoutRow
    <3>2. ~draft[r].insert
      BY <3>1 DEF Ownership, InsertedIsNew, Turns, Requests
    <3> QED
      BY <2>1, <3>2 DEF RowSeenBy, Ownership, OneClientPerTranscript
  <2>2. CASE m \notin messages
    <3>1. m \in Exchange(r, LastNo(messages))
      BY <2>2 DEF Numbering, CommitsNextExchange
    <3>2. m.by = r
      BY <3>1 DEF Exchange
    <3> QED
      BY <1>2, <3>2
  <2> QED
    BY <2>1, <2>2
<1> QED
  BY <1>3, <1>4, <1>5, <1>6 DEF Ownership, EmptyWithoutRow, InsertedIsNew, GuardedIsOwner

LEMMA EraseOwnership ==
    ASSUME TypeOK, Locking, Ownership, NEW d \in Deletes, CommitDelete(d)
    PROVE  Ownership'
<1>1. CASE draft[d].delete
  <2> USE DEF CommitDelete, Goto, EndTransaction
  <2>1. rowLock = d
    BY <1>1, NoDraftFacts DEF Locking, DraftsAreLocked, Requests
  <2>2. \A q \in Requests : ~draft'[q].insert
    BY <2>1, NoDraftFacts DEF TypeOK, Locking, DraftsAreLocked
  <2>3. \A q \in Turns : pc'[q] \notin Guarded
    BY <2>1, ConstantsAssumption
    DEF TypeOK, Locking, GuardedIsLocked, Guarded, Turns, Requests
  <2>4. messages' = {}
    BY <1>1
  <2> QED
    BY <2>2, <2>3, <2>4
    DEF Ownership, EmptyWithoutRow, InsertedIsNew, GuardedIsOwner, OneClientPerTranscript
<1>2. CASE ~draft[d].delete
  BY <1>2, OwnershipRollback DEF CommitDelete, Rollback, Guarded, Goto, Requests
<1> QED
  BY <1>1, <1>2

LEMMA OwnershipStep ==
    ASSUME TypeOK, Locking, Numbering, Ownership, [Next]_vars
    PROVE  Ownership'
<1> USE DEF Turns, Requests, Goto, Answer
<1>1. ASSUME NEW r \in Turns, AcquireRequestLock(r) \/ SelectConversation(r)
      PROVE Ownership'
  BY <1>1, OwnershipFrame DEF database, AcquireRequestLock, SelectConversation, Guarded
<1>2. ASSUME NEW r \in Turns, InsertConversation(r) PROVE Ownership'
  BY <1>2, InsertOwnership
<1>3. ASSUME NEW r \in Turns, LockConversation(r) PROVE Ownership'
  BY <1>3 DEF TypeOK, LockConversation, Ownership, EmptyWithoutRow, InsertedIsNew, GuardedIsOwner,
              OwnsRow, RowSeenBy, OneClientPerTranscript, Guarded
<1>4. ASSUME NEW r \in Turns, ReadHistory(r) \/ RunGates(r) PROVE Ownership'
  BY <1>4 DEF TypeOK, ReadHistory, RunGates, database, Ownership, EmptyWithoutRow, InsertedIsNew,
              GuardedIsOwner, OwnsRow, RowSeenBy, OneClientPerTranscript, Guarded
<1>5. ASSUME NEW r \in Turns, PersistExchange(r) PROVE Ownership'
  <2>1. \A q \in Requests : draft'[q].insert = draft[q].insert
    BY <1>5 DEF TypeOK, PersistExchange
  <2>2. UNCHANGED <<row, messages>>
    BY <1>5 DEF PersistExchange
  <2>3. \A q \in Turns : pc'[q] \in Guarded => pc[q] \in Guarded
    BY <1>5 DEF TypeOK, PersistExchange, Guarded
  <2> QED
    BY <2>1, <2>2, <2>3
    DEF Ownership, EmptyWithoutRow, InsertedIsNew, GuardedIsOwner, OwnsRow, RowSeenBy,
        OneClientPerTranscript, Guarded
<1>6. ASSUME NEW r \in Turns, CommitTurn(r) PROVE Ownership'
  BY <1>6, CommitOwnership
<1>7. ASSUME NEW r \in Turns, FailTurn(r) \/ CloseSession(r) PROVE Ownership'
  BY <1>7, OwnershipRollback DEF FailTurn, CloseSession, Guarded
<1>8. ASSUME NEW r \in Turns, CacheMessage(r) \/ CacheAnswer(r) PROVE Ownership'
  BY <1>8, OwnershipFrame DEF CacheMessage, CacheAnswer, database, Guarded
<1>9. ASSUME NEW r \in Turns, ReleaseRequestLock(r) \/ Disconnect(r) PROVE Ownership'
  BY <1>9, OwnershipFrame DEF ReleaseRequestLock, Disconnect, database, Guarded
<1>10. ASSUME NEW r \in Turns, CloseBeforeRelease(r) PROVE Ownership'
  <2>1. pc' = [pc EXCEPT ![r] = "release"]
    BY <1>10 DEF CloseBeforeRelease, TypeOK
  <2> QED
    BY <2>1, <1>10, OwnershipRollback DEF CloseBeforeRelease, Guarded
<1>11. ASSUME NEW d \in Deletes, FindOwned(d) \/ TargetRow(d) \/ DeleteSession(d)
       PROVE Ownership'
  BY <1>11, OwnershipFrame DEF FindOwned, TargetRow, DeleteSession, database, Guarded
<1>12. ASSUME NEW d \in Deletes, RemoveRow(d) PROVE Ownership'
  <2>1. \A q \in Requests : draft'[q].insert = draft[q].insert
    BY <1>12 DEF TypeOK, RemoveRow
  <2>2. UNCHANGED <<row, messages>>
    BY <1>12 DEF RemoveRow
  <2>3. \A q \in Turns : pc'[q] \in Guarded => pc[q] \in Guarded
    BY <1>12 DEF TypeOK, RemoveRow, Guarded
  <2> QED
    BY <2>1, <2>2, <2>3
    DEF Ownership, EmptyWithoutRow, InsertedIsNew, GuardedIsOwner, OwnsRow, RowSeenBy,
        OneClientPerTranscript, Guarded
<1>13. ASSUME NEW d \in Deletes, CommitDelete(d) PROVE Ownership'
  BY <1>13, EraseOwnership
<1>14. ASSUME ExpireRequestLock PROVE Ownership'
  BY <1>14 DEF ExpireRequestLock, database, Ownership, EmptyWithoutRow, InsertedIsNew, GuardedIsOwner,
               OwnsRow, RowSeenBy, OneClientPerTranscript, Guarded
<1>15. ASSUME NEW r \in Requests, Crash(r) PROVE Ownership'
  BY <1>15, OwnershipRollback DEF Crash, Guarded
<1>16. CASE UNCHANGED vars
  BY <1>16 DEF vars, database, Ownership, EmptyWithoutRow, InsertedIsNew, GuardedIsOwner, OwnsRow,
               RowSeenBy, OneClientPerTranscript, Guarded
<1> QED
  BY <1>1, <1>2, <1>3, <1>4, <1>5, <1>6, <1>7, <1>8, <1>9, <1>10, <1>11, <1>12, <1>13,
     <1>14, <1>15, <1>16
  DEF Next, TurnStep, DeleteStep, Finished

-----------------------------------------------------------------------------
(* Types.                                                                  *)

LEMMA ExchangeType ==
    ASSUME TypeOK, Numbering, NEW r \in Turns
    PROVE  Exchange(r, LastNo(messages)) \subseteq Message
<1>1. LastNo(messages) \in Nat
  BY LastNoIsCount, FS_CardinalityType DEF Numbering, WellNumbered
<1> QED
  BY <1>1 DEF Exchange, Message

LEMMA EndTransactionType ==
    ASSUME TypeOK, NEW r \in Requests, EndTransaction(r)
    PROVE  /\ rowLock' \in Requests \union {NoOne}
           /\ draft' \in [Requests -> [insert : BOOLEAN, delete : BOOLEAN,
                                       add : SUBSET Message]]
<1>1. NoDraft \in [insert : BOOLEAN, delete : BOOLEAN, add : SUBSET Message]
  BY DEF NoDraft
<1> QED
  BY <1>1 DEF TypeOK, EndTransaction

LEMMA TypeStep ==
    ASSUME TypeOK, Numbering, [Next]_vars
    PROVE  TypeOK'
<1> USE DEF Turns, Requests, Goto, Answer, TurnSteps, DeleteSteps
<1>1. ASSUME NEW r \in Turns, AcquireRequestLock(r) PROVE TypeOK'
  BY <1>1 DEF TypeOK, database, AcquireRequestLock
<1>2. ASSUME NEW r \in Turns, InsertConversation(r) PROVE TypeOK'
  <2>1. [draft EXCEPT ![r].insert = TRUE]
            \in [Requests -> [insert : BOOLEAN, delete : BOOLEAN, add : SUBSET Message]]
    BY DEF TypeOK
  <2> QED
    BY <2>1, <1>2 DEF TypeOK, redis, InsertConversation
<1>3. ASSUME NEW r \in Turns, SelectConversation(r) PROVE TypeOK'
  <2>1. RowSeenBy(r).creator \in Requests \union {NoOne}
    BY SeenIsRow, RealRows, NoDraftFacts
  <2> QED
    BY <2>1, <1>3 DEF TypeOK, redis, database, SelectConversation
<1>4. ASSUME NEW r \in Turns, LockConversation(r) PROVE TypeOK'
  BY <1>4 DEF TypeOK, redis, LockConversation
<1>5. ASSUME NEW r \in Turns, ReadHistory(r) PROVE TypeOK'
  <2>1. Newest(messages) \subseteq Message
    BY DEF TypeOK, Newest
  <2> QED
    BY <2>1, <1>5 DEF TypeOK, redis, database, ReadHistory
<1>6. ASSUME NEW r \in Turns, RunGates(r) PROVE TypeOK'
  BY <1>6 DEF TypeOK, database, RunGates
<1>7. ASSUME NEW r \in Turns, PersistExchange(r) PROVE TypeOK'
  <2>1. Exchange(r, LastNo(messages)) \in SUBSET Message
    BY ExchangeType
  <2>2. draft' \in [Requests -> [insert : BOOLEAN, delete : BOOLEAN, add : SUBSET Message]]
    BY <2>1, <1>7 DEF TypeOK, PersistExchange
  <2> QED
    BY <2>2, <1>7 DEF TypeOK, redis, PersistExchange
<1>8. ASSUME NEW r \in Turns, CommitTurn(r) PROVE TypeOK'
  <2>1. row' \in Row
    BY <1>8, SeenIsRow DEF CommitTurn
  <2>2. messages' \subseteq Message
    BY <1>8 DEF TypeOK, CommitTurn
  <2> QED
    BY <2>1, <2>2, <1>8, EndTransactionType DEF TypeOK, redis, CommitTurn
<1>9. ASSUME NEW r \in Turns, FailTurn(r) \/ CloseSession(r) PROVE TypeOK'
  BY <1>9, EndTransactionType DEF TypeOK, redis, FailTurn, CloseSession, Rollback
<1>10. ASSUME NEW r \in Turns, CacheMessage(r) \/ CacheAnswer(r) PROVE TypeOK'
  BY <1>10 DEF TypeOK, database, CacheMessage, CacheAnswer
<1>11. ASSUME NEW r \in Turns, ReleaseRequestLock(r) PROVE TypeOK'
  <2>1. ReplyOfFailedRelease(r) \in {"none", "conflict", "not_found", "answer", "error", "cut"}
    BY DEF TypeOK, ReplyOfFailedRelease
  <2>2. reply' \in [Requests -> {"none", "conflict", "not_found", "answer", "error", "cut"}]
    BY <1>11, <2>1 DEF TypeOK, ReleaseRequestLock
  <2>3. requestLock' \in Turns \union {NoOne} /\ stranded' \subseteq Requests
    BY <1>11 DEF TypeOK, ReleaseRequestLock, LockAfterRelease
  <2> QED
    BY <1>11, <2>2, <2>3 DEF TypeOK, database, ReleaseRequestLock
<1>12. ASSUME NEW r \in Turns, Disconnect(r) PROVE TypeOK'
  BY <1>12 DEF TypeOK, redis, database, Disconnect
<1>13. ASSUME NEW r \in Turns, CloseBeforeRelease(r) PROVE TypeOK'
  BY <1>13, EndTransactionType DEF TypeOK, redis, CloseBeforeRelease, Rollback
<1>14. ASSUME NEW d \in Deletes, FindOwned(d) PROVE TypeOK'
  BY <1>14 DEF TypeOK, redis, database, FindOwned
<1>15. ASSUME NEW d \in Deletes, TargetRow(d) PROVE TypeOK'
  <2>1. row.creator \in Requests \union {NoOne}
    BY RealRows, NoDraftFacts DEF TypeOK
  <2> QED
    BY <2>1, <1>15 DEF TypeOK, redis, database, TargetRow
<1>16. ASSUME NEW d \in Deletes, RemoveRow(d) PROVE TypeOK'
  <2>1. [draft EXCEPT ![d].delete = TRUE]
            \in [Requests -> [insert : BOOLEAN, delete : BOOLEAN, add : SUBSET Message]]
    BY DEF TypeOK
  <2> QED
    BY <2>1, <1>16 DEF TypeOK, redis, RemoveRow
<1>17. ASSUME NEW d \in Deletes, CommitDelete(d) PROVE TypeOK'
  <2>1. row' \in Row /\ messages' \subseteq Message
    BY <1>17, NoDraftFacts DEF TypeOK, CommitDelete
  <2> QED
    BY <2>1, <1>17, EndTransactionType DEF TypeOK, redis, CommitDelete
<1>18. ASSUME NEW d \in Deletes, DeleteSession(d) PROVE TypeOK'
  BY <1>18 DEF TypeOK, database, DeleteSession
<1>19. ASSUME ExpireRequestLock PROVE TypeOK'
  BY <1>19 DEF TypeOK, database, ExpireRequestLock
<1>20. ASSUME NEW r \in Requests, Crash(r) PROVE TypeOK'
  BY <1>20, EndTransactionType DEF TypeOK, redis, Crash, Rollback
<1>21. CASE UNCHANGED vars
  BY <1>21 DEF TypeOK, vars, redis, database
<1> QED
  BY <1>1, <1>2, <1>3, <1>4, <1>5, <1>6, <1>7, <1>8, <1>9, <1>10, <1>11, <1>12, <1>13,
     <1>14, <1>15, <1>16, <1>17, <1>18, <1>19, <1>20, <1>21
  DEF Next, TurnStep, DeleteStep, Finished

-----------------------------------------------------------------------------
(* The theorems.                                                           *)

LEMMA InitInvariant == Init => IInv
<1> SUFFICES ASSUME Init PROVE IInv
  OBVIOUS
<1> USE ConstantsAssumption DEF Init
<1>1. TypeOK
  BY NoDraftFacts DEF TypeOK, TurnSteps, NoDraft
<1>2. Locking
  BY DEF Locking, DraftsAreLocked, LockedRowExists, SelectedRowIsReal, GuardedIsLocked, Guarded,
         Turns, Requests
<1>3. FreshContext
  BY DEF FreshContext, Turns, Requests
<1>4. Numbering
  <2>1. IsFiniteSet({}) /\ {m.no : m \in {}} = 1..Cardinality({})
    BY FS_EmptySet
  <2> QED
    BY <2>1 DEF Numbering, WellNumbered, CommitsNextExchange, Turns, Requests
<1>5. Ownership
  BY NoDraftFacts
  DEF Ownership, EmptyWithoutRow, InsertedIsNew, GuardedIsOwner, OneClientPerTranscript, Guarded,
      Turns, Requests
<1> QED
  BY <1>1, <1>2, <1>3, <1>4, <1>5 DEF IInv

\* The invariant behind the theorems below holds in every state of the program.
THEOREM InductiveInvariant == Spec => []IInv
<1>1. IInv /\ [Next]_vars => IInv'
  BY LockingStep, ContextStep, NumberingStep, OwnershipStep, TypeStep DEF IInv
<1> QED
  BY InitInvariant, <1>1, PTL DEF Spec

\* Every variable keeps its type; for the numbers of the messages this rests on
\* the transcript's being numbered without gaps.
THEOREM TypeCorrectness == Spec => []TypeOK
<1>1. IInv => TypeOK
  BY DEF IInv
<1> QED
  BY <1>1, InductiveInvariant, PTL

\* A turn commits against the context it has read, whatever expires, fails or is
\* deleted meanwhile: the row lock alone guarantees it (ensure_chat_access).
THEOREM ContextStaysFresh == Spec => []FreshContext
<1>1. IInv => FreshContext
  BY DEF IInv
<1> QED
  BY <1>1, InductiveInvariant, PTL

\* The transcript is numbered 1, 2, ... without gap or repetition, a question
\* before its answer (persist_exchange).
THEOREM TranscriptIsNumbered == Spec => []WellNumbered
<1>1. IInv => WellNumbered
  BY DEF IInv, Numbering
<1> QED
  BY <1>1, InductiveInvariant, PTL

\* No client's message ever stands in another client's conversation, also when an
\* id is deleted and used again (ensure_chat_access, delete_conversation).
THEOREM TranscriptHasOneClient == Spec => []OneClientPerTranscript
<1>1. IInv => OneClientPerTranscript
  BY DEF IInv, Ownership
<1> QED
  BY <1>1, InductiveInvariant, PTL

-----------------------------------------------------------------------------
(* The Redis lock and the reply.                                           *)

\* No step of a request changes a request lock that another request holds; only
\* the TTL does (release_request_lock compares the owner before it deletes).
THEOREM OnlyOwnLockReleased == Spec => ReleasesOnlyOwnLock
<1> DEFINE OwnOnly == \A r \in Turns : pc'[r] # pc[r] /\ requestLock \notin {NoOne, r}
                                           => requestLock' = requestLock
<1>1. ASSUME TypeOK, Next PROVE OwnOnly
  <2> USE DEF TypeOK, Turns, Requests, Goto
  <2>1. ASSUME NEW q \in Turns, AcquireRequestLock(q) PROVE OwnOnly
    BY <2>1 DEF AcquireRequestLock
  <2>2. ASSUME NEW q \in Turns, ReleaseRequestLock(q) PROVE OwnOnly
    BY <2>2 DEF ReleaseRequestLock, LockAfterRelease
  <2>3. ASSUME ExpireRequestLock PROVE OwnOnly
    BY <2>3 DEF ExpireRequestLock
  <2>4. ASSUME NEW q \in Turns,
               \/ InsertConversation(q) \/ SelectConversation(q) \/ LockConversation(q)
               \/ ReadHistory(q) \/ RunGates(q) \/ PersistExchange(q) \/ CommitTurn(q)
               \/ CacheMessage(q) \/ CacheAnswer(q) \/ CloseSession(q)
               \/ FailTurn(q) \/ Disconnect(q) \/ CloseBeforeRelease(q)
        PROVE  requestLock' = requestLock
    BY <2>4
    DEF redis, InsertConversation, SelectConversation, LockConversation, ReadHistory, RunGates,
        PersistExchange, CommitTurn, CacheMessage, CacheAnswer, CloseSession, FailTurn, Disconnect,
        CloseBeforeRelease
  <2>5. ASSUME NEW q \in Requests, DeleteStep(q) \/ Crash(q) PROVE requestLock' = requestLock
    BY <2>5
    DEF redis, DeleteStep, FindOwned, TargetRow, RemoveRow, CommitDelete, DeleteSession, Crash
  <2>6. CASE Finished
    BY <2>6 DEF Finished, vars, redis
  <2> QED
    BY <1>1, <2>1, <2>2, <2>3, <2>4, <2>5, <2>6 DEF Next, TurnStep
<1>2. TypeOK /\ [Next]_vars => [OwnOnly]_vars
  BY <1>1
<1> QED
  BY <1>2, TypeCorrectness, PTL DEF Spec, ReleasesOnlyOwnLock

\* Unless its process dies, or Redis fails just when it is taken or released, the
\* request lock is gone when its request is: nobody has to wait for the TTL (the
\* finally clauses of chat and chat_stream).
THEOREM LockDies == Spec => []LockDiesWithRequest
<1>1. Init => LockDiesWithRequest
  BY DEF Init, LockDiesWithRequest
<1>2. ASSUME TypeOK, LockDiesWithRequest, [Next]_vars PROVE LockDiesWithRequest'
  <2> USE <1>2, ConstantsAssumption
      DEF TypeOK, LockDiesWithRequest, Turns, Requests, Goto, redis
  <2>1. ASSUME NEW q \in Turns, AcquireRequestLock(q) PROVE LockDiesWithRequest'
    BY <2>1 DEF AcquireRequestLock
  <2>2. ASSUME NEW q \in Turns,
               InsertConversation(q) \/ SelectConversation(q) \/ LockConversation(q)
        PROVE  LockDiesWithRequest'
    BY <2>2 DEF InsertConversation, SelectConversation, LockConversation
  <2>3. ASSUME NEW q \in Turns,
               ReadHistory(q) \/ RunGates(q) \/ PersistExchange(q) \/ CommitTurn(q)
        PROVE  LockDiesWithRequest'
    BY <2>3 DEF ReadHistory, RunGates, PersistExchange, CommitTurn
  <2>4. ASSUME NEW q \in Turns, CacheMessage(q) \/ CacheAnswer(q) PROVE LockDiesWithRequest'
    BY <2>4 DEF CacheMessage, CacheAnswer
  <2>5. ASSUME NEW q \in Turns, ReleaseRequestLock(q) PROVE LockDiesWithRequest'
    BY <2>5 DEF ReleaseRequestLock, LockAfterRelease
  <2>6. ASSUME NEW q \in Turns, CloseSession(q) \/ FailTurn(q) PROVE LockDiesWithRequest'
    BY <2>6 DEF CloseSession, FailTurn
  <2>7. ASSUME NEW q \in Turns, Disconnect(q) \/ CloseBeforeRelease(q)
        PROVE  LockDiesWithRequest'
    BY <2>7 DEF Disconnect, CloseBeforeRelease
  <2>8. ASSUME NEW d \in Deletes, DeleteStep(d) PROVE LockDiesWithRequest'
    <3>1. UNCHANGED <<requestLock, stranded>> /\ \A q \in Turns : pc'[q] = pc[q]
      BY <2>8 DEF DeleteStep, FindOwned, TargetRow, RemoveRow, CommitDelete, DeleteSession
    <3> QED
      BY <3>1
  <2>9. CASE ExpireRequestLock
    BY <2>9 DEF ExpireRequestLock
  <2>10. ASSUME NEW q \in Requests, Crash(q) PROVE LockDiesWithRequest'
    BY <2>10 DEF Crash
  <2>11. CASE UNCHANGED vars
    BY <2>11 DEF vars
  <2> QED
    BY <2>1, <2>2, <2>3, <2>4, <2>5, <2>6, <2>7, <2>8, <2>9, <2>10, <2>11
    DEF Next, TurnStep, Finished
<1> QED
  BY <1>1, <1>2, TypeCorrectness, PTL DEF Spec

\* Where a turn stands tells whether it has been answered and is durable.
ReplyInv ==
    /\ \A r \in Turns : pc[r] \in {"start", "insert", "select", "lock"} \union Guarded
                            => reply[r] = "none" /\ r \notin durable
    /\ \A r \in Turns : pc[r] \in {"cacheMessage", "cacheAnswer"} => r \in durable
    /\ ReplyMatchesDatabase

LEMMA ReplyStep ==
    ASSUME TypeOK, ReplyInv, [Next]_vars
    PROVE  ReplyInv'
<1> USE ConstantsAssumption
    DEF TypeOK, ReplyInv, ReplyMatchesDatabase, Turns, Requests, Goto, Answer, Guarded
<1>1. ASSUME NEW q \in Turns, AcquireRequestLock(q) PROVE ReplyInv'
  BY <1>1 DEF AcquireRequestLock
<1>2. ASSUME NEW q \in Turns, InsertConversation(q) PROVE ReplyInv'
  BY <1>2 DEF InsertConversation
<1>3. ASSUME NEW q \in Turns, SelectConversation(q) PROVE ReplyInv'
  BY <1>3 DEF SelectConversation
<1>4. ASSUME NEW q \in Turns, LockConversation(q) PROVE ReplyInv'
  BY <1>4 DEF LockConversation
<1>5. ASSUME NEW q \in Turns, ReadHistory(q) \/ RunGates(q) \/ PersistExchange(q)
      PROVE ReplyInv'
  BY <1>5 DEF ReadHistory, RunGates, PersistExchange
<1>6. ASSUME NEW q \in Turns, CommitTurn(q) PROVE ReplyInv'
  BY <1>6 DEF CommitTurn
<1>7. ASSUME NEW q \in Turns, FailTurn(q) PROVE ReplyInv'
  BY <1>7 DEF FailTurn
<1>8. ASSUME NEW q \in Turns, CacheMessage(q) PROVE ReplyInv'
  BY <1>8 DEF CacheMessage
<1>9. ASSUME NEW q \in Turns, CacheAnswer(q) PROVE ReplyInv'
  BY <1>9 DEF CacheAnswer
<1>10. ASSUME NEW q \in Turns, ReleaseRequestLock(q) PROVE ReplyInv'
  BY <1>10 DEF ReleaseRequestLock, ReplyOfFailedRelease
<1>11. ASSUME NEW q \in Turns, CloseSession(q) \/ CloseBeforeRelease(q) PROVE ReplyInv'
  BY <1>11 DEF CloseSession, CloseBeforeRelease
<1>12. ASSUME NEW q \in Turns, Disconnect(q) PROVE ReplyInv'
  BY <1>12 DEF Disconnect
<1>13. ASSUME NEW d \in Deletes, DeleteStep(d) PROVE ReplyInv'
  <2>1. /\ UNCHANGED <<durable, stranded>>
        /\ \A q \in Turns : pc'[q] = pc[q] /\ reply'[q] = reply[q]
    BY <1>13 DEF DeleteStep, FindOwned, TargetRow, RemoveRow, CommitDelete, DeleteSession
  <2> QED
    BY <2>1
<1>14. CASE ExpireRequestLock
  BY <1>14 DEF ExpireRequestLock
<1>15. ASSUME NEW q \in Requests, Crash(q) PROVE ReplyInv'
  BY <1>15 DEF Crash
<1>16. CASE UNCHANGED vars
  BY <1>16 DEF vars
<1> QED
  BY <1>1, <1>2, <1>3, <1>4, <1>5, <1>6, <1>7, <1>8, <1>9, <1>10, <1>11, <1>12, <1>13,
     <1>14, <1>15, <1>16
  DEF Next, TurnStep, Finished

\* Whatever fails, a reply tells what became of the turn: an answer is in the
\* database, a refusal or an error has left nothing there, so that the client may send
\* it again (run_pipeline).  The one reply that is no evidence is POST /chat's when Redis
\* fails at the release of its lock.
THEOREM ReplyIsTrue == Spec => []ReplyMatchesDatabase
<1>1. Init => ReplyInv
  BY DEF Init, ReplyInv, ReplyMatchesDatabase, Requests
<1>2. TypeOK /\ ReplyInv /\ [Next]_vars => ReplyInv'
  BY ReplyStep
<1>3. ReplyInv => ReplyMatchesDatabase
  BY DEF ReplyInv
<1> QED
  BY <1>1, <1>2, <1>3, TypeCorrectness, PTL DEF Spec

-----------------------------------------------------------------------------
(* ChatSession implements Transcript.                                      *)

\* msgs are the exchanges of the n different turns o[1], o[2], ..., in this order.
AreExchangesOf(msgs, n, o) ==
    /\ \A i, j \in 1..n : o[i] = o[j] => i = j
    /\ msgs = UNION {Exchange(o[i], 2 * (i - 1)) : i \in 1..n}

TurnsInOrder == \E n \in Nat : \E o \in [1..n -> durable] : AreExchangesOf(messages, n, o)

NotYetDurable ==
    \A r \in Turns :
        pc[r] \in {"start", "insert", "select", "lock"} \union Guarded => r \notin durable

\* What the refinement rests on, besides IInv.
RefinementInv == TurnsInOrder /\ NotYetDurable

Question(r, after) == [no |-> after + 1, role |-> "user", by |-> r]

\* The turns o[s + 1], ..., o[n].
Segment(o, s, n) == [i \in 1..(n - s) |-> o[s + i]]

\* The questions among msgs are those of the turns o[s + 1], ..., o[n].
AsksFrom(msgs, s, n, o) ==
    {m \in msgs : m.role = "user"} = {Question(o[i], 2 * (i - 1)) : i \in (s + 1)..n}

LEMMA QuestionOf ==
    ASSUME NEW r, NEW i \in Nat, i # 0
    PROVE  /\ Question(r, 2 * (i - 1)).no = 2 * i - 1
           /\ Question(r, 2 * (i - 1)).by = r
           /\ {m \in Exchange(r, 2 * (i - 1)) : m.role = "user"} = {Question(r, 2 * (i - 1))}
BY DEF Question, Exchange

\* As many as the indexes they are counted with.
LEMMA Indexed ==
    ASSUME NEW n \in Nat, NEW S, NEW f \in [1..n -> S],
           \A i, j \in 1..n : f[i] = f[j] => i = j,
           \A x \in S : \E i \in 1..n : f[i] = x
    PROVE  IsFiniteSet(S) /\ Cardinality(S) = n
<1>1. f \in Injection(1..n, S)
  BY DEF Injection, IsInjective
<1>2. f \in Surjection(1..n, S)
  BY DEF Surjection
<1>3. ExistsBijection(1..n, S)
  BY <1>1, <1>2 DEF ExistsBijection, Bijection
<1> QED
  BY <1>3, FS_CountingElements, FS_NatBijection

\* A set of questions is put in order by their numbers.
LEMMA OrderOfQuestions ==
    ASSUME NEW s \in Nat, NEW n \in Nat, s <= n, NEW o, NEW msgs, AsksFrom(msgs, s, n, o)
    PROVE  Order(msgs) = Segment(o, s, n)
<1> DEFINE asked(i) == Question(o[i], 2 * (i - 1))
           questions == {m \in msgs : m.role = "user"}
           before(m) == {q \in questions : q.no < m.no}
<1>1. \A i \in (s + 1)..n : asked(i).no = 2 * i - 1 /\ asked(i).by = o[i]
  BY QuestionOf
<1>2. \A i, j \in (s + 1)..n : asked(i) = asked(j) => i = j
  BY <1>1
<1>3. questions = {asked(i) : i \in (s + 1)..n}
  BY DEF AsksFrom
<1>4. \A k \in 0..(n - s) : Cardinality({asked(s + i) : i \in 1..k}) = k
  <2> SUFFICES ASSUME NEW k \in 0..(n - s)
               PROVE  Cardinality({asked(s + i) : i \in 1..k}) = k
    OBVIOUS
  <2> DEFINE f == [i \in 1..k |-> asked(s + i)]
             T == {asked(s + i) : i \in 1..k}
  <2>1. f \in [1..k -> T] /\ \A x \in T : \E i \in 1..k : f[i] = x
    OBVIOUS
  <2>2. \A i, j \in 1..k : f[i] = f[j] => i = j
    <3> SUFFICES ASSUME NEW i \in 1..k, NEW j \in 1..k, f[i] = f[j] PROVE i = j
      OBVIOUS
    <3>1. s + i \in (s + 1)..n /\ s + j \in (s + 1)..n
      OBVIOUS
    <3>2. asked(s + i) = asked(s + j)
      OBVIOUS
    <3>3. s + i = s + j
      BY <1>2, <3>1, <3>2, Zenon
    <3> QED
      BY <3>3
  <2>3. k \in Nat
    OBVIOUS
  <2> QED
    BY <2>1, <2>2, <2>3, Indexed
<1>5. {asked(i) : i \in (s + 1)..n} = {asked(s + i) : i \in 1..(n - s)}
  <2>1. ASSUME NEW i \in (s + 1)..n PROVE i - s \in 1..(n - s) /\ i = s + (i - s)
    OBVIOUS
  <2>2. ASSUME NEW i \in 1..(n - s) PROVE s + i \in (s + 1)..n
    OBVIOUS
  <2> HIDE DEF asked
  <2>3. \A x \in {asked(i) : i \in (s + 1)..n} : x \in {asked(s + i) : i \in 1..(n - s)}
    BY <2>1
  <2>4. \A x \in {asked(s + i) : i \in 1..(n - s)} : x \in {asked(i) : i \in (s + 1)..n}
    BY <2>2
  <2> QED
    BY <2>3, <2>4
<1>6. Cardinality(questions) = n - s
  <2>1. n - s \in 0..(n - s)
    OBVIOUS
  <2> HIDE DEF asked, questions
  <2> QED
    BY <1>3, <1>4, <1>5, <2>1
<1>7. \A i \in 1..(n - s) : before(asked(s + i)) = {asked(s + j) : j \in 1..(i - 1)}
  <2> SUFFICES ASSUME NEW i \in 1..(n - s)
               PROVE  before(asked(s + i)) = {asked(s + j) : j \in 1..(i - 1)}
    OBVIOUS
  <2>1. ASSUME NEW j \in 1..(n - s) PROVE asked(s + j).no = 2 * (s + j) - 1
    <3>1. s + j \in (s + 1)..n
      OBVIOUS
    <3> QED
      BY <1>1, <3>1, Zenon
  <2>2. \A j \in 1..(n - s) : asked(s + j).no < asked(s + i).no <=> j \in 1..(i - 1)
    BY <2>1
  <2>3. 1..(i - 1) \subseteq 1..(n - s)
    OBVIOUS
  <2> HIDE DEF asked, questions
  <2>4. questions = {asked(s + j) : j \in 1..(n - s)}
    BY <1>3, <1>5
  <2> QED
    BY <2>2, <2>3, <2>4
<1>8. \A i \in 1..(n - s) : Cardinality(before(asked(s + i))) = i - 1
  <2> SUFFICES ASSUME NEW i \in 1..(n - s) PROVE Cardinality(before(asked(s + i))) = i - 1
    OBVIOUS
  <2>1. i - 1 \in 0..(n - s)
    OBVIOUS
  <2> HIDE DEF asked, before
  <2> QED
    BY <1>4, <1>7, <2>1
<1>9. ASSUME NEW i \in 1..(n - s)
      PROVE  (CHOOSE m \in questions : Cardinality(before(m)) = i - 1) = asked(s + i)
  <2>1. asked(s + i) \in questions
    BY <1>3, <1>5
  <2>2. \A m \in questions : Cardinality(before(m)) = i - 1 => m = asked(s + i)
    <3> SUFFICES ASSUME NEW j \in 1..(n - s), Cardinality(before(asked(s + j))) = i - 1
                 PROVE  asked(s + j) = asked(s + i)
      BY <1>3, <1>5
    <3>1. j - 1 = i - 1
      BY <1>8
    <3>2. j = i
      BY <3>1
    <3> QED
      BY <3>2
  <2> HIDE DEF asked, before, questions
  <2> QED
    BY <1>8, <2>1, <2>2
<1>10. ASSUME NEW i \in 1..(n - s)
       PROVE  (CHOOSE m \in questions : Cardinality(before(m)) = i - 1).by = o[s + i]
  <2>1. s + i \in (s + 1)..n
    OBVIOUS
  <2> QED
    BY <1>1, <1>9, <2>1
<1>11. Order(msgs) = [i \in 1..Cardinality(questions) |->
                         (CHOOSE m \in questions : Cardinality(before(m)) = i - 1).by]
  BY DEF Order
<1> HIDE DEF questions, before
<1> QED
  BY <1>6, <1>10, <1>11 DEF Segment

LEMMA OrderOfExchanges ==
    ASSUME NEW n \in Nat, NEW o, NEW msgs, AreExchangesOf(msgs, n, o)
    PROVE  Order(msgs) = [i \in 1..n |-> o[i]]
<1>1. ASSUME NEW i \in 1..n
      PROVE  {m \in Exchange(o[i], 2 * (i - 1)) : m.role = "user"}
                 = {Question(o[i], 2 * (i - 1))}
  BY QuestionOf
<1>2. {m \in msgs : m.role = "user"} = {Question(o[i], 2 * (i - 1)) : i \in 1..n}
  <2>1. msgs = UNION {Exchange(o[i], 2 * (i - 1)) : i \in 1..n}
    BY DEF AreExchangesOf
  <2> QED
    BY <1>1, <2>1
<1>3. Order(msgs) = Segment(o, 0, n)
  <2>1. 0 \in Nat /\ 0 <= n /\ (0 + 1)..n = 1..n
    OBVIOUS
  <2>2. AsksFrom(msgs, 0, n, o)
    BY <1>2, <2>1, Zenon DEF AsksFrom
  <2> QED
    BY <2>1, <2>2, OrderOfQuestions
<1>4. n - 0 = n /\ \A i \in 1..n : 0 + i = i
  OBVIOUS
<1> QED
  BY <1>3, <1>4 DEF Segment

\* n exchanges are numbered 1, ..., 2 * n, each message by its own number.
LEMMA NumbersOfExchanges ==
    ASSUME NEW n \in Nat, NEW o, NEW msgs, AreExchangesOf(msgs, n, o)
    PROVE  /\ {m.no : m \in msgs} = 1..(2 * n)
           /\ \A m1, m2 \in msgs : m1.no = m2.no => m1 = m2
<1>1. ASSUME NEW m \in msgs
      PROVE  \E i \in 1..n :
                \/ m = [no |-> 2 * i - 1, role |-> "user", by |-> o[i]]
                \/ m = [no |-> 2 * i, role |-> "assistant", by |-> o[i]]
  <2>1. PICK i \in 1..n : m \in Exchange(o[i], 2 * (i - 1))
    BY DEF AreExchangesOf
  <2>2. 2 * (i - 1) + 1 = 2 * i - 1 /\ 2 * (i - 1) + 2 = 2 * i
    OBVIOUS
  <2> QED
    BY <2>1, <2>2 DEF Exchange
<1>2. ASSUME NEW i \in 1..n
      PROVE  \E m1, m2 \in msgs : m1.no = 2 * i - 1 /\ m2.no = 2 * i
  <2>1. Exchange(o[i], 2 * (i - 1)) \subseteq msgs
    BY DEF AreExchangesOf
  <2>2. 2 * (i - 1) + 1 = 2 * i - 1 /\ 2 * (i - 1) + 2 = 2 * i
    OBVIOUS
  <2> QED
    BY <2>1, <2>2 DEF Exchange
<1>3. ASSUME NEW m \in msgs PROVE m.no \in 1..(2 * n)
  <2>1. PICK i \in 1..n : m.no \in {2 * i - 1, 2 * i}
    BY <1>1
  <2> QED
    BY <2>1
<1>4. ASSUME NEW x \in 1..(2 * n) PROVE \E m \in msgs : m.no = x
  <2>1. \E i \in 1..n : x = 2 * i - 1 \/ x = 2 * i
    <3>1. (x + 1) \div 2 \in 1..n
      OBVIOUS
    <3>2. x = 2 * ((x + 1) \div 2) - 1 \/ x = 2 * ((x + 1) \div 2)
      OBVIOUS
    <3> QED
      BY <3>1, <3>2
  <2> QED
    BY <1>2, <2>1
<1>5. ASSUME NEW m1 \in msgs, NEW m2 \in msgs, m1.no = m2.no PROVE m1 = m2
  <2>1. PICK i \in 1..n : \/ m1 = [no |-> 2 * i - 1, role |-> "user", by |-> o[i]]
                          \/ m1 = [no |-> 2 * i, role |-> "assistant", by |-> o[i]]
    BY <1>1
  <2>2. PICK j \in 1..n : \/ m2 = [no |-> 2 * j - 1, role |-> "user", by |-> o[j]]
                          \/ m2 = [no |-> 2 * j, role |-> "assistant", by |-> o[j]]
    BY <1>1
  <2>3. /\ 2 * i - 1 = 2 * j - 1 => i = j
        /\ 2 * i = 2 * j => i = j
        /\ 2 * i - 1 # 2 * j
        /\ 2 * i # 2 * j - 1
    OBVIOUS
  <2> QED
    BY <1>5, <2>1, <2>2, <2>3
<1>6. {m.no : m \in msgs} = 1..(2 * n)
  BY <1>3, <1>4
<1> QED
  BY <1>5, <1>6

LEMMA LaterMessages ==
    ASSUME NEW n \in Nat, NEW o, NEW msgs, AreExchangesOf(msgs, n, o),
           NEW x \in 0..(2 * n)
    PROVE  Cardinality({m \in msgs : m.no > x}) = 2 * n - x
<1> DEFINE later == {m \in msgs : m.no > x}
           numbered(k) == CHOOSE m \in msgs : m.no = k
           f == [k \in 1..(2 * n - x) |-> numbered(x + k)]
<1>0. {m.no : m \in msgs} = 1..(2 * n)
  BY NumbersOfExchanges, Zenon
<1>1. \A m \in msgs : m.no \in 1..(2 * n)
  BY <1>0
<1>2. ASSUME NEW k \in 1..(2 * n) PROVE numbered(k) \in msgs /\ numbered(k).no = k
  BY <1>0
<1> HIDE DEF numbered
<1>3. ASSUME NEW k \in 1..(2 * n - x)
      PROVE  f[k] \in later /\ f[k].no = x + k
  <2>1. x + k \in 1..(2 * n) /\ x + k > x
    OBVIOUS
  <2> QED
    BY <1>2, <2>1
<1>4. f \in [1..(2 * n - x) -> later]
  BY <1>3
<1>5. \A i, j \in 1..(2 * n - x) : f[i] = f[j] => i = j
  <2> SUFFICES ASSUME NEW i \in 1..(2 * n - x), NEW j \in 1..(2 * n - x), f[i] = f[j]
               PROVE  i = j
    OBVIOUS
  <2>1. x + i = x + j
    BY <1>3
  <2> QED
    BY <2>1
<1>6. \A m \in later : \E i \in 1..(2 * n - x) : f[i] = m
  <2> SUFFICES ASSUME NEW m \in later PROVE \E i \in 1..(2 * n - x) : f[i] = m
    OBVIOUS
  <2>1. m \in msgs /\ m.no - x \in 1..(2 * n - x) /\ x + (m.no - x) = m.no
    BY <1>1
  <2>2. f[m.no - x] \in msgs /\ f[m.no - x].no = m.no
    BY <1>3, <2>1
  <2>3. f[m.no - x] = m
    BY <2>1, <2>2, NumbersOfExchanges
  <2> QED
    BY <2>1, <2>3
<1>7. 2 * n - x \in Nat
  OBVIOUS
<1> HIDE DEF f, later
<1>8. Cardinality(later) = 2 * n - x
  BY <1>4, <1>5, <1>6, <1>7, Indexed
<1> QED
  BY <1>8 DEF later

\* The context of a turn are the newest HistoryLimit \div 2 exchanges, and half of
\* another one when the limit is odd.
LEMMA OrderOfNewest ==
    ASSUME NEW n \in Nat, NEW o, NEW msgs, AreExchangesOf(msgs, n, o),
           NEW s, s = IF n > HistoryLimit \div 2 THEN n - HistoryLimit \div 2 ELSE 0
    PROVE  Order(Newest(msgs)) = Segment(o, s, n)
<1>1. HistoryLimit \in Nat /\ HistoryLimit \div 2 \in Nat
  BY ConstantsAssumption
<1>2. s \in Nat /\ s <= n
  BY <1>1
<1>3. ASSUME NEW i \in 1..n
      PROVE  Cardinality({m \in msgs : m.no > 2 * i - 1}) < HistoryLimit <=> i \in (s + 1)..n
  <2>1. 2 * i - 1 \in 0..(2 * n)
    OBVIOUS
  <2>2. Cardinality({m \in msgs : m.no > 2 * i - 1}) = 2 * n - (2 * i - 1)
    BY <2>1, LaterMessages
  <2>3. 2 * n - (2 * i - 1) < HistoryLimit <=> i \in (s + 1)..n
    BY <1>1
  <2> QED
    BY <2>2, <2>3
<1>4. ASSUME NEW i \in 1..n
      PROVE  /\ Question(o[i], 2 * (i - 1)) \in msgs
             /\ Question(o[i], 2 * (i - 1)).role = "user"
             /\ Question(o[i], 2 * (i - 1)).no = 2 * i - 1
  <2>1. Question(o[i], 2 * (i - 1)).no = 2 * i - 1
    BY QuestionOf
  <2>2. Question(o[i], 2 * (i - 1)) \in msgs
    <3>1. Exchange(o[i], 2 * (i - 1)) \subseteq msgs
      BY DEF AreExchangesOf
    <3>2. Question(o[i], 2 * (i - 1)) \in Exchange(o[i], 2 * (i - 1))
      BY DEF Exchange, Question
    <3> QED
      BY <3>1, <3>2
  <2>3. Question(o[i], 2 * (i - 1)).role = "user"
    BY DEF Question
  <2> QED
    BY <2>1, <2>2, <2>3
<1>5. ASSUME NEW m \in msgs, m.role = "user"
      PROVE  \E i \in 1..n : m = Question(o[i], 2 * (i - 1))
  BY <1>5 DEF AreExchangesOf, Exchange, Question
<1>6. AsksFrom(Newest(msgs), s, n, o)
  <2>1. \A i \in (s + 1)..n : i \in 1..n
    BY <1>2
  <2>2. ASSUME NEW m \in Newest(msgs), m.role = "user"
        PROVE  \E i \in (s + 1)..n : m = Question(o[i], 2 * (i - 1))
    BY <1>3, <1>4, <1>5, <2>2 DEF Newest
  <2>3. ASSUME NEW i \in (s + 1)..n
        PROVE  /\ Question(o[i], 2 * (i - 1)) \in Newest(msgs)
               /\ Question(o[i], 2 * (i - 1)).role = "user"
    BY <1>3, <1>4, <2>1 DEF Newest
  <2> QED
    BY <2>2, <2>3 DEF AsksFrom
<1> QED
  BY <1>2, <1>6, OrderOfQuestions

LEMMA NextExchange ==
    ASSUME NEW n \in Nat, NEW o, NEW msgs, AreExchangesOf(msgs, n, o),
           NEW r, \A i \in 1..n : o[i] # r,
           NEW next, next = [i \in 1..(n + 1) |-> IF i = n + 1 THEN r ELSE o[i]]
    PROVE  AreExchangesOf(msgs \union Exchange(r, 2 * n), n + 1, next)
<1>1. /\ n + 1 \in 1..(n + 1) /\ next[n + 1] = r
      /\ \A i \in 1..n : i \in 1..(n + 1) /\ next[i] = o[i]
      /\ \A i \in 1..(n + 1) : i \in 1..n \/ i = n + 1
  OBVIOUS
<1>2. \A i, j \in 1..(n + 1) : next[i] = next[j] => i = j
  BY <1>1 DEF AreExchangesOf
<1>3. 2 * ((n + 1) - 1) = 2 * n
  OBVIOUS
<1>4. UNION {Exchange(next[i], 2 * (i - 1)) : i \in 1..(n + 1)} = msgs \union Exchange(r, 2 * n)
  <2>1. ASSUME NEW i \in 1..n
        PROVE  Exchange(next[i], 2 * (i - 1)) = Exchange(o[i], 2 * (i - 1))
    BY <1>1
  <2>2. Exchange(next[n + 1], 2 * ((n + 1) - 1)) = Exchange(r, 2 * n)
    BY <1>1, <1>3
  <2>3. msgs = UNION {Exchange(o[i], 2 * (i - 1)) : i \in 1..n}
    BY DEF AreExchangesOf
  <2>4. ASSUME NEW m \in msgs
        PROVE  \E i \in 1..(n + 1) : m \in Exchange(next[i], 2 * (i - 1))
    BY <1>1, <2>1, <2>3
  <2>5. ASSUME NEW i \in 1..(n + 1), NEW m \in Exchange(next[i], 2 * (i - 1))
        PROVE  m \in msgs \union Exchange(r, 2 * n)
    <3>1. CASE i \in 1..n
      BY <2>1, <2>3, <3>1
    <3>2. CASE i = n + 1
      BY <2>2, <3>2
    <3> QED
      BY <1>1, <3>1, <3>2
  <2> QED
    BY <1>1, <2>2, <2>4, <2>5
<1> QED
  BY <1>2, <1>4 DEF AreExchangesOf

\* The abstract transcript, when the committed messages are n exchanges.
LEMMA TurnsOfTranscript ==
    ASSUME NEW n \in Nat, NEW o, NEW msgs, AreExchangesOf(msgs, n, o)
    PROVE  TranscriptOf(msgs) = [i \in 1..n |-> [by |-> o[i], given |-> Order(history[o[i]])]]
<1>1. Order(msgs) = [i \in 1..n |-> o[i]]
  BY OrderOfExchanges
<1> QED
  BY <1>1 DEF TranscriptOf

LEMMA EmptyTranscript == TranscriptOf({}) = <<>>
<1>1. AreExchangesOf({}, 0, <<>>)
  BY DEF AreExchangesOf
<1>2. TranscriptOf({})
          = [i \in 1..0 |-> [by |-> <<>>[i], given |-> Order(history[<<>>[i]])]]
  BY <1>1, TurnsOfTranscript
<1> QED
  BY <1>2

\* Turns whose transaction has committed do not read, and do not commit again.
LEMMA NotYetDurableStep ==
    ASSUME TypeOK, NotYetDurable, [Next]_vars
    PROVE  NotYetDurable'
<1> USE DEF TypeOK, NotYetDurable, Turns, Requests, Goto, Guarded
<1>1. ASSUME NEW q \in Turns,
             \/ AcquireRequestLock(q) \/ InsertConversation(q) \/ SelectConversation(q)
             \/ LockConversation(q)
      PROVE  NotYetDurable'
  BY <1>1 DEF AcquireRequestLock, InsertConversation, SelectConversation, LockConversation
<1>2. ASSUME NEW q \in Turns, ReadHistory(q) \/ RunGates(q) \/ PersistExchange(q)
      PROVE  NotYetDurable'
  BY <1>2 DEF ReadHistory, RunGates, PersistExchange
<1>3. ASSUME NEW q \in Turns, CommitTurn(q) PROVE NotYetDurable'
  BY <1>3 DEF CommitTurn
<1>4. ASSUME NEW q \in Turns,
             \/ FailTurn(q) \/ CacheMessage(q) \/ CacheAnswer(q) \/ ReleaseRequestLock(q)
             \/ CloseSession(q) \/ Disconnect(q) \/ CloseBeforeRelease(q)
      PROVE  NotYetDurable'
  BY <1>4 DEF FailTurn, CacheMessage, CacheAnswer, ReleaseRequestLock, CloseSession, Disconnect,
              CloseBeforeRelease
<1>5. ASSUME NEW d \in Deletes, DeleteStep(d) PROVE NotYetDurable'
  <2>1. UNCHANGED durable /\ \A q \in Turns : pc'[q] = pc[q]
    BY <1>5, ConstantsAssumption
    DEF DeleteStep, FindOwned, TargetRow, RemoveRow, CommitDelete, DeleteSession
  <2> QED
    BY <2>1
<1>6. CASE ExpireRequestLock
  BY <1>6 DEF ExpireRequestLock
<1>7. ASSUME NEW q \in Requests, Crash(q) PROVE NotYetDurable'
  BY <1>7 DEF Crash
<1>8. CASE UNCHANGED vars
  BY <1>8 DEF vars
<1> QED
  BY <1>1, <1>2, <1>3, <1>4, <1>5, <1>6, <1>7, <1>8 DEF Next, TurnStep, Finished

\* No step but these two changes what other transactions see.
LEMMA OnlyCommitsShow ==
    ASSUME TypeOK, Next
    PROVE  \/ \E r \in Turns : CommitTurn(r)
           \/ \E d \in Deletes : CommitDelete(d) /\ draft[d].delete
           \/ UNCHANGED <<row, messages, durable>>
<1> DEFINE Same == UNCHANGED <<row, messages, durable>>
<1>1. ASSUME NEW q \in Turns,
             \/ AcquireRequestLock(q) \/ InsertConversation(q) \/ SelectConversation(q)
             \/ LockConversation(q) \/ ReadHistory(q) \/ RunGates(q) \/ PersistExchange(q)
      PROVE  Same
  BY <1>1 DEF AcquireRequestLock, InsertConversation, SelectConversation, LockConversation,
              ReadHistory, RunGates, PersistExchange, database
<1>2. ASSUME NEW q \in Turns,
             \/ FailTurn(q) \/ CacheMessage(q) \/ CacheAnswer(q) \/ ReleaseRequestLock(q)
             \/ CloseSession(q) \/ Disconnect(q) \/ CloseBeforeRelease(q)
      PROVE  Same
  BY <1>2 DEF FailTurn, CacheMessage, CacheAnswer, ReleaseRequestLock, CloseSession, Disconnect,
              CloseBeforeRelease, Rollback, database
<1>3. ASSUME NEW d \in Deletes, DeleteStep(d)
      PROVE  \/ Same
             \/ CommitDelete(d) /\ draft[d].delete
  <2>1. ASSUME CommitDelete(d), ~draft[d].delete PROVE Same
    BY <2>1 DEF CommitDelete
  <2>2. ASSUME FindOwned(d) \/ TargetRow(d) \/ RemoveRow(d) \/ DeleteSession(d) PROVE Same
    BY <2>2 DEF FindOwned, TargetRow, RemoveRow, DeleteSession, database
  <2> HIDE DEF Same
  <2> QED
    BY <1>3, <2>1, <2>2 DEF DeleteStep
<1>4. CASE ExpireRequestLock
  BY <1>4 DEF ExpireRequestLock, database
<1>5. ASSUME NEW q \in Requests, Crash(q) PROVE Same
  BY <1>5 DEF Crash, Rollback
<1>6. CASE Finished
  BY <1>6 DEF Finished, vars, database
<1> QED
  BY <1>1, <1>2, <1>3, <1>4, <1>5, <1>6 DEF Next, TurnStep

\* The number that a commit appends its exchange behind.
LEMMA LastNoOfExchanges ==
    ASSUME Numbering, NEW n \in Nat, NEW o, AreExchangesOf(messages, n, o)
    PROVE  LastNo(messages) = 2 * n
<1>1. LastNo(messages) = Cardinality(messages) /\ Cardinality(messages) \in Nat
  BY LastNoIsCount, FS_CardinalityType DEF Numbering, WellNumbered
<1>2. 1..Cardinality(messages) = 1..(2 * n)
  <2>1. {m.no : m \in messages} = 1..(2 * n)
    BY NumbersOfExchanges, Zenon
  <2> QED
    BY <2>1, Zenon DEF Numbering, WellNumbered
<1>3. Cardinality(messages) = 2 * n
  BY <1>1, <1>2
<1> QED
  BY <1>1, <1>3

LEMMA CommitInOrder ==
    ASSUME TypeOK, Numbering, NotYetDurable, NEW r \in Turns, CommitTurn(r),
           NEW n \in Nat, NEW o \in [1..n -> durable], AreExchangesOf(messages, n, o),
           NEW next, next = [i \in 1..(n + 1) |-> IF i = n + 1 THEN r ELSE o[i]]
    PROVE  /\ next \in [1..(n + 1) -> durable']
           /\ AreExchangesOf(messages', n + 1, next)
<1>1. r \notin durable
  BY DEF NotYetDurable, CommitTurn, Guarded
<1>2. durable' = durable \union {r}
  BY DEF CommitTurn
<1>3. next \in [1..(n + 1) -> durable']
  BY <1>2
<1>4. \A i \in 1..n : o[i] # r
  BY <1>1
<1>5. messages' = messages \union Exchange(r, 2 * n)
  BY LastNoOfExchanges DEF CommitTurn, Numbering, CommitsNextExchange
<1>6. AreExchangesOf(messages \union Exchange(r, 2 * n), n + 1, next)
  BY <1>4, NextExchange
<1> QED
  BY <1>3, <1>5, <1>6

LEMMA TurnsInOrderStep ==
    ASSUME TypeOK, Numbering, NotYetDurable, TurnsInOrder, [Next]_vars
    PROVE  TurnsInOrder'
<1>0. PICK n \in Nat : \E o \in [1..n -> durable] : AreExchangesOf(messages, n, o)
  BY DEF TurnsInOrder
<1>1. PICK o \in [1..n -> durable] : AreExchangesOf(messages, n, o)
  BY <1>0
<1>2. ASSUME NEW r \in Turns, CommitTurn(r) PROVE TurnsInOrder'
  <2> DEFINE next == [i \in 1..(n + 1) |-> IF i = n + 1 THEN r ELSE o[i]]
  <2>1. next \in [1..(n + 1) -> durable'] /\ AreExchangesOf(messages', n + 1, next)
    <3> HIDE DEF next
    <3>1. next = [i \in 1..(n + 1) |-> IF i = n + 1 THEN r ELSE o[i]]
      BY DEF next
    <3> QED
      BY <1>1, <1>2, <3>1, CommitInOrder
  <2>2. n + 1 \in Nat
    OBVIOUS
  <2> HIDE DEF next
  <2> QED
    BY <2>1, <2>2 DEF TurnsInOrder
<1>3. ASSUME NEW d \in Deletes, CommitDelete(d), draft[d].delete PROVE TurnsInOrder'
  <2>1. messages' = {}
    BY <1>3 DEF CommitDelete
  <2>2. <<>> \in [1..0 -> durable'] /\ AreExchangesOf({}, 0, <<>>) /\ 0 \in Nat
    BY DEF AreExchangesOf
  <2> QED
    BY <2>1, <2>2 DEF TurnsInOrder
<1>4. ASSUME UNCHANGED <<messages, durable>> PROVE TurnsInOrder'
  BY <1>1, <1>4 DEF TurnsInOrder
<1>5. CASE UNCHANGED vars
  BY <1>4, <1>5 DEF vars, database
<1> QED
  BY <1>2, <1>3, <1>4, <1>5, OnlyCommitsShow

\* A deletion is admitted by the ownership check, and until it has committed or died.
LEMMA AdmittedStep ==
    ASSUME TypeOK, [Next]_vars
    PROVE  \/ Admitted' = Admitted
           \/ \E d \in Deletes : /\ row.client = ClientOf[d]
                                 /\ Admitted' = Admitted \union {d}
           \/ \E d \in Admitted : Admitted' = Admitted \ {d}
<1> DEFINE Same    == Admitted' = Admitted
           Admits  == \E d \in Deletes : /\ row.client = ClientOf[d]
                                         /\ Admitted' = Admitted \union {d}
           Retires == \E d \in Admitted : Admitted' = Admitted \ {d}
<1> USE ConstantsAssumption DEF TypeOK, Turns, Requests, Goto
<1>1. ASSUME NEW q \in Turns, TurnStep(q) PROVE Same
  <2>1. \A d \in Deletes : pc'[d] = pc[d]
    BY <1>1 DEF TurnStep, AcquireRequestLock, InsertConversation, SelectConversation,
                LockConversation, ReadHistory, RunGates, PersistExchange, CommitTurn, CacheMessage,
                CacheAnswer, ReleaseRequestLock, CloseSession
  <2> QED
    BY <2>1 DEF Admitted
<1>2. ASSUME NEW q \in Turns, FailTurn(q) \/ Disconnect(q) \/ CloseBeforeRelease(q)
      PROVE  Same
  <2>1. \A d \in Deletes : pc'[d] = pc[d]
    BY <1>2 DEF FailTurn, Disconnect, CloseBeforeRelease
  <2> QED
    BY <2>1 DEF Admitted
<1>3. ASSUME NEW d \in Deletes, FindOwned(d) PROVE Same \/ Admits
  <2>1. CASE row # NoRow /\ row.client = ClientOf[d]
    <3>1. Admitted' = Admitted \union {d}
      BY <1>3, <2>1 DEF FindOwned, Admitted
    <3> QED
      BY <2>1, <3>1
  <2>2. CASE ~(row # NoRow /\ row.client = ClientOf[d])
    BY <1>3, <2>2 DEF FindOwned, Admitted
  <2> QED
    BY <2>1, <2>2
<1>4. ASSUME NEW d \in Deletes, TargetRow(d) \/ RemoveRow(d) \/ DeleteSession(d) PROVE Same
  BY <1>4 DEF TargetRow, RemoveRow, DeleteSession, Admitted
<1>5. ASSUME NEW d \in Deletes, CommitDelete(d) PROVE Retires
  <2>1. d \in Admitted /\ Admitted' = Admitted \ {d}
    BY <1>5 DEF CommitDelete, Admitted
  <2> QED
    BY <2>1
<1>6. ASSUME ExpireRequestLock PROVE Same
  BY <1>6 DEF ExpireRequestLock, Admitted
<1>7. ASSUME NEW q \in Requests, Crash(q) PROVE Same \/ Retires
  <2>1. CASE q \in Admitted
    <3>1. Admitted' = Admitted \ {q}
      BY <1>7, <2>1 DEF Crash, Admitted
    <3> QED
      BY <2>1, <3>1
  <2>2. CASE q \notin Admitted
    BY <1>7, <2>2 DEF Crash, Admitted
  <2> QED
    BY <2>1, <2>2
<1>8. ASSUME UNCHANGED vars PROVE Same
  BY <1>8 DEF vars, Admitted
<1> HIDE DEF Same, Admits, Retires, TypeOK, Goto, Turns, Requests
<1>9. Same \/ Admits \/ Retires
  BY <1>1, <1>2, <1>3, <1>4, <1>5, <1>6, <1>7, <1>8 DEF Next, DeleteStep, Finished
<1> QED
  BY <1>9 DEF Same, Admits, Retires

\* What a turn commits does not touch the deletions; what a deletion removes ends it.
LEMMA AdmittedAtCommits ==
    ASSUME TypeOK
    PROVE  /\ \A r \in Turns : CommitTurn(r) => Admitted' = Admitted
           /\ \A d \in Deletes : CommitDelete(d) => d \in Admitted /\ Admitted' = Admitted \ {d}
<1> USE ConstantsAssumption DEF TypeOK, Turns, Requests, Goto
<1>1. ASSUME NEW r \in Turns, CommitTurn(r) PROVE Admitted' = Admitted
  <2>1. \A d \in Deletes : pc'[d] = pc[d]
    BY <1>1 DEF CommitTurn
  <2> QED
    BY <2>1 DEF Admitted
<1>2. ASSUME NEW d \in Deletes, CommitDelete(d)
      PROVE  d \in Admitted /\ Admitted' = Admitted \ {d}
  BY <1>2 DEF CommitDelete, Admitted
<1> QED
  BY <1>1, <1>2

LEMMA InitRefinement == Init => RefinementInv /\ Abstract!Init
<1> SUFFICES ASSUME Init PROVE RefinementInv /\ Abstract!Init
  OBVIOUS
<1> USE DEF Init
<1>1. TurnsInOrder
  <2>1. <<>> \in [1..0 -> durable] /\ AreExchangesOf({}, 0, <<>>) /\ 0 \in Nat
    BY DEF AreExchangesOf
  <2> QED
    BY <2>1 DEF TurnsInOrder
<1>2. NotYetDurable
  BY DEF NotYetDurable, Requests
<1>3. Abstract!Init
  BY EmptyTranscript, NoDraftFacts DEF Abstract!Init, Admitted, Requests
<1> QED
  BY <1>1, <1>2, <1>3 DEF RefinementInv

LEMMA CommitAppends ==
    ASSUME IInv, RefinementInv, NEW r \in Turns, CommitTurn(r)
    PROVE  Abstract!AppendTurn(r)
<1> DEFINE W == HistoryLimit \div 2
           turn(i, o) == [by |-> o[i], given |-> Order(history[o[i]])]
<1>1. PICK n \in Nat : \E o \in [1..n -> durable] : AreExchangesOf(messages, n, o)
  BY DEF RefinementInv, TurnsInOrder
<1>2. PICK o \in [1..n -> durable] : AreExchangesOf(messages, n, o)
  BY <1>1
<1>3. \A i \in 1..n : o[i] # r
  BY DEF RefinementInv, NotYetDurable, CommitTurn, Guarded
<1> DEFINE next == [i \in 1..(n + 1) |-> IF i = n + 1 THEN r ELSE o[i]]
           old  == [i \in 1..n |-> turn(i, o)]
           new  == [i \in 1..(n + 1) |-> turn(i, next)]
           s    == IF n > W THEN n - W ELSE 0
<1>4. TranscriptOf(messages) = old
  BY <1>2, TurnsOfTranscript
<1>5. TranscriptOf(messages)' = new
  <2>1. next = [i \in 1..(n + 1) |-> IF i = n + 1 THEN r ELSE o[i]]
    OBVIOUS
  <2> HIDE DEF next
  <2>2. AreExchangesOf(messages', n + 1, next) /\ n + 1 \in Nat
    BY <1>2, <2>1, CommitInOrder DEF IInv, RefinementInv
  <2>3. Order(messages') = [i \in 1..(n + 1) |-> next[i]]
    BY <2>2, OrderOfExchanges
  <2>4. history' = history
    BY DEF CommitTurn
  <2> QED
    BY <2>3, <2>4 DEF TranscriptOf
<1>6. n \in Nat /\ Len(old) = n
  BY <1>1
<1>7. Order(history[r]) = Segment(o, s, n)
  <2>1. history[r] = Newest(messages)
    BY DEF IInv, FreshContext, CommitTurn
  <2> QED
    BY <1>2, <2>1, OrderOfNewest
<1>8. Abstract!Recent(old) = Segment(o, s, n)
  <2>1. W \in Nat /\ s \in Nat
    BY <1>6, ConstantsAssumption
  <2>2. \A i \in 1..(n - s) : s + i \in 1..n
    BY <1>6, <2>1
  <2>3. \A i \in 1..(n - s) : old[s + i].by = o[s + i]
    BY <2>2
  <2> HIDE DEF old
  <2> QED
    BY <1>6, <2>3 DEF Abstract!Recent, Segment
<1>9. new = Append(old, [by |-> r, given |-> Abstract!Recent(old)])
  <2>1. turn(n + 1, next) = [by |-> r, given |-> Abstract!Recent(old)]
    BY <1>6, <1>7, <1>8
  <2>2. \A i \in 1..n : turn(i, next) = turn(i, o)
    BY <1>6
  <2>3. Append(old, turn(n + 1, next))
            = [i \in 1..(n + 1) |-> IF i = n + 1 THEN turn(n + 1, next) ELSE old[i]]
    BY <1>6
  <2>4. ASSUME NEW i \in 1..(n + 1)
        PROVE  new[i] = IF i = n + 1 THEN turn(n + 1, next) ELSE old[i]
    <3>1. CASE i = n + 1
      BY <3>1
    <3>2. CASE i # n + 1
      <4>1. i \in 1..n
        BY <1>6, <3>2
      <4>2. new[i] = turn(i, next) /\ old[i] = turn(i, o)
        BY <4>1
      <4> QED
        BY <2>2, <3>2, <4>1, <4>2, Zenon
    <3> QED
      BY <3>1, <3>2
  <2>5. new = [i \in 1..(n + 1) |-> new[i]]
    OBVIOUS
  <2> HIDE DEF new, old, turn, next
  <2>6. new = Append(old, turn(n + 1, next))
    BY <2>3, <2>4, <2>5
  <2> QED
    BY <2>1, <2>6
<1>10. row.client \in {NoOne, ClientOf[r]} /\ row'.client = ClientOf[r]
  <2>1. RowSeenBy(r).client = ClientOf[r]
    BY DEF IInv, Ownership, GuardedIsOwner, OwnsRow, CommitTurn, Guarded
  <2>2. draft[r].insert => row = NoRow
    BY DEF IInv, Ownership, InsertedIsNew, Requests
  <2> QED
    BY <2>1, <2>2, NoDraftFacts DEF CommitTurn, RowSeenBy
<1>11. \A i \in 1..Len(old) : old[i].by # r
  BY <1>3, <1>6
<1>12. Admitted' = Admitted
  BY AdmittedAtCommits DEF IInv
<1> HIDE DEF old, new
<1> QED
  BY <1>4, <1>5, <1>9, <1>10, <1>11, <1>12 DEF Abstract!AppendTurn

LEMMA EraseRemoves ==
    ASSUME IInv, NEW d \in Deletes, CommitDelete(d), draft[d].delete
    PROVE  Abstract!Remove(d)
<1>1. d \in Admitted /\ Admitted' = Admitted \ {d}
  BY AdmittedAtCommits DEF IInv
<1>2. row'.client = NoOne /\ messages' = {}
  BY NoDraftFacts DEF CommitDelete
<1>3. TranscriptOf(messages)' = <<>>
  <2>1. Order({}) = <<>>
    BY EmptyTranscript DEF TranscriptOf
  <2> QED
    BY <1>2, <2>1 DEF TranscriptOf
<1> QED
  BY <1>1, <1>2, <1>3 DEF Abstract!Remove

LEMMA OthersKeepTranscript ==
    ASSUME IInv, RefinementInv, [Next]_vars, UNCHANGED <<row, messages>>
    PROVE  UNCHANGED <<row.client, TranscriptOf(messages)>>
<1>1. PICK n \in Nat : \E o \in [1..n -> durable] : AreExchangesOf(messages, n, o)
  BY DEF RefinementInv, TurnsInOrder
<1>2. PICK o \in [1..n -> durable] : AreExchangesOf(messages, n, o)
  BY <1>1
<1>3. Order(messages) = [i \in 1..n |-> o[i]]
  BY <1>2, OrderOfExchanges
<1>4. \A q \in durable : history'[q] = history[q]
  <2>1. ASSUME NEW r \in Turns, ReadHistory(r) PROVE \A q \in durable : history'[q] = history[q]
    <3>1. r \notin durable /\ durable \subseteq Turns
      BY <2>1 DEF RefinementInv, NotYetDurable, ReadHistory, Guarded, IInv, TypeOK
    <3> QED
      BY <2>1, <3>1 DEF ReadHistory, IInv, TypeOK
  <2>2. (\E r \in Turns : ReadHistory(r)) \/ history' = history
    <3>1. ASSUME NEW r \in Turns, TurnStep(r) PROVE ReadHistory(r) \/ history' = history
      BY <3>1 DEF TurnStep, AcquireRequestLock, InsertConversation, SelectConversation,
                  LockConversation, RunGates, PersistExchange, CommitTurn, CacheMessage,
                  CacheAnswer, ReleaseRequestLock, CloseSession
    <3>2. ASSUME NEW r \in Turns, FailTurn(r) \/ Disconnect(r) \/ CloseBeforeRelease(r)
          PROVE  history' = history
      BY <3>2 DEF FailTurn, Disconnect, CloseBeforeRelease
    <3>3. ASSUME NEW d \in Deletes, DeleteStep(d) PROVE history' = history
      BY <3>3 DEF DeleteStep, FindOwned, TargetRow, RemoveRow, CommitDelete, DeleteSession
    <3>4. CASE ExpireRequestLock
      BY <3>4 DEF ExpireRequestLock
    <3>5. ASSUME NEW q \in Requests, Crash(q) PROVE history' = history
      BY <3>5 DEF Crash
    <3>6. CASE UNCHANGED vars
      BY <3>6 DEF vars
    <3> QED
      BY <3>1, <3>2, <3>3, <3>4, <3>5, <3>6 DEF Next, Finished
  <2> QED
    BY <2>1, <2>2
<1>5. TranscriptOf(messages)' = TranscriptOf(messages)
  BY <1>3, <1>4 DEF TranscriptOf
<1> QED
  BY <1>5

LEMMA OtherSteps ==
    ASSUME IInv, RefinementInv, [Next]_vars, UNCHANGED <<row, messages>>
    PROVE  [Abstract!Next]_(Abstract!vars)
<1>1. UNCHANGED <<row.client, TranscriptOf(messages)>>
  BY OthersKeepTranscript
<1>2. CASE Admitted' = Admitted
  BY <1>1, <1>2 DEF Abstract!vars
<1>3. ASSUME NEW d \in Deletes, row.client = ClientOf[d], Admitted' = Admitted \union {d}
      PROVE  Abstract!Next
  BY <1>1, <1>3 DEF Abstract!Next, Abstract!Admit
<1>4. ASSUME NEW d \in Admitted, Admitted' = Admitted \ {d} PROVE Abstract!Next
  <2>1. d \in Deletes
    BY DEF Admitted
  <2> QED
    BY <1>1, <1>4, <2>1 DEF Abstract!Next, Abstract!Withdraw
<1> QED
  BY <1>2, <1>3, <1>4, AdmittedStep DEF IInv

\* Whatever the locks, faults and interleavings: turns are appended one at a time, each
\* once, all of one client, each computed from the newest turns that precede it, and
\* what removes the conversation is a deletion that was admitted when the conversation
\* was its client's (run_pipeline, delete_conversation).  It may by then be another
\* client's, as delete_conversation checks the owner and deletes by id in two statements.
THEOREM ConversationIsATranscript == Spec => ImplementsTranscript
<1>1. Init => IInv /\ RefinementInv /\ Abstract!Init
  BY InitInvariant, InitRefinement
<1>2. IInv /\ RefinementInv /\ [Next]_vars => RefinementInv'
  BY TurnsInOrderStep, NotYetDurableStep DEF IInv, RefinementInv
<1>3. IInv /\ RefinementInv /\ [Next]_vars => [Abstract!Next]_(Abstract!vars)
  <2> SUFFICES ASSUME IInv, RefinementInv, [Next]_vars
               PROVE  [Abstract!Next]_(Abstract!vars)
    OBVIOUS
  <2>1. ASSUME NEW r \in Turns, CommitTurn(r) PROVE Abstract!Next
    BY <2>1, CommitAppends DEF Abstract!Next
  <2>2. ASSUME NEW d \in Deletes, CommitDelete(d), draft[d].delete PROVE Abstract!Next
    BY <2>2, EraseRemoves DEF Abstract!Next
  <2>3. ASSUME UNCHANGED <<row, messages>> PROVE [Abstract!Next]_(Abstract!vars)
    BY <2>3, OtherSteps
  <2>4. UNCHANGED vars => UNCHANGED <<row, messages>>
    BY DEF vars, database
  <2> QED
    BY <2>1, <2>2, <2>3, <2>4, OnlyCommitsShow DEF IInv
<1> QED
  BY <1>1, <1>2, <1>3, InductiveInvariant, PTL DEF Spec, ImplementsTranscript, Abstract!Spec
=============================================================================
