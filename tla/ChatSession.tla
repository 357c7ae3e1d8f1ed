---------------------------- MODULE ChatSession ----------------------------
(***************************************************************************)
(* The requests that work on ONE conversation id: POST /chat, POST         *)
(* /chat/stream and DELETE /conversations/{id} (backend/app/main.py), with *)
(* the two locks they meet: the Redis key session:<id>:request_lock, which *)
(* expires by itself, and the Postgres row lock that ensure_chat_access    *)
(* takes (services/conversations.py).  Every SQL statement, commit and     *)
(* Redis command is a step of its own, since other requests interleave     *)
(* there.  What a turn computes is left out; what it reads of earlier      *)
(* turns, and what it leaves in the database and in Redis, is kept.        *)
(*                                                                         *)
(* Postgres runs at READ COMMITTED: a statement sees what was committed    *)
(* when it started plus its own transaction's writes, and a statement that *)
(* waited for a row lock looks at the row again.                           *)
(***************************************************************************)
EXTENDS Naturals, FiniteSets

CONSTANTS
    Chats,          \* requests to POST /api/v1/chat
    Streams,        \* requests to POST /api/v1/chat/stream
    Deletes,        \* requests to DELETE /api/v1/conversations/{id}
    Clients,        \* the X-Client-ID values ("no header" is one of them)
    ClientOf,       \* the client each request names
    HistoryLimit,   \* recent_history's limit, in messages
    Faults,         \* which faults of the environment may happen
    NoOne           \* no request, no client

Turns    == Chats \union Streams
Requests == Turns \union Deletes

ASSUME ConstantsAssumption ==
    /\ Chats \intersect Streams = {}
    /\ Turns \intersect Deletes = {}
    /\ ClientOf \in [Requests -> Clients]
    /\ NoOne \notin Requests \union Clients
    /\ HistoryLimit \in Nat
    /\ Faults \subseteq {"expiry", "crash", "redis"}

VARIABLES
    pc,             \* the next step of each request
    reply,          \* what each request answers its caller
    requestLock,    \* Redis: owner of session:<id>:request_lock
    row,            \* Postgres: the committed conversation row
    messages,       \* Postgres: the committed conversation_message rows
    rowLock,        \* Postgres: the transaction that holds the row's lock
    draft,          \* uncommitted writes of each request's transaction
    snapshot,       \* the row version a statement of the request started on
    history,        \* the messages a turn gave to the model as context
    cachedMessage,  \* Redis: session:<id>:last_user_message, by its writer
    cachedAnswer,   \* Redis: session:<id>:last_answer, by its writer
    scopeUnlocked,  \* Redis: session:<id>:scope_unlocked, by its writer
    durable,        \* history variable: turns whose transaction committed
    stranded        \* history variable: requests that died, or for which Redis failed
                    \* when their request lock was taken or released

redis    == <<requestLock, cachedMessage, cachedAnswer, scopeUnlocked>>
database == <<row, messages, rowLock, draft>>
vars     == <<pc, reply, redis, database, snapshot, history, durable, stranded>>

NoRow   == [creator |-> NoOne, client |-> NoOne]
Row     == [creator : Requests, client : Clients] \union {NoRow}
Message == [no : Nat \ {0}, role : {"user", "assistant"}, by : Turns]
NoDraft == [insert |-> FALSE, delete |-> FALSE, add |-> {}]

TurnSteps   == {"start", "insert", "select", "lock", "read", "gates", "persist",
                "commit", "cacheMessage", "cacheAnswer", "release", "close", "done"}
DeleteSteps == {"start", "target", "remove", "erase", "uncache", "done"}

TypeOK ==
    /\ pc \in [Requests -> TurnSteps \union DeleteSteps]
    /\ reply \in [Requests -> {"none", "conflict", "not_found", "answer", "error", "cut"}]
    /\ requestLock \in Turns \union {NoOne}
    /\ row \in Row
    /\ messages \subseteq Message
    /\ rowLock \in Requests \union {NoOne}
    /\ draft \in [Requests -> [insert : BOOLEAN, delete : BOOLEAN, add : SUBSET Message]]
    /\ snapshot \in [Requests -> Requests \union {NoOne}]
    /\ history \in [Turns -> SUBSET Message]
    /\ cachedMessage \in Turns \union {NoOne}
    /\ cachedAnswer \in Turns \union {NoOne}
    /\ scopeUnlocked \in Turns \union {NoOne}
    /\ durable \subseteq Turns
    /\ stranded \subseteq Requests

Init ==
    /\ pc = [r \in Requests |-> "start"]
    /\ reply = [r \in Requests |-> "none"]
    /\ requestLock = NoOne
    /\ row = NoRow
    /\ messages = {}
    /\ rowLock = NoOne
    /\ draft = [r \in Requests |-> NoDraft]
    /\ snapshot = [r \in Requests |-> NoOne]
    /\ history = [r \in Turns |-> {}]
    /\ cachedMessage = NoOne
    /\ cachedAnswer = NoOne
    /\ scopeUnlocked = NoOne
    /\ durable = {}
    /\ stranded = {}

-----------------------------------------------------------------------------
(* What the steps are built from.                                          *)

Goto(r, step)  == pc' = [pc EXCEPT ![r] = step]
Answer(r, how) == reply' = [reply EXCEPT ![r] = how]

\* The row as the request's own transaction sees it.
RowSeenBy(r) == IF draft[r].insert THEN [creator |-> r, client |-> ClientOf[r]] ELSE row

\* Variation, to test the properties: the client is not compared.
OwnsRow_Unchecked(r) == RowSeenBy(r) # NoRow

OwnsRow(r) == RowSeenBy(r).client = ClientOf[r]

\* Variation, to test the properties: no FOR UPDATE.
RowFreeFor_NoLock(r) == r \in Requests

\* A statement that locks the row waits for another transaction's lock.
RowFreeFor(r) == rowLock \in {NoOne, r}

\* Another transaction has written the row and is not finished.
RowWrittenByAnother(r) == rowLock \notin {NoOne, r} /\ draft[rowLock] # NoDraft

\* Variation, to test the properties: the database session is never given back.
EndTransaction_Leaks(r) == draft' = [draft EXCEPT ![r] = NoDraft] /\ UNCHANGED rowLock

\* Commit or rollback: the transaction's lock and uncommitted writes are gone.
EndTransaction(r) ==
    /\ rowLock' = IF rowLock = r THEN NoOne ELSE rowLock
    /\ draft' = [draft EXCEPT ![r] = NoDraft]

Rollback(r) == EndTransaction(r) /\ UNCHANGED <<row, messages>>

\* Variation, to test the properties: the last question's number, not the last message's.
LastNo_OfQuestions(msgs) ==
    Cardinality({m \in msgs : m.role = "user"})

\* SELECT max(sequence_no), 0 when there is no message.
LastNo(msgs) == IF msgs = {} THEN 0
                ELSE CHOOSE n \in {m.no : m \in msgs} : \A m \in msgs : m.no <= n

\* ORDER BY sequence_no DESC LIMIT HistoryLimit.
Newest(msgs) == {m \in msgs : Cardinality({n \in msgs : n.no > m.no}) < HistoryLimit}

Exchange(r, after) == {[no |-> after + 1, role |-> "user", by |-> r],
                       [no |-> after + 2, role |-> "assistant", by |-> r]}

-----------------------------------------------------------------------------
(* A chat turn.                                                            *)

\* SET NX EX: reserve the session, or answer 409 at once.  A failing Redis
\* ends the request, and may have set the key although nobody was told.
AcquireRequestLock(r) ==
    /\ pc[r] = "start"
    /\ \/ /\ requestLock = NoOne
          /\ requestLock' = r
          /\ Goto(r, "insert")
          /\ UNCHANGED <<reply, stranded>>
       \/ /\ requestLock # NoOne
          /\ Goto(r, "done")
          /\ Answer(r, "conflict")
          /\ UNCHANGED <<requestLock, stranded>>
       \/ /\ "redis" \in Faults
          /\ requestLock' \in {requestLock, IF requestLock = NoOne THEN r ELSE requestLock}
          /\ Goto(r, "done")
          /\ Answer(r, "error")
          /\ stranded' = stranded \union {r}
    /\ UNCHANGED <<cachedMessage, cachedAnswer, scopeUnlocked, database, snapshot,
                   history, durable>>

\* INSERT ... ON CONFLICT DO NOTHING waits for a transaction that is writing the row.
InsertConversation(r) ==
    /\ pc[r] = "insert"
    /\ ~RowWrittenByAnother(r)
    /\ IF row = NoRow
       THEN /\ draft' = [draft EXCEPT ![r].insert = TRUE]
            /\ rowLock' = r
       ELSE UNCHANGED <<draft, rowLock>>
    /\ Goto(r, "select")
    /\ UNCHANGED <<reply, redis, row, messages, snapshot, history, durable, stranded>>

\* SELECT ... FOR UPDATE starts: it looks for the row before it waits for it.
SelectConversation(r) ==
    /\ pc[r] = "select"
    /\ snapshot' = [snapshot EXCEPT ![r] = RowSeenBy(r).creator]
    /\ IF RowSeenBy(r) = NoRow
       THEN Goto(r, "release") /\ Answer(r, "not_found")
       ELSE Goto(r, "lock") /\ UNCHANGED reply
    /\ UNCHANGED <<redis, database, history, durable, stranded>>

\* ... and ends with the row locked, or without it when it was deleted meanwhile.
\* A row of another client is locked too before the turn is refused.
LockConversation(r) ==
    LET found == RowSeenBy(r).creator = snapshot[r] IN
    /\ pc[r] = "lock"
    /\ RowFreeFor(r)
    /\ rowLock' = IF found THEN r ELSE rowLock
    /\ IF found /\ OwnsRow(r)
       THEN Goto(r, "read") /\ UNCHANGED reply
       ELSE Goto(r, "release") /\ Answer(r, "not_found")
    /\ UNCHANGED <<redis, row, messages, draft, snapshot, history, durable, stranded>>

\* recent_history: the context the gates and the model are given.
ReadHistory(r) ==
    /\ pc[r] = "read"
    /\ history' = [history EXCEPT ![r] = Newest(messages)]
    /\ Goto(r, "gates")
    /\ UNCHANGED <<reply, redis, database, snapshot, durable, stranded>>

\* The gates, then the model: a first in-scope verdict is remembered in Redis
\* before anything is committed.  A gate's rejection is an answer like another.
RunGates(r) ==
    /\ pc[r] = "gates"
    /\ \/ UNCHANGED scopeUnlocked
       \/ scopeUnlocked = NoOne /\ scopeUnlocked' = r
    /\ Goto(r, "persist")
    /\ UNCHANGED <<reply, requestLock, cachedMessage, cachedAnswer, database, snapshot,
                   history, durable, stranded>>

\* persist_exchange: FOR UPDATE again, max(sequence_no) + 1, the two rows.
PersistExchange(r) ==
    /\ pc[r] = "persist"
    /\ RowFreeFor(r)
    /\ RowSeenBy(r) # NoRow
    /\ rowLock' = r
    /\ draft' = [draft EXCEPT ![r].add = Exchange(r, LastNo(messages))]
    /\ Goto(r, "commit")
    /\ UNCHANGED <<reply, redis, row, messages, snapshot, history, durable, stranded>>

CommitTurn(r) ==
    /\ pc[r] = "commit"
    /\ row' = RowSeenBy(r)
    /\ messages' = messages \union draft[r].add
    /\ durable' = durable \union {r}
    /\ EndTransaction(r)
    /\ Goto(r, "cacheMessage")
    /\ UNCHANGED <<reply, redis, snapshot, history, stranded>>

\* Variation, to test the properties: a failing cache write fails the turn.
Guarded_WithCache == {"read", "gates", "persist", "commit", "cacheMessage"}

\* The steps under run_pipeline's except clause.
Guarded == {"read", "gates", "persist", "commit"}

\* An exception in the pipeline: roll back, record the failure, answer with it.
FailTurn(r) ==
    /\ pc[r] \in Guarded
    /\ Rollback(r)
    /\ Goto(r, "release")
    /\ Answer(r, "error")
    /\ UNCHANGED <<redis, snapshot, history, durable, stranded>>

\* _cache_pipeline_state writes its keys one after another; when one write
\* fails the rest are skipped, and the answer stands all the same.
CacheMessage(r) ==
    /\ pc[r] = "cacheMessage"
    /\ \/ /\ cachedMessage' = r
          /\ Goto(r, "cacheAnswer")
          /\ UNCHANGED reply
       \/ /\ "redis" \in Faults
          /\ Goto(r, "release")
          /\ Answer(r, "answer")
          /\ UNCHANGED cachedMessage
    /\ UNCHANGED <<requestLock, cachedAnswer, scopeUnlocked, database, snapshot, history,
                   durable, stranded>>

CacheAnswer(r) ==
    /\ pc[r] = "cacheAnswer"
    /\ \/ cachedAnswer' = r
       \/ "redis" \in Faults /\ UNCHANGED cachedAnswer
    /\ Goto(r, "release")
    /\ Answer(r, "answer")
    /\ UNCHANGED <<requestLock, cachedMessage, scopeUnlocked, database, snapshot, history,
                   durable, stranded>>

\* Variation, to test the properties: DEL without comparing the owner.
LockAfterRelease_Any(r) == IF r \in Turns THEN NoOne ELSE requestLock

\* Compare-and-delete in one Lua call.
LockAfterRelease(r) == IF requestLock = r THEN NoOne ELSE requestLock

\* Variation, to test the properties: a stream is told of the failing release, too.
ReplyOfFailedRelease_All(r) == IF reply[r] = "cut" THEN "cut" ELSE "error"

\* The exception of a failing release takes the place of POST /chat's reply and of
\* a refusal.  A stream has put its result in the queue by then.
ReplyOfFailedRelease(r) ==
    IF r \in Chats \/ reply[r] = "not_found" THEN "error" ELSE reply[r]

\* The finally clauses of chat and chat_stream.  A failing Redis may have deleted
\* the key although nobody was told.
ReleaseRequestLock(r) ==
    /\ pc[r] = "release"
    /\ \/ /\ requestLock' = LockAfterRelease(r)
          /\ UNCHANGED <<reply, stranded>>
       \/ /\ "redis" \in Faults
          /\ requestLock' \in {requestLock, LockAfterRelease(r)}
          /\ Answer(r, ReplyOfFailedRelease(r))
          /\ stranded' = stranded \union {r}
    /\ Goto(r, "close")
    /\ UNCHANGED <<cachedMessage, cachedAnswer, scopeUnlocked, database, snapshot, history,
                   durable>>

\* get_session's exit closes the database session; what it left open rolls back.
CloseSession(r) ==
    /\ pc[r] = "close"
    /\ Rollback(r)
    /\ Goto(r, "done")
    /\ UNCHANGED <<reply, redis, snapshot, history, durable, stranded>>

\* Variation, to test the properties: the cancelled task does not release the lock.
Disconnect_KeepsLock(r) ==
    /\ r \in Streams
    /\ pc[r] \in Guarded
    /\ Goto(r, "close")
    /\ Answer(r, "cut")
    /\ UNCHANGED <<redis, database, snapshot, history, durable, stranded>>

\* The client of a stream goes away: the pipeline task is cancelled where it
\* stands.  Its finally clause releases the request lock in a shielded task; the
\* transaction stays open until the database session is closed.
Disconnect(r) ==
    /\ r \in Streams
    /\ pc[r] \in Guarded \union {"cacheMessage", "cacheAnswer"}
    /\ Goto(r, "release")
    /\ Answer(r, "cut")
    /\ UNCHANGED <<redis, database, snapshot, history, durable, stranded>>

\* The shielded release may outlive the cancelled stream and its session.
CloseBeforeRelease(r) ==
    /\ r \in Streams
    /\ pc[r] = "release"
    /\ reply[r] = "cut"
    /\ rowLock = r
    /\ Rollback(r)
    /\ UNCHANGED <<pc, reply, redis, snapshot, history, durable, stranded>>

-----------------------------------------------------------------------------
(* A deletion: it takes no request lock.                                   *)

FindOwned(d) ==
    /\ pc[d] = "start"
    /\ IF row # NoRow /\ row.client = ClientOf[d]
       THEN Goto(d, "target") /\ UNCHANGED reply
       ELSE Goto(d, "done") /\ Answer(d, "not_found")
    /\ UNCHANGED <<redis, database, snapshot, history, durable, stranded>>

\* DELETE ... WHERE id = :id starts: the id is all it looks at.
TargetRow(d) ==
    /\ pc[d] = "target"
    /\ snapshot' = [snapshot EXCEPT ![d] = row.creator]
    /\ Goto(d, "remove")
    /\ UNCHANGED <<reply, redis, database, history, durable, stranded>>

RemoveRow(d) ==
    /\ pc[d] = "remove"
    /\ RowFreeFor(d)
    /\ IF row # NoRow /\ row.creator = snapshot[d]
       THEN /\ rowLock' = d
            /\ draft' = [draft EXCEPT ![d].delete = TRUE]
       ELSE UNCHANGED <<rowLock, draft>>
    /\ Goto(d, "erase")
    /\ UNCHANGED <<reply, redis, row, messages, snapshot, history, durable, stranded>>

\* The commit; the messages go with their conversation (ON DELETE CASCADE).
CommitDelete(d) ==
    /\ pc[d] = "erase"
    /\ IF draft[d].delete
       THEN row' = NoRow /\ messages' = {}
       ELSE UNCHANGED <<row, messages>>
    /\ EndTransaction(d)
    /\ Goto(d, "uncache")
    /\ UNCHANGED <<reply, redis, snapshot, history, durable, stranded>>

\* delete_session, best effort: the keys of _SESSION_FIELDS in one command.
DeleteSession(d) ==
    /\ pc[d] = "uncache"
    /\ \/ cachedMessage' = NoOne /\ cachedAnswer' = NoOne
       \/ "redis" \in Faults /\ UNCHANGED <<cachedMessage, cachedAnswer>>
    /\ Goto(d, "done")
    /\ Answer(d, "answer")
    /\ UNCHANGED <<requestLock, scopeUnlocked, database, snapshot, history, durable, stranded>>

-----------------------------------------------------------------------------
(* The environment.                                                        *)

\* The request lock's TTL runs out, whether or not its owner is still at work.
ExpireRequestLock ==
    /\ "expiry" \in Faults
    /\ requestLock # NoOne
    /\ requestLock' = NoOne
    /\ UNCHANGED <<pc, reply, cachedMessage, cachedAnswer, scopeUnlocked, database,
                   snapshot, history, durable, stranded>>

\* The server process dies under a request: Postgres rolls back, Redis keeps its keys.
Crash(r) ==
    /\ "crash" \in Faults
    /\ pc[r] \notin {"start", "done"}
    /\ Rollback(r)
    /\ Goto(r, "done")
    /\ Answer(r, "cut")
    /\ stranded' = stranded \union {r}
    /\ UNCHANGED <<redis, snapshot, history, durable>>

TurnStep(r) ==
    \/ AcquireRequestLock(r) \/ InsertConversation(r) \/ SelectConversation(r)
    \/ LockConversation(r) \/ ReadHistory(r) \/ RunGates(r) \/ PersistExchange(r)
    \/ CommitTurn(r) \/ CacheMessage(r) \/ CacheAnswer(r) \/ ReleaseRequestLock(r)
    \/ CloseSession(r)

DeleteStep(d) ==
    FindOwned(d) \/ TargetRow(d) \/ RemoveRow(d) \/ CommitDelete(d) \/ DeleteSession(d)

Finished == (\A r \in Requests : pc[r] = "done") /\ UNCHANGED vars

Next ==
    \/ \E r \in Turns : TurnStep(r) \/ FailTurn(r) \/ Disconnect(r) \/ CloseBeforeRelease(r)
    \/ \E d \in Deletes : DeleteStep(d)
    \/ ExpireRequestLock
    \/ \E r \in Requests : Crash(r)
    \/ Finished

Spec == Init /\ [][Next]_vars

\* The server carries every request on.  No fault has to happen, no client has to go
\* away, and no lock has to expire.
Fairness ==
    /\ \A r \in Turns : WF_vars(TurnStep(r))
    /\ \A d \in Deletes : WF_vars(DeleteStep(d))

FairSpec == Spec /\ Fairness

-----------------------------------------------------------------------------
(* Properties.                                                             *)

\* "A later turn cannot read stale context while the previous one is running":
\* from the moment a turn has read its context until it commits, the committed
\* transcript it read does not change, even when its Redis lock has expired and
\* another request, or a deletion, is in progress (ensure_chat_access).
FreshContext ==
    \A r \in Turns :
        pc[r] \in {"gates", "persist", "commit"} => history[r] = Newest(messages)

\* The transcript is numbered 1, 2, ... without gap or repetition, and each
\* question is followed by the answer of the same request (persist_exchange's
\* max(sequence_no) + 1).
WellNumbered ==
    /\ {m.no : m \in messages} = 1..Cardinality(messages)
    /\ \A m \in messages :
        m.role = "user" => [no |-> m.no + 1, role |-> "assistant", by |-> m.by] \in messages

\* All messages of a conversation come from the client the row names, also when
\* the id was deleted and created again by somebody else (ensure_chat_access).
OneClientPerTranscript ==
    \A m \in messages : row.client = ClientOf[m.by]

\* The reply tells what became of the turn: an answer is in the database, and a
\* turn that was refused or failed has left nothing there, so that sending it
\* again does not repeat it (run_pipeline's commit and rollback, and the cache writes
\* that follow).  With one exception that the code has: when Redis fails at the
\* release, POST /chat reports an error (main.py:428), whatever it has stored.
ReplyMatchesDatabase ==
    \A r \in Turns :
        /\ reply[r] = "answer" => r \in durable
        /\ reply[r] \in {"conflict", "not_found", "error"} =>
               r \notin durable \/ r \in Chats \intersect stranded

\* A request lock does not outlive its request: a finished, failed or cancelled
\* turn leaves the session free before the TTL runs out (the finally clauses of
\* chat and chat_stream).  Only a crash, and Redis failing when the lock is taken
\* or released, leave it to the TTL.
LockDiesWithRequest ==
    requestLock # NoOne =>
        pc[requestLock] \notin {"start", "close", "done"} \/ requestLock \in stranded

\* An expired request does not free the session under a newer one: a step of r
\* never changes a lock held by another request (release_request_lock's Lua).
ReleasesOnlyOwnLock ==
    [][\A r \in Turns :
        pc'[r] # pc[r] /\ requestLock \notin {NoOne, r} => requestLock' = requestLock]_vars

\* Every request that starts comes to an end: the request lock, the row lock and
\* a deletion that waits for a turn never wait for each other.
EveryRequestEnds ==
    \A r \in Requests : pc[r] # "start" ~> pc[r] = "done"

-----------------------------------------------------------------------------
(* ChatSession implements Transcript: the committed rows are the abstract  *)
(* transcript, history[r] is what turn r was given, and a deletion is       *)
(* admitted from its ownership check to its commit.                        *)

\* The requests whose exchanges make up a set of messages, in transcript order.
Order(msgs) ==
    LET questions == {m \in msgs : m.role = "user"}
    IN  [i \in 1..Cardinality(questions) |->
            (CHOOSE m \in questions :
                Cardinality({n \in questions : n.no < m.no}) = i - 1).by]

TranscriptOf(msgs) ==
    [i \in DOMAIN Order(msgs) |->
        [by |-> Order(msgs)[i], given |-> Order(history[Order(msgs)[i]])]]

\* The deletions that have passed the ownership check and are not committed.
Admitted == {d \in Deletes : pc[d] \in {"target", "remove", "erase"}}

Abstract == INSTANCE Transcript WITH
    Window <- HistoryLimit \div 2,
    Nobody <- NoOne,
    owner  <- row.client,
    turns  <- TranscriptOf(messages),
    admitted <- Admitted

\* The committed conversation behaves like Transcript (run_pipeline's
\* transaction and delete_conversation's, as other transactions see them).
ImplementsTranscript == Abstract!Spec
=============================================================================
