----------------------------- MODULE ChatClient -----------------------------
(***************************************************************************)
(* Browser tabs and the stream they read.  A tab keeps a transcript on the *)
(* screen, sends a prompt, and reads the events of chat_stream until their *)
(* end; connections break, the user interrupts the script, opens or        *)
(* deletes conversations.  The server side is chat_stream: lock, access    *)
(* check, the pipeline (here one commit or failure), the queue of events;  *)
(* Redis, which keeps the lock, may fail.                                  *)
(* Text deltas, progress and heartbeats change nothing that is kept.       *)
(***************************************************************************)
EXTENDS Integers, Sequences, FiniteSets, SequencesExt

CONSTANTS
  Tabs, Browsers,
  BrowserOf,       \* of each tab
  Conversations,   \* ids; new ones are taken from those nobody has used
  MaxPrompts,      \* bound on the prompts typed
  MaxRequests,     \* bound on the POSTs
  MaxClicks,       \* bound on what else the user does, on broken connections and failures of Redis
  NoOne

ASSUME BoundsAreNumbers == MaxPrompts \in Nat /\ MaxRequests \in Nat /\ MaxClicks \in Nat
ASSUME BrowsersAreKnown == BrowserOf \in [Tabs -> Browsers] /\ NoOne \notin Browsers \cup Conversations

Requests == 1..MaxRequests
NoRequest == 0

VARIABLES
  owner, turns,  \* per conversation: the browser it belongs to, NoOne without a row; prompts stored
  gone,          \* prompts that were stored and deleted
  used,          \* ids that have been somebody's
  lock,          \* per conversation: the request that holds it
  deleting,      \* conversations with a DELETE that its tab has given up on
  req,           \* per request
  posted, typed, clicks, \* how many there were of each
  tab            \* per tab

vars == <<owner, turns, gone, used, lock, deleting, req, posted, typed, clicks, tab>>
database == <<owner, turns, gone, deleting>>

Message(role, prompt, c) == [role |-> role, prompt |-> prompt, conv |-> c]
InFlight(t) == tab[t].phase \in {"sending", "reading"}
\* Something that happens at most MaxClicks times.
Click == clicks < MaxClicks /\ clicks' = clicks + 1
Unsent == [tab |-> NoOne, conv |-> NoOne, prompt |-> 0, stage |-> "unsent", events |-> <<>>,
           cut |-> FALSE, holder |-> NoRequest]

\* A tab opens with whatever id its URL carries, its transcript not loaded yet.
Init ==
  /\ owner \in [Conversations -> Browsers \cup {NoOne}]
  /\ \E c \in Conversations : \A d \in Conversations \ {c} : owner[d] = NoOne
  /\ turns = [c \in Conversations |-> <<>>] /\ gone = {}
  /\ lock = [c \in Conversations |-> NoRequest] /\ deleting = {}
  /\ req = [q \in Requests |-> Unsent] /\ posted = 0 /\ typed = 0 /\ clicks = 0
  /\ \E open \in [Tabs -> Conversations] :
       /\ tab = [t \in Tabs |-> [session |-> open[t], phase |-> "loading", messages |-> <<>>,
                                 pending |-> 0, attempt |-> 0, request |-> NoRequest,
                                 data |-> FALSE, doomed |-> NoOne]]
       /\ used = Range([t \in Tabs |-> open[t]]) \cup {c \in Conversations : owner[c] # NoOne}

------------------------------------------------------------------------------
(* The server.                                                              *)

\* The queue of a stream; what nobody will read is left out.
PutAt(q, stage, event) ==
  req' = [req EXCEPT ![q].events = IF req[q].cut THEN <<>> ELSE Append(@, event), ![q].stage = stage]
To(q, stage) == req' = [req EXCEPT ![q].stage = stage]
HasRow(q) == req[q].stage \in {"running"}
RowFree(c) == \A q \in Requests : req[q].conv = c => ~HasRow(q)

\* acquire_request_lock, or 409.
Acquire(q) ==
  /\ req[q].stage = "sent"
  /\ LET c == req[q].conv IN
     IF lock[c] = NoRequest THEN lock' = [lock EXCEPT ![c] = q] /\ To(q, "access")
     ELSE /\ req' = [req EXCEPT ![q].events = IF req[q].cut THEN <<>> ELSE <<"409">>, ![q].stage = "ended", ![q].holder = lock[c]]
          /\ UNCHANGED lock
  /\ UNCHANGED <<database, used, posted, typed, clicks, tab>>

\* _check_chat_access: of nobody yet, or of this browser; a refusal releases the lock at once.
MayUse(q) == owner[req[q].conv] \in {NoOne, BrowserOf[req[q].tab]}
CheckAccess(q) ==
  /\ req[q].stage = "access"
  /\ RowFree(req[q].conv)
  /\ IF MayUse(q)
     THEN PutAt(q, "running", "200") /\ UNCHANGED lock
     ELSE PutAt(q, "ended", "404") /\ lock' = [lock EXCEPT ![req[q].conv] = NoRequest]
  /\ UNCHANGED <<database, used, posted, typed, clicks, tab>>

\* The client went away before the response began: its generator may never run.
NeverStarts(q) ==
  /\ req[q].stage = "running" /\ req[q].cut
  /\ To(q, "ended")
  /\ UNCHANGED <<database, used, lock, posted, typed, clicks, tab>>

\* The turn is committed with its conversation.
Commit(q) ==
  /\ req[q].stage = "running"
  /\ owner' = [owner EXCEPT ![req[q].conv] = BrowserOf[req[q].tab]]
  /\ turns' = [turns EXCEPT ![req[q].conv] = Append(@, req[q].prompt)]
  /\ To(q, "committed")
  /\ UNCHANGED <<gone, deleting, used, lock, posted, typed, clicks, tab>>

\* Variation, to test the properties: the result is sent while the turn is being saved.
ResultReady_Early(q) == req[q].stage \in {"running", "committed"}
ResultReady(q) == req[q].stage = "committed"
PutResult(q) ==
  /\ ResultReady(q)
  /\ PutAt(q, "releasing", "result")
  /\ UNCHANGED <<database, used, lock, posted, typed, clicks, tab>>

PipelineFails(q) ==
  /\ req[q].stage = "running"
  /\ PutAt(q, "releasing", "error")
  /\ UNCHANGED <<database, used, lock, posted, typed, clicks, tab>>

\* The task of a stream that nobody reads any more is cancelled.
CancelTask(q) ==
  /\ req[q].stage \in {"running", "committed"} /\ req[q].cut
  /\ To(q, "releasing")
  /\ UNCHANGED <<database, used, lock, posted, typed, clicks, tab>>

\* The finally clauses of run: the lock, then the mark that ends the stream.
\* Variation, to test the properties: only a result is cleaned up after.
CleansUp_Result(q) == "result" \in Range(req[q].events)
CleansUp(q) == TRUE
Holds(q) == lock[req[q].conv] = q
Release(q) ==
  /\ req[q].stage = "releasing" /\ CleansUp(q) /\ Holds(q)
  /\ lock' = [lock EXCEPT ![req[q].conv] = NoRequest]
  /\ UNCHANGED <<database, used, req, posted, typed, clicks, tab>>
\* Variation, to test the properties: the stream ends before the lock is released.
MayEnd_Early(q) == TRUE
MayEnd(q) == ~Holds(q)
EndStream(q) ==
  /\ req[q].stage = "releasing" /\ CleansUp(q) /\ MayEnd(q)
  /\ PutAt(q, "ended", "end")
  /\ UNCHANGED <<database, used, lock, posted, typed, clicks, tab>>

\* Redis fails when the lock is taken or released.  The exception is a 500 before the stream;
\* behind it, run still puts its end mark, and then the generator's own finally clause raises
\* and breaks the response off.  A command that was carried out although it failed leaves what
\* LockExpires leaves.
RedisFails(q) ==
  LET c == req[q].conv IN
  /\ Click
  /\ \/ /\ req[q].stage = "sent"
        /\ lock' = [lock EXCEPT ![c] = IF @ = NoRequest THEN q ELSE @]
        /\ PutAt(q, "stranded", "500")
     \/ /\ req[q].stage = "access" /\ RowFree(c) /\ ~MayUse(q)
        /\ PutAt(q, "stranded", "500") /\ UNCHANGED lock
     \/ /\ req[q].stage = "releasing" /\ CleansUp(q) /\ Holds(q)
        /\ PutAt(q, "stranded", "broken") /\ UNCHANGED lock
  /\ UNCHANGED <<database, used, posted, typed, tab>>

\* The TTL of a lock that nobody will release.
LockExpires(q) ==
  /\ req[q].stage \in {"ended", "stranded"} /\ Holds(q)
  /\ lock' = [lock EXCEPT ![req[q].conv] = NoRequest]
  /\ UNCHANGED <<database, used, req, posted, typed, clicks, tab>>

Removed(c) ==
  /\ owner' = [owner EXCEPT ![c] = NoOne] /\ turns' = [turns EXCEPT ![c] = <<>>]
  /\ gone' = gone \cup Range(turns[c])
\* A DELETE that waited for the row, after its client's timeout.
DeleteLate(c) ==
  /\ c \in deleting /\ RowFree(c)
  /\ Removed(c) /\ deleting' = deleting \ {c}
  /\ UNCHANGED <<used, lock, req, posted, typed, clicks, tab>>

ServerStep(q) == \/ Acquire(q) \/ CheckAccess(q) \/ Commit(q) \/ PutResult(q) \/ PipelineFails(q)
                 \/ CancelTask(q) \/ Release(q) \/ EndStream(q)

------------------------------------------------------------------------------
(* The tab.  Every interaction reruns the script from its top; while a      *)
(* request is in flight the input and the history buttons are disabled.     *)

Idle(t) == tab[t].phase = "idle"
Fresh == CHOOSE c \in Conversations \ used : TRUE
CanStartNew == Conversations \ used # {}
Set(t, new) == tab' = [tab EXCEPT ![t] = new]

\* _get_conversation at the top of a run; 404 is a conversation that does not exist yet, and a
\* failure is not an empty transcript: it is shown, and the next run tries again.
Stored(t) ==
  LET c == tab[t].session IN
  IF owner[c] # BrowserOf[t] THEN <<>>
  ELSE [i \in 1..(2 * Len(turns[c])) |->
          Message(IF i % 2 = 1 THEN "user" ELSE "assistant", turns[c][(i + 1) \div 2], c)]
Load(t) ==
  /\ tab[t].phase \in {"loading", "unloaded"}
  /\ \/ Set(t, [tab[t] EXCEPT !.messages = Stored(t), !.phase = "idle"])
     \/ Set(t, [tab[t] EXCEPT !.messages = <<>>, !.phase = "unloaded"])
  /\ UNCHANGED <<database, used, lock, req, posted, typed, clicks>>

Submit(t) ==
  /\ Idle(t) /\ typed < MaxPrompts
  /\ typed' = typed + 1
  /\ Set(t, [tab[t] EXCEPT !.messages = Append(@, Message("user", typed', tab[t].session)),
                           !.pending = typed', !.attempt = 0, !.phase = "sending"])
  /\ UNCHANGED <<database, used, lock, req, posted, clicks>>

Post(t) ==
  /\ tab[t].phase = "sending" /\ posted < MaxRequests
  /\ posted' = posted + 1
  /\ req' = [req EXCEPT ![posted'] = [Unsent EXCEPT !.tab = t, !.conv = tab[t].session,
                                                    !.prompt = tab[t].pending, !.stage = "sent"]]
  /\ Set(t, [tab[t] EXCEPT !.request = posted', !.data = FALSE, !.phase = "reading"])
  /\ UNCHANGED <<database, used, lock, typed, clicks>>

\* The end of a request, whatever came of it.
Ended(t) == [tab[t] EXCEPT !.phase = "idle", !.pending = 0, !.request = NoRequest, !.data = FALSE]
Closed(r) == [r EXCEPT !.events = <<>>, !.cut = TRUE]
Cut(t) == req' = [q \in Requests |-> IF q = tab[t].request THEN Closed(req[q]) ELSE req[q]]

\* _new_conversation.
InNew(state) == [state EXCEPT !.session = Fresh, !.doomed = NoOne, !.messages = <<>>]

\* A conversation of another browser: once, the prompt is sent again in a new one.
\* Variation, to test the properties: it is sent again after a lost connection, too.
SendsAgain_Lost(why, t) == tab[t].attempt = 0 /\ why \in {"404", "lost"}
SendsAgain(why, t) == tab[t].attempt = 0 /\ why = "404"
Again(t) ==
  /\ used' = used \cup {Fresh}
  /\ Set(t, [InNew(tab[t]) EXCEPT !.attempt = 1, !.phase = "sending",
                                  !.messages = Append(@, Message("user", tab[t].pending, Fresh))])

\* The request did not bring a result: the optimistic prompt stays on the screen.
GivesUp(t, why) ==
  IF SendsAgain(why, t) /\ CanStartNew THEN Again(t) ELSE Set(t, Ended(t)) /\ UNCHANGED used

CannotConnect(t) ==
  /\ tab[t].phase = "sending"
  /\ GivesUp(t, "lost")
  /\ UNCHANGED <<database, lock, req, posted, typed, clicks>>

Reading(t) == tab[t].phase = "reading" /\ req[tab[t].request].events # <<>>
Event(t) == Head(req[tab[t].request].events)
Read(t) == req' = [req EXCEPT ![tab[t].request].events = Tail(@)]

Answered(t) == [Ended(t) EXCEPT !.messages = Append(@, Message("assistant", tab[t].pending, tab[t].session))]
Receive(t) ==
  /\ Reading(t)
  /\ \/ Event(t) \in {"200", "result"} /\ Read(t) /\ UNCHANGED used
        /\ Set(t, [tab[t] EXCEPT !.data = @ \/ Event(t) = "result"])
     \/ Event(t) \in {"409", "404", "500", "broken"} /\ Read(t) /\ GivesUp(t, Event(t))
     \/ Event(t) = "error" /\ Cut(t) /\ GivesUp(t, "error")
     \/ /\ Event(t) = "end" /\ Read(t)
        /\ IF tab[t].data THEN Set(t, Answered(t)) /\ UNCHANGED used ELSE GivesUp(t, "end")
  /\ UNCHANGED <<database, lock, posted, typed, clicks>>

\* The connection breaks or the read timeout passes.
ConnectionLost(t) ==
  /\ Click
  /\ tab[t].phase = "reading"
  /\ Cut(t) /\ GivesUp(t, "lost")
  /\ UNCHANGED <<database, lock, posted, typed>>

\* A widget that is not disabled is used: the run that reads the stream is abandoned.
Interrupt(t) ==
  /\ Click
  /\ InFlight(t)
  /\ Cut(t) /\ Set(t, Ended(t))
  /\ UNCHANGED <<database, used, lock, posted, typed>>

Listed(t, c) == owner[c] = BrowserOf[t]
Select(t, c) ==
  /\ Click
  /\ tab[t].phase \in {"idle", "unloaded"} /\ Listed(t, c)
  /\ Set(t, [tab[t] EXCEPT !.session = c, !.doomed = NoOne,
                           !.messages = IF c = tab[t].session THEN @ ELSE <<>>, !.phase = "loading"])
  /\ UNCHANGED <<database, used, lock, req, posted, typed>>

New(t) ==
  /\ Click
  /\ tab[t].phase \in {"idle", "unloaded"} /\ CanStartNew
  /\ used' = used \cup {Fresh} /\ Set(t, [InNew(tab[t]) EXCEPT !.phase = "idle"])
  /\ UNCHANGED <<database, lock, req, posted, typed>>

RequestDelete(t, c) ==
  /\ Click
  /\ tab[t].phase \in {"idle", "unloaded"} /\ Listed(t, c)
  /\ Set(t, [tab[t] EXCEPT !.doomed = c])
  /\ UNCHANGED <<database, used, lock, req, posted, typed>>

\* The confirmation is not disabled by a request in flight.  Deleted and missing are the same;
\* a DELETE that takes too long is an error on the screen and goes on at the server.
ConfirmDelete(t) ==
  /\ tab[t].doomed # NoOne /\ tab[t].phase # "loading"
  /\ Cut(t)
  /\ LET c == tab[t].doomed
         after == IF InFlight(t) THEN Ended(t) ELSE tab[t]
     IN \/ /\ RowFree(c)
           /\ IF Listed(t, c) THEN Removed(c) ELSE UNCHANGED <<owner, turns, gone>>
           /\ IF c # tab[t].session THEN Set(t, [after EXCEPT !.doomed = NoOne]) /\ UNCHANGED used
              ELSE /\ CanStartNew /\ used' = used \cup {Fresh}
                   /\ Set(t, [InNew(after) EXCEPT !.phase = "idle"])
           /\ UNCHANGED deleting
        \/ /\ ~RowFree(c) /\ Listed(t, c) /\ deleting' = deleting \cup {c}
           /\ Set(t, after) /\ UNCHANGED <<owner, turns, gone, used>>
  /\ UNCHANGED <<lock, posted, typed, clicks>>

UserStep(t) == \/ Submit(t) \/ ConnectionLost(t) \/ Interrupt(t) \/ New(t) \/ ConfirmDelete(t)
               \/ \E c \in Conversations : Select(t, c) \/ RequestDelete(t, c)
Next ==
  \/ \E q \in Requests : ServerStep(q) \/ NeverStarts(q) \/ RedisFails(q) \/ LockExpires(q)
  \/ \E c \in Conversations : DeleteLate(c)
  \/ \E t \in Tabs : Load(t) \/ Post(t) \/ CannotConnect(t) \/ Receive(t) \/ UserStep(t)

\* The server goes on with its tasks, the scripts with their steps.  Nobody has to type or
\* click, and nothing has to fail.
Spec == Init /\ [][Next]_vars /\ (\A q \in Requests : WF_vars(ServerStep(q)))
        /\ (\A t \in Tabs : WF_vars(Post(t) \/ CannotConnect(t)) /\ WF_vars(Receive(t)))

------------------------------------------------------------------------------
(* PROPERTIES                                                               *)

\* "409 means an earlier request still owns this session": a tab meets its own request there
\* only when it stopped reading that one before its end, or Redis failed under it.  The result
\* is queued before the lock is released, but the end of the stream is not.
NoConflictWithOneself ==
  \A q \in Requests : LET h == req[q].holder IN
    h # NoRequest /\ ~req[q].cut =>
      req[h].tab # req[q].tab \/ req[h].cut \/ req[h].stage = "stranded"

\* A prompt is stored at most once, though it may be sent twice and connections break.
PromptIsStoredOnce ==
  \A p \in 1..typed :
    Cardinality({at \in Conversations \X (1..MaxPrompts) :
                   at[2] <= Len(turns[at[1]]) /\ turns[at[1]][at[2]] = p})
      + (IF p \in gone THEN 1 ELSE 0) <= 1

\* What a tab shows as answered has been stored in the conversation it shows it in, and stays
\* there until somebody deletes it; the screen never mixes two conversations.
ScreenShowsTheConversation ==
  \A t \in Tabs : \A i \in DOMAIN tab[t].messages :
    LET m == tab[t].messages[i] IN
    /\ m.conv = tab[t].session
    /\ m.role = "assistant" => m.prompt \in Range(turns[m.conv]) \cup gone

\* The input field comes back after every prompt.
InputComesBack == \A t \in Tabs : InFlight(t) ~> ~InFlight(t)
=============================================================================
