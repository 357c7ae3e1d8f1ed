-------------------------- MODULE ChatClientProofs --------------------------
(***************************************************************************)
(* For any number of tabs, browsers, conversations, prompts and requests:  *)
(* a tab that reads its streams to their end never meets its own request   *)
(* in a 409 unless Redis failed under it, a prompt is stored at most once  *)
(* however often it is sent, and a screen shows one conversation and as    *)
(* answered only what is in it.                                            *)
(*                                                                         *)
(* The inductive invariant has three parts.  A request: it holds its lock  *)
(* from Acquire to Release, its stream ends when the lock is free or Redis *)
(* has failed, and until then the tab that sent it reads it or cut it.  A  *)
(* tab: its prompt is the one of the request it reads, and what it has     *)
(* read as a result is stored.  A prompt: it is in one place (Apart).      *)
(*                                                                         *)
(* Behind them, for any text, alphabet, kinds and length of a marker, and  *)
(* any way to cut the text into chunks: what the filter of a stream shows  *)
(* is the text without its markers.  StreamInv says how much of the text   *)
(* has been dealt with: up to there no marker is cut in two, what is shown *)
(* is what is outside the markers, and what is pending is all of the rest. *)
(***************************************************************************)
EXTENDS ChatClient, AnswerStream, FiniteSetTheorems, FunctionTheorems, SequenceTheorems, TLAPS

ReqStages == {"unsent", "sent", "access", "running", "committed", "releasing", "ended", "stranded"}
Events == {"200", "404", "409", "500", "result", "error", "end", "broken"}
Final == {"404", "409", "500", "end", "broken"}  \* nothing comes after these
Req == [tab : Tabs \cup {NoOne}, conv : Conversations \cup {NoOne}, prompt : Nat, stage : ReqStages,
        events : Seq(Events), cut : BOOLEAN, holder : Requests \cup {NoRequest}]
Msg == [role : {"user", "assistant"}, prompt : Nat, conv : Conversations]
Tab == [session : Conversations, phase : {"loading", "unloaded", "idle", "sending", "reading"},
        messages : Seq(Msg), pending : Nat, attempt : {0, 1}, request : Requests \cup {NoRequest},
        data : BOOLEAN, doomed : Conversations \cup {NoOne}]

Types ==
  /\ turns \in [Conversations -> Seq(1..typed)] /\ gone \in SUBSET (1..typed)
  /\ lock \in [Conversations -> Requests \cup {NoRequest}]
  /\ req \in [Requests -> Req] /\ tab \in [Tabs -> Tab]
  /\ posted \in Nat /\ typed \in Nat

Has(q, events) == \E i \in DOMAIN req[q].events : req[q].events[i] \in events
Free(q) == lock[req[q].conv] # q
BeingRead(q) == tab[req[q].tab].phase = "reading" /\ tab[req[q].tab].request = q
Kept(c) == Range(turns[c]) \cup gone
\* A request that is over leaves its lock free, or it was Redis that kept it.
Over(q) == (req[q].stage = "ended" /\ Free(q)) \/ req[q].stage = "stranded"

\* A request, from its POST to the end of its stream.
RequestOK(q) ==
  /\ req[q].stage = "unsent" <=> posted < q
  /\ req[q].stage # "unsent" =>
       req[q].tab \in Tabs /\ req[q].conv \in Conversations /\ req[q].prompt \in 1..typed
  /\ \A c \in Conversations : lock[c] = q => req[q].conv = c /\ req[q].stage \notin {"unsent", "sent"}
  /\ req[q].cut => req[q].events = <<>>
  /\ req[q].stage \in {"unsent", "sent", "access"} => req[q].events = <<>>
  /\ Has(q, Final) => Over(q)
  /\ Has(q, {"404"}) => Len(req[q].events) = 1
  /\ req[q].stage # "unsent" /\ ~req[q].cut => BeingRead(q) \/ Over(q)
  /\ req[q].stage = "committed" \/ Has(q, {"result"}) => req[q].prompt \in Kept(req[q].conv)
Conflict(q) ==
  LET h == req[q].holder IN
  h # NoRequest =>
    /\ req[h].stage # "unsent"
    /\ ~req[q].cut => req[h].tab # req[q].tab \/ req[h].cut \/ req[h].stage = "stranded"

\* What is on the screen of a tab.
Shown(t) ==
  \A i \in DOMAIN tab[t].messages :
    LET m == tab[t].messages[i] IN
    m.conv = tab[t].session /\ (m.role = "assistant" => m.prompt \in Kept(m.conv))

\* A tab and the request it has made last.
TabOK(t) ==
  LET r == tab[t].request IN
  /\ InFlight(t) => tab[t].pending \in 1..typed
  /\ r # NoRequest => req[r].stage # "unsent" /\ req[r].tab = t
  /\ tab[t].phase = "reading" =>
       /\ r # NoRequest /\ ~req[r].cut
       /\ req[r].prompt = tab[t].pending /\ req[r].conv = tab[t].session
       /\ tab[t].data => tab[t].pending \in Kept(tab[t].session)
  /\ Shown(t)

\* A prompt is in one place: about to be sent, in a request that may still store it or have to be
\* sent again, stored, or deleted.
Open(q) == req[q].stage \in {"sent", "access", "running"} \/ Has(q, {"404"})
Waits(t) == tab[t].phase = "sending"
Durable(p) == p \in gone \/ \E c \in Conversations : p \in Range(turns[c])
StoredOnce ==
  /\ \A c, d \in Conversations : \A i \in DOMAIN turns[c], j \in DOMAIN turns[d] :
       turns[c][i] = turns[d][j] => c = d /\ i = j
  /\ \A c \in Conversations : Range(turns[c]) \cap gone = {}
Apart ==
  /\ StoredOnce
  /\ \A q \in Requests : Open(q) =>
       /\ ~Durable(req[q].prompt)
       /\ \A r \in Requests : Open(r) /\ req[r].prompt = req[q].prompt => r = q
  /\ \A t \in Tabs : Waits(t) =>
       /\ ~Durable(tab[t].pending)
       /\ \A q \in Requests : Open(q) => req[q].prompt # tab[t].pending
       /\ \A u \in Tabs : Waits(u) /\ tab[u].pending = tab[t].pending => u = t

IInv == /\ Types /\ (\A q \in Requests : RequestOK(q) /\ Conflict(q)) /\ (\A t \in Tabs : TabOK(t))
        /\ Apart

------------------------------------------------------------------------------
(* What the steps write.                                                    *)

LEMMA FreshIsNew == ASSUME CanStartNew PROVE Fresh \in Conversations \ used
  BY DEF CanStartNew, Fresh

LEMMA HasOfNothing ==
  ASSUME NEW q, NEW S, req[q].events = <<>> PROVE ~Has(q, S)
  BY DEF Has

\* What a step of the server leaves of the requests.
Moves(q) ==
  /\ \A r \in Requests \ {q} : req'[r] = req[r]
  /\ req'[q].tab = req[q].tab /\ req'[q].conv = req[q].conv /\ req'[q].prompt = req[q].prompt
  /\ req'[q].cut = req[q].cut

LEMMA PutAtMoves ==
  ASSUME Types, NEW q \in Requests, NEW stage \in ReqStages, NEW event \in Events, PutAt(q, stage, event)
  PROVE /\ req' \in [Requests -> Req] /\ Moves(q)
        /\ req'[q].stage = stage /\ req'[q].holder = req[q].holder
        /\ req'[q].events = IF req[q].cut THEN <<>> ELSE Append(req[q].events, event)
<1>1. req[q] \in Req BY DEF Types
<1>2. (IF req[q].cut THEN <<>> ELSE Append(req[q].events, event)) \in Seq(Events)
  BY <1>1 DEF Req
<1> DEFINE new == [req[q] EXCEPT !.events = IF req[q].cut THEN <<>> ELSE Append(req[q].events, event),
                                 !.stage = stage]
<1>3. new \in Req BY <1>1, <1>2 DEF Req
<1>4. req' = [req EXCEPT ![q] = new] BY DEF PutAt
<1>5. req' \in [Requests -> Req] /\ req'[q] = new /\ \A r \in Requests \ {q} : req'[r] = req[r]
  BY <1>3, <1>4 DEF Types
<1> QED BY <1>1, <1>5 DEF Req, Moves

LEMMA ToMoves ==
  ASSUME Types, NEW q \in Requests, NEW stage \in ReqStages, To(q, stage)
  PROVE /\ req' \in [Requests -> Req] /\ Moves(q)
        /\ req'[q].stage = stage /\ req'[q].events = req[q].events /\ req'[q].holder = req[q].holder
<1>1. req[q] \in Req BY DEF Types
<1> DEFINE new == [req[q] EXCEPT !.stage = stage]
<1>2. new \in Req BY <1>1 DEF Req
<1>3. req' = [req EXCEPT ![q] = new] BY DEF To
<1>4. req' \in [Requests -> Req] /\ req'[q] = new /\ \A r \in Requests \ {q} : req'[r] = req[r]
  BY <1>2, <1>3 DEF Types
<1> QED BY <1>1, <1>4 DEF Req, Moves

\* A tab's script writes the state of this tab.
LEMMA SetWrites ==
  ASSUME Types, NEW t \in Tabs, NEW new \in Tab, Set(t, new)
  PROVE tab' \in [Tabs -> Tab] /\ tab'[t] = new /\ \A u \in Tabs \ {t} : tab'[u] = tab[u]
  BY DEF Types, Set

\* Reading takes the first event, closing the stream all of them.
Shrinks(q) ==
  /\ req'[q].tab = req[q].tab /\ req'[q].conv = req[q].conv /\ req'[q].prompt = req[q].prompt
  /\ req'[q].stage = req[q].stage /\ req'[q].holder = req[q].holder
  /\ \/ req'[q].cut = req[q].cut /\ req'[q].events = req[q].events
     \/ /\ req'[q].cut = req[q].cut /\ req[q].events # <<>>
        /\ req'[q].events = Tail(req[q].events)
     \/ req'[q].cut = TRUE /\ req'[q].events = <<>>

LEMMA ReadShrinks ==
  ASSUME Types, NEW t \in Tabs, tab[t].request \in Requests, req[tab[t].request].events # <<>>, Read(t)
  PROVE /\ req' \in [Requests -> Req] /\ \A q \in Requests : Shrinks(q)
        /\ \A q \in Requests \ {tab[t].request} : req'[q] = req[q]
        /\ req'[tab[t].request].cut = req[tab[t].request].cut
        /\ req'[tab[t].request].events = Tail(req[tab[t].request].events)
<1> DEFINE r == tab[t].request
           new == [req[r] EXCEPT !.events = Tail(req[r].events)]
<1>1. req[r] \in Req BY DEF Types
<1>2. Tail(req[r].events) \in Seq(Events) BY <1>1 DEF Req
<1>3. new \in Req BY <1>1, <1>2 DEF Req
<1>4. req' = [req EXCEPT ![r] = new] BY DEF Read
<1>5. req' \in [Requests -> Req] /\ req'[r] = new /\ \A q \in Requests \ {r} : req'[q] = req[q]
  BY <1>3, <1>4 DEF Types
<1>6. req'[r].cut = req[r].cut /\ req'[r].events = Tail(req[r].events) /\ Shrinks(r)
  BY <1>1, <1>5 DEF Req, Shrinks
<1>7. \A q \in Requests \ {r} : Shrinks(q) BY <1>5 DEF Shrinks
<1> QED BY <1>5, <1>6, <1>7

LEMMA ClosedIs ==
  ASSUME NEW r \in Req
  PROVE /\ Closed(r) \in Req /\ Closed(r).tab = r.tab /\ Closed(r).conv = r.conv
        /\ Closed(r).prompt = r.prompt /\ Closed(r).stage = r.stage /\ Closed(r).holder = r.holder
        /\ Closed(r).events = <<>> /\ Closed(r).cut = TRUE
<1>1. <<>> \in Seq(Events) OBVIOUS
<1>2. Closed(r) \in Req BY <1>1 DEF Closed, Req
<1> QED BY <1>1, <1>2 DEF Closed, Req

LEMMA CutShrinks ==
  ASSUME Types, NEW t \in Tabs, Cut(t)
  PROVE /\ req' \in [Requests -> Req] /\ \A q \in Requests : Shrinks(q)
        /\ \A q \in Requests \ {tab[t].request} : req'[q] = req[q]
        /\ tab[t].request \in Requests => req'[tab[t].request].cut
<1>1. \A q \in Requests : req[q] \in Req BY DEF Types
<1>2. \A q \in Requests : Closed(req[q]) \in Req BY <1>1, ClosedIs
<1>3. req' \in [Requests -> Req] BY <1>1, <1>2 DEF Cut
<1>4. \A q \in Requests \ {tab[t].request} : req'[q] = req[q] BY DEF Cut
<1>5. ASSUME tab[t].request \in Requests
      PROVE LET r == tab[t].request IN req'[r].cut /\ Shrinks(r)
  <2> DEFINE r == tab[t].request
  <2>1. req'[r] = Closed(req[r]) BY <1>5 DEF Cut
  <2>2. req[r] \in Req BY <1>1, <1>5
  <2> QED BY <2>1, <2>2, ClosedIs DEF Shrinks
<1>6. \A q \in Requests \ {tab[t].request} : Shrinks(q) BY <1>4 DEF Shrinks
<1> QED BY <1>3, <1>4, <1>5, <1>6

\* The states of a tab that the steps write.
LEMMA EndedIs ==
  ASSUME Types, NEW t \in Tabs
  PROVE /\ Ended(t) \in Tab /\ Ended(t).phase = "idle" /\ Ended(t).request = NoRequest
        /\ Ended(t).session = tab[t].session /\ Ended(t).messages = tab[t].messages
<1>1. tab[t] \in Tab BY DEF Types
<1> QED BY <1>1 DEF Ended, Tab

LEMMA InNewIs ==
  ASSUME NEW state \in Tab, CanStartNew
  PROVE /\ InNew(state) \in Tab /\ InNew(state).phase = state.phase
        /\ InNew(state).request = state.request /\ InNew(state).session = Fresh
        /\ InNew(state).messages = <<>> /\ InNew(state).pending = state.pending
<1>1. Fresh \in Conversations BY FreshIsNew
<1>2. <<>> \in Seq(Msg) OBVIOUS
<1>3. InNew(state) \in Tab BY <1>1, <1>2 DEF InNew, Tab
<1> QED BY <1>1, <1>2, <1>3 DEF InNew, Tab

------------------------------------------------------------------------------
(* What the other steps leave true.                                         *)

KeptGrows == \A c \in Conversations : Kept(c) \subseteq Kept(c)'
LocksNoMore(q) == \A c \in Conversations : lock'[c] = q => lock[c] = q

\* Nothing is added to the events.
LEMMA ShrinksHas ==
  ASSUME Types, NEW q \in Requests, Shrinks(q), NEW S, Has(q, S)' PROVE Has(q, S)
<1>1. req[q].events \in Seq(Events) BY DEF Types, Req
<1>2. PICK i \in DOMAIN req'[q].events : req'[q].events[i] \in S BY DEF Has
<1>3. CASE req'[q].events = req[q].events BY <1>2, <1>3 DEF Has
<1>4. CASE req[q].events # <<>> /\ req'[q].events = Tail(req[q].events)
  <2>1. i + 1 \in DOMAIN req[q].events /\ req[q].events[i + 1] = req'[q].events[i]
    BY <1>1, <1>2, <1>4
  <2> QED BY <2>1, <1>2 DEF Has
<1>5. CASE req'[q].events = <<>> BY <1>2, <1>5
<1> QED BY <1>3, <1>4, <1>5 DEF Shrinks

\* A request that only its reader touches stays in order.
LEMMA RequestStays ==
  ASSUME Types, Types', KeptGrows, typed <= typed', NEW q \in Requests, RequestOK(q),
         Shrinks(q), LocksNoMore(q), posted < q <=> posted' < q,
         req[q].stage # "unsent" /\ ~req'[q].cut /\ BeingRead(q) =>
           BeingRead(q)' \/ Over(q)
  PROVE RequestOK(q)'
<1>1. req[q] \in Req /\ req'[q] \in Req BY DEF Types
<1>2. req'[q].stage = "unsent" <=> posted' < q BY DEF RequestOK, Shrinks
<1>3. req'[q].stage # "unsent" =>
        req'[q].tab \in Tabs /\ req'[q].conv \in Conversations /\ req'[q].prompt \in 1..typed'
  BY DEF RequestOK, Shrinks, Types
<1>4. \A c \in Conversations : lock'[c] = q => req'[q].conv = c /\ req'[q].stage \notin {"unsent", "sent"}
  BY DEF RequestOK, Shrinks, LocksNoMore
<1>5. req[q].events = <<>> => req'[q].events = <<>>
  BY <1>1 DEF Shrinks
<1>6. req'[q].cut => req'[q].events = <<>>
  BY <1>5 DEF RequestOK, Shrinks
<1>7. req'[q].stage \in {"unsent", "sent", "access"} => req'[q].events = <<>>
  BY <1>5 DEF RequestOK, Shrinks
<1>8. ASSUME NEW S, Has(q, S)' PROVE Has(q, S) BY <1>8, ShrinksHas
<1>9. Over(q) => Over(q)'
  BY DEF RequestOK, Shrinks, LocksNoMore, Free, Over
<1>10. Has(q, Final)' => Over(q)'
  BY <1>8, <1>9 DEF RequestOK, Final
<1>11. ASSUME Has(q, {"404"})' PROVE Len(req'[q].events) = 1
  <2>1. Has(q, {"404"}) BY <1>8, <1>11
  <2>2. Len(req[q].events) = 1 BY <2>1 DEF RequestOK
  <2>3. req[q].events \in Seq(Events) BY <1>1 DEF Req
  <2>4. req[q].events # <<>> => Len(Tail(req[q].events)) = 0 BY <2>2, <2>3
  <2>5. CASE req'[q].events = req[q].events BY <2>2, <2>5
  <2>6. CASE req[q].events # <<>> /\ req'[q].events = Tail(req[q].events)
    BY <2>4, <2>6, <1>11, <2>3 DEF Has
  <2>7. CASE req'[q].events = <<>> BY <2>7, <1>11 DEF Has
  <2> QED BY <2>5, <2>6, <2>7 DEF Shrinks
<1>12. req'[q].stage # "unsent" /\ ~req'[q].cut => BeingRead(q)' \/ Over(q)'
  <2>1. req[q].cut => req'[q].cut BY DEF Shrinks
  <2> QED BY <2>1, <1>9 DEF RequestOK, Shrinks
<1>13. req'[q].stage = "committed" \/ Has(q, {"result"})' => (req[q].prompt \in Kept(req[q].conv))'
  <2>1. req[q].stage = "committed" \/ Has(q, {"result"}) => req[q].prompt \in Kept(req[q].conv)
    BY DEF RequestOK
  <2>2. req[q].stage = "committed" \/ Has(q, {"result"}) => req[q].conv \in Conversations
    <3>1. req[q].stage = "unsent" => ~Has(q, {"result"}) BY HasOfNothing DEF RequestOK
    <3> QED BY <3>1 DEF RequestOK
  <2>3. ASSUME NEW c \in Conversations, c = req[q].conv, req[q].prompt \in Kept(c)
        PROVE (req[q].prompt \in Kept(req[q].conv))'
    <3>1. req'[q].conv = c /\ req'[q].prompt = req[q].prompt BY <2>3 DEF Shrinks
    <3>2. req[q].prompt \in Kept(c)' BY <2>3 DEF KeptGrows
    <3> QED BY <3>1, <3>2 DEF Kept
  <2> QED BY <2>1, <2>2, <2>3, <1>8 DEF Shrinks
<1> QED BY <1>2, <1>3, <1>4, <1>6, <1>7, <1>10, <1>11, <1>12, <1>13 DEF RequestOK

\* A refusal stays one of two different tabs, of a stream nobody read any more, or of Redis.
LEMMA ConflictStays ==
  ASSUME Types, Types', NEW q \in Requests, Conflict(q), req'[q].holder \in {req[q].holder, NoRequest},
         req'[q].tab = req[q].tab \/ req'[q].holder = NoRequest,
         req[q].cut => req'[q].cut \/ req'[q].holder = NoRequest,
         \A h \in Requests : req[h].stage # "unsent" =>
           /\ req'[h].stage # "unsent" /\ req'[h].tab = req[h].tab
           /\ req[h].cut => req'[h].cut
           /\ req[h].stage = "stranded" => req'[h].stage = "stranded"
  PROVE Conflict(q)'
<1>1. req[q].holder \in Requests \cup {NoRequest} BY DEF Types, Req
<1> QED BY <1>1 DEF Conflict

\* A tab whose script does not run.
LEMMA TabStays ==
  ASSUME Types, Types', KeptGrows, typed <= typed', NEW t \in Tabs, TabOK(t), tab'[t] = tab[t],
         \A r \in Requests : req[r].stage # "unsent" =>
           /\ req'[r].stage # "unsent" /\ req'[r].tab = req[r].tab
           /\ req'[r].conv = req[r].conv /\ req'[r].prompt = req[r].prompt
           /\ req[r].tab = t => req'[r].cut = req[r].cut
  PROVE TabOK(t)'
<1> DEFINE r == tab[t].request
<1>1. tab[t] \in Tab BY DEF Types
<1>2. r \in Requests \cup {NoRequest} /\ tab[t].session \in Conversations BY <1>1 DEF Tab
<1>3. InFlight(t)' => tab'[t].pending \in 1..typed' BY DEF TabOK, InFlight, Types
<1>4. r # NoRequest => req'[r].stage # "unsent" /\ req'[r].tab = t BY <1>2 DEF TabOK
<1>5. ASSUME tab[t].phase = "reading"
      PROVE /\ r # NoRequest /\ ~req'[r].cut
            /\ req'[r].prompt = tab[t].pending /\ req'[r].conv = tab[t].session
            /\ tab[t].data => tab[t].pending \in Kept(tab[t].session)'
  BY <1>2, <1>5 DEF TabOK, KeptGrows
<1>6. Shown(t)'
  <2>1. ASSUME NEW i \in DOMAIN tab[t].messages, NEW m, m = tab[t].messages[i]
        PROVE m.conv = tab[t].session /\ (m.role = "assistant" => m.prompt \in Kept(m.conv)')
    BY <1>2, <2>1 DEF TabOK, Shown, KeptGrows
  <2> QED BY <2>1 DEF Shown, Kept
<1> QED BY <1>2, <1>3, <1>4, <1>5, <1>6 DEF TabOK, Kept

\* Nothing new may store a prompt.
LEMMA ApartStays ==
  ASSUME Types, Apart, StoredOnce', \A p : Durable(p)' => Durable(p),
         \A q \in Requests : Open(q)' => Open(q) /\ req'[q].prompt = req[q].prompt,
         \A t \in Tabs : Waits(t)' => Waits(t) /\ tab'[t].pending = tab[t].pending
  PROVE Apart'
<1>1. ASSUME NEW q \in Requests, Open(q)'
      PROVE /\ ~Durable(req[q].prompt)'
            /\ \A r \in Requests : Open(r)' /\ req'[r].prompt = req'[q].prompt => r = q
  <2>1. Open(q) /\ req'[q].prompt = req[q].prompt BY <1>1
  <2>2. ~Durable(req[q].prompt) BY <2>1 DEF Apart
  <2>3. ~Durable(req[q].prompt)'
    <3> DEFINE p == req[q].prompt
    <3>1. \A n : n = p => ~Durable(n)' BY <2>2
    <3> QED BY <3>1, <2>1 DEF Durable
  <2>4. ASSUME NEW r \in Requests, Open(r)', req'[r].prompt = req'[q].prompt PROVE r = q
    BY <2>1, <2>4 DEF Apart
  <2> QED BY <2>3, <2>4
<1>2. ASSUME NEW t \in Tabs, Waits(t)'
      PROVE /\ ~Durable(tab[t].pending)'
            /\ \A q \in Requests : Open(q)' => req'[q].prompt # tab'[t].pending
            /\ \A u \in Tabs : Waits(u)' /\ tab'[u].pending = tab'[t].pending => u = t
  <2>1. Waits(t) /\ tab'[t].pending = tab[t].pending BY <1>2
  <2>2. ~Durable(tab[t].pending) BY <2>1 DEF Apart
  <2>3. ~Durable(tab[t].pending)'
    <3> DEFINE p == tab[t].pending
    <3>1. \A n : n = p => ~Durable(n)' BY <2>2
    <3> QED BY <3>1, <2>1 DEF Durable
  <2>4. ASSUME NEW q \in Requests, Open(q)' PROVE req'[q].prompt # tab'[t].pending
    BY <2>1, <2>4 DEF Apart
  <2>5. ASSUME NEW u \in Tabs, Waits(u)', tab'[u].pending = tab'[t].pending PROVE u = t
    BY <2>1, <2>5 DEF Apart
  <2> QED BY <2>3, <2>4, <2>5
<1> QED BY <1>1, <1>2 DEF Apart, Durable

------------------------------------------------------------------------------
(* The steps of the server.                                                 *)

\* What a step of a request does, besides to its own stage and events.
Serves(q) ==
  /\ Moves(q) /\ tab' = tab /\ posted' = posted /\ typed' = typed
  /\ \A c \in Conversations : lock'[c] \in {lock[c], q, NoRequest}

\* The other requests and the tabs do not notice.
LEMMA OthersServed ==
  ASSUME IInv, Types', KeptGrows, NEW q \in Requests, Serves(q),
         req[q].stage # "unsent", req'[q].stage # "unsent",
         req[q].stage = "stranded" => req'[q].stage = "stranded"
  PROVE /\ \A r \in Requests \ {q} : RequestOK(r)' /\ Conflict(r)'
        /\ req'[q].holder = req[q].holder => Conflict(q)'
        /\ \A t \in Tabs : TabOK(t)'
<1>1. typed <= typed' BY DEF Serves, IInv, Types
<1>2. \A h \in Requests : req[h].stage # "unsent" =>
        /\ req'[h].stage # "unsent" /\ req'[h].tab = req[h].tab
        /\ req'[h].conv = req[h].conv /\ req'[h].prompt = req[h].prompt
        /\ req'[h].cut = req[h].cut
        /\ req[h].stage = "stranded" => req'[h].stage = "stranded"
  BY DEF Serves, Moves
<1>3. ASSUME NEW r \in Requests \ {q} PROVE RequestOK(r)' /\ Conflict(r)'
  <2>1. req'[r] = req[r] BY DEF Serves, Moves
  <2>2. Shrinks(r) BY <2>1 DEF Shrinks
  <2>3. q # NoRequest /\ r # NoRequest /\ r # q BY <1>3 DEF Requests, NoRequest
  <2>4. LocksNoMore(r) BY <2>3 DEF Serves, LocksNoMore
  <2>5. BeingRead(r) => BeingRead(r)' BY <2>1 DEF Serves, BeingRead
  <2>6. posted < r <=> posted' < r BY DEF Serves
  <2>7. RequestOK(r) /\ Conflict(r) BY DEF IInv
  <2>8. RequestOK(r)' BY <1>1, <2>2, <2>4, <2>5, <2>6, <2>7, RequestStays DEF IInv
  <2>9. Conflict(r)' BY <1>2, <2>1, <2>7, ConflictStays DEF IInv
  <2> QED BY <2>8, <2>9
<1>4. ASSUME req'[q].holder = req[q].holder PROVE Conflict(q)'
  <2>1. Conflict(q) /\ Types BY DEF IInv
  <2>2. req'[q].tab = req[q].tab /\ req'[q].cut = req[q].cut BY DEF Serves, Moves
  <2> QED BY <1>2, <1>4, <2>1, <2>2, ConflictStays
<1>5. ASSUME NEW t \in Tabs PROVE TabOK(t)'
  <2>1. TabOK(t) /\ Types BY DEF IInv
  <2>2. tab'[t] = tab[t] BY DEF Serves
  <2> QED BY <1>1, <1>2, <2>1, <2>2, TabStays
<1> QED BY <1>3, <1>4, <1>5

\* The request itself.
LEMMA OwnStep ==
  ASSUME Types, Types', KeptGrows, NEW q \in Requests, RequestOK(q), Serves(q), NEW event \in Events,
         req[q].stage \notin {"unsent", "ended", "stranded"}, req'[q].stage \notin {"unsent", "sent"},
         \A c \in Conversations : lock'[c] = q => req[q].conv = c,
         \/ req'[q].events = req[q].events
         \/ req'[q].events = <<>>
         \/ /\ ~req[q].cut /\ req'[q].events = Append(req[q].events, event)
            /\ event \in Final => Over(q)'
            /\ event = "404" => req[q].events = <<>>
            /\ event = "result" => (req[q].prompt \in Kept(req[q].conv))',
         req'[q].stage = "access" => req'[q].events = <<>>,
         req'[q].stage = "committed" => (req[q].prompt \in Kept(req[q].conv))'
  PROVE RequestOK(q)'
<1>1. /\ req'[q].tab = req[q].tab /\ req'[q].conv = req[q].conv /\ req'[q].prompt = req[q].prompt
      /\ req'[q].cut = req[q].cut
  BY DEF Serves, Moves
<1>2. req[q] \in Req /\ req'[q] \in Req BY DEF Types
<1>3. /\ req[q].tab \in Tabs /\ req[q].conv \in Conversations /\ req[q].prompt \in 1..typed
      /\ ~(posted < q)
  BY DEF RequestOK
<1>4. ~Has(q, Final) BY DEF RequestOK, Over
<1>5. ~req[q].cut => BeingRead(q)' BY <1>1 DEF RequestOK, Serves, BeingRead, Over
<1> DEFINE Adds == /\ ~req[q].cut /\ req'[q].events = Append(req[q].events, event)
                   /\ event \in Final => Over(q)'
                   /\ event = "404" => req[q].events = <<>>
                   /\ event = "result" => (req[q].prompt \in Kept(req[q].conv))'
<1>6. ASSUME NEW S, Has(q, S)' PROVE Has(q, S) \/ (Adds /\ event \in S)
  <2>1. PICK i \in DOMAIN req'[q].events : req'[q].events[i] \in S BY <1>6 DEF Has
  <2>2. CASE req'[q].events = req[q].events BY <2>1, <2>2 DEF Has
  <2>3. CASE Adds
    <3>1. req[q].events \in Seq(Events) BY <1>2 DEF Req
    <3>2. CASE i = Len(req[q].events) + 1 BY <3>1, <3>2, <2>1, <2>3
    <3>3. CASE i # Len(req[q].events) + 1
      <4>1. i \in DOMAIN req[q].events /\ req[q].events[i] = req'[q].events[i]
        BY <3>1, <3>3, <2>1, <2>3
      <4> QED BY <4>1, <2>1 DEF Has
    <3> QED BY <3>2, <3>3
  <2>4. CASE req'[q].events = <<>> BY <2>4, <2>1
  <2> QED BY <2>2, <2>3, <2>4
<1>7. req'[q].stage = "unsent" <=> posted' < q BY <1>3 DEF Serves
<1>8. req'[q].stage # "unsent" =>
        req'[q].tab \in Tabs /\ req'[q].conv \in Conversations /\ req'[q].prompt \in 1..typed'
  BY <1>1, <1>3 DEF Serves
<1>9. \A c \in Conversations : lock'[c] = q => req'[q].conv = c /\ req'[q].stage \notin {"unsent", "sent"}
  BY <1>1
<1>10. req'[q].cut => req'[q].events = <<>>
  BY <1>1 DEF RequestOK
<1>11. req'[q].stage \in {"unsent", "sent", "access"} => req'[q].events = <<>>
  OBVIOUS
<1>12. Has(q, Final)' => Over(q)'
  BY <1>4, <1>6 DEF Final
<1>13. ASSUME Has(q, {"404"})' PROVE Len(req'[q].events) = 1
  <2>1. ~Has(q, {"404"}) BY <1>4 DEF Has, Final
  <2>2. Adds /\ event \in {"404"} BY <2>1, <1>6, <1>13
  <2>3. req'[q].events = Append(<<>>, event) BY <2>2
  <2> QED BY <2>3
<1>14. req'[q].stage # "unsent" /\ ~req'[q].cut => BeingRead(q)' \/ Over(q)'
  BY <1>1, <1>5
<1>15. req'[q].stage = "committed" \/ Has(q, {"result"})' => (req[q].prompt \in Kept(req[q].conv))'
  <2>1. ASSUME Has(q, {"result"}) PROVE (req[q].prompt \in Kept(req[q].conv))'
    <3>1. req[q].prompt \in Kept(req[q].conv) BY <2>1 DEF RequestOK
    <3> DEFINE c == req[q].conv
    <3>2. req[q].prompt \in Kept(c) BY <3>1
    <3>3. c \in Conversations BY <1>3
    <3>4. \A d \in Conversations : d = c /\ req[q].prompt \in Kept(d) => req[q].prompt \in Kept(d)'
      BY DEF KeptGrows
    <3>5. PICK d \in Conversations : d = c BY <3>3
    <3>6. req[q].prompt \in Kept(d)' BY <3>2, <3>4, <3>5
    <3>7. d = req'[q].conv /\ req'[q].prompt = req[q].prompt BY <3>5, <1>1
    <3> QED BY <3>6, <3>7 DEF Kept
  <2> QED BY <2>1, <1>6
<1> QED BY <1>7, <1>8, <1>9, <1>10, <1>11, <1>12, <1>13, <1>14, <1>15 DEF RequestOK

\* A step that stores nothing.
LEMMA NothingStored ==
  ASSUME turns' = turns, gone' = gone
  PROVE KeptGrows
  BY DEF KeptGrows, Kept

\* Such a step of one request keeps the prompts apart.
LEMMA ServedApart ==
  ASSUME IInv, NEW q \in Requests, Serves(q), turns' = turns, gone' = gone, Open(q)' => Open(q)
  PROVE Apart'
<1>1. ASSUME NEW r \in Requests, Open(r)' PROVE Open(r) /\ req'[r].prompt = req[r].prompt
  <2>1. CASE r = q BY <1>1, <2>1 DEF Serves, Moves
  <2>2. CASE r # q
    <3>1. req'[r] = req[r] BY <2>2 DEF Serves, Moves
    <3> QED BY <1>1, <3>1 DEF Open, Has
  <2> QED BY <2>1, <2>2
<1>2. \A t \in Tabs : Waits(t)' => Waits(t) /\ tab'[t].pending = tab[t].pending
  BY DEF Serves, Waits
<1>3. StoredOnce' BY DEF IInv, Apart, StoredOnce
<1>4. \A p : Durable(p)' => Durable(p) BY DEF Durable
<1> QED BY <1>1, <1>2, <1>3, <1>4, ApartStays DEF IInv

LEMMA AcquireKeeps == ASSUME IInv, NEW q \in Requests, Acquire(q) PROVE IInv'
<1> DEFINE c == req[q].conv
           h == lock[c]
<1>1. Types /\ RequestOK(q) /\ req[q].stage = "sent" BY DEF IInv, Acquire
<1>2. /\ req[q] \in Req /\ req[q].conv \in Conversations /\ req[q].events = <<>>
      /\ q # NoRequest /\ h \in Requests \cup {NoRequest}
  BY <1>1 DEF Types, RequestOK, Requests, NoRequest
<1>3. /\ turns' = turns /\ gone' = gone /\ tab' = tab /\ posted' = posted /\ typed' = typed
  BY DEF Acquire, database
<1>4. KeptGrows BY <1>3, NothingStored
<1>5. CASE h = NoRequest
  <2>1. lock' = [lock EXCEPT ![c] = q] /\ To(q, "access") BY <1>5 DEF Acquire
  <2>2. lock' \in [Conversations -> Requests \cup {NoRequest}] BY <2>1, <1>1 DEF Types
  <2>3. /\ req' \in [Requests -> Req] /\ Moves(q) /\ req'[q].stage = "access"
        /\ req'[q].events = req[q].events /\ req'[q].holder = req[q].holder
    BY <2>1, <1>1, ToMoves DEF ReqStages
  <2>4. Types' BY <1>1, <1>3, <2>2, <2>3 DEF Types
  <2>5. Serves(q) BY <1>1, <1>2, <1>3, <2>1, <2>3 DEF Serves, Types
  <2>6. \A d \in Conversations : lock'[d] = q => req[q].conv = d
    BY <1>1, <1>2, <2>1 DEF RequestOK, Types
  <2>7. RequestOK(q)' BY <1>1, <1>2, <1>4, <2>3, <2>4, <2>5, <2>6, OwnStep DEF Events, Final, Over
  <2>8. Open(q) BY <1>1 DEF Open
  <2>9. Apart' BY <1>3, <2>5, <2>8, ServedApart
  <2> QED BY <1>1, <1>4, <2>3, <2>4, <2>5, <2>7, <2>9, OthersServed DEF IInv
<1>6. CASE h # NoRequest
  <2> DEFINE es == IF req[q].cut THEN <<>> ELSE <<"409">>
             new == [req[q] EXCEPT !.events = es, !.stage = "ended", !.holder = h]
  <2>1. req' = [req EXCEPT ![q] = new] /\ lock' = lock BY <1>6 DEF Acquire
  <2>2. es \in Seq(Events)
    <3>1. "409" \in Events BY DEF Events
    <3>2. <<>> \in Seq(Events) /\ \A e \in Events : <<e>> \in Seq(Events) OBVIOUS
    <3> QED BY <3>1, <3>2
  <2>3. new \in Req BY <1>2, <2>2 DEF Req, ReqStages
  <2>4. req' \in [Requests -> Req] /\ req'[q] = new /\ \A r \in Requests \ {q} : req'[r] = req[r]
    BY <1>1, <2>1, <2>3 DEF Types
  <2>5. Moves(q) /\ req'[q].stage = "ended" /\ req'[q].events = es /\ req'[q].holder = h
    BY <1>2, <2>4 DEF Req, Moves
  <2>6. Types' BY <1>1, <1>3, <2>1, <2>4 DEF Types
  <2>7. Serves(q) BY <1>1, <1>3, <2>1, <2>5 DEF Serves
  <2>8. \A d \in Conversations : lock[d] # q BY <1>1 DEF RequestOK
  <2>9. Free(q)' BY <1>2, <2>1, <2>5, <2>8 DEF Free, Moves
  <2>10. es = <<>> \/ (~req[q].cut /\ es = Append(req[q].events, "409")) BY <1>2
  <2>11. RequestOK(q)'
    BY <1>1, <1>4, <2>1, <2>5, <2>6, <2>7, <2>8, <2>9, <2>10, OwnStep DEF Events, Final, Over
  <2>12. h \in Requests /\ RequestOK(h) /\ lock[c] = h BY <1>2, <1>6 DEF IInv
  <2>13. req[h].conv = c /\ req[h].stage \notin {"unsent", "sent"} /\ h # q /\ ~Free(h)
    BY <1>1, <1>2, <2>12 DEF RequestOK, Free
  <2>14. ~req[q].cut => BeingRead(q) BY <1>1 DEF RequestOK, Over
  <2>15. ~req[h].cut => BeingRead(h) \/ req[h].stage = "stranded" BY <2>12, <2>13 DEF RequestOK, Over
  <2>16. ~req[q].cut => req[h].tab # req[q].tab \/ req[h].cut \/ req[h].stage = "stranded"
    BY <2>13, <2>14, <2>15 DEF BeingRead
  <2>17. req'[h] = req[h] /\ req'[q].tab = req[q].tab /\ req'[q].cut = req[q].cut
    BY <2>12, <2>13, <2>5 DEF Moves
  <2>18. Conflict(q)' BY <2>5, <2>13, <2>16, <2>17 DEF Conflict
  <2>19. ~Open(q)'
    <3>1. req'[q].events \in {<<>>, <<"409">>} BY <2>5
    <3>2. ~Has(q, {"404"})' BY <3>1 DEF Has
    <3> QED BY <3>2, <2>5 DEF Open
  <2>20. Apart' BY <1>3, <2>7, <2>19, ServedApart
  <2> QED BY <1>1, <1>4, <2>5, <2>6, <2>7, <2>11, <2>18, <2>20, OthersServed DEF IInv
<1> QED BY <1>5, <1>6

LEMMA CheckAccessKeeps == ASSUME IInv, NEW q \in Requests, CheckAccess(q) PROVE IInv'
<1> DEFINE c == req[q].conv
<1>1. Types /\ RequestOK(q) /\ req[q].stage = "access" BY DEF IInv, CheckAccess
<1>2. /\ req[q] \in Req /\ req[q].conv \in Conversations /\ req[q].events = <<>> /\ q # NoRequest
  BY <1>1 DEF Types, RequestOK, Requests, NoRequest
<1>3. /\ turns' = turns /\ gone' = gone /\ tab' = tab /\ posted' = posted /\ typed' = typed
  BY DEF CheckAccess, database
<1>4. KeptGrows BY <1>3, NothingStored
<1>5. Open(q) BY <1>1 DEF Open
<1>6. \A d \in Conversations : lock[d] = q => c = d BY <1>1 DEF RequestOK
<1>7. CASE PutAt(q, "running", "200") /\ lock' = lock
  <2>1. /\ req' \in [Requests -> Req] /\ Moves(q) /\ req'[q].stage = "running"
        /\ req'[q].events = IF req[q].cut THEN <<>> ELSE Append(req[q].events, "200")
        /\ req'[q].holder = req[q].holder
    BY <1>1, <1>7, PutAtMoves DEF ReqStages, Events
  <2>2. Types' BY <1>1, <1>3, <1>7, <2>1 DEF Types
  <2>3. Serves(q) BY <1>3, <1>7, <2>1 DEF Serves
  <2>4. RequestOK(q)' BY <1>1, <1>2, <1>4, <1>6, <1>7, <2>1, <2>2, <2>3, OwnStep DEF Events, Final, Over
  <2>5. Apart' BY <1>3, <1>5, <2>3, ServedApart
  <2> QED BY <1>1, <1>4, <2>1, <2>2, <2>3, <2>4, <2>5, OthersServed DEF IInv
<1>8. CASE PutAt(q, "ended", "404") /\ lock' = [lock EXCEPT ![c] = NoRequest]
  <2>1. /\ req' \in [Requests -> Req] /\ Moves(q) /\ req'[q].stage = "ended"
        /\ req'[q].events = IF req[q].cut THEN <<>> ELSE Append(req[q].events, "404")
        /\ req'[q].holder = req[q].holder
    BY <1>1, <1>8, PutAtMoves DEF ReqStages, Events
  <2>2. lock' \in [Conversations -> Requests \cup {NoRequest}] /\ lock'[c] = NoRequest
    BY <1>1, <1>2, <1>8 DEF Types
  <2>3. Types' BY <1>1, <1>3, <2>1, <2>2 DEF Types
  <2>4. Serves(q) BY <1>1, <1>3, <1>8, <2>1 DEF Serves, Types
  <2>5. \A d \in Conversations : lock'[d] # q BY <1>1, <1>2, <1>6, <1>8 DEF Types
  <2>6. Free(q)' BY <1>2, <2>1, <2>5 DEF Free, Moves
  <2>7. RequestOK(q)' BY <1>1, <1>2, <1>4, <2>1, <2>3, <2>4, <2>5, <2>6, OwnStep DEF Events, Final, Over
  <2>8. Apart' BY <1>3, <1>5, <2>4, ServedApart
  <2> QED BY <1>1, <1>4, <2>1, <2>3, <2>4, <2>7, <2>8, OthersServed DEF IInv
<1> QED BY <1>7, <1>8 DEF CheckAccess

LEMMA NeverStartsKeeps == ASSUME IInv, NEW q \in Requests, NeverStarts(q) PROVE IInv'
<1>1. Types /\ RequestOK(q) /\ req[q].stage = "running" /\ req[q].cut BY DEF IInv, NeverStarts
<1>2. /\ turns' = turns /\ gone' = gone /\ tab' = tab /\ posted' = posted /\ typed' = typed /\ lock' = lock
  BY DEF NeverStarts, database
<1>3. KeptGrows BY <1>2, NothingStored
<1>4. /\ req' \in [Requests -> Req] /\ Moves(q) /\ req'[q].stage = "ended"
      /\ req'[q].events = req[q].events /\ req'[q].holder = req[q].holder
  BY <1>1, ToMoves DEF ReqStages, NeverStarts
<1>5. Types' BY <1>1, <1>2, <1>4 DEF Types
<1>6. Serves(q) BY <1>2, <1>4 DEF Serves
<1>7. RequestOK(q)' 
  <2>1. \A d \in Conversations : lock'[d] = q => req[q].conv = d BY <1>1, <1>2 DEF RequestOK
  <2> QED BY <1>1, <1>3, <1>4, <1>5, <1>6, <2>1, OwnStep DEF Events, Final, Over
<1>8. Open(q) BY <1>1 DEF Open
<1>9. Apart' BY <1>2, <1>6, <1>8, ServedApart
<1> QED BY <1>1, <1>3, <1>4, <1>5, <1>6, <1>7, <1>9, OthersServed DEF IInv

\* Past the pipeline, and without a refusal, nothing is stored any more.
LEMMA ClosedNow ==
  ASSUME NEW q \in Requests, RequestOK(q)', req'[q].stage \in {"committed", "releasing"}
  PROVE ~Open(q)'
<1>1. ~Has(q, Final)' BY DEF RequestOK, Over
<1>2. ~Has(q, {"404"})' BY <1>1 DEF Has, Final
<1> QED BY <1>2 DEF Open

LEMMA PutResultKeeps == ASSUME IInv, NEW q \in Requests, PutResult(q) PROVE IInv'
<1>1. Types /\ RequestOK(q) /\ req[q].stage = "committed" BY DEF IInv, PutResult, ResultReady
<1>2. /\ turns' = turns /\ gone' = gone /\ tab' = tab /\ posted' = posted /\ typed' = typed /\ lock' = lock
  BY DEF PutResult, database
<1>3. KeptGrows BY <1>2, NothingStored
<1>4. /\ req' \in [Requests -> Req] /\ Moves(q) /\ req'[q].stage = "releasing"
      /\ req'[q].events = IF req[q].cut THEN <<>> ELSE Append(req[q].events, "result")
      /\ req'[q].holder = req[q].holder
  BY <1>1, PutAtMoves DEF ReqStages, Events, PutResult
<1>5. Types' BY <1>1, <1>2, <1>4 DEF Types
<1>6. Serves(q) BY <1>2, <1>4 DEF Serves
<1>7. (req[q].prompt \in Kept(req[q].conv))'
  <2>1. req[q].prompt \in Kept(req[q].conv) BY <1>1 DEF RequestOK
  <2> QED BY <1>2, <1>4, <2>1 DEF Moves, Kept
<1>8. RequestOK(q)'
  <2>1. \A d \in Conversations : lock'[d] = q => req[q].conv = d BY <1>1, <1>2 DEF RequestOK
  <2> QED BY <1>1, <1>3, <1>4, <1>5, <1>6, <1>7, <2>1, OwnStep DEF Events, Final, Over
<1>9. ~Open(q)' BY <1>4, <1>8, ClosedNow
<1>10. Apart' BY <1>2, <1>6, <1>9, ServedApart
<1> QED BY <1>1, <1>3, <1>4, <1>5, <1>6, <1>8, <1>10, OthersServed DEF IInv

LEMMA PipelineFailsKeeps == ASSUME IInv, NEW q \in Requests, PipelineFails(q) PROVE IInv'
<1>1. Types /\ RequestOK(q) /\ req[q].stage = "running" BY DEF IInv, PipelineFails
<1>2. /\ turns' = turns /\ gone' = gone /\ tab' = tab /\ posted' = posted /\ typed' = typed /\ lock' = lock
  BY DEF PipelineFails, database
<1>3. KeptGrows BY <1>2, NothingStored
<1>4. /\ req' \in [Requests -> Req] /\ Moves(q) /\ req'[q].stage = "releasing"
      /\ req'[q].events = IF req[q].cut THEN <<>> ELSE Append(req[q].events, "error")
      /\ req'[q].holder = req[q].holder
  BY <1>1, PutAtMoves DEF ReqStages, Events, PipelineFails
<1>5. Types' BY <1>1, <1>2, <1>4 DEF Types
<1>6. Serves(q) BY <1>2, <1>4 DEF Serves
<1>7. RequestOK(q)'
  <2>1. \A d \in Conversations : lock'[d] = q => req[q].conv = d BY <1>1, <1>2 DEF RequestOK
  <2> QED BY <1>1, <1>3, <1>4, <1>5, <1>6, <2>1, OwnStep DEF Events, Final, Over
<1>8. Open(q) BY <1>1 DEF Open
<1>9. Apart' BY <1>2, <1>6, <1>8, ServedApart
<1> QED BY <1>1, <1>3, <1>4, <1>5, <1>6, <1>7, <1>9, OthersServed DEF IInv

LEMMA CancelTaskKeeps == ASSUME IInv, NEW q \in Requests, CancelTask(q) PROVE IInv'
<1>1. Types /\ RequestOK(q) /\ req[q].stage \in {"running", "committed"} /\ req[q].cut
  BY DEF IInv, CancelTask
<1>2. /\ turns' = turns /\ gone' = gone /\ tab' = tab /\ posted' = posted /\ typed' = typed /\ lock' = lock
  BY DEF CancelTask, database
<1>3. KeptGrows BY <1>2, NothingStored
<1>4. /\ req' \in [Requests -> Req] /\ Moves(q) /\ req'[q].stage = "releasing"
      /\ req'[q].events = req[q].events /\ req'[q].holder = req[q].holder
  BY <1>1, ToMoves DEF ReqStages, CancelTask
<1>5. Types' BY <1>1, <1>2, <1>4 DEF Types
<1>6. Serves(q) BY <1>2, <1>4 DEF Serves
<1>7. RequestOK(q)'
  <2>1. \A d \in Conversations : lock'[d] = q => req[q].conv = d BY <1>1, <1>2 DEF RequestOK
  <2> QED BY <1>1, <1>3, <1>4, <1>5, <1>6, <2>1, OwnStep DEF Events, Final, Over
<1>8. ~Open(q)' BY <1>4, <1>7, ClosedNow
<1>9. Apart' BY <1>2, <1>6, <1>8, ServedApart
<1> QED BY <1>1, <1>3, <1>4, <1>5, <1>6, <1>7, <1>9, OthersServed DEF IInv

\* The prompt had not been stored, and nobody else was about to store it.
LEMMA CommitKeeps == ASSUME IInv, NEW q \in Requests, Commit(q) PROVE IInv'
<1> DEFINE c == req[q].conv
           p == req[q].prompt
<1>1. Types /\ Apart /\ RequestOK(q) /\ req[q].stage = "running" BY DEF IInv, Commit
<1>2. /\ gone' = gone /\ tab' = tab /\ posted' = posted /\ typed' = typed /\ lock' = lock
  BY DEF Commit
<1>3. c \in Conversations /\ p \in 1..typed BY <1>1 DEF RequestOK
<1>4. /\ turns' \in [Conversations -> Seq(1..typed)]
      /\ turns'[c] = Append(turns[c], p) /\ \A d \in Conversations \ {c} : turns'[d] = turns[d]
  BY <1>1, <1>3 DEF Types, Commit
<1>5. turns[c] \in Seq(1..typed) BY <1>1, <1>3 DEF Types
<1>6. Range(turns'[c]) = Range(turns[c]) \cup {p}
  <2>1. \A i \in DOMAIN turns[c] : i \in DOMAIN turns'[c] /\ turns'[c][i] = turns[c][i] BY <1>4, <1>5
  <2>2. Len(turns[c]) + 1 \in DOMAIN turns'[c] /\ turns'[c][Len(turns[c]) + 1] = p BY <1>4, <1>5
  <2>3. \A i \in DOMAIN turns'[c] : i \in DOMAIN turns[c] \/ i = Len(turns[c]) + 1 BY <1>4, <1>5
  <2> QED BY <2>1, <2>2, <2>3 DEF Range
<1>7. KeptGrows BY <1>2, <1>4, <1>6 DEF KeptGrows, Kept
<1>8. /\ req' \in [Requests -> Req] /\ Moves(q) /\ req'[q].stage = "committed"
      /\ req'[q].events = req[q].events /\ req'[q].holder = req[q].holder
  BY <1>1, ToMoves DEF ReqStages, Commit
<1>9. Types' BY <1>1, <1>2, <1>4, <1>8 DEF Types
<1>10. Serves(q) BY <1>2, <1>8 DEF Serves
<1>11. (req[q].prompt \in Kept(req[q].conv))' BY <1>6, <1>8 DEF Moves, Kept
<1>12. RequestOK(q)'
  <2>1. \A d \in Conversations : lock'[d] = q => req[q].conv = d BY <1>1, <1>2 DEF RequestOK
  <2> QED BY <1>1, <1>7, <1>8, <1>9, <1>10, <1>11, <2>1, OwnStep DEF Events, Final, Over
<1>13. Open(q) /\ ~Open(q)'
  <2>1. Open(q) BY <1>1 DEF Open
  <2> QED BY <2>1, <1>8, <1>12, ClosedNow
<1>14. ~Durable(p) BY <1>1, <1>13 DEF Apart
<1>15. \A n : Durable(n)' => Durable(n) \/ n = p BY <1>2, <1>4, <1>6, <1>3 DEF Durable
<1>16. ASSUME NEW r \in Requests, Open(r)' PROVE Open(r) /\ req'[r] = req[r] /\ req[r].prompt # p
  <2>1. r # q BY <1>13, <1>16
  <2>2. req'[r] = req[r] BY <1>8, <2>1 DEF Moves
  <2>3. Open(r) BY <1>16, <2>2 DEF Open, Has
  <2> QED BY <1>1, <1>13, <2>1, <2>2, <2>3 DEF Apart
<1>17. Apart'
  <2>1. ASSUME NEW d \in Conversations, NEW e \in Conversations,
               NEW i \in DOMAIN turns'[d], NEW j \in DOMAIN turns'[e], turns'[d][i] = turns'[e][j]
        PROVE d = e /\ i = j
    <3>1. \A d1 \in Conversations : \A i1 \in DOMAIN turns'[d1] :
            \/ i1 \in DOMAIN turns[d1] /\ turns'[d1][i1] = turns[d1][i1] /\ turns[d1][i1] # p
            \/ d1 = c /\ i1 = Len(turns[c]) + 1 /\ turns'[d1][i1] = p
      <4> SUFFICES ASSUME NEW d1 \in Conversations, NEW i1 \in DOMAIN turns'[d1]
                   PROVE \/ i1 \in DOMAIN turns[d1] /\ turns'[d1][i1] = turns[d1][i1] /\ turns[d1][i1] # p
                         \/ d1 = c /\ i1 = Len(turns[c]) + 1 /\ turns'[d1][i1] = p
        OBVIOUS
      <4>1. i1 \in DOMAIN turns[d1] => turns[d1][i1] # p BY <1>14 DEF Durable, Range
      <4>2. CASE d1 # c BY <4>1, <4>2, <1>4
      <4>3. CASE d1 = c
        <5>1. i1 \in DOMAIN Append(turns[c], p) /\ turns'[d1] = Append(turns[c], p) BY <4>3, <1>4
        <5>2. CASE i1 = Len(turns[c]) + 1 BY <5>1, <5>2, <4>3, <1>5
        <5>3. CASE i1 # Len(turns[c]) + 1
          <6>1. i1 \in DOMAIN turns[c] /\ Append(turns[c], p)[i1] = turns[c][i1] BY <5>1, <5>3, <1>5
          <6> QED BY <6>1, <5>1, <4>1, <4>3
        <5> QED BY <5>2, <5>3
      <4> QED BY <4>2, <4>3
    <3>2. \A d1, e1 \in Conversations : \A i1 \in DOMAIN turns[d1], j1 \in DOMAIN turns[e1] :
            turns[d1][i1] = turns[e1][j1] => d1 = e1 /\ i1 = j1
      BY <1>1 DEF Apart, StoredOnce
    <3> QED BY <2>1, <3>1, <3>2
  <2>2. \A d \in Conversations : Range(turns'[d]) \cap gone' = {}
    <3>1. \A d \in Conversations : Range(turns[d]) \cap gone = {} BY <1>1 DEF Apart, StoredOnce
    <3>2. p \notin gone BY <1>14 DEF Durable
    <3> QED BY <3>1, <3>2, <1>2, <1>4, <1>6
  <2>3. ASSUME NEW r \in Requests, Open(r)'
        PROVE /\ ~Durable(req[r].prompt)'
              /\ \A s \in Requests : Open(s)' /\ req'[s].prompt = req'[r].prompt => s = r
    <3>1. ~Durable(req[r].prompt) /\ req[r].prompt # p BY <1>1, <1>16, <2>3 DEF Apart
    <3>2. ~Durable(req[r].prompt)'
      <4> DEFINE n == req[r].prompt
      <4>1. \A m : m = n => ~Durable(m)' BY <3>1, <1>15
      <4>2. req'[r].prompt = n BY <1>16, <2>3
      <4> QED BY <4>1, <4>2 DEF Durable
    <3> QED BY <1>1, <1>16, <2>3, <3>2 DEF Apart
  <2>4. ASSUME NEW t \in Tabs, Waits(t)'
        PROVE /\ ~Durable(tab[t].pending)'
              /\ \A r \in Requests : Open(r)' => req'[r].prompt # tab'[t].pending
              /\ \A u \in Tabs : Waits(u)' /\ tab'[u].pending = tab'[t].pending => u = t
    <3>1. Waits(t) BY <1>2, <2>4 DEF Waits
    <3>2. ~Durable(tab[t].pending) /\ tab[t].pending # p BY <1>1, <1>13, <3>1 DEF Apart
    <3>3. ~Durable(tab[t].pending)'
      <4> DEFINE n == tab[t].pending
      <4>1. \A m : m = n => ~Durable(m)' BY <3>2, <1>15
      <4> QED BY <4>1, <1>2 DEF Durable
    <3> QED BY <1>1, <1>2, <1>16, <3>1, <3>3 DEF Apart, Waits
  <2>5. StoredOnce' BY <2>1, <2>2 DEF StoredOnce
  <2> QED BY <2>3, <2>4, <2>5 DEF Apart
<1> QED BY <1>1, <1>7, <1>8, <1>9, <1>10, <1>12, <1>17, OthersServed DEF IInv

\* A lock is let go of, and nothing else.
LEMMA LockFreed ==
  ASSUME IInv, NEW q \in Requests, req[q].stage # "unsent", req' = req, turns' = turns, gone' = gone,
         tab' = tab, posted' = posted, typed' = typed, lock' = [lock EXCEPT ![req[q].conv] = NoRequest]
  PROVE IInv'
<1>1. Types /\ RequestOK(q) BY DEF IInv
<1>2. req[q].conv \in Conversations BY <1>1 DEF RequestOK
<1>3. lock' \in [Conversations -> Requests \cup {NoRequest}] BY <1>1 DEF Types
<1>4. Types' BY <1>1, <1>3 DEF Types
<1>5. KeptGrows BY NothingStored
<1>6. Moves(q) BY DEF Moves
<1>7. Serves(q) BY <1>1, <1>2, <1>6 DEF Serves, Types
<1>8. Shrinks(q) BY DEF Shrinks
<1>9. LocksNoMore(q) BY <1>1, <1>2 DEF LocksNoMore, Types, Requests, NoRequest
<1>10. BeingRead(q) => BeingRead(q)' BY DEF BeingRead
<1>11. typed <= typed' BY <1>1 DEF Types
<1>12. RequestOK(q)' BY <1>1, <1>4, <1>5, <1>8, <1>9, <1>10, <1>11, RequestStays
<1>13. Open(q)' => Open(q) BY DEF Open, Has
<1>14. Apart' BY <1>7, <1>13, ServedApart
<1> QED BY <1>1, <1>4, <1>5, <1>7, <1>12, <1>14, OthersServed DEF IInv

LEMMA ReleaseKeeps == ASSUME IInv, NEW q \in Requests, Release(q) PROVE IInv'
  BY LockFreed DEF Release, database

\* Redis fails: what is told last, and a request that may leave its lock behind.
LEMMA RedisFailsKeeps == ASSUME IInv, NEW q \in Requests, RedisFails(q) PROVE IInv'
<1> DEFINE c == req[q].conv
<1>1. Types /\ RequestOK(q) /\ req[q].stage \in {"sent", "access", "releasing"}
  BY DEF IInv, RedisFails
<1>2. /\ turns' = turns /\ gone' = gone /\ tab' = tab /\ posted' = posted /\ typed' = typed
  BY DEF RedisFails, database
<1>3. KeptGrows BY <1>2, NothingStored
<1>4. c \in Conversations /\ q # NoRequest BY <1>1 DEF RequestOK, Requests, NoRequest
<1>5. lock' = [lock EXCEPT ![c] = q] \/ lock' = lock BY <1>1, <1>4 DEF RedisFails, Types
<1>6. \A d \in Conversations : lock'[d] = q => c = d BY <1>1, <1>4, <1>5 DEF RequestOK, Types
<1>7. lock' \in [Conversations -> Requests \cup {NoRequest}] BY <1>1, <1>5 DEF Types
<1>8. PICK e \in {"500", "broken"} : PutAt(q, "stranded", e) BY DEF RedisFails
<1>9. /\ req' \in [Requests -> Req] /\ Moves(q) /\ req'[q].stage = "stranded"
      /\ req'[q].events = IF req[q].cut THEN <<>> ELSE Append(req[q].events, e)
      /\ req'[q].holder = req[q].holder
  BY <1>1, <1>8, PutAtMoves DEF ReqStages, Events
<1>10. Types' BY <1>1, <1>2, <1>7, <1>9 DEF Types
<1>11. Serves(q) BY <1>1, <1>2, <1>5, <1>9 DEF Serves, Types
<1>12. RequestOK(q)'
  BY <1>1, <1>3, <1>6, <1>8, <1>9, <1>10, <1>11, OwnStep DEF Events, Over
<1>13. ~Open(q)'
  <2>1. ~Has(q, {"404"}) BY <1>1 DEF RequestOK, Has, Over, Final
  <2>2. req[q].events \in Seq(Events) BY <1>1 DEF Types, Req
  <2>3. ASSUME NEW i \in DOMAIN req'[q].events PROVE req'[q].events[i] # "404"
    <3>1. CASE req'[q].events = <<>> BY <2>3, <3>1
    <3>2. CASE req'[q].events = Append(req[q].events, e)
      <4>1. i \in DOMAIN req[q].events \/ i = Len(req[q].events) + 1 BY <2>2, <2>3, <3>2
      <4> QED BY <4>1, <1>8, <2>1, <2>2, <3>2 DEF Has
    <3> QED BY <1>9, <3>1, <3>2
  <2>4. ~Has(q, {"404"})' BY <2>3 DEF Has
  <2> QED BY <1>9, <2>4 DEF Open
<1>14. Apart' BY <1>2, <1>11, <1>13, ServedApart
<1> QED BY <1>1, <1>3, <1>9, <1>10, <1>11, <1>12, <1>14, OthersServed DEF IInv

LEMMA LockExpiresKeeps == ASSUME IInv, NEW q \in Requests, LockExpires(q) PROVE IInv'
  BY LockFreed DEF LockExpires, database

\* The end of the stream is sent by a request that has released its lock.
LEMMA EndStreamKeeps == ASSUME IInv, NEW q \in Requests, EndStream(q) PROVE IInv'
<1>1. Types /\ RequestOK(q) /\ req[q].stage = "releasing" /\ Free(q)
  BY DEF IInv, EndStream, MayEnd, Holds, Free
<1>2. /\ turns' = turns /\ gone' = gone /\ tab' = tab /\ posted' = posted /\ typed' = typed /\ lock' = lock
  BY DEF EndStream, database
<1>3. KeptGrows BY <1>2, NothingStored
<1>4. /\ req' \in [Requests -> Req] /\ Moves(q) /\ req'[q].stage = "ended"
      /\ req'[q].events = IF req[q].cut THEN <<>> ELSE Append(req[q].events, "end")
      /\ req'[q].holder = req[q].holder
  BY <1>1, PutAtMoves DEF ReqStages, Events, EndStream
<1>5. Types' BY <1>1, <1>2, <1>4 DEF Types
<1>6. Serves(q) BY <1>2, <1>4 DEF Serves
<1>7. Free(q)' BY <1>1, <1>2, <1>4 DEF Free, Moves
<1>8. \A d \in Conversations : lock'[d] = q => req[q].conv = d BY <1>1, <1>2 DEF RequestOK
<1>9. RequestOK(q)'
  BY <1>1, <1>3, <1>4, <1>5, <1>6, <1>7, <1>8, OwnStep DEF Events, Final, Over
<1>10. ~Open(q)'
  <2>1. ~Has(q, {"404"}) BY <1>1 DEF RequestOK, Has, Over, Final
  <2>2. req[q].events \in Seq(Events) BY <1>1 DEF Types, Req
  <2>3. ASSUME NEW i \in DOMAIN req'[q].events PROVE req'[q].events[i] # "404"
    <3>1. CASE req'[q].events = <<>> BY <2>3, <3>1
    <3>2. CASE req'[q].events = Append(req[q].events, "end")
      <4>1. i \in DOMAIN req[q].events \/ i = Len(req[q].events) + 1 BY <2>2, <2>3, <3>2
      <4> QED BY <4>1, <2>1, <2>2, <3>2 DEF Has
    <3> QED BY <1>4, <3>1, <3>2
  <2>4. ~Has(q, {"404"})' BY <2>3 DEF Has
  <2> QED BY <1>4, <2>4 DEF Open
<1>11. Apart' BY <1>2, <1>6, <1>10, ServedApart
<1> QED BY <1>1, <1>3, <1>4, <1>5, <1>6, <1>9, <1>11, OthersServed DEF IInv

------------------------------------------------------------------------------
(* The steps of a tab.                                                      *)

LEMMA ShownSame ==
  ASSUME Types, KeptGrows, NEW t \in Tabs, Shown(t),
         tab'[t].session = tab[t].session, tab'[t].messages = tab[t].messages
  PROVE Shown(t)'
<1>1. tab[t].session \in Conversations BY DEF Types, Tab
<1>2. ASSUME NEW i \in DOMAIN tab[t].messages, NEW m, m = tab[t].messages[i]
      PROVE m.conv = tab[t].session /\ (m.role = "assistant" => m.prompt \in Kept(m.conv)')
  BY <1>1, <1>2 DEF Shown, KeptGrows
<1> QED BY <1>2 DEF Shown, Kept

LEMMA ShownNothing ==
  ASSUME NEW t \in Tabs, tab'[t].messages = <<>> PROVE Shown(t)'
  BY DEF Shown

LEMMA ShownMore ==
  ASSUME Types, KeptGrows, NEW t \in Tabs, Shown(t), NEW m \in Msg,
         tab'[t].session = tab[t].session, tab'[t].messages = Append(tab[t].messages, m),
         m.conv = tab[t].session, m.role = "assistant" => m.prompt \in Kept(m.conv)
  PROVE Shown(t)'
<1>1. tab[t].session \in Conversations /\ tab[t].messages \in Seq(Msg) BY DEF Types, Tab
<1>2. ASSUME NEW i \in DOMAIN tab'[t].messages, NEW n, n = tab'[t].messages[i]
      PROVE n.conv = tab[t].session /\ (n.role = "assistant" => n.prompt \in Kept(n.conv)')
  <2>1. CASE i = Len(tab[t].messages) + 1
    <3>1. n = m BY <1>1, <1>2, <2>1
    <3> QED BY <1>1, <3>1 DEF KeptGrows
  <2>2. CASE i # Len(tab[t].messages) + 1
    <3>1. i \in DOMAIN tab[t].messages /\ n = tab[t].messages[i] BY <1>1, <1>2, <2>2
    <3> QED BY <1>1, <3>1 DEF Shown, KeptGrows
  <2> QED BY <2>1, <2>2
<1> QED BY <1>2 DEF Shown, Kept

\* What a step of a tab's script does not touch.
Runs(t) ==
  /\ lock' = lock
  /\ \A u \in Tabs \ {t} : tab'[u] = tab[u]
  /\ \A q \in Requests \ {tab[t].request} : req'[q] = req[q]
  /\ \A q \in Requests : Shrinks(q)

\* A tab stops reading when the stream has ended, or closes it.
StopsProperly(t) ==
  LET r == tab[t].request IN
  tab[t].phase = "reading" /\ ~(tab'[t].phase = "reading" /\ tab'[t].request = r) =>
    req'[r].cut \/ Over(r)

LEMMA OthersRun ==
  ASSUME IInv, Types', KeptGrows, typed <= typed', posted' = posted,
         NEW t \in Tabs, Runs(t), StopsProperly(t)
  PROVE /\ \A q \in Requests : RequestOK(q)' /\ Conflict(q)'
        /\ \A u \in Tabs \ {t} : TabOK(u)'
        /\ \A q \in Requests : Open(q)' => Open(q) /\ req'[q].prompt = req[q].prompt
<1>1. Types /\ tab[t].request \in Requests \cup {NoRequest} BY DEF IInv, Types, Tab
<1>2. \A h \in Requests : req[h].stage # "unsent" =>
        /\ req'[h].stage # "unsent" /\ req'[h].tab = req[h].tab
        /\ req'[h].conv = req[h].conv /\ req'[h].prompt = req[h].prompt
        /\ req[h].cut => req'[h].cut
        /\ req[h].stage = "stranded" => req'[h].stage = "stranded"
  BY DEF Runs, Shrinks
<1>3. ASSUME NEW q \in Requests PROVE RequestOK(q)' /\ Conflict(q)'
  <2>1. Shrinks(q) /\ RequestOK(q) /\ Conflict(q) BY DEF Runs, IInv
  <2>2. LocksNoMore(q) BY DEF Runs, LocksNoMore
  <2>3. ASSUME req[q].stage # "unsent", ~req'[q].cut, BeingRead(q)
        PROVE BeingRead(q)' \/ Over(q)
    <3>1. req[q].tab \in Tabs /\ req'[q].tab = req[q].tab BY <2>1, <2>3 DEF RequestOK, Shrinks
    <3>2. CASE req[q].tab # t BY <3>1, <3>2, <2>3 DEF Runs, BeingRead
    <3>3. CASE req[q].tab = t BY <3>1, <3>3, <2>3 DEF StopsProperly, BeingRead
    <3> QED BY <3>2, <3>3
  <2>4. RequestOK(q)' BY <1>1, <2>1, <2>2, <2>3, RequestStays
  <2>5. req'[q].holder = req[q].holder /\ req'[q].tab = req[q].tab /\ (req[q].cut => req'[q].cut)
    BY <2>1 DEF Shrinks
  <2>6. Conflict(q)' BY <1>1, <1>2, <2>1, <2>5, ConflictStays
  <2> QED BY <2>4, <2>6
<1>4. ASSUME NEW u \in Tabs \ {t} PROVE TabOK(u)'
  <2>1. TabOK(u) /\ TabOK(t) /\ tab'[u] = tab[u] BY DEF IInv, Runs
  <2>2. \A r \in Requests : req[r].tab = u => req'[r] = req[r]
    BY <1>1, <2>1 DEF TabOK, Runs, Requests, NoRequest
  <2> QED BY <1>1, <1>2, <2>1, <2>2, TabStays
<1>5. ASSUME NEW q \in Requests, Open(q)' PROVE Open(q) /\ req'[q].prompt = req[q].prompt
  <2>1. Shrinks(q) BY DEF Runs
  <2>2. Has(q, {"404"})' => Has(q, {"404"}) BY <1>1, <2>1, ShrinksHas
  <2> QED BY <1>5, <2>1, <2>2 DEF Open, Shrinks
<1> QED BY <1>3, <1>4, <1>5

\* A tab whose request is over, or that has none.
LEMMA TabSettles ==
  ASSUME IInv, Types', KeptGrows, typed' = typed, posted' = posted, NEW t \in Tabs, Runs(t),
         StopsProperly(t), tab'[t].request \in {tab[t].request, NoRequest},
         tab'[t].phase \notin {"sending", "reading"}, Shown(t)',
         StoredOnce', \A p : Durable(p)' => Durable(p)
  PROVE IInv'
<1>1. Types /\ Apart /\ TabOK(t) /\ tab[t].request \in Requests \cup {NoRequest}
  BY DEF IInv, Types, Tab
<1>2. typed <= typed' BY <1>1 DEF Types
<1>3. /\ \A q \in Requests : RequestOK(q)' /\ Conflict(q)'
      /\ \A u \in Tabs \ {t} : TabOK(u)'
      /\ \A q \in Requests : Open(q)' => Open(q) /\ req'[q].prompt = req[q].prompt
  BY <1>2, OthersRun
<1>4. \A r \in Requests : req[r].stage # "unsent" => req'[r].stage # "unsent" /\ req'[r].tab = req[r].tab
  BY DEF Runs, Shrinks
<1>5. TabOK(t)' BY <1>1, <1>4 DEF TabOK, InFlight
<1>6. \A u \in Tabs : Waits(u)' => Waits(u) /\ tab'[u].pending = tab[u].pending
  BY DEF Waits, Runs
<1>7. Apart' BY <1>1, <1>3, <1>6, ApartStays
<1> QED BY <1>3, <1>5, <1>7 DEF IInv

\* What a step that leaves the stored turns alone leaves true of them.
LEMMA StoredStays ==
  ASSUME IInv, turns' = turns, gone' = gone
  PROVE KeptGrows /\ StoredOnce' /\ \A p : Durable(p)' => Durable(p)
<1>1. KeptGrows BY NothingStored
<1>2. StoredOnce' BY DEF IInv, Apart, StoredOnce
<1> QED BY <1>1, <1>2 DEF Durable

LEMMA NothingRead ==
  ASSUME req' = req PROVE \A q \in Requests : req'[q] = req[q] /\ Shrinks(q)
  BY DEF Shrinks

\* The script writes a state that is not in flight, reads or closes its stream, and no more.
LEMMA Settles ==
  ASSUME IInv, turns' = turns, gone' = gone, lock' = lock, posted' = posted, typed' = typed,
         NEW t \in Tabs, NEW new \in Tab, Set(t, new), req' \in [Requests -> Req],
         \A q \in Requests \ {tab[t].request} : req'[q] = req[q], \A q \in Requests : Shrinks(q),
         new.request \in {tab[t].request, NoRequest}, new.phase \notin {"sending", "reading"},
         tab[t].phase = "reading" =>
           LET r == tab[t].request IN req'[r].cut \/ Over(r),
         \/ new.session = tab[t].session /\ new.messages = tab[t].messages
         \/ new.messages = <<>>
         \/ \E m \in Msg : /\ new.session = tab[t].session /\ new.messages = Append(tab[t].messages, m)
                           /\ m.conv = tab[t].session
                           /\ m.role = "assistant" => m.prompt \in Kept(m.conv)
  PROVE IInv'
<1>1. Types /\ TabOK(t) BY DEF IInv
<1>2. tab' \in [Tabs -> Tab] /\ tab'[t] = new /\ \A u \in Tabs \ {t} : tab'[u] = tab[u]
  BY <1>1, SetWrites
<1>3. Types' BY <1>1, <1>2 DEF Types
<1>4. KeptGrows /\ StoredOnce' /\ \A p : Durable(p)' => Durable(p) BY StoredStays
<1>5. Runs(t) BY <1>2 DEF Runs
<1>6. StopsProperly(t) BY <1>2 DEF StopsProperly
<1>7. Shown(t) BY <1>1 DEF TabOK
<1>8. Shown(t)'
  <2>1. CASE new.session = tab[t].session /\ new.messages = tab[t].messages
    BY <1>1, <1>2, <1>4, <1>7, <2>1, ShownSame
  <2>2. CASE new.messages = <<>> BY <1>2, <2>2, ShownNothing
  <2>3. ASSUME NEW m \in Msg, new.session = tab[t].session,
               new.messages = Append(tab[t].messages, m), m.conv = tab[t].session,
               m.role = "assistant" => m.prompt \in Kept(m.conv)
        PROVE Shown(t)'
    BY <1>1, <1>2, <1>4, <1>7, <2>3, ShownMore
  <2> QED BY <2>1, <2>2, <2>3
<1> QED BY <1>2, <1>3, <1>4, <1>5, <1>6, <1>8, TabSettles

LEMMA StoredIs ==
  ASSUME Types, NEW t \in Tabs
  PROVE /\ Stored(t) \in Seq(Msg)
        /\ \A i \in DOMAIN Stored(t) :
             /\ Stored(t)[i].conv = tab[t].session
             /\ Stored(t)[i].prompt \in Kept(tab[t].session)
<1> DEFINE c == tab[t].session
<1>1. c \in Conversations BY DEF Types, Tab
<1>2. turns[c] \in Seq(1..typed) /\ typed \in Nat BY <1>1 DEF Types
<1>3. CASE owner[c] # BrowserOf[t]
  <2>1. Stored(t) = <<>> BY <1>3 DEF Stored
  <2>2. <<>> \in Seq(Msg) OBVIOUS
  <2> QED BY <2>1, <2>2
<1>4. CASE owner[c] = BrowserOf[t]
  <2> DEFINE n == 2 * Len(turns[c])
             at(i) == Message(IF i % 2 = 1 THEN "user" ELSE "assistant", turns[c][(i + 1) \div 2], c)
  <2>1. Stored(t) = [i \in 1..n |-> at(i)] BY <1>4 DEF Stored
  <2>2. n \in Nat BY <1>2
  <2>3. \A i \in 1..n : (i + 1) \div 2 \in 1..Len(turns[c]) BY <1>2
  <2>4. \A i \in 1..n : turns[c][(i + 1) \div 2] \in 1..typed /\ turns[c][(i + 1) \div 2] \in Range(turns[c])
    BY <1>2, <2>3 DEF Range
  <2>5. \A i \in 1..n : at(i) \in Msg /\ at(i).conv = c /\ at(i).prompt \in Kept(c)
    BY <1>1, <1>2, <2>4 DEF Message, Msg, Kept
  <2> HIDE DEF at
  <2>6. [i \in 1..n |-> at(i)] \in Seq(Msg) BY <2>2, <2>5
  <2> QED BY <2>1, <2>5, <2>6
<1> QED BY <1>3, <1>4

LEMMA LoadKeeps == ASSUME IInv, NEW t \in Tabs, Load(t) PROVE IInv'
<1>1. Types /\ tab[t] \in Tab /\ tab[t].phase \in {"loading", "unloaded"} BY DEF IInv, Types, Load
<1>2. /\ turns' = turns /\ gone' = gone /\ lock' = lock /\ req' = req /\ posted' = posted /\ typed' = typed
  BY DEF Load, database
<1>3. req' \in [Requests -> Req] BY <1>1, <1>2 DEF Types
<1>4. \A q \in Requests : req'[q] = req[q] /\ Shrinks(q) BY <1>2, NothingRead
<1>5. CASE Set(t, [tab[t] EXCEPT !.messages = <<>>, !.phase = "unloaded"])
  <2> DEFINE new == [tab[t] EXCEPT !.messages = <<>>, !.phase = "unloaded"]
  <2>1. <<>> \in Seq(Msg) OBVIOUS
  <2>2. new \in Tab /\ new.request = tab[t].request /\ new.phase = "unloaded" /\ new.messages = <<>>
    BY <1>1, <2>1 DEF Tab
  <2> HIDE DEF new
  <2> QED BY <1>1, <1>2, <1>3, <1>4, <1>5, <2>2, Settles DEF new
<1>6. CASE Set(t, [tab[t] EXCEPT !.messages = Stored(t), !.phase = "idle"])
  <2> DEFINE new == [tab[t] EXCEPT !.messages = Stored(t), !.phase = "idle"]
  <2>1. Stored(t) \in Seq(Msg) BY <1>1, StoredIs
  <2>2. /\ new \in Tab /\ new.request = tab[t].request /\ new.phase = "idle"
        /\ new.messages = Stored(t) /\ new.session = tab[t].session
    BY <1>1, <2>1 DEF Tab
  <2>3. tab' \in [Tabs -> Tab] /\ tab'[t] = new /\ \A u \in Tabs \ {t} : tab'[u] = tab[u]
    BY <1>1, <1>6, <2>2, SetWrites
  <2> HIDE DEF new
  <2>4. Types' BY <1>1, <1>2, <1>3, <2>3 DEF Types
  <2>5. KeptGrows /\ StoredOnce' /\ \A p : Durable(p)' => Durable(p) BY <1>2, StoredStays
  <2>6. Runs(t) BY <1>2, <1>4, <2>3 DEF Runs
  <2>7. StopsProperly(t) BY <1>1 DEF StopsProperly
  <2>8. Shown(t)'
    <3>1. \A i \in DOMAIN Stored(t) :
            Stored(t)[i].conv = tab[t].session /\ Stored(t)[i].prompt \in Kept(tab[t].session)
      BY <1>1, StoredIs
    <3>2. \A c : Kept(c)' = Kept(c) BY <1>2 DEF Kept
    <3>3. tab'[t].messages = Stored(t) /\ tab'[t].session = tab[t].session BY <2>2, <2>3
    <3>4. ASSUME NEW i \in DOMAIN tab'[t].messages, NEW m, m = tab'[t].messages[i]
          PROVE m.conv = tab'[t].session /\ (m.role = "assistant" => m.prompt \in Kept(m.conv)')
      BY <3>1, <3>2, <3>3, <3>4
    <3> QED BY <3>4 DEF Shown, Kept
  <2> QED BY <1>2, <2>2, <2>3, <2>4, <2>5, <2>6, <2>7, <2>8, TabSettles
<1> QED BY <1>5, <1>6 DEF Load

\* The end of a request, whatever came of it.
LEMMA EndsKeeps ==
  ASSUME IInv, turns' = turns, gone' = gone, lock' = lock, posted' = posted, typed' = typed,
         NEW t \in Tabs, Set(t, Ended(t)), req' \in [Requests -> Req],
         \A q \in Requests \ {tab[t].request} : req'[q] = req[q], \A q \in Requests : Shrinks(q),
         tab[t].phase = "reading" =>
           LET r == tab[t].request IN req'[r].cut \/ Over(r)
  PROVE IInv'
<1>1. Types BY DEF IInv
<1>2. /\ Ended(t) \in Tab /\ Ended(t).phase = "idle" /\ Ended(t).request = NoRequest
      /\ Ended(t).session = tab[t].session /\ Ended(t).messages = tab[t].messages
  BY <1>1, EndedIs
<1> QED BY <1>2, Settles

LEMMA CannotConnectKeeps == ASSUME IInv, NEW t \in Tabs, CannotConnect(t) PROVE IInv'
<1>1. /\ turns' = turns /\ gone' = gone /\ lock' = lock /\ req' = req /\ posted' = posted /\ typed' = typed
      /\ tab[t].phase = "sending"
  BY DEF CannotConnect, database
<1>2. Set(t, Ended(t)) BY DEF CannotConnect, GivesUp, SendsAgain
<1>3. req' \in [Requests -> Req] /\ \A q \in Requests : req'[q] = req[q] /\ Shrinks(q)
  BY <1>1, NothingRead DEF IInv, Types
<1> QED BY <1>1, <1>2, <1>3, EndsKeeps

\* The tab that reads closes its stream.
LEMMA ClosingKeeps ==
  ASSUME IInv, turns' = turns, gone' = gone, lock' = lock, posted' = posted, typed' = typed,
         NEW t \in Tabs, Set(t, Ended(t)), Cut(t)
  PROVE IInv'
<1>1. Types /\ TabOK(t) /\ tab[t].request \in Requests \cup {NoRequest} BY DEF IInv, Types, Tab
<1>2. /\ req' \in [Requests -> Req] /\ \A q \in Requests : Shrinks(q)
      /\ \A q \in Requests \ {tab[t].request} : req'[q] = req[q]
      /\ tab[t].request \in Requests => req'[tab[t].request].cut
  BY <1>1, CutShrinks
<1>3. tab[t].phase = "reading" => tab[t].request \in Requests BY <1>1 DEF TabOK
<1> QED BY <1>2, <1>3, EndsKeeps

LEMMA ConnectionLostKeeps == ASSUME IInv, NEW t \in Tabs, ConnectionLost(t) PROVE IInv'
<1>1. Set(t, Ended(t)) BY DEF ConnectionLost, GivesUp, SendsAgain
<1> QED BY <1>1, ClosingKeeps DEF ConnectionLost, database

LEMMA InterruptKeeps == ASSUME IInv, NEW t \in Tabs, Interrupt(t) PROVE IInv'
  BY ClosingKeeps DEF Interrupt, database

\* A click in a tab with nothing in flight.
LEMMA IdleClick ==
  ASSUME IInv, UNCHANGED <<turns, gone, lock, req, posted, typed>>,
         NEW t \in Tabs, tab[t].phase # "reading", NEW new \in Tab, Set(t, new),
         new.request \in {tab[t].request, NoRequest}, new.phase \notin {"sending", "reading"},
         \/ new.session = tab[t].session /\ new.messages = tab[t].messages
         \/ new.messages = <<>>
  PROVE IInv'
<1>1. req' \in [Requests -> Req] /\ \A q \in Requests : req'[q] = req[q] /\ Shrinks(q)
  BY NothingRead DEF IInv, Types
<1> QED BY <1>1, Settles

LEMMA SelectKeeps == ASSUME IInv, NEW t \in Tabs, NEW c \in Conversations, Select(t, c) PROVE IInv'
<1> DEFINE ms == IF c = tab[t].session THEN tab[t].messages ELSE <<>>
           new == [tab[t] EXCEPT !.session = c, !.doomed = NoOne, !.messages = ms, !.phase = "loading"]
<1>1. tab[t] \in Tab /\ tab[t].phase \in {"idle", "unloaded"} BY DEF IInv, Types, Select
<1>2. <<>> \in Seq(Msg) OBVIOUS
<1>3. ms \in Seq(Msg) BY <1>1, <1>2 DEF Tab
<1>4. /\ new \in Tab /\ new.request = tab[t].request /\ new.phase = "loading"
      /\ new.session = c /\ new.messages = ms
  BY <1>1, <1>3 DEF Tab
<1>5. Set(t, new) BY DEF Select
<1> HIDE DEF new
<1> QED BY <1>1, <1>4, <1>5, IdleClick DEF Select, database

LEMMA NewKeeps == ASSUME IInv, NEW t \in Tabs, New(t) PROVE IInv'
<1> DEFINE new == [InNew(tab[t]) EXCEPT !.phase = "idle"]
<1>1. tab[t] \in Tab /\ tab[t].phase \in {"idle", "unloaded"} /\ CanStartNew BY DEF IInv, Types, New
<1>2. InNew(tab[t]) \in Tab /\ InNew(tab[t]).request = tab[t].request /\ InNew(tab[t]).messages = <<>>
  BY <1>1, InNewIs
<1>3. new \in Tab /\ new.request = tab[t].request /\ new.phase = "idle" /\ new.messages = <<>>
  BY <1>2 DEF Tab
<1>4. Set(t, new) BY DEF New
<1> HIDE DEF new
<1> QED BY <1>1, <1>3, <1>4, IdleClick DEF New, database

LEMMA RequestDeleteKeeps ==
  ASSUME IInv, NEW t \in Tabs, NEW c \in Conversations, RequestDelete(t, c) PROVE IInv'
<1> DEFINE new == [tab[t] EXCEPT !.doomed = c]
<1>1. tab[t] \in Tab /\ tab[t].phase \in {"idle", "unloaded"} BY DEF IInv, Types, RequestDelete
<1>2. /\ new \in Tab /\ new.request = tab[t].request /\ new.phase = tab[t].phase
      /\ new.messages = tab[t].messages /\ new.session = tab[t].session
  BY <1>1 DEF Tab
<1>3. Set(t, new) BY DEF RequestDelete
<1> HIDE DEF new
<1> QED BY <1>1, <1>2, <1>3, IdleClick DEF RequestDelete, database

\* The first event of the stream, and what it says of the request.
LEMMA HeadOf ==
  ASSUME IInv, NEW t \in Tabs, Reading(t)
  PROVE LET r == tab[t].request IN
        /\ r \in Requests /\ req[r].stage # "unsent" /\ req[r].tab = t /\ ~req[r].cut
        /\ req[r].prompt = tab[t].pending /\ req[r].conv = tab[t].session
        /\ Event(t) \in Events /\ Has(r, {Event(t)})
        /\ Event(t) \in Final => Over(r)
        /\ Event(t) = "result" \/ tab[t].data => tab[t].pending \in Kept(tab[t].session)
<1> DEFINE r == tab[t].request
<1>1. Types /\ TabOK(t) /\ tab[t].phase = "reading" /\ req[r].events # <<>>
  BY DEF IInv, Reading
<1>2. r \in Requests BY <1>1 DEF TabOK, Types, Tab
<1>3. RequestOK(r) /\ req[r].events \in Seq(Events) BY <1>1, <1>2 DEF IInv, Types, Req
<1>4. /\ req[r].stage # "unsent" /\ req[r].tab = t /\ ~req[r].cut
      /\ req[r].prompt = tab[t].pending /\ req[r].conv = tab[t].session
      /\ tab[t].data => tab[t].pending \in Kept(tab[t].session)
  BY <1>1, <1>2 DEF TabOK
<1>5. 1 \in DOMAIN req[r].events /\ Event(t) = req[r].events[1] /\ Event(t) \in Events
  BY <1>1, <1>3 DEF Event
<1>6. Has(r, {Event(t)}) BY <1>5 DEF Has
<1>7. Event(t) \in Final => Over(r)
  BY <1>3, <1>5 DEF RequestOK, Has
<1>8. Event(t) = "result" => tab[t].pending \in Kept(tab[t].session)
  BY <1>3, <1>4, <1>6 DEF RequestOK
<1> QED BY <1>2, <1>4, <1>5, <1>6, <1>7, <1>8

\* The stream goes on.
LEMMA ReadsOn ==
  ASSUME IInv, UNCHANGED <<turns, gone, lock, posted, typed>>, NEW t \in Tabs, Reading(t),
         Event(t) \in {"200", "result"}, Read(t),
         Set(t, [tab[t] EXCEPT !.data = @ \/ Event(t) = "result"])
  PROVE IInv'
<1> DEFINE r == tab[t].request
           data == tab[t].data \/ Event(t) = "result"
           new == [tab[t] EXCEPT !.data = data]
<1>1. Types /\ Apart /\ TabOK(t) /\ tab[t] \in Tab /\ tab[t].phase = "reading" /\ req[r].events # <<>>
  BY DEF IInv, Types, Reading
<1>2. r \in Requests /\ ~req[r].cut
      /\ (Event(t) = "result" \/ tab[t].data => tab[t].pending \in Kept(tab[t].session))
  BY HeadOf
<1>3. /\ req' \in [Requests -> Req] /\ \A q \in Requests : Shrinks(q)
      /\ \A q \in Requests \ {r} : req'[q] = req[q]
      /\ req'[r].cut = req[r].cut
  BY <1>1, <1>2, ReadShrinks
<1>4. data \in BOOLEAN BY <1>1 DEF Tab
<1>5. /\ new \in Tab /\ new.request = r /\ new.phase = "reading" /\ new.data = data
      /\ new.pending = tab[t].pending
      /\ new.messages = tab[t].messages /\ new.session = tab[t].session
  BY <1>1, <1>4 DEF Tab
<1>6. Set(t, new) OBVIOUS
<1> HIDE DEF new, data
<1>7. tab' \in [Tabs -> Tab] /\ tab'[t] = new /\ \A u \in Tabs \ {t} : tab'[u] = tab[u]
  BY <1>1, <1>5, <1>6, SetWrites
<1>8. Types' BY <1>1, <1>3, <1>7 DEF Types
<1>9. KeptGrows /\ StoredOnce' /\ \A p : Durable(p)' => Durable(p) BY StoredStays
<1>10. Runs(t) BY <1>3, <1>7 DEF Runs
<1>11. StopsProperly(t) BY <1>5, <1>7 DEF StopsProperly
<1>12. typed <= typed' BY <1>1 DEF Types
<1>13. /\ \A q \in Requests : RequestOK(q)' /\ Conflict(q)'
       /\ \A u \in Tabs \ {t} : TabOK(u)'
       /\ \A q \in Requests : Open(q)' => Open(q) /\ req'[q].prompt = req[q].prompt
  BY <1>8, <1>9, <1>10, <1>11, <1>12, OthersRun
<1>14. Shown(t)' BY <1>1, <1>5, <1>7, <1>9, ShownSame DEF TabOK
<1>15. TabOK(t)'
  <2>1. tab[t].session \in Conversations BY <1>1 DEF Tab
  <2>2. data => (tab[t].pending \in Kept(tab[t].session))'
    <3>1. data => tab[t].pending \in Kept(tab[t].session) BY <1>2 DEF data
    <3> QED BY <3>1, <1>5, <1>7 DEF Kept
  <2>3. /\ req'[r].stage = req[r].stage /\ req'[r].tab = req[r].tab
        /\ req'[r].prompt = req[r].prompt /\ req'[r].conv = req[r].conv
    BY <1>2, <1>3 DEF Shrinks
  <2> QED BY <1>1, <1>2, <1>3, <1>5, <1>7, <1>14, <2>2, <2>3 DEF TabOK, InFlight
<1>16. \A u \in Tabs : Waits(u)' => Waits(u) /\ tab'[u].pending = tab[u].pending
  BY <1>5, <1>7 DEF Waits
<1>17. Apart' BY <1>1, <1>9, <1>13, <1>16, ApartStays
<1> QED BY <1>8, <1>13, <1>15, <1>17 DEF IInv

\* After a refusal nobody else can store the prompt: it is the tab's again.
LEMMA AgainKeeps ==
  ASSUME IInv, UNCHANGED <<turns, gone, lock, posted, typed>>, NEW t \in Tabs, Reading(t),
         Event(t) = "404", Read(t), CanStartNew, Again(t)
  PROVE IInv'
<1> DEFINE r == tab[t].request
           m == Message("user", tab[t].pending, Fresh)
           base == InNew(tab[t])
           new == [base EXCEPT !.attempt = 1, !.phase = "sending", !.messages = Append(@, m)]
<1>1. Types /\ Apart /\ TabOK(t) /\ tab[t] \in Tab /\ tab[t].phase = "reading" /\ req[r].events # <<>>
  BY DEF IInv, Types, Reading
<1>2. /\ r \in Requests /\ req[r].prompt = tab[t].pending /\ Has(r, {"404"}) /\ Over(r)
  BY HeadOf DEF Final
<1>3. /\ req' \in [Requests -> Req] /\ \A q \in Requests : Shrinks(q)
      /\ \A q \in Requests \ {r} : req'[q] = req[q]
      /\ req'[r].events = Tail(req[r].events)
  BY <1>1, <1>2, ReadShrinks
<1>4. ASSUME NEW q \in Requests, q = r PROVE ~Open(q)'
  <2>1. RequestOK(q) /\ req[q].events \in Seq(Events) BY <1>1 DEF IInv, Types, Req
  <2>2. Len(req[q].events) = 1 BY <1>2, <1>4, <2>1 DEF RequestOK
  <2>3. req[q].events # <<>> BY <1>1, <1>4
  <2>4. Len(Tail(req[q].events)) = 0 /\ Tail(req[q].events) \in Seq(Events) BY <2>1, <2>2, <2>3
  <2>5. req'[q].stage \in {"ended", "stranded"} BY <1>2, <1>3, <1>4 DEF Shrinks, Over
  <2>6. \A i \in DOMAIN req'[q].events : FALSE
    <3>1. req'[q].events = Tail(req[q].events) BY <1>3, <1>4
    <3>2. \A s \in Seq(Events) : Len(s) = 0 => \A i \in DOMAIN s : FALSE OBVIOUS
    <3> QED BY <3>1, <3>2, <2>4
  <2> QED BY <2>5, <2>6 DEF Open, Has
<1>5. Open(r) BY <1>2 DEF Open
<1>6. Fresh \in Conversations BY FreshIsNew
<1>7. /\ base \in Tab /\ base.request = r /\ base.session = Fresh /\ base.messages = <<>>
      /\ base.pending = tab[t].pending
  BY <1>1, InNewIs
<1>8. tab[t].pending \in Nat BY <1>1 DEF Tab
<1>9. m \in Msg /\ m.conv = Fresh /\ m.role = "user" BY <1>6, <1>8 DEF Msg, Message
<1> HIDE DEF m, base
<1>10. Append(base.messages, m) \in Seq(Msg) BY <1>7, <1>9 DEF Tab
<1>11. /\ new \in Tab /\ new.request = r /\ new.phase = "sending" /\ new.session = Fresh
       /\ new.messages = Append(base.messages, m) /\ new.pending = tab[t].pending
  BY <1>7, <1>10 DEF Tab
<1>12. Set(t, new) BY DEF Again, m, base
<1> HIDE DEF new
<1>13. tab' \in [Tabs -> Tab] /\ tab'[t] = new /\ \A u \in Tabs \ {t} : tab'[u] = tab[u]
  BY <1>1, <1>11, <1>12, SetWrites
<1>14. Types' BY <1>1, <1>3, <1>13 DEF Types
<1>15. KeptGrows /\ StoredOnce' /\ \A p : Durable(p)' => Durable(p) BY StoredStays
<1>16. Runs(t) BY <1>3, <1>13 DEF Runs
<1>17. StopsProperly(t) BY <1>2 DEF StopsProperly
<1>18. typed <= typed' BY <1>1 DEF Types
<1>19. /\ \A q \in Requests : RequestOK(q)' /\ Conflict(q)'
       /\ \A u \in Tabs \ {t} : TabOK(u)'
       /\ \A q \in Requests : Open(q)' => Open(q) /\ req'[q].prompt = req[q].prompt
  BY <1>14, <1>15, <1>16, <1>17, <1>18, OthersRun
<1>20. Shown(t)'
  <2>1. tab'[t].messages = <<m>> BY <1>7, <1>11, <1>13
  <2> QED BY <2>1, <1>9, <1>11, <1>13 DEF Shown
<1>21. TabOK(t)'
  <2>1. tab[t].pending \in 1..typed BY <1>1 DEF TabOK, InFlight
  <2>2. req'[r].stage # "unsent" /\ req'[r].tab = t
    BY <1>1, <1>2, <1>3 DEF Shrinks, TabOK
  <2> QED BY <1>11, <1>13, <1>20, <2>1, <2>2 DEF TabOK, InFlight
<1>22. \A u \in Tabs \ {t} : Waits(u)' => Waits(u) /\ tab'[u].pending = tab[u].pending
  BY <1>13 DEF Waits
<1>23. tab'[t].pending = req[r].prompt BY <1>2, <1>11, <1>13
<1>24. Apart'
  <2>1. ASSUME NEW q \in Requests, Open(q)'
        PROVE /\ Open(q) /\ q # r /\ req'[q].prompt = req[q].prompt /\ req[q].prompt # req[r].prompt
              /\ ~Durable(req[q].prompt)'
              /\ \A s \in Requests : Open(s)' /\ req'[s].prompt = req'[q].prompt => s = q
    <3>1. Open(q) /\ q # r /\ req'[q].prompt = req[q].prompt BY <1>4, <1>19, <2>1
    <3>2. req[q].prompt # req[r].prompt /\ ~Durable(req[q].prompt) BY <1>1, <1>2, <1>5, <3>1 DEF Apart
    <3>3. ~Durable(req[q].prompt)'
      <4> DEFINE p == req[q].prompt
      <4>1. \A n : n = p => ~Durable(n)' BY <1>15, <3>2
      <4> QED BY <3>1, <4>1 DEF Durable
    <3>4. ASSUME NEW s \in Requests, Open(s)', req'[s].prompt = req'[q].prompt PROVE s = q
      BY <1>1, <1>19, <3>1, <3>4 DEF Apart
    <3> QED BY <3>1, <3>2, <3>3, <3>4
  <2>2. ASSUME NEW u \in Tabs, Waits(u)'
        PROVE /\ ~Durable(tab[u].pending)'
              /\ \A q \in Requests : Open(q)' => req'[q].prompt # tab'[u].pending
              /\ \A v \in Tabs : Waits(v)' /\ tab'[v].pending = tab'[u].pending => v = u
    <3>1. \/ u = t /\ tab'[u].pending = req[r].prompt
          \/ /\ u # t /\ Waits(u) /\ tab'[u].pending = tab[u].pending
             /\ tab[u].pending # req[r].prompt
      BY <1>1, <1>2, <1>5, <1>22, <1>23, <2>2 DEF Apart
    <3>2. /\ ~Durable(tab'[u].pending)
          /\ \A q \in Requests : Open(q) /\ q # r => req[q].prompt # tab'[u].pending
      BY <1>1, <1>2, <1>5, <3>1 DEF Apart
    <3>3. ~Durable(tab[u].pending)'
      <4> DEFINE p == tab'[u].pending
      <4>1. \A n : n = p => ~Durable(n)' BY <1>15, <3>2
      <4> QED BY <4>1 DEF Durable
    <3>4. \A q \in Requests : Open(q)' => req'[q].prompt # tab'[u].pending BY <2>1, <3>2
    <3>5. ASSUME NEW v \in Tabs, Waits(v)', tab'[v].pending = tab'[u].pending PROVE v = u
      <4>1. CASE u = t
        <5>1. v # t => Waits(v) /\ tab[v].pending = req[r].prompt BY <1>22, <1>23, <3>5, <4>1
        <5> QED BY <1>1, <1>2, <1>5, <4>1, <5>1 DEF Apart
      <4>2. CASE u # t
        <5>1. v # t BY <1>23, <3>1, <3>5, <4>2
        <5>2. Waits(v) /\ tab'[v].pending = tab[v].pending BY <1>22, <3>5, <5>1
        <5> QED BY <1>1, <3>1, <3>5, <4>2, <5>2 DEF Apart
      <4> QED BY <4>1, <4>2
    <3> QED BY <3>3, <3>4, <3>5
  <2> QED BY <1>15, <2>1, <2>2 DEF Apart
<1> QED BY <1>14, <1>19, <1>21, <1>24 DEF IInv

LEMMA ReceiveKeeps == ASSUME IInv, NEW t \in Tabs, Receive(t) PROVE IInv'
<1> DEFINE r == tab[t].request
<1>1. Types /\ TabOK(t) /\ tab[t] \in Tab /\ tab[t].phase = "reading" /\ Reading(t) /\ req[r].events # <<>>
  BY DEF IInv, Types, Receive, Reading
<1>2. turns' = turns /\ gone' = gone /\ lock' = lock /\ posted' = posted /\ typed' = typed
  BY DEF Receive, database
<1>3. /\ r \in Requests
      /\ Event(t) \in Final => Over(r)
      /\ tab[t].data => tab[t].pending \in Kept(tab[t].session)
  BY <1>1, HeadOf
<1>4. ASSUME Read(t)
      PROVE /\ req' \in [Requests -> Req] /\ \A q \in Requests : Shrinks(q)
            /\ \A q \in Requests \ {r} : req'[q] = req[q]
  BY <1>1, <1>3, <1>4, ReadShrinks
<1>5. CASE Event(t) \in {"200", "result"} /\ Read(t)
           /\ Set(t, [tab[t] EXCEPT !.data = @ \/ Event(t) = "result"])
  BY <1>1, <1>2, <1>5, ReadsOn
<1>6. CASE Event(t) \in {"409", "404", "500", "broken"} /\ Read(t) /\ GivesUp(t, Event(t))
  <2>1. CASE SendsAgain(Event(t), t) /\ CanStartNew
    <3>1. Event(t) = "404" /\ Again(t) BY <1>6, <2>1 DEF GivesUp, SendsAgain
    <3> QED BY <1>1, <1>2, <1>6, <2>1, <3>1, AgainKeeps
  <2>2. CASE ~(SendsAgain(Event(t), t) /\ CanStartNew)
    <3>1. Set(t, Ended(t)) BY <1>6, <2>2 DEF GivesUp
    <3> QED BY <1>2, <1>3, <1>4, <1>6, <3>1, EndsKeeps DEF Final
  <2> QED BY <2>1, <2>2
<1>7. CASE Event(t) = "error" /\ Cut(t) /\ GivesUp(t, "error")
  <2>1. Set(t, Ended(t)) BY <1>7 DEF GivesUp, SendsAgain
  <2> QED BY <1>2, <1>7, <2>1, ClosingKeeps
<1>8. CASE Event(t) = "end" /\ Read(t) /\ ~tab[t].data /\ GivesUp(t, "end")
  <2>1. Set(t, Ended(t)) BY <1>8 DEF GivesUp, SendsAgain
  <2> QED BY <1>2, <1>3, <1>4, <1>8, <2>1, EndsKeeps DEF Final
<1>9. CASE Event(t) = "end" /\ Read(t) /\ tab[t].data /\ Set(t, Answered(t))
  <2> DEFINE m == Message("assistant", tab[t].pending, tab[t].session)
             base == Ended(t)
             new == Answered(t)
  <2>1. /\ base \in Tab /\ base.phase = "idle" /\ base.request = NoRequest
        /\ base.session = tab[t].session /\ base.messages = tab[t].messages
    BY <1>1, EndedIs
  <2>2. m \in Msg /\ m.conv = tab[t].session /\ m.prompt = tab[t].pending
    BY <1>1 DEF Tab, Msg, Message
  <2>3. new = [base EXCEPT !.messages = Append(@, m)] BY DEF Answered
  <2> HIDE DEF base, m, new
  <2>4. Append(base.messages, m) \in Seq(Msg) BY <2>1, <2>2 DEF Tab
  <2>5. /\ new \in Tab /\ new.phase = "idle" /\ new.request = NoRequest
        /\ new.session = tab[t].session /\ new.messages = Append(tab[t].messages, m)
    BY <2>1, <2>3, <2>4 DEF Tab
  <2>6. m.prompt \in Kept(m.conv) BY <1>3, <1>9, <2>2
  <2>7. Set(t, new) BY <1>9 DEF new
  <2> QED BY <1>2, <1>3, <1>4, <1>9, <2>2, <2>5, <2>6, <2>7, Settles DEF Final
<1> QED BY <1>5, <1>6, <1>7, <1>8, <1>9 DEF Receive

\* A new prompt is a number that nothing has.
LEMMA SubmitKeeps == ASSUME IInv, NEW t \in Tabs, Submit(t) PROVE IInv'
<1> DEFINE p == typed + 1
           m == Message("user", p, tab[t].session)
           new == [tab[t] EXCEPT !.messages = Append(@, m), !.pending = p, !.attempt = 0,
                                 !.phase = "sending"]
<1>1. Types /\ Apart /\ TabOK(t) /\ tab[t] \in Tab /\ tab[t].phase = "idle"
  BY DEF IInv, Types, Submit, Idle
<1>2. /\ turns' = turns /\ gone' = gone /\ lock' = lock /\ req' = req /\ posted' = posted /\ typed' = p
      /\ Set(t, new)
  BY DEF Submit, database
<1>3. typed \in Nat /\ p \in Nat BY <1>1 DEF Types
<1>4. m \in Msg /\ m.conv = tab[t].session /\ m.role = "user" BY <1>1, <1>3 DEF Tab, Msg, Message
<1> HIDE DEF m
<1>5. Append(tab[t].messages, m) \in Seq(Msg) BY <1>1, <1>4 DEF Tab
<1>6. /\ new \in Tab /\ new.request = tab[t].request /\ new.phase = "sending" /\ new.pending = p
      /\ new.session = tab[t].session /\ new.messages = Append(tab[t].messages, m)
  BY <1>1, <1>3, <1>5 DEF Tab
<1> HIDE DEF new
<1>7. tab' \in [Tabs -> Tab] /\ tab'[t] = new /\ \A u \in Tabs \ {t} : tab'[u] = tab[u]
  BY <1>1, <1>2, <1>6, SetWrites
<1>8. Types'
  <2>1. \A s \in Seq(1..typed) : s \in Seq(1..p) BY <1>3
  <2>2. turns' \in [Conversations -> Seq(1..p)] BY <1>1, <1>2, <2>1 DEF Types
  <2>3. gone' \in SUBSET (1..p) BY <1>1, <1>2, <1>3 DEF Types
  <2> QED BY <1>1, <1>2, <1>3, <1>7, <2>2, <2>3 DEF Types
<1>9. KeptGrows /\ StoredOnce' /\ \A n : Durable(n)' => Durable(n) BY <1>2, StoredStays
<1>10. \A q \in Requests : req'[q] = req[q] /\ Shrinks(q) BY <1>2, NothingRead
<1>11. Runs(t) BY <1>2, <1>7, <1>10 DEF Runs
<1>12. StopsProperly(t) BY <1>1 DEF StopsProperly
<1>13. typed <= typed' BY <1>2, <1>3
<1>14. /\ \A q \in Requests : RequestOK(q)' /\ Conflict(q)'
       /\ \A u \in Tabs \ {t} : TabOK(u)'
       /\ \A q \in Requests : Open(q)' => Open(q) /\ req'[q].prompt = req[q].prompt
  BY <1>2, <1>8, <1>9, <1>11, <1>12, <1>13, OthersRun
<1>15. Shown(t)' BY <1>1, <1>4, <1>6, <1>7, <1>9, ShownMore DEF TabOK
<1>16. TabOK(t)'
  <2>1. tab'[t].pending \in 1..typed' BY <1>2, <1>3, <1>6, <1>7
  <2> QED BY <1>1, <1>2, <1>6, <1>7, <1>15, <2>1 DEF TabOK, InFlight
<1>17. \A u \in Tabs \ {t} : Waits(u)' => Waits(u) /\ tab'[u].pending = tab[u].pending
  BY <1>7 DEF Waits
<1>18. \A n : Durable(n) => n \in 1..typed
  <2>1. \A c \in Conversations : turns[c] \in Seq(1..typed) BY <1>1 DEF Types
  <2>2. ASSUME NEW c \in Conversations PROVE Range(turns[c]) \subseteq 1..typed
    <3>1. \A i \in DOMAIN turns[c] : turns[c][i] \in 1..typed BY <1>3, <2>1
    <3> QED BY <3>1 DEF Range
  <2>3. gone \subseteq 1..typed BY <1>1 DEF Types
  <2> QED BY <2>2, <2>3 DEF Durable
<1>19. \A q \in Requests : Open(q) => req[q].prompt \in 1..typed
  <2> SUFFICES ASSUME NEW q \in Requests, Open(q) PROVE req[q].prompt \in 1..typed
    OBVIOUS
  <2>1. RequestOK(q) BY DEF IInv
  <2>2. Has(q, {"404"}) => req[q].stage # "unsent" BY <2>1, HasOfNothing DEF RequestOK
  <2> QED BY <2>1, <2>2 DEF RequestOK, Open
<1>20. \A u \in Tabs : Waits(u) => tab[u].pending \in 1..typed
  BY DEF IInv, TabOK, InFlight, Waits
<1>21. p \notin 1..typed BY <1>3
<1>22. Apart'
  <2>1. ASSUME NEW q \in Requests, Open(q)'
        PROVE /\ ~Durable(req[q].prompt)'
              /\ \A s \in Requests : Open(s)' /\ req'[s].prompt = req'[q].prompt => s = q
    <3>1. Open(q) /\ req'[q].prompt = req[q].prompt BY <1>14, <2>1
    <3>2. ~Durable(req[q].prompt) BY <1>1, <3>1 DEF Apart
    <3>3. ~Durable(req[q].prompt)' BY <1>2, <3>2 DEF Durable
    <3>4. ASSUME NEW s \in Requests, Open(s)', req'[s].prompt = req'[q].prompt PROVE s = q
      BY <1>1, <1>14, <3>1, <3>4 DEF Apart
    <3> QED BY <3>3, <3>4
  <2>2. ASSUME NEW u \in Tabs, Waits(u)'
        PROVE /\ ~Durable(tab[u].pending)'
              /\ \A q \in Requests : Open(q)' => req'[q].prompt # tab'[u].pending
              /\ \A v \in Tabs : Waits(v)' /\ tab'[v].pending = tab'[u].pending => v = u
    <3>1. CASE u = t
      <4>1. tab'[u].pending = p BY <1>6, <1>7, <3>1
      <4>2. ~Durable(p) BY <1>18, <1>21
      <4>3. ~Durable(tab[u].pending)' BY <1>2, <4>1, <4>2 DEF Durable
      <4>4. \A q \in Requests : Open(q)' => req'[q].prompt # p BY <1>14, <1>19, <1>21
      <4>5. \A v \in Tabs \ {t} : Waits(v)' => tab'[v].pending # p BY <1>17, <1>20, <1>21
      <4> QED BY <3>1, <4>1, <4>3, <4>4, <4>5
    <3>2. CASE u # t
      <4>1. Waits(u) /\ tab'[u].pending = tab[u].pending BY <1>17, <2>2, <3>2
      <4>2. ~Durable(tab[u].pending) /\ tab[u].pending # p BY <1>1, <1>20, <1>21, <4>1 DEF Apart
      <4>3. ~Durable(tab[u].pending)' BY <1>2, <4>1, <4>2 DEF Durable
      <4>4. \A q \in Requests : Open(q)' => req'[q].prompt # tab'[u].pending
        BY <1>1, <1>14, <4>1 DEF Apart
      <4>5. ASSUME NEW v \in Tabs, Waits(v)', tab'[v].pending = tab'[u].pending PROVE v = u
        <5>1. v # t BY <1>6, <1>7, <4>1, <4>2, <4>5
        <5>2. Waits(v) /\ tab'[v].pending = tab[v].pending BY <1>17, <4>5, <5>1
        <5> QED BY <1>1, <4>1, <4>5, <5>2 DEF Apart
      <4> QED BY <4>3, <4>4, <4>5
    <3> QED BY <3>1, <3>2
  <2> QED BY <1>9, <2>1, <2>2 DEF Apart
<1> QED BY <1>8, <1>14, <1>16, <1>22 DEF IInv

\* The prompt goes from the tab into a request that was not sent before.
LEMMA PostKeeps == ASSUME IInv, NEW t \in Tabs, Post(t) PROVE IInv'
<1> DEFINE n == posted + 1
           rec == [Unsent EXCEPT !.tab = t, !.conv = tab[t].session, !.prompt = tab[t].pending,
                                 !.stage = "sent"]
           new == [tab[t] EXCEPT !.request = n, !.data = FALSE, !.phase = "reading"]
<1>1. Types /\ Apart /\ TabOK(t) /\ tab[t] \in Tab /\ tab[t].phase = "sending"
  BY DEF IInv, Types, Post
<1>2. /\ turns' = turns /\ gone' = gone /\ lock' = lock /\ posted' = n /\ typed' = typed
      /\ Set(t, new) /\ req' = [req EXCEPT ![n] = rec]
  BY DEF Post, database
<1>3. posted \in Nat /\ typed \in Nat /\ n \in Requests /\ n # NoRequest
  BY <1>1, BoundsAreNumbers DEF Types, Post, Requests, NoRequest
<1>4. RequestOK(n) /\ req[n].stage = "unsent" BY <1>3 DEF IInv, RequestOK
<1>5. tab[t].pending \in 1..typed /\ tab[t].session \in Conversations
  BY <1>1 DEF TabOK, InFlight, Tab
<1>6. Unsent \in Req /\ Unsent.events = <<>> /\ Unsent.cut = FALSE /\ Unsent.holder = NoRequest
  <2>1. <<>> \in Seq(Events) OBVIOUS
  <2> QED BY <2>1 DEF Unsent, Req, ReqStages
<1>7. rec \in Req
  <2>1. tab[t].pending \in Nat BY <1>1 DEF Tab
  <2> QED BY <1>5, <1>6, <2>1 DEF Req, ReqStages
<1>8. /\ rec.tab = t /\ rec.conv = tab[t].session /\ rec.prompt = tab[t].pending /\ rec.stage = "sent"
      /\ rec.events = <<>> /\ rec.cut = FALSE /\ rec.holder = NoRequest
  BY <1>6 DEF Req
<1>9. /\ new \in Tab /\ new.request = n /\ new.phase = "reading" /\ new.data = FALSE
      /\ new.pending = tab[t].pending /\ new.session = tab[t].session /\ new.messages = tab[t].messages
  BY <1>1, <1>3 DEF Tab
<1> HIDE DEF rec, new
<1>10. req' \in [Requests -> Req] /\ req'[n] = rec /\ \A q \in Requests \ {n} : req'[q] = req[q]
  BY <1>1, <1>2, <1>3, <1>7 DEF Types
<1>11. tab' \in [Tabs -> Tab] /\ tab'[t] = new /\ \A u \in Tabs \ {t} : tab'[u] = tab[u]
  BY <1>1, <1>2, <1>9, SetWrites
<1>12. Types' BY <1>1, <1>2, <1>3, <1>10, <1>11 DEF Types
<1>13. KeptGrows /\ StoredOnce' /\ \A p : Durable(p)' => Durable(p) BY <1>2, StoredStays
<1>14. typed <= typed' BY <1>2, <1>3
<1>15. \A h \in Requests : req[h].stage # "unsent" => req'[h] = req[h]
  BY <1>4, <1>10
<1>16. ASSUME NEW q \in Requests \ {n} PROVE RequestOK(q)'
  <2>1. RequestOK(q) /\ Shrinks(q) BY <1>10 DEF IInv, Shrinks
  <2>2. LocksNoMore(q) BY <1>2 DEF LocksNoMore
  <2>3. posted < q <=> posted' < q BY <1>2, <1>3, <1>16 DEF Requests
  <2>4. BeingRead(q) => BeingRead(q)' \/ Over(q) \/ req[q].stage = "unsent"
    <3>1. req[q].stage # "unsent" => req[q].tab \in Tabs BY <2>1 DEF RequestOK
    <3>2. BeingRead(q) => req[q].tab # t BY <1>1 DEF BeingRead
    <3> QED BY <3>1, <3>2, <1>10, <1>11 DEF BeingRead
  <2> QED BY <1>1, <1>12, <1>13, <1>14, <2>1, <2>2, <2>3, <2>4, RequestStays
<1>17. ASSUME NEW q \in Requests, q = n PROVE RequestOK(q)'
  <2>1. req'[q] = rec BY <1>10, <1>17
  <2>2. req'[q].events = <<>> BY <1>8, <2>1
  <2>3. \A S : ~Has(q, S)' BY <2>2 DEF Has
  <2>4. \A c \in Conversations : lock'[c] # q BY <1>2, <1>4, <1>17 DEF RequestOK
  <2>5. BeingRead(q)' BY <1>8, <1>9, <1>11, <1>17, <2>1 DEF BeingRead
  <2>6. ~(posted' < q) BY <1>2, <1>3, <1>17
  <2> QED BY <1>2, <1>5, <1>8, <2>1, <2>2, <2>3, <2>4, <2>5, <2>6 DEF RequestOK
<1>18. ASSUME NEW q \in Requests PROVE Conflict(q)'
  <2>1. Conflict(q) BY DEF IInv
  <2>2. CASE q = n
    <3>1. req'[q].holder = NoRequest BY <1>8, <1>10, <2>2
    <3> QED BY <3>1 DEF Conflict
  <2>3. CASE q # n
    <3>1. req'[q] = req[q] BY <1>10, <2>3
    <3> QED BY <1>1, <1>12, <1>15, <2>1, <3>1, ConflictStays
  <2> QED BY <2>2, <2>3
<1>19. ASSUME NEW u \in Tabs \ {t} PROVE TabOK(u)'
  <2>1. TabOK(u) /\ tab'[u] = tab[u] BY <1>11 DEF IInv
  <2> QED BY <1>1, <1>12, <1>13, <1>14, <1>15, <2>1, TabStays
<1>20. TabOK(t)'
  <2>1. Shown(t)' BY <1>1, <1>9, <1>11, <1>13, ShownSame DEF TabOK
  <2>2. /\ tab'[t].request = n /\ tab'[t].phase = "reading" /\ tab'[t].data = FALSE
        /\ tab'[t].pending = tab[t].pending /\ tab'[t].session = tab[t].session
    BY <1>9, <1>11
  <2>3. /\ req'[n].tab = t /\ req'[n].conv = tab[t].session /\ req'[n].prompt = tab[t].pending
        /\ req'[n].stage = "sent" /\ ~req'[n].cut
    BY <1>8, <1>10
  <2> QED BY <1>2, <1>3, <1>5, <2>1, <2>2, <2>3 DEF TabOK, InFlight
<1>21. Waits(t) /\ ~Waits(t)' BY <1>1, <1>9, <1>11 DEF Waits
<1>22. \A u \in Tabs : Waits(u)' => u # t /\ Waits(u) /\ tab'[u].pending = tab[u].pending
  BY <1>11, <1>21 DEF Waits
<1>23. ASSUME NEW q \in Requests, Open(q)'
       PROVE \/ q # n /\ Open(q) /\ req'[q].prompt = req[q].prompt /\ req[q].prompt # tab[t].pending
             \/ q = n /\ req'[q].prompt = tab[t].pending
  <2>1. CASE q = n BY <1>8, <1>10, <2>1
  <2>2. CASE q # n
    <3>1. req'[q] = req[q] BY <1>10, <2>2
    <3>2. Open(q) BY <1>23, <3>1 DEF Open, Has
    <3> QED BY <1>1, <1>21, <2>2, <3>1, <3>2 DEF Apart
  <2> QED BY <2>1, <2>2
<1>24. Apart'
  <2>1. ASSUME NEW q \in Requests, Open(q)'
        PROVE /\ ~Durable(req[q].prompt)'
              /\ \A s \in Requests : Open(s)' /\ req'[s].prompt = req'[q].prompt => s = q
    <3>1. ~Durable(req'[q].prompt)
      BY <1>1, <1>21, <1>23, <2>1 DEF Apart
    <3>2. ~Durable(req[q].prompt)' BY <1>2, <3>1 DEF Durable
    <3>3. ASSUME NEW s \in Requests, Open(s)', req'[s].prompt = req'[q].prompt PROVE s = q
      BY <1>1, <1>23, <2>1, <3>3 DEF Apart
    <3> QED BY <3>2, <3>3
  <2>2. ASSUME NEW u \in Tabs, Waits(u)'
        PROVE /\ ~Durable(tab[u].pending)'
              /\ \A q \in Requests : Open(q)' => req'[q].prompt # tab'[u].pending
              /\ \A v \in Tabs : Waits(v)' /\ tab'[v].pending = tab'[u].pending => v = u
    <3>1. u # t /\ Waits(u) /\ tab'[u].pending = tab[u].pending BY <1>22, <2>2
    <3>2. ~Durable(tab[u].pending) /\ tab[u].pending # tab[t].pending
      BY <1>1, <1>21, <3>1 DEF Apart
    <3>3. ~Durable(tab[u].pending)' BY <1>2, <3>1, <3>2 DEF Durable
    <3>4. ASSUME NEW q \in Requests, Open(q)' PROVE req'[q].prompt # tab'[u].pending
      BY <1>1, <1>23, <3>1, <3>2, <3>4 DEF Apart
    <3>5. ASSUME NEW v \in Tabs, Waits(v)', tab'[v].pending = tab'[u].pending PROVE v = u
      BY <1>1, <1>22, <3>1, <3>5 DEF Apart
    <3> QED BY <3>3, <3>4, <3>5
  <2> QED BY <1>13, <2>1, <2>2 DEF Apart
<1> QED BY <1>12, <1>16, <1>17, <1>18, <1>19, <1>20, <1>24 DEF IInv

\* What is deleted is kept in mind.
LEMMA RemovedKeeps ==
  ASSUME IInv, NEW c \in Conversations, Removed(c), typed' = typed
  PROVE /\ turns' \in [Conversations -> Seq(1..typed)] /\ gone' \in SUBSET (1..typed)
        /\ KeptGrows /\ StoredOnce' /\ \A p : Durable(p)' => Durable(p)
<1>1. Types /\ StoredOnce BY DEF IInv, Apart
<1>2. <<>> \in Seq(1..typed) OBVIOUS
<1>3. /\ turns' \in [Conversations -> Seq(1..typed)]
      /\ turns'[c] = <<>> /\ \A d \in Conversations \ {c} : turns'[d] = turns[d]
  BY <1>1, <1>2 DEF Types, Removed
<1>4. gone' = gone \cup Range(turns[c]) BY DEF Removed
<1>5. Range(turns[c]) \subseteq 1..typed BY <1>1 DEF Types, Range
<1>6. Range(turns'[c]) = {} BY <1>3 DEF Range
<1>7. gone' \in SUBSET (1..typed) BY <1>1, <1>4, <1>5 DEF Types
<1>8. KeptGrows BY <1>3, <1>4 DEF KeptGrows, Kept
<1>9. \A p : Durable(p)' => Durable(p) BY <1>3, <1>4, <1>6 DEF Durable
<1>10. StoredOnce'
  <2>1. \A d, e \in Conversations : \A i \in DOMAIN turns'[d], j \in DOMAIN turns'[e] :
          turns'[d][i] = turns'[e][j] => d = e /\ i = j
    BY <1>1, <1>3 DEF StoredOnce
  <2>2. ASSUME NEW d \in Conversations PROVE Range(turns'[d]) \cap gone' = {}
    <3>1. CASE d = c BY <1>6, <3>1
    <3>2. CASE d # c
      <4>1. Range(turns[d]) \cap gone = {} BY <1>1 DEF StoredOnce
      <4>2. Range(turns[d]) \cap Range(turns[c]) = {} BY <1>1, <3>2 DEF StoredOnce, Range
      <4> QED BY <1>3, <1>4, <3>2, <4>1, <4>2
    <3> QED BY <3>1, <3>2
  <2> QED BY <2>1, <2>2 DEF StoredOnce
<1> QED BY <1>3, <1>7, <1>8, <1>9, <1>10

LEMMA DeleteLateKeeps == ASSUME IInv, NEW c \in Conversations, DeleteLate(c) PROVE IInv'
<1>1. /\ lock' = lock /\ req' = req /\ posted' = posted /\ typed' = typed /\ tab' = tab
      /\ Types /\ Apart /\ Removed(c)
  BY DEF IInv, DeleteLate
<1>2. /\ turns' \in [Conversations -> Seq(1..typed)] /\ gone' \in SUBSET (1..typed)
      /\ KeptGrows /\ StoredOnce' /\ \A p : Durable(p)' => Durable(p)
  BY <1>1, RemovedKeeps
<1>3. Types' BY <1>1, <1>2 DEF Types
<1>4. typed <= typed' BY <1>1 DEF Types
<1>5. ASSUME NEW q \in Requests PROVE RequestOK(q)' /\ Conflict(q)'
  <2>1. RequestOK(q) /\ Conflict(q) /\ Shrinks(q) /\ LocksNoMore(q)
    BY <1>1 DEF IInv, Shrinks, LocksNoMore
  <2>2. BeingRead(q) => BeingRead(q)' BY <1>1 DEF BeingRead
  <2>3. RequestOK(q)' BY <1>1, <1>2, <1>3, <1>4, <2>1, <2>2, RequestStays
  <2> QED BY <1>1, <1>3, <2>1, <2>3, ConflictStays
<1>6. ASSUME NEW t \in Tabs PROVE TabOK(t)'
  <2>1. TabOK(t) BY DEF IInv
  <2> QED BY <1>1, <1>2, <1>3, <1>4, <2>1, TabStays
<1>7. Apart'
  <2>1. \A q \in Requests : Open(q)' => Open(q) /\ req'[q].prompt = req[q].prompt
    BY <1>1 DEF Open, Has
  <2>2. \A t \in Tabs : Waits(t)' => Waits(t) /\ tab'[t].pending = tab[t].pending
    BY <1>1 DEF Waits
  <2> QED BY <1>1, <1>2, <2>1, <2>2, ApartStays
<1> QED BY <1>3, <1>5, <1>6, <1>7 DEF IInv

LEMMA ConfirmDeleteKeeps == ASSUME IInv, NEW t \in Tabs, ConfirmDelete(t) PROVE IInv'
<1> DEFINE c == tab[t].doomed
           after == IF InFlight(t) THEN Ended(t) ELSE tab[t]
<1>1. Types /\ TabOK(t) /\ tab[t] \in Tab /\ tab[t].phase # "loading" /\ Cut(t) /\ c \in Conversations
  BY DEF IInv, Types, ConfirmDelete, Tab
<1>2. lock' = lock /\ posted' = posted /\ typed' = typed
  BY DEF ConfirmDelete
<1>3. /\ req' \in [Requests -> Req] /\ \A q \in Requests : Shrinks(q)
      /\ \A q \in Requests \ {tab[t].request} : req'[q] = req[q]
      /\ tab[t].request \in Requests => req'[tab[t].request].cut
  BY <1>1, CutShrinks
<1>4. tab[t].phase = "reading" => req'[tab[t].request].cut
  BY <1>1, <1>3 DEF TabOK, Tab
<1>5. /\ after \in Tab /\ after.request \in {tab[t].request, NoRequest}
      /\ after.phase \notin {"sending", "reading"}
      /\ after.session = tab[t].session /\ after.messages = tab[t].messages
  <2>1. CASE InFlight(t)
    <3>1. after = Ended(t) BY <2>1
    <3> QED BY <1>1, <3>1, EndedIs
  <2>2. CASE ~InFlight(t)
    <3>1. after = tab[t] BY <2>2
    <3> QED BY <1>1, <2>2, <3>1 DEF InFlight
  <2> QED BY <2>1, <2>2
<1> HIDE DEF after
<1>6. ASSUME turns' \in [Conversations -> Seq(1..typed)], gone' \in SUBSET (1..typed),
             KeptGrows, StoredOnce', \A p : Durable(p)' => Durable(p),
             NEW new \in Tab, Set(t, new), new.request = after.request,
             new.phase \notin {"sending", "reading"},
             \/ new.session = tab[t].session /\ new.messages = tab[t].messages
             \/ new.messages = <<>>
      PROVE IInv'
  <2>1. tab' \in [Tabs -> Tab] /\ tab'[t] = new /\ \A u \in Tabs \ {t} : tab'[u] = tab[u]
    BY <1>1, <1>6, SetWrites
  <2>2. Types' BY <1>1, <1>2, <1>3, <1>6, <2>1 DEF Types
  <2>3. Runs(t) BY <1>2, <1>3, <2>1 DEF Runs
  <2>4. StopsProperly(t) BY <1>4 DEF StopsProperly
  <2>5. Shown(t) BY <1>1 DEF TabOK
  <2>6. Shown(t)'
    <3>1. CASE new.session = tab[t].session /\ new.messages = tab[t].messages
      BY <1>1, <1>6, <2>1, <2>5, <3>1, ShownSame
    <3>2. CASE new.messages = <<>> BY <2>1, <3>2, ShownNothing
    <3> QED BY <1>6, <3>1, <3>2
  <2> QED BY <1>2, <1>5, <1>6, <2>1, <2>2, <2>3, <2>4, <2>6, TabSettles
<1>7. CASE turns' = turns /\ gone' = gone /\ Set(t, after)
  <2>1. KeptGrows /\ StoredOnce' /\ \A p : Durable(p)' => Durable(p) BY <1>7, StoredStays
  <2>2. turns' \in [Conversations -> Seq(1..typed)] /\ gone' \in SUBSET (1..typed)
    BY <1>1, <1>7 DEF Types
  <2> QED BY <1>5, <1>6, <1>7, <2>1, <2>2
<1>8. ASSUME IF Listed(t, c) THEN Removed(c) ELSE UNCHANGED <<owner, turns, gone>>,
             NEW new \in Tab, Set(t, new), new.request = after.request,
             new.phase \notin {"sending", "reading"},
             \/ new.session = tab[t].session /\ new.messages = tab[t].messages
             \/ new.messages = <<>>
      PROVE IInv'
  <2>1. CASE Listed(t, c)
    <3>1. Removed(c) BY <1>8, <2>1
    <3>2. /\ turns' \in [Conversations -> Seq(1..typed)] /\ gone' \in SUBSET (1..typed)
          /\ KeptGrows /\ StoredOnce' /\ \A p : Durable(p)' => Durable(p)
      BY <1>1, <1>2, <3>1, RemovedKeeps
    <3> QED BY <1>6, <1>8, <3>2
  <2>2. CASE ~Listed(t, c)
    <3>1. turns' = turns /\ gone' = gone BY <1>8, <2>2
    <3>2. KeptGrows /\ StoredOnce' /\ \A p : Durable(p)' => Durable(p) BY <3>1, StoredStays
    <3>3. turns' \in [Conversations -> Seq(1..typed)] /\ gone' \in SUBSET (1..typed)
      BY <1>1, <3>1 DEF Types
    <3> QED BY <1>6, <1>8, <3>2, <3>3
  <2> QED BY <2>1, <2>2
<1>9. CASE /\ IF Listed(t, c) THEN Removed(c) ELSE UNCHANGED <<owner, turns, gone>>
           /\ Set(t, [after EXCEPT !.doomed = NoOne])
  <2> DEFINE new == [after EXCEPT !.doomed = NoOne]
  <2>1. /\ new \in Tab /\ new.request = after.request /\ new.phase = after.phase
        /\ new.session = after.session /\ new.messages = after.messages
    BY <1>5 DEF Tab
  <2> HIDE DEF new
  <2>2. Set(t, new) BY <1>9 DEF new
  <2> QED BY <1>5, <1>8, <1>9, <2>1, <2>2
<1>10. CASE /\ IF Listed(t, c) THEN Removed(c) ELSE UNCHANGED <<owner, turns, gone>>
            /\ CanStartNew /\ Set(t, [InNew(after) EXCEPT !.phase = "idle"])
  <2> DEFINE base == InNew(after)
             new == [base EXCEPT !.phase = "idle"]
  <2>1. base \in Tab /\ base.request = after.request /\ base.messages = <<>>
    BY <1>5, <1>10, InNewIs
  <2> HIDE DEF base
  <2>2. new \in Tab /\ new.request = after.request /\ new.phase = "idle" /\ new.messages = <<>>
    BY <2>1 DEF Tab
  <2> HIDE DEF new
  <2>3. Set(t, new) BY <1>10 DEF new, base
  <2> QED BY <1>8, <1>10, <2>2, <2>3
<1> QED BY <1>7, <1>9, <1>10 DEF ConfirmDelete, after

------------------------------------------------------------------------------

LEMMA StartsRight == Init => IInv
<1> SUFFICES ASSUME Init PROVE IInv
  OBVIOUS
<1>1. PICK open \in [Tabs -> Conversations] :
        tab = [t \in Tabs |-> [session |-> open[t], phase |-> "loading", messages |-> <<>>,
                               pending |-> 0, attempt |-> 0, request |-> NoRequest,
                               data |-> FALSE, doomed |-> NoOne]]
  BY DEF Init
<1>2. /\ turns = [c \in Conversations |-> <<>>] /\ gone = {} /\ typed = 0 /\ posted = 0
      /\ lock = [c \in Conversations |-> NoRequest] /\ req = [q \in Requests |-> Unsent]
  BY DEF Init
<1>3. Unsent \in Req /\ Unsent.events = <<>> /\ Unsent.stage = "unsent" /\ Unsent.holder = NoRequest
  <2>1. <<>> \in Seq(Events) OBVIOUS
  <2> QED BY <2>1 DEF Unsent, Req, ReqStages
<1>4. \A t \in Tabs : /\ tab[t] \in Tab /\ tab[t].phase = "loading" /\ tab[t].messages = <<>>
                      /\ tab[t].request = NoRequest
  <2>1. <<>> \in Seq(Msg) OBVIOUS
  <2> SUFFICES ASSUME NEW t \in Tabs
               PROVE /\ tab[t] \in Tab /\ tab[t].phase = "loading" /\ tab[t].messages = <<>>
                     /\ tab[t].request = NoRequest
    OBVIOUS
  <2>2. tab[t] = [session |-> open[t], phase |-> "loading", messages |-> <<>>, pending |-> 0,
                  attempt |-> 0, request |-> NoRequest, data |-> FALSE, doomed |-> NoOne]
    BY <1>1
  <2> QED BY <2>1, <2>2 DEF Tab
<1>5. Types
  <2>1. turns \in [Conversations -> Seq(1..typed)]
    <3>1. <<>> \in Seq(1..typed) OBVIOUS
    <3> QED BY <1>2, <3>1
  <2>2. tab \in [Tabs -> Tab] BY <1>1, <1>4
  <2>3. req \in [Requests -> Req] BY <1>2, <1>3
  <2> QED BY <1>2, <2>1, <2>2, <2>3 DEF Types
<1>6. ASSUME NEW q \in Requests PROVE RequestOK(q) /\ Conflict(q) /\ ~Open(q)
  <2>1. req[q] = Unsent BY <1>2
  <2>2. \A S : ~Has(q, S) BY <1>3, <2>1 DEF Has
  <2>3. posted < q BY <1>2 DEF Requests
  <2>4. \A c \in Conversations : lock[c] # q BY <1>2 DEF Requests, NoRequest
  <2>5. RequestOK(q) BY <1>3, <2>1, <2>2, <2>3, <2>4 DEF RequestOK
  <2>6. Conflict(q) BY <1>3, <2>1 DEF Conflict
  <2> QED BY <1>3, <2>1, <2>2, <2>5, <2>6 DEF Open
<1>7. ASSUME NEW t \in Tabs PROVE TabOK(t) /\ ~Waits(t)
  BY <1>4 DEF TabOK, Shown, InFlight, Waits
<1>8. Apart
  <2>1. StoredOnce BY <1>2 DEF StoredOnce
  <2> QED BY <1>6, <1>7, <2>1 DEF Apart
<1> QED BY <1>5, <1>6, <1>7, <1>8 DEF IInv

LEMMA StutteringKeeps == ASSUME IInv, UNCHANGED vars PROVE IInv'
<1>1. /\ turns' = turns /\ gone' = gone /\ lock' = lock /\ req' = req /\ posted' = posted
      /\ typed' = typed /\ tab' = tab
  BY DEF vars
<1>2. Types' BY <1>1 DEF IInv, Types
<1>3. KeptGrows /\ StoredOnce' /\ \A p : Durable(p)' => Durable(p) BY <1>1, StoredStays
<1>4. Types /\ Apart /\ typed <= typed' BY <1>1 DEF IInv, Types
<1>5. ASSUME NEW q \in Requests PROVE RequestOK(q)' /\ Conflict(q)'
  <2>1. RequestOK(q) /\ Conflict(q) /\ Shrinks(q) /\ LocksNoMore(q)
    BY <1>1 DEF IInv, Shrinks, LocksNoMore
  <2>2. BeingRead(q) => BeingRead(q)' BY <1>1 DEF BeingRead
  <2>3. RequestOK(q)' BY <1>1, <1>2, <1>3, <1>4, <2>1, <2>2, RequestStays
  <2> QED BY <1>1, <1>2, <1>4, <2>1, <2>3, ConflictStays
<1>6. ASSUME NEW t \in Tabs PROVE TabOK(t)'
  <2>1. TabOK(t) BY DEF IInv
  <2> QED BY <1>1, <1>2, <1>3, <1>4, <2>1, TabStays
<1>7. Apart'
  <2>1. \A q \in Requests : Open(q)' => Open(q) /\ req'[q].prompt = req[q].prompt
    BY <1>1 DEF Open, Has
  <2>2. \A t \in Tabs : Waits(t)' => Waits(t) /\ tab'[t].pending = tab[t].pending
    BY <1>1 DEF Waits
  <2> QED BY <1>3, <1>4, <2>1, <2>2, ApartStays
<1> QED BY <1>2, <1>5, <1>6, <1>7 DEF IInv

\* The inductive invariant: a request, its lock and the tab that reads it, and where each prompt is.
THEOREM ClientInvariant == Spec => []IInv
<1>1. ASSUME IInv, [Next]_vars PROVE IInv'
  <2>1. ASSUME NEW q \in Requests, ServerStep(q) PROVE IInv'
    <3>1. CASE Acquire(q) BY <1>1, <3>1, AcquireKeeps
    <3>2. CASE CheckAccess(q) BY <1>1, <3>2, CheckAccessKeeps
    <3>3. CASE Commit(q) BY <1>1, <3>3, CommitKeeps
    <3>4. CASE PutResult(q) BY <1>1, <3>4, PutResultKeeps
    <3>5. CASE PipelineFails(q) BY <1>1, <3>5, PipelineFailsKeeps
    <3>6. CASE CancelTask(q) BY <1>1, <3>6, CancelTaskKeeps
    <3>7. CASE Release(q) BY <1>1, <3>7, ReleaseKeeps
    <3>8. CASE EndStream(q) BY <1>1, <3>8, EndStreamKeeps
    <3> QED BY <2>1, <3>1, <3>2, <3>3, <3>4, <3>5, <3>6, <3>7, <3>8 DEF ServerStep
  <2>2. ASSUME NEW q \in Requests, NeverStarts(q) PROVE IInv' BY <1>1, <2>2, NeverStartsKeeps
  <2>3. ASSUME NEW q \in Requests, RedisFails(q) \/ LockExpires(q) PROVE IInv'
    BY <1>1, <2>3, RedisFailsKeeps, LockExpiresKeeps
  <2>4. ASSUME NEW c \in Conversations, DeleteLate(c) PROVE IInv' BY <1>1, <2>4, DeleteLateKeeps
  <2>5. ASSUME NEW t \in Tabs, Load(t) PROVE IInv' BY <1>1, <2>5, LoadKeeps
  <2>6. ASSUME NEW t \in Tabs, Post(t) PROVE IInv' BY <1>1, <2>6, PostKeeps
  <2>7. ASSUME NEW t \in Tabs, CannotConnect(t) PROVE IInv' BY <1>1, <2>7, CannotConnectKeeps
  <2>8. ASSUME NEW t \in Tabs, Receive(t) PROVE IInv' BY <1>1, <2>8, ReceiveKeeps
  <2>9. ASSUME NEW t \in Tabs, UserStep(t) PROVE IInv'
    <3>1. CASE Submit(t) BY <1>1, <3>1, SubmitKeeps
    <3>2. CASE ConnectionLost(t) BY <1>1, <3>2, ConnectionLostKeeps
    <3>3. CASE Interrupt(t) BY <1>1, <3>3, InterruptKeeps
    <3>4. CASE New(t) BY <1>1, <3>4, NewKeeps
    <3>5. CASE ConfirmDelete(t) BY <1>1, <3>5, ConfirmDeleteKeeps
    <3>6. ASSUME NEW c \in Conversations, Select(t, c) PROVE IInv' BY <1>1, <3>6, SelectKeeps
    <3>7. ASSUME NEW c \in Conversations, RequestDelete(t, c) PROVE IInv'
      BY <1>1, <3>7, RequestDeleteKeeps
    <3> QED BY <2>9, <3>1, <3>2, <3>3, <3>4, <3>5, <3>6, <3>7 DEF UserStep
  <2>10. CASE UNCHANGED vars BY <1>1, <2>10, StutteringKeeps
  <2> QED BY <1>1, <2>1, <2>2, <2>3, <2>4, <2>5, <2>6, <2>7, <2>8, <2>9, <2>10 DEF Next
<1> QED BY <1>1, StartsRight, PTL DEF Spec

\* "409 means an earlier request still owns this session": a tab that reads its requests to their
\* end never meets its own one there, unless Redis failed when that one took or released the lock.
THEOREM NoConflictWithOneselfAlways == Spec => []NoConflictWithOneself
<1>1. IInv => NoConflictWithOneself BY DEF IInv, Conflict, NoConflictWithOneself
<1> QED BY <1>1, ClientInvariant, PTL

\* However often it is sent, a prompt is in one place of one conversation, or deleted.
THEOREM PromptIsStoredOnceAlways == Spec => []PromptIsStoredOnce
<1>1. ASSUME IInv PROVE PromptIsStoredOnce
  <2> SUFFICES ASSUME NEW p \in 1..typed
               PROVE Cardinality({at \in Conversations \X (1..MaxPrompts) :
                        at[2] <= Len(turns[at[1]]) /\ turns[at[1]][at[2]] = p})
                       + (IF p \in gone THEN 1 ELSE 0) <= 1
    BY DEF PromptIsStoredOnce
  <2> DEFINE S == {at \in Conversations \X (1..MaxPrompts) :
                     at[2] <= Len(turns[at[1]]) /\ turns[at[1]][at[2]] = p}
  <2>1. StoredOnce /\ turns \in [Conversations -> Seq(1..typed)] /\ MaxPrompts \in Nat
    BY <1>1, BoundsAreNumbers DEF IInv, Apart, Types
  <2>2. ASSUME NEW x \in S, NEW y \in S PROVE x = y
    <3>1. /\ x[1] \in Conversations /\ x[2] \in 1..MaxPrompts /\ x = <<x[1], x[2]>>
          /\ y[1] \in Conversations /\ y[2] \in 1..MaxPrompts /\ y = <<y[1], y[2]>>
      OBVIOUS
    <3>2. x[2] \in DOMAIN turns[x[1]] /\ y[2] \in DOMAIN turns[y[1]] BY <2>1, <3>1
    <3>3. turns[x[1]][x[2]] = turns[y[1]][y[2]] OBVIOUS
    <3>4. x[1] = y[1] /\ x[2] = y[2] BY <2>1, <3>1, <3>2, <3>3 DEF StoredOnce
    <3> QED BY <3>1, <3>4
  <2>3. p \in gone => S = {}
    <3>1. SUFFICES ASSUME p \in gone, NEW x \in S PROVE FALSE OBVIOUS
    <3>2. x[1] \in Conversations /\ x[2] \in 1..MaxPrompts OBVIOUS
    <3>3. x[2] \in DOMAIN turns[x[1]] /\ turns[x[1]][x[2]] = p BY <2>1, <3>2
    <3> QED BY <2>1, <3>1, <3>2, <3>3 DEF StoredOnce, Range
  <2> HIDE DEF S
  <2>4. CASE S = {}
    <3>1. Cardinality(S) = 0 BY <2>4, FS_EmptySet
    <3> QED BY <3>1 DEF S
  <2>5. CASE S # {}
    <3>1. PICK x \in S : TRUE BY <2>5
    <3>2. S = {x} BY <2>2, <3>1
    <3>3. Cardinality(S) = 1 BY <3>2, FS_Singleton
    <3> QED BY <2>3, <2>5, <3>3 DEF S
  <2> QED BY <2>4, <2>5
<1> QED BY <1>1, ClientInvariant, PTL

\* The screen shows one conversation, and as answered only what was stored in it.
THEOREM ScreenShowsTheConversationAlways == Spec => []ScreenShowsTheConversation
<1>1. ASSUME IInv PROVE ScreenShowsTheConversation
  <2>1. \A t \in Tabs : Shown(t) BY <1>1 DEF IInv, TabOK
  <2> QED BY <2>1 DEF Shown, Kept, ScreenShowsTheConversation
<1> QED BY <1>1, ClientInvariant, PTL

-----------------------------------------------------------------------------
(* The stream of one turn: markers, found in the text and in a piece of it. *)

\* The positions i to e of s are a marker.
IsMarker(s, i, e, kind) ==
    /\ e = i + 3 + Len(kind) + HexLength /\ e <= Len(s)
    /\ s[i] = "[" /\ s[i + 1] = "["
    /\ \A k \in 1..Len(kind) : s[i + 1 + k] = kind[k]
    /\ \A k \in 1..HexLength : s[i + 1 + Len(kind) + k] \in Hex
    /\ s[e - 1] = "]" /\ s[e] = "]"
Marker(s, i, e) == \E kind \in Kinds : IsMarker(s, i, e, kind)

LEMMA KindFacts ==
    ASSUME NEW kind \in Kinds
    PROVE  /\ kind \in Seq(Symbols) /\ Len(kind) \in Nat \ {0}
           /\ \A k \in 1..Len(kind) : kind[k] # "[" /\ kind[k] # "]"
<1>1. kind \in Seq(Symbols \ {"[", "]"}) /\ kind # <<>>
  BY ConstantsAssumption
<1>2. \A k \in 1..Len(kind) : kind[k] \in Symbols \ {"[", "]"}
  BY <1>1
<1>3. kind \in Seq(Symbols)
  BY <1>1
<1> QED
  BY <1>1, <1>2, <1>3

LEMMA SuffixFacts ==
    ASSUME NEW s \in Seq(Symbols), NEW i \in 1..Len(s)
    PROVE  /\ Suffix(s, i) \in Seq(Symbols) /\ Len(Suffix(s, i)) = Len(s) - i + 1
           /\ \A k \in 1..(Len(s) - i + 1) : Suffix(s, i)[k] = s[i + k - 1]
BY SubSeqProperties DEF Suffix

\* A marker, symbol by symbol.
LEMMA RefFacts ==
    ASSUME NEW kind \in Kinds, NEW digits \in [1..HexLength -> Hex]
    PROVE  LET ref == RefText(kind, digits)
           IN  /\ ref \in Seq(Symbols \union {"[", "]"}) /\ Len(ref) = 4 + Len(kind) + HexLength
               /\ ref[1] = "[" /\ ref[2] = "["
               /\ \A k \in 1..Len(kind) : ref[2 + k] = kind[k]
               /\ \A k \in 1..HexLength : ref[2 + Len(kind) + k] = digits[k]
               /\ ref[3 + Len(kind) + HexLength] = "]" /\ ref[4 + Len(kind) + HexLength] = "]"
<1> DEFINE S == Symbols \union {"[", "]"}
           a == OpenRef \o kind
           b == a \o digits
           ref == RefText(kind, digits)
<1>1. OpenRef \in Seq(S) /\ Len(OpenRef) = 2 /\ OpenRef[1] = "[" /\ OpenRef[2] = "["
  BY DEF OpenRef
<1>2. CloseRef \in Seq(S) /\ Len(CloseRef) = 2 /\ CloseRef[1] = "]" /\ CloseRef[2] = "]"
  BY DEF CloseRef
<1>3. kind \in Seq(S) /\ Len(kind) \in Nat
  BY KindFacts
<1>4. HexLength \in Nat /\ digits \in Seq(S) /\ Len(digits) = HexLength
  BY ConstantsAssumption
<1>5. /\ a \in Seq(S) /\ Len(a) = Len(OpenRef) + Len(kind)
      /\ \A k \in 1..(Len(OpenRef) + Len(kind)) :
            a[k] = IF k <= Len(OpenRef) THEN OpenRef[k] ELSE kind[k - Len(OpenRef)]
  <2>1. OpenRef \in Seq(S) /\ kind \in Seq(S)
    BY <1>1, <1>3
  <2> HIDE DEF S
  <2> QED
    BY <2>1, ConcatProperties
<1>6. /\ b \in Seq(S) /\ Len(b) = Len(a) + Len(digits)
      /\ \A k \in 1..(Len(a) + Len(digits)) :
            b[k] = IF k <= Len(a) THEN a[k] ELSE digits[k - Len(a)]
  <2>1. a \in Seq(S) /\ digits \in Seq(S)
    BY <1>4, <1>5
  <2> HIDE DEF S, a
  <2> QED
    BY <2>1, ConcatProperties
<1>7. /\ ref \in Seq(S) /\ Len(ref) = Len(b) + Len(CloseRef)
      /\ \A k \in 1..(Len(b) + Len(CloseRef)) :
            ref[k] = IF k <= Len(b) THEN b[k] ELSE CloseRef[k - Len(b)]
  <2>1. ref = b \o CloseRef
    BY DEF RefText
  <2>2. b \in Seq(S) /\ CloseRef \in Seq(S)
    BY <1>2, <1>6
  <2> HIDE DEF S, a, b, ref
  <2> QED
    BY <2>1, <2>2, ConcatProperties
<1> HIDE DEF S, a, b, ref
<1>8. Len(a) = 2 + Len(kind) /\ Len(b) = 2 + Len(kind) + HexLength
      /\ Len(ref) = 4 + Len(kind) + HexLength
  BY <1>1, <1>2, <1>3, <1>4, <1>5, <1>6, <1>7
<1>9. ref[1] = "[" /\ ref[2] = "["
  <2>1. a[1] = "[" /\ a[2] = "["
    BY <1>1, <1>3, <1>5
  <2>2. b[1] = "[" /\ b[2] = "["
    BY <2>1, <1>3, <1>4, <1>6, <1>8
  <2> QED
    BY <2>2, <1>2, <1>3, <1>4, <1>7, <1>8
<1>10. ASSUME NEW k \in 1..Len(kind)
       PROVE  ref[2 + k] = kind[k]
  <2>1. a[2 + k] = kind[k]
    BY <1>1, <1>3, <1>5
  <2>2. b[2 + k] = kind[k]
    BY <2>1, <1>3, <1>4, <1>6, <1>8
  <2> QED
    BY <2>2, <1>2, <1>3, <1>4, <1>7, <1>8
<1>11. ASSUME NEW k \in 1..HexLength
       PROVE  ref[2 + Len(kind) + k] = digits[k]
  <2>1. b[2 + Len(kind) + k] = digits[k]
    BY <1>3, <1>4, <1>6, <1>8
  <2> QED
    BY <2>1, <1>2, <1>3, <1>4, <1>7, <1>8
<1>12. ref[3 + Len(kind) + HexLength] = "]" /\ ref[4 + Len(kind) + HexLength] = "]"
  BY <1>2, <1>3, <1>4, <1>7, <1>8
<1> QED
  BY <1>7, <1>8, <1>9, <1>10, <1>11, <1>12 DEF S, ref

LEMMA PrefixFacts ==
    ASSUME NEW S, NEW T, NEW a \in Seq(S), NEW b \in Seq(T)
    PROVE  IsPrefix(a, b) <=> Len(a) <= Len(b) /\ \A k \in 1..Len(a) : a[k] = b[k]
<1>1. SubSeq(a, 1, Len(a)) \in Seq(S) /\ Len(SubSeq(a, 1, Len(a))) = Len(a)
      /\ \A k \in 1..Len(a) : SubSeq(a, 1, Len(a))[k] = a[k]
  OBVIOUS
<1>2. ASSUME Len(a) <= Len(b)
      PROVE  SubSeq(b, 1, Len(a)) \in Seq(T) /\ Len(SubSeq(b, 1, Len(a))) = Len(a)
             /\ \A k \in 1..Len(a) : SubSeq(b, 1, Len(a))[k] = b[k]
  BY <1>2
<1>3. ASSUME Len(a) <= Len(b), \A k \in 1..Len(a) : a[k] = b[k]
      PROVE  SubSeq(a, 1, Len(a)) = SubSeq(b, 1, Len(a))
  BY <1>1, <1>2, <1>3
<1> QED
  BY <1>1, <1>2, <1>3 DEF IsPrefix

\* A text has a marker where a ref begins it.
LEMMA MarkerOfRef ==
    ASSUME NEW s \in Seq(Symbols), NEW i \in 1..Len(s), NEW ref \in Refs,
           IsPrefix(ref, Suffix(s, i))
    PROVE  Len(ref) \in Nat /\ Marker(s, i, i - 1 + Len(ref))
<1>1. PICK kind \in Kinds, digits \in [1..HexLength -> Hex] : ref = RefText(kind, digits)
  BY DEF Refs
<1> DEFINE e == i + 3 + Len(kind) + HexLength
<1>2. Len(kind) \in Nat /\ HexLength \in Nat /\ i \in Nat /\ Len(s) \in Nat
  BY KindFacts, ConstantsAssumption
<1>3. /\ ref \in Seq(Symbols \union {"[", "]"}) /\ Len(ref) = 4 + Len(kind) + HexLength
      /\ ref[1] = "[" /\ ref[2] = "["
      /\ \A k \in 1..Len(kind) : ref[2 + k] = kind[k]
      /\ \A k \in 1..HexLength : ref[2 + Len(kind) + k] = digits[k]
      /\ ref[3 + Len(kind) + HexLength] = "]" /\ ref[4 + Len(kind) + HexLength] = "]"
  BY <1>1, RefFacts
<1>4. Len(ref) <= Len(s) - i + 1
  BY <1>3, SuffixFacts, PrefixFacts
<1>5. ASSUME NEW k \in 1..(4 + Len(kind) + HexLength)
      PROVE  s[i + k - 1] = ref[k]
  <2>1. Suffix(s, i)[k] = ref[k]
    <3>1. \A h \in 1..Len(ref) : ref[h] = Suffix(s, i)[h]
      BY <1>3, SuffixFacts, PrefixFacts
    <3> QED
      BY <3>1, <1>3
  <2> QED
    <3>1. k \in 1..(Len(s) - i + 1)
      BY <1>2, <1>3, <1>4
    <3> QED
      BY <2>1, <3>1, SuffixFacts
<1>6. s[i] = "[" /\ s[i + 1] = "["
  <2>1. 1 \in 1..(4 + Len(kind) + HexLength) /\ 2 \in 1..(4 + Len(kind) + HexLength)
    BY <1>2
  <2>2. s[i + 1 - 1] = ref[1] /\ s[i + 2 - 1] = ref[2]
    BY <2>1, <1>5
  <2> QED
    BY <2>2, <1>2, <1>3
<1>7. ASSUME NEW k \in 1..Len(kind)
      PROVE  s[i + 1 + k] = kind[k]
  <2>1. 2 + k \in 1..(4 + Len(kind) + HexLength) /\ i + (2 + k) - 1 = i + 1 + k
    BY <1>2
  <2>2. s[i + (2 + k) - 1] = ref[2 + k]
    BY <2>1, <1>5
  <2> QED
    BY <2>1, <2>2, <1>3
<1>8. ASSUME NEW k \in 1..HexLength
      PROVE  s[i + 1 + Len(kind) + k] \in Hex
  <2> DEFINE h == 2 + Len(kind) + k
  <2>1. h \in 1..(4 + Len(kind) + HexLength) /\ i + h - 1 = i + 1 + Len(kind) + k
    BY <1>2
  <2>2. s[i + h - 1] = ref[h]
    <3> HIDE DEF h
    <3> QED
      BY <2>1, <1>5
  <2>3. ref[h] = digits[k]
    BY <1>3
  <2> QED
    BY <2>1, <2>2, <2>3
<1>9. s[e - 1] = "]" /\ s[e] = "]"
  <2> DEFINE h == 4 + Len(kind) + HexLength
  <2>1. /\ h - 1 \in 1..h /\ h \in 1..h /\ h - 1 = 3 + Len(kind) + HexLength
        /\ i + (h - 1) - 1 = e - 1 /\ i + h - 1 = e
    BY <1>2
  <2>2. s[i + (h - 1) - 1] = ref[h - 1] /\ s[i + h - 1] = ref[h]
    BY <2>1, <1>5
  <2> QED
    BY <2>1, <2>2, <1>3
<1>10. e = i - 1 + Len(ref) /\ e <= Len(s)
  BY <1>2, <1>3, <1>4
<1>11. IsMarker(s, i, e, kind)
  BY <1>6, <1>7, <1>8, <1>9, <1>10 DEF IsMarker
<1> QED
  BY <1>2, <1>3, <1>10, <1>11 DEF Marker

LEMMA RefOfMarker ==
    ASSUME NEW s \in Seq(Symbols), NEW i \in 1..Len(s), NEW e \in Int, Marker(s, i, e)
    PROVE  RefAt(s, i)
<1>1. PICK kind \in Kinds : IsMarker(s, i, e, kind)
  BY DEF Marker
<1> DEFINE digits == [k \in 1..HexLength |-> s[i + 1 + Len(kind) + k]]
           ref == RefText(kind, digits)
           last == 4 + Len(kind) + HexLength
<1>2. digits \in [1..HexLength -> Hex]
  BY <1>1 DEF IsMarker
<1>3. Len(kind) \in Nat /\ HexLength \in Nat /\ i \in Nat /\ Len(s) \in Nat
  BY KindFacts, ConstantsAssumption
<1>4. ref \in Refs
  <2> HIDE DEF digits
  <2> QED
    BY <1>2 DEF Refs
<1>5. /\ ref \in Seq(Symbols \union {"[", "]"}) /\ Len(ref) = last
      /\ ref[1] = "[" /\ ref[2] = "["
      /\ \A k \in 1..Len(kind) : ref[2 + k] = kind[k]
      /\ \A k \in 1..HexLength : ref[2 + Len(kind) + k] = digits[k]
      /\ ref[3 + Len(kind) + HexLength] = "]" /\ ref[4 + Len(kind) + HexLength] = "]"
  <2> HIDE DEF digits
  <2> QED
    BY <1>2, RefFacts
<1>6. \A k \in 1..HexLength : ref[2 + Len(kind) + k] = s[i + 1 + Len(kind) + k]
  <2> HIDE DEF ref
  <2> QED
    BY <1>5
<1> HIDE DEF ref, digits
<1>7. ASSUME NEW k \in 1..last
      PROVE  ref[k] = s[i + k - 1]
  <2>1. CASE k = 1 \/ k = 2
    BY <2>1, <1>1, <1>3, <1>5 DEF IsMarker
  <2>2. CASE k > 2 /\ k <= 2 + Len(kind)
    <3>1. k - 2 \in 1..Len(kind) /\ 2 + (k - 2) = k /\ i + 1 + (k - 2) = i + k - 1
      BY <2>2, <1>3
    <3>2. s[i + 1 + (k - 2)] = kind[k - 2] /\ ref[2 + (k - 2)] = kind[k - 2]
      BY <3>1, <1>1, <1>5 DEF IsMarker
    <3> QED
      BY <3>1, <3>2
  <2>3. CASE k > 2 + Len(kind) /\ k <= 2 + Len(kind) + HexLength
    <3> DEFINE h == k - 2 - Len(kind)
    <3>1. h \in 1..HexLength /\ 2 + Len(kind) + h = k /\ i + 1 + Len(kind) + h = i + k - 1
      BY <2>3, <1>3
    <3>2. ref[2 + Len(kind) + h] = s[i + 1 + Len(kind) + h]
      <4> HIDE DEF h
      <4> QED
        BY <3>1, <1>6
    <3> QED
      BY <3>1, <3>2
  <2>4. CASE k = 3 + Len(kind) + HexLength
    <3>1. i + k - 1 = e - 1
      BY <2>4, <1>1, <1>3 DEF IsMarker
    <3> QED
      BY <3>1, <2>4, <1>1, <1>5 DEF IsMarker
  <2>5. CASE k = 4 + Len(kind) + HexLength
    <3>1. i + k - 1 = e
      BY <2>5, <1>1, <1>3 DEF IsMarker
    <3> QED
      BY <3>1, <2>5, <1>1, <1>5 DEF IsMarker
  <2>6. \/ k = 1 \/ k = 2
        \/ k > 2 /\ k <= 2 + Len(kind)
        \/ k > 2 + Len(kind) /\ k <= 2 + Len(kind) + HexLength
        \/ k = 3 + Len(kind) + HexLength
        \/ k = 4 + Len(kind) + HexLength
    BY <1>3
  <2> QED
    BY <2>1, <2>2, <2>3, <2>4, <2>5, <2>6
<1>8. last <= Len(s) - i + 1
  BY <1>1, <1>3 DEF IsMarker
<1>9. ASSUME NEW k \in 1..last
      PROVE  ref[k] = Suffix(s, i)[k]
  <2>1. k \in 1..(Len(s) - i + 1)
    BY <1>3, <1>8
  <2> QED
    BY <2>1, <1>7, SuffixFacts
<1>10. IsPrefix(ref, Suffix(s, i))
  BY <1>5, <1>8, <1>9, PrefixFacts, SuffixFacts
<1> QED
  BY <1>4, <1>10 DEF RefAt

\* No kind begins another: where a marker ends is determined.
LEMMA OneEnd ==
    ASSUME NEW s \in Seq(Symbols), NEW i \in 1..Len(s), NEW d \in Int, NEW e \in Int,
           Marker(s, i, d), Marker(s, i, e)
    PROVE  d = e
<1>1. ASSUME NEW k1 \in Kinds, NEW k2 \in Kinds, IsMarker(s, i, d, k1), IsMarker(s, i, e, k2),
             Len(k1) <= Len(k2)
      PROVE  k1 = k2
  <2>1. ASSUME NEW k \in 1..Len(k1)
        PROVE  k1[k] = k2[k]
    <3>1. k \in 1..Len(k2)
      BY <1>1, KindFacts
    <3>2. s[i + 1 + k] = k1[k] /\ s[i + 1 + k] = k2[k]
      BY <3>1, <1>1 DEF IsMarker
    <3> QED
      BY <3>2
  <2>2. IsPrefix(k1, k2)
    BY <2>1, <1>1, KindFacts, PrefixFacts
  <2> QED
    BY <2>2, ConstantsAssumption
<1>2. PICK k1 \in Kinds : IsMarker(s, i, d, k1)
  BY DEF Marker
<1>3. PICK k2 \in Kinds : IsMarker(s, i, e, k2)
  BY DEF Marker
<1>4. Len(k1) = Len(k2)
  <2>1. Len(k1) <= Len(k2) => k1 = k2
    BY <1>1, <1>2, <1>3
  <2>2. ASSUME Len(k2) <= Len(k1)
        PROVE  k2 = k1
    <3>1. ASSUME NEW k \in 1..Len(k2)
          PROVE  k1[k] = k2[k]
      <4>1. k \in 1..Len(k1)
        BY <2>2, KindFacts
      <4>2. s[i + 1 + k] = k1[k] /\ s[i + 1 + k] = k2[k]
        BY <4>1, <1>2, <1>3 DEF IsMarker
      <4> QED
        BY <4>2
    <3>2. IsPrefix(k2, k1)
      BY <3>1, <2>2, KindFacts, PrefixFacts
    <3> QED
      BY <3>2, ConstantsAssumption
  <2> QED
    BY <2>1, <2>2, KindFacts
<1> QED
  BY <1>2, <1>3, <1>4 DEF IsMarker

LEMMA MarkerFacts ==
    ASSUME NEW s \in Seq(Symbols), NEW i \in 1..Len(s), NEW e \in Int, Marker(s, i, e)
    PROVE  /\ RefAt(s, i) /\ EndOfRef(s, i) = e
           /\ i + 5 <= e /\ e <= Len(s)
           /\ s[i] = "[" /\ s[i + 1] = "[" /\ \A k \in (i + 2)..e : s[k] # "["
<1>1. RefAt(s, i)
  BY RefOfMarker
<1>2. EndOfRef(s, i) = e
  <2> DEFINE ref == CHOOSE ref \in Refs : IsPrefix(ref, Suffix(s, i))
  <2>1. ref \in Refs /\ IsPrefix(ref, Suffix(s, i))
    BY <1>1 DEF RefAt
  <2> HIDE DEF ref
  <2>2. Len(ref) \in Nat /\ Marker(s, i, i - 1 + Len(ref))
    BY <2>1, MarkerOfRef
  <2>3. i - 1 + Len(ref) = e
    BY <2>2, OneEnd
  <2> QED
    BY <2>3 DEF EndOfRef, ref
<1>3. PICK kind \in Kinds : IsMarker(s, i, e, kind)
  BY DEF Marker
<1>4. Len(kind) \in Nat \ {0} /\ HexLength \in Nat \ {0} /\ i \in Nat /\ Len(s) \in Nat
  BY KindFacts, ConstantsAssumption
<1>5. ASSUME NEW k \in (i + 2)..e
      PROVE  s[k] # "["
  <2>1. CASE k <= i + 1 + Len(kind)
    <3>1. k - i - 1 \in 1..Len(kind) /\ i + 1 + (k - i - 1) = k
      BY <2>1, <1>4
    <3>2. s[i + 1 + (k - i - 1)] = kind[k - i - 1] /\ kind[k - i - 1] # "["
      BY <3>1, <1>3, KindFacts DEF IsMarker
    <3> QED
      BY <3>1, <3>2
  <2>2. CASE k > i + 1 + Len(kind) /\ k <= i + 1 + Len(kind) + HexLength
    <3> DEFINE h == k - i - 1 - Len(kind)
    <3>1. h \in 1..HexLength /\ i + 1 + Len(kind) + h = k
      BY <2>2, <1>4
    <3>2. s[i + 1 + Len(kind) + h] \in Hex
      <4> HIDE DEF h
      <4> QED
        BY <3>1, <1>3 DEF IsMarker
    <3> QED
      BY <3>1, <3>2, ConstantsAssumption
  <2>3. CASE k = e - 1 \/ k = e
    BY <2>3, <1>3 DEF IsMarker
  <2> QED
    BY <2>1, <2>2, <2>3, <1>3, <1>4 DEF IsMarker
<1>6. i + 5 <= e /\ e <= Len(s) /\ s[i] = "[" /\ s[i + 1] = "["
  BY <1>3, <1>4 DEF IsMarker
<1> QED
  BY <1>1, <1>2, <1>5, <1>6

LEMMA RefAtFacts ==
    ASSUME NEW s \in Seq(Symbols), NEW i \in 1..Len(s), RefAt(s, i)
    PROVE  EndOfRef(s, i) \in Nat /\ Marker(s, i, EndOfRef(s, i))
<1>1. PICK ref \in Refs : IsPrefix(ref, Suffix(s, i))
  BY DEF RefAt
<1>2. Len(ref) \in Nat /\ Marker(s, i, i - 1 + Len(ref))
  BY <1>1, MarkerOfRef
<1> QED
  BY <1>2, MarkerFacts

\* Two markers do not overlap.
LEMMA MarkersApart ==
    ASSUME NEW s \in Seq(Symbols), NEW i \in 1..Len(s), NEW j \in 1..Len(s), NEW d \in Int,
           NEW e \in Int, Marker(s, i, d), Marker(s, j, e), i < j
    PROVE  d < j
<1>1. SUFFICES ASSUME j <= d PROVE FALSE
  OBVIOUS
<1>2. s[j] = "[" /\ s[j + 1] = "[" /\ j + 5 <= e
  BY MarkerFacts
<1>3. j = i + 1
  <2>1. \A k \in (i + 2)..d : s[k] # "["
    BY MarkerFacts
  <2> QED
    BY <1>1, <1>2, <2>1
<1>4. s[i + 2] # "[" /\ i + 2 = j + 1
  <2>1. i + 2 \in (i + 2)..d
    BY MarkerFacts
  <2> QED
    BY <2>1, <1>3, MarkerFacts
<1> QED
  BY <1>2, <1>4

\* A piece of the text has the markers that lie in it.
LEMMA MarkersOfPiece ==
    ASSUME NEW s \in Seq(Symbols), NEW p \in Nat, NEW q \in Nat, p <= q, q <= Len(s),
           NEW i \in 1..(q - p), NEW e \in Int
    PROVE  Marker(SubSeq(s, p + 1, q), i, e) <=> (e <= q - p /\ Marker(s, p + i, p + e))
<1> DEFINE t == SubSeq(s, p + 1, q)
<1>1. /\ t \in Seq(Symbols) /\ Len(t) = q - p
      /\ \A k \in 1..(q - p) : t[k] = s[p + k]
  <2>1. \A k \in (p + 1)..q : s[k] \in Symbols
    OBVIOUS
  <2>2. /\ t \in Seq(Symbols) /\ Len(t) = IF p + 1 <= q THEN q - (p + 1) + 1 ELSE 0
        /\ \A k \in 1..(q - (p + 1) + 1) : t[k] = s[p + 1 + k - 1]
    BY <2>1, SubSeqProperties
  <2> QED
    BY <2>2
<1> HIDE DEF t
<1>2. ASSUME NEW kind \in Kinds
      PROVE  IsMarker(t, i, e, kind) <=> e <= q - p /\ IsMarker(s, p + i, p + e, kind)
  <2>1. Len(kind) \in Nat \ {0} /\ HexLength \in Nat \ {0}
    BY KindFacts, ConstantsAssumption
  <2>2. ASSUME IsMarker(t, i, e, kind)
        PROVE  e = i + 3 + Len(kind) + HexLength /\ e <= q - p
    BY <2>2, <1>1 DEF IsMarker
  <2>3. ASSUME IsMarker(s, p + i, p + e, kind)
        PROVE  e = i + 3 + Len(kind) + HexLength
    <3>1. p + e = (p + i) + 3 + Len(kind) + HexLength
      BY <2>3 DEF IsMarker
    <3> QED
      BY <3>1, <2>1
  <2>4. ASSUME e = i + 3 + Len(kind) + HexLength, e <= q - p
        PROVE  IsMarker(t, i, e, kind) <=> IsMarker(s, p + i, p + e, kind)
    <3>1. /\ t[i] = s[p + i] /\ t[i + 1] = s[p + i + 1]
          /\ t[e - 1] = s[p + e - 1] /\ t[e] = s[p + e]
      <4>1. i \in 1..(q - p) /\ i + 1 \in 1..(q - p) /\ e - 1 \in 1..(q - p) /\ e \in 1..(q - p)
        BY <2>1, <2>4
      <4>2. p + (i + 1) = p + i + 1 /\ p + (e - 1) = p + e - 1
        BY <2>1
      <4>3. t[i] = s[p + i] /\ t[i + 1] = s[p + (i + 1)]
        BY <4>1, <1>1
      <4>4. t[e - 1] = s[p + (e - 1)] /\ t[e] = s[p + e]
        BY <4>1, <1>1
      <4> QED
        BY <4>2, <4>3, <4>4
    <3>2. ASSUME NEW k \in 1..Len(kind)
          PROVE  t[i + 1 + k] = s[p + i + 1 + k]
      <4>1. i + 1 + k \in 1..(q - p)
        BY <2>1, <2>4
      <4>2. t[i + 1 + k] = s[p + (i + 1 + k)]
        BY <4>1, <1>1
      <4>3. p + (i + 1 + k) = p + i + 1 + k
        BY <2>1
      <4> QED
        BY <4>2, <4>3
    <3>3. ASSUME NEW k \in 1..HexLength
          PROVE  t[i + 1 + Len(kind) + k] = s[p + i + 1 + Len(kind) + k]
      <4>1. i + 1 + Len(kind) + k \in 1..(q - p)
        BY <2>1, <2>4
      <4>2. t[i + 1 + Len(kind) + k] = s[p + (i + 1 + Len(kind) + k)]
        BY <4>1, <1>1
      <4>3. p + (i + 1 + Len(kind) + k) = p + i + 1 + Len(kind) + k
        BY <2>1
      <4> QED
        BY <4>2, <4>3
    <3>4. p + e = p + i + 3 + Len(kind) + HexLength /\ p + e <= Len(s) /\ e <= Len(t)
      BY <1>1, <2>1, <2>4
    <3>5. (p + i) + 1 = p + i + 1 /\ (p + e) - 1 = p + e - 1
      BY <2>1
    <3>6. IsMarker(t, i, e, kind) <=>
            /\ s[p + i] = "[" /\ s[p + i + 1] = "["
            /\ \A k \in 1..Len(kind) : s[p + i + 1 + k] = kind[k]
            /\ \A k \in 1..HexLength : s[p + i + 1 + Len(kind) + k] \in Hex
            /\ s[p + e - 1] = "]" /\ s[p + e] = "]"
      BY <2>4, <3>1, <3>2, <3>3, <3>4 DEF IsMarker
    <3> QED
      BY <3>4, <3>6 DEF IsMarker
  <2> QED
    BY <2>2, <2>3, <2>4
<1> QED
  BY <1>2 DEF Marker, t

LEMMA PieceFacts ==
    ASSUME NEW S, NEW s \in Seq(S), NEW m \in Nat \ {0}, NEW n \in Nat, n <= Len(s)
    PROVE  /\ SubSeq(s, m, n) \in Seq(S)
           /\ Len(SubSeq(s, m, n)) = IF m <= n THEN n - m + 1 ELSE 0
           /\ \A k \in 1..(n - m + 1) : SubSeq(s, m, n)[k] = s[m + k - 1]
<1>1. \A k \in m..n : s[k] \in S
  OBVIOUS
<1> QED
  BY <1>1, SubSeqProperties

LEMMA OneSymbol ==
    ASSUME NEW S, NEW s \in Seq(S), Len(s) = 1, NEW x, s[1] = x
    PROVE  s = <<x>>
OBVIOUS

\* The text that a chunk cuts off inside a marker could become one.
LEMMA CutMarker ==
    ASSUME NEW s \in Seq(Symbols), NEW j \in 1..Len(s), NEW e \in Int, Marker(s, j, e),
           NEW q \in j..(e - 1)
    PROVE  IsPartialRef(SubSeq(s, j, q))
<1> DEFINE v == SubSeq(s, j, q)
           n == q - j + 1
<1>1. PICK kind \in Kinds : IsMarker(s, j, e, kind)
  BY DEF Marker
<1>2. /\ Len(kind) \in Nat \ {0} /\ HexLength \in Nat \ {0} /\ kind \in Seq(Symbols)
      /\ j \in Nat \ {0} /\ q \in Nat /\ e <= Len(s) /\ Len(s) \in Nat
  BY <1>1, KindFacts, ConstantsAssumption DEF IsMarker
<1>3. v \in Seq(Symbols) /\ Len(v) = n /\ \A k \in 1..n : v[k] = s[j + k - 1]
  BY <1>2, PieceFacts
<1> HIDE DEF v
<1>4. CASE n = 1
  <2>1. v[1] = "["
    BY <1>1, <1>2, <1>3, <1>4 DEF IsMarker
  <2>2. v = <<"[">>
    <3>1. v \in Seq(Symbols) /\ Len(v) = 1
      BY <1>3, <1>4
    <3> QED
      BY <2>1, <3>1, OneSymbol
  <2> QED
    BY <2>2 DEF v, IsPartialRef
<1>5. CASE n >= 2
  <2> DEFINE body == SubSeq(v, 3, Len(v))
             rest == SubSeq(body, Len(kind) + 1, Len(body))
             tail == SubSeq(rest, HexLength + 1, Len(rest))
  <2>1. v[1] = "[" /\ v[2] = "["
    <3>1. v[1] = s[j + 1 - 1] /\ v[2] = s[j + 2 - 1]
      BY <1>2, <1>3, <1>5
    <3> QED
      BY <3>1, <1>1, <1>2 DEF IsMarker
  <2>2. IsPrefix(OpenRef, v)
    <3>1. OpenRef \in Seq({"["}) /\ Len(OpenRef) = 2 /\ OpenRef[1] = "[" /\ OpenRef[2] = "["
      BY DEF OpenRef
    <3>2. \A k \in 1..Len(OpenRef) : OpenRef[k] = v[k]
      BY <2>1, <3>1
    <3> QED
      BY <3>1, <3>2, <1>3, <1>5, PrefixFacts
  <2>3. /\ body \in Seq(Symbols) /\ Len(body) = n - 2
        /\ \A k \in 1..(n - 2) : body[k] = s[j + 1 + k]
    <3>1. /\ body \in Seq(Symbols) /\ Len(body) = IF 3 <= n THEN n - 3 + 1 ELSE 0
          /\ \A k \in 1..(n - 3 + 1) : body[k] = v[3 + k - 1]
      BY <1>2, <1>3, <1>5, PieceFacts
    <3>2. ASSUME NEW k \in 1..(n - 2)
          PROVE  body[k] = s[j + 1 + k]
      <4>1. k + 2 \in 1..n /\ 3 + k - 1 = k + 2 /\ j + (k + 2) - 1 = j + 1 + k
        BY <1>2
      <4>2. body[k] = v[k + 2]
        BY <4>1, <3>1, <1>2
      <4>3. v[k + 2] = s[j + (k + 2) - 1]
        BY <4>1, <1>3
      <4> QED
        BY <4>1, <4>2, <4>3
    <3> QED
      BY <3>1, <3>2, <1>2, <1>5
  <2> HIDE DEF body
  <2>4. /\ rest \in Seq(Symbols)
        /\ Len(rest) = IF Len(kind) + 1 <= n - 2 THEN n - 2 - Len(kind) ELSE 0
        /\ \A k \in 1..(n - 2 - Len(kind)) : rest[k] = s[j + 1 + Len(kind) + k]
    <3>1. /\ rest \in Seq(Symbols)
          /\ Len(rest) = IF Len(kind) + 1 <= n - 2 THEN n - 2 - (Len(kind) + 1) + 1 ELSE 0
          /\ \A k \in 1..(n - 2 - (Len(kind) + 1) + 1) : rest[k] = body[Len(kind) + 1 + k - 1]
      BY <1>2, <1>5, <2>3, PieceFacts
    <3>2. ASSUME NEW k \in 1..(n - 2 - Len(kind))
          PROVE  rest[k] = s[j + 1 + Len(kind) + k]
      <4>1. /\ Len(kind) + k \in 1..(n - 2) /\ Len(kind) + 1 + k - 1 = Len(kind) + k
            /\ j + 1 + (Len(kind) + k) = j + 1 + Len(kind) + k
            /\ k \in 1..(n - 2 - (Len(kind) + 1) + 1)
        BY <1>2
      <4>2. rest[k] = body[Len(kind) + k]
        BY <4>1, <3>1
      <4>3. body[Len(kind) + k] = s[j + 1 + (Len(kind) + k)]
        BY <4>1, <2>3
      <4> QED
        BY <4>1, <4>2, <4>3
    <3>3. n - 2 - (Len(kind) + 1) + 1 = n - 2 - Len(kind)
      BY <1>2
    <3>4. Len(rest) = IF Len(kind) + 1 <= n - 2 THEN n - 2 - Len(kind) ELSE 0
      BY <3>1, <3>3
    <3> QED
      BY <3>1, <3>2, <3>4
  <2> HIDE DEF rest
  <2>5. CASE n - 2 <= Len(kind)
    <3>1. ASSUME NEW k \in 1..Len(body)
          PROVE  body[k] = kind[k]
      <4>1. k \in 1..Len(kind) /\ k \in 1..(n - 2)
        BY <1>2, <2>3, <2>5
      <4> QED
        BY <4>1, <2>3, <1>1 DEF IsMarker
    <3>2. IsPrefix(body, kind)
      BY <3>1, <1>2, <2>3, <2>5, PrefixFacts
    <3> QED
      BY <2>2, <3>2 DEF IsPartialRef, body, v
  <2>6. CASE n - 2 > Len(kind)
    <3>1. ASSUME NEW k \in 1..Len(kind)
          PROVE  kind[k] = body[k]
      <4>1. k \in 1..(n - 2)
        BY <1>2, <2>6
      <4> QED
        BY <4>1, <2>3, <1>1 DEF IsMarker
    <3>2. IsPrefix(kind, body)
      <4>1. Len(kind) <= Len(body)
        BY <1>2, <2>3, <2>6
      <4>2. body \in Seq(Symbols) /\ kind \in Seq(Symbols)
        BY <1>2, <2>3
      <4> QED
        BY <4>1, <4>2, <3>1, PrefixFacts
    <3>3. Len(rest) = n - 2 - Len(kind) /\ Len(rest) <= HexLength + 1
      BY <2>4, <2>6, <1>1, <1>2 DEF IsMarker
    <3>4. ASSUME NEW i \in DOMAIN rest, i <= HexLength
          PROVE  rest[i] \in Hex
      <4>1. i \in 1..(n - 2 - Len(kind)) /\ i \in 1..HexLength
        BY <3>3, <3>4, <2>4, <1>2
      <4>2. rest[i] = s[j + 1 + Len(kind) + i]
        BY <4>1, <2>4
      <4> QED
        BY <4>1, <4>2, <1>1 DEF IsMarker
    <3>5. tail \in {<<>>, <<"]">>}
      <4>1. /\ tail \in Seq(Symbols)
            /\ Len(tail) = IF HexLength + 1 <= Len(rest) THEN Len(rest) - (HexLength + 1) + 1 ELSE 0
            /\ \A k \in 1..(Len(rest) - (HexLength + 1) + 1) : tail[k] = rest[HexLength + 1 + k - 1]
        BY <1>2, <2>4, PieceFacts
      <4> HIDE DEF tail
      <4>2. CASE Len(rest) <= HexLength
        <5>1. Len(tail) = 0
          BY <4>1, <4>2, <3>3, <1>2
        <5> QED
          BY <5>1, <4>1
      <4>3. CASE Len(rest) = HexLength + 1
        <5>1. Len(tail) = 1 /\ tail[1] = rest[HexLength + 1]
          BY <4>1, <4>3, <1>2
        <5>2. rest[HexLength + 1] = s[j + 1 + Len(kind) + (HexLength + 1)]
          BY <4>3, <3>3, <2>4, <1>2
        <5>3. j + 1 + Len(kind) + (HexLength + 1) = e - 1
          BY <1>1, <1>2 DEF IsMarker
        <5>4. tail[1] = "]"
          BY <5>1, <5>2, <5>3, <1>1 DEF IsMarker
        <5> QED
          BY <5>1, <5>4, <4>1, OneSymbol
      <4> QED
        BY <4>2, <4>3, <3>3, <1>2
    <3> QED
      BY <2>2, <3>2, <3>4, <3>5 DEF IsPartialRef, tail, rest, body, v
  <2> QED
    BY <2>5, <2>6, <1>2
<1> QED
  BY <1>4, <1>5, <1>2 DEF v

-----------------------------------------------------------------------------
(* The symbols at some positions, in their order.                          *)

Rank(S, k) == Cardinality(S \cap 1..k)

LEMMA LeastNat ==
    ASSUME NEW T, T \subseteq Nat, T # {}
    PROVE  \E n \in T : \A k \in T : n <= k
<1> DEFINE R == {ss \in Nat \X Nat : ss[1] < ss[2]}
<1>1. IsWellFoundedOn(R, Nat)
  BY NatLessThanWellFounded, Zenon DEF OpToRel
<1>2. PICK n \in T : \A k \in T : ~ (<<k, n>> \in R)
  <2> HIDE DEF R
  <2> QED
    BY <1>1, WFMin
<1>3. ASSUME NEW k \in T, k < n
      PROVE  FALSE
  <2>1. <<k, n>> \in Nat \X Nat
    OBVIOUS
  <2>2. <<k, n>>[1] < <<k, n>>[2]
    BY <1>3
  <2>3. <<k, n>> \in R
    BY <2>1, <2>2
  <2> QED
    BY <2>3, <1>2
<1>4. n \in T /\ n \in Nat /\ \A k \in T : k \in Nat
  OBVIOUS
<1> QED
  BY <1>3, <1>4

LEMMA RankFinite ==
    ASSUME NEW m \in Nat, NEW S \in SUBSET (1..m)
    PROVE  IsFiniteSet(S) /\ Cardinality(S) \in Nat
<1>1. IsFiniteSet(1..m)
  BY FS_Interval
<1>2. IsFiniteSet(S)
  BY <1>1, FS_Subset
<1> QED
  BY <1>2, FS_CardinalityType

LEMMA RankType ==
    ASSUME NEW m \in Nat, NEW S \in SUBSET (1..m), NEW k \in Int
    PROVE  IsFiniteSet(S \cap 1..k) /\ Rank(S, k) \in Nat /\ Rank(S, k) <= Cardinality(S)
<1>1. IsFiniteSet(S \cap 1..k) /\ Cardinality(S \cap 1..k) <= Cardinality(S)
  BY RankFinite, FS_Intersection
<1> QED
  BY <1>1, FS_CardinalityType DEF Rank

LEMMA RankEnds ==
    ASSUME NEW m \in Nat, NEW S \in SUBSET (1..m)
    PROVE  Rank(S, 0) = 0 /\ Rank(S, m) = Cardinality(S)
<1>1. S \cap 1..0 = {}
  OBVIOUS
<1>2. S \cap 1..m = S
  OBVIOUS
<1> QED
  BY <1>1, <1>2, FS_EmptySet DEF Rank

LEMMA RankStep ==
    ASSUME NEW m \in Nat, NEW S \in SUBSET (1..m), NEW k \in Nat
    PROVE  Rank(S, k + 1) = IF k + 1 \in S THEN Rank(S, k) + 1 ELSE Rank(S, k)
<1>1. CASE k + 1 \in S
  <2> DEFINE A == S \cap 1..k
  <2>1. S \cap 1..(k + 1) = A \cup {k + 1} /\ k + 1 \notin A
    BY <1>1
  <2>2. IsFiniteSet(A)
    <3>1. k \in Int
      OBVIOUS
    <3> QED
      BY <3>1, RankType
  <2> HIDE DEF A
  <2>3. Cardinality(A \cup {k + 1}) = Cardinality(A) + 1
    BY <2>1, <2>2, FS_AddElement
  <2> QED
    BY <2>1, <2>3, <1>1 DEF Rank, A
<1>2. CASE k + 1 \notin S
  <2>1. S \cap 1..(k + 1) = S \cap 1..k
    BY <1>2
  <2> QED
    BY <2>1, <1>2 DEF Rank
<1> QED
  BY <1>1, <1>2

LEMMA RankMonotone ==
    ASSUME NEW m \in Nat, NEW S \in SUBSET (1..m), NEW i \in Int, NEW j \in Int, i < j
    PROVE  Rank(S, i) <= Rank(S, j) /\ (j \in S => Rank(S, i) < Rank(S, j))
<1>1. IsFiniteSet(S \cap 1..j) /\ IsFiniteSet(S \cap 1..i)
  BY RankType
<1>2. S \cap 1..i \in SUBSET (S \cap 1..j)
  OBVIOUS
<1>3. Rank(S, i) <= Rank(S, j)
  BY <1>1, <1>2, FS_Subset DEF Rank
<1>4. ASSUME j \in S, Rank(S, i) = Rank(S, j)
      PROVE  FALSE
  <2>1. S \cap 1..i = S \cap 1..j
    BY <1>1, <1>2, <1>4, FS_Subset DEF Rank
  <2>2. j \in S \cap 1..j
    BY <1>4
  <2> QED
    BY <2>1, <2>2
<1>5. Rank(S, i) \in Nat /\ Rank(S, j) \in Nat
  BY RankType
<1> QED
  BY <1>3, <1>4, <1>5

\* A rank is the rank of one position.
LEMMA RankInjective ==
    ASSUME NEW m \in Nat, NEW S \in SUBSET (1..m), NEW i \in S, NEW j \in S,
           Rank(S, i) = Rank(S, j)
    PROVE  i = j
<1>1. i \in Int /\ j \in Int
  OBVIOUS
<1>2. Rank(S, i) \in Nat /\ Rank(S, j) \in Nat
  BY <1>1, RankType
<1>3. i < j => Rank(S, i) < Rank(S, j)
  BY <1>1, RankMonotone
<1>4. j < i => Rank(S, j) < Rank(S, i)
  BY <1>1, RankMonotone
<1> QED
  BY <1>1, <1>2, <1>3, <1>4

LEMMA RankExists ==
    ASSUME NEW m \in Nat, NEW S \in SUBSET (1..m), NEW n \in 1..Cardinality(S)
    PROVE  \E k \in S : Rank(S, k) = n
<1> DEFINE T == {k \in Nat : Rank(S, k) >= n}
<1>0. Cardinality(S) \in Nat
  BY RankFinite
<1>1. n \in Nat \ {0} /\ n <= Cardinality(S) /\ Cardinality(S) \in Nat
  BY <1>0
<1>2. m \in T
  BY <1>1, RankEnds
<1>3. PICK k \in T : \A h \in T : k <= h
  <2>1. T \subseteq Nat
    OBVIOUS
  <2> HIDE DEF T
  <2> QED
    BY <1>2, <2>1, LeastNat
<1>4. k \in Nat /\ Rank(S, k) >= n
  OBVIOUS
<1>5. k # 0
  <2>1. Rank(S, 0) = 0
    BY RankEnds
  <2>2. ~(Rank(S, 0) >= n)
    BY <2>1, <1>1
  <2> QED
    BY <2>2, <1>4
<1>6. k - 1 \in Nat /\ k - 1 \notin T /\ (k - 1) + 1 = k
  <2>1. k - 1 \in Nat /\ ~(k <= k - 1) /\ (k - 1) + 1 = k
    BY <1>4, <1>5
  <2> HIDE DEF T
  <2> QED
    BY <2>1, <1>3
<1>7. ~(Rank(S, k - 1) >= n)
  BY <1>6
<1>8. Rank(S, k - 1) \in Nat /\ Rank(S, k) \in Nat
  <2>1. k - 1 \in Int /\ k \in Int
    BY <1>4
  <2> QED
    BY <2>1, RankType
<1>9. Rank(S, k) = IF k \in S THEN Rank(S, k - 1) + 1 ELSE Rank(S, k - 1)
  <2>1. Rank(S, (k - 1) + 1) =
            IF (k - 1) + 1 \in S THEN Rank(S, k - 1) + 1 ELSE Rank(S, k - 1)
    BY <1>6, RankStep
  <2> QED
    BY <2>1, <1>6
<1> QED
  BY <1>1, <1>4, <1>7, <1>8, <1>9

\* The position of a rank.
LEMMA RankChoice ==
    ASSUME NEW m \in Nat, NEW S \in SUBSET (1..m), NEW k \in S
    PROVE  (CHOOSE h \in S : Rank(S, h) = Rank(S, k)) = k
<1> DEFINE c == CHOOSE h \in S : Rank(S, h) = Rank(S, k)
<1>1. c \in S /\ Rank(S, c) = Rank(S, k)
  OBVIOUS
<1> HIDE DEF c
<1>2. c = k
  BY <1>1, RankInjective
<1> QED
  BY <1>2 DEF c

LEMMA AtFacts ==
    ASSUME NEW s \in Seq(Symbols), NEW S \in SUBSET (1..Len(s))
    PROVE  /\ At(s, S) \in Seq(Symbols) /\ Len(At(s, S)) = Cardinality(S)
           /\ \A k \in S : Rank(S, k) \in 1..Cardinality(S) /\ At(s, S)[Rank(S, k)] = s[k]
<1>0. Len(s) \in Nat
  OBVIOUS
<1>1. Cardinality(S) \in Nat
  BY <1>0, RankFinite
<1>2. ASSUME NEW n \in 1..Cardinality(S)
      PROVE  s[CHOOSE k \in S : Cardinality(S \cap 1..k) = n] \in Symbols
  <2> DEFINE c == CHOOSE k \in S : Cardinality(S \cap 1..k) = n
  <2>1. \E k \in S : Rank(S, k) = n
    BY <1>0, RankExists
  <2>2. c \in S
    BY <2>1 DEF Rank
  <2> HIDE DEF c
  <2>3. s[c] \in Symbols
    BY <2>2
  <2> QED
    BY <2>3 DEF c
<1>4. At(s, S) \in [1..Cardinality(S) -> Symbols]
  BY <1>2 DEF At
<1>5. At(s, S) \in Seq(Symbols) /\ Len(At(s, S)) = Cardinality(S)
  BY <1>1, <1>4
<1>6. ASSUME NEW k \in S
      PROVE  Rank(S, k) \in 1..Cardinality(S) /\ At(s, S)[Rank(S, k)] = s[k]
  <2>1. k \in Int /\ 0 < k /\ 0 \in Int
    OBVIOUS
  <2>2. Rank(S, k) \in Nat /\ Rank(S, k) <= Cardinality(S)
    BY <2>1, <1>0, RankType
  <2>3. Rank(S, 0) < Rank(S, k)
    BY <2>1, <1>0, RankMonotone
  <2>4. Rank(S, 0) = 0
    BY <1>0, RankEnds
  <2>5. Rank(S, k) \in 1..Cardinality(S)
    BY <2>2, <2>3, <2>4, <1>1
  <2>6. At(s, S)[Rank(S, k)] = s[CHOOSE h \in S : Rank(S, h) = Rank(S, k)]
    BY <2>5, Zenon DEF At, Rank
  <2>7. (CHOOSE h \in S : Rank(S, h) = Rank(S, k)) = k
    BY <1>0, RankChoice
  <2> QED
    BY <2>5, <2>6, <2>7
<1> QED
  BY <1>5, <1>6

LEMMA SameSize ==
    ASSUME NEW A, NEW B, NEW w \in [A -> B], IsFiniteSet(A),
           \A h, k \in A : w[h] = w[k] => h = k, \A k \in B : \E h \in A : w[h] = k
    PROVE  Cardinality(A) = Cardinality(B)
<1>1. w \in Bijection(A, B)
  BY Fun_IsBij
<1>2. ExistsBijection(A, B)
  BY <1>1 DEF ExistsBijection
<1> QED
  BY <1>2, FS_Bijection

\* Positions that correspond in their order and hold the same symbols.
Corresponds(s, S, t, T) ==
    \E u \in [S -> T] :
        /\ \A k \in T : \E h \in S : u[h] = k
        /\ \A h, k \in S : h < k => u[h] < u[k]
        /\ \A k \in S : s[k] = t[u[k]]

LEMMA SameWords ==
    ASSUME NEW s \in Seq(Symbols), NEW S \in SUBSET (1..Len(s)),
           NEW t \in Seq(Symbols), NEW T \in SUBSET (1..Len(t)),
           Corresponds(s, S, t, T)
    PROVE  At(s, S) = At(t, T)
<1> PICK u \in [S -> T] :
        /\ \A k \in T : \E h \in S : u[h] = k
        /\ \A h, k \in S : h < k => u[h] < u[k]
        /\ \A k \in S : s[k] = t[u[k]]
  BY DEF Corresponds
<1>0. Len(s) \in Nat /\ Len(t) \in Nat
  OBVIOUS
<1>1. \A k \in S : k \in Nat \ {0} /\ u[k] \in T /\ u[k] \in Nat \ {0}
  <2>1. (\A k \in S : k \in Nat \ {0}) /\ (\A k \in T : k \in Nat \ {0})
    OBVIOUS
  <2> QED
    BY <2>1
<1>2. \A h, k \in S : (u[h] = u[k] => h = k) /\ (u[h] <= u[k] <=> h <= k)
  BY <1>1
<1>3. IsFiniteSet(S) /\ IsFiniteSet(T)
  BY <1>0, RankFinite
<1>4. Cardinality(S) = Cardinality(T)
  <2>1. /\ \A h, k \in S : u[h] = u[k] => h = k
        /\ \A k \in T : \E h \in S : u[h] = k
    BY <1>2
  <2> QED
    BY <2>1, <1>3, SameSize
<1>5. ASSUME NEW k \in S
      PROVE  Rank(S, k) = Rank(T, u[k])
  <2> DEFINE A == S \cap 1..k
             B == T \cap 1..u[k]
             w == [h \in A |-> u[h]]
  <2>1. ASSUME NEW h \in A
        PROVE  u[h] \in B
    <3>1. h \in S /\ h <= k
      BY <1>1
    <3> QED
      BY <3>1, <1>1, <1>2
  <2>2. w \in [A -> B]
    BY <2>1
  <2>3. \A h, i \in A : w[h] = w[i] => h = i
    BY <1>2
  <2>4. ASSUME NEW i \in B
        PROVE  \E h \in A : w[h] = i
    <3>1. PICK h \in S : u[h] = i
      OBVIOUS
    <3>2. u[h] <= u[k]
      BY <3>1, <1>1
    <3>3. h \in A
      BY <3>2, <1>1, <1>2
    <3> QED
      BY <3>1, <3>3
  <2>5. IsFiniteSet(A)
    BY <1>3, FS_Intersection
  <2> HIDE DEF A, B, w
  <2>6. Cardinality(A) = Cardinality(B)
    BY <2>2, <2>3, <2>4, <2>5, SameSize
  <2> QED
    BY <2>6 DEF A, B, Rank
<1>6. ASSUME NEW n \in 1..Cardinality(S)
      PROVE  At(s, S)[n] = At(t, T)[n]
  <2>1. PICK k \in S : Rank(S, k) = n
    BY <1>0, RankExists
  <2>2. At(s, S)[n] = s[k]
    BY <2>1, AtFacts
  <2>3. u[k] \in T /\ Rank(T, u[k]) = n
    BY <2>1, <1>5
  <2>4. At(t, T)[n] = t[u[k]]
    BY <2>3, AtFacts
  <2> QED
    BY <2>2, <2>4
<1>7. /\ At(s, S) \in Seq(Symbols) /\ Len(At(s, S)) = Cardinality(S)
      /\ At(t, T) \in Seq(Symbols) /\ Len(At(t, T)) = Cardinality(S)
  BY <1>4, AtFacts
<1>8. At(s, S) = [n \in 1..Cardinality(S) |-> At(s, S)[n]]
      /\ At(t, T) = [n \in 1..Cardinality(S) |-> At(t, T)[n]]
  BY <1>7
<1> QED
  BY <1>6, <1>8

LEMMA WordsBefore ==
    ASSUME NEW t \in Seq(Symbols), NEW T \in SUBSET (1..Len(t)), NEW p \in Nat
    PROVE  IsPrefix(At(t, T \cap 1..p), At(t, T))
<1> DEFINE S == T \cap 1..p
<1>0. Len(t) \in Nat
  OBVIOUS
<1>1. S \in SUBSET (1..Len(t)) /\ S \in SUBSET T
  OBVIOUS
<1>2. ASSUME NEW k \in S
      PROVE  k \in T /\ Rank(S, k) = Rank(T, k)
  <2>1. S \cap 1..k = T \cap 1..k
    OBVIOUS
  <2> QED
    BY <2>1 DEF Rank
<1> HIDE DEF S
<1>3. Cardinality(S) \in Nat /\ Cardinality(T) \in Nat /\ IsFiniteSet(T)
  BY <1>0, <1>1, RankFinite
<1>4. Cardinality(S) <= Cardinality(T)
  BY <1>1, <1>3, FS_Subset
<1>5. /\ At(t, S) \in Seq(Symbols) /\ Len(At(t, S)) = Cardinality(S)
      /\ At(t, T) \in Seq(Symbols) /\ Len(At(t, T)) = Cardinality(T)
  BY <1>1, AtFacts
<1>6. ASSUME NEW n \in 1..Cardinality(S)
      PROVE  At(t, S)[n] = At(t, T)[n]
  <2>1. PICK k \in S : Rank(S, k) = n
    BY <1>0, <1>1, RankExists
  <2>2. At(t, S)[n] = t[k]
    BY <2>1, <1>1, AtFacts
  <2>3. k \in T /\ Rank(T, k) = n
    BY <2>1, <1>2
  <2>4. At(t, T)[n] = t[k]
    BY <2>3, AtFacts
  <2> QED
    BY <2>2, <2>4
<1>7. IsPrefix(At(t, S), At(t, T))
  BY <1>3, <1>4, <1>5, <1>6, PrefixFacts
<1> QED
  BY <1>7 DEF S

-----------------------------------------------------------------------------
(* What is shown and the beginning of the text that it stands for.         *)

WordsIn(s)      == {k \in DOMAIN s : s[k] # Space}
WordsUpTo(t, p) == {k \in Public(t) \cap 1..p : t[k] # Space}

\* What is shown, sh, is the public text of the first p symbols of t, up to spaces.
Matches(t, sh, p) == Corresponds(sh, WordsIn(sh), t, WordsUpTo(t, p))

\* At most one symbol for each of the markers is missing.
Long(t, sh, p) == Rank(RefsIn(t), p) + Len(sh) >= Rank(Public(t), p)

\* No marker begins in the first p symbols and ends behind them.
Clean(t, p) == \A i \in 1..p : RefAt(t, i) => EndOfRef(t, i) <= p

\* The piece of t behind p up to q, and what may be said of the symbols in it.
Piece(t, p, q)      == SubSeq(t, p + 1, q)
AllPublic(t, p, q)  == \A k \in (p + 1)..q : k \in Public(t)
NonePublic(t, p, q) == \A k \in (p + 1)..q : k \notin Public(t)
OnlySpace(t, p, q)  == \A k \in (p + 1)..q : k \in Public(t) => t[k] = Space

LEMMA PositionFacts ==
    ASSUME NEW t \in Seq(Symbols)
    PROVE  /\ Len(t) \in Nat /\ DOMAIN t = 1..Len(t)
           /\ Public(t) \in SUBSET (1..Len(t)) /\ RefsIn(t) \in SUBSET (1..Len(t))
           /\ WordsIn(t) \in SUBSET (1..Len(t))
           /\ \A p \in Nat : WordsUpTo(t, p) \in SUBSET (1..Len(t))
BY DEF Public, RefsIn, WordsIn, WordsUpTo

LEMMA MatchesFacts ==
    ASSUME NEW t \in Seq(Symbols), NEW sh \in Seq(Symbols), NEW p \in Nat, Matches(t, sh, p)
    PROVE  /\ IsPrefix(Words(sh, DOMAIN sh), Words(t, Public(t)))
           /\ p = Len(t) => Words(sh, DOMAIN sh) = Words(t, Public(t))
<1> DEFINE T == {k \in Public(t) : t[k] # Space}
<1>2. At(sh, WordsIn(sh)) = At(t, WordsUpTo(t, p))
  <2>1. WordsIn(sh) \in SUBSET (1..Len(sh)) /\ WordsUpTo(t, p) \in SUBSET (1..Len(t))
    BY PositionFacts
  <2> QED
    BY <2>1, SameWords DEF Matches
<1>3. Words(sh, DOMAIN sh) = At(t, WordsUpTo(t, p))
  BY <1>2 DEF Words, WordsIn
<1>4. T \in SUBSET (1..Len(t)) /\ Words(t, Public(t)) = At(t, T)
  BY PositionFacts DEF Words
<1>5. WordsUpTo(t, p) = T \cap 1..p
  BY DEF WordsUpTo
<1>6. p = Len(t) => T \cap 1..p = T
  BY <1>4
<1> HIDE DEF T
<1>7. IsPrefix(At(t, T \cap 1..p), At(t, T))
  BY <1>4, WordsBefore
<1> QED
  BY <1>3, <1>4, <1>5, <1>6, <1>7

\* The public text to m is shown, and behind it up to q there are only spaces and markers.
LEMMA ShowMore ==
    ASSUME NEW t \in Seq(Symbols), NEW sh \in Seq(Symbols), NEW p \in Nat, NEW m \in Nat,
           NEW q \in Nat, p <= m, m <= q, q <= Len(t), Matches(t, sh, p),
           AllPublic(t, p, m), OnlySpace(t, m, q)
    PROVE  /\ sh \o Piece(t, p, m) \in Seq(Symbols)
           /\ Len(sh \o Piece(t, p, m)) = Len(sh) + (m - p)
           /\ Matches(t, sh \o Piece(t, p, m), q)
<1> USE DEF AllPublic, OnlySpace
<1> DEFINE piece == Piece(t, p, m)
           sh2   == sh \o piece
           n     == Len(sh)
<1>1. n \in Nat /\ Len(t) \in Nat
  OBVIOUS
<1>2. /\ piece \in Seq(Symbols) /\ Len(piece) = m - p
      /\ \A k \in 1..(m - p) : piece[k] = t[p + k]
  <2>1. /\ piece \in Seq(Symbols) /\ Len(piece) = IF p + 1 <= m THEN m - (p + 1) + 1 ELSE 0
        /\ \A k \in 1..(m - (p + 1) + 1) : piece[k] = t[p + 1 + k - 1]
    BY PieceFacts DEF Piece
  <2> QED
    BY <2>1
<1> HIDE DEF piece
<1>3. /\ sh2 \in Seq(Symbols) /\ Len(sh2) = Len(sh) + Len(piece)
      /\ \A k \in 1..(Len(sh) + Len(piece)) :
            sh2[k] = IF k <= Len(sh) THEN sh[k] ELSE piece[k - Len(sh)]
  BY <1>2, ConcatProperties
<1> HIDE DEF sh2
<1>4. Len(sh2) = n + (m - p) /\ DOMAIN sh2 = 1..(n + (m - p)) /\ DOMAIN sh = 1..n
  BY <1>2, <1>3
<1>5. ASSUME NEW k \in 1..n
      PROVE  sh2[k] = sh[k]
  <2>1. k \in 1..(Len(sh) + Len(piece)) /\ k <= Len(sh)
    BY <1>1, <1>2
  <2> QED
    BY <2>1, <1>3
<1>6. ASSUME NEW k \in (n + 1)..(n + (m - p))
      PROVE  p + k - n \in (p + 1)..m /\ sh2[k] = t[p + k - n]
  <2>1. k - n \in 1..(m - p) /\ p + (k - n) = p + k - n
    BY <1>1
  <2>2. sh2[k] = piece[k - n]
    BY <1>1, <1>2, <1>3
  <2>3. piece[k - n] = t[p + (k - n)]
    BY <2>1, <1>2
  <2> QED
    BY <2>1, <2>2, <2>3, <1>1
<1>7. PICK u \in [WordsIn(sh) -> WordsUpTo(t, p)] :
        /\ \A k \in WordsUpTo(t, p) : \E h \in WordsIn(sh) : u[h] = k
        /\ \A h, k \in WordsIn(sh) : h < k => u[h] < u[k]
        /\ \A k \in WordsIn(sh) : sh[k] = t[u[k]]
  BY DEF Matches, Corresponds
<1> DEFINE W == WordsIn(sh2)
           f == [k \in W |-> IF k <= n THEN u[k] ELSE p + k - n]
<1>8. ASSUME NEW k \in W
      PROVE  \/ /\ k \in 1..n /\ k \in WordsIn(sh) /\ f[k] = u[k] /\ sh2[k] = sh[k]
                /\ u[k] \in WordsUpTo(t, p) /\ u[k] \in 1..p
             \/ /\ k \in (n + 1)..(n + (m - p)) /\ f[k] = p + k - n /\ f[k] \in (p + 1)..m
                /\ sh2[k] = t[f[k]] /\ sh2[k] # Space
  <2>1. k \in 1..(n + (m - p)) /\ sh2[k] # Space
    BY <1>4 DEF WordsIn
  <2>2. CASE k <= n
    <3>1. k \in 1..n /\ sh2[k] = sh[k]
      BY <2>1, <2>2, <1>5
    <3>2. k \in WordsIn(sh)
      BY <3>1, <2>1, <1>4 DEF WordsIn
    <3>3. u[k] \in WordsUpTo(t, p) /\ u[k] \in 1..p
      BY <3>2 DEF WordsUpTo
    <3> QED
      BY <3>1, <3>2, <3>3
  <2>3. CASE ~(k <= n)
    <3>1. k \in (n + 1)..(n + (m - p))
      BY <2>1, <2>3, <1>1
    <3> QED
      BY <3>1, <2>1, <2>3, <1>6
  <2> QED
    BY <2>2, <2>3
<1>9. f \in [W -> WordsUpTo(t, q)]
  <2>1. ASSUME NEW k \in W
        PROVE  f[k] \in WordsUpTo(t, q)
    <3>1. ASSUME u[k] \in WordsUpTo(t, p)
          PROVE  u[k] \in WordsUpTo(t, q)
      BY <3>1 DEF WordsUpTo
    <3>2. ASSUME f[k] \in (p + 1)..m, t[f[k]] # Space
          PROVE  f[k] \in WordsUpTo(t, q)
      <4> DEFINE x == f[k]
      <4>1. x \in Public(t) /\ t[x] # Space /\ x \in 1..q
        <5> HIDE DEF f
        <5> QED
          BY <3>2
      <4> HIDE DEF f, x
      <4>2. x \in WordsUpTo(t, q)
        BY <4>1 DEF WordsUpTo
      <4> QED
        BY <4>2 DEF x
    <3> HIDE DEF f
    <3> QED
      BY <1>8, <3>1, <3>2
  <2>2. f = [k \in W |-> f[k]]
    OBVIOUS
  <2> HIDE DEF f
  <2> QED
    BY <2>1, <2>2
<1>10. ASSUME NEW k \in WordsUpTo(t, q)
       PROVE  \E h \in W : f[h] = k
  <2>1. k \in Public(t) /\ k \in 1..q /\ t[k] # Space
    BY DEF WordsUpTo
  <2>2. CASE k <= p
    <3>1. k \in WordsUpTo(t, p)
      BY <2>1, <2>2 DEF WordsUpTo
    <3>2. PICK h \in WordsIn(sh) : u[h] = k
      BY <3>1, <1>7
    <3>3. h \in 1..n /\ sh[h] # Space
      BY <1>4 DEF WordsIn
    <3>4. h \in W
      BY <3>3, <1>1, <1>4, <1>5 DEF WordsIn
    <3> QED
      BY <3>2, <3>3, <3>4
  <2>3. CASE p < k /\ k <= m
    <3> DEFINE h == n + k - p
    <3>1. h \in (n + 1)..(n + (m - p)) /\ p + h - n = k /\ ~(h <= n) /\ h \in 1..(n + (m - p))
      BY <2>1, <2>3, <1>1
    <3> HIDE DEF h
    <3>2. sh2[h] = t[k]
      BY <3>1, <1>6
    <3>3. h \in W
      BY <3>1, <3>2, <2>1, <1>4 DEF WordsIn
    <3> QED
      BY <3>1, <3>3
  <2>4. CASE m < k
    BY <2>1, <2>4
  <2> QED
    BY <2>1, <2>2, <2>3, <2>4
<1>11. ASSUME NEW h \in W, NEW k \in W, h < k
       PROVE  f[h] < f[k]
  <2> DEFINE a == f[h]
             b == f[k]
  <2>1. \/ h \in 1..n /\ h \in WordsIn(sh) /\ a = u[h] /\ u[h] \in 1..p
        \/ h \in (n + 1)..(n + (m - p)) /\ a = p + h - n
    BY <1>8
  <2>2. \/ k \in 1..n /\ k \in WordsIn(sh) /\ b = u[k] /\ u[k] \in 1..p
        \/ k \in (n + 1)..(n + (m - p)) /\ b = p + k - n
    BY <1>8
  <2>3. h \in WordsIn(sh) /\ k \in WordsIn(sh) => u[h] < u[k]
    BY <1>7, <1>11
  <2> HIDE DEF a, b, f
  <2>4. a < b
    BY <2>1, <2>2, <2>3, <1>1, <1>11
  <2> QED
    BY <2>4 DEF a, b
<1>12. ASSUME NEW k \in W
       PROVE  sh2[k] = t[f[k]]
  <2> HIDE DEF f
  <2> QED
    BY <1>7, <1>8
<1>13. Matches(t, sh2, q)
  <2> HIDE DEF f
  <2> QED
    BY <1>9, <1>10, <1>11, <1>12 DEF Matches, Corresponds, W
<1> QED
  BY <1>3, <1>4, <1>13 DEF sh2, piece

LEMMA RankSpan ==
    ASSUME NEW m \in Nat, NEW S \in SUBSET (1..m), NEW i \in Nat, NEW j \in Nat, i <= j
    PROVE  Rank(S, j) <= Rank(S, i) + (j - i)
<1> DEFINE A == S \cap 1..i
           B == (i + 1)..j
<1>0. i \in Int /\ j \in Int
  OBVIOUS
<1>1. IsFiniteSet(A) /\ Cardinality(A) = Rank(S, i)
  BY <1>0, RankType DEF Rank
<1>2. IsFiniteSet(B) /\ Cardinality(B) = j - i
  <2>1. i + 1 \in Int /\ j \in Int /\ (IF i + 1 > j THEN 0 ELSE j - (i + 1) + 1) = j - i
    OBVIOUS
  <2> QED
    BY <2>1, FS_Interval
<1>3. S \cap 1..j \in SUBSET (A \cup B) /\ A \cap B = {}
  OBVIOUS
<1> HIDE DEF A, B
<1>4. IsFiniteSet(A \cup B)
      /\ Cardinality(A \cup B) = Cardinality(A) + Cardinality(B) - Cardinality(A \cap B)
  BY <1>1, <1>2, FS_Union
<1>5. Cardinality(S \cap 1..j) <= Cardinality(A \cup B)
  BY <1>3, <1>4, FS_Subset
<1>6. Cardinality(A \cap B) = 0
  BY <1>3, FS_EmptySet
<1>7. Rank(S, i) \in Nat /\ Rank(S, j) \in Nat
  BY <1>0, RankType
<1> QED
  BY <1>1, <1>2, <1>4, <1>5, <1>6, <1>7 DEF Rank

LEMMA RankSkip ==
    ASSUME NEW m \in Nat, NEW S \in SUBSET (1..m), NEW i \in Nat, NEW j \in Nat, i <= j,
           \A k \in (i + 1)..j : k \notin S
    PROVE  Rank(S, j) = Rank(S, i)
<1>1. S \cap 1..j = S \cap 1..i
  OBVIOUS
<1> QED
  BY <1>1 DEF Rank

\* To h the public text is shown but for a space before a marker, and from h to q there
\* is none.
LEMMA LongMore ==
    ASSUME NEW t \in Seq(Symbols), NEW sh \in Seq(Symbols), NEW sh2 \in Seq(Symbols),
           NEW p \in Nat, NEW m \in Nat, NEW h \in Nat, NEW q \in Nat,
           p <= m, m <= h, h <= m + 1, h <= q, Long(t, sh, p), Len(sh2) = Len(sh) + (m - p),
           NonePublic(t, h, q),
           h > m => \E i \in (p + 1)..q : i \in RefsIn(t)
    PROVE  Long(t, sh2, q)
<1> DEFINE R == RefsIn(t)
           P == Public(t)
<1>1. Len(t) \in Nat /\ R \in SUBSET (1..Len(t)) /\ P \in SUBSET (1..Len(t))
  BY PositionFacts
<1>2. Rank(R, p) + Len(sh) >= Rank(P, p)
  BY DEF Long
<1> HIDE DEF R, P
<1>9. p \in Int /\ h \in Int /\ q \in Int
  OBVIOUS
<1>10. ASSUME NEW k \in Int
       PROVE  Rank(R, k) \in Nat /\ Rank(P, k) \in Nat
  BY <1>1, RankType
<1>3. Rank(P, q) = Rank(P, h)
  <2>1. \A k \in (h + 1)..q : k \notin P
    BY DEF P, NonePublic
  <2> QED
    BY <2>1, <1>1, RankSkip
<1>4. Rank(P, h) <= Rank(P, p) + (h - p)
  <2>1. p <= h
    OBVIOUS
  <2> QED
    BY <2>1, <1>1, RankSpan
<1>5. Rank(R, p) <= Rank(R, q)
  <2>1. p < q => Rank(R, p) <= Rank(R, q)
    BY <1>1, <1>9, RankMonotone
  <2>2. Rank(R, p) \in Nat /\ p <= q
    BY <1>9, <1>10
  <2> QED
    BY <2>1, <2>2, <1>9
<1>6. ASSUME h > m
      PROVE  Rank(R, p) < Rank(R, q)
  <2>1. PICK i \in (p + 1)..q : i \in R
    BY <1>6 DEF R
  <2>2. Rank(R, p) < Rank(R, i)
    <3>1. p \in Int /\ i \in Int /\ p < i
      OBVIOUS
    <3> QED
      BY <2>1, <3>1, <1>1, RankMonotone
  <2>3. Rank(R, i) <= Rank(R, q)
    <3>0. i \in Int /\ (i < q \/ i = q)
      OBVIOUS
    <3>1. i < q => Rank(R, i) <= Rank(R, q)
      BY <3>0, <1>1, <1>9, RankMonotone
    <3>2. Rank(R, i) \in Nat
      BY <3>0, <1>10
    <3> QED
      BY <3>0, <3>1, <3>2
  <2>4. Rank(R, p) \in Nat /\ Rank(R, i) \in Nat /\ Rank(R, q) \in Nat
    <3>1. i \in Int
      OBVIOUS
    <3> QED
      BY <3>1, <1>9, <1>10
  <2> QED
    BY <2>2, <2>3, <2>4
<1>7. /\ Rank(R, p) \in Nat /\ Rank(R, q) \in Nat /\ Rank(P, p) \in Nat /\ Rank(P, h) \in Nat
      /\ Len(sh) \in Nat
  <2>1. Len(sh) \in Nat
    OBVIOUS
  <2> QED
    BY <2>1, <1>9, <1>10
<1>8. Rank(R, q) + Len(sh2) >= Rank(P, q)
  BY <1>2, <1>3, <1>4, <1>5, <1>6, <1>7
<1> QED
  BY <1>8 DEF Long, R, P

\* Where no marker begins, the text is public.
LEMMA CleanOn ==
    ASSUME NEW t \in Seq(Symbols), NEW p \in Nat, NEW m \in Nat, p <= m, m <= Len(t),
           Clean(t, p), \A i \in (p + 1)..m : ~RefAt(t, i)
    PROVE  Clean(t, m) /\ AllPublic(t, p, m)
<1>0. Len(t) \in Nat
  OBVIOUS
<1>1. ASSUME NEW i \in 1..m, RefAt(t, i)
      PROVE  i \in 1..p /\ EndOfRef(t, i) <= p /\ EndOfRef(t, i) \in Nat
  <2>1. i \in 1..p
    BY <1>1
  <2>2. i \in 1..Len(t)
    BY <1>0
  <2>3. EndOfRef(t, i) \in Nat
    BY <1>1, <2>2, RefAtFacts
  <2> QED
    BY <1>1, <2>1, <2>3 DEF Clean
<1>2. Clean(t, m)
  BY <1>1 DEF Clean
<1>3. ASSUME NEW k \in (p + 1)..m
      PROVE  k \in Public(t)
  <2>1. ASSUME NEW i \in 1..k, RefAt(t, i), k <= EndOfRef(t, i)
        PROVE  FALSE
    <3>1. i \in 1..m
      OBVIOUS
    <3> QED
      BY <3>1, <2>1, <1>1
  <2>2. k \in DOMAIN t
    BY <1>0
  <2> QED
    BY <2>1, <2>2 DEF Public, InRef
<1> QED
  BY <1>2, <1>3 DEF AllPublic

\* Nothing of a marker is public, and the next one begins behind it.
LEMMA CleanBehind ==
    ASSUME NEW t \in Seq(Symbols), NEW j \in 1..Len(t), NEW e \in Int, Marker(t, j, e),
           NEW h \in Nat, h = j - 1, Clean(t, h)
    PROVE  e \in Nat /\ j <= e /\ e <= Len(t) /\ Clean(t, e) /\ NonePublic(t, h, e)
<1>0. Len(t) \in Nat /\ j \in Nat
  OBVIOUS
<1>1. j + 5 <= e /\ e <= Len(t) /\ RefAt(t, j) /\ EndOfRef(t, j) = e
  BY MarkerFacts
<1>2. ASSUME NEW i \in 1..e, RefAt(t, i)
      PROVE  EndOfRef(t, i) <= e
  <2>1. i \in 1..Len(t)
    BY <1>0, <1>1
  <2>2. EndOfRef(t, i) \in Nat /\ Marker(t, i, EndOfRef(t, i))
    BY <1>2, <2>1, RefAtFacts
  <2>3. CASE i < j
    <3>1. i \in 1..(j - 1)
      BY <2>3, <1>0
    <3>2. EndOfRef(t, i) <= j - 1
      BY <3>1, <1>2 DEF Clean
    <3> QED
      BY <3>2, <2>2, <1>0, <1>1
  <2>4. CASE i = j
    BY <2>4, <1>1
  <2>5. CASE j < i
    <3>1. e < i
      BY <2>1, <2>2, <2>5, MarkersApart
    <3> QED
      BY <3>1
  <2> QED
    BY <2>3, <2>4, <2>5, <1>0
<1>3. ASSUME NEW k \in j..e
      PROVE  k \notin Public(t)
  <2>1. j \in 1..k /\ RefAt(t, j) /\ k <= EndOfRef(t, j)
    BY <1>0, <1>1
  <2> QED
    BY <2>1 DEF Public, InRef
<1>4. NonePublic(t, h, e)
  BY <1>0, <1>3 DEF NonePublic
<1> QED
  BY <1>0, <1>1, <1>2, <1>4 DEF Clean

-----------------------------------------------------------------------------
(* The filter, on a piece of the text.                                     *)

UpTo(t, sh, p) == Clean(t, p) /\ Matches(t, sh, p) /\ Long(t, sh, p)

LEMMA PieceOf ==
    ASSUME NEW t \in Seq(Symbols), NEW p \in Nat, NEW q \in Nat, p <= q, q <= Len(t)
    PROVE  /\ Piece(t, p, q) \in Seq(Symbols) /\ Len(Piece(t, p, q)) = q - p
           /\ DOMAIN Piece(t, p, q) = 1..(q - p)
           /\ \A k \in 1..(q - p) : Piece(t, p, q)[k] = t[p + k]
<1>1. /\ SubSeq(t, p + 1, q) \in Seq(Symbols)
      /\ Len(SubSeq(t, p + 1, q)) = IF p + 1 <= q THEN q - (p + 1) + 1 ELSE 0
      /\ \A k \in 1..(q - (p + 1) + 1) : SubSeq(t, p + 1, q)[k] = t[p + 1 + k - 1]
  BY PieceFacts
<1>2. /\ Piece(t, p, q) \in Seq(Symbols)
      /\ Len(Piece(t, p, q)) = IF p + 1 <= q THEN q - (p + 1) + 1 ELSE 0
      /\ \A k \in 1..(q - (p + 1) + 1) : Piece(t, p, q)[k] = t[p + 1 + k - 1]
  BY <1>1 DEF Piece
<1>3. q - (p + 1) + 1 = q - p /\ q - p \in Nat
  OBVIOUS
<1>4. Len(Piece(t, p, q)) = q - p
  BY <1>2, <1>3
<1>5. DOMAIN Piece(t, p, q) = 1..(q - p)
  BY <1>2, <1>4
<1>6. ASSUME NEW k \in 1..(q - p)
      PROVE  Piece(t, p, q)[k] = t[p + k]
  <2>1. k \in 1..(q - (p + 1) + 1) /\ p + 1 + k - 1 = p + k
    BY <1>3
  <2>2. Piece(t, p, q)[k] = t[p + 1 + k - 1]
    BY <2>1, <1>2
  <2> QED
    BY <2>1, <2>2
<1> QED
  BY <1>2, <1>4, <1>5, <1>6

LEMMA PieceOfPiece ==
    ASSUME NEW t \in Seq(Symbols), NEW p \in Nat, NEW q \in Nat, p <= q, q <= Len(t),
           NEW f \in Nat, NEW b \in Nat, b <= q - p,
           NEW c \in Nat, c = p + f, NEW d \in Nat, d = p + b
    PROVE  Piece(Piece(t, p, q), f, b) = Piece(t, c, d)
<1> DEFINE z == Piece(t, p, q)
           a == f + 1
           x == SubSeq(z, a, b)
           g == c + 1
           y == SubSeq(t, g, d)
<1>0. Len(t) \in Nat
  OBVIOUS
<1>1. z \in Seq(Symbols) /\ Len(z) = q - p /\ \A k \in 1..(q - p) : z[k] = t[p + k]
  BY PieceOf
<1>9. a \in Nat \ {0} /\ g \in Nat \ {0} /\ g = p + a /\ d = p + b
  OBVIOUS
<1> HIDE DEF z, a, g
<1>2. /\ x \in Seq(Symbols) /\ Len(x) = IF a <= b THEN b - a + 1 ELSE 0
      /\ \A k \in 1..(b - a + 1) : x[k] = z[a + k - 1]
  BY <1>1, <1>9, PieceFacts
<1>3. d <= Len(t)
  BY <1>0, <1>9
<1>4. /\ y \in Seq(Symbols) /\ Len(y) = IF g <= d THEN d - g + 1 ELSE 0
      /\ \A k \in 1..(d - g + 1) : y[k] = t[g + k - 1]
  BY <1>3, <1>9, PieceFacts
<1> HIDE DEF x, y
<1>5. Len(x) = Len(y) /\ Len(x) \in Nat
  BY <1>2, <1>4, <1>9
<1>6. ASSUME NEW k \in 1..Len(x)
      PROVE  x[k] = y[k]
  <2>1. /\ k \in 1..(b - a + 1) /\ k \in 1..(d - g + 1)
        /\ a + k - 1 \in 1..(q - p) /\ p + (a + k - 1) = g + k - 1
    BY <1>2, <1>9
  <2>2. x[k] = z[a + k - 1] /\ y[k] = t[g + k - 1]
    BY <2>1, <1>2, <1>4
  <2>3. z[a + k - 1] = t[p + (a + k - 1)]
    BY <2>1, <1>1
  <2> QED
    BY <2>1, <2>2, <2>3
<1>7. x = [k \in 1..Len(x) |-> x[k]] /\ y = [k \in 1..Len(x) |-> y[k]]
  <2>1. x \in Seq(Symbols) /\ y \in Seq(Symbols)
    BY <1>2, <1>4
  <2> QED
    BY <2>1, <1>5
<1>8. x = y
  BY <1>6, <1>7
<1> QED
  BY <1>8 DEF x, y, z, a, g, Piece

LEMMA EndOfPiece ==
    ASSUME NEW t \in Seq(Symbols), NEW p \in Nat, NEW q \in Nat, p <= q, q <= Len(t),
           NEW f \in Nat, f <= q - p, NEW c \in Nat, c = p + f
    PROVE  Piece(Piece(t, p, q), f, Len(Piece(t, p, q))) = Piece(t, c, q)
<1> DEFINE b == q - p
<1>1. b \in Nat /\ b <= q - p /\ q = p + b
  OBVIOUS
<1>2. Len(Piece(t, p, q)) = b
  BY PieceOf
<1> HIDE DEF b
<1>3. Piece(Piece(t, p, q), f, b) = Piece(t, c, q)
  BY <1>1, PieceOfPiece
<1> QED
  BY <1>2, <1>3

\* A piece has the markers of the text that end in it.
LEMMA RefsOfPiece ==
    ASSUME NEW t \in Seq(Symbols), NEW p \in Nat, NEW q \in Nat, p <= q, q <= Len(t),
           NEW i \in 1..(q - p), NEW j, j = p + i
    PROVE  LET piece == Piece(t, p, q)
           IN  /\ j \in 1..Len(t)
               /\ RefAt(piece, i) =>
                    /\ RefAt(t, j) /\ EndOfRef(piece, i) \in Nat
                    /\ i <= EndOfRef(piece, i) /\ EndOfRef(piece, i) <= q - p
                    /\ EndOfRef(t, j) = p + EndOfRef(piece, i)
                    /\ Marker(t, j, p + EndOfRef(piece, i))
               /\ RefAt(t, j) /\ EndOfRef(t, j) <= q => RefAt(piece, i)
<1> DEFINE piece == Piece(t, p, q)
<1>0. Len(t) \in Nat /\ p + i \in 1..Len(t)
  OBVIOUS
<1>1. piece \in Seq(Symbols) /\ Len(piece) = q - p /\ i \in 1..Len(piece)
  BY PieceOf
<1> HIDE DEF piece
<1>2. ASSUME RefAt(piece, i)
      PROVE  /\ RefAt(t, p + i) /\ EndOfRef(piece, i) \in Nat
             /\ i <= EndOfRef(piece, i) /\ EndOfRef(piece, i) <= q - p
             /\ EndOfRef(t, p + i) = p + EndOfRef(piece, i)
             /\ Marker(t, p + i, p + EndOfRef(piece, i))
  <2> DEFINE e == EndOfRef(piece, i)
  <2>1. e \in Nat /\ Marker(piece, i, e)
    BY <1>1, <1>2, RefAtFacts
  <2> HIDE DEF e
  <2>2. e \in Int /\ p + e \in Int
    BY <2>1
  <2>3. i + 5 <= e
    BY <1>1, <2>1, <2>2, MarkerFacts
  <2>4. e <= q - p /\ Marker(t, p + i, p + e)
    BY <2>1, <2>2, MarkersOfPiece DEF piece, Piece
  <2>5. RefAt(t, p + i) /\ EndOfRef(t, p + i) = p + e
    BY <1>0, <2>2, <2>4, MarkerFacts
  <2> QED
    BY <2>1, <2>3, <2>4, <2>5 DEF e
<1>3. ASSUME RefAt(t, p + i), EndOfRef(t, p + i) <= q
      PROVE  RefAt(piece, i)
  <2> DEFINE e == EndOfRef(t, p + i)
             d == e - p
  <2>1. e \in Nat /\ Marker(t, p + i, e)
    BY <1>0, <1>3, RefAtFacts
  <2>2. d \in Int /\ p + d = e /\ d <= q - p
    BY <2>1, <1>3
  <2> HIDE DEF d, e
  <2>3. Marker(piece, i, d)
    BY <2>1, <2>2, MarkersOfPiece DEF piece, Piece
  <2> QED
    BY <2>2, <2>3, <1>1, MarkerFacts
<1> QED
  BY <1>0, <1>2, <1>3 DEF piece

LEMMA FirstRefFacts ==
    ASSUME NEW s \in Seq(Symbols), HasRef(s)
    PROVE  /\ FirstRef(s) \in 1..Len(s) /\ RefAt(s, FirstRef(s))
           /\ \A h \in 1..(FirstRef(s) - 1) : ~RefAt(s, h)
<1> DEFINE R == {i \in DOMAIN s : RefAt(s, i)}
<1>0. Len(s) \in Nat /\ DOMAIN s = 1..Len(s)
  OBVIOUS
<1>1. R \subseteq Nat /\ R # {}
  BY <1>0 DEF HasRef
<1>2. PICK i \in R : \A k \in R : i <= k
  <2> HIDE DEF R
  <2> QED
    BY <1>1, LeastNat
<1>3. ASSUME NEW h \in 1..(i - 1)
      PROVE  ~RefAt(s, h)
  <2>1. h \in 1..Len(s) /\ ~(i <= h)
    BY <1>0
  <2>2. h \notin R
    BY <2>1, <1>2
  <2> QED
    BY <2>1, <2>2, <1>0
<1>4. \E j \in DOMAIN s : RefAt(s, j) /\ \A h \in 1..(j - 1) : ~RefAt(s, h)
  BY <1>2, <1>3
<1> DEFINE f == FirstRef(s)
<1>5. f \in DOMAIN s /\ RefAt(s, f) /\ \A h \in 1..(f - 1) : ~RefAt(s, h)
  BY <1>4 DEF FirstRef
<1> QED
  BY <1>0, <1>5

LEMMA HeldFromFacts ==
    ASSUME NEW s \in Seq(Symbols)
    PROVE  HeldFrom(s) \in 1..(Len(s) + 1) /\ \A i \in PartialStarts(s) : HeldFrom(s) <= i
<1> DEFINE P == PartialStarts(s)
<1>0. Len(s) \in Nat /\ P \in SUBSET (1..Len(s)) /\ P \subseteq Nat
  BY DEF PartialStarts
<1>1. CASE P = {}
  BY <1>0, <1>1 DEF HeldFrom
<1>2. CASE P # {}
  <2> DEFINE i == CHOOSE i \in P : \A j \in P : i <= j
  <2>1. \E k \in P : \A j \in P : k <= j
    <3> HIDE DEF P
    <3> QED
      BY <1>0, <1>2, LeastNat
  <2>2. i \in P /\ \A j \in P : i <= j
    BY <2>1
  <2>3. HeldFrom(s) = IF i > 1 /\ s[i - 1] = Space THEN i - 1 ELSE i
    BY <1>2 DEF HeldFrom
  <2> HIDE DEF P, i
  <2>4. i \in 1..Len(s)
    BY <2>2, <1>0
  <2>5. HeldFrom(s) \in 1..(Len(s) + 1) /\ HeldFrom(s) <= i
    BY <2>3, <2>4, <1>0
  <2>6. \A j \in P : j \in Int
    BY <1>0
  <2> QED
    BY <2>2, <2>4, <2>5, <2>6 DEF P
<1> QED
  BY <1>1, <1>2

\* What is shown before a marker: the text, or all but a space at its end.
LEMMA BeforeRefFacts ==
    ASSUME NEW t \in Seq(Symbols), NEW p \in Nat, NEW h \in Nat, p <= h, h <= Len(t)
    PROVE  \E m \in p..h :
              /\ BeforeRef(Piece(t, p, h)) = Piece(t, p, m)
              /\ m = h \/ (m = h - 1 /\ t[h] = Space)
<1> DEFINE x == Piece(t, p, h)
<1>1. x \in Seq(Symbols) /\ Len(x) = h - p /\ \A k \in 1..(h - p) : x[k] = t[p + k]
  BY PieceOf
<1> HIDE DEF x
<1>2. CASE x # <<>> /\ Last(x) = Space
  <2> DEFINE n == h - p - 1
             m == h - 1
  <2>1. h - p \in 1..(h - p) /\ p + (h - p) = h
    <3>1. Len(x) # 0
      BY <1>1, <1>2
    <3> QED
      BY <3>1, <1>1
  <2>2. t[h] = Space
    <3>1. x[h - p] = Space
      BY <1>1, <1>2 DEF Last
    <3>2. x[h - p] = t[p + (h - p)]
      BY <2>1, <1>1
    <3> QED
      BY <2>1, <3>1, <3>2
  <2>3. BeforeRef(x) = SubSeq(x, 1, n)
    BY <1>1, <1>2 DEF BeforeRef, Front
  <2>4. /\ n \in Nat /\ n <= h - p /\ m \in Nat /\ m = p + n /\ 0 \in Nat /\ p = p + 0
        /\ m \in p..h /\ m = h - 1
    BY <2>1
  <2> HIDE DEF n, m
  <2>5. SubSeq(x, 1, n) = Piece(t, p, m)
    <3>1. Piece(x, 0, n) = Piece(t, p, m)
      BY <2>4, PieceOfPiece DEF x
    <3>2. Piece(x, 0, n) = SubSeq(x, 0 + 1, n)
      BY DEF Piece
    <3>3. 0 + 1 = 1
      OBVIOUS
    <3> QED
      BY <3>1, <3>2, <3>3, Zenon
  <2> QED
    BY <2>2, <2>3, <2>4, <2>5 DEF x
<1>3. CASE ~(x # <<>> /\ Last(x) = Space)
  <2>1. BeforeRef(x) = x
    BY <1>3 DEF BeforeRef
  <2>2. h \in p..h
    OBVIOUS
  <2> QED
    BY <2>1, <2>2 DEF x
<1> QED
  BY <1>2, <1>3

LEMMA Dropped ==
    ASSUME NEW t \in Seq(Symbols), NEW sh \in Seq(Symbols), NEW p \in Nat, NEW q \in Nat,
           p <= q, q <= Len(t), UpTo(t, sh, p), HasRef(Piece(t, p, q))
    PROVE  LET piece == Piece(t, p, q)
               i     == FirstRef(piece)
               sh2   == sh \o BeforeRef(SubSeq(piece, 1, i - 1))
           IN  \E r \in 0..q :
                  /\ sh2 \in Seq(Symbols) /\ UpTo(t, sh2, r)
                  /\ Suffix(piece, EndOfRef(piece, i) + 1) = Piece(t, r, q)
<1> DEFINE piece == Piece(t, p, q)
           i == FirstRef(piece)
           sh2 == sh \o BeforeRef(SubSeq(piece, 1, i - 1))
           e == EndOfRef(piece, i)
           j == p + i
           g == i - 1
           h == j - 1
           r == p + e
<1>1. piece \in Seq(Symbols) /\ Len(piece) = q - p /\ Len(t) \in Nat
  BY PieceOf
<1>2. i \in 1..(q - p) /\ RefAt(piece, i) /\ \A k \in 1..(i - 1) : ~RefAt(piece, k)
  <2> HIDE DEF piece
  <2>1. HasRef(piece)
    BY DEF piece
  <2> QED
    BY <2>1, <1>1, FirstRefFacts
<1> HIDE DEF i, piece
<1>3. /\ j \in 1..Len(t) /\ RefAt(t, j) /\ e \in Nat /\ i <= e /\ e <= q - p
      /\ Marker(t, j, r) /\ EndOfRef(t, j) = r
  <2>1. j = p + i
    OBVIOUS
  <2> HIDE DEF j
  <2> QED
    BY <1>2, <2>1, RefsOfPiece DEF piece
<1> HIDE DEF e
<1>4. /\ h \in Nat /\ p <= h /\ h <= Len(t) /\ h < q /\ r \in Nat /\ r <= q /\ h < r /\ j \in Nat
      /\ g \in Nat /\ g <= q - p /\ h = p + g /\ h + 1 = j /\ h = j - 1 /\ r \in Int /\ r <= Len(t)
      /\ j = p + i /\ g = i - 1 /\ r = p + e /\ i \in Nat /\ j <= r /\ r \in 0..q
  BY <1>1, <1>2, <1>3
<1> HIDE DEF g, h, r, j
<1>5. ASSUME NEW k \in (p + 1)..h
      PROVE  ~RefAt(t, k)
  <2> SUFFICES ASSUME RefAt(t, k)
               PROVE  FALSE
    OBVIOUS
  <2> DEFINE d == k - p
             f == EndOfRef(t, k)
  <2>1. d \in 1..(i - 1) /\ d \in 1..(q - p) /\ k = p + d /\ k < j /\ k \in 1..Len(t)
    BY <1>2, <1>4, <1>1
  <2> HIDE DEF d
  <2>2. f \in Nat /\ Marker(t, k, f)
    BY <2>1, RefAtFacts
  <2> HIDE DEF f
  <2>3. f < j
    <3>1. f \in Int
      BY <2>2
    <3> QED
      BY <1>3, <1>4, <2>1, <2>2, <3>1, MarkersApart
  <2>4. f <= q
    BY <2>2, <2>3, <1>4
  <2>5. RefAt(piece, d)
    BY <2>1, <2>4, RefsOfPiece DEF piece, f
  <2> QED
    BY <2>1, <2>5, <1>2
<1>6. Clean(t, h) /\ AllPublic(t, p, h)
  BY <1>4, <1>5, CleanOn DEF UpTo
<1>7. Clean(t, r) /\ NonePublic(t, h, r)
  BY <1>3, <1>4, <1>6, CleanBehind
<1>8. PICK m \in p..h : /\ BeforeRef(Piece(t, p, h)) = Piece(t, p, m)
                        /\ m = h \/ (m = h - 1 /\ t[h] = Space)
  <2>1. h \in Nat /\ p <= h /\ h <= Len(t)
    BY <1>4
  <2> QED
    BY <2>1, BeforeRefFacts
<1>9. sh2 = sh \o Piece(t, p, m)
  <2>1. 0 \in Nat /\ h = p + g /\ p = p + 0
    BY <1>4
  <2>3. Piece(piece, 0, g) = Piece(t, p, h)
    BY <2>1, <1>4, PieceOfPiece DEF piece
  <2>2. SubSeq(piece, 1, g) = Piece(t, p, h)
    <3>1. Piece(piece, 0, g) = SubSeq(piece, 0 + 1, g)
      BY DEF Piece
    <3>2. 0 + 1 = 1
      OBVIOUS
    <3> QED
      BY <2>3, <3>1, <3>2, Zenon
  <2> QED
    BY <2>2, <1>8 DEF g
<1> HIDE DEF sh2
<1>10. m \in Nat /\ p <= m /\ m <= h /\ h <= m + 1 /\ m <= r
  <2>1. m \in Nat /\ p <= m /\ m <= h
    BY <1>4, <1>8
  <2> QED
    BY <2>1, <1>4, <1>8
<1>11. AllPublic(t, p, m)
  BY <1>6, <1>10, <1>4 DEF AllPublic
<1>12. OnlySpace(t, m, r)
  <2>1. ASSUME NEW k \in (m + 1)..r, k \in Public(t)
        PROVE  t[k] = Space
    <3>1. k \in Int /\ k <= r /\ m < k
      BY <1>10, <1>4
    <3>2. k <= h
      BY <3>1, <2>1, <1>4, <1>7 DEF NonePublic
    <3>3. k = h /\ m = h - 1
      BY <3>1, <3>2, <1>4, <1>8, <1>10
    <3> QED
      BY <3>3, <1>8, <1>4
  <2> QED
    BY <2>1 DEF OnlySpace
<1>13. sh2 \in Seq(Symbols) /\ Len(sh2) = Len(sh) + (m - p) /\ Matches(t, sh2, r)
  BY <1>4, <1>9, <1>10, <1>11, <1>12, ShowMore DEF UpTo
<1>14. Long(t, sh2, r)
  <2>1. j \in (p + 1)..r /\ j \in RefsIn(t)
    BY <1>3, <1>4, <1>2 DEF RefsIn
  <2>2. h > m => \E k \in (p + 1)..r : k \in RefsIn(t)
    BY <2>1
  <2>3. h <= r
    BY <1>4
  <2> QED
    BY <1>4, <1>7, <1>10, <1>13, <2>2, <2>3, LongMore DEF UpTo
<1>15. Suffix(piece, e + 1) = Piece(t, r, q)
  <2>1. e \in Nat /\ e <= q - p /\ r \in Nat /\ r = p + e
    BY <1>3, <1>4
  <2>2. Piece(piece, e, Len(piece)) = Piece(t, r, q)
    BY <2>1, EndOfPiece DEF piece
  <2> QED
    BY <2>2 DEF Suffix, Piece
<1> QED
  BY <1>4, <1>7, <1>13, <1>14, <1>15 DEF UpTo, e, sh2, i, piece

\* A piece without markers has none further on.
LEMMA NoRefBehind ==
    ASSUME NEW t \in Seq(Symbols), NEW p \in Nat, NEW r \in Nat, NEW q \in Nat,
           p <= r, r <= q, q <= Len(t), ~HasRef(Piece(t, p, q))
    PROVE  ~HasRef(Piece(t, r, q))
<1> DEFINE x == Piece(t, p, q)
           y == Piece(t, r, q)
<1>1. x \in Seq(Symbols) /\ Len(x) = q - p /\ DOMAIN x = 1..(q - p)
  <2>1. p <= q
    OBVIOUS
  <2> QED
    BY <2>1, PieceOf
<1>2. y \in Seq(Symbols) /\ Len(y) = q - r /\ DOMAIN y = 1..(q - r)
  BY PieceOf
<1> SUFFICES ASSUME NEW i \in DOMAIN y, RefAt(y, i)
             PROVE  FALSE
  BY DEF HasRef
<1> HIDE DEF x, y
<1> DEFINE j == r + i
           k == j - p
<1>3. i \in 1..(q - r) /\ j = r + i
  BY <1>2
<1>4. k \in 1..(q - p) /\ j = p + k
  BY <1>3
<1> HIDE DEF j, k
<1>5. /\ RefAt(t, j) /\ EndOfRef(y, i) \in Nat /\ EndOfRef(y, i) <= q - r
      /\ EndOfRef(t, j) = r + EndOfRef(y, i)
  BY <1>3, RefsOfPiece DEF y
<1>6. EndOfRef(t, j) <= q
  BY <1>5
<1>7. RefAt(x, k)
  BY <1>4, <1>5, <1>6, RefsOfPiece DEF x
<1> QED
  BY <1>1, <1>4, <1>7 DEF HasRef, x

LEMMA Settled ==
    ASSUME NEW t \in Seq(Symbols), NEW sh \in Seq(Symbols), NEW p \in Nat, NEW q \in Nat,
           p <= q, q <= Len(t), UpTo(t, sh, p), ~HasRef(Piece(t, p, q))
    PROVE  LET piece == Piece(t, p, q)
               sh2   == sh \o SubSeq(piece, 1, HeldFrom(piece) - 1)
           IN  \E r \in 0..q :
                  /\ sh2 \in Seq(Symbols) /\ UpTo(t, sh2, r)
                  /\ Suffix(piece, HeldFrom(piece)) = Piece(t, r, q)
                  /\ ~HasRef(Piece(t, r, q))
<1> DEFINE piece == Piece(t, p, q)
           sh2 == sh \o SubSeq(piece, 1, HeldFrom(piece) - 1)
           h == HeldFrom(piece)
           g == h - 1
           b == q - p
           r == p + g
<1>1. /\ piece \in Seq(Symbols) /\ Len(piece) = q - p /\ DOMAIN piece = 1..(q - p)
      /\ Len(t) \in Nat
  <2>1. piece \in Seq(Symbols) /\ Len(piece) = q - p /\ DOMAIN piece = 1..(q - p)
    BY PieceOf
  <2>2. Len(t) \in Nat
    OBVIOUS
  <2> QED
    BY <2>1, <2>2
<1> HIDE DEF piece
<1>2. h \in 1..(q - p + 1) /\ \A i \in PartialStarts(piece) : h <= i
  BY <1>1, HeldFromFacts
<1> HIDE DEF h
<1>3. /\ r \in Nat /\ p <= r /\ r <= q /\ r <= Len(t) /\ g \in Nat /\ g <= q - p
      /\ r = p + g /\ h = g + 1 /\ h \in Nat \ {0} /\ b \in Nat /\ q = p + b /\ g = h - 1
      /\ b <= q - p /\ b = Len(piece) /\ r \in 0..q
  BY <1>1, <1>2
<1> HIDE DEF r, g, b
<1>4. ASSUME NEW i \in (p + 1)..r
      PROVE  ~RefAt(t, i)
  <2>0. SUFFICES ASSUME RefAt(t, i)
                 PROVE  FALSE
    OBVIOUS
  <2> DEFINE k == i - p
             e == EndOfRef(t, i)
             f == k - 1
             c == i - 1
  <2>1. /\ k \in 1..(q - p) /\ i = p + k /\ k < h /\ i \in 1..Len(t) /\ i <= q /\ c \in Nat
        /\ c = p + f /\ f \in Nat /\ f <= q - p /\ k = f + 1 /\ i = c + 1
    BY <1>1, <1>3
  <2>2. e \in Nat /\ Marker(t, i, e)
    BY <2>0, <2>1, RefAtFacts
  <2> HIDE DEF f, k, e, c
  <2>3. CASE e <= q
    <3>1. RefAt(piece, k)
      <4>1. EndOfRef(t, i) <= q
        BY <2>3 DEF e
      <4>2. k \in 1..(q - p) /\ i = p + k
        BY <2>1
      <4> QED
        BY <2>0, <4>1, <4>2, RefsOfPiece DEF piece
    <3> QED
      BY <3>1, <2>1, <1>1 DEF HasRef, piece
  <2>4. CASE ~(e <= q)
    <3>1. q \in i..(e - 1) /\ e \in Int
      BY <2>1, <2>2, <2>4
    <3>2. IsPartialRef(SubSeq(t, i, q))
      BY <2>1, <2>2, <3>1, CutMarker
    <3>3. Suffix(piece, k) = SubSeq(t, i, q)
      <4>1. Piece(piece, f, Len(piece)) = Piece(t, c, q)
        <5>1. f \in Nat /\ f <= q - p /\ c \in Nat /\ c = p + f
          BY <2>1
        <5> QED
          BY <5>1, EndOfPiece DEF piece
      <4> QED
        BY <4>1, <2>1, <1>3 DEF Suffix, Piece
    <3>4. k \in PartialStarts(piece)
      BY <3>2, <3>3, <2>1, <1>1 DEF PartialStarts
    <3> QED
      BY <3>4, <2>1, <1>2, <1>3
  <2> QED
    BY <2>3, <2>4
<1>5. Clean(t, r) /\ AllPublic(t, p, r)
  BY <1>3, <1>4, CleanOn DEF UpTo
<1>6. sh2 = sh \o Piece(t, p, r)
  <2>1. 0 \in Nat /\ r = p + g /\ p = p + 0
    BY <1>3
  <2>3. Piece(piece, 0, g) = Piece(t, p, r)
    BY <2>1, <1>3, PieceOfPiece DEF piece
  <2>2. SubSeq(piece, 1, g) = Piece(t, p, r)
    <3>1. Piece(piece, 0, g) = SubSeq(piece, 0 + 1, g)
      BY DEF Piece
    <3>2. 0 + 1 = 1
      OBVIOUS
    <3> QED
      BY <2>3, <3>1, <3>2, Zenon
  <2> QED
    BY <2>2 DEF h, g
<1> HIDE DEF sh2
<1>7. OnlySpace(t, r, r) /\ NonePublic(t, r, r) /\ r <= r + 1 /\ r <= r /\ ~(r > r)
  BY <1>3 DEF OnlySpace, NonePublic
<1>8. sh2 \in Seq(Symbols) /\ Len(sh2) = Len(sh) + (r - p) /\ Matches(t, sh2, r)
  <2>1. r \in Nat /\ p <= r /\ r <= r /\ r <= Len(t) /\ Matches(t, sh, p)
    BY <1>3 DEF UpTo
  <2> QED
    BY <2>1, <1>5, <1>6, <1>7, ShowMore
<1>9. Long(t, sh2, r)
  BY <1>3, <1>7, <1>8, LongMore DEF UpTo
<1>10. Suffix(piece, h) = Piece(t, r, q)
  <2>1. g \in Nat /\ g <= q - p /\ r \in Nat /\ r = p + g
    BY <1>3
  <2>2. Piece(piece, g, Len(piece)) = Piece(t, r, q)
    BY <2>1, EndOfPiece DEF piece
  <2> QED
    BY <2>2, <1>3 DEF Suffix, Piece
<1>11. ~HasRef(Piece(t, r, q))
  BY <1>3, NoRefBehind
<1> QED
  BY <1>3, <1>5, <1>8, <1>9, <1>10, <1>11 DEF UpTo, h, sh2, piece

LEMMA EmptyIsNoPartialRef == ~IsPartialRef(<<>>)
<1>1. OpenRef \in Seq({"["}) /\ Len(OpenRef) = 2
  BY DEF OpenRef
<1>2. ~IsPrefix(OpenRef, <<>>)
  <2>1. <<>> \in Seq({"["}) /\ Len(<<>>) = 0
    OBVIOUS
  <2>2. ~(Len(OpenRef) <= Len(<<>>))
    BY <1>1, <2>1
  <2> QED
    BY <1>1, <2>1, <2>2, PrefixFacts
<1>3. <<>> # <<"[">>
  OBVIOUS
<1> QED
  BY <1>2, <1>3 DEF IsPartialRef

LEMMA FinishedText ==
    ASSUME NEW t \in Seq(Symbols), NEW sh \in Seq(Symbols), NEW p \in Nat, NEW q \in Nat,
           p <= q, q = Len(t), UpTo(t, sh, p), ~HasRef(Piece(t, p, q))
    PROVE  LET piece == Piece(t, p, q)
           IN  /\ sh \o piece \in Seq(Symbols) /\ UpTo(t, sh \o piece, q)
               /\ IsPartialRef(piece) => PartialStarts(t) # {}
<1> DEFINE piece == Piece(t, p, q)
           sh2   == sh \o piece
<1>1. piece \in Seq(Symbols) /\ Len(piece) = q - p /\ DOMAIN piece = 1..(q - p) /\ DOMAIN t = 1..q
  <2>1. q <= Len(t) /\ DOMAIN t = 1..q
    OBVIOUS
  <2> QED
    BY <2>1, PieceOf
<1> HIDE DEF piece
<1>2. ASSUME NEW i \in (p + 1)..q
      PROVE  ~RefAt(t, i)
  <2> SUFFICES ASSUME RefAt(t, i)
               PROVE  FALSE
    OBVIOUS
  <2> DEFINE k == i - p
             e == EndOfRef(t, i)
  <2>1. k \in 1..(q - p) /\ i = p + k /\ i \in 1..Len(t) /\ q <= Len(t)
    OBVIOUS
  <2>2. e \in Nat /\ Marker(t, i, e)
    BY <2>1, RefAtFacts
  <2> HIDE DEF k, e
  <2>3. e <= q
    BY <2>1, <2>2, MarkerFacts
  <2>4. RefAt(piece, k)
    BY <2>1, <2>3, RefsOfPiece DEF piece, e
  <2> QED
    BY <2>1, <2>4, <1>1 DEF HasRef, piece
<1>3. Clean(t, q) /\ AllPublic(t, p, q)
  <2>1. q <= Len(t)
    OBVIOUS
  <2> QED
    BY <2>1, <1>2, CleanOn DEF UpTo
<1>4. /\ OnlySpace(t, q, q) /\ NonePublic(t, q, q) /\ q <= q + 1 /\ q <= q /\ ~(q > q)
      /\ q <= Len(t) /\ sh2 = sh \o Piece(t, p, q)
  BY DEF OnlySpace, NonePublic, piece
<1> HIDE DEF sh2
<1>5. sh2 \in Seq(Symbols) /\ Len(sh2) = Len(sh) + (q - p) /\ Matches(t, sh2, q)
  BY <1>3, <1>4, ShowMore DEF UpTo
<1>6. Long(t, sh2, q)
  BY <1>4, <1>5, LongMore DEF UpTo
<1>7. ASSUME IsPartialRef(piece)
      PROVE  PartialStarts(t) # {}
  <2>1. piece # <<>>
    BY <1>7, EmptyIsNoPartialRef
  <2>2. p + 1 \in 1..q
    <3>1. Len(piece) # 0
      BY <2>1, <1>1
    <3> QED
      BY <3>1, <1>1
  <2>3. Suffix(t, p + 1) = piece
    BY DEF Suffix, piece, Piece
  <2>4. p + 1 \in PartialStarts(t)
    BY <1>1, <1>7, <2>2, <2>3 DEF PartialStarts
  <2> QED
    BY <2>4
<1> QED
  BY <1>3, <1>5, <1>6, <1>7 DEF UpTo, piece, sh2

-----------------------------------------------------------------------------
(* The filter at work.                                                     *)

\* What is shown stands for the first p symbols of the text, and what is pending is the
\* rest of what has been sent.
ShownUpTo(p) ==
    /\ UpTo(text, shown, p)
    /\ pc \in {"wait", "filter"} => pending = Piece(text, p, sent)
    /\ pc = "wait" => ~HasRef(pending)
    /\ pc = "done" => sent = Len(text) /\ (PartialStarts(text) = {} => p = Len(text))

StreamInv ==
    /\ pc \in {"wait", "filter", "done", "failed"}
    /\ text \in Texts /\ sent \in 0..Len(text)
    /\ received = Piece(text, 0, sent) /\ shown \in Seq(Symbols)
    /\ \E p \in 0..sent : ShownUpTo(p)

LEMMA TextFacts ==
    ASSUME NEW t \in Texts
    PROVE  t \in Seq(Symbols) /\ Len(t) \in Nat
BY ConstantsAssumption

LEMMA EmptyPiece ==
    ASSUME NEW t \in Seq(Symbols)
    PROVE  Piece(t, 0, 0) = <<>>
<1>1. 0 \in Nat /\ 0 <= 0 /\ 0 <= Len(t) /\ 0 - 0 = 0
  OBVIOUS
<1>2. Piece(t, 0, 0) \in Seq(Symbols) /\ Len(Piece(t, 0, 0)) = 0 - 0
  BY <1>1, PieceOf
<1>3. Piece(t, 0, 0) \in Seq(Symbols) /\ Len(Piece(t, 0, 0)) = 0
  BY <1>1, <1>2
<1> QED
  BY <1>3

LEMMA NothingUpTo ==
    ASSUME NEW t \in Seq(Symbols), NEW sh \in Seq(Symbols), WordsIn(sh) = {}
    PROVE  UpTo(t, sh, 0)
<1>1. Clean(t, 0)
  BY DEF Clean
<1>2. WordsUpTo(t, 0) = {}
  BY DEF WordsUpTo
<1>3. Matches(t, sh, 0)
  <2>1. [k \in {} |-> k] \in [{} -> {}]
    OBVIOUS
  <2>2. Corresponds(sh, {}, t, {})
    BY <2>1 DEF Corresponds
  <2> QED
    BY <1>2, <2>2 DEF Matches
<1>4. Long(t, sh, 0)
  <2>1. Len(t) \in Nat /\ RefsIn(t) \in SUBSET (1..Len(t)) /\ Public(t) \in SUBSET (1..Len(t))
    BY PositionFacts
  <2>2. Rank(RefsIn(t), 0) = 0 /\ Rank(Public(t), 0) = 0
    BY <2>1, RankEnds
  <2>3. Len(sh) \in Nat
    OBVIOUS
  <2> QED
    BY <2>2, <2>3 DEF Long
<1> QED
  BY <1>1, <1>3, <1>4 DEF UpTo

\* Nothing is shown of nothing but spaces.
LEMMA NothingShown ==
    ASSUME NEW t \in Seq(Symbols), NEW sh \in Seq(Symbols), UpTo(t, sh, 0)
    PROVE  WordsIn(sh) = {}
<1>1. WordsUpTo(t, 0) = {}
  BY DEF WordsUpTo
<1> QED
  BY <1>1 DEF UpTo, Matches, Corresponds

\* A piece and the next one.
LEMMA NextPiece ==
    ASSUME NEW t \in Seq(Symbols), NEW p \in Nat, NEW q \in Nat, NEW r \in Nat,
           p <= q, q <= r, r <= Len(t)
    PROVE  Piece(t, p, q) \o Piece(t, q, r) = Piece(t, p, r)
<1> DEFINE a == Piece(t, p, q)
           b == Piece(t, q, r)
           c == Piece(t, p, r)
           z == a \o b
<1>0. q <= Len(t) /\ p <= r
  OBVIOUS
<1>1. a \in Seq(Symbols) /\ Len(a) = q - p /\ \A k \in 1..(q - p) : a[k] = t[p + k]
  BY <1>0, PieceOf
<1>2. b \in Seq(Symbols) /\ Len(b) = r - q /\ \A k \in 1..(r - q) : b[k] = t[q + k]
  BY PieceOf
<1>3. c \in Seq(Symbols) /\ Len(c) = r - p /\ \A k \in 1..(r - p) : c[k] = t[p + k]
  BY <1>0, PieceOf
<1> HIDE DEF a, b, c
<1>4. /\ z \in Seq(Symbols) /\ Len(z) = Len(a) + Len(b)
      /\ \A k \in 1..(Len(a) + Len(b)) : z[k] = IF k <= Len(a) THEN a[k] ELSE b[k - Len(a)]
  BY <1>1, <1>2, ConcatProperties
<1> HIDE DEF z
<1>5. Len(z) = Len(c) /\ Len(z) = r - p
  BY <1>1, <1>2, <1>3, <1>4
<1>6. ASSUME NEW k \in 1..(r - p)
      PROVE  z[k] = c[k]
  <2>1. c[k] = t[p + k]
    BY <1>3
  <2>2. CASE k <= q - p
    <3>1. k \in 1..(q - p) /\ z[k] = a[k]
      BY <2>2, <1>1, <1>2, <1>4
    <3> QED
      BY <2>1, <3>1, <1>1
  <2>3. CASE ~(k <= q - p)
    <3> DEFINE d == k - (q - p)
    <3>1. d \in 1..(r - q) /\ q + d = p + k
      BY <2>3
    <3>2. z[k] = b[d]
      BY <2>3, <1>1, <1>2, <1>4
    <3> HIDE DEF d
    <3>3. b[d] = t[q + d]
      BY <3>1, <1>2
    <3> QED
      BY <2>1, <3>1, <3>2, <3>3
  <2> QED
    BY <2>2, <2>3
<1>7. z = [k \in 1..(r - p) |-> z[k]] /\ c = [k \in 1..(r - p) |-> c[k]]
  BY <1>3, <1>4, <1>5
<1>8. z = c
  BY <1>6, <1>7
<1> QED
  BY <1>8 DEF z, a, b, c

LEMMA StreamInvInit == StreamInit => StreamInv
<1> SUFFICES ASSUME StreamInit PROVE StreamInv
  OBVIOUS
<1>1. text \in Texts /\ text \in Seq(Symbols) /\ Len(text) \in Nat /\ sent = 0 /\ shown = <<>>
  BY TextFacts DEF StreamInit
<1>2. received = Piece(text, 0, 0) /\ pending = Piece(text, 0, 0)
  BY <1>1, EmptyPiece DEF StreamInit
<1>3. UpTo(text, shown, 0)
  <2>1. shown \in Seq(Symbols) /\ WordsIn(shown) = {}
    BY <1>1 DEF WordsIn
  <2> QED
    BY <1>1, <2>1, NothingUpTo
<1>4. ~HasRef(pending)
  BY DEF StreamInit, HasRef
<1>5. pc = "wait" /\ 0 \in 0..sent /\ sent \in 0..Len(text) /\ shown \in Seq(Symbols)
  BY <1>1 DEF StreamInit
<1> QED
  BY <1>1, <1>2, <1>3, <1>4, <1>5 DEF StreamInv, ShownUpTo

LEMMA StreamStep == StreamInv /\ [StreamNext]_streamVars => StreamInv'
<1> SUFFICES ASSUME StreamInv, [StreamNext]_streamVars PROVE StreamInv'
  OBVIOUS
<1>1. /\ text \in Texts /\ text \in Seq(Symbols) /\ Len(text) \in Nat /\ sent \in Nat
      /\ sent <= Len(text) /\ received = Piece(text, 0, sent) /\ shown \in Seq(Symbols)
      /\ pc \in {"wait", "filter", "done", "failed"}
  BY TextFacts DEF StreamInv
<1>2. PICK p \in 0..sent : ShownUpTo(p)
  BY DEF StreamInv
<1>3. p \in Nat /\ p <= sent /\ UpTo(text, shown, p)
  BY <1>1, <1>2 DEF ShownUpTo
<1>4. CASE Feed
  <2>1. /\ pc = "wait" /\ pc' = "filter" /\ text' = text /\ shown' = shown
        /\ sent' \in (sent + 1)..Len(text)
        /\ received' = received \o Piece(text, sent, sent')
        /\ pending' = pending \o Piece(text, sent, sent')
    BY <1>4 DEF Feed, Piece
  <2>2. sent' \in Nat /\ sent <= sent' /\ sent' <= Len(text) /\ p \in 0..sent' /\ 0 \in Nat /\ 0 <= sent
    BY <1>1, <1>3, <2>1
  <2>3. received' = Piece(text, 0, sent')
    BY <1>1, <2>1, <2>2, NextPiece
  <2>4. pending' = Piece(text, p, sent')
    <3>1. pending = Piece(text, p, sent)
      BY <1>2, <2>1 DEF ShownUpTo
    <3> QED
      BY <1>1, <1>3, <2>1, <2>2, <3>1, NextPiece
  <2>5. ShownUpTo(p)'
    BY <1>3, <2>1, <2>4 DEF ShownUpTo
  <2> QED
    BY <1>1, <2>1, <2>2, <2>3, <2>5 DEF StreamInv
<1>5. CASE FeedTool
  <2>1. ShownUpTo(p)'
    BY <1>2, <1>5 DEF FeedTool, ShownUpTo
  <2> QED
    BY <1>2, <1>5, <2>1 DEF FeedTool, StreamInv
<1>6. CASE DropRef
  <2>1. pending = Piece(text, p, sent)
    BY <1>2, <1>6 DEF DropRef, ShownUpTo
  <2>2. PICK r \in 0..sent :
          /\ shown' \in Seq(Symbols) /\ UpTo(text, shown', r)
          /\ pending' = Piece(text, r, sent)
    <3>1. HasRef(Piece(text, p, sent))
      BY <1>6, <2>1 DEF DropRef
    <3>2. \E r \in 0..sent :
            LET i == FirstRef(pending)
                z == shown \o BeforeRef(SubSeq(pending, 1, i - 1))
            IN  /\ z \in Seq(Symbols) /\ UpTo(text, z, r)
                /\ Suffix(pending, EndOfRef(pending, i) + 1) = Piece(text, r, sent)
      BY <1>1, <1>3, <2>1, <3>1, Dropped
    <3> QED
      BY <1>6, <3>2 DEF DropRef
  <2>3. pc = "filter" /\ pc' = pc /\ text' = text /\ sent' = sent /\ received' = received
    BY <1>6 DEF DropRef
  <2>4. ShownUpTo(r)'
    BY <2>2, <2>3 DEF ShownUpTo
  <2> QED
    BY <1>1, <2>2, <2>3, <2>4 DEF StreamInv
<1>7. CASE Settle
  <2>1. pending = Piece(text, p, sent)
    BY <1>2, <1>7 DEF Settle, ShownUpTo
  <2>2. PICK r \in 0..sent :
          /\ shown' \in Seq(Symbols) /\ UpTo(text, shown', r)
          /\ pending' = Piece(text, r, sent) /\ ~HasRef(Piece(text, r, sent))
    <3>1. ~HasRef(Piece(text, p, sent))
      BY <1>7, <2>1 DEF Settle
    <3>2. \E r \in 0..sent :
            LET z == shown \o SubSeq(pending, 1, HeldFrom(pending) - 1)
            IN  /\ z \in Seq(Symbols) /\ UpTo(text, z, r)
                /\ Suffix(pending, HeldFrom(pending)) = Piece(text, r, sent)
                /\ ~HasRef(Piece(text, r, sent))
      BY <1>1, <1>3, <2>1, <3>1, Settled
    <3> QED
      BY <1>7, <3>2 DEF Settle
  <2>3. pc' = "wait" /\ text' = text /\ sent' = sent /\ received' = received
    BY <1>7 DEF Settle
  <2>4. ShownUpTo(r)'
    BY <2>2, <2>3 DEF ShownUpTo
  <2> QED
    BY <1>1, <2>2, <2>3, <2>4 DEF StreamInv
<1>8. CASE Finish
  <2>1. /\ pc = "wait" /\ sent = Len(text) /\ pc' = "done" /\ text' = text /\ sent' = sent
        /\ received' = received
        /\ shown' = IF IsPartialRef(pending) THEN shown ELSE shown \o pending
    BY <1>8 DEF Finish
  <2>2. pending = Piece(text, p, sent) /\ ~HasRef(pending)
    BY <1>2, <2>1 DEF ShownUpTo
  <2>3. /\ shown \o pending \in Seq(Symbols) /\ UpTo(text, shown \o pending, sent)
        /\ IsPartialRef(pending) => PartialStarts(text) # {}
    <3>1. ~HasRef(Piece(text, p, sent))
      BY <2>2
    <3>2. LET z == Piece(text, p, sent)
          IN  /\ shown \o z \in Seq(Symbols) /\ UpTo(text, shown \o z, sent)
              /\ IsPartialRef(z) => PartialStarts(text) # {}
      BY <1>1, <1>3, <2>1, <3>1, FinishedText
    <3> QED
      BY <2>2, <3>2
  <2>4. CASE IsPartialRef(pending)
    <3>1. ShownUpTo(p)'
      BY <1>3, <2>1, <2>3, <2>4 DEF ShownUpTo
    <3> QED
      BY <1>1, <2>1, <2>4, <3>1 DEF StreamInv
  <2>5. CASE ~IsPartialRef(pending)
    <3>1. ShownUpTo(sent)'
      BY <2>1, <2>3, <2>5 DEF ShownUpTo
    <3>2. sent \in 0..sent
      BY <1>1
    <3> QED
      BY <1>1, <2>1, <2>3, <2>5, <3>1, <3>2 DEF StreamInv
  <2> QED
    BY <2>4, <2>5
<1>9. CASE RetryRateLimited
  <2>1. /\ pc = "wait" /\ pc' = pc /\ text' \in Texts /\ sent' = 0 /\ received = <<>>
        /\ received' = received /\ pending' = pending /\ shown' = shown
    BY <1>9 DEF RetryRateLimited, SafeToRetry
  <2>2. text' \in Seq(Symbols) /\ Len(text') \in Nat
    BY <2>1, TextFacts
  <2>3. sent = 0 /\ p = 0
    <3>1. 0 \in Nat /\ 0 <= sent /\ sent - 0 = sent
      BY <1>1
    <3>2. Len(Piece(text, 0, sent)) = sent - 0
      BY <1>1, <3>1, PieceOf
    <3>3. Len(received) = 0
      BY <2>1
    <3> QED
      BY <1>1, <1>3, <3>1, <3>2, <3>3
  <2>4. UpTo(text', shown, 0)
    <3>1. WordsIn(shown) = {}
      BY <1>1, <1>3, <2>3, NothingShown
    <3> QED
      BY <1>1, <2>2, <3>1, NothingUpTo
  <2>5. Piece(text', 0, 0) = <<>> /\ Piece(text, 0, 0) = <<>>
    BY <1>1, <2>2, EmptyPiece
  <2>6. pending = <<>> /\ ~HasRef(pending)
    BY <1>2, <2>1, <2>3, <2>5 DEF ShownUpTo
  <2>7. ShownUpTo(0)'
    BY <2>1, <2>4, <2>5, <2>6 DEF ShownUpTo
  <2>8. 0 \in 0..sent' /\ sent' \in 0..Len(text') /\ received' = Piece(text', 0, sent')
    BY <2>1, <2>2, <2>5
  <2> QED
    BY <1>1, <2>1, <2>7, <2>8 DEF StreamInv
<1>10. CASE Fail
  <2>1. ShownUpTo(p)'
    BY <1>2, <1>10 DEF Fail, ShownUpTo
  <2> QED
    BY <1>2, <1>10, <2>1 DEF Fail, StreamInv
<1>11. CASE UNCHANGED streamVars
  <2>1. ShownUpTo(p)'
    BY <1>2, <1>11 DEF streamVars, ShownUpTo
  <2> QED
    BY <1>2, <1>11, <2>1 DEF streamVars, StreamInv
<1> QED
  BY <1>4, <1>5, <1>6, <1>7, <1>8, <1>9, <1>10, <1>11 DEF StreamNext, Finished

\* The whole stream obeys the invariant of the filter.
THEOREM StreamInvAlways == StreamSpec => []StreamInv
BY StreamInvInit, StreamStep, PTL DEF StreamSpec

\* No part of a marker is ever shown, however the provider cuts the text
\* (InternalRefStreamFilter.feed and finish), for every text and every length of marker.
THEOREM ShowsOnlyPublicTextAlways == StreamSpec => []ShowsOnlyPublicText
<1>1. StreamInv => ShowsOnlyPublicText
  <2> SUFFICES ASSUME StreamInv PROVE ShowsOnlyPublicText
    OBVIOUS
  <2>1. text \in Seq(Symbols) /\ sent \in Nat /\ shown \in Seq(Symbols)
    BY TextFacts DEF StreamInv
  <2>2. PICK p \in 0..sent : UpTo(text, shown, p)
    BY DEF StreamInv, ShownUpTo
  <2>3. p \in Nat /\ Matches(text, shown, p)
    BY <2>2 DEF UpTo
  <2> QED
    BY <2>1, <2>3, MatchesFacts DEF ShowsOnlyPublicText
<1> QED
  BY <1>1, StreamInvAlways, PTL

\* A turn that ends has shown its content, less at most a space for each marker
\* (_generate_stream with its retry, InternalRefStreamFilter), for every text.
THEOREM ShownIsContentAlways == StreamSpec => []ShownIsContent
<1>1. StreamInv => ShownIsContent
  <2> SUFFICES ASSUME StreamInv, pc = "done", PartialStarts(text) = {}
               PROVE  /\ received = text
                      /\ Words(shown, DOMAIN shown) = Words(text, Public(text))
                      /\ Len(shown) + Cardinality(RefsIn(text)) >= Cardinality(Public(text))
    BY DEF ShownIsContent
  <2>1. /\ text \in Seq(Symbols) /\ Len(text) \in Nat /\ shown \in Seq(Symbols)
        /\ received = Piece(text, 0, sent)
    BY TextFacts DEF StreamInv
  <2>2. PICK p \in 0..sent : ShownUpTo(p)
    BY DEF StreamInv
  <2>3. p = Len(text) /\ sent = Len(text) /\ p \in Nat /\ UpTo(text, shown, p)
    BY <2>1, <2>2 DEF ShownUpTo
  <2>4. received = text
    <3>1. Piece(text, 0, Len(text)) = SubSeq(text, 0 + 1, Len(text))
      BY DEF Piece
    <3>2. SubSeq(text, 0 + 1, Len(text)) = text
      BY <2>1
    <3> QED
      BY <2>1, <2>3, <3>1, <3>2
  <2>5. Words(shown, DOMAIN shown) = Words(text, Public(text))
    BY <2>1, <2>3, MatchesFacts DEF UpTo
  <2>6. Len(shown) + Cardinality(RefsIn(text)) >= Cardinality(Public(text))
    <3>1. RefsIn(text) \in SUBSET (1..Len(text)) /\ Public(text) \in SUBSET (1..Len(text))
      BY <2>1, PositionFacts
    <3>2. /\ Rank(RefsIn(text), Len(text)) = Cardinality(RefsIn(text))
          /\ Rank(Public(text), Len(text)) = Cardinality(Public(text))
      BY <2>1, <3>1, RankEnds
    <3>3. Rank(RefsIn(text), Len(text)) + Len(shown) >= Rank(Public(text), Len(text))
      BY <2>3 DEF UpTo, Long
    <3>4. Cardinality(RefsIn(text)) \in Nat /\ Cardinality(Public(text)) \in Nat /\ Len(shown) \in Nat
      <4>1. Len(shown) \in Nat
        BY <2>1
      <4> QED
        BY <2>1, <3>1, <4>1, RankFinite
    <3> QED
      BY <3>2, <3>3, <3>4
  <2> QED
    BY <2>4, <2>5, <2>6
<1> QED
  BY <1>1, StreamInvAlways, PTL
=============================================================================
