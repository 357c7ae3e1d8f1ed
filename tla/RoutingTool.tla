---------------------------- MODULE RoutingTool ----------------------------
(***************************************************************************)
(* Executions of routing_tool: PydanticTool.run (input check, deadline,    *)
(* result), RoutingCoordinator.route (textual points resolved once, then   *)
(* the providers in priority order) and the requests the clients send.     *)
(* Several calls, of different chats, share one process: one pool of       *)
(* geocoding permits and one lock that paces OSRM's walking requests.      *)
(*                                                                         *)
(* The requests of 2GIS' legs and the lookups of a batch of text points run *)
(* in asyncio.gather: the first failure is raised at once and the other    *)
(* tasks run on, awaited by nobody; only the deadline cancels them, and    *)
(* only those of the gather it interrupts.                                 *)
(***************************************************************************)
EXTENDS RoutingErrors, Sequences, FiniteSets

CONSTANTS
  Calls,        \* executions of the tool
  Configured,   \* the providers named in the settings
  Scenarios,    \* what the model asks of each call: functions from calls to arguments
  MaxSize,      \* bound on the size of a request, see Requests
  LegPermits,   \* _MAX_PARALLEL_ROUTE_LEGS
  Geocodes,     \* _MAX_CONCURRENT_GEOCODES: permits of the process, size of a batch
  TextBudget    \* MAX_TEXT_POINTS_PER_ROUTING_CALL

ASSUME RoutingConstants ==
  /\ Configured \subseteq Names /\ Configured # {}
  /\ {MaxSize, LegPermits, Geocodes, TextBudget} \subseteq Nat \ {0}

\* The configured providers in the order of their priority.
IfConfigured(p) == IF p \in Configured THEN <<p>> ELSE <<>>
Chain == IfConfigured("twogis") \o IfConfigured("graphhopper") \o IfConfigured("osrm") \o IfConfigured("yandex")
Last == Len(Chain)
Stages == 0..Last                     \* 0: the text points; i: Chain[i]
MaxTasks == IF MaxSize > TextBudget THEN MaxSize ELSE TextBudget

Modes == {"route", "rank"}
Transports == {"driving", "walking", "transit", "bicycle"}
\* The size is the number of pairs of consecutive waypoints of a route, and the number
\* of 2GIS matrix requests that a ranking is cut into.
Requests == [mode : Modes, transport : Transports, traffic : BOOLEAN,
             forecast : BOOLEAN, optimize : BOOLEAN, texts : Nat, size : 1..MaxSize]

ASSUME ScenariosAreArguments == Scenarios \subseteq [Calls -> Requests]

VARIABLES
  request,      \* call -> its arguments
  phase,        \* call -> "new" | "resolving" | "attempting" | "done"
  at,           \* call -> index in Chain of the current attempt, 0 before it
  task,         \* call -> stage -> number -> state of that request
  raised,       \* call -> what the error that the current stage has raised leads to
  merged,       \* call -> <<stage, number>> of the attempts' calls merged so far
  warnings,     \* call -> warnings of the tool's own context
  result,       \* call -> the ToolResult
  cooling       \* less than a second since the last walking request started

vars == <<request, phase, at, task, raised, merged, warnings, result, cooling>>

\* "refused" is a failure that an operator has to look at.
TaskStates == {"none", "wait", "paced", "sent", "ok", "failed", "refused", "cancelled", "dropped"}
Finished == {"ok", "failed", "refused", "cancelled"}   \* what record_upstream_call has seen
InFlight == {"wait", "paced", "sent"}
\* Nothing raised; an error after which the next provider may be tried, as the
\* warning about it will say; one that goes to the model.
Raising(e, p) == IF ~MayTryNext(e, p) THEN "error"
                 ELSE IF e.code = "timeout" THEN "timed out" ELSE "failed"
NoResult == [how |-> "none", metrics |-> {}, warnings |-> {}]

------------------------------------------------------------------------------
\* RoutingInput's validators.
Valid(r) ==
  /\ r.texts <= TextBudget
  /\ r.optimize => r.mode = "route" /\ r.transport # "bicycle"
  /\ ~r.traffic => r.transport = "driving" /\ ~r.forecast
  /\ r.forecast => r.transport \notin {"walking", "bicycle"}

\* The capability checks a provider makes before anything else.
Supports(p, r) ==
  CASE p = "twogis" -> ~r.optimize /\ (r.transport = "driving" => r.traffic)
    [] p = "graphhopper" -> r.transport # "transit" /\ ~r.forecast
    [] p = "osrm" -> r.transport \in {"driving", "walking"} /\ ~r.optimize /\ ~r.forecast
    [] p = "yandex" -> TRUE

\* Warnings a provider leaves in its attempt's context, merged if it succeeds.
OwnWarnings(p, r) ==
  IF p \in {"graphhopper", "osrm"} /\ r.transport = "driving" /\ r.traffic
  THEN {<<"static times", p>>} ELSE {}

\* The requests of an attempt, all at once or, for a 2GIS matrix, one by one.
Wanted(p, r) ==
  IF p = "twogis" THEN 1..r.size ELSE {1}
AtOnce(p, r) == IF p = "twogis" /\ r.mode = "rank" THEN {1} ELSE Wanted(p, r)

Paced(p, r) == p = "osrm" /\ r.transport = "walking"

In(c, i, states) == {k \in 1..MaxTasks : task[c][i][k] \in states}
Recorded(c, i) == {<<i, k>> : k \in In(c, i, Finished)}

\* The tool's own context: the lookups record in it directly.
Context(c) == merged[c] \cup Recorded(c, 0)

\* The stage whose requests the call is waiting for.
Awaits(c, i) == \/ phase[c] = "resolving" /\ i = 0
                \/ phase[c] = "attempting" /\ i = at[c]

Fresh(c) == raised[c] = "nothing" /\ In(c, at[c], TaskStates \ {"none"}) = {}

Settle(c, t, k, s) == task' = [task EXCEPT ![c][t][k] = s]

\* The result carries the code and the text of the error it reports, if it does; what
\* the properties ask of it is how the call ended, the metrics and the warnings.
Finish(c, how, upstream, notes) ==
  /\ phase' = [phase EXCEPT ![c] = "done"]
  /\ result' = [result EXCEPT ![c] = [how |-> how, metrics |-> upstream, warnings |-> notes]]
  /\ raised' = [raised EXCEPT ![c] = "nothing"]

------------------------------------------------------------------------------
Init ==
  /\ request \in Scenarios
  /\ phase = [c \in Calls |-> "new"]
  /\ at = [c \in Calls |-> 0]
  /\ task = [c \in Calls |-> [i \in Stages |-> [k \in 1..MaxTasks |-> "none"]]]
  /\ raised = [c \in Calls |-> "nothing"]
  /\ merged = [c \in Calls |-> {}]
  /\ warnings = [c \in Calls |-> {}]
  /\ result = [c \in Calls |-> NoResult]
  /\ cooling = FALSE

\* PydanticTool.run validates the arguments before the handler sees them.
Start(c) ==
  /\ phase[c] = "new"
  /\ IF Valid(request[c])
     THEN phase' = [phase EXCEPT ![c] = "resolving"] /\ UNCHANGED <<raised, result>>
     ELSE Finish(c, "invalid", {}, {})
  /\ UNCHANGED <<request, at, task, merged, warnings, cooling>>

\* The records of the areas are loaded first: one may be gone (the tool reports
\* it) or the store may fail (an exception that is no ToolExecutionError).
AreaFails(c) ==
  /\ phase[c] = "resolving" /\ Fresh(c) /\ request[c].texts > 0
  /\ Finish(c, "error", {}, {}) \/ Finish(c, "crash", {}, {})
  /\ UNCHANGED <<request, at, task, merged, warnings, cooling>>

\* _replace_text_places: the next batch, when the one before has succeeded.
LookUpBatch(c) ==
  LET begun == In(c, 0, TaskStates \ {"none"})
      next  == {k \in (1..request[c].texts) \ begun : k <= Cardinality(begun) + Geocodes}
  IN /\ phase[c] = "resolving" /\ raised[c] = "nothing"
     /\ begun = In(c, 0, {"ok"}) /\ next # {}
     /\ task' = [task EXCEPT ![c][0] = [k \in DOMAIN @ |-> IF k \in next THEN "wait" ELSE @[k]]]
     /\ UNCHANGED <<request, phase, at, raised, merged, warnings, result, cooling>>

\* The permits belong to the resolver, which all calls share.
StartLookup(c, k) ==
  /\ task[c][0][k] = "wait"
  /\ Cardinality({w \in Calls \X (1..MaxTasks) : task[w[1]][0][w[2]] = "sent"}) < Geocodes
  /\ Settle(c, 0, k, "sent")
  /\ UNCHANGED <<request, phase, at, raised, merged, warnings, result, cooling>>

\* A text point is found, or is ambiguous and its first candidate is taken with a
\* warning, or is not found: then the call fails, whoever else is being looked up.
FinishLookup(c, k) ==
  /\ task[c][0][k] = "sent"
  /\ \/ Settle(c, 0, k, "ok") /\ UNCHANGED <<raised, warnings>>
     \/ /\ Settle(c, 0, k, "ok")
        /\ warnings' = [warnings EXCEPT ![c] = @ \cup {<<"ambiguous", k>>}]
        /\ UNCHANGED raised
     \/ /\ Settle(c, 0, k, "failed")
        /\ raised' = IF Awaits(c, 0) /\ raised[c] = "nothing"
                     THEN [raised EXCEPT ![c] = "error"] ELSE raised
        /\ UNCHANGED warnings
  /\ UNCHANGED <<request, phase, at, merged, result, cooling>>

\* An error of the resolution is not retried with a provider.
ResolutionFails(c) ==
  /\ phase[c] = "resolving" /\ raised[c] # "nothing"
  /\ Finish(c, "error", Context(c), {})
  /\ UNCHANGED <<request, at, task, merged, warnings, cooling>>

BeginRouting(c) ==
  /\ phase[c] = "resolving" /\ In(c, 0, {"ok"}) = 1..request[c].texts
  /\ phase' = [phase EXCEPT ![c] = "attempting"]
  /\ at' = [at EXCEPT ![c] = 1]
  /\ UNCHANGED <<request, task, raised, merged, warnings, result, cooling>>

\* provider.route: the capabilities, then the records of the refs (which may have
\* expired, or whose store may fail), then the requests.
EnterProviderIf(c, supported) ==
  LET p == Chain[at[c]]  r == request[c]
  IN /\ phase[c] = "attempting" /\ Fresh(c)
     /\ \/ /\ ~supported
           /\ raised' = [raised EXCEPT ![c] = Raising(Unsupported(p), p)]
           /\ UNCHANGED <<phase, task, result>>
        \/ /\ supported
           /\ raised' = [raised EXCEPT ![c] = Raising(UnknownRef, p)]
           /\ UNCHANGED <<phase, task, result>>
        \/ /\ supported
           /\ Finish(c, "crash", Context(c), {})
           /\ UNCHANGED task
        \/ /\ supported
           /\ task' = [task EXCEPT ![c][at[c]] =
                [k \in DOMAIN @ |-> IF k \in AtOnce(p, r) THEN "wait" ELSE @[k]]]
           /\ UNCHANGED <<phase, raised, result>>
     /\ UNCHANGED <<request, at, merged, warnings, cooling>>
\* Variation, to test the properties.
EnterProviderAnyway(c) == EnterProviderIf(c, TRUE)
EnterProvider(c) == EnterProviderIf(c, Supports(Chain[at[c]], request[c]))

\* A request leaves when it has a permit of its attempt; a walking request of OSRM
\* first takes the lock of the client.
WalkingHolders == {c \in Calls : \E i \in Stages \ {0} :
                     Paced(Chain[i], request[c]) /\ In(c, i, {"paced", "sent"}) # {}}

StartRequestIf(c, i, k, lockHolders, permitHolders) ==
  /\ i > 0 /\ task[c][i][k] = "wait"
  /\ IF Paced(Chain[i], request[c])
     THEN lockHolders = {} /\ Settle(c, i, k, "paced")
     ELSE Cardinality(permitHolders) < LegPermits /\ Settle(c, i, k, "sent")
  /\ UNCHANGED <<request, phase, at, raised, merged, warnings, result, cooling>>
\* Variations, to test the properties.
StartRequestUnlocked(c, i, k) == StartRequestIf(c, i, k, {}, In(c, i, {"sent"}))
StartRequestLeaky(c, i, k) ==
  StartRequestIf(c, i, k, WalkingHolders, In(c, i, {"sent", "failed", "refused"}))
StartRequest(c, i, k) == StartRequestIf(c, i, k, WalkingHolders, In(c, i, {"sent"}))

\* It sleeps under the lock until a second has passed since the last start.
StartWalking(c, i, k) ==
  /\ i > 0 /\ task[c][i][k] = "paced" /\ ~cooling
  /\ Settle(c, i, k, "sent")
  /\ cooling' = TRUE
  /\ UNCHANGED <<request, phase, at, raised, merged, warnings, result>>

SecondPasses ==
  /\ cooling /\ cooling' = FALSE
  /\ UNCHANGED <<request, phase, at, task, raised, merged, warnings, result>>

\* request_routing_json ends. The first failure of the awaited attempt is raised; the
\* next batch of a matrix follows a success.
FinishRequest(c, i, k) ==
  /\ i > 0 /\ task[c][i][k] = "sent"
  /\ \E e \in Outcomes[Chain[i]] :
       IF e = NoError
       THEN /\ task' = [task EXCEPT ![c][i] = [n \in DOMAIN @ |->
                 CASE n = k -> "ok"
                   [] n = k + 1 /\ n \in Wanted(Chain[i], request[c]) /\ @[n] = "none" -> "wait"
                   [] OTHER -> @[n]]]
            /\ UNCHANGED raised
       ELSE /\ Settle(c, i, k, IF NeedsOperator(e) THEN "refused" ELSE "failed")
            /\ raised' = IF Awaits(c, i) /\ raised[c] = "nothing"
                         THEN [raised EXCEPT ![c] = Raising(e, Chain[i])] ELSE raised
  /\ UNCHANGED <<request, phase, at, merged, warnings, result, cooling>>

\* Every exchange has succeeded: the adapter builds the output or rejects the payload.
Adapt(c) ==
  LET p == Chain[at[c]]
      own == merged[c] \cup Recorded(c, at[c])
  IN /\ phase[c] = "attempting" /\ raised[c] = "nothing"
     /\ In(c, at[c], {"ok"}) = Wanted(p, request[c])
     /\ \/ /\ merged' = [merged EXCEPT ![c] = own]
           /\ warnings' = [warnings EXCEPT ![c] = @ \cup OwnWarnings(p, request[c])]
           /\ Finish(c, "ok", Context(c) \cup Recorded(c, at[c]), warnings'[c])
        \/ /\ \E e \in AdapterErrors[p] : raised' = [raised EXCEPT ![c] = Raising(e, p)]
           /\ UNCHANGED <<phase, merged, warnings, result>>
     /\ UNCHANGED <<request, at, task, cooling>>

\* except ToolExecutionError of _route_with_fallback: the attempt's calls are merged,
\* its warnings are not, and the next provider is tried or the error is raised.
AttemptFailsWith(c, calls, notes, more) ==
  LET p == Chain[at[c]]
  IN /\ phase[c] = "attempting" /\ raised[c] # "nothing"
     /\ merged' = [merged EXCEPT ![c] = @ \cup calls]
     /\ IF more /\ raised[c] # "error"
        THEN /\ at' = [at EXCEPT ![c] = @ + 1]
             /\ warnings' = [warnings EXCEPT ![c] = @ \cup notes \cup {<<raised[c], p>>}]
             /\ raised' = [raised EXCEPT ![c] = "nothing"]
             /\ UNCHANGED <<phase, result>>
        ELSE /\ Finish(c, "error", Context(c) \cup calls, {})
             /\ UNCHANGED <<at, warnings>>
     /\ UNCHANGED <<request, task, cooling>>
\* Variations, to test the properties.
AttemptFailsUnmerged(c) == AttemptFailsWith(c, {}, {}, at[c] < Last)
AttemptFailsAllMerged(c) ==
  AttemptFailsWith(c, Recorded(c, at[c]), OwnWarnings(Chain[at[c]], request[c]), at[c] < Last)
AttemptFails(c) == AttemptFailsWith(c, Recorded(c, at[c]), {}, at[c] < Last)

\* The deadline of PydanticTool.run cancels what the call is awaiting. A request on
\* the wire records itself in the context of its attempt, which is not merged; one
\* that waits for a permit or the lock leaves. If the stage has raised already, its
\* gather is over and nothing is cancelled.
Cancelled(c) ==
  LET i == at[c] IN
    IF raised[c] # "nothing" THEN task[c]
    ELSE [task[c] EXCEPT ![i] = [k \in DOMAIN @ |->
           CASE @[k] = "sent" -> "cancelled"
             [] @[k] \in {"wait", "paced"} -> "dropped"
             [] OTHER -> @[k]]]

Deadline(c) ==
  /\ phase[c] \in {"resolving", "attempting"}
  /\ task' = [task EXCEPT ![c] = Cancelled(c)]
  /\ Finish(c, "deadline",
            merged[c] \cup {<<0, k>> : k \in {n \in 1..MaxTasks : task'[c][0][n] \in Finished}},
            {})
  /\ UNCHANGED <<request, at, merged, warnings, cooling>>

Done == /\ \A c \in Calls : phase[c] = "done" /\ \A i \in Stages :
                              In(c, i, InFlight) = {}
        /\ UNCHANGED vars

\* One step of the awaiting coroutine, of a lookup, of a request.
CallStep(c) ==
  \/ Start(c) \/ LookUpBatch(c) \/ ResolutionFails(c)
  \/ BeginRouting(c) \/ EnterProvider(c) \/ Adapt(c) \/ AttemptFails(c)
LookupStep(c, k) == StartLookup(c, k) \/ FinishLookup(c, k)
RequestStep(c, i, k) == StartRequest(c, i, k) \/ StartWalking(c, i, k) \/ FinishRequest(c, i, k)

Next ==
  \/ \E c \in Calls :
       \/ CallStep(c) \/ AreaFails(c) \/ Deadline(c)
       \/ \E k \in 1..MaxTasks : LookupStep(c, k)
       \/ \E i \in Stages, k \in 1..MaxTasks : RequestStep(c, i, k)
  \/ SecondPasses
  \/ Done

\* The event loop runs every task that can run, time passes, and the HTTP client's
\* timeout ends every exchange. Nothing is assumed of the deadline.
Fairness ==
  /\ WF_vars(SecondPasses)
  /\ \A c \in Calls :
       /\ WF_vars(CallStep(c))
       /\ \A k \in 1..MaxTasks : WF_vars(LookupStep(c, k))
       /\ \A i \in 1..Last, k \in 1..MaxTasks : WF_vars(RequestStep(c, i, k))

Spec == Init /\ [][Next]_vars /\ Fairness

------------------------------------------------------------------------------
(* PROPERTIES                                                               *)

\* An answer comes from the first provider of the chain that could give one: it
\* supports the request, all its requests succeeded, each provider before it was
\* unable to serve the request or was asked and failed, none after it was asked.
FirstAbleAnswers ==
  \A c \in Calls : result[c].how = "ok" =>
    /\ Supports(Chain[at[c]], request[c])
    /\ In(c, at[c], {"ok"}) = Wanted(Chain[at[c]], request[c])
    /\ \A j \in 1..(at[c] - 1) :
         Supports(Chain[j], request[c]) =>
           \/ In(c, j, {"failed", "refused"}) # {}
           \/ In(c, j, {"ok"}) = Wanted(Chain[j], request[c])
    /\ \A j \in (at[c] + 1)..Last : In(c, j, {"none"}) = 1..MaxTasks

\* Where a provider is asked one request at a time, a refusal (bad credentials, a
\* request of ours it rejects) ends the call with an error: the next provider is not
\* asked and its answer cannot hide the defect.
RefusalEndsCall ==
  \A c \in Calls, i \in Stages \ {0} :
    (Cardinality(AtOnce(Chain[i], request[c])) = 1 /\ In(c, i, {"refused"}) # {}) =>
      at[c] = i /\ result[c].how # "ok"

\* An answer's warnings are the story of this call: one for each provider that was
\* passed over, those of the provider that answered, none of the others'.
WarningsTellThePath ==
  \A c \in Calls : result[c].how = "ok" =>
    LET of(p) == {w \in result[c].warnings : w[1] # "ambiguous" /\ w[2] = p}
    IN /\ of(Chain[at[c]]) = OwnWarnings(Chain[at[c]], request[c])
       /\ \A j \in 1..(at[c] - 1) : \E how \in {"failed", "timed out"} :
            of(Chain[j]) = {<<how, Chain[j]>>}
       /\ \A j \in (at[c] + 1)..Last : of(Chain[j]) = {}

\* The metrics of a result count requests that were made, and, unless the deadline
\* cut the call short, all those it waited for: every lookup of an answered call,
\* every request of the provider that answered, and of each provider it gave up the
\* request that made it do so.
MetricsAddUp ==
  \A c \in Calls :
    LET counted(i) == {t \in result[c].metrics : t[1] = i}
    IN /\ \A i \in Stages : counted(i) \subseteq Recorded(c, i)
       /\ result[c].how = "ok" =>
            /\ counted(0) = {0} \X (1..request[c].texts)
            /\ counted(at[c]) = {at[c]} \X Wanted(Chain[at[c]], request[c])
       /\ result[c].how \in {"ok", "error"} =>
            \A i \in 1..at[c] :
              In(c, i, Finished) # {} =>
                \/ counted(i) = {i} \X Wanted(Chain[i], request[c])
                \/ \E k \in In(c, i, {"failed", "refused"}) : <<i, k>> \in counted(i)

\* The public walking server of OSRM is asked by one call at a time, and no request
\* starts within a second of the one before, whatever other chats do and wherever
\* a deadline cuts in.
WalkingSent == {c \in Calls : \E i \in Stages \ {0} :
                  Paced(Chain[i], request[c]) /\ In(c, i, {"sent"}) # {}}
WalkingIsPaced ==
  [][WalkingSent' \ WalkingSent # {} => ~cooling /\ Cardinality(WalkingSent') = 1]_vars

\* Every call ends with a result, even if its deadline never comes, and so does what it
\* leaves behind in the background: no permit and no lock is kept by a request that
\* failed or was cancelled.
AllCallsEnd == <>[](\A c \in Calls : result[c].how # "none" /\ \A i \in Stages : In(c, i, InFlight) = {})
=============================================================================
