----------------------------- MODULE Transcript -----------------------------
(***************************************************************************)
(* What a durable conversation promises, whatever locks, sessions and      *)
(* caches are used to keep the promise: turns are appended one at a time,  *)
(* each at most once, all of one client, and each was computed from the    *)
(* newest turns that precede it in the transcript, none missing and none   *)
(* that was deleted.  A deletion is admitted while the conversation is its *)
(* client's, and removes what is there when it comes to it: whoever has    *)
(* taken the id by then.                                                   *)
(***************************************************************************)
EXTENDS Naturals, Sequences

CONSTANTS
    Turns,      \* chat requests
    Deletes,    \* delete requests
    ClientOf,   \* the client of a request
    Window,     \* how many of the preceding turns a turn is given
    Nobody      \* the owner of no conversation

VARIABLES
    owner,      \* the client whose conversation this is, or Nobody
    turns,      \* the transcript: who appended, and what it had been given
    admitted    \* the deletions that may remove the conversation

vars == <<owner, turns, admitted>>

\* The requests of the newest Window turns of a transcript, oldest first.
Recent(ts) ==
    LET skip == IF Len(ts) > Window THEN Len(ts) - Window ELSE 0
    IN  [i \in 1..(Len(ts) - skip) |-> ts[skip + i].by]

Init == owner = Nobody /\ turns = <<>> /\ admitted = {}

AppendTurn(r) ==
    /\ owner \in {Nobody, ClientOf[r]}
    /\ \A i \in 1..Len(turns) : turns[i].by # r
    /\ owner' = ClientOf[r]
    /\ turns' = Append(turns, [by |-> r, given |-> Recent(turns)])
    /\ UNCHANGED admitted

Admit(d) ==
    /\ owner = ClientOf[d]
    /\ admitted' = admitted \union {d}
    /\ UNCHANGED <<owner, turns>>

Remove(d) ==
    /\ d \in admitted
    /\ owner' = Nobody
    /\ turns' = <<>>
    /\ admitted' = admitted \ {d}

\* The deletion found nothing to remove, or came to nothing.
Withdraw(d) ==
    /\ d \in admitted
    /\ admitted' = admitted \ {d}
    /\ UNCHANGED <<owner, turns>>

Next ==
    \/ \E r \in Turns : AppendTurn(r)
    \/ \E d \in Deletes : Admit(d) \/ Remove(d) \/ Withdraw(d)

Spec == Init /\ [][Next]_vars
=============================================================================
