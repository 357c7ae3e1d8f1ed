---------------------------- MODULE AnswerStream ----------------------------
(***************************************************************************)
(* One streamed turn of the model, from the provider's chunks to the text  *)
(* a client sees: VLLMClient._generate_stream (backend/app/llm/vllm.py)    *)
(* with its single retry, and InternalRefStreamFilter                      *)
(* (services/final_answer_stream.py), which keeps the markers              *)
(* [[plc_0123456789]] and [[src_0123456789]] out of the text, however the  *)
(* provider splits them.  Text is a sequence of symbols; the two kinds and *)
(* the digits are shortened by the constants.                              *)
(***************************************************************************)
EXTENDS Naturals, Sequences, FiniteSets, SequencesExt

CONSTANTS
    Symbols,    \* what text is made of
    Texts,      \* what the model may say, as sequences of symbols
    Kinds,      \* plc_ and src_, as sequences of symbols
    Hex,        \* the symbols that are hexadecimal digits
    HexLength   \* how many of them a marker has

ASSUME ConstantsAssumption ==
    /\ HexLength \in Nat \ {0}
    /\ Texts \subseteq Seq(Symbols)
    /\ Kinds \subseteq Seq(Symbols \ {"[", "]"}) \ {<<>>}
    /\ Hex \subseteq Symbols \ {"[", "]"}
    /\ \A k1, k2 \in Kinds : IsPrefix(k1, k2) => k1 = k2

VARIABLES
    pc,         \* "wait" for a chunk, "filter" the pending text, "done", "failed"
    attempt,    \* the request at work, the first or the second
    text,       \* what the provider is sending
    sent,       \* how much of it has been sent
    received,   \* content_parts, joined
    toolParts,  \* a piece of a tool call has arrived
    pending,    \* the filter's _pending
    shown       \* what was passed on to the client

streamVars == <<pc, attempt, text, sent, received, toolParts, pending, shown>>

-----------------------------------------------------------------------------
(* Markers, and the space that may separate one from the text before it.   *)

Space == " "
OpenRef  == <<"[", "[">>
CloseRef == <<"]", "]">>

\* _INTERNAL_REF.
RefText(kind, digits) == OpenRef \o kind \o digits \o CloseRef
Refs == {RefText(kind, digits) : kind \in Kinds, digits \in [1..HexLength -> Hex]}

Suffix(s, i)   == SubSeq(s, i, Len(s))
RefAt(s, i)    == \E ref \in Refs : IsPrefix(ref, Suffix(s, i))
HasRef(s)      == \E i \in DOMAIN s : RefAt(s, i)
FirstRef(s)    == CHOOSE i \in DOMAIN s : RefAt(s, i) /\ \A h \in 1..(i - 1) : ~RefAt(s, h)
EndOfRef(s, i) == i - 1 + Len(CHOOSE ref \in Refs : IsPrefix(ref, Suffix(s, i)))

\* Variation, to test the properties: a marker split between its closing brackets.
IsPartialRef_Closed(v) ==
    \/ v = <<"[">>
    \/ \E kind \in Kinds, n \in 0..HexLength, digits \in [1..HexLength -> Hex] :
        v # <<>> /\ (IsPrefix(v, OpenRef \o kind) \/ v = OpenRef \o kind \o SubSeq(digits, 1, n))

\* _is_partial_ref: text that more text could make a marker.
IsPartialRef(v) ==
    \/ v = <<"[">>
    \/ /\ IsPrefix(OpenRef, v)
       /\ \E kind \in Kinds :
            LET body == SubSeq(v, 3, Len(v))
                rest == SubSeq(body, Len(kind) + 1, Len(body))
            IN  \/ IsPrefix(body, kind)
                \/ /\ IsPrefix(kind, body)
                   /\ \A i \in DOMAIN rest : i <= HexLength => rest[i] \in Hex
                   /\ SubSeq(rest, HexLength + 1, Len(rest)) \in {<<>>, <<"]">>}

\* _partial_ref_start: the starts of suffixes that could become a marker.
PartialStarts(s) == {i \in DOMAIN s : IsPartialRef(Suffix(s, i))}

-----------------------------------------------------------------------------

StreamInit ==
    /\ pc = "wait"
    /\ attempt = 1
    /\ text \in Texts
    /\ sent = 0
    /\ received = <<>>
    /\ toolParts = FALSE
    /\ pending = <<>>
    /\ shown = <<>>

\* A delta with content: kept as the response's content, and given to the filter.
Feed ==
    /\ pc = "wait"
    /\ sent' \in (sent + 1)..Len(text)
    /\ LET chunk == SubSeq(text, sent + 1, sent')
       IN  /\ received' = received \o chunk
           /\ pending' = pending \o chunk
    /\ pc' = "filter"
    /\ UNCHANGED <<attempt, text, toolParts, shown>>

\* A delta with a piece of a tool call.
FeedTool ==
    /\ pc = "wait"
    /\ ~toolParts
    /\ toolParts' = TRUE
    /\ UNCHANGED <<pc, attempt, text, sent, received, pending, shown>>

\* The text before a marker, without the one space that separates it.
BeforeRef(prefix) ==
    IF prefix # <<>> /\ Last(prefix) = Space THEN Front(prefix) ELSE prefix

\* feed finds a marker: it goes, and the text behind it is looked at.
DropRef ==
    /\ pc = "filter"
    /\ HasRef(pending)
    /\ LET i == FirstRef(pending)
       IN  /\ shown' = shown \o BeforeRef(SubSeq(pending, 1, i - 1))
           /\ pending' = Suffix(pending, EndOfRef(pending, i) + 1)
    /\ UNCHANGED <<pc, attempt, text, sent, received, toolParts>>

\* Where the text begins that is held back: a possible marker and the space before it.
HeldFrom(s) ==
    IF PartialStarts(s) = {} THEN Len(s) + 1
    ELSE LET i == CHOOSE i \in PartialStarts(s) : \A j \in PartialStarts(s) : i <= j
         IN  IF i > 1 /\ s[i - 1] = Space THEN i - 1 ELSE i

\* feed ends: what cannot become a marker is shown.
Settle ==
    /\ pc = "filter"
    /\ ~HasRef(pending)
    /\ shown' = shown \o SubSeq(pending, 1, HeldFrom(pending) - 1)
    /\ pending' = Suffix(pending, HeldFrom(pending))
    /\ pc' = "wait"
    /\ UNCHANGED <<attempt, text, sent, received, toolParts>>

\* The stream has ended: finish shows what is pending unless it is a partial marker.
Finish ==
    /\ pc = "wait"
    /\ sent = Len(text)
    /\ shown' = IF IsPartialRef(pending) THEN shown ELSE shown \o pending
    /\ pending' = <<>>
    /\ pc' = "done"
    /\ UNCHANGED <<attempt, text, sent, received, toolParts>>

\* Variation, to test the properties: a rate limit is always worth another request.
SafeToRetry_Always == TRUE

\* Nothing of the first request has been received.
SafeToRetry == received = <<>> /\ ~toolParts

AttemptsLeft == attempt = 1

\* The provider's rate limit ends the first request; the second may say something else.
RetryRateLimited ==
    /\ pc = "wait"
    /\ AttemptsLeft
    /\ SafeToRetry
    /\ attempt' = attempt + 1
    /\ text' \in Texts
    /\ sent' = 0
    /\ UNCHANGED <<pc, received, toolParts, pending, shown>>

\* Any other failure, the deadline among them: what is pending is never shown.
Fail ==
    /\ pc = "wait"
    /\ pc' = "failed"
    /\ UNCHANGED <<attempt, text, sent, received, toolParts, pending, shown>>

Finished == pc \in {"done", "failed"} /\ UNCHANGED streamVars

StreamNext ==
    \/ Feed \/ FeedTool \/ DropRef \/ Settle \/ Finish \/ RetryRateLimited \/ Fail
    \/ Finished

StreamSpec == StreamInit /\ [][StreamNext]_streamVars

-----------------------------------------------------------------------------
(* Properties.                                                             *)

\* What is not in a marker, as one look at all of the text would find the markers.
InRef(s, k) == \E i \in 1..k : RefAt(s, i) /\ k <= EndOfRef(s, i)
Public(s)   == {k \in DOMAIN s : ~InRef(s, k)}
RefsIn(s)   == {i \in DOMAIN s : RefAt(s, i)}

\* The symbols of s at some positions, in their order, and without the spaces.
At(s, positions) ==
    [n \in 1..Cardinality(positions) |->
        s[CHOOSE k \in positions : Cardinality(positions \cap 1..k) = n]]
Words(s, positions) == At(s, {k \in positions : s[k] # Space})

\* "The client must never see" a marker, "even when a provider splits one marker over
\* several streaming chunks": at every moment the client has seen a beginning of the
\* public text, up to spaces (InternalRefStreamFilter.feed).
ShowsOnlyPublicText == IsPrefix(Words(shown, DOMAIN shown), Words(text, Public(text)))

\* A streamed answer is the answer: a turn that ends has shown all the public text of
\* its content, less at most one space for each marker, wherever the chunks were cut
\* and whichever request it took (text ending in an unfinished marker apart).
ShownIsContent ==
    pc = "done" /\ PartialStarts(text) = {} =>
        /\ received = text
        /\ Words(shown, DOMAIN shown) = Words(text, Public(text))
        /\ Len(shown) + Cardinality(RefsIn(text)) >= Cardinality(Public(text))

=============================================================================
