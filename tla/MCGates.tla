------------------------------ MODULE MCGates ------------------------------
(* Every deployment whose settings differ in what the gates do.            *)
EXTENDS Gates
MCDeployments ==
  {[scope |-> s, censorship |-> c, unlock |-> TRUE, confirm |-> FALSE, ood |-> "off"] :
      s \in {"rule_based", "llm", "no_scoper"}, c \in {"rule_based", "model", "guardian"}}
  \cup {[scope |-> "classifier", censorship |-> "rule_based", unlock |-> u, confirm |-> k, ood |-> o] :
      u, k \in BOOLEAN, o \in {"off", "shadow", "enforce"}}
\* A temperature above one pulls probabilities towards the middle.
MCCalibrated == [p \in 0..4 |-> CASE p = 1 -> 2 [] p = 3 -> 2 [] OTHER -> p]
MCReference == <<1, 2, 3, 4>>
=============================================================================
