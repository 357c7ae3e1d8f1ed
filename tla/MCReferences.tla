---------------------------- MODULE MCReferences ----------------------------
(* A place, one of a name too short to be looked for, each of which may be *)
(* an anchor as well, a page, and a ref nobody has minted.                 *)
EXTENDS References

CONSTANTS p1, p2
MCPlaces == {p1, p2}
MCNames == {"name", "ab"}
MCName == [p \in MCPlaces |-> IF p = p1 THEN "name" ELSE "ab"]
MCTooShort == {"ab"}
=============================================================================
