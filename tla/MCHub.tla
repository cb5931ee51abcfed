------------------------------- MODULE MCHub --------------------------------
(* Small instances of Hub for TLC. *)
EXTENDS Hub

CONSTANTS p1, i1, i2, c1, c2, c3

\* Two connections of one node and one of another.
MCProfileOf  == [c \in Conn |-> p1]
MCIdentityOf == [c \in Conn |-> IF c = c3 THEN i2 ELSE i1]
MCClaims     == [c \in Conn |-> {p1}]

\* The profile with both nodes, with only the other one (i1 is refused), and removed.
MCConfigs == {[p \in {p1} |-> {i1, i2}], [p \in {p1} |-> {i2}], [p \in {} |-> {}]}
=============================================================================
