------------------------------- MODULE MCLink -------------------------------
(* A small instance of Link for TLC. *)
EXTENDS Link

CONSTANTS m1, m2, m3, m4

MCFrom == [m \in Msg |-> IF m = m4 THEN "agent" ELSE "server"]
=============================================================================
