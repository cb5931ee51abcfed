------------------------------ MODULE MCBridge ------------------------------
(* Three connections for what displaces and is displaced, for which two        *)
(* faults are needed; two where each has a remote process of its own.          *)
EXTENDS Bridge

MCDials == [t \in Target |-> IF t = "managed" THEN 2 ELSE 3]
=============================================================================
