------------------------------- MODULE MCApply -------------------------------
(* Small instances of Apply for TLC. *)
EXTENDS Apply, TLC

CONSTANTS x, y, a1, a2

\* A good push, and one whose fingerprint is not that of its bytes.
MCPushes == {[raw |-> x, fingerprint |-> x], [raw |-> y, fingerprint |-> x]}
=============================================================================
