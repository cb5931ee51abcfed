----------------------------- MODULE MCMediator -----------------------------
(* Small instances of Mediator for TLC. *)
EXTENDS Mediator, TLC

CONSTANTS n1, n2, c1, c2, c3

\* c2 and c3 expire together: a tie for claude and gemini, broken by
\* last_refresh for codex.
MCExpiresAt   == [c \in Cred |-> IF c = c1 THEN 3 ELSE 6]
MCLastRefresh == [c \in Cred |-> IF c = c3 THEN 2 ELSE 1]

NodeSymmetry == Permutations(Node)
=============================================================================
