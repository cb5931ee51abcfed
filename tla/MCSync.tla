------------------------------- MODULE MCSync -------------------------------
(* Small instances of Sync for TLC. *)
EXTENDS Sync, TLC

CONSTANTS n1, n2, a1, a2, c1, c2, c3, c4

MCExpiresAt == [c \in Cred |-> CASE c = c1 -> 3 [] c = c2 -> 4 [] c = c3 -> 5 [] OTHER -> 6]
MCLastRefresh == [c \in Cred |-> 1]

\* The same with a tie between the credentials the nodes start with.
MCExpiresTied == [c \in Cred |-> CASE c = c3 -> 5 [] c = c4 -> 6 [] OTHER -> 4]

\* c4 belongs to another account than the rest.
MCOwner == [c \in Cred |-> IF c = c4 THEN a2 ELSE a1]

\* The nodes start with an older and a newer credential of the same account.
MCInitFile == [n \in Node |-> IF n = n1 THEN c1 ELSE c2]

\* What the users of a run do, and how often the agents dial.
Idle == [n \in Node |-> {}]
Only(m, op) == [n \in Node |-> IF n = m THEN {op} ELSE {}]
Once == [n \in Node |-> 1]
Times(m, k) == [n \in Node |-> IF n = m THEN k ELSE 1]

Load(cli, logouts, requests, dials, diskFails) ==
    [cli |-> cli, logouts |-> logouts, requests |-> requests,
     dials |-> dials, diskFails |-> diskFails]

\* Refreshes and logins on both nodes over one connection each.
MCConverge == {Load([n \in Node |-> {"refresh", "login"}], 0, 0, Once, FALSE)}

MCNewest == {Load([n \in Node |-> {"refresh"}], 0, 0, Once, FALSE)}

\* A node that reconnects, also while writes fail, its user logs out or a login
\* on it is under way; and an operator who asks for snapshots.
MCReattach ==
    {Load(Idle, 0, 0, Times(n1, 3), FALSE),
     Load(Idle, 0, 0, Times(n1, 2), TRUE),
     Load(Only(n1, "logout"), 1, 0, Times(n1, 2), FALSE),
     Load(Only(n1, "login"), 0, 0, Times(n1, 2), FALSE),
     Load(Idle, 0, 1, Once, FALSE)}
=============================================================================
