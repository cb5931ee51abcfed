------------------------------ MODULE Register ------------------------------
(***************************************************************************)
(* What the mediator of a profile promises, without sessions, channels or  *)
(* candidates: a register per account.  held is what the members of the    *)
(* account are known to hold; the register shows a newest one of these, may *)
(* keep its last value for Cooldown at most, and announces nothing but     *)
(* what it shows.  Mediator is shown to implement this specification.      *)
(***************************************************************************)
EXTENDS Formats

CONSTANTS Account, NoCred, Cooldown

VARIABLES
    held,       \* account -> usable credentials known to be held there
    truth,      \* account -> the credential selected, or NoCred
    since,      \* account -> when it was selected
    announced,  \* the pairs <<account, credential>> pushed by the last step
    time

vars == <<held, truth, since, announced, time>>

Newest(creds) == {c \in creds : \A d \in creds : ~ Newer(d, c)}

Init ==
    /\ held = [a \in Account |-> {}]
    /\ truth = [a \in Account |-> NoCred]
    /\ since = [a \in Account |-> 0]
    /\ announced = {}
    /\ time = 0

Lose(a) ==
    /\ held'[a] = {}
    /\ truth'[a] = NoCred
    /\ since'[a] = 0

\* A newest credential that is the truth already keeps the time of its selection.
Select(a) ==
    /\ truth'[a] \in Newest(held'[a])
    /\ since'[a] = IF truth'[a] = truth[a] THEN since[a] ELSE time

Wait(a) ==
    /\ held'[a] # {}
    /\ truth[a] # NoCred
    /\ time - since[a] < Cooldown
    /\ truth'[a] = truth[a]
    /\ since'[a] = since[a]

\* All accounts are decided at once, over what is held now.
Decide ==
    /\ held' \in [Account -> SUBSET Cred]
    /\ truth' \in [Account -> Cred \cup {NoCred}]
    /\ since' \in [Account -> 0..time]
    /\ \A a \in Account : Lose(a) \/ Select(a) \/ Wait(a)
    /\ announced' \subseteq {p \in Account \X Cred : p[2] = truth'[p[1]]
                                                     /\ p[2] \in Newest(held'[p[1]])}
    /\ UNCHANGED time

\* A report that does not parse withdraws what its node held, without a decision.
Forget ==
    /\ held' \in [Account -> SUBSET Cred]
    /\ \A a \in Account : held'[a] \subseteq held[a]
    /\ announced' = {}
    /\ UNCHANGED <<truth, since, time>>

\* Other parts of the system move.
Pass ==
    /\ announced' = {}
    /\ UNCHANGED <<held, truth, since, time>>

Tick ==
    /\ time' = time + 1
    /\ announced' = {}
    /\ UNCHANGED <<held, truth, since>>

Next == Decide \/ Forget \/ Pass \/ Tick

Spec == Init /\ [][Next]_vars
=============================================================================
