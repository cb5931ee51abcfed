------------------------------- MODULE MCApp --------------------------------
(* Two sinks of two destinations; the first destination of the first sink is   *)
(* down for good.  One configuration reports one profile to the first          *)
(* destination of both sinks.  In the next the second sink has a destination   *)
(* for each of two profiles.  The last polls for commands in the chat of a     *)
(* profile that has no records.                                                *)
EXTENDS App

Route(r(_, _)) == [s \in Sink |-> [p \in Profile |-> r(s, p)]]

OneEach == [route |-> Route(LAMBDA s, p : IF p = "p1" THEN 1 ELSE 0),
            commands |-> FALSE]
TwoChats == [route |-> Route(LAMBDA s, p : IF p = "p1" THEN 1 ELSE IF s = 1 THEN 0 ELSE 2),
             commands |-> FALSE]
Commands == [route |-> Route(LAMBDA s, p : 0), commands |-> TRUE]

MCConfigs    == {OneEach, TwoChats, Commands}
MCMaxChanges ==
    [c \in Configs |-> [p \in Profile |->
        CASE c = OneEach  -> IF p = "p1" THEN 2 ELSE 0
          [] c = TwoChats -> IF p = "p2" THEN 1 ELSE 0
          [] OTHER        -> 0]]
MCMaxStarts  == [c \in Configs |-> IF c = OneEach THEN 1 ELSE 2]
MCDown       == {<<1, 1>>}
=============================================================================
