-------------------------------- MODULE App ---------------------------------
(***************************************************************************)
(* The server process (internal/server/app.go): Run starts the listener,   *)
(* the status endpoint, the reload logger, the notifier, the command       *)
(* poller and the self-clients in one errgroup and waits for all of them;  *)
(* the first that fails, or a signal, cancels the context the others run   *)
(* under.  A goroutine outside the group then shuts the hub down and       *)
(* closes the listener; nothing waits for that goroutine itself.           *)
(*                                                                         *)
(* The notifier and the poller are those of Notify.  The process may crash *)
(* and is started again by its supervisor; Telegram and the chats remember.*)
(***************************************************************************)
EXTENDS Notify

CONSTANTS
    Member,      \* the configured goroutines of the group
    MaxStarts    \* config -> lives of the process (bound)

ASSUME AppAssumption ==
    /\ {"listener", "reload"} \subseteq Member
    /\ Member \subseteq {"listener", "reload", "status", "self"}
    /\ MaxStarts \in [Configs -> Nat \ {0}]

VARIABLES
    group,      \* the other goroutines of the errgroup that have not returned
    socket,     \* http.Server: not listening yet, serving, or shut down
    shutdown,   \* what the shutdown goroutine has completed
    failures,   \* goroutines that returned an error; the first cancels the group
    starts      \* lives so far

appVars == <<group, socket, shutdown, failures, starts>>
vars    == <<notifyVars, appVars>>

TypeOK ==
    /\ NotifyTypeOK
    /\ group \subseteq Member
    /\ socket \in {"new", "serving", "shut"}
    /\ shutdown \in {"nothing", "hub", "http"}
    /\ failures \subseteq Member
    /\ starts \in 1..MaxStarts[config]

Init ==
    /\ NotifyInit
    /\ group = Member
    /\ socket = "new" /\ shutdown = "nothing" /\ failures = {}
    /\ starts = 1

AsNotify == <<goroutines, truthVars, loopVars, emits, word, pollVars>>

-----------------------------------------------------------------------------
\* ListenAndServeTLS; after Shutdown it returns at once.
Listen ==
    /\ up /\ "listener" \in group /\ socket = "new"
    /\ socket' = "serving"
    /\ UNCHANGED <<notifyVars, group, shutdown, failures, starts>>

ListenerReturns ==
    /\ up /\ "listener" \in group /\ socket = "shut"
    /\ group' = group \ {"listener"}
    /\ UNCHANGED <<notifyVars, socket, shutdown, failures, starts>>

\* The port is taken, accept fails; the status socket cannot be made; a
\* self-client has no usable key.  The first error cancels.
Fail(m) ==
    /\ up /\ m \in group \ {"reload"}
    /\ m = "listener" => socket # "shut"
    /\ group' = group \ {m}
    /\ failures' = failures \cup {m}
    /\ cancelled' = TRUE
    /\ UNCHANGED <<config, up, AsNotify, socket, shutdown, starts>>

\* The operator's signal.
Interrupt ==
    /\ up /\ ~ cancelled
    /\ cancelled' = TRUE
    /\ UNCHANGED <<config, up, AsNotify, appVars>>

\* runStatusEndpoint, the reload logger and the self-clients on egCtx.Done.
Leave(m) ==
    /\ up /\ cancelled /\ m \in group \ {"listener"}
    /\ group' = group \ {m}
    /\ UNCHANGED <<notifyVars, socket, shutdown, failures, starts>>

\* The shutdown goroutine: first the hub, which closes the sessions and stops
\* the mediators, then the listener.
ShutdownHub ==
    /\ up /\ cancelled /\ shutdown = "nothing"
    /\ shutdown' = "hub"
    /\ UNCHANGED <<notifyVars, group, socket, failures, starts>>

\* Mutant: the listener is closed first.
ShutdownHttpFirst ==
    /\ up /\ cancelled /\ socket # "shut"
    /\ socket' = "shut"
    /\ UNCHANGED <<notifyVars, group, shutdown, failures, starts>>

\* Mutant: a listener that does not listen yet is not told.
ShutdownHttpServing ==
    /\ up /\ shutdown = "hub"
    /\ shutdown' = "http"
    /\ socket' = IF socket = "new" THEN socket ELSE "shut"
    /\ UNCHANGED <<notifyVars, group, failures, starts>>

ShutdownHttp ==
    /\ up /\ shutdown = "hub"
    /\ shutdown' = "http"
    /\ socket' = "shut"
    /\ UNCHANGED <<notifyVars, group, failures, starts>>

\* What the process held in memory is gone with it: truths, summaries sent,
\* emissions under way, the poller's offset.
Forget ==
    /\ cancelled' = FALSE
    /\ goroutines' = StartState.goroutines
    /\ grace' = TRUE /\ shown' = StartState.shown /\ changes' = [p \in Profile |-> 0]
    /\ ready' = FALSE /\ job' = 0 /\ batch' = StartState.shown
    /\ last' = StartState.last
    /\ emits' = {}
    /\ offset' = 0 /\ updates' = {} /\ handling' = 0
    /\ group' = Member /\ socket' = "new" /\ shutdown' = "nothing"
    /\ failures' = {}
    /\ UNCHANGED <<config, word, posted, confirmed, answered, logged, starts>>

\* eg.Wait returns, and with Run the process.
Return ==
    /\ up
    /\ group = {} /\ goroutines = {}
    /\ up' = FALSE
    /\ Forget

Crash ==
    /\ up
    /\ up' = FALSE
    /\ Forget

\* The supervisor starts it again.
Start ==
    /\ ~ up /\ starts < MaxStarts[config]
    /\ up' = TRUE
    /\ starts' = starts + 1
    /\ UNCHANGED <<config, cancelled, AsNotify, group, socket, shutdown, failures>>

-----------------------------------------------------------------------------
Lifecycle ==
    \/ Listen \/ ListenerReturns \/ Interrupt
    \/ \E m \in Member : Fail(m) \/ Leave(m)
    \/ ShutdownHub \/ ShutdownHttp
    \/ Return \/ Crash \/ Start

Next ==
    \/ (NotifyLoop \/ NotifyEvents \/ NotifyPoller) /\ UNCHANGED appVars
    \/ /\ shutdown = "nothing"    \* the mediators run
       /\ \E p \in Profile, v \in State : Change(p, v)
       /\ UNCHANGED appVars
    \/ Lifecycle

Spec == Init /\ [][Next]_vars

(***************************************************************************)
(* Goroutines run.  Nothing makes a signal, a failure, a crash or a start. *)
(* hub.Shutdown returns (Hub, AllStopped and NoneStuck); its context is    *)
(* bounded besides.                                                        *)
(***************************************************************************)
Fairness ==
    /\ NotifyFairness
    /\ WF_vars(Listen) /\ WF_vars(ListenerReturns)
    /\ \A m \in Member : WF_vars(Leave(m))
    /\ WF_vars(ShutdownHub) /\ WF_vars(ShutdownHttp)
    /\ WF_vars(Return)

FairSpec == Spec /\ Fairness

-----------------------------------------------------------------------------
(***************************************************************************)
(* Properties.                                                             *)
(***************************************************************************)

\* Run returns only after the hub has been shut down, although it does not
\* wait for the goroutine that does it: the listener, which it waits for,
\* returns last.  Only a listener that failed returns on its own.
ReturnMeansShut ==
    [][Return => shutdown # "nothing" \/ "listener" \in failures]_vars

\* Once cancelled, by a signal or by any goroutine's error, Run returns,
\* whatever the notifier and the poller are busy with.
RunReturns == (up /\ cancelled) ~> ~ up

\* No command disappears without a trace, across crashes and restarts: an
\* update that Telegram will not deliver again was answered, or the log says that
\* the answer could not be sent.  The offset that confirms it goes out only with
\* the poll after its batch.
NoCommandVanishes == \A u \in Update : u <= confirmed => u \in answered \cup logged

\* A destination that no destination before it in the same sink keeps from being
\* tried for ever, by rejecting every message.
Reached(s, c) == \A d \in 1..c : Group(s, d) # {} => <<s, d>> \notin Down

\* Such a destination, when its last summary differs from the present truths, gets
\* one that says what they are, and that is its last word: however often a send to
\* it or to one before it failed and ended the summaries of the sink, whatever
\* sink is down, whatever events said in between.
Settled == up /\ ~ cancelled /\ changes = MaxChanges[config] /\ emits = {} /\ HasReport(shown)

=============================================================================
