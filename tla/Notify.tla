------------------------------- MODULE Notify -------------------------------
(***************************************************************************)
(* The server's notifications (internal/notifier): the periodic loop with  *)
(* its per-destination memory of the last summary, the goroutines that     *)
(* announce what a mediator has decided, and the poller that answers       *)
(* Telegram commands.  All three send to chats that may be unreachable;    *)
(* none of them waits for another.  The texts are left out: a message says *)
(* for a profile which truth it has, or that it has none.                  *)
(*                                                                         *)
(* Whether the process is up and its context cancelled is decided by the   *)
(* server application (App).                                               *)
(***************************************************************************)
EXTENDS Integers, FiniteSets

CONSTANTS
    Profile,
    Cred,         \* truths a profile may have
    Sinks,        \* configured sinks, in order: 1..Sinks
    Chats,        \* destinations of a sink, in sorted order: 1..Chats
    Configs,      \* server configurations: the sinks' routes (routeFor: profile ->
                  \* destination, 0 for none) and whether commands are polled for
    Down,         \* <<sink, destination>>: those that reject every message
    MaxChanges,   \* config -> profile -> changes of its truth in one life of the
                  \* process (bound)
    MaxUpdates    \* messages users write to the bot (bound)

Sink == 1..Sinks
Chat == 1..Chats

ASSUME NotifyAssumption ==
    /\ Sinks \in Nat \ {0} /\ Chats \in Nat \ {0}
    /\ Configs \subseteq [route: [Sink -> [Profile -> 0..Chats]], commands: BOOLEAN]
    /\ Down \subseteq Sink \X Chat
    /\ MaxChanges \in [Configs -> [Profile -> Nat]] /\ MaxUpdates \in Nat

VARIABLES
    config,     \* one of Configs
    up,         \* the process runs
    cancelled,  \* its egCtx is cancelled
    goroutines, \* of "notifier" and "poller", those that have not returned
    grace,      \* within StartupEventGrace of the start
    shown,      \* what notifierTruthSource reads of each profile
    changes,    \* changes of each since the start
    ready,      \* Run's ready
    job,        \* the send runOnce is at, 0 while Run waits
    batch,      \* the records it read
    last,       \* periodicState.last, by sink and profile of the destination
    emits,      \* Emit goroutines: profile, what they say, the sink they are at
    word,       \* what the last message to arrive in the chat says of the profile
    posted,     \* updates users have caused
    confirmed,  \* updates Telegram will not deliver again
    offset,     \* the poller's offset, 0 after a start
    updates,    \* the rest of the batch it handles
    handling,   \* the update it handles, 0 if none
    answered,   \* updates whose answer went out
    logged      \* updates whose answer could not be sent, as the log says

lifeVars   == <<config, up, cancelled>>
truthVars  == <<grace, shown, changes>>
loopVars   == <<ready, job, batch, last>>
pollVars   == <<posted, confirmed, offset, updates, handling, answered, logged>>
notifyVars == <<lifeVars, goroutines, truthVars, loopVars, emits, word, pollVars>>

\* A profile's record: no truth and no node, no truth but nodes, or a truth.
State == {"nobody", "waiting"} \cup Cred

\* What a message says about it.
Says(v) == IF v \in Cred THEN v ELSE "no truth"
Saying  == {Says(v) : v \in State}

Emission == [profile: Profile, says: Saying, at: 0..Sinks]
Update   == 1..MaxUpdates
Job      == 1..(Sinks * Chats)

NotifyTypeOK ==
    /\ config \in Configs
    /\ up \in BOOLEAN /\ cancelled \in BOOLEAN
    /\ goroutines \subseteq {"notifier", "poller"}
    /\ grace \in BOOLEAN
    /\ shown \in [Profile -> State]
    /\ changes \in [Profile -> Nat]
    /\ ready \in BOOLEAN
    /\ job \in Job \cup {0}
    /\ batch \in [Profile -> State]
    /\ last \in [Sink -> [Profile -> State \cup {"never"}]]
    /\ emits \subseteq Emission
    /\ word \in [Sink -> [Profile -> Saying \cup {"never"}]]
    /\ posted \in Update \cup {0} /\ confirmed \in Update \cup {0}
    /\ offset \in 0..(MaxUpdates + 1)
    /\ updates \subseteq Update
    /\ handling \in Update \cup {0}
    /\ answered \subseteq Update /\ logged \subseteq Update

\* What a process starts with; newMediator has no truth, periodicState no memory.
StartState ==
    [goroutines |-> {"notifier"} \cup (IF config.commands THEN {"poller"} ELSE {}),
     shown |-> [p \in Profile |-> "nobody"],
     last |-> [s \in Sink |-> [p \in Profile |-> "never"]]]

NotifyInit ==
    /\ config \in Configs
    /\ up = TRUE /\ cancelled = FALSE
    /\ goroutines = StartState.goroutines
    /\ grace = TRUE
    /\ shown = StartState.shown
    /\ changes = [p \in Profile |-> 0]
    /\ ready = FALSE
    /\ job = 0
    /\ batch = StartState.shown
    /\ last = StartState.last
    /\ emits = {}
    /\ word = [s \in Sink |-> [p \in Profile |-> "never"]]
    /\ posted = 0 /\ confirmed = 0
    /\ offset = 0 /\ updates = {} /\ handling = 0
    /\ answered = {} /\ logged = {}

-----------------------------------------------------------------------------
(***************************************************************************)
(* Events: the mediator changes a truth and starts a goroutine that emits. *)
(***************************************************************************)

\* A truth lost or found again is always announced; one that replaces another
\* only when it was pushed to somebody and the probe shows its usage.
Announced(p, v) ==
    IF Says(v) = Says(shown[p]) THEN {{}}
    ELSE LET e == [profile |-> p, says |-> Says(v), at |-> 0]
         IN  IF v \in Cred /\ shown[p] \in Cred THEN {{}, {e}} ELSE {{e}}

Change(p, v) ==
    /\ up /\ changes[p] < MaxChanges[config][p] /\ v # shown[p]
    /\ shown' = [shown EXCEPT ![p] = v]
    /\ changes' = [changes EXCEPT ![p] = @ + 1]
    /\ \E es \in Announced(p, v) : emits' = emits \cup es
    /\ UNCHANGED <<lifeVars, goroutines, grace, loopVars, word, pollVars>>

GraceEnds ==
    /\ up /\ grace
    /\ grace' = FALSE
    /\ UNCHANGED <<lifeVars, goroutines, shown, changes, loopVars, emits, word, pollVars>>

Hears(s, p, says) == word' = [word EXCEPT ![s][p] = says]

\* Emit: suppressed during the grace, otherwise one dispatch per sink in
\* order; a sink that fails, or has no route, does not keep the rest from it.
Suppress(e) ==
    /\ up /\ e \in emits /\ e.at = 0 /\ grace
    /\ emits' = emits \ {e}
    /\ UNCHANGED <<lifeVars, goroutines, truthVars, loopVars, word, pollVars>>

EmitGoesOn(e) ==
    emits' = (emits \ {e}) \cup
             (IF e.at = Sinks THEN {} ELSE {[e EXCEPT !.at = @ + 1]})

Emit(e) ==
    /\ up /\ e \in emits /\ (e.at = 0 => ~ grace)
    /\ EmitGoesOn(e)
    /\ \/ e.at \in Sink /\ config.route[e.at][e.profile] # 0
          /\ <<e.at, config.route[e.at][e.profile]>> \notin Down
          /\ Hears(e.at, e.profile, e.says)
       \/ UNCHANGED word
    /\ UNCHANGED <<lifeVars, goroutines, truthVars, loopVars, pollVars>>

-----------------------------------------------------------------------------
(***************************************************************************)
(* Run: summaries.                                                         *)
(***************************************************************************)
SinkOf(j) == ((j - 1) \div Chats) + 1
ChatOf(j) == ((j - 1) % Chats) + 1

\* groupPeriodicRecords: the profiles whose records go to this destination.
Group(s, c) == {p \in Profile : config.route[s][p] = c}

NextJob(j)  == IF j = Sinks * Chats THEN 0 ELSE j + 1
NextSink(j) == IF SinkOf(j) = Sinks THEN 0 ELSE SinkOf(j) * Chats + 1

\* ~ periodicNotReady
HasReport(records) == \E p \in Profile : records[p] # "nobody"

\* runOnce, up to the first sink.  The retry ticker runs it until it has found
\* something to report, the other one every hour.
RunOnce(tick) ==
    /\ up /\ ~ cancelled /\ "notifier" \in goroutines /\ job = 0
    /\ tick \/ ~ ready
    /\ IF HasReport(shown)
       THEN ready' = TRUE /\ job' = 1 /\ batch' = shown
       ELSE ready' = tick /\ UNCHANGED <<job, batch>>
    /\ UNCHANGED <<lifeVars, goroutines, truthVars, last, emits, word, pollVars>>

\* The digest covers the usage windows too: a summary may count as changed
\* although its truths are the same, never the other way round.
Unchanged(s, c) == \A p \in Group(s, c) : last[s][p] = batch[p]

Skip ==
    /\ up /\ job # 0 /\ Unchanged(SinkOf(job), ChatOf(job))
    /\ job' = NextJob(job)
    /\ UNCHANGED <<lifeVars, goroutines, truthVars, ready, batch, last, emits, word, pollVars>>

TellAll(s, c) ==
    word' = [word EXCEPT ![s] =
               [p \in Profile |-> IF p \in Group(s, c) THEN Says(batch[p]) ELSE @[p]]]

RememberAll(s, c) ==
    last' = [last EXCEPT ![s] =
               [p \in Profile |-> IF p \in Group(s, c) THEN batch[p] ELSE @[p]]]

\* NotifyPeriodic: a send that succeeds is remembered.
Send(s, c) ==
    /\ up /\ ~ cancelled /\ job # 0 /\ SinkOf(job) = s /\ ChatOf(job) = c
    /\ Group(s, c) # {} /\ <<s, c>> \notin Down
    /\ TellAll(s, c)
    /\ RememberAll(s, c)
    /\ job' = NextJob(job)
    /\ UNCHANGED <<lifeVars, goroutines, truthVars, ready, batch, emits, pollVars>>


\* One that fails, maybe after the message arrived, ends the summaries of this
\* sink, those of its later destinations too, not those of the next sink.
\* After cancel every send fails.
SendFails(s, c) ==
    /\ up /\ job # 0 /\ SinkOf(job) = s /\ ChatOf(job) = c
    /\ Group(s, c) # {}
    /\ \/ <<s, c>> \notin Down /\ ~ cancelled /\ TellAll(s, c)
       \/ UNCHANGED word
    /\ job' = NextSink(job)
    /\ UNCHANGED <<lifeVars, goroutines, truthVars, ready, batch, last, emits, pollVars>>

NotifierReturns ==
    /\ up /\ cancelled /\ "notifier" \in goroutines /\ job = 0
    /\ goroutines' = goroutines \ {"notifier"}
    /\ UNCHANGED <<lifeVars, truthVars, loopVars, emits, word, pollVars>>

-----------------------------------------------------------------------------
(***************************************************************************)
(* The command poller.                                                     *)
(***************************************************************************)

\* A user writes to the bot.
Post ==
    /\ config.commands /\ posted < MaxUpdates
    /\ posted' = posted + 1
    /\ UNCHANGED <<lifeVars, goroutines, truthVars, loopVars, emits, word,
                   confirmed, offset, updates, handling, answered, logged>>

\* Telegram forgets the updates below the offset it is asked for.
Confirm == confirmed' = IF offset - 1 > confirmed THEN offset - 1 ELSE confirmed

\* Mutant: the updates are handled while the poller goes on polling.
PollAhead ==
    /\ up /\ ~ cancelled /\ "poller" \in goroutines
    /\ confirmed' = posted
    /\ updates' = updates \cup {u \in Update : u > confirmed /\ u <= posted}
    /\ UNCHANGED <<lifeVars, goroutines, truthVars, loopVars, emits, word,
                   posted, offset, handling, answered, logged>>

Poll ==
    /\ up /\ ~ cancelled /\ "poller" \in goroutines
    /\ updates = {} /\ handling = 0
    /\ Confirm
    /\ updates' = {u \in Update : u > confirmed' /\ u <= posted}
    /\ UNCHANGED <<lifeVars, goroutines, truthVars, loopVars, emits, word,
                   posted, offset, handling, answered, logged>>

\* The request took effect and its answer was lost; the poller retries.
PollFails ==
    /\ up /\ ~ cancelled /\ "poller" \in goroutines
    /\ updates = {} /\ handling = 0
    /\ Confirm
    /\ UNCHANGED <<lifeVars, goroutines, truthVars, loopVars, emits, word,
                   posted, offset, updates, handling, answered, logged>>

\* The next update of the batch: the offset moves before it is handled.
TakeUpdate(u) ==
    /\ up /\ handling = 0
    /\ u \in updates /\ \A w \in updates : u <= w
    /\ updates' = updates \ {u}
    /\ handling' = u
    /\ offset' = IF u >= offset THEN u + 1 ELSE offset
    /\ UNCHANGED <<lifeVars, goroutines, truthVars, loopVars, emits, word,
                   posted, confirmed, answered, logged>>

\* handleUpdate: the answer, or a refusal, is sent.  A send that fails is logged
\* and not repeated.  With a cancelled context nothing goes out (the wait for
\* snapshots gives up without a word), and the loop runs through the rest of its
\* batch.
HandleUpdate ==
    /\ up /\ handling # 0
    /\ \/ ~ cancelled /\ answered' = answered \cup {handling} /\ UNCHANGED logged
       \/ logged' = logged \cup {handling} /\ UNCHANGED answered
       \/ cancelled /\ UNCHANGED <<answered, logged>>
    /\ handling' = 0
    /\ UNCHANGED <<lifeVars, goroutines, truthVars, loopVars, emits, word,
                   posted, confirmed, offset, updates>>

PollerReturns ==
    /\ up /\ cancelled /\ "poller" \in goroutines
    /\ updates = {} /\ handling = 0
    /\ goroutines' = goroutines \ {"poller"}
    /\ UNCHANGED <<lifeVars, truthVars, loopVars, emits, word, pollVars>>

-----------------------------------------------------------------------------
NotifyLoop ==
    \/ \E tick \in BOOLEAN : RunOnce(tick)
    \/ Skip
    \/ \E s \in Sink, c \in Chat : Send(s, c) \/ SendFails(s, c)
    \/ NotifierReturns

NotifyEvents ==
    \/ GraceEnds
    \/ \E e \in emits : Suppress(e) \/ Emit(e)

NotifyPoller ==
    \/ Post \/ Poll \/ PollFails
    \/ \E u \in updates : TakeUpdate(u)
    \/ HandleUpdate \/ PollerReturns

\* The summaries get past this destination: it takes its own, or needs none.
GetsPast(s, c) ==
    \/ Send(s, c)
    \/ job # 0 /\ SinkOf(job) = s /\ ChatOf(job) = c /\ Skip

(***************************************************************************)
(* Goroutines run, tickers tick, HTTP requests end by their timeouts.  A   *)
(* destination that is not down takes a summary in the end when it is      *)
(* tried again and again; one that is unchanged need not be tried.  Users  *)
(* need not write anything.                                                *)
(***************************************************************************)
NotifyFairness ==
    /\ WF_notifyVars(RunOnce(FALSE)) /\ WF_notifyVars(RunOnce(TRUE))
    /\ WF_notifyVars(Skip)
    /\ \A s \in Sink, c \in Chat : <<s, c>> \notin Down => SF_notifyVars(GetsPast(s, c))
    /\ WF_notifyVars(\E s \in Sink, c \in Chat : SendFails(s, c))
    /\ WF_notifyVars(NotifierReturns)
    /\ WF_notifyVars(\E e \in emits : Suppress(e) \/ Emit(e))
    /\ WF_notifyVars(\E u \in updates : TakeUpdate(u))
    /\ WF_notifyVars(HandleUpdate)
    /\ WF_notifyVars(PollerReturns)
=============================================================================
