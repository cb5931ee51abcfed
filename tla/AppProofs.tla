------------------------------ MODULE AppProofs ------------------------------
(***************************************************************************)
(* Proofs about the server process: the offset of the command poller       *)
(* across crashes and restarts, the order of the shutdown, and types.  For *)
(* any configurations, sinks, chats, profiles, members and bounds.         *)
(***************************************************************************)
EXTENDS App, TLAPS

PollTypes ==
    /\ posted \in Int /\ confirmed \in Int /\ offset \in Int
    /\ updates \subseteq Update
    /\ handling \in Update \cup {0}

\* What is below the offset was answered or logged, or is about to be.
BelowOffset ==
    \A w \in Update : w < offset => w \in answered \cup logged \/ w = handling

\* A batch is handled in order, and so was what came before it.
BatchInOrder ==
    \A u \in updates, w \in Update :
        w < u => w \in updates \cup answered \cup logged \/ w = handling

\* With a cancelled context the rest of the batch goes without answer or log, but
\* then no poll is made any more that would confirm it.
PollInv ==
    /\ PollTypes
    /\ NoCommandVanishes
    /\ ~ cancelled => BelowOffset /\ BatchInOrder

-----------------------------------------------------------------------------
(* The poller. *)

LEMMA UpdatesArePositive == \A u \in Update : u \in Int /\ u > 0
BY NotifyAssumption DEF Update

LEMMA InitPollInv == Init => PollInv
BY UpdatesArePositive DEF Init, NotifyInit, PollInv, PollTypes, NoCommandVanishes,
                          BelowOffset, BatchInOrder

\* A step that leaves the poller alone; the context may be cancelled by it.
LEMMA PollQuiet ==
    ASSUME PollInv, UNCHANGED pollVars, cancelled' = cancelled \/ cancelled' = TRUE
    PROVE  PollInv'
BY DEF PollInv, PollTypes, NoCommandVanishes, BelowOffset, BatchInOrder, pollVars

\* The end of a process: what it knew is gone, what Telegram was told stays.
LEMMA ForgetStep ==
    ASSUME PollInv, Forget
    PROVE  PollInv'
<1>1. PollTypes'
    BY DEF PollInv, PollTypes, Forget
<1>2. NoCommandVanishes'
    BY DEF PollInv, NoCommandVanishes, Forget
<1>3. BelowOffset' /\ BatchInOrder'
    BY UpdatesArePositive DEF BelowOffset, BatchInOrder, Forget
<1> QED
    BY <1>1, <1>2, <1>3 DEF PollInv

\* A request confirms everything below the offset, also when its answer is lost.
LEMMA ConfirmStep ==
    ASSUME PollInv, ~ cancelled, handling = 0, Confirm, UNCHANGED <<offset, answered, logged>>
    PROVE  confirmed' \in Int /\ NoCommandVanishes'
<1>1. confirmed' \in Int
    BY DEF PollInv, PollTypes, Confirm
<1>2. ASSUME NEW w \in Update, w <= confirmed'
      PROVE  w \in answered \cup logged
    <2>1. CASE w <= confirmed
        BY <2>1 DEF PollInv, NoCommandVanishes
    <2>2. CASE ~ w <= confirmed
        <3>1. w < offset
            BY <1>2, <2>2, UpdatesArePositive DEF PollInv, PollTypes, Confirm
        <3> QED
            BY <3>1, UpdatesArePositive DEF PollInv, BelowOffset
    <2> QED
        BY <2>1, <2>2
<1> QED
    BY <1>1, <1>2 DEF NoCommandVanishes

LEMMA PollStep ==
    ASSUME PollInv, Poll
    PROVE  PollInv'
<1>1. confirmed' \in Int /\ NoCommandVanishes'
    BY ConfirmStep DEF Poll
<1>2. BatchInOrder'
    <2> SUFFICES ASSUME NEW u \in updates', NEW w \in Update, w < u
                 PROVE  w \in updates' \cup answered' \cup logged'
        BY DEF BatchInOrder
    <2>1. u \in Update /\ u <= posted
        BY DEF Poll
    <2>2. CASE w <= confirmed'
        BY <1>1, <2>2 DEF NoCommandVanishes
    <2>3. CASE ~ w <= confirmed'
        BY <1>1, <2>1, <2>3, UpdatesArePositive DEF Poll, PollInv, PollTypes
    <2> QED
        BY <2>2, <2>3
<1>3. BelowOffset'
    BY DEF PollInv, BelowOffset, Poll
<1>4. PollTypes'
    BY <1>1 DEF PollInv, PollTypes, Poll
<1> QED
    BY <1>1, <1>2, <1>3, <1>4 DEF PollInv

LEMMA PollFailsStep ==
    ASSUME PollInv, PollFails
    PROVE  PollInv'
<1>1. confirmed' \in Int /\ NoCommandVanishes'
    BY ConfirmStep DEF PollFails
<1> QED
    BY <1>1 DEF PollInv, PollTypes, BelowOffset, BatchInOrder, PollFails, lifeVars

\* The offset moves past an update only when everything before it was answered
\* or logged.
LEMMA TakeStep ==
    ASSUME PollInv, NEW u \in updates, TakeUpdate(u)
    PROVE  PollInv'
<1>1. u \in Update /\ u \in Int /\ u > 0
    BY UpdatesArePositive DEF PollInv, PollTypes
<1>2. handling = 0 /\ handling' = u /\ updates' = updates \ {u}
    BY DEF TakeUpdate
<1>3. ASSUME ~ cancelled, NEW w \in Update, w < u
      PROVE  w \in answered \cup logged
    <2>1. w \in updates \cup answered \cup logged \/ w = handling
        BY <1>3 DEF PollInv, BatchInOrder
    <2>2. w \notin updates
        BY <1>1, <1>3, UpdatesArePositive DEF TakeUpdate
    <2> QED
        BY <1>2, <2>1, <2>2, UpdatesArePositive
<1>4. ~ cancelled => BelowOffset'
    <2> SUFFICES ASSUME ~ cancelled, NEW w \in Update, w < offset'
                 PROVE  w \in answered \cup logged \/ w = u
        BY <1>2 DEF BelowOffset, TakeUpdate
    <2>1. CASE w < offset
        BY <1>2, <2>1, UpdatesArePositive DEF PollInv, BelowOffset
    <2>2. CASE ~ w < offset
        <3>1. w <= u
            BY <1>1, <2>2, UpdatesArePositive DEF TakeUpdate, PollInv, PollTypes
        <3> QED
            BY <1>1, <1>3, <3>1, UpdatesArePositive
    <2> QED
        BY <2>1, <2>2
<1>5. ~ cancelled => BatchInOrder'
    BY <1>2, UpdatesArePositive DEF PollInv, BatchInOrder, TakeUpdate
<1>6. PollTypes'
    BY <1>1, <1>2 DEF PollInv, PollTypes, TakeUpdate
<1>7. NoCommandVanishes'
    BY DEF PollInv, NoCommandVanishes, TakeUpdate
<1> QED
    BY <1>4, <1>5, <1>6, <1>7 DEF PollInv, TakeUpdate, lifeVars

LEMMA HandleStep ==
    ASSUME PollInv, HandleUpdate
    PROVE  PollInv'
<1>1. PollTypes'
    BY DEF PollInv, PollTypes, HandleUpdate
<1>2. NoCommandVanishes'
    BY DEF PollInv, NoCommandVanishes, HandleUpdate
<1>3. ~ cancelled => BelowOffset' /\ BatchInOrder'
    BY DEF PollInv, BelowOffset, BatchInOrder, HandleUpdate
<1> QED
    BY <1>1, <1>2, <1>3 DEF PollInv, HandleUpdate, lifeVars

LEMMA NextPollInv ==
    ASSUME PollInv, [Next]_vars
    PROVE  PollInv'
<1>1. CASE NotifyLoop \/ NotifyEvents
    BY <1>1, PollQuiet DEF NotifyLoop, NotifyEvents, RunOnce, Skip, Send, SendFails,
        NotifierReturns, GraceEnds, Suppress, Emit, lifeVars
<1>2. CASE NotifyPoller
    <2>1. CASE Post
        BY <1>2, <2>1, UpdatesArePositive DEF Post, PollInv, PollTypes, NoCommandVanishes,
            BelowOffset, BatchInOrder, lifeVars
    <2>2. CASE PollerReturns
        BY <2>2, PollQuiet DEF PollerReturns, lifeVars
    <2> QED
        BY <1>2, <2>1, <2>2, PollStep, PollFailsStep, TakeStep, HandleStep DEF NotifyPoller
<1>3. ASSUME NEW p \in Profile, NEW v \in State, Change(p, v)
      PROVE  PollInv'
    BY <1>3, PollQuiet DEF Change, lifeVars
<1>4. CASE Return \/ Crash
    BY <1>4, ForgetStep DEF Return, Crash
<1>5. CASE \/ Listen \/ ListenerReturns \/ Interrupt
           \/ \E m \in Member : Fail(m) \/ Leave(m)
           \/ ShutdownHub \/ ShutdownHttp \/ Start
    BY <1>5, PollQuiet DEF Listen, ListenerReturns, Interrupt, Fail, Leave, ShutdownHub,
        ShutdownHttp, Start, AsNotify, notifyVars, lifeVars
<1>6. CASE UNCHANGED vars
    BY <1>6, PollQuiet DEF vars, notifyVars, lifeVars
<1> QED
    BY <1>1, <1>2, <1>3, <1>4, <1>5, <1>6 DEF Next, Lifecycle

\* NoCommandVanishes: an update that Telegram will not deliver again was answered,
\* or the log says that its answer could not be sent, however polls and answers
\* fail and the process crashes, is stopped and starts again.
THEOREM NoCommandVanishesHolds == Spec => []NoCommandVanishes
<1>1. Spec => []PollInv
    BY InitPollInv, NextPollInv, PTL DEF Spec
<1>2. PollInv => NoCommandVanishes
    BY DEF PollInv
<1> QED
    BY <1>1, <1>2, PTL

-----------------------------------------------------------------------------
(* The shutdown. *)

\* The listener returns on its own error, or when the shutdown goroutine has
\* closed it, which is the last thing that goroutine does.
ListenerLast ==
    /\ "listener" \notin group => socket = "shut" \/ "listener" \in failures
    /\ socket = "shut" => shutdown = "http"

LEMMA ListenerLastStep ==
    ASSUME ListenerLast, [Next]_vars
    PROVE  ListenerLast'
<1> USE DEF ListenerLast
<1>1. CASE UNCHANGED appVars
    BY <1>1 DEF appVars
<1>2. CASE Return \/ Crash
    BY <1>2, AppAssumption DEF Return, Crash, Forget
<1>3. CASE \/ Listen \/ ListenerReturns \/ Interrupt
           \/ \E m \in Member : Fail(m) \/ Leave(m)
    BY <1>3 DEF Listen, ListenerReturns, Interrupt, Fail, Leave, appVars
<1>4. CASE ShutdownHub \/ ShutdownHttp \/ Start
    BY <1>4 DEF ShutdownHub, ShutdownHttp, Start
<1> QED
    BY <1>1, <1>2, <1>3, <1>4 DEF Next, Lifecycle, vars

\* ReturnMeansShut: although nothing waits for the shutdown goroutine, Run returns
\* after it has begun, or because the listener failed.
THEOREM ReturnMeansShutHolds == Spec => ReturnMeansShut
<1>1. Init => ListenerLast
    BY AppAssumption DEF Init, ListenerLast
<1>2. ListenerLast /\ [Next]_vars
      => [Return => shutdown # "nothing" \/ "listener" \in failures]_vars
    BY DEF ListenerLast, Return
<1> QED
    BY <1>1, <1>2, ListenerLastStep, PTL DEF Spec, ReturnMeansShut

-----------------------------------------------------------------------------
(* Types. *)

LEMMA Product ==
    ASSUME NEW a \in Nat, NEW b \in Nat, NEW c \in Nat, a < b
    PROVE  a * c + c <= b * c
OBVIOUS

LEMMA Division ==
    ASSUME NEW n \in Nat, NEW c \in Nat \ {0}
    PROVE  /\ n \div c \in Nat /\ (n \div c) * c <= n
           /\ n % c \in 0..(c - 1)
<1>1. n \div c \in Nat
    OBVIOUS
<1>2. n % c \in 0..(c - 1)
    OBVIOUS
<1>3. (n \div c) * c <= n
    OBVIOUS
<1> QED
    BY <1>1, <1>2, <1>3

\* The sends of runOnce are numbered sink by sink, chat by chat.
LEMMA JobTypes ==
    ASSUME NEW j \in Job
    PROVE  /\ SinkOf(j) \in Sink /\ ChatOf(j) \in Chat
           /\ NextJob(j) \in Job \cup {0} /\ NextSink(j) \in Job \cup {0}
<1> DEFINE q == (j - 1) \div Chats
           r == (j - 1) % Chats
           top == Sinks * Chats
<1>1. Sinks \in Nat \ {0} /\ Chats \in Nat \ {0}
    BY NotifyAssumption
<1>2. top \in Nat /\ j \in Nat /\ j >= 1 /\ j <= top /\ j - 1 \in Nat
    BY <1>1 DEF Job
<1>3. q \in Nat /\ r \in 0..(Chats - 1) /\ q * Chats <= j - 1
    BY <1>1, <1>2, Division
<1>4. SinkOf(j) = q + 1 /\ ChatOf(j) = r + 1
    BY DEF SinkOf, ChatOf
<1> HIDE DEF q, r
<1>5. q < Sinks
    <2> SUFFICES ASSUME Sinks <= q PROVE FALSE
        BY <1>1, <1>3
    <2>1. Sinks * Chats <= q * Chats
        <3>1. CASE Sinks = q
            BY <1>1, <1>3, <3>1
        <3>2. CASE Sinks < q
            BY <1>1, <1>3, <3>2, Product
        <3> QED
            BY <1>1, <1>3, <3>1, <3>2
    <2> QED
        BY <1>1, <1>2, <1>3, <2>1
<1>6. q + 1 < Sinks => (q + 1) * Chats + Chats <= top
    BY <1>1, <1>3, Product
<1>7. (q + 1) * Chats \in Nat
    BY <1>1, <1>3
<1> HIDE DEF top
<1>8. SinkOf(j) \in Sink /\ ChatOf(j) \in Chat
    BY <1>1, <1>3, <1>4, <1>5 DEF Sink, Chat
<1>9. NextJob(j) \in Job \cup {0}
    BY <1>2 DEF NextJob, Job, top
<1>10. NextSink(j) \in Job \cup {0}
    <2>1. CASE SinkOf(j) = Sinks
        BY <2>1 DEF NextSink
    <2>2. CASE SinkOf(j) # Sinks
        <3>1. NextSink(j) = (q + 1) * Chats + 1
            BY <1>4, <2>2 DEF NextSink
        <3>2. (q + 1) * Chats + Chats <= top
            BY <1>1, <1>3, <1>4, <1>5, <1>6, <2>2
        <3>3. (q + 1) * Chats + 1 \in 1..top
            BY <1>1, <1>2, <1>7, <3>2
        <3> QED
            BY <3>1, <3>3 DEF Job, top
    <2> QED
        BY <2>1, <2>2
<1> QED
    BY <1>8, <1>9, <1>10

LEMMA SaysTypes ==
    /\ \A v \in State : Says(v) \in Saying
    /\ "nobody" \in State
    /\ Sinks \in Nat \ {0}
BY NotifyAssumption DEF Saying, State

LEMMA StartTypes ==
    ASSUME config \in Configs
    PROVE  /\ StartState.goroutines \subseteq {"notifier", "poller"}
           /\ StartState.shown \in [Profile -> State]
           /\ StartState.last \in [Sink -> [Profile -> State \cup {"never"}]]
<1>1. "nobody" \in State
    BY SaysTypes
<1> QED
    BY <1>1 DEF StartState

LEMMA InitTypeOK == Init => TypeOK
<1> SUFFICES ASSUME Init PROVE TypeOK
    OBVIOUS
<1>1. config \in Configs /\ MaxUpdates \in Nat
    BY NotifyAssumption DEF Init, NotifyInit
<1>2. /\ goroutines \subseteq {"notifier", "poller"}
      /\ shown \in [Profile -> State] /\ batch \in [Profile -> State]
      /\ last \in [Sink -> [Profile -> State \cup {"never"}]]
    BY <1>1, StartTypes DEF Init, NotifyInit
<1>3. word \in [Sink -> [Profile -> Saying \cup {"never"}]]
    BY DEF Init, NotifyInit
<1>4. offset \in 0..(MaxUpdates + 1) /\ changes \in [Profile -> Nat]
    BY <1>1 DEF Init, NotifyInit
<1>5. NotifyTypeOK
    BY <1>1, <1>2, <1>3, <1>4 DEF Init, NotifyInit, NotifyTypeOK
<1>6. 1 \in 1..MaxStarts[config]
    BY <1>1, AppAssumption
<1> QED
    BY <1>5, <1>6, AppAssumption DEF Init, TypeOK

\* What a summary tells the chats and what is remembered of it.
LEMMA SummaryTypes ==
    ASSUME NotifyTypeOK, NEW s \in Sink, NEW c \in Chat
    PROVE  /\ TellAll(s, c) => word' \in [Sink -> [Profile -> Saying \cup {"never"}]]
           /\ RememberAll(s, c) => last' \in [Sink -> [Profile -> State \cup {"never"}]]
<1>1. \A p \in Profile : batch[p] \in State /\ Says(batch[p]) \in Saying
    BY SaysTypes DEF NotifyTypeOK
<1>2. ASSUME TellAll(s, c)
      PROVE  word' \in [Sink -> [Profile -> Saying \cup {"never"}]]
    <2>1. [p \in Profile |-> IF p \in Group(s, c) THEN Says(batch[p]) ELSE word[s][p]]
            \in [Profile -> Saying \cup {"never"}]
        BY <1>1 DEF NotifyTypeOK
    <2> QED
        BY <1>2, <2>1 DEF NotifyTypeOK, TellAll
<1>3. ASSUME RememberAll(s, c)
      PROVE  last' \in [Sink -> [Profile -> State \cup {"never"}]]
    <2>1. [p \in Profile |-> IF p \in Group(s, c) THEN batch[p] ELSE last[s][p]]
            \in [Profile -> State \cup {"never"}]
        BY <1>1 DEF NotifyTypeOK
    <2> QED
        BY <1>3, <2>1 DEF NotifyTypeOK, RememberAll
<1> QED
    BY <1>2, <1>3

LEMMA LoopTypesStep ==
    ASSUME NotifyTypeOK, NotifyLoop
    PROVE  NotifyTypeOK'
<1>1. ASSUME NEW tick \in BOOLEAN, RunOnce(tick)
      PROVE  NotifyTypeOK'
    <2>1. 1 \in Job
        <3>1. Sinks \in Nat /\ Chats \in Nat /\ 0 < Sinks /\ Chats >= 1
            BY NotifyAssumption
        <3>2. 0 * Chats + Chats <= Sinks * Chats /\ Sinks * Chats \in Nat
            BY <3>1, Product
        <3> QED
            BY <3>1, <3>2 DEF Job
    <2> QED
        BY <1>1, <2>1 DEF RunOnce, NotifyTypeOK, lifeVars, truthVars, pollVars
<1>2. CASE Skip
    <2>1. job' \in Job \cup {0}
        BY <1>2, JobTypes DEF Skip, NotifyTypeOK
    <2> QED
        BY <1>2, <2>1 DEF Skip, NotifyTypeOK, lifeVars, truthVars, pollVars
<1>3. ASSUME NEW s \in Sink, NEW c \in Chat, Send(s, c) \/ SendFails(s, c)
      PROVE  NotifyTypeOK'
    <2>1. job' \in Job \cup {0}
        BY <1>3, JobTypes DEF Send, SendFails, NotifyTypeOK
    <2>2. word' \in [Sink -> [Profile -> Saying \cup {"never"}]]
        BY <1>3, SummaryTypes DEF Send, SendFails, NotifyTypeOK
    <2>3. last' \in [Sink -> [Profile -> State \cup {"never"}]]
        BY <1>3, SummaryTypes DEF Send, SendFails, NotifyTypeOK
    <2>4. UNCHANGED <<lifeVars, goroutines, truthVars, ready, batch, emits, pollVars>>
        BY <1>3 DEF Send, SendFails
    <2> QED
        BY <2>1, <2>2, <2>3, <2>4 DEF NotifyTypeOK, lifeVars, truthVars, pollVars
<1>4. CASE NotifierReturns
    BY <1>4 DEF NotifierReturns, NotifyTypeOK, lifeVars, truthVars, loopVars, pollVars
<1> QED
    BY <1>1, <1>2, <1>3, <1>4 DEF NotifyLoop

LEMMA EventTypesStep ==
    ASSUME NotifyTypeOK, NotifyEvents
    PROVE  NotifyTypeOK'
<1>1. CASE GraceEnds
    BY <1>1 DEF GraceEnds, NotifyTypeOK, lifeVars, loopVars, pollVars
<1>2. ASSUME NEW e \in emits, Suppress(e)
      PROVE  NotifyTypeOK'
    BY <1>2 DEF Suppress, NotifyTypeOK, lifeVars, truthVars, loopVars, pollVars
<1>3. ASSUME NEW e \in emits, Emit(e)
      PROVE  NotifyTypeOK'
    <2>1. e \in Emission
        BY DEF NotifyTypeOK
    <2>2. e.at # Sinks => [e EXCEPT !.at = @ + 1] \in Emission
        <3>1. e.at \in 0..Sinks /\ Sinks \in Nat
            BY <2>1, SaysTypes DEF Emission
        <3>2. e.at # Sinks => e.at + 1 \in 0..Sinks
            BY <3>1
        <3> QED
            BY <2>1, <3>2 DEF Emission
    <2>3. emits' \subseteq Emission
        BY <1>3, <2>2 DEF Emit, EmitGoesOn, NotifyTypeOK
    <2>4. word' \in [Sink -> [Profile -> Saying \cup {"never"}]]
        <3>1. CASE UNCHANGED word
            BY <3>1 DEF NotifyTypeOK
        <3>2. CASE e.at \in Sink /\ Hears(e.at, e.profile, e.says)
            <4>1. e.profile \in Profile /\ e.says \in Saying
                BY <2>1 DEF Emission
            <4>2. [word[e.at] EXCEPT ![e.profile] = e.says] \in [Profile -> Saying \cup {"never"}]
                BY <3>2, <4>1 DEF NotifyTypeOK
            <4> QED
                BY <3>2, <4>2 DEF NotifyTypeOK, Hears
        <3> QED
            BY <1>3, <3>1, <3>2 DEF Emit
    <2> QED
        BY <1>3, <2>3, <2>4 DEF Emit, NotifyTypeOK, lifeVars, truthVars, loopVars, pollVars
<1> QED
    BY <1>1, <1>2, <1>3 DEF NotifyEvents

LEMMA PollerTypesStep ==
    ASSUME NotifyTypeOK, NotifyPoller
    PROVE  NotifyTypeOK'
<1>1. MaxUpdates \in Nat /\ posted \in 0..MaxUpdates /\ confirmed \in 0..MaxUpdates
    BY NotifyAssumption DEF NotifyTypeOK, Update
<1>2. CASE Post
    <2>1. posted' \in Update
        BY <1>1, <1>2 DEF Post, Update
    <2> QED
        BY <1>2, <2>1 DEF Post, NotifyTypeOK, lifeVars, truthVars, loopVars
<1>3. CASE Poll \/ PollFails
    <2>1. confirmed' \in Update \cup {0}
        <3>1. offset \in 0..(MaxUpdates + 1)
            BY DEF NotifyTypeOK
        <3>2. offset - 1 > confirmed => offset - 1 \in Update
            BY <1>1, <3>1 DEF Update
        <3> QED
            BY <1>3, <3>2 DEF Poll, PollFails, Confirm, NotifyTypeOK
    <2>2. updates' \subseteq Update
        BY <1>3 DEF Poll, PollFails, NotifyTypeOK
    <2> QED
        BY <1>3, <2>1, <2>2 DEF Poll, PollFails, NotifyTypeOK, lifeVars, truthVars, loopVars
<1>4. ASSUME NEW u \in updates, TakeUpdate(u)
      PROVE  NotifyTypeOK'
    <2>1. u \in Update /\ u + 1 \in 0..(MaxUpdates + 1)
        BY <1>1 DEF NotifyTypeOK, Update
    <2> QED
        BY <1>4, <2>1 DEF TakeUpdate, NotifyTypeOK, lifeVars, truthVars, loopVars
<1>5. CASE HandleUpdate
    BY <1>5 DEF HandleUpdate, NotifyTypeOK, lifeVars, truthVars, loopVars
<1>6. CASE PollerReturns
    BY <1>6 DEF PollerReturns, NotifyTypeOK, lifeVars, truthVars, loopVars, pollVars
<1> QED
    BY <1>2, <1>3, <1>4, <1>5, <1>6 DEF NotifyPoller

LEMMA ChangeTypesStep ==
    ASSUME NotifyTypeOK, NEW p \in Profile, NEW v \in State, Change(p, v)
    PROVE  NotifyTypeOK'
<1>1. changes' \in [Profile -> Nat]
    BY DEF Change, NotifyTypeOK
<1>2. [profile |-> p, says |-> Says(v), at |-> 0] \in Emission
    BY SaysTypes DEF Emission
<1>3. \A es \in Announced(p, v) : es \subseteq Emission
    BY <1>2 DEF Announced
<1>4. emits' \subseteq Emission
    BY <1>3 DEF Change, NotifyTypeOK
<1> QED
    BY <1>1, <1>4 DEF Change, NotifyTypeOK, lifeVars, loopVars, pollVars

LEMMA ForgetTypesStep ==
    ASSUME TypeOK, Forget, up' \in BOOLEAN
    PROVE  TypeOK'
<1>1. config' = config /\ config \in Configs /\ MaxUpdates \in Nat
    BY NotifyAssumption DEF TypeOK, NotifyTypeOK, Forget
<1>2. /\ goroutines' \subseteq {"notifier", "poller"}
      /\ shown' \in [Profile -> State] /\ batch' \in [Profile -> State]
      /\ last' \in [Sink -> [Profile -> State \cup {"never"}]]
    BY <1>1, StartTypes DEF Forget
<1>3. offset' \in 0..(MaxUpdates + 1) /\ changes' \in [Profile -> Nat]
    BY <1>1 DEF Forget
<1>4. NotifyTypeOK'
    BY <1>1, <1>2, <1>3 DEF TypeOK, NotifyTypeOK, Forget
<1> QED
    BY <1>4 DEF TypeOK, Forget

\* The configuration is read once.
LEMMA ConfigKept == ASSUME [Next]_vars PROVE config' = config
<1>1. CASE NotifyLoop \/ NotifyEvents
    BY <1>1 DEF NotifyLoop, NotifyEvents, RunOnce, Skip, Send, SendFails, NotifierReturns,
        GraceEnds, Suppress, Emit, lifeVars
<1>2. CASE NotifyPoller
    BY <1>2 DEF NotifyPoller, Post, Poll, PollFails, TakeUpdate, HandleUpdate, PollerReturns,
        lifeVars
<1>3. CASE \E p \in Profile, v \in State : Change(p, v)
    BY <1>3 DEF Change, lifeVars
<1>4. CASE \/ Listen \/ ListenerReturns \/ Interrupt
           \/ \E m \in Member : Fail(m) \/ Leave(m)
    BY <1>4 DEF Listen, ListenerReturns, Interrupt, Fail, Leave, notifyVars, lifeVars
<1>5. CASE ShutdownHub \/ ShutdownHttp \/ Return \/ Crash \/ Start
    BY <1>5 DEF ShutdownHub, ShutdownHttp, Return, Crash, Start, Forget, notifyVars, lifeVars
<1>6. CASE UNCHANGED vars
    BY <1>6 DEF vars, notifyVars, lifeVars
<1> QED
    BY <1>1, <1>2, <1>3, <1>4, <1>5, <1>6 DEF Next, Lifecycle

LEMMA NextTypeOK ==
    ASSUME TypeOK, [Next]_vars
    PROVE  TypeOK'
<1> USE ConfigKept
<1>1. CASE (NotifyLoop \/ NotifyEvents \/ NotifyPoller) /\ UNCHANGED appVars
    BY <1>1, LoopTypesStep, EventTypesStep, PollerTypesStep DEF TypeOK, appVars
<1>2. ASSUME NEW p \in Profile, NEW v \in State, Change(p, v), UNCHANGED appVars
      PROVE  TypeOK'
    BY <1>2, ChangeTypesStep DEF TypeOK, appVars
<1>3. CASE Return \/ Crash
    BY <1>3, ForgetTypesStep DEF Return, Crash
<1>4. CASE Listen \/ ListenerReturns \/ (\E m \in Member : Leave(m)) \/ ShutdownHub \/ ShutdownHttp
    <2>1. UNCHANGED notifyVars
        BY <1>4 DEF Listen, ListenerReturns, Leave, ShutdownHub, ShutdownHttp
    <2>2. NotifyTypeOK'
        BY <2>1 DEF TypeOK, NotifyTypeOK, notifyVars, lifeVars, truthVars, loopVars, pollVars
    <2> QED
        BY <1>4, <2>2 DEF TypeOK, Listen, ListenerReturns, Leave, ShutdownHub, ShutdownHttp
<1>5. CASE Interrupt \/ (\E m \in Member : Fail(m)) \/ Start
    <2>1. /\ up' \in BOOLEAN /\ cancelled' \in BOOLEAN /\ config' = config /\ UNCHANGED AsNotify
        BY <1>5 DEF TypeOK, NotifyTypeOK, Interrupt, Fail, Start
    <2>2. NotifyTypeOK'
        BY <2>1 DEF TypeOK, NotifyTypeOK, AsNotify, truthVars, loopVars, pollVars
    <2>3. /\ group' \subseteq Member /\ failures' \subseteq Member
          /\ UNCHANGED <<socket, shutdown>>
        <3>1. CASE Interrupt \/ Start
            BY <3>1 DEF TypeOK, Interrupt, Start, appVars
        <3>2. CASE \E m \in Member : Fail(m)
            BY <3>2 DEF TypeOK, Fail
        <3> QED
            BY <1>5, <3>1, <3>2
    <2>4. starts' \in 1..MaxStarts[config]
        <3>1. MaxStarts[config] \in Nat /\ starts \in 1..MaxStarts[config]
            BY AppAssumption DEF TypeOK, NotifyTypeOK
        <3>2. starts' = starts \/ (starts < MaxStarts[config] /\ starts' = starts + 1)
            BY <1>5 DEF Interrupt, Fail, Start, appVars
        <3> QED
            BY <3>1, <3>2
    <2>5. starts' \in 1..MaxStarts[config']
        BY <2>1, <2>4
    <2> QED
        BY <2>2, <2>3, <2>5 DEF TypeOK
<1>6. CASE UNCHANGED vars
    BY <1>6 DEF TypeOK, NotifyTypeOK, vars, notifyVars, appVars, lifeVars, truthVars, loopVars, pollVars
<1> QED
    BY <1>1, <1>2, <1>3, <1>4, <1>5, <1>6 DEF Next, Lifecycle

\* Every reachable state of the server process is well typed, whatever is
\* configured: runOnce goes through the destinations of every sink and no
\* others, and an emission ends behind the last sink.
THEOREM TypeCorrect == Spec => []TypeOK
BY InitTypeOK, NextTypeOK, PTL DEF Spec
=============================================================================
