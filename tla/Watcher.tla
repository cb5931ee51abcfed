------------------------------ MODULE Watcher ------------------------------
(***************************************************************************)
(* The way from a change on disk to a report: the fsnotify watcher with    *)
(* its debounce and stability window (internal/watcher), the agent's       *)
(* pending buffer and the writer pump of a session (client/agent.go).      *)
(* Time is counted in ticks of the watcher's ticker (DebounceCore).        *)
(***************************************************************************)
EXTENDS Integers, Sequences, FiniteSets, SequencesExt

CONSTANTS
    Path,         \* the watched paths
    Primary,      \* the credential file among them
    Content,      \* contents a file may have
    Torn,         \* a content that does not Parse, as of a file half written
    NoFile,       \* no content: the path does not exist
    QueueCap,     \* Options.MaxQueue
    StableTicks,  \* StableWindow, in ticks
    KernelCap,    \* raw events fsnotify can hold (bound)
    EventsLost,   \* whether fsnotify may overflow and lose raw events
    MaxWrites     \* writes by others (bound)

ASSUME WatcherAssumption ==
    /\ Primary \in Path /\ IsFiniteSet(Path)
    /\ Torn \in Content /\ NoFile \notin Content
    /\ QueueCap \in Nat \ {0} /\ StableTicks \in Nat \ {0}
    /\ KernelCap \in Nat \ {0} /\ MaxWrites \in Nat
    /\ EventsLost \in BOOLEAN

VARIABLES
    disk,      \* path -> content
    kernel,    \* raw events not read yet
    pending,   \* path -> no raw event, a recent one, or one older than DebounceCore
    sample,    \* path -> last stat while waiting for the stable window
    events,    \* the channel Events()
    buffered,  \* keys of agent.pending: every event triggers the same re-read
    online,    \* a session is established
    writer,    \* the session's writer pump
    shown,     \* what this session has told the server last
    writes     \* number of writes by others

diskVars    == <<disk, kernel, writes>>
sessionVars == <<online, writer, shown>>
vars        == <<diskVars, pending, sample, events, buffered, sessionVars>>

State    == Content \cup {NoFile}
NoSample == [content |-> NoFile, age |-> -1]
Sample   == [content: State, age: -1..StableTicks]

\* What a report says: a file that does not Parse is reported as absent.
Seen(c) == IF c = Torn THEN NoFile ELSE c

Untold == "nothing"

Idle == [at |-> "idle", todo |-> 0, got |-> NoFile]

TypeOK ==
    /\ disk \in [Path -> State]
    /\ kernel \in Seq(Path)
    /\ pending \in [Path -> {"none", "fresh", "ripe"}]
    /\ sample \in [Path -> Sample]
    /\ events \in Seq(Path)
    /\ buffered \subseteq Path
    /\ online \in BOOLEAN
    /\ writer \in [at: {"idle", "read", "send"}, todo: Nat, got: State]
    /\ shown \in State \cup {Untold}
    /\ writes \in 0..MaxWrites

-----------------------------------------------------------------------------
(***************************************************************************)
(* publish: when the channel is full the oldest event goes, whatever path  *)
(* it is about.  What a number of calls leaves is the newest events;       *)
(* MCWatcher compares the two.                                             *)
(***************************************************************************)
Publish(queue, p) ==
    IF Len(queue) < QueueCap THEN Append(queue, p) ELSE Append(Tail(queue), p)

Newest(queue) ==
    IF Len(queue) <= QueueCap THEN queue
    ELSE SubSeq(queue, Len(queue) - QueueCap + 1, Len(queue))

\* The queues that publishing the paths of ps in some order may leave behind.
Published(queue, ps) == {Newest(queue \o order) : order \in SetToSeqs(ps)}

\* New and Start: the directories are registered before the initial events are
\* built; the agent buffers them from then on.
Init ==
    /\ disk \in [Path -> {NoFile} \cup (Content \ {Torn})]
    /\ kernel = <<>>
    /\ pending = [p \in Path |-> "none"]
    /\ sample = [p \in Path |-> NoSample]
    /\ events \in Published(<<>>, Path)
    /\ buffered = {}
    /\ online = FALSE
    /\ writer = Idle
    /\ shown = Untold
    /\ writes = 0

\* Somebody (a CLI, applyTruth, an editor) changes a file; a half-written one
\* is a change of its own.
Changed(p, c) ==
    /\ disk[p] # c
    /\ disk' = [disk EXCEPT ![p] = c]
    /\ IF Len(kernel) < KernelCap
       THEN kernel' = Append(kernel, p)
       ELSE EventsLost /\ UNCHANGED kernel

Write(p, c) ==
    /\ writes < MaxWrites
    /\ Changed(p, c)
    /\ writes' = writes + 1
    /\ UNCHANGED <<pending, sample, events, buffered, sessionVars>>

\* loop, case fs.Events: the quiet time starts again.
RawEvent ==
    /\ kernel # <<>>
    /\ kernel' = Tail(kernel)
    /\ pending' = [pending EXCEPT ![Head(kernel)] = "fresh"]
    /\ sample' = [sample EXCEPT ![Head(kernel)] = NoSample]
    /\ UNCHANGED <<disk, writes, events, buffered, sessionVars>>

SameSample(p) == sample[p] # NoSample /\ sample[p].content = disk[p]

\* Mutant: an unchanged sample starts a new stability clock.
NextSampleRestarts(p) == [content |-> disk[p], age |-> 0]

NextSample(p) ==
    IF SameSample(p)
    THEN [sample[p] EXCEPT !.age = IF @ < StableTicks THEN @ + 1 ELSE @]
    ELSE [content |-> disk[p], age |-> 0]

Settled(due) == {p \in due : SameSample(p) /\ sample[p].age + 1 >= StableTicks}

(***************************************************************************)
(* loop, case tick: a raw event is older than DebounceCore at the second   *)
(* tick after it at the latest, at the first if that one came late.  The   *)
(* paths that were stable long enough are published in map order.          *)
(***************************************************************************)
Tick ==
    \E due \in SUBSET {p \in Path : pending[p] # "none"} :
        /\ \A p \in Path : pending[p] = "ripe" => p \in due
        /\ events' \in Published(events, Settled(due))
        /\ sample' = [p \in Path |-> IF p \in Settled(due) THEN NoSample
                                     ELSE IF p \in due THEN NextSample(p)
                                     ELSE sample[p]]
        /\ pending' = [p \in Path |-> IF p \in Settled(due) \/ pending[p] = "none"
                                      THEN "none" ELSE "ripe"]
        /\ UNCHANGED <<diskVars, buffered, sessionVars>>

-----------------------------------------------------------------------------
(***************************************************************************)
(* The agent: the buffering goroutine, and one session at a time.          *)
(***************************************************************************)
Buffer ==
    /\ events # <<>>
    /\ events' = Tail(events)
    /\ buffered' = buffered \cup {Head(events)}
    /\ UNCHANGED <<diskVars, pending, sample, sessionVars>>

\* A session up to its flushPending: the buffer is emptied, the current state
\* is to be reported once.
Connect ==
    /\ ~ online
    /\ online' = TRUE
    /\ shown' = Untold
    /\ buffered' = {}
    /\ writer' = [at |-> "read", todo |-> 1, got |-> NoFile]
    /\ UNCHANGED <<diskVars, pending, sample, events>>

\* The end of a session: peer gone, a send that failed, cancellation.
Disconnect ==
    /\ online
    /\ online' = FALSE
    /\ writer' = Idle
    /\ shown' = Untold
    /\ UNCHANGED <<diskVars, pending, sample, events, buffered>>

\* writeLoop: every 200 ms the buffered events are taken, one report for each.
TakePending ==
    /\ online /\ writer.at = "idle"
    /\ buffered # {}
    /\ writer' = [at |-> "read", todo |-> Cardinality(buffered), got |-> NoFile]
    /\ buffered' = {}
    /\ UNCHANGED <<diskVars, pending, sample, events, online, shown>>

\* reportEvent reads the credential file, whichever path changed, ...
ReadState ==
    /\ online /\ writer.at = "read"
    /\ writer' = [writer EXCEPT !.at = "send", !.got = Seen(disk[Primary])]
    /\ UNCHANGED <<diskVars, pending, sample, events, buffered, online, shown>>

\* Mutant: the buffer is emptied when the report is out.
SendReportClears ==
    /\ online /\ writer.at = "send"
    /\ shown' = writer.got
    /\ writer' = IF writer.todo > 1
                 THEN [writer EXCEPT !.at = "read", !.todo = @ - 1]
                 ELSE Idle
    /\ buffered' = {}
    /\ UNCHANGED <<diskVars, pending, sample, events, online>>

\* ... and sends what it has read.
SendReport ==
    /\ online /\ writer.at = "send"
    /\ shown' = writer.got
    /\ writer' = IF writer.todo > 1
                 THEN [writer EXCEPT !.at = "read", !.todo = @ - 1]
                 ELSE Idle
    /\ UNCHANGED <<diskVars, pending, sample, events, buffered, online>>

-----------------------------------------------------------------------------
Next ==
    \/ \E p \in Path, c \in State : Write(p, c)
    \/ RawEvent
    \/ Tick
    \/ Buffer
    \/ Connect
    \/ Disconnect
    \/ TakePending
    \/ ReadState
    \/ SendReport

Spec == Init /\ [][Next]_vars

\* The goroutines of the watcher and of the agent run, the tickers tick, and the
\* server can be reached again and again.  Nobody has to write or to lose a
\* session.
Fairness ==
    /\ WF_vars(RawEvent)
    /\ WF_vars(Tick)
    /\ WF_vars(Buffer)
    /\ WF_vars(Connect)
    /\ WF_vars(TakePending)
    /\ WF_vars(ReadState)
    /\ WF_vars(SendReport)

FairSpec == Spec /\ Fairness

-----------------------------------------------------------------------------
(***************************************************************************)
(* Properties.                                                             *)
(***************************************************************************)

\* Steps after which the session reads the file again.
UnderWay ==
    \/ Primary \in Range(kernel)
    \/ pending[Primary] # "none"
    \/ events # <<>>
    \/ buffered # {}
    \/ writer.at = "read"
    \/ writer.at = "send" /\ (writer.todo > 1 \/ writer.got = Seen(disk[Primary]))

\* The drop-oldest queue may lose the event of the credential file in favour of
\* another path's, and flushPending forgets what was buffered; yet whenever the
\* server was told something else than the file says, a re-read is under way.
NothingForgotten ==
    (online /\ shown # Seen(disk[Primary])) => UnderWay

\* Once nobody writes any more, and as often as a session gets through, the
\* server is told what the credential file holds.
Settles == []<>(~ online \/ shown = Seen(disk[Primary]))
=============================================================================
