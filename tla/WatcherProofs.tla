---------------------------- MODULE WatcherProofs ----------------------------
(***************************************************************************)
(* Proofs about the way from a change on disk to a report, for any paths,  *)
(* contents, queue capacity, stability window and number of writes.        *)
(***************************************************************************)
EXTENDS Watcher, FiniteSetTheorems, WellFoundedInduction, TLAPS

-----------------------------------------------------------------------------
(* The queues. *)

LEMMA InRange ==
    ASSUME NEW S, NEW s \in Seq(S), NEW x
    PROVE  x \in Range(s) <=> \E i \in 1..Len(s) : s[i] = x
BY DEF Range

LEMMA Appended ==
    ASSUME NEW S, NEW s \in Seq(S), NEW x \in S
    PROVE  /\ Append(s, x) \in Seq(S)
           /\ Range(s) \cup {x} \subseteq Range(Append(s, x))
<1> DEFINE t == Append(s, x)
<1>1. /\ t \in Seq(S) /\ Len(t) = Len(s) + 1 /\ Len(s) \in Nat /\ t[Len(s) + 1] = x
      /\ \A i \in 1..Len(s) : t[i] = s[i]
    OBVIOUS
<1> HIDE DEF t
<1>2. \A y : y \in Range(t) <=> \E i \in 1..Len(t) : t[i] = y
    BY <1>1, InRange
<1>3. \A y : y \in Range(s) <=> \E i \in 1..Len(s) : s[i] = y
    BY InRange
<1>4. Range(s) \cup {x} \subseteq Range(t)
    BY <1>1, <1>2, <1>3
<1> QED
    BY <1>1, <1>4 DEF t

LEMMA HeadTaken ==
    ASSUME NEW S, NEW s \in Seq(S), s # <<>>
    PROVE  /\ Head(s) \in S /\ Tail(s) \in Seq(S)
           /\ Range(s) \subseteq {Head(s)} \cup Range(Tail(s))
<1> DEFINE t == Tail(s)
<1>1. /\ t \in Seq(S) /\ Len(t) = Len(s) - 1 /\ Len(s) \in Nat /\ Len(s) >= 1
      /\ Head(s) = s[1] /\ s[1] \in S /\ \A i \in 1..Len(t) : t[i] = s[i + 1]
    OBVIOUS
<1> HIDE DEF t
<1>2. \A y : y \in Range(t) <=> \E i \in 1..Len(t) : t[i] = y
    BY <1>1, InRange
<1>3. \A y : y \in Range(s) <=> \E i \in 1..Len(s) : s[i] = y
    BY InRange
<1>4. ASSUME NEW y \in Range(s), y # Head(s)
      PROVE  y \in Range(t)
    <2>1. PICK i \in 1..Len(s) : s[i] = y
        BY <1>3
    <2>2. i - 1 \in 1..Len(t) /\ (i - 1) + 1 = i
        BY <1>1, <1>4, <2>1
    <2> QED
        BY <1>1, <1>2, <2>1, <2>2
<1> QED
    BY <1>1, <1>4 DEF t

\* publish keeps what there is from becoming nothing.
LEMMA PublishedQueue ==
    ASSUME NEW queue \in Seq(Path), NEW ps \in SUBSET Path, NEW q \in Published(queue, ps)
    PROVE  /\ q \in Seq(Path)
           /\ (queue # <<>> \/ ps # {}) => q # <<>>
<1>1. QueueCap \in Nat \ {0} /\ IsFiniteSet(ps)
    BY WatcherAssumption, FS_Subset
<1>2. Cardinality(ps) \in Nat /\ (ps # {} => Cardinality(ps) >= 1)
    BY <1>1, FS_CardinalityType, FS_EmptySet
<1>3. PICK order \in SetToSeqs(ps) : q = Newest(queue \o order)
    BY DEF Published
<1>4. order \in Seq(Path) /\ Len(order) = Cardinality(ps)
    <2>1. order \in [1..Cardinality(ps) -> ps]
        BY DEF SetToSeqs
    <2>2. order \in [1..Cardinality(ps) -> Path]
        BY <2>1
    <2> QED
        BY <1>2, <2>2
<1> DEFINE s == queue \o order
<1>5. /\ s \in Seq(Path) /\ Len(s) = Len(queue) + Len(order)
      /\ Len(queue) \in Nat /\ Len(order) \in Nat
      /\ (queue # <<>> => Len(queue) >= 1)
    BY <1>4
<1> HIDE DEF s
<1>6. Newest(s) \in Seq(Path) /\ (Len(s) >= 1 => Len(Newest(s)) >= 1)
    <2>1. CASE Len(s) <= QueueCap
        BY <1>5, <2>1 DEF Newest
    <2>2. CASE ~ (Len(s) <= QueueCap)
        <3> DEFINE t == SubSeq(s, Len(s) - QueueCap + 1, Len(s))
        <3>1. t \in Seq(Path) /\ Len(t) = QueueCap
            BY <1>1, <1>5, <2>2
        <3> QED
            BY <1>1, <2>2, <3>1 DEF Newest
    <2> QED
        BY <2>1, <2>2
<1>7. q = Newest(s)
    BY <1>3 DEF s
<1> QED
    BY <1>2, <1>4, <1>5, <1>6, <1>7

-----------------------------------------------------------------------------
LEMMA InitTypeOK == Init => TypeOK
<1> SUFFICES ASSUME Init PROVE TypeOK
    OBVIOUS
<1>1. events \in Seq(Path)
    <2>1. <<>> \in Seq(Path) /\ Path \in SUBSET Path
        OBVIOUS
    <2> QED
        BY <2>1, PublishedQueue DEF Init
<1>2. kernel \in Seq(Path)
    BY DEF Init
<1>3. writer \in [at: {"idle", "read", "send"}, todo: Nat, got: State]
    BY DEF Init, Idle, State
<1>4. sample \in [Path -> Sample]
    BY WatcherAssumption DEF Init, NoSample, Sample, State
<1>5. disk \in [Path -> State]
    BY DEF Init, State
<1>6. pending \in [Path -> {"none", "fresh", "ripe"}] /\ buffered \subseteq Path
    BY DEF Init
<1>7. online \in BOOLEAN /\ shown \in State \cup {Untold}
    BY DEF Init
<1>8. writes \in 0..MaxWrites
    BY WatcherAssumption DEF Init
<1> QED
    BY <1>1, <1>2, <1>3, <1>4, <1>5, <1>6, <1>7, <1>8 DEF TypeOK

LEMMA NextTypeOK ==
    ASSUME TypeOK, [Next]_vars
    PROVE  TypeOK'
<1> USE DEF TypeOK
<1>1. ASSUME NEW p \in Path, NEW c \in State, Write(p, c)
      PROVE  TypeOK'
    <2>1. Append(kernel, p) \in Seq(Path)
        BY Appended
    <2>2. writes' \in 0..MaxWrites
        BY <1>1, WatcherAssumption DEF Write
    <2> QED
        BY <1>1, <2>1, <2>2 DEF Write, Changed, sessionVars
<1>2. CASE RawEvent
    <2>1. Head(kernel) \in Path /\ Tail(kernel) \in Seq(Path)
        BY <1>2, HeadTaken DEF RawEvent
    <2>2. NoSample \in Sample
        BY WatcherAssumption DEF NoSample, Sample, State
    <2> QED
        BY <1>2, <2>1, <2>2 DEF RawEvent, sessionVars
<1>3. CASE Tick
    <2>1. PICK due \in SUBSET {p \in Path : pending[p] # "none"} :
            /\ events' \in Published(events, Settled(due))
            /\ sample' = [p \in Path |-> IF p \in Settled(due) THEN NoSample
                                         ELSE IF p \in due THEN NextSample(p)
                                         ELSE sample[p]]
            /\ pending' = [p \in Path |-> IF p \in Settled(due) \/ pending[p] = "none"
                                          THEN "none" ELSE "ripe"]
            /\ UNCHANGED <<diskVars, buffered, sessionVars>>
        BY <1>3 DEF Tick
    <2>2. events' \in Seq(Path)
        BY <2>1, PublishedQueue DEF Settled
    <2>3. NoSample \in Sample
        BY WatcherAssumption DEF NoSample, Sample, State
    <2>4. \A p \in Path : NextSample(p) \in Sample
        <3> SUFFICES ASSUME NEW p \in Path
                     PROVE  NextSample(p) \in Sample
            OBVIOUS
        <3>1. sample[p] \in Sample /\ disk[p] \in State
            OBVIOUS
        <3>2. CASE SameSample(p)
            <4>1. \A a \in -1..StableTicks :
                    (IF a < StableTicks THEN a + 1 ELSE a) \in -1..StableTicks
                BY WatcherAssumption
            <4> QED
                BY <3>1, <3>2, <4>1 DEF NextSample, Sample
        <3>3. CASE ~ SameSample(p)
            BY <3>1, <3>3, WatcherAssumption DEF NextSample, Sample
        <3> QED
            BY <3>2, <3>3
    <2>5. sample' \in [Path -> Sample]
        BY <2>1, <2>3, <2>4
    <2>6. pending' \in [Path -> {"none", "fresh", "ripe"}]
        BY <2>1
    <2> QED
        BY <2>1, <2>2, <2>5, <2>6 DEF diskVars, sessionVars
<1>4. CASE Buffer
    BY <1>4, HeadTaken DEF Buffer, diskVars, sessionVars
<1>5. CASE Connect \/ Disconnect
    <2>1. {[at |-> "read", todo |-> 1, got |-> NoFile], Idle}
            \subseteq [at: {"idle", "read", "send"}, todo: Nat, got: State]
        BY DEF Idle, State
    <2>2. writer' \in [at: {"idle", "read", "send"}, todo: Nat, got: State]
        BY <1>5, <2>1 DEF Connect, Disconnect
    <2> QED
        BY <1>5, <2>2 DEF Connect, Disconnect, diskVars
<1>6. CASE TakePending
    <2>1. Cardinality(buffered) \in Nat
        BY WatcherAssumption, FS_Subset, FS_CardinalityType
    <2> QED
        BY <1>6, <2>1 DEF TakePending, diskVars, State
<1>7. CASE ReadState
    <2>1. Seen(disk[Primary]) \in State
        BY WatcherAssumption DEF Seen, State
    <2> QED
        BY <1>7, <2>1 DEF ReadState, diskVars
<1>8. CASE SendReport
    <2>1. writer.todo \in Nat /\ writer.got \in State
        OBVIOUS
    <2>2. writer.todo > 1 => [writer EXCEPT !.at = "read", !.todo = @ - 1]
                               \in [at: {"idle", "read", "send"}, todo: Nat, got: State]
        <3>1. writer.todo > 1 => writer.todo - 1 \in Nat
            BY <2>1
        <3> QED
            BY <3>1
    <2>3. Idle \in [at: {"idle", "read", "send"}, todo: Nat, got: State]
        BY DEF Idle, State
    <2>4. writer' \in [at: {"idle", "read", "send"}, todo: Nat, got: State]
        BY <1>8, <2>2, <2>3 DEF SendReport
    <2> QED
        BY <1>8, <2>1, <2>4 DEF SendReport, diskVars
<1>9. CASE UNCHANGED vars
    BY <1>9 DEF vars, diskVars, sessionVars
<1> QED
    BY <1>1, <1>2, <1>3, <1>4, <1>5, <1>6, <1>7, <1>8, <1>9 DEF Next

\* Every reachable state of the watcher and of the session's pump is well typed.
THEOREM TypeCorrect == Spec => []TypeOK
BY InitTypeOK, NextTypeOK, PTL DEF Spec

-----------------------------------------------------------------------------
(* What is on its way, before the session's pump has taken it up. *)

Coming ==
    \/ Primary \in Range(kernel)
    \/ pending[Primary] # "none"
    \/ events # <<>>
    \/ buffered # {}

Current == Seen(disk[Primary])

\* The last report of a batch is about a state the file still has, or another
\* event is coming; and the server knows the state, or hears of it.
WatchInv ==
    /\ TypeOK
    /\ writer.at = "send" /\ ~ (writer.todo > 1) /\ writer.got # Current => Coming
    /\ NothingForgotten

\* An event that is coming goes one place further, at the least.
LEMMA ComingKept ==
    ASSUME TypeOK, Coming, RawEvent \/ Tick \/ Buffer
    PROVE  Coming'
<1> USE DEF TypeOK
<1>0. Primary \in Path
    BY WatcherAssumption
<1>1. CASE RawEvent
    <2>1. /\ kernel # <<>> /\ kernel' = Tail(kernel) /\ UNCHANGED <<events, buffered>>
          /\ pending' = [pending EXCEPT ![Head(kernel)] = "fresh"]
        BY <1>1 DEF RawEvent
    <2>2. Range(kernel) \subseteq {Head(kernel)} \cup Range(Tail(kernel))
        BY <2>1, HeadTaken
    <2>3. pending'[Primary] = IF Primary = Head(kernel) THEN "fresh" ELSE pending[Primary]
        BY <1>0, <2>1
    <2> QED
        BY <2>1, <2>2, <2>3 DEF Coming
<1>2. CASE Tick
    <2>1. PICK due \in SUBSET {p \in Path : pending[p] # "none"} :
            /\ events' \in Published(events, Settled(due))
            /\ pending' = [p \in Path |-> IF p \in Settled(due) \/ pending[p] = "none"
                                          THEN "none" ELSE "ripe"]
            /\ UNCHANGED <<diskVars, buffered, sessionVars>>
        BY <1>2 DEF Tick
    <2>2. events # <<>> \/ Settled(due) # {} => events' # <<>>
        <3>1. Settled(due) \in SUBSET Path /\ events \in Seq(Path)
            BY DEF Settled
        <3> QED
            BY <2>1, <3>1, PublishedQueue
    <2>3. pending[Primary] # "none" => pending'[Primary] # "none" \/ Primary \in Settled(due)
        BY <1>0, <2>1
    <2> QED
        BY <2>1, <2>2, <2>3 DEF Coming, diskVars
<1>3. CASE Buffer
    BY <1>3 DEF Buffer, diskVars, Coming
<1> QED
    BY <1>1, <1>2, <1>3

\* While fsnotify loses nothing, a write is announced.
LEMMA WriteComing ==
    ASSUME TypeOK, EventsLost = FALSE, NEW p \in Path, NEW c \in State, Write(p, c)
    PROVE  \/ Coming'
           \/ Current' = Current /\ (Coming => Coming')
<1> USE DEF TypeOK
<1>1. /\ kernel' = Append(kernel, p) /\ disk' = [disk EXCEPT ![p] = c]
      /\ UNCHANGED <<pending, events, buffered>>
    BY DEF Write, Changed
<1>2. Range(kernel) \cup {p} \subseteq Range(kernel')
    BY <1>1, Appended
<1>3. CASE p = Primary
    BY <1>2, <1>3 DEF Coming
<1>4. CASE p # Primary
    <2>1. disk'[Primary] = disk[Primary]
        BY <1>1, <1>4, WatcherAssumption
    <2> QED
        BY <1>1, <1>2, <2>1 DEF Coming, Current
<1> QED
    BY <1>3, <1>4

LEMMA InitWatchInv == Init => WatchInv
<1> SUFFICES ASSUME Init PROVE WatchInv
    OBVIOUS
<1>1. TypeOK
    BY InitTypeOK
<1>2. writer.at = "idle" /\ online = FALSE
    BY DEF Init, Idle
<1> QED
    BY <1>1, <1>2 DEF WatchInv, NothingForgotten

LEMMA NextWatchInv ==
    ASSUME WatchInv, EventsLost = FALSE, [Next]_vars
    PROVE  WatchInv'
<1> DEFINE LastRead == writer.at = "send" /\ ~ (writer.todo > 1) /\ writer.got # Current => Coming
<1>1. TypeOK /\ TypeOK' /\ LastRead /\ NothingForgotten
    BY NextTypeOK DEF WatchInv
<1> SUFFICES LastRead' /\ NothingForgotten'
    BY <1>1 DEF WatchInv
<1>2. ASSUME NEW p \in Path, NEW c \in State, Write(p, c)
      PROVE  LastRead' /\ NothingForgotten'
    <2>1. UNCHANGED sessionVars
        BY <1>2 DEF Write
    <2>2. Coming' \/ (Current' = Current /\ (Coming => Coming'))
        BY <1>1, <1>2, WriteComing
    <2> QED
        BY <1>1, <2>1, <2>2 DEF sessionVars, NothingForgotten, UnderWay, Coming, Current
<1>3. CASE RawEvent \/ Tick \/ Buffer
    <2>1. UNCHANGED <<disk, sessionVars>>
        BY <1>3 DEF RawEvent, Tick, Buffer, diskVars
    <2>2. Coming => Coming'
        BY <1>1, <1>3, ComingKept
    <2> QED
        BY <1>1, <2>1, <2>2 DEF sessionVars, NothingForgotten, UnderWay, Coming, Current
<1>4. CASE Connect \/ TakePending
    <2>1. writer'.at = "read"
        BY <1>4 DEF Connect, TakePending
    <2> QED
        BY <2>1 DEF NothingForgotten, UnderWay
<1>5. CASE Disconnect
    <2>1. writer'.at = "idle" /\ online' = FALSE
        BY <1>5 DEF Disconnect, Idle
    <2> QED
        BY <2>1 DEF NothingForgotten
<1>6. CASE ReadState
    <2>1. writer'.got = Current /\ Current' = Current /\ writer'.at = "send"
        BY <1>1, <1>6 DEF ReadState, Current, diskVars, TypeOK
    <2> QED
        BY <2>1 DEF NothingForgotten, UnderWay, Current
<1>7. CASE SendReport
    <2>1. /\ UNCHANGED <<diskVars, pending, events, buffered>> /\ shown' = writer.got
          /\ writer.at = "send"
        BY <1>7 DEF SendReport
    <2>2. CASE writer.todo > 1
        <3>1. writer'.at = "read"
            BY <1>1, <1>7, <2>2 DEF SendReport, TypeOK
        <3> QED
            BY <3>1 DEF NothingForgotten, UnderWay
    <2>3. CASE ~ (writer.todo > 1)
        <3>1. writer'.at = "idle"
            BY <1>7, <2>3 DEF SendReport, Idle
        <3>2. Coming \/ writer.got = Current
            BY <1>1, <2>1, <2>3
        <3> QED
            BY <2>1, <3>1, <3>2 DEF NothingForgotten, UnderWay, Coming, Current, diskVars
    <2> QED
        BY <2>2, <2>3
<1>8. CASE UNCHANGED vars
    BY <1>1, <1>8 DEF vars, diskVars, sessionVars, NothingForgotten, UnderWay, Coming, Current
<1> QED
    BY <1>2, <1>3, <1>4, <1>5, <1>6, <1>7, <1>8 DEF Next

\* NothingForgotten: as long as fsnotify loses no raw event, whenever the server
\* was told something else than the credential file says, a re-read is under way,
\* whatever the drop-oldest queue, the buffer and new sessions throw away.
THEOREM NothingForgottenHolds ==
    ASSUME EventsLost = FALSE
    PROVE  Spec => []NothingForgotten
<1>1. WatchInv /\ [Next]_vars => WatchInv'
    BY NextWatchInv
<1>2. WatchInv => NothingForgotten
    BY DEF WatchInv
<1> QED
    BY <1>1, <1>2, InitWatchInv, PTL DEF Spec

-----------------------------------------------------------------------------
(***************************************************************************)
(* The calls of publish for the paths of one tick, one after the other,    *)
(* leave what Published says.  q[i] is the queue after i calls.            *)
(***************************************************************************)

\* A nonempty set of numbers has a least one: the ordering of the naturals is
\* well-founded.
LEMMA LeastNumber ==
    ASSUME NEW T \in SUBSET Nat, T # {}
    PROVE  \E x \in T : \A y \in T : x <= y
<1> DEFINE R == OpToRel(<, Nat)
<1>1. IsWellFoundedOn(R, Nat)
    BY NatLessThanWellFounded
<1>2. \A x, y \in Nat : x < y => <<x, y>> \in R
    BY DEF OpToRel
<1> HIDE DEF R
<1>3. T \subseteq Nat
    OBVIOUS
<1>4. \E x \in T : \A y \in T : ~ (<<y, x>> \in R)
    BY <1>1, <1>3, WFMin
<1>5. PICK x \in T : \A y \in T : <<y, x>> \notin R
    BY <1>4
<1>6. ASSUME NEW y \in T PROVE x <= y
    <2>1. x \in Nat /\ y \in Nat
        BY <1>3
    <2>2. <<y, x>> \notin R
        BY <1>5
    <2>3. ~ (y < x)
        BY <1>2, <2>1, <2>2
    <2> QED
        BY <2>1, <2>3
<1> QED
    BY <1>6

LEMMA AppendedToConcat ==
    ASSUME NEW s \in Seq(Path), NEW t \in Seq(Path), NEW x \in Path
    PROVE  s \o Append(t, x) = Append(s \o t, x)
OBVIOUS

\* The length of what is left, and what is at its places.
LEMMA NewestAt ==
    ASSUME NEW s \in Seq(Path)
    PROVE  /\ Newest(s) \in Seq(Path)
           /\ Len(s) <= QueueCap =>
                Newest(s) = s
           /\ Len(s) > QueueCap =>
                /\ Len(Newest(s)) = QueueCap
                /\ \A i \in 1..QueueCap : Newest(s)[i] = s[Len(s) - QueueCap + i]
<1>1. QueueCap \in Nat \ {0} /\ Len(s) \in Nat
    BY WatcherAssumption
<1>2. CASE Len(s) <= QueueCap
    BY <1>1, <1>2 DEF Newest
<1>3. CASE Len(s) > QueueCap
    <2>1. Newest(s) = SubSeq(s, Len(s) - QueueCap + 1, Len(s))
        BY <1>1, <1>3 DEF Newest
    <2>2. /\ SubSeq(s, Len(s) - QueueCap + 1, Len(s)) \in Seq(Path)
          /\ Len(SubSeq(s, Len(s) - QueueCap + 1, Len(s))) = QueueCap
        BY <1>1, <1>3
    <2>3. ASSUME NEW i \in 1..QueueCap
          PROVE  SubSeq(s, Len(s) - QueueCap + 1, Len(s))[i] = s[Len(s) - QueueCap + i]
        BY <1>1, <1>3
    <2> QED
        BY <1>1, <1>3, <2>1, <2>2, <2>3
<1> QED
    BY <1>1, <1>2, <1>3

LEMMA PublishNewest ==
    ASSUME NEW s \in Seq(Path), NEW x \in Path
    PROVE  Publish(Newest(s), x) = Newest(Append(s, x))
<1> DEFINE t == Append(s, x)
           n == Newest(s)
<1>1. QueueCap \in Nat \ {0} /\ Len(s) \in Nat
    BY WatcherAssumption
<1>2. /\ t \in Seq(Path) /\ Len(t) = Len(s) + 1 /\ t[Len(s) + 1] = x
      /\ \A i \in 1..Len(s) : t[i] = s[i]
    OBVIOUS
<1> HIDE DEF t
<1>3. CASE Len(s) < QueueCap
    <2>1. n = s /\ Newest(t) = t
        BY <1>1, <1>2, <1>3, NewestAt
    <2> QED
        BY <1>3, <2>1 DEF Publish, t
<1>4. CASE Len(s) >= QueueCap
    <2>1. n \in Seq(Path) /\ Len(n) = QueueCap
        BY <1>1, <1>4, NewestAt
    <2>2. \A i \in 1..QueueCap : n[i] = s[Len(s) - QueueCap + i]
        BY <1>1, <1>4, NewestAt
    <2>3. /\ Newest(t) \in Seq(Path) /\ Len(Newest(t)) = QueueCap
          /\ \A i \in 1..QueueCap : Newest(t)[i] = t[Len(t) - QueueCap + i]
        <3>1. t \in Seq(Path) /\ Len(t) > QueueCap
            BY <1>1, <1>2, <1>4
        <3> QED
            BY <3>1, NewestAt
    <2> DEFINE u == Append(Tail(n), x)
    <2>4. Publish(n, x) = u
        BY <1>1, <2>1 DEF Publish
    <2> HIDE DEF n
    <2>5. /\ u \in Seq(Path) /\ Len(u) = QueueCap /\ u[QueueCap] = x
          /\ \A i \in 1..(QueueCap - 1) : u[i] = n[i + 1]
        BY <1>1, <2>1
    <2> HIDE DEF u
    <2>6. ASSUME NEW i \in 1..QueueCap
          PROVE  u[i] = Newest(t)[i]
        <3>1. Newest(t)[i] = t[Len(s) + 1 - QueueCap + i]
            BY <1>2, <2>3
        <3>2. CASE i = QueueCap
            <4>1. Len(s) + 1 - QueueCap + i = Len(s) + 1
                BY <1>1, <3>2
            <4> QED
                BY <1>2, <2>5, <3>1, <3>2, <4>1
        <3>3. CASE i # QueueCap
            <4>1. /\ i + 1 \in 1..QueueCap /\ i \in 1..(QueueCap - 1)
                  /\ Len(s) - QueueCap + (i + 1) = Len(s) + 1 - QueueCap + i
                  /\ Len(s) + 1 - QueueCap + i \in 1..Len(s)
                BY <1>1, <1>4, <3>3
            <4>2. u[i] = s[Len(s) + 1 - QueueCap + i]
                BY <2>2, <2>5, <4>1
            <4> QED
                BY <1>2, <3>1, <4>1, <4>2
        <3> QED
            BY <3>2, <3>3
    <2>7. u = Newest(t)
        BY <1>1, <2>3, <2>5, <2>6
    <2> QED
        BY <2>4, <2>7 DEF n, t
<1> QED
    BY <1>1, <1>3, <1>4 DEF t

\* A queue that is not overfull and a sequence of paths, published one after the
\* other with a full channel losing its oldest event each time, end in the newest
\* events of both: what Tick takes as one step is what the loop over the paths does.
THEOREM PublishedInTurn ==
    ASSUME NEW queue \in Seq(Path), Len(queue) <= QueueCap,
           NEW order \in Seq(Path),
           NEW q, q[0] = queue,
           \A i \in 1..Len(order) : q[i] = Publish(q[i - 1], order[i])
    PROVE  q[Len(order)] = Newest(queue \o order)
<1> DEFINE sofar(i) == queue \o SubSeq(order, 1, i)
           T == {i \in 0..Len(order) : q[i] # Newest(sofar(i))}
<1>1. Len(order) \in Nat /\ Len(queue) \in Nat
    OBVIOUS
<1>2. 0 \notin T
    <2>1. sofar(0) = queue
        OBVIOUS
    <2>2. Newest(queue) = queue
        BY NewestAt
    <2> QED
        BY <2>1, <2>2
<1>3. ASSUME NEW i \in 1..Len(order), i - 1 \notin T
      PROVE  i \notin T
    <2>1. i - 1 \in 0..Len(order) /\ q[i - 1] = Newest(sofar(i - 1))
        BY <1>1, <1>3
    <2>2. sofar(i - 1) \in Seq(Path) /\ order[i] \in Path
        <3>1. SubSeq(order, 1, i - 1) \in Seq(Path)
            BY <1>1
        <3> QED
            BY <3>1
    <2>3. Append(sofar(i - 1), order[i]) = sofar(i)
        <3> DEFINE a == SubSeq(order, 1, i - 1)
                   b == SubSeq(order, 1, i)
        <3>1. /\ a \in Seq(Path) /\ Len(a) = i - 1 /\ \A k \in 1..(i - 1) : a[k] = order[k]
              /\ b \in Seq(Path) /\ Len(b) = i /\ \A k \in 1..i : b[k] = order[k]
            BY <1>1
        <3>2. b = Append(a, order[i])
            BY <2>2, <3>1
        <3> HIDE DEF a, b
        <3>3. Append(queue \o a, order[i]) = queue \o Append(a, order[i])
            BY <2>2, <3>1, AppendedToConcat
        <3> QED
            BY <3>2, <3>3 DEF a, b
    <2>4. q[i] = Newest(sofar(i))
        BY <2>1, <2>2, <2>3, PublishNewest
    <2> QED
        BY <2>4
<1>4. T = {}
    <2> SUFFICES ASSUME T # {} PROVE FALSE
        OBVIOUS
    <2>1. T \in SUBSET Nat /\ T \subseteq 0..Len(order)
        OBVIOUS
    <2> HIDE DEF T
    <2>2. PICK i \in T : \A k \in T : i <= k
        BY <2>1, LeastNumber
    <2>3. i \in 1..Len(order) /\ i - 1 \notin T
        BY <1>1, <1>2, <2>1, <2>2
    <2> QED
        BY <1>3, <2>2, <2>3
<1>5. sofar(Len(order)) = queue \o order
    <2>1. SubSeq(order, 1, Len(order)) = order
        BY <1>1
    <2> QED
        BY <2>1
<1>6. q[Len(order)] = Newest(sofar(Len(order)))
    <2>1. Len(order) \in 0..Len(order)
        BY <1>1
    <2> QED
        BY <1>4, <2>1
<1> QED
    BY <1>5, <1>6

\* The channel holds what publish may leave in it.
EventsFit == Len(events) <= QueueCap

LEMMA PublishedFits ==
    ASSUME NEW queue \in Seq(Path), NEW ps \in SUBSET Path, NEW q \in Published(queue, ps)
    PROVE  Len(q) <= QueueCap
<1>1. PICK order \in SetToSeqs(ps) : q = Newest(queue \o order)
    BY DEF Published
<1>2. order \in Seq(Path)
    <2>1. Cardinality(ps) \in Nat
        BY WatcherAssumption, FS_Subset, FS_CardinalityType
    <2>2. order \in [1..Cardinality(ps) -> Path]
        BY DEF SetToSeqs
    <2> QED
        BY <2>1, <2>2
<1>3. queue \o order \in Seq(Path)
    BY <1>2
<1> DEFINE s == queue \o order
<1>4. s \in Seq(Path) /\ Len(s) \in Nat /\ QueueCap \in Nat
    BY <1>3, WatcherAssumption
<1> HIDE DEF s
<1>5. Len(Newest(s)) <= QueueCap
    <2>1. CASE Len(s) <= QueueCap
        BY <1>4, <2>1, NewestAt
    <2>2. CASE Len(s) > QueueCap
        <3>1. Len(Newest(s)) = QueueCap
            BY <1>4, <2>2, NewestAt
        <3> QED
            BY <1>4, <3>1
    <2> QED
        BY <1>4, <2>1, <2>2
<1> QED
    BY <1>1, <1>5 DEF s

\* EventsFit: however many paths settle in one tick, and whatever the agent has
\* taken, Events() holds at most MaxQueue events, so PublishedInTurn says what
\* each tick of every behaviour leaves there.
THEOREM EventsFitHolds == Spec => []EventsFit
<1>1. Init => EventsFit
    <2>1. <<>> \in Seq(Path) /\ Path \in SUBSET Path
        OBVIOUS
    <2> QED
        BY <2>1, PublishedFits DEF Init, EventsFit
<1>2. ASSUME TypeOK, EventsFit, [Next]_vars
      PROVE  EventsFit'
    <2>1. CASE Tick
        <3>1. PICK due \in SUBSET Path : events' \in Published(events, Settled(due))
            BY <2>1 DEF Tick
        <3>2. events \in Seq(Path) /\ Settled(due) \in SUBSET Path
            BY <1>2 DEF TypeOK, Settled
        <3> QED
            BY <3>1, <3>2, PublishedFits DEF EventsFit
    <2>2. CASE Buffer
        <3>1. events # <<>> /\ events' = Tail(events) /\ events \in Seq(Path)
            BY <1>2, <2>2 DEF Buffer, TypeOK
        <3>2. Len(Tail(events)) = Len(events) - 1 /\ Len(events) \in Nat
            BY <3>1
        <3> QED
            BY <1>2, <3>1, <3>2, WatcherAssumption DEF EventsFit
    <2>3. CASE ~ Tick /\ ~ Buffer
        <3>1. events' = events
            BY <1>2, <2>3 DEF Next, Write, RawEvent, Connect, Disconnect, TakePending,
                              ReadState, SendReport, vars
        <3> QED
            BY <1>2, <3>1 DEF EventsFit
    <2> QED
        BY <2>1, <2>2, <2>3
<1>3. TypeOK /\ EventsFit /\ [Next]_vars => EventsFit'
    BY <1>2
<1> QED
    BY <1>1, <1>3, TypeCorrect, PTL DEF Spec
=============================================================================
