-------------------------- MODULE ConnectionProofs --------------------------
(***************************************************************************)
(* Proofs about connections: one WebSocket connection (Link), for any      *)
(* envelopes, queue capacity and callers; the displacement of reverse      *)
(* sessions and the error channel of a bridge (Bridge), for every kind of  *)
(* target and any number of connections and faults.                        *)
(***************************************************************************)
EXTENDS Link, Bridge, TLAPS

-----------------------------------------------------------------------------
(* What the queue operations do to the set of the elements. *)

LEMMA InRange ==
    ASSUME NEW S, NEW s \in Seq(S), NEW x
    PROVE  x \in Range(s) <=> \E i \in 1..Len(s) : s[i] = x
BY DEF Range

LEMMA RangeAppend ==
    ASSUME NEW S, NEW s \in Seq(S), NEW x \in S
    PROVE  /\ Append(s, x) \in Seq(S)
           /\ Range(Append(s, x)) = Range(s) \cup {x}
<1> DEFINE t == Append(s, x)
<1>1. t \in Seq(S) /\ Len(t) = Len(s) + 1
    OBVIOUS
<1>2. \A i \in 1..Len(s) : t[i] = s[i]
    OBVIOUS
<1>3. t[Len(s) + 1] = x /\ Len(s) \in Nat
    OBVIOUS
<1> HIDE DEF t
<1>4. ASSUME NEW y
      PROVE  y \in Range(t) <=> y \in Range(s) \/ y = x
    <2>1. y \in Range(t) <=> \E i \in 1..(Len(s) + 1) : t[i] = y
        BY <1>1, InRange
    <2>2. y \in Range(s) <=> \E i \in 1..Len(s) : s[i] = y
        BY InRange
    <2> QED
        BY <1>2, <1>3, <2>1, <2>2
<1> QED
    BY <1>1, <1>4 DEF t

LEMMA RangeConcat ==
    ASSUME NEW S, NEW s \in Seq(S), NEW t \in Seq(S)
    PROVE  /\ s \o t \in Seq(S)
           /\ Range(s \o t) = Range(s) \cup Range(t)
<1> DEFINE u == s \o t
<1>1. u \in Seq(S) /\ Len(u) = Len(s) + Len(t) /\ Len(s) \in Nat /\ Len(t) \in Nat
    OBVIOUS
<1>2. \A i \in 1..Len(s) : u[i] = s[i]
    OBVIOUS
<1>3. \A i \in 1..Len(t) : u[Len(s) + i] = t[i]
    OBVIOUS
<1> HIDE DEF u
<1>4. ASSUME NEW y
      PROVE  y \in Range(u) <=> y \in Range(s) \/ y \in Range(t)
    <2>1. y \in Range(u) <=> \E i \in 1..(Len(s) + Len(t)) : u[i] = y
        BY <1>1, InRange
    <2>2. y \in Range(s) <=> \E i \in 1..Len(s) : s[i] = y
        BY InRange
    <2>3. y \in Range(t) <=> \E i \in 1..Len(t) : t[i] = y
        BY InRange
    <2>4. ASSUME y \in Range(t)
          PROVE  y \in Range(u)
        <3>1. PICK i \in 1..Len(t) : t[i] = y
            BY <2>3, <2>4
        <3>2. Len(s) + i \in 1..(Len(s) + Len(t)) /\ u[Len(s) + i] = y
            BY <1>1, <1>3, <3>1
        <3> QED
            BY <2>1, <3>2
    <2>5. ASSUME y \in Range(s)
          PROVE  y \in Range(u)
        BY <1>1, <1>2, <2>1, <2>2, <2>5
    <2>6. ASSUME y \in Range(u), y \notin Range(s)
          PROVE  y \in Range(t)
        <3>1. PICK i \in 1..(Len(s) + Len(t)) : u[i] = y
            BY <2>1, <2>6
        <3>2. i \notin 1..Len(s)
            BY <1>2, <2>2, <2>6, <3>1
        <3>3. i - Len(s) \in 1..Len(t) /\ Len(s) + (i - Len(s)) = i
            BY <1>1, <3>2
        <3> QED
            BY <1>3, <2>3, <3>1, <3>3
    <2> QED
        BY <2>4, <2>5, <2>6
<1> QED
    BY <1>1, <1>4 DEF u

LEMMA RangeTail ==
    ASSUME NEW S, NEW s \in Seq(S), s # <<>>
    PROVE  /\ Tail(s) \in Seq(S) /\ Head(s) \in S
           /\ Range(s) = {Head(s)} \cup Range(Tail(s))
<1> DEFINE t == Tail(s)
<1>1. t \in Seq(S) /\ Len(t) = Len(s) - 1 /\ Len(s) \in Nat /\ Len(s) >= 1
    OBVIOUS
<1>2. \A i \in 1..Len(t) : t[i] = s[i + 1]
    OBVIOUS
<1>3. Head(s) = s[1] /\ s[1] \in S
    OBVIOUS
<1> HIDE DEF t
<1>4. ASSUME NEW y
      PROVE  y \in Range(s) <=> y = Head(s) \/ y \in Range(t)
    <2>1. y \in Range(s) <=> \E i \in 1..Len(s) : s[i] = y
        BY InRange
    <2>2. y \in Range(t) <=> \E i \in 1..Len(t) : t[i] = y
        BY <1>1, InRange
    <2>3. ASSUME y \in Range(t)
          PROVE  y \in Range(s)
        <3>1. PICK i \in 1..Len(t) : t[i] = y
            BY <2>2, <2>3
        <3>2. i + 1 \in 1..Len(s) /\ s[i + 1] = y
            BY <1>1, <1>2, <3>1
        <3> QED
            BY <2>1, <3>2
    <2>4. ASSUME y \in Range(s), y # Head(s)
          PROVE  y \in Range(t)
        <3>1. PICK i \in 1..Len(s) : s[i] = y
            BY <2>1, <2>4
        <3>2. i # 1
            BY <1>3, <2>4, <3>1
        <3>3. i - 1 \in 1..Len(t) /\ (i - 1) + 1 = i
            BY <1>1, <3>2
        <3> QED
            BY <1>2, <2>2, <3>1, <3>3
    <2>5. Head(s) \in Range(s)
        BY <1>1, <1>3, InRange
    <2> QED
        BY <2>3, <2>4, <2>5
<1> QED
    BY <1>1, <1>3, <1>4 DEF t

-----------------------------------------------------------------------------
LEMMA PeerFacts ==
    ASSUME NEW e \in End
    PROVE  Peer(e) \in End /\ Peer(e) # e /\ \A f \in End : f # e => f = Peer(e)
<1>1. \E f \in End : f # e
    BY DEF End
<1>2. Peer(e) \in End /\ Peer(e) # e
    BY <1>1 DEF Peer
<1> QED
    BY <1>2 DEF End

\* The queues of an end, and what its application has got.
SeqTypes ==
    /\ sendq \in [End -> Seq(Msg)] /\ recvq \in [End -> Seq(Msg)]
    /\ hand \in [End -> Seq(Msg)]
    /\ wire \in [End -> Seq(Msg \cup {Bye})]
    /\ accepted \in [End -> Seq(Msg)] /\ taken \in [End -> Seq(Msg)]
    /\ dropped \subseteq Msg

LEMMA EmptySeq ==
    ASSUME NEW S
    PROVE  <<>> \in Seq(S)
OBVIOUS

LEMMA EmptyRange ==
    ASSUME NEW s, s = <<>>
    PROVE  Range(s) = {}
<1>1. DOMAIN s = {}
    OBVIOUS
<1> QED
    BY <1>1 DEF Range

LEMMA OneSeq ==
    ASSUME NEW S, NEW x \in S
    PROVE  <<x>> \in Seq(S) /\ Range(<<x>>) = {x}
<1>1. <<x>> \in Seq(S) /\ Len(<<x>>) = 1 /\ <<x>>[1] = x
    OBVIOUS
<1>2. DOMAIN <<x>> = {1}
    OBVIOUS
<1> QED
    BY <1>1, <1>2 DEF Range

LEMMA InitSeqTypes == Init => SeqTypes
BY EmptySeq DEF Init, SeqTypes

LEMMA NextSeqTypes ==
    ASSUME SeqTypes, [Next]_vars
    PROVE  SeqTypes'
<1> USE DEF SeqTypes
<1>1. ASSUME NEW m \in Msg, Send(m) \/ SendResult(m) \/ SendClosed(m) \/ GiveUp(m)
      PROVE  SeqTypes'
    BY <1>1 DEF Send, SendResult, SendClosed, GiveUp, endVars, queueVars
<1>2. ASSUME NEW m \in Msg, HandOff(m)
      PROVE  SeqTypes'
    <2>1. From[m] \in End
        BY LinkAssumption
    <2>2. Append(sendq[From[m]], m) \in Seq(Msg) /\ Append(accepted[From[m]], m) \in Seq(Msg)
        BY <2>1
    <2> QED
        BY <1>2, <2>1, <2>2 DEF HandOff, endVars
<1>3. ASSUME NEW e \in End, ReadFails(e) \/ WriterEnds(e) \/ PingFails(e) \/ Close(e)
                              \/ CloseSocket(e) \/ Cut
      PROVE  SeqTypes'
    BY <1>3 DEF ReadFails, WriterEnds, PingFails, Close, CloseSocket, Cut, callVars, endVars,
               queueVars
<1>4. ASSUME NEW e \in End, CloseFrame(e)
      PROVE  SeqTypes'
    <2>1. Append(wire[e], Bye) \in Seq(Msg \cup {Bye})
        OBVIOUS
    <2> QED
        BY <1>4, <2>1 DEF CloseFrame, callVars
<1>5. ASSUME NEW e \in End, WriteFrame(e)
      PROVE  SeqTypes'
    <2>1. Tail(sendq[e]) \in Seq(Msg) /\ Head(sendq[e]) \in Msg
        BY <1>5, RangeTail DEF WriteFrame
    <2>2. Append(wire[e], Head(sendq[e])) \in Seq(Msg \cup {Bye})
        BY <2>1
    <2>3. wire' \in [End -> Seq(Msg \cup {Bye})]
        BY <1>5, <2>2 DEF WriteFrame
    <2> QED
        BY <1>5, <2>1, <2>3 DEF WriteFrame, endVars
<1>6. ASSUME NEW e \in End, WriteFails(e)
      PROVE  SeqTypes'
    <2>1. Tail(sendq[e]) \in Seq(Msg)
        BY <1>6, RangeTail DEF WriteFails
    <2> QED
        BY <1>6, <2>1 DEF WriteFails
<1>7. ASSUME NEW e \in End, ReadFrame(e)
      PROVE  SeqTypes'
    <2>1. Peer(e) \in End
        BY PeerFacts
    <2>2. Tail(wire[Peer(e)]) \in Seq(Msg \cup {Bye})
        BY <1>7, <2>1, RangeTail DEF ReadFrame
    <2>3. wire' \in [End -> Seq(Msg \cup {Bye})]
        BY <1>7, <2>1, <2>2 DEF ReadFrame
    <2>4. hand' \in [End -> Seq(Msg)]
        <3>1. \A f \in Msg : <<f>> \in Seq(Msg)
            OBVIOUS
        <3> QED
            BY <1>7, <3>1 DEF ReadFrame
    <2> QED
        BY <1>7, <2>3, <2>4 DEF ReadFrame, callVars
<1>8. ASSUME NEW e \in End, Deliver(e)
      PROVE  SeqTypes'
    <2>1. recvq[e] \o hand[e] \in Seq(Msg) /\ <<>> \in Seq(Msg)
        OBVIOUS
    <2> QED
        BY <1>8, <2>1 DEF Deliver, callVars
<1>9. ASSUME NEW e \in End, DropOldest(e)
      PROVE  SeqTypes'
    <2>1. recvq[e] # <<>>
        BY <1>9, LinkAssumption DEF DropOldest
    <2>2. Tail(recvq[e]) \in Seq(Msg) /\ Head(recvq[e]) \in Msg
        BY <2>1, RangeTail
    <2> QED
        BY <1>9, <2>2 DEF DropOldest, callVars, endVars
<1>10. ASSUME NEW e \in End, Recv(e)
       PROVE  SeqTypes'
    <2>1. Tail(recvq[e]) \in Seq(Msg) /\ Head(recvq[e]) \in Msg
        BY <1>10, RangeTail DEF Recv
    <2>2. Append(taken[e], Head(recvq[e])) \in Seq(Msg)
        BY <2>1
    <2> QED
        BY <1>10, <2>1, <2>2 DEF Recv, callVars, endVars
<1>11. CASE UNCHANGED vars
    BY <1>11 DEF vars, callVars, endVars, queueVars
<1> QED
    BY <1>1, <1>2, <1>3, <1>4, <1>5, <1>6, <1>7, <1>8, <1>9, <1>10, <1>11
    DEF Next, Caller, Reader, Writer, Closer, End

-----------------------------------------------------------------------------
(* The goroutines and the calls. *)

ControlTypes ==
    /\ call \in [Msg -> {"idle"} \cup Started \cup Returned]
    /\ reader \in [End -> {"reading", "delivering", "ending"}]
    /\ writer \in [End -> {"running", "ending"}]
    /\ once \in [End -> {"free", "frame", "socket", "over"}]
    /\ cut \in BOOLEAN

LEMMA InitControlTypes == Init => ControlTypes
<1> SUFFICES ASSUME Init PROVE ControlTypes
    OBVIOUS
<1>1. call \in [Msg -> {"idle"} \cup Started \cup Returned]
    BY DEF Init
<1>2. reader \in [End -> {"reading", "delivering", "ending"}]
    BY DEF Init
<1>3. writer \in [End -> {"running", "ending"}]
    BY DEF Init
<1>4. once \in [End -> {"free", "frame", "socket", "over"}]
    BY DEF Init
<1>5. cut \in BOOLEAN
    BY DEF Init
<1> QED
    BY <1>1, <1>2, <1>3, <1>4, <1>5 DEF ControlTypes

LEMMA NextControlTypes ==
    ASSUME ControlTypes, [Next]_vars
    PROVE  ControlTypes'
<1> USE DEF ControlTypes
<1>1. ASSUME NEW m \in Msg, Send(m) \/ Caller(m) \/ GiveUp(m)
      PROVE  ControlTypes'
    BY <1>1 DEF Send, Caller, HandOff, SendResult, SendClosed, GiveUp, endVars, queueVars,
               Started, Waiting, Returned
<1>2. ASSUME NEW e \in End, WriteFrame(e)
      PROVE  ControlTypes'
    BY <1>2 DEF WriteFrame, Answer, endVars, Started, Waiting, Returned
<1>3. ASSUME NEW e \in End, WriteFails(e)
      PROVE  ControlTypes'
    BY <1>3 DEF WriteFails, Answer, TearDown, Started, Waiting, Returned
<1>4. ASSUME NEW e \in End, ReadFrame(e)
      PROVE  ControlTypes'
    BY <1>4 DEF ReadFrame, TearDown, callVars
<1>5. ASSUME NEW e \in End, ReadFails(e) \/ PingFails(e) \/ WriterEnds(e)
      PROVE  ControlTypes'
    BY <1>5 DEF ReadFails, PingFails, WriterEnds, TearDown, callVars
<1>6. ASSUME NEW e \in End, Deliver(e) \/ DropOldest(e) \/ Recv(e)
      PROVE  ControlTypes'
    BY <1>6 DEF Deliver, DropOldest, Recv, callVars, endVars
<1>7. ASSUME NEW e \in End, Close(e) \/ Closer(e)
      PROVE  ControlTypes'
    BY <1>7 DEF Close, Closer, CloseFrame, CloseSocket, OnceStep, callVars
<1>8. CASE Cut \/ UNCHANGED vars
    BY <1>8 DEF Cut, vars, callVars, endVars
<1> QED
    BY <1>1, <1>2, <1>3, <1>4, <1>5, <1>6, <1>7, <1>8 DEF Next, Reader, Writer

LEMMA TypeIsSplit == TypeOK <=> SeqTypes /\ ControlTypes
BY DEF TypeOK, SeqTypes, ControlTypes

\* Every reachable state of a connection is well typed: the queues hold
\* envelopes only, a close frame is seen by readers alone.
THEOREM TypeCorrect == Spec => []TypeOK
<1>1. Init => TypeOK
    BY InitSeqTypes, InitControlTypes, TypeIsSplit
<1>2. ASSUME TypeOK, [Next]_vars
      PROVE  TypeOK'
    <2>1. SeqTypes /\ ControlTypes
        BY <1>2, TypeIsSplit
    <2>2. SeqTypes' /\ ControlTypes'
        BY <1>2, <2>1, NextSeqTypes, NextControlTypes
    <2> QED
        BY <2>2 DEF TypeOK, SeqTypes, ControlTypes
<1> QED
    BY <1>1, <1>2, PTL DEF Spec

-----------------------------------------------------------------------------
(* What was written arrives. *)

\* No end has noticed a failure.
Healthy ==
    ~ cut /\ \A e \in End : reader[e] \in {"reading", "delivering"} /\ once[e] = "free"

\* Where an envelope may be once it has been written.
Got(e) == Range(taken[e]) \cup Range(recvq[e]) \cup Range(hand[e])

Written(m) == Range(wire[From[m]]) \cup Got(Peer(From[m])) \cup dropped

\* An envelope waits in the queue of the end that sends it.
OwnQueue == \A e \in End : \A m \in Range(sendq[e]) : From[m] = e

\* The reader holds an envelope only while it delivers it.
HandInUse == \A e \in End : reader[e] = "reading" => hand[e] = <<>>

Reported(m) == call[m] \in {"written", "ok"}

Delivered == Healthy => \A m \in Msg : Reported(m) => m \in Written(m)

LinkInv == SeqTypes /\ ControlTypes /\ OwnQueue /\ HandInUse /\ Delivered

LEMMA ArrivedIsGot ==
    ASSUME SeqTypes, NEW e \in End
    PROVE  Range(Arrived(e)) = Got(e)
<1>1. taken[e] \in Seq(Msg) /\ recvq[e] \in Seq(Msg) /\ hand[e] \in Seq(Msg)
    BY DEF SeqTypes
<1> DEFINE s == taken[e] \o recvq[e]
<1>2. s \in Seq(Msg) /\ Range(s) = Range(taken[e]) \cup Range(recvq[e])
    BY <1>1, RangeConcat
<1>3. Arrived(e) = s \o hand[e]
    BY DEF Arrived
<1> HIDE DEF s
<1>4. Range(s \o hand[e]) = Range(s) \cup Range(hand[e])
    BY <1>1, <1>2, RangeConcat
<1> QED
    BY <1>2, <1>3, <1>4 DEF Got

LEMMA InitLinkInv == Init => LinkInv
<1> SUFFICES ASSUME Init PROVE LinkInv
    OBVIOUS
<1>1. SeqTypes /\ ControlTypes
    BY InitSeqTypes, InitControlTypes
<1>2. OwnQueue
    BY EmptyRange DEF Init, OwnQueue
<1>3. HandInUse /\ Delivered
    BY DEF Init, HandInUse, Delivered, Reported
<1> QED
    BY <1>1, <1>2, <1>3 DEF LinkInv

-----------------------------------------------------------------------------
LEMMA NextOwnQueue ==
    ASSUME SeqTypes, OwnQueue, [Next]_vars
    PROVE  OwnQueue'
<1>1. CASE UNCHANGED sendq
    BY <1>1 DEF OwnQueue
<1>2. ASSUME NEW m \in Msg, HandOff(m)
      PROVE  OwnQueue'
    <2>1. From[m] \in End
        BY LinkAssumption
    <2>2. Range(Append(sendq[From[m]], m)) = Range(sendq[From[m]]) \cup {m}
        BY <2>1, RangeAppend DEF SeqTypes
    <2>3. \A e \in End : sendq'[e] = IF e = From[m] THEN Append(sendq[e], m) ELSE sendq[e]
        BY <1>2, <2>1 DEF HandOff, SeqTypes
    <2> QED
        BY <2>2, <2>3 DEF OwnQueue
<1>3. ASSUME NEW e \in End, WriteFrame(e) \/ WriteFails(e)
      PROVE  OwnQueue'
    <2>1. sendq[e] # <<>> /\ sendq[e] \in Seq(Msg)
        BY <1>3 DEF WriteFrame, WriteFails, SeqTypes
    <2>2. Range(Tail(sendq[e])) \subseteq Range(sendq[e])
        BY <2>1, RangeTail
    <2>3. \A f \in End : sendq'[f] = IF f = e THEN Tail(sendq[f]) ELSE sendq[f]
        BY <1>3 DEF WriteFrame, WriteFails, SeqTypes
    <2> QED
        BY <2>2, <2>3 DEF OwnQueue
<1> QED
    BY <1>1, <1>2, <1>3 DEF Next, Caller, Reader, Writer, Closer, Send, SendResult, SendClosed,
        GiveUp, ReadFrame, ReadFails, Deliver, DropOldest, WriterEnds, PingFails, Recv, Close,
        CloseFrame, CloseSocket, Cut, vars, queueVars

LEMMA NextHandInUse ==
    ASSUME SeqTypes, ControlTypes, HandInUse, [Next]_vars
    PROVE  HandInUse'
<1>1. CASE UNCHANGED <<hand, reader>>
    BY <1>1 DEF HandInUse
<1>2. ASSUME NEW e \in End, ReadFrame(e)
      PROVE  HandInUse'
    BY <1>2 DEF ReadFrame, HandInUse, SeqTypes, ControlTypes
<1>3. ASSUME NEW e \in End, Deliver(e)
      PROVE  HandInUse'
    BY <1>3 DEF Deliver, HandInUse, SeqTypes, ControlTypes
<1>4. ASSUME NEW e \in End, ReadFails(e)
      PROVE  HandInUse'
    BY <1>4 DEF ReadFails, HandInUse, SeqTypes, ControlTypes
<1> QED
    BY <1>1, <1>2, <1>3, <1>4 DEF Next, Caller, Reader, Writer, Closer, Send, HandOff, SendResult,
        SendClosed, GiveUp, DropOldest, WriteFrame, WriteFails, WriterEnds, PingFails, Recv,
        Close, CloseFrame, CloseSocket, Cut, vars, endVars

-----------------------------------------------------------------------------
(* The places of an envelope, step by step. *)

\* A step that leaves the places alone and reports nothing new, or after which
\* an end has noticed a failure.
LEMMA QuietStep ==
    ASSUME Delivered,
           \/ ~ Healthy'
           \/ /\ UNCHANGED <<wire, recvq, hand, taken, dropped>>
              /\ Healthy' => Healthy
              /\ \A m \in Msg : Reported(m)' => Reported(m)
    PROVE  Delivered'
BY DEF Delivered, Written, Got

LEMMA StillHealthy ==
    ASSUME ControlTypes, UNCHANGED <<cut, once>>,
           \A e \in End : reader[e] = "ending" => reader'[e] = "ending",
           Healthy'
    PROVE  Healthy
BY DEF Healthy, ControlTypes

LEMMA CallSteps ==
    ASSUME LinkInv, NEW m \in Msg, Send(m) \/ Caller(m) \/ GiveUp(m)
    PROVE  Delivered'
<1>1. Delivered /\ ControlTypes
    BY DEF LinkInv
<1>2. UNCHANGED <<wire, recvq, hand, taken, dropped, cut, once, reader>>
    BY DEF Send, Caller, HandOff, SendResult, SendClosed, GiveUp, endVars, queueVars
<1>3. \A k \in Msg : Reported(k)' => Reported(k)
    BY <1>1 DEF Reported, ControlTypes, Send, Caller, HandOff, SendResult, SendClosed, GiveUp
<1> QED
    BY <1>1, <1>2, <1>3, QuietStep, StillHealthy

LEMMA FailingSteps ==
    ASSUME LinkInv, NEW e \in End,
           \/ ReadFails(e) \/ WriteFails(e) \/ PingFails(e) \/ WriterEnds(e)
           \/ Close(e) \/ Closer(e) \/ Cut
    PROVE  Delivered'
<1>1. Delivered /\ ControlTypes
    BY DEF LinkInv
<1>2. ~ Healthy'
    BY <1>1 DEF ControlTypes, Healthy, ReadFails, WriteFails, PingFails, WriterEnds, Close,
        Closer, CloseFrame, CloseSocket, OnceStep, TearDown, Cut, Done
<1> QED
    BY <1>1, <1>2, QuietStep

LEMMA WriteFrameStep ==
    ASSUME LinkInv, NEW e \in End, WriteFrame(e)
    PROVE  Delivered'
<1> USE DEF LinkInv
<1> DEFINE h == Head(sendq[e])
<1>1. h \in Msg /\ h \in Range(sendq[e]) /\ From[h] = e
    BY RangeTail DEF WriteFrame, SeqTypes, OwnQueue
<1> SUFFICES ASSUME Healthy', NEW m \in Msg, Reported(m)'
             PROVE  m \in Written(m)'
    BY DEF Delivered
<1>2. Healthy
    BY StillHealthy DEF WriteFrame, endVars
<1>3. ~ cut /\ ~ Done(Peer(e))
    BY <1>2, PeerFacts DEF Healthy, Done
<1>4. \A f \in End : wire'[f] = IF f = e THEN Append(wire[e], h) ELSE wire[f]
    BY <1>3 DEF WriteFrame, SeqTypes
<1>5. Range(Append(wire[e], h)) = Range(wire[e]) \cup {h}
    <2>1. wire[e] \in Seq(Msg \cup {Bye}) /\ h \in Msg \cup {Bye}
        BY <1>1 DEF SeqTypes
    <2> HIDE DEF h
    <2> QED
        BY <2>1, RangeAppend
<1>6. From[m] \in End
    BY LinkAssumption
<1>7. CASE m = h
    BY <1>1, <1>4, <1>5, <1>7 DEF Written
<1>8. CASE m # h
    <2>1. Reported(m)
        BY <1>1, <1>8 DEF WriteFrame, Answer, Reported, ControlTypes
    <2>2. m \in Written(m)
        BY <1>2, <2>1 DEF Delivered
    <2>3. Range(wire[From[m]]) \subseteq Range(wire'[From[m]])
        BY <1>4, <1>5, <1>6
    <2>4. UNCHANGED <<recvq, hand, taken, dropped>>
        BY DEF WriteFrame, endVars
    <2> QED
        BY <2>2, <2>3, <2>4 DEF Written, Got
<1> QED
    BY <1>7, <1>8

\* From the wire into the reader's hand.
LEMMA ReadFrameStep ==
    ASSUME LinkInv, NEW e \in End, ReadFrame(e)
    PROVE  Delivered'
<1> USE DEF LinkInv
<1> DEFINE p == Peer(e)
           f == Head(wire[p])
<1>1. p \in End /\ p # e
    BY PeerFacts
<1>2. wire[p] # <<>> /\ wire[p] \in Seq(Msg \cup {Bye})
    BY <1>1 DEF ReadFrame, SeqTypes
<1>3. Range(wire[p]) = {f} \cup Range(Tail(wire[p]))
    <2> HIDE DEF p
    <2> QED
        BY <1>2, RangeTail
<1>4. CASE f \in Malformed \cup {Bye} /\ reader'[e] = "ending"
    BY <1>4, QuietStep DEF Healthy
<1>5. CASE /\ f \in Msg \ Malformed
           /\ hand' = [hand EXCEPT ![e] = <<f>>]
           /\ reader' = [reader EXCEPT ![e] = "delivering"]
           /\ UNCHANGED once
    <2> SUFFICES ASSUME Healthy', NEW m \in Msg, Reported(m)'
                 PROVE  m \in Written(m)'
        BY DEF Delivered
    <2>1. reader[e] = "reading" /\ hand[e] = <<>>
        BY DEF ReadFrame, HandInUse
    <2>2. Healthy
        BY <1>5, <2>1, StillHealthy DEF ReadFrame, ControlTypes
    <2>3. m \in Written(m)
        BY <2>2 DEF ReadFrame, callVars, Reported, Delivered
    <2>4. From[m] \in End /\ Peer(From[m]) \in End /\ (From[m] = p <=> Peer(From[m]) = e)
        <3>1. From[m] \in End
            BY LinkAssumption
        <3> QED
            BY <3>1, <1>1, PeerFacts DEF End
    <2>5. \A g \in End : wire'[g] = IF g = p THEN Tail(wire[g]) ELSE wire[g]
        BY <1>1 DEF ReadFrame, SeqTypes
    <2>6. \A g \in End : hand'[g] = IF g = e THEN <<f>> ELSE hand[g]
        BY <1>5 DEF SeqTypes
    <2>7. Range(<<f>>) = {f}
        <3> HIDE DEF f
        <3> QED
            BY <1>5, OneSeq
    <2>8. Range(hand[e]) = {}
        BY <2>1, EmptyRange
    <2>9. UNCHANGED <<recvq, taken, dropped>>
        BY DEF ReadFrame
    <2>10. CASE From[m] = p
        <3>1. /\ m \in {f} \cup Range(Tail(wire[p])) \cup Range(taken[e]) \cup Range(recvq[e])
                        \cup dropped
            BY <1>3, <2>3, <2>4, <2>8, <2>10 DEF Written, Got
        <3>2. Range(wire'[p]) = Range(Tail(wire[p])) /\ Range(hand'[e]) = {f}
            BY <1>1, <2>5, <2>6, <2>7
        <3> HIDE DEF p, f
        <3> QED
            BY <2>4, <2>9, <2>10, <3>1, <3>2 DEF Written, Got
    <2>11. CASE From[m] # p
        <3>1. wire'[From[m]] = wire[From[m]] /\ hand'[Peer(From[m])] = hand[Peer(From[m])]
            BY <2>4, <2>5, <2>6, <2>11
        <3> QED
            BY <2>3, <2>9, <3>1 DEF Written, Got
    <2> QED
        BY <2>10, <2>11
<1> QED
    BY <1>4, <1>5 DEF ReadFrame, ControlTypes

\* From the hand into recvCh, from there to the application or away.
LEMMA QueueSteps ==
    ASSUME LinkInv, NEW e \in End, Deliver(e) \/ DropOldest(e) \/ Recv(e)
    PROVE  Delivered'
<1> USE DEF LinkInv
<1> SUFFICES ASSUME Healthy', NEW m \in Msg, Reported(m)'
             PROVE  m \in Written(m)'
    BY DEF Delivered
<1>1. Healthy
    BY StillHealthy DEF Deliver, DropOldest, Recv, endVars, ControlTypes
<1>2. m \in Written(m)
    BY <1>1 DEF Delivered, Reported, Deliver, DropOldest, Recv, callVars
<1>3. From[m] \in End /\ Peer(From[m]) \in End
    BY LinkAssumption, PeerFacts
<1>4. wire' = wire
    BY DEF Deliver, DropOldest, Recv
<1>5. recvq[e] \in Seq(Msg) /\ hand[e] \in Seq(Msg) /\ taken[e] \in Seq(Msg)
    BY DEF SeqTypes
<1>6. \A g \in End \ {e} : hand'[g] = hand[g] /\ recvq'[g] = recvq[g] /\ taken'[g] = taken[g]
    BY DEF Deliver, DropOldest, Recv, SeqTypes, endVars
<1>7. Got(e) \subseteq Got(e)' \cup dropped'
    <2>1. CASE Deliver(e)
        <3>1. recvq'[e] = recvq[e] \o hand[e] /\ taken' = taken
            BY <2>1 DEF Deliver, SeqTypes
        <3>2. Range(recvq[e] \o hand[e]) = Range(recvq[e]) \cup Range(hand[e])
            BY <1>5, RangeConcat
        <3> QED
            BY <3>1, <3>2 DEF Got
    <2>2. CASE DropOldest(e)
        <3>1. recvq[e] # <<>>
            BY <2>2, LinkAssumption DEF DropOldest
        <3>2. Range(recvq[e]) = {Head(recvq[e])} \cup Range(Tail(recvq[e]))
            BY <1>5, <3>1, RangeTail
        <3>3. recvq'[e] = Tail(recvq[e]) /\ taken' = taken /\ hand' = hand
            BY <2>2 DEF DropOldest, SeqTypes, endVars
        <3>4. Head(recvq[e]) \in dropped'
            BY <2>2 DEF DropOldest
        <3> QED
            BY <3>2, <3>3, <3>4 DEF Got
    <2>3. CASE Recv(e)
        <3>1. recvq[e] # <<>>
            BY <2>3 DEF Recv
        <3>2. Range(recvq[e]) = {Head(recvq[e])} \cup Range(Tail(recvq[e]))
              /\ Head(recvq[e]) \in Msg
            BY <1>5, <3>1, RangeTail
        <3>3. recvq'[e] = Tail(recvq[e]) /\ hand' = hand
              /\ taken'[e] = Append(taken[e], Head(recvq[e]))
            BY <2>3 DEF Recv, SeqTypes, endVars
        <3>4. Range(Append(taken[e], Head(recvq[e]))) = Range(taken[e]) \cup {Head(recvq[e])}
            BY <1>5, <3>2, RangeAppend
        <3> QED
            BY <3>2, <3>3, <3>4 DEF Got
    <2> QED
        BY <2>1, <2>2, <2>3
<1>8. dropped \subseteq dropped'
    BY DEF Deliver, DropOldest, Recv
<1>9. CASE Peer(From[m]) = e
    BY <1>2, <1>4, <1>7, <1>8, <1>9 DEF Written
<1>10. CASE Peer(From[m]) # e
    BY <1>2, <1>3, <1>4, <1>6, <1>8, <1>10 DEF Written, Got
<1> QED
    BY <1>9, <1>10

LEMMA NextLinkInv ==
    ASSUME LinkInv, [Next]_vars
    PROVE  LinkInv'
<1>1. SeqTypes' /\ ControlTypes' /\ OwnQueue' /\ HandInUse'
    BY NextSeqTypes, NextControlTypes, NextOwnQueue, NextHandInUse DEF LinkInv
<1>2. Delivered'
    <2>1. ASSUME NEW m \in Msg, Send(m) \/ Caller(m) \/ GiveUp(m)
          PROVE  Delivered'
        BY <2>1, CallSteps
    <2>2. ASSUME NEW e \in End, Reader(e) \/ Writer(e) \/ PingFails(e) \/ Recv(e)
                                  \/ Close(e) \/ Closer(e)
          PROVE  Delivered'
        BY <2>2, FailingSteps, WriteFrameStep, ReadFrameStep, QueueSteps DEF Reader, Writer
    <2>3. CASE Cut
        BY <2>3, FailingSteps DEF End
    <2>4. CASE UNCHANGED vars
        <3>1. UNCHANGED <<wire, recvq, hand, taken, dropped, cut, once, reader, call>>
            BY <2>4 DEF vars, callVars, endVars, queueVars
        <3> QED
            BY <3>1 DEF LinkInv, Delivered, Healthy, Reported, Written, Got
    <2> QED
        BY <2>1, <2>2, <2>3, <2>4 DEF Next
<1> QED
    BY <1>1, <1>2 DEF LinkInv

\* SuccessIsDelivered: while neither end has noticed a failure, an envelope whose
\* Send reported success is on the wire, in the peer's hands or queue, read, or
\* lost to overflow, whatever calls, closes and other envelopes do in between.
THEOREM SuccessIsDeliveredHolds == Spec => []SuccessIsDelivered
<1>1. Spec => []LinkInv
    BY InitLinkInv, NextLinkInv, PTL DEF Spec
<1>2. LinkInv => SuccessIsDelivered
    <2> SUFFICES ASSUME LinkInv, NEW m \in Msg, call[m] = "ok", ~ cut,
                        \A e \in End : reader[e] \in {"reading", "delivering"} /\ ~ Closing(e)
                 PROVE  m \in Range(wire[From[m]]) \cup Range(Arrived(Peer(From[m]))) \cup dropped
        BY DEF SuccessIsDelivered
    <2>1. Healthy
        BY DEF Healthy, Closing
    <2>2. m \in Written(m)
        BY <2>1 DEF LinkInv, Delivered, Reported
    <2>3. From[m] \in End /\ Peer(From[m]) \in End
        BY LinkAssumption, PeerFacts
    <2>4. Range(Arrived(Peer(From[m]))) = Got(Peer(From[m]))
        BY <2>3, ArrivedIsGot DEF LinkInv
    <2> QED
        BY <2>2, <2>4 DEF Written
<1> QED
    BY <1>1, <1>2, PTL

-----------------------------------------------------------------------------
(***************************************************************************)
(* Order.  What one end has accepted and not lost yet is a single queue    *)
(* that runs from the application at the other end back to sendCh; every   *)
(* step moves an element one place further, or takes one out.              *)
(***************************************************************************)
Pipe(e) == (Arrived(Peer(e)) \o wire[e]) \o sendq[e]

Frame == Msg \cup {Bye}

\* The envelopes of s are in the order of a.
InOrder(s, a) ==
    \A i, j \in 1..Len(s) :
        (i < j /\ s[i] # Bye /\ s[j] # Bye) => Before(a, s[i], s[j])

Cross(A, B, a) == \A x \in A \ {Bye}, y \in B \ {Bye} : Before(a, x, y)

LEMMA ConcatInOrder ==
    ASSUME NEW a, NEW s \in Seq(Frame), NEW t \in Seq(Frame)
    PROVE  InOrder(s \o t, a) <=> InOrder(s, a) /\ InOrder(t, a) /\ Cross(Range(s), Range(t), a)
<1> DEFINE u == s \o t
<1>1. /\ u \in Seq(Frame) /\ Len(u) = Len(s) + Len(t)
      /\ Len(s) \in Nat /\ Len(t) \in Nat
    OBVIOUS
<1>2. \A i \in 1..Len(s) : u[i] = s[i]
    OBVIOUS
<1>3. \A i \in 1..Len(t) : u[Len(s) + i] = t[i]
    OBVIOUS
<1>4. \A x : x \in Range(s) <=> \E i \in 1..Len(s) : s[i] = x
    BY InRange
<1>5. \A x : x \in Range(t) <=> \E i \in 1..Len(t) : t[i] = x
    BY InRange
<1> HIDE DEF u
<1>6. ASSUME InOrder(u, a)
      PROVE  InOrder(s, a) /\ InOrder(t, a) /\ Cross(Range(s), Range(t), a)
    <2>1. InOrder(s, a)
        BY <1>1, <1>2, <1>6 DEF InOrder
    <2>2. InOrder(t, a)
        <3> SUFFICES ASSUME NEW i \in 1..Len(t), NEW j \in 1..Len(t), i < j,
                            t[i] # Bye, t[j] # Bye
                     PROVE  Before(a, t[i], t[j])
            BY DEF InOrder
        <3>1. /\ Len(s) + i \in 1..Len(u) /\ Len(s) + j \in 1..Len(u)
              /\ Len(s) + i < Len(s) + j
            BY <1>1
        <3> QED
            BY <1>3, <1>6, <3>1 DEF InOrder
    <2>3. Cross(Range(s), Range(t), a)
        <3> SUFFICES ASSUME NEW x \in Range(s) \ {Bye}, NEW y \in Range(t) \ {Bye}
                     PROVE  Before(a, x, y)
            BY DEF Cross
        <3>1. PICK i \in 1..Len(s) : s[i] = x
            BY <1>4
        <3>2. PICK j \in 1..Len(t) : t[j] = y
            BY <1>5
        <3>3. i \in 1..Len(u) /\ Len(s) + j \in 1..Len(u) /\ i < Len(s) + j
            BY <1>1
        <3>4. u[i] = x /\ u[Len(s) + j] = y
            BY <1>2, <1>3, <3>1, <3>2
        <3> QED
            BY <1>6, <3>3, <3>4 DEF InOrder
    <2> QED
        BY <2>1, <2>2, <2>3
<1>7. ASSUME InOrder(s, a), InOrder(t, a), Cross(Range(s), Range(t), a)
      PROVE  InOrder(u, a)
    <2> SUFFICES ASSUME NEW i \in 1..Len(u), NEW j \in 1..Len(u), i < j,
                        u[i] # Bye, u[j] # Bye
                 PROVE  Before(a, u[i], u[j])
        BY DEF InOrder
    <2>1. CASE i \in 1..Len(s) /\ j \in 1..Len(s)
        BY <1>2, <1>7, <2>1 DEF InOrder
    <2>2. CASE i \in 1..Len(s) /\ j \notin 1..Len(s)
        <3>1. j - Len(s) \in 1..Len(t) /\ Len(s) + (j - Len(s)) = j
            BY <1>1, <2>2
        <3>2. u[i] \in Range(s) /\ u[j] \in Range(t)
            BY <1>2, <1>3, <1>4, <1>5, <2>2, <3>1
        <3> QED
            BY <1>7, <3>2 DEF Cross
    <2>3. CASE i \notin 1..Len(s)
        <3>1. /\ i - Len(s) \in 1..Len(t) /\ Len(s) + (i - Len(s)) = i
              /\ j - Len(s) \in 1..Len(t) /\ Len(s) + (j - Len(s)) = j
              /\ i - Len(s) < j - Len(s)
            BY <1>1, <2>3
        <3>2. u[i] = t[i - Len(s)] /\ u[j] = t[j - Len(s)]
            BY <1>3, <3>1
        <3> QED
            BY <1>7, <3>1, <3>2 DEF InOrder
    <2> QED
        BY <2>1, <2>2, <2>3
<1> QED
    BY <1>6, <1>7 DEF u

LEMMA FrameConcat ==
    ASSUME NEW s \in Seq(Frame), NEW t \in Seq(Frame)
    PROVE  s \o t \in Seq(Frame) /\ Range(s \o t) = Range(s) \cup Range(t)
BY RangeConcat

LEMMA TailInOrder ==
    ASSUME NEW a, NEW s \in Seq(Frame), s # <<>>, InOrder(s, a)
    PROVE  InOrder(Tail(s), a)
<1> DEFINE t == Tail(s)
<1>1. Len(t) = Len(s) - 1 /\ Len(s) \in Nat /\ Len(s) >= 1
    OBVIOUS
<1>2. \A i \in 1..Len(t) : t[i] = s[i + 1]
    OBVIOUS
<1> HIDE DEF t
<1>3. InOrder(t, a)
    <2> SUFFICES ASSUME NEW i \in 1..Len(t), NEW j \in 1..Len(t), i < j,
                        t[i] # Bye, t[j] # Bye
                 PROVE  Before(a, t[i], t[j])
        BY DEF InOrder
    <2>1. i + 1 \in 1..Len(s) /\ j + 1 \in 1..Len(s) /\ i + 1 < j + 1
        BY <1>1
    <2> QED
        BY <1>2, <2>1 DEF InOrder
<1> QED
    BY <1>3 DEF t

\* The head of t is taken out of the middle of a queue.
LEMMA HeadRemoved ==
    ASSUME NEW a, NEW s \in Seq(Frame), NEW t \in Seq(Frame), NEW u \in Seq(Frame),
           t # <<>>, InOrder((s \o t) \o u, a)
    PROVE  InOrder((s \o Tail(t)) \o u, a)
<1>1. /\ s \o t \in Seq(Frame) /\ Range(s \o t) = Range(s) \cup Range(t)
    BY FrameConcat
<1>2. /\ Tail(t) \in Seq(Frame) /\ Range(Tail(t)) \subseteq Range(t)
    BY RangeTail
<1>3. /\ s \o Tail(t) \in Seq(Frame) /\ Range(s \o Tail(t)) = Range(s) \cup Range(Tail(t))
    BY <1>2, FrameConcat
<1>4. InOrder(s \o t, a) /\ InOrder(u, a) /\ Cross(Range(s \o t), Range(u), a)
    BY <1>1, ConcatInOrder
<1>5. InOrder(s, a) /\ InOrder(t, a) /\ Cross(Range(s), Range(t), a)
    BY <1>4, ConcatInOrder
<1>6. InOrder(Tail(t), a)
    BY <1>5, TailInOrder
<1>7. InOrder(s \o Tail(t), a)
    BY <1>2, <1>5, <1>6, ConcatInOrder DEF Cross
<1>8. Cross(Range(s \o Tail(t)), Range(u), a)
    BY <1>1, <1>2, <1>3, <1>4 DEF Cross
<1> QED
    BY <1>3, <1>4, <1>7, <1>8, ConcatInOrder

\* A close frame disturbs no order.
LEMMA ByeInserted ==
    ASSUME NEW a, NEW s \in Seq(Frame), NEW t \in Seq(Frame), NEW u \in Seq(Frame),
           InOrder((s \o t) \o u, a)
    PROVE  InOrder((s \o Append(t, Bye)) \o u, a)
<1> DEFINE b == Append(t, Bye)
<1>0. Bye \in Frame
    BY DEF Frame
<1>1. /\ s \o t \in Seq(Frame) /\ Range(s \o t) = Range(s) \cup Range(t)
    BY FrameConcat
<1>2. /\ b \in Seq(Frame) /\ Range(b) = Range(t) \cup {Bye}
    BY <1>0, RangeAppend
<1>3. /\ s \o b \in Seq(Frame) /\ Range(s \o b) = Range(s) \cup Range(b)
    <2> HIDE DEF b
    <2> QED
        BY <1>2, FrameConcat
<1>4. InOrder(s \o t, a) /\ InOrder(u, a) /\ Cross(Range(s \o t), Range(u), a)
    BY <1>1, ConcatInOrder
<1>5. InOrder(s, a) /\ InOrder(t, a) /\ Cross(Range(s), Range(t), a)
    BY <1>4, ConcatInOrder
<1>6. InOrder(b, a)
    <2>1. /\ Len(b) = Len(t) + 1 /\ Len(t) \in Nat /\ b[Len(t) + 1] = Bye
          /\ \A i \in 1..Len(t) : b[i] = t[i]
        OBVIOUS
    <2> HIDE DEF b
    <2> QED
        BY <1>5, <2>1 DEF InOrder
<1> HIDE DEF b
<1>7. InOrder(s \o b, a)
    BY <1>2, <1>5, <1>6, ConcatInOrder DEF Cross
<1>8. Cross(Range(s \o b), Range(u), a)
    BY <1>1, <1>2, <1>3, <1>4 DEF Cross
<1>9. InOrder((s \o b) \o u, a)
    BY <1>3, <1>4, <1>7, <1>8, ConcatInOrder
<1> QED
    BY <1>9 DEF b

LEMMA BeforeAppend ==
    ASSUME NEW a \in Seq(Msg), NEW m \in Msg
    PROVE  /\ \A x, y : Before(a, x, y) => Before(Append(a, m), x, y)
           /\ \A x \in Range(a) : Before(Append(a, m), x, m)
<1> DEFINE b == Append(a, m)
<1>1. /\ Len(b) = Len(a) + 1 /\ Len(a) \in Nat /\ b[Len(a) + 1] = m
      /\ \A i \in 1..Len(a) : b[i] = a[i]
    OBVIOUS
<1>2. \A x : x \in Range(a) <=> \E i \in 1..Len(a) : a[i] = x
    BY InRange
<1> HIDE DEF b
<1>3. \A x, y : Before(a, x, y) => Before(b, x, y)
    BY <1>1 DEF Before
<1>4. ASSUME NEW x \in Range(a)
      PROVE  Before(b, x, m)
    <2>1. PICK i \in 1..Len(a) : a[i] = x
        BY <1>2
    <2>2. i \in 1..Len(b) /\ Len(a) + 1 \in 1..Len(b) /\ i < Len(a) + 1 /\ b[i] = x
        BY <1>1, <2>1
    <2> QED
        BY <1>1, <2>2 DEF Before
<1> QED
    BY <1>3, <1>4 DEF b

\* A new envelope is accepted.
LEMMA NewestAccepted ==
    ASSUME NEW a \in Seq(Msg), NEW m \in Msg, NEW s \in Seq(Frame),
           InOrder(s, a), Range(s) \ {Bye} \subseteq Range(a)
    PROVE  InOrder(Append(s, m), Append(a, m))
<1> DEFINE b == Append(a, m)
           t == Append(s, m)
<1>1. /\ Len(t) = Len(s) + 1 /\ Len(s) \in Nat /\ t[Len(s) + 1] = m
      /\ \A i \in 1..Len(s) : t[i] = s[i]
    OBVIOUS
<1>2. /\ \A x, y : Before(a, x, y) => Before(b, x, y)
      /\ \A x \in Range(a) : Before(b, x, m)
    BY BeforeAppend
<1>3. \A i \in 1..Len(s) : s[i] \in Range(s)
    BY InRange
<1> HIDE DEF b, t
<1>4. InOrder(t, b)
    <2> SUFFICES ASSUME NEW i \in 1..Len(t), NEW j \in 1..Len(t), i < j,
                        t[i] # Bye, t[j] # Bye
                 PROVE  Before(b, t[i], t[j])
        BY DEF InOrder
    <2>1. i \in 1..Len(s) /\ (j \in 1..Len(s) \/ j = Len(s) + 1)
        BY <1>1
    <2>2. CASE j \in 1..Len(s)
        BY <1>1, <1>2, <2>1, <2>2 DEF InOrder
    <2>3. CASE j = Len(s) + 1
        BY <1>1, <1>2, <1>3, <2>1, <2>3
    <2> QED
        BY <2>1, <2>2, <2>3
<1> QED
    BY <1>4 DEF b, t

\* Elements move from one queue to the one before it.
LEMMA HeadMoved ==
    ASSUME NEW s \in Seq(Frame), NEW t \in Seq(Frame), t # <<>>
    PROVE  Append(s, Head(t)) \o Tail(t) = s \o t
<1> DEFINE h == Append(s, Head(t))
           l == h \o Tail(t)
           r == s \o t
<1>1. /\ Len(h) = Len(s) + 1 /\ h \in Seq(Frame) /\ Tail(t) \in Seq(Frame)
      /\ Len(Tail(t)) = Len(t) - 1 /\ Len(t) \in Nat \ {0} /\ Len(s) \in Nat
    OBVIOUS
<1>2. /\ l \in Seq(Frame) /\ r \in Seq(Frame) /\ Len(l) = Len(r) /\ Len(r) = Len(s) + Len(t)
    <2> HIDE DEF h
    <2> QED
        BY <1>1
<1>3. ASSUME NEW i \in 1..Len(r)
      PROVE  l[i] = r[i]
    <2>1. CASE i <= Len(s)
        <3>1. h[i] = s[i]
            BY <2>1
        <3>2. l[i] = h[i]
            <4> HIDE DEF h
            <4> QED
                BY <1>1, <2>1
        <3> QED
            BY <2>1, <3>1, <3>2
    <2>2. CASE i = Len(s) + 1
        <3>1. h[i] = Head(t) /\ Head(t) = t[1]
            BY <2>2
        <3>2. l[i] = h[i]
            <4> HIDE DEF h
            <4> QED
                BY <1>1, <2>2
        <3>3. r[i] = t[1]
            BY <1>1, <2>2
        <3> QED
            BY <3>1, <3>2, <3>3
    <2>3. CASE i > Len(s) + 1
        <3>1. l[i] = Tail(t)[i - (Len(s) + 1)]
            <4> HIDE DEF h
            <4> QED
                BY <1>1, <1>2, <2>3
        <3>2. Tail(t)[i - (Len(s) + 1)] = t[i - Len(s)]
            BY <1>1, <1>2, <2>3
        <3>3. r[i] = t[i - Len(s)]
            BY <1>1, <1>2, <2>3
        <3> QED
            BY <3>1, <3>2, <3>3
    <2> QED
        BY <1>2, <2>1, <2>2, <2>3
<1> HIDE DEF l, r
<1>4. l = r
    BY <1>2, <1>3
<1> QED
    BY <1>4 DEF l, r

LEMMA BeforeTransitive ==
    ASSUME NEW a \in Seq(Msg), NEW x, NEW y, NEW z,
           \A i, j \in 1..Len(a) : i # j => a[i] # a[j],
           Before(a, x, y), Before(a, y, z)
    PROVE  Before(a, x, z)
<1>1. PICK i, j \in 1..Len(a) : i < j /\ a[i] = x /\ a[j] = y
    BY DEF Before
<1>2. PICK k, l \in 1..Len(a) : k < l /\ a[k] = y /\ a[l] = z
    BY DEF Before
<1>3. j = k
    BY <1>1, <1>2
<1>4. i < l
    BY <1>1, <1>2, <1>3
<1> QED
    BY <1>1, <1>2, <1>4 DEF Before

LEMMA Framed ==
    ASSUME NEW s \in Seq(Msg)
    PROVE  s \in Seq(Frame)
BY DEF Frame

-----------------------------------------------------------------------------
\* Such a queue, and everything in it was accepted.
GoodQueue(s, a) == InOrder(s, a) /\ Range(s) \ {Bye} \subseteq Range(a)

LEMMA GoodHeadRemoved ==
    ASSUME NEW a, NEW s \in Seq(Frame), NEW t \in Seq(Frame), NEW u \in Seq(Frame),
           t # <<>>, GoodQueue((s \o t) \o u, a)
    PROVE  GoodQueue((s \o Tail(t)) \o u, a)
<1>1. InOrder((s \o Tail(t)) \o u, a)
    BY HeadRemoved DEF GoodQueue
<1>2. Tail(t) \in Seq(Frame) /\ Range(Tail(t)) \subseteq Range(t)
    BY RangeTail
<1>3. /\ s \o t \in Seq(Frame) /\ Range(s \o t) = Range(s) \cup Range(t)
      /\ s \o Tail(t) \in Seq(Frame) /\ Range(s \o Tail(t)) = Range(s) \cup Range(Tail(t))
    BY <1>2, FrameConcat
<1>4. /\ Range((s \o t) \o u) = Range(s \o t) \cup Range(u)
      /\ Range((s \o Tail(t)) \o u) = Range(s \o Tail(t)) \cup Range(u)
    BY <1>3, FrameConcat
<1> QED
    BY <1>1, <1>2, <1>3, <1>4 DEF GoodQueue

LEMMA GoodByeInserted ==
    ASSUME NEW a, NEW s \in Seq(Frame), NEW t \in Seq(Frame), NEW u \in Seq(Frame),
           GoodQueue((s \o t) \o u, a)
    PROVE  GoodQueue((s \o Append(t, Bye)) \o u, a)
<1> DEFINE b == Append(t, Bye)
<1>1. InOrder((s \o b) \o u, a)
    BY ByeInserted DEF GoodQueue
<1>2. b \in Seq(Frame) /\ Range(b) = Range(t) \cup {Bye}
    BY RangeAppend DEF Frame
<1> HIDE DEF b
<1>3. /\ s \o t \in Seq(Frame) /\ Range(s \o t) = Range(s) \cup Range(t)
      /\ s \o b \in Seq(Frame) /\ Range(s \o b) = Range(s) \cup Range(b)
    BY <1>2, FrameConcat
<1>4. /\ Range((s \o t) \o u) = Range(s \o t) \cup Range(u)
      /\ Range((s \o b) \o u) = Range(s \o b) \cup Range(u)
    BY <1>3, FrameConcat
<1>5. GoodQueue((s \o b) \o u, a)
    BY <1>1, <1>2, <1>3, <1>4 DEF GoodQueue
<1> QED
    BY <1>5 DEF b

LEMMA GoodAccepted ==
    ASSUME NEW a \in Seq(Msg), NEW m \in Msg, NEW s \in Seq(Frame), GoodQueue(s, a)
    PROVE  GoodQueue(Append(s, m), Append(a, m))
<1>1. InOrder(Append(s, m), Append(a, m))
    BY NewestAccepted DEF GoodQueue
<1>2. Range(Append(s, m)) = Range(s) \cup {m} /\ Range(Append(a, m)) = Range(a) \cup {m}
    BY RangeAppend DEF Frame
<1> QED
    BY <1>1, <1>2 DEF GoodQueue

LEMMA ConcatAssociative ==
    ASSUME NEW s \in Seq(Frame), NEW t \in Seq(Frame), NEW u \in Seq(Frame)
    PROVE  (s \o t) \o u = s \o (t \o u)
<1> DEFINE l == (s \o t) \o u
           r == s \o (t \o u)
<1>1. l \in Seq(Frame) /\ r \in Seq(Frame) /\ Len(l) = Len(r)
    OBVIOUS
<1>2. \A i \in 1..Len(r) : l[i] = r[i]
    OBVIOUS
<1> HIDE DEF l, r
<1>3. l = r
    BY <1>1, <1>2
<1> QED
    BY <1>3 DEF l, r

LEMMA AppendToConcat ==
    ASSUME NEW s \in Seq(Frame), NEW t \in Seq(Frame), NEW x \in Frame
    PROVE  s \o Append(t, x) = Append(s \o t, x)
OBVIOUS

LEMMA ConcatEmpty ==
    ASSUME NEW s \in Seq(Frame)
    PROVE  s \o <<>> = s
OBVIOUS

-----------------------------------------------------------------------------
Ordered(e) == GoodQueue(Pipe(e), accepted[e])

\* sendCh takes an envelope once, from its own end.
AcceptedOnce ==
    \A e \in End :
        /\ \A i, j \in 1..Len(accepted[e]) : i # j => accepted[e][i] # accepted[e][j]
        /\ \A m \in Range(accepted[e]) : From[m] = e /\ call[m] \notin {"idle", "queueing"}

\* deliver has an envelope to deliver.
HandFull == \A e \in End : reader[e] = "delivering" => hand[e] # <<>>

\* What overflow has dropped was followed by something newer that is there.
DropFollowed ==
    \A e \in End : \A m \in dropped :
        From[m] = e => \E k \in Got(Peer(e)) : Before(accepted[e], m, k)

OrderInv ==
    /\ SeqTypes /\ ControlTypes /\ HandInUse /\ HandFull
    /\ AcceptedOnce
    /\ \A e \in End : Ordered(e)
    /\ DropFollowed

LEMMA PipeTypes ==
    ASSUME SeqTypes, NEW e \in End
    PROVE  /\ taken[e] \in Seq(Frame) /\ recvq[e] \in Seq(Frame) /\ hand[e] \in Seq(Frame)
           /\ wire[e] \in Seq(Frame) /\ sendq[e] \in Seq(Frame)
           /\ taken[e] \o recvq[e] \in Seq(Frame)
           /\ Arrived(e) \in Seq(Frame)
           /\ Arrived(Peer(e)) \o wire[e] \in Seq(Frame)
           /\ Pipe(e) \in Seq(Frame)
<1>1. \A f \in End : /\ taken[f] \in Seq(Frame) /\ recvq[f] \in Seq(Frame)
                     /\ hand[f] \in Seq(Frame) /\ sendq[f] \in Seq(Frame)
    BY Framed DEF SeqTypes
<1>2. \A f \in End : wire[f] \in Seq(Frame)
    BY DEF SeqTypes, Frame
<1>3. \A s, t \in Seq(Frame) : s \o t \in Seq(Frame)
    OBVIOUS
<1>4. \A f \in End : Arrived(f) \in Seq(Frame)
    BY <1>1, <1>3 DEF Arrived
<1>5. Arrived(Peer(e)) \o wire[e] \in Seq(Frame)
    BY <1>2, <1>3, <1>4, PeerFacts
<1> QED
    BY <1>1, <1>2, <1>3, <1>4, <1>5 DEF Pipe

\* Within what has arrived.
LEMMA ArrivedInOrder ==
    ASSUME SeqTypes, NEW e \in End, InOrder(Pipe(e), accepted[e])
    PROVE  /\ InOrder(Arrived(Peer(e)), accepted[e])
           /\ Cross(Range(recvq[Peer(e)]), Range(hand[Peer(e)]), accepted[e])
<1> DEFINE p == Peer(e)
<1>1. p \in End
    BY PeerFacts
<1>2. /\ Arrived(p) \in Seq(Frame) /\ wire[e] \in Seq(Frame) /\ sendq[e] \in Seq(Frame)
      /\ Arrived(p) \o wire[e] \in Seq(Frame)
      /\ taken[p] \in Seq(Frame) /\ recvq[p] \in Seq(Frame) /\ hand[p] \in Seq(Frame)
      /\ taken[p] \o recvq[p] \in Seq(Frame)
    BY <1>1, PipeTypes
<1> HIDE DEF p
<1>3. InOrder(Arrived(p) \o wire[e], accepted[e])
    BY <1>2, ConcatInOrder DEF Pipe, p
<1>4. InOrder(Arrived(p), accepted[e])
    BY <1>2, <1>3, ConcatInOrder
<1>5. Cross(Range(taken[p] \o recvq[p]), Range(hand[p]), accepted[e])
    BY <1>2, <1>4, ConcatInOrder DEF Arrived
<1>6. Range(recvq[p]) \subseteq Range(taken[p] \o recvq[p])
    BY <1>2, FrameConcat
<1> QED
    BY <1>4, <1>5, <1>6 DEF Cross, p

-----------------------------------------------------------------------------
(* One direction, step by step: the queue behind the reader's goroutine p. *)

Same(e) ==
    /\ accepted'[e] = accepted[e] /\ sendq'[e] = sendq[e] /\ wire'[e] = wire[e]
    /\ taken'[Peer(e)] = taken[Peer(e)] /\ recvq'[Peer(e)] = recvq[Peer(e)]
    /\ hand'[Peer(e)] = hand[Peer(e)]

LEMMA SameDirection ==
    ASSUME NEW e \in End, Ordered(e), Same(e)
    PROVE  Ordered(e)'
BY DEF Ordered, Pipe, Arrived, Same

\* The head of sendCh goes to the wire, or away.
LEMMA WriterOrder ==
    ASSUME SeqTypes, NEW e \in End, Ordered(e), WriteFrame(e) \/ WriteFails(e)
    PROVE  Ordered(e)'
<1> DEFINE A == Arrived(Peer(e))
           w == wire[e]
           q == sendq[e]
<1>1. Peer(e) \in End
    BY PeerFacts
<1>2. A \in Seq(Frame) /\ w \in Seq(Frame) /\ q \in Seq(Frame) /\ A \o w \in Seq(Frame)
    BY <1>1, PipeTypes
<1>3. /\ q # <<>> /\ sendq'[e] = Tail(q) /\ UNCHANGED <<accepted, taken, recvq, hand>>
      /\ wire'[e] \in {w, Append(w, Head(q))}
    BY DEF WriteFrame, WriteFails, endVars, SeqTypes
<1>4. Arrived(Peer(e))' = A
    BY <1>3 DEF Arrived
<1>5. Tail(q) \in Seq(Frame) /\ Head(q) \in Frame
    BY <1>2, <1>3, RangeTail
<1>6. GoodQueue((A \o w) \o q, accepted[e])
    BY DEF Ordered, Pipe
<1>7. Pipe(e)' = (A \o wire'[e]) \o Tail(q)
    BY <1>3, <1>4 DEF Pipe
<1> HIDE DEF A, w, q
<1>8. CASE wire'[e] = w
    <2>1. GoodQueue(((A \o w) \o Tail(q)) \o <<>>, accepted[e])
        <3>1. ((A \o w) \o q) \o <<>> = (A \o w) \o q
            <4>1. (A \o w) \o q \in Seq(Frame)
                BY <1>2, FrameConcat
            <4> QED
                BY <4>1, ConcatEmpty
        <3> QED
            BY <1>2, <1>3, <1>6, <3>1, EmptySeq, GoodHeadRemoved
    <2>2. ((A \o w) \o Tail(q)) \o <<>> = (A \o w) \o Tail(q)
        <3>1. (A \o w) \o Tail(q) \in Seq(Frame)
            BY <1>2, <1>5, FrameConcat
        <3> QED
            BY <3>1, ConcatEmpty
    <2> QED
        BY <1>3, <1>7, <1>8, <2>1, <2>2 DEF Ordered
<1>9. CASE wire'[e] = Append(w, Head(q))
    <2>1. A \o Append(w, Head(q)) = Append(A \o w, Head(q))
        BY <1>2, <1>5, AppendToConcat
    <2>3. Append(A \o w, Head(q)) \o Tail(q) = (A \o w) \o q
        BY <1>2, <1>3, HeadMoved
    <2>2. Pipe(e)' = (A \o w) \o q
        BY <1>7, <1>9, <2>1, <2>3
    <2> QED
        BY <1>3, <1>6, <2>2 DEF Ordered
<1> QED
    BY <1>3, <1>8, <1>9

\* The close frame is written.
LEMMA CloseFrameOrder ==
    ASSUME SeqTypes, NEW e \in End, Ordered(e), CloseFrame(e)
    PROVE  Ordered(e)'
<1>1. Arrived(Peer(e)) \in Seq(Frame) /\ wire[e] \in Seq(Frame) /\ sendq[e] \in Seq(Frame)
    BY PeerFacts, PipeTypes
<1>2. /\ UNCHANGED <<accepted, sendq, taken, recvq, hand>>
      /\ wire'[e] \in {wire[e], Append(wire[e], Bye)}
    BY DEF CloseFrame, callVars, SeqTypes
<1>3. Pipe(e)' = (Arrived(Peer(e)) \o wire'[e]) \o sendq[e]
    BY <1>2 DEF Pipe, Arrived
<1> QED
    BY <1>1, <1>2, <1>3, GoodByeInserted DEF Ordered, Pipe

\* sendCh takes an envelope.
LEMMA HandOffOrder ==
    ASSUME SeqTypes, NEW m \in Msg, NEW e \in End, From[m] = e, Ordered(e), HandOff(m)
    PROVE  Ordered(e)'
<1> DEFINE b == Arrived(Peer(e)) \o wire[e]
           q == sendq[e]
<1>1. b \in Seq(Frame) /\ q \in Seq(Frame) /\ accepted[e] \in Seq(Msg) /\ m \in Frame
    BY PipeTypes DEF SeqTypes, Frame
<1>2. /\ sendq'[e] = Append(q, m) /\ accepted'[e] = Append(accepted[e], m)
      /\ UNCHANGED <<taken, recvq, hand, wire>>
    BY DEF HandOff, endVars, SeqTypes
<1>3. Pipe(e)' = b \o Append(q, m)
    BY <1>2 DEF Pipe, Arrived
<1>4. GoodQueue(b \o q, accepted[e])
    BY DEF Ordered, Pipe
<1> HIDE DEF b, q
<1>5. b \o Append(q, m) = Append(b \o q, m) /\ b \o q \in Seq(Frame)
    BY <1>1, AppendToConcat, FrameConcat
<1> QED
    BY <1>1, <1>2, <1>3, <1>4, <1>5, GoodAccepted DEF Ordered

\* The reader takes the next frame off the wire.
LEMMA ReadFrameOrder ==
    ASSUME SeqTypes, HandInUse, ControlTypes, NEW e \in End, Ordered(e), ReadFrame(Peer(e))
    PROVE  Ordered(e)'
<1> DEFINE p == Peer(e)
           h == taken[p] \o recvq[p]
           w == wire[e]
           q == sendq[e]
<1>1. p \in End /\ Peer(p) = e
    BY PeerFacts
<1>2. /\ h \in Seq(Frame) /\ hand[p] \in Seq(Frame) /\ w \in Seq(Frame) /\ q \in Seq(Frame)
      /\ Arrived(p) = h \o hand[p] /\ Arrived(p) \in Seq(Frame)
    BY <1>1, PipeTypes DEF Arrived
<1>3. /\ w # <<>> /\ wire'[e] = Tail(w) /\ UNCHANGED <<accepted, taken, recvq, sendq>>
      /\ hand'[p] \in {hand[p], <<Head(w)>>}
    BY <1>1 DEF ReadFrame, callVars, SeqTypes
<1>4. hand[p] = <<>>
    BY <1>1 DEF HandInUse, ReadFrame
<1>5. GoodQueue((Arrived(p) \o w) \o q, accepted[e])
    BY DEF Ordered, Pipe
<1>6. Pipe(e)' = ((h \o hand'[p]) \o Tail(w)) \o q
    BY <1>3 DEF Pipe, Arrived
<1>7. Head(w) \in Frame
    BY <1>2, <1>3, RangeTail
<1> HIDE DEF p, h, w, q
<1>8. CASE hand'[p] = hand[p]
    BY <1>2, <1>3, <1>5, <1>6, <1>8, GoodHeadRemoved DEF Ordered
<1>9. CASE hand'[p] = <<Head(w)>>
    <2>1. h \o hand[p] = h
        BY <1>2, <1>4, ConcatEmpty
    <2>2. h \o <<Head(w)>> = Append(h, Head(w))
        BY <1>2, <1>7
    <2>4. Append(h, Head(w)) \o Tail(w) = h \o w
        BY <1>2, <1>3, HeadMoved
    <2>3. Pipe(e)' = (Arrived(p) \o w) \o q
        BY <1>2, <1>6, <1>9, <2>1, <2>2, <2>4
    <2> QED
        BY <1>3, <1>5, <2>3 DEF Ordered
<1> QED
    BY <1>3, <1>8, <1>9

\* The reader puts what it holds into recvCh; the application reads.
LEMMA DeliverOrder ==
    ASSUME SeqTypes, NEW e \in End, Ordered(e), Deliver(Peer(e)) \/ Recv(Peer(e))
    PROVE  Ordered(e)'
<1> DEFINE p == Peer(e)
<1>1. p \in End
    BY PeerFacts
<1>2. taken[p] \in Seq(Frame) /\ recvq[p] \in Seq(Frame) /\ hand[p] \in Seq(Frame)
    BY <1>1, PipeTypes
<1>3. UNCHANGED <<accepted, sendq, wire>>
    BY DEF Deliver, Recv, callVars
<1> HIDE DEF p
<1>4. Arrived(p)' = Arrived(p)
    <2>1. CASE Deliver(p)
        <3>1. taken' = taken /\ recvq'[p] = recvq[p] \o hand[p] /\ hand'[p] = <<>>
            BY <1>1, <2>1 DEF Deliver, SeqTypes
        <3>2. Arrived(p)' = (taken[p] \o (recvq[p] \o hand[p])) \o <<>>
            BY <3>1 DEF Arrived
        <3>3. taken[p] \o (recvq[p] \o hand[p]) \in Seq(Frame)
            BY <1>2, FrameConcat
        <3>4. (taken[p] \o recvq[p]) \o hand[p] = taken[p] \o (recvq[p] \o hand[p])
            <4> DEFINE t == taken[p]
                       r == recvq[p]
                       x == hand[p]
            <4>1. t \in Seq(Frame) /\ r \in Seq(Frame) /\ x \in Seq(Frame)
                BY <1>2
            <4> HIDE DEF t, r, x
            <4>2. (t \o r) \o x = t \o (r \o x)
                BY <4>1, ConcatAssociative
            <4> QED
                BY <4>2 DEF t, r, x
        <3>5. (taken[p] \o (recvq[p] \o hand[p])) \o <<>> = taken[p] \o (recvq[p] \o hand[p])
            BY <3>3, ConcatEmpty
        <3> QED
            BY <3>2, <3>4, <3>5 DEF Arrived
    <2>2. CASE Recv(p)
        <3>1. /\ recvq[p] # <<>> /\ hand' = hand
              /\ taken'[p] = Append(taken[p], Head(recvq[p])) /\ recvq'[p] = Tail(recvq[p])
            BY <1>1, <2>2 DEF Recv, endVars, SeqTypes
        <3>2. taken'[p] \o recvq'[p] = taken[p] \o recvq[p]
            BY <1>2, <3>1, HeadMoved
        <3> QED
            BY <3>1, <3>2 DEF Arrived
    <2> QED
        BY <2>1, <2>2 DEF p
<1> QED
    BY <1>3, <1>4 DEF Ordered, Pipe, p

\* Overflow takes the oldest out of recvCh.
LEMMA DropOrder ==
    ASSUME SeqTypes, NEW e \in End, Ordered(e), DropOldest(Peer(e))
    PROVE  Ordered(e)'
<1> DEFINE p == Peer(e)
           t == taken[p]
           r == recvq[p]
           x == hand[p]
           w == wire[e]
           q == sendq[e]
<1>1. p \in End
    BY PeerFacts
<1>2. /\ t \in Seq(Frame) /\ r \in Seq(Frame) /\ x \in Seq(Frame)
      /\ w \in Seq(Frame) /\ q \in Seq(Frame)
    BY <1>1, PipeTypes
<1>3. /\ UNCHANGED <<accepted, sendq, wire, taken, hand>> /\ recvq'[p] = Tail(r)
      /\ r # <<>>
    <2>1. Len(recvq[p]) = RecvBuf
        BY DEF DropOldest
    <2>2. r # <<>>
        BY <2>1, LinkAssumption
    <2> QED
        BY <1>1, <2>2 DEF DropOldest, callVars, endVars, SeqTypes
<1>4. Pipe(e) = (((t \o r) \o x) \o w) \o q
    BY DEF Pipe, Arrived
<1>5. Pipe(e)' = (((t \o Tail(r)) \o x) \o w) \o q
    BY <1>3 DEF Pipe, Arrived
<1>6. GoodQueue(Pipe(e), accepted[e])
    BY DEF Ordered
<1> HIDE DEF p, t, r, x, w, q
<1>7. \A s \in Seq(Frame) : ((s \o x) \o w) \o q = s \o ((x \o w) \o q)
    <2> SUFFICES ASSUME NEW s \in Seq(Frame)
                 PROVE  ((s \o x) \o w) \o q = s \o ((x \o w) \o q)
        OBVIOUS
    <2>1. x \o w \in Seq(Frame)
        BY <1>2, FrameConcat, Zenon
    <2>2. x \in Seq(Frame) /\ w \in Seq(Frame) /\ q \in Seq(Frame)
        BY <1>2
    <2>3. (s \o x) \o w = s \o (x \o w)
        BY <2>2, ConcatAssociative
    <2>4. (s \o (x \o w)) \o q = s \o ((x \o w) \o q)
        <3> DEFINE y == x \o w
        <3> HIDE DEF y
        <3>1. y \in Seq(Frame)
            BY <2>1 DEF y
        <3>2. (s \o y) \o q = s \o (y \o q)
            BY <2>2, <3>1
        <3> QED
            BY <3>2 DEF y
    <2> QED
        BY <2>3, <2>4
<1>8. (x \o w) \o q \in Seq(Frame) /\ t \o r \in Seq(Frame) /\ t \o Tail(r) \in Seq(Frame)
    <2>1. Tail(r) \in Seq(Frame)
        BY <1>2, <1>3, RangeTail
    <2>2. x \o w \in Seq(Frame)
        BY <1>2, FrameConcat
    <2> QED
        BY <1>2, <2>1, <2>2, FrameConcat
<1>9. /\ Pipe(e) = (t \o r) \o ((x \o w) \o q)
      /\ Pipe(e)' = (t \o Tail(r)) \o ((x \o w) \o q)
    BY <1>4, <1>5, <1>7, <1>8
<1>10. GoodQueue((t \o Tail(r)) \o ((x \o w) \o q), accepted[e])
    BY <1>2, <1>3, <1>6, <1>8, <1>9, GoodHeadRemoved
<1> QED
    BY <1>3, <1>9, <1>10 DEF Ordered

-----------------------------------------------------------------------------
LEMMA NextOrdered ==
    ASSUME SeqTypes, ControlTypes, HandInUse, NEW e \in End, Ordered(e), [Next]_vars
    PROVE  Ordered(e)'
<1>1. /\ Peer(e) \in End /\ Peer(e) # e /\ Peer(Peer(e)) = e
      /\ \A f \in End : f = e \/ f = Peer(e)
    BY PeerFacts
<1>2. ASSUME NEW m \in Msg, Send(m) \/ SendResult(m) \/ SendClosed(m) \/ GiveUp(m)
      PROVE  Same(e)
    BY <1>2 DEF Send, SendResult, SendClosed, GiveUp, endVars, queueVars, Same
<1>3. ASSUME NEW m \in Msg, HandOff(m), From[m] # e
      PROVE  Same(e)
    BY <1>3, LinkAssumption DEF HandOff, endVars, SeqTypes, Same
<1>4. ASSUME NEW f \in End, WriteFrame(f) \/ WriteFails(f), f # e
      PROVE  Same(e)
    BY <1>4 DEF WriteFrame, WriteFails, endVars, SeqTypes, Same
<1>5. ASSUME NEW f \in End, ReadFails(f) \/ WriterEnds(f) \/ PingFails(f) \/ Close(f)
                              \/ CloseSocket(f)
      PROVE  Same(e)
    BY <1>5 DEF ReadFails, WriterEnds, PingFails, Close, CloseSocket, callVars, queueVars, Same
<1>6. ASSUME NEW f \in End, CloseFrame(f), f # e
      PROVE  Same(e)
    BY <1>6 DEF CloseFrame, callVars, SeqTypes, Same
<1>7. ASSUME ReadFrame(e)
      PROVE  Same(e)
    BY <1>1, <1>7 DEF ReadFrame, callVars, SeqTypes, Same
<1>8. ASSUME Deliver(e) \/ DropOldest(e) \/ Recv(e)
      PROVE  Same(e)
    BY <1>1, <1>8 DEF Deliver, DropOldest, Recv, callVars, endVars, SeqTypes, Same
<1>9. CASE Cut \/ UNCHANGED vars
    <2>1. Same(e)
        BY <1>9 DEF Cut, vars, callVars, endVars, queueVars, Same
    <2> QED
        BY <2>1, SameDirection
<1>10. ASSUME NEW m \in Msg, Send(m) \/ Caller(m) \/ GiveUp(m)
       PROVE  Ordered(e)'
    BY <1>2, <1>3, <1>10, SameDirection, HandOffOrder DEF Caller
<1>11. ASSUME NEW f \in End, Writer(f)
       PROVE  Ordered(e)'
    BY <1>4, <1>5, <1>11, SameDirection, WriterOrder DEF Writer
<1>12. ASSUME NEW f \in End, Reader(f) \/ Recv(f)
       PROVE  Ordered(e)'
    <2>1. CASE f = e
        BY <1>5, <1>7, <1>8, <1>12, <2>1, SameDirection DEF Reader
    <2>2. CASE f = Peer(e)
        BY <1>1, <1>5, <1>12, <2>2, SameDirection, ReadFrameOrder, DeliverOrder, DropOrder
        DEF Reader
    <2> QED
        BY <1>1, <2>1, <2>2
<1>13. ASSUME NEW f \in End, PingFails(f) \/ Close(f) \/ Closer(f)
       PROVE  Ordered(e)'
    BY <1>5, <1>6, <1>13, SameDirection, CloseFrameOrder DEF Closer
<1> QED
    BY <1>9, <1>10, <1>11, <1>12, <1>13 DEF Next

LEMMA AcceptedMsgs ==
    ASSUME SeqTypes, NEW e \in End
    PROVE  Range(accepted[e]) \subseteq Msg
<1> DEFINE a == accepted[e]
<1>1. a \in Seq(Msg)
    BY DEF SeqTypes
<1> HIDE DEF a
<1>2. \A x : x \in Range(a) => \E i \in 1..Len(a) : a[i] = x
    BY <1>1, InRange
<1>3. \A i \in 1..Len(a) : a[i] \in Msg
    BY <1>1
<1> QED
    BY <1>2, <1>3 DEF a

LEMMA NextAcceptedOnce ==
    ASSUME SeqTypes, ControlTypes, AcceptedOnce, [Next]_vars
    PROVE  AcceptedOnce'
<1>1. ASSUME UNCHANGED accepted,
             \A m \in Msg : call[m] \notin {"idle", "queueing"} =>
                              call'[m] \notin {"idle", "queueing"}
      PROVE  AcceptedOnce'
    <2>1. \A e \in End : Range(accepted[e]) \subseteq Msg
        BY AcceptedMsgs
    <2> QED
        BY <1>1, <2>1 DEF AcceptedOnce
<1>2. ASSUME NEW m \in Msg, Send(m) \/ SendResult(m) \/ SendClosed(m) \/ GiveUp(m)
      PROVE  AcceptedOnce'
    BY <1>1, <1>2 DEF Send, SendResult, SendClosed, GiveUp, ControlTypes, Started, Waiting
<1>3. ASSUME NEW e \in End, WriteFrame(e) \/ WriteFails(e)
      PROVE  AcceptedOnce'
    BY <1>1, <1>3 DEF WriteFrame, WriteFails, Answer, ControlTypes
<1>4. CASE UNCHANGED callVars
    BY <1>1, <1>4 DEF callVars
<1>5. ASSUME NEW m \in Msg, HandOff(m)
      PROVE  AcceptedOnce'
    <2> DEFINE d == From[m]
               a == accepted[d]
               b == Append(a, m)
    <2>1. d \in End /\ a \in Seq(Msg)
        BY LinkAssumption DEF SeqTypes
    <2>2. /\ \A e \in End : accepted'[e] = IF e = d THEN b ELSE accepted[e]
          /\ \A k \in Msg : call'[k] = IF k = m THEN "waiting" ELSE call[k]
          /\ call[m] = "queueing"
        BY <1>5, <2>1 DEF HandOff, SeqTypes, ControlTypes
    <2>3. Range(b) = Range(a) \cup {m}
        BY <2>1, RangeAppend
    <2>4. /\ Len(b) = Len(a) + 1 /\ Len(a) \in Nat /\ b[Len(a) + 1] = m
          /\ \A i \in 1..Len(a) : b[i] = a[i]
        BY <2>1
    <2>5. \A i \in 1..Len(a) : a[i] \in Range(a)
        BY <2>1, InRange
    <2>6. \A e \in End : m \notin Range(accepted[e]) /\ Range(accepted[e]) \subseteq Msg
        BY <2>2, AcceptedMsgs DEF AcceptedOnce
    <2> HIDE DEF b
    <2>7. \A i, j \in 1..Len(b) : i # j => b[i] # b[j]
        <3> SUFFICES ASSUME NEW i \in 1..Len(b), NEW j \in 1..Len(b), i # j
                     PROVE  b[i] # b[j]
            OBVIOUS
        <3>1. CASE i \in 1..Len(a) /\ j \in 1..Len(a)
            BY <2>1, <2>4, <3>1 DEF AcceptedOnce
        <3>2. CASE i \in 1..Len(a) /\ j \notin 1..Len(a)
            <4>1. j = Len(a) + 1
                BY <2>4, <3>2
            <4> QED
                BY <2>1, <2>4, <2>5, <2>6, <3>2, <4>1
        <3>3. CASE i \notin 1..Len(a)
            <4>1. i = Len(a) + 1 /\ j \in 1..Len(a)
                BY <2>4, <3>3
            <4> QED
                BY <2>1, <2>4, <2>5, <2>6, <4>1
        <3> QED
            BY <3>1, <3>2, <3>3
    <2>8. \A e \in End : \A k \in Range(accepted'[e]) :
            From[k] = e /\ call'[k] \notin {"idle", "queueing"}
        BY <2>2, <2>3, <2>6 DEF AcceptedOnce
    <2> QED
        BY <2>1, <2>2, <2>7, <2>8 DEF AcceptedOnce
<1> QED
    BY <1>2, <1>3, <1>4, <1>5 DEF Next, Caller, Reader, Writer, Closer, ReadFrame, ReadFails,
        Deliver, DropOldest, WriterEnds, PingFails, Recv, Close, CloseFrame, CloseSocket, Cut,
        vars

LEMMA NextHandFull ==
    ASSUME SeqTypes, ControlTypes, HandFull, [Next]_vars
    PROVE  HandFull'
<1>1. CASE UNCHANGED <<hand, reader>>
    BY <1>1 DEF HandFull
<1>2. ASSUME NEW e \in End, ReadFrame(e)
      PROVE  HandFull'
    <2>1. \A f \in Msg : <<f>> # <<>>
        OBVIOUS
    <2> QED
        BY <1>2, <2>1 DEF ReadFrame, HandFull, SeqTypes, ControlTypes
<1>3. ASSUME NEW e \in End, Deliver(e) \/ ReadFails(e)
      PROVE  HandFull'
    BY <1>3 DEF Deliver, ReadFails, HandFull, SeqTypes, ControlTypes
<1> QED
    BY <1>1, <1>2, <1>3 DEF Next, Caller, Reader, Writer, Closer, Send, HandOff, SendResult,
        SendClosed, GiveUp, DropOldest, WriteFrame, WriteFails, WriterEnds, PingFails, Recv,
        Close, CloseFrame, CloseSocket, Cut, vars, endVars

\* What an application has got or can get is lost to overflow only.
LEMMA GotKept ==
    ASSUME SeqTypes, HandInUse, NEW f \in End, [Next]_vars, ~ DropOldest(f)
    PROVE  Got(f) \subseteq Got(f)'
<1>1. recvq[f] \in Seq(Msg) /\ hand[f] \in Seq(Msg) /\ taken[f] \in Seq(Msg)
    BY DEF SeqTypes
<1>2. CASE taken'[f] = taken[f] /\ recvq'[f] = recvq[f] /\ hand'[f] = hand[f]
    BY <1>2 DEF Got
<1>3. CASE ReadFrame(f)
    <2>1. hand[f] = <<>> /\ UNCHANGED <<taken, recvq>>
        BY <1>3 DEF ReadFrame, HandInUse
    <2> QED
        BY <2>1, EmptyRange DEF Got
<1>4. CASE Deliver(f)
    <2>1. recvq'[f] = recvq[f] \o hand[f] /\ taken' = taken
        BY <1>4 DEF Deliver, SeqTypes
    <2>2. Range(recvq[f] \o hand[f]) = Range(recvq[f]) \cup Range(hand[f])
        BY <1>1, RangeConcat
    <2> QED
        BY <2>1, <2>2 DEF Got
<1>5. CASE Recv(f)
    <2>1. /\ recvq[f] # <<>> /\ recvq'[f] = Tail(recvq[f]) /\ hand' = hand
          /\ taken'[f] = Append(taken[f], Head(recvq[f]))
        BY <1>5 DEF Recv, SeqTypes, endVars
    <2>2. Range(recvq[f]) = {Head(recvq[f])} \cup Range(Tail(recvq[f])) /\ Head(recvq[f]) \in Msg
        BY <1>1, <2>1, RangeTail
    <2>3. Range(Append(taken[f], Head(recvq[f]))) = Range(taken[f]) \cup {Head(recvq[f])}
        BY <1>1, <2>2, RangeAppend
    <2> QED
        BY <2>1, <2>2, <2>3 DEF Got
<1>6. ASSUME NEW e \in End, e # f, Reader(e) \/ Recv(e)
      PROVE  taken'[f] = taken[f] /\ recvq'[f] = recvq[f] /\ hand'[f] = hand[f]
    BY <1>6 DEF Reader, ReadFrame, ReadFails, Deliver, DropOldest, Recv, SeqTypes, endVars,
        queueVars
<1>7. ASSUME NEW e \in End, ReadFails(e)
      PROVE  UNCHANGED <<taken, recvq, hand>>
    BY <1>7 DEF ReadFails, queueVars
<1>8. ASSUME NEW m \in Msg, Send(m) \/ Caller(m) \/ GiveUp(m)
      PROVE  UNCHANGED <<taken, recvq, hand>>
    BY <1>8 DEF Send, Caller, HandOff, SendResult, SendClosed, GiveUp, endVars, queueVars
<1>9. ASSUME NEW e \in End, Writer(e) \/ PingFails(e) \/ Close(e) \/ Closer(e)
      PROVE  UNCHANGED <<taken, recvq, hand>>
    BY <1>9 DEF Writer, WriteFrame, WriteFails, WriterEnds, PingFails, Close, Closer, CloseFrame,
        CloseSocket, endVars, queueVars
<1>10. CASE Cut \/ UNCHANGED vars
    BY <1>2, <1>10 DEF Cut, vars, endVars, queueVars
<1>11. ASSUME NEW e \in End, Reader(e) \/ Recv(e)
       PROVE  Got(f) \subseteq Got(f)'
    BY <1>2, <1>3, <1>4, <1>5, <1>6, <1>7, <1>11 DEF Reader
<1> QED
    BY <1>2, <1>8, <1>9, <1>10, <1>11 DEF Next

\* What was accepted stays so, in its order.
LEMMA BeforeKept ==
    ASSUME SeqTypes, NEW e \in End, NEW x, NEW y, Before(accepted[e], x, y), [Next]_vars
    PROVE  Before(accepted'[e], x, y)
<1>1. CASE accepted' = accepted
    BY <1>1
<1>2. ASSUME NEW m \in Msg, HandOff(m)
      PROVE  Before(accepted'[e], x, y)
    <2>1. accepted[e] \in Seq(Msg) /\ accepted'[e] \in {accepted[e], Append(accepted[e], m)}
        BY <1>2, LinkAssumption DEF HandOff, SeqTypes
    <2> QED
        BY <2>1, BeforeAppend
<1> QED
    BY <1>1, <1>2 DEF Next, Caller, Reader, Writer, Closer, Send, SendResult, SendClosed, GiveUp,
        ReadFrame, ReadFails, Deliver, DropOldest, WriteFrame, WriteFails, WriterEnds, PingFails,
        Recv, Close, CloseFrame, CloseSocket, Cut, vars, callVars

\* The oldest goes because something newer waits behind it.
LEMMA DropStep ==
    ASSUME OrderInv, NEW e \in End, NEW m \in dropped', From[m] = e, DropOldest(Peer(e))
    PROVE  \E k \in Got(Peer(e))' : Before(accepted'[e], m, k)
<1> DEFINE p == Peer(e)
           x == Head(recvq[p])
           k == hand[p][1]
<1>1. /\ p \in End /\ accepted[e] \in Seq(Msg) /\ recvq[p] \in Seq(Msg) /\ hand[p] \in Seq(Msg)
    BY PeerFacts DEF OrderInv, SeqTypes
<1>2. recvq[p] # <<>>
    <2>1. Len(recvq[p]) = RecvBuf
        BY DEF DropOldest
    <2> QED
        BY <2>1, LinkAssumption
<1>3. /\ x \in Msg /\ Range(recvq[p]) = {x} \cup Range(Tail(recvq[p]))
    BY <1>1, <1>2, RangeTail
<1>4. k \in Range(hand[p]) /\ k \in Msg
    <2>1. hand[p] # <<>>
        BY <1>1 DEF DropOldest, OrderInv, HandFull
    <2>2. 1 \in 1..Len(hand[p])
        BY <1>1, <2>1
    <2> QED
        BY <1>1, <2>2, InRange
<1>5. Before(accepted[e], x, k)
    <2>1. InOrder(Pipe(e), accepted[e])
        BY DEF OrderInv, Ordered, GoodQueue
    <2>2. Cross(Range(recvq[p]), Range(hand[p]), accepted[e])
        BY <2>1, ArrivedInOrder DEF OrderInv
    <2>3. x \notin {Bye} /\ k \notin {Bye}
        BY <1>3, <1>4, LinkAssumption
    <2> QED
        BY <1>3, <1>4, <2>2, <2>3 DEF Cross
<1>6. /\ accepted' = accepted /\ hand' = hand /\ taken' = taken /\ recvq'[p] = Tail(recvq[p])
      /\ dropped' = dropped \cup {x}
    BY <1>1 DEF DropOldest, callVars, endVars, OrderInv, SeqTypes
<1>7. k \in Got(p)' /\ Got(p) \subseteq Got(p)' \cup {x}
    BY <1>3, <1>4, <1>6 DEF Got
<1> HIDE DEF p, x, k
<1>8. CASE m = x
    BY <1>5, <1>6, <1>7, <1>8 DEF p
<1>9. CASE m # x
    <2>1. PICK y \in Got(p) : Before(accepted[e], m, y)
        BY <1>6, <1>9 DEF OrderInv, DropFollowed, p
    <2>2. CASE y # x
        BY <1>6, <1>7, <2>1, <2>2 DEF p
    <2>3. CASE y = x
        <3>1. Before(accepted[e], m, k)
            BY <1>1, <1>5, <2>1, <2>3, BeforeTransitive DEF OrderInv, AcceptedOnce
        <3> QED
            BY <1>6, <1>7, <3>1 DEF p
    <2> QED
        BY <2>2, <2>3
<1> QED
    BY <1>8, <1>9

LEMMA NextDropFollowed ==
    ASSUME OrderInv, [Next]_vars
    PROVE  DropFollowed'
<1>1. SeqTypes /\ ControlTypes /\ HandInUse /\ DropFollowed
    BY DEF OrderInv
<1> SUFFICES ASSUME NEW e \in End, NEW m \in dropped', From[m] = e
             PROVE  \E k \in Got(Peer(e))' : Before(accepted'[e], m, k)
    BY DEF DropFollowed
<1>2. Peer(e) \in End /\ Peer(e) # e /\ Peer(Peer(e)) = e
    BY PeerFacts
<1>3. CASE DropOldest(Peer(e))
    BY <1>3, DropStep
<1>4. CASE ~ DropOldest(Peer(e))
    <2>1. m \in dropped
        <3>1. ASSUME DropOldest(e)
              PROVE  From[Head(recvq[e])] # e
            <4> DEFINE x == Head(recvq[e])
            <4>1. Len(recvq[e]) = RecvBuf
                BY <3>1 DEF DropOldest
            <4>2. recvq[e] # <<>> /\ recvq[e] \in Seq(Msg)
                BY <1>1, <4>1, LinkAssumption DEF SeqTypes
            <4>3. x \in Msg /\ x \in Range(recvq[e])
                BY <4>2, RangeTail
            <4>4. x \in Range(Pipe(Peer(e)))
                <5>1. /\ Arrived(e) \in Seq(Frame) /\ wire[Peer(e)] \in Seq(Frame)
                      /\ sendq[Peer(e)] \in Seq(Frame)
                      /\ Arrived(e) \o wire[Peer(e)] \in Seq(Frame)
                    BY <1>1, <1>2, PipeTypes
                <5>2. x \in Range(Arrived(e))
                    BY <1>1, <4>3, ArrivedIsGot DEF Got
                <5>3. Range(Arrived(e)) \subseteq Range(Arrived(e) \o wire[Peer(e)])
                    BY <5>1, FrameConcat
                <5>4. Range(Arrived(e) \o wire[Peer(e)]) \subseteq Range(Pipe(Peer(e)))
                    <6> DEFINE b == Arrived(e) \o wire[Peer(e)]
                    <6>1. b \in Seq(Frame) /\ Pipe(Peer(e)) = b \o sendq[Peer(e)]
                        BY <1>2, <5>1 DEF Pipe
                    <6> HIDE DEF b
                    <6>2. Range(b) \subseteq Range(Pipe(Peer(e)))
                        BY <5>1, <6>1, FrameConcat
                    <6> QED
                        BY <6>2 DEF b
                <5> QED
                    BY <5>2, <5>3, <5>4
            <4>5. x \in Range(accepted[Peer(e)])
                BY <1>2, <4>3, <4>4, LinkAssumption DEF OrderInv, Ordered, GoodQueue
            <4> QED
                BY <1>2, <4>5 DEF OrderInv, AcceptedOnce
        <3>2. ASSUME NEW f \in End, DropOldest(f)
              PROVE  m \in dropped
            <4>1. f = e
                BY <1>4, <3>2, PeerFacts
            <4> QED
                BY <3>1, <3>2, <4>1 DEF DropOldest
        <3> QED
            BY <3>2 DEF Next, Caller, Reader, Writer, Closer, Send, HandOff, SendResult,
                SendClosed, GiveUp, ReadFrame, ReadFails, Deliver, WriteFrame, WriteFails,
                WriterEnds, PingFails, Recv, Close, CloseFrame, CloseSocket, Cut, vars
    <2>2. PICK k \in Got(Peer(e)) : Before(accepted[e], m, k)
        BY <1>1, <2>1 DEF DropFollowed
    <2> QED
        BY <1>1, <1>2, <1>4, <2>2, GotKept, BeforeKept
<1> QED
    BY <1>3, <1>4

LEMMA InitOrderInv == Init => OrderInv
<1> SUFFICES ASSUME Init PROVE OrderInv
    OBVIOUS
<1>1. SeqTypes /\ ControlTypes /\ HandInUse
    BY InitSeqTypes, InitControlTypes DEF Init, HandInUse
<1>2. HandFull /\ DropFollowed
    BY DEF Init, HandFull, DropFollowed
<1>3. AcceptedOnce
    BY EmptyRange DEF Init, AcceptedOnce
<1>4. ASSUME NEW e \in End
      PROVE  Ordered(e)
    <2>1. Pipe(e) = <<>>
        <3>1. <<>> \o <<>> = <<>>
            OBVIOUS
        <3> QED
            BY <3>1, PeerFacts DEF Init, Pipe, Arrived
    <2>2. Range(Pipe(e)) = {} /\ Len(Pipe(e)) = 0
        BY <2>1, EmptyRange
    <2> QED
        BY <2>2 DEF Ordered, GoodQueue, InOrder
<1> QED
    BY <1>1, <1>2, <1>3, <1>4 DEF OrderInv

LEMMA NextOrderInv ==
    ASSUME OrderInv, [Next]_vars
    PROVE  OrderInv'
<1>1. /\ SeqTypes /\ ControlTypes /\ HandInUse /\ HandFull /\ AcceptedOnce
      /\ \A e \in End : Ordered(e)
    BY DEF OrderInv
<1>2. SeqTypes' /\ ControlTypes' /\ HandInUse' /\ HandFull' /\ AcceptedOnce'
    BY <1>1, NextSeqTypes, NextControlTypes, NextHandInUse, NextHandFull, NextAcceptedOnce
<1>3. \A e \in End : Ordered(e)'
    BY <1>1, NextOrdered
<1>4. DropFollowed'
    BY NextDropFollowed
<1> QED
    BY <1>2, <1>3, <1>4 DEF OrderInv

\* LatestKept: whatever senders, readers, overflow and closes do, an application
\* reads the envelopes of its peer in the order in which the peer's send queue
\* accepted them, none twice, and overflow never takes the newest.
THEOREM LatestKeptHolds == Spec => []LatestKept
<1>1. Spec => []OrderInv
    BY InitOrderInv, NextOrderInv, PTL DEF Spec
<1>2. OrderInv => LatestKept
    <2> SUFFICES ASSUME OrderInv, NEW e \in End
                 PROVE  /\ \A i, j \in 1..Len(Arrived(e)) :
                            i < j => Before(accepted[Peer(e)], Arrived(e)[i], Arrived(e)[j])
                        /\ \A m \in dropped : From[m] = Peer(e) =>
                            \E k \in Range(Arrived(e)) : Before(accepted[Peer(e)], m, k)
        BY DEF LatestKept
    <2>1. Peer(e) \in End /\ Peer(Peer(e)) = e /\ SeqTypes
        BY PeerFacts DEF OrderInv
    <2>2. Arrived(e) \in Seq(Msg) /\ Range(Arrived(e)) = Got(e)
        <3>1. taken[e] \in Seq(Msg) /\ recvq[e] \in Seq(Msg) /\ hand[e] \in Seq(Msg)
            BY <2>1 DEF SeqTypes
        <3>2. taken[e] \o recvq[e] \in Seq(Msg)
            BY <3>1, RangeConcat
        <3> QED
            BY <2>1, <3>1, <3>2, RangeConcat, ArrivedIsGot DEF Arrived
    <2>3. InOrder(Arrived(e), accepted[Peer(e)])
        BY <2>1, ArrivedInOrder DEF OrderInv, Ordered, GoodQueue
    <2>4. \A i \in 1..Len(Arrived(e)) : Arrived(e)[i] \in Msg
        BY <2>2
    <2>5. \A i, j \in 1..Len(Arrived(e)) :
            i < j => Before(accepted[Peer(e)], Arrived(e)[i], Arrived(e)[j])
        BY <2>3, <2>4, LinkAssumption DEF InOrder
    <2>6. \A m \in dropped : From[m] = Peer(e) =>
            \E k \in Range(Arrived(e)) : Before(accepted[Peer(e)], m, k)
        BY <2>1, <2>2 DEF OrderInv, DropFollowed
    <2> QED
        BY <2>5, <2>6
<1> QED
    BY <1>1, <1>2, PTL

-----------------------------------------------------------------------------
(***************************************************************************)
(* Bridge.                                                                 *)
(***************************************************************************)

\* The part of BridgeTypeOK that the node's handlers rely on.
NodeTypes ==
    /\ target \in Target
    /\ conn \in 0..MaxConn
    /\ remote \in [Conn -> [near: LegEnd, far: LegEnd]]
    /\ proxy \in [Conn -> [Proc -> {"off", "on", "done"}]]
    /\ session \in [Conn -> {"none", "accepted", "swapped", "session", "done"}]
    /\ prev \in [Conn -> 0..MaxConn]
    /\ rconn \in 0..MaxConn

\* A connection that was not dialled yet has no handler.
Undialled ==
    target # "managed" => \A k \in Conn : k > conn => session[k] = "none"

\* Only a managed command is waited for.
WaitsForCommand ==
    target # "managed" => \A k \in Conn : proxy[k]["wait"] # "on"

\* A handler that serves on an open connection is the agent's, or the one that
\* has taken its place is about to close it.
Superseded(j) == \E m \in Conn : session[m] = "swapped" /\ prev[m] = j

InCharge ==
    target # "managed" =>
        \A j \in Conn :
            (session[j] \in {"swapped", "session"} /\ remote[j].far = "open")
            => rconn = j \/ Superseded(j)

BridgeInv == NodeTypes /\ Undialled /\ WaitsForCommand /\ InCharge

-----------------------------------------------------------------------------
LEMMA InitBridgeInv == BridgeInit => BridgeInv
<1> SUFFICES ASSUME BridgeInit PROVE BridgeInv
    OBVIOUS
<1>1. NodeTypes
    BY BridgeAssumption DEF BridgeInit, NodeTypes, NoLeg, LegEnd
<1>2. \A k \in Conn : session[k] = "none" /\ proxy[k]["wait"] = "off"
    BY DEF BridgeInit, Proc
<1> QED
    BY <1>1, <1>2 DEF BridgeInv, Undialled, WaitsForCommand, InCharge

\* A step that touches neither the handlers nor the agent's connection, opens no
\* node's end and starts no wait for a command keeps the invariant.
LEMMA BridgeQuietStep ==
    ASSUME BridgeInv, NodeTypes', UNCHANGED <<target, conn, nodeVars>>,
           \A k \in Conn : remote'[k].far = "open" => remote[k].far = "open",
           WaitsForCommand'
    PROVE  BridgeInv'
<1>1. Undialled'
    BY DEF BridgeInv, Undialled, nodeVars
<1>2. InCharge'
    BY DEF BridgeInv, InCharge, Superseded, nodeVars
<1> QED
    BY <1>1, <1>2 DEF BridgeInv

\* A step that leaves the proxies, the node's ends and its handlers alone.
LEMMA IdleStep ==
    ASSUME BridgeInv, UNCHANGED <<target, conn, proxy, remote, nodeVars>>
    PROVE  BridgeInv'
<1>1. NodeTypes'
    BY DEF BridgeInv, NodeTypes, nodeVars
<1>2. WaitsForCommand'
    BY DEF BridgeInv, WaitsForCommand
<1> QED
    BY <1>1, <1>2, BridgeQuietStep

\* The connector closes its end of the leg to the node.
LEMMA ClosingStep ==
    ASSUME BridgeInv, NEW k \in 0..MaxConn, UNCHANGED <<target, conn, proxy, nodeVars>>,
           remote' = [remote EXCEPT ![k].near = "closed"]
    PROVE  BridgeInv'
<1>1. remote' \in [Conn -> [near: LegEnd, far: LegEnd]]
    <2>1. \A j \in Conn : [remote[j] EXCEPT !.near = "closed"] \in [near: LegEnd, far: LegEnd]
        BY DEF BridgeInv, NodeTypes, LegEnd
    <2> QED
        BY <2>1 DEF BridgeInv, NodeTypes
<1>2. NodeTypes'
    BY <1>1 DEF BridgeInv, NodeTypes, nodeVars
<1>3. \A j \in Conn : remote'[j].far = remote[j].far
    BY DEF BridgeInv, NodeTypes
<1>4. WaitsForCommand'
    BY DEF BridgeInv, WaitsForCommand
<1> QED
    BY <1>2, <1>3, <1>4, BridgeQuietStep

\* One of the three goroutines of bridgeOnce reports and ends.
LEMMA TellStep ==
    ASSUME BridgeInv, NEW k \in Conn, NEW d \in Proc, Tell(k, d)
    PROVE  BridgeInv'
<1>1. proxy' \in [Conn -> [Proc -> {"off", "on", "done"}]]
    <2>1. [proxy[k] EXCEPT ![d] = "done"] \in [Proc -> {"off", "on", "done"}]
        BY DEF BridgeInv, NodeTypes
    <2> QED
        BY <2>1 DEF BridgeInv, NodeTypes, Tell
<1>2. \A j \in Conn : proxy'[j]["wait"] = "on" => proxy[j]["wait"] = "on"
    <2>1. "wait" \in Proc
        BY DEF Proc
    <2> QED
        BY <2>1 DEF BridgeInv, NodeTypes, Tell
<1>3. NodeTypes'
    BY <1>1 DEF BridgeInv, NodeTypes, Tell, legVars, nodeVars
<1>4. WaitsForCommand'
    BY <1>2 DEF BridgeInv, WaitsForCommand, Tell
<1> QED
    BY <1>3, <1>4, BridgeQuietStep DEF Tell, legVars

\* The deferred function of serve, for any reason and with any node's end.
LEMMA LeaveStep ==
    ASSUME BridgeInv, NEW k \in Conn, session[k] = "session", Leave(k),
           NodeTypes', UNCHANGED <<target, conn, proxy, prev>>,
           \A j \in Conn : remote'[j].far = "open" => remote[j].far = "open"
    PROVE  BridgeInv'
<1>1. \A j \in Conn : session'[j] = IF j = k THEN "done" ELSE session[j]
    BY DEF BridgeInv, NodeTypes, Leave
<1>2. Undialled'
    BY <1>1 DEF BridgeInv, Undialled
<1>3. WaitsForCommand'
    BY DEF BridgeInv, WaitsForCommand
<1>4. ASSUME NEW j \in Conn, Superseded(j)
      PROVE  Superseded(j)'
    BY <1>1, <1>4 DEF Superseded
<1>5. ASSUME NEW j \in Conn, j # k, rconn = j
      PROVE  rconn' = j
    BY <1>5 DEF Leave
<1>6. InCharge'
    BY <1>1, <1>4, <1>5 DEF BridgeInv, InCharge
<1> QED
    BY <1>2, <1>3, <1>6 DEF BridgeInv

\* The handler of a new connection.
LEMMA DialStep ==
    ASSUME BridgeInv, DialRemote
    PROVE  BridgeInv'
<1>1. conn + 1 \in Conn /\ conn' = conn + 1
    BY BridgeAssumption DEF BridgeInv, NodeTypes, DialRemote, Conn
<1>2. target # "managed" => session[conn + 1] = "none"
    BY <1>1 DEF BridgeInv, NodeTypes, Undialled, Conn
<1>3. \A j \in Conn : /\ session'[j] = IF j = conn + 1 THEN "accepted" ELSE session[j]
                      /\ remote'[j] = IF j = conn + 1 THEN Leg ELSE remote[j]
    BY DEF BridgeInv, NodeTypes, DialRemote
<1>4. NodeTypes'
    <2>1. Leg \in [near: LegEnd, far: LegEnd]
        BY DEF Leg, LegEnd
    <2>2. remote' \in [Conn -> [near: LegEnd, far: LegEnd]]
        BY <2>1 DEF BridgeInv, NodeTypes, DialRemote
    <2>3. session' \in [Conn -> {"none", "accepted", "swapped", "session", "done"}]
        BY DEF BridgeInv, NodeTypes, DialRemote
    <2>4. conn' \in 0..MaxConn
        BY <1>1 DEF Conn
    <2> QED
        BY <2>2, <2>3, <2>4 DEF BridgeInv, NodeTypes, DialRemote
<1>5. Undialled'
    BY <1>1, <1>3 DEF BridgeInv, NodeTypes, Undialled, Conn, DialRemote
<1>6. WaitsForCommand'
    BY DEF BridgeInv, WaitsForCommand, DialRemote
<1>7. ASSUME target # "managed", NEW j \in Conn, Superseded(j)
      PROVE  Superseded(j)'
    BY <1>2, <1>3, <1>7 DEF Superseded, DialRemote
<1>8. InCharge'
    <2> SUFFICES ASSUME target' # "managed", NEW j \in Conn,
                        session'[j] \in {"swapped", "session"}, remote'[j].far = "open"
                 PROVE  rconn' = j \/ Superseded(j)'
        BY DEF InCharge
    <2>1. j # conn + 1
        BY <1>3
    <2>2. rconn = j \/ Superseded(j)
        BY <1>3, <2>1 DEF BridgeInv, InCharge, DialRemote
    <2> QED
        BY <1>1, <1>7, <2>2 DEF DialRemote
<1> QED
    BY <1>4, <1>5, <1>6, <1>8 DEF BridgeInv

\* DialLocal waits for a command only if the target has one.
LEMMA ProxiesStart ==
    ASSUME BridgeInv, DialLocal
    PROVE  BridgeInv'
<1> DEFINE started == [d \in Proc |-> IF d = "wait" /\ target # "managed" THEN "off" ELSE "on"]
<1>1. started \in [Proc -> {"off", "on", "done"}]
    OBVIOUS
<1>2. proxy' \in [Conn -> [Proc -> {"off", "on", "done"}]]
    BY <1>1 DEF BridgeInv, NodeTypes, DialLocal
<1>3. WaitsForCommand'
    <2>1. target # "managed" => started["wait"] = "off"
        BY DEF Proc
    <2>2. \A k \in Conn : proxy'[k] = proxy[k] \/ proxy'[k] = started
        BY DEF BridgeInv, NodeTypes, DialLocal
    <2> HIDE DEF started
    <2> QED
        BY <2>1, <2>2 DEF BridgeInv, WaitsForCommand, DialLocal
<1>4. NodeTypes'
    BY <1>2 DEF BridgeInv, NodeTypes, DialLocal, nodeVars
<1> QED
    BY <1>3, <1>4, BridgeQuietStep DEF DialLocal

\* The swap under r.mu: the displaced connection is remembered by its successor.
LEMMA SwapStep ==
    ASSUME BridgeInv, NEW k \in Conn, Swap(k)
    PROVE  BridgeInv'
<1>1. \A j \in Conn : session'[j] = IF j = k THEN "swapped" ELSE session[j]
    BY DEF BridgeInv, NodeTypes, Swap
<1>2. \A j \in Conn \ {k} : prev'[j] = prev[j]
    BY DEF BridgeInv, NodeTypes, Swap
<1>3. session[k] = "accepted"
    BY DEF Swap
<1>4. NodeTypes'
    <2>1. k \in 0..MaxConn
        BY DEF Conn
    <2>2. prev' \in [Conn -> 0..MaxConn]
        <3>1. (IF target = "managed" THEN 0 ELSE rconn) \in 0..MaxConn
            BY BridgeAssumption DEF BridgeInv, NodeTypes
        <3> QED
            BY <3>1 DEF BridgeInv, NodeTypes, Swap
    <2>3. session' \in [Conn -> {"none", "accepted", "swapped", "session", "done"}]
        BY DEF BridgeInv, NodeTypes, Swap
    <2> QED
        BY <2>1, <2>2, <2>3 DEF BridgeInv, NodeTypes, Swap, loopVars, legVars
<1>5. Undialled'
    BY <1>1, <1>3 DEF BridgeInv, Undialled, Swap, loopVars
<1>6. WaitsForCommand'
    BY DEF BridgeInv, WaitsForCommand, Swap, loopVars
<1>7. ASSUME NEW j \in Conn, Superseded(j)
      PROVE  Superseded(j)'
    BY <1>1, <1>2, <1>3, <1>7 DEF Superseded
<1>8. ASSUME NEW j \in Conn, rconn = j, target # "managed"
      PROVE  Superseded(j)'
    <2>1. prev'[k] = j
        BY <1>8 DEF BridgeInv, NodeTypes, Swap
    <2> QED
        BY <1>1, <2>1 DEF Superseded
<1>9. InCharge'
    <2> SUFFICES ASSUME target # "managed", NEW j \in Conn,
                        session'[j] \in {"swapped", "session"}, remote[j].far = "open"
                 PROVE  rconn' = j \/ Superseded(j)'
        BY DEF InCharge, Swap, loopVars, legVars
    <2>1. CASE j = k
        BY <2>1 DEF Swap
    <2>2. CASE j # k
        BY <1>1, <1>7, <1>8, <2>2 DEF BridgeInv, InCharge
    <2> QED
        BY <2>1, <2>2
<1> QED
    BY <1>4, <1>5, <1>6, <1>9 DEF BridgeInv

\* prev.Close: whom this handler had superseded is closed.
LEMMA ClosePrevStep ==
    ASSUME BridgeInv, NEW k \in Conn, ClosePrev(k)
    PROVE  BridgeInv'
<1>1. \A j \in Conn : session'[j] = IF j = k THEN "session" ELSE session[j]
    BY DEF BridgeInv, NodeTypes, ClosePrev
<1>2. \A j \in Conn : /\ remote'[j].far = "open" => remote[j].far = "open"
                      /\ prev[k] = j => remote'[j].far = "closed"
    BY DEF BridgeInv, NodeTypes, ClosePrev, Conn
<1>3. NodeTypes'
    <2>1. remote' \in [Conn -> [near: LegEnd, far: LegEnd]]
        <3>1. \A j \in Conn : [remote[j] EXCEPT !.far = "closed"] \in [near: LegEnd, far: LegEnd]
            BY DEF BridgeInv, NodeTypes, LegEnd
        <3> QED
            BY <3>1 DEF BridgeInv, NodeTypes, ClosePrev
    <2>2. session' \in [Conn -> {"none", "accepted", "swapped", "session", "done"}]
        BY DEF BridgeInv, NodeTypes, ClosePrev
    <2> QED
        BY <2>1, <2>2 DEF BridgeInv, NodeTypes, ClosePrev, loopVars
<1>4. Undialled'
    BY <1>1 DEF BridgeInv, Undialled, ClosePrev, loopVars
<1>5. WaitsForCommand'
    BY DEF BridgeInv, WaitsForCommand, ClosePrev, loopVars
<1>6. ASSUME NEW j \in Conn, Superseded(j), remote'[j].far = "open"
      PROVE  Superseded(j)'
    <2>1. PICK m \in Conn : session[m] = "swapped" /\ prev[m] = j
        BY <1>6 DEF Superseded
    <2>2. m # k
        BY <1>2, <1>6, <2>1
    <2> QED
        BY <1>1, <2>1, <2>2 DEF Superseded, ClosePrev
<1>7. InCharge'
    <2> SUFFICES ASSUME target # "managed", NEW j \in Conn,
                        session'[j] \in {"swapped", "session"}, remote'[j].far = "open"
                 PROVE  rconn' = j \/ Superseded(j)'
        BY DEF InCharge, ClosePrev, loopVars
    <2>1. session[j] \in {"swapped", "session"} /\ remote[j].far = "open"
        BY <1>1, <1>2 DEF ClosePrev
    <2>2. rconn = j \/ Superseded(j)
        BY <2>1 DEF BridgeInv, InCharge
    <2> QED
        BY <1>6, <2>2 DEF ClosePrev
<1> QED
    BY <1>3, <1>4, <1>5, <1>7 DEF BridgeInv

\* agent.session returns, with its connection closed or left open.
LEMMA SessionOver ==
    ASSUME BridgeInv, NEW k \in Conn, SessionEnds(k) \/ SessionFails(k)
    PROVE  BridgeInv'
<1>1. \A j \in Conn : remote'[j].far = "open" => remote[j].far = "open"
    BY DEF BridgeInv, NodeTypes, SessionEnds, SessionFails, legVars
<1>2. remote' \in [Conn -> [near: LegEnd, far: LegEnd]]
    <2>1. \A j \in Conn : [remote[j] EXCEPT !.far = "closed"] \in [near: LegEnd, far: LegEnd]
        BY DEF BridgeInv, NodeTypes, LegEnd
    <2> QED
        BY <2>1 DEF BridgeInv, NodeTypes, SessionEnds, SessionFails, legVars
<1>3. Leave(k) /\ session[k] = "session"
    BY DEF SessionEnds, SessionFails
<1>4. session' \in [Conn -> {"none", "accepted", "swapped", "session", "done"}]
    BY <1>3 DEF BridgeInv, NodeTypes, Leave
<1>5. rconn' \in 0..MaxConn
    BY <1>3, BridgeAssumption DEF BridgeInv, NodeTypes, Leave
<1>6. UNCHANGED <<target, conn, proxy, prev>>
    BY DEF SessionEnds, SessionFails, loopVars
<1>7. NodeTypes'
    BY <1>2, <1>4, <1>5, <1>6 DEF BridgeInv, NodeTypes
<1> QED
    BY <1>1, <1>3, <1>6, <1>7, LeaveStep

\* The exit of a managed command ends its handler; elsewhere there is none.
LEMMA CommandExitsStep ==
    ASSUME BridgeInv, NEW k \in Conn, CommandExits(k)
    PROVE  BridgeInv'
<1>1. target = "managed"
    BY DEF BridgeInv, WaitsForCommand, CommandExits
<1>2. remote' \in [Conn -> [near: LegEnd, far: LegEnd]]
    <2>1. [remote[k] EXCEPT !.far = "closed"] \in [near: LegEnd, far: LegEnd]
        BY DEF BridgeInv, NodeTypes, LegEnd
    <2> QED
        BY <2>1 DEF BridgeInv, NodeTypes, CommandExits
<1>3. proxy' \in [Conn -> [Proc -> {"off", "on", "done"}]]
    <2>1. [proxy[k] EXCEPT !["wait"] = "done"] \in [Proc -> {"off", "on", "done"}]
        BY DEF BridgeInv, NodeTypes
    <2> QED
        BY <2>1 DEF BridgeInv, NodeTypes, CommandExits
<1>4. session' = [session EXCEPT ![k] = "done"]
    BY DEF CommandExits
<1>5. NodeTypes'
    BY <1>2, <1>3, <1>4 DEF BridgeInv, NodeTypes, CommandExits
<1>6. Undialled'
    BY <1>1 DEF Undialled, CommandExits
<1> QED
    BY <1>1, <1>5, <1>6 DEF BridgeInv, WaitsForCommand, InCharge, CommandExits

LEMMA NextBridgeInv ==
    ASSUME BridgeInv, [BridgeNext]_bridgeVars
    PROVE  BridgeInv'
<1>1. CASE StartAttempt \/ DialSSH \/ StartManaged \/ DialRemoteFails
    BY <1>1, IdleStep DEF StartAttempt, DialSSH, StartManaged, DialRemoteFails, Goto, legVars
<1>2. CASE DialRemote
    BY <1>2, DialStep
<1>3. CASE DialLocal
    BY <1>3, ProxiesStart
<1>4. CASE DialLocalFails \/ Return
    <2>1. conn \in 0..MaxConn
        BY DEF BridgeInv, NodeTypes
    <2> QED
        BY <1>4, <2>1, ClosingStep DEF DialLocalFails, Return, Goto
<1>5. ASSUME NEW k \in Conn, NEW d \in Copy, ProxyWebsocket(k, d)
      PROVE  BridgeInv'
    BY <1>5, TellStep DEF ProxyWebsocket, Proc
<1>6. ASSUME NEW k \in Conn, SessionWait(k)
      PROVE  BridgeInv'
    BY <1>6, TellStep DEF SessionWait, Proc
<1>7. ASSUME NEW k \in Conn, Handler(k) \/ SessionFails(k)
      PROVE  BridgeInv'
    BY <1>7, SwapStep, ClosePrevStep, SessionOver DEF Handler
<1>8. ASSUME NEW k \in Conn, ServerCloses(k) \/ Lose(k)
      PROVE  BridgeInv'
    BY <1>8, IdleStep DEF ServerCloses, Lose, loopVars
<1>9. ASSUME NEW k \in Conn, CommandExits(k)
      PROVE  BridgeInv'
    BY <1>9, CommandExitsStep
<1>10. CASE Cancel
    BY <1>10, IdleStep DEF Cancel, legVars
<1>11. CASE UNCHANGED bridgeVars
    BY <1>11, IdleStep DEF bridgeVars, loopVars, legVars
<1> QED
    BY <1>1, <1>2, <1>3, <1>4, <1>5, <1>6, <1>7, <1>8, <1>9, <1>10, <1>11 DEF BridgeNext, Loop

\* OneLive: a reverse session that runs beside another on an open connection is
\* about to be closed, however swaps under r.mu, closes outside it and the ends
\* of earlier handlers interleave.
THEOREM OneLiveHolds == BridgeSpec => []OneLive
<1>1. BridgeSpec => []BridgeInv
    BY InitBridgeInv, NextBridgeInv, PTL DEF BridgeSpec
<1>2. BridgeInv => OneLive
    BY DEF BridgeInv, InCharge, Superseded, OneLive
<1> QED
    BY <1>1, <1>2, PTL

-----------------------------------------------------------------------------
(***************************************************************************)
(* The error channel of a bridge: each of its goroutines reports once.     *)
(***************************************************************************)
ErrTold(k, d) == IF proxy[k][d] = "done" THEN 1 ELSE 0

\* The rest of BridgeTypeOK.
LoopTypes ==
    /\ ctx \in {"live", "cancelled"}
    /\ at \in {"loop", "ssh", "managed", "remote", "local", "bridged", "returned"}
    /\ local \in [Conn -> [near: LegEnd, far: LegEnd]]
    /\ lost \subseteq Conn
    /\ errs \in [Conn -> 0..3]
    /\ faults \in 0..MaxFaults

\* The goroutines of a connection start when the server was dialled for it.
Unstarted(k) == k > conn \/ (k = conn /\ at = "local")

ReportsFit(k) ==
    /\ Unstarted(k) => errs[k] = 0 /\ \A d \in Proc : proxy[k][d] = "off"
    /\ target # "managed" => proxy[k]["wait"] = "off"
    /\ errs[k] <= ErrTold(k, "in") + ErrTold(k, "out") + ErrTold(k, "wait")

ReportInv == NodeTypes /\ LoopTypes /\ \A k \in Conn : ReportsFit(k)

LEMMA BridgeTypeIsSplit == BridgeTypeOK <=> NodeTypes /\ LoopTypes
BY DEF BridgeTypeOK, NodeTypes, LoopTypes

LEMMA InitReportInv == BridgeInit => ReportInv
<1> SUFFICES ASSUME BridgeInit PROVE ReportInv
    OBVIOUS
<1>1. NodeTypes
    BY InitBridgeInv DEF BridgeInv
<1>2. LoopTypes
    BY BridgeAssumption DEF BridgeInit, LoopTypes, NoLeg, LegEnd
<1>3. ASSUME NEW k \in Conn
      PROVE  ReportsFit(k)
    BY DEF BridgeInit, ReportsFit, ErrTold, Proc, Copy
<1> QED
    BY <1>1, <1>2, <1>3 DEF ReportInv

\* The numbers of errors and of reports, and what the counts depend on.
LEMMA CountTypes ==
    ASSUME ReportInv, NEW k \in Conn
    PROVE  /\ errs[k] \in 0..3 /\ conn \in Int /\ k \in Int
           /\ \A d \in Proc : ErrTold(k, d) \in 0..1
           /\ Proc = {"in", "out", "wait"}
BY BridgeAssumption DEF ReportInv, NodeTypes, LoopTypes, ErrTold, Conn, Proc, Copy

\* A step that leaves the channel and the goroutines alone, and does not come to
\* "local" with a connection whose goroutines run.
LEMMA SameReports ==
    ASSUME ReportInv, NodeTypes', LoopTypes', UNCHANGED <<target, proxy, errs>>,
           \A k \in Conn : Unstarted(k)' => Unstarted(k)
    PROVE  ReportInv'
BY DEF ReportInv, ReportsFit, ErrTold

\* One goroutine ends and adds one error at the most.
LEMMA OneReport ==
    ASSUME ReportInv, NodeTypes', NEW k \in Conn, NEW d \in Proc, NEW n \in {0, 1},
           proxy[k][d] = "on",
           proxy' = [proxy EXCEPT ![k][d] = "done"],
           errs' = [errs EXCEPT ![k] = @ + n],
           UNCHANGED <<target, conn, at, ctx, local, lost>>,
           faults' \in 0..MaxFaults
    PROVE  ReportInv'
<1>1. /\ \A j \in Conn : errs'[j] = IF j = k THEN errs[k] + n ELSE errs[j]
      /\ \A j \in Conn : \A c \in Proc :
            proxy'[j][c] = IF j = k /\ c = d THEN "done" ELSE proxy[j][c]
    BY DEF ReportInv, NodeTypes, LoopTypes
<1>2. errs[k] + n <= ErrTold(k, "in")' + ErrTold(k, "out")' + ErrTold(k, "wait")'
    <2>1. errs[k] <= ErrTold(k, "in") + ErrTold(k, "out") + ErrTold(k, "wait")
        BY DEF ReportInv, ReportsFit
    <2>2. d \in {"in", "out", "wait"} /\ ErrTold(k, d) = 0 /\ ErrTold(k, d)' = 1
        BY <1>1, CountTypes DEF ErrTold
    <2>3. \A c \in {"in", "out", "wait"} : c # d => ErrTold(k, c)' = ErrTold(k, c)
        BY <1>1, CountTypes DEF ErrTold
    <2>4. \A c \in {"in", "out", "wait"} : ErrTold(k, c) \in 0..1
        BY CountTypes
    <2> HIDE DEF ErrTold
    <2>5. CASE d = "in"
        BY <2>1, <2>2, <2>3, <2>4, <2>5, CountTypes
    <2>6. CASE d = "out"
        BY <2>1, <2>2, <2>3, <2>4, <2>6, CountTypes
    <2>7. CASE d = "wait"
        BY <2>1, <2>2, <2>3, <2>4, <2>7, CountTypes
    <2> QED
        BY <2>2, <2>5, <2>6, <2>7
<1>3. errs' \in [Conn -> 0..3]
    <2>1. ErrTold(k, "in")' + ErrTold(k, "out")' + ErrTold(k, "wait")' <= 3
        BY DEF ErrTold
    <2>2. errs[k] + n \in 0..3
        BY <1>2, <2>1, CountTypes DEF ErrTold
    <2> QED
        BY <2>2 DEF ReportInv, LoopTypes
<1>4. LoopTypes'
    BY <1>3 DEF ReportInv, LoopTypes
<1>5. ASSUME NEW j \in Conn
      PROVE  ReportsFit(j)'
    <2>1. ReportsFit(j)
        BY DEF ReportInv
    <2>2. CASE j # k
        BY <1>1, <2>1, <2>2, CountTypes DEF ReportsFit, ErrTold, Unstarted
    <2>3. CASE j = k
        <3>1. ~ Unstarted(k)'
            BY <2>1, <2>3 DEF ReportsFit, Unstarted
        <3>2. target # "managed" => d # "wait"
            BY <2>1, <2>3 DEF ReportsFit
        <3>3. target' # "managed" => proxy'[k]["wait"] = "off"
            BY <1>1, <2>1, <2>3, <3>2, CountTypes DEF ReportsFit
        <3> QED
            BY <1>1, <1>2, <2>3, <3>1, <3>3 DEF ReportsFit
    <2> QED
        BY <2>2, <2>3
<1> QED
    BY <1>4, <1>5 DEF ReportInv

LEMMA LegCloses ==
    ASSUME NEW leg \in [near: LegEnd, far: LegEnd]
    PROVE  /\ [leg EXCEPT !.near = "closed"] \in [near: LegEnd, far: LegEnd]
           /\ [leg EXCEPT !.far = "closed"] \in [near: LegEnd, far: LegEnd]
BY DEF LegEnd

LEMMA NextReportInv ==
    ASSUME ReportInv, NodeTypes', [BridgeNext]_bridgeVars
    PROVE  ReportInv'
<1> USE DEF ReportInv, NodeTypes, LoopTypes
<1>1. CASE StartAttempt \/ DialSSH \/ StartManaged \/ DialRemoteFails
    <2>1. /\ at' \in {"loop", "ssh", "managed", "remote", "returned"}
          /\ UNCHANGED <<target, ctx, conn, proxy, errs, local, lost, faults>>
        BY <1>1 DEF StartAttempt, DialSSH, StartManaged, DialRemoteFails, Goto, Over, legVars
    <2> QED
        BY <2>1, SameReports DEF Unstarted
<1>2. CASE DialRemote
    <2>1. /\ conn' = conn + 1 /\ at' = "local"
          /\ UNCHANGED <<target, ctx, proxy, errs, local, lost, faults>>
        BY <1>2 DEF DialRemote
    <2>2. ASSUME NEW k \in Conn, Unstarted(k)'
          PROVE  Unstarted(k)
        <3>1. conn \in Int /\ k \in Int
            BY CountTypes
        <3> QED
            BY <2>1, <2>2, <3>1 DEF Unstarted
    <2> QED
        BY <2>1, <2>2, SameReports
<1>3. CASE DialLocal
    <2> DEFINE started == [d \in Proc |-> IF d = "wait" /\ target # "managed" THEN "off" ELSE "on"]
    <2>1. /\ at = "local" /\ at' = "bridged" /\ UNCHANGED <<target, ctx, conn, errs, lost, faults>>
          /\ local' = [local EXCEPT ![conn] = Leg]
        BY <1>3 DEF DialLocal
    <2>2. \A k \in Conn : proxy'[k] = IF k = conn THEN started ELSE proxy[k]
        BY <1>3 DEF DialLocal
    <2>3. LoopTypes'
        <3>1. Leg \in [near: LegEnd, far: LegEnd]
            BY DEF Leg, LegEnd
        <3> QED
            BY <2>1, <3>1
    <2>4. ASSUME NEW k \in Conn
          PROVE  ReportsFit(k)'
        <3>1. CASE k = conn
            <4>1. errs'[k] = 0
                BY <2>1, <3>1 DEF ReportsFit, Unstarted
            <4>2. ~ Unstarted(k)'
                BY <2>1, <3>1, CountTypes DEF Unstarted
            <4>3. target # "managed" => started["wait"] = "off"
                BY DEF Proc
            <4>4. 0 <= ErrTold(k, "in")' + ErrTold(k, "out")' + ErrTold(k, "wait")'
                BY DEF ErrTold
            <4> QED
                BY <2>1, <2>2, <3>1, <4>1, <4>2, <4>3, <4>4 DEF ReportsFit
        <3>2. CASE k # conn
            <4>1. ReportsFit(k) /\ proxy'[k] = proxy[k] /\ errs'[k] = errs[k]
                BY <2>1, <2>2, <3>2
            <4>2. Unstarted(k)' => Unstarted(k)
                BY <2>1 DEF Unstarted
            <4> QED
                BY <2>1, <4>1, <4>2 DEF ReportsFit, ErrTold
        <3> QED
            BY <3>1, <3>2
    <2> QED
        BY <2>3, <2>4
<1>4. CASE DialLocalFails
    <2>1. /\ at' \in {"loop", "returned"}
          /\ UNCHANGED <<target, ctx, conn, proxy, errs, local, lost>>
          /\ faults' \in 0..MaxFaults
        BY <1>4, BridgeAssumption DEF DialLocalFails, Goto, Over, Fault
    <2> QED
        BY <2>1, SameReports DEF Unstarted
<1>5. CASE Return
    <2>1. /\ at = "bridged" /\ at' \in {"loop", "returned"}
          /\ UNCHANGED <<target, ctx, conn, proxy, lost, faults>>
          /\ local' = [local EXCEPT ![conn].near = "closed"]
          /\ errs' = [errs EXCEPT ![conn] = IF @ > 0 THEN @ - 1 ELSE @]
        BY <1>5 DEF Return, Over
    <2>2. ASSUME NEW k \in Conn
          PROVE  /\ errs[k] \in 0..3 /\ errs'[k] \in 0..3
                 /\ errs'[k] <= errs[k]
        <3>1. errs[k] \in 0..3
            BY CountTypes
        <3>2. errs'[k] = errs[k] \/ (errs[k] > 0 /\ errs'[k] = errs[k] - 1)
            BY <2>1
        <3> QED
            BY <3>1, <3>2
    <2>3. LoopTypes'
        <3>1. \A k \in Conn : [local[k] EXCEPT !.near = "closed"] \in [near: LegEnd, far: LegEnd]
            BY LegCloses
        <3>2. local' \in [Conn -> [near: LegEnd, far: LegEnd]]
            BY <2>1, <3>1
        <3>3. errs' \in [Conn -> 0..3]
            BY <2>1, <2>2
        <3> QED
            BY <2>1, <3>2, <3>3
    <2>4. ASSUME NEW k \in Conn
          PROVE  ReportsFit(k)'
        <3>0. errs[k] \in 0..3 /\ errs'[k] \in 0..3 /\ errs'[k] <= errs[k]
            BY <2>2
        <3>1. Unstarted(k)' => Unstarted(k)
            BY <2>1 DEF Unstarted
        <3>2. \A d \in Proc : ErrTold(k, d)' = ErrTold(k, d)
            BY <2>1 DEF ErrTold
        <3>3. errs[k] = 0 => errs'[k] = 0
            BY <3>0
        <3>4. "in" \in Proc /\ "out" \in Proc /\ "wait" \in Proc
            BY DEF Proc, Copy
        <3>5. \A d \in Proc : ErrTold(k, d) \in 0..1
            BY DEF ErrTold
        <3>6. errs'[k] <= ErrTold(k, "in")' + ErrTold(k, "out")' + ErrTold(k, "wait")'
            <4>1. errs[k] <= ErrTold(k, "in") + ErrTold(k, "out") + ErrTold(k, "wait")
                BY DEF ReportsFit
            <4> HIDE DEF ErrTold
            <4>2. /\ ErrTold(k, "in")' = ErrTold(k, "in")
                  /\ ErrTold(k, "out")' = ErrTold(k, "out")
                  /\ ErrTold(k, "wait")' = ErrTold(k, "wait")
                BY <3>2, <3>4
            <4>3. /\ ErrTold(k, "in") \in 0..1 /\ ErrTold(k, "out") \in 0..1
                  /\ ErrTold(k, "wait") \in 0..1
                BY <3>4, <3>5
            <4> QED
                BY <3>0, <4>1, <4>2, <4>3
        <3> QED
            BY <2>1, <3>1, <3>3, <3>6 DEF ReportsFit
    <2> QED
        BY <2>3, <2>4
<1>6. ASSUME NEW k \in Conn, NEW d \in Proc, Tell(k, d)
      PROVE  ReportInv'
    BY <1>6, OneReport DEF Tell, legVars
<1>7. ASSUME NEW k \in Conn, Handler(k) \/ SessionFails(k)
      PROVE  ReportInv'
    <2>1. UNCHANGED <<loopVars, local, lost>> /\ faults' \in 0..MaxFaults
        BY <1>7, BridgeAssumption DEF Handler, Swap, ClosePrev, SessionEnds, SessionFails, Fault, legVars
    <2> QED
        BY <2>1, SameReports DEF loopVars, Unstarted
<1>8. ASSUME NEW k \in Conn, ServerCloses(k) \/ Lose(k)
      PROVE  ReportInv'
    <2>1. UNCHANGED loopVars /\ faults' \in 0..MaxFaults
        BY <1>8, BridgeAssumption DEF ServerCloses, Lose, Fault
    <2>2. [local[k] EXCEPT !.far = "closed"] \in [near: LegEnd, far: LegEnd]
        BY LegCloses
    <2>3. local' \in [Conn -> [near: LegEnd, far: LegEnd]] /\ lost' \subseteq Conn
        <3>1. CASE ServerCloses(k)
            BY <2>2, <3>1 DEF ServerCloses
        <3>2. CASE Lose(k)
            BY <3>2 DEF Lose
        <3> QED
            BY <1>8, <3>1, <3>2
    <2> QED
        BY <2>1, <2>3, SameReports DEF loopVars, Unstarted
<1>9. ASSUME NEW k \in Conn, CommandExits(k)
      PROVE  ReportInv'
    <2>1. PICK failed \in {0, 1} : errs' = [errs EXCEPT ![k] = @ + failed]
        BY <1>9 DEF CommandExits
    <2>2. faults' \in 0..MaxFaults /\ "wait" \in Proc
        BY <1>9, BridgeAssumption DEF CommandExits, Fault, Proc
    <2> QED
        BY <1>9, <2>1, <2>2, OneReport DEF CommandExits
<1>10. CASE Cancel \/ UNCHANGED bridgeVars
    <2>1. /\ ctx' \in {"live", "cancelled"}
          /\ UNCHANGED <<target, at, conn, proxy, errs, local, lost, faults>>
        BY <1>10 DEF Cancel, bridgeVars, loopVars, legVars
    <2> QED
        BY <2>1, SameReports DEF Unstarted
<1> QED
    BY <1>1, <1>2, <1>3, <1>4, <1>5, <1>6, <1>7, <1>8, <1>9, <1>10
    DEF BridgeNext, Loop, ProxyWebsocket, SessionWait, Proc

\* Every reachable state of a connector, its bridges and the node is well typed;
\* in particular no error channel holds more than it can.
THEOREM BridgeTypeCorrect == BridgeSpec => []BridgeTypeOK
<1>1. BridgeInv => NodeTypes
    BY DEF BridgeInv
<1>2. ReportInv => BridgeTypeOK
    BY BridgeTypeIsSplit DEF ReportInv
<1> QED
    BY <1>1, <1>2, InitBridgeInv, NextBridgeInv, InitReportInv, NextReportInv, PTL DEF BridgeSpec

\* A goroutine of bridgeOnce that is still running finds room in errCh.
RoomToReport == \A k \in Conn, d \in Proc : proxy[k][d] = "on" => errs[k] < ErrCap

\* RoomToReport: errCh has a place for each goroutine that sends to it, so that
\* none of them blocks although bridgeOnce takes one error and returns: the
\* capacity that DialLocal's goroutines and the exit of a command count on.
THEOREM ReportersNeverBlock == BridgeSpec => []RoomToReport
<1>1. BridgeInv => NodeTypes
    BY DEF BridgeInv
<1>2. ReportInv => RoomToReport
    <2> SUFFICES ASSUME ReportInv, NEW k \in Conn, NEW d \in Proc, proxy[k][d] = "on"
                 PROVE  errs[k] < ErrCap
        BY DEF RoomToReport
    <2>1. /\ errs[k] <= ErrTold(k, "in") + ErrTold(k, "out") + ErrTold(k, "wait")
          /\ target # "managed" => proxy[k]["wait"] = "off"
        BY DEF ReportInv, ReportsFit
    <2>2. ErrTold(k, d) = 0 /\ d \in {"in", "out", "wait"}
        BY CountTypes DEF ErrTold
    <2>3. target # "managed" => ErrTold(k, "wait") = 0 /\ d # "wait"
        BY <2>1 DEF ErrTold
    <2>4. /\ ErrTold(k, "in") \in 0..1 /\ ErrTold(k, "out") \in 0..1
          /\ ErrTold(k, "wait") \in 0..1 /\ errs[k] \in 0..3
        BY CountTypes
    <2> HIDE DEF ErrTold
    <2>5. target = "managed" => ErrCap = 3
        BY DEF ErrCap
    <2>6. ErrCap \in {2, 3}
        BY DEF ErrCap
    <2> QED
        BY <2>1, <2>2, <2>3, <2>4, <2>5, <2>6
<1> QED
    BY <1>1, <1>2, InitBridgeInv, NextBridgeInv, InitReportInv, NextReportInv, PTL DEF BridgeSpec
=============================================================================
