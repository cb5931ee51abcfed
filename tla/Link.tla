-------------------------------- MODULE Link --------------------------------
(***************************************************************************)
(* One WebSocket connection, both ends of it (internal/transport).  Each   *)
(* end runs a reader and a writer goroutine; any number of goroutines call *)
(* Send, one reads Recv, anybody may call Close.  Sync uses a connection   *)
(* as a pair of FIFO channels; this module says how far that is true.      *)
(***************************************************************************)
EXTENDS Integers, Sequences, FiniteSets, SequencesExt

CONSTANTS
    Msg,         \* the envelopes of the two applications, one Send call each
    From,        \* Msg -> the end that sends it
    Bye,         \* a close frame
    Unsendable,  \* envelopes Send refuses: unknown kind or version
    Malformed,   \* frames the receiving end cannot decode: another version's
    Hurried,     \* envelopes whose sender's context may end during the call
    RecvBuf,     \* common.ChannelBuf: capacity of the send and receive queues
    Closers,     \* the ends whose application may call Close
    CanCut       \* whether the network may go silent

End == {"agent", "server"}

Peer(e) == CHOOSE f \in End : f # e

ASSUME LinkAssumption ==
    /\ From \in [Msg -> End]
    /\ Unsendable \subseteq Msg /\ Malformed \subseteq Msg /\ Hurried \subseteq Msg
    /\ RecvBuf \in Nat \ {0}
    /\ Closers \subseteq End
    /\ CanCut \in BOOLEAN
    /\ Bye \notin Msg

VARIABLES
    call,     \* message -> where its Send call is; "written" and "refused" are
              \* the results the writer has put into its done channel
    sendq,    \* end -> sendCh
    recvq,    \* end -> recvCh
    hand,     \* end -> what the reader is delivering: at most one message
    reader,   \* end -> the reader goroutine
    writer,   \* end -> the writer goroutine
    once,     \* end -> how far Close or tearDown has come
    wire,     \* end -> what it has written and its peer has not read yet
    cut,      \* nothing passes any more, in silence
    accepted, \* history: end -> the messages in the order sendCh took them
    taken,    \* history: end -> what the application has read
    dropped   \* history: the messages lost to overflow

callVars  == <<call, accepted>>
endVars   == <<hand, reader, writer, once>>
queueVars == <<sendq, recvq, wire>>
vars      == <<callVars, endVars, queueVars, cut, taken, dropped>>

Waiting  == {"waiting", "written", "refused"}
Started  == {"queueing"} \cup Waiting
Returned == {"ok", "failed"}

Closing(e)   == once[e] # "free"
CloseSent(e) == once[e] \in {"socket", "over"}
Done(e)      == once[e] = "over"

\* A goroutine that is ending returns from its tearDown when the Once is over;
\* for the reader that is also when recvCh is closed.
Exited(routine, e) == routine[e] = "ending" /\ Done(e)

TypeOK ==
    /\ call \in [Msg -> {"idle"} \cup Started \cup Returned]
    /\ sendq \in [End -> Seq(Msg)] /\ recvq \in [End -> Seq(Msg)]
    /\ hand \in [End -> Seq(Msg)]
    /\ reader \in [End -> {"reading", "delivering", "ending"}]
    /\ writer \in [End -> {"running", "ending"}]
    /\ once \in [End -> {"free", "frame", "socket", "over"}]
    /\ wire \in [End -> Seq(Msg \cup {Bye})]
    /\ cut \in BOOLEAN
    /\ accepted \in [End -> Seq(Msg)] /\ taken \in [End -> Seq(Msg)]
    /\ dropped \subseteq Msg

Init ==
    /\ call = [m \in Msg |-> "idle"]
    /\ sendq = [e \in End |-> <<>>]
    /\ recvq = [e \in End |-> <<>>]
    /\ hand = [e \in End |-> <<>>]
    /\ reader = [e \in End |-> "reading"]
    /\ writer = [e \in End |-> "running"]
    /\ once = [e \in End |-> "free"]
    /\ wire = [e \in End |-> <<>>]
    /\ cut = FALSE
    /\ accepted = [e \in End |-> <<>>]
    /\ taken = [e \in End |-> <<>>]
    /\ dropped = {}

-----------------------------------------------------------------------------
(***************************************************************************)
(* Send.  Its two selects choose at random among the cases that are ready: *)
(* a call whose frame has been written may still return ErrConnClosed or   *)
(* its context's error.                                                    *)
(***************************************************************************)
Send(m) ==
    /\ call[m] = "idle"
    /\ call' = [call EXCEPT ![m] = IF Closing(From[m]) \/ m \in Unsendable
                                   THEN "failed" ELSE "queueing"]
    /\ UNCHANGED <<accepted, endVars, queueVars, cut, taken, dropped>>

HandOff(m) ==
    /\ call[m] = "queueing"
    /\ Len(sendq[From[m]]) < RecvBuf
    /\ call' = [call EXCEPT ![m] = "waiting"]
    /\ sendq' = [sendq EXCEPT ![From[m]] = Append(@, m)]
    /\ accepted' = [accepted EXCEPT ![From[m]] = Append(@, m)]
    /\ UNCHANGED <<endVars, recvq, wire, cut, taken, dropped>>

SendResult(m) ==
    /\ call[m] \in {"written", "refused"}
    /\ call' = [call EXCEPT ![m] = IF @ = "written" THEN "ok" ELSE "failed"]
    /\ UNCHANGED <<accepted, endVars, queueVars, cut, taken, dropped>>

\* Mutant: the second select does not watch doneCh.
SendClosedEarly(m) ==
    /\ call[m] = "queueing"
    /\ Done(From[m])
    /\ call' = [call EXCEPT ![m] = "failed"]
    /\ UNCHANGED <<accepted, endVars, queueVars, cut, taken, dropped>>

SendClosed(m) ==
    /\ call[m] \in Started
    /\ Done(From[m])
    /\ call' = [call EXCEPT ![m] = "failed"]
    /\ UNCHANGED <<accepted, endVars, queueVars, cut, taken, dropped>>

\* The caller's context ends; what is queued is written nevertheless.
GiveUp(m) ==
    /\ m \in Hurried
    /\ call[m] \in Started
    /\ call' = [call EXCEPT ![m] = "failed"]
    /\ UNCHANGED <<accepted, endVars, queueVars, cut, taken, dropped>>

-----------------------------------------------------------------------------
(***************************************************************************)
(* writeLoop.  A write fails once the close frame is out or either socket  *)
(* is closed, and by its deadline when the network is silent; before that  *)
(* deadline, or before the reset arrives, it succeeds into the void.       *)
(***************************************************************************)
\* tearDown; where Close is at work already, the Once makes it wait.
TearDown(e) == once' = [once EXCEPT ![e] = IF @ = "free" THEN "socket" ELSE @]

WriteCanFail(e) == CloseSent(e) \/ Done(Peer(e)) \/ cut

\* The done channel of a call that has returned is read by nobody.
Answer(m, res) == call' = [call EXCEPT ![m] = IF @ = "waiting" THEN res ELSE @]

WriteFrame(e) ==
    /\ writer[e] = "running"
    /\ sendq[e] # <<>>
    /\ ~ CloseSent(e)
    /\ LET m == Head(sendq[e])
       IN  /\ Answer(m, "written")
           /\ wire' = IF cut \/ Done(Peer(e)) THEN wire
                      ELSE [wire EXCEPT ![e] = Append(@, m)]
    /\ sendq' = [sendq EXCEPT ![e] = Tail(@)]
    /\ UNCHANGED <<accepted, endVars, recvq, cut, taken, dropped>>

WriteFails(e) ==
    /\ writer[e] = "running"
    /\ sendq[e] # <<>>
    /\ WriteCanFail(e)
    /\ Answer(Head(sendq[e]), "refused")
    /\ sendq' = [sendq EXCEPT ![e] = Tail(@)]
    /\ writer' = [writer EXCEPT ![e] = "ending"]
    /\ TearDown(e)
    /\ UNCHANGED <<accepted, hand, reader, recvq, wire, cut, taken, dropped>>

PingFails(e) ==
    /\ writer[e] = "running"
    /\ WriteCanFail(e)
    /\ writer' = [writer EXCEPT ![e] = "ending"]
    /\ TearDown(e)
    /\ UNCHANGED <<callVars, hand, reader, queueVars, cut, taken, dropped>>

\* doneCh is closed.
WriterEnds(e) ==
    /\ writer[e] = "running"
    /\ Done(e)
    /\ writer' = [writer EXCEPT ![e] = "ending"]
    /\ UNCHANGED <<callVars, hand, reader, once, queueVars, cut, taken, dropped>>

-----------------------------------------------------------------------------
(***************************************************************************)
(* readLoop and deliver.                                                   *)
(***************************************************************************)

ReadFrame(e) ==
    /\ reader[e] = "reading"
    /\ wire[Peer(e)] # <<>> /\ ~ cut /\ ~ Done(e)
    /\ LET f == Head(wire[Peer(e)])
       IN  \/ /\ f \in Msg \ Malformed
              /\ hand' = [hand EXCEPT ![e] = <<f>>]
              /\ reader' = [reader EXCEPT ![e] = "delivering"]
              /\ UNCHANGED once
           \/ /\ f \in Malformed \cup {Bye}
              /\ reader' = [reader EXCEPT ![e] = "ending"]
              /\ TearDown(e)
              /\ UNCHANGED hand
    /\ wire' = [wire EXCEPT ![Peer(e)] = Tail(@)]
    /\ UNCHANGED <<callVars, writer, sendq, recvq, cut, taken, dropped>>

\* Mutant: no read deadline.
ReadFailsOnClose(e) ==
    /\ reader[e] = "reading"
    /\ Done(e) \/ Done(Peer(e))
    /\ reader' = [reader EXCEPT ![e] = "ending"]
    /\ TearDown(e)
    /\ UNCHANGED <<callVars, hand, writer, queueVars, cut, taken, dropped>>

\* The socket was closed here or there (a reset may overtake what is still in
\* flight), or no pong has come for ReadTimeout.
ReadFails(e) ==
    /\ reader[e] = "reading"
    /\ Done(e) \/ Done(Peer(e)) \/ cut
    /\ reader' = [reader EXCEPT ![e] = "ending"]
    /\ TearDown(e)
    /\ UNCHANGED <<callVars, hand, writer, queueVars, cut, taken, dropped>>

Deliver(e) ==
    /\ reader[e] = "delivering"
    /\ Len(recvq[e]) < RecvBuf
    /\ recvq' = [recvq EXCEPT ![e] = @ \o hand[e]]
    /\ hand' = [hand EXCEPT ![e] = <<>>]
    /\ reader' = [reader EXCEPT ![e] = "reading"]
    /\ UNCHANGED <<callVars, writer, once, sendq, wire, cut, taken, dropped>>

\* Mutant: on overflow the envelope that has just arrived is dropped.
DropNewest(e) ==
    /\ reader[e] = "delivering"
    /\ Len(recvq[e]) = RecvBuf
    /\ dropped' = dropped \cup Range(hand[e])
    /\ hand' = [hand EXCEPT ![e] = <<>>]
    /\ reader' = [reader EXCEPT ![e] = "reading"]
    /\ UNCHANGED <<callVars, writer, once, queueVars, cut, taken>>

\* Mutant: the oldest is dropped and the loop is not entered again.
DropBoth(e) ==
    /\ reader[e] = "delivering"
    /\ Len(recvq[e]) = RecvBuf
    /\ dropped' = dropped \cup {Head(recvq[e])}
    /\ recvq' = [recvq EXCEPT ![e] = Tail(@)]
    /\ hand' = [hand EXCEPT ![e] = <<>>]
    /\ reader' = [reader EXCEPT ![e] = "reading"]
    /\ UNCHANGED <<callVars, writer, once, sendq, wire, cut, taken>>

\* The inner select of deliver; the loop then tries again.
DropOldest(e) ==
    /\ reader[e] = "delivering"
    /\ Len(recvq[e]) = RecvBuf
    /\ dropped' = dropped \cup {Head(recvq[e])}
    /\ recvq' = [recvq EXCEPT ![e] = Tail(@)]
    /\ UNCHANGED <<callVars, endVars, sendq, wire, cut, taken>>

\* The application reads; what is buffered outlives the connection.
Recv(e) ==
    /\ recvq[e] # <<>>
    /\ taken' = [taken EXCEPT ![e] = Append(@, Head(recvq[e]))]
    /\ recvq' = [recvq EXCEPT ![e] = Tail(@)]
    /\ UNCHANGED <<callVars, endVars, sendq, wire, cut, dropped>>

-----------------------------------------------------------------------------
(***************************************************************************)
(* Close and tearDown share one sync.Once: the second caller waits until   *)
(* the first is through.                                                   *)
(***************************************************************************)
OnceStep(e, from, to) ==
    /\ once[e] = from
    /\ once' = [once EXCEPT ![e] = to]

Close(e) ==
    /\ e \in Closers
    /\ OnceStep(e, "free", "frame")
    /\ UNCHANGED <<callVars, hand, reader, writer, queueVars, cut, taken, dropped>>

\* WriteControl: best effort.
CloseFrame(e) ==
    /\ OnceStep(e, "frame", "socket")
    /\ \/ /\ ~ cut /\ ~ Done(Peer(e))
          /\ wire' = [wire EXCEPT ![e] = Append(@, Bye)]
       \/ UNCHANGED wire
    /\ UNCHANGED <<callVars, hand, reader, writer, sendq, recvq, cut, taken, dropped>>

\* The socket is closed, then doneCh.  What fails between the two waits for the
\* Once, or for doneCh, all the same.
CloseSocket(e) ==
    /\ OnceStep(e, "socket", "over")
    /\ UNCHANGED <<callVars, hand, reader, writer, queueVars, cut, taken, dropped>>

\* The network drops everything without a word.
Cut ==
    /\ CanCut /\ ~ cut
    /\ cut' = TRUE
    /\ UNCHANGED <<callVars, endVars, queueVars, taken, dropped>>

-----------------------------------------------------------------------------
Caller(m) == HandOff(m) \/ SendResult(m) \/ SendClosed(m)

Reader(e) == ReadFrame(e) \/ ReadFails(e) \/ Deliver(e) \/ DropOldest(e)

Writer(e) == WriteFrame(e) \/ WriteFails(e) \/ WriterEnds(e)

Closer(e) ==
    \/ CloseFrame(e)
    \/ CloseSocket(e)

Next ==
    \/ \E m \in Msg : Send(m) \/ Caller(m) \/ GiveUp(m)
    \/ \E e \in End : Reader(e) \/ Writer(e) \/ PingFails(e) \/ Recv(e) \/ Close(e) \/ Closer(e)
    \/ Cut

\* Goroutines that can run do; nobody is obliged to send, to read Recv or to
\* close, and no context needs to end.
Fairness ==
    /\ \A m \in Msg : WF_vars(Caller(m))
    /\ \A e \in End : WF_vars(Reader(e)) /\ WF_vars(Writer(e)) /\ WF_vars(Closer(e))

Spec == Init /\ [][Next]_vars

FairSpec == Spec /\ Fairness

-----------------------------------------------------------------------------
(***************************************************************************)
(* Properties.                                                             *)
(***************************************************************************)
Arrived(e) == taken[e] \o recvq[e] \o hand[e]

Before(s, m, k) ==
    \E i, j \in 1..Len(s) : i < j /\ s[i] = m /\ s[j] = k

\* One order for all senders of an end: whatever the application reads comes in
\* the order in which the peer's send queue accepted it, nothing twice; and an
\* envelope overflow has dropped was followed by a newer one that is there.
\* What arrives last is therefore the last that was reported or pushed.
LatestKept ==
    \A e \in End :
        LET sent == accepted[Peer(e)]
        IN  /\ \A i, j \in 1..Len(Arrived(e)) :
                 i < j => Before(sent, Arrived(e)[i], Arrived(e)[j])
            /\ \A m \in dropped : From[m] = Peer(e) =>
                 \E k \in Range(Arrived(e)) : Before(sent, m, k)

\* A Send that reported success is lost to overflow only, while neither end has
\* noticed a failure: the frame is on its way, queued, read or dropped.  (The
\* converse does not hold: a Send that failed may be delivered.)
SuccessIsDelivered ==
    \A m \in Msg :
        /\ call[m] = "ok" /\ ~ cut
        /\ \A e \in End : reader[e] \in {"reading", "delivering"} /\ ~ Closing(e)
        => m \in Range(wire[From[m]]) \cup Range(Arrived(Peer(From[m]))) \cup dropped

\* Every Send returns, also one without a deadline of its own, into a full
\* queue, over a silent network, or to a peer that never reads Recv.
SendReturns == \A m \in Msg : call[m] \in Started ~> call[m] \in Returned

\* The end of a connection, or a network that went silent, is noticed at both
\* ends: readers and writers exit, so that Recv closes and sessions end.
BothEnd ==
    (cut \/ \E e \in End : Closing(e)) ~>
        \A e \in End : Exited(reader, e) /\ Exited(writer, e)
=============================================================================
