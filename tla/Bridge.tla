------------------------------- MODULE Bridge -------------------------------
(***************************************************************************)
(* Reverse mode: the connector process (internal/reversebridge) dials the  *)
(* node, directly or through SSH, dials the server's attach socket and     *)
(* copies messages both ways; at the node the reverse listener             *)
(* (client/reverse.go) serves one session and displaces the one before.    *)
(* One target, that is one bridgeLoop and one reverseAgent.  A connection  *)
(* k is the pair of legs of one attempt; what travels on it is left out,   *)
(* as the proxies only tell messages from errors.                          *)
(***************************************************************************)
EXTENDS Integers, FiniteSets

CONSTANTS
    Target,      \* kinds of targets: a URL, ssh with reverse_addr, ssh without
    MaxConn,     \* connections dialled in a behaviour (bound)
    Dials,       \* the same for each kind of target (bound)
    MaxFaults    \* faults in a behaviour (bound)

ASSUME BridgeAssumption ==
    /\ Target \subseteq {"direct", "ssh", "managed"}
    /\ MaxConn \in Nat \ {0} /\ MaxFaults \in Nat
    /\ Dials \in [Target -> 1..MaxConn]

VARIABLES
    target,   \* the target of this loop
    ctx,      \* the connector's context
    at,       \* where bridgeLoop is
    conn,     \* the connection of this attempt, or of the last one
    remote,   \* conn -> the ends of its leg to the node
    local,    \* conn -> the ends of its leg to the server
    lost,     \* connections whose remote leg was cut without a word
    proxy,    \* conn -> the three goroutines of bridgeOnce
    errs,     \* conn -> errors in errCh
    session,  \* conn -> the handler at the node
    prev,     \* conn -> the connection it found in reverseAgent.conn
    rconn,    \* reverseAgent.conn, 0 for nil
    faults    \* number of faults so far

loopVars   == <<target, ctx, at, conn, proxy, errs>>
legVars    == <<remote, local, lost>>
nodeVars   == <<session, prev, rconn>>
bridgeVars == <<loopVars, legVars, nodeVars, faults>>

Conn == 1..MaxConn
Copy == {"in", "out"}        \* remote to local, local to remote
Proc == Copy \cup {"wait"}   \* and the wait for the managed remote command

LegEnd == {"none", "open", "closed"}

NoLeg == [near |-> "none", far |-> "none"]
Leg   == [near |-> "open", far |-> "open"]

BridgeTypeOK ==
    /\ target \in Target
    /\ ctx \in {"live", "cancelled"}
    /\ at \in {"loop", "ssh", "managed", "remote", "local", "bridged", "returned"}
    /\ conn \in 0..MaxConn
    /\ remote \in [Conn -> [near: LegEnd, far: LegEnd]]
    /\ local \in [Conn -> [near: LegEnd, far: LegEnd]]
    /\ lost \subseteq Conn
    /\ proxy \in [Conn -> [Proc -> {"off", "on", "done"}]]
    /\ errs \in [Conn -> 0..3]
    /\ session \in [Conn -> {"none", "accepted", "swapped", "session", "done"}]
    /\ prev \in [Conn -> 0..MaxConn]
    /\ rconn \in 0..MaxConn
    /\ faults \in 0..MaxFaults

BridgeInit ==
    /\ target \in Target
    /\ ctx = "live"
    /\ at = "loop"
    /\ conn = 0
    /\ remote = [k \in Conn |-> NoLeg]
    /\ local = [k \in Conn |-> NoLeg]
    /\ lost = {}
    /\ proxy = [k \in Conn |-> [d \in Proc |-> "off"]]
    /\ errs = [k \in Conn |-> 0]
    /\ session = [k \in Conn |-> "none"]
    /\ prev = [k \in Conn |-> 0]
    /\ rconn = 0
    /\ faults = 0

-----------------------------------------------------------------------------
(***************************************************************************)
(* bridgeLoop and bridgeOnce.                                              *)
(***************************************************************************)
Goto(place) == at' = place /\ UNCHANGED <<target, ctx, conn, proxy, errs>>

\* bridgeLoop calls bridgeOnce, unless the context is done.
StartAttempt ==
    /\ at = "loop"
    /\ Goto(IF ctx = "cancelled" THEN "returned"
            ELSE IF target = "direct" THEN "remote" ELSE "ssh")
    /\ UNCHANGED <<legVars, nodeVars, faults>>

\* bridgeOnce has returned: leave, or wait and go on, as the context says.
Over == IF ctx = "cancelled" THEN "returned" ELSE "loop"

\* dialSSH: the handshake does not look at the context.
DialSSH ==
    /\ at = "ssh"
    /\ \E place \in {IF target = "managed" THEN "managed" ELSE "remote", Over} : Goto(place)
    /\ UNCHANGED <<legVars, nodeVars, faults>>

\* startManagedReverseClient: the remote command prints its address, fails, or
\* the context is done.
StartManaged ==
    /\ at = "managed"
    /\ \E place \in {"remote", Over} : Goto(place)
    /\ UNCHANGED <<legVars, nodeVars, faults>>

\* dialRemote, dialRemoteOverSSH: the listener upgrades and starts a handler.
DialRemote ==
    /\ at = "remote" /\ ctx = "live"
    /\ conn < Dials[target]
    /\ conn' = conn + 1
    /\ at' = "local"
    /\ remote' = [remote EXCEPT ![conn + 1] = Leg]
    /\ session' = [session EXCEPT ![conn + 1] = "accepted"]
    /\ UNCHANGED <<target, ctx, proxy, errs, local, lost, prev, rconn, faults>>

DialRemoteFails ==
    /\ at = "remote"
    /\ Goto(Over)
    /\ UNCHANGED <<legVars, nodeVars, faults>>

\* dialLocalAttach; then the proxies start, and a wait for the remote command.
DialLocal ==
    /\ at = "local" /\ ctx = "live"
    /\ at' = "bridged"
    /\ local' = [local EXCEPT ![conn] = Leg]
    /\ proxy' = [proxy EXCEPT ![conn] =
                    [d \in Proc |-> IF d = "wait" /\ target # "managed" THEN "off" ELSE "on"]]
    /\ UNCHANGED <<target, ctx, conn, errs, remote, lost, nodeVars, faults>>

Fault == faults < MaxFaults /\ faults' = faults + 1

DialLocalFails ==
    /\ at = "local"
    /\ IF ctx = "cancelled" THEN UNCHANGED faults ELSE Fault
    /\ Goto(Over)
    /\ remote' = [remote EXCEPT ![conn].near = "closed"]
    /\ UNCHANGED <<local, lost, nodeVars>>

\* Mutant: the remote connection is not closed with the local one.
ReturnHalf ==
    /\ at = "bridged"
    /\ ctx = "cancelled" \/ errs[conn] > 0
    /\ at' = Over
    /\ errs' = [errs EXCEPT ![conn] = IF @ > 0 THEN @ - 1 ELSE @]
    /\ local' = [local EXCEPT ![conn].near = "closed"]
    /\ UNCHANGED <<target, ctx, conn, proxy, remote, lost, nodeVars, faults>>

\* The select at the end of bridgeOnce takes one error or the context's end; the
\* deferred calls close both legs, the remote command and the SSH client.
Return ==
    /\ at = "bridged"
    /\ ctx = "cancelled" \/ errs[conn] > 0
    /\ at' = Over
    /\ errs' = [errs EXCEPT ![conn] = IF @ > 0 THEN @ - 1 ELSE @]
    /\ local' = [local EXCEPT ![conn].near = "closed"]
    /\ remote' = [remote EXCEPT ![conn].near = "closed"]
    /\ UNCHANGED <<target, ctx, conn, proxy, lost, nodeVars, faults>>

-----------------------------------------------------------------------------
(***************************************************************************)
(* proxyWebsocket and the wait for the remote command.                     *)
(***************************************************************************)
\* The capacity of errCh.
ErrCap == IF target = "direct" THEN 2 ELSE 3

Dead(leg) == leg.near = "closed" \/ leg.far = "closed"

RemoteDead(k) == Dead(remote[k]) \/ k \in lost

SourceDead(k, d) == IF d = "in" THEN RemoteDead(k) ELSE Dead(local[k])

SinkDead(k, d) == IF d = "in" THEN Dead(local[k]) ELSE RemoteDead(k)

\* errCh <- err blocks while the channel is full.
Tell(k, d) ==
    /\ proxy[k][d] = "on"
    /\ errs[k] < ErrCap
    /\ errs' = [errs EXCEPT ![k] = @ + 1]
    /\ proxy' = [proxy EXCEPT ![k][d] = "done"]
    /\ UNCHANGED <<target, ctx, at, conn, legVars, nodeVars, faults>>

\* ReadMessage fails when the source has ended, WriteMessage when there is something
\* to write to a sink that has.  A write to an open connection does not block for
\* ever: both transports read whatever comes, a full queue drops.
ProxyWebsocket(k, d) ==
    /\ d \in Copy
    /\ SourceDead(k, d) \/ SinkDead(k, d)
    /\ Tell(k, d)

\* session.Wait returns: the command was stopped with the SSH session.
SessionWait(k) ==
    /\ remote[k].near = "closed"
    /\ Tell(k, "wait")

-----------------------------------------------------------------------------
(***************************************************************************)
(* The node: reverseAgent.serve in the handler of each connection.         *)
(***************************************************************************)
\* The swap under r.mu.  A managed command is a process of its own.
Swap(k) ==
    /\ session[k] = "accepted"
    /\ session' = [session EXCEPT ![k] = "swapped"]
    /\ prev' = [prev EXCEPT ![k] = IF target = "managed" THEN 0 ELSE rconn]
    /\ rconn' = k
    /\ UNCHANGED <<loopVars, legVars, faults>>

\* prev.Close, and agent.session is called.
ClosePrev(k) ==
    /\ session[k] = "swapped"
    /\ session' = [session EXCEPT ![k] = "session"]
    /\ remote' = IF prev[k] # 0 THEN [remote EXCEPT ![prev[k]].far = "closed"] ELSE remote
    /\ UNCHANGED <<loopVars, local, lost, prev, rconn, faults>>

\* Mutant: whoever leaves clears the agent's connection.
LeaveAlways(k) ==
    /\ session' = [session EXCEPT ![k] = "done"]
    /\ rconn' = 0

\* The deferred function of serve.
Leave(k) ==
    /\ session' = [session EXCEPT ![k] = "done"]
    /\ rconn' = IF rconn = k THEN 0 ELSE rconn

\* agent.session returns because its connection has ended or does not answer, ...
SessionEnds(k) ==
    /\ session[k] = "session"
    /\ RemoteDead(k)
    /\ Leave(k)
    /\ remote' = [remote EXCEPT ![k].far = "closed"]
    /\ UNCHANGED <<loopVars, local, lost, prev, faults>>

\* ... or for a reason of its own: no welcome in time, an envelope it does not
\* understand, a report that takes too long.  Nobody closes the connection.
SessionFails(k) ==
    /\ session[k] = "session"
    /\ Fault
    /\ Leave(k)
    /\ UNCHANGED <<loopVars, legVars, prev>>

-----------------------------------------------------------------------------
(***************************************************************************)
(* The server's end of the local leg, and the environment.                 *)
(***************************************************************************)
\* The server ends a session: displaced, rejected, stopped.
ServerCloses(k) ==
    /\ local[k].far = "open"
    /\ Fault
    /\ local' = [local EXCEPT ![k].far = "closed"]
    /\ UNCHANGED <<loopVars, remote, lost, nodeVars>>

Lose(k) ==
    /\ remote[k] = Leg /\ k \notin lost
    /\ Fault
    /\ lost' = lost \cup {k}
    /\ UNCHANGED <<loopVars, remote, local, nodeVars>>

\* The managed command dies or exits, with its handlers and their connections.
CommandExits(k) ==
    /\ proxy[k]["wait"] = "on" /\ remote[k] = Leg
    /\ Fault
    /\ remote' = [remote EXCEPT ![k].far = "closed"]
    /\ session' = [session EXCEPT ![k] = "done"]
    /\ proxy' = [proxy EXCEPT ![k]["wait"] = "done"]
    /\ \E failed \in {0, 1} : errs' = [errs EXCEPT ![k] = @ + failed]
    /\ UNCHANGED <<target, ctx, at, conn, local, lost, prev, rconn>>

Cancel ==
    /\ ctx = "live"
    /\ ctx' = "cancelled"
    /\ UNCHANGED <<target, at, conn, proxy, errs, legVars, nodeVars, faults>>

-----------------------------------------------------------------------------
Loop ==
    \/ StartAttempt \/ DialSSH \/ StartManaged
    \/ DialRemote \/ DialRemoteFails \/ DialLocal \/ DialLocalFails \/ Return

Handler(k) == Swap(k) \/ ClosePrev(k) \/ SessionEnds(k)

BridgeNext ==
    \/ Loop
    \/ \E k \in Conn :
         \/ \E d \in Copy : ProxyWebsocket(k, d)
         \/ SessionWait(k)
         \/ Handler(k) \/ SessionFails(k)
         \/ ServerCloses(k)
         \/ Lose(k) \/ CommandExits(k)
    \/ Cancel

BridgeSpec == BridgeInit /\ [][BridgeNext]_bridgeVars

\* The goroutines of both processes run; an SSH handshake ends; a node that is
\* tried again and again is reached; a lost leg is noticed (TCP keep-alive at the
\* connector, the ping deadline at the node).  Faults and shutdown need not happen.
BridgeFairness ==
    /\ WF_bridgeVars(Loop)
    /\ SF_bridgeVars(StartManaged /\ at' = "remote")
    /\ SF_bridgeVars(DialRemote)
    /\ \A k \in Conn :
         /\ \A d \in Copy : WF_bridgeVars(SourceDead(k, d) /\ ProxyWebsocket(k, d))
         /\ WF_bridgeVars(SessionWait(k))
         /\ WF_bridgeVars(Handler(k))

BridgeFairSpec == BridgeSpec /\ BridgeFairness

-----------------------------------------------------------------------------
(***************************************************************************)
(* Properties.                                                             *)
(***************************************************************************)

\* Displacement at the node: however the ends of earlier handlers and the swaps
\* interleave, a session that runs beside another on an open connection is about
\* to be closed by the handler that has taken its place.
OneLive ==
    \A j, k \in Conn :
        (target # "managed" /\ j # k /\ session[j] = "session" /\ session[k] = "session"
            /\ remote[j].far = "open" /\ remote[k].far = "open")
        => \E m \in Conn : session[m] = "swapped" /\ prev[m] \in {j, k}

Ended(k) ==
    /\ remote[k].near = "closed"
    /\ local[k].near # "open"
    /\ \A d \in Proc : proxy[k][d] # "on"

\* No half bridge: when one leg has ended, was lost, or the connector stops, the
\* bridge lets go of both, for good, and none of its goroutines stays behind to
\* tell an error that nobody takes any more.
BridgeEnds ==
    <>[](\A k \in Conn :
            (remote[k] # NoLeg /\ (RemoteDead(k) \/ Dead(local[k]) \/ ctx = "cancelled"))
            => Ended(k))
=============================================================================
