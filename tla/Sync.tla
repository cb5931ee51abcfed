-------------------------------- MODULE Sync --------------------------------
(***************************************************************************)
(* The whole of one profile: the server side (Mediator) and one agent per  *)
(* node (internal/client/agent.go, apply.go, conn.go).  An agent watches   *)
(* the node's credential file, reports what it reads there, and writes     *)
(* what the server pushes.  The official CLI writes the same file whenever *)
(* it likes.                                                               *)
(*                                                                         *)
(* A connection begins with the agent's hello.  The server registers the   *)
(* session, which makes it a target of pushes, and only then sends the     *)
(* welcome; the agent throws away whatever arrives before that.  An agent  *)
(* that gives up meanwhile leaves a hello behind that the server may still *)
(* take for a new session.                                                 *)
(*                                                                         *)
(* From then on a connection is a pair of FIFO channels.  Either end may   *)
(* give it up first (network loss, ping deadline, protocol error); the     *)
(* other end learns of it later, and the server may still have handled any *)
(* prefix of what the client had sent.                                     *)
(***************************************************************************)
EXTENDS Mediator

CONSTANTS
    owner,        \* Cred -> Account: whose credential it is
    InitFile,     \* Node -> Cred \cup {NoCred}: the files before the agents start
    Workloads     \* what may happen to the profile, in alternative behaviours (bound):
                  \*   cli       what the user of each node does
                  \*   logouts   how many logouts there may be
                  \*   requests  how many snapshot requests the operators may make
                  \*   dials     how often each agent may dial
                  \*   diskFails whether writing a push may fail (lock busy, disk error)

ASSUME SyncAssumption ==
    /\ owner \in [Cred -> Account]
    /\ InitFile \in [Node -> Cred \cup {NoCred}]
    /\ Workloads \subseteq [cli: [Node -> SUBSET {"refresh", "login", "logout"}],
                             logouts: Nat, requests: Nat,
                             dials: [Node -> 0..MaxConn], diskFails: BOOLEAN]
    /\ "none" \in LiveResults   \* the agent performs no live check
    /\ Shared \in AckAccount    \* and leaves an ack's account empty

VARIABLES
    file,     \* the credential file of each node
    meta,     \* claude only: the account in the node's separate metadata file
    login,    \* claude only: the account a login has still to write to meta
    dirty,    \* a watched file changed and the watcher has not delivered it yet
    pending,  \* agent.pending is not empty
    link,     \* the session the agent is connected to, 0 if the server has none
    phase,    \* "down", "hello" (said hello, awaits the welcome), "flush"
              \* (welcome received, not reported yet) or "up"
    hellos,   \* hellos of each node the server has not taken
    greeting, \* registered sessions whose welcome has not been sent
    hand,     \* the envelope a session's readLoop waits to hand over
    c2s, s2c, \* the two directions of every connection
    answer,   \* what readLoop has read for a snapshot.request and not sent yet
    load,     \* the workload of this behaviour
    acts,     \* logouts and snapshot requests so far
    minted    \* credentials the provider has issued so far

fileVars  == <<file, meta, login, dirty, minted>>
agentVars == <<pending, link, phase, answer>>
loadVars  == <<load, acts>>
serveVars == <<greeting, hand>>
wireVars  == <<hellos, c2s, s2c>>
syncVars  == <<vars, fileVars, agentVars, serveVars, wireVars, loadVars>>

OwnerOf(c) == IF c = NoCred THEN Shared ELSE owner[c]

ToServer == [kind: {"report"}, account: Account, body: Cred]
              \cup [kind: {"absent"}, account: Account]
              \cup [kind: {"ack"}, account: AckAccount]
ToClient == [kind: {"push"}, account: Account, cred: Cred]
              \cup [kind: {"request", "welcome"}]

NoMsg == [kind |-> "none"]

SyncTypeOK ==
    /\ file \in [Node -> Cred \cup {NoCred}]
    /\ meta \in [Node -> Account]
    /\ login \in [Node -> SUBSET Account]
    /\ dirty \in [Node -> BOOLEAN]
    /\ pending \in [Node -> BOOLEAN]
    /\ link \in [Node -> 0..MaxConn]
    /\ phase \in [Node -> {"down", "hello", "flush", "up"}]
    /\ hellos \in [Node -> Nat]
    /\ greeting \subseteq Conn
    /\ hand \in [Conn -> ToServer \cup {NoMsg}]
    /\ c2s \in [Conn -> Seq(ToServer)]
    /\ s2c \in [Conn -> Seq(ToClient)]
    /\ answer \in [Node -> ToServer \cup {NoMsg}]
    /\ load \in Workloads
    /\ acts \in Nat
    /\ minted \subseteq Cred

\* Claude only: the nodes whose agent may start in the middle of a login.
HalfLogin ==
    {n \in Node : FormatName = "claude" /\ "login" \in load.cli[n] /\ InitFile[n] # NoCred}

SyncInit ==
    /\ Init
    /\ load \in Workloads
    /\ file = InitFile
    /\ \E half \in SUBSET HalfLogin :
         /\ meta = [n \in Node |-> IF n \in half THEN Shared ELSE OwnerOf(InitFile[n])]
         /\ login = [n \in Node |-> IF n \in half THEN {OwnerOf(InitFile[n])} ELSE {}]
    /\ dirty = [n \in Node |-> FALSE]
    /\ pending = [n \in Node |-> FALSE]
    /\ link = [n \in Node |-> 0]
    /\ phase = [n \in Node |-> "down"]
    /\ hellos = [n \in Node |-> 0]
    /\ greeting = {}
    /\ hand = [s \in Conn |-> NoMsg]
    /\ c2s = [s \in Conn |-> <<>>]
    /\ s2c = [s \in Conn |-> <<>>]
    /\ answer = [n \in Node |-> NoMsg]
    /\ acts = 0
    /\ minted = {InitFile[n] : n \in Node} \ {NoCred}

-----------------------------------------------------------------------------
(***************************************************************************)
(* The user and the official CLI.                                          *)
(***************************************************************************)
Write(n, c) ==
    /\ file' = [file EXCEPT ![n] = c]
    /\ dirty' = [dirty EXCEPT ![n] = TRUE]

\* The CLI rotates the token of the account that is logged in: a fresh
\* credential, newer than the one it had.
Refresh(n, c) ==
    /\ "refresh" \in load.cli[n]
    /\ file[n] # NoCred
    /\ owner[c] = owner[file[n]] /\ Newer(c, file[n])
    /\ c \notin minted
    /\ Write(n, c)
    /\ minted' = minted \cup {c}
    /\ UNCHANGED <<vars, meta, login, agentVars, serveVars, wireVars, loadVars>>

\* A user logs in.  For claude the account is in another file, which the CLI
\* writes on its own (LoginMeta).
Login(n, c) ==
    /\ "login" \in load.cli[n]
    /\ c \notin minted
    /\ Write(n, c)
    /\ minted' = minted \cup {c}
    /\ login' = [login EXCEPT ![n] = IF FormatName = "claude" THEN {owner[c]} ELSE {}]
    /\ UNCHANGED <<vars, meta, agentVars, serveVars, wireVars, loadVars>>

LoginMeta(n) ==
    /\ \E a \in login[n] : meta' = [meta EXCEPT ![n] = a]
    /\ login' = [login EXCEPT ![n] = {}]
    /\ dirty' = [dirty EXCEPT ![n] = TRUE]
    /\ UNCHANGED <<vars, file, minted, agentVars, serveVars, wireVars, loadVars>>

Logout(n) ==
    /\ "logout" \in load.cli[n] /\ acts < load.logouts
    /\ file[n] # NoCred
    /\ Write(n, NoCred)
    /\ acts' = acts + 1
    /\ UNCHANGED <<vars, meta, login, minted, agentVars, serveVars, wireVars, load>>

-----------------------------------------------------------------------------
(***************************************************************************)
(* The agent.                                                              *)
(***************************************************************************)

\* The watcher delivers a settled change: startStatePumps notes it as pending.
Watch(n) ==
    /\ dirty[n]
    /\ dirty' = [dirty EXCEPT ![n] = FALSE]
    /\ pending' = [pending EXCEPT ![n] = TRUE]
    /\ UNCHANGED <<vars, file, meta, login, minted, link, phase, answer, serveVars, wireVars, loadVars>>

\* resolveAccount: claude reads the metadata file, codex and gemini the claims
\* of the token; without a snapshot only claude knows an account.
AccountOf(n) ==
    IF FormatName = "claude" THEN meta[n] ELSE OwnerOf(file[n])

\* reportEvent: re-read the file, report what is there.
CurrentState(n) ==
    IF file[n] = NoCred
    THEN [kind |-> "absent", account |-> AccountOf(n)]
    ELSE [kind |-> "report", account |-> AccountOf(n), body |-> file[n]]

\* What is sent after the server has ended the connection is lost.
Send(n, msg) ==
    IF serve[<<n, link[n]>>] = "reading"
    THEN c2s' = [c2s EXCEPT ![<<n, link[n]>>] = Append(@, msg)]
    ELSE UNCHANGED c2s

\* The dials n has made: sessions the server has had and hellos under way.
Dialled(n) == Cardinality({k \in 1..MaxConn : serve[<<n, k>>] # "idle"}) + hellos[n]

MayRedial(n) == Dialled(n) < load.dials[n]

\* reconnectLoop dials, session says hello.
Dial(n) ==
    /\ phase[n] = "down" /\ MayRedial(n)
    /\ phase' = [phase EXCEPT ![n] = "hello"]
    /\ hellos' = [hellos EXCEPT ![n] = @ + 1]
    /\ UNCHANGED <<vars, fileVars, pending, link, answer, serveVars, c2s, s2c, loadVars>>

AwaitsSession(n) == phase[n] = "hello" /\ link[n] = 0

\* session returns before the server has taken the hello, which stays under way.
GiveUp(n) ==
    /\ AwaitsSession(n) /\ MayRedial(n)
    /\ phase' = [phase EXCEPT ![n] = "down"]
    /\ UNCHANGED <<vars, fileVars, pending, link, answer, serveVars, wireVars, loadVars>>

Inbox(n) == s2c[<<n, link[n]>>]

Takes(n) ==
    /\ Inbox(n) # <<>>
    /\ s2c' = [s2c EXCEPT ![<<n, link[n]>>] = Tail(@)]

\* Mutant: the first envelope has to be the welcome.
AwaitKindStrict(n) ==
    /\ phase[n] = "hello" /\ link[n] # 0
    /\ Takes(n)
    /\ Head(Inbox(n)).kind = "welcome"
    /\ phase' = [phase EXCEPT ![n] = "flush"]
    /\ UNCHANGED <<vars, fileVars, pending, link, answer, serveVars, hellos, c2s, loadVars>>

\* awaitKind: whatever arrives before the welcome is discarded.
AwaitKind(n) ==
    /\ phase[n] = "hello" /\ link[n] # 0
    /\ Takes(n)
    /\ phase' = [phase EXCEPT ![n] = IF Head(Inbox(n)).kind = "welcome" THEN "flush" ELSE @]
    /\ UNCHANGED <<vars, fileVars, pending, link, answer, serveVars, hellos, c2s, loadVars>>

\* Mutant: later connects report buffered events only.
FlushPendingBuffered(n) ==
    /\ phase[n] = "flush"
    /\ pending' = [pending EXCEPT ![n] = FALSE]
    /\ IF link[n] = 1 \/ pending[n] THEN Send(n, CurrentState(n)) ELSE UNCHANGED c2s
    /\ phase' = [phase EXCEPT ![n] = "up"]
    /\ UNCHANGED <<vars, fileVars, link, answer, serveVars, hellos, s2c, loadVars>>

\* flushPending: forget buffered events, report the current state once.
FlushPending(n) ==
    /\ phase[n] = "flush"
    /\ pending' = [pending EXCEPT ![n] = FALSE]
    /\ Send(n, CurrentState(n))
    /\ phase' = [phase EXCEPT ![n] = "up"]
    /\ UNCHANGED <<vars, fileVars, link, answer, serveVars, hellos, s2c, loadVars>>

\* One tick of writeLoop.
WriteLoop(n) ==
    /\ phase[n] = "up" /\ pending[n]
    /\ pending' = [pending EXCEPT ![n] = FALSE]
    /\ Send(n, CurrentState(n))
    /\ UNCHANGED <<vars, fileVars, link, phase, answer, serveVars, hellos, s2c, loadVars>>

(***************************************************************************)
(* readLoop takes a truth.push: applyTruth writes it over whatever the     *)
(* file holds (nothing to do when it already matches), then acks.  The ack *)
(* leaves the account empty.                                               *)
(***************************************************************************)
ApplyTruth(n, push) ==
    \/ /\ file[n] = push.cred
       /\ UNCHANGED <<file, dirty>>
    \/ /\ file[n] # push.cred
       /\ Write(n, push.cred)
    \/ /\ load.diskFails
       /\ file[n] # push.cred
       /\ UNCHANGED <<file, dirty>>

Receives(n, kind) ==
    /\ phase[n] = "up" /\ answer[n] = NoMsg
    /\ Takes(n)
    /\ Head(Inbox(n)).kind = kind

\* Mutant: the ack repeats the account of the push.
HandlePushEcho(n) ==
    /\ Receives(n, "push")
    /\ ApplyTruth(n, Head(Inbox(n)))
    /\ Send(n, [kind |-> "ack", account |-> Head(Inbox(n)).account])
    /\ UNCHANGED <<vars, meta, login, minted, agentVars, serveVars, hellos, loadVars>>

HandlePush(n) ==
    /\ Receives(n, "push")
    /\ ApplyTruth(n, Head(Inbox(n)))
    /\ Send(n, [kind |-> "ack", account |-> Shared])
    /\ UNCHANGED <<vars, meta, login, minted, agentVars, serveVars, hellos, loadVars>>

(***************************************************************************)
(* readLoop takes a snapshot.request: reportCurrentState reads the file,   *)
(* then sends.  writeLoop runs meanwhile, so its report may overtake this  *)
(* one.  (The other way round the watcher reports the change once more.)   *)
(***************************************************************************)
HandleRequest(n) ==
    /\ Receives(n, "request")
    /\ answer' = [answer EXCEPT ![n] = CurrentState(n)]
    /\ UNCHANGED <<vars, fileVars, pending, link, phase, serveVars, hellos, c2s, loadVars>>

SendAnswer(n) ==
    /\ answer[n] # NoMsg
    /\ Send(n, answer[n])
    /\ answer' = [answer EXCEPT ![n] = NoMsg]
    /\ UNCHANGED <<vars, fileVars, pending, link, phase, serveVars, hellos, s2c, loadVars>>

\* session returns; reconnectLoop will dial again.
Disconnected(n) ==
    /\ s2c' = [s2c EXCEPT ![<<n, link[n]>>] = <<>>]
    /\ link' = [link EXCEPT ![n] = 0]
    /\ phase' = [phase EXCEPT ![n] = "down"]
    /\ answer' = [answer EXCEPT ![n] = NoMsg]
    /\ UNCHANGED <<vars, fileVars, pending, serveVars, hellos, c2s, loadVars>>

\* The client loses its connection, or the welcome does not come in time; the
\* server is not told.
Lose(n) == link[n] # 0 /\ MayRedial(n) /\ Disconnected(n)

\* The client finds that the server has ended the connection.
Notice(n) ==
    /\ link[n] # 0
    /\ serve[<<n, link[n]>>] \in {"leaving", "gone"}
    /\ Disconnected(n)

-----------------------------------------------------------------------------
(***************************************************************************)
(* The server, fed by the agents.                                          *)
(***************************************************************************)
Greets(n, k) ==
    /\ hellos[n] > 0
    /\ Register(n, k)
    /\ hellos' = [hellos EXCEPT ![n] = @ - 1]
    /\ greeting' = greeting \cup {<<n, k>>}
    /\ UNCHANGED <<fileVars, pending, phase, answer, hand, c2s, s2c, loadVars>>

\* serveConn takes the hello of an agent that is waiting and registers a session.
ServeHello(n, k) ==
    /\ AwaitsSession(n)
    /\ Greets(n, k)
    /\ link' = [link EXCEPT ![n] = k]

\* The same for a hello whose sender has given up: the new session displaces
\* the agent's own, if it has one (which it can replace while it may dial).
ServeLateHello(n, k) ==
    /\ AwaitsSession(n) => hellos[n] > 1
    /\ link[n] # 0 => MayRedial(n)
    /\ Greets(n, k)
    /\ UNCHANGED link

\* sendWelcome; readLoop starts.
SendWelcome(n, k) ==
    /\ <<n, k>> \in greeting /\ serve[<<n, k>>] = "reading"
    /\ greeting' = greeting \ {<<n, k>>}
    /\ IF link[n] = k
       THEN s2c' = [s2c EXCEPT ![<<n, k>>] = Append(@, [kind |-> "welcome"])]
       ELSE UNCHANGED s2c
    /\ UNCHANGED <<vars, fileVars, agentVars, hand, hellos, c2s, loadVars>>

HandleMsg(n, msg) ==
    \/ msg.kind = "report" /\ HandleReport(n, msg.account, msg.body, "none")
    \/ msg.kind = "absent" /\ HandleAbsent(n, msg.account)
    \/ msg.kind = "ack"    /\ HandleAck(n, msg.account)

\* The channel msg has to be handed over through is full.
NoRoom(msg) ==
    \/ msg.kind = "report" /\ Len(reports) = ChannelBuf
    \/ msg.kind = "absent" /\ Len(absents) = ChannelBuf
    \/ msg.kind = "ack"    /\ Len(acks) = ChannelBuf

ReadsNext(n, k) ==
    /\ serve[<<n, k>>] = "reading" /\ <<n, k>> \notin greeting
    /\ hand[<<n, k>>] = NoMsg
    /\ c2s[<<n, k>>] # <<>>
    /\ c2s' = [c2s EXCEPT ![<<n, k>>] = Tail(@)]

\* The session's readLoop hands over the next envelope, if there is room for it;
HandleNext(n, k) ==
    /\ ReadsNext(n, k)
    /\ HandleMsg(n, Head(c2s[<<n, k>>]))
    /\ UNCHANGED <<fileVars, agentVars, serveVars, hellos, s2c, loadVars>>

\* otherwise it waits inside the send, and neither reads on nor ends.
Block(n, k) ==
    /\ ReadsNext(n, k)
    /\ NoRoom(Head(c2s[<<n, k>>]))
    /\ hand' = [hand EXCEPT ![<<n, k>>] = Head(c2s[<<n, k>>])]
    /\ UNCHANGED <<vars, fileVars, agentVars, greeting, hellos, s2c, loadVars>>

HandOver(n, k) ==
    /\ hand[<<n, k>>] # NoMsg
    /\ HandleMsg(n, hand[<<n, k>>])
    /\ hand' = [hand EXCEPT ![<<n, k>>] = NoMsg]
    /\ UNCHANGED <<fileVars, agentVars, greeting, wireVars, loadVars>>

\* The welcome cannot be sent or readLoop ends, with or without the client's
\* help; what it has not read is lost.
EndSession(n, k) ==
    /\ hand[<<n, k>>] = NoMsg
    /\ link[n] = k /\ current[n] = k => MayRedial(n)
    /\ Unregister(n, k)
    /\ c2s' = [c2s EXCEPT ![<<n, k>>] = <<>>]
    /\ greeting' = greeting \ {<<n, k>>}
    /\ UNCHANGED <<fileVars, agentVars, hand, hellos, s2c, loadVars>>

TellMediator(n, k) ==
    /\ NotifyDisconnect(n, k)
    /\ UNCHANGED <<fileVars, agentVars, serveVars, wireVars, loadVars>>

\* The envelope of one step for one connection: a node is in one account, so
\* there is at most one.  A push to a lost connection goes nowhere.
PushesTo(s) == {p \in sent' : <<p.node, p.conn>> = s /\ link[p.node] = p.conn}

Deliver(s) ==
    IF PushesTo(s) = {}
    THEN s2c[s]
    ELSE LET p == CHOOSE p \in PushesTo(s) : TRUE
         IN  Append(s2c[s], [kind |-> "push", account |-> p.account, cred |-> p.cred])

Mediate(action) ==
    /\ action
    /\ s2c' = [s \in Conn |-> Deliver(s)]
    /\ UNCHANGED <<fileVars, agentVars, serveVars, hellos, c2s, loadVars>>

\* Hub.RequestSnapshot (Telegram /refresh and the like): ask every session; a
\* send that fails is skipped.
RequestSnapshot ==
    /\ acts < load.requests
    /\ acts' = acts + 1
    /\ \E to \in Deliveries({s \in Conn : current[s[1]] = s[2] /\ link[s[1]] = s[2]}) :
         s2c' = [s \in Conn |-> IF s \in to THEN Append(s2c[s], [kind |-> "request"])
                                          ELSE s2c[s]]
    /\ UNCHANGED <<vars, fileVars, agentVars, serveVars, hellos, c2s, load>>

Clock == Tick /\ UNCHANGED <<fileVars, agentVars, serveVars, wireVars, loadVars>>

-----------------------------------------------------------------------------
Cli(n) ==
    \/ \E c \in Cred : Refresh(n, c) \/ Login(n, c)
    \/ LoginMeta(n)
    \/ Logout(n)

Agent(n) ==
    \/ Watch(n)
    \/ Dial(n)
    \/ GiveUp(n)
    \/ AwaitKind(n)
    \/ FlushPending(n)
    \/ WriteLoop(n)
    \/ HandlePush(n)
    \/ HandleRequest(n)
    \/ SendAnswer(n)
    \/ Lose(n)
    \/ Notice(n)

Server(n) ==
    \E k \in 1..MaxConn :
        \/ ServeHello(n, k) \/ ServeLateHello(n, k) \/ SendWelcome(n, k)
        \/ HandleNext(n, k) \/ Block(n, k) \/ HandOver(n, k)
        \/ EndSession(n, k) \/ TellMediator(n, k)

SyncNext ==
    \/ \E n \in Node : Cli(n) \/ Agent(n) \/ Server(n)
    \/ Mediate(OnReport) \/ Mediate(OnAbsent) \/ Mediate(OnAck) \/ Mediate(OnDisconnect)
    \/ RequestSnapshot
    \/ Clock

SyncSpec == SyncInit /\ [][SyncNext]_syncVars

\* The goroutines a connection has at the agent, and where serveConn may wait.
Session(n) == Dial(n) \/ AwaitKind(n) \/ FlushPending(n) \/ Notice(n)

ReadLoop(n) == HandlePush(n) \/ HandleRequest(n) \/ SendAnswer(n)

ServeConn(n, k) ==
    \/ SendWelcome(n, k)
    \/ (link[n] # k \/ current[n] # k) /\ EndSession(n, k)

Deposit(n, k) == HandleNext(n, k) \/ HandOver(n, k) \/ TellMediator(n, k)

(***************************************************************************)
(* Every goroutine runs; the reconnect loop retries for ever; a hello that *)
(* is still awaited arrives; the ping deadline ends the session of a lost  *)
(* connection, and Register's close that of a displaced one; a channel     *)
(* serves the goroutines that wait for room in turn, and select does not   *)
(* pass over a ready channel for ever; a login that has written the        *)
(* credential writes the account too.  Nothing else is assumed of users,   *)
(* of connection losses, of hellos given up or of the clock.               *)
(***************************************************************************)
SyncFairness ==
    /\ \A n \in Node :
         /\ WF_syncVars(Watch(n))
         /\ WF_syncVars(Session(n))
         /\ WF_syncVars(WriteLoop(n))
         /\ WF_syncVars(ReadLoop(n))
         /\ WF_syncVars(LoginMeta(n))
         /\ WF_syncVars(\E k \in 1..MaxConn : ServeHello(n, k))
         /\ \A k \in 1..MaxConn :
              /\ WF_syncVars(ServeConn(n, k))
              /\ SF_syncVars(Deposit(n, k))
    /\ WF_syncVars(Mediate(OnReport))
    /\ WF_syncVars(Mediate(OnAbsent))
    /\ WF_syncVars(Mediate(OnAck))
    /\ WF_syncVars(Mediate(OnDisconnect))

SyncFairSpec == SyncSpec /\ SyncFairness

-----------------------------------------------------------------------------
(***************************************************************************)
(* Properties.                                                             *)
(***************************************************************************)

\* Convergence ("pangaeactl keeps those nodes converged"): once users and the
\* network leave the system alone, the nodes that hold credentials of the same
\* account come to hold the same one, and stay so.
Convergence ==
    <>[](\A n, m \in Node :
            (file[n] # NoCred /\ file[m] # NoCred /\ owner[file[n]] = owner[file[m]])
            => file[n] = file[m])

\* Nothing that concerns n is under way between its file and the mediator, and
\* its agent has taken whatever it was sent.
Settled(n) ==
    /\ ~ dirty[n] /\ ~ pending[n]
    /\ phase[n] = "up" /\ current[n] = link[n]
    /\ Inbox(n) = <<>> /\ answer[n] = NoMsg
    /\ \A k \in 1..MaxConn :
         /\ c2s[<<n, k>>] = <<>> /\ hand[<<n, k>>] = NoMsg
         /\ serve[<<n, k>>] # "leaving"
    /\ \A i \in 1..Len(reports) : reports[i].node # n
    /\ \A i \in 1..Len(absents) : absents[i].node # n
    /\ \A i \in 1..Len(disconnects) : disconnects[i] # n

\* No truth is missed ("propagating that truth"): a node that the mediator
\* counts among the members of an account and sees with another credential
\* than the account's truth holds that truth already, once nothing is under
\* way.  The pushes a handshake throws away, or that go to a connection the
\* agent has left, are made up for by the report that follows the welcome.
NoneMissed ==
    ~ load.diskFails =>
    \A n \in Node : \A a \in Account \ {Shared} :
        (/\ Settled(n)
         /\ cands[n].status # "none" /\ cands[n].account = a
         /\ truths[a] # NoTruth /\ Stale(cands, n, truths[a].cred))
        => file[n] = truths[a].cred

\* Account boundaries: the truth of an account, and every push under way, is a
\* credential of that account ("different human accounts do not get mixed
\* together").
BoundariesKept ==
    /\ \A a \in Account : truths[a] # NoTruth => owner[truths[a].cred] = a
    /\ \A s \in Conn : \A i \in 1..Len(s2c[s]) :
         s2c[s][i].kind = "push" => owner[s2c[s][i].cred] = s2c[s][i].account

\* Every agent ends up connected for good, as the session the table names,
\* whatever was lost or displaced before, and all that was left behind of its
\* earlier sessions is gone: none of them waits for ever for room in a channel,
\* for its welcome or to tell the mediator that it ended.
Reattached ==
    <>[](\A n \in Node :
            /\ phase[n] = "up" /\ current[n] = link[n]
            /\ \A k \in 1..MaxConn :
                 /\ k # link[n] => serve[<<n, k>>] \in {"idle", "gone"}
                 /\ c2s[<<n, k>>] = <<>> /\ hand[<<n, k>>] = NoMsg)

\* The newest credential the provider has issued for an account is still on
\* some node ("selecting the newest valid truth"): propagation never destroys
\* what it exists to propagate.
NewestSurvives ==
    \A c \in minted :
        (\A d \in minted : owner[d] = owner[c] => ~ Newer(d, c))
        => \E n \in Node : file[n] = c
=============================================================================
