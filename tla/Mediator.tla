------------------------------ MODULE Mediator ------------------------------
(***************************************************************************)
(* The server side of one profile: the profileHub's session table          *)
(* (internal/server/hub.go), the sessions that feed it (session.go,        *)
(* router.go) and the mediator actor that owns the decision state          *)
(* (mediator.go).                                                          *)
(*                                                                         *)
(* Every connection of a node is served by its own goroutine; the          *)
(* mediator is one more.  They meet in the session table (under ph.mu) and *)
(* in four separate buffered channels, between which Go's select chooses   *)
(* at random: two messages of one node keep their order only when they     *)
(* travel in the same channel.  The clients are left open here: a session  *)
(* may receive any well-formed message at any time.                        *)
(***************************************************************************)
EXTENDS Formats, Sequences, FiniteSets

CONSTANTS
    Node,         \* authenticated identities; hello.NodeID equals the identity
    Account,      \* account identifiers a report may carry
    Shared,       \* the empty account: the shared bucket
    AckAccount,   \* accounts an ack may carry; the agent leaves it empty
    NoCred,       \* no snapshot
    Garbage,      \* a report body that decodes but does not Parse
    Undecodable,  \* a report body that is not valid base64
    LiveResults,  \* live-check outcomes a report may carry; "none": not performed
    Cooldown,     \* profile.Propagate.Cooldown
    SendsFail,    \* whether a send on an open connection may fail or time out
    PushAll,      \* profile.Propagate.Mode = "all" (otherwise stale only)
    ChannelBuf,   \* capacity of each ingress channel (bound)
    MaxConn,      \* connections per node (bound)
    MaxTime       \* last clock value (bound)

Downgrades == {"expired", "revoked", "unreachable"}

ASSUME MediatorAssumption ==
    /\ Shared \in Account
    /\ AckAccount \subseteq Account
    /\ NoCred \notin Cred
    /\ Garbage \notin Cred /\ Undecodable \notin Cred /\ Garbage # Undecodable
    /\ LiveResults \subseteq Downgrades \cup {"none"}
    /\ PushAll \in BOOLEAN /\ SendsFail \in BOOLEAN
    /\ Cooldown \in Nat
    /\ ChannelBuf \in Nat \ {0}
    /\ MaxConn \in Nat
    /\ MaxTime \in Nat

VARIABLES
    current,      \* ph.sessions: node -> number of its current connection, 0 if none
    serve,        \* where serveConn is for each connection
    reports, absents, acks, disconnects,  \* the mediator's ingress channels
    cands,        \* run's candidates
    truths,       \* run's truths
    mirror,       \* the read-side copy of truths
    sent,         \* truth.push envelopes handed to connections by the last step
    notes,        \* notifications started by the last step
    now           \* the clock

hubVars     == <<current, serve>>
ingressVars == <<reports, absents, acks, disconnects>>
stateVars   == <<cands, truths, mirror>>
outVars     == <<sent, notes>>
vars        == <<hubVars, ingressVars, stateVars, outVars, now>>

Conn    == Node \X (1..MaxConn)
Body    == Cred \cup {Garbage, Undecodable}

ReportMsg == [node: Node, account: Account, body: Body, live: LiveResults]
AbsentMsg == [node: Node, account: Account]
AckMsg    == [node: Node, account: AckAccount]
Push      == [node: Node, conn: 1..MaxConn, account: Account, cred: Cred]
Note      == [kind: {"lost", "restored", "propagated"}, account: Account]

(***************************************************************************)
(* A candidate keeps the fields something reads.  Status "none" stands for *)
(* a node without an entry, "absent" for the absent flag.  The session,    *)
(* reportedAt, path, liveCheckRes and lastApplied fields are written and   *)
(* never read.                                                             *)
(***************************************************************************)
Candidate == [account: Account, cred: Cred \cup {NoCred},
              status: Status \cup {"none", "absent"}]

NoCandidate == [account |-> Shared, cred |-> NoCred, status |-> "none"]

Absence(acct) == [account |-> acct, cred |-> NoCred, status |-> "absent"]

ParseError(acct) == [account |-> acct, cred |-> NoCred, status |-> "parse_error"]

\* Truth of one account: its credential and when it was pushed first.
Truth   == [cred: Cred \cup {NoCred}, pushedAt: Nat]
NoTruth == [cred |-> NoCred, pushedAt |-> 0]

MirrorTruth == [cred: Cred \cup {NoCred}, pushedAt: Nat, nodes: SUBSET Node]

TypeOK ==
    /\ current \in [Node -> 0..MaxConn]
    /\ serve \in [Conn -> {"idle", "reading", "leaving", "gone"}]
    /\ reports \in Seq(ReportMsg)
    /\ absents \in Seq(AbsentMsg)
    /\ acks \in Seq(AckMsg)
    /\ disconnects \in Seq(Node)
    /\ cands \in [Node -> Candidate]
    /\ truths \in [Account -> Truth]
    /\ mirror \in [Account -> MirrorTruth]
    /\ sent \subseteq Push
    /\ notes \subseteq Note
    /\ now \in Nat

Init ==
    /\ current = [n \in Node |-> 0]
    /\ serve = [s \in Conn |-> "idle"]
    /\ reports = <<>>
    /\ absents = <<>>
    /\ acks = <<>>
    /\ disconnects = <<>>
    /\ cands = [n \in Node |-> NoCandidate]
    /\ truths = [a \in Account |-> NoTruth]
    /\ mirror = [a \in Account |-> [cred |-> NoCred, pushedAt |-> 0, nodes |-> {}]]
    /\ sent = {}
    /\ notes = {}
    /\ now = 0

NoOutput == sent' = {} /\ notes' = {}

-----------------------------------------------------------------------------
(***************************************************************************)
(* The hub: Register and Unregister.                                       *)
(***************************************************************************)

(***************************************************************************)
(* serveConn reaches Register for a new connection of n: it becomes the    *)
(* node's current session whether or not an older one is still served.     *)
(* The displaced connection is closed asynchronously; until its readLoop   *)
(* notices, it goes on handing messages to the mediator.                   *)
(***************************************************************************)
Register(n, k) ==
    /\ serve[<<n, k>>] = "idle"
    /\ \A j \in 1..MaxConn : j < k => serve[<<n, j>>] # "idle"
    /\ serve' = [serve EXCEPT ![<<n, k>>] = "reading"]
    /\ current' = [current EXCEPT ![n] = k]
    /\ NoOutput
    /\ UNCHANGED <<ingressVars, stateVars, now>>

\* Mutant: the end of any connection clears the node's entry.
UnregisterAny(n, k) ==
    /\ serve[<<n, k>>] = "reading"
    /\ current' = [current EXCEPT ![n] = 0]
    /\ serve' = [serve EXCEPT ![<<n, k>>] = "leaving"]
    /\ NoOutput
    /\ UNCHANGED <<ingressVars, stateVars, now>>

(***************************************************************************)
(* The readLoop of connection k ends (peer gone, displaced, protocol       *)
(* error, welcome not sent) and Unregister runs its critical section.      *)
(***************************************************************************)
Unregister(n, k) ==
    /\ serve[<<n, k>>] = "reading"
    /\ IF current[n] = k
       THEN /\ current' = [current EXCEPT ![n] = 0]
            /\ serve' = [serve EXCEPT ![<<n, k>>] = "leaving"]
       ELSE /\ serve' = [serve EXCEPT ![<<n, k>>] = "gone"]
            /\ UNCHANGED current
    /\ NoOutput
    /\ UNCHANGED <<ingressVars, stateVars, now>>

\* After ph.mu is released: NotifyDisconnect blocks while the channel is full.
NotifyDisconnect(n, k) ==
    /\ serve[<<n, k>>] = "leaving"
    /\ Len(disconnects) < ChannelBuf
    /\ disconnects' = Append(disconnects, n)
    /\ serve' = [serve EXCEPT ![<<n, k>>] = "gone"]
    /\ NoOutput
    /\ UNCHANGED <<current, reports, absents, acks, stateVars, now>>

-----------------------------------------------------------------------------
(***************************************************************************)
(* Session.handle: a message of a connection that is still being read is   *)
(* handed to the mediator; the reading goroutine blocks while the channel  *)
(* is full.                                                                *)
(***************************************************************************)
Reading(n) == \E k \in 1..MaxConn : serve[<<n, k>>] = "reading"

HandleReport(n, acct, body, live) ==
    /\ Reading(n)
    /\ Len(reports) < ChannelBuf
    /\ reports' = Append(reports, [node |-> n, account |-> acct,
                                   body |-> body, live |-> live])
    /\ NoOutput
    /\ UNCHANGED <<hubVars, absents, acks, disconnects, stateVars, now>>

HandleAbsent(n, acct) ==
    /\ Reading(n)
    /\ Len(absents) < ChannelBuf
    /\ absents' = Append(absents, [node |-> n, account |-> acct])
    /\ NoOutput
    /\ UNCHANGED <<hubVars, reports, acks, disconnects, stateVars, now>>

HandleAck(n, acct) ==
    /\ Reading(n)
    /\ Len(acks) < ChannelBuf
    /\ acks' = Append(acks, [node |-> n, account |-> acct])
    /\ NoOutput
    /\ UNCHANGED <<hubVars, reports, absents, disconnects, stateVars, now>>

-----------------------------------------------------------------------------
(***************************************************************************)
(* reselect: the truth decision, run over a candidate map cs.              *)
(***************************************************************************)
ViableStatus == {"ok", "scope_warn", "unreachable"}

\* Mutant: candidates are not grouped by account.
ViableAnyAccount(cs, acct) == {n \in Node : cs[n].status \in ViableStatus}

\* byAccount[acct]
Viable(cs, acct) ==
    {n \in Node : cs[n].account = acct /\ cs[n].status \in ViableStatus}

\* Mutant: the scan keeps whatever it meets.
BestAny(cs, acct) == Viable(cs, acct)

\* The candidates the scan may end with: Go's map order decides among ties.
Best(cs, acct) ==
    {n \in Viable(cs, acct) :
        \A m \in Viable(cs, acct) : ~ Newer(cs[m].cred, cs[n].cred)}

\* One source per account that has viable candidates.
Sources(cs) ==
    {src \in [{a \in Account : Viable(cs, a) # {}} -> Node] :
        \A a \in DOMAIN src : src[a] \in Best(cs, a)}

Changed(acct, cred) == truths[acct].cred # cred

Suppressed(acct, cred) ==
    /\ Changed(acct, cred)
    /\ truths[acct] # NoTruth
    /\ Cooldown > 0
    /\ now - truths[acct].pushedAt < Cooldown

\* Mutant: no truth-lost pass.
NextTruthKept(cs, src, acct) ==
    IF acct \notin DOMAIN src \/ ~ Changed(acct, cs[src[acct]].cred)
    THEN truths[acct]
    ELSE [cred |-> cs[src[acct]].cred, pushedAt |-> now]

NextTruth(cs, src, acct) ==
    IF acct \notin DOMAIN src
    THEN NoTruth
    ELSE LET cred == cs[src[acct]].cred
         IN  IF Changed(acct, cred) /\ ~ Suppressed(acct, cred)
             THEN [cred |-> cred, pushedAt |-> now]
             ELSE truths[acct]

(***************************************************************************)
(* pushTruth: the sessions truth of acct goes to.  The session table is    *)
(* read under ph.mu once per account; the accounts' candidates are         *)
(* disjoint, so reading it once for all of them is the same.               *)
(***************************************************************************)
Stale(cs, n, cred) == cs[n].status = "absent" \/ cs[n].cred # cred

\* Mutant: the source is a target like any other.
TargetsSource(cs, src, acct) ==
    {n \in Node : /\ current[n] # 0
                  /\ cs[n].status # "none" /\ cs[n].account = acct
                  /\ PushAll \/ Stale(cs, n, cs[src[acct]].cred)}

Targets(cs, src, acct) ==
    {n \in Node : /\ current[n] # 0
                  /\ n # src[acct]
                  /\ cs[n].status # "none" /\ cs[n].account = acct
                  /\ PushAll \/ Stale(cs, n, cs[src[acct]].cred)}

\* Mutant: an unchanged truth is not pushed to late members.
PushTruthChanged(cs, src, acct) ==
    IF acct \notin DOMAIN src \/ ~ Changed(acct, cs[src[acct]].cred)
    THEN {}
    ELSE {[node |-> n, conn |-> current[n], account |-> acct,
           cred |-> cs[src[acct]].cred] : n \in Targets(cs, src, acct)}

\* Mutant: a change inside the cooldown keeps the truth but is pushed anyway.
PushTruthEarly(cs, src, acct) ==
    IF acct \notin DOMAIN src
    THEN {}
    ELSE {[node |-> n, conn |-> current[n], account |-> acct,
           cred |-> cs[src[acct]].cred] : n \in Targets(cs, src, acct)}

PushTruth(cs, src, acct) ==
    IF acct \notin DOMAIN src \/ Suppressed(acct, cs[src[acct]].cred)
    THEN {}
    ELSE {[node |-> n, conn |-> current[n], account |-> acct,
           cred |-> cs[src[acct]].cred] : n \in Targets(cs, src, acct)}

\* Mutant: the mirror is rebuilt from the truths before this event.
UpdateMirrorOld(ts, cs) ==
    [a \in Account |->
        [cred |-> truths[a].cred, pushedAt |-> truths[a].pushedAt,
         nodes |-> {n \in Node : /\ truths[a] # NoTruth
                                 /\ cs[n].status # "none"
                                 /\ cs[n].account = a}]]

UpdateMirror(ts, cs) ==
    [a \in Account |->
        [cred |-> ts[a].cred, pushedAt |-> ts[a].pushedAt,
         nodes |-> {n \in Node : /\ ts[a] # NoTruth
                                 /\ cs[n].status # "none"
                                 /\ cs[n].account = a}]]

LostNotes(src) ==
    {[kind |-> "lost", account |-> a] :
        a \in {b \in Account : truths[b] # NoTruth /\ b \notin DOMAIN src}}

RestoredNotes(src) ==
    {[kind |-> "restored", account |-> a] : a \in {b \in DOMAIN src : truths[b] = NoTruth}}

PropagatedNotes(ok) ==
    {[kind |-> "propagated", account |-> p.account] : p \in ok}

(***************************************************************************)
(* Each send has its own timeout.  One that fails is logged and skipped;   *)
(* an envelope whose send timed out may still have been written.           *)
(***************************************************************************)
Deliveries(pushes) == IF SendsFail THEN SUBSET pushes ELSE {pushes}

Reselect(cs) ==
    \E src \in Sources(cs) :
        LET pushes == UNION {PushTruth(cs, src, a) : a \in Account}
        IN  /\ truths' = [a \in Account |-> NextTruth(cs, src, a)]
            /\ mirror' = UpdateMirror(truths', cs)
            /\ sent' \in Deliveries(pushes)
            /\ \E ok \in Deliveries(sent') :
                 notes' = LostNotes(src) \cup RestoredNotes(src) \cup PropagatedNotes(ok)

-----------------------------------------------------------------------------
(***************************************************************************)
(* The mediator's event loop: one action per select case.                  *)
(***************************************************************************)

\* The client's live check can only downgrade a locally valid credential.
ReportStatus(msg) ==
    IF Validate(msg.body, now) = "ok" /\ msg.live \in Downgrades
    THEN msg.live
    ELSE Validate(msg.body, now)

FromReport(msg) ==
    [account |-> msg.account, cred |-> msg.body, status |-> ReportStatus(msg)]

OnReport ==
    /\ reports # <<>>
    /\ reports' = Tail(reports)
    /\ LET msg == Head(reports)
       IN  \/ /\ msg.body = Undecodable
              /\ NoOutput
              /\ UNCHANGED stateVars
           \/ /\ msg.body = Garbage
              /\ cands' = [cands EXCEPT ![msg.node] = ParseError(msg.account)]
              /\ NoOutput
              /\ UNCHANGED <<truths, mirror>>
           \/ /\ msg.body \in Cred
              /\ cands' = [cands EXCEPT ![msg.node] = FromReport(msg)]
              /\ Reselect(cands')
    /\ UNCHANGED <<hubVars, absents, acks, disconnects, now>>

OnAbsent ==
    /\ absents # <<>>
    /\ absents' = Tail(absents)
    /\ cands' = [cands EXCEPT ![Head(absents).node] = Absence(Head(absents).account)]
    /\ Reselect(cands')
    /\ UNCHANGED <<hubVars, reports, acks, disconnects, now>>

OnAck ==
    /\ acks # <<>>
    /\ acks' = Tail(acks)
    /\ LET msg == Head(acks)
       IN  IF cands[msg.node].status = "none"
           THEN cands' = [cands EXCEPT ![msg.node] = Absence(msg.account)]
           ELSE UNCHANGED cands
    /\ NoOutput
    /\ UNCHANGED <<hubVars, reports, absents, disconnects, truths, mirror, now>>

OnDisconnect ==
    /\ disconnects # <<>>
    /\ disconnects' = Tail(disconnects)
    /\ cands' = [cands EXCEPT ![Head(disconnects)] = NoCandidate]
    /\ Reselect(cands')
    /\ UNCHANGED <<hubVars, reports, absents, acks, now>>

Tick ==
    /\ now < MaxTime
    /\ now' = now + 1
    /\ NoOutput
    /\ UNCHANGED <<hubVars, ingressVars, stateVars>>

-----------------------------------------------------------------------------
Serve(n) ==
    \E k \in 1..MaxConn : Register(n, k) \/ Unregister(n, k) \/ NotifyDisconnect(n, k)

Handle(n) ==
    \/ \E acct \in Account, body \in Body, live \in LiveResults :
           HandleReport(n, acct, body, live)
    \/ \E acct \in Account : HandleAbsent(n, acct)
    \/ \E acct \in AckAccount : HandleAck(n, acct)

Actor == OnReport \/ OnAbsent \/ OnAck \/ OnDisconnect

Next ==
    \/ \E n \in Node : Serve(n) \/ Handle(n)
    \/ Actor
    \/ Tick

Spec == Init /\ [][Next]_vars

-----------------------------------------------------------------------------
(***************************************************************************)
(* Properties.                                                             *)
(***************************************************************************)

\* Displacement (hub.Register, hub.Unregister): the session table names the
\* newest connection of a node and no other, for as long as that connection is
\* read; the end of a displaced connection never unregisters its successor.
CurrentIsNewest ==
    \A n \in Node, k \in 1..MaxConn :
        /\ serve[<<n, k>>] = "reading" =>
             \/ current[n] = k
             \/ \E j \in 1..MaxConn : j > k /\ serve[<<n, j>>] # "idle"
        /\ current[n] = k =>
             /\ serve[<<n, k>>] = "reading"
             /\ \A j \in 1..MaxConn : j > k => serve[<<n, j>>] = "idle"

\* An account keeps a truth only while some node holds a viable credential of
\* that account (reselect's truth-lost pass).  The one exception is a report
\* that does not parse: onReport stores it and returns without a reselect, so
\* the truth it should have withdrawn stays until the next event.
TruthSupported ==
    \/ \A a \in Account : truths[a] # NoTruth => Viable(cands, a) # {}
    \/ \E n \in Node : cands[n].status = "parse_error"

\* With no cooldown the truth of an account is the newest viable credential the
\* mediator knows of for that account ("selecting the newest valid truth"),
\* after every event and in every order of events; again up to a report that
\* does not parse.
TruthIsNewest ==
    \/ Cooldown > 0
    \/ \E n \in Node : cands[n].status = "parse_error"
    \/ \A a \in Account : Viable(cands, a) # {} =>
           \E n \in Viable(cands, a) :
              /\ cands[n].cred = truths[a].cred
              /\ \A m \in Viable(cands, a) : ~ Newer(cands[m].cred, cands[n].cred)

\* What the status endpoint and the notifier read (updateMirror): the mirror
\* shows the same credential and push time as the truth for every account, and
\* lists exactly the account's nodes, up to the nodes whose last event does not
\* refresh it (a report that does not parse, an ack of a node without a
\* candidate).
MirrorAgrees ==
    \A a \in Account :
        /\ mirror[a].cred = truths[a].cred
        /\ mirror[a].pushedAt = truths[a].pushedAt
        /\ \A n \in Node :
             cands[n].status \notin {"parse_error", "absent"} =>
                (n \in mirror[a].nodes <=>
                    truths[a] # NoTruth /\ cands[n].status # "none" /\ cands[n].account = a)

\* The partition rule of pushTruth: a push goes to the current connection of a
\* node whose latest candidate carries the account pushed, and the credential
\* pushed is one that another node of the same account holds, with no newer
\* viable one in that account.  The source is never its own target.
PushIsNewest ==
    \A p \in sent :
        /\ p.conn = current[p.node]
        /\ cands[p.node].status # "none" /\ cands[p.node].account = p.account
        /\ p.cred = truths[p.account].cred
        /\ \E n \in Viable(cands, p.account) : n # p.node /\ cands[n].cred = p.cred
        /\ \A m \in Viable(cands, p.account) : ~ Newer(cands[m].cred, p.cred)

\* Truth never goes back to an older credential of the account while a node
\* still holds the newer one: refreshes are never undone by the order in which
\* other nodes report.
NoRegression ==
    [][\A a \in Account :
          (/\ truths[a] # NoTruth
           /\ truths'[a] # NoTruth
           /\ Newer(truths[a].cred, truths'[a].cred))
          => \A n \in Viable(cands', a) : cands'[n].cred # truths[a].cred]_vars

(***************************************************************************)
(* The abstract specification: a register per account.  What it shows is   *)
(* the mirror, which is all that the rest of the server can see.           *)
(***************************************************************************)
Held(cs, a) == {cs[n].cred : n \in Viable(cs, a)}

Reg == INSTANCE Register WITH
    held      <- [a \in Account |-> Held(cands, a)],
    truth     <- [a \in Account |-> mirror[a].cred],
    since     <- [a \in Account |-> mirror[a].pushedAt],
    announced <- {<<p.account, p.cred>> : p \in sent},
    time      <- now

\* The mediator implements the register: whatever sessions, channels and map
\* orders do, each event decides all accounts at once from what is then held,
\* the visible truth is a newest credential or one not older than the cooldown,
\* and no push announces anything but a newest credential that is shown.
ImplementsRegister == Reg!Spec
=============================================================================
