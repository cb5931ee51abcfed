----------------------------- MODULE SyncProofs -----------------------------
(***************************************************************************)
(* Proofs about the mediator and about a whole profile with its agents,    *)
(* connections and hub, for any set of nodes, accounts and credentials,    *)
(* any format, cooldown and bounds.                                        *)
(***************************************************************************)
EXTENDS Sync, FiniteSetTheorems, WellFoundedInduction, TLAPS

\* A viable candidate carries a parsed snapshot (reselect's c.snap == nil test
\* never drops one of these statuses).
ViableHasCred(cs) ==
    \A n \in Node : cs[n].status \in ViableStatus => cs[n].cred \in Cred

\* A truth that exists has a credential and was pushed in the past.
TruthWellFormed ==
    \A a \in Account : /\ truths[a] # NoTruth => truths[a].cred \in Cred
                       /\ truths[a].pushedAt <= now

\* The inductive strengthening of the type invariant: pushes and truths are
\* well typed only because viable candidates carry credentials.
TypeInv == TypeOK /\ ViableHasCred(cands) /\ TruthWellFormed

-----------------------------------------------------------------------------
(* What the decision operators return. *)

LEMMA SourceFacts ==
    ASSUME NEW cs \in [Node -> Candidate], ViableHasCred(cs),
           NEW src \in Sources(cs), NEW a \in DOMAIN src
    PROVE  /\ a \in Account
           /\ src[a] \in Best(cs, a)
           /\ src[a] \in Viable(cs, a)
           /\ src[a] \in Node
           /\ cs[src[a]].account = a
           /\ cs[src[a]].cred \in Cred
BY DEF Sources, Best, Viable, ViableHasCred

LEMMA NextTruthFacts ==
    ASSUME TypeInv, NEW cs \in [Node -> Candidate], ViableHasCred(cs),
           NEW src \in Sources(cs), NEW a \in Account
    PROVE  /\ NextTruth(cs, src, a) \in Truth
           /\ NextTruth(cs, src, a) # NoTruth =>
                NextTruth(cs, src, a).cred \in Cred /\ Viable(cs, a) # {}
           /\ NextTruth(cs, src, a).pushedAt <= now
<1>1. CASE a \notin DOMAIN src
    <2>1. NextTruth(cs, src, a) = NoTruth
        BY <1>1 DEF NextTruth
    <2>2. NoTruth \in Truth /\ NoTruth.pushedAt = 0 /\ now \in Nat
        BY DEF Truth, NoTruth, TypeInv, TypeOK
    <2> QED
        BY <2>1, <2>2
<1>2. CASE a \in DOMAIN src
    <2>1. cs[src[a]].cred \in Cred /\ Viable(cs, a) # {}
        BY <1>2, SourceFacts
    <2>2. truths[a] \in Truth /\ now \in Nat
        BY DEF TypeInv, TypeOK
    <2>3. CASE Changed(a, cs[src[a]].cred) /\ ~ Suppressed(a, cs[src[a]].cred)
        <3>1. NextTruth(cs, src, a) = [cred |-> cs[src[a]].cred, pushedAt |-> now]
            BY <1>2, <2>3 DEF NextTruth
        <3> QED
            BY <3>1, <2>1, <2>2 DEF Truth
    <2>4. CASE ~ (Changed(a, cs[src[a]].cred) /\ ~ Suppressed(a, cs[src[a]].cred))
        <3>1. NextTruth(cs, src, a) = truths[a]
            BY <1>2, <2>4 DEF NextTruth
        <3> QED
            BY <3>1, <2>1, <2>2 DEF TypeInv, TruthWellFormed
    <2> QED
        BY <2>3, <2>4
<1> QED
    BY <1>1, <1>2

LEMMA PushTruthFacts ==
    ASSUME TypeInv, NEW cs \in [Node -> Candidate], ViableHasCred(cs),
           NEW src \in Sources(cs), NEW a \in Account, NEW p \in PushTruth(cs, src, a)
    PROVE  /\ a \in DOMAIN src
           /\ p \in Push
           /\ p.account = a /\ p.conn = current[p.node] /\ p.node # src[a]
           /\ p.cred = cs[src[a]].cred
           /\ cs[p.node].status # "none" /\ cs[p.node].account = a
           /\ ~ Suppressed(a, cs[src[a]].cred)
<1>1. a \in DOMAIN src /\ ~ Suppressed(a, cs[src[a]].cred)
    BY DEF PushTruth
<1>2. PICK n \in Targets(cs, src, a) :
          p = [node |-> n, conn |-> current[n], account |-> a, cred |-> cs[src[a]].cred]
    BY <1>1 DEF PushTruth
<1>3. /\ n \in Node /\ current[n] # 0 /\ n # src[a]
      /\ cs[n].status # "none" /\ cs[n].account = a
    BY DEF Targets
<1>4. current[n] \in 1..MaxConn
    BY <1>3, MediatorAssumption DEF TypeInv, TypeOK
<1>5. cs[src[a]].cred \in Cred
    BY <1>1, SourceFacts
<1>6. p \in Push
    BY <1>2, <1>3, <1>4, <1>5 DEF Push
<1> QED
    BY <1>1, <1>2, <1>3, <1>6

\* One reselect over a candidate map keeps every variable it writes well typed.
LEMMA ReselectType ==
    ASSUME TypeInv, NEW cs \in [Node -> Candidate], ViableHasCred(cs), Reselect(cs)
    PROVE  /\ truths' \in [Account -> Truth]
           /\ \A a \in Account : /\ truths'[a] # NoTruth => truths'[a].cred \in Cred
                                 /\ truths'[a].pushedAt <= now
           /\ mirror' \in [Account -> MirrorTruth]
           /\ sent' \subseteq Push
           /\ notes' \subseteq Note
<1>1. PICK src \in Sources(cs) :
          LET pushes == UNION {PushTruth(cs, src, a) : a \in Account}
          IN  /\ truths' = [a \in Account |-> NextTruth(cs, src, a)]
              /\ mirror' = UpdateMirror(truths', cs)
              /\ sent' \in Deliveries(pushes)
              /\ \E ok \in Deliveries(sent') :
                   notes' = LostNotes(src) \cup RestoredNotes(src) \cup PropagatedNotes(ok)
    BY DEF Reselect
<1>2. /\ truths' \in [Account -> Truth]
      /\ \A a \in Account : /\ truths'[a] # NoTruth => truths'[a].cred \in Cred
                            /\ truths'[a].pushedAt <= now
    BY <1>1, NextTruthFacts
<1>3. mirror' \in [Account -> MirrorTruth]
    <2>1. mirror' = UpdateMirror(truths', cs)
        BY <1>1
    <2>2. ASSUME NEW a \in Account
          PROVE  truths'[a].cred \in Cred \cup {NoCred} /\ truths'[a].pushedAt \in Nat
        BY <1>2 DEF Truth
    <2> QED
        BY <2>1, <2>2 DEF UpdateMirror, MirrorTruth
<1>4. sent' \subseteq Push
    <2>1. sent' \subseteq UNION {PushTruth(cs, src, a) : a \in Account}
        BY <1>1 DEF Deliveries
    <2> QED
        BY <2>1, PushTruthFacts
<1>5. notes' \subseteq Note
    <2>1. PICK ok \in Deliveries(sent') :
              notes' = LostNotes(src) \cup RestoredNotes(src) \cup PropagatedNotes(ok)
        BY <1>1
    <2>2. LostNotes(src) \subseteq Note
        BY DEF LostNotes, Note
    <2>3. RestoredNotes(src) \subseteq Note
        BY SourceFacts DEF RestoredNotes, Note
    <2>4. PropagatedNotes(ok) \subseteq Note
        <3>1. ok \subseteq Push
            BY <1>4 DEF Deliveries
        <3>2. \A p \in ok : p.account \in Account
            BY <3>1 DEF Push
        <3> QED
            BY <3>2 DEF PropagatedNotes, Note
    <2> QED
        BY <2>1, <2>2, <2>3, <2>4
<1> QED
    BY <1>2, <1>3, <1>4, <1>5

-----------------------------------------------------------------------------
(* The type invariant. *)

LEMMA TypeInit == Init => TypeInv
<1> SUFFICES ASSUME Init PROVE TypeInv
    OBVIOUS
<1>1. cands \in [Node -> Candidate]
    BY MediatorAssumption DEF Init, NoCandidate, Candidate
<1>2. truths \in [Account -> Truth] /\ mirror \in [Account -> MirrorTruth]
    BY DEF Init, NoTruth, Truth, MirrorTruth
<1>3. TypeOK
    <2>1. current \in [Node -> 0..MaxConn]
        BY MediatorAssumption DEF Init
    <2>2. serve \in [Conn -> {"idle", "reading", "leaving", "gone"}]
        BY DEF Init
    <2>3. /\ reports \in Seq(ReportMsg) /\ absents \in Seq(AbsentMsg)
          /\ acks \in Seq(AckMsg) /\ disconnects \in Seq(Node)
        BY DEF Init
    <2> QED
        BY <1>1, <1>2, <2>1, <2>2, <2>3 DEF Init, TypeOK
<1>4. ViableHasCred(cands) /\ TruthWellFormed
    BY DEF Init, ViableHasCred, NoCandidate, ViableStatus, TruthWellFormed, NoTruth
<1> QED
    BY <1>3, <1>4 DEF TypeInv

\* The actions that leave the decision state alone.
LEMMA TypeQuiet ==
    ASSUME TypeInv, UNCHANGED stateVars, NoOutput, now' \in Nat, now <= now',
           current' \in [Node -> 0..MaxConn],
           serve' \in [Conn -> {"idle", "reading", "leaving", "gone"}],
           reports' \in Seq(ReportMsg), absents' \in Seq(AbsentMsg),
           acks' \in Seq(AckMsg), disconnects' \in Seq(Node)
    PROVE  TypeInv'
<1>1. TypeOK'
    BY DEF TypeInv, TypeOK, stateVars, NoOutput
<1>2. ViableHasCred(cands)'
    BY DEF TypeInv, ViableHasCred, stateVars
<1>3. TruthWellFormed'
    <2> SUFFICES ASSUME NEW a \in Account
                 PROVE  (truths[a] # NoTruth => truths[a].cred \in Cred) /\ truths[a].pushedAt <= now'
        BY DEF TruthWellFormed, stateVars
    <2>1. truths[a].pushedAt \in Nat /\ now \in Nat /\ truths[a].pushedAt <= now
        BY DEF TypeInv, TypeOK, TruthWellFormed, Truth
    <2> QED
        BY <2>1 DEF TypeInv, TruthWellFormed
<1> QED
    BY <1>1, <1>2, <1>3 DEF TypeInv

\* The actions that end in a reselect.
LEMMA TypeReselect ==
    ASSUME TypeInv, cands' \in [Node -> Candidate], ViableHasCred(cands'),
           Reselect(cands'), UNCHANGED <<hubVars, now>>,
           reports' \in Seq(ReportMsg), absents' \in Seq(AbsentMsg),
           acks' \in Seq(AckMsg), disconnects' \in Seq(Node)
    PROVE  TypeInv'
<1>1. /\ truths' \in [Account -> Truth]
      /\ \A a \in Account : /\ truths'[a] # NoTruth => truths'[a].cred \in Cred
                            /\ truths'[a].pushedAt <= now
      /\ mirror' \in [Account -> MirrorTruth]
      /\ sent' \subseteq Push
      /\ notes' \subseteq Note
    BY ReselectType
<1>2. TypeOK'
    BY <1>1 DEF TypeInv, TypeOK, hubVars
<1>3. ViableHasCred(cands)' /\ TruthWellFormed'
    BY <1>1 DEF ViableHasCred, TruthWellFormed
<1> QED
    BY <1>2, <1>3 DEF TypeInv

LEMMA TypeStep == TypeInv /\ [Next]_vars => TypeInv'
<1> SUFFICES ASSUME TypeInv, [Next]_vars PROVE TypeInv'
    OBVIOUS
<1> USE DEF TypeInv
<1>1. ASSUME NEW n \in Node, NEW k \in 1..MaxConn, Register(n, k)
      PROVE  TypeInv'
    <2>1. current' \in [Node -> 0..MaxConn]
        BY <1>1, MediatorAssumption DEF Register, TypeOK
    <2>2. serve' \in [Conn -> {"idle", "reading", "leaving", "gone"}]
        BY <1>1 DEF Register, TypeOK
    <2> QED
        BY <1>1, <2>1, <2>2, TypeQuiet DEF Register, ingressVars, TypeOK
<1>2. ASSUME NEW n \in Node, NEW k \in 1..MaxConn, Unregister(n, k)
      PROVE  TypeInv'
    <2>1. current' = [current EXCEPT ![n] = 0] \/ current' = current
        BY <1>2 DEF Unregister
    <2>3. current' \in [Node -> 0..MaxConn]
        BY <2>1, MediatorAssumption DEF TypeOK
    <2>2. serve' \in [Conn -> {"idle", "reading", "leaving", "gone"}]
        BY <1>2 DEF Unregister, TypeOK
    <2> QED
        BY <1>2, <2>3, <2>2, TypeQuiet DEF Unregister, ingressVars, TypeOK
<1>3. ASSUME NEW n \in Node, NEW k \in 1..MaxConn, NotifyDisconnect(n, k)
      PROVE  TypeInv'
    <2>1. serve' \in [Conn -> {"idle", "reading", "leaving", "gone"}]
        BY <1>3 DEF NotifyDisconnect, TypeOK
    <2>2. disconnects' \in Seq(Node)
        BY <1>3 DEF NotifyDisconnect, TypeOK
    <2> QED
        BY <1>3, <2>1, <2>2, TypeQuiet DEF NotifyDisconnect, TypeOK
<1>4. ASSUME NEW n \in Node, NEW acct \in Account, NEW body \in Body,
             NEW live \in LiveResults, HandleReport(n, acct, body, live)
      PROVE  TypeInv'
    <2>1. [node |-> n, account |-> acct, body |-> body, live |-> live] \in ReportMsg
        BY DEF ReportMsg
    <2>2. reports' \in Seq(ReportMsg)
        BY <1>4, <2>1 DEF HandleReport, TypeOK
    <2> QED
        BY <1>4, <2>2, TypeQuiet DEF HandleReport, hubVars, TypeOK
<1>5. ASSUME NEW n \in Node, NEW acct \in Account, HandleAbsent(n, acct)
      PROVE  TypeInv'
    <2>1. absents' \in Seq(AbsentMsg)
        BY <1>5 DEF HandleAbsent, TypeOK, AbsentMsg
    <2> QED
        BY <1>5, <2>1, TypeQuiet DEF HandleAbsent, hubVars, TypeOK
<1>6. ASSUME NEW n \in Node, NEW acct \in AckAccount, HandleAck(n, acct)
      PROVE  TypeInv'
    <2>1. acks' \in Seq(AckMsg)
        BY <1>6 DEF HandleAck, TypeOK, AckMsg
    <2> QED
        BY <1>6, <2>1, TypeQuiet DEF HandleAck, hubVars, TypeOK
<1>7. CASE OnReport
    <2> DEFINE msg == Head(reports)
    <2>1. msg \in ReportMsg /\ reports' \in Seq(ReportMsg)
        BY <1>7 DEF OnReport, TypeOK
    <2>2. msg.node \in Node /\ msg.account \in Account /\ msg.live \in LiveResults
        BY <2>1 DEF ReportMsg
    <2> HIDE DEF msg
    <2>3. CASE msg.body = Undecodable /\ NoOutput /\ UNCHANGED stateVars
        BY <1>7, <2>1, <2>3, TypeQuiet DEF OnReport, hubVars, TypeOK
    <2>4. CASE /\ cands' = [cands EXCEPT ![msg.node] = ParseError(msg.account)]
               /\ NoOutput /\ UNCHANGED <<truths, mirror>>
        <3>1. ParseError(msg.account) \in Candidate
            BY <2>2 DEF ParseError, Candidate, Status
        <3>2. TypeOK'
            BY <1>7, <2>1, <2>2, <2>4, <3>1 DEF OnReport, hubVars, NoOutput, TypeOK
        <3>3. ViableHasCred(cands)'
            BY <2>2, <2>4, <3>1 DEF ViableHasCred, ViableStatus, ParseError, TypeOK
        <3>4. TruthWellFormed'
            BY <1>7, <2>4 DEF OnReport, TruthWellFormed
        <3> QED
            BY <3>2, <3>3, <3>4
    <2>5. CASE /\ msg.body \in Cred
               /\ cands' = [cands EXCEPT ![msg.node] = FromReport(msg)]
               /\ Reselect(cands')
        <3>1. FromReport(msg) \in Candidate /\ FromReport(msg).cred \in Cred
            BY <2>2, <2>5, MediatorAssumption
            DEF FromReport, Candidate, ReportStatus, Validate, Status, Downgrades
        <3>2. cands' \in [Node -> Candidate] /\ ViableHasCred(cands')
            BY <2>2, <2>5, <3>1 DEF ViableHasCred, TypeOK
        <3> QED
            BY <1>7, <2>1, <2>5, <3>2, TypeReselect DEF OnReport, TypeOK
    <2> QED
        BY <1>7, <2>3, <2>4, <2>5 DEF OnReport, msg
<1>8. CASE OnAbsent
    <2> DEFINE msg == Head(absents)
    <2>1. msg \in AbsentMsg /\ absents' \in Seq(AbsentMsg)
        BY <1>8 DEF OnAbsent, TypeOK
    <2>2. msg.node \in Node /\ Absence(msg.account) \in Candidate
        BY <2>1 DEF AbsentMsg, Absence, Candidate
    <2>3. cands' \in [Node -> Candidate] /\ ViableHasCred(cands')
        BY <1>8, <2>2 DEF OnAbsent, ViableHasCred, ViableStatus, Absence, TypeOK
    <2> QED
        BY <1>8, <2>1, <2>3, TypeReselect DEF OnAbsent, TypeOK
<1>9. CASE OnAck
    <2> DEFINE msg == Head(acks)
    <2>1. msg \in AckMsg /\ acks' \in Seq(AckMsg)
        BY <1>9 DEF OnAck, TypeOK
    <2>2. msg.node \in Node /\ Absence(msg.account) \in Candidate
        BY <2>1, MediatorAssumption DEF AckMsg, Absence, Candidate
    <2> DEFINE noted == [cands EXCEPT ![msg.node] = Absence(msg.account)]
    <2>3. cands' \in [Node -> Candidate] /\ ViableHasCred(cands')
        <3>1. cands' = noted \/ cands' = cands
            BY <1>9 DEF OnAck
        <3>2. noted \in [Node -> Candidate] /\ ViableHasCred(noted)
            BY <2>2 DEF ViableHasCred, ViableStatus, Absence, TypeOK
        <3> QED
            BY <3>1, <3>2 DEF TypeOK
    <2>4. TypeOK'
        BY <1>9, <2>1, <2>3 DEF OnAck, hubVars, NoOutput, TypeOK
    <2>5. ViableHasCred(cands)' /\ TruthWellFormed'
        BY <1>9, <2>3 DEF OnAck, ViableHasCred, TruthWellFormed
    <2> QED
        BY <2>4, <2>5
<1>10. CASE OnDisconnect
    <2>1. Head(disconnects) \in Node /\ disconnects' \in Seq(Node)
        BY <1>10 DEF OnDisconnect, TypeOK
    <2>2. NoCandidate \in Candidate
        BY MediatorAssumption DEF NoCandidate, Candidate
    <2>3. cands' \in [Node -> Candidate] /\ ViableHasCred(cands')
        BY <1>10, <2>1, <2>2 DEF OnDisconnect, ViableHasCred, ViableStatus, NoCandidate, TypeOK
    <2> QED
        BY <1>10, <2>1, <2>3, TypeReselect DEF OnDisconnect, TypeOK
<1>11. CASE Tick
    BY <1>11, TypeQuiet DEF Tick, hubVars, ingressVars, TypeOK
<1>12. CASE UNCHANGED vars
    BY <1>12 DEF vars, hubVars, ingressVars, stateVars, outVars, TypeOK, ViableHasCred, TruthWellFormed
<1> QED
    BY <1>1, <1>2, <1>3, <1>4, <1>5, <1>6, <1>7, <1>8, <1>9, <1>10, <1>11, <1>12
    DEF Next, Serve, Handle, Actor

\* Type correctness: every variable of the hub and the mediator keeps its type
\* in every behaviour; in particular a push always names a connection that
\* exists and a credential, never an absent or unparsable snapshot.
THEOREM TypeCorrect == Spec => []TypeOK
<1>1. TypeInv => TypeOK
    BY DEF TypeInv
<1> QED
    BY <1>1, TypeInit, TypeStep, PTL DEF Spec

-----------------------------------------------------------------------------
(***************************************************************************)
(* The decisions.  A step runs a reselect over the new candidates, or it   *)
(* leaves truths and mirror alone, sends nothing and changes at most one   *)
(* candidate: to a parse error, or from none to absent.                    *)
(***************************************************************************)
Reselects ==
    /\ cands' \in [Node -> Candidate] /\ ViableHasCred(cands')
    /\ Reselect(cands')
    /\ UNCHANGED <<hubVars, now>>

Records ==
    /\ UNCHANGED <<truths, mirror>>
    /\ now' = now \/ (now' = now + 1 /\ cands' = cands)
    /\ sent' = {}
    /\ \/ cands' = cands
       \/ \E n \in Node, a \in Account :
            \/ cands' = [cands EXCEPT ![n] = ParseError(a)]
            \/ /\ cands[n].status = "none"
               /\ cands' = [cands EXCEPT ![n] = Absence(a)]

LEMMA ActorKinds ==
    ASSUME TypeInv, TypeInv', Actor
    PROVE  Reselects \/ Records
<1> USE DEF TypeInv
<1>1. CASE OnReport
    <2> DEFINE msg == Head(reports)
    <2>1. msg.node \in Node /\ msg.account \in Account
        <3>1. msg \in ReportMsg
            BY <1>1 DEF OnReport, TypeOK
        <3> QED
            BY <3>1 DEF ReportMsg
    <2> HIDE DEF msg
    <2>2. CASE NoOutput /\ UNCHANGED stateVars
        BY <1>1, <2>2 DEF OnReport, NoOutput, stateVars, Records
    <2>3. CASE /\ cands' = [cands EXCEPT ![msg.node] = ParseError(msg.account)]
               /\ NoOutput /\ UNCHANGED <<truths, mirror>>
        BY <1>1, <2>1, <2>3 DEF OnReport, NoOutput, Records
    <2>4. CASE Reselect(cands')
        BY <1>1, <2>4 DEF OnReport, Reselects, TypeOK, ViableHasCred
    <2> QED
        BY <1>1, <2>2, <2>3, <2>4 DEF OnReport, msg
<1>2. CASE OnAbsent
    BY <1>2 DEF OnAbsent, Reselects, TypeOK, ViableHasCred
<1>3. CASE OnAck
    <2> DEFINE msg == Head(acks)
    <2>1. msg.node \in Node /\ msg.account \in Account
        <3>1. msg \in AckMsg
            BY <1>3 DEF OnAck, TypeOK
        <3> QED
            BY <3>1, MediatorAssumption DEF AckMsg
    <2>2. \/ cands' = cands
          \/ /\ cands[msg.node].status = "none"
             /\ cands' = [cands EXCEPT ![msg.node] = Absence(msg.account)]
        BY <1>3, Zenon DEF OnAck
    <2>3. UNCHANGED <<truths, mirror, now>> /\ sent' = {}
        BY <1>3 DEF OnAck, NoOutput
    <2> HIDE DEF msg
    <2> QED
        BY <2>1, <2>2, <2>3 DEF Records
<1>4. CASE OnDisconnect
    BY <1>4 DEF OnDisconnect, Reselects, TypeOK, ViableHasCred
<1> QED
    BY <1>1, <1>2, <1>3, <1>4 DEF Actor

LEMMA StepKinds ==
    ASSUME TypeInv, [Next]_vars
    PROVE  Reselects \/ Records \/ UNCHANGED vars
<1>1. ASSUME NEW n \in Node, Serve(n) PROVE Records
    <2>1. NoOutput /\ UNCHANGED <<stateVars, now>>
        BY <1>1 DEF Serve, Register, Unregister, NotifyDisconnect
    <2> QED
        BY <2>1 DEF NoOutput, stateVars, Records
<1>2. ASSUME NEW n \in Node, Handle(n) PROVE Records
    BY <1>2 DEF Handle, HandleReport, HandleAbsent, HandleAck, NoOutput, stateVars, Records
<1>3. CASE Actor
    BY <1>3, TypeStep, ActorKinds
<1>4. CASE Tick
    BY <1>4 DEF Tick, NoOutput, stateVars, Records
<1> QED
    BY <1>1, <1>2, <1>3, <1>4 DEF Next

\* What a reselect leaves behind, for each account.
LEMMA ReselectDecides ==
    ASSUME TypeInv, Reselects
    PROVE  \E src \in Sources(cands') :
               /\ truths' = [a \in Account |-> NextTruth(cands', src, a)]
               /\ mirror' = UpdateMirror(truths', cands')
               /\ sent' \subseteq UNION {PushTruth(cands', src, a) : a \in Account}
BY DEF Reselects, Reselect, Deliveries

LEMMA ViableSource ==
    ASSUME NEW cs \in [Node -> Candidate], NEW src \in Sources(cs), NEW a \in Account
    PROVE  a \in DOMAIN src <=> Viable(cs, a) # {}
BY DEF Sources

LEMMA SupportedStep ==
    ASSUME TypeInv, TruthSupported, [Next]_vars
    PROVE  TruthSupported'
<1>1. CASE Reselects
    <2>1. PICK src \in Sources(cands') :
              truths' = [a \in Account |-> NextTruth(cands', src, a)]
        BY <1>1, ReselectDecides
    <2>2. \A a \in Account : truths'[a] # NoTruth => Viable(cands', a) # {}
        BY <1>1, <2>1, NextTruthFacts DEF Reselects
    <2>3. \A a \in Account : (truths[a] # NoTruth)' => (Viable(cands, a) # {})'
        BY <2>2 DEF Viable
    <2> QED
        BY <2>3 DEF TruthSupported
<1>2. CASE Records
    <2>1. CASE cands' = cands
        BY <1>2, <2>1 DEF Records, TruthSupported, Viable
    <2>2. ASSUME NEW n \in Node, NEW a \in Account,
                 cands' = [cands EXCEPT ![n] = ParseError(a)]
          PROVE  TruthSupported'
        <3>1. cands'[n].status = "parse_error"
            BY <2>2 DEF TypeInv, TypeOK, ParseError
        <3> QED
            BY <3>1 DEF TruthSupported
    <2>3. ASSUME NEW n \in Node, NEW a \in Account, cands[n].status = "none",
                 cands' = [cands EXCEPT ![n] = Absence(a)]
          PROVE  TruthSupported'
        <3>1. \A m \in Node : \/ m # n /\ cands'[m] = cands[m]
                              \/ m = n /\ cands'[m].status = "absent"
            BY <2>3 DEF TypeInv, TypeOK, Absence
        <3>2. \A b \in Account : Viable(cands, b) \subseteq Viable(cands, b)'
            BY <2>3, <3>1 DEF Viable, ViableStatus
        <3>3. (\E m \in Node : cands[m].status = "parse_error") =>
                 \E m \in Node : cands'[m].status = "parse_error"
            BY <2>3, <3>1
        <3> QED
            BY <1>2, <3>2, <3>3 DEF Records, TruthSupported
    <2> QED
        BY <1>2, <2>1, <2>2, <2>3 DEF Records
<1>3. CASE UNCHANGED vars
    BY <1>3 DEF vars, stateVars, TruthSupported, Viable
<1> QED
    BY <1>1, <1>2, <1>3, StepKinds

\* An account's truth never outlives its last viable candidate (reselect's
\* truth-lost pass), whatever the interleaving of sessions and channels; the
\* only way out is a report that does not parse.
THEOREM TruthSupportedHolds == Spec => []TruthSupported
<1>1. Init => TruthSupported
    BY DEF Init, TruthSupported
<1> QED
    BY <1>1, TypeInit, TypeStep, SupportedStep, PTL DEF Spec

\* Without a cooldown the truth chosen is the credential of the source.
LEMMA NextTruthNoCooldown ==
    ASSUME TypeInv, Cooldown = 0, NEW cs \in [Node -> Candidate], ViableHasCred(cs),
           NEW src \in Sources(cs), NEW a \in DOMAIN src
    PROVE  NextTruth(cs, src, a).cred = cs[src[a]].cred
<1>1. ~ Suppressed(a, cs[src[a]].cred)
    BY DEF Suppressed
<1> QED
    BY <1>1 DEF NextTruth, Changed

LEMMA NewestStep ==
    ASSUME TypeInv, TruthIsNewest, [Next]_vars
    PROVE  TruthIsNewest'
<1>0. SUFFICES ASSUME Cooldown = 0
               PROVE  TruthIsNewest'
    BY MediatorAssumption DEF TruthIsNewest
<1>1. CASE Reselects
    <2>1. PICK src \in Sources(cands') :
              truths' = [a \in Account |-> NextTruth(cands', src, a)]
        BY <1>1, ReselectDecides
    <2>2. ASSUME NEW a \in Account, Viable(cands', a) # {}
          PROVE  src[a] \in Best(cands', a) /\ cands'[src[a]].cred = truths'[a].cred
        <3>1. a \in DOMAIN src
            BY <1>1, <2>2, ViableSource DEF Reselects
        <3>2. src[a] \in Best(cands', a)
            BY <1>1, <3>1, SourceFacts DEF Reselects
        <3>3. NextTruth(cands', src, a).cred = cands'[src[a]].cred
            BY <1>0, <1>1, <3>1, NextTruthNoCooldown DEF Reselects
        <3> QED
            BY <2>1, <3>2, <3>3
    <2>3. \A a \in Account : Viable(cands', a) # {} =>
             \E n \in Best(cands', a) : cands'[n].cred = truths'[a].cred
        BY <2>2
    <2>4. \A a \in Account : Viable(cands', a) # {} =>
             \E n \in Viable(cands', a) :
                /\ cands'[n].cred = truths'[a].cred
                /\ \A m \in Viable(cands', a) : ~ Newer(cands'[m].cred, cands'[n].cred)
        BY <2>3 DEF Best
    <2>5. \A a \in Account : Viable(cands, a)' = Viable(cands', a)
        BY DEF Viable
    <2> QED
        BY <2>4, <2>5 DEF TruthIsNewest
<1>2. CASE Records
    <2>1. CASE cands' = cands
        BY <1>2, <2>1 DEF Records, TruthIsNewest, Viable
    <2>2. ASSUME NEW n \in Node, NEW a \in Account,
                 cands' = [cands EXCEPT ![n] = ParseError(a)]
          PROVE  TruthIsNewest'
        <3>1. cands'[n].status = "parse_error"
            BY <2>2 DEF TypeInv, TypeOK, ParseError
        <3> QED
            BY <3>1 DEF TruthIsNewest
    <2>3. ASSUME NEW n \in Node, NEW a \in Account, cands[n].status = "none",
                 cands' = [cands EXCEPT ![n] = Absence(a)]
          PROVE  TruthIsNewest'
        <3>1. \A m \in Node : \/ m # n /\ cands'[m] = cands[m]
                              \/ m = n /\ cands'[m].status = "absent"
            BY <2>3 DEF TypeInv, TypeOK, Absence
        <3>2. \A b \in Account : Viable(cands, b)' = Viable(cands, b)
            BY <2>3, <3>1 DEF Viable, ViableStatus
        <3>3. \A b \in Account : \A m \in Viable(cands, b) : cands'[m] = cands[m]
            BY <2>3, <3>1 DEF Viable, ViableStatus
        <3>4. (\E m \in Node : cands[m].status = "parse_error") =>
                 \E m \in Node : cands'[m].status = "parse_error"
            BY <2>3, <3>1
        <3>5. ASSUME NEW b \in Account, Viable(cands, b)' # {},
                     \A m \in Node : cands[m].status # "parse_error"
              PROVE  (\E k \in Viable(cands, b) :
                        /\ cands[k].cred = truths[b].cred
                        /\ \A m \in Viable(cands, b) : ~ Newer(cands[m].cred, cands[k].cred))'
            <4>1. PICK k \in Viable(cands, b) :
                      /\ cands[k].cred = truths[b].cred
                      /\ \A m \in Viable(cands, b) : ~ Newer(cands[m].cred, cands[k].cred)
                BY <1>0, <3>2, <3>5 DEF TruthIsNewest
            <4> QED
                BY <1>2, <3>2, <3>3, <4>1 DEF Records
        <3> QED
            BY <3>4, <3>5 DEF TruthIsNewest
    <2> QED
        BY <1>2, <2>1, <2>2, <2>3 DEF Records
<1>3. CASE UNCHANGED vars
    BY <1>3 DEF vars, stateVars, TruthIsNewest, Viable
<1> QED
    BY <1>1, <1>2, <1>3, StepKinds

\* Without a cooldown every account's truth is a newest viable candidate after
\* every event, for every order in which sessions, reports and disconnects
\* reach the mediator.
THEOREM TruthIsNewestHolds == Spec => []TruthIsNewest
<1>1. Init => TruthIsNewest
    BY DEF Init, TruthIsNewest, Viable, NoCandidate, ViableStatus
<1> QED
    BY <1>1, TypeInit, TypeStep, NewestStep, PTL DEF Spec

-----------------------------------------------------------------------------
LEMMA MirrorStep ==
    ASSUME TypeInv, MirrorAgrees, [Next]_vars
    PROVE  MirrorAgrees'
<1>1. CASE Reselects
    <2>1. mirror' = UpdateMirror(truths', cands')
        BY <1>1, ReselectDecides
    <2> QED
        BY <2>1 DEF MirrorAgrees, UpdateMirror
<1>2. CASE Records
    <2>1. CASE cands' = cands
        BY <1>2, <2>1 DEF Records, MirrorAgrees
    <2>2. ASSUME NEW n \in Node, NEW c,
                 c.status \in {"parse_error", "absent"},
                 cands' = [cands EXCEPT ![n] = c]
          PROVE  MirrorAgrees'
        <3>1. \A m \in Node : \/ m # n /\ cands'[m] = cands[m]
                              \/ m = n /\ cands'[m].status \in {"parse_error", "absent"}
            BY <2>2 DEF TypeInv, TypeOK
        <3> QED
            BY <1>2, <3>1 DEF Records, MirrorAgrees
    <2>3. \A a \in Account : ParseError(a).status = "parse_error" /\ Absence(a).status = "absent"
        BY DEF ParseError, Absence
    <2> QED
        BY <1>2, <2>1, <2>2, <2>3 DEF Records
<1>3. CASE UNCHANGED vars
    BY <1>3 DEF vars, stateVars, MirrorAgrees
<1> QED
    BY <1>1, <1>2, <1>3, StepKinds

\* What the status endpoint and the notifier read never lags behind the
\* mediator's own truths (updateMirror ends every reselect).
THEOREM MirrorAgreesHolds == Spec => []MirrorAgrees
<1>1. Init => MirrorAgrees
    BY DEF Init, MirrorAgrees, NoTruth, NoCandidate
<1> QED
    BY <1>1, TypeInit, TypeStep, MirrorStep, PTL DEF Spec

-----------------------------------------------------------------------------
LEMMA PushStep ==
    ASSUME TypeInv, PushIsNewest, [Next]_vars
    PROVE  PushIsNewest'
<1>1. CASE Reselects
    <2>1. PICK src \in Sources(cands') :
              /\ truths' = [a \in Account |-> NextTruth(cands', src, a)]
              /\ sent' \subseteq UNION {PushTruth(cands', src, a) : a \in Account}
        BY <1>1, ReselectDecides
    <2>2. ASSUME NEW a \in Account, NEW p \in PushTruth(cands', src, a)
          PROVE  /\ p.conn = current'[p.node]
                 /\ cands'[p.node].status # "none" /\ cands'[p.node].account = p.account
                 /\ p.cred = truths'[p.account].cred
                 /\ src[a] \in Best(cands', p.account)
                 /\ src[a] # p.node /\ cands'[src[a]].cred = p.cred
        <3>1. /\ a \in DOMAIN src
              /\ p.account = a /\ p.conn = current[p.node] /\ p.node # src[a]
              /\ p.cred = cands'[src[a]].cred
              /\ cands'[p.node].status # "none" /\ cands'[p.node].account = a
              /\ ~ Suppressed(a, cands'[src[a]].cred)
            BY <1>1, PushTruthFacts DEF Reselects
        <3>2. NextTruth(cands', src, a).cred = cands'[src[a]].cred
            BY <3>1 DEF NextTruth, Changed
        <3>3. src[a] \in Best(cands', a)
            BY <1>1, <3>1, SourceFacts DEF Reselects
        <3>4. current' = current
            BY <1>1 DEF Reselects, hubVars
        <3> QED
            BY <2>1, <3>1, <3>2, <3>3, <3>4
    <2>3. \A p \in sent' :
             /\ p.conn = current'[p.node]
             /\ cands'[p.node].status # "none" /\ cands'[p.node].account = p.account
             /\ p.cred = truths'[p.account].cred
             /\ \E n \in Best(cands', p.account) : n # p.node /\ cands'[n].cred = p.cred
        BY <2>1, <2>2
    <2> QED
        BY <2>3 DEF PushIsNewest, Best, Viable
<1>2. CASE Records
    BY <1>2 DEF Records, PushIsNewest
<1>3. CASE UNCHANGED vars
    BY <1>3 DEF vars, hubVars, stateVars, outVars, PushIsNewest, Best, Viable
<1> QED
    BY <1>1, <1>2, <1>3, StepKinds

\* The partition rule of pushTruth with the newest-wins rule of reselect: a
\* push goes to the current connection of a node whose candidate carries the
\* account pushed, and carries a newest credential of that account, held by
\* another node.
THEOREM PushIsNewestHolds == Spec => []PushIsNewest
<1>1. Init => PushIsNewest
    BY DEF Init, PushIsNewest
<1> QED
    BY <1>1, TypeInit, TypeStep, PushStep, PTL DEF Spec

-----------------------------------------------------------------------------
(* Action properties. *)

LEMMA NewerIrreflexive ==
    ASSUME NEW c \in Cred
    PROVE  ~ Newer(c, c)
BY FormatsAssumption DEF Newer, Compare, CompareCodex, CompareExpiry, Sign

\* What replaces a truth: the credential of a best candidate.
LEMMA Replacement ==
    ASSUME TypeInv, [Next]_vars, NEW a \in Account, truths[a] # NoTruth,
           truths'[a] # NoTruth, truths[a].cred # truths'[a].cred
    PROVE  \E n \in Best(cands', a) : cands'[n].cred = truths'[a].cred
<1>1. CASE Reselects
    <2>1. PICK src \in Sources(cands') :
              truths' = [b \in Account |-> NextTruth(cands', src, b)]
        BY <1>1, ReselectDecides
    <2>2. truths'[a] = NextTruth(cands', src, a)
        BY <2>1
    <2>3. a \in DOMAIN src
        BY <2>2 DEF NextTruth
    <2> DEFINE cred == cands'[src[a]].cred
    <2>4. truths'[a].cred = cred
        BY <2>2, <2>3 DEF NextTruth
    <2>5. src[a] \in Best(cands', a)
        BY <1>1, <2>3, SourceFacts DEF Reselects
    <2> QED
        BY <2>4, <2>5
<1>2. CASE Records
    BY <1>2 DEF Records
<1>3. CASE UNCHANGED vars
    BY <1>3 DEF vars, stateVars
<1> QED
    BY <1>1, <1>2, <1>3, StepKinds

\* Newest wins and stays: no order of events makes the mediator go back to an
\* older credential of an account while a viable candidate holds the newer one.
THEOREM NoRegressionHolds == Spec => NoRegression
<1>1. ASSUME TypeInv, [Next]_vars
      PROVE  [\A a \in Account :
                (/\ truths[a] # NoTruth
                 /\ truths'[a] # NoTruth
                 /\ Newer(truths[a].cred, truths'[a].cred))
                => \A n \in Viable(cands', a) : cands'[n].cred # truths[a].cred]_vars
    <2> SUFFICES ASSUME NEW a \in Account, truths[a] # NoTruth, truths'[a] # NoTruth,
                        Newer(truths[a].cred, truths'[a].cred),
                        NEW n \in Viable(cands', a), cands'[n].cred = truths[a].cred
                 PROVE  FALSE
        OBVIOUS
    <2>1. truths[a].cred \in Cred
        BY <1>1 DEF TypeInv, TruthWellFormed
    <2>2. truths[a].cred # truths'[a].cred
        BY <2>1, NewerIrreflexive
    <2>3. PICK m \in Best(cands', a) : cands'[m].cred = truths'[a].cred
        BY <1>1, <2>2, Replacement
    <2>4. ~ Newer(cands'[n].cred, cands'[m].cred)
        BY <2>3 DEF Best
    <2> QED
        BY <2>3, <2>4
<1> QED
    BY <1>1, TypeInit, TypeStep, PTL DEF Spec, NoRegression

-----------------------------------------------------------------------------
(***************************************************************************)
(* The session table.  Connections of a node are numbered in the order in  *)
(* which they register, so the unused ones are the last ones.              *)
(***************************************************************************)
InOrder ==
    \A n \in Node : \A j, k \in 1..MaxConn :
        (j < k /\ serve[<<n, j>>] = "idle") => serve[<<n, k>>] = "idle"

SessionInv == CurrentIsNewest /\ InOrder

LEMMA SessionStep ==
    ASSUME TypeOK, SessionInv, [Next]_vars
    PROVE  SessionInv'
<1>0. \A n \in Node, k \in 1..MaxConn : <<n, k>> \in Conn /\ k \in Nat /\ k # 0
    BY MediatorAssumption DEF Conn
<1>1. ASSUME NEW n \in Node, NEW k \in 1..MaxConn, Register(n, k)
      PROVE  SessionInv'
    <2>1. /\ serve[<<n, k>>] = "idle"
          /\ \A j \in 1..MaxConn : j < k => serve[<<n, j>>] # "idle"
          /\ current' = [current EXCEPT ![n] = k]
          /\ serve' = [serve EXCEPT ![<<n, k>>] = "reading"]
        BY <1>1 DEF Register
    <2>2. /\ current'[n] = k /\ \A m \in Node : m # n => current'[m] = current[m]
          /\ serve'[<<n, k>>] = "reading"
          /\ \A m \in Node, j \in 1..MaxConn :
               m # n \/ j # k => serve'[<<m, j>>] = serve[<<m, j>>]
        BY <1>0, <2>1 DEF TypeOK
    <2>3. \A j \in 1..MaxConn : j > k => serve[<<n, j>>] = "idle"
        BY <1>0, <2>1 DEF SessionInv, InOrder
    <2>4. InOrder'
        BY <1>0, <2>1, <2>2 DEF SessionInv, InOrder
    <2>5. CurrentIsNewest'
        <3> SUFFICES ASSUME NEW m \in Node, NEW j \in 1..MaxConn
                     PROVE  /\ serve'[<<m, j>>] = "reading" =>
                                 \/ current'[m] = j
                                 \/ \E i \in 1..MaxConn : i > j /\ serve'[<<m, i>>] # "idle"
                            /\ current'[m] = j =>
                                 /\ serve'[<<m, j>>] = "reading"
                                 /\ \A i \in 1..MaxConn : i > j => serve'[<<m, i>>] = "idle"
            BY DEF CurrentIsNewest
        <3>0. /\ serve[<<m, j>>] = "reading" =>
                   \/ current[m] = j
                   \/ \E i \in 1..MaxConn : i > j /\ serve[<<m, i>>] # "idle"
              /\ current[m] = j =>
                   /\ serve[<<m, j>>] = "reading"
                   /\ \A i \in 1..MaxConn : i > j => serve[<<m, i>>] = "idle"
            BY DEF SessionInv, CurrentIsNewest
        <3>1. CASE m # n
            BY <2>2, <3>0, <3>1
        <3>2. CASE m = n /\ j = k
            BY <1>0, <2>2, <2>3, <3>2
        <3>3. CASE m = n /\ j # k
            BY <1>0, <2>2, <2>3, <3>3
        <3> QED
            BY <3>1, <3>2, <3>3
    <2> QED
        BY <2>4, <2>5 DEF SessionInv
<1>2. ASSUME NEW n \in Node, NEW k \in 1..MaxConn, Unregister(n, k)
      PROVE  SessionInv'
    <2>1. /\ serve[<<n, k>>] = "reading"
          /\ serve'[<<n, k>>] \in {"leaving", "gone"}
          /\ \A m \in Node, j \in 1..MaxConn :
               m # n \/ j # k => serve'[<<m, j>>] = serve[<<m, j>>]
        BY <1>0, <1>2 DEF Unregister, TypeOK
    <2>2. \A m \in Node : m # n => current'[m] = current[m]
        <3>1. current' = [current EXCEPT ![n] = 0] \/ current' = current
            BY <1>2 DEF Unregister
        <3> QED
            BY <3>1 DEF TypeOK
    <2>3. current'[n] = IF current[n] = k THEN 0 ELSE current[n]
        <3>1. IF current[n] = k THEN current' = [current EXCEPT ![n] = 0]
                                ELSE current' = current
            BY <1>2 DEF Unregister
        <3> QED
            BY <3>1 DEF TypeOK
    <2>4. InOrder'
        BY <1>0, <2>1 DEF SessionInv, InOrder
    <2>5. CurrentIsNewest'
        <3> SUFFICES ASSUME NEW m \in Node, NEW j \in 1..MaxConn
                     PROVE  /\ serve'[<<m, j>>] = "reading" =>
                                 \/ current'[m] = j
                                 \/ \E i \in 1..MaxConn : i > j /\ serve'[<<m, i>>] # "idle"
                            /\ current'[m] = j =>
                                 /\ serve'[<<m, j>>] = "reading"
                                 /\ \A i \in 1..MaxConn : i > j => serve'[<<m, i>>] = "idle"
            BY DEF CurrentIsNewest
        <3>0. /\ serve[<<m, j>>] = "reading" =>
                   \/ current[m] = j
                   \/ \E i \in 1..MaxConn : i > j /\ serve[<<m, i>>] # "idle"
              /\ current[m] = j =>
                   /\ serve[<<m, j>>] = "reading"
                   /\ \A i \in 1..MaxConn : i > j => serve[<<m, i>>] = "idle"
            BY DEF SessionInv, CurrentIsNewest
        <3>1. CASE m # n
            BY <2>1, <2>2, <3>0, <3>1
        <3>2. CASE m = n /\ j = k
            BY <1>0, <2>1, <2>3, <3>2
        <3>3. CASE m = n /\ j # k
            BY <1>0, <2>1, <2>3, <3>0, <3>3
        <3> QED
            BY <3>1, <3>2, <3>3
    <2> QED
        BY <2>4, <2>5 DEF SessionInv
<1>3. ASSUME NEW n \in Node, NEW k \in 1..MaxConn, NotifyDisconnect(n, k)
      PROVE  SessionInv'
    <2>1. /\ serve[<<n, k>>] = "leaving"
          /\ serve'[<<n, k>>] = "gone"
          /\ current' = current
          /\ \A m \in Node, j \in 1..MaxConn :
               m # n \/ j # k => serve'[<<m, j>>] = serve[<<m, j>>]
        BY <1>0, <1>3 DEF NotifyDisconnect, TypeOK
    <2>2. InOrder'
        BY <1>0, <2>1 DEF SessionInv, InOrder
    <2>3. CurrentIsNewest'
        <3> SUFFICES ASSUME NEW m \in Node, NEW j \in 1..MaxConn
                     PROVE  /\ serve'[<<m, j>>] = "reading" =>
                                 \/ current'[m] = j
                                 \/ \E i \in 1..MaxConn : i > j /\ serve'[<<m, i>>] # "idle"
                            /\ current'[m] = j =>
                                 /\ serve'[<<m, j>>] = "reading"
                                 /\ \A i \in 1..MaxConn : i > j => serve'[<<m, i>>] = "idle"
            BY DEF CurrentIsNewest
        <3>0. /\ serve[<<m, j>>] = "reading" =>
                   \/ current[m] = j
                   \/ \E i \in 1..MaxConn : i > j /\ serve[<<m, i>>] # "idle"
              /\ current[m] = j =>
                   /\ serve[<<m, j>>] = "reading"
                   /\ \A i \in 1..MaxConn : i > j => serve[<<m, i>>] = "idle"
            BY DEF SessionInv, CurrentIsNewest
        <3>1. CASE m # n
            BY <2>1, <3>0, <3>1
        <3>2. CASE m = n /\ j = k
            BY <1>0, <2>1, <3>0, <3>2
        <3>3. CASE m = n /\ j # k
            BY <1>0, <2>1, <3>0, <3>3
        <3> QED
            BY <3>1, <3>2, <3>3
    <2> QED
        BY <2>2, <2>3 DEF SessionInv
<1>4. CASE UNCHANGED hubVars
    BY <1>4 DEF hubVars, SessionInv, CurrentIsNewest, InOrder
<1>5. ASSUME NEW n \in Node, Handle(n)
      PROVE  UNCHANGED hubVars
    BY <1>5 DEF Handle, HandleReport, HandleAbsent, HandleAck
<1>6. Actor \/ Tick \/ UNCHANGED vars => UNCHANGED hubVars
    BY DEF Actor, OnReport, OnAbsent, OnAck, OnDisconnect, Tick, vars
<1> QED
    BY <1>1, <1>2, <1>3, <1>4, <1>5, <1>6 DEF Next, Serve

\* Displacement: a connection that is read is the current one of its node or
\* has a successor, and the end of a displaced connection never takes the
\* entry of its successor (the cur == s test of Unregister).
THEOREM CurrentIsNewestHolds == Spec => []CurrentIsNewest
<1>1. Init => SessionInv
    <2> SUFFICES ASSUME Init PROVE SessionInv
        OBVIOUS
    <2>1. \A n \in Node, k \in 1..MaxConn : serve[<<n, k>>] = "idle" /\ current[n] # k
        BY MediatorAssumption DEF Init, Conn
    <2> QED
        BY <2>1 DEF SessionInv, CurrentIsNewest, InOrder
<1>2. SessionInv => CurrentIsNewest
    BY DEF SessionInv
<1> QED
    BY <1>1, <1>2, TypeCorrect, SessionStep, PTL DEF Spec

-----------------------------------------------------------------------------
(***************************************************************************)
(* Best is what the loop of reselect finds: for every order of the map, by *)
(* induction over the candidates seen so far.                              *)
(***************************************************************************)
\* Every non-empty set of naturals has a least member.
LEMMA LeastNatural ==
    ASSUME NEW T \in SUBSET Nat, T # {}
    PROVE  \E x \in T : \A y \in T : x <= y
<1> DEFINE R == OpToRel(<, Nat)
<1>1. IsWellFoundedOn(R, Nat)
    BY NatLessThanWellFounded
<1>2. \A x, y \in Nat : x < y => <<x, y>> \in R
    BY DEF OpToRel
<1> HIDE DEF R
<1>3. T \subseteq Nat
    OBVIOUS
<1>4. \E x \in T : \A y \in T : ~ (<<y, x>> \in R)
    BY <1>1, <1>3, WFMin
<1>5. PICK x \in T : \A y \in T : <<y, x>> \notin R
    BY <1>4
<1>6. ASSUME NEW y \in T PROVE x <= y
    <2>1. x \in Nat /\ y \in Nat
        BY <1>3
    <2>2. <<y, x>> \notin R
        BY <1>5
    <2>3. ~ (y < x)
        BY <1>2, <2>1, <2>2
    <2> QED
        BY <2>1, <2>3
<1> QED
    BY <1>6

\* Compare orders the credentials of a format by their times: what is not newer
\* than something not newer is not newer.
LEMMA NewerIsOrder ==
    ASSUME NEW c \in Cred, NEW d \in Cred, NEW e \in Cred
    PROVE  /\ Newer(c, d) => ~ Newer(d, c)
           /\ ~ Newer(d, c) /\ ~ Newer(e, d) => ~ Newer(e, c)
<1>1. /\ expiresAt[c] \in Nat /\ expiresAt[d] \in Nat /\ expiresAt[e] \in Nat
      /\ lastRefresh[c] \in Nat /\ lastRefresh[d] \in Nat /\ lastRefresh[e] \in Nat
    BY FormatsAssumption
<1>2. CASE FormatName = "codex"
    BY <1>1, <1>2 DEF Newer, Compare, CompareCodex, CompareExpiry, Sign
<1>3. CASE FormatName # "codex"
    BY <1>1, <1>3 DEF Newer, Compare, CompareExpiry, Sign
<1> QED
    BY <1>2, <1>3

\* The loop of reselect over viable[0], viable[1], ...; best[i] is the variable
\* best when i candidates have been seen.
Scan(cs, viable, best, N) ==
    /\ best[1] = viable[1]
    /\ \A i \in 1..(N - 1) :
         best[i + 1] = IF Newer(cs[viable[i + 1]].cred, cs[best[i]].cred)
                       THEN viable[i + 1] ELSE best[i]

\* An order in which the map may have given the viable candidates of a.
OrderOf(cs, a, N) ==
    {viable \in [1..N -> Node] : {viable[i] : i \in 1..N} = Viable(cs, a)}

\* reselect's loop ends with a candidate that no viable one of the account is
\* newer than, whatever order Go's map iteration has put them in.
THEOREM ScanFindsBest ==
    ASSUME NEW cs \in [Node -> Candidate], ViableHasCred(cs), NEW a \in Account,
           NEW N \in Nat \ {0}, NEW viable \in OrderOf(cs, a, N),
           NEW best \in [1..N -> Node], Scan(cs, viable, best, N)
    PROVE  best[N] \in Best(cs, a)
<1> DEFINE
      Seen(i) == {viable[j] : j \in 1..i}
      Good(i) == /\ best[i] \in Viable(cs, a)
                 /\ \A n \in Seen(i) : ~ Newer(cs[n].cred, cs[best[i]].cred)
      Bad     == {i \in 1..N : ~ Good(i)}
<1>1. \A i \in 1..N : viable[i] \in Viable(cs, a)
    BY DEF OrderOf
<1>2. \A n \in Viable(cs, a) : n \in Node /\ cs[n].cred \in Cred
    BY DEF Viable, ViableHasCred
<1>3. Good(1)
    <2>1. best[1] = viable[1] /\ 1 \in 1..N /\ Seen(1) = {viable[1]}
        BY DEF Scan
    <2>2. best[1] \in Viable(cs, a)
        BY <1>1, <2>1
    <2> QED
        BY <1>2, <2>1, <2>2, NewerIrreflexive
<1>4. ASSUME NEW i \in 1..N, i + 1 \in 1..N, Good(i) PROVE Good(i + 1)
    <2> DEFINE next == viable[i + 1]
    <2>1. i \in 1..(N - 1)
        BY <1>4
    <2>2. best[i + 1] = IF Newer(cs[next].cred, cs[best[i]].cred) THEN next ELSE best[i]
        BY <2>1 DEF Scan
    <2>3. Seen(i + 1) = Seen(i) \cup {next}
        <3>1. 1..(i + 1) = (1..i) \cup {i + 1}
            OBVIOUS
        <3> QED
            BY <3>1
    <2>4. next \in Viable(cs, a)
        BY <1>1, <1>4
    <2>5. cs[next].cred \in Cred /\ cs[best[i]].cred \in Cred
        BY <1>2, <1>4, <2>4
    <2>6. \A n \in Seen(i) : cs[n].cred \in Cred
        <3>1. \A j \in 1..i : j \in 1..N
            BY <1>4
        <3> QED
            BY <1>1, <1>2, <3>1
    <2>7. ~ Newer(cs[next].cred, cs[next].cred)
        BY <2>5, NewerIrreflexive
    <2>8. CASE Newer(cs[next].cred, cs[best[i]].cred)
        <3>1. best[i + 1] = next
            BY <2>2, <2>8
        <3>2. ASSUME NEW n \in Seen(i) PROVE ~ Newer(cs[n].cred, cs[next].cred)
            <4> HIDE DEF next, Seen
            <4>1. cs[n].cred \in Cred /\ ~ Newer(cs[n].cred, cs[best[i]].cred)
                BY <1>4, <2>6, <3>2
            <4>2. ~ Newer(cs[best[i]].cred, cs[next].cred)
                BY <2>5, <2>8, NewerIsOrder
            <4> QED
                BY <2>5, <4>1, <4>2, NewerIsOrder
        <3> HIDE DEF next, Seen
        <3> QED
            BY <2>3, <2>4, <2>7, <3>1, <3>2
    <2>9. CASE ~ Newer(cs[next].cred, cs[best[i]].cred)
        <3>1. best[i + 1] = best[i]
            BY <2>2, <2>9
        <3> HIDE DEF next, Seen
        <3> QED
            BY <1>4, <2>3, <2>9, <3>1
    <2> QED
        BY <2>8, <2>9
<1> HIDE DEF Good
<1>5. Bad = {}
    <2> SUFFICES ASSUME Bad # {} PROVE FALSE
        OBVIOUS
    <2>1. Bad \in SUBSET Nat
        OBVIOUS
    <2>2. PICK i \in Bad : \A j \in Bad : i <= j
        BY <2>1, LeastNatural
    <2>3. i \in 1..N /\ ~ Good(i) /\ i # 1
        BY <1>3
    <2>4. i - 1 \in 1..N /\ i = (i - 1) + 1
        BY <2>3
    <2>5. i - 1 \notin Bad
        <3>1. ~ (i <= i - 1)
            BY <2>3
        <3> QED
            BY <2>2, <3>1
    <2>6. Good(i - 1)
        BY <2>4, <2>5
    <2> QED
        BY <1>4, <2>3, <2>4, <2>6
<1>6. Good(N)
    BY <1>5
<1>7. Seen(N) = Viable(cs, a)
    BY DEF OrderOf
<1> HIDE DEF Seen
<1> QED
    BY <1>6, <1>7 DEF Best, Good

\* Each candidate of Best is what the loop ends with when the map gives it first,
\* so the choice in Sources is the choice of Go's map order and nothing more.
THEOREM BestMayBeScanned ==
    ASSUME NEW cs \in [Node -> Candidate], NEW a \in Account,
           NEW N \in Nat \ {0}, NEW viable \in OrderOf(cs, a, N),
           NEW best \in [1..N -> Node], Scan(cs, viable, best, N),
           viable[1] \in Best(cs, a)
    PROVE  best[N] = viable[1]
<1> DEFINE Other == {i \in 1..N : best[i] # viable[1]}
<1>1. Other = {}
    <2> SUFFICES ASSUME Other # {} PROVE FALSE
        OBVIOUS
    <2>1. Other \in SUBSET Nat
        OBVIOUS
    <2>2. PICK i \in Other : \A j \in Other : i <= j
        BY <2>1, LeastNatural
    <2>3. i \in 1..N /\ best[i] # viable[1] /\ i # 1
        BY DEF Scan
    <2>4. i - 1 \in 1..(N - 1) /\ i - 1 \in 1..N /\ (i - 1) + 1 = i /\ ~ (i <= i - 1)
        BY <2>3
    <2>5. best[i - 1] = viable[1]
        BY <2>2, <2>4
    <2>6. viable[i] \in Viable(cs, a)
        BY <2>3 DEF OrderOf
    <2>7. ~ Newer(cs[viable[i]].cred, cs[viable[1]].cred)
        BY <2>6 DEF Best
    <2>8. best[i] = IF Newer(cs[viable[i]].cred, cs[best[i - 1]].cred)
                    THEN viable[i] ELSE best[i - 1]
        BY <2>4 DEF Scan
    <2> QED
        BY <2>3, <2>5, <2>7, <2>8
<1> QED
    BY <1>1

\* Of finitely many viable candidates one is the best.
LEMMA BestExists ==
    ASSUME IsFiniteSet(Node), NEW cs \in [Node -> Candidate], ViableHasCred(cs),
           NEW a \in Account, Viable(cs, a) # {}
    PROVE  Best(cs, a) # {}
<1> DEFINE
      V         == Viable(cs, a)
      Top(S, n) == n \in S /\ \A m \in S : ~ Newer(cs[m].cred, cs[n].cred)
      Topless   == {S \in FiniteSubsetsOf(V) : S # {} /\ \A n \in S : ~ Top(S, n)}
      R         == StrictSubsetOrdering(V)
<1>1. \A n \in V : cs[n].cred \in Cred
    BY DEF Viable, ViableHasCred
<1>2. IsFiniteSet(V)
    BY FS_Subset DEF Viable
<1>3. Topless = {}
    <2> SUFFICES ASSUME Topless # {} PROVE FALSE
        OBVIOUS
    <2>1. IsWellFoundedOn(R, FiniteSubsetsOf(V))
        BY FS_StrictSubsetOrderingWellFounded
    <2>2. Topless \subseteq FiniteSubsetsOf(V)
        OBVIOUS
    <2> HIDE DEF R, Topless
    <2>3. PICK S \in Topless : \A T \in Topless : <<T, S>> \notin R
        BY <2>1, <2>2, WFMin
    <2> USE DEF R, Topless
    <2>4. S \subseteq V /\ IsFiniteSet(S) /\ S # {} /\ \A n \in S : ~ Top(S, n)
        BY <2>3 DEF FiniteSubsetsOf
    <2>5. PICK x \in S : TRUE
        BY <2>4
    <2> DEFINE T == S \ {x}
    <2>6. T \in FiniteSubsetsOf(V) /\ <<T, S>> \in R
        BY <2>4, FS_Subset DEF FiniteSubsetsOf, StrictSubsetOrdering
    <2>7. T # {}
        <3> SUFFICES ASSUME T = {} PROVE FALSE
            OBVIOUS
        <3>1. S = {x}
            BY <2>5
        <3>2. Top(S, x)
            BY <1>1, <2>4, <3>1, NewerIrreflexive
        <3> QED
            BY <2>4, <2>5, <3>2
    <2>8. PICK y \in T : Top(T, y)
        BY <2>3, <2>6, <2>7
    <2>9. cs[x].cred \in Cred /\ cs[y].cred \in Cred /\ x \in S /\ y \in S
        BY <1>1, <2>4, <2>5, <2>8
    <2>10. CASE Newer(cs[x].cred, cs[y].cred)
        <3>1. ASSUME NEW m \in S PROVE ~ Newer(cs[m].cred, cs[x].cred)
            <4>1. cs[m].cred \in Cred
                BY <1>1, <2>4
            <4>2. CASE m = x
                BY <2>9, <4>2, NewerIrreflexive
            <4>3. CASE m # x
                <5>1. ~ Newer(cs[m].cred, cs[y].cred)
                    BY <2>8, <4>3
                <5>2. ~ Newer(cs[y].cred, cs[x].cred)
                    BY <2>9, <2>10, NewerIsOrder
                <5> QED
                    BY <2>9, <4>1, <5>1, <5>2, NewerIsOrder
            <4> QED
                BY <4>2, <4>3
        <3> QED
            BY <2>4, <2>9, <3>1
    <2>11. CASE ~ Newer(cs[x].cred, cs[y].cred)
        <3>1. \A m \in S : ~ Newer(cs[m].cred, cs[y].cred)
            BY <2>8, <2>11
        <3> QED
            BY <2>4, <2>9, <3>1
    <2> QED
        BY <2>10, <2>11
<1>4. V \in FiniteSubsetsOf(V)
    BY <1>2 DEF FiniteSubsetsOf
<1>5. \E n \in V : Top(V, n)
    BY <1>3, <1>4
<1> QED
    BY <1>5 DEF Best

\* reselect always comes to a decision: with finitely many nodes there is a source
\* for every account that has a viable candidate, so every event is
\* decided.
THEOREM DecisionExists ==
    ASSUME IsFiniteSet(Node), NEW cs \in [Node -> Candidate], ViableHasCred(cs)
    PROVE  Sources(cs) # {}
<1> DEFINE D   == {a \in Account : Viable(cs, a) # {}}
           src == [a \in D |-> CHOOSE n \in Best(cs, a) : TRUE]
<1>1. ASSUME NEW a \in D PROVE src[a] \in Best(cs, a) /\ src[a] \in Node
    <2>1. Best(cs, a) # {}
        BY BestExists
    <2>2. src[a] \in Best(cs, a)
        BY <2>1
    <2> QED
        BY <2>2 DEF Best, Viable
<1>2. src \in [D -> Node] /\ DOMAIN src = D
    BY <1>1
<1> HIDE DEF src
<1>3. src \in Sources(cs)
    BY <1>1, <1>2 DEF Sources
<1> QED
    BY <1>3

-----------------------------------------------------------------------------
(***************************************************************************)
(* The mediator implements the register of Register.tla.                   *)
(***************************************************************************)
RegisterHeld == [a \in Account |-> Held(cands, a)]

RegisterTruth == [a \in Account |-> mirror[a].cred]

RegisterSince == [a \in Account |-> mirror[a].pushedAt]

RegisterAnnounced == {<<p.account, p.cred>> : p \in sent}

LEMMA SameOrder ==
    ASSUME NEW c, NEW d
    PROVE  Reg!Newer(c, d) <=> Newer(c, d)
BY DEF Reg!Newer, Reg!Compare, Reg!CompareCodex, Reg!CompareExpiry, Reg!Sign,
       Newer, Compare, CompareCodex, CompareExpiry, Sign

LEMMA HeldType ==
    ASSUME NEW cs \in [Node -> Candidate], ViableHasCred(cs), NEW a \in Account
    PROVE  Held(cs, a) \subseteq Cred
BY DEF Held, Viable, ViableHasCred

\* The credential of a best candidate is a newest one of what is held.
LEMMA BestIsNewest ==
    ASSUME NEW cs \in [Node -> Candidate], NEW a \in Account, NEW n \in Best(cs, a)
    PROVE  cs[n].cred \in Reg!Newest(Held(cs, a))
<1>1. cs[n].cred \in Held(cs, a)
    BY DEF Best, Held
<1>2. ASSUME NEW d \in Held(cs, a) PROVE ~ Reg!Newer(d, cs[n].cred)
    <2>1. PICK m \in Viable(cs, a) : d = cs[m].cred
        BY DEF Held
    <2>2. ~ Newer(cs[m].cred, cs[n].cred)
        BY DEF Best
    <2> QED
        BY <2>1, <2>2, SameOrder
<1> QED
    BY <1>1, <1>2 DEF Reg!Newest

\* What one reselect does to the register of one account.
LEMMA RegisterDecision ==
    ASSUME TypeInv, Reselects, NEW src \in Sources(cands'),
           NEW a \in Account, truths'[a] = NextTruth(cands', src, a)
    PROVE  \/ /\ Held(cands', a) = {}
              /\ truths'[a].cred = NoCred /\ truths'[a].pushedAt = 0
           \/ /\ truths'[a].cred \in Reg!Newest(Held(cands', a))
              /\ truths'[a].pushedAt = IF truths'[a].cred = truths[a].cred
                                       THEN truths[a].pushedAt ELSE now
           \/ /\ Held(cands', a) # {}
              /\ truths[a].cred # NoCred
              /\ now - truths[a].pushedAt < Cooldown
              /\ truths'[a] = truths[a]
<1>1. CASE a \notin DOMAIN src
    <2>1. Held(cands', a) = {}
        BY <1>1, ViableSource DEF Reselects, Held
    <2> QED
        BY <1>1, <2>1 DEF NextTruth, NoTruth
<1>2. CASE a \in DOMAIN src
    <2> DEFINE cred == cands'[src[a]].cred
    <2>1. src[a] \in Best(cands', a) /\ src[a] \in Viable(cands', a)
        BY <1>2, SourceFacts DEF Reselects
    <2>2. cred \in Reg!Newest(Held(cands', a)) /\ Held(cands', a) # {}
        BY <2>1, BestIsNewest DEF Reselects, Held
    <2>3. CASE ~ Changed(a, cred)
        BY <1>2, <2>2, <2>3 DEF NextTruth, Changed
    <2>4. CASE Changed(a, cred) /\ ~ Suppressed(a, cred)
        BY <1>2, <2>2, <2>4 DEF NextTruth, Changed
    <2>5. CASE Suppressed(a, cred)
        <3>1. truths[a] # NoTruth /\ now - truths[a].pushedAt < Cooldown
            BY <2>5 DEF Suppressed
        <3>2. truths[a].cred # NoCred
            BY <3>1, MediatorAssumption DEF TypeInv, TruthWellFormed
        <3>3. truths'[a] = truths[a]
            BY <1>2, <2>5 DEF NextTruth, Suppressed
        <3> QED
            BY <2>2, <3>1, <3>2, <3>3
    <2> QED
        BY <2>3, <2>4, <2>5
<1> QED
    BY <1>1, <1>2

LEMMA RegisterAnnounces ==
    ASSUME TypeInv, TypeInv', Reselects, NEW src \in Sources(cands'),
           truths' = [a \in Account |-> NextTruth(cands', src, a)],
           NEW a \in Account, NEW p \in PushTruth(cands', src, a)
    PROVE  /\ p.account = a /\ p.cred \in Cred
           /\ p.cred = truths'[a].cred
           /\ p.cred \in Reg!Newest(Held(cands', a))
<1>1. /\ a \in DOMAIN src
      /\ p.account = a /\ p.cred = cands'[src[a]].cred
      /\ ~ Suppressed(a, cands'[src[a]].cred)
    BY PushTruthFacts DEF Reselects
<1>2. NextTruth(cands', src, a).cred = cands'[src[a]].cred
    BY <1>1 DEF NextTruth, Changed
<1>3. src[a] \in Best(cands', a) /\ cands'[src[a]].cred \in Cred
    BY <1>1, SourceFacts DEF Reselects
<1>4. cands'[src[a]].cred \in Reg!Newest(Held(cands', a))
    BY <1>3, BestIsNewest DEF Reselects
<1> QED
    BY <1>1, <1>2, <1>3, <1>4

\* A step of the actor that decides is a decision of the register.
LEMMA DecideStep ==
    ASSUME TypeInv, TypeInv', MirrorAgrees, MirrorAgrees', Reselects
    PROVE  Reg!Decide
<1>1. PICK src \in Sources(cands') :
          /\ truths' = [a \in Account |-> NextTruth(cands', src, a)]
          /\ sent' \subseteq UNION {PushTruth(cands', src, a) : a \in Account}
    BY ReselectDecides
<1>2. RegisterHeld' \in [Account -> SUBSET Cred]
    BY HeldType DEF Reselects, RegisterHeld
<1>3. ASSUME NEW a \in Account
      PROVE  /\ RegisterTruth[a] = truths[a].cred /\ RegisterTruth'[a] = truths'[a].cred
             /\ RegisterSince[a] = truths[a].pushedAt
             /\ RegisterSince'[a] = truths'[a].pushedAt
             /\ RegisterHeld'[a] = Held(cands', a)
    BY DEF MirrorAgrees, RegisterTruth, RegisterSince, RegisterHeld
<1>4. RegisterTruth' \in [Account -> Cred \cup {NoCred}] /\ RegisterSince' \in [Account -> 0..now]
    <2>1. ASSUME NEW a \in Account
          PROVE  truths'[a].cred \in Cred \cup {NoCred} /\ truths'[a].pushedAt \in 0..now
        <3>1. truths'[a] \in Truth /\ truths'[a].pushedAt <= now' /\ now' = now /\ now \in Nat
            BY DEF TypeInv, TypeOK, TruthWellFormed, Reselects
        <3> QED
            BY <3>1 DEF Truth
    <2> QED
        BY <1>3, <2>1 DEF RegisterTruth, RegisterSince
<1>5. ASSUME NEW a \in Account
      PROVE  Reg!Lose(a) \/ Reg!Select(a) \/ Reg!Wait(a)
    <2>1. truths'[a] = NextTruth(cands', src, a)
        BY <1>1
    <2> QED
        BY <1>3, <2>1, RegisterDecision
        DEF Reg!Lose, Reg!Select, Reg!Wait, RegisterTruth, RegisterSince, RegisterHeld
<1>6. RegisterAnnounced' \subseteq
          {q \in Account \X Cred : /\ q[2] = RegisterTruth'[q[1]]
                                  /\ q[2] \in Reg!Newest(RegisterHeld'[q[1]])}
    <2> SUFFICES ASSUME NEW p \in sent'
                 PROVE  /\ p.account \in Account /\ p.cred \in Cred
                        /\ p.cred = RegisterTruth'[p.account]
                        /\ p.cred \in Reg!Newest(RegisterHeld'[p.account])
        BY DEF RegisterAnnounced
    <2>1. PICK a \in Account : p \in PushTruth(cands', src, a)
        BY <1>1
    <2>2. /\ p.account = a /\ p.cred \in Cred
          /\ p.cred = truths'[a].cred
          /\ p.cred \in Reg!Newest(Held(cands', a))
        BY <1>1, <2>1, RegisterAnnounces
    <2> QED
        BY <1>3, <2>2
<1>7. now' = now
    BY DEF Reselects
<1> QED
    BY <1>2, <1>4, <1>5, <1>6, <1>7
    DEF Reg!Decide, RegisterHeld, RegisterTruth, RegisterSince, RegisterAnnounced

\* A step that only records is a tick, a loss of what a node held, or nothing.
LEMMA RecordStep ==
    ASSUME TypeInv, TypeInv', Records
    PROVE  Reg!Forget \/ Reg!Pass \/ Reg!Tick
<1>1. RegisterAnnounced' = {} /\ RegisterTruth' = RegisterTruth /\ RegisterSince' = RegisterSince
    BY DEF Records, RegisterAnnounced, RegisterTruth, RegisterSince
<1>2. CASE cands' = cands
    <2>1. RegisterHeld' = RegisterHeld
        BY <1>2 DEF RegisterHeld, Held, Viable
    <2> QED
        BY <1>1, <1>2, <2>1
        DEF Records, Reg!Pass, Reg!Tick, RegisterHeld, RegisterAnnounced, RegisterTruth, RegisterSince
<1>3. ASSUME NEW n \in Node, NEW c, c.status \in {"parse_error", "absent"},
             cands' = [cands EXCEPT ![n] = c], now' = now
      PROVE  Reg!Forget
    <2>1. \A m \in Node : \/ m # n /\ cands'[m] = cands[m]
                          \/ m = n /\ cands'[m].status \notin ViableStatus
        BY <1>3 DEF TypeInv, TypeOK, ViableStatus
    <2>2. \A a \in Account : RegisterHeld'[a] \subseteq RegisterHeld[a]
        BY <2>1 DEF RegisterHeld, Held, Viable
    <2>3. RegisterHeld' \in [Account -> SUBSET Cred]
        BY HeldType DEF TypeInv, TypeOK, RegisterHeld
    <2> QED
        BY <1>1, <1>3, <2>2, <2>3
        DEF Reg!Forget, RegisterHeld, RegisterAnnounced, RegisterTruth, RegisterSince
<1>4. \A a \in Account : ParseError(a).status = "parse_error" /\ Absence(a).status = "absent"
    BY DEF ParseError, Absence
<1> QED
    BY <1>2, <1>3, <1>4 DEF Records

\* The detailed specification implements the abstract one: every event of the
\* server side of a profile is one decision of the register, the loss of an
\* unreadable report, or nothing that can be seen.
THEOREM ImplementsRegisterHolds == Spec => ImplementsRegister
<1>1. Init => Reg!Init
    BY DEF Init, Reg!Init, Held, Viable, NoCandidate, ViableStatus
<1>2. ASSUME TypeInv, TypeInv', MirrorAgrees, MirrorAgrees', [Next]_vars
      PROVE  [Reg!Next]_Reg!vars
    <2>1. CASE Reselects
        BY <1>2, <2>1, DecideStep DEF Reg!Next
    <2>2. CASE Records
        BY <1>2, <2>2, RecordStep DEF Reg!Next
    <2>3. CASE UNCHANGED vars
        BY <2>3 DEF vars, stateVars, outVars, Reg!vars, Held, Viable
    <2> QED
        BY <1>2, <2>1, <2>2, <2>3, StepKinds
<1> QED
    BY <1>1, <1>2, TypeInit, TypeStep, MirrorAgreesHolds, PTL DEF Spec, Reg!Spec, ImplementsRegister

-----------------------------------------------------------------------------
(***************************************************************************)
(* The whole profile.                                                      *)
(***************************************************************************)

\* An agent has a session exactly while it is connected, or may have one while
\* it awaits the welcome; only a connected readLoop holds an answer.
LinkInv ==
    \A n \in Node : /\ phase[n] \in {"flush", "up"} => link[n] # 0
                    /\ phase[n] = "down" => link[n] = 0
                    /\ answer[n] # NoMsg => phase[n] = "up"

SyncTypeInv == TypeInv /\ SyncTypeOK /\ LinkInv

-----------------------------------------------------------------------------
LEMMA LinkConn ==
    ASSUME SyncTypeOK, NEW n \in Node, link[n] # 0
    PROVE  <<n, link[n]>> \in Conn
BY MediatorAssumption DEF SyncTypeOK, Conn

\* What an agent reports is a well-formed message.
LEMMA CurrentStateType ==
    ASSUME SyncTypeOK, NEW n \in Node
    PROVE  CurrentState(n) \in ToServer
<1>1. file[n] \in Cred \cup {NoCred} /\ meta[n] \in Account
    BY DEF SyncTypeOK
<1>2. AccountOf(n) \in Account
    BY <1>1, SyncAssumption, MediatorAssumption DEF AccountOf, OwnerOf
<1> QED
    BY <1>1, <1>2 DEF CurrentState, ToServer

\* A connection's queues stay well typed when a message joins or leaves.
LEMMA SendType ==
    ASSUME SyncTypeOK, NEW n \in Node, link[n] # 0, NEW M, NEW msg \in M,
           c2s \in [Conn -> Seq(M)], Send(n, msg)
    PROVE  c2s' \in [Conn -> Seq(M)]
<1>1. CASE c2s' = [c2s EXCEPT ![<<n, link[n]>>] = Append(@, msg)]
    BY <1>1, LinkConn
<1> QED
    BY <1>1 DEF Send

LEMMA InboxType ==
    ASSUME SyncTypeOK, NEW n \in Node, link[n] # 0, NEW M,
           s2c \in [Conn -> Seq(M)], Inbox(n) # <<>>
    PROVE  /\ Head(Inbox(n)) \in M
           /\ [s2c EXCEPT ![<<n, link[n]>>] = Tail(@)] \in [Conn -> Seq(M)]
<1>1. <<n, link[n]>> \in Conn
    BY LinkConn
<1>2. s2c[<<n, link[n]>>] \in Seq(M) /\ s2c[<<n, link[n]>>] # <<>>
    BY <1>1 DEF Inbox
<1> QED
    BY <1>1, <1>2 DEF Inbox

\* What users and agents do on the nodes, the server does not see.
LEMMA AgentsLeaveServer ==
    ASSUME NEW n \in Node, Cli(n) \/ Agent(n)
    PROVE  UNCHANGED vars
<1>1. Cli(n) => UNCHANGED vars
    BY DEF Cli, Refresh, Login, LoginMeta, Logout
<1>2. Watch(n) \/ Dial(n) \/ GiveUp(n) \/ AwaitKind(n) => UNCHANGED vars
    BY DEF Watch, Dial, GiveUp, AwaitKind
<1>3. FlushPending(n) \/ WriteLoop(n) \/ Lose(n) \/ Notice(n) => UNCHANGED vars
    BY DEF FlushPending, WriteLoop, Lose, Notice, Disconnected
<1>4. HandlePush(n) \/ HandleRequest(n) \/ SendAnswer(n) => UNCHANGED vars
    BY DEF HandlePush, HandleRequest, SendAnswer
<1> QED
    BY <1>1, <1>2, <1>3, <1>4 DEF Agent

\* What a session reads next, and what it waits to hand over.
LEMMA NextMsgType ==
    ASSUME SyncTypeOK, NEW n \in Node, NEW k \in 1..MaxConn, ReadsNext(n, k)
    PROVE  /\ Head(c2s[<<n, k>>]) \in ToServer
           /\ c2s' \in [Conn -> Seq(ToServer)]
<1>1. <<n, k>> \in Conn
    BY DEF Conn
<1>2. c2s[<<n, k>>] \in Seq(ToServer) /\ c2s[<<n, k>>] # <<>>
    BY <1>1 DEF ReadsNext, SyncTypeOK
<1> QED
    BY <1>1, <1>2 DEF ReadsNext, SyncTypeOK

LEMMA HeldMsgType ==
    ASSUME SyncTypeOK, NEW n \in Node, NEW k \in 1..MaxConn, hand[<<n, k>>] # NoMsg
    PROVE  hand[<<n, k>>] \in ToServer
<1>1. <<n, k>> \in Conn
    BY DEF Conn
<1> QED
    BY <1>1 DEF SyncTypeOK

\* Handing over a message is one of the mediator's inputs.
LEMMA HandlesMsg ==
    ASSUME NEW n \in Node, NEW msg \in ToServer, HandleMsg(n, msg)
    PROVE  Handle(n)
<1>1. CASE msg.kind = "report" /\ HandleReport(n, msg.account, msg.body, "none")
    <2>1. msg.account \in Account /\ msg.body \in Body
        BY <1>1 DEF ToServer, Body
    <2> QED
        BY <1>1, <2>1, SyncAssumption DEF Handle
<1>2. CASE msg.kind = "absent" /\ HandleAbsent(n, msg.account)
    <2>1. msg.account \in Account
        BY <1>2 DEF ToServer
    <2> QED
        BY <1>2, <2>1 DEF Handle
<1>3. CASE msg.kind = "ack" /\ HandleAck(n, msg.account)
    <2>1. msg.account \in AckAccount
        BY <1>3 DEF ToServer
    <2> QED
        BY <1>3, <2>1 DEF Handle
<1> QED
    BY <1>1, <1>2, <1>3 DEF HandleMsg

-----------------------------------------------------------------------------
(***************************************************************************)
(* Every step of a profile is a step of the mediator's specification, or   *)
(* leaves the server alone.                                                *)
(***************************************************************************)
LEMMA ServerStep ==
    ASSUME SyncTypeInv, [SyncNext]_syncVars
    PROVE  [Next]_vars
<1>1. ASSUME NEW n \in Node, Cli(n) \/ Agent(n)
      PROVE  UNCHANGED vars
    BY <1>1, AgentsLeaveServer
<1>2. ASSUME NEW n \in Node, Server(n)
      PROVE  Next \/ UNCHANGED vars
    <2>1. ASSUME NEW k \in 1..MaxConn, HandleNext(n, k) \/ HandOver(n, k)
          PROVE  Handle(n)
        <3>1. PICK msg \in ToServer : HandleMsg(n, msg)
            BY <2>1, NextMsgType, HeldMsgType DEF SyncTypeInv, HandleNext, HandOver
        <3> QED
            BY <3>1, HandlesMsg
    <2>2. ASSUME NEW k \in 1..MaxConn,
                 \/ ServeHello(n, k) \/ ServeLateHello(n, k)
                 \/ EndSession(n, k) \/ TellMediator(n, k)
          PROVE  Serve(n)
        BY <2>2 DEF ServeHello, ServeLateHello, Greets, EndSession, TellMediator, Serve
    <2>3. ASSUME NEW k \in 1..MaxConn, SendWelcome(n, k) \/ Block(n, k)
          PROVE  UNCHANGED vars
        BY <2>3 DEF SendWelcome, Block
    <2> QED
        BY <1>2, <2>1, <2>2, <2>3 DEF Server, Next
<1>3. ASSUME \/ Mediate(OnReport) \/ Mediate(OnAbsent)
             \/ Mediate(OnAck) \/ Mediate(OnDisconnect)
      PROVE  Next
    BY <1>3 DEF Mediate, Next, Actor
<1>4. RequestSnapshot => UNCHANGED vars
    BY DEF RequestSnapshot
<1>5. Clock => Next
    BY DEF Clock, Next
<1>6. UNCHANGED syncVars => UNCHANGED vars
    BY DEF syncVars
<1> QED
    BY <1>1, <1>2, <1>3, <1>4, <1>5, <1>6 DEF SyncNext

-----------------------------------------------------------------------------
(* The type invariant. *)

LEMMA SyncTypeInit == SyncInit => SyncTypeInv
<1> SUFFICES ASSUME SyncInit PROVE SyncTypeInv
    OBVIOUS
<1>1. TypeInv
    BY TypeInit DEF SyncInit
<1>2. \A n \in Node : OwnerOf(InitFile[n]) \in Account
    BY SyncAssumption, MediatorAssumption DEF OwnerOf
<1>3. SyncTypeOK
    <2>1. /\ file \in [Node -> Cred \cup {NoCred}] /\ dirty \in [Node -> BOOLEAN]
          /\ pending \in [Node -> BOOLEAN] /\ minted \subseteq Cred
        BY SyncAssumption DEF SyncInit
    <2>2. /\ link \in [Node -> 0..MaxConn] /\ phase \in [Node -> {"down", "hello", "flush", "up"}]
          /\ answer \in [Node -> ToServer \cup {NoMsg}] /\ hand \in [Conn -> ToServer \cup {NoMsg}]
          /\ hellos \in [Node -> Nat] /\ greeting \subseteq Conn
          /\ load \in Workloads /\ acts \in Nat
        BY MediatorAssumption DEF SyncInit
    <2>3. c2s \in [Conn -> Seq(ToServer)] /\ s2c \in [Conn -> Seq(ToClient)]
        BY DEF SyncInit
    <2>4. meta \in [Node -> Account] /\ login \in [Node -> SUBSET Account]
        <3>1. Shared \in Account
            BY MediatorAssumption
        <3>2. PICK half \in SUBSET HalfLogin :
                 /\ meta = [n \in Node |-> IF n \in half THEN Shared ELSE OwnerOf(InitFile[n])]
                 /\ login = [n \in Node |-> IF n \in half THEN {OwnerOf(InitFile[n])} ELSE {}]
            BY DEF SyncInit
        <3> QED
            BY <1>2, <3>1, <3>2
    <2> QED
        BY <2>1, <2>2, <2>3, <2>4 DEF SyncTypeOK
<1>4. LinkInv
    BY DEF SyncInit, LinkInv
<1> QED
    BY <1>1, <1>3, <1>4 DEF SyncTypeInv

LEMMA CliType ==
    ASSUME SyncTypeOK, LinkInv, NEW n \in Node, Cli(n)
    PROVE  SyncTypeOK' /\ LinkInv'
<1>1. ASSUME NEW c \in Cred, Refresh(n, c)
      PROVE  SyncTypeOK' /\ LinkInv'
    BY <1>1 DEF Refresh, Write, agentVars, serveVars, wireVars, loadVars, SyncTypeOK, LinkInv
<1>2. ASSUME NEW c \in Cred, Login(n, c)
      PROVE  SyncTypeOK' /\ LinkInv'
    <2>1. owner[c] \in Account
        BY SyncAssumption
    <2>2. login' \in [Node -> SUBSET Account]
        BY <1>2, <2>1 DEF Login, SyncTypeOK
    <2> QED
        BY <1>2, <2>2 DEF Login, Write, agentVars, serveVars, wireVars, loadVars, SyncTypeOK, LinkInv
<1>3. CASE LoginMeta(n)
    <2>1. meta' \in [Node -> Account] /\ login' \in [Node -> SUBSET Account]
        BY <1>3 DEF LoginMeta, SyncTypeOK
    <2> QED
        BY <1>3, <2>1 DEF LoginMeta, agentVars, serveVars, wireVars, loadVars, SyncTypeOK, LinkInv
<1>4. CASE Logout(n)
    <2>1. acts' \in Nat
        BY <1>4 DEF Logout, SyncTypeOK
    <2> QED
        BY <1>4, <2>1 DEF Logout, Write, agentVars, serveVars, wireVars, SyncTypeOK, LinkInv
<1> QED
    BY <1>1, <1>2, <1>3, <1>4 DEF Cli

LEMMA AgentType ==
    ASSUME SyncTypeOK, LinkInv, NEW n \in Node, Agent(n)
    PROVE  SyncTypeOK' /\ LinkInv'
<1>1. CASE Watch(n)
    BY <1>1 DEF Watch, serveVars, wireVars, loadVars, SyncTypeOK, LinkInv
<1>2. CASE Dial(n) \/ GiveUp(n)
    <2>1. /\ hellos' \in [Node -> Nat] /\ phase' \in [Node -> {"down", "hello", "flush", "up"}]
          /\ phase'[n] \in {"down", "hello"} /\ \A m \in Node : m # n => phase'[m] = phase[m]
          /\ UNCHANGED <<fileVars, pending, link, answer, serveVars, c2s, s2c, loadVars>>
        <3>1. CASE Dial(n)
            BY <3>1 DEF Dial, SyncTypeOK
        <3>2. CASE GiveUp(n)
            BY <3>2 DEF GiveUp, wireVars, SyncTypeOK
        <3> QED
            BY <1>2, <3>1, <3>2
    <2>2. link[n] = 0 /\ phase[n] # "up"
        BY <1>2 DEF Dial, GiveUp, AwaitsSession, LinkInv
    <2> QED
        BY <2>1, <2>2 DEF fileVars, serveVars, loadVars, SyncTypeOK, LinkInv
<1>3. CASE AwaitKind(n)
    <2>1. phase[n] = "hello" /\ link[n] # 0 /\ Inbox(n) # <<>>
        BY <1>3 DEF AwaitKind, Takes
    <2>2. s2c' \in [Conn -> Seq(ToClient)]
        BY <1>3, <2>1, InboxType DEF AwaitKind, Takes, SyncTypeOK
    <2>3. /\ phase' \in [Node -> {"down", "hello", "flush", "up"}]
          /\ phase'[n] \in {"hello", "flush"} /\ \A m \in Node : m # n => phase'[m] = phase[m]
          /\ UNCHANGED <<fileVars, pending, link, answer, serveVars, hellos, c2s, loadVars>>
        BY <1>3, <2>1 DEF AwaitKind, SyncTypeOK
    <2> QED
        BY <2>1, <2>2, <2>3 DEF fileVars, serveVars, loadVars, SyncTypeOK, LinkInv
<1>4. CASE FlushPending(n) \/ WriteLoop(n)
    <2>1. link[n] # 0 /\ Send(n, CurrentState(n))
        BY <1>4 DEF FlushPending, WriteLoop, LinkInv
    <2>2. c2s' \in [Conn -> Seq(ToServer)]
        BY <2>1, SendType, CurrentStateType DEF SyncTypeOK
    <2>3. /\ pending' \in [Node -> BOOLEAN] /\ phase' \in [Node -> {"down", "hello", "flush", "up"}]
          /\ phase'[n] = "up" /\ \A m \in Node : m # n => phase'[m] = phase[m]
          /\ UNCHANGED <<fileVars, link, answer, serveVars, hellos, s2c, loadVars>>
        BY <1>4 DEF FlushPending, WriteLoop, SyncTypeOK
    <2>4. SyncTypeOK'
        BY <2>2, <2>3 DEF fileVars, serveVars, loadVars, SyncTypeOK
    <2>5. LinkInv'
        BY <2>1, <2>3 DEF LinkInv
    <2> QED
        BY <2>4, <2>5
<1>5. CASE HandlePush(n)
    <2>1. link[n] # 0 /\ Inbox(n) # <<>> /\ Head(Inbox(n)).kind = "push"
        BY <1>5 DEF HandlePush, Receives, Takes, LinkInv
    <2>2. Head(Inbox(n)) \in ToClient /\ s2c' \in [Conn -> Seq(ToClient)]
        BY <1>5, <2>1, InboxType DEF HandlePush, Receives, Takes, SyncTypeOK
    <2>3. Head(Inbox(n)).cred \in Cred
        BY <2>1, <2>2 DEF ToClient
    <2>4. file' \in [Node -> Cred \cup {NoCred}] /\ dirty' \in [Node -> BOOLEAN]
        <3>1. ApplyTruth(n, Head(Inbox(n)))
            BY <1>5 DEF HandlePush
        <3>2. \/ file' = file /\ dirty' = dirty
              \/ /\ file' = [file EXCEPT ![n] = Head(Inbox(n)).cred]
                 /\ dirty' = [dirty EXCEPT ![n] = TRUE]
            BY <3>1 DEF ApplyTruth, Write
        <3> QED
            BY <2>3, <3>2 DEF SyncTypeOK
    <2>5. [kind |-> "ack", account |-> Shared] \in ToServer
        BY SyncAssumption DEF ToServer
    <2>6. c2s' \in [Conn -> Seq(ToServer)]
        BY <1>5, <2>1, <2>5, SendType DEF HandlePush, SyncTypeOK
    <2>7. UNCHANGED <<meta, login, minted, agentVars, serveVars, hellos, loadVars>>
        BY <1>5 DEF HandlePush
    <2> QED
        BY <2>2, <2>4, <2>6, <2>7 DEF agentVars, serveVars, loadVars, SyncTypeOK, LinkInv
<1>6. CASE HandleRequest(n)
    <2>1. phase[n] = "up" /\ link[n] # 0 /\ Inbox(n) # <<>>
        BY <1>6 DEF HandleRequest, Receives, Takes, LinkInv
    <2>2. s2c' \in [Conn -> Seq(ToClient)]
        BY <1>6, <2>1, InboxType DEF HandleRequest, Receives, Takes, SyncTypeOK
    <2>3. /\ answer' = [answer EXCEPT ![n] = CurrentState(n)]
          /\ UNCHANGED <<fileVars, pending, link, phase, serveVars, hellos, c2s, loadVars>>
        BY <1>6 DEF HandleRequest
    <2>4. answer' \in [Node -> ToServer \cup {NoMsg}]
        BY <2>3, CurrentStateType DEF SyncTypeOK
    <2> QED
        BY <2>1, <2>2, <2>3, <2>4 DEF fileVars, serveVars, loadVars, SyncTypeOK, LinkInv
<1>7. CASE SendAnswer(n)
    <2>1. link[n] # 0 /\ answer[n] \in ToServer
        BY <1>7 DEF SendAnswer, LinkInv, SyncTypeOK
    <2>2. c2s' \in [Conn -> Seq(ToServer)]
        BY <1>7, <2>1, SendType DEF SendAnswer, SyncTypeOK
    <2> QED
        BY <1>7, <2>2 DEF SendAnswer, fileVars, serveVars, loadVars, SyncTypeOK, LinkInv
<1>8. CASE Lose(n) \/ Notice(n)
    <2>1. Disconnected(n)
        BY <1>8 DEF Lose, Notice
    <2>2. s2c' \in [Conn -> Seq(ToClient)]
        <3>1. <<>> \in Seq(ToClient)
            OBVIOUS
        <3>2. s2c' = [s2c EXCEPT ![<<n, link[n]>>] = <<>>]
            BY <2>1 DEF Disconnected
        <3>3. s2c \in [Conn -> Seq(ToClient)]
            BY DEF SyncTypeOK
        <3> QED
            BY <3>1, <3>2, <3>3, Zenon
    <2>3. link' \in [Node -> 0..MaxConn]
        BY <2>1, MediatorAssumption DEF Disconnected, SyncTypeOK
    <2> QED
        BY <2>1, <2>2, <2>3 DEF Disconnected, fileVars, serveVars, loadVars, SyncTypeOK, LinkInv
<1> QED
    BY <1>1, <1>2, <1>3, <1>4, <1>5, <1>6, <1>7, <1>8 DEF Agent

\* The envelope a step of the mediator puts on a connection.
LEMMA DeliverType ==
    ASSUME NEW s \in Conn, NEW M, s2c[s] \in Seq(M), sent' \subseteq Push,
           \A p \in sent' : [kind |-> "push", account |-> p.account, cred |-> p.cred] \in M
    PROVE  Deliver(s) \in Seq(M)
<1>1. CASE PushesTo(s) = {}
    BY <1>1 DEF Deliver
<1>2. CASE PushesTo(s) # {}
    <2> DEFINE p == CHOOSE q \in PushesTo(s) : TRUE
    <2>1. p \in PushesTo(s)
        BY <1>2
    <2>2. p \in sent'
        BY <2>1 DEF PushesTo
    <2>3. Deliver(s) = Append(s2c[s], [kind |-> "push", account |-> p.account, cred |-> p.cred])
        BY <1>2 DEF Deliver
    <2> HIDE DEF p
    <2> QED
        BY <2>2, <2>3
<1> QED
    BY <1>1, <1>2

LEMMA SessionType ==
    ASSUME SyncTypeOK, LinkInv, NEW n \in Node, Server(n)
    PROVE  SyncTypeOK' /\ LinkInv'
<1>0. \A k \in 1..MaxConn : <<n, k>> \in Conn
    BY DEF Conn
<1>1. ASSUME NEW k \in 1..MaxConn, ServeHello(n, k) \/ ServeLateHello(n, k)
      PROVE  SyncTypeOK' /\ LinkInv'
    <2>1. hellos' \in [Node -> Nat] /\ greeting' \subseteq Conn
        BY <1>0, <1>1 DEF ServeHello, ServeLateHello, Greets, SyncTypeOK
    <2>2. UNCHANGED <<fileVars, pending, phase, answer, hand, c2s, s2c, loadVars>>
        BY <1>1 DEF ServeHello, ServeLateHello, Greets
    <2>3. CASE link' = link
        BY <2>1, <2>2, <2>3 DEF fileVars, loadVars, SyncTypeOK, LinkInv
    <2>4. CASE phase[n] = "hello" /\ link' = [link EXCEPT ![n] = k]
        <3>1. link' \in [Node -> 0..MaxConn]
            BY <2>4, MediatorAssumption DEF SyncTypeOK
        <3>2. phase[n] # "down" /\ k # 0
            BY <2>4, MediatorAssumption
        <3>3. LinkInv'
            BY <2>2, <2>4, <3>2 DEF SyncTypeOK, LinkInv
        <3> QED
            BY <2>1, <2>2, <3>1, <3>3 DEF fileVars, loadVars, SyncTypeOK
    <2> QED
        BY <1>1, <2>3, <2>4 DEF ServeHello, ServeLateHello, AwaitsSession
<1>2. ASSUME NEW k \in 1..MaxConn, SendWelcome(n, k)
      PROVE  SyncTypeOK' /\ LinkInv'
    <2>1. [kind |-> "welcome"] \in ToClient
        BY DEF ToClient
    <2>2. s2c' \in [Conn -> Seq(ToClient)]
        <3>1. CASE s2c' = [s2c EXCEPT ![<<n, k>>] = Append(@, [kind |-> "welcome"])]
            BY <1>0, <2>1, <3>1 DEF SyncTypeOK
        <3> QED
            BY <1>2, <3>1 DEF SendWelcome, SyncTypeOK
    <2>3. /\ greeting' \subseteq Conn
          /\ UNCHANGED <<fileVars, agentVars, hand, hellos, c2s, loadVars>>
        BY <1>2 DEF SendWelcome, SyncTypeOK
    <2> QED
        BY <2>2, <2>3 DEF fileVars, agentVars, loadVars, SyncTypeOK, LinkInv
<1>3. ASSUME NEW k \in 1..MaxConn, HandleNext(n, k) \/ Block(n, k)
      PROVE  SyncTypeOK' /\ LinkInv'
    <2>1. Head(c2s[<<n, k>>]) \in ToServer /\ c2s' \in [Conn -> Seq(ToServer)]
        BY <1>3, NextMsgType DEF HandleNext, Block
    <2>2. hand' \in [Conn -> ToServer \cup {NoMsg}]
        BY <1>3, <2>1 DEF HandleNext, Block, serveVars, SyncTypeOK
    <2>3. UNCHANGED <<fileVars, agentVars, greeting, hellos, s2c, loadVars>>
        BY <1>3 DEF HandleNext, Block, serveVars
    <2> QED
        BY <2>1, <2>2, <2>3 DEF fileVars, agentVars, loadVars, SyncTypeOK, LinkInv
<1>4. ASSUME NEW k \in 1..MaxConn, HandOver(n, k)
      PROVE  SyncTypeOK' /\ LinkInv'
    <2>1. hand' \in [Conn -> ToServer \cup {NoMsg}]
        BY <1>4 DEF HandOver, SyncTypeOK
    <2>2. UNCHANGED <<fileVars, agentVars, greeting, wireVars, loadVars>>
        BY <1>4 DEF HandOver
    <2> QED
        BY <2>1, <2>2 DEF fileVars, agentVars, wireVars, loadVars, SyncTypeOK, LinkInv
<1>5. ASSUME NEW k \in 1..MaxConn, EndSession(n, k)
      PROVE  SyncTypeOK' /\ LinkInv'
    <2>1. c2s' \in [Conn -> Seq(ToServer)]
        <3>1. <<>> \in Seq(ToServer)
            OBVIOUS
        <3>2. c2s' = [c2s EXCEPT ![<<n, k>>] = <<>>]
            BY <1>5 DEF EndSession
        <3>3. c2s \in [Conn -> Seq(ToServer)]
            BY DEF SyncTypeOK
        <3> QED
            BY <3>1, <3>2, <3>3, Zenon
    <2>2. /\ greeting' \subseteq Conn
          /\ UNCHANGED <<fileVars, agentVars, hand, hellos, s2c, loadVars>>
        BY <1>5 DEF EndSession, SyncTypeOK
    <2> QED
        BY <2>1, <2>2 DEF fileVars, agentVars, loadVars, SyncTypeOK, LinkInv
<1>6. ASSUME NEW k \in 1..MaxConn, TellMediator(n, k)
      PROVE  SyncTypeOK' /\ LinkInv'
    BY <1>6 DEF TellMediator, fileVars, agentVars, serveVars, wireVars, loadVars, SyncTypeOK, LinkInv
<1> QED
    BY <1>1, <1>2, <1>3, <1>4, <1>5, <1>6 DEF Server

LEMMA ServerType ==
    ASSUME SyncTypeOK, LinkInv, TypeOK',
           \/ Mediate(OnReport) \/ Mediate(OnAbsent) \/ Mediate(OnAck) \/ Mediate(OnDisconnect)
           \/ RequestSnapshot \/ Clock
    PROVE  SyncTypeOK' /\ LinkInv'
<1>1. ASSUME \/ Mediate(OnReport) \/ Mediate(OnAbsent)
             \/ Mediate(OnAck) \/ Mediate(OnDisconnect)
      PROVE  SyncTypeOK' /\ LinkInv'
    <2>1. /\ s2c' = [s \in Conn |-> Deliver(s)]
          /\ UNCHANGED <<fileVars, agentVars, serveVars, hellos, c2s, loadVars>>
        BY <1>1 DEF Mediate
    <2>2. sent' \subseteq Push
        BY DEF TypeOK
    <2>3. \A p \in sent' :
             [kind |-> "push", account |-> p.account, cred |-> p.cred] \in ToClient
        BY <2>2 DEF Push, ToClient
    <2>4. \A s \in Conn : Deliver(s) \in Seq(ToClient)
        BY <2>2, <2>3, DeliverType DEF SyncTypeOK
    <2>5. s2c' \in [Conn -> Seq(ToClient)]
        BY <2>1, <2>4
    <2> QED
        BY <2>1, <2>5 DEF fileVars, agentVars, serveVars, loadVars, SyncTypeOK, LinkInv
<1>2. CASE RequestSnapshot
    <2>1. [kind |-> "request"] \in ToClient
        BY DEF ToClient
    <2>2. s2c' \in [Conn -> Seq(ToClient)]
        BY <1>2, <2>1 DEF RequestSnapshot, SyncTypeOK
    <2>3. acts' \in Nat
        BY <1>2 DEF RequestSnapshot, SyncTypeOK
    <2>4. UNCHANGED <<fileVars, agentVars, serveVars, hellos, c2s, load>>
        BY <1>2 DEF RequestSnapshot
    <2> QED
        BY <2>2, <2>3, <2>4 DEF fileVars, agentVars, serveVars, SyncTypeOK, LinkInv
<1>3. CASE Clock
    BY <1>3 DEF Clock, fileVars, agentVars, serveVars, wireVars, loadVars, SyncTypeOK, LinkInv
<1> QED
    BY <1>1, <1>2, <1>3

LEMMA SyncTypeStep == SyncTypeInv /\ [SyncNext]_syncVars => SyncTypeInv'
<1> SUFFICES ASSUME SyncTypeInv, [SyncNext]_syncVars PROVE SyncTypeInv'
    OBVIOUS
<1>1. TypeInv'
    BY ServerStep, TypeStep DEF SyncTypeInv
<1>2. CASE UNCHANGED syncVars
    BY <1>1, <1>2 DEF syncVars, fileVars, agentVars, serveVars, wireVars, loadVars,
                      SyncTypeInv, SyncTypeOK, LinkInv
<1>3. SyncNext => SyncTypeOK' /\ LinkInv'
    BY <1>1, CliType, AgentType, SessionType, ServerType DEF SyncNext, SyncTypeInv, TypeInv
<1> QED
    BY <1>1, <1>2, <1>3 DEF SyncTypeInv

\* Type correctness of a whole profile.
THEOREM SyncTypeCorrect == SyncSpec => []SyncTypeOK
<1>1. SyncTypeInv => SyncTypeOK
    BY DEF SyncTypeInv
<1> QED
    BY <1>1, SyncTypeInit, SyncTypeStep, PTL DEF SyncSpec

\* The server's part of a profile behaves as the mediator's specification says,
\* whatever the agents, the users and the network do; so every theorem about
\* Spec holds of a profile.
THEOREM SyncImplementsMediator == SyncSpec => Spec
<1>1. SyncInit => Init
    BY DEF SyncInit
<1> QED
    BY <1>1, SyncTypeInit, SyncTypeStep, ServerStep, PTL DEF SyncSpec, Spec

-----------------------------------------------------------------------------
(***************************************************************************)
(* What the connections carry: up, nothing but what agents report and      *)
(* their acks; down, welcomes, requests and what the mediator sends.       *)
(***************************************************************************)
OnWire(Up, Dn) ==
    /\ c2s \in [Conn -> Seq(Up)]
    /\ hand \in [Conn -> Up \cup {NoMsg}]
    /\ answer \in [Node -> Up \cup {NoMsg}]
    /\ s2c \in [Conn -> Seq(Dn)]

LEMMA WireAgent ==
    ASSUME NEW Up, NEW Dn, SyncTypeInv, OnWire(Up, Dn),
           [kind |-> "ack", account |-> Shared] \in Up,
           NEW n \in Node, CurrentState(n) \in Up,
           Cli(n) \/ Agent(n)
    PROVE  OnWire(Up, Dn)'
<1> USE DEF OnWire
<1>0. SyncTypeOK /\ (phase[n] \in {"flush", "up"} => link[n] # 0)
    BY DEF SyncTypeInv, LinkInv
<1>1. CASE Cli(n) \/ Watch(n) \/ Dial(n) \/ GiveUp(n)
    BY <1>1 DEF Cli, Refresh, Login, LoginMeta, Logout, Watch, Dial, GiveUp, agentVars,
                serveVars, wireVars
<1>2. CASE AwaitKind(n)
    <2>1. s2c' \in [Conn -> Seq(Dn)]
        BY <1>0, <1>2, InboxType DEF AwaitKind, Takes
    <2> QED
        BY <1>2, <2>1 DEF AwaitKind, serveVars
<1>3. CASE FlushPending(n) \/ WriteLoop(n)
    <2>1. c2s' \in [Conn -> Seq(Up)]
        BY <1>0, <1>3, SendType DEF FlushPending, WriteLoop
    <2> QED
        BY <1>3, <2>1 DEF FlushPending, WriteLoop, serveVars
<1>4. CASE HandlePush(n)
    <2>1. s2c' \in [Conn -> Seq(Dn)]
        BY <1>0, <1>4, InboxType DEF HandlePush, Receives, Takes
    <2>2. c2s' \in [Conn -> Seq(Up)]
        BY <1>0, <1>4, SendType DEF HandlePush, Receives
    <2> QED
        BY <1>4, <2>1, <2>2 DEF HandlePush, agentVars, serveVars
<1>5. CASE HandleRequest(n)
    <2>1. s2c' \in [Conn -> Seq(Dn)]
        BY <1>0, <1>5, InboxType DEF HandleRequest, Receives, Takes
    <2> QED
        BY <1>5, <2>1 DEF HandleRequest, serveVars
<1>6. CASE SendAnswer(n)
    <2>1. link[n] # 0 /\ answer[n] \in Up
        BY <1>0, <1>6 DEF SendAnswer, SyncTypeInv, LinkInv
    <2>2. c2s' \in [Conn -> Seq(Up)]
        BY <1>0, <1>6, <2>1, SendType DEF SendAnswer
    <2> QED
        BY <1>6, <2>2 DEF SendAnswer, serveVars
<1>7. CASE Lose(n) \/ Notice(n)
    <2>1. Disconnected(n)
        BY <1>7 DEF Lose, Notice
    <2>2. s2c' \in [Conn -> Seq(Dn)]
        <3>1. <<>> \in Seq(Dn)
            OBVIOUS
        <3>2. s2c' = [s2c EXCEPT ![<<n, link[n]>>] = <<>>] /\ s2c \in [Conn -> Seq(Dn)]
            BY <2>1 DEF Disconnected
        <3> QED
            BY <3>1, <3>2, Zenon
    <2> QED
        BY <2>1, <2>2 DEF Disconnected, serveVars
<1> QED
    BY <1>1, <1>2, <1>3, <1>4, <1>5, <1>6, <1>7 DEF Agent

\* What a session reads, and what stays in its queue.
LEMMA WireNext ==
    ASSUME NEW Up, c2s \in [Conn -> Seq(Up)],
           NEW n \in Node, NEW k \in 1..MaxConn, ReadsNext(n, k)
    PROVE  /\ Head(c2s[<<n, k>>]) \in Up
           /\ c2s' \in [Conn -> Seq(Up)]
<1>1. <<n, k>> \in Conn
    BY DEF Conn
<1>2. c2s[<<n, k>>] \in Seq(Up) /\ c2s[<<n, k>>] # <<>>
    BY <1>1 DEF ReadsNext
<1>3. c2s' = [c2s EXCEPT ![<<n, k>>] = Tail(@)]
    BY DEF ReadsNext
<1> QED
    BY <1>1, <1>2, <1>3

\* A session hands over what came over the wire, and nothing else.
LEMMA WireSession ==
    ASSUME NEW Up, NEW Dn, OnWire(Up, Dn), [kind |-> "welcome"] \in Dn,
           NEW n \in Node, Server(n)
    PROVE  /\ OnWire(Up, Dn)'
           /\ UNCHANGED <<cands, truths>>
           /\ \/ \E msg \in Up : HandleMsg(n, msg)
              \/ UNCHANGED <<reports, absents, acks>>
<1> USE DEF OnWire
<1>0. \A k \in 1..MaxConn : <<n, k>> \in Conn
    BY DEF Conn
<1>1. ASSUME NEW msg, HandleMsg(n, msg)
      PROVE  UNCHANGED <<cands, truths>>
    BY <1>1 DEF HandleMsg, HandleReport, HandleAbsent, HandleAck, stateVars
<1>2. ASSUME NEW k \in 1..MaxConn,
             ServeHello(n, k) \/ ServeLateHello(n, k) \/ TellMediator(n, k)
      PROVE  OnWire(Up, Dn)' /\ UNCHANGED <<cands, truths, reports, absents, acks>>
    BY <1>2 DEF ServeHello, ServeLateHello, Greets, Register, TellMediator, NotifyDisconnect,
                ingressVars, stateVars, agentVars, serveVars, wireVars
<1>3. ASSUME NEW k \in 1..MaxConn, SendWelcome(n, k)
      PROVE  OnWire(Up, Dn)' /\ UNCHANGED <<cands, truths, reports, absents, acks>>
    <2>1. s2c' \in [Conn -> Seq(Dn)]
        <3>1. CASE s2c' = [s2c EXCEPT ![<<n, k>>] = Append(@, [kind |-> "welcome"])]
            BY <1>0, <3>1
        <3> QED
            BY <1>3, <3>1 DEF SendWelcome
    <2> QED
        BY <1>3, <2>1 DEF SendWelcome, vars, ingressVars, stateVars, agentVars
<1>4. ASSUME NEW k \in 1..MaxConn, HandleNext(n, k)
      PROVE  OnWire(Up, Dn)' /\ \E msg \in Up : HandleMsg(n, msg)
    BY <1>4, WireNext DEF HandleNext, agentVars, serveVars
<1>5. ASSUME NEW k \in 1..MaxConn, Block(n, k)
      PROVE  OnWire(Up, Dn)' /\ UNCHANGED <<cands, truths, reports, absents, acks>>
    <2>1. Head(c2s[<<n, k>>]) \in Up /\ c2s' \in [Conn -> Seq(Up)]
        BY <1>5, WireNext DEF Block
    <2>2. hand' \in [Conn -> Up \cup {NoMsg}]
        BY <1>5, <2>1 DEF Block
    <2> QED
        BY <1>5, <2>1, <2>2 DEF Block, vars, ingressVars, stateVars, agentVars
<1>6. ASSUME NEW k \in 1..MaxConn, HandOver(n, k)
      PROVE  OnWire(Up, Dn)' /\ \E msg \in Up : HandleMsg(n, msg)
    BY <1>0, <1>6 DEF HandOver, agentVars, wireVars
<1>7. ASSUME NEW k \in 1..MaxConn, EndSession(n, k)
      PROVE  OnWire(Up, Dn)' /\ UNCHANGED <<cands, truths, reports, absents, acks>>
    <2>1. c2s' \in [Conn -> Seq(Up)]
        <3>1. <<>> \in Seq(Up)
            OBVIOUS
        <3>2. c2s' = [c2s EXCEPT ![<<n, k>>] = <<>>] /\ c2s \in [Conn -> Seq(Up)]
            BY <1>7 DEF EndSession
        <3> QED
            BY <3>1, <3>2, Zenon
    <2> QED
        BY <1>7, <2>1 DEF EndSession, Unregister, ingressVars, stateVars, agentVars
<1> QED
    BY <1>1, <1>2, <1>3, <1>4, <1>5, <1>6, <1>7 DEF Server

-----------------------------------------------------------------------------
(***************************************************************************)
(* Account boundaries.  When the account is part of the credential (codex, *)
(* gemini), every report carries the owner of what it reports, and so does *)
(* all that follows from it: candidates, truths, pushes.                   *)
(***************************************************************************)
OwnedMsg == {m \in ToServer : m.kind = "report" => owner[m.body] = m.account}

OwnedReport == {m \in ReportMsg : m.body \in Cred => owner[m.body] = m.account}

OwnedPush == {m \in ToClient : m.kind = "push" => owner[m.cred] = m.account}

OwnedCands(cs) ==
    \A n \in Node : cs[n].status \in ViableStatus => owner[cs[n].cred] = cs[n].account

OwnedTruths == \A a \in Account : truths[a] # NoTruth => owner[truths[a].cred] = a

BoundaryInv ==
    /\ OnWire(OwnedMsg, OwnedPush)
    /\ reports \in Seq(OwnedReport)
    /\ OwnedCands(cands)
    /\ OwnedTruths

LEMMA OwnedState ==
    ASSUME SyncTypeOK, FormatName # "claude", NEW n \in Node
    PROVE  CurrentState(n) \in OwnedMsg
<1>1. CurrentState(n) \in ToServer
    BY CurrentStateType
<1>2. file[n] \in Cred \cup {NoCred}
    BY DEF SyncTypeOK
<1>3. CASE file[n] = NoCred
    BY <1>1, <1>3 DEF CurrentState, OwnedMsg
<1>4. CASE file[n] # NoCred
    BY <1>1, <1>4 DEF CurrentState, AccountOf, OwnerOf, OwnedMsg
<1> QED
    BY <1>3, <1>4

\* A reselect over candidates that keep the boundaries keeps them in what it
\* decides and sends.
LEMMA OwnedReselect ==
    ASSUME TypeInv, OwnedTruths, Reselects, OwnedCands(cands')
    PROVE  /\ OwnedTruths'
           /\ \A p \in sent' : owner[p.cred] = p.account
<1>1. PICK src \in Sources(cands') :
          /\ truths' = [a \in Account |-> NextTruth(cands', src, a)]
          /\ sent' \subseteq UNION {PushTruth(cands', src, a) : a \in Account}
    BY ReselectDecides
<1>2. ASSUME NEW a \in DOMAIN src
      PROVE  owner[cands'[src[a]].cred] = a
    <2>1. src[a] \in Viable(cands', a) /\ src[a] \in Node /\ cands'[src[a]].account = a
        BY SourceFacts DEF Reselects
    <2> QED
        BY <2>1 DEF Viable, OwnedCands
<1>3. ASSUME NEW a \in Account, NextTruth(cands', src, a) # NoTruth
      PROVE  owner[NextTruth(cands', src, a).cred] = a
    <2>1. a \in DOMAIN src
        BY <1>3 DEF NextTruth
    <2>2. \/ NextTruth(cands', src, a) = truths[a]
          \/ NextTruth(cands', src, a).cred = cands'[src[a]].cred
        BY <2>1 DEF NextTruth
    <2> QED
        BY <1>2, <1>3, <2>1, <2>2 DEF OwnedTruths
<1>4. ASSUME NEW a \in Account, NEW p \in PushTruth(cands', src, a)
      PROVE  owner[p.cred] = p.account
    BY <1>2, PushTruthFacts DEF Reselects
<1> QED
    BY <1>1, <1>3, <1>4 DEF OwnedTruths

LEMMA BoundaryAgent ==
    ASSUME SyncTypeInv, BoundaryInv, FormatName # "claude", NEW n \in Node,
           Cli(n) \/ Agent(n)
    PROVE  BoundaryInv'
<1>1. CurrentState(n) \in OwnedMsg /\ [kind |-> "ack", account |-> Shared] \in OwnedMsg
    BY OwnedState, SyncAssumption DEF SyncTypeInv, ToServer, OwnedMsg
<1>2. OnWire(OwnedMsg, OwnedPush)'
    BY <1>1, WireAgent DEF BoundaryInv
<1>3. UNCHANGED <<reports, cands, truths>>
    BY AgentsLeaveServer DEF vars, ingressVars, stateVars
<1> QED
    BY <1>2, <1>3 DEF BoundaryInv, OwnedCands, OwnedTruths

\* A report keeps its owner when it is handed to the mediator.
LEMMA BoundarySession ==
    ASSUME BoundaryInv, NEW n \in Node, Server(n)
    PROVE  BoundaryInv'
<1>1. [kind |-> "welcome"] \in OwnedPush
    BY DEF ToClient, OwnedPush
<1>2. /\ OnWire(OwnedMsg, OwnedPush)' /\ UNCHANGED <<cands, truths>>
      /\ \/ \E msg \in OwnedMsg : HandleMsg(n, msg)
         \/ UNCHANGED <<reports, absents, acks>>
    BY <1>1, WireSession DEF BoundaryInv
<1>3. ASSUME NEW msg \in OwnedMsg, HandleMsg(n, msg)
      PROVE  reports' \in Seq(OwnedReport)
    <2>1. CASE msg.kind = "report" /\ HandleReport(n, msg.account, msg.body, "none")
        <3> DEFINE r == [node |-> n, account |-> msg.account,
                         body |-> msg.body, live |-> "none"]
        <3>1. msg.account \in Account /\ msg.body \in Body /\ owner[msg.body] = msg.account
            BY <2>1 DEF OwnedMsg, ToServer, Body
        <3>2. r \in OwnedReport
            BY <3>1, SyncAssumption DEF OwnedReport, ReportMsg
        <3>3. reports' = Append(reports, r)
            BY <2>1 DEF HandleReport
        <3> HIDE DEF r
        <3> QED
            BY <3>2, <3>3 DEF BoundaryInv
    <2>2. CASE HandleAbsent(n, msg.account) \/ HandleAck(n, msg.account)
        BY <2>2 DEF HandleAbsent, HandleAck, BoundaryInv
    <2> QED
        BY <1>3, <2>1, <2>2 DEF HandleMsg
<1> QED
    BY <1>2, <1>3 DEF BoundaryInv, OwnedCands, OwnedTruths

\* The candidates stay within the boundaries.
LEMMA BoundaryCands ==
    ASSUME SyncTypeInv, BoundaryInv, Actor
    PROVE  OwnedCands(cands') /\ reports' \in Seq(OwnedReport)
<1> USE DEF SyncTypeInv, TypeInv
<1>1. ASSUME NEW n \in Node, NEW c, c.status \notin ViableStatus,
             cands' = [cands EXCEPT ![n] = c]
      PROVE  OwnedCands(cands')
    BY <1>1 DEF TypeOK, BoundaryInv, OwnedCands
<1>2. CASE OnReport
    <2> DEFINE msg == Head(reports)
    <2>1. msg \in OwnedReport /\ reports' \in Seq(OwnedReport)
        BY <1>2 DEF OnReport, BoundaryInv
    <2>2. msg.node \in Node
        BY <2>1 DEF OwnedReport, ReportMsg
    <2>3. ParseError(msg.account).status \notin ViableStatus
        BY DEF ParseError, ViableStatus
    <2>4. CASE UNCHANGED stateVars
        BY <2>1, <2>4 DEF stateVars, BoundaryInv, OwnedCands
    <2>5. CASE cands' = [cands EXCEPT ![msg.node] = ParseError(msg.account)]
        BY <1>1, <2>1, <2>2, <2>3, <2>5
    <2>6. CASE msg.body \in Cred /\ cands' = [cands EXCEPT ![msg.node] = FromReport(msg)]
        <3>1. owner[FromReport(msg).cred] = FromReport(msg).account
            BY <2>1, <2>6 DEF OwnedReport, FromReport
        <3>2. \A m \in Node : \/ m # msg.node /\ cands'[m] = cands[m]
                              \/ m = msg.node /\ cands'[m] = FromReport(msg)
            BY <2>2, <2>6 DEF TypeOK
        <3> QED
            BY <2>1, <3>1, <3>2 DEF BoundaryInv, OwnedCands
    <2> QED
        BY <1>2, <2>4, <2>5, <2>6 DEF OnReport
<1>3. CASE OnAbsent
    <2>1. Head(absents).node \in Node
        <3>1. Head(absents) \in AbsentMsg
            BY <1>3 DEF OnAbsent, TypeOK
        <3> QED
            BY <3>1 DEF AbsentMsg
    <2>2. Absence(Head(absents).account).status \notin ViableStatus
        BY DEF Absence, ViableStatus
    <2> QED
        BY <1>1, <1>3, <2>1, <2>2 DEF OnAbsent, BoundaryInv
<1>4. CASE OnAck
    <2>1. Head(acks).node \in Node
        <3>1. Head(acks) \in AckMsg
            BY <1>4 DEF OnAck, TypeOK
        <3> QED
            BY <3>1 DEF AckMsg
    <2>2. Absence(Head(acks).account).status \notin ViableStatus
        BY DEF Absence, ViableStatus
    <2>3. \/ cands' = cands
          \/ cands' = [cands EXCEPT ![Head(acks).node] = Absence(Head(acks).account)]
        BY <1>4, Zenon DEF OnAck
    <2>4. reports' = reports
        BY <1>4 DEF OnAck
    <2> QED
        BY <1>1, <2>1, <2>2, <2>3, <2>4 DEF BoundaryInv, OwnedCands
<1>5. CASE OnDisconnect
    <2>1. Head(disconnects) \in Node
        BY <1>5 DEF OnDisconnect, TypeOK
    <2>2. NoCandidate.status \notin ViableStatus
        BY DEF NoCandidate, ViableStatus
    <2> QED
        BY <1>1, <1>5, <2>1, <2>2 DEF OnDisconnect, BoundaryInv
<1> QED
    BY <1>2, <1>3, <1>4, <1>5 DEF Actor

LEMMA BoundaryStep ==
    ASSUME SyncTypeInv, BoundaryInv, FormatName # "claude", [SyncNext]_syncVars
    PROVE  BoundaryInv'
<1>1. ASSUME NEW n \in Node, Cli(n) \/ Agent(n) \/ Server(n)
      PROVE  BoundaryInv'
    BY <1>1, BoundaryAgent, BoundarySession
<1>2. ASSUME \/ Mediate(OnReport) \/ Mediate(OnAbsent)
             \/ Mediate(OnAck) \/ Mediate(OnDisconnect)
      PROVE  BoundaryInv'
    <2>1. /\ Actor
          /\ s2c' = [s \in Conn |-> Deliver(s)]
          /\ UNCHANGED <<c2s, hand, answer>>
        BY <1>2 DEF Mediate, Actor, serveVars, agentVars
    <2>2. TypeInv /\ TypeInv'
        BY SyncTypeStep DEF SyncTypeInv
    <2>3. OwnedCands(cands') /\ reports' \in Seq(OwnedReport)
        BY <2>1, BoundaryCands
    <2>4. OwnedTruths' /\ \A p \in sent' : owner[p.cred] = p.account
        <3>1. CASE Reselects
            BY <2>2, <2>3, <3>1, OwnedReselect DEF BoundaryInv, OnWire
        <3>2. CASE Records
            BY <3>2 DEF Records, BoundaryInv, OwnedTruths
        <3> QED
            BY <2>1, <2>2, <3>1, <3>2, ActorKinds
    <2>5. sent' \subseteq Push
        BY <2>2 DEF TypeInv, TypeOK
    <2>6. \A p \in sent' :
             [kind |-> "push", account |-> p.account, cred |-> p.cred] \in OwnedPush
        BY <2>4, <2>5 DEF Push, ToClient, OwnedPush
    <2>7. \A s \in Conn : Deliver(s) \in Seq(OwnedPush)
        BY <2>5, <2>6, DeliverType DEF BoundaryInv, OnWire
    <2>8. s2c' \in [Conn -> Seq(OwnedPush)]
        BY <2>1, <2>7
    <2> QED
        BY <2>1, <2>3, <2>4, <2>8 DEF BoundaryInv, OnWire, OwnedCands
<1>3. CASE RequestSnapshot
    <2>1. [kind |-> "request"] \in OwnedPush
        BY DEF ToClient, OwnedPush
    <2>2. s2c' \in [Conn -> Seq(OwnedPush)]
        BY <1>3, <2>1 DEF RequestSnapshot, BoundaryInv, OnWire
    <2>3. UNCHANGED <<reports, cands, truths, c2s, hand, answer>>
        BY <1>3 DEF RequestSnapshot, vars, ingressVars, stateVars, serveVars, agentVars
    <2> QED
        BY <2>2, <2>3 DEF BoundaryInv, OnWire, OwnedCands, OwnedTruths
<1>4. CASE Clock \/ UNCHANGED syncVars
    <2>1. UNCHANGED <<reports, cands, truths, c2s, hand, s2c, answer>>
        BY <1>4 DEF Clock, Tick, syncVars, vars, ingressVars, stateVars, serveVars, agentVars,
                    wireVars
    <2> QED
        BY <2>1 DEF BoundaryInv, OnWire, OwnedCands, OwnedTruths
<1> QED
    BY <1>1, <1>2, <1>3, <1>4 DEF SyncNext

\* Account boundaries, for the formats whose account is part of the credential:
\* no truth and no push under way ever carries another account's credential, for
\* any number of nodes, through lost connections, failed writes, logins to other
\* accounts and displaced sessions.  (For claude the two are read from separate
\* files and the property fails.)
THEOREM BoundariesKeptHolds ==
    ASSUME FormatName # "claude"
    PROVE  SyncSpec => []BoundariesKept
<1>1. SyncInit => BoundaryInv
    <2> SUFFICES ASSUME SyncInit PROVE BoundaryInv
        OBVIOUS
    <2>1. OwnedCands(cands) /\ OwnedTruths
        BY DEF SyncInit, Init, OwnedCands, OwnedTruths, NoCandidate, ViableStatus
    <2>2. reports \in Seq(OwnedReport)
        BY DEF SyncInit, Init
    <2>3. c2s \in [Conn -> Seq(OwnedMsg)] /\ s2c \in [Conn -> Seq(OwnedPush)]
        BY DEF SyncInit
    <2>4. answer \in [Node -> OwnedMsg \cup {NoMsg}] /\ hand \in [Conn -> OwnedMsg \cup {NoMsg}]
        BY DEF SyncInit
    <2> QED
        BY <2>1, <2>2, <2>3, <2>4 DEF BoundaryInv, OnWire
<1>2. BoundaryInv => BoundariesKept
    <2> SUFFICES ASSUME BoundaryInv PROVE BoundariesKept
        OBVIOUS
    <2>1. ASSUME NEW s \in Conn, NEW i \in 1..Len(s2c[s])
          PROVE  s2c[s][i] \in OwnedPush
        BY DEF BoundaryInv, OnWire
    <2> QED
        BY <2>1 DEF BoundaryInv, OnWire, BoundariesKept, OwnedTruths, OwnedPush
<1>3. SyncTypeInv /\ BoundaryInv /\ [SyncNext]_syncVars => BoundaryInv'
    BY BoundaryStep
<1> QED
    BY <1>1, <1>2, <1>3, SyncTypeInit, SyncTypeStep, PTL DEF SyncSpec

-----------------------------------------------------------------------------
\* What the mediator promises to any clients it keeps with real agents: after
\* every step of a profile reselect's truths are supported and the newest, the
\* mirror shows them, pushes carry them to the account's current sessions, and
\* the hub's table names the newest connections.
THEOREM ProfileKeepsPromises ==
    SyncSpec => /\ [](TruthSupported /\ TruthIsNewest /\ MirrorAgrees)
                /\ [](PushIsNewest /\ CurrentIsNewest)
                /\ NoRegression /\ ImplementsRegister
<1>1. Spec => [](TruthSupported /\ TruthIsNewest /\ MirrorAgrees)
    BY TruthSupportedHolds, TruthIsNewestHolds, MirrorAgreesHolds, PTL
<1>2. Spec => [](PushIsNewest /\ CurrentIsNewest)
    BY PushIsNewestHolds, CurrentIsNewestHolds, PTL
<1> QED
    BY <1>1, <1>2, NoRegressionHolds, ImplementsRegisterHolds, SyncImplementsMediator

-----------------------------------------------------------------------------
(***************************************************************************)
(* No truth is missed.  For every member of an account whose candidate     *)
(* differs from the truth, and which does not hold the truth already,      *)
(* there is a reason why that will change: something its agent has noticed *)
(* is on its way to the mediator, its connection is not established, or    *)
(* the truth is the last push it will find in its inbox.                   *)
(***************************************************************************)
Tells(msg) == msg.kind \in {"report", "absent"}

Telling(queue) == \E i \in 1..Len(queue) : Tells(queue[i])

Mentions(queue, n) == \E i \in 1..Len(queue) : queue[i].node = n

LastPushIs(queue, c) ==
    \E i \in 1..Len(queue) :
        /\ queue[i].kind = "push" /\ queue[i].cred = c
        /\ \A j \in 1..Len(queue) : j > i => queue[j].kind # "push"

Line(n) == <<n, link[n]>>

\* The mediator will hear of n again.
Underway(n) ==
    \/ phase[n] # "up" \/ current[n] # link[n]
    \/ dirty[n] \/ pending[n]
    \/ Telling(c2s[Line(n)])
    \/ hand[Line(n)] # NoMsg /\ Tells(hand[Line(n)])
    \/ Mentions(reports, n) \/ Mentions(absents, n)

Excused(n, c) == Underway(n) \/ file[n] = c \/ LastPushIs(Inbox(n), c)

Missing(n) ==
    /\ cands[n].status # "none" /\ cands[n].account # Shared
    /\ truths[cands[n].account] # NoTruth
    /\ Stale(cands, n, truths[cands[n].account].cred)

NoneMissedInv ==
    ~ load.diskFails =>
        \A n \in Node : Missing(n) => Excused(n, truths[cands[n].account].cred)

\* An ack names no account, a report carries a credential.
PlainMsg == {m \in ToServer : m.kind = "ack" => m.account = Shared}

PlainAck    == {m \in AckMsg : m.account = Shared}
PlainReport == {m \in ReportMsg : m.body \in Cred}

PlainInv ==
    /\ OnWire(PlainMsg, ToClient)
    /\ acks \in Seq(PlainAck)
    /\ reports \in Seq(PlainReport)

\* The table names sessions that are served; an agent's session has been.
TableInv ==
    \A n \in Node :
        /\ current[n] # 0 => current[n] \in 1..MaxConn /\ serve[<<n, current[n]>>] = "reading"
        /\ link[n] # 0 => serve[<<n, link[n]>>] # "idle"

-----------------------------------------------------------------------------
(* Queues. *)

LEMMA TellingQueue ==
    ASSUME NEW M, NEW q \in Seq(M)
    PROVE  /\ \A m \in M : Telling(q) \/ Tells(m) => Telling(Append(q, m))
           /\ q # <<>> /\ Telling(q) => Tells(Head(q)) \/ Telling(Tail(q))
<1>1. ASSUME NEW m \in M, Telling(q) \/ Tells(m)
      PROVE  Telling(Append(q, m))
    <2>1. /\ Len(Append(q, m)) = Len(q) + 1 /\ Len(q) \in Nat
          /\ Append(q, m)[Len(q) + 1] = m
          /\ \A i \in 1..Len(q) : Append(q, m)[i] = q[i]
        OBVIOUS
    <2>2. CASE Telling(q)
        BY <2>1, <2>2 DEF Telling
    <2>3. CASE Tells(m)
        <3>1. Len(q) + 1 \in 1..Len(Append(q, m))
            BY <2>1
        <3> QED
            BY <2>1, <2>3, <3>1 DEF Telling
    <2> QED
        BY <1>1, <2>2, <2>3
<1>2. ASSUME q # <<>>, Telling(q)
      PROVE  Tells(Head(q)) \/ Telling(Tail(q))
    <2>1. PICK i \in 1..Len(q) : Tells(q[i])
        BY <1>2 DEF Telling
    <2>2. CASE i = 1
        BY <1>2, <2>1, <2>2
    <2>3. CASE i # 1
        <3>1. i - 1 \in 1..Len(Tail(q)) /\ Tail(q)[i - 1] = q[i]
            BY <1>2, <2>3
        <3> QED
            BY <2>1, <3>1 DEF Telling
    <2> QED
        BY <2>2, <2>3
<1> QED
    BY <1>1, <1>2

LEMMA MentionsQueue ==
    ASSUME NEW M, NEW q \in Seq(M), NEW m \in M, NEW n
    PROVE  Mentions(q, n) \/ m.node = n => Mentions(Append(q, m), n)
<1>1. /\ Len(Append(q, m)) = Len(q) + 1 /\ Len(q) \in Nat
      /\ Append(q, m)[Len(q) + 1] = m
      /\ \A i \in 1..Len(q) : Append(q, m)[i] = q[i]
    OBVIOUS
<1>2. CASE Mentions(q, n)
    BY <1>1, <1>2 DEF Mentions
<1>3. CASE m.node = n
    <2>1. Len(q) + 1 \in 1..Len(Append(q, m))
        BY <1>1
    <2> QED
        BY <1>1, <1>3, <2>1 DEF Mentions
<1> QED
    BY <1>2, <1>3

LEMMA LastPushQueue ==
    ASSUME NEW M, NEW q \in Seq(M), NEW c
    PROVE  /\ \A m \in M : LastPushIs(q, c) /\ m.kind # "push" => LastPushIs(Append(q, m), c)
           /\ \A m \in M : m.kind = "push" /\ m.cred = c => LastPushIs(Append(q, m), c)
           /\ q # <<>> /\ LastPushIs(q, c)
                => LastPushIs(Tail(q), c) \/ (Head(q).kind = "push" /\ Head(q).cred = c)
<1>1. ASSUME NEW m \in M
      PROVE  /\ Len(Append(q, m)) = Len(q) + 1 /\ Len(q) \in Nat
             /\ Append(q, m)[Len(q) + 1] = m
             /\ \A i \in 1..Len(q) : Append(q, m)[i] = q[i]
    OBVIOUS
<1>2. ASSUME NEW m \in M, LastPushIs(q, c), m.kind # "push"
      PROVE  LastPushIs(Append(q, m), c)
    <2>1. PICK i \in 1..Len(q) :
              /\ q[i].kind = "push" /\ q[i].cred = c
              /\ \A j \in 1..Len(q) : j > i => q[j].kind # "push"
        BY <1>2 DEF LastPushIs
    <2>2. i \in 1..Len(Append(q, m)) /\ Append(q, m)[i] = q[i]
        BY <1>1
    <2>3. ASSUME NEW j \in 1..Len(Append(q, m)), j > i
          PROVE  Append(q, m)[j].kind # "push"
        <3>1. CASE j \in 1..Len(q)
            BY <1>1, <2>1, <2>3, <3>1
        <3>2. CASE j = Len(q) + 1
            BY <1>1, <1>2, <3>2
        <3> QED
            BY <1>1, <3>1, <3>2
    <2> QED
        BY <2>1, <2>2, <2>3 DEF LastPushIs
<1>3. ASSUME NEW m \in M, m.kind = "push", m.cred = c
      PROVE  LastPushIs(Append(q, m), c)
    <2>1. Len(q) + 1 \in 1..Len(Append(q, m))
        BY <1>1
    <2>2. \A j \in 1..Len(Append(q, m)) : ~ j > Len(q) + 1
        BY <1>1
    <2> QED
        BY <1>1, <1>3, <2>1, <2>2 DEF LastPushIs
<1>4. ASSUME q # <<>>, LastPushIs(q, c)
      PROVE  LastPushIs(Tail(q), c) \/ (Head(q).kind = "push" /\ Head(q).cred = c)
    <2>1. PICK i \in 1..Len(q) :
              /\ q[i].kind = "push" /\ q[i].cred = c
              /\ \A j \in 1..Len(q) : j > i => q[j].kind # "push"
        BY <1>4 DEF LastPushIs
    <2>2. CASE i = 1
        BY <1>4, <2>1, <2>2
    <2>3. CASE i # 1
        <3>1. i - 1 \in 1..Len(Tail(q)) /\ Tail(q)[i - 1] = q[i]
            BY <1>4, <2>3
        <3>2. ASSUME NEW j \in 1..Len(Tail(q)), j > i - 1
              PROVE  Tail(q)[j].kind # "push"
            <4>1. j + 1 \in 1..Len(q) /\ j + 1 > i /\ Tail(q)[j] = q[j + 1]
                BY <1>4, <3>2
            <4> QED
                BY <2>1, <4>1
        <3> QED
            BY <2>1, <3>1, <3>2 DEF LastPushIs
    <2> QED
        BY <2>2, <2>3
<1> QED
    BY <1>2, <1>3, <1>4

-----------------------------------------------------------------------------
(* What is under way is well formed, and who is in the table. *)

LEMMA PlainHandled ==
    ASSUME PlainInv, NEW n \in Node, NEW msg \in PlainMsg, HandleMsg(n, msg)
    PROVE  acks' \in Seq(PlainAck) /\ reports' \in Seq(PlainReport)
<1>1. CASE msg.kind = "report" /\ HandleReport(n, msg.account, msg.body, "none")
    <2> DEFINE r == [node |-> n, account |-> msg.account, body |-> msg.body, live |-> "none"]
    <2>1. msg.account \in Account /\ msg.body \in Cred
        BY <1>1 DEF PlainMsg, ToServer
    <2>2. r \in PlainReport
        BY <2>1, SyncAssumption DEF PlainReport, ReportMsg, Body
    <2>3. reports' = Append(reports, r) /\ acks' = acks
        BY <1>1 DEF HandleReport
    <2> HIDE DEF r
    <2> QED
        BY <2>2, <2>3 DEF PlainInv
<1>2. CASE msg.kind = "absent" /\ HandleAbsent(n, msg.account)
    BY <1>2 DEF HandleAbsent, PlainInv
<1>3. CASE msg.kind = "ack" /\ HandleAck(n, msg.account)
    <2> DEFINE m == [node |-> n, account |-> msg.account]
    <2>1. msg.account = Shared
        BY <1>3 DEF PlainMsg
    <2>2. m \in PlainAck
        BY <2>1, SyncAssumption DEF PlainAck, AckMsg
    <2>3. acks' = Append(acks, m) /\ reports' = reports
        BY <1>3 DEF HandleAck
    <2> HIDE DEF m
    <2> QED
        BY <2>2, <2>3 DEF PlainInv
<1> QED
    BY <1>1, <1>2, <1>3 DEF HandleMsg

LEMMA PlainStep ==
    ASSUME SyncTypeInv, PlainInv, [SyncNext]_syncVars
    PROVE  PlainInv'
<1>1. ASSUME NEW n \in Node, Cli(n) \/ Agent(n)
      PROVE  PlainInv'
    <2>1. CurrentState(n) \in PlainMsg /\ [kind |-> "ack", account |-> Shared] \in PlainMsg
        <3>1. CurrentState(n).kind # "ack"
            BY DEF CurrentState
        <3> QED
            BY <3>1, CurrentStateType, SyncAssumption DEF SyncTypeInv, ToServer, PlainMsg
    <2>2. OnWire(PlainMsg, ToClient)'
        BY <1>1, <2>1, WireAgent DEF PlainInv
    <2>3. UNCHANGED <<reports, acks>>
        BY <1>1, AgentsLeaveServer DEF vars, ingressVars
    <2> QED
        BY <2>2, <2>3 DEF PlainInv
<1>2. ASSUME NEW n \in Node, Server(n)
      PROVE  PlainInv'
    <2>1. [kind |-> "welcome"] \in ToClient
        BY DEF ToClient
    <2> QED
        BY <1>2, <2>1, WireSession, PlainHandled DEF PlainInv
<1>3. SyncTypeOK'
    BY SyncTypeStep DEF SyncTypeInv
<1>4. ASSUME \/ Mediate(OnReport) \/ Mediate(OnAbsent)
             \/ Mediate(OnAck) \/ Mediate(OnDisconnect)
      PROVE  PlainInv'
    <2>1. OnWire(PlainMsg, ToClient)'
        BY <1>3, <1>4 DEF Mediate, agentVars, serveVars, PlainInv, OnWire, SyncTypeOK
    <2>2. /\ acks' = acks \/ (acks # <<>> /\ acks' = Tail(acks))
          /\ reports' = reports \/ (reports # <<>> /\ reports' = Tail(reports))
        BY <1>4 DEF Mediate, OnReport, OnAbsent, OnAck, OnDisconnect
    <2>3. \A M : \A q \in Seq(M) : q # <<>> => Tail(q) \in Seq(M)
        OBVIOUS
    <2>4. acks \in Seq(PlainAck) /\ reports \in Seq(PlainReport)
        BY DEF PlainInv
    <2>5. acks' \in Seq(PlainAck)
        BY <2>2, <2>3, <2>4
    <2>6. reports' \in Seq(PlainReport)
        BY <2>2, <2>3, <2>4
    <2> QED
        BY <2>1, <2>5, <2>6 DEF PlainInv
<1>5. CASE RequestSnapshot \/ Clock \/ UNCHANGED syncVars
    <2>1. UNCHANGED <<c2s, hand, answer, acks, reports>>
        BY <1>5 DEF RequestSnapshot, Clock, Tick, syncVars, vars, ingressVars, agentVars,
                    serveVars, wireVars
    <2> QED
        BY <1>3, <2>1 DEF PlainInv, OnWire, SyncTypeOK
<1> QED
    BY <1>1, <1>2, <1>4, <1>5 DEF SyncNext

\* The agents' steps and the rest of the server's.
LEMMA LinkKept ==
    ASSUME NEW n \in Node, Cli(n) \/ Agent(n)
    PROVE  link' = link \/ link' = [link EXCEPT ![n] = 0]
BY DEF Cli, Refresh, Login, LoginMeta, Logout, Agent, Watch, Dial, GiveUp, AwaitKind,
       FlushPending, WriteLoop, HandlePush, HandleRequest, SendAnswer, Lose, Notice,
       Disconnected, agentVars

LEMMA TableStep ==
    ASSUME SyncTypeInv, TableInv, [SyncNext]_syncVars
    PROVE  TableInv'
<1>0. /\ current \in [Node -> 0..MaxConn] /\ link \in [Node -> 0..MaxConn] /\ MaxConn \in Nat
      /\ serve \in [Conn -> {"idle", "reading", "leaving", "gone"}]
      /\ \A n \in Node, k \in 1..MaxConn : <<n, k>> \in Conn
    BY MediatorAssumption DEF SyncTypeInv, SyncTypeOK, TypeInv, TypeOK, Conn
<1>1. ASSUME NEW n \in Node, Cli(n) \/ Agent(n)
      PROVE  TableInv'
    <2>1. UNCHANGED <<current, serve>>
        BY <1>1, AgentsLeaveServer DEF vars, hubVars
    <2> QED
        BY <1>0, <1>1, <2>1, LinkKept DEF TableInv
<1>2. ASSUME NEW n \in Node, NEW k \in 1..MaxConn, ServeHello(n, k) \/ ServeLateHello(n, k)
      PROVE  TableInv'
    <2>1. /\ serve[<<n, k>>] = "idle" /\ serve' = [serve EXCEPT ![<<n, k>>] = "reading"]
          /\ current' = [current EXCEPT ![n] = k]
          /\ link' = link \/ link' = [link EXCEPT ![n] = k]
        BY <1>2 DEF ServeHello, ServeLateHello, Greets, Register
    <2>2. ASSUME NEW s \in Conn
          PROVE  /\ serve[s] = "reading" => serve'[s] = "reading"
                 /\ serve[s] # "idle" => serve'[s] # "idle"
        BY <1>0, <2>1
    <2>3. serve'[<<n, k>>] = "reading"
        BY <1>0, <2>1
    <2>4. ASSUME NEW m \in Node, current'[m] # 0
          PROVE  current'[m] \in 1..MaxConn /\ serve'[<<m, current'[m]>>] = "reading"
        <3>1. CASE m = n
            BY <1>0, <2>1, <2>3, <3>1
        <3>2. CASE m # n
            BY <1>0, <2>1, <2>2, <2>4, <3>2 DEF TableInv
        <3> QED
            BY <3>1, <3>2
    <2>5. ASSUME NEW m \in Node, link'[m] # 0
          PROVE  serve'[<<m, link'[m]>>] # "idle"
        <3>1. CASE link'[m] = link[m]
            <4>1. link[m] \in 1..MaxConn
                BY <1>0, <2>5, <3>1
            <4> QED
                BY <1>0, <2>2, <2>5, <3>1, <4>1 DEF TableInv
        <3>2. CASE link'[m] # link[m]
            <4>1. m = n /\ link'[m] = k
                BY <1>0, <2>1, <3>2
            <4> QED
                BY <2>3, <4>1
        <3> QED
            BY <3>1, <3>2
    <2> QED
        BY <2>4, <2>5 DEF TableInv
<1>3. ASSUME NEW n \in Node, NEW k \in 1..MaxConn, EndSession(n, k)
      PROVE  TableInv'
    <2>1. /\ serve[<<n, k>>] = "reading" /\ link' = link
          /\ \/ /\ current' = [current EXCEPT ![n] = 0]
                /\ serve' = [serve EXCEPT ![<<n, k>>] = "leaving"]
             \/ /\ current[n] # k /\ current' = current
                /\ serve' = [serve EXCEPT ![<<n, k>>] = "gone"]
        BY <1>3 DEF EndSession, Unregister, agentVars
    <2>2. ASSUME NEW s \in Conn
          PROVE  /\ s # <<n, k>> => serve'[s] = serve[s]
                 /\ serve[s] # "idle" => serve'[s] # "idle"
        BY <1>0, <2>1
    <2>3. ASSUME NEW m \in Node, current'[m] # 0
          PROVE  current'[m] \in 1..MaxConn /\ serve'[<<m, current'[m]>>] = "reading"
        <3>1. current'[m] = current[m] /\ <<m, current[m]>> # <<n, k>>
            BY <1>0, <2>1, <2>3
        <3> QED
            BY <1>0, <2>2, <2>3, <3>1 DEF TableInv
    <2>4. ASSUME NEW m \in Node, link'[m] # 0
          PROVE  serve'[<<m, link'[m]>>] # "idle"
        <3>1. link[m] \in 1..MaxConn /\ link[m] # 0 /\ link'[m] = link[m]
            BY <1>0, <2>1, <2>4
        <3>2. <<m, link[m]>> \in Conn /\ serve[<<m, link[m]>>] # "idle"
            BY <1>0, <3>1 DEF TableInv
        <3> QED
            BY <2>2, <3>1, <3>2
    <2> QED
        BY <2>3, <2>4 DEF TableInv
<1>4. ASSUME NEW n \in Node, NEW k \in 1..MaxConn, TellMediator(n, k)
      PROVE  TableInv'
    <2>1. /\ serve[<<n, k>>] = "leaving" /\ link' = link /\ current' = current
          /\ serve' = [serve EXCEPT ![<<n, k>>] = "gone"]
        BY <1>4 DEF TellMediator, NotifyDisconnect, agentVars
    <2> QED
        BY <1>0, <2>1 DEF TableInv
<1>5. ASSUME NEW n \in Node, NEW k \in 1..MaxConn,
             SendWelcome(n, k) \/ HandleNext(n, k) \/ Block(n, k) \/ HandOver(n, k)
      PROVE  UNCHANGED <<current, serve, link>>
    BY <1>5 DEF SendWelcome, HandleNext, Block, HandOver, HandleMsg, HandleReport, HandleAbsent,
                HandleAck, vars, hubVars, agentVars
<1>6. ASSUME \/ Mediate(OnReport) \/ Mediate(OnAbsent)
             \/ Mediate(OnAck) \/ Mediate(OnDisconnect)
      PROVE  UNCHANGED <<current, serve, link>>
    BY <1>6 DEF Mediate, OnReport, OnAbsent, OnAck, OnDisconnect, hubVars, agentVars
<1>7. RequestSnapshot \/ Clock \/ UNCHANGED syncVars => UNCHANGED <<current, serve, link>>
    BY DEF RequestSnapshot, Clock, Tick, syncVars, vars, hubVars, agentVars
<1>8. UNCHANGED <<current, serve, link>> => TableInv'
    BY DEF TableInv
<1> QED
    BY <1>1, <1>2, <1>3, <1>4, <1>5, <1>6, <1>7, <1>8 DEF SyncNext, Server

-----------------------------------------------------------------------------
(* A reselect pushes the truth to every member that needs it. *)

LEMMA PushedToStale ==
    ASSUME TypeInv, Reselects, Cooldown = 0, SendsFail = FALSE,
           NEW n \in Node, NEW a \in Account,
           cands'[n].status # "none", cands'[n].account = a,
           truths'[a] # NoTruth, Stale(cands', n, truths'[a].cred), current[n] # 0
    PROVE  [node |-> n, conn |-> current[n], account |-> a, cred |-> truths'[a].cred] \in sent'
<1>1. PICK src \in Sources(cands') :
          /\ truths' = [b \in Account |-> NextTruth(cands', src, b)]
          /\ sent' = UNION {PushTruth(cands', src, b) : b \in Account}
    BY DEF Reselects, Reselect, Deliveries
<1>2. a \in DOMAIN src
    BY <1>1 DEF NextTruth
<1>3. ~ Suppressed(a, cands'[src[a]].cred)
    BY DEF Suppressed
<1>4. truths'[a].cred = cands'[src[a]].cred
    BY <1>1, <1>2, <1>3 DEF NextTruth, Changed
<1>5. n # src[a]
    <2> SUFFICES ASSUME n = src[a] PROVE FALSE
        OBVIOUS
    <2>1. n \in Viable(cands', a)
        BY <1>2, SourceFacts DEF Reselects
    <2>2. cands'[n].status # "absent"
        BY <2>1 DEF Viable, ViableStatus
    <2> QED
        BY <1>4, <2>2 DEF Stale
<1>6. n \in Targets(cands', src, a)
    BY <1>4, <1>5 DEF Targets
<1>7. [node |-> n, conn |-> current[n], account |-> a, cred |-> truths'[a].cred]
        \in PushTruth(cands', src, a)
    BY <1>2, <1>3, <1>4, <1>6 DEF PushTruth
<1> QED
    BY <1>1, <1>7

\* Everything sent to a node in one step is the truth of its account.
LEMMA SentIsTruth ==
    ASSUME TypeInv, Reselects, NEW p \in sent'
    PROVE  /\ p.node \in Node /\ p.account = cands'[p.node].account
           /\ p.cred = truths'[p.account].cred
<1>1. PICK src \in Sources(cands') :
          /\ truths' = [a \in Account |-> NextTruth(cands', src, a)]
          /\ sent' \subseteq UNION {PushTruth(cands', src, a) : a \in Account}
    BY ReselectDecides
<1>2. PICK a \in Account : p \in PushTruth(cands', src, a)
    BY <1>1
<1>3. /\ a \in DOMAIN src /\ p \in Push /\ p.account = a
      /\ p.cred = cands'[src[a]].cred /\ cands'[p.node].account = a
      /\ ~ Suppressed(a, cands'[src[a]].cred)
    BY <1>2, PushTruthFacts DEF Reselects
<1>4. NextTruth(cands', src, a).cred = cands'[src[a]].cred
    BY <1>3 DEF NextTruth, Changed
<1> QED
    BY <1>1, <1>3, <1>4 DEF Push

\* After a reselect, and whatever was under way before.
LEMMA ReselectExcuses ==
    ASSUME SyncTypeInv, Reselects, Cooldown = 0, SendsFail = FALSE,
           s2c' = [s \in Conn |-> Deliver(s)], link' = link, phase' = phase,
           NEW n \in Node, Missing(n)'
    PROVE  Excused(n, truths[cands[n].account].cred)'
<1> DEFINE a == cands'[n].account
           c == truths'[a].cred
           s == <<n, link[n]>>
<1>1. CASE current[n] # link[n] \/ phase[n] # "up"
    BY <1>1 DEF Reselects, hubVars, Excused, Underway
<1>2. CASE current[n] = link[n] /\ phase[n] = "up"
    <2>1. link[n] # 0 /\ s \in Conn
        BY <1>2, LinkConn DEF SyncTypeInv, LinkInv
    <2>2. a \in Account
        BY DEF Reselects, Candidate
    <2>3. [node |-> n, conn |-> current[n], account |-> a, cred |-> c] \in sent'
        BY <1>2, <2>1, <2>2, PushedToStale DEF SyncTypeInv, Missing
    <2>4. PushesTo(s) # {}
        BY <1>2, <2>3 DEF PushesTo
    <2> DEFINE p == CHOOSE q \in PushesTo(s) : TRUE
               m == [kind |-> "push", account |-> p.account, cred |-> p.cred]
    <2>5. p \in PushesTo(s)
        BY <2>4
    <2>6. p \in sent' /\ p.node = n
        BY <2>5 DEF PushesTo
    <2>7. p.account = a /\ p.cred = c
        BY <2>6, SentIsTruth DEF SyncTypeInv
    <2>8. s2c'[s] = Append(s2c[s], m)
        BY <2>1, <2>4 DEF Deliver
    <2> HIDE DEF p
    <2>9. c \in Cred
        <3>1. truths'[a].cred \in Cred
            BY <2>2, ReselectType DEF Reselects, SyncTypeInv, Missing
        <3> QED
            BY <3>1
    <2>10. m \in ToClient
        BY <2>2, <2>7, <2>9 DEF ToClient
    <2>11. s2c[s] \in Seq(ToClient)
        BY <2>1 DEF SyncTypeInv, SyncTypeOK
    <2>12. LastPushIs(Append(s2c[s], m), c)
        BY <2>7, <2>10, <2>11, LastPushQueue
    <2>13. LastPushIs(s2c'[s], c)
        BY <2>8, <2>12
    <2> QED
        BY <2>13 DEF Excused, Inbox
<1> QED
    BY <1>1, <1>2

-----------------------------------------------------------------------------
(* A reason does not go away until the next reselect gives a new one. *)

\* The parts of a connected node that a reason is about.
Same(m) ==
    /\ phase'[m] = phase[m] /\ link'[m] = link[m]
    /\ dirty'[m] = dirty[m] /\ pending'[m] = pending[m] /\ file'[m] = file[m]
    /\ c2s'[Line(m)] = c2s[Line(m)] /\ s2c'[Line(m)] = s2c[Line(m)]
    /\ hand'[Line(m)] = hand[Line(m)]

LEMMA SameExcused ==
    ASSUME NEW m, NEW c, Excused(m, c), Same(m), current'[m] = current[m],
           Mentions(reports, m) => Mentions(reports', m),
           Mentions(absents, m) => Mentions(absents', m)
    PROVE  Excused(m, c)'
BY DEF Excused, Underway, Same, Line, Inbox

LEMMA UpLine ==
    ASSUME SyncTypeInv, NEW n \in Node, phase[n] = "up"
    PROVE  /\ link[n] # 0 /\ link[n] \in 1..MaxConn /\ Line(n) \in Conn
           /\ c2s[Line(n)] \in Seq(ToServer) /\ s2c[Line(n)] \in Seq(ToClient)
<1>1. link[n] # 0 /\ link[n] \in 0..MaxConn /\ MaxConn \in Nat
    BY MediatorAssumption DEF SyncTypeInv, SyncTypeOK, LinkInv
<1>2. Line(n) \in Conn
    BY <1>1, LinkConn DEF SyncTypeInv, Line
<1> QED
    BY <1>1, <1>2 DEF SyncTypeInv, SyncTypeOK

\* What one node does leaves the others alone.
LEMMA OthersSame ==
    ASSUME SyncTypeInv, NEW n \in Node, Cli(n) \/ Agent(n),
           NEW m \in Node, m # n, phase[m] = "up"
    PROVE  Same(m)
<1>0. /\ Line(m) \in Conn /\ Line(m) # Line(n)
      /\ SyncTypeOK
    BY UpLine DEF Line, SyncTypeInv
<1> USE DEF Same, SyncTypeOK
<1>1. CASE Cli(n)
    BY <1>0, <1>1 DEF Cli, Refresh, Login, LoginMeta, Logout, Write, agentVars, serveVars, wireVars
<1>2. CASE Watch(n) \/ Dial(n) \/ GiveUp(n)
    BY <1>0, <1>2 DEF Watch, Dial, GiveUp, fileVars, serveVars, wireVars
<1>3. CASE AwaitKind(n) \/ HandleRequest(n)
    BY <1>0, <1>3 DEF AwaitKind, HandleRequest, Receives, Takes, Line, fileVars, serveVars
<1>4. CASE FlushPending(n) \/ WriteLoop(n) \/ SendAnswer(n)
    <2>1. c2s'[Line(m)] = c2s[Line(m)]
        BY <1>0, <1>4 DEF FlushPending, WriteLoop, SendAnswer, Send, Line
    <2> QED
        BY <1>0, <1>4, <2>1 DEF FlushPending, WriteLoop, SendAnswer, fileVars, serveVars
<1>5. CASE HandlePush(n)
    <2>1. c2s'[Line(m)] = c2s[Line(m)]
        BY <1>0, <1>5 DEF HandlePush, Send, Line
    <2>2. s2c'[Line(m)] = s2c[Line(m)]
        BY <1>0, <1>5 DEF HandlePush, Receives, Takes, Line
    <2>3. file'[m] = file[m] /\ dirty'[m] = dirty[m]
        BY <1>0, <1>5 DEF HandlePush, ApplyTruth, Write
    <2> QED
        BY <1>5, <2>1, <2>2, <2>3 DEF HandlePush, agentVars, serveVars
<1>6. CASE Lose(n) \/ Notice(n)
    BY <1>0, <1>6 DEF Lose, Notice, Disconnected, Line, fileVars, serveVars
<1> QED
    BY <1>1, <1>2, <1>3, <1>4, <1>5, <1>6 DEF Agent

\* What an agent sends over a session that is read is on its way; a session that
\* is not read is not in the table.
LEMMA SendTells ==
    ASSUME SyncTypeInv, TableInv, NEW n \in Node, link[n] # 0, NEW msg \in ToServer,
           Tells(msg), Send(n, msg)
    PROVE  current[n] # link[n] \/ Telling(c2s'[Line(n)])
<1>1. CASE serve[Line(n)] = "reading"
    <2>1. Line(n) \in Conn /\ c2s[Line(n)] \in Seq(ToServer)
        BY LinkConn DEF Line, SyncTypeInv, SyncTypeOK
    <2>2. c2s'[Line(n)] = Append(c2s[Line(n)], msg)
        BY <1>1, <2>1 DEF Send, Line, SyncTypeInv, SyncTypeOK
    <2> QED
        BY <2>1, <2>2, TellingQueue
<1>2. CASE serve[Line(n)] # "reading"
    BY <1>2 DEF TableInv, Line
<1> QED
    BY <1>1, <1>2

\* The acks and answers an agent sends do not hide what it sent before.
LEMMA SendKeeps ==
    ASSUME SyncTypeInv, NEW n \in Node, phase[n] = "up", NEW msg \in ToServer,
           Send(n, msg), Telling(c2s[Line(n)])
    PROVE  Telling(c2s'[Line(n)])
<1>1. CASE c2s' = c2s
    BY <1>1
<1>2. CASE c2s' = [c2s EXCEPT ![Line(n)] = Append(@, msg)]
    <2>1. c2s'[Line(n)] = Append(c2s[Line(n)], msg)
        BY <1>2, UpLine DEF SyncTypeInv, SyncTypeOK
    <2> QED
        BY <2>1, UpLine, TellingQueue
<1> QED
    BY <1>1, <1>2 DEF Send, Line

LEMMA AgentExcuses ==
    ASSUME SyncTypeInv, TableInv, ~ load.diskFails,
           NEW n \in Node, Cli(n) \/ Agent(n),
           NEW m \in Node, NEW c, Excused(m, c)
    PROVE  Excused(m, c)'
<1>0. /\ SyncTypeOK
      /\ UNCHANGED <<current, reports, absents>>
    BY AgentsLeaveServer DEF SyncTypeInv, vars, hubVars, ingressVars
<1>1. CASE m # n
    <2>1. CASE phase[m] = "up"
        BY <1>0, <1>1, <2>1, OthersSame, SameExcused
    <2>2. CASE phase[m] # "up"
        <3>1. phase'[m] = phase[m]
            BY <1>0, <1>1 DEF SyncTypeOK, Cli, Refresh, Login, LoginMeta, Logout, Agent, Watch,
               Dial, GiveUp, AwaitKind, FlushPending, WriteLoop, HandlePush, HandleRequest,
               SendAnswer, Lose, Notice, Disconnected, agentVars
        <3> QED
            BY <2>2, <3>1 DEF Excused, Underway
    <2> QED
        BY <2>1, <2>2
<1>2. CASE m = n
    <2> USE <1>2
    <2>1. CASE Cli(n)
        <3>1. dirty'[n] = TRUE
            BY <1>0, <2>1 DEF Cli, Refresh, Login, LoginMeta, Logout, Write, SyncTypeOK
        <3> QED
            BY <3>1 DEF Excused, Underway
    <2>2. CASE Watch(n)
        <3>1. pending'[n] = TRUE
            BY <1>0, <2>2 DEF Watch, SyncTypeOK
        <3> QED
            BY <3>1 DEF Excused, Underway
    <2>3. CASE Dial(n) \/ GiveUp(n) \/ AwaitKind(n) \/ Lose(n) \/ Notice(n)
        <3>1. phase'[n] # "up"
            BY <1>0, <2>3 DEF Dial, GiveUp, AwaitKind, Lose, Notice, Disconnected, SyncTypeOK
        <3> QED
            BY <3>1 DEF Excused, Underway
    <2>4. CASE FlushPending(n) \/ WriteLoop(n)
        <3>1. link[n] # 0 /\ Send(n, CurrentState(n)) /\ link' = link
            BY <2>4 DEF FlushPending, WriteLoop, SyncTypeInv, LinkInv
        <3>2. CurrentState(n) \in ToServer /\ Tells(CurrentState(n))
            BY <1>0, CurrentStateType DEF CurrentState, Tells
        <3>3. current[n] # link[n] \/ Telling(c2s'[Line(n)])
            BY <3>1, <3>2, SendTells
        <3> QED
            BY <1>0, <3>1, <3>3 DEF Excused, Underway, Line
    <2>5. CASE HandlePush(n) \/ HandleRequest(n) \/ SendAnswer(n)
        <3>1. CASE phase[n] # "up"
            <4>1. phase' = phase
                BY <2>5 DEF HandlePush, HandleRequest, SendAnswer, agentVars
            <4> QED
                BY <3>1, <4>1 DEF Excused, Underway
        <3>2. CASE phase[n] = "up"
            <4>1. UNCHANGED <<phase, link, pending, hand>>
                BY <2>5 DEF HandlePush, HandleRequest, SendAnswer, agentVars, serveVars
            <4>2. dirty[n] => dirty'[n]
                BY <1>0, <2>5 DEF HandlePush, ApplyTruth, Write, HandleRequest, SendAnswer,
                                  fileVars, SyncTypeOK
            <4>3. Telling(c2s[Line(n)]) => Telling(c2s'[Line(n)])
                <5>1. CASE HandlePush(n)
                    <6>1. [kind |-> "ack", account |-> Shared] \in ToServer
                        BY SyncAssumption DEF ToServer
                    <6> QED
                        BY <3>2, <5>1, <6>1, SendKeeps DEF HandlePush
                <5>2. CASE HandleRequest(n)
                    BY <5>2 DEF HandleRequest
                <5>3. CASE SendAnswer(n)
                    <6>1. answer[n] \in ToServer
                        BY <1>0, <5>3 DEF SendAnswer, SyncTypeOK
                    <6> QED
                        BY <3>2, <5>3, <6>1, SendKeeps DEF SendAnswer
                <5> QED
                    BY <2>5, <5>1, <5>2, <5>3
            <4>4. file[n] = c => file'[n] = c \/ dirty'[n]
                BY <1>0, <2>5 DEF HandlePush, ApplyTruth, Write, HandleRequest, SendAnswer,
                                  fileVars, SyncTypeOK
            <4>5. LastPushIs(Inbox(n), c) => LastPushIs(Inbox(n), c)' \/ file'[n] = c
                <5>1. Line(n) \in Conn /\ s2c[Line(n)] \in Seq(ToClient)
                    BY <3>2, UpLine
                <5>2. CASE SendAnswer(n)
                    BY <5>2 DEF SendAnswer, Inbox
                <5>3. CASE HandlePush(n) \/ HandleRequest(n)
                    <6>1. Inbox(n) # <<>> /\ s2c'[Line(n)] = Tail(Inbox(n))
                        BY <1>0, <5>1, <5>3 DEF HandlePush, HandleRequest, Receives, Takes,
                                                Inbox, Line, SyncTypeOK
                    <6>2. ASSUME LastPushIs(Inbox(n), c)
                          PROVE  \/ LastPushIs(Tail(Inbox(n)), c)
                                 \/ Head(Inbox(n)).kind = "push" /\ Head(Inbox(n)).cred = c
                        BY <5>1, <6>1, <6>2, LastPushQueue DEF Inbox, Line
                    <6>3. ASSUME Head(Inbox(n)).kind = "push", Head(Inbox(n)).cred = c
                          PROVE  file'[n] = c
                        <7>1. HandlePush(n)
                            BY <5>3, <6>3 DEF HandleRequest, Receives
                        <7> QED
                            BY <1>0, <6>3, <7>1 DEF HandlePush, ApplyTruth, Write, SyncTypeOK
                    <6>4. Inbox(n)' = Tail(Inbox(n))
                        BY <4>1, <6>1 DEF Inbox, Line
                    <6> QED
                        BY <6>2, <6>3, <6>4
                <5> QED
                    BY <2>5, <5>2, <5>3
            <4> QED
                BY <1>0, <4>1, <4>2, <4>3, <4>4, <4>5 DEF Excused, Underway, Line
        <3> QED
            BY <3>1, <3>2
    <2> QED
        BY <2>1, <2>2, <2>3, <2>4, <2>5 DEF Agent
<1> QED
    BY <1>1, <1>2
\* The parts of a reason, one by one.
LEMMA StillExcused ==
    ASSUME NEW m, NEW c, Excused(m, c),
           phase'[m] = phase[m], link'[m] = link[m], file'[m] = file[m],
           dirty'[m] = dirty[m], pending'[m] = pending[m],
           current'[m] = current[m] \/ current'[m] # link[m],
           Telling(c2s[Line(m)]) => Underway(m)',
           hand[Line(m)] # NoMsg /\ Tells(hand[Line(m)]) => Underway(m)',
           Mentions(reports, m) => Mentions(reports', m),
           Mentions(absents, m) => Mentions(absents', m),
           LastPushIs(Inbox(m), c) => LastPushIs(Inbox(m), c)' \/ Underway(m)'
    PROVE  Excused(m, c)'
<1>1. CASE file[m] = c \/ LastPushIs(Inbox(m), c)
    BY <1>1 DEF Excused
<1>2. CASE Underway(m)
    <2>1. \/ Telling(c2s[Line(m)]) \/ (hand[Line(m)] # NoMsg /\ Tells(hand[Line(m)]))
          \/ phase[m] # "up" \/ current[m] # link[m] \/ dirty[m] \/ pending[m]
          \/ Mentions(reports, m) \/ Mentions(absents, m)
        BY <1>2 DEF Underway
    <2>2. Underway(m)'
        BY <2>1 DEF Underway
    <2> QED
        BY <2>2 DEF Excused
<1> QED
    BY <1>1, <1>2 DEF Excused

\* What a session hands over, the mediator will find in its channel.
LEMMA HandedMentions ==
    ASSUME SyncTypeInv, NEW n \in Node, NEW msg \in ToServer, HandleMsg(n, msg)
    PROVE  /\ \A m \in Node : /\ Mentions(reports, m) => Mentions(reports', m)
                              /\ Mentions(absents, m) => Mentions(absents', m)
           /\ Tells(msg) => Mentions(reports', n) \/ Mentions(absents', n)
           /\ current' = current
<1>0. reports \in Seq(ReportMsg) /\ absents \in Seq(AbsentMsg)
    BY DEF SyncTypeInv, TypeInv, TypeOK
<1>1. CASE msg.kind = "report" /\ HandleReport(n, msg.account, msg.body, "none")
    <2> DEFINE r == [node |-> n, account |-> msg.account, body |-> msg.body, live |-> "none"]
    <2>1. msg.account \in Account /\ msg.body \in Cred
        BY <1>1 DEF ToServer
    <2>2. r \in ReportMsg /\ r.node = n
        BY <2>1, SyncAssumption DEF ReportMsg, Body
    <2>3. reports' = Append(reports, r) /\ absents' = absents /\ current' = current
        BY <1>1 DEF HandleReport, hubVars
    <2> HIDE DEF r
    <2>4. \A m \in Node : Mentions(reports, m) \/ r.node = m => Mentions(Append(reports, r), m)
        BY <1>0, <2>2, MentionsQueue
    <2> QED
        BY <2>2, <2>3, <2>4
<1>2. CASE msg.kind = "absent" /\ HandleAbsent(n, msg.account)
    <2> DEFINE r == [node |-> n, account |-> msg.account]
    <2>1. msg.account \in Account
        BY <1>2 DEF ToServer
    <2>2. r \in AbsentMsg /\ r.node = n
        BY <2>1 DEF AbsentMsg
    <2>3. absents' = Append(absents, r) /\ reports' = reports /\ current' = current
        BY <1>2 DEF HandleAbsent, hubVars
    <2> HIDE DEF r
    <2>4. \A m \in Node : Mentions(absents, m) \/ r.node = m => Mentions(Append(absents, r), m)
        BY <1>0, <2>2, MentionsQueue
    <2> QED
        BY <2>2, <2>3, <2>4
<1>3. CASE msg.kind = "ack" /\ HandleAck(n, msg.account)
    BY <1>3 DEF HandleAck, hubVars, Tells
<1> QED
    BY <1>1, <1>2, <1>3 DEF HandleMsg

LEMMA SessionExcuses ==
    ASSUME SyncTypeInv, TableInv, NEW n \in Node, NEW k \in 1..MaxConn,
           \/ ServeHello(n, k) \/ ServeLateHello(n, k) \/ SendWelcome(n, k)
           \/ HandleNext(n, k) \/ Block(n, k) \/ HandOver(n, k)
           \/ EndSession(n, k) \/ TellMediator(n, k),
           NEW m \in Node, NEW c, Excused(m, c)
    PROVE  Excused(m, c)'
<1>0. /\ SyncTypeOK /\ <<n, k>> \in Conn
      /\ current \in [Node -> 0..MaxConn]
    BY DEF SyncTypeInv, TypeInv, TypeOK, Conn
<1>1. UNCHANGED <<phase, file, dirty, pending>>
    BY DEF ServeHello, ServeLateHello, Greets, SendWelcome, HandleNext, Block, HandOver,
           EndSession, TellMediator, fileVars, agentVars
<1>2. CASE phase[m] # "up"
    BY <1>1, <1>2 DEF Excused, Underway
<1>3. CASE phase[m] = "up"
    <2>0. /\ link[m] \in 1..MaxConn /\ link[m] # 0 /\ Line(m) \in Conn
          /\ c2s[Line(m)] \in Seq(ToServer) /\ s2c[Line(m)] \in Seq(ToClient)
          /\ (Line(m) = <<n, k>> => m = n /\ link[m] = k)
        BY <1>3, UpLine DEF Line
    <2>1. ASSUME ServeHello(n, k) \/ ServeLateHello(n, k)
          PROVE  Excused(m, c)'
        <3>1. /\ UNCHANGED <<reports, absents, hand, c2s, s2c>>
              /\ serve[<<n, k>>] = "idle" /\ current' = [current EXCEPT ![n] = k]
            BY <2>1 DEF ServeHello, ServeLateHello, Greets, Register, ingressVars
        <3>2. link'[m] = link[m]
            BY <1>0, <1>3, <2>1 DEF ServeHello, ServeLateHello, AwaitsSession, SyncTypeOK
        <3>3. current'[m] = current[m] \/ current'[m] # link[m]
            <4>1. CASE m = n
                <5>1. serve[<<n, link[n]>>] # "idle"
                    BY <2>0, <4>1 DEF TableInv
                <5> QED
                    BY <1>0, <3>1, <4>1, <5>1
            <4>2. CASE m # n
                BY <1>0, <3>1, <4>2
            <4> QED
                BY <4>1, <4>2
        <3>4. Line(m)' = Line(m)
            BY <3>2 DEF Line
        <3> QED
            BY <1>1, <3>1, <3>2, <3>3, <3>4, StillExcused DEF Underway, Inbox, Line
    <2>2. ASSUME SendWelcome(n, k)
          PROVE  Excused(m, c)'
        <3>1. UNCHANGED <<reports, absents, hand, c2s, current, link>>
            BY <2>2 DEF SendWelcome, vars, ingressVars, hubVars, agentVars
        <3>2. LastPushIs(Inbox(m), c) => LastPushIs(Inbox(m), c)'
            <4>1. CASE s2c'[Line(m)] = s2c[Line(m)]
                BY <3>1, <4>1 DEF Inbox, Line
            <4>2. CASE s2c'[Line(m)] # s2c[Line(m)]
                <5> DEFINE w == [kind |-> "welcome"]
                <5>1. s2c' = s2c \/ s2c' = [s2c EXCEPT ![<<n, k>>] = Append(@, w)]
                    BY <2>2 DEF SendWelcome
                <5>2. s2c'[Line(m)] = Append(s2c[Line(m)], w)
                    BY <1>0, <2>0, <4>2, <5>1 DEF SyncTypeOK
                <5>3. w \in ToClient /\ w.kind # "push"
                    BY DEF ToClient
                <5> HIDE DEF w
                <5>4. LastPushIs(s2c[Line(m)], c) => LastPushIs(Append(s2c[Line(m)], w), c)
                    BY <2>0, <5>3, LastPushQueue
                <5> QED
                    BY <3>1, <5>2, <5>4 DEF Inbox, Line
            <4> QED
                BY <4>1, <4>2
        <3>3. Line(m)' = Line(m)
            BY <3>1 DEF Line
        <3> QED
            BY <1>1, <3>1, <3>2, <3>3, StillExcused DEF Underway
    <2>3. ASSUME HandleNext(n, k)
          PROVE  Excused(m, c)'
        <3> DEFINE msg == Head(c2s[<<n, k>>])
        <3>1. /\ UNCHANGED <<hand, s2c, link>> /\ HandleMsg(n, msg)
              /\ ReadsNext(n, k) /\ c2s[<<n, k>>] # <<>>
              /\ c2s' = [c2s EXCEPT ![<<n, k>>] = Tail(@)]
            BY <2>3 DEF HandleNext, ReadsNext, agentVars, serveVars
        <3>2. msg \in ToServer
            BY <1>0, <3>1, NextMsgType
        <3> HIDE DEF msg
        <3>3. /\ Mentions(reports, m) => Mentions(reports', m)
              /\ Mentions(absents, m) => Mentions(absents', m)
              /\ Tells(msg) => Mentions(reports', n) \/ Mentions(absents', n)
              /\ current' = current
            BY <3>1, <3>2, HandedMentions
        <3>4. Line(m)' = Line(m) /\ Inbox(m)' = Inbox(m)
            BY <3>1 DEF Line, Inbox
        <3>5. Telling(c2s[Line(m)]) => Underway(m)'
            <4>1. CASE Line(m) # <<n, k>>
                <5>1. c2s'[Line(m)] = c2s[Line(m)]
                    BY <1>0, <2>0, <3>1, <4>1 DEF SyncTypeOK
                <5> QED
                    BY <3>4, <5>1 DEF Underway
            <4>2. CASE Line(m) = <<n, k>>
                <5>1. c2s'[Line(m)] = Tail(c2s[Line(m)]) /\ c2s[Line(m)] # <<>>
                    BY <1>0, <2>0, <3>1, <4>2 DEF SyncTypeOK
                <5>2. Telling(c2s[Line(m)])
                        => Tells(Head(c2s[Line(m)])) \/ Telling(Tail(c2s[Line(m)]))
                    BY <2>0, <5>1, TellingQueue
                <5>3. m = n /\ Head(c2s[Line(m)]) = msg
                    BY <2>0, <4>2 DEF msg
                <5> QED
                    BY <3>3, <3>4, <5>1, <5>2, <5>3 DEF Underway
            <4> QED
                BY <4>1, <4>2
        <3>6. hand[Line(m)] # NoMsg /\ Tells(hand[Line(m)]) => Underway(m)'
            BY <3>1, <3>4 DEF Underway
        <3> QED
            BY <1>1, <3>1, <3>3, <3>4, <3>5, <3>6, StillExcused
    <2>4. ASSUME Block(n, k)
          PROVE  Excused(m, c)'
        <3> DEFINE msg == Head(c2s[<<n, k>>])
        <3>1. /\ UNCHANGED <<s2c, link, reports, absents, current>>
              /\ ReadsNext(n, k) /\ c2s[<<n, k>>] # <<>> /\ hand[<<n, k>>] = NoMsg
              /\ c2s' = [c2s EXCEPT ![<<n, k>>] = Tail(@)]
              /\ hand' = [hand EXCEPT ![<<n, k>>] = msg]
            BY <2>4 DEF Block, ReadsNext, vars, ingressVars, hubVars, agentVars
        <3>2. msg \in ToServer
            BY <1>0, <3>1, NextMsgType
        <3> HIDE DEF msg
        <3>3. Line(m)' = Line(m) /\ Inbox(m)' = Inbox(m)
            BY <3>1 DEF Line, Inbox
        <3>4. CASE Line(m) # <<n, k>>
            <4>1. c2s'[Line(m)] = c2s[Line(m)] /\ hand'[Line(m)] = hand[Line(m)]
                BY <1>0, <2>0, <3>1, <3>4 DEF SyncTypeOK
            <4> QED
                BY <1>1, <3>1, <3>3, <4>1, StillExcused DEF Underway
        <3>5. CASE Line(m) = <<n, k>>
            <4>1. /\ c2s'[Line(m)] = Tail(c2s[Line(m)]) /\ c2s[Line(m)] # <<>>
                  /\ hand'[Line(m)] = msg /\ hand[Line(m)] = NoMsg
                BY <1>0, <2>0, <3>1, <3>5 DEF SyncTypeOK
            <4>2. Telling(c2s[Line(m)])
                    => Tells(Head(c2s[Line(m)])) \/ Telling(Tail(c2s[Line(m)]))
                BY <2>0, <4>1, TellingQueue
            <4>3. Head(c2s[Line(m)]) = msg /\ msg # NoMsg
                BY <3>2, <3>5 DEF msg, ToServer, NoMsg
            <4>4. Telling(c2s[Line(m)]) => Underway(m)'
                BY <3>3, <4>1, <4>2, <4>3 DEF Underway
            <4> QED
                BY <1>1, <3>1, <3>3, <4>1, <4>4, StillExcused
        <3> QED
            BY <3>4, <3>5
    <2>5. ASSUME HandOver(n, k)
          PROVE  Excused(m, c)'
        <3> DEFINE msg == hand[<<n, k>>]
        <3>1. /\ UNCHANGED <<c2s, s2c, link>> /\ HandleMsg(n, msg) /\ msg # NoMsg
              /\ hand' = [hand EXCEPT ![<<n, k>>] = NoMsg]
            BY <2>5 DEF HandOver, agentVars, wireVars
        <3>2. msg \in ToServer
            BY <1>0, <3>1, HeldMsgType
        <3> HIDE DEF msg
        <3>3. /\ Mentions(reports, m) => Mentions(reports', m)
              /\ Mentions(absents, m) => Mentions(absents', m)
              /\ Tells(msg) => Mentions(reports', n) \/ Mentions(absents', n)
              /\ current' = current
            BY <3>1, <3>2, HandedMentions
        <3>4. Line(m)' = Line(m) /\ Inbox(m)' = Inbox(m)
            BY <3>1 DEF Line, Inbox
        <3>5. Telling(c2s[Line(m)]) => Underway(m)'
            BY <3>1, <3>4 DEF Underway
        <3>6. hand[Line(m)] # NoMsg /\ Tells(hand[Line(m)]) => Underway(m)'
            <4>1. CASE Line(m) # <<n, k>>
                <5>1. hand'[Line(m)] = hand[Line(m)]
                    BY <1>0, <2>0, <3>1, <4>1 DEF SyncTypeOK
                <5> QED
                    BY <3>4, <5>1 DEF Underway
            <4>2. CASE Line(m) = <<n, k>>
                <5>1. m = n /\ hand[Line(m)] = msg
                    BY <2>0, <4>2 DEF msg
                <5> QED
                    BY <3>3, <5>1 DEF Underway
            <4> QED
                BY <4>1, <4>2
        <3> QED
            BY <1>1, <3>1, <3>3, <3>4, <3>5, <3>6, StillExcused
    <2>6. ASSUME EndSession(n, k)
          PROVE  Excused(m, c)'
        <3>1. /\ UNCHANGED <<hand, s2c, link, reports, absents>>
              /\ \/ current' = [current EXCEPT ![n] = 0]
                 \/ current[n] # k /\ current' = current
              /\ c2s' = [c2s EXCEPT ![<<n, k>>] = <<>>]
            BY <2>6 DEF EndSession, Unregister, ingressVars, agentVars, serveVars
        <3>2. Line(m)' = Line(m) /\ Inbox(m)' = Inbox(m)
            BY <3>1 DEF Line, Inbox
        <3>3. current'[m] = current[m] \/ current'[m] # link[m]
            BY <1>0, <2>0, <3>1
        <3>4. Telling(c2s[Line(m)]) => Underway(m)'
            <4>1. CASE Line(m) # <<n, k>>
                <5>1. c2s'[Line(m)] = c2s[Line(m)]
                    BY <1>0, <2>0, <3>1, <4>1 DEF SyncTypeOK
                <5> QED
                    BY <3>2, <5>1 DEF Underway
            <4>2. CASE Line(m) = <<n, k>>
                <5>1. current'[m] # link'[m]
                    BY <1>0, <2>0, <3>1, <4>2
                <5> QED
                    BY <5>1 DEF Underway
            <4> QED
                BY <4>1, <4>2
        <3>5. hand[Line(m)] # NoMsg /\ Tells(hand[Line(m)]) => Underway(m)'
            BY <3>1, <3>2 DEF Underway
        <3> QED
            BY <1>1, <3>1, <3>2, <3>3, <3>4, <3>5, StillExcused
    <2>7. ASSUME TellMediator(n, k)
          PROVE  Excused(m, c)'
        <3>1. UNCHANGED <<hand, c2s, s2c, link, reports, absents, current>>
            BY <2>7 DEF TellMediator, NotifyDisconnect, agentVars, serveVars, wireVars
        <3> QED
            BY <1>1, <3>1 DEF Excused, Underway, Line, Inbox
    <2> QED
        BY <2>1, <2>2, <2>3, <2>4, <2>5, <2>6, <2>7
<1> QED
    BY <1>2, <1>3
\* The mediator's events: a reselect gives new reasons, the rest changes nothing.
LEMMA MediateExcuses ==
    ASSUME SyncTypeInv, PlainInv, Cooldown = 0, SendsFail = FALSE,
           NEW n \in Node, Missing(n) => Excused(n, truths[cands[n].account].cred),
           \/ Mediate(OnReport) \/ Mediate(OnAbsent)
           \/ Mediate(OnAck) \/ Mediate(OnDisconnect),
           TypeInv', Missing(n)'
    PROVE  Excused(n, truths[cands[n].account].cred)'
<1>1. /\ UNCHANGED <<fileVars, pending, link, phase, hand, c2s>>
      /\ s2c' = [s \in Conn |-> Deliver(s)]
    BY DEF Mediate, agentVars, serveVars
<1>2. CASE Reselects
    BY <1>1, <1>2, ReselectExcuses
<1>3. CASE OnReport
    <2>1. Head(reports) \in PlainReport
        BY <1>3 DEF OnReport, PlainInv
    <2>2. Head(reports).body \in Cred
        BY <2>1 DEF PlainReport
    <2>3. Reselect(cands') /\ UNCHANGED <<hubVars, now>>
        BY <1>3, <2>2, MediatorAssumption DEF OnReport
    <2>4. Reselects
        BY <2>3 DEF Reselects, TypeInv, TypeOK, ViableHasCred
    <2> QED
        BY <1>2, <2>4
<1>4. CASE OnAbsent \/ OnDisconnect
    <2>1. Reselects
        BY <1>4 DEF OnAbsent, OnDisconnect, Reselects, TypeInv, TypeOK, ViableHasCred
    <2> QED
        BY <1>2, <2>1
<1>5. CASE OnAck
    <2> DEFINE msg == Head(acks)
    <2>1. msg.node \in Node /\ msg.account = Shared
        <3>1. msg \in PlainAck
            BY <1>5 DEF OnAck, PlainInv
        <3> QED
            BY <3>1 DEF PlainAck, AckMsg
    <2>2. \/ cands' = cands
          \/ cands' = [cands EXCEPT ![msg.node] = Absence(msg.account)]
        BY <1>5, Zenon DEF OnAck
    <2>3. UNCHANGED <<current, reports, absents, truths>> /\ sent' = {}
        BY <1>5 DEF OnAck, NoOutput, hubVars
    <2> HIDE DEF msg
    <2>4. cands'[n] = cands[n]
        <3>1. CASE cands' = [cands EXCEPT ![msg.node] = Absence(msg.account)] /\ n = msg.node
            <4>1. cands'[n] = Absence(msg.account)
                BY <3>1 DEF SyncTypeInv, TypeInv, TypeOK
            <4> QED
                BY <2>1, <4>1 DEF Missing, Absence
        <3> QED
            BY <2>2, <3>1 DEF SyncTypeInv, TypeInv, TypeOK
    <2>5. Missing(n)
        BY <2>3, <2>4 DEF Missing, Stale
    <2>6. s2c' = s2c
        BY <1>1, <2>3 DEF Deliver, PushesTo, SyncTypeInv, SyncTypeOK
    <2> QED
        BY <1>1, <2>3, <2>4, <2>5, <2>6 DEF Excused, Underway, Line, Inbox, fileVars
<1> QED
    BY <1>3, <1>4, <1>5 DEF Mediate

\* A snapshot request joins the queue behind the pushes.
LEMMA RequestExcuses ==
    ASSUME SyncTypeInv, RequestSnapshot, NEW n \in Node, NEW c, Excused(n, c)
    PROVE  Excused(n, c)'
<1>1. UNCHANGED <<phase, link, current, file, dirty, pending, hand, c2s, reports, absents>>
    BY DEF RequestSnapshot, vars, hubVars, ingressVars, fileVars, agentVars, serveVars
<1>2. CASE phase[n] # "up"
    BY <1>1, <1>2 DEF Excused, Underway
<1>3. CASE phase[n] = "up"
    <2> DEFINE r == [kind |-> "request"]
    <2>1. Line(n) \in Conn /\ s2c[Line(n)] \in Seq(ToClient)
        BY <1>3, UpLine
    <2>2. PICK to : s2c' = [s \in Conn |-> IF s \in to THEN Append(s2c[s], r) ELSE s2c[s]]
        BY DEF RequestSnapshot
    <2>3. r \in ToClient /\ r.kind # "push"
        BY DEF ToClient
    <2> HIDE DEF r
    <2>4. LastPushIs(s2c[Line(n)], c) => LastPushIs(Append(s2c[Line(n)], r), c)
        BY <2>1, <2>3, LastPushQueue
    <2>5. s2c'[Line(n)] = s2c[Line(n)] \/ s2c'[Line(n)] = Append(s2c[Line(n)], r)
        BY <2>1, <2>2
    <2>6. LastPushIs(s2c[Line(n)], c) => LastPushIs(s2c'[Line(n)], c)
        BY <2>4, <2>5
    <2> QED
        BY <1>1, <2>6 DEF Excused, Underway, Line, Inbox
<1> QED
    BY <1>2, <1>3

LEMMA NoneMissedStep ==
    ASSUME SyncTypeInv, SyncTypeInv', PlainInv, TableInv, NoneMissedInv,
           Cooldown = 0, SendsFail = FALSE, [SyncNext]_syncVars
    PROVE  NoneMissedInv'
<1>1. load' = load
    <2>1. ASSUME NEW n \in Node, Cli(n) \/ Agent(n) PROVE load' = load
        BY <2>1 DEF Cli, Refresh, Login, LoginMeta, Logout, Agent, Watch, Dial, GiveUp,
                    AwaitKind, FlushPending, WriteLoop, HandlePush, HandleRequest, SendAnswer,
                    Lose, Notice, Disconnected, loadVars
    <2>2. ASSUME NEW n \in Node, Server(n) PROVE load' = load
        BY <2>2 DEF Server, ServeHello, ServeLateHello, Greets, SendWelcome, HandleNext, Block,
                    HandOver, EndSession, TellMediator, loadVars
    <2>3. \/ Mediate(OnReport) \/ Mediate(OnAbsent) \/ Mediate(OnAck) \/ Mediate(OnDisconnect)
          \/ RequestSnapshot \/ Clock \/ UNCHANGED syncVars
          => load' = load
        BY DEF Mediate, RequestSnapshot, Clock, syncVars, loadVars
    <2> QED
        BY <2>1, <2>2, <2>3 DEF SyncNext
<1> SUFFICES ASSUME ~ load.diskFails, NEW n \in Node, Missing(n)'
             PROVE  Excused(n, truths[cands[n].account].cred)'
    BY <1>1 DEF NoneMissedInv
<1>2. Missing(n) => Excused(n, truths[cands[n].account].cred)
    BY DEF NoneMissedInv
\* A step that leaves the mediator's state alone need only keep the reasons.
<1>3. ASSUME UNCHANGED <<cands, truths>>, \A c : Excused(n, c) => Excused(n, c)'
      PROVE  Excused(n, truths[cands[n].account].cred)'
    <2>1. PICK d : d = truths[cands[n].account].cred
        OBVIOUS
    <2>2. Missing(n) /\ truths'[cands'[n].account].cred = d
        BY <1>3, <2>1 DEF Missing, Stale
    <2>3. Excused(n, d)'
        BY <1>2, <1>3, <2>1, <2>2
    <2> QED
        BY <2>2, <2>3
<1>4. ASSUME NEW m \in Node, Cli(m) \/ Agent(m)
      PROVE  Excused(n, truths[cands[n].account].cred)'
    <2>1. UNCHANGED <<cands, truths>>
        BY <1>4, AgentsLeaveServer DEF vars, stateVars
    <2>2. \A c : Excused(n, c) => Excused(n, c)'
        BY <1>4, AgentExcuses
    <2> QED
        BY <1>3, <2>1, <2>2
<1>5. ASSUME NEW m \in Node, Server(m)
      PROVE  Excused(n, truths[cands[n].account].cred)'
    <2>1. UNCHANGED <<cands, truths>>
        <3>1. OnWire(PlainMsg, ToClient) /\ [kind |-> "welcome"] \in ToClient
            BY DEF PlainInv, ToClient
        <3> QED
            BY <1>5, <3>1, WireSession
    <2>2. \A c : Excused(n, c) => Excused(n, c)'
        BY <1>5, SessionExcuses DEF Server
    <2> QED
        BY <1>3, <2>1, <2>2
<1>6. CASE \/ Mediate(OnReport) \/ Mediate(OnAbsent)
           \/ Mediate(OnAck) \/ Mediate(OnDisconnect)
    BY <1>2, <1>6, MediateExcuses DEF SyncTypeInv
<1>7. CASE RequestSnapshot
    <2>1. UNCHANGED <<cands, truths>>
        BY <1>7 DEF RequestSnapshot, vars, stateVars
    <2>2. \A c : Excused(n, c) => Excused(n, c)'
        BY <1>7, RequestExcuses
    <2> QED
        BY <1>3, <2>1, <2>2
<1>8. CASE Clock \/ UNCHANGED syncVars
    <2>1. UNCHANGED <<cands, truths, phase, link, current, file, dirty, pending, hand, c2s, s2c,
                      reports, absents>>
        BY <1>8 DEF Clock, Tick, syncVars, vars, stateVars, hubVars, ingressVars, fileVars,
                    agentVars, serveVars, wireVars
    <2>2. \A c : Excused(n, c) => Excused(n, c)'
        BY <2>1 DEF Excused, Underway, Line, Inbox
    <2> QED
        BY <1>3, <2>1, <2>2
<1> QED
    BY <1>4, <1>5, <1>6, <1>7, <1>8 DEF SyncNext

\* NoneMissed: where no cooldown drops a change and no push of the mediator
\* fails, a settled member that is seen with another credential than the truth
\* holds the truth already, however many handshakes, displaced sessions and
\* late hellos there were: no push that matters is lost for good.
THEOREM NoneMissedHolds ==
    ASSUME Cooldown = 0, SendsFail = FALSE
    PROVE  SyncSpec => []NoneMissed
<1> DEFINE I == SyncTypeInv /\ PlainInv /\ TableInv /\ NoneMissedInv
<1>1. SyncInit => I
    <2> SUFFICES ASSUME SyncInit PROVE I
        OBVIOUS
    <2>1. SyncTypeInv
        BY SyncTypeInit
    <2>2. /\ current = [n \in Node |-> 0] /\ link = [n \in Node |-> 0]
          /\ reports = <<>> /\ acks = <<>> /\ cands = [n \in Node |-> NoCandidate]
          /\ hand = [s \in Conn |-> NoMsg] /\ answer = [n \in Node |-> NoMsg]
          /\ c2s = [s \in Conn |-> <<>>]
        BY DEF SyncInit, Init
    <2>3. PlainInv
        <3>1. c2s \in [Conn -> Seq(PlainMsg)]
            BY <2>2
        <3>2. s2c \in [Conn -> Seq(ToClient)]
            BY <2>1 DEF SyncTypeInv, SyncTypeOK
        <3> QED
            BY <2>2, <3>1, <3>2 DEF PlainInv, OnWire
    <2>4. TableInv
        BY <2>2 DEF TableInv
    <2>5. NoneMissedInv
        BY <2>2 DEF NoneMissedInv, Missing, NoCandidate
    <2> QED
        BY <2>1, <2>3, <2>4, <2>5
<1>2. I /\ [SyncNext]_syncVars => I'
    BY SyncTypeStep, PlainStep, TableStep, NoneMissedStep
<1>3. I => NoneMissed
    <2> SUFFICES ASSUME I, ~ load.diskFails,
                        NEW n \in Node, NEW a \in Account \ {Shared}, Settled(n),
                        cands[n].status # "none", cands[n].account = a,
                        truths[a] # NoTruth, Stale(cands, n, truths[a].cred)
                 PROVE  file[n] = truths[a].cred
        BY DEF NoneMissed
    <2>1. Excused(n, truths[a].cred)
        BY DEF NoneMissedInv, Missing
    <2>2. link[n] \in 1..MaxConn
        BY UpLine DEF Settled
    <2>3. c2s[Line(n)] = <<>> /\ hand[Line(n)] = NoMsg
        BY <2>2 DEF Settled, Line
    <2>4. ~ Underway(n)
        BY <2>3 DEF Settled, Underway, Telling, Mentions
    <2>5. ~ LastPushIs(Inbox(n), truths[a].cred)
        BY DEF Settled, LastPushIs
    <2> QED
        BY <2>1, <2>4, <2>5 DEF Excused
<1> QED
    <2> HIDE DEF I
    <2> QED
        BY <1>1, <1>2, <1>3, PTL DEF SyncSpec
=============================================================================
