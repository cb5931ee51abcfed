----------------------------- MODULE NudgeProofs -----------------------------
(***************************************************************************)
(* Proofs about the refresh nudge, for any contents, any number of         *)
(* overlapping checks and any bounds.                                      *)
(***************************************************************************)
EXTENDS Nudge, TLAPS

\* A check past refreshCandidate holds a claim.
HoldsClaim ==
    \A r \in Runner : run[r].at \in {"found", "claim", "command", "settle"}
                        => run[r].claim # NoClaim

\* Who runs a command won its claim: it is the last one, unless another claim
\* has taken the place of it.
WonClaim ==
    \A r \in Runner : Busy(r) => run[r].claim \in {last} \cup displaced

\* SingleAttempt alone is not inductive: the next claim is compared with the last
\* one only, so it must be known that a busy check is remembered somewhere.
ClaimInv == TypeOK /\ HoldsClaim /\ WonClaim /\ SingleAttempt

-----------------------------------------------------------------------------
LEMMA ClaimIsNotNone ==
    ASSUME NEW c, NEW s
    PROVE  <<c, s>> # NoClaim
BY DEF NoClaim

LEMMA InitClaimInv == Init => ClaimInv
<1> SUFFICES ASSUME Init PROVE ClaimInv
    OBVIOUS
<1>1. TypeOK
    BY NudgeAssumption DEF Init, TypeOK, NoCheck, Check
<1>2. \A r \in Runner : run[r].at = "idle"
    BY DEF Init, NoCheck
<1> QED
    BY <1>1, <1>2 DEF ClaimInv, HoldsClaim, WonClaim, SingleAttempt, Busy

\* A step that touches neither the checks nor the memory of the claims.
LEMMA SameChecks ==
    ASSUME ClaimInv, UNCHANGED <<run, last, displaced>>
    PROVE  HoldsClaim' /\ WonClaim' /\ SingleAttempt'
BY DEF ClaimInv, HoldsClaim, WonClaim, SingleAttempt, Busy

-----------------------------------------------------------------------------
(* Each field of a check keeps its type. *)

LEMMA PutAt ==
    ASSUME NEW f \in [Runner -> Check], NEW r \in Runner,
           NEW p \in {"idle", "check", "found", "claim", "command", "settle"}
    PROVE  [f EXCEPT ![r].at = p] \in [Runner -> Check]
<1>1. [f[r] EXCEPT !.at = p] \in Check
    BY DEF Check
<1> QED
    BY <1>1

LEMMA PutClaim ==
    ASSUME NEW f \in [Runner -> Check], NEW r \in Runner, NEW c \in Claim
    PROVE  [f EXCEPT ![r].claim = c] \in [Runner -> Check]
<1>1. [f[r] EXCEPT !.claim = c] \in Check
    BY DEF Check
<1> QED
    BY <1>1

LEMMA PutCmd ==
    ASSUME NEW f \in [Runner -> Check], NEW r \in Runner, NEW n \in 0..2
    PROVE  [f EXCEPT ![r].cmd = n] \in [Runner -> Check]
<1>1. [f[r] EXCEPT !.cmd = n] \in Check
    BY DEF Check
<1> QED
    BY <1>1

LEMMA PutFailed ==
    ASSUME NEW f \in [Runner -> Check], NEW r \in Runner, NEW b \in BOOLEAN
    PROVE  [f EXCEPT ![r].failed = b] \in [Runner -> Check]
<1>1. [f[r] EXCEPT !.failed = b] \in Check
    BY DEF Check
<1> QED
    BY <1>1

LEMMA PutNone ==
    ASSUME NEW f \in [Runner -> Check], NEW r \in Runner
    PROVE  [f EXCEPT ![r] = NoCheck] \in [Runner -> Check]
<1>1. NoCheck \in Check
    BY DEF Check, NoCheck
<1> QED
    BY <1>1

LEMMA NextTypeOK ==
    ASSUME TypeOK, HoldsClaim, [Next]_vars
    PROVE  TypeOK'
<1> USE NudgeAssumption DEF TypeOK
<1>1. CASE WriteByOthers
    BY <1>1 DEF WriteByOthers, Changed
<1>2. ASSUME NEW c \in Content, Ages(c)
      PROVE  TypeOK'
    BY <1>2 DEF Ages, Statuses
<1>3. CASE LoopTick
    BY <1>3, PutAt DEF LoopTick, Goto, OnlyRun, Runner
<1>4. ASSUME NEW r \in Runner, MaybeRefreshAsync(r)
      PROVE  TypeOK'
    BY <1>4, PutAt DEF MaybeRefreshAsync, Goto, OnlyRun
<1>5. ASSUME NEW r \in Runner, RefreshCandidate(r)
      PROVE  TypeOK'
    <2>1. CASE Due
        <3> DEFINE f == [run EXCEPT ![r].at = "found"]
        <3>1. <<file, status[file]>> \in Claim
            BY <2>1 DEF Due, Readable, Claim
        <3>2. f \in [Runner -> Check]
            BY PutAt
        <3>3. [f EXCEPT ![r].claim = <<file, status[file]>>] \in [Runner -> Check]
            BY <3>1, <3>2, PutClaim
        <3>4. run' = [f EXCEPT ![r].claim = <<file, status[file]>>]
            BY <1>5, <2>1 DEF RefreshCandidate
        <3> QED
            BY <1>5, <3>3, <3>4 DEF RefreshCandidate, OnlyRun
    <2>2. CASE ~ Due
        BY <1>5, <2>2, PutNone DEF RefreshCandidate, Stop, OnlyRun
    <2> QED
        BY <2>1, <2>2
<1>6. ASSUME NEW r \in Runner, RefreshCommands(r)
      PROVE  TypeOK'
    <2>1. CASE Goto(r, "claim")
        BY <1>6, <2>1, PutAt DEF RefreshCommands, Goto, OnlyRun
    <2>2. CASE Stop(r)
        BY <1>6, <2>2, PutNone DEF RefreshCommands, Stop, OnlyRun
    <2> QED
        BY <1>6, <2>1, <2>2 DEF RefreshCommands
<1>7. ASSUME NEW r \in Runner, ClaimRefreshAttempt(r)
      PROVE  TypeOK'
    <2>1. run[r].claim \in Claim
        BY <1>7 DEF ClaimRefreshAttempt, HoldsClaim, Check
    <2>2. CASE run[r].claim = last
        BY <1>7, <2>2, PutNone DEF ClaimRefreshAttempt, Stop
    <2>3. CASE run[r].claim # last
        <3> DEFINE f == [run EXCEPT ![r].at = "command"]
        <3>1. f \in [Runner -> Check]
            BY PutAt
        <3>2. [f EXCEPT ![r].cmd = 1] \in [Runner -> Check]
            <4> HIDE DEF f
            <4>1. 1 \in 0..2
                OBVIOUS
            <4> QED
                BY <3>1, <4>1, PutCmd
        <3>3. run' = [f EXCEPT ![r].cmd = 1]
            BY <1>7, <2>3 DEF ClaimRefreshAttempt
        <3>4. last' \in Claim /\ tried' \subseteq Claim /\ displaced' \subseteq Claim
            BY <1>7, <2>1, <2>3 DEF ClaimRefreshAttempt, Started
        <3> QED
            BY <1>7, <3>2, <3>3, <3>4 DEF ClaimRefreshAttempt
    <2> QED
        BY <2>2, <2>3
<1>8. ASSUME NEW r \in Runner, CommandEnds(r)
      PROVE  TypeOK'
    <2> DEFINE f == [run EXCEPT ![r].at = "settle"]
    <2>1. f \in [Runner -> Check]
        BY PutAt
    <2>2. PICK b \in BOOLEAN : run' = [f EXCEPT ![r].failed = b]
        BY <1>8 DEF CommandEnds
    <2>3. [f EXCEPT ![r].failed = b] \in [Runner -> Check]
        BY <2>1, PutFailed
    <2> QED
        BY <1>8, <2>2, <2>3 DEF CommandEnds, OnlyRun
<1>9. ASSUME NEW r \in Runner, Settle(r)
      PROVE  TypeOK'
    <2>1. CASE ~ Renewed(r) /\ run[r].failed /\ run[r].cmd = 1
        <3> DEFINE f == [run EXCEPT ![r].at = "command"]
                   g == [f EXCEPT ![r].cmd = 2]
        <3>1. f \in [Runner -> Check]
            BY PutAt
        <3>2. g \in [Runner -> Check]
            <4> HIDE DEF f
            <4>1. 2 \in 0..2
                OBVIOUS
            <4> QED
                BY <3>1, <4>1, PutCmd
        <3>3. [g EXCEPT ![r].failed = FALSE] \in [Runner -> Check]
            BY <3>2, PutFailed
        <3>4. run' = [g EXCEPT ![r].failed = FALSE]
            BY <1>9, <2>1 DEF Settle
        <3> QED
            BY <1>9, <3>3, <3>4 DEF Settle, OnlyRun
    <2>2. CASE ~ (~ Renewed(r) /\ run[r].failed /\ run[r].cmd = 1)
        BY <1>9, <2>2, PutNone DEF Settle, Stop, OnlyRun
    <2> QED
        BY <2>1, <2>2
<1>10. ASSUME NEW r \in Runner, NEW c \in Content, CliRenews(r, c)
       PROVE  TypeOK'
    BY <1>10 DEF CliRenews, Changed
<1>11. CASE CooldownOver
    BY <1>11 DEF CooldownOver
<1>12. CASE RunOnce \/ PackageInstalled \/ UpgradeEnds
    BY <1>12 DEF RunOnce, PackageInstalled, UpgradeEnds
<1>13. CASE UNCHANGED vars
    BY <1>13 DEF vars
<1> QED
    BY <1>1, <1>2, <1>3, <1>4, <1>5, <1>6, <1>7, <1>8, <1>9, <1>10, <1>11, <1>12, <1>13
    DEF Next, CheckStep

-----------------------------------------------------------------------------
LEMMA NextClaimInv ==
    ASSUME ClaimInv, [Next]_vars
    PROVE  ClaimInv'
<1> USE DEF ClaimInv
<1>1. TypeOK'
    BY NextTypeOK
<1>2. CASE WriteByOthers
    BY <1>1, <1>2, SameChecks DEF WriteByOthers, Changed
<1>3. ASSUME NEW c \in Content, Ages(c)
      PROVE  ClaimInv'
    BY <1>1, <1>3, SameChecks DEF Ages
<1>4. CASE LoopTick
    <2>1. \A r \in Runner : \/ run'[r].at \in {"idle", "check"}
                           \/ run'[r] = run[r]
        BY <1>4 DEF LoopTick, Goto, Runner, TypeOK, Check
    <2> QED
        BY <1>1, <1>4, <2>1 DEF LoopTick, OnlyRun, HoldsClaim, WonClaim, SingleAttempt, Busy
<1>5. ASSUME NEW r \in Runner, MaybeRefreshAsync(r)
      PROVE  ClaimInv'
    <2>1. \A s \in Runner : s = r \/ run'[s] = run[s]
        BY <1>5 DEF MaybeRefreshAsync, Goto, TypeOK
    <2>2. run'[r].at = "check"
        BY <1>5 DEF MaybeRefreshAsync, Goto, TypeOK, Check
    <2> QED
        BY <1>1, <1>5, <2>1, <2>2 DEF MaybeRefreshAsync, OnlyRun, HoldsClaim, WonClaim,
                                     SingleAttempt, Busy
<1>6. ASSUME NEW r \in Runner, RefreshCandidate(r)
      PROVE  ClaimInv'
    <2>1. \A s \in Runner : s = r \/ run'[s] = run[s]
        BY <1>6 DEF RefreshCandidate, Stop, TypeOK
    <2>2. \/ run'[r].at = "idle"
          \/ run'[r].at = "found" /\ run'[r].claim # NoClaim
        BY <1>6, ClaimIsNotNone DEF RefreshCandidate, Stop, NoCheck, TypeOK, Check
    <2> QED
        BY <1>1, <1>6, <2>1, <2>2 DEF RefreshCandidate, OnlyRun, HoldsClaim, WonClaim,
                                     SingleAttempt, Busy
<1>7. ASSUME NEW r \in Runner, RefreshCommands(r)
      PROVE  ClaimInv'
    <2>1. \A s \in Runner : s = r \/ run'[s] = run[s]
        BY <1>7 DEF RefreshCommands, Goto, Stop, TypeOK
    <2>2. \/ run'[r].at = "idle"
          \/ run'[r].at = "claim" /\ run'[r].claim = run[r].claim
        BY <1>7 DEF RefreshCommands, Goto, Stop, NoCheck, TypeOK, Check
    <2>3. run[r].at = "found"
        BY <1>7 DEF RefreshCommands
    <2> QED
        BY <1>1, <1>7, <2>1, <2>2, <2>3 DEF RefreshCommands, OnlyRun, HoldsClaim, WonClaim,
                                            SingleAttempt, Busy
<1>8. ASSUME NEW r \in Runner, ClaimRefreshAttempt(r)
      PROVE  ClaimInv'
    <2>1. \A s \in Runner : s = r \/ run'[s] = run[s]
        BY <1>8 DEF ClaimRefreshAttempt, Stop, TypeOK
    <2>2. run[r].claim # NoClaim
        BY <1>8 DEF ClaimRefreshAttempt, HoldsClaim
    <2>3. CASE run[r].claim = last
        <3>1. run'[r].at = "idle"
            BY <1>8, <2>3 DEF ClaimRefreshAttempt, Stop, NoCheck, TypeOK
        <3> QED
            BY <1>1, <1>8, <2>1, <2>3, <3>1 DEF ClaimRefreshAttempt, HoldsClaim, WonClaim,
                                               SingleAttempt, Busy
    <2>4. CASE run[r].claim # last
        <3>1. run'[r].at = "command" /\ run'[r].claim = run[r].claim
            BY <1>8, <2>4 DEF ClaimRefreshAttempt, TypeOK, Check
        <3>2. last' = run[r].claim /\ displaced' = displaced \cup ({last} \ {NoClaim})
            BY <1>8, <2>4 DEF ClaimRefreshAttempt
        <3>3. \A s \in Runner \ {r} :
                 Busy(s)' => /\ Busy(s) /\ run'[s].claim = run[s].claim
                             /\ run[s].claim \in displaced'
            BY <2>1, <3>2 DEF Busy, WonClaim, HoldsClaim
        <3>4. HoldsClaim'
            BY <2>1, <2>2, <3>1 DEF HoldsClaim
        <3>5. WonClaim'
            BY <3>1, <3>2, <3>3 DEF WonClaim
        <3>6. SingleAttempt'
            BY <3>3 DEF SingleAttempt
        <3> QED
            BY <1>1, <3>4, <3>5, <3>6
    <2> QED
        BY <2>3, <2>4
<1>9. ASSUME NEW r \in Runner, CommandEnds(r)
      PROVE  ClaimInv'
    <2>1. \A s \in Runner : s = r \/ run'[s] = run[s]
        BY <1>9 DEF CommandEnds, TypeOK
    <2>2. run'[r].at = "settle" /\ run'[r].claim = run[r].claim /\ run[r].at = "command"
        BY <1>9 DEF CommandEnds, TypeOK, Check
    <2>3. last' = last /\ displaced' = displaced
        BY <1>9 DEF CommandEnds, OnlyRun
    <2>4. \A s \in Runner : Busy(s)' => Busy(s) /\ run'[s].claim = run[s].claim
        BY <2>1, <2>2 DEF Busy
    <2>5. HoldsClaim'
        BY <2>1, <2>2 DEF HoldsClaim
    <2>6. WonClaim' /\ SingleAttempt'
        BY <2>3, <2>4 DEF WonClaim, SingleAttempt
    <2> QED
        BY <1>1, <2>5, <2>6
<1>10. ASSUME NEW r \in Runner, Settle(r)
       PROVE  ClaimInv'
    <2>1. \A s \in Runner : s = r \/ run'[s] = run[s]
        BY <1>10 DEF Settle, Stop, TypeOK
    <2>2. \/ run'[r].at = "idle"
          \/ run'[r].at = "command" /\ run'[r].claim = run[r].claim
        BY <1>10 DEF Settle, Stop, NoCheck, TypeOK, Check
    <2>3. run[r].at = "settle"
        BY <1>10 DEF Settle
    <2> QED
        BY <1>1, <1>10, <2>1, <2>2, <2>3 DEF Settle, OnlyRun, HoldsClaim, WonClaim,
                                             SingleAttempt, Busy
<1>11. ASSUME NEW r \in Runner, NEW c \in Content, CliRenews(r, c)
       PROVE  ClaimInv'
    BY <1>1, <1>11, SameChecks DEF CliRenews, Changed
<1>12. CASE CooldownOver
    <2>1. \A r \in Runner : ~ Busy(r)
        BY <1>12 DEF CooldownOver, WonClaim, Busy
    <2>2. run' = run
        BY <1>12 DEF CooldownOver
    <2> QED
        BY <1>1, <2>1, <2>2 DEF HoldsClaim, WonClaim, SingleAttempt, Busy
<1>13. CASE RunOnce \/ PackageInstalled \/ UpgradeEnds
    BY <1>1, <1>13, SameChecks DEF RunOnce, PackageInstalled, UpgradeEnds
<1>14. CASE UNCHANGED vars
    BY <1>1, <1>14, SameChecks DEF vars
<1> QED
    BY <1>2, <1>3, <1>4, <1>5, <1>6, <1>7, <1>8, <1>9, <1>10, <1>11, <1>12, <1>13, <1>14
    DEF Next, CheckStep

\* Every reachable state of the checks, the maintainer and the credential file is
\* well typed: a check carries what the next of its steps in maybeRefresh needs.
THEOREM TypeCorrect == Spec => []TypeOK
<1>1. Spec => []ClaimInv
    BY InitClaimInv, NextClaimInv, PTL DEF Spec
<1>2. ClaimInv => TypeOK
    BY DEF ClaimInv
<1> QED
    BY <1>1, <1>2, PTL

\* SingleAttempt: whatever the overlap of the minute check, the checks after
\* reports and the change from "near" to "expired", claimRefreshAttempt lets one
\* check at a time spend the refresh token of one credential for one reason,
\* unless another claim has been made meanwhile.
THEOREM SingleAttemptHolds == Spec => []SingleAttempt
<1>1. Spec => []ClaimInv
    BY InitClaimInv, NextClaimInv, PTL DEF Spec
<1>2. ClaimInv => SingleAttempt
    BY DEF ClaimInv
<1> QED
    BY <1>1, <1>2, PTL
=============================================================================
