------------------------------- MODULE Nudge -------------------------------
(***************************************************************************)
(* The refresh nudge of a node (client/refresh.go), which makes the        *)
(* official CLI renew a credential that is about to expire, beside the     *)
(* maintainer that upgrades that CLI (client/maintenance.go).  A check     *)
(* runs in refreshLoop's goroutine each minute; every report of an expired *)
(* credential (Watcher.ReadState) starts another in a goroutine of its     *)
(* own, which no session end and no shutdown stops.                        *)
(***************************************************************************)
EXTENDS Integers, FiniteSets

CONSTANTS
    Content,      \* contents the credential file may have
    Torn,         \* a content that does not Parse
    NoFile,       \* the file does not exist
    Tokenless,    \* contents without a refresh token: no command can be built
    InitStatus,   \* Content -> status at the start
    Aging,        \* contents whose expiry comes near (bound)
    Reporter,     \* checks started by reports that may overlap (bound)
    MaxWrites     \* changes of the file (bound)

Loop == "loop"

Runner == {Loop} \cup Reporter

Statuses == {"ok", "near", "expired"}

ASSUME NudgeAssumption ==
    /\ Torn \in Content /\ NoFile \notin Content
    /\ Tokenless \subseteq Content
    /\ InitStatus \in [Content -> Statuses]
    /\ Aging \subseteq Content
    /\ Loop \notin Reporter
    /\ MaxWrites \in Nat

VARIABLES
    file,      \* what the credential file holds
    status,    \* content -> "near": valid for refreshNearExpiry at most
    run,       \* runner -> its call of maybeRefresh
    last,      \* lastRefreshFingerprint and -Reason while within the cooldown
    tried,     \* history: claims a CLI was started for within the cooldown
    displaced, \* history: claims another one took the place of meanwhile
    cli,       \* the CLI in PATH: absent while an upgrade replaces it
    maint,     \* the maintainer
    writes     \* number of changes of the file

vars == <<file, status, run, last, tried, displaced, cli, maint, writes>>

NoClaim == <<>>
Claim   == {<<c, s>> : c \in Content, s \in {"near", "expired"}}
Check   == [at: {"idle", "check", "found", "claim", "command", "settle"},
            claim: Claim \cup {NoClaim}, cmd: 0..2, failed: BOOLEAN]
NoCheck == [at |-> "idle", claim |-> NoClaim, cmd |-> 0, failed |-> FALSE]

TypeOK ==
    /\ file \in Content \cup {NoFile}
    /\ status \in [Content -> Statuses]
    /\ run \in [Runner -> Check]
    /\ last \in Claim \cup {NoClaim}
    /\ tried \subseteq Claim
    /\ displaced \subseteq Claim
    /\ cli \in {"present", "absent"}
    /\ maint \in {"idle", "check", "upgrade"}
    /\ writes \in 0..MaxWrites

Init ==
    /\ file \in Content \cup {NoFile}
    /\ status = InitStatus
    /\ run = [r \in Runner |-> NoCheck]
    /\ last = NoClaim
    /\ tried = {}
    /\ displaced = {}
    /\ cli \in {"present", "absent"}
    /\ maint = "idle"
    /\ writes = 0

-----------------------------------------------------------------------------
(***************************************************************************)
(* The file and the time.                                                  *)
(***************************************************************************)
Changed(c) ==
    /\ writes < MaxWrites
    /\ c # file
    /\ file' = c
    /\ writes' = writes + 1
    /\ UNCHANGED <<status, run, last, tried, displaced, cli, maint>>

Readable == file \in Content \ {Torn}

\* applyTruth, a user, or a file half written.
WriteByOthers == \E c \in Content \cup {NoFile} : Changed(c)

Ages(c) ==
    /\ c \in Aging
    /\ status[c] # "expired"
    /\ status' = [status EXCEPT ![c] = IF @ = "ok" THEN "near" ELSE "expired"]
    /\ UNCHANGED <<file, run, last, tried, displaced, cli, maint, writes>>

-----------------------------------------------------------------------------
(***************************************************************************)
(* maybeRefresh, one action for each thing it looks at or does.            *)
(***************************************************************************)
Goto(r, place) == run' = [run EXCEPT ![r].at = place]

Stop(r) == run' = [run EXCEPT ![r] = NoCheck]

OnlyRun == UNCHANGED <<file, status, last, tried, displaced, cli, maint, writes>>

\* refreshLoop: after refreshInitialDelay and each minute; the loop is busy
\* while it runs a check.
LoopTick ==
    /\ run[Loop].at = "idle"
    /\ Goto(Loop, "check")
    /\ OnlyRun

\* reportEvent: what it has read is expired (maybeRefreshAsync).
MaybeRefreshAsync(r) ==
    /\ r # Loop /\ run[r].at = "idle"
    /\ Readable /\ status[file] = "expired"
    /\ Goto(r, "check")
    /\ OnlyRun

\* shouldRefreshNudge.
Due == Readable /\ status[file] \in {"near", "expired"}

\* refreshCandidate: what the file says now is acted upon later.
RefreshCandidate(r) ==
    /\ run[r].at = "check"
    /\ IF Due THEN run' = [run EXCEPT ![r].at = "found", ![r].claim = <<file, status[file]>>]
              ELSE Stop(r)
    /\ OnlyRun

\* refreshCommands and filterAvailableRefreshCommands.
RefreshCommands(r) ==
    /\ run[r].at = "found"
    /\ IF run[r].claim[1] \in Tokenless \/ cli = "absent" THEN Stop(r) ELSE Goto(r, "claim")
    /\ OnlyRun

Started(r) == IF cli = "present" THEN {run[r].claim} ELSE {}

\* Mutant: the claim is compared with the last one but not recorded.
ClaimUnlocked(r) ==
    /\ run[r].at = "claim"
    /\ IF run[r].claim = last
       THEN Stop(r) /\ UNCHANGED tried
       ELSE /\ run' = [run EXCEPT ![r].at = "command", ![r].cmd = 1]
            /\ tried' = tried \cup Started(r)
    /\ UNCHANGED <<file, status, last, displaced, cli, maint, writes>>

\* claimRefreshAttempt, under refreshMu: only the last claim is remembered.  Who
\* gets it starts the first command, which fails when the CLI has gone since.
ClaimRefreshAttempt(r) ==
    /\ run[r].at = "claim"
    /\ IF run[r].claim = last
       THEN Stop(r) /\ UNCHANGED <<last, tried, displaced>>
       ELSE /\ run' = [run EXCEPT ![r].at = "command", ![r].cmd = 1]
            /\ last' = run[r].claim
            /\ tried' = tried \cup Started(r)
            /\ displaced' = displaced \cup ({last} \ {NoClaim})
    /\ UNCHANGED <<file, status, cli, maint, writes>>

\* The CLI renews the credential, while it runs.
CliRenews(r, c) ==
    /\ run[r].at = "command" /\ cli = "present"
    /\ c # Torn
    /\ Changed(c)

\* Mutant: no refreshCommandTimeout; a CLI that hangs is waited for.
CommandExits(r) ==
    /\ run[r].at = "command"
    /\ run[r].claim[2] # "near"
    /\ \E fails \in BOOLEAN :
         /\ cli = "absent" => fails
         /\ run' = [run EXCEPT ![r].at = "settle", ![r].failed = fails]
    /\ OnlyRun

\* runCommand returns: the CLI has exited, or refreshCommandTimeout is over.
CommandEnds(r) ==
    /\ run[r].at = "command"
    /\ \E fails \in BOOLEAN :
         /\ cli = "absent" => fails
         /\ run' = [run EXCEPT ![r].at = "settle", ![r].failed = fails]
    /\ OnlyRun

\* waitForRefreshMutation: any other readable content counts, whoever wrote it.
Renewed(r) == Readable /\ file # run[r].claim[1]

\* The second command (each format has two) is tried only after an error.
Settle(r) ==
    /\ run[r].at = "settle"
    /\ IF ~ Renewed(r) /\ run[r].failed /\ run[r].cmd = 1
       THEN run' = [run EXCEPT ![r].at = "command", ![r].cmd = 2, ![r].failed = FALSE]
       ELSE Stop(r)
    /\ OnlyRun

\* refreshCooldown is over for the last claim; the commands and waits of a check
\* take minutes, the cooldown two hours.
CooldownOver ==
    /\ last # NoClaim
    /\ \A r \in Runner : run[r].claim \in {last} \cup displaced => run[r].at # "command"
                                                                /\ run[r].at # "settle"
    /\ last' = NoClaim
    /\ tried' = {}
    /\ displaced' = {}
    /\ UNCHANGED <<file, status, run, cli, maint, writes>>

-----------------------------------------------------------------------------
(***************************************************************************)
(* The maintainer: a package check, then npm install, which replaces the   *)
(* CLI and may fail or be killed half way.  Nothing keeps it from running  *)
(* beside a check.                                                         *)
(***************************************************************************)
RunOnce ==
    /\ maint = "idle"
    /\ maint' = "check"
    /\ UNCHANGED <<file, status, run, last, tried, displaced, cli, writes>>

\* npmGlobalPackageInstalled: no package, an error and a timeout all skip it.
PackageInstalled ==
    /\ maint = "check"
    /\ \/ maint' = "upgrade" /\ cli' = "absent"
       \/ maint' = "idle" /\ UNCHANGED cli
    /\ UNCHANGED <<file, status, run, last, tried, displaced, writes>>

UpgradeEnds ==
    /\ maint = "upgrade"
    /\ maint' = "idle"
    /\ cli' \in {"present", "absent"}
    /\ UNCHANGED <<file, status, run, last, tried, displaced, writes>>

-----------------------------------------------------------------------------
CheckStep(r) ==
    \/ RefreshCandidate(r) \/ RefreshCommands(r) \/ ClaimRefreshAttempt(r)
    \/ CommandEnds(r) \/ Settle(r)

Next ==
    \/ WriteByOthers
    \/ \E c \in Content : Ages(c)
    \/ LoopTick
    \/ \E r \in Runner :
         \/ MaybeRefreshAsync(r)
         \/ CheckStep(r)
         \/ \E c \in Content : CliRenews(r, c)
    \/ CooldownOver
    \/ RunOnce \/ PackageInstalled \/ UpgradeEnds

\* The minute ticker ticks, a check goes on, a command ends by its timeout at the
\* latest, time passes.  No CLI has to renew anything.
Fairness ==
    /\ WF_vars(LoopTick)
    /\ \A r \in Runner : WF_vars(CheckStep(r))
    /\ WF_vars(CooldownOver)

Spec == Init /\ [][Next]_vars

FairSpec == Spec /\ Fairness

-----------------------------------------------------------------------------
(***************************************************************************)
(* Properties.                                                             *)
(***************************************************************************)
Busy(r) == run[r].at \in {"command", "settle"}

\* The claim under refreshMu: however the minute check, the checks after reports
\* and an expiry in between interleave, no two of them spend the refresh token of
\* one credential for one reason at a time, unless a claim for something else has
\* made refreshMu's single entry forget the first.
SingleAttempt ==
    \A r, s \in Runner :
        (r # s /\ Busy(r) /\ Busy(s) /\ run[r].claim = run[s].claim)
        => run[r].claim \in displaced

\* An expired credential that could be renewed is not left alone: once no upgrade
\* is in the way, it is replaced or a CLI is started for it.  A CLI that hangs,
\* a check that found no CLI, an attempt that failed because an upgrade came
\* between and the cooldown only delay that.
Nudged ==
    <>[](cli = "present") =>
        \A c \in Content \ ({Torn} \cup Tokenless) :
            (file = c /\ status[c] = "expired") ~>
                (file # c \/ <<c, "expired">> \in tried)
=============================================================================
