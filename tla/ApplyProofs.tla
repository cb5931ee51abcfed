----------------------------- MODULE ApplyProofs -----------------------------
(***************************************************************************)
(* Proofs about Apply.  LockInv says that the stages under the lock belong *)
(* to the holder; PhaseInv, what the file, the backup and the temporary    *)
(* file contain at each of them as long as nobody writes without the lock. *)
(***************************************************************************)
EXTENDS Apply, TLAPS

Disturb == \E c \in File : CliWrite(c)

\* The steps of one applier.
Step(a) ==
    \/ \E p \in Pushes : Start(a, p)
    \/ WriteOne(a)
    \/ Cancel(a)
    \/ Crash(a)

LEMMA NextCases ==
    ASSUME [Next]_vars
    PROVE  (\E a \in Applier : Step(a)) \/ CliLock \/ CliUnlock \/ Disturb \/ UNCHANGED vars
BY DEF Next, Step, Disturb

-----------------------------------------------------------------------------
(***************************************************************************)
(* Types.                                                                  *)
(***************************************************************************)
JobType == job \in [Applier -> Job]
HasPush == \A a \in Applier : job[a].stage # "idle" => job[a].push \in Pushes

LEMMA IdleJob ==
    ASSUME NEW r \in {"none", "ok", "failed", "crashed"}
    PROVE  Idle \in Job /\ [Idle EXCEPT !.result = r] \in Job
BY ApplyAssumption DEF Idle, Job, Stages, File

LEMMA JobFields ==
    ASSUME NEW j \in Job
    PROVE  /\ j.stage \in Stages /\ j.push \in Pushes \cup {NoPush}
           /\ j.tries \in 0..(LockRetryMax - 1) /\ j.data \in File
           /\ j.result \in {"none", "ok", "failed", "crashed"}
BY DEF Job

LEMMA GoToType ==
    ASSUME JobType, HasPush, NEW a \in Applier, NEW s \in Stages, ~ At(a, "idle"), GoTo(a, s)
    PROVE  JobType' /\ HasPush'
<1>1. [job[a] EXCEPT !.stage = s] \in Job
    BY DEF JobType, Job
<1>2. /\ job' = [job EXCEPT ![a] = [job[a] EXCEPT !.stage = s]]
      /\ [job[a] EXCEPT !.stage = s].push = job[a].push
    BY DEF JobType, GoTo, Job
<1> QED
    BY <1>1, <1>2 DEF JobType, HasPush, At

LEMMA FailType ==
    ASSUME JobType, HasPush, NEW a \in Applier, NEW s \in Stages, ~ At(a, "idle"), Fail(a, s)
    PROVE  JobType' /\ HasPush'
<1> DEFINE j == [job[a] EXCEPT !.stage = s, !.result = "failed"]
<1>1. j \in Job /\ j.push = job[a].push
    BY DEF JobType, Job
<1>2. job' = [job EXCEPT ![a] = j]
    BY DEF JobType, Fail, Job
<1> HIDE DEF j
<1> QED
    BY <1>1, <1>2 DEF JobType, HasPush, At

LEMMA ReturnType ==
    ASSUME JobType, HasPush, NEW a \in Applier,
           NEW r \in {"none", "ok", "failed", "crashed"}, Return(a, r)
    PROVE  JobType' /\ HasPush'
<1>1. [Idle EXCEPT !.result = r].stage = "idle"
    BY DEF Idle
<1> QED
    BY <1>1, IdleJob DEF JobType, HasPush, Return

LEMMA StepTypeOK ==
    ASSUME TypeOK, NEW a \in Applier, Step(a)
    PROVE  TypeOK'
<1>0. JobType /\ HasPush /\ job[a] \in Job
    BY DEF TypeOK, JobType, HasPush
<1>1. (/\ JobType' /\ HasPush' /\ file' \in File /\ lock' \in Applier \cup {Cli, Free}
       /\ bak' \in [Applier -> File] /\ temp' \in [Applier -> File]
       /\ before' \in [Applier -> File] /\ disturbed' \subseteq Applier) => TypeOK'
    BY DEF TypeOK, JobType, HasPush
<1>2. ASSUME NEW p \in Pushes, Start(a, p)
      PROVE  TypeOK'
    <2> DEFINE j == [Idle EXCEPT !.stage = "check", !.push = p]
    <2>1. Idle \in Job
        BY IdleJob DEF Idle
    <2>2. j \in Job /\ j.push = p
        BY <2>1 DEF Job, Stages
    <2>3. job' = [job EXCEPT ![a] = j]
        BY <1>2 DEF Start
    <2> HIDE DEF j
    <2>4. JobType' /\ HasPush'
        BY <1>0, <2>2, <2>3 DEF JobType, HasPush
    <2> QED
        BY <1>1, <1>2, <2>4 DEF Start, TypeOK, File, history
<1>3. CASE Check(a)
    <2>1. JobType' /\ HasPush'
        BY <1>0, <1>3, GoToType, ReturnType DEF Check, At, Stages
    <2> QED
        BY <1>1, <1>3, <2>1 DEF Check, TypeOK, diskVars, history
<1>4. CASE TakeLock(a)
    <2> DEFINE j == [job[a] EXCEPT !.stage = "stat", !.tries = 0]
    <2>0. 0 \in 0..(LockRetryMax - 1) /\ "stat" \in Stages
        BY ApplyAssumption DEF Stages, Critical
    <2>1. j \in Job /\ j.push = job[a].push
        BY <1>0, <2>0 DEF Job
    <2>2. job' = [job EXCEPT ![a] = j] /\ job[a].stage = "lock"
        BY <1>0, <1>4 DEF TakeLock, JobType, Job, At
    <2> HIDE DEF j
    <2>3. JobType' /\ HasPush'
        BY <1>0, <2>1, <2>2 DEF JobType, HasPush
    <2> QED
        BY <1>1, <1>4, <2>3 DEF TakeLock, TypeOK, diskVars
<1>5. CASE LockTimeout(a)
    <2>1. CASE job[a].tries + 1 < LockRetryMax
        <3> DEFINE j == [job[a] EXCEPT !.tries = @ + 1]
        <3>1. job[a].tries \in 0..(LockRetryMax - 1)
            BY <1>0, JobFields
        <3>2. j \in Job /\ j.push = job[a].push
            BY <1>0, <2>1, <3>1, ApplyAssumption DEF Job
        <3>3. job' = [job EXCEPT ![a] = j] /\ job[a].stage = "lock"
            BY <1>0, <1>5, <2>1 DEF LockTimeout, JobType, Job, At
        <3> HIDE DEF j
        <3> QED
            BY <1>0, <1>1, <1>5, <3>2, <3>3
            DEF LockTimeout, JobType, HasPush, TypeOK, diskVars, history
    <2>2. CASE ~ (job[a].tries + 1 < LockRetryMax)
        BY <1>0, <1>1, <1>5, <2>2, ReturnType DEF LockTimeout, TypeOK, diskVars, history
    <2> QED
        BY <2>1, <2>2
<1>6. CASE Cancel(a)
    BY <1>0, <1>1, <1>6, ReturnType DEF Cancel, TypeOK, diskVars, history
<1>7. CASE Stat(a)
    <2>1. JobType' /\ HasPush'
        BY <1>0, <1>7, GoToType DEF Stat, At, Stages, Critical
    <2> QED
        BY <1>1, <1>7, <2>1 DEF Stat, TypeOK, diskVars, history
<1>8. CASE ReadBackup(a)
    <2>1. CASE file # Absent /\ job' = [job EXCEPT ![a].stage = "backup", ![a].data = file]
        <3> DEFINE j == [job[a] EXCEPT !.stage = "backup", !.data = file]
        <3>1. j \in Job /\ j.push = job[a].push
            BY <1>0 DEF Job, Stages, Critical, TypeOK
        <3>2. job' = [job EXCEPT ![a] = j] /\ job[a].stage = "read"
            BY <1>0, <1>8, <2>1 DEF ReadBackup, JobType, Job, At
        <3> HIDE DEF j
        <3> QED
            BY <1>0, <1>1, <1>8, <3>1, <3>2
            DEF ReadBackup, JobType, HasPush, TypeOK, diskVars, history
    <2>2. CASE Fail(a, "unlock")
        <3>1. JobType' /\ HasPush'
            BY <1>0, <1>8, <2>2, FailType DEF ReadBackup, At, Stages, Critical
        <3> QED
            BY <1>1, <1>8, <3>1 DEF ReadBackup, TypeOK, diskVars, history
    <2> QED
        BY <1>8, <2>1, <2>2 DEF ReadBackup
<1>9. CASE Backup(a)
    <2>1. JobType' /\ HasPush'
        BY <1>0, <1>9, GoToType, FailType DEF Backup, At, Stages, Critical
    <2> QED
        BY <1>0, <1>1, <1>9, <2>1, JobFields DEF Backup, TypeOK, history
<1>10. CASE WriteTemp(a)
    <2>1. JobType' /\ HasPush'
        BY <1>0, <1>10, GoToType, FailType DEF WriteTemp, Undo, At, Stages, Critical
    <2>2. job[a].push \in Pushes
        BY <1>0, <1>10 DEF WriteTemp, At, HasPush
    <2>3. job[a].push.raw \in File
        BY <2>2, ApplyAssumption DEF File
    <2> QED
        BY <1>1, <1>10, <2>1, <2>3 DEF WriteTemp, TypeOK, history
<1>11. CASE Rename(a)
    <2>1. JobType' /\ HasPush'
        BY <1>0, <1>11, GoToType, FailType DEF Rename, Undo, At, Stages, Critical
    <2> QED
        BY <1>1, <1>11, <2>1 DEF Rename, TypeOK, File, history
<1>12. CASE Verify(a)
    <2>1. JobType' /\ HasPush'
        <3>1. CASE Undo(a)
            BY <1>0, <1>12, <3>1, FailType DEF Verify, Undo, At, Stages, Critical
        <3>2. ASSUME NEW s \in {"unlock", "discard"},
                     job' = [job EXCEPT ![a].stage = s, ![a].result = "ok"]
              PROVE  JobType' /\ HasPush'
            <4> DEFINE j == [job[a] EXCEPT !.stage = s, !.result = "ok"]
            <4>1. j \in Job /\ j.push = job[a].push
                BY <1>0, <3>2 DEF Job, Stages, Critical
            <4>2. job' = [job EXCEPT ![a] = j] /\ job[a].stage = "verify"
                BY <1>0, <1>12, <3>2 DEF Verify, JobType, Job, At
            <4> HIDE DEF j
            <4> QED
                BY <1>0, <4>1, <4>2 DEF JobType, HasPush
        <3> QED
            BY <1>12, <3>1, <3>2 DEF Verify
    <2> QED
        BY <1>1, <1>12, <2>1 DEF Verify, TypeOK, diskVars, history
<1>13. CASE RemoveBackup(a)
    <2>1. JobType' /\ HasPush'
        BY <1>0, <1>13, GoToType DEF RemoveBackup, At, Stages, Critical
    <2> QED
        BY <1>1, <1>13, <2>1 DEF RemoveBackup, TypeOK, File, history
<1>14. CASE Restore(a)
    <2>1. JobType' /\ HasPush'
        BY <1>0, <1>14, GoToType DEF Restore, At, Stages, Critical
    <2> QED
        BY <1>1, <1>14, <2>1 DEF Restore, TypeOK, history
<1>15. CASE Replace(a)
    <2>1. JobType' /\ HasPush'
        BY <1>0, <1>15, GoToType DEF Replace, At, Stages, Critical
    <2> QED
        BY <1>1, <1>15, <2>1 DEF Replace, TypeOK, File, history
<1>16. CASE Unlock(a)
    <2>1. JobType' /\ HasPush'
        BY <1>0, <1>16, ReturnType, JobFields DEF Unlock
    <2> QED
        BY <1>1, <1>16, <2>1 DEF Unlock, Forget, TypeOK, diskVars, File
<1>17. CASE Crash(a)
    <2>1. JobType' /\ HasPush'
        BY <1>0, <1>17, ReturnType DEF Crash
    <2> QED
        BY <1>1, <1>17, <2>1 DEF Crash, Forget, TypeOK, diskVars, File
<1> QED
    BY <1>2, <1>3, <1>4, <1>5, <1>6, <1>7, <1>8, <1>9, <1>10, <1>11, <1>12, <1>13,
       <1>14, <1>15, <1>16, <1>17 DEF Step, WriteOne

\* Every reachable state of appliers, CLI and disk is well typed: attempts at
\* the lock stay below common.LockRetryMax whoever keeps it.
THEOREM TypeCorrect == Spec => []TypeOK
<1>1. Init => TypeOK
    BY IdleJob DEF Init, TypeOK, File, Idle
<1>2. TypeOK /\ [Next]_vars => TypeOK'
    <2> SUFFICES ASSUME TypeOK, [Next]_vars
                 PROVE  TypeOK'
        OBVIOUS
    <2>1. CASE \E a \in Applier : Step(a)
        BY <2>1, StepTypeOK
    <2>2. CASE CliLock \/ CliUnlock
        BY <2>2 DEF CliLock, CliUnlock, TypeOK, diskVars, history
    <2>3. CASE Disturb
        BY <2>3 DEF Disturb, CliWrite, TypeOK
    <2>4. CASE UNCHANGED vars
        BY <2>4 DEF vars, diskVars, history, TypeOK
    <2> QED
        BY <2>1, <2>2, <2>3, <2>4, NextCases
<1> QED
    BY <1>1, <1>2, PTL DEF Spec

-----------------------------------------------------------------------------
(***************************************************************************)
(* The lock and the phases of writeOne.                                    *)
(***************************************************************************)
LockInv == \A a \in Applier : Holds(a) => lock = a

\* The backup does not exist yet; the verdict belongs to the stage.
Verdict(a) ==
    /\ job[a].stage \in {"check", "lock", "stat", "read", "backup"} => bak[a] = Absent
    /\ job[a].stage \in {"stat", "read", "backup", "write", "rename", "verify"}
         => job[a].result = "none"
    /\ job[a].stage \in {"check", "lock"} => job[a].result = "none"
    /\ job[a].stage \in {"restore", "replace", "remove"} => job[a].result = "failed"
    /\ At(a, "discard") => job[a].result = "ok"
    /\ At(a, "unlock") => job[a].result \in {"ok", "failed"}

\* What the files contain while nobody else writes.
Clean(a) ==
    /\ job[a].stage \in {"stat", "read", "backup", "write", "rename", "remove"}
         => file = before[a]
    /\ job[a].stage \in {"read", "backup"} => before[a] # Absent
    /\ At(a, "backup") => job[a].data = before[a]
    /\ job[a].stage \in {"write", "rename", "verify", "restore", "replace"}
         => bak[a] = before[a]
    /\ At(a, "rename") => temp[a] = job[a].push.raw
    /\ At(a, "verify") => file = job[a].push.raw
    /\ job[a].stage \in {"restore", "replace"} => file \in {before[a], job[a].push.raw}
    /\ At(a, "replace") => temp[a] = before[a]
    /\ At(a, "discard") => file = job[a].push.fingerprint
    /\ At(a, "unlock") =>
         IF job[a].result = "ok" THEN file = job[a].push.fingerprint
                                 ELSE file = before[a] \/ bak[a] = before[a]

Phase(a) == Verdict(a) /\ (a \notin disturbed => Clean(a))

PhaseInv == \A a \in Applier : Phase(a)

LEMMA GoToFields ==
    ASSUME JobType, NEW a \in Applier, NEW s, GoTo(a, s)
    PROVE  /\ job'[a].stage = s /\ job'[a].push = job[a].push
           /\ job'[a].data = job[a].data /\ job'[a].result = job[a].result
           /\ \A b \in Applier : b # a => job'[b] = job[b]
BY DEF GoTo, JobType, Job

LEMMA FailFields ==
    ASSUME JobType, NEW a \in Applier, NEW s, Fail(a, s)
    PROVE  /\ job'[a].stage = s /\ job'[a].push = job[a].push
           /\ job'[a].data = job[a].data /\ job'[a].result = "failed"
           /\ \A b \in Applier : b # a => job'[b] = job[b]
BY DEF Fail, JobType, Job

LEMMA ReturnFields ==
    ASSUME JobType, NEW a \in Applier, NEW r, Return(a, r)
    PROVE  /\ job'[a].stage = "idle"
           /\ \A b \in Applier : b # a => job'[b] = job[b]
BY DEF Return, JobType, Idle

\* A step of another applier leaves b alone, up to the file.
LEMMA Frame ==
    ASSUME TypeOK, LockInv, NEW a \in Applier, NEW b \in Applier, a # b, Step(a)
    PROVE  /\ job'[b] = job[b] /\ bak'[b] = bak[b] /\ temp'[b] = temp[b]
           /\ before'[b] = before[b] /\ (b \in disturbed' <=> b \in disturbed)
           /\ Holds(b) => file' = file /\ lock' = lock
<1>1. job'[b] = job[b]
    BY DEF TypeOK, Step, WriteOne, Start, Check, TakeLock, LockTimeout, Stat, ReadBackup,
           Backup, WriteTemp, Rename, Verify, RemoveBackup, Restore, Replace, Unlock, Cancel,
           Crash, GoTo, Return, Fail, Undo
<1>2. /\ bak'[b] = bak[b] /\ temp'[b] = temp[b]
      /\ before'[b] = before[b] /\ (b \in disturbed' <=> b \in disturbed)
    BY DEF TypeOK, Step, WriteOne, Start, Check, TakeLock, LockTimeout, Stat, ReadBackup,
           Backup, WriteTemp, Rename, Verify, RemoveBackup, Restore, Replace, Unlock, Cancel,
           Crash, Forget, diskVars, history
<1>3. ASSUME Holds(b)
      PROVE  file' = file /\ lock' = lock
    <2>1. lock = b /\ lock # Free /\ lock # a /\ ~ Holds(a)
        BY <1>3, ApplyAssumption DEF LockInv
    <2> QED
        BY <2>1 DEF Holds, Critical, At, Step, WriteOne, Start, Check, TakeLock, LockTimeout,
                    Stat, ReadBackup, Backup, WriteTemp, Rename, Verify, RemoveBackup, Restore,
                    Replace, Unlock, Cancel, Crash, diskVars, history
<1> QED
    BY <1>1, <1>2, <1>3

\* What does not touch b, nor the file while b holds the lock, keeps its phase.
LEMMA PhaseFrame ==
    ASSUME NEW b \in Applier, Phase(b),
           job'[b] = job[b], bak'[b] = bak[b], temp'[b] = temp[b], before'[b] = before[b],
           b \in disturbed' <=> b \in disturbed,
           Holds(b) => file' = file
    PROVE  Phase(b)'
<1>1. Verdict(b)'
    BY DEF Phase, Verdict, At
<1>2. ASSUME b \notin disturbed
      PROVE  Clean(b)'
    <2>1. CASE Holds(b)
        BY <1>2, <2>1 DEF Phase, Clean, At
    <2>2. CASE ~ Holds(b)
        BY <2>2 DEF Clean, At, Holds, Critical
    <2> QED
        BY <2>1, <2>2
<1> QED
    BY <1>1, <1>2 DEF Phase

LEMMA LockStep ==
    ASSUME TypeOK, LockInv, NEW a \in Applier, Step(a)
    PROVE  LockInv'
<1>0. JobType
    BY DEF TypeOK, JobType
<1>1. ASSUME NEW b \in Applier, b # a, Holds(b)'
      PROVE  lock' = b
    BY <1>1, Frame DEF Holds, LockInv
<1>2. ASSUME Holds(a)'
      PROVE  lock' = a
    <2>1. ASSUME NEW p \in Pushes, Start(a, p)
          PROVE  FALSE
        BY <1>0, <1>2, <2>1 DEF Start, Idle, Holds, Critical, JobType
    <2>2. CASE TakeLock(a)
        BY <2>2 DEF TakeLock
    <2>3. CASE Check(a) \/ LockTimeout(a) \/ Cancel(a) \/ Crash(a) \/ Unlock(a)
        BY <1>0, <1>2, <2>3, GoToFields, ReturnFields
        DEF Check, LockTimeout, Cancel, Crash, Unlock, At, Holds, Critical, JobType, Job
    <2>4. CASE Stat(a) \/ ReadBackup(a) \/ Backup(a) \/ WriteTemp(a) \/ Rename(a)
                 \/ Verify(a) \/ RemoveBackup(a) \/ Restore(a) \/ Replace(a)
        <3>1. Holds(a) /\ lock' = lock
            BY <2>4 DEF Stat, ReadBackup, Backup, WriteTemp, Rename, Verify, RemoveBackup,
                        Restore, Replace, At, Holds, Critical
        <3> QED
            BY <3>1 DEF LockInv
    <2> QED
        BY <2>1, <2>2, <2>3, <2>4 DEF Step, WriteOne
<1> QED
    BY <1>1, <1>2 DEF LockInv

\* A step of an applier takes it from one phase to the next.
LEMMA PhaseStep ==
    ASSUME TypeOK, NEW a \in Applier, Phase(a), Step(a)
    PROVE  Phase(a)'
<1>0. JobType
    BY DEF TypeOK, JobType
<1> USE DEF Phase, Verdict, Clean, At
<1>1. ASSUME NEW p \in Pushes, Start(a, p)
      PROVE  Phase(a)'
    <2>1. job'[a].stage = "check" /\ job'[a].result = "none" /\ bak'[a] = Absent
        BY <1>0, <1>1 DEF Start, Idle, JobType, TypeOK
    <2> QED
        BY <2>1
<1>2. CASE Check(a)
    BY <1>0, <1>2, GoToFields, ReturnFields DEF Check, diskVars, history
<1>3. CASE TakeLock(a)
    <2>1. job'[a].stage = "stat" /\ job'[a].result = job[a].result
        BY <1>0, <1>3 DEF TakeLock, JobType, Job
    <2>2. before'[a] = file
        BY <1>3 DEF TakeLock, TypeOK
    <2> QED
        BY <1>3, <2>1, <2>2 DEF TakeLock, diskVars
<1>4. CASE LockTimeout(a)
    <2>1. CASE job' = [job EXCEPT ![a].tries = @ + 1]
        <3>1. job'[a].stage = job[a].stage /\ job'[a].result = job[a].result
            BY <1>0, <2>1 DEF JobType, Job
        <3> QED
            BY <1>4, <3>1 DEF LockTimeout, diskVars, history
    <2>2. CASE Return(a, "failed")
        BY <1>0, <2>2, ReturnFields
    <2> QED
        BY <1>4, <2>1, <2>2 DEF LockTimeout
<1>5. CASE Cancel(a) \/ Crash(a) \/ Unlock(a)
    BY <1>0, <1>5, ReturnFields DEF Cancel, Crash, Unlock
<1>6. CASE Stat(a)
    BY <1>0, <1>6, GoToFields DEF Stat, diskVars, history
<1>7. CASE ReadBackup(a)
    <2>1. CASE job' = [job EXCEPT ![a].stage = "backup", ![a].data = file]
        <3>1. /\ job'[a].stage = "backup" /\ job'[a].data = file
              /\ job'[a].result = job[a].result
            BY <1>0, <2>1 DEF JobType, Job
        <3> QED
            BY <1>7, <3>1 DEF ReadBackup, diskVars, history
    <2>2. CASE Fail(a, "unlock")
        BY <1>0, <1>7, <2>2, FailFields DEF ReadBackup, diskVars, history
    <2> QED
        BY <1>7, <2>1, <2>2 DEF ReadBackup
<1>8. CASE Backup(a)
    <2>1. CASE bak' = [bak EXCEPT ![a] = job[a].data] /\ GoTo(a, "write")
        <3>1. bak'[a] = job[a].data
            BY <2>1 DEF TypeOK
        <3> QED
            BY <1>0, <1>8, <2>1, <3>1, GoToFields DEF Backup, history
    <2>2. CASE Fail(a, "unlock") /\ UNCHANGED bak
        BY <1>0, <1>8, <2>2, FailFields DEF Backup, history
    <2> QED
        BY <1>8, <2>1, <2>2 DEF Backup
<1>9. ASSUME Undo(a), file' = file, bak' = bak, UNCHANGED history,
             job[a].stage \in {"write", "rename", "verify"}
      PROVE  Phase(a)'
    BY <1>0, <1>9, FailFields DEF Undo, history
<1>10. CASE WriteTemp(a)
    <2>1. CASE temp' = [temp EXCEPT ![a] = job[a].push.raw] /\ GoTo(a, "rename")
        <3>1. temp'[a] = job[a].push.raw
            BY <2>1 DEF TypeOK
        <3> QED
            BY <1>0, <1>10, <2>1, <3>1, GoToFields DEF WriteTemp, history
    <2> QED
        BY <1>9, <1>10, <2>1 DEF WriteTemp
<1>11. CASE Rename(a)
    <2>1. CASE file' = temp[a] /\ GoTo(a, "verify")
        BY <1>0, <1>11, <2>1, GoToFields DEF Rename, history
    <2> QED
        BY <1>9, <1>11, <2>1 DEF Rename
<1>12. CASE Verify(a)
    <2>1. ASSUME NEW s \in {"unlock", "discard"}, file = job[a].push.fingerprint,
                 job' = [job EXCEPT ![a].stage = s, ![a].result = "ok"]
          PROVE  Phase(a)'
        <3>1. job'[a].stage = s /\ job'[a].result = "ok" /\ job'[a].push = job[a].push
            BY <1>0, <2>1 DEF JobType, Job
        <3> QED
            BY <1>12, <2>1, <3>1 DEF Verify, diskVars, history
    <2> QED
        BY <1>9, <1>12, <2>1 DEF Verify, diskVars
<1>13. CASE RemoveBackup(a)
    BY <1>0, <1>13, GoToFields DEF RemoveBackup, history
<1>14. CASE Restore(a)
    <2>1. CASE temp' = [temp EXCEPT ![a] = bak[a]] /\ GoTo(a, "replace")
        <3>1. temp'[a] = bak[a]
            BY <2>1 DEF TypeOK
        <3> QED
            BY <1>0, <1>14, <2>1, <3>1, GoToFields DEF Restore, history
    <2>2. CASE GoTo(a, "unlock") /\ UNCHANGED temp
        BY <1>0, <1>14, <2>2, GoToFields DEF Restore, history
    <2> QED
        BY <1>14, <2>1, <2>2 DEF Restore
<1>15. CASE Replace(a)
    BY <1>0, <1>15, GoToFields DEF Replace, history
<1> QED
    BY <1>1, <1>2, <1>3, <1>4, <1>5, <1>6, <1>7, <1>8, <1>10, <1>11, <1>12, <1>13,
       <1>14, <1>15 DEF Step, WriteOne

LEMMA PhaseInit == Init => LockInv /\ PhaseInv
BY DEF Init, Idle, LockInv, PhaseInv, Phase, Verdict, Clean, At, Holds, Critical

LEMMA PhaseNext ==
    ASSUME TypeOK, LockInv, PhaseInv, [Next]_vars
    PROVE  LockInv' /\ PhaseInv'
<1>1. ASSUME NEW a \in Applier, Step(a)
      PROVE  LockInv' /\ PhaseInv'
    <2>1. Phase(a)'
        BY <1>1, PhaseStep DEF PhaseInv
    <2>2. ASSUME NEW b \in Applier, b # a
          PROVE  Phase(b)'
        BY <1>1, <2>2, Frame, PhaseFrame DEF PhaseInv
    <2> QED
        BY <1>1, <2>1, <2>2, LockStep DEF PhaseInv
<1>2. CASE CliLock \/ CliUnlock
    <2>1. LockInv'
        BY <1>2, ApplyAssumption DEF CliLock, CliUnlock, LockInv, Holds
    <2>2. \A b \in Applier : Phase(b)'
        BY <1>2, PhaseFrame DEF CliLock, CliUnlock, PhaseInv, diskVars, history
    <2> QED
        BY <2>1, <2>2 DEF PhaseInv
<1>3. CASE Disturb
    <2>1. PICK c \in File : CliWrite(c)
        BY <1>3 DEF Disturb
    <2>2. LockInv'
        BY <2>1 DEF CliWrite, LockInv, Holds
    <2>3. ASSUME NEW b \in Applier
          PROVE  Phase(b)'
        <3>1. CASE lock = b
            BY <2>1, <2>3, <3>1 DEF CliWrite, PhaseInv, Phase, Verdict, At
        <3>2. CASE lock # b
            <4>1. ~ Holds(b) /\ (b \in disturbed' <=> b \in disturbed)
                BY <2>1, <2>3, <3>2 DEF CliWrite, LockInv
            <4> QED
                BY <2>1, <2>3, <4>1, PhaseFrame DEF CliWrite, PhaseInv
        <3> QED
            BY <3>1, <3>2
    <2> QED
        BY <2>2, <2>3 DEF PhaseInv
<1>4. CASE UNCHANGED vars
    BY <1>4 DEF vars, diskVars, history, LockInv, PhaseInv, Phase, Verdict, Clean, At, Holds
<1> QED
    BY <1>1, <1>2, <1>3, <1>4, NextCases

LEMMA Phases == Spec => [](TypeOK /\ LockInv /\ PhaseInv)
BY TypeCorrect, PhaseInit, PhaseNext, PTL DEF Spec

-----------------------------------------------------------------------------
\* An ack with ok means the file has the content announced, for any number of
\* appliers, unless a CLI writes without the lock.
THEOREM AckMeansAppliedHolds == Spec => []AckMeansApplied
<1>1. PhaseInv => AckMeansApplied
    BY DEF PhaseInv, Phase, Verdict, Clean, At, AckMeansApplied, Holds, Critical
<1> QED
    BY <1>1, Phases, PTL

\* Whatever fails and whenever the process dies, what the push was to replace
\* is in the file or in the backup until the push has been verified.
THEOREM RecoverableHolds == Spec => []Recoverable
<1>1. PhaseInv => Recoverable
    <2> SUFFICES ASSUME PhaseInv, NEW a \in Applier, Holds(a), job[a].result # "ok",
                        a \notin disturbed
                 PROVE  file = before[a] \/ bak[a] = before[a]
        BY DEF Recoverable
    <2> QED
        BY DEF PhaseInv, Phase, Verdict, Clean, At, Holds, Critical
<1> QED
    BY <1>1, Phases, PTL

\* The restore of a backup replaces this applier's own write only: no other
\* applier, and no CLI that takes the lock, is ever undone.
THEOREM RestoresOwnWriteHolds == Spec => RestoresOwnWrite
<1>1. PhaseInv /\ [Next]_vars =>
        [\A a \in Applier :
            (Replace(a) /\ a \notin disturbed)
            => file \in {job[a].push.raw, before[a]} /\ file' \in {file, before[a]}]_vars
    BY DEF PhaseInv, Phase, Clean, At, Replace
<1> QED
    BY <1>1, Phases, PTL DEF Spec, RestoresOwnWrite
-----------------------------------------------------------------------------
(***************************************************************************)
(* The lock is not leaked: the converse of LockInv.                        *)
(***************************************************************************)
HeldInv == \A a \in Applier : lock = a => Holds(a)

LEMMA HeldStep ==
    ASSUME TypeOK, LockInv, HeldInv, NEW a \in Applier, Step(a)
    PROVE  HeldInv'
<1>0. JobType
    BY DEF TypeOK, JobType
<1>1. ASSUME NEW b \in Applier, b # a, lock' = b
      PROVE  Holds(b)'
    <2>1. lock = b
        BY <1>1, ApplyAssumption
        DEF Step, WriteOne, Start, Check, TakeLock, LockTimeout, Stat, ReadBackup, Backup,
            WriteTemp, Rename, Verify, RemoveBackup, Restore, Replace, Unlock, Cancel, Crash
    <2> QED
        BY <1>1, <2>1, Frame DEF HeldInv, Holds
<1>2. ASSUME lock' = a
      PROVE  Holds(a)'
    <2>1. CASE (\E p \in Pushes : Start(a, p)) \/ Check(a) \/ LockTimeout(a) \/ Cancel(a)
        <3>1. lock' = lock /\ ~ Holds(a)
            BY <2>1 DEF Start, Check, LockTimeout, Cancel, At, Holds, Critical
        <3> QED
            BY <1>2, <3>1 DEF HeldInv
    <2>2. CASE TakeLock(a)
        BY <1>0, <2>2 DEF TakeLock, JobType, Job, Holds, Critical
    <2>3. CASE Unlock(a) \/ Crash(a)
        BY <1>2, <2>3, ApplyAssumption DEF Unlock, Crash
    <2>4. CASE Stat(a) \/ ReadBackup(a) \/ Backup(a) \/ WriteTemp(a) \/ Rename(a)
        <3>1. \/ \E s \in Critical : GoTo(a, s) \/ Fail(a, s)
              \/ job' = [job EXCEPT ![a].stage = "backup", ![a].data = file]
            BY <2>4 DEF Stat, ReadBackup, Backup, WriteTemp, Rename, Undo, Critical
        <3> QED
            BY <1>0, <3>1, GoToFields, FailFields DEF Holds, Critical, JobType, Job
    <2>5. CASE Verify(a) \/ RemoveBackup(a) \/ Restore(a) \/ Replace(a)
        <3>1. \/ \E s \in Critical : GoTo(a, s) \/ Fail(a, s)
              \/ \E s \in Critical : job' = [job EXCEPT ![a].stage = s, ![a].result = "ok"]
            BY <2>5 DEF Verify, RemoveBackup, Restore, Replace, Undo, Critical
        <3> QED
            BY <1>0, <3>1, GoToFields, FailFields DEF Holds, Critical, JobType, Job
    <2> QED
        BY <2>1, <2>2, <2>3, <2>4, <2>5 DEF Step, WriteOne
<1> QED
    BY <1>1, <1>2 DEF HeldInv

\* An applier has the lock exactly while it is in the part of writeOne that
\* the lock protects: no error return, cancellation or crash leaves it taken,
\* and nobody works on the file without it.
THEOREM LockNotLeaked == Spec => [](\A a \in Applier : lock = a <=> Holds(a))
<1>1. Init => HeldInv
    BY ApplyAssumption DEF Init, HeldInv
<1>2. TypeOK /\ LockInv /\ HeldInv /\ [Next]_vars => HeldInv'
    <2> SUFFICES ASSUME TypeOK, LockInv, HeldInv, [Next]_vars
                 PROVE  HeldInv'
        OBVIOUS
    <2>1. CASE \E a \in Applier : Step(a)
        BY <2>1, HeldStep
    <2>2. CASE CliLock \/ CliUnlock
        BY <2>2, ApplyAssumption DEF CliLock, CliUnlock, HeldInv, Holds
    <2>3. CASE Disturb
        BY <2>3 DEF Disturb, CliWrite, HeldInv, Holds
    <2>4. CASE UNCHANGED vars
        BY <2>4 DEF vars, HeldInv, Holds
    <2> QED
        BY <2>1, <2>2, <2>3, <2>4, NextCases
<1>3. LockInv /\ HeldInv => \A a \in Applier : lock = a <=> Holds(a)
    BY DEF LockInv, HeldInv
<1> QED
    BY <1>1, <1>2, <1>3, Phases, PTL DEF Spec
=============================================================================
