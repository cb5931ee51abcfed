-------------------------------- MODULE Apply --------------------------------
(***************************************************************************)
(* applyTruth and writeOne (internal/client/apply.go) on the primitives of *)
(* internal/safeio: lock, backup, atomic write, verify, and the way back.  *)
(*                                                                         *)
(* Several appliers may work on one path: agents on the same host, and a   *)
(* reverse session that has been displaced and still handles a push.  The  *)
(* official CLI writes the file too, some under the same lock ("the Claude *)
(* CLI typically holds the lock only for milliseconds while writing"),     *)
(* some without.  Processes may crash between any two steps; the operating *)
(* system then releases the lock and leaves the files.                     *)
(*                                                                         *)
(* Sync treats the whole of this module as one step.                       *)
(***************************************************************************)
EXTENDS Integers

CONSTANTS
    Applier, Cli, Free,   \* who may hold the lock; Free: nobody
    Content, Absent,      \* contents of a file; Absent: no such file
    Pushes,               \* the pushes: raw bytes and the fingerprint announced
    NoPush,
    LockRetryMax,         \* common.LockRetryMax
    DiskFails,            \* whether opening, reading, writing, renaming may fail
    CliBare               \* whether the CLI also writes without the lock

ASSUME ApplyAssumption ==
    /\ Cli \notin Applier /\ Free \notin Applier \cup {Cli}
    /\ Absent \notin Content
    /\ Pushes \subseteq [raw : Content, fingerprint : Content]
    /\ NoPush \notin Pushes
    /\ LockRetryMax \in Nat \ {0}
    /\ DiskFails \in BOOLEAN /\ CliBare \in BOOLEAN

VARIABLES
    file,       \* the credential file
    lock,       \* who holds <path>.lock
    job,        \* what each applier is doing: the locals of writeOne
    bak,        \* each applier's backup file
    temp,       \* each applier's temporary file
    before,     \* history: the file when the applier took the lock
    disturbed   \* history: appliers whose file the CLI wrote under their lock

diskVars == <<file, bak, temp>>
history  == <<before, disturbed>>
vars     == <<diskVars, history, lock, job>>

\* The stages of writeOne; the last line is under the lock.
Critical == {"stat", "read", "backup", "write", "rename", "verify", "discard",
             "restore", "replace", "remove", "unlock"}
Stages   == {"idle", "check", "lock"} \cup Critical

File == Content \cup {Absent}

Job == [stage : Stages, push : Pushes \cup {NoPush}, tries : 0..(LockRetryMax - 1),
        data : File, result : {"none", "ok", "failed", "crashed"}]

TypeOK ==
    /\ file \in File
    /\ lock \in Applier \cup {Cli, Free}
    /\ job \in [Applier -> Job]
    /\ \A a \in Applier : job[a].stage # "idle" => job[a].push \in Pushes
    /\ bak \in [Applier -> File]
    /\ temp \in [Applier -> File]
    /\ before \in [Applier -> File]
    /\ disturbed \subseteq Applier

Idle == [stage |-> "idle", push |-> NoPush, tries |-> 0, data |-> Absent, result |-> "none"]

Init ==
    /\ file \in File
    /\ lock = Free
    /\ job = [a \in Applier |-> Idle]
    /\ bak = [a \in Applier |-> Absent]
    /\ temp = [a \in Applier |-> Absent]
    /\ before = [a \in Applier |-> Absent]
    /\ disturbed = {}

-----------------------------------------------------------------------------
At(a, stage) == job[a].stage = stage

GoTo(a, stage) == job' = [job EXCEPT ![a].stage = stage]

\* The apply is over: applyTruth returns the ack, the locals are gone.
Return(a, result) == job' = [job EXCEPT ![a] = [Idle EXCEPT !.result = result]]

Forget(a) ==
    /\ before' = [before EXCEPT ![a] = Absent]
    /\ disturbed' = disturbed \ {a}

Fail(a, stage) == job' = [job EXCEPT ![a].stage = stage, ![a].result = "failed"]

\* The error paths after the backup: restore it if there is one.
Undo(a) == IF bak[a] = Absent THEN Fail(a, "unlock") ELSE Fail(a, "restore")

-----------------------------------------------------------------------------
(***************************************************************************)
(* Up to the lock.                                                         *)
(***************************************************************************)

\* A push arrives.  (One that cannot be decoded is answered at once.)  Backup
\* and temporary files have fresh names.
Start(a, p) ==
    /\ At(a, "idle")
    /\ job' = [job EXCEPT ![a] = [Idle EXCEPT !.stage = "check", !.push = p]]
    /\ bak' = [bak EXCEPT ![a] = Absent]
    /\ temp' = [temp EXCEPT ![a] = Absent]
    /\ UNCHANGED <<file, lock, history>>

\* The file that already matches is left alone; one that cannot be read is
\* written.
Check(a) ==
    /\ At(a, "check")
    /\ \/ /\ file = job[a].push.fingerprint
          /\ Return(a, "ok")
       \/ /\ file # job[a].push.fingerprint \/ DiskFails
          /\ GoTo(a, "lock")
    /\ UNCHANGED <<diskVars, lock, history>>

\* Mutant: the lock does not exclude.
TakeLockAnyway(a) ==
    /\ At(a, "lock")
    /\ lock' = a
    /\ job' = [job EXCEPT ![a].stage = "stat", ![a].tries = 0]
    /\ before' = [before EXCEPT ![a] = file]
    /\ UNCHANGED <<diskVars, disturbed>>

TakeLock(a) ==
    /\ At(a, "lock")
    /\ lock = Free
    /\ lock' = a
    /\ job' = [job EXCEPT ![a].stage = "stat", ![a].tries = 0]
    /\ before' = [before EXCEPT ![a] = file]
    /\ UNCHANGED <<diskVars, disturbed>>

\* Mutant: the retries are not counted.
LockTimeoutForever(a) ==
    /\ At(a, "lock") /\ (lock # Free \/ DiskFails)
    /\ UNCHANGED vars

\* LockFile gives up after LockAcquireTimeout, or cannot open the lock file,
\* which it reports in the same way; LockRetryMax attempts are made.
LockTimeout(a) ==
    /\ At(a, "lock") /\ (lock # Free \/ DiskFails)
    /\ IF job[a].tries + 1 < LockRetryMax
       THEN job' = [job EXCEPT ![a].tries = @ + 1]
       ELSE Return(a, "failed")
    /\ UNCHANGED <<diskVars, lock, history>>

\* ctx is cancelled during the pause between two attempts.
Cancel(a) ==
    /\ At(a, "lock") /\ job[a].tries > 0
    /\ Return(a, "failed")
    /\ UNCHANGED <<diskVars, lock, history>>

-----------------------------------------------------------------------------
(***************************************************************************)
(* Under the lock.                                                         *)
(***************************************************************************)
\* os.Stat; any error is taken for a missing file, and no other is modelled.
Stat(a) ==
    /\ At(a, "stat")
    /\ GoTo(a, IF file = Absent THEN "write" ELSE "read")
    /\ UNCHANGED <<diskVars, lock, history>>

\* Mutant: the error return forgets the lock.
ReadBackupLeaks(a) ==
    /\ At(a, "read")
    /\ \/ /\ file # Absent
          /\ job' = [job EXCEPT ![a].stage = "backup", ![a].data = file]
       \/ /\ file = Absent \/ DiskFails
          /\ Return(a, "failed")
    /\ UNCHANGED <<diskVars, lock, history>>

\* ReadWithBackup reads the file, which the CLI may have removed meanwhile.
ReadBackup(a) ==
    /\ At(a, "read")
    /\ \/ /\ file # Absent
          /\ job' = [job EXCEPT ![a].stage = "backup", ![a].data = file]
       \/ /\ file = Absent \/ DiskFails
          /\ Fail(a, "unlock")
    /\ UNCHANGED <<diskVars, lock, history>>

\* ReadWithBackup writes the copy, under a name nobody else uses.
Backup(a) ==
    /\ At(a, "backup")
    /\ \/ /\ bak' = [bak EXCEPT ![a] = job[a].data]
          /\ GoTo(a, "write")
       \/ /\ DiskFails
          /\ Fail(a, "unlock")
          /\ UNCHANGED bak
    /\ UNCHANGED <<file, temp, lock, history>>

\* AtomicWrite, up to the rename: a temporary file, removed when it fails.
WriteTemp(a) ==
    /\ At(a, "write")
    /\ \/ /\ temp' = [temp EXCEPT ![a] = job[a].push.raw]
          /\ GoTo(a, "rename")
       \/ /\ DiskFails
          /\ Undo(a)
          /\ UNCHANGED temp
    /\ UNCHANGED <<file, bak, lock, history>>

Rename(a) ==
    /\ At(a, "rename")
    /\ temp' = [temp EXCEPT ![a] = Absent]
    /\ \/ /\ file' = temp[a]
          /\ GoTo(a, "verify")
       \/ /\ DiskFails
          /\ Undo(a)
          /\ UNCHANGED file
    /\ UNCHANGED <<bak, lock, history>>

\* Mutants: any content that can be read back is accepted; the backup goes
\* before the verdict.
VerifyReadable(a) ==
    /\ At(a, "verify")
    /\ \/ /\ file # Absent
          /\ job' = [job EXCEPT ![a].stage = IF bak[a] = Absent THEN "unlock" ELSE "discard",
                                ![a].result = "ok"]
       \/ /\ file = Absent \/ DiskFails
          /\ Undo(a)
    /\ UNCHANGED <<diskVars, lock, history>>

VerifyLate(a) ==
    /\ At(a, "verify")
    /\ bak' = [bak EXCEPT ![a] = Absent]
    /\ \/ /\ file = job[a].push.fingerprint
          /\ job' = [job EXCEPT ![a].stage = "unlock", ![a].result = "ok"]
       \/ /\ file # job[a].push.fingerprint \/ DiskFails
          /\ Undo(a)
    /\ UNCHANGED <<file, temp, lock, history>>

\* Read the file back; it must have the fingerprint announced.
Verify(a) ==
    /\ At(a, "verify")
    /\ \/ /\ file = job[a].push.fingerprint
          /\ job' = [job EXCEPT ![a].stage = IF bak[a] = Absent THEN "unlock" ELSE "discard",
                                ![a].result = "ok"]
       \/ /\ file # job[a].push.fingerprint \/ DiskFails
          /\ Undo(a)
    /\ UNCHANGED <<diskVars, lock, history>>

\* os.Remove of the backup, after success or after it has been restored; its
\* error is ignored.
RemoveBackup(a) ==
    /\ At(a, "discard") \/ At(a, "remove")
    /\ \/ bak' = [bak EXCEPT ![a] = Absent]
       \/ DiskFails /\ UNCHANGED bak
    /\ GoTo(a, "unlock")
    /\ UNCHANGED <<file, temp, lock, history>>

\* restoreBackup: an atomic write of what the backup holds; when it fails the
\* backup stays.
Restore(a) ==
    /\ At(a, "restore")
    /\ \/ /\ temp' = [temp EXCEPT ![a] = bak[a]]
          /\ GoTo(a, "replace")
       \/ /\ DiskFails
          /\ GoTo(a, "unlock")
          /\ UNCHANGED temp
    /\ UNCHANGED <<file, bak, lock, history>>

Replace(a) ==
    /\ At(a, "replace")
    /\ temp' = [temp EXCEPT ![a] = Absent]
    /\ \/ /\ file' = temp[a]
          /\ GoTo(a, "remove")
       \/ /\ DiskFails
          /\ GoTo(a, "unlock")
          /\ UNCHANGED file
    /\ UNCHANGED <<bak, lock, history>>

Unlock(a) ==
    /\ At(a, "unlock")
    /\ lock' = Free
    /\ Return(a, job[a].result)
    /\ Forget(a)
    /\ UNCHANGED diskVars

-----------------------------------------------------------------------------
(***************************************************************************)
(* The environment.                                                        *)
(***************************************************************************)
Crash(a) ==
    /\ ~ At(a, "idle")
    /\ Return(a, "crashed")
    /\ lock' = IF lock = a THEN Free ELSE lock
    /\ Forget(a)
    /\ UNCHANGED diskVars

CliLock ==
    /\ lock = Free
    /\ lock' = Cli
    /\ UNCHANGED <<diskVars, history, job>>

CliUnlock ==
    /\ lock = Cli
    /\ lock' = Free
    /\ UNCHANGED <<diskVars, history, job>>

\* Refresh, login or logout.
CliWrite(c) ==
    /\ lock = Cli \/ CliBare
    /\ file' = c
    /\ disturbed' = disturbed \cup ({lock} \cap Applier)
    /\ UNCHANGED <<bak, temp, before, lock, job>>

-----------------------------------------------------------------------------
WriteOne(a) ==
    \/ Check(a)
    \/ TakeLock(a)
    \/ LockTimeout(a)
    \/ Stat(a)
    \/ ReadBackup(a)
    \/ Backup(a)
    \/ WriteTemp(a)
    \/ Rename(a)
    \/ Verify(a)
    \/ RemoveBackup(a)
    \/ Restore(a)
    \/ Replace(a)
    \/ Unlock(a)

Next ==
    \/ \E a \in Applier :
         \/ \E p \in Pushes : Start(a, p)
         \/ WriteOne(a)
         \/ Cancel(a)
         \/ Crash(a)
    \/ CliLock
    \/ CliUnlock
    \/ \E c \in File : CliWrite(c)

Spec == Init /\ [][Next]_vars

\* A call of writeOne runs to its end.  The CLI promises nothing, not even to
\* release the lock.
FairSpec == Spec /\ \A a \in Applier : WF_vars(WriteOne(a))

-----------------------------------------------------------------------------
(***************************************************************************)
(* Properties.                                                             *)
(***************************************************************************)
Holds(a) == job[a].stage \in Critical

\* An ack with ok (apply.go: "verifies the on-disk fingerprint matches the
\* delivered one"): when writeOne ends well, the file still has the content
\* announced, unless a CLI wrote it without the lock meanwhile.
AckMeansApplied ==
    \A a \in Applier :
        (Holds(a) /\ job[a].result = "ok" /\ a \notin disturbed)
        => file = job[a].push.fingerprint

\* The content a push replaces is never lost before the push is verified, at
\* whatever step an error or a crash strikes: it is in the file or in the
\* backup beside it.  Again, a CLI that ignores the lock is not protected.
Recoverable ==
    \A a \in Applier :
        (Holds(a) /\ job[a].result # "ok" /\ a \notin disturbed /\ before[a] # Absent)
        => file = before[a] \/ bak[a] = before[a]

\* The way back undoes this applier's own write and no other's: what
\* restoreBackup replaces is what this push wrote or what it found.
RestoresOwnWrite ==
    [][\A a \in Applier :
          (Replace(a) /\ a \notin disturbed)
          => file \in {job[a].push.raw, before[a]} /\ file' \in {file, before[a]}]_vars

\* Every push is answered, even when somebody keeps the lock for ever.
Answered == \A a \in Applier : ~ At(a, "idle") ~> At(a, "idle")

\* The lock is released on every path out of writeOne.
LockFreed == \A a \in Applier : lock = a ~> lock # a
=============================================================================
