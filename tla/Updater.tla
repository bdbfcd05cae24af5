------------------------------ MODULE Updater ------------------------------
(***************************************************************************)
(* The transactional update engine (src/internal/updater/updater.go,       *)
(* Engine.Run) over the state backup of module Snapshot, the binary swap   *)
(* of binary.go and the service manager of system.go.                      *)
(*                                                                         *)
(* Runs are started from the command line and by the update agent, and     *)
(* more than one may be under way: each reads its own version and the      *)
(* identity of the configured paths first and takes the non-blocking file  *)
(* lock after that.  One action is one call that changes the machine: the  *)
(* service manager, the backup, a binary copy, one rename of the restore.  *)
(* Every call may fail, with and without its effect; the run may be killed *)
(* and the machine restarted between any two.  Daemons write their state   *)
(* whenever one runs.                                                      *)
(*                                                                         *)
(* A check-only run takes no lock and changes nothing; it is left out.     *)
(***************************************************************************)
EXTENDS Snapshot

CONSTANTS
  Runners,    \* invocations of the updater
  Pinned,     \* versions an operator may ask for with --version
  MaxRuns,    \* bound on runs in a behaviour
  MaxKills    \* bound on killed runs and restarts of the machine

ASSUME UpdaterConstants ==
  /\ "nobody" \notin Runners
  /\ Pinned \subseteq Versions
  /\ MaxRuns \in Nat
  /\ MaxKills \in Nat

VARIABLES
  binary,     \* version of the service binary
  previous,   \* version of the binary saved beside it, 0 if none
  proc,       \* version of the daemon that runs, 0 if none does
  latest,     \* the latest published release
  called,     \* runs that captured the machine and did not try the lock yet
  owner,      \* the run that holds the lock
  pc,         \* what the owner does next
  mode,       \* why it starts the service: which recovery, if any
  current,    \* CurrentVersion of the owner's request
  want,       \* RequestedVersion of the owner's request, 0 for the latest
  target,     \* the version it resolved, 0 before
  outcome,    \* what the owner is about to report, or the last run reported
  found,      \* history: binary and daemon when the owner took the lock
  raced,      \* history: a run took the lock after another had replaced the binary
  runs, kills

engineVars == <<binary, previous, proc, owner, pc, mode, current, want, target,
                outcome, found, raced>>
vars == <<snapshotVars, engineVars, latest, called, runs, kills>>

-----------------------------------------------------------------------------
Down == 0
Nobody == "nobody"
NotCalled == [current |-> 0, want |-> 0]
NothingFound == [binary |-> 0, proc |-> 0]

Steps == {"idle", "prepare", "stop", "verify", "backup", "save", "replace",
          "unreplace", "start", "health", "rollback", "restore", "rebinary",
          "return"}

\* Why the service is started: the candidate; the original after a failed stop
\* or a failed preparation; the previous binary after a failed install or a
\* rollback.
Modes == {"candidate", "afterStop", "original", "install", "rollback"}

Outcomes == {"none", "updated", "current", "refused", "restored", "incomplete",
             "killed"}

\* Every variable has its type.
TypeOK ==
  /\ SnapshotTypeOK
  /\ binary \in Versions
  /\ previous \in 0..MaxVersion
  /\ proc \in 0..MaxVersion
  /\ latest \in Versions
  /\ called \in [Runners -> [current : 0..MaxVersion, want : 0..MaxVersion]]
  /\ owner \in Runners \cup {Nobody}
  /\ pc \in Steps
  /\ mode \in Modes
  /\ current \in 0..MaxVersion
  /\ want \in 0..MaxVersion
  /\ target \in 0..MaxVersion
  /\ outcome \in Outcomes
  /\ found \in [binary : 0..MaxVersion, proc : 0..MaxVersion]
  /\ raced \in BOOLEAN
  /\ runs \in 0..MaxRuns
  /\ kills \in 0..MaxKills

Init ==
  /\ SnapshotInit
  /\ binary = 1 /\ previous = 0 /\ proc = 1 /\ latest = 1
  /\ called = [r \in Runners |-> NotCalled]
  /\ owner = Nobody /\ pc = "idle" /\ mode = "candidate"
  /\ current = 0 /\ want = 0 /\ target = 0
  /\ outcome = "none" /\ found = NothingFound /\ raced = FALSE
  /\ runs = 0 /\ kills = 0

-----------------------------------------------------------------------------
(* The world around the engine                                             *)

\* A release is published.
Publish ==
  /\ latest < MaxVersion
  /\ latest' = latest + 1
  /\ UNCHANGED <<snapshotVars, engineVars, called, runs, kills>>

\* A running daemon writes, replaces or removes one of its state paths.
DaemonWrites(p) ==
  /\ proc # Down
  /\ \E kind \in {"missing", "file", "directory"} :
       live' = [live EXCEPT ![p] =
                  IF kind = "missing" THEN Missing ELSE [kind |-> kind, by |-> proc]]
  /\ left' = [left EXCEPT ![p] = live'[p]]
  /\ UNCHANGED <<snap, restoreVars, faults, engineVars, latest, called, runs, kills>>

-----------------------------------------------------------------------------
(* A run up to the lock                                                    *)

\* Validation, CurrentVersion (the version built into the invoked binary), the
\* path identities and the config digests: all before the lock.
Invoke(r, version) ==
  /\ called[r] = NotCalled
  /\ owner # r
  /\ runs < MaxRuns
  /\ called' = [called EXCEPT ![r] = [current |-> binary, want |-> version]]
  /\ runs' = runs + 1
  /\ UNCHANGED <<snapshotVars, engineVars, latest, kills>>

\* FileLocker.Lock: flock without waiting.
Lock(r) ==
  /\ called[r] # NotCalled
  /\ called' = [called EXCEPT ![r] = NotCalled]
  /\ \/ /\ owner = Nobody
        /\ owner' = r
        /\ pc' = "prepare"
        /\ current' = called[r].current
        /\ want' = called[r].want
        /\ target' = 0
        /\ outcome' = "none"
        /\ found' = [binary |-> binary, proc |-> proc]
        /\ raced' = (raced \/ called[r].current # binary)
     \/ /\ owner # Nobody
        /\ UNCHANGED <<owner, pc, current, want, target, outcome, found, raced>>
  /\ UNCHANGED <<snapshotVars, binary, previous, proc, mode, latest, runs, kills>>

\* What the engine's own steps leave alone.
Outside == UNCHANGED <<owner, current, want, found, raced, latest, called, runs, kills>>

\* Mutant: an incomplete recovery is reported like a complete one.
LeaveQuietly(o) ==
  /\ pc' = "return"
  /\ outcome' = IF o = "incomplete" THEN "restored" ELSE o

\* The run ends with outcome o.
Leave(o) == pc' = "return" /\ outcome' = o

Go(step) == pc' = step /\ UNCHANGED outcome

-----------------------------------------------------------------------------
(* Resolve, compare, stage and verify the candidate                        *)

\* target.Compare(current) < 0 is ErrDowngrade.
Older(v) == v < current

\* ReleaseSource.Resolve: an empty version asks for the latest release.
Resolved == IF want = 0 THEN latest ELSE want

ReleaseFound == Resolved <= latest

\* The archive's checksum, its one binary, and the version and platform the
\* binary was built for all agree; nothing of this touches the machine.
CandidateVerified == Works

CandidateRejected == Fails /\ Leave("refused") /\ UNCHANGED target

Prepare ==
  /\ pc = "prepare"
  /\ \/ CandidateRejected
     \/ /\ Works
        /\ Older(Resolved) \/ ~ReleaseFound
        /\ Leave("refused")
        /\ UNCHANGED target
     \/ /\ CandidateVerified
        /\ ~Older(Resolved) /\ ReleaseFound
        /\ target' = Resolved
        /\ IF Resolved = current THEN Leave("current") ELSE Go("stop")
  /\ UNCHANGED <<live, snap, restoreVars, left, binary, previous, proc, mode>>
  /\ Outside

-----------------------------------------------------------------------------
(* Stop, check again, back up                                              *)

\* Service.Stop: a failure may still have stopped the daemon.
StopOK == Works /\ proc' = Down
StopFails == Fails /\ proc' \in {proc, Down}

\* recoverAfterStopError and recoverStoppedOriginal: start the service that was
\* found and see whether it answers.
RecoverAfterStop == Go("start") /\ mode' = "afterStop"
RecoverOriginal == Go("start") /\ mode' = "original"

Stop ==
  /\ pc = "stop"
  /\ \/ StopOK /\ Go("verify") /\ UNCHANGED mode
     \/ StopFails /\ RecoverAfterStop
  /\ UNCHANGED <<live, snap, restoreVars, left, binary, previous, target>>
  /\ Outside

\* verifyPathIdentities, verifyFileDigests and ValidateUpdatePaths once more.
PathsUnmoved == Works

\* Somebody moved a path, edited the configuration, mounted something below a
\* managed root or took its marker or its owner away meanwhile.
PathsMoved == Fails

\* Mutant: a failed check returns at once, with the service stopped.
VerifyOrReturn ==
  /\ pc = "verify"
  /\ \/ PathsUnmoved /\ Go("backup")
     \/ PathsMoved /\ Leave("refused")
  /\ UNCHANGED <<live, snap, restoreVars, left, binary, previous, proc, mode, target>>
  /\ Outside

VerifyUnmoved ==
  /\ pc = "verify"
  /\ \/ PathsUnmoved /\ Go("backup") /\ UNCHANGED mode
     \/ PathsMoved /\ RecoverOriginal
  /\ UNCHANGED <<live, snap, restoreVars, left, binary, previous, proc, target>>
  /\ Outside

BackupState ==
  /\ pc = "backup"
  /\ \/ Works /\ TakeBackup /\ Go("save") /\ UNCHANGED mode
     \/ /\ Fails /\ RecoverOriginal
        /\ UNCHANGED <<live, snap, restoreVars, left>>
  /\ UNCHANGED <<binary, previous, proc, target>>
  /\ Outside

-----------------------------------------------------------------------------
(* Install                                                                 *)

\* copyFileAtomic replaces the destination by a rename and then syncs the
\* directory: a failure may come before or after the rename.
CopyOK(from, to, toNext) == Works /\ toNext = from
CopyFails(from, to, toNext) == Fails /\ toNext \in {to, from}

\* InstallCandidate, first copy: when it fails, the service binary is untouched.
SavePrevious ==
  /\ pc = "save"
  /\ \/ CopyOK(binary, previous, previous') /\ Go("replace") /\ UNCHANGED mode
     \/ CopyFails(binary, previous, previous') /\ Go("start") /\ mode' = "install"
  /\ UNCHANGED <<live, snap, restoreVars, left, binary, proc, target>>
  /\ Outside

\* InstallCandidate, second copy.
ReplaceBinary ==
  /\ pc = "replace"
  /\ \/ CopyOK(target, binary, binary') /\ Go("start") /\ mode' = "candidate"
     \/ CopyFails(target, binary, binary') /\ Go("unreplace") /\ UNCHANGED mode
  /\ UNCHANGED <<live, snap, restoreVars, left, previous, proc, target>>
  /\ Outside

\* recoverInstallFailure: RestorePrevious, then start.  The state is untouched.
UnreplaceBinary ==
  /\ pc = "unreplace"
  /\ \/ CopyOK(previous, binary, binary') /\ Go("start") /\ mode' = "install"
     \/ CopyFails(previous, binary, binary') /\ Leave("incomplete") /\ UNCHANGED mode
  /\ UNCHANGED <<live, snap, restoreVars, left, previous, proc, target>>
  /\ Outside

-----------------------------------------------------------------------------
(* Start and probe                                                         *)

\* Service.Start: starting a running service does nothing, and a start that
\* reports an error may have started it.
Started == IF proc = Down THEN binary ELSE proc

Start ==
  /\ pc = "start"
  /\ \/ Works /\ proc' = Started /\ Go("health")
     \/ /\ Fails /\ proc' \in {proc, Started}
        /\ CASE mode = "candidate" -> Go("rollback")
             [] mode = "afterStop" -> Go("health")
             [] OTHER -> Leave("incomplete")
  /\ UNCHANGED <<live, snap, restoreVars, left, binary, previous, mode, target>>
  /\ Outside

\* WaitHealthy polls the daemon until it answers or the time is up.  A bad
\* release never answers; that is no fault of the machine's.
WaitHealthy ==
  /\ pc = "health"
  /\ \/ /\ Works /\ proc # Down
        /\ Leave(IF mode = "candidate" THEN "updated" ELSE "restored")
     \/ /\ IF proc = Down \/ mode = "candidate" THEN Works ELSE Fails
        /\ IF mode = "candidate" THEN Go("rollback") ELSE Leave("incomplete")
  /\ UNCHANGED <<live, snap, restoreVars, left, binary, previous, proc, mode, target>>
  /\ Outside

-----------------------------------------------------------------------------
(* Rollback                                                                *)

\* The candidate is stopped before any file is touched; if that fails the
\* rollback goes no further.
RollbackStop ==
  /\ pc = "rollback"
  /\ \/ StopOK /\ RestoreCalled /\ Go("restore")
     \/ /\ StopFails /\ Leave("incomplete")
        /\ UNCHANGED <<live, snap, restoreVars, left>>
  /\ UNCHANGED <<binary, previous, mode, target>>
  /\ Outside

\* Inside Snapshot.Restore.
Restoring ==
  /\ pc = "restore"
  /\ RestoreStep
  /\ UNCHANGED <<engineVars, latest, called, runs, kills>>

\* Mutant: the previous binary goes back whatever became of the state.
RestoreReturnedAnyway ==
  /\ pc = "restore" /\ phase = "off"
  /\ Go("rebinary")
  /\ UNCHANGED <<snapshotVars, binary, previous, proc, mode, target>>
  /\ Outside

\* Snapshot.Restore returned; any error keeps the service stopped.
RestoreReturned ==
  /\ pc = "restore" /\ phase = "off"
  /\ IF verdict = "restored" THEN Go("rebinary") ELSE Leave("incomplete")
  /\ UNCHANGED <<snapshotVars, binary, previous, proc, mode, target>>
  /\ Outside

\* RestorePrevious: the old binary goes back after the state.
RestoreBinary ==
  /\ pc = "rebinary"
  /\ \/ CopyOK(previous, binary, binary') /\ Go("start") /\ mode' = "rollback"
     \/ CopyFails(previous, binary, binary') /\ Leave("incomplete") /\ UNCHANGED mode
  /\ UNCHANGED <<live, snap, restoreVars, left, previous, proc, target>>
  /\ Outside

\* Run returns and unlocks; the backup stays on disk and nothing reads it again.
Finish ==
  /\ pc = "return"
  /\ ForgetSnapshot
  /\ pc' = "idle"
  /\ owner' = Nobody
  /\ found' = NothingFound
  /\ current' = 0 /\ want' = 0 /\ target' = 0 /\ mode' = "candidate"
  /\ UNCHANGED <<faults, binary, previous, proc, outcome, raced, latest, called, runs, kills>>

-----------------------------------------------------------------------------
(* Crashes                                                                 *)

\* The owner's process ends; the kernel drops its lock, nothing else happens.
Killed ==
  /\ kills < MaxKills
  /\ kills' = kills + 1
  /\ ForgetSnapshot
  /\ owner' = Nobody /\ pc' = "idle" /\ found' = NothingFound
  /\ current' = 0 /\ want' = 0 /\ target' = 0 /\ mode' = "candidate"
  /\ outcome' = IF owner = Nobody THEN outcome ELSE "killed"
  /\ UNCHANGED <<faults, binary, previous, raced, latest, runs>>

Kill == owner # Nobody /\ Killed /\ UNCHANGED <<proc, called>>

\* The machine restarts; the service is enabled and comes up with whatever
\* binary is installed.
Reboot ==
  /\ Killed
  /\ proc' = binary
  /\ called' = [r \in Runners |-> NotCalled]

-----------------------------------------------------------------------------
EngineStep ==
  \/ Prepare \/ Stop \/ VerifyUnmoved \/ BackupState
  \/ SavePrevious \/ ReplaceBinary \/ UnreplaceBinary
  \/ Start \/ WaitHealthy
  \/ RollbackStop \/ Restoring \/ RestoreReturned \/ RestoreBinary
  \/ Finish

Next ==
  \/ Publish
  \/ \E p \in Paths : DaemonWrites(p)
  \/ \E r \in Runners : Lock(r) \/ \E v \in Pinned \cup {0} : Invoke(r, v)
  \/ EngineStep
  \/ Kill
  \/ Reboot

\* A run that was started keeps executing: every call it makes has a timeout.
Spec == Init /\ [][Next]_vars /\ WF_vars(EngineStep)

-----------------------------------------------------------------------------
(* Properties                                                              *)

\* While entries are being swapped no daemon runs that could write them.
NoWriterDuringRestore == phase # "off" => proc = Down

\* A restore that failed cleanly left everything the candidate wrote in place.
FailedRestoreUndone ==
  verdict = "untouched" /\ proc = Down => live = left

\* A restore is safe whatever fails in it and wherever it is killed: nothing it
\* finds is lost, no daemon writes under it, and when it reports a clean failure
\* the candidate's state is back as it was (swapStagedEntries, rollbackSwaps).
RestoreIsSafe ==
  /\ TypeOK
  /\ NothingLost
  /\ NoWriterDuringRestore
  /\ FailedRestoreUndone

\* No daemon ever runs on state that a newer one wrote, through failed
\* installs, rollbacks, kills and restarts of the machine at any point: the
\* state goes back before the binary does (rollback).  The exception is a run
\* that read its version before the lock and got the lock after another run had
\* replaced the binary: its downgrade check compares with the older version.
NoDaemonOnNewerState ==
  proc # Down /\ ~raced => \A p \in Paths : live[p].by <= proc

\* The old binary goes back only over the state exactly as the backup took it,
\* every path of it.
RollbackIsComplete ==
  pc = "rebinary" \/ (pc \in {"start", "health"} /\ mode = "rollback" /\ proc = Down)
    => live = snap

Service == INSTANCE ServiceUpdate WITH
  installed <- binary,
  serving   <- proc,
  run       <- IF owner = Nobody THEN [from |-> 0, was |-> 0, to |-> 0]
               ELSE [from |-> found.binary, was |-> found.proc, to |-> target],
  result    <- IF owner = Nobody THEN outcome ELSE "none"

\* The engine does what ServiceUpdate promises its callers: one run at a time,
\* the binary replaced only while the service is down, and a result that is
\* true of the binary and of the running daemon.
ImplementsServiceUpdate == Service!ServiceSpec

\* A service that a run has stopped is eventually up again, or the run has said
\* that recovery is incomplete, or it was killed.
StoppedIsAnswered ==
  (owner # Nobody /\ found.proc # Down /\ proc = Down)
    ~> (proc # Down \/ outcome \in {"incomplete", "killed"})
=============================================================================
