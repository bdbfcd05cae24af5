------------------------------ MODULE Snapshot ------------------------------
(***************************************************************************)
(* The backup of the durable state and its restore                         *)
(* (src/internal/updater/backup.go): BackupState archives every configured *)
(* path, Snapshot.Restore stages the archived entries in a private         *)
(* container beside each path and then swaps them in one by one: the live  *)
(* entry is renamed into the container ("displaced"), the staged one is    *)
(* renamed to the live path, the directory is synced.  A failure undoes    *)
(* the swaps already made, in reverse order; the containers are removed    *)
(* only when nothing in them can still be needed.                          *)
(*                                                                         *)
(* Every rename, sync and removal is a step of its own, may fail (at most  *)
(* MaxFaults failures in a behaviour), and the process may be killed       *)
(* between any two of them.  What a path holds is abstracted to its kind   *)
(* and to the version of the daemon that wrote it.                         *)
(***************************************************************************)
EXTENDS Naturals, FiniteSetsExt

CONSTANTS
  NumPaths,     \* how many state paths the configuration names
  MaxVersion,   \* releases are 1..MaxVersion
  MaxFaults     \* bound on failing file and service operations

ASSUME SnapshotConstants ==
  /\ NumPaths \in Nat \ {0}
  /\ MaxVersion \in Nat \ {0}
  /\ MaxFaults \in Nat

VARIABLES
  live,       \* what is at every state path
  snap,       \* manifest and archive of the backup of this run
  staged,     \* "restored" inside the container of every path
  displaced,  \* "displaced" inside the container of every path
  phase,      \* where Restore is
  entry,      \* the path swapStagedEntries works on
  swapped,    \* the paths with a swapRecord
  safe,       \* cleanupSafe
  verdict,    \* what the last Restore returned
  faults,     \* how many operations failed so far
  left        \* history: what the last daemon wrote, or the last Restore found

restoreVars == <<staged, displaced, phase, entry, swapped, safe, verdict>>
snapshotVars == <<live, snap, restoreVars, faults, left>>

-----------------------------------------------------------------------------
(* Records                                                                 *)

\* The configured paths, resolved, distinct and none below another.
Paths == 1..NumPaths
Versions == 1..MaxVersion

\* stateKindMissing, and an empty place of a container.
Missing == [kind |-> "missing", by |-> 0]

Contents == {Missing} \cup [kind : {"file", "directory"}, by : Versions]

Nothing == [p \in Paths |-> Missing]

Phases == {"off", "validate", "stage", "revalidate", "quarantine", "activate",
           "putBack", "sync", "uninstall", "reinstate", "resync", "cleanup"}

\* "restored": no error.  "leftover": state restored, a container not removed.
\* "untouched": failed, every swap undone.  "retained": failed, containers kept.
\* "abandoned": the process died inside Restore.
Verdicts == {"none", "restored", "leftover", "untouched", "retained", "abandoned"}

SnapshotTypeOK ==
  /\ live \in [Paths -> Contents]
  /\ snap \in [Paths -> Contents]
  /\ staged \in [Paths -> Contents]
  /\ displaced \in [Paths -> Contents]
  /\ phase \in Phases
  /\ entry \in 1..(NumPaths + 1)
  /\ swapped \subseteq Paths
  /\ safe \in BOOLEAN
  /\ verdict \in Verdicts
  /\ faults \in 0..MaxFaults
  /\ left \in [Paths -> Contents]

SnapshotInit ==
  /\ live \in [Paths -> {Missing} \cup [kind : {"file", "directory"}, by : {1}]]
  /\ snap = Nothing
  /\ staged = Nothing
  /\ displaced = Nothing
  /\ phase = "off"
  /\ entry = 1
  /\ swapped = {}
  /\ safe = TRUE
  /\ verdict = "none"
  /\ faults = 0
  /\ left = live

\* An operation fails; it costs one of the bounded failures.
Fails == /\ faults < MaxFaults
         /\ faults' = faults + 1

Works == UNCHANGED faults

-----------------------------------------------------------------------------
(* Backup                                                                  *)

\* One path in the archive: its kind and what is in it.
Archived(p) == live[p]

\* BackupState with the service stopped.  When it fails it removes its own
\* directory and nothing else has changed.
TakeBackup ==
  /\ snap' = [p \in Paths |-> Archived(p)]
  /\ verdict' = "none"
  /\ UNCHANGED <<live, staged, displaced, phase, entry, swapped, safe, left>>

-----------------------------------------------------------------------------
(* Restore: staging                                                        *)

\* validateLiveTargets and the same test inside swapStagedEntries: a directory
\* is only ever replaced by a directory, a file or nothing never by one.
KindAgrees(p) ==
  IF snap[p].kind = "directory"
    THEN live[p].kind \in {"directory", "missing"}
    ELSE live[p].kind # "directory"

TargetsValid == \A p \in Paths : KindAgrees(p)

\* Restore is called.  Its containers are new directories of their own.
RestoreCalled ==
  /\ phase = "off"
  /\ phase' = "validate"
  /\ staged' = Nothing
  /\ displaced' = Nothing
  /\ entry' = 1
  /\ swapped' = {}
  /\ safe' = TRUE
  /\ verdict' = "none"
  /\ left' = live
  /\ UNCHANGED <<live, snap>>

Return(v) == phase' = "off" /\ verdict' = v

ValidateLive ==
  /\ phase = "validate"
  /\ IF TargetsValid
       THEN phase' = "stage" /\ UNCHANGED verdict
       ELSE Return("untouched")
  /\ Works
  /\ UNCHANGED <<live, snap, left, staged, displaced, entry, swapped, safe>>

\* Every archived entry is copied into its container; the archive's digest is
\* checked while it is read, and every root must be there.
StageEntries == staged' = snap

\* verifyArchiveHash and stageArchive.  A failure removes the containers.
StageArchive ==
  /\ phase = "stage"
  /\ \/ /\ Works
        /\ StageEntries
        /\ phase' = "revalidate"
        /\ UNCHANGED verdict
     \/ /\ Fails
        /\ Return("untouched")
        /\ UNCHANGED staged
  /\ UNCHANGED <<live, snap, left, displaced, entry, swapped, safe>>

\* The second validateLiveTargets, right before the first rename.
RevalidateLive ==
  /\ phase = "revalidate"
  /\ IF TargetsValid
       THEN phase' = "quarantine" /\ UNCHANGED <<verdict, staged>>
       ELSE Return("untouched") /\ staged' = Nothing
  /\ Works
  /\ UNCHANGED <<live, snap, left, displaced, entry, swapped, safe>>

-----------------------------------------------------------------------------
(* Restore: the swap                                                       *)

\* Mutant: two regular files count as the same whatever they hold.
SameKindInPlace(p) ==
  snap[p].kind \in {"file", "missing"} /\ live[p].kind = snap[p].kind

\* sameRegularFile, or missing in both.
AlreadyInPlace(p) ==
  \/ snap[p].kind = "file" /\ live[p] = staged[p]
  \/ snap[p].kind = "missing" /\ live[p].kind = "missing"

\* Where the loop goes after entry is dealt with.
NextEntry == IF entry = NumPaths THEN "cleanup" ELSE "quarantine"

\* A failed swap starts rollbackSwaps, which has nothing to do when no entry
\* was swapped yet.
StartUndo(ok) ==
  /\ safe' = ok
  /\ IF swapped = {}
       THEN IF ok THEN phase' = "cleanup" /\ UNCHANGED verdict
                  ELSE Return("retained")
       ELSE phase' = "uninstall" /\ UNCHANGED verdict

\* Restore's result while it is cleaning up: the loop ran to its end iff entry
\* moved past the last path.
Complete == entry = NumPaths + 1

\* The live entry is inspected and renamed into its container.
Quarantine ==
  /\ phase = "quarantine"
  /\ \/ /\ KindAgrees(entry) /\ AlreadyInPlace(entry)
        /\ Works
        /\ entry' = entry + 1
        /\ phase' = NextEntry
        /\ UNCHANGED <<live, displaced, safe, verdict>>
     \/ /\ KindAgrees(entry) /\ ~AlreadyInPlace(entry)
        /\ Works
        /\ live' = [live EXCEPT ![entry] = Missing]
        /\ displaced' = [displaced EXCEPT ![entry] = live[entry]]
        /\ phase' = "activate"
        /\ UNCHANGED <<entry, safe, verdict>>
     \/ /\ IF KindAgrees(entry) THEN Fails ELSE Works
        /\ StartUndo(TRUE)
        /\ UNCHANGED <<live, displaced, entry>>
  /\ UNCHANGED <<snap, left, staged, swapped>>

\* The staged entry is renamed to the live path, if the backup has one.
Activate ==
  /\ phase = "activate"
  /\ \/ /\ Works
        /\ live' = [live EXCEPT ![entry] = staged[entry]]
        /\ staged' = [staged EXCEPT ![entry] = Missing]
        /\ swapped' = swapped \cup {entry}
        /\ phase' = "sync"
     \/ /\ Fails
        /\ snap[entry] # Missing
        /\ phase' = "putBack"
        /\ UNCHANGED <<live, staged, swapped>>
  /\ UNCHANGED <<snap, left, displaced, entry, safe, verdict>>

\* The activation failed: the displaced entry goes back before the others.
PutBack ==
  /\ phase = "putBack"
  /\ \/ /\ Works
        /\ live' = [live EXCEPT ![entry] = displaced[entry]]
        /\ displaced' = [displaced EXCEPT ![entry] = Missing]
        /\ StartUndo(TRUE)
     \/ /\ Fails
        /\ displaced[entry] # Missing
        /\ StartUndo(FALSE)
        /\ UNCHANGED <<live, displaced>>
  /\ UNCHANGED <<snap, left, staged, swapped, entry>>

\* The directory of the swapped entry is synced.
SyncSwap ==
  /\ phase = "sync"
  /\ \/ /\ Works
        /\ entry' = entry + 1
        /\ phase' = NextEntry
        /\ UNCHANGED <<safe, verdict>>
     \/ /\ Fails
        /\ StartUndo(TRUE)
        /\ UNCHANGED entry
  /\ UNCHANGED <<live, snap, left, staged, displaced, swapped>>

-----------------------------------------------------------------------------
(* Restore: rollbackSwaps, newest record first                             *)

Newest == Max(swapped)

\* Mutant: the errors of rollbackSwaps are dropped, the containers removed.
RecordDoneUnjoined(ok) ==
  /\ swapped' = swapped \ {Newest}
  /\ UNCHANGED <<safe, verdict>>
  /\ phase' = IF swapped = {Newest} THEN "cleanup" ELSE "uninstall"

\* The record is done with; after the last one rollbackSwaps returns.
RecordDone(ok) ==
  /\ swapped' = swapped \ {Newest}
  /\ safe' = (safe /\ ok)
  /\ IF swapped = {Newest}
       THEN IF safe /\ ok THEN phase' = "cleanup" /\ UNCHANGED verdict
                          ELSE Return("retained")
       ELSE phase' = "uninstall" /\ UNCHANGED verdict

\* Rename the restored entry back into its container; a failure leaves this
\* record alone and goes on with the next.
Uninstall ==
  /\ phase = "uninstall"
  /\ \/ /\ Works
        /\ staged' = [staged EXCEPT ![Newest] = live[Newest]]
        /\ live' = [live EXCEPT ![Newest] = Missing]
        /\ phase' = "reinstate"
        /\ UNCHANGED <<swapped, safe, verdict>>
     \/ /\ Fails
        /\ snap[Newest] # Missing
        /\ RecordDone(FALSE)
        /\ UNCHANGED <<live, staged>>
  /\ UNCHANGED <<snap, left, displaced, entry>>

\* Rename the displaced entry back to its path.
Reinstate ==
  /\ phase = "reinstate"
  /\ phase' = "resync"
  /\ \/ /\ Works
        /\ live' = [live EXCEPT ![Newest] = displaced[Newest]]
        /\ displaced' = [displaced EXCEPT ![Newest] = Missing]
        /\ UNCHANGED safe
     \/ /\ Fails
        /\ displaced[Newest] # Missing
        /\ safe' = FALSE
        /\ UNCHANGED <<live, displaced>>
  /\ UNCHANGED <<snap, left, staged, entry, swapped, verdict>>

Resync ==
  /\ phase = "resync"
  /\ \/ Works /\ RecordDone(TRUE)
     \/ Fails /\ RecordDone(FALSE)
  /\ UNCHANGED <<live, snap, left, staged, displaced, entry>>

-----------------------------------------------------------------------------
(* Restore: the end                                                        *)

\* cleanupStagedEntries: reached after a complete swap and after a clean undo.
\* A removal that fails leaves some of the containers behind.
Cleanup ==
  /\ phase = "cleanup"
  /\ left' = IF Complete THEN live ELSE left
  /\ \/ /\ Works
        /\ staged' = Nothing
        /\ displaced' = Nothing
        /\ Return(IF Complete THEN "restored" ELSE "untouched")
     \/ /\ Fails
        /\ \E kept \in (SUBSET Paths) \ {{}} :
             /\ staged' = [p \in Paths |-> IF p \in kept THEN staged[p] ELSE Missing]
             /\ displaced' = [p \in Paths |-> IF p \in kept THEN displaced[p] ELSE Missing]
        /\ Return(IF Complete THEN "leftover" ELSE "untouched")
  /\ UNCHANGED <<live, snap, entry, swapped, safe>>

RestoreStep ==
  \/ ValidateLive \/ StageArchive \/ RevalidateLive
  \/ Quarantine \/ Activate \/ PutBack \/ SyncSwap
  \/ Uninstall \/ Reinstate \/ Resync
  \/ Cleanup

\* The process ends: what it had in memory is gone, what is on disk stays.
ForgetSnapshot ==
  /\ snap' = Nothing
  /\ entry' = 1
  /\ swapped' = {}
  /\ safe' = TRUE
  /\ IF phase = "off" THEN UNCHANGED <<phase, verdict>> ELSE Return("abandoned")
  /\ UNCHANGED <<live, left, staged, displaced>>

-----------------------------------------------------------------------------
(* Properties                                                              *)

\* Nothing is ever lost by a restore that did not complete: what it found at a
\* path is there or in the path's container until a daemon writes there again,
\* whatever rename failed and wherever the process died (swapStagedEntries,
\* cleanupSafe).
NothingLost ==
  \A p \in Paths : left[p] \in {live[p], displaced[p]}
=============================================================================
