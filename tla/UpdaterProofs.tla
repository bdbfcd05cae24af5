---------------------------- MODULE UpdaterProofs ----------------------------
(***************************************************************************)
(* Proofs about the update engine, for every set of runners, every number  *)
(* of paths, releases, failures, runs and kills: first the steps of        *)
(* Snapshot.Restore, then the engine that calls it.                        *)
(***************************************************************************)
EXTENDS Updater, WellFoundedInduction, TLAPS

-----------------------------------------------------------------------------
(* The invariant of a restore                                              *)

\* Not touched yet: the archived entry waits in the container.
Waiting(p) == live[p] = left[p] /\ displaced[p] = Missing /\ staged[p] = snap[p]

\* Between its two renames: nothing at the path, both entries in the container.
Between(p) == live[p] = Missing /\ displaced[p] = left[p] /\ staged[p] = snap[p]

\* Swapped: the archived entry at the path, what was there in the container.
Swapped(p) == live[p] = snap[p] /\ displaced[p] = left[p] /\ staged[p] = Missing

\* The loop of swapStagedEntries: the paths before entry hold the archived state, the
\* paths after it were not touched.
Looping ==
  phase \in {"quarantine", "activate", "putBack", "sync"} =>
    /\ safe /\ entry \in Paths
    /\ \A p \in Paths : p < entry =>
         \/ p \in swapped /\ Swapped(p)
         \/ p \notin swapped /\ Waiting(p) /\ live[p] = snap[p]
    /\ \A p \in Paths : p > entry => p \notin swapped /\ Waiting(p)
    /\ phase = "quarantine" => entry \notin swapped /\ Waiting(entry)
    /\ phase \in {"activate", "putBack"} => entry \notin swapped /\ Between(entry)
    /\ phase = "sync" => entry \in swapped /\ Swapped(entry)

\* rollbackSwaps: what still has a record is swapped, but for the one it works on; what
\* has none is back, unless an undo failed.
Undoing ==
  phase \in {"uninstall", "reinstate", "resync"} =>
    /\ entry \in Paths /\ swapped # {}
    /\ \A p \in swapped : p # Newest \/ phase = "uninstall" => Swapped(p)
    /\ phase = "reinstate" => Between(Newest)
    /\ phase = "resync" /\ safe => live[Newest] = left[Newest]
    /\ safe => \A p \in Paths \ swapped : live[p] = left[p]

\* Before the loop and after it.
Entering ==
  /\ phase \in {"validate", "stage"} =>
       live = left /\ staged = Nothing /\ displaced = Nothing
  /\ phase = "revalidate" => \A p \in Paths : Waiting(p)
  /\ phase \in {"validate", "stage", "revalidate"} => swapped = {} /\ entry = 1 /\ safe

Leaving ==
  /\ phase = "cleanup" => live = IF Complete THEN snap ELSE left
  /\ phase # "off" => verdict = "none"
  /\ verdict = "untouched" => live = left

RestoreInv == SnapshotTypeOK /\ NothingLost /\ Entering /\ Looping /\ Undoing /\ Leaving

-----------------------------------------------------------------------------
(* The newest record                                                       *)

\* A set of paths with a member has a greatest one, so Newest is one of the records and
\* no record is newer.
LEMMA NewestIsRecord ==
  ASSUME swapped \subseteq Paths, swapped # {}
  PROVE  Newest \in swapped /\ \A p \in swapped : p <= Newest
<1> DEFINE rest == {NumPaths - p : p \in swapped}
           less == OpToRel(<, Nat)
<1>1. NumPaths \in Nat /\ \A p \in swapped : p \in 1..NumPaths
  BY SnapshotConstants DEF Paths
<1>2. rest \subseteq Nat /\ rest # {}
  BY <1>1
<1>3. PICK x \in rest : \A y \in rest : ~(<<y, x>> \in less)
  <2> HIDE DEF rest, less
  <2>1. IsWellFoundedOn(less, Nat)
    BY NatLessThanWellFounded DEF less
  <2> QED BY <1>2, <2>1, WFMin
<1>4. \A y \in rest : x <= y
  <2>1. less = {ss \in Nat \X Nat : ss[1] < ss[2]}
    BY Zenon DEF OpToRel
  <2> HIDE DEF rest, less
  <2> SUFFICES ASSUME NEW y \in rest, y < x PROVE FALSE
    BY <1>2, <1>3
  <2>2. <<y, x>> \in Nat \X Nat /\ <<y, x>>[1] < <<y, x>>[2]
    BY <1>2, <1>3
  <2>3. <<y, x>> \in less
    BY <2>1, <2>2
  <2> QED BY <1>3, <2>3
<1>5. PICK m \in swapped : x = NumPaths - m
  BY <1>3
<1>6. \A p \in swapped : p <= m
  BY <1>1, <1>4, <1>5
<1>7. \A p \in swapped : m >= p
  BY <1>1, <1>6
<1>8. \E n \in swapped : \A p \in swapped : n >= p
  BY <1>7
<1>9. Newest \in swapped /\ \A p \in swapped : Newest >= p
  BY <1>8 DEF Newest, Max
<1> QED BY <1>1, <1>9

-----------------------------------------------------------------------------
(* Steps outside the swap                                                  *)

LEMMA Counting ==
  ASSUME SnapshotTypeOK, Works \/ Fails
  PROVE  faults' \in 0..MaxFaults
BY SnapshotConstants DEF SnapshotTypeOK, Works, Fails

LEMMA SnapshotInitInv == SnapshotInit => RestoreInv
<1> SUFFICES ASSUME SnapshotInit PROVE RestoreInv
  OBVIOUS
<1>1. SnapshotTypeOK
  <2>1. safe \in BOOLEAN
    BY Zenon DEF SnapshotInit
  <2>2. Nothing \in [Paths -> Contents]
    BY DEF Nothing, Contents
  <2>3. live \in [Paths -> Contents]
    BY SnapshotConstants DEF SnapshotInit, Contents, Versions
  <2> QED BY <2>1, <2>2, <2>3, SnapshotConstants DEF SnapshotInit, SnapshotTypeOK, Phases, Verdicts
<1>2. NothingLost /\ Entering /\ Looping /\ Undoing /\ Leaving
  BY DEF SnapshotInit, NothingLost, Entering, Looping, Undoing, Leaving
<1> QED BY <1>1, <1>2 DEF RestoreInv

\* A backup changes neither the live state nor the containers.
LEMMA TakeBackupKeeps ==
  ASSUME RestoreInv, phase = "off", TakeBackup, faults' \in 0..MaxFaults
  PROVE  RestoreInv'
<1>1. SnapshotTypeOK'
  BY DEF RestoreInv, SnapshotTypeOK, TakeBackup, Archived, Verdicts
<1>2. NothingLost' /\ Entering' /\ Looping' /\ Undoing' /\ Leaving'
  BY DEF RestoreInv, TakeBackup, NothingLost, Entering, Looping, Undoing, Leaving
<1> QED BY <1>1, <1>2 DEF RestoreInv

LEMMA RestoreCalledKeeps ==
  ASSUME RestoreInv, RestoreCalled, faults' \in 0..MaxFaults
  PROVE  RestoreInv'
<1>1. SnapshotTypeOK'
  <2>1. safe' \in BOOLEAN
    BY Zenon DEF RestoreCalled
  <2>2. Nothing \in [Paths -> Contents]
    BY DEF Nothing, Contents
  <2> QED BY <2>1, <2>2, SnapshotConstants DEF RestoreInv, SnapshotTypeOK, RestoreCalled, Phases, Verdicts
<1>2. NothingLost' /\ Entering' /\ Looping' /\ Undoing' /\ Leaving'
  BY DEF RestoreCalled, NothingLost, Entering, Looping, Undoing, Leaving
<1> QED BY <1>1, <1>2 DEF RestoreInv

\* The process that restored is gone: the disk is as it was.
LEMMA ForgetSnapshotKeeps ==
  ASSUME RestoreInv, ForgetSnapshot, UNCHANGED faults
  PROVE  RestoreInv' /\ phase' = "off" /\ UNCHANGED live
<1>1. phase' = "off" /\ verdict' \in Verdicts /\ (verdict' = "untouched" => verdict = "untouched")
  BY DEF ForgetSnapshot, Return, RestoreInv, SnapshotTypeOK, Verdicts
<1>2. SnapshotTypeOK'
  <2>1. safe' \in BOOLEAN
    BY Zenon DEF ForgetSnapshot
  <2>2. Nothing \in [Paths -> Contents]
    BY DEF Nothing, Contents
  <2> QED BY <1>1, <2>1, <2>2, SnapshotConstants DEF RestoreInv, SnapshotTypeOK, ForgetSnapshot, Phases
<1>3. NothingLost' /\ Entering' /\ Looping' /\ Undoing' /\ Leaving'
  BY <1>1 DEF RestoreInv, ForgetSnapshot, NothingLost, Entering, Looping, Undoing, Leaving
<1> QED BY <1>1, <1>2, <1>3 DEF RestoreInv, ForgetSnapshot

\* A daemon writes one path while no restore runs: it leaves nothing to be kept there.
LEMMA DaemonWriteKeeps ==
  ASSUME RestoreInv, phase = "off", NEW p \in Paths, NEW c \in Contents,
         live' = [live EXCEPT ![p] = c], left' = [left EXCEPT ![p] = c],
         UNCHANGED <<snap, restoreVars, faults>>
  PROVE  RestoreInv'
<1>1. SnapshotTypeOK'
  BY DEF RestoreInv, SnapshotTypeOK, restoreVars
<1>2. NothingLost'
  BY DEF RestoreInv, NothingLost, SnapshotTypeOK, restoreVars
<1>3. Entering' /\ Looping' /\ Undoing'
  BY DEF RestoreInv, Entering, Looping, Undoing, restoreVars
<1>4. Leaving'
  BY DEF RestoreInv, Leaving, SnapshotTypeOK, restoreVars
<1> QED BY <1>1, <1>2, <1>3, <1>4 DEF RestoreInv

-----------------------------------------------------------------------------
(* Before the loop                                                         *)

LEMMA ValidateLiveKeeps ==
  ASSUME RestoreInv, ValidateLive
  PROVE  RestoreInv'
<1>1. SnapshotTypeOK'
  BY Counting DEF RestoreInv, SnapshotTypeOK, ValidateLive, Return, Works, Phases, Verdicts
<1>2. NothingLost' /\ Looping' /\ Undoing'
  BY DEF RestoreInv, ValidateLive, Return, NothingLost, Looping, Undoing
<1>3. Entering' /\ Leaving'
  BY DEF RestoreInv, ValidateLive, Return, Entering, Leaving
<1> QED BY <1>1, <1>2, <1>3 DEF RestoreInv

LEMMA StageArchiveKeeps ==
  ASSUME RestoreInv, StageArchive
  PROVE  RestoreInv'
<1>1. SnapshotTypeOK'
  BY Counting DEF RestoreInv, SnapshotTypeOK, StageArchive, StageEntries, Return, Phases, Verdicts
<1>2. NothingLost' /\ Looping' /\ Undoing' /\ Leaving'
  BY DEF RestoreInv, StageArchive, Return, NothingLost, Looping, Undoing, Entering, Leaving
<1>3. Entering'
  BY DEF RestoreInv, StageArchive, StageEntries, Return, Entering, Waiting, Nothing
<1> QED BY <1>1, <1>2, <1>3 DEF RestoreInv

LEMMA RevalidateLiveKeeps ==
  ASSUME RestoreInv, RevalidateLive
  PROVE  RestoreInv'
<1>1. SnapshotTypeOK'
  <2>1. Nothing \in [Paths -> Contents]
    BY DEF Nothing, Contents
  <2> QED BY <2>1, Counting DEF RestoreInv, SnapshotTypeOK, RevalidateLive, Return, Phases, Verdicts
<1>2. \A p \in Paths : Waiting(p)
  BY DEF RestoreInv, RevalidateLive, Entering
<1>3. live = left
  BY <1>2 DEF Waiting, RestoreInv, SnapshotTypeOK
<1>4. NothingLost' /\ Entering' /\ Undoing' /\ Leaving'
  BY <1>3 DEF RestoreInv, RevalidateLive, Return, NothingLost, Entering, Undoing, Leaving
<1>5. Looping'
  BY <1>2, SnapshotConstants DEF RestoreInv, RevalidateLive, Return, Looping, Entering, Waiting, Paths
<1> QED BY <1>1, <1>4, <1>5 DEF RestoreInv

-----------------------------------------------------------------------------
(* The loop                                                                *)

\* A swap fails: the records that exist are swapped, and what has none is in place
\* unless putting the displaced entry back failed too.
LEMMA StartUndoKeeps ==
  ASSUME RestoreInv, NEW ok \in BOOLEAN, StartUndo(ok), Works \/ Fails,
         UNCHANGED <<snap, left, staged, swapped, entry>>,
         live' \in [Paths -> Contents], displaced' \in [Paths -> Contents],
         entry \in Paths, verdict = "none",
         NothingLost', \A p \in swapped : Swapped(p)',
         ok => \A p \in Paths \ swapped : live'[p] = left[p]
  PROVE  RestoreInv'
<1>1. safe' = ok /\ phase' \in {"cleanup", "off", "uninstall"}
  BY DEF StartUndo, Return
<1>2. SnapshotTypeOK'
  BY <1>1, Counting DEF RestoreInv, SnapshotTypeOK, StartUndo, Return, Phases, Verdicts
<1>3. ~Complete'
  BY SnapshotConstants DEF Complete, Paths
<1>4. phase' = "cleanup" => live' = left'
  <2> SUFFICES ASSUME phase' = "cleanup" PROVE live' = left
    OBVIOUS
  <2>1. swapped = {} /\ ok
    BY DEF StartUndo, Return
  <2>2. \A p \in Paths : live'[p] = left[p]
    BY <2>1
  <2>3. left \in [Paths -> Contents]
    BY DEF RestoreInv, SnapshotTypeOK
  <2> QED BY <2>2, <2>3
<1>5. Entering' /\ Looping'
  BY <1>1 DEF Entering, Looping
<1>6. Leaving'
  BY <1>1, <1>3, <1>4 DEF StartUndo, Return, Leaving
<1>7. Undoing'
  <2>1. phase' = "uninstall" => swapped # {}
    BY DEF StartUndo, Return
  <2> QED BY <1>1, <2>1 DEF Undoing
<1> QED BY <1>2, <1>5, <1>6, <1>7 DEF RestoreInv

LEMMA QuarantineKeeps ==
  ASSUME RestoreInv, Quarantine
  PROVE  RestoreInv'
<1>1. /\ phase = "quarantine" /\ safe /\ entry \in Paths /\ verdict = "none"
      /\ \A p \in Paths : p < entry =>
           \/ p \in swapped /\ Swapped(p)
           \/ p \notin swapped /\ Waiting(p) /\ live[p] = snap[p]
      /\ \A p \in Paths : p > entry => p \notin swapped /\ Waiting(p)
      /\ entry \notin swapped /\ Waiting(entry)
      /\ UNCHANGED <<snap, left, staged, swapped>>
  BY DEF RestoreInv, Quarantine, Looping, Leaving
<1>2. /\ live \in [Paths -> Contents] /\ snap \in [Paths -> Contents]
      /\ displaced \in [Paths -> Contents] /\ swapped \subseteq Paths
      /\ \A p \in Paths : p \in Nat
  BY SnapshotConstants DEF RestoreInv, SnapshotTypeOK, Paths
<1>3. CASE /\ KindAgrees(entry) /\ AlreadyInPlace(entry)
           /\ Works /\ entry' = entry + 1 /\ phase' = NextEntry
           /\ UNCHANGED <<live, displaced, safe, verdict>>
  <2>1. live[entry] = snap[entry]
    BY <1>1, <1>2, <1>3 DEF AlreadyInPlace, Waiting, Contents, Missing
  <2>2. \A p \in Paths : p < entry' =>
           \/ p \in swapped /\ Swapped(p)
           \/ p \notin swapped /\ Waiting(p) /\ live[p] = snap[p]
    BY <1>1, <1>2, <1>3, <2>1
  <2>3. phase' \in {"cleanup", "quarantine"} /\ entry' \in 1..(NumPaths + 1)
    BY <1>1, <1>3, SnapshotConstants DEF NextEntry, Paths
  <2>4. SnapshotTypeOK'
    BY <1>1, <1>3, <2>3, Counting DEF RestoreInv, SnapshotTypeOK, Phases
  <2>5. NothingLost' /\ Entering' /\ Undoing'
    BY <1>1, <1>3, <2>3 DEF RestoreInv, NothingLost, Entering, Undoing
  <2>6. phase' = "quarantine" => entry' \in Paths
    BY <1>1, <1>3, SnapshotConstants DEF NextEntry, Paths
  <2>7. Looping'
    BY <1>1, <1>2, <1>3, <2>2, <2>3, <2>6 DEF Looping, Waiting, Swapped
  <2>8. Leaving'
    <3>1. phase' = "cleanup" => entry = NumPaths /\ Complete'
      BY <1>3 DEF NextEntry, Complete
    <3>2. phase' = "cleanup" => \A p \in Paths : live[p] = snap[p]
      BY <1>2, <1>3, <2>2, <3>1, SnapshotConstants DEF Paths, Swapped
    <3>3. phase' = "cleanup" => live = snap
      BY <1>2, <3>2
    <3> QED BY <1>1, <1>3, <3>1, <3>3 DEF Leaving
  <2> QED BY <2>4, <2>5, <2>7, <2>8 DEF RestoreInv
<1>4. CASE /\ Works
           /\ live' = [live EXCEPT ![entry] = Missing]
           /\ displaced' = [displaced EXCEPT ![entry] = live[entry]]
           /\ phase' = "activate" /\ UNCHANGED <<entry, safe, verdict>>
  <2>1. SnapshotTypeOK'
    BY <1>1, <1>2, <1>4, Counting DEF RestoreInv, SnapshotTypeOK, Phases, Contents
  <2>2. /\ live'[entry] = Missing /\ displaced'[entry] = live[entry]
        /\ \A p \in Paths : p # entry => live'[p] = live[p] /\ displaced'[p] = displaced[p]
    BY <1>1, <1>2, <1>4
  <2>3. NothingLost'
    BY <1>1, <2>2 DEF RestoreInv, NothingLost, Waiting
  <2>4. Looping'
    BY <1>1, <1>2, <1>4, <2>2 DEF Looping, Waiting, Between, Swapped
  <2>5. Entering' /\ Undoing' /\ Leaving'
    BY <1>1, <1>4 DEF Entering, Undoing, Leaving
  <2> QED BY <2>1, <2>3, <2>4, <2>5 DEF RestoreInv
<1>5. CASE /\ Works \/ Fails
           /\ StartUndo(TRUE)
           /\ UNCHANGED <<live, displaced, entry>>
  <2>1. \A p \in swapped : Swapped(p)
    BY <1>1, <1>2
  <2>2. \A p \in Paths \ swapped : live[p] = left[p]
    BY <1>1, <1>2 DEF Waiting
  <2>3. \A p \in swapped : Swapped(p)'
    BY <1>1, <1>5, <2>1 DEF Swapped
  <2>4. NothingLost'
    BY <1>1, <1>5 DEF RestoreInv, NothingLost
  <2>5. TRUE \in BOOLEAN
    BY Zenon
  <2> QED BY <1>1, <1>2, <1>5, <2>2, <2>3, <2>4, <2>5, StartUndoKeeps
<1> QED BY <1>3, <1>4, <1>5 DEF Quarantine

LEMMA ActivateKeeps ==
  ASSUME RestoreInv, Activate
  PROVE  RestoreInv'
<1>1. /\ phase = "activate" /\ safe /\ entry \in Paths /\ verdict = "none"
      /\ \A p \in Paths : p < entry =>
           \/ p \in swapped /\ Swapped(p)
           \/ p \notin swapped /\ Waiting(p) /\ live[p] = snap[p]
      /\ \A p \in Paths : p > entry => p \notin swapped /\ Waiting(p)
      /\ entry \notin swapped /\ Between(entry)
      /\ UNCHANGED <<snap, left, displaced, entry, safe, verdict>>
  BY DEF RestoreInv, Activate, Looping, Leaving
<1>2. /\ live \in [Paths -> Contents] /\ staged \in [Paths -> Contents]
      /\ swapped \subseteq Paths /\ \A p \in Paths : p \in Nat
  BY SnapshotConstants DEF RestoreInv, SnapshotTypeOK, Paths
<1>3. CASE /\ Works
           /\ live' = [live EXCEPT ![entry] = staged[entry]]
           /\ staged' = [staged EXCEPT ![entry] = Missing]
           /\ swapped' = swapped \cup {entry} /\ phase' = "sync"
  <2>1. SnapshotTypeOK'
    BY <1>1, <1>2, <1>3, Counting DEF RestoreInv, SnapshotTypeOK, Phases, Contents
  <2>2. /\ live'[entry] = snap[entry] /\ staged'[entry] = Missing
        /\ \A p \in Paths : p # entry => live'[p] = live[p] /\ staged'[p] = staged[p]
    BY <1>1, <1>2, <1>3 DEF Between
  <2>3. NothingLost'
    BY <1>1, <2>2 DEF RestoreInv, NothingLost, Between
  <2>4. Looping'
    BY <1>1, <1>2, <1>3, <2>2 DEF Looping, Waiting, Between, Swapped
  <2>5. Entering' /\ Undoing' /\ Leaving'
    BY <1>1, <1>3 DEF Entering, Undoing, Leaving
  <2> QED BY <2>1, <2>3, <2>4, <2>5 DEF RestoreInv
<1>4. CASE Fails /\ phase' = "putBack" /\ UNCHANGED <<live, staged, swapped>>
  <2>1. SnapshotTypeOK'
    BY <1>1, <1>4, Counting DEF RestoreInv, SnapshotTypeOK, Phases
  <2>2. NothingLost' /\ Entering' /\ Undoing' /\ Leaving'
    BY <1>1, <1>4 DEF RestoreInv, NothingLost, Entering, Undoing, Leaving
  <2>3. Looping'
    BY <1>1, <1>4 DEF Looping, Waiting, Between, Swapped
  <2> QED BY <2>1, <2>2, <2>3 DEF RestoreInv
<1> QED BY <1>3, <1>4 DEF Activate

LEMMA PutBackKeeps ==
  ASSUME RestoreInv, PutBack
  PROVE  RestoreInv'
<1>1. /\ phase = "putBack" /\ safe /\ entry \in Paths /\ verdict = "none"
      /\ \A p \in Paths : p < entry =>
           \/ p \in swapped /\ Swapped(p)
           \/ p \notin swapped /\ Waiting(p) /\ live[p] = snap[p]
      /\ \A p \in Paths : p > entry => p \notin swapped /\ Waiting(p)
      /\ entry \notin swapped /\ Between(entry)
      /\ UNCHANGED <<snap, left, staged, swapped, entry>>
  BY DEF RestoreInv, PutBack, Looping, Leaving
<1>2. /\ live \in [Paths -> Contents] /\ displaced \in [Paths -> Contents]
      /\ swapped \subseteq Paths /\ \A p \in Paths : p \in Nat
  BY SnapshotConstants DEF RestoreInv, SnapshotTypeOK, Paths
<1>3. \A p \in swapped : p # entry /\ Swapped(p)
  BY <1>1, <1>2
<1>4. TRUE \in BOOLEAN /\ FALSE \in BOOLEAN
  BY Zenon
<1>5. CASE /\ Works
           /\ live' = [live EXCEPT ![entry] = displaced[entry]]
           /\ displaced' = [displaced EXCEPT ![entry] = Missing]
           /\ StartUndo(TRUE)
  <2>1. live' \in [Paths -> Contents] /\ displaced' \in [Paths -> Contents]
    BY <1>1, <1>2, <1>5 DEF Contents
  <2>2. /\ live'[entry] = left[entry]
        /\ \A p \in Paths : p # entry => live'[p] = live[p] /\ displaced'[p] = displaced[p]
    BY <1>1, <1>2, <1>5 DEF Between
  <2>3. NothingLost'
    BY <1>1, <2>2 DEF RestoreInv, NothingLost
  <2>4. \A p \in swapped : Swapped(p)'
    BY <1>1, <1>2, <1>3, <2>2 DEF Swapped
  <2>5. \A p \in Paths \ swapped : live'[p] = left[p]
    BY <1>1, <1>2, <2>2 DEF Waiting
  <2> QED BY <1>1, <1>4, <1>5, <2>1, <2>3, <2>4, <2>5, StartUndoKeeps
<1>6. CASE Fails /\ StartUndo(FALSE) /\ UNCHANGED <<live, displaced>>
  <2>1. NothingLost'
    BY <1>1, <1>6 DEF RestoreInv, NothingLost
  <2>2. \A p \in swapped : Swapped(p)'
    BY <1>1, <1>3, <1>6 DEF Swapped
  <2> QED BY <1>1, <1>2, <1>4, <1>6, <2>1, <2>2, StartUndoKeeps
<1> QED BY <1>5, <1>6 DEF PutBack

LEMMA SyncSwapKeeps ==
  ASSUME RestoreInv, SyncSwap
  PROVE  RestoreInv'
<1>1. /\ phase = "sync" /\ safe /\ entry \in Paths /\ verdict = "none"
      /\ \A p \in Paths : p < entry =>
           \/ p \in swapped /\ Swapped(p)
           \/ p \notin swapped /\ Waiting(p) /\ live[p] = snap[p]
      /\ \A p \in Paths : p > entry => p \notin swapped /\ Waiting(p)
      /\ entry \in swapped /\ Swapped(entry)
      /\ UNCHANGED <<live, snap, left, staged, displaced, swapped>>
  BY DEF RestoreInv, SyncSwap, Looping, Leaving
<1>2. /\ live \in [Paths -> Contents] /\ snap \in [Paths -> Contents]
      /\ displaced \in [Paths -> Contents] /\ swapped \subseteq Paths
      /\ \A p \in Paths : p \in Nat
  BY SnapshotConstants DEF RestoreInv, SnapshotTypeOK, Paths
<1>3. NothingLost'
  BY <1>1 DEF RestoreInv, NothingLost
<1>4. CASE Works /\ entry' = entry + 1 /\ phase' = NextEntry /\ UNCHANGED <<safe, verdict>>
  <2>1. \A p \in Paths : p < entry' =>
           \/ p \in swapped /\ Swapped(p)
           \/ p \notin swapped /\ Waiting(p) /\ live[p] = snap[p]
    BY <1>1, <1>2, <1>4
  <2>2. phase' \in {"cleanup", "quarantine"} /\ entry' \in 1..(NumPaths + 1)
    BY <1>1, <1>4, SnapshotConstants DEF NextEntry, Paths
  <2>3. SnapshotTypeOK'
    BY <1>1, <1>4, <2>2, Counting DEF RestoreInv, SnapshotTypeOK, Phases
  <2>4. Entering' /\ Undoing'
    BY <2>2 DEF Entering, Undoing
  <2>5. phase' = "quarantine" => entry' \in Paths
    BY <1>1, <1>4, SnapshotConstants DEF NextEntry, Paths
  <2>6. Looping'
    BY <1>1, <1>2, <1>4, <2>1, <2>2, <2>5 DEF Looping, Waiting, Swapped
  <2>7. Leaving'
    <3>1. phase' = "cleanup" => entry = NumPaths /\ Complete'
      BY <1>4 DEF NextEntry, Complete
    <3>2. phase' = "cleanup" => \A p \in Paths : live[p] = snap[p]
      BY <1>2, <1>4, <2>1, <3>1, SnapshotConstants DEF Paths, Swapped
    <3>3. phase' = "cleanup" => live = snap
      BY <1>2, <3>2
    <3> QED BY <1>1, <1>4, <3>1, <3>3 DEF Leaving
  <2> QED BY <1>3, <2>3, <2>4, <2>6, <2>7 DEF RestoreInv
<1>5. CASE Fails /\ StartUndo(TRUE) /\ UNCHANGED entry
  <2>1. \A p \in swapped : Swapped(p)'
    BY <1>1, <1>2 DEF Swapped
  <2>2. \A p \in Paths \ swapped : live[p] = left[p]
    BY <1>1, <1>2 DEF Waiting
  <2>3. TRUE \in BOOLEAN
    BY Zenon
  <2> QED BY <1>1, <1>2, <1>3, <1>5, <2>1, <2>2, <2>3, StartUndoKeeps
<1> QED BY <1>4, <1>5 DEF SyncSwap

-----------------------------------------------------------------------------
(* The undo                                                                *)

\* The record of Newest is done with: the rest is still swapped, and its own path is
\* back in place unless something failed.
LEMMA RecordDoneKeeps ==
  ASSUME RestoreInv, phase \in {"uninstall", "resync"}, NEW ok \in BOOLEAN,
         RecordDone(ok), Works \/ Fails,
         UNCHANGED <<live, snap, left, staged, displaced, entry>>,
         safe /\ ok => live[Newest] = left[Newest]
  PROVE  RestoreInv'
<1>1. /\ entry \in Paths /\ swapped # {} /\ swapped \subseteq Paths /\ verdict = "none"
      /\ \A p \in swapped : p # Newest => Swapped(p)
      /\ safe => \A p \in Paths \ swapped : live[p] = left[p]
      /\ safe \in BOOLEAN
  BY DEF RestoreInv, Undoing, Leaving, SnapshotTypeOK
<1>2. Newest \in swapped
  BY <1>1, NewestIsRecord
<1>3. swapped' = swapped \ {Newest} /\ safe' = (safe /\ ok)
  BY DEF RecordDone
<1>4. phase' \in {"cleanup", "off", "uninstall"}
  BY DEF RecordDone, Return
<1>5. SnapshotTypeOK'
  <2>1. safe' \in BOOLEAN
    BY <1>1, <1>3
  <2>2. verdict' \in Verdicts
    BY DEF RecordDone, Return, RestoreInv, SnapshotTypeOK, Verdicts
  <2> QED BY <1>3, <1>4, <2>1, <2>2, Counting DEF RestoreInv, SnapshotTypeOK, Phases
<1>6. safe' => \A p \in Paths \ swapped' : live[p] = left[p]
  BY <1>1, <1>2, <1>3
<1>7. \A p \in swapped' : Swapped(p)'
  BY <1>1, <1>3 DEF Swapped
<1>8. NothingLost' /\ Entering' /\ Looping'
  BY <1>4 DEF RestoreInv, NothingLost, Entering, Looping
<1>9. Undoing'
  <2>1. phase' = "uninstall" => swapped' # {}
    BY <1>2, <1>3 DEF RecordDone, Return
  <2> QED BY <1>1, <1>4, <1>6, <1>7, <2>1 DEF Undoing
<1>10. Leaving'
  <2>1. ~Complete'
    BY <1>1, SnapshotConstants DEF Complete, Paths
  <2>2. phase' = "cleanup" => swapped' = {} /\ safe'
    BY <1>3 DEF RecordDone, Return
  <2>3. phase' = "cleanup" => \A p \in Paths : live[p] = left[p]
    BY <1>6, <2>2
  <2>4. live \in [Paths -> Contents] /\ left \in [Paths -> Contents]
    BY DEF RestoreInv, SnapshotTypeOK
  <2>5. phase' = "cleanup" => live = left
    BY <2>3, <2>4
  <2>6. verdict' # "untouched" /\ (phase' # "off" => verdict' = "none")
    BY <1>1 DEF RecordDone, Return
  <2> QED BY <2>1, <2>5, <2>6 DEF Leaving
<1> QED BY <1>5, <1>8, <1>9, <1>10 DEF RestoreInv

LEMMA UninstallKeeps ==
  ASSUME RestoreInv, Uninstall
  PROVE  RestoreInv'
<1>1. /\ phase = "uninstall" /\ entry \in Paths /\ swapped # {} /\ swapped \subseteq Paths
      /\ verdict = "none"
      /\ \A p \in swapped : Swapped(p)
      /\ safe => \A p \in Paths \ swapped : live[p] = left[p]
      /\ UNCHANGED <<snap, left, displaced, entry>>
  BY DEF RestoreInv, Uninstall, Undoing, Leaving, SnapshotTypeOK
<1>2. Newest \in swapped /\ Newest \in Paths
  BY <1>1, NewestIsRecord
<1>3. CASE /\ Works
           /\ staged' = [staged EXCEPT ![Newest] = live[Newest]]
           /\ live' = [live EXCEPT ![Newest] = Missing]
           /\ phase' = "reinstate" /\ UNCHANGED <<swapped, safe, verdict>>
  <2>1. /\ live \in [Paths -> Contents] /\ staged \in [Paths -> Contents]
        /\ Newest' = Newest /\ Missing \in Contents
    BY <1>3 DEF RestoreInv, SnapshotTypeOK, Newest, Contents
  <2>2. live' \in [Paths -> Contents] /\ staged' \in [Paths -> Contents]
    BY <1>2, <1>3, <2>1
  <2>3. /\ live'[Newest] = Missing /\ staged'[Newest] = live[Newest]
        /\ \A p \in Paths : p # Newest => live'[p] = live[p] /\ staged'[p] = staged[p]
    BY <1>2, <1>3, <2>1
  <2>4. SnapshotTypeOK'
    BY <1>1, <1>3, <2>2, Counting DEF RestoreInv, SnapshotTypeOK, Phases
  <2>5. Between(Newest)'
    BY <1>1, <1>2, <2>1, <2>3 DEF Between, Swapped
  <2>6. NothingLost'
    BY <1>1, <1>2, <2>3 DEF RestoreInv, NothingLost, Swapped
  <2>7. \A p \in swapped : p # Newest => Swapped(p)'
    BY <1>1, <2>3 DEF Swapped
  <2>8. Undoing'
    BY <1>1, <1>2, <1>3, <2>1, <2>3, <2>5, <2>7 DEF Undoing
  <2>9. Entering' /\ Looping' /\ Leaving'
    BY <1>1, <1>3 DEF Entering, Looping, Leaving
  <2> QED BY <2>4, <2>6, <2>8, <2>9 DEF RestoreInv
<1>4. CASE Fails /\ RecordDone(FALSE) /\ UNCHANGED <<live, staged>>
  <2>1. FALSE \in BOOLEAN
    BY Zenon
  <2> QED BY <1>1, <1>4, <2>1, RecordDoneKeeps
<1> QED BY <1>3, <1>4 DEF Uninstall

LEMMA ReinstateKeeps ==
  ASSUME RestoreInv, Reinstate
  PROVE  RestoreInv'
<1>1. /\ phase = "reinstate" /\ phase' = "resync" /\ entry \in Paths
      /\ swapped # {} /\ swapped \subseteq Paths /\ verdict = "none"
      /\ \A p \in swapped : p # Newest => Swapped(p)
      /\ Between(Newest)
      /\ safe => \A p \in Paths \ swapped : live[p] = left[p]
      /\ UNCHANGED <<snap, left, staged, entry, swapped, verdict>>
  BY DEF RestoreInv, Reinstate, Undoing, Leaving, SnapshotTypeOK
<1>2. Newest \in swapped /\ Newest \in Paths /\ Newest' = Newest
  BY <1>1, NewestIsRecord DEF Newest
<1>3. Entering' /\ Looping' /\ Leaving'
  BY <1>1 DEF Entering, Looping, Leaving
<1>4. CASE /\ Works
           /\ live' = [live EXCEPT ![Newest] = displaced[Newest]]
           /\ displaced' = [displaced EXCEPT ![Newest] = Missing]
           /\ UNCHANGED safe
  <2>1. live \in [Paths -> Contents] /\ displaced \in [Paths -> Contents] /\ Missing \in Contents
    BY DEF RestoreInv, SnapshotTypeOK, Contents
  <2>2. live' \in [Paths -> Contents] /\ displaced' \in [Paths -> Contents]
    BY <1>2, <1>4, <2>1
  <2>3. /\ live'[Newest] = left[Newest]
        /\ \A p \in Paths : p # Newest => live'[p] = live[p] /\ displaced'[p] = displaced[p]
    BY <1>1, <1>2, <1>4, <2>1 DEF Between
  <2>4. SnapshotTypeOK'
    BY <1>1, <1>4, <2>2, Counting DEF RestoreInv, SnapshotTypeOK, Phases
  <2>5. NothingLost'
    BY <1>1, <2>3 DEF RestoreInv, NothingLost
  <2>6. \A p \in swapped : p # Newest => Swapped(p)'
    BY <1>1, <2>3 DEF Swapped
  <2>7. Undoing'
    BY <1>1, <1>2, <1>4, <2>3, <2>6 DEF Undoing
  <2> QED BY <1>3, <2>4, <2>5, <2>7 DEF RestoreInv
<1>5. CASE Fails /\ safe' = FALSE /\ UNCHANGED <<live, displaced>>
  <2>1. safe' \in BOOLEAN
    BY <1>5, Zenon
  <2>2. SnapshotTypeOK'
    BY <1>1, <1>5, <2>1, Counting DEF RestoreInv, SnapshotTypeOK, Phases
  <2>3. NothingLost'
    BY <1>1, <1>5 DEF RestoreInv, NothingLost
  <2>4. Undoing'
    BY <1>1, <1>2, <1>5 DEF Undoing, Swapped
  <2> QED BY <1>3, <2>2, <2>3, <2>4 DEF RestoreInv
<1> QED BY <1>4, <1>5 DEF Reinstate

LEMMA ResyncKeeps ==
  ASSUME RestoreInv, Resync
  PROVE  RestoreInv'
<1>1. phase = "resync" /\ UNCHANGED <<live, snap, left, staged, displaced, entry>>
  BY DEF Resync
<1>2. safe => live[Newest] = left[Newest]
  BY <1>1 DEF RestoreInv, Undoing
<1>3. TRUE \in BOOLEAN /\ FALSE \in BOOLEAN
  BY Zenon
<1>4. CASE Works /\ RecordDone(TRUE)
  BY <1>1, <1>2, <1>3, <1>4, RecordDoneKeeps
<1>5. CASE Fails /\ RecordDone(FALSE)
  BY <1>1, <1>2, <1>3, <1>5, RecordDoneKeeps
<1> QED BY <1>4, <1>5 DEF Resync

\* A complete restore keeps what it put in place, an undone one what it found.
LEMMA CleanupKeeps ==
  ASSUME RestoreInv, Cleanup
  PROVE  RestoreInv'
<1>1. /\ phase = "cleanup" /\ live = IF Complete THEN snap ELSE left
      /\ left' = IF Complete THEN live ELSE left
      /\ UNCHANGED <<live, snap, entry, swapped, safe>>
      /\ phase' = "off"
      /\ verdict' \in Verdicts
  BY DEF RestoreInv, Cleanup, Leaving, Return, Verdicts
<1>2. left' = live'
  BY <1>1
<1>3. staged' \in [Paths -> Contents] /\ displaced' \in [Paths -> Contents]
  <2>1. Nothing \in [Paths -> Contents] /\ Missing \in Contents
    BY DEF Nothing, Contents
  <2> QED BY <2>1 DEF Cleanup, RestoreInv, SnapshotTypeOK
<1>4. SnapshotTypeOK'
  <2>1. Works \/ Fails
    BY DEF Cleanup
  <2> QED BY <1>1, <1>2, <1>3, <2>1, Counting DEF RestoreInv, SnapshotTypeOK, Phases
<1>5. NothingLost' /\ Entering' /\ Looping' /\ Undoing' /\ Leaving'
  BY <1>1, <1>2 DEF NothingLost, Entering, Looping, Undoing, Leaving
<1> QED BY <1>4, <1>5 DEF RestoreInv

-----------------------------------------------------------------------------
(* What a step of a restore does                                           *)

\* Every rename, sync and removal of Restore, failed or not, keeps the invariant.
THEOREM RestoreStepKeeps == RestoreInv /\ RestoreStep => RestoreInv'
BY ValidateLiveKeeps, StageArchiveKeeps, RevalidateLiveKeeps, QuarantineKeeps, ActivateKeeps,
   PutBackKeeps, SyncSwapKeeps, UninstallKeeps, ReinstateKeeps, ResyncKeeps, CleanupKeeps
   DEF RestoreStep

\* A step leaves at a path what was there, nothing, the archived entry or the entry the
\* restore found; it never changes the archive.
LEMMA RestoreStepLive ==
  ASSUME RestoreInv, RestoreStep
  PROVE  /\ \A p \in Paths : live'[p] \in {live[p], Missing, snap[p], left[p]}
         /\ \A p \in Paths : left'[p] \in {left[p], live[p]}
         /\ snap' = snap
         /\ phase # "off"
<1>1. /\ live \in [Paths -> Contents] /\ entry \in 1..(NumPaths + 1)
      /\ left \in [Paths -> Contents]
  BY DEF RestoreInv, SnapshotTypeOK
<1>2. CASE ValidateLive \/ StageArchive \/ RevalidateLive \/ SyncSwap \/ Resync \/ Cleanup
  BY <1>2 DEF ValidateLive, StageArchive, RevalidateLive, SyncSwap, Resync, Cleanup
<1>3. CASE Quarantine
  BY <1>1, <1>3 DEF Quarantine
<1>4. CASE Activate
  <2>1. staged[entry] = snap[entry]
    BY <1>4 DEF Activate, RestoreInv, Looping, Between
  <2> QED BY <1>1, <1>4, <2>1 DEF Activate
<1>5. CASE PutBack
  <2>1. displaced[entry] = left[entry]
    BY <1>5 DEF PutBack, RestoreInv, Looping, Between
  <2> QED BY <1>1, <1>5, <2>1 DEF PutBack
<1>6. CASE Uninstall
  BY <1>1, <1>6 DEF Uninstall
<1>7. CASE Reinstate
  <2>1. displaced[Newest] = left[Newest]
    BY <1>7 DEF Reinstate, RestoreInv, Undoing, Between
  <2> QED BY <1>1, <1>7, <2>1 DEF Reinstate
<1> QED BY <1>2, <1>3, <1>4, <1>5, <1>6, <1>7 DEF RestoreStep

\* A restore reports success only when every path holds what the backup archived.
THEOREM RestoredIsTheBackup ==
  RestoreInv /\ RestoreStep /\ verdict' = "restored" => live' = snap'
<1> SUFFICES ASSUME RestoreInv, RestoreStep, verdict' = "restored" PROVE live' = snap'
  OBVIOUS
<1>1. verdict = "none"
  BY RestoreStepLive DEF RestoreInv, Leaving
<1>2. CASE Cleanup
  BY <1>2 DEF Cleanup, Return, RestoreInv, Leaving
<1>3. CASE ~Cleanup
  BY <1>1, <1>3 DEF RestoreStep, ValidateLive, StageArchive, RevalidateLive, Quarantine, Activate,
     PutBack, SyncSwap, Uninstall, Reinstate, Resync, StartUndo, RecordDone, Return
<1> QED BY <1>2, <1>3

-----------------------------------------------------------------------------
(* The inductive invariant                                                 *)

\* Steps a run takes with the service down, and steps it takes on the candidate.
Stopped == pc \in {"verify", "backup", "save", "replace", "unreplace", "restore", "rebinary"}
OnCandidate ==
  \/ pc \in {"rollback", "restore", "rebinary"}
  \/ pc \in {"start", "health"} /\ mode = "candidate"
Recovering == pc \in {"start", "health"} /\ mode # "candidate"

\* One owner at a time, and a restore only inside its run.
Owned ==
  /\ owner = Nobody <=> pc = "idle"
  /\ phase # "off" => pc = "restore"
  /\ owner # Nobody => found.binary \in Versions
  /\ pc = "prepare" => target = 0
  /\ pc \notin {"idle", "prepare", "return"} => target \in Versions

\* The binary on disk at every step, and the copy saved beside it.
BinaryKnown ==
  /\ pc \in {"prepare", "stop", "verify", "backup", "save", "replace"} \/ Recovering
       => binary = found.binary
  /\ pc = "unreplace" => binary \in {found.binary, target}
  /\ OnCandidate => binary = target
  /\ OnCandidate \/ pc \in {"replace", "unreplace"} => previous = found.binary

\* The service runs the binary on disk or not at all.
ServiceKnown ==
  /\ proc \in {Down, binary}
  /\ Stopped => proc = Down
  /\ pc = "prepare" => proc = found.proc

\* What a run is about to report is true of binary and daemon.
ReportIsTrue ==
  pc = "return" =>
    /\ outcome \in {"updated", "current", "refused", "restored", "incomplete"}
    /\ outcome = "updated" => binary = target /\ proc = target
    /\ outcome \in {"current", "refused"} => binary = found.binary /\ proc = found.proc
    /\ outcome = "restored" => binary = found.binary /\ proc = found.binary

\* The state after a restore that succeeded.
RestoredState ==
  /\ pc = "restore" /\ phase = "off" /\ verdict = "restored" => live = snap
  /\ RollbackIsComplete

\* Without a race before the lock the target is no older than the binary found, and
\* whatever is on disk was written by the installed binary or an older one; what the
\* backup holds, by the binary found or an older one.
Ordered ==
  ~raced =>
    /\ owner # Nobody => current = found.binary
    /\ pc \notin {"idle", "prepare", "return"} => current <= target
    /\ \A p \in Paths : live[p].by <= binary
    /\ phase # "off" => \A p \in Paths : left[p].by <= binary
    /\ pc = "unreplace" => \A p \in Paths : live[p].by <= found.binary
    /\ OnCandidate \/ pc \in {"save", "replace", "unreplace"}
         => \A p \in Paths : snap[p].by <= found.binary

IInv ==
  /\ TypeOK /\ RestoreInv
  /\ Owned /\ BinaryKnown /\ ServiceKnown /\ ReportIsTrue /\ RestoredState /\ Ordered

-----------------------------------------------------------------------------
(* Steps of the engine that leave the files of the backup alone            *)

LEMMA NoOneRuns == Nobody \notin Runners
BY UpdaterConstants DEF Nobody

LEMMA VersionNumbers ==
  /\ MaxVersion \in Nat /\ Versions \subseteq Nat \ {0}
  /\ \A v \in 0..MaxVersion : v # 0 => v \in Versions
BY SnapshotConstants DEF Versions

\* Every entry says who wrote it; a missing one says nobody.
LEMMA WriterNumbers ==
  ASSUME SnapshotTypeOK, NEW p \in Paths
  PROVE  live[p].by \in Nat /\ snap[p].by \in Nat /\ left[p].by \in Nat /\ Missing.by = 0
<1>1. ASSUME NEW c \in Contents PROVE c.by \in Nat
  <2>1. CASE c = Missing
    BY <2>1 DEF Missing
  <2>2. CASE c # Missing
    BY <2>2, VersionNumbers DEF Contents
  <2> QED BY <2>1, <2>2
<1> QED BY <1>1 DEF SnapshotTypeOK, Missing

SameFiles == UNCHANGED <<live, snap, restoreVars, left>>

LEMMA SnapSame ==
  ASSUME RestoreInv, SameFiles, faults' \in 0..MaxFaults
  PROVE  RestoreInv'
<1>1. SnapshotTypeOK'
  BY DEF RestoreInv, SameFiles, restoreVars, SnapshotTypeOK
<1>2. NothingLost' /\ Entering' /\ Leaving'
  BY DEF RestoreInv, SameFiles, restoreVars, NothingLost, Entering, Waiting, Leaving, Complete
<1>3. Looping' /\ Undoing'
  BY DEF RestoreInv, SameFiles, restoreVars, Looping, Undoing, Waiting, Between, Swapped, Newest
<1> QED BY <1>1, <1>2, <1>3 DEF RestoreInv

LEMMA FaultsTyped ==
  ASSUME IInv, Works \/ Fails
  PROVE  faults' \in 0..MaxFaults
BY Counting DEF IInv, RestoreInv

LEMMA PrepareKeeps ==
  ASSUME IInv, Prepare
  PROVE  IInv'
<1>1. /\ pc = "prepare" /\ SameFiles /\ UNCHANGED <<binary, previous, proc, mode>> /\ Outside
      /\ Works \/ Fails
      /\ \/ pc' = "return" /\ outcome' \in {"refused", "current"} /\ target' \in {target, Resolved}
         \/ /\ pc' = "stop" /\ outcome' = outcome /\ target' = Resolved /\ ~Older(Resolved)
            /\ ReleaseFound
      /\ target' # target => ReleaseFound
  BY DEF Prepare, CandidateRejected, CandidateVerified, Leave, Go, SameFiles
<1>2. Resolved \in Versions
  BY VersionNumbers DEF Resolved, IInv, TypeOK
<1>3. RestoreInv'
  BY <1>1, FaultsTyped, SnapSame DEF IInv
<1>4. TypeOK'
  BY <1>1, <1>2, <1>3, VersionNumbers DEF IInv, TypeOK, RestoreInv, Outside, Steps, Outcomes, Versions
<1>5. Owned' /\ BinaryKnown' /\ ServiceKnown' /\ ReportIsTrue'
  BY <1>1, <1>2 DEF IInv, Owned, BinaryKnown, ServiceKnown, ReportIsTrue, Outside, Stopped, OnCandidate, Recovering, SameFiles, restoreVars
<1>6. RestoredState'
  BY <1>1 DEF RestoredState, RollbackIsComplete
<1>7. Ordered'
  BY <1>1, <1>2, <1>4, VersionNumbers DEF IInv, TypeOK, Owned, Ordered, Outside, OnCandidate, SameFiles, restoreVars, Older
<1> QED BY <1>3, <1>4, <1>5, <1>6, <1>7 DEF IInv

LEMMA StopKeeps ==
  ASSUME IInv, Stop
  PROVE  IInv'
<1>1. /\ pc = "stop" /\ SameFiles /\ UNCHANGED <<binary, previous, target, outcome>> /\ Outside
      /\ Works \/ Fails
      /\ \/ pc' = "verify" /\ proc' = Down /\ mode' = mode
         \/ pc' = "start" /\ proc' \in {proc, Down} /\ mode' = "afterStop"
  BY DEF Stop, StopOK, StopFails, RecoverAfterStop, Go, SameFiles
<1>2. RestoreInv'
  BY <1>1, FaultsTyped, SnapSame DEF IInv
<1>3. TypeOK'
  BY <1>1, <1>2, VersionNumbers DEF IInv, TypeOK, RestoreInv, Outside, Steps, Modes, Down
<1>4. Owned' /\ BinaryKnown' /\ ServiceKnown' /\ ReportIsTrue'
  BY <1>1 DEF IInv, Owned, BinaryKnown, ServiceKnown, ReportIsTrue, Outside, Stopped, OnCandidate, Recovering, SameFiles, restoreVars
<1>5. RestoredState'
  BY <1>1 DEF RestoredState, RollbackIsComplete
<1>6. Ordered'
  BY <1>1 DEF IInv, Owned, Ordered, Outside, OnCandidate, SameFiles, restoreVars
<1> QED BY <1>2, <1>3, <1>4, <1>5, <1>6 DEF IInv

LEMMA VerifyUnmovedKeeps ==
  ASSUME IInv, VerifyUnmoved
  PROVE  IInv'
<1>1. /\ pc = "verify" /\ SameFiles /\ UNCHANGED <<binary, previous, proc, target, outcome>> /\ Outside
      /\ Works \/ Fails
      /\ \/ pc' = "backup" /\ mode' = mode
         \/ pc' = "start" /\ mode' = "original"
  BY DEF VerifyUnmoved, PathsUnmoved, PathsMoved, RecoverOriginal, Go, SameFiles
<1>2. RestoreInv'
  BY <1>1, FaultsTyped, SnapSame DEF IInv
<1>3. TypeOK'
  BY <1>1, <1>2 DEF IInv, TypeOK, RestoreInv, Outside, Steps, Modes
<1>4. Owned' /\ BinaryKnown' /\ ServiceKnown' /\ ReportIsTrue'
  BY <1>1 DEF IInv, Owned, BinaryKnown, ServiceKnown, ReportIsTrue, Outside, Stopped, OnCandidate, Recovering, SameFiles, restoreVars
<1>5. RestoredState'
  BY <1>1 DEF RestoredState, RollbackIsComplete
<1>6. Ordered'
  BY <1>1 DEF IInv, Owned, Ordered, Outside, OnCandidate, SameFiles, restoreVars
<1> QED BY <1>2, <1>3, <1>4, <1>5, <1>6 DEF IInv

LEMMA SavePreviousKeeps ==
  ASSUME IInv, SavePrevious
  PROVE  IInv'
<1>1. /\ pc = "save" /\ SameFiles /\ UNCHANGED <<binary, proc, target, outcome>> /\ Outside
      /\ Works \/ Fails
      /\ \/ pc' = "replace" /\ mode' = mode /\ previous' = binary
         \/ pc' = "start" /\ mode' = "install" /\ previous' \in {previous, binary}
  BY DEF SavePrevious, CopyOK, CopyFails, Go, SameFiles
<1>2. RestoreInv'
  BY <1>1, FaultsTyped, SnapSame DEF IInv
<1>3. TypeOK'
  BY <1>1, <1>2, VersionNumbers DEF IInv, TypeOK, RestoreInv, Outside, Steps, Modes, Versions
<1>4. Owned' /\ BinaryKnown' /\ ServiceKnown' /\ ReportIsTrue'
  BY <1>1 DEF IInv, Owned, BinaryKnown, ServiceKnown, ReportIsTrue, Outside, Stopped, OnCandidate, Recovering, SameFiles, restoreVars
<1>5. RestoredState'
  BY <1>1 DEF RestoredState, RollbackIsComplete
<1>6. Ordered'
  BY <1>1 DEF IInv, Owned, Ordered, Outside, OnCandidate, SameFiles, restoreVars
<1> QED BY <1>2, <1>3, <1>4, <1>5, <1>6 DEF IInv

LEMMA ReplaceBinaryKeeps ==
  ASSUME IInv, ReplaceBinary
  PROVE  IInv'
<1>1. /\ pc = "replace" /\ SameFiles /\ UNCHANGED <<previous, proc, target, outcome>> /\ Outside
      /\ Works \/ Fails
      /\ \/ pc' = "start" /\ mode' = "candidate" /\ binary' = target
         \/ pc' = "unreplace" /\ mode' = mode /\ binary' \in {binary, target}
  BY DEF ReplaceBinary, CopyOK, CopyFails, Go, SameFiles
<1>2. RestoreInv'
  BY <1>1, FaultsTyped, SnapSame DEF IInv
<1>3. TypeOK'
  BY <1>1, <1>2, VersionNumbers DEF IInv, Owned, TypeOK, RestoreInv, Outside, Steps, Modes, Outcomes, Versions, Down
<1>4. Owned' /\ BinaryKnown' /\ ServiceKnown' /\ ReportIsTrue'
  BY <1>1 DEF IInv, Owned, BinaryKnown, ServiceKnown, ReportIsTrue, Outside, Stopped, OnCandidate, Recovering, SameFiles, restoreVars
<1>5. RestoredState'
  BY <1>1 DEF IInv, Owned, ServiceKnown, Stopped, RestoredState, RollbackIsComplete, Outside, SameFiles, restoreVars
<1>6. Ordered'
  <2>1. /\ binary = found.binary /\ binary \in Nat /\ target \in Nat
        /\ \A p \in Paths : live[p].by \in Nat
    BY <1>1, VersionNumbers, WriterNumbers DEF IInv, Owned, BinaryKnown, TypeOK
  <2> QED BY <1>1, <2>1 DEF IInv, Owned, Ordered, Outside, OnCandidate, SameFiles, restoreVars
<1> QED BY <1>2, <1>3, <1>4, <1>5, <1>6 DEF IInv

LEMMA UnreplaceBinaryKeeps ==
  ASSUME IInv, UnreplaceBinary
  PROVE  IInv'
<1>1. /\ pc = "unreplace" /\ SameFiles /\ UNCHANGED <<previous, proc, target>> /\ Outside
      /\ Works \/ Fails
      /\ \/ pc' = "start" /\ mode' = "install" /\ binary' = previous /\ outcome' = outcome
         \/ pc' = "return" /\ mode' = mode /\ binary' \in {binary, previous} /\ outcome' = "incomplete"
  BY DEF UnreplaceBinary, CopyOK, CopyFails, Go, Leave, SameFiles
<1>2. RestoreInv'
  BY <1>1, FaultsTyped, SnapSame DEF IInv
<1>3. TypeOK'
  <2>1. binary' \in Versions
    BY <1>1, NoOneRuns DEF IInv, Owned, BinaryKnown, OnCandidate, TypeOK
  <2> QED BY <1>1, <1>2, <2>1 DEF IInv, TypeOK, RestoreInv, Outside, Steps, Modes, Outcomes
<1>4. Owned' /\ BinaryKnown' /\ ServiceKnown' /\ ReportIsTrue'
  BY <1>1 DEF IInv, Owned, BinaryKnown, ServiceKnown, ReportIsTrue, Outside, Stopped, OnCandidate, Recovering, SameFiles, restoreVars
<1>5. RestoredState'
  BY <1>1 DEF IInv, Owned, ServiceKnown, Stopped, RestoredState, RollbackIsComplete, Outside, SameFiles, restoreVars
<1>6. Ordered'
  BY <1>1 DEF IInv, Owned, BinaryKnown, Ordered, Outside, OnCandidate, Recovering, SameFiles, restoreVars
<1> QED BY <1>2, <1>3, <1>4, <1>5, <1>6 DEF IInv

LEMMA StartKeeps ==
  ASSUME IInv, Start
  PROVE  IInv'
<1>1. /\ pc = "start" /\ SameFiles /\ UNCHANGED <<binary, previous, mode, target>> /\ Outside
      /\ Works \/ Fails
      /\ \/ pc' = "health" /\ outcome' = outcome
         \/ pc' = "rollback" /\ mode = "candidate" /\ outcome' = outcome
         \/ pc' = "return" /\ outcome' = "incomplete"
      /\ proc' \in {proc, Started}
  BY DEF Start, Go, Leave, SameFiles
<1>2. RestoreInv'
  BY <1>1, FaultsTyped, SnapSame DEF IInv
<1>3. TypeOK'
  BY <1>1, <1>2, VersionNumbers DEF IInv, Owned, TypeOK, RestoreInv, Outside, Steps, Modes, Outcomes, Versions, Down, Started
<1>4. Owned' /\ BinaryKnown' /\ ServiceKnown' /\ ReportIsTrue'
  BY <1>1 DEF IInv, Owned, BinaryKnown, ServiceKnown, ReportIsTrue, Outside, Stopped, OnCandidate, Recovering, SameFiles, restoreVars, Started, Down
<1>5. RestoredState'
  BY <1>1 DEF IInv, Owned, ServiceKnown, Stopped, RestoredState, RollbackIsComplete, Started, Outside, SameFiles, restoreVars
<1>6. Ordered'
  BY <1>1 DEF IInv, Owned, BinaryKnown, Ordered, Outside, OnCandidate, Recovering, SameFiles, restoreVars
<1> QED BY <1>2, <1>3, <1>4, <1>5, <1>6 DEF IInv

LEMMA WaitHealthyKeeps ==
  ASSUME IInv, WaitHealthy
  PROVE  IInv'
<1>1. /\ pc = "health" /\ SameFiles /\ UNCHANGED <<binary, previous, proc, mode, target>> /\ Outside
      /\ Works \/ Fails
      /\ \/ /\ pc' = "return" /\ proc # Down
            /\ outcome' = IF mode = "candidate" THEN "updated" ELSE "restored"
         \/ pc' = "rollback" /\ mode = "candidate" /\ outcome' = outcome
         \/ pc' = "return" /\ outcome' = "incomplete"
  BY DEF WaitHealthy, Go, Leave, SameFiles
<1>2. RestoreInv'
  BY <1>1, FaultsTyped, SnapSame DEF IInv
<1>3. TypeOK'
  BY <1>1, <1>2, VersionNumbers DEF IInv, Owned, TypeOK, RestoreInv, Outside, Steps, Modes, Outcomes, Versions, Down
<1>4. Owned' /\ BinaryKnown' /\ ServiceKnown' /\ ReportIsTrue'
  BY <1>1 DEF IInv, Owned, BinaryKnown, ServiceKnown, ReportIsTrue, Outside, Stopped, OnCandidate, Recovering, SameFiles, restoreVars
<1>5. RestoredState'
  BY <1>1 DEF IInv, Owned, ServiceKnown, Stopped, RestoredState, RollbackIsComplete, Outside, SameFiles, restoreVars
<1>6. Ordered'
  BY <1>1 DEF IInv, Owned, BinaryKnown, Ordered, Outside, OnCandidate, Recovering, SameFiles, restoreVars
<1> QED BY <1>2, <1>3, <1>4, <1>5, <1>6 DEF IInv

LEMMA RestoreReturnedKeeps ==
  ASSUME IInv, RestoreReturned
  PROVE  IInv'
<1>1. /\ pc = "restore" /\ phase = "off" /\ SameFiles
      /\ UNCHANGED <<binary, previous, proc, mode, target>> /\ Outside
      /\ Works \/ Fails
      /\ \/ pc' = "rebinary" /\ verdict = "restored" /\ outcome' = outcome
         \/ pc' = "return" /\ outcome' = "incomplete"
  BY DEF RestoreReturned, Go, Leave, SameFiles, snapshotVars, Works
<1>2. RestoreInv'
  BY <1>1, FaultsTyped, SnapSame DEF IInv
<1>3. TypeOK'
  BY <1>1, <1>2, VersionNumbers DEF IInv, Owned, TypeOK, RestoreInv, Outside, Steps, Modes, Outcomes, Versions, Down
<1>4. Owned' /\ BinaryKnown' /\ ServiceKnown' /\ ReportIsTrue'
  BY <1>1 DEF IInv, Owned, BinaryKnown, ServiceKnown, ReportIsTrue, Outside, Stopped, OnCandidate, Recovering, SameFiles, restoreVars
<1>5. RestoredState'
  BY <1>1 DEF IInv, Owned, ServiceKnown, Stopped, RestoredState, RollbackIsComplete, Outside, SameFiles, restoreVars
<1>6. Ordered'
  BY <1>1 DEF IInv, Owned, BinaryKnown, Ordered, Outside, OnCandidate, Recovering, SameFiles, restoreVars
<1> QED BY <1>2, <1>3, <1>4, <1>5, <1>6 DEF IInv

LEMMA RestoreBinaryKeeps ==
  ASSUME IInv, RestoreBinary
  PROVE  IInv'
<1>1. /\ pc = "rebinary" /\ SameFiles /\ UNCHANGED <<previous, proc, target>> /\ Outside
      /\ Works \/ Fails
      /\ \/ pc' = "start" /\ mode' = "rollback" /\ binary' = previous /\ outcome' = outcome
         \/ pc' = "return" /\ mode' = mode /\ binary' \in {binary, previous} /\ outcome' = "incomplete"
  BY DEF RestoreBinary, CopyOK, CopyFails, Go, Leave, SameFiles
<1>2. RestoreInv'
  BY <1>1, FaultsTyped, SnapSame DEF IInv
<1>3. TypeOK'
  <2>1. binary' \in Versions
    BY <1>1, NoOneRuns DEF IInv, Owned, BinaryKnown, OnCandidate, TypeOK
  <2> QED BY <1>1, <1>2, <2>1 DEF IInv, TypeOK, RestoreInv, Outside, Steps, Modes, Outcomes
<1>4. Owned' /\ BinaryKnown' /\ ServiceKnown' /\ ReportIsTrue'
  BY <1>1 DEF IInv, Owned, BinaryKnown, ServiceKnown, ReportIsTrue, Outside, Stopped, OnCandidate, Recovering, SameFiles, restoreVars
<1>5. RestoredState'
  BY <1>1 DEF IInv, Owned, ServiceKnown, Stopped, RestoredState, RollbackIsComplete, Outside, SameFiles, restoreVars
<1>6. Ordered'
  <2>1. live = snap
    BY <1>1 DEF IInv, RestoredState, RollbackIsComplete
  <2> QED BY <1>1, <2>1 DEF IInv, Owned, BinaryKnown, Ordered, Outside, OnCandidate, SameFiles, restoreVars
<1> QED BY <1>2, <1>3, <1>4, <1>5, <1>6 DEF IInv

-----------------------------------------------------------------------------
(* Backup and restore inside a run                                         *)

LEMMA BackupStateKeeps ==
  ASSUME IInv, BackupState
  PROVE  IInv'
<1>1. /\ pc = "backup" /\ UNCHANGED <<binary, previous, proc, target, outcome>> /\ Outside
      /\ Works \/ Fails
      /\ \/ TakeBackup /\ pc' = "save" /\ mode' = mode
         \/ SameFiles /\ pc' = "start" /\ mode' = "original"
  BY DEF BackupState, RecoverOriginal, Go, SameFiles
<1>2. phase = "off" /\ faults' \in 0..MaxFaults
  BY <1>1, FaultsTyped DEF IInv, Owned
<1>3. RestoreInv'
  BY <1>1, <1>2, TakeBackupKeeps, SnapSame DEF IInv
<1>4. phase' = phase /\ live' = live /\ left' = left
  BY <1>1 DEF TakeBackup, SameFiles, restoreVars
<1>5. TypeOK'
  BY <1>1, <1>3 DEF IInv, TypeOK, RestoreInv, Outside, Steps, Modes
<1>6. Owned' /\ BinaryKnown' /\ ServiceKnown' /\ ReportIsTrue'
  BY <1>1, <1>4 DEF IInv, Owned, BinaryKnown, ServiceKnown, ReportIsTrue, Outside, Stopped, OnCandidate, Recovering
<1>7. RestoredState'
  BY <1>1 DEF RestoredState, RollbackIsComplete
<1>8. Ordered'
  <2>1. pc' = "save" => \A p \in Paths : snap'[p] = live[p]
    BY <1>1 DEF TakeBackup, Archived
  <2> QED BY <1>1, <1>2, <1>4, <2>1 DEF IInv, Owned, BinaryKnown, Ordered, Outside, OnCandidate
<1> QED BY <1>3, <1>5, <1>6, <1>7, <1>8 DEF IInv

LEMMA RollbackStopKeeps ==
  ASSUME IInv, RollbackStop
  PROVE  IInv'
<1>1. /\ pc = "rollback" /\ UNCHANGED <<binary, previous, mode, target>> /\ Outside
      /\ Works \/ Fails
      /\ \/ RestoreCalled /\ pc' = "restore" /\ proc' = Down /\ outcome' = outcome
         \/ SameFiles /\ pc' = "return" /\ proc' \in {proc, Down} /\ outcome' = "incomplete"
  BY DEF RollbackStop, StopOK, StopFails, Go, Leave, SameFiles
<1>2. phase = "off" /\ faults' \in 0..MaxFaults
  BY <1>1, FaultsTyped DEF IInv, Owned
<1>3. RestoreInv'
  BY <1>1, <1>2, RestoreCalledKeeps, SnapSame DEF IInv
<1>4. /\ live' = live /\ snap' = snap
      /\ pc' = "restore" => left' = live /\ phase' = "validate"
      /\ pc' = "return" => phase' = "off"
  BY <1>1, <1>2 DEF RestoreCalled, SameFiles, restoreVars
<1>5. TypeOK'
  BY <1>1, <1>3, VersionNumbers DEF IInv, TypeOK, RestoreInv, Outside, Steps, Outcomes, Down
<1>6. Owned' /\ BinaryKnown' /\ ServiceKnown' /\ ReportIsTrue'
  BY <1>1, <1>4 DEF IInv, Owned, BinaryKnown, ServiceKnown, ReportIsTrue, Outside, Stopped, OnCandidate, Recovering
<1>7. RestoredState'
  BY <1>1, <1>4 DEF RestoredState, RollbackIsComplete
<1>8. Ordered'
  BY <1>1, <1>4 DEF IInv, Owned, Ordered, Outside, OnCandidate
<1> QED BY <1>3, <1>5, <1>6, <1>7, <1>8 DEF IInv

LEMMA RestoringKeeps ==
  ASSUME IInv, Restoring
  PROVE  IInv'
<1>1. pc = "restore" /\ RestoreStep /\ UNCHANGED <<engineVars, latest, called, runs, kills>>
  BY DEF Restoring
<1>2. RestoreInv'
  BY <1>1, RestoreStepKeeps DEF IInv
<1>3. /\ \A p \in Paths : live'[p] \in {live[p], Missing, snap[p], left[p]}
      /\ \A p \in Paths : left'[p] \in {left[p], live[p]}
      /\ snap' = snap /\ phase # "off"
  BY <1>1, RestoreStepLive DEF IInv
<1>4. TypeOK'
  BY <1>1, <1>2 DEF IInv, TypeOK, RestoreInv, engineVars
<1>5. Owned' /\ BinaryKnown' /\ ServiceKnown' /\ ReportIsTrue'
  BY <1>1 DEF IInv, Owned, BinaryKnown, ServiceKnown, ReportIsTrue, engineVars, Stopped, OnCandidate, Recovering
<1>6. RestoredState'
  BY <1>1, RestoredIsTheBackup DEF IInv, RestoredState, RollbackIsComplete, engineVars
<1>7. Ordered'
  <2> SUFFICES ASSUME ~raced PROVE Ordered'
    BY <1>1 DEF Ordered, engineVars
  <2>1. /\ \A p \in Paths : live[p].by <= binary /\ left[p].by <= binary
        /\ \A p \in Paths : snap[p].by <= found.binary
        /\ binary = target /\ current = found.binary /\ current <= target
    BY <1>1, <1>3, NoOneRuns DEF IInv, Owned, BinaryKnown, Ordered, OnCandidate
  <2>2. binary \in Nat /\ found.binary \in Nat /\ \A p \in Paths : snap[p].by \in Nat /\ Missing.by = 0
    BY <1>1, VersionNumbers, WriterNumbers DEF IInv, TypeOK
  <2>3. \A p \in Paths : live'[p].by <= binary /\ left'[p].by <= binary
    BY <1>3, <2>1, <2>2
  <2> QED BY <1>1, <1>3, <2>1, <2>3 DEF Ordered, engineVars, OnCandidate
<1> QED BY <1>2, <1>4, <1>5, <1>6, <1>7 DEF IInv

-----------------------------------------------------------------------------
(* The end of a run                                                        *)

\* A run that is over leaves binary, live state and daemon as they are.
LEMMA RunOver ==
  ASSUME IInv, ForgetSnapshot, UNCHANGED <<faults, binary, previous, raced, latest, runs>>,
         owner' = Nobody, pc' = "idle", found' = NothingFound,
         current' = 0, want' = 0, target' = 0, mode' = "candidate",
         outcome' \in Outcomes, proc' \in {proc, binary}, kills' \in 0..MaxKills,
         called' \in [Runners -> [current : 0..MaxVersion, want : 0..MaxVersion]]
  PROVE  IInv'
<1>1. RestoreInv' /\ phase' = "off" /\ UNCHANGED live
  BY ForgetSnapshotKeeps DEF IInv
<1>2. TypeOK'
  BY <1>1, VersionNumbers DEF IInv, TypeOK, RestoreInv, Steps, Modes, NothingFound, Versions
<1>3. Owned' /\ BinaryKnown' /\ ServiceKnown' /\ ReportIsTrue'
  BY <1>1 DEF IInv, Owned, BinaryKnown, ServiceKnown, ReportIsTrue, Stopped, OnCandidate, Recovering
<1>4. RestoredState' /\ Ordered'
  BY <1>1 DEF IInv, RestoredState, RollbackIsComplete, Ordered, OnCandidate
<1> QED BY <1>1, <1>2, <1>3, <1>4 DEF IInv

LEMMA FinishKeeps ==
  ASSUME IInv, Finish
  PROVE  IInv'
BY RunOver DEF Finish, IInv, TypeOK

LEMMA KillKeeps ==
  ASSUME IInv, Kill \/ Reboot
  PROVE  IInv'
<1>1. /\ Killed
      /\ \/ UNCHANGED <<proc, called>>
         \/ proc' = binary /\ called' = [r \in Runners |-> NotCalled]
  BY DEF Kill, Reboot
<1>2. kills' \in 0..MaxKills /\ outcome' \in Outcomes
  BY <1>1, UpdaterConstants DEF Killed, IInv, TypeOK, Outcomes
<1>3. called' \in [Runners -> [current : 0..MaxVersion, want : 0..MaxVersion]]
  BY <1>1, VersionNumbers DEF IInv, TypeOK, NotCalled
<1> QED BY <1>1, <1>2, <1>3, RunOver DEF Killed

-----------------------------------------------------------------------------
(* The world around a run                                                  *)

LEMMA PublishKeeps ==
  ASSUME IInv, Publish
  PROVE  IInv'
<1>1. /\ SameFiles /\ UNCHANGED <<faults, engineVars, called, runs, kills>>
      /\ latest' \in Versions
  BY SnapshotConstants DEF Publish, snapshotVars, SameFiles, IInv, TypeOK, Versions
<1>2. RestoreInv'
  BY <1>1, SnapSame DEF IInv, RestoreInv, SnapshotTypeOK
<1>3. TypeOK'
  BY <1>1, <1>2 DEF IInv, TypeOK, RestoreInv, engineVars
<1>4. Owned' /\ BinaryKnown' /\ ServiceKnown' /\ ReportIsTrue' /\ RestoredState' /\ Ordered'
  BY <1>1 DEF IInv, Owned, BinaryKnown, ServiceKnown, ReportIsTrue, RestoredState, RollbackIsComplete,
     Ordered, Stopped, OnCandidate, Recovering, SameFiles, restoreVars, engineVars
<1> QED BY <1>2, <1>3, <1>4 DEF IInv

LEMMA InvokeKeeps ==
  ASSUME IInv, NEW r \in Runners, NEW v \in Pinned \cup {0}, Invoke(r, v)
  PROVE  IInv'
<1>1. /\ SameFiles /\ UNCHANGED <<faults, engineVars, latest, kills>>
      /\ called' = [called EXCEPT ![r] = [current |-> binary, want |-> v]]
      /\ runs' \in 0..MaxRuns
  BY UpdaterConstants DEF Invoke, snapshotVars, SameFiles, IInv, TypeOK
<1>2. binary \in 0..MaxVersion /\ v \in 0..MaxVersion
  BY UpdaterConstants, SnapshotConstants DEF IInv, TypeOK, Versions
<1>3. RestoreInv'
  BY <1>1, SnapSame DEF IInv, RestoreInv, SnapshotTypeOK
<1>4. TypeOK'
  BY <1>1, <1>2, <1>3 DEF IInv, TypeOK, RestoreInv, engineVars
<1>5. Owned' /\ BinaryKnown' /\ ServiceKnown' /\ ReportIsTrue' /\ RestoredState' /\ Ordered'
  BY <1>1 DEF IInv, Owned, BinaryKnown, ServiceKnown, ReportIsTrue, RestoredState, RollbackIsComplete,
     Ordered, Stopped, OnCandidate, Recovering, SameFiles, restoreVars, engineVars
<1> QED BY <1>3, <1>4, <1>5 DEF IInv

LEMMA LockKeeps ==
  ASSUME IInv, NEW r \in Runners, Lock(r)
  PROVE  IInv'
<1>1. /\ SameFiles /\ UNCHANGED <<faults, binary, previous, proc, mode, latest, runs, kills>>
      /\ called' = [called EXCEPT ![r] = NotCalled]
  BY DEF Lock, snapshotVars, SameFiles
<1>2. RestoreInv'
  BY <1>1, SnapSame DEF IInv, RestoreInv, SnapshotTypeOK
<1>3. called' \in [Runners -> [current : 0..MaxVersion, want : 0..MaxVersion]]
  BY <1>1, VersionNumbers DEF IInv, TypeOK, NotCalled
<1>4. CASE /\ owner = Nobody /\ owner' = r /\ pc' = "prepare"
           /\ current' = called[r].current /\ want' = called[r].want
           /\ target' = 0 /\ outcome' = "none"
           /\ found' = [binary |-> binary, proc |-> proc]
           /\ raced' = (raced \/ called[r].current # binary)
  <2>1. raced' \in BOOLEAN
    BY <1>4 DEF IInv, TypeOK
  <2>2. /\ called[r].current \in 0..MaxVersion /\ called[r].want \in 0..MaxVersion
        /\ found' \in [binary : 0..MaxVersion, proc : 0..MaxVersion]
        /\ found'.binary = binary /\ found'.proc = proc /\ binary \in Versions
    BY <1>4, VersionNumbers DEF IInv, TypeOK, Versions
  <2>3. TypeOK'
    BY <1>1, <1>2, <1>3, <1>4, <2>1, <2>2, VersionNumbers DEF IInv, TypeOK, RestoreInv, Steps, Outcomes
  <2>4. phase = "off" /\ phase' = phase
    BY <1>1, <1>4 DEF IInv, Owned, SameFiles, restoreVars
  <2>5. Owned' /\ BinaryKnown' /\ ServiceKnown' /\ ReportIsTrue'
    BY <1>1, <1>4, <2>2, <2>4, NoOneRuns DEF IInv, Owned, BinaryKnown, ServiceKnown, ReportIsTrue,
       Stopped, OnCandidate, Recovering
  <2>6. RestoredState' /\ Ordered'
    BY <1>1, <1>4, <2>2, <2>4 DEF IInv, RestoredState, RollbackIsComplete, Ordered, OnCandidate, SameFiles
  <2> QED BY <1>2, <2>3, <2>5, <2>6 DEF IInv
<1>5. CASE owner # Nobody /\ UNCHANGED <<owner, pc, current, want, target, outcome, found, raced>>
  <2>1. TypeOK'
    BY <1>1, <1>2, <1>3, <1>5 DEF IInv, TypeOK, RestoreInv
  <2>2. Owned' /\ BinaryKnown' /\ ServiceKnown' /\ ReportIsTrue' /\ RestoredState' /\ Ordered'
    BY <1>1, <1>5 DEF IInv, Owned, BinaryKnown, ServiceKnown, ReportIsTrue, RestoredState, RollbackIsComplete,
       Ordered, Stopped, OnCandidate, Recovering, SameFiles, restoreVars
  <2> QED BY <1>2, <2>1, <2>2 DEF IInv
<1> QED BY <1>4, <1>5 DEF Lock

\* A daemon writes as the binary on disk, and never under a restore.
LEMMA DaemonWritesKeeps ==
  ASSUME IInv, NEW p \in Paths, DaemonWrites(p)
  PROVE  IInv'
<1>1. PICK kind \in {"missing", "file", "directory"} :
        live' = [live EXCEPT ![p] = IF kind = "missing" THEN Missing ELSE [kind |-> kind, by |-> proc]]
  BY DEF DaemonWrites
<1> DEFINE c == IF kind = "missing" THEN Missing ELSE [kind |-> kind, by |-> proc]
<1>2. /\ proc # Down /\ left' = [left EXCEPT ![p] = live'[p]]
      /\ UNCHANGED <<snap, restoreVars, faults, engineVars, latest, called, runs, kills>>
  BY DEF DaemonWrites
<1>3. proc = binary /\ proc \in Versions /\ phase = "off"
  BY <1>2 DEF IInv, ServiceKnown, TypeOK, Owned, Stopped
<1>4. c \in Contents /\ c.by <= binary
  <2>1. binary \in Nat
    BY <1>3, VersionNumbers
  <2>2. CASE kind = "missing"
    BY <2>1, <2>2 DEF Contents, Missing
  <2>3. CASE kind # "missing"
    BY <1>1, <1>3, <2>1, <2>3 DEF Contents
  <2> QED BY <2>2, <2>3
<1> HIDE DEF c
<1>5. live' = [live EXCEPT ![p] = c] /\ live \in [Paths -> Contents]
  BY <1>1 DEF c, IInv, RestoreInv, SnapshotTypeOK
<1>6. left' = [left EXCEPT ![p] = c]
  BY <1>2, <1>5
<1>7. RestoreInv'
  BY <1>2, <1>3, <1>4, <1>5, <1>6, DaemonWriteKeeps DEF IInv
<1>8. TypeOK'
  BY <1>2, <1>7 DEF IInv, TypeOK, RestoreInv, engineVars
<1>9. pc \notin {"unreplace", "restore", "rebinary"}
  BY <1>2 DEF IInv, ServiceKnown, Stopped
<1>10. Owned' /\ BinaryKnown' /\ ServiceKnown' /\ ReportIsTrue'
  BY <1>2 DEF IInv, Owned, BinaryKnown, ServiceKnown, ReportIsTrue, Stopped, OnCandidate, Recovering, restoreVars, engineVars
<1>11. RestoredState'
  BY <1>2, <1>9 DEF RestoredState, RollbackIsComplete, engineVars
<1>12. Ordered'
  BY <1>2, <1>3, <1>4, <1>5, <1>9 DEF IInv, Ordered, OnCandidate, restoreVars, engineVars
<1> QED BY <1>7, <1>8, <1>10, <1>11, <1>12 DEF IInv

-----------------------------------------------------------------------------
(* The safety theorems                                                     *)

LEMMA InitIInv == Init => IInv
<1> SUFFICES ASSUME Init PROVE IInv
  OBVIOUS
<1>1. RestoreInv /\ phase = "off" /\ \A p \in Paths : live[p].by <= 1
  <2>1. ASSUME NEW p \in Paths PROVE live[p].by <= 1
    BY DEF Init, SnapshotInit, Missing
  <2> QED BY <2>1, SnapshotInitInv DEF Init, SnapshotInit
<1>2. TypeOK
  <2>1. raced \in BOOLEAN
    BY Zenon DEF Init
  <2> QED BY <1>1, <2>1, SnapshotConstants, UpdaterConstants DEF Init, TypeOK, RestoreInv, Versions,
        Steps, Modes, Outcomes, NotCalled, NothingFound
<1>3. Owned /\ BinaryKnown /\ ServiceKnown /\ ReportIsTrue /\ RestoredState /\ Ordered
  BY <1>1 DEF Init, Owned, BinaryKnown, ServiceKnown, ReportIsTrue, RestoredState, RollbackIsComplete,
     Ordered, Stopped, OnCandidate, Recovering
<1> QED BY <1>1, <1>2, <1>3 DEF IInv

LEMMA StutterKeeps ==
  ASSUME IInv, UNCHANGED vars
  PROVE  IInv'
<1>1. SameFiles /\ UNCHANGED <<faults, engineVars, latest, called, runs, kills>>
  BY DEF vars, snapshotVars, SameFiles
<1>2. RestoreInv'
  BY <1>1, SnapSame DEF IInv, RestoreInv, SnapshotTypeOK
<1>3. TypeOK'
  BY <1>1, <1>2 DEF IInv, TypeOK, RestoreInv, engineVars
<1>4. Owned' /\ BinaryKnown' /\ ServiceKnown' /\ ReportIsTrue' /\ RestoredState' /\ Ordered'
  BY <1>1 DEF IInv, Owned, BinaryKnown, ServiceKnown, ReportIsTrue, RestoredState, RollbackIsComplete,
     Ordered, Stopped, OnCandidate, Recovering, SameFiles, restoreVars, engineVars
<1> QED BY <1>2, <1>3, <1>4 DEF IInv

\* Every call a run makes, every write of a daemon, every kill and restart keeps the
\* invariant.
LEMMA NextIInv == IInv /\ [Next]_vars => IInv'
<1> SUFFICES ASSUME IInv, [Next]_vars PROVE IInv'
  OBVIOUS
<1>1. CASE Publish \/ Kill \/ Reboot
  BY <1>1, PublishKeeps, KillKeeps
<1>2. ASSUME NEW p \in Paths, DaemonWrites(p) PROVE IInv'
  BY <1>2, DaemonWritesKeeps
<1>3. ASSUME NEW r \in Runners, Lock(r) PROVE IInv'
  BY <1>3, LockKeeps
<1>4. ASSUME NEW r \in Runners, NEW v \in Pinned \cup {0}, Invoke(r, v) PROVE IInv'
  BY <1>4, InvokeKeeps
<1>5. CASE EngineStep
  BY <1>5, PrepareKeeps, StopKeeps, VerifyUnmovedKeeps, BackupStateKeeps, SavePreviousKeeps,
     ReplaceBinaryKeeps, UnreplaceBinaryKeeps, StartKeeps, WaitHealthyKeeps, RollbackStopKeeps,
     RestoringKeeps, RestoreReturnedKeeps, RestoreBinaryKeeps, FinishKeeps DEF EngineStep
<1>6. CASE UNCHANGED vars
  BY <1>6, StutterKeeps
<1> QED BY <1>1, <1>2, <1>3, <1>4, <1>5, <1>6 DEF Next

\* The strengthened invariant holds throughout.
THEOREM Inductive == Spec => []IInv
<1>1. Init => IInv
  BY InitIInv
<1>2. IInv /\ [Next]_vars => IInv'
  BY NextIInv
<1> QED BY <1>1, <1>2, PTL DEF Spec

\* Whatever fails in a restore and wherever it is killed, nothing it found is lost, no
\* daemon writes under it, and a clean failure is the state as it was.
THEOREM RestoreSafe == Spec => []RestoreIsSafe
<1>1. IInv => RestoreIsSafe
  <2> SUFFICES ASSUME IInv PROVE RestoreIsSafe
    OBVIOUS
  <2>1. NoWriterDuringRestore
    BY DEF IInv, Owned, ServiceKnown, Stopped, NoWriterDuringRestore
  <2>2. FailedRestoreUndone
    BY DEF IInv, RestoreInv, Leaving, FailedRestoreUndone
  <2> QED BY <2>1, <2>2 DEF IInv, RestoreInv, RestoreIsSafe
<1> QED BY <1>1, Inductive, PTL

\* The old binary goes back only over the state as the backup took it.
THEOREM RollbackComplete == Spec => []RollbackIsComplete
<1>1. IInv => RollbackIsComplete
  BY DEF IInv, RestoredState
<1> QED BY <1>1, Inductive, PTL

\* Without a race before the lock no daemon runs on state a newer one wrote.
THEOREM StateIsNeverNewer == Spec => []NoDaemonOnNewerState
<1>1. IInv => NoDaemonOnNewerState
  BY DEF IInv, ServiceKnown, Ordered, NoDaemonOnNewerState
<1> QED BY <1>1, Inductive, PTL

-----------------------------------------------------------------------------
(* The engine implements ServiceUpdate                                     *)

LEMMA InitRefines == Init => Service!ServiceInit
BY DEF Init, Service!ServiceInit, Service!NoRun

\* What the abstract service sees.
SameService == UNCHANGED <<binary, proc, owner, found, target>>

LEMMA Unseen ==
  ASSUME SameService, owner # Nobody \/ outcome' = outcome
  PROVE  UNCHANGED Service!serviceVars
BY DEF SameService, Service!serviceVars

\* While a run has the lock it is a run of the abstract service.
LEMMA RunIsRun ==
  ASSUME IInv, owner # Nobody
  PROVE  found.binary # 0 /\ found.binary \in Versions
BY VersionNumbers DEF IInv, Owned

LEMMA StopStartRefines ==
  ASSUME IInv, pc \in {"stop", "start", "rollback"}, proc' \in {Down, proc, binary},
         UNCHANGED <<binary, owner, found, target>>
  PROVE  Service!SwitchService
<1>1. owner # Nobody /\ target \in Versions /\ proc \in {Down, binary}
  BY DEF IInv, Owned, ServiceKnown
<1>2. target # 0 /\ found.binary # 0
  BY <1>1, VersionNumbers, RunIsRun
<1> QED BY <1>1, <1>2 DEF Service!SwitchService, Service!NoRun, Service!Down, Down

LEMMA CopyRefines ==
  ASSUME IInv, pc \in {"replace", "unreplace", "rebinary"},
         binary' \in {binary, previous, target},
         UNCHANGED <<proc, owner, found, target>>
  PROVE  Service!SwitchBinary
<1>1. owner # Nobody /\ target \in Versions /\ proc = Down
  BY DEF IInv, Owned, ServiceKnown, Stopped
<1>2. target # 0 /\ found.binary # 0
  BY <1>1, VersionNumbers, RunIsRun
<1>3. binary' \in {found.binary, target}
  BY DEF IInv, BinaryKnown, OnCandidate
<1> QED BY <1>1, <1>2, <1>3 DEF Service!SwitchBinary, Service!NoRun, Service!Down, Down

LEMMA PrepareRefines ==
  ASSUME IInv, Prepare
  PROVE  Service!ServiceNext \/ UNCHANGED Service!serviceVars
<1>1. /\ owner # Nobody /\ pc = "prepare" /\ UNCHANGED <<binary, proc, owner, found>>
      /\ target = 0 /\ target' \in {target, Resolved}
  BY DEF Prepare, CandidateRejected, Outside, IInv, Owned
<1>2. CASE target' = target
  BY <1>1, <1>2, Unseen DEF SameService
<1>3. CASE target' = Resolved
  <2>1. Resolved \in Service!Releases
    BY VersionNumbers DEF Resolved, IInv, TypeOK, Service!Releases, Versions
  <2>2. found.binary # 0
    BY <1>1, RunIsRun
  <2>3. Service!Aim(Resolved)
    BY <1>1, <1>3, <2>2 DEF Service!Aim, Service!NoRun
  <2> QED BY <2>1, <2>3 DEF Service!ServiceNext
<1> QED BY <1>1, <1>2, <1>3

LEMMA FinishRefines ==
  ASSUME IInv, Finish
  PROVE  Service!ServiceNext
<1>1. /\ pc = "return" /\ owner # Nobody /\ owner' = Nobody
      /\ UNCHANGED <<binary, proc, outcome>>
  BY DEF Finish, IInv, Owned
<1>2. outcome \in Service!Returned
  BY <1>1 DEF IInv, ReportIsTrue, Service!Returned
<1>3. Service!Truthful(outcome)
  BY <1>1, <1>2 DEF IInv, ReportIsTrue, Service!Truthful, Service!Returned
<1>4. found.binary # 0
  BY <1>1, RunIsRun
<1>5. Service!Finish(outcome)
  BY <1>1, <1>3, <1>4 DEF Service!Finish, Service!NoRun
<1> QED BY <1>2, <1>5 DEF Service!ServiceNext

LEMMA LockRefines ==
  ASSUME IInv, NEW r \in Runners, Lock(r)
  PROVE  Service!ServiceNext \/ UNCHANGED Service!serviceVars
<1>1. CASE owner = Nobody
  <2>1. /\ owner' = r /\ r # Nobody /\ found' = [binary |-> binary, proc |-> proc]
        /\ target' = 0 /\ UNCHANGED <<binary, proc>>
    BY <1>1, NoOneRuns DEF Lock
  <2>2. Service!Begin
    BY <1>1, <2>1 DEF Service!Begin, Service!NoRun
  <2> QED BY <2>2 DEF Service!ServiceNext
<1>2. CASE owner # Nobody
  BY <1>2, Unseen DEF Lock, SameService
<1> QED BY <1>1, <1>2

LEMMA KillRefines ==
  ASSUME IInv, Kill \/ Reboot
  PROVE  Service!ServiceNext
<1>1. /\ owner' = Nobody /\ UNCHANGED binary
      /\ outcome' = IF owner = Nobody THEN outcome ELSE "killed"
  BY DEF Kill, Reboot, Killed
<1>2. owner # Nobody => found.binary # 0
  BY RunIsRun
<1>3. CASE Kill
  <2>1. Service!Die
    BY <1>1, <1>2, <1>3 DEF Kill, Service!Die, Service!NoRun
  <2> QED BY <2>1 DEF Service!ServiceNext
<1>4. CASE Reboot
  <2>1. Service!Boot
    BY <1>1, <1>2, <1>4 DEF Reboot, Service!Boot, Service!NoRun
  <2> QED BY <2>1 DEF Service!ServiceNext
<1> QED BY <1>3, <1>4

\* Every other step of the engine is a switch of the service, a switch of the binary or
\* nothing the abstract service sees.
LEMMA EngineRefines ==
  ASSUME IInv, EngineStep, ~Prepare, ~Finish
  PROVE  Service!ServiceNext \/ UNCHANGED Service!serviceVars
<1>1. CASE Stop \/ Start \/ RollbackStop
  <2>1. /\ pc \in {"stop", "start", "rollback"} /\ proc' \in {Down, proc, binary}
        /\ UNCHANGED <<binary, owner, found, target>>
    BY <1>1 DEF Stop, Start, RollbackStop, StopOK, StopFails, Started, Outside
  <2> QED BY <2>1, StopStartRefines DEF Service!ServiceNext
<1>2. CASE ReplaceBinary \/ UnreplaceBinary \/ RestoreBinary
  <2>1. /\ pc \in {"replace", "unreplace", "rebinary"} /\ binary' \in {binary, previous, target}
        /\ UNCHANGED <<proc, owner, found, target>>
    BY <1>2 DEF ReplaceBinary, UnreplaceBinary, RestoreBinary, CopyOK, CopyFails, Outside
  <2> QED BY <2>1, CopyRefines DEF Service!ServiceNext
<1>3. CASE VerifyUnmoved \/ BackupState \/ SavePrevious \/ WaitHealthy \/ RestoreReturned
  <2>1. SameService /\ pc # "idle"
    BY <1>3 DEF VerifyUnmoved, BackupState, SavePrevious, WaitHealthy, RestoreReturned, Outside, SameService
  <2> QED BY <2>1, Unseen DEF IInv, Owned
<1>4. CASE Restoring
  <2>1. SameService /\ outcome' = outcome
    BY <1>4 DEF Restoring, engineVars, SameService
  <2> QED BY <2>1, Unseen
<1> QED BY <1>1, <1>2, <1>3, <1>4 DEF EngineStep

LEMMA NextRefines ==
  IInv /\ [Next]_vars => [Service!ServiceNext]_(Service!serviceVars)
<1> SUFFICES ASSUME IInv, [Next]_vars
             PROVE  Service!ServiceNext \/ UNCHANGED Service!serviceVars
  OBVIOUS
<1>1. CASE Publish \/ (\E p \in Paths : DaemonWrites(p)) \/ UNCHANGED vars
  <2>1. SameService /\ outcome' = outcome
    BY <1>1 DEF Publish, DaemonWrites, vars, engineVars, SameService
  <2> QED BY <2>1, Unseen
<1>2. ASSUME NEW r \in Runners, NEW v \in Pinned \cup {0}, Invoke(r, v)
      PROVE  UNCHANGED Service!serviceVars
  <2>1. SameService /\ outcome' = outcome
    BY <1>2 DEF Invoke, engineVars, SameService
  <2> QED BY <2>1, Unseen
<1>3. ASSUME NEW r \in Runners, Lock(r)
      PROVE  Service!ServiceNext \/ UNCHANGED Service!serviceVars
  BY <1>3, LockRefines
<1>4. CASE Kill \/ Reboot
  BY <1>4, KillRefines
<1>5. CASE EngineStep
  BY <1>5, PrepareRefines, FinishRefines, EngineRefines
<1> QED BY <1>1, <1>2, <1>3, <1>4, <1>5 DEF Next

\* The engine implements the abstract service: one run at a time, the binary replaced
\* only while the service is down, and a truthful result.
THEOREM EngineImplementsService == Spec => ImplementsServiceUpdate
<1>1. Init => Service!ServiceInit
  BY InitRefines
<1>2. IInv /\ [Next]_vars => [Service!ServiceNext]_(Service!serviceVars)
  BY NextRefines
<1> QED BY <1>1, <1>2, Inductive, PTL DEF Spec, ImplementsServiceUpdate, Service!ServiceSpec
=============================================================================
