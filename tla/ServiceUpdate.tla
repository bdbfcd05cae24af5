---------------------------- MODULE ServiceUpdate ----------------------------
(***************************************************************************)
(* What one run of the update engine promises to its callers, without      *)
(* backups, file names or a service manager                                *)
(* (src/internal/updater/updater.go, Engine.Run): a run works on the       *)
(* installed binary and on the service, one run at a time, and its result  *)
(* tells the truth about both.  Updater implements this specification;     *)
(* WebUpdate uses it as its engine.                                        *)
(***************************************************************************)
EXTENDS Naturals

CONSTANT MaxVersion

VARIABLES
  installed,   \* version of the binary the service manager starts
  serving,     \* version of the daemon that runs, Down if none does
  run,         \* the run in progress
  result       \* what the last run reported, "none" while one is under way

serviceVars == <<installed, serving, run, result>>

Releases == 1..MaxVersion
Down == 0
NoRun == [from |-> 0, was |-> 0, to |-> 0]

\* from: the binary the run found; was: the daemon it found; to: its target.
Runs == [from : Releases, was : Releases \cup {Down}, to : Releases \cup {0}]

\* "updated": a nil error after an install.  "current": a nil error, nothing to
\* do.  "refused": an error before the service was touched.  "restored": it
\* failed and the service it had found runs again.  "incomplete": it failed and
\* gave up.  "killed": it never returned.
Returned == {"updated", "current", "refused", "restored", "incomplete"}
Results == Returned \cup {"none", "killed"}

ServiceInit ==
  /\ installed = 1
  /\ serving = 1
  /\ run = NoRun
  /\ result = "none"

\* A run gets the lock.
Begin ==
  /\ run = NoRun
  /\ run' = [from |-> installed, was |-> serving, to |-> 0]
  /\ result' = "none"
  /\ UNCHANGED <<installed, serving>>

\* It resolves its target.
Aim(v) ==
  /\ run # NoRun /\ run.to = 0
  /\ run' = [run EXCEPT !.to = v]
  /\ UNCHANGED <<installed, serving, result>>

\* The daemon is stopped, or the installed binary started.
SwitchService ==
  /\ run # NoRun /\ run.to # 0
  /\ serving' \in {Down, installed}
  /\ UNCHANGED <<installed, run, result>>

\* The binary is replaced while no daemon runs, by the target or by the one found.
SwitchBinary ==
  /\ run # NoRun /\ run.to # 0
  /\ serving = Down
  /\ installed' \in {run.from, run.to}
  /\ UNCHANGED <<serving, run, result>>

\* What a result says about the machine.
Truthful(r) ==
  CASE r = "updated"    -> installed = run.to /\ serving = run.to
    [] r = "current"    -> installed = run.from /\ serving = run.was
    [] r = "refused"    -> installed = run.from /\ serving = run.was
    [] r = "restored"   -> installed = run.from /\ serving = run.from
    [] r = "incomplete" -> TRUE

Finish(r) ==
  /\ run # NoRun
  /\ Truthful(r)
  /\ run' = NoRun
  /\ result' = r
  /\ UNCHANGED <<installed, serving>>

\* The updater process dies.
Die ==
  /\ run # NoRun
  /\ run' = NoRun
  /\ result' = "killed"
  /\ UNCHANGED <<installed, serving>>

\* The machine restarts and the service manager starts the installed binary.
Boot ==
  /\ serving' = installed
  /\ run' = NoRun
  /\ result' = IF run = NoRun THEN result ELSE "killed"
  /\ UNCHANGED installed

ServiceNext ==
  \/ Begin
  \/ \E v \in Releases : Aim(v)
  \/ SwitchService
  \/ SwitchBinary
  \/ \E r \in Returned : Finish(r)
  \/ Die
  \/ Boot

ServiceSpec == ServiceInit /\ [][ServiceNext]_serviceVars
=============================================================================
