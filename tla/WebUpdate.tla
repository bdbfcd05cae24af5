----------------------------- MODULE WebUpdate -----------------------------
(***************************************************************************)
(* Updates asked for in the console: the unprivileged daemon publishes a   *)
(* request file and reads a status file (src/internal/updater/             *)
(* webupdate.go), the root agent the supervisor starts for a request       *)
(* consumes it, runs the engine and writes the status                      *)
(* (src/internal/commands/update_agent.go).  The engine is the abstract    *)
(* one of ServiceUpdate, which module Updater implements; an operator may  *)
(* run it from the command line too.                                       *)
(*                                                                         *)
(* The daemon that shows the status is the one being replaced: its cache   *)
(* and its requests in flight die whenever the engine stops it.  Time is   *)
(* the age of the last status write.                                       *)
(***************************************************************************)
EXTENDS ServiceUpdate, FiniteSets

CONSTANTS
  Browsers,     \* owner sessions
  StaleAfter,   \* age at which a running status is no longer believed
  MaxJobs,      \* bound on published requests
  MaxFaults,    \* bound on failing file operations
  MaxKills      \* bound on killed agents and restarts of the machine

ASSUME WebConstants ==
  /\ MaxVersion \in Nat \ {0}
  /\ StaleAfter \in Nat /\ MaxJobs \in Nat /\ MaxFaults \in Nat /\ MaxKills \in Nat

VARIABLES
  latest,     \* the latest published release
  cache,      \* the daemon's fresh checked version, 0 if none
  asking,     \* what every browser's Request is about to do
  inbox,      \* the published request
  status,     \* the status file
  age,        \* time since it was written
  agent,      \* what the agent does next, with its job and its own version
  beat,       \* the heartbeat goroutine: "off", "on", or "due" to write
  by,         \* who runs the engine
  captured,   \* version of the process that runs the engine
  jobs, faults, kills,
  answered,   \* history: jobs with a terminal status
  overlap     \* history: an operator's run and an agent were there at once

daemonVars == <<cache, asking>>
countVars == <<jobs, faults, kills>>
vars == <<serviceVars, latest, daemonVars, inbox, status, age, agent, beat, by,
          captured, countVars, answered, overlap>>

-----------------------------------------------------------------------------
NoRequest == [job |-> 0, target |-> 0]
NoStatus == [job |-> 0, target |-> 0, state |-> "idle"]
NotAsking == [at |-> "no", job |-> 0, target |-> 0]
NoAgent == [at |-> "off", job |-> 0, target |-> 0, version |-> 0]

JobIds == 0..MaxJobs
Tags == 0..MaxVersion

AgentSteps == {"off", "claimed", "check", "engine", "inside", "failing",
               "succeeding"}

\* Every variable has its type; "queued" is never persisted.
TypeOK ==
  /\ installed \in Releases /\ serving \in Tags
  /\ run \in Runs \cup {NoRun} /\ result \in Results
  /\ latest \in Releases /\ cache \in Tags
  /\ asking \in [Browsers -> [at : {"no", "checked", "linked"}, job : JobIds, target : Tags]]
  /\ inbox \in [job : JobIds, target : Tags]
  /\ status \in [job : JobIds, target : Tags,
                 state : {"idle", "running", "failed", "succeeded"}]
  /\ age \in 0..(StaleAfter + 1)
  /\ agent \in [at : AgentSteps, job : JobIds, target : Tags, version : Tags]
  /\ beat \in {"off", "on", "due"}
  /\ by \in {"nobody", "agent", "cli"} /\ captured \in Tags
  /\ jobs \in JobIds /\ faults \in 0..MaxFaults /\ kills \in 0..MaxKills
  /\ answered \subseteq JobIds /\ overlap \in BOOLEAN

Init ==
  /\ ServiceInit
  /\ latest = 1 /\ cache = 0
  /\ asking = [b \in Browsers |-> NotAsking]
  /\ inbox = NoRequest /\ status = NoStatus /\ age = 0
  /\ agent = NoAgent /\ beat = "off"
  /\ by = "nobody" /\ captured = 0
  /\ jobs = 0 /\ faults = 0 /\ kills = 0
  /\ answered = {} /\ overlap = FALSE

Fails == faults < MaxFaults /\ faults' = faults + 1
Works == UNCHANGED faults

\* A control directory, or one above it, is not what its reader insists on (no
\* symbolic link, the right owner, group and mode): nothing has been touched.
ControlPathRefused == Fails

\* A claimed request cannot be synced, or is not the one small regular file of
\* the console's user that it has to be.
ClaimRefused == Fails

-----------------------------------------------------------------------------
(* What the console shows                                                  *)

\* Mutant: a running status is believed for ever.
ReconciledTrusting(current) ==
  IF status.state = "running" /\ current >= status.target THEN "succeeded" ELSE status.state

\* reconcilePersistedState for a daemon of version current.
Reconciled(current) ==
  IF status.state # "running" THEN status.state
  ELSE IF current >= status.target THEN "succeeded"
  ELSE IF age > StaleAfter THEN "failed"
  ELSE "running"

\* peekUpdateRequest finds a published request.
Queued == inbox # NoRequest

Busy(state) == state \in {"queued", "running"}

\* baseStatus: the inbox itself is the queued state.
Shown ==
  IF ~Busy(Reconciled(serving)) /\ Queued
    THEN "queued" ELSE Reconciled(serving)

-----------------------------------------------------------------------------
(* The daemon's handlers                                                   *)

Elsewhere == UNCHANGED <<serviceVars, latest, status, age, agent, beat, by,
                         captured, kills, answered, overlap>>

\* Check with a cold cache: one metadata fetch, shared by the callers that wait
\* for it, fills the cache.  A failed fetch changes nothing.
FetchLatest ==
  /\ serving # Down
  /\ ~Busy(Shown)
  /\ cache = 0
  /\ cache' = latest
  /\ UNCHANGED <<asking, inbox, jobs, faults>>
  /\ Elsewhere

CacheExpires ==
  /\ cache # 0
  /\ cache' = 0
  /\ UNCHANGED <<asking, inbox, jobs, faults>>
  /\ Elsewhere

\* Request up to the enqueue: nothing in progress, and the target is the fresh
\* checked version and newer than this daemon.
RequestChecks(b) ==
  /\ serving # Down
  /\ asking[b] = NotAsking
  /\ ~Busy(Shown)
  /\ cache > serving
  /\ jobs < MaxJobs
  /\ asking' = [asking EXCEPT ![b] = [at |-> "checked", job |-> jobs + 1, target |-> cache]]
  /\ jobs' = jobs + 1
  /\ UNCHANGED <<cache, inbox, faults>>
  /\ Elsewhere

\* The request, written and synced under a name of its own before it is published.
StagedRequest(b) == [job |-> asking[b].job, target |-> asking[b].target]

\* Mutant: the request is published by a rename.
PublishByRename(b) ==
  /\ asking[b].at = "checked"
  /\ inbox' = StagedRequest(b)
  /\ asking' = [asking EXCEPT ![b].at = "linked"]
  /\ UNCHANGED <<cache, jobs, faults>>
  /\ Elsewhere

\* The request is staged and linked; the hard link never replaces a request that
\* is already there.
PublishRequest(b) ==
  /\ asking[b].at = "checked"
  /\ \/ /\ Works /\ ~Queued
        /\ inbox' = StagedRequest(b)
        /\ asking' = [asking EXCEPT ![b].at = "linked"]
     \/ /\ IF Queued THEN Works ELSE Fails
        /\ asking' = [asking EXCEPT ![b] = NotAsking]
        /\ UNCHANGED inbox
  /\ UNCHANGED <<cache, jobs>>
  /\ Elsewhere

\* The directory sync; when it fails, whatever is at the path is removed.
SyncRequest(b) ==
  /\ asking[b].at = "linked"
  /\ asking' = [asking EXCEPT ![b] = NotAsking]
  /\ \/ Works /\ UNCHANGED inbox
     \/ Fails /\ inbox' = NoRequest
  /\ UNCHANGED <<cache, jobs>>
  /\ Elsewhere

-----------------------------------------------------------------------------
(* The agent                                                               *)

Unhandled == UNCHANGED <<latest, daemonVars, jobs, kills>>

\* WriteUpdateStatus for the agent's job: a rename, and a sync of the directory
\* that may fail after it.
StatusWritten(state) ==
  /\ status' = [job |-> agent.job, target |-> agent.target, state |-> state]
  /\ age' = 0

StatusMayBeWritten(state) == StatusWritten(state) \/ UNCHANGED <<status, age>>

Terminal == IF agent.at = "failing" THEN "failed" ELSE "succeeded"

\* The supervisor starts the one-shot agent for a request; the agent renames
\* the request away before it reads it.  A claim that is refused is dropped; a
\* request whose path is refused stays where it is.
ConsumeRequest ==
  /\ agent = NoAgent
  /\ Queued
  /\ \/ /\ Works /\ inbox' = NoRequest
        /\ agent' = [at |-> "claimed", job |-> inbox.job, target |-> inbox.target,
                     version |-> installed]
     \/ ControlPathRefused /\ UNCHANGED <<inbox, agent>>
     \/ ClaimRefused /\ inbox' = NoRequest /\ UNCHANGED agent
  /\ UNCHANGED <<serviceVars, status, age, beat, by, captured, answered>>
  /\ overlap' = (overlap \/ run # NoRun)
  /\ Unhandled

\* The first status write; without it the agent gives up.
RecordRunning ==
  /\ agent.at = "claimed"
  /\ \/ /\ Works /\ StatusWritten("running")
        /\ beat' = "on"
        /\ agent' = [agent EXCEPT !.at = "check"]
     \/ /\ Fails /\ StatusMayBeWritten("running")
        /\ agent' = NoAgent
        /\ UNCHANGED beat
  /\ UNCHANGED <<serviceVars, inbox, by, captured, answered>>
  /\ Unhandled /\ UNCHANGED overlap

\* The ticker fires.
HeartbeatDue ==
  /\ beat = "on"
  /\ beat' = "due"
  /\ UNCHANGED <<serviceVars, inbox, status, age, agent, by, captured, faults, answered>>
  /\ Unhandled /\ UNCHANGED overlap

\* The heartbeat rewrites the running status; an error is ignored.
Heartbeat ==
  /\ beat = "due"
  /\ beat' = "on"
  /\ \/ Works /\ StatusWritten("running")
     \/ Fails /\ StatusMayBeWritten("running")
  /\ UNCHANGED <<serviceVars, inbox, agent, by, captured, answered>>
  /\ Unhandled /\ UNCHANGED overlap

\* validateScope and the second look at the latest release.
CheckTarget ==
  /\ agent.at = "check"
  /\ \/ Works /\ latest = agent.target /\ agent' = [agent EXCEPT !.at = "engine"]
     \/ /\ IF latest = agent.target THEN Fails ELSE Works
        /\ agent' = [agent EXCEPT !.at = "failing"]
  /\ UNCHANGED <<serviceVars, inbox, status, age, beat, by, captured, answered>>
  /\ Unhandled /\ UNCHANGED overlap

\* Engine.Run takes the lock, or finds it taken.
AgentLocks ==
  /\ agent.at = "engine"
  /\ Works
  /\ IF run = NoRun
       THEN Begin /\ by' = "agent" /\ captured' = agent.version
            /\ agent' = [agent EXCEPT !.at = "inside"]
       ELSE agent' = [agent EXCEPT !.at = "failing"] /\ UNCHANGED <<serviceVars, by, captured>>
  /\ UNCHANGED <<inbox, status, age, beat, answered>>
  /\ Unhandled /\ UNCHANGED overlap

\* Mutant: the terminal status is written while the heartbeat may still write.
StopHeartbeatUnjoined ==
  /\ agent.at \in {"failing", "succeeding"}
  /\ \/ /\ Works /\ StatusWritten(Terminal)
        /\ answered' = answered \cup {agent.job}
     \/ Fails /\ StatusMayBeWritten(Terminal) /\ UNCHANGED answered
  /\ beat' = IF beat = "due" THEN "due" ELSE "off"
  /\ agent' = IF beat = "due" THEN agent ELSE NoAgent
  /\ UNCHANGED <<serviceVars, inbox, by, captured>>
  /\ Unhandled /\ UNCHANGED overlap

\* stopHeartbeat waits for a write in progress, then the terminal status is
\* written and the agent exits.
RecordTerminal ==
  /\ agent.at \in {"failing", "succeeding"}
  /\ beat # "due"
  /\ \/ /\ Works /\ StatusWritten(Terminal)
        /\ answered' = answered \cup {agent.job}
     \/ Fails /\ StatusMayBeWritten(Terminal) /\ UNCHANGED answered
  /\ beat' = "off"
  /\ agent' = NoAgent
  /\ UNCHANGED <<serviceVars, inbox, by, captured>>
  /\ Unhandled /\ UNCHANGED overlap

-----------------------------------------------------------------------------
(* The engine                                                              *)

\* The daemon's memory is gone once it is stopped.
DaemonMemory ==
  IF serving' = serving THEN UNCHANGED daemonVars
  ELSE /\ cache' = 0
       /\ asking' = [b \in Browsers |-> NotAsking]

\* An operator runs the update on the machine: the version of the process is
\* read before the lock, the target is the latest release.
CliLocks(version) ==
  /\ Begin
  /\ version <= installed
  /\ by' = "cli"
  /\ captured' = version
  /\ overlap' = (overlap \/ agent # NoAgent)
  /\ UNCHANGED <<latest, daemonVars, inbox, status, age, agent, beat, countVars, answered>>

Target == IF by = "agent" THEN agent.target ELSE latest

EngineAims ==
  /\ Aim(Target)
  /\ UNCHANGED <<latest, daemonVars, inbox, status, age, agent, beat, by, captured,
                 countVars, answered, overlap>>

EngineWorks ==
  /\ run.to > captured
  /\ SwitchService \/ SwitchBinary
  /\ DaemonMemory
  /\ UNCHANGED <<latest, inbox, status, age, agent, beat, by, captured, countVars,
                 answered, overlap>>

\* The results open to a run: its target decides most of them.
Possible(r) ==
  CASE r = "refused" -> TRUE
    [] r = "current" -> run.to = captured
    [] OTHER         -> run.to > captured

\* Mutant: the agent takes every return of the engine for a success.
AgentAfterAny(r) == [agent EXCEPT !.at = "succeeding"]

\* A nil error of runUpdate is a success.
AgentAfter(r) ==
  [agent EXCEPT !.at = IF r \in {"updated", "current"} THEN "succeeding" ELSE "failing"]

EngineReturns ==
  /\ \E r \in Returned :
       /\ Possible(r)
       /\ Finish(r)
       /\ agent' = IF by = "agent" THEN AgentAfter(r) ELSE agent
  /\ by' = "nobody" /\ captured' = 0
  /\ UNCHANGED <<latest, daemonVars, inbox, status, age, beat, countVars, answered, overlap>>

-----------------------------------------------------------------------------
(* The world                                                               *)

Publish ==
  /\ latest < MaxVersion
  /\ latest' = latest + 1
  /\ UNCHANGED <<serviceVars, daemonVars, inbox, status, age, agent, beat, by,
                 captured, countVars, answered, overlap>>

Tick ==
  /\ age <= StaleAfter
  /\ age' = age + 1
  /\ UNCHANGED <<serviceVars, latest, daemonVars, inbox, status, agent, beat, by,
                 captured, countVars, answered, overlap>>

\* The agent is killed, inside the engine or outside.
KillAgent ==
  /\ agent # NoAgent
  /\ kills < MaxKills
  /\ kills' = kills + 1
  /\ agent' = NoAgent /\ beat' = "off"
  /\ IF by = "agent" THEN Die /\ by' = "nobody" /\ captured' = 0
     ELSE UNCHANGED <<serviceVars, by, captured>>
  /\ UNCHANGED <<latest, daemonVars, inbox, status, age, jobs, faults, answered, overlap>>

\* The machine restarts.
Reboot ==
  /\ kills < MaxKills
  /\ kills' = kills + 1
  /\ Boot
  /\ agent' = NoAgent /\ beat' = "off"
  /\ by' = "nobody" /\ captured' = 0
  /\ cache' = 0 /\ asking' = [b \in Browsers |-> NotAsking]
  /\ UNCHANGED <<latest, inbox, status, age, jobs, faults, answered, overlap>>

AgentStep == RecordRunning \/ CheckTarget \/ AgentLocks \/ RecordTerminal

Next ==
  \/ FetchLatest \/ CacheExpires
  \/ \E b \in Browsers : RequestChecks(b) \/ PublishRequest(b) \/ SyncRequest(b)
  \/ ConsumeRequest \/ AgentStep
  \/ HeartbeatDue \/ Heartbeat
  \/ \E v \in Releases : CliLocks(v)
  \/ EngineAims \/ EngineWorks \/ EngineReturns
  \/ Publish \/ Tick \/ KillAgent \/ Reboot

\* Requests run to their end; the supervisor starts the agent while a request
\* is there; agent, heartbeat write and engine keep running while they live
\* (every call of the engine has a timeout); a select with a closed stop channel
\* does not choose the ticker for ever; time passes.
Fairness ==
  /\ \A b \in Browsers : WF_vars(PublishRequest(b)) /\ WF_vars(SyncRequest(b))
  /\ WF_vars(ConsumeRequest)
  /\ WF_vars(AgentStep)
  /\ SF_vars(RecordTerminal)
  /\ WF_vars(Heartbeat)
  /\ WF_vars(EngineAims)
  /\ WF_vars(EngineReturns)
  /\ WF_vars(Tick)

Spec == Init /\ [][Next]_vars /\ Fairness

-----------------------------------------------------------------------------
(* Properties                                                              *)

\* A terminal status is final: nothing the job still has running puts it back
\* (the heartbeat is stopped and joined before the terminal write).
TerminalIsFinal ==
  [][status.state \in {"failed", "succeeded"} /\ status'.job = status.job
       => status' = status]_vars

\* Success, as written by the agent and as a daemon concludes it from its own
\* version, is only ever shown when the target, or a later release, is installed,
\* as long as no operator's run overlapped with an agent (both read their version
\* before they take the lock); and every variable has its type.
SuccessIsInstalled ==
  /\ TypeOK
  /\ Shown = "succeeded" /\ serving # Down /\ ~overlap => installed >= status.target

\* A browser is never stranded: what is shown as queued or running changes, also
\* after the agent was killed or the machine restarted.
ShownSettles ==
  (serving # Down /\ Busy(Shown)) ~> (serving = Down \/ ~Busy(Shown))

\* A request that was acknowledged gets a terminal status of its own, whatever
\* other browsers asked meanwhile, unless a file operation failed or a process
\* died.
AcceptedIsAnswered ==
  \A j \in 1..MaxJobs :
    (inbox.job = j) ~> (j \in answered \/ faults > 0 \/ kills > 0)
=============================================================================
