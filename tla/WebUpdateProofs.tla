-------------------------- MODULE WebUpdateProofs --------------------------
(***************************************************************************)
(* Proofs about updates asked for in the console, for every number of      *)
(* browsers, releases, requests, failing file operations and kills.        *)
(***************************************************************************)
EXTENDS WebUpdate, TLAPS

-----------------------------------------------------------------------------
(* The inductive invariant                                                 *)

\* The agent is past its first status write.
Recorded == agent.at \notin {"off", "claimed"}

\* A daemon that runs is of the installed version, and releases only go forward.
ServiceSound ==
  /\ serving \in {Down, installed}
  /\ installed <= latest
  /\ agent.at \in {"engine", "inside"} => agent.target # 0 /\ agent.target <= latest

\* A run belongs to the agent that is inside the engine or to an operator, and works
\* between the binary it found and its target.
RunSound ==
  /\ run = NoRun <=> by = "nobody"
  /\ by = "agent" <=> agent.at = "inside"
  /\ by = "agent" => captured = agent.version
  /\ run # NoRun => /\ run.from <= latest /\ run.to <= latest
                    /\ installed = run.from \/ (run.to # 0 /\ installed = run.to)
  /\ run # NoRun /\ run.to # 0 =>
       IF by = "agent" THEN run.to = agent.target ELSE run.from <= run.to

\* An agent no operator interfered with finds the binary it was started from, and its
\* target is not behind it.
AgentAlone ==
  ~overlap =>
    /\ agent # NoAgent /\ agent.at # "inside" => run = NoRun
    /\ agent.at \in {"claimed", "check", "engine"} => agent.version = installed
    /\ agent.at = "engine" => installed <= agent.target
    /\ agent.at = "inside" => agent.version = run.from /\ run.from <= agent.target
    /\ agent.at = "succeeding" => agent.target <= installed

\* What was reported as a success is not undone by a later run either.
SuccessKept ==
  ~overlap /\ status.state = "succeeded" =>
    /\ status.target <= installed
    /\ run # NoRun => status.target <= run.from

\* Every job is new: nobody else has the one a request is about to publish, and the
\* published one is not the agent's and not in the status file yet.
JobsFresh ==
  /\ \A b \in Browsers : asking[b].job <= jobs
  /\ inbox.job <= jobs /\ agent.job <= jobs /\ status.job <= jobs
  /\ \A b \in Browsers : asking[b].at = "checked" =>
       /\ asking[b].job \notin {0, inbox.job, agent.job, status.job}
       /\ \A c \in Browsers \ {b} : asking[c].job # asking[b].job
  /\ Queued => inbox.job \notin {0, agent.job, status.job}

\* The status is the running one of the agent from its first write to its last.
StatusOwned ==
  /\ agent.at = "off" => agent = NoAgent
  /\ agent.at # "off" => agent.job # 0
  /\ agent.at = "claimed" => agent.job # status.job
  /\ Recorded => status.job = agent.job /\ status.state = "running"
  /\ beat # "off" => Recorded

IInv ==
  /\ TypeOK /\ ServiceSound /\ RunSound /\ AgentAlone
  /\ SuccessKept /\ JobsFresh /\ StatusOwned

-----------------------------------------------------------------------------
(* Facts about the parts                                                   *)

LEMMA Bounds ==
  /\ MaxVersion \in Nat \ {0} /\ StaleAfter \in Nat /\ MaxJobs \in Nat
  /\ MaxFaults \in Nat /\ MaxKills \in Nat
BY WebConstants

LEMMA Tagged ==
  /\ 0 \in Tags /\ 0 \in JobIds /\ Down \in Tags /\ 1 \in Releases
  /\ Releases \subseteq Tags
  /\ \A v \in Tags : v \in Nat
  /\ \A v \in Releases : v # 0
  /\ \A j \in JobIds : j \in Nat
  /\ Releases \cup {0} = Tags /\ Releases \cup {Down} = Tags
BY Bounds DEF Tags, JobIds, Releases, Down

\* Nothing is in flight.
LEMMA Nothings ==
  /\ NoRequest \in [job : JobIds, target : Tags] /\ NoRequest.job = 0
  /\ NoStatus \in [job : JobIds, target : Tags,
                   state : {"idle", "running", "failed", "succeeded"}]
  /\ NotAsking \in [at : {"no", "checked", "linked"}, job : JobIds, target : Tags]
  /\ NotAsking.at = "no" /\ NotAsking.job = 0
  /\ NoAgent \in [at : AgentSteps, job : JobIds, target : Tags, version : Tags]
  /\ NoAgent.at = "off" /\ NoAgent.job = 0
BY Tagged DEF NoRequest, NoStatus, NotAsking, NoAgent, AgentSteps

LEMMA Numbers ==
  ASSUME IInv
  PROVE  /\ installed \in Nat /\ installed # 0 /\ latest \in Nat /\ latest # 0
         /\ serving \in Nat /\ jobs \in Nat
         /\ agent.target \in Nat /\ agent.version \in Nat /\ agent.job \in Nat
         /\ status.target \in Nat /\ status.job \in Nat /\ inbox.job \in Nat
         /\ \A b \in Browsers : asking[b].job \in Nat
<1>1. /\ installed \in Releases /\ latest \in Releases /\ serving \in Tags /\ jobs \in JobIds
      /\ agent.target \in Tags /\ agent.version \in Tags /\ agent.job \in JobIds
      /\ status.target \in Tags /\ status.job \in JobIds /\ inbox.job \in JobIds
      /\ \A b \in Browsers : asking[b].job \in JobIds
  BY DEF IInv, TypeOK
<1> QED BY <1>1, Tagged

\* A run has a binary it found; no run has not.
LEMMA RunNumbers ==
  ASSUME IInv, run # NoRun
  PROVE  run \in Runs /\ run.from \in Releases /\ run.from \in Nat /\ run.from # 0 /\ run.to \in Nat
<1>1. run \in Runs
  BY DEF IInv, TypeOK
<1>2. run.from \in Releases /\ run.to \in Tags
  BY <1>1, Tagged DEF Runs
<1> QED BY <1>1, <1>2, Tagged

LEMMA FaultCounted ==
  ASSUME IInv, Works \/ Fails
  PROVE  faults' \in 0..MaxFaults
<1>1. faults \in 0..MaxFaults
  BY DEF IInv, TypeOK
<1> QED BY <1>1, Bounds DEF Works, Fails

LEMMA KillCounted ==
  ASSUME IInv, kills < MaxKills, kills' = kills + 1
  PROVE  kills' \in 0..MaxKills
<1>1. kills \in 0..MaxKills
  BY DEF IInv, TypeOK
<1> QED BY <1>1, Bounds

\* The engine, the agent and the status stay as they are.
EngineSame == UNCHANGED <<serviceVars, agent, by, captured, latest, overlap, status>>

LEMMA EngineSameSound ==
  ASSUME IInv, EngineSame
  PROVE  ServiceSound' /\ RunSound' /\ AgentAlone' /\ SuccessKept'
<1>1. UNCHANGED <<installed, serving, run, agent, by, captured, latest, overlap, status>>
  BY DEF EngineSame, serviceVars
<1>2. ServiceSound' /\ RunSound'
  BY <1>1 DEF IInv, ServiceSound, RunSound
<1>3. AgentAlone' /\ SuccessKept'
  BY <1>1 DEF IInv, AgentAlone, SuccessKept
<1> QED BY <1>2, <1>3

LEMMA InitIInv == Init => IInv
<1> SUFFICES ASSUME Init PROVE IInv
  OBVIOUS
<1>1. TypeOK
  <2>1. FALSE \in BOOLEAN
    BY Zenon
  <2>2. 0 \in 0..MaxFaults /\ 0 \in 0..MaxKills /\ 0 \in 0..(StaleAfter + 1)
    BY Bounds
  <2>3. asking \in [Browsers -> [at : {"no", "checked", "linked"}, job : JobIds, target : Tags]]
    BY Nothings DEF Init
  <2> QED BY <2>1, <2>2, <2>3, Tagged, Nothings DEF Init, ServiceInit, TypeOK, Results
<1>2. ServiceSound /\ RunSound /\ AgentAlone /\ SuccessKept
  BY Nothings DEF Init, ServiceInit, ServiceSound, RunSound, AgentAlone, SuccessKept, NoStatus
<1>3. JobsFresh /\ StatusOwned
  BY Nothings DEF Init, JobsFresh, StatusOwned, Queued, Recorded, NoStatus
<1> QED BY <1>1, <1>2, <1>3 DEF IInv

-----------------------------------------------------------------------------
(* The daemon's handlers                                                   *)

LEMMA CacheStep ==
  ASSUME IInv, FetchLatest \/ CacheExpires
  PROVE  IInv'
<1>1. Elsewhere /\ UNCHANGED <<asking, inbox, jobs, faults>> /\ cache' \in {latest, 0}
  BY DEF FetchLatest, CacheExpires
<1>2. cache' \in Tags
  BY <1>1, Tagged DEF IInv, TypeOK
<1>3. TypeOK'
  BY <1>1, <1>2 DEF IInv, TypeOK, Elsewhere, serviceVars
<1>4. EngineSame
  BY <1>1 DEF Elsewhere, EngineSame
<1>5. JobsFresh' /\ StatusOwned'
  <2>1. UNCHANGED <<asking, inbox, jobs, agent, status, beat>>
    BY <1>1 DEF Elsewhere
  <2> QED BY <2>1 DEF IInv, JobsFresh, StatusOwned, Queued, Recorded
<1> QED BY <1>3, <1>4, <1>5, EngineSameSound DEF IInv

LEMMA RequestChecksStep ==
  ASSUME IInv, NEW b \in Browsers, RequestChecks(b)
  PROVE  IInv'
<1> DEFINE r == [at |-> "checked", job |-> jobs + 1, target |-> cache]
<1>1. /\ Elsewhere /\ UNCHANGED <<cache, inbox, faults>>
      /\ jobs < MaxJobs /\ jobs' = jobs + 1 /\ asking' = [asking EXCEPT ![b] = r]
  BY DEF RequestChecks
<1>2. jobs' \in JobIds /\ jobs + 1 \in JobIds
  <2>1. jobs \in JobIds
    BY DEF IInv, TypeOK
  <2> QED BY <1>1, <2>1, Bounds DEF JobIds
<1>3. /\ r \in [at : {"no", "checked", "linked"}, job : JobIds, target : Tags]
      /\ r.at = "checked" /\ r.job = jobs + 1
  BY <1>2 DEF IInv, TypeOK
<1> HIDE DEF r
<1>4. /\ asking' \in [Browsers -> [at : {"no", "checked", "linked"}, job : JobIds, target : Tags]]
      /\ asking'[b] = r
      /\ \A c \in Browsers \ {b} : asking'[c] = asking[c]
  BY <1>1, <1>3 DEF IInv, TypeOK
<1>5. TypeOK'
  BY <1>1, <1>2, <1>4 DEF IInv, TypeOK, Elsewhere, serviceVars
<1>6. EngineSame
  BY <1>1 DEF Elsewhere, EngineSame
<1>7. UNCHANGED <<inbox, agent, status, beat>>
  BY <1>1 DEF Elsewhere
<1>8. StatusOwned'
  BY <1>7 DEF IInv, StatusOwned, Recorded
<1>9. JobsFresh'
  <2>1. /\ jobs' = jobs + 1 /\ jobs \in Nat
        /\ inbox.job <= jobs /\ agent.job <= jobs /\ status.job <= jobs
        /\ \A c \in Browsers : asking[c].job <= jobs
    BY <1>1, Numbers DEF IInv, JobsFresh
  <2>2. /\ inbox.job \in Nat /\ agent.job \in Nat /\ status.job \in Nat
        /\ \A c \in Browsers : asking[c].job \in Nat
    BY Numbers
  <2>3. /\ jobs + 1 \notin {0, inbox.job, agent.job, status.job}
        /\ \A c \in Browsers : asking[c].job # jobs + 1 /\ asking[c].job <= jobs + 1
        /\ inbox.job <= jobs + 1 /\ agent.job <= jobs + 1 /\ status.job <= jobs + 1
        /\ jobs + 1 <= jobs + 1
    BY <2>1, <2>2
  <2>4. JobsFresh /\ jobs' = jobs + 1
    BY <1>1 DEF IInv
  <2> QED BY <1>3, <1>4, <1>7, <2>3, <2>4 DEF JobsFresh, Queued
<1> QED BY <1>5, <1>6, <1>8, <1>9, EngineSameSound DEF IInv

LEMMA PublishRequestStep ==
  ASSUME IInv, NEW b \in Browsers, PublishRequest(b)
  PROVE  IInv'
<1>1. /\ asking[b].at = "checked" /\ Elsewhere /\ UNCHANGED <<cache, jobs>>
      /\ Works \/ Fails
  BY DEF PublishRequest
<1>2. UNCHANGED <<agent, status, beat, jobs>> /\ EngineSame
  BY <1>1 DEF Elsewhere, EngineSame
<1>3. StatusOwned'
  BY <1>2 DEF IInv, StatusOwned, Recorded
<1>4. asking \in [Browsers -> [at : {"no", "checked", "linked"}, job : JobIds, target : Tags]]
  BY DEF IInv, TypeOK
<1>5. faults' \in 0..MaxFaults
  BY <1>1, FaultCounted
<1>6. CASE ~Queued /\ inbox' = StagedRequest(b) /\ asking' = [asking EXCEPT ![b].at = "linked"]
  <2> DEFINE r == [asking[b] EXCEPT !.at = "linked"]
  <2>1. /\ r \in [at : {"no", "checked", "linked"}, job : JobIds, target : Tags]
        /\ r.at = "linked" /\ r.job = asking[b].job
    BY <1>4
  <2>2. asking' = [asking EXCEPT ![b] = r]
    BY <1>6
  <2> HIDE DEF r
  <2>3. /\ asking' \in [Browsers -> [at : {"no", "checked", "linked"}, job : JobIds,
                                     target : Tags]]
        /\ asking'[b] = r
        /\ \A c \in Browsers \ {b} : asking'[c] = asking[c]
    BY <1>4, <2>1, <2>2
  <2>4. inbox' \in [job : JobIds, target : Tags] /\ inbox'.job = asking[b].job
    BY <1>4, <1>6 DEF StagedRequest
  <2>5. TypeOK'
    BY <1>1, <1>5, <2>3, <2>4 DEF IInv, TypeOK, Elsewhere, serviceVars
  <2>6. JobsFresh'
    <3>1. /\ asking[b].job \notin {0, inbox.job, agent.job, status.job}
          /\ asking[b].job <= jobs
          /\ \A c \in Browsers \ {b} : asking[c].job # asking[b].job
      BY <1>1 DEF IInv, JobsFresh
    <3> QED BY <1>2, <2>1, <2>3, <2>4, <3>1 DEF IInv, JobsFresh, Queued
  <2> QED BY <1>2, <1>3, <2>5, <2>6, EngineSameSound DEF IInv
<1>7. CASE asking' = [asking EXCEPT ![b] = NotAsking] /\ UNCHANGED inbox
  <2>1. /\ asking' \in [Browsers -> [at : {"no", "checked", "linked"}, job : JobIds,
                                     target : Tags]]
        /\ asking'[b] = NotAsking
        /\ \A c \in Browsers \ {b} : asking'[c] = asking[c]
    BY <1>4, <1>7, Nothings
  <2>2. TypeOK'
    BY <1>1, <1>5, <1>7, <2>1 DEF IInv, TypeOK, Elsewhere, serviceVars
  <2>3. JobsFresh'
    <3>1. 0 <= jobs
      BY Numbers
    <3> QED BY <1>2, <1>7, <2>1, <3>1, Nothings DEF IInv, JobsFresh, Queued
  <2> QED BY <1>2, <1>3, <2>2, <2>3, EngineSameSound DEF IInv
<1> QED BY <1>6, <1>7 DEF PublishRequest

LEMMA SyncRequestStep ==
  ASSUME IInv, NEW b \in Browsers, SyncRequest(b)
  PROVE  IInv'
<1>1. /\ Elsewhere /\ UNCHANGED <<cache, jobs>> /\ inbox' \in {inbox, NoRequest}
      /\ asking' = [asking EXCEPT ![b] = NotAsking]
      /\ Works \/ Fails
  BY DEF SyncRequest
<1>2. UNCHANGED <<agent, status, beat, jobs>> /\ EngineSame
  BY <1>1 DEF Elsewhere, EngineSame
<1>3. StatusOwned'
  BY <1>2 DEF IInv, StatusOwned, Recorded
<1>4. /\ asking' \in [Browsers -> [at : {"no", "checked", "linked"}, job : JobIds,
                                   target : Tags]]
      /\ asking'[b] = NotAsking
      /\ \A c \in Browsers \ {b} : asking'[c] = asking[c]
  BY <1>1, Nothings DEF IInv, TypeOK
<1>5. inbox' \in [job : JobIds, target : Tags]
  BY <1>1, Nothings DEF IInv, TypeOK
<1>6. TypeOK'
  BY <1>1, <1>4, <1>5, FaultCounted DEF IInv, TypeOK, Elsewhere, serviceVars
<1>7. JobsFresh'
  <2>1. 0 <= jobs
    BY Numbers
  <2> QED BY <1>1, <1>2, <1>4, <2>1, Nothings DEF IInv, JobsFresh, Queued
<1> QED BY <1>2, <1>3, <1>6, <1>7, EngineSameSound DEF IInv

-----------------------------------------------------------------------------
(* The agent                                                               *)

\* The agent goes on at at.
AgentAt(at) ==
  /\ agent' \in [at : AgentSteps, job : JobIds, target : Tags, version : Tags]
  /\ agent'.at = at /\ agent'.job = agent.job
  /\ agent'.target = agent.target /\ agent'.version = agent.version

LEMMA AgentAtSet ==
  ASSUME IInv, NEW at \in AgentSteps, agent' = [agent EXCEPT !.at = at]
  PROVE  AgentAt(at)
BY DEF IInv, TypeOK, AgentAt

LEMMA ConsumeRequestStep ==
  ASSUME IInv, ConsumeRequest
  PROVE  IInv'
<1>1. /\ agent = NoAgent /\ Queued
      /\ UNCHANGED <<serviceVars, status, age, beat, by, captured, answered>>
      /\ Unhandled
      /\ Works \/ Fails
  BY DEF ConsumeRequest, ControlPathRefused, ClaimRefused
<1>2. /\ UNCHANGED <<installed, serving, run, status, beat, by, captured, latest, asking, jobs>>
  BY <1>1 DEF serviceVars, Unhandled, daemonVars
<1>3. overlap' = (overlap \/ run # NoRun)
  BY DEF ConsumeRequest
<1>4. overlap' \in BOOLEAN
  <2>1. CASE run = NoRun
    BY <1>3, <2>1 DEF IInv, TypeOK
  <2>2. CASE run # NoRun
    <3>1. overlap' = TRUE
      BY <1>3, <2>2
    <3> QED BY <3>1, Zenon
  <2> QED BY <2>1, <2>2
<1>5. faults' \in 0..MaxFaults
  BY <1>1, FaultCounted
<1>6. beat = "off" /\ by # "agent"
  BY <1>1, Nothings DEF IInv, StatusOwned, RunSound, Recorded
<1>7. CASE /\ inbox' = NoRequest
           /\ agent' = [at |-> "claimed", job |-> inbox.job, target |-> inbox.target,
                        version |-> installed]
  <2>1. /\ agent' \in [at : AgentSteps, job : JobIds, target : Tags, version : Tags]
        /\ agent'.at = "claimed" /\ agent'.job = inbox.job /\ agent'.version = installed
    BY <1>7, Tagged DEF IInv, TypeOK, AgentSteps
  <2>2. TypeOK'
    BY <1>1, <1>4, <1>5, <1>7, <2>1, Nothings DEF IInv, TypeOK, serviceVars, Unhandled,
       daemonVars
  <2>3. ServiceSound' /\ RunSound'
    BY <1>2, <1>6, <2>1 DEF IInv, ServiceSound, RunSound
  <2>4. AgentAlone'
    BY <1>2, <1>3, <2>1 DEF AgentAlone
  <2>5. SuccessKept'
    BY <1>2, <1>3 DEF IInv, SuccessKept
  <2>6. StatusOwned'
    BY <1>1, <1>2, <1>6, <2>1 DEF IInv, JobsFresh, StatusOwned, Recorded
  <2>7. JobsFresh'
    <3>1. 0 <= jobs
      BY Numbers
    <3> QED BY <1>2, <1>7, <2>1, <3>1, Nothings DEF IInv, JobsFresh, Queued
  <2> QED BY <2>2, <2>3, <2>4, <2>5, <2>6, <2>7 DEF IInv
<1>8. CASE inbox' \in {inbox, NoRequest} /\ UNCHANGED agent
  <2>1. inbox' \in [job : JobIds, target : Tags]
    BY <1>8, Nothings DEF IInv, TypeOK
  <2>2. TypeOK'
    BY <1>1, <1>4, <1>5, <1>8, <2>1 DEF IInv, TypeOK, serviceVars, Unhandled, daemonVars
  <2>3. ServiceSound' /\ RunSound'
    BY <1>2, <1>8 DEF IInv, ServiceSound, RunSound
  <2>4. AgentAlone' /\ SuccessKept'
    BY <1>1, <1>2, <1>3, <1>8, Nothings DEF IInv, AgentAlone, SuccessKept
  <2>5. StatusOwned'
    BY <1>2, <1>8 DEF IInv, StatusOwned, Recorded
  <2>6. JobsFresh'
    <3>1. 0 <= jobs
      BY Numbers
    <3> QED BY <1>2, <1>8, <3>1, Nothings DEF IInv, JobsFresh, Queued
  <2> QED BY <2>2, <2>3, <2>4, <2>5, <2>6 DEF IInv
<1> QED BY <1>7, <1>8 DEF ConsumeRequest

\* What the agent may do to the status file with its first write, the heartbeat and its last.
Wrote(state) ==
  /\ status' \in [job : JobIds, target : Tags,
                  state : {"idle", "running", "failed", "succeeded"}]
  /\ age' \in 0..(StaleAfter + 1)
  /\ status'.job = agent.job /\ status'.target = agent.target /\ status'.state = state

LEMMA StatusWrittenWrote ==
  ASSUME IInv, NEW state \in {"running", "failed", "succeeded"}, StatusWritten(state)
  PROVE  Wrote(state)
<1>1. 0 \in 0..(StaleAfter + 1)
  BY Bounds
<1> QED BY <1>1 DEF StatusWritten, Wrote, IInv, TypeOK

\* The status stays the same or becomes the agent's: the jobs are as fresh as before.
LEMMA WroteJobs ==
  ASSUME IInv, UNCHANGED <<asking, jobs, inbox>>,
         status'.job = agent.job \/ status' = status,
         agent'.job = agent.job \/ agent' = NoAgent
  PROVE  JobsFresh'
<1>1. 0 <= jobs
  BY Numbers
<1> QED BY <1>1, Nothings DEF IInv, JobsFresh, Queued

\* The agent is gone and ran nothing.
LEMMA AgentGone ==
  ASSUME IInv, agent' = NoAgent, agent.at # "inside",
         UNCHANGED <<installed, serving, run, by, captured, latest, overlap>>
  PROVE  ServiceSound' /\ RunSound' /\ AgentAlone'
<1>1. by # "agent"
  BY DEF IInv, RunSound
<1>2. ServiceSound'
  BY Nothings DEF IInv, ServiceSound
<1>3. RunSound'
  BY <1>1, Nothings DEF IInv, RunSound
<1>4. AgentAlone'
  BY Nothings DEF AgentAlone
<1> QED BY <1>2, <1>3, <1>4

LEMMA RecordRunningStep ==
  ASSUME IInv, RecordRunning
  PROVE  IInv'
<1>1. /\ agent.at = "claimed" /\ UNCHANGED <<serviceVars, inbox, by, captured, answered>>
      /\ Unhandled /\ UNCHANGED overlap
      /\ Works \/ Fails
  BY DEF RecordRunning
<1>2. UNCHANGED <<installed, serving, run, by, captured, latest, overlap, asking, jobs, inbox>>
  BY <1>1 DEF serviceVars, Unhandled, daemonVars
<1>3. faults' \in 0..MaxFaults
  BY <1>1, FaultCounted
<1>4. CASE StatusWritten("running") /\ beat' = "on" /\ agent' = [agent EXCEPT !.at = "check"]
  <2>1. Wrote("running")
    BY <1>4, StatusWrittenWrote
  <2>2. AgentAt("check")
    BY <1>4, AgentAtSet DEF AgentSteps
  <2>3. TypeOK'
    BY <1>1, <1>3, <1>4, <2>1, <2>2 DEF IInv, TypeOK, Wrote, AgentAt, serviceVars, Unhandled,
       daemonVars
  <2>4. ServiceSound' /\ RunSound'
    BY <1>1, <1>2, <2>2 DEF IInv, ServiceSound, RunSound, AgentAt
  <2>5. AgentAlone'
    BY <1>1, <1>2, <2>2, Nothings DEF IInv, AgentAlone, AgentAt
  <2>6. SuccessKept'
    BY <2>1 DEF SuccessKept, Wrote
  <2>7. StatusOwned'
    BY <1>1, <1>4, <2>1, <2>2 DEF IInv, StatusOwned, Recorded, Wrote, AgentAt
  <2>8. JobsFresh'
    BY <1>2, <2>1, <2>2, WroteJobs DEF Wrote, AgentAt
  <2> QED BY <2>3, <2>4, <2>5, <2>6, <2>7, <2>8 DEF IInv
<1>5. CASE StatusMayBeWritten("running") /\ agent' = NoAgent /\ UNCHANGED beat
  <2>1. Wrote("running") \/ UNCHANGED <<status, age>>
    BY <1>5, StatusWrittenWrote DEF StatusMayBeWritten
  <2>2. TypeOK'
    BY <1>1, <1>3, <1>5, <2>1, Nothings DEF IInv, TypeOK, Wrote, serviceVars, Unhandled,
       daemonVars
  <2>3. ServiceSound' /\ RunSound' /\ AgentAlone'
    BY <1>1, <1>2, <1>5, AgentGone
  <2>4. SuccessKept'
    BY <1>2, <2>1 DEF IInv, SuccessKept, Wrote
  <2>5. StatusOwned'
    BY <1>1, <1>5, Nothings DEF IInv, StatusOwned, Recorded
  <2>6. JobsFresh'
    BY <1>2, <1>5, <2>1, WroteJobs DEF Wrote
  <2> QED BY <2>2, <2>3, <2>4, <2>5, <2>6 DEF IInv
<1> QED BY <1>4, <1>5 DEF RecordRunning

LEMMA HeartbeatStep ==
  ASSUME IInv, HeartbeatDue \/ Heartbeat
  PROVE  IInv'
<1>1. /\ beat # "off" /\ beat' \in {"on", "due"}
      /\ UNCHANGED <<serviceVars, inbox, agent, by, captured, answered>>
      /\ Unhandled /\ UNCHANGED overlap
      /\ Works \/ Fails
  BY DEF HeartbeatDue, Heartbeat, Works
<1>2. UNCHANGED <<installed, serving, run, agent, by, captured, latest, overlap, asking, jobs,
                  inbox>>
  BY <1>1 DEF serviceVars, Unhandled, daemonVars
<1>3. faults' \in 0..MaxFaults
  BY <1>1, FaultCounted
<1>4. Wrote("running") \/ UNCHANGED <<status, age>>
  BY StatusWrittenWrote DEF HeartbeatDue, Heartbeat, StatusMayBeWritten
<1>5. Recorded /\ status.job = agent.job /\ status.state = "running"
  BY <1>1 DEF IInv, StatusOwned
<1>6. TypeOK'
  BY <1>1, <1>3, <1>4 DEF IInv, TypeOK, Wrote, serviceVars, Unhandled, daemonVars
<1>7. ServiceSound' /\ RunSound' /\ AgentAlone'
  BY <1>2 DEF IInv, ServiceSound, RunSound, AgentAlone
<1>8. SuccessKept'
  BY <1>4, <1>5 DEF SuccessKept, Wrote
<1>9. StatusOwned'
  BY <1>2, <1>4, <1>5 DEF IInv, StatusOwned, Recorded, Wrote
<1>10. JobsFresh'
  BY <1>2, <1>4, WroteJobs DEF Wrote
<1> QED BY <1>6, <1>7, <1>8, <1>9, <1>10 DEF IInv

LEMMA CheckTargetStep ==
  ASSUME IInv, CheckTarget
  PROVE  IInv'
<1>1. /\ agent.at = "check"
      /\ UNCHANGED <<serviceVars, inbox, status, age, beat, by, captured, answered>>
      /\ Unhandled /\ UNCHANGED overlap
      /\ Works \/ Fails
  BY DEF CheckTarget
<1>2. UNCHANGED <<installed, serving, run, by, captured, latest, overlap, asking, jobs, inbox,
                  status, beat>>
  BY <1>1 DEF serviceVars, Unhandled, daemonVars
<1>3. PICK at \in {"engine", "failing"} : AgentAt(at) /\ (at = "engine" => latest = agent.target)
  BY AgentAtSet DEF CheckTarget, AgentSteps
<1>4. TypeOK'
  BY <1>1, <1>3, FaultCounted DEF IInv, TypeOK, AgentAt, serviceVars, Unhandled, daemonVars
<1>5. ServiceSound'
  BY <1>2, <1>3, Numbers DEF IInv, ServiceSound, AgentAt
<1>6. RunSound'
  BY <1>1, <1>2, <1>3 DEF IInv, RunSound, AgentAt
<1>7. AgentAlone'
  BY <1>1, <1>2, <1>3, Nothings DEF IInv, AgentAlone, ServiceSound, AgentAt
<1>8. SuccessKept'
  BY <1>2 DEF IInv, SuccessKept
<1>9. StatusOwned'
  BY <1>1, <1>2, <1>3 DEF IInv, StatusOwned, Recorded, AgentAt
<1>10. JobsFresh'
  BY <1>2, <1>3, WroteJobs DEF AgentAt
<1> QED BY <1>4, <1>5, <1>6, <1>7, <1>8, <1>9, <1>10 DEF IInv

\* A run that begins has found the installed binary and the daemon there is.
Began ==
  /\ run = NoRun /\ run' \in Runs /\ run' # NoRun
  /\ run'.from = installed /\ run'.to = 0
  /\ result' \in Results /\ UNCHANGED <<installed, serving>>

LEMMA BeginBegan ==
  ASSUME IInv, Begin
  PROVE  Began
<1> DEFINE r == [from |-> installed, was |-> serving, to |-> 0]
<1>1. installed \in Releases /\ serving \in Tags
  BY DEF IInv, TypeOK
<1>2. r \in Runs /\ r.from = installed /\ r.to = 0
  BY <1>1, Tagged DEF Runs
<1>3. r.from # 0
  BY <1>1, <1>2, Tagged
<1>4. NoRun.from = 0
  BY DEF NoRun
<1>5. run = NoRun /\ run' = r /\ result' = "none" /\ UNCHANGED <<installed, serving>>
  BY DEF Begin
<1> HIDE DEF r
<1> QED BY <1>2, <1>3, <1>4, <1>5 DEF Began, Results

LEMMA AgentLocksStep ==
  ASSUME IInv, AgentLocks
  PROVE  IInv'
<1>1. /\ agent.at = "engine" /\ UNCHANGED <<inbox, status, age, beat, answered, faults>>
      /\ Unhandled /\ UNCHANGED overlap
  BY DEF AgentLocks, Works
<1>2. UNCHANGED <<latest, overlap, asking, jobs, inbox, status, beat>>
  BY <1>1 DEF Unhandled, daemonVars
<1>3. CASE Begin /\ by' = "agent" /\ captured' = agent.version
           /\ agent' = [agent EXCEPT !.at = "inside"]
  <2>1. Began
    BY <1>3, BeginBegan
  <2>2. AgentAt("inside")
    BY <1>3, AgentAtSet DEF AgentSteps
  <2>3. TypeOK'
    BY <1>1, <1>3, <2>1, <2>2 DEF IInv, TypeOK, Began, AgentAt, Unhandled, daemonVars
  <2>4. ServiceSound'
    BY <1>1, <1>2, <2>1, <2>2 DEF IInv, ServiceSound, Began, AgentAt
  <2>5. RunSound'
    BY <1>2, <1>3, <2>1, <2>2, Numbers DEF IInv, ServiceSound, RunSound, Began, AgentAt
  <2>6. AgentAlone'
    BY <1>1, <1>2, <2>1, <2>2 DEF IInv, AgentAlone, Began, AgentAt
  <2>7. SuccessKept'
    BY <1>2, <2>1 DEF IInv, SuccessKept, Began
  <2>8. StatusOwned'
    BY <1>1, <1>2, <2>2 DEF IInv, StatusOwned, Recorded, AgentAt
  <2>9. JobsFresh'
    BY <1>2, <2>2, WroteJobs DEF AgentAt
  <2> QED BY <2>3, <2>4, <2>5, <2>6, <2>7, <2>8, <2>9 DEF IInv
<1>4. CASE agent' = [agent EXCEPT !.at = "failing"] /\ UNCHANGED <<serviceVars, by, captured>>
           /\ run # NoRun
  <2>1. AgentAt("failing")
    BY <1>4, AgentAtSet DEF AgentSteps
  <2>2. UNCHANGED <<installed, serving, run, by, captured>>
    BY <1>4 DEF serviceVars
  <2>3. TypeOK'
    BY <1>1, <1>4, <2>1 DEF IInv, TypeOK, AgentAt, Unhandled, daemonVars, serviceVars
  <2>4. ServiceSound' /\ RunSound'
    BY <1>1, <1>2, <2>1, <2>2 DEF IInv, ServiceSound, RunSound, AgentAt
  <2>5. AgentAlone'
    BY <1>1, <1>2, <1>4, <2>1, <2>2, Nothings DEF IInv, AgentAlone, AgentAt
  <2>6. SuccessKept'
    BY <1>2, <2>2 DEF IInv, SuccessKept
  <2>7. StatusOwned'
    BY <1>1, <1>2, <2>1 DEF IInv, StatusOwned, Recorded, AgentAt
  <2>8. JobsFresh'
    BY <1>2, <2>1, WroteJobs DEF AgentAt
  <2> QED BY <2>3, <2>4, <2>5, <2>6, <2>7, <2>8 DEF IInv
<1> QED BY <1>3, <1>4 DEF AgentLocks

LEMMA RecordTerminalStep ==
  ASSUME IInv, RecordTerminal
  PROVE  IInv'
<1>1. /\ agent.at \in {"failing", "succeeding"} /\ beat' = "off" /\ agent' = NoAgent
      /\ UNCHANGED <<serviceVars, inbox, by, captured>>
      /\ Unhandled /\ UNCHANGED overlap
      /\ Works \/ Fails
  BY DEF RecordTerminal
<1>2. UNCHANGED <<installed, serving, run, by, captured, latest, overlap, asking, jobs, inbox>>
  BY <1>1 DEF serviceVars, Unhandled, daemonVars
<1>3. /\ Terminal \in {"failed", "succeeded"}
      /\ Terminal = "succeeded" => agent.at = "succeeding"
  BY <1>1 DEF Terminal
<1>4. Wrote(Terminal) \/ UNCHANGED <<status, age>>
  BY <1>3, StatusWrittenWrote DEF RecordTerminal, StatusMayBeWritten
<1>5. answered' \subseteq JobIds
  <2>1. answered \subseteq JobIds /\ agent.job \in JobIds
    BY DEF IInv, TypeOK
  <2>2. answered' \subseteq answered \cup {agent.job}
    BY DEF RecordTerminal
  <2> QED BY <2>1, <2>2
<1>6. TypeOK'
  BY <1>1, <1>4, <1>5, FaultCounted, Nothings DEF IInv, TypeOK, Wrote, serviceVars, Unhandled,
     daemonVars
<1>7. ServiceSound' /\ RunSound' /\ AgentAlone'
  BY <1>1, <1>2, AgentGone
<1>8. SuccessKept'
  <2>1. CASE Wrote(Terminal)
    <3>1. agent.at = "succeeding" /\ ~overlap => run = NoRun /\ agent.target <= installed
      BY Nothings DEF IInv, AgentAlone
    <3> QED BY <1>2, <1>3, <2>1, <3>1 DEF SuccessKept, Wrote
  <2>2. CASE UNCHANGED status
    BY <1>2, <2>2 DEF IInv, SuccessKept
  <2> QED BY <1>4, <2>1, <2>2
<1>9. StatusOwned'
  BY <1>1, Nothings DEF StatusOwned, Recorded
<1>10. JobsFresh'
  BY <1>1, <1>2, <1>4, WroteJobs DEF Wrote
<1> QED BY <1>6, <1>7, <1>8, <1>9, <1>10 DEF IInv

-----------------------------------------------------------------------------
(* The engine                                                              *)

LEMMA CliLocksStep ==
  ASSUME IInv, NEW v \in Releases, CliLocks(v)
  PROVE  IInv'
<1>1. /\ by' = "cli" /\ captured' = v
      /\ UNCHANGED <<latest, daemonVars, inbox, status, age, agent, beat, countVars, answered>>
  BY DEF CliLocks
<1>2. Began
  BY BeginBegan DEF CliLocks
<1>3. overlap' = (overlap \/ agent # NoAgent)
  BY DEF CliLocks
<1>4. overlap' \in BOOLEAN
  <2>1. CASE agent = NoAgent
    BY <1>3, <2>1 DEF IInv, TypeOK
  <2>2. CASE agent # NoAgent
    <3>1. overlap' = TRUE
      BY <1>3, <2>2
    <3> QED BY <3>1, Zenon
  <2> QED BY <2>1, <2>2
<1>5. UNCHANGED <<latest, asking, jobs, inbox, status, agent, beat>>
  BY <1>1 DEF daemonVars, countVars
<1>6. TypeOK'
  BY <1>1, <1>2, <1>4, Tagged DEF IInv, TypeOK, Began, daemonVars, countVars
<1>7. ServiceSound'
  BY <1>2, <1>5 DEF IInv, ServiceSound, Began
<1>8. RunSound'
  <2>1. agent.at # "inside"
    BY <1>2 DEF IInv, RunSound, Began
  <2> QED BY <1>1, <1>2, <1>5, <2>1, Numbers DEF IInv, ServiceSound, RunSound, Began
<1>9. AgentAlone'
  BY <1>3, <1>5, Nothings DEF AgentAlone
<1>10. SuccessKept'
  BY <1>2, <1>3, <1>5 DEF IInv, SuccessKept, Began
<1>11. StatusOwned' /\ JobsFresh'
  BY <1>5 DEF IInv, StatusOwned, JobsFresh, Queued, Recorded
<1> QED BY <1>6, <1>7, <1>8, <1>9, <1>10, <1>11 DEF IInv

LEMMA EngineAimsStep ==
  ASSUME IInv, EngineAims
  PROVE  IInv'
<1>1. /\ UNCHANGED <<latest, daemonVars, inbox, status, age, agent, beat, by, captured,
                     countVars, answered, overlap>>
      /\ run # NoRun /\ run.to = 0 /\ run' = [run EXCEPT !.to = Target]
      /\ UNCHANGED <<installed, serving, result>>
  BY DEF EngineAims, Aim
<1>2. UNCHANGED <<latest, asking, jobs, inbox, status, agent, beat, by, captured, overlap,
                  installed, serving>>
  BY <1>1 DEF daemonVars, countVars
<1>3. by # "agent" => Target = latest
  BY DEF Target
<1>4. by = "agent" => Target = agent.target /\ agent.at = "inside"
  BY DEF Target, IInv, RunSound
<1>5. Target \in Tags /\ Target <= latest
  <2>1. latest \in Tags /\ agent.target \in Tags
    BY Tagged DEF IInv, TypeOK
  <2> QED BY <1>3, <1>4, <2>1, Numbers DEF IInv, ServiceSound
<1>6. run \in Runs /\ run.from # 0
  BY <1>1, RunNumbers
<1>7. run' \in Runs /\ run'.from = run.from /\ run'.to = Target
  BY <1>1, <1>5, <1>6, Tagged DEF Runs
<1>8. run' # NoRun
  BY <1>6, <1>7 DEF NoRun
<1>9. TypeOK'
  BY <1>1, <1>7 DEF IInv, TypeOK, daemonVars, countVars
<1>10. ServiceSound' /\ StatusOwned' /\ JobsFresh'
  BY <1>2 DEF IInv, ServiceSound, StatusOwned, JobsFresh, Queued, Recorded
<1>11. RunSound'
  <2>1. run.from <= latest /\ installed = run.from /\ by # "nobody"
    BY <1>1 DEF IInv, RunSound
  <2> QED BY <1>2, <1>3, <1>4, <1>5, <1>7, <1>8, <2>1 DEF IInv, RunSound
<1>12. AgentAlone' /\ SuccessKept'
  BY <1>1, <1>2, <1>7, <1>8 DEF IInv, AgentAlone, SuccessKept
<1> QED BY <1>9, <1>10, <1>11, <1>12 DEF IInv

\* What every run keeps of the requests when the daemon may have been stopped.
LEMMA MemoryFresh ==
  ASSUME IInv, UNCHANGED <<jobs, inbox, status>>,
         asking' = asking \/ asking' = [b \in Browsers |-> NotAsking],
         agent'.job = agent.job \/ agent' = NoAgent
  PROVE  /\ JobsFresh'
         /\ asking' \in [Browsers -> [at : {"no", "checked", "linked"}, job : JobIds,
                                      target : Tags]]
<1>1. 0 <= jobs
  BY Numbers
<1>2. CASE asking' = asking
  BY <1>1, <1>2, WroteJobs DEF IInv, TypeOK
<1>3. CASE asking' = [b \in Browsers |-> NotAsking]
  <2>1. asking' \in [Browsers -> [at : {"no", "checked", "linked"}, job : JobIds,
                                  target : Tags]]
    BY <1>3, Nothings
  <2>2. \A b \in Browsers : asking'[b].at = "no" /\ asking'[b].job = 0
    BY <1>3, Nothings
  <2> QED BY <1>1, <2>1, <2>2, Nothings DEF IInv, JobsFresh, Queued
<1> QED BY <1>2, <1>3

LEMMA EngineWorksStep ==
  ASSUME IInv, EngineWorks
  PROVE  IInv'
<1>1. /\ DaemonMemory /\ run # NoRun /\ run.to # 0 /\ run' = run /\ result' = result
      /\ UNCHANGED <<latest, inbox, status, age, agent, beat, by, captured, countVars,
                     answered, overlap>>
  BY DEF EngineWorks, SwitchService, SwitchBinary
<1>2. UNCHANGED <<latest, jobs, inbox, status, agent, beat, by, captured, overlap, run>>
  BY <1>1 DEF countVars
<1>3. /\ installed' \in {run.from, run.to} /\ serving' \in {Down, installed'}
  <2>1. installed \in {run.from, run.to}
    BY <1>1 DEF IInv, RunSound
  <2> QED BY <2>1 DEF EngineWorks, SwitchService, SwitchBinary
<1>4. /\ run \in Runs /\ run.from \in Releases /\ run.to \in Releases
  BY <1>1, RunNumbers DEF Runs
<1>5. /\ asking' = asking \/ asking' = [b \in Browsers |-> NotAsking]
      /\ cache' \in {cache, 0}
  BY <1>1 DEF DaemonMemory, daemonVars
<1>6. JobsFresh' /\ asking' \in [Browsers -> [at : {"no", "checked", "linked"}, job : JobIds,
                                              target : Tags]]
  BY <1>2, <1>5, MemoryFresh
<1>7. TypeOK'
  <2>1. installed' \in Releases /\ serving' \in Tags /\ cache' \in Tags
    BY <1>3, <1>4, <1>5, Tagged DEF IInv, TypeOK
  <2> QED BY <1>1, <1>4, <1>6, <2>1 DEF IInv, TypeOK, countVars
<1>8. run.from <= latest /\ run.to <= latest
  BY <1>1 DEF IInv, RunSound
<1>9. ServiceSound'
  BY <1>2, <1>3, <1>8 DEF IInv, ServiceSound
<1>10. RunSound'
  BY <1>1, <1>2, <1>3 DEF IInv, RunSound
<1>11. AgentAlone'
  <2>1. ~overlap => agent = NoAgent \/ agent.at = "inside"
    BY <1>1 DEF IInv, AgentAlone
  <2> QED BY <1>2, <2>1, Nothings DEF IInv, AgentAlone
<1>12. SuccessKept'
  <2>1. ~overlap => run.from <= run.to
    BY <1>1 DEF IInv, RunSound, AgentAlone
  <2>2. /\ run.from \in Nat /\ run.to \in Nat /\ status.target \in Nat
    BY <1>1, RunNumbers, Numbers
  <2>3. ~overlap /\ status.state = "succeeded" => status.target <= run.from
    BY <1>1 DEF IInv, SuccessKept
  <2>4. ~overlap /\ status.state = "succeeded" => status.target <= installed'
    BY <1>3, <2>1, <2>2, <2>3
  <2> QED BY <1>2, <2>3, <2>4 DEF SuccessKept
<1>13. StatusOwned'
  BY <1>2 DEF IInv, StatusOwned, Recorded
<1> QED BY <1>6, <1>7, <1>9, <1>10, <1>11, <1>12, <1>13 DEF IInv

LEMMA EngineReturnsStep ==
  ASSUME IInv, EngineReturns
  PROVE  IInv'
<1>1. PICK r \in Returned :
        /\ Possible(r) /\ Finish(r)
        /\ agent' = IF by = "agent" THEN AgentAfter(r) ELSE agent
  BY DEF EngineReturns
<1>2. /\ run # NoRun /\ run' = NoRun /\ result' = r /\ UNCHANGED <<installed, serving>>
      /\ Truthful(r)
  BY <1>1 DEF Finish
<1>3. /\ by' = "nobody" /\ captured' = 0
      /\ UNCHANGED <<latest, daemonVars, inbox, status, age, beat, countVars, answered, overlap>>
  BY DEF EngineReturns
<1>4. UNCHANGED <<latest, asking, jobs, inbox, status, beat, overlap>>
  BY <1>3 DEF daemonVars, countVars
<1>5. result' \in Results
  BY <1>2 DEF Results
<1>6. ServiceSound' /\ RunSound' /\ AgentAlone' /\ StatusOwned' /\ JobsFresh'
      /\ agent' \in [at : AgentSteps, job : JobIds, target : Tags, version : Tags]
  <2>1. CASE by = "agent"
    <3>1. PICK at \in {"succeeding", "failing"} :
            AgentAt(at) /\ (at = "succeeding" => r \in {"updated", "current"})
      BY <1>1, <2>1, AgentAtSet DEF AgentAfter, AgentSteps
    <3>2. agent.at = "inside" /\ captured = agent.version
      BY <2>1 DEF IInv, RunSound
    <3>3. ServiceSound' /\ RunSound'
      BY <1>2, <1>3, <1>4, <3>1 DEF IInv, ServiceSound, RunSound, AgentAt
    <3>4. ASSUME ~overlap, r \in {"updated", "current"}
          PROVE  agent.target <= installed
      <4>1. /\ run.from \in Nat /\ run.from # 0 /\ run.to \in Nat /\ installed \in Nat
            /\ agent.version \in Nat
        BY <1>2, RunNumbers, Numbers
      <4>2. agent.version = run.from
        BY <3>2, <3>4 DEF IInv, AgentAlone
      <4>3. CASE r = "updated"
        <5>1. run.to > captured /\ installed = run.to
          BY <1>1, <1>2, <4>3 DEF Possible, Truthful
        <5>2. run.to # 0
          BY <3>2, <4>1, <5>1
        <5>3. run.to = agent.target
          BY <1>2, <2>1, <5>2 DEF IInv, RunSound
        <5> QED BY <4>1, <5>1, <5>3
      <4>4. CASE r = "current"
        <5>1. run.to = captured /\ installed = run.from
          BY <1>1, <1>2, <4>4 DEF Possible, Truthful
        <5>2. run.to # 0
          BY <3>2, <4>1, <4>2, <5>1
        <5>3. run.to = agent.target
          BY <1>2, <2>1, <5>2 DEF IInv, RunSound
        <5> QED BY <3>2, <4>1, <4>2, <5>1, <5>3
      <4> QED BY <3>4, <4>3, <4>4
    <3>5. AgentAlone'
      BY <1>2, <1>4, <3>1, <3>4 DEF AgentAlone, AgentAt
    <3>6. StatusOwned'
      BY <1>4, <3>1, <3>2 DEF IInv, StatusOwned, Recorded, AgentAt
    <3>7. JobsFresh'
      BY <1>4, <3>1, WroteJobs DEF AgentAt
    <3> QED BY <3>1, <3>3, <3>5, <3>6, <3>7 DEF AgentAt
  <2>2. CASE by # "agent"
    <3>1. agent' = agent /\ agent.at # "inside"
      BY <1>1, <2>2 DEF IInv, RunSound
    <3>2. ServiceSound' /\ RunSound'
      BY <1>2, <1>3, <1>4, <3>1 DEF IInv, ServiceSound, RunSound
    <3>3. AgentAlone'
      BY <1>2, <1>4, <3>1 DEF IInv, AgentAlone
    <3>4. StatusOwned' /\ JobsFresh'
      BY <1>4, <3>1 DEF IInv, StatusOwned, JobsFresh, Queued, Recorded
    <3> QED BY <3>1, <3>2, <3>3, <3>4 DEF IInv, TypeOK
  <2> QED BY <2>1, <2>2
<1>7. TypeOK'
  BY <1>2, <1>3, <1>5, <1>6, Tagged DEF IInv, TypeOK, daemonVars, countVars
<1>8. SuccessKept'
  BY <1>2, <1>4 DEF IInv, SuccessKept
<1> QED BY <1>6, <1>7, <1>8 DEF IInv

-----------------------------------------------------------------------------
(* The world                                                               *)

LEMMA PublishStep ==
  ASSUME IInv, Publish
  PROVE  IInv'
<1>1. /\ latest < MaxVersion /\ latest' = latest + 1
      /\ UNCHANGED <<serviceVars, daemonVars, inbox, status, age, agent, beat, by,
                     captured, countVars, answered, overlap>>
  BY DEF Publish
<1>2. UNCHANGED <<installed, serving, run, agent, by, captured, overlap, status, asking, jobs,
                  inbox, beat>>
  BY <1>1 DEF serviceVars, daemonVars, countVars
<1>3. latest' \in Releases
  <2>1. latest \in Releases
    BY DEF IInv, TypeOK
  <2> QED BY <1>1, <2>1, Bounds DEF Releases
<1>4. TypeOK'
  BY <1>1, <1>3 DEF IInv, TypeOK, serviceVars, daemonVars, countVars
<1>5. ServiceSound'
  BY <1>1, <1>2, Numbers DEF IInv, ServiceSound
<1>6. RunSound'
  <2>1. run # NoRun => run.from <= latest' /\ run.to <= latest'
    BY <1>1, Numbers, RunNumbers DEF IInv, RunSound
  <2> QED BY <1>2, <2>1 DEF IInv, RunSound
<1>7. AgentAlone' /\ SuccessKept'
  BY <1>2 DEF IInv, AgentAlone, SuccessKept
<1>8. StatusOwned' /\ JobsFresh'
  BY <1>2 DEF IInv, StatusOwned, JobsFresh, Queued, Recorded
<1> QED BY <1>4, <1>5, <1>6, <1>7, <1>8 DEF IInv

LEMMA TickStep ==
  ASSUME IInv, Tick
  PROVE  IInv'
<1>1. /\ age <= StaleAfter /\ age' = age + 1
      /\ UNCHANGED <<serviceVars, latest, daemonVars, inbox, status, agent, beat, by,
                     captured, countVars, answered, overlap>>
  BY DEF Tick
<1>2. age' \in 0..(StaleAfter + 1)
  <2>1. age \in 0..(StaleAfter + 1)
    BY DEF IInv, TypeOK
  <2> QED BY <1>1, <2>1, Bounds
<1>3. TypeOK'
  BY <1>1, <1>2 DEF IInv, TypeOK, serviceVars, daemonVars, countVars
<1>4. EngineSame
  BY <1>1 DEF EngineSame
<1>5. StatusOwned' /\ JobsFresh'
  BY <1>1 DEF IInv, StatusOwned, JobsFresh, Queued, Recorded, daemonVars, countVars
<1> QED BY <1>3, <1>4, <1>5, EngineSameSound DEF IInv

LEMMA KillAgentStep ==
  ASSUME IInv, KillAgent
  PROVE  IInv'
<1>1. /\ kills < MaxKills /\ kills' = kills + 1 /\ agent' = NoAgent /\ beat' = "off"
      /\ UNCHANGED <<latest, daemonVars, inbox, status, age, jobs, faults, answered, overlap>>
  BY DEF KillAgent
<1>2. /\ UNCHANGED <<installed, serving>>
      /\ \/ by = "agent" /\ run' = NoRun /\ result' = "killed" /\ by' = "nobody" /\ captured' = 0
         \/ by # "agent" /\ UNCHANGED <<run, result, by, captured>>
  BY DEF KillAgent, Die, serviceVars
<1>3. UNCHANGED <<latest, asking, jobs, inbox, status, overlap>>
  BY <1>1 DEF daemonVars
<1>4. TypeOK'
  <2>1. run' \in Runs \cup {NoRun} /\ result' \in Results /\ captured' \in Tags
        /\ by' \in {"nobody", "agent", "cli"}
    BY <1>2, Tagged DEF IInv, TypeOK, Results
  <2> QED BY <1>1, <1>2, <2>1, KillCounted, Nothings DEF IInv, TypeOK, daemonVars
<1>5. ServiceSound'
  BY <1>1, <1>2, <1>3, Nothings DEF IInv, ServiceSound
<1>6. RunSound'
  BY <1>1, <1>2, <1>3, Nothings DEF IInv, RunSound
<1>7. AgentAlone' /\ StatusOwned'
  BY <1>1, Nothings DEF AgentAlone, StatusOwned, Recorded
<1>8. SuccessKept'
  BY <1>2, <1>3 DEF IInv, SuccessKept
<1>9. JobsFresh'
  BY <1>1, <1>3, WroteJobs
<1> QED BY <1>4, <1>5, <1>6, <1>7, <1>8, <1>9 DEF IInv

LEMMA RebootStep ==
  ASSUME IInv, Reboot
  PROVE  IInv'
<1>1. /\ kills < MaxKills /\ kills' = kills + 1 /\ agent' = NoAgent /\ beat' = "off"
      /\ by' = "nobody" /\ captured' = 0 /\ cache' = 0
      /\ asking' = [b \in Browsers |-> NotAsking]
      /\ serving' = installed /\ run' = NoRun /\ installed' = installed
      /\ UNCHANGED <<latest, inbox, status, age, jobs, faults, answered, overlap>>
  BY DEF Reboot, Boot
<1>2. JobsFresh' /\ asking' \in [Browsers -> [at : {"no", "checked", "linked"}, job : JobIds,
                                              target : Tags]]
  BY <1>1, MemoryFresh
<1>3. TypeOK'
  <2>1. result' \in Results
    BY DEF Reboot, Boot, IInv, TypeOK, Results
  <2>2. serving' \in Tags
    BY <1>1, Tagged DEF IInv, TypeOK
  <2> QED BY <1>1, <1>2, <2>1, <2>2, KillCounted, Nothings, Tagged DEF IInv, TypeOK
<1>4. ServiceSound' /\ RunSound' /\ AgentAlone' /\ StatusOwned'
  BY <1>1, Nothings DEF IInv, ServiceSound, RunSound, AgentAlone, StatusOwned, Recorded
<1>5. SuccessKept'
  BY <1>1 DEF IInv, SuccessKept
<1> QED BY <1>2, <1>3, <1>4, <1>5 DEF IInv

-----------------------------------------------------------------------------
(* Theorems                                                                *)

LEMMA IInvStep == IInv /\ [Next]_vars => IInv'
<1> SUFFICES ASSUME IInv, [Next]_vars PROVE IInv'
  OBVIOUS
<1>1. ASSUME NEW b \in Browsers, RequestChecks(b) \/ PublishRequest(b) \/ SyncRequest(b)
      PROVE  IInv'
  BY <1>1, RequestChecksStep, PublishRequestStep, SyncRequestStep
<1>2. CASE AgentStep
  BY <1>2, RecordRunningStep, CheckTargetStep, AgentLocksStep, RecordTerminalStep DEF AgentStep
<1>3. CASE UNCHANGED vars
  <2>1. TypeOK'
    BY <1>3 DEF vars, serviceVars, daemonVars, countVars, IInv, TypeOK
  <2>2. EngineSame /\ UNCHANGED <<asking, jobs, inbox, beat, agent, status>>
    BY <1>3 DEF vars, EngineSame, daemonVars, countVars
  <2>3. StatusOwned' /\ JobsFresh'
    BY <2>2 DEF IInv, StatusOwned, JobsFresh, Queued, Recorded
  <2> QED BY <2>1, <2>2, <2>3, EngineSameSound DEF IInv
<1> QED BY <1>1, <1>2, <1>3, CacheStep, ConsumeRequestStep, HeartbeatStep, CliLocksStep,
           EngineAimsStep, EngineWorksStep, EngineReturnsStep, PublishStep, TickStep,
           KillAgentStep, RebootStep DEF Next

\* The inductive invariant holds in every reachable state.
THEOREM Inductive == Spec => []IInv
BY InitIInv, IInvStep, PTL DEF Spec

\* What the console shows as a success is installed, whoever wrote it and whatever runs
\* came after, as long as no operator's run overlapped with an agent (baseStatus,
\* reconcilePersistedState, runUpdateAgent).
THEOREM ShownSuccessIsTrue == Spec => []SuccessIsInstalled
<1>1. ASSUME IInv PROVE SuccessIsInstalled
  <2>1. TypeOK
    BY <1>1 DEF IInv
  <2>2. ASSUME Shown = "succeeded", serving # Down, ~overlap
        PROVE  installed >= status.target
    <3>1. serving = installed /\ installed \in Nat /\ status.target \in Nat
      BY <1>1, <2>2, Numbers DEF IInv, ServiceSound
    <3>2. Reconciled(serving) = "succeeded"
      BY <2>2 DEF Shown
    <3>3. \/ status.state = "succeeded"
          \/ serving >= status.target
      BY <3>2 DEF Reconciled
    <3>4. status.state = "succeeded" => status.target <= installed
      BY <1>1, <2>2 DEF IInv, SuccessKept
    <3> QED BY <3>1, <3>3, <3>4
  <2> QED BY <2>1, <2>2 DEF SuccessIsInstalled
<1> QED BY Inductive, <1>1, PTL

\* Once a job has its terminal status nothing puts that status back: its heartbeat is
\* joined before the last write, and a later agent works on a job of its own
\* (runUpdateAgent, stopHeartbeat, newUpdateJobID).
THEOREM TerminalStays == Spec => TerminalIsFinal
<1> DEFINE Final == status.state \in {"failed", "succeeded"} /\ status'.job = status.job
                      => status' = status
<1>1. ASSUME IInv, [Next]_vars PROVE [Final]_vars
  <2> SUFFICES ASSUME Next, status.state \in {"failed", "succeeded"}, status'.job = status.job
               PROVE  status' = status
    BY <1>1
  <2>1. ~Recorded /\ beat = "off"
    BY <1>1 DEF IInv, StatusOwned
  <2>2. CASE RecordRunning
    <3>1. agent.at = "claimed" /\ agent.job # status.job
      BY <1>1, <2>2 DEF RecordRunning, IInv, StatusOwned
    <3>2. StatusWritten("running") => status'.job = agent.job
      BY DEF StatusWritten
    <3> QED BY <2>2, <3>1, <3>2 DEF RecordRunning, StatusMayBeWritten
  <2>3. ~Heartbeat /\ ~RecordTerminal
    BY <2>1 DEF Heartbeat, RecordTerminal, Recorded
  <2>4. ASSUME NEW b \in Browsers, RequestChecks(b) \/ PublishRequest(b) \/ SyncRequest(b)
        PROVE  status' = status
    BY <2>4 DEF RequestChecks, PublishRequest, SyncRequest, Elsewhere
  <2>5. ASSUME NEW v \in Releases, CliLocks(v)
        PROVE  status' = status
    BY <2>5 DEF CliLocks
  <2>6. CASE FetchLatest \/ CacheExpires \/ ConsumeRequest \/ CheckTarget \/ AgentLocks
             \/ HeartbeatDue
    BY <2>6 DEF FetchLatest, CacheExpires, Elsewhere, ConsumeRequest, CheckTarget, AgentLocks,
       HeartbeatDue
  <2>7. CASE EngineAims \/ EngineWorks \/ EngineReturns \/ Publish \/ Tick \/ KillAgent \/ Reboot
    BY <2>7 DEF EngineAims, EngineWorks, EngineReturns, Publish, Tick, KillAgent, Reboot
  <2> QED BY <2>2, <2>3, <2>4, <2>5, <2>6, <2>7 DEF Next, AgentStep
<1> QED BY <1>1, Inductive, PTL DEF Spec, TerminalIsFinal
=============================================================================
