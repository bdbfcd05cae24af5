SPECIFICATION Spec
CONSTANTS
  NumPaths = 2
  MaxVersion = 2
  MaxFaults = 2
  Runners = {agent, cli}
  Pinned = {1}
  MaxRuns = 2
  MaxKills = 1
INVARIANTS RestoreIsSafe NoDaemonOnNewerState RollbackIsComplete
PROPERTIES ImplementsServiceUpdate StoppedIsAnswered
CHECK_DEADLOCK FALSE
