SPECIFICATION Spec
CONSTANTS
  MaxVersion = 2
  Browsers = {b1, b2}
  StaleAfter = 1
  MaxJobs = 2
  MaxFaults = 1
  MaxKills = 1
INVARIANTS SuccessIsInstalled
PROPERTIES TerminalIsFinal ShownSettles AcceptedIsAnswered
