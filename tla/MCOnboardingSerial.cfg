SPECIFICATION Spec
CONSTANTS
  Admins = {a1}
  Agents = {g1}
  a1 = a1
  g1 = g1
  MaxIds = 2
  MaxSecrets = 3
  MaxFaults = 1
  MaxCrashes = 1
SYMMETRY Symmetry
INVARIANTS DeleteIsComplete FailedInviteLeavesNothing
