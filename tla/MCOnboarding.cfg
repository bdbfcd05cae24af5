SPECIFICATION Spec
CONSTANTS
  Admins = {a1, a2}
  Agents = {g1}
  a1 = a1
  a2 = a2
  g1 = g1
  MaxIds = 2
  MaxSecrets = 2
  MaxFaults = 0
  MaxCrashes = 1
SYMMETRY Symmetry
INVARIANTS TypeOK ActiveWasRedeemed InvitedHasCode
