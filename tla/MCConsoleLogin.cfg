CONSTANTS
  Accounts = {a1, a2}
  States = {s1, s2, s3}
  Browsers = {b1, b2}
  MaxFaults = 2
  MaxCrashes = 2
SPECIFICATION Spec
SYMMETRY Symmetry
INVARIANTS AdminIsOwner OneSessionPerLogin
