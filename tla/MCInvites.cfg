SPECIFICATION Spec
CONSTANTS
  Handles = {h1, h2}
  Members = {m1, m2}
  TTL = 2
  MaxTime = 3
  MaxWaiting = 2
  MaxSkews = 1
SYMMETRY Symmetry
INVARIANTS TypeOK SingleRelease CacheNotAhead PlaintextOnlyPending GateAgreesWithTable
PROPERTIES VoidedStaysVoid ImplementsOneTimeCode
