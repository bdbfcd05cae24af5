\* The ids and the records run out: then nothing may be left to do.
CONSTANTS
  Users = {u1}
  Groups = {g1, g2, g3}
  Names = {n1, n2}
  Requests = {}
  Read = 1
  Write = 2
  MaxTreeDepth = 2
  Records = {r1}
  Removals = {d1, d2}
  MayStrip = {TRUE, FALSE}
SPECIFICATION MemorySpec
SYMMETRY Symmetry
INVARIANTS OnlyRacesStrand
PROPERTIES DeletionExposesOnlyItsOwn
CHECK_DEADLOCK FALSE
