\* The ids run out: then nothing but a request in flight can move.
CONSTANTS
  Users = {u1}
  Groups = {g1, g2, g3, g4}
  Names = {n1, n2}
  Requests = {q1}
  Read = 1
  Write = 2
  MaxTreeDepth = 3
SPECIFICATION Spec
SYMMETRY Symmetry
INVARIANTS TypeOK RestartIsInvisible JudgesAgree CaptureStaysUp
PROPERTIES AccessFollowsGrants
CHECK_DEADLOCK FALSE
