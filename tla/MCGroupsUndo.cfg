CONSTANTS
  Users = {u1}
  Groups = {g1, g2}
  Names = {n1, n2}
  Requests = {q1}
  Read = 1
  Write = 2
  MaxTreeDepth = 3
SPECIFICATION UndoSpec
INVARIANTS UndoRestores
CHECK_DEADLOCK FALSE
