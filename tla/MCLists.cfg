SPECIFICATION ListSpec
CONSTANTS
  n1 = n1
  n2 = n2
  n3 = n3
  Node = {n1, n2, n3}
  Nil = Nil
  Priority = {1, 2, 3}
  FromHeadBelow = FALSE
PROPERTIES
  RefinesQueue
