CONSTANTS
  a = a
  b = b
  c = c
  d = d
  Ids <- MCIds

SPECIFICATION Spec

SYMMETRY Renamings

INVARIANTS
  TopoOrdered
  Complete
