SPECIFICATION Spec
CONSTANTS
  None = None
  c1 = c1
  c2 = c2
  c3 = c3
PROPERTY WorkEnds
PROPERTY CleanupsHappen
CHECK_DEADLOCK FALSE
