SPECIFICATION Spec
CONSTANTS
  None = None
  c1 = c1
  c2 = c2
PROPERTY EventsSettle
CHECK_DEADLOCK FALSE
