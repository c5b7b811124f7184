SPECIFICATION Spec
CONSTANTS
  None = None
  a1 = a1
  a2 = a2
  b1 = b1
  b2 = b2
  c1 = c1
  c2 = c2
  c3 = c3
  d1 = d1
  d2 = d2
  d3 = d3
SYMMETRY Symmetry
INVARIANT TypeOK
INVARIANT SoldAsListed
 
INVARIANT LimitsHold
INVARIANT ChoiceIsKept
INVARIANT AccountsAreWhole
PROPERTY StepsAreWhole
CHECK_DEADLOCK FALSE
