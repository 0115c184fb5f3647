SPECIFICATION Spec
CONSTANTS
  d1 = d1
  d2 = d2
  a1 = a1
  a2 = a2
  Datagrams <- TwoDatagrams
  Areas <- TwoAreas
INVARIANT OneResponse
CHECK_DEADLOCK FALSE
