SPECIFICATION Spec
CONSTANTS
  c1 = c1
  c2 = c2
  s1 = s1
  Own = own
  Cred <- MCCred
  Sibling <- MCSibling
  MaxLine = 3
  MaxTime = 3
  LateRelease = FALSE
  Restarts = TRUE
  DbFails = TRUE
INVARIANTS Attributed NeverInvented
SYMMETRY MCSymmetry
