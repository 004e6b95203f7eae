SPECIFICATION Spec
CONSTANTS
  t1 = t1
  t2 = t2
  t3 = t3
  Task = {t1, t2, t3}
  Order <- MCOrder
  Frozen = {t1, t2}
  CaseOf <- MCCaseOf
  p1 = p1
  p2 = p2
  Proc = {p1, p2}
  EditMax = 2
INVARIANTS
  CleanExitIsEarned
  FrozenMeansFrozen
  SuiteVerdictIsEarned
SYMMETRY Symmetry
