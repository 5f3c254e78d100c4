SPECIFICATION Spec
CONSTANTS
  c1 = c1  c2 = c2
  Callers = {c1, c2}
  MaxGen = 4
  MaxActs = 2
  MaxFaults = 1
SYMMETRY Symmetry
INVARIANTS
  TypeOK NotLockedOut OneAnswerStored AloneIsServed
PROPERTIES
  RegisterRepairs ImplementsCall
CHECK_DEADLOCK FALSE
