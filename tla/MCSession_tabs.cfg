SPECIFICATION Spec
CONSTANTS
  None = None
  Tabs = {A, B}
  Tokens = {t1, t2}
  MaxCalls = 2
SYMMETRY Symmetry
INVARIANTS
  TypeOK
  RefusedNotStored
