SPECIFICATION Spec
CONSTANTS
  Callers = {c1, c2}
  Flows = {f1, f2}
  Purposes = {p1, p2}
  Backends = {"memory", "sqlite"}
  TTLs = {1}
  MaxTime = 1
  MaxCapabilities = 2
  None = None
SYMMETRY Symmetry
INVARIANTS TypeOK UsedOnce ClaimsHold
PROPERTY SettledNeverChange
