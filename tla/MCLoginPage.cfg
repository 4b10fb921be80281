SPECIFICATION Spec
CONSTANTS
  Forms = {f1, f2}
  MaxLogins = 3
  None = None
INVARIANTS TypeOK OneLoginPerForm
PROPERTY AbortedLoginsSettle
CHECK_DEADLOCK FALSE
