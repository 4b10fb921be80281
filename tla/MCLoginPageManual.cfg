SPECIFICATION Spec
CONSTANTS
  Forms = {f1}
  MaxLogins = 2
  None = None
INVARIANT ManualLoginsVerified
CHECK_DEADLOCK FALSE
