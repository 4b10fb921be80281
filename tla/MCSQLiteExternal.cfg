SPECIFICATION Spec
CONSTANTS
  OperationConnections = {o1}
  ExternalConnections = {e1}
  UserIds = {u1, u2}
  Handles = {h1, h2}
  Names = {n1}
  CredentialIds = {c1, c2}
  PublicKeys = {k1}
  Labels = {}
  MaxSignCount = 0
  None = None
SYMMETRY Symmetry
INVARIANT InsertsMeetNoConstraint
PROPERTIES RegistrationsWhole GuardedDecisionsCurrent FinalCredentialKept
