SPECIFICATION Spec
CONSTANTS
  OperationConnections = {o1, o2}
  ExternalConnections = {}
  UserIds = {u1, u2}
  Handles = {h1, h2}
  Names = {n1}
  CredentialIds = {c1, c2}
  PublicKeys = {k1, k2}
  Labels = {}
  MaxSignCount = 1
  None = None
CONSTRAINT Small
SYMMETRY Symmetry
INVARIANTS TypeOK RefusalsAgree
PROPERTIES ImplementsStore RecordsKept
