SPECIFICATION Spec
CONSTANTS
  Requests = {r1, r2}
  u1 = u1
  u2 = u2
  h1 = h1
  h2 = h2
  n1 = n1
  UserIds = {u1, u2}
  Handles = {h1, h2}
  Names = {n1}
  CredentialIds = {c1, c2}
  PublicKeys = {k1}
  Labels = {}
  MaxSignCount = 2
  None = None
  Subjects <- MCSubjects
  Flows = {f1, f2}
  Backends = {"memory", "sqlite"}
  TTL = 1
  MaxTime = 1
  MaxChallenges = 3
CONSTRAINT Small
SYMMETRY Symmetry
INVARIANTS TypeOK CountersAdvance ChallengeSingleUse CompletedAsCreatedFor
PROPERTY InTimeServed
