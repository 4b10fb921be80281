SPECIFICATION Spec
CONSTANTS
  Browsers = {b1}
  Slots = {s1, s2}
  u1 = u1
  u2 = u2
  h1 = h1
  h2 = h2
  n1 = n1
  UserIds = {u1, u2}
  Handles = {h1, h2}
  Names = {n1}
  CredentialIds = {c1, c2}
  PublicKeys = {k1}
  Labels = {}
  MaxSignCount = 0
  None = None
  Subjects <- MCSubjects
  CapabilitySubject <- MCCapabilitySubject
  MaxFlows = 2
  MaxCapabilities = 1
SYMMETRY Symmetry
INVARIANTS TypeOK StoredAsResolved OneRegistrationEach CookiesNameTheirKind OwnersExist HandleIndexInverse
PROPERTY FinalRemovedIfAllowed
