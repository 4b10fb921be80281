SPECIFICATION Spec
CONSTANTS
  Workers = {w1, w2}
  Users = {u1, u2}
  Clients = {c1, c2}
  Redirects = {r1}
  redirect_uris <- EveryRedirect
  Verifiers = {v1, v2}
  Nonces = {n1}
  CodeLifetime = 2
  TokenLifetime = 1
  MaxTime = 3
  MaxCodes = 2
  MaxKeys = 2
  None = None
CONSTRAINT Small
SYMMETRY Symmetry
INVARIANTS TypeOK NoncesOutliveCodes IdTokensNamePublishedKeys
PROPERTIES ImplementsGrants
