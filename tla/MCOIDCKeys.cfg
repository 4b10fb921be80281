SPECIFICATION Spec
CONSTANTS
  Workers = {w1}
  Users = {u1}
  Clients = {c1}
  Redirects = {r1}
  redirect_uris <- EveryRedirect
  Verifiers = {v1}
  Nonces = {n1}
  CodeLifetime = 2
  TokenLifetime = 1
  MaxTime = 0
  MaxCodes = 1
  MaxKeys = 2
  None = None
SYMMETRY Symmetry
INVARIANT IdTokensVerify
