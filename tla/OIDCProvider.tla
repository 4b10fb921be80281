---------------------------- MODULE OIDCProvider ----------------------------
(***************************************************************************)
(* The OpenID Provider: authorization requests that end in a code, token   *)
(* requests that exchange the code, and the three stores they share (codes *)
(* with their nonces, access tokens, signing keys).                        *)
(*                                                                         *)
(* A worker is a task or a thread that handles one request. Each store     *)
(* call is atomic (the store's lock); between two calls, and while a host  *)
(* callback is awaited, anything may happen: other requests, time, a key   *)
(* rotation, a user who is disabled. A clock read outside a store's lock   *)
(* may be late when the store is called. Authlib's validation of           *)
(* parameters is external and abstracted to the values it lets through.    *)
(*                                                                         *)
(* Codes and access tokens are random strings that never repeat: they are  *)
(* numbers here, in the order in which they are stored.  redeem marks a    *)
(* code and consume removes it under one lock, so no call ever sees a      *)
(* marked code and the mark is left out.                                   *)
(***************************************************************************)
EXTENDS Naturals, Sequences

CONSTANTS
  Workers,       \* tasks or threads that handle requests
  Users,         \* subjects of local users
  Clients,       \* registered client ids
  Redirects,     \* redirect URIs
  redirect_uris, \* client -> the redirect URIs it registered
  Verifiers,     \* PKCE code verifiers
  Nonces,        \* nonces clients choose
  CodeLifetime,  \* authorization_code_lifetime
  TokenLifetime, \* access_token_lifetime
  MaxTime,       \* bound on the clock
  MaxCodes,      \* bound on the codes ever saved
  MaxKeys,       \* bound on the signing keys ever generated
  None           \* Python's None

ASSUME ProviderAssumption ==
  /\ redirect_uris \in [Clients -> SUBSET Redirects]
  /\ CodeLifetime \in Nat \ {0} /\ TokenLifetime \in Nat \ {0}
  /\ MaxTime \in Nat /\ MaxCodes \in Nat /\ MaxKeys \in Nat \ {0}
  /\ None \notin Nat \cup Users \cup Clients \cup Redirects \cup Verifiers \cup Nonces

VARIABLES
  now,          \* the clock
  active,       \* user -> whether the host's account is active
  codes,        \* code -> AuthorizationCode, None when it is not in the store
  nonce_expiry, \* <<client, nonce>> -> when the store forgets it, or None
  saved,        \* codes saved so far
  tokens,       \* the TokenRecords, in the order in which they were saved
  keys,         \* the signing keys, newest first
  id_tokens,    \* the key named and the key used by the ID tokens issued
  workers,      \* the request each worker handles
  granted       \* history: code -> AuthorizationCode as it was saved

vars == <<now, active, codes, nonce_expiry, saved, tokens, keys, id_tokens,
          workers, granted>>
-----------------------------------------------------------------------------
Time == 0 .. MaxTime
Codes == 1 .. MaxCodes

\* create_s256_code_challenge: one-way, and distinct for distinct verifiers.
S256(verifier) == <<"S256", verifier>>
Challenges == {S256(v) : v \in Verifiers}

AuthorizationCode ==
  [client_id : Clients, redirect_uri : Redirects, subject : Users, nonce : Nonces,
   code_challenge : Challenges, expires_at : Nat]

ASSUME CodeAssumption == None \notin AuthorizationCode

\* The last three are history: what the token was exchanged for, and with.
TokenRecord ==
  [client_id : Clients, subject : Users, expires_at : Nat, revoked : BOOLEAN,
   code : Codes, redirect_uri : Redirects, code_verifier : Verifiers]

Steps == {"idle", "reauthenticate", "consent", "save",
          "consume", "issue", "id_token", "sign"}

\* What a handler knows: request parameters, and when and what it read so far.
Request ==
  [step : Steps, client_id : Clients \cup {None}, redirect_uri : Redirects \cup {None},
   nonce : Nonces \cup {None}, code_challenge : Challenges \cup {None},
   code_verifier : Verifiers \cup {None}, user : Users \cup {None},
   code : Codes \cup {None}, at : Time, key : 0 .. MaxKeys]

Idle == [step |-> "idle", client_id |-> None, redirect_uri |-> None, nonce |-> None,
         code_challenge |-> None, code_verifier |-> None, user |-> None,
         code |-> None, at |-> 0, key |-> 0]

TypeOK ==
  /\ now \in Time
  /\ active \in [Users -> BOOLEAN]
  /\ codes \in [Codes -> AuthorizationCode \cup {None}]
  /\ nonce_expiry \in [Clients \X Nonces -> Nat \cup {None}]
  /\ saved \in 0 .. MaxCodes
  /\ tokens \in Seq(TokenRecord)
  /\ keys \in Seq(1 .. MaxKeys) /\ keys # <<>>
  /\ id_tokens \subseteq [kid : 1 .. MaxKeys, key : 1 .. MaxKeys]
  /\ workers \in [Workers -> Request]
  /\ granted \in [Codes -> AuthorizationCode \cup {None}]

Init ==
  /\ now = 0
  /\ active = [u \in Users |-> TRUE]
  /\ codes = [c \in Codes |-> None]
  /\ nonce_expiry = [n \in Clients \X Nonces |-> None]
  /\ saved = 0
  /\ tokens = <<>>
  /\ keys = <<1>>
  /\ id_tokens = {}
  /\ workers = [w \in Workers |-> Idle]
  /\ granted = [c \in Codes |-> None]
-----------------------------------------------------------------------------
(***************************************************************************)
(* The code store.  Every call but has_nonce first drops what has expired. *)
(***************************************************************************)
Expired(code, time) == time >= code.expires_at

CodesAfterCleanup(time) ==
  [c \in Codes |-> IF codes[c] # None /\ Expired(codes[c], time) THEN None ELSE codes[c]]

NoncesAfterCleanup(time) ==
  [n \in Clients \X Nonces |->
     IF nonce_expiry[n] # None /\ nonce_expiry[n] <= time THEN None ELSE nonce_expiry[n]]

Cleanup(time) ==
  /\ codes' = CodesAfterCleanup(time)
  /\ nonce_expiry' = NoncesAfterCleanup(time)

HasNonce(client_id, nonce) ==
  /\ nonce_expiry[<<client_id, nonce>>] # None
  /\ nonce_expiry[<<client_id, nonce>>] > now

\* has_nonce: a nonce found to have expired is dropped on the way.
CheckNonce(client_id, nonce) ==
  nonce_expiry' = [nonce_expiry EXCEPT ![<<client_id, nonce>>] =
                     IF HasNonce(client_id, nonce) THEN @ ELSE None]

\* save reads the store's own clock, under the lock: the code may have expired.
SaveCode(code) ==
  /\ saved < MaxCodes
  /\ saved' = saved + 1
  /\ codes' = [CodesAfterCleanup(now) EXCEPT ![saved + 1] = code]
  /\ nonce_expiry' = [NoncesAfterCleanup(now) EXCEPT ![<<code.client_id, code.nonce>>] =
                        IF code.expires_at > now + 1 THEN code.expires_at ELSE now + 1]
  /\ granted' = [granted EXCEPT ![saved + 1] = code]
-----------------------------------------------------------------------------
\* The worker's request is over.
Finish(w) == workers' = [workers EXCEPT ![w] = Idle]

(***************************************************************************)
(* GET authorization.  The session user is read and must be active, the    *)
(* redirect URI registered and the nonce new; then the host may have to    *)
(* authenticate the user again, and to decide on consent.                  *)
(***************************************************************************)
StartAuthorization(w, user, request) ==
  /\ workers[w] = Idle
  /\ active[user]
  /\ request.redirect_uri \in redirect_uris[request.client_id]
  /\ CheckNonce(request.client_id, request.nonce)
  /\ \/ Finish(w)   \* login_required, max_age, an error of the validation
     \/ /\ ~HasNonce(request.client_id, request.nonce)
        /\ workers' = [workers EXCEPT ![w] = request]
  /\ UNCHANGED <<now, active, codes, saved, tokens, keys, id_tokens, granted>>

\* The host's reauthenticate returns: it may answer with another user.
Reauthenticate(w) ==
  /\ workers[w].step = "reauthenticate"
  /\ \/ Finish(w)
     \/ \E u \in Users :
          /\ active[u]
          /\ workers' = [workers EXCEPT ![w].user = u, ![w].step = "consent"]
  /\ UNCHANGED <<now, active, codes, nonce_expiry, saved, tokens, keys, id_tokens, granted>>

(***************************************************************************)
(* decide_consent returns.  With consent the user, who was checked before  *)
(* the host was awaited, must still be active.                             *)
(***************************************************************************)
Decide(w) ==
  /\ workers[w].step = "consent"
  /\ \/ Finish(w)   \* no consent, or InvalidGrantError
     \/ /\ active[workers[w].user]
        /\ workers' = [workers EXCEPT ![w].step = "save", ![w].at = now]
  /\ UNCHANGED <<now, active, codes, nonce_expiry, saved, tokens, keys, id_tokens, granted>>

\* Then the code is issued, with a clock read before the store's lock, and saved.
IssueCode(w) ==
  LET r == workers[w] IN
  /\ r.step = "save"
  /\ \E issued \in r.at .. now :
       SaveCode([client_id |-> r.client_id, redirect_uri |-> r.redirect_uri,
                 subject |-> r.user, nonce |-> r.nonce,
                 code_challenge |-> r.code_challenge,
                 expires_at |-> issued + CodeLifetime])
  /\ Finish(w)
  /\ UNCHANGED <<now, active, tokens, keys, id_tokens>>
-----------------------------------------------------------------------------
\* The code that get finds for this client.
Findable(c, client_id) ==
  /\ codes[c] # None
  /\ codes[c].client_id = client_id
  /\ ~Expired(codes[c], now)

\* POST token: query_authorization_code, then Authlib's validation.
StartExchange(w, request) ==
  /\ workers[w] = Idle
  /\ Cleanup(now)
  /\ \/ Finish(w)
     \/ /\ Findable(request.code, request.client_id)
        /\ workers' = [workers EXCEPT ![w] = request]
  /\ UNCHANGED <<now, active, saved, tokens, keys, id_tokens, granted>>

\* Wrong form of Redeemable: what get had found is checked instead of the store.
RedeemableAsFound(r, time) ==
  /\ ~Expired(granted[r.code], time)
  /\ granted[r.code].client_id = r.client_id
  /\ granted[r.code].redirect_uri = r.redirect_uri
  /\ granted[r.code].code_challenge = S256(r.code_verifier)

Redeemable(r, time) ==
  LET code == CodesAfterCleanup(time)[r.code] IN
  /\ code # None
  /\ code.client_id = r.client_id
  /\ code.redirect_uri = r.redirect_uri
  /\ code.code_challenge = S256(r.code_verifier)

\* Wrong form of Removed: the nonce goes with its code.
RemovedWithNonce(r, time) ==
  /\ codes' = [CodesAfterCleanup(time) EXCEPT ![r.code] = None]
  /\ nonce_expiry' =
       [NoncesAfterCleanup(time) EXCEPT ![<<r.client_id, granted[r.code].nonce>>] = None]

Removed(r, time) ==
  /\ codes' = [CodesAfterCleanup(time) EXCEPT ![r.code] = None]
  /\ nonce_expiry' = NoncesAfterCleanup(time)

\* consume, with a clock that was read before the store's lock was taken.
Consume(w) ==
  LET r == workers[w] IN
  /\ r.step = "consume"
  /\ \E time \in r.at .. now :
       \/ /\ Redeemable(r, time)
          /\ Removed(r, time)
          /\ workers' = [workers EXCEPT ![w].step = "issue"]
       \/ /\ ~Redeemable(r, time)
          /\ Cleanup(time)
          /\ Finish(w)
  /\ UNCHANGED <<now, active, saved, tokens, keys, id_tokens, granted>>

(***************************************************************************)
(* The user of the consumed code is resolved and must be active; then the  *)
(* access token is generated and saved.  The code stays consumed.          *)
(***************************************************************************)
\* Wrong form of TokenOf: for the user of the request, which is not set yet.
TokenOfRequestUser(r) ==
  [client_id |-> r.client_id, subject |-> r.user,
   expires_at |-> now + TokenLifetime, revoked |-> FALSE, code |-> r.code,
   redirect_uri |-> r.redirect_uri, code_verifier |-> r.code_verifier]

TokenOf(r) ==
  [client_id |-> r.client_id, subject |-> granted[r.code].subject,
   expires_at |-> now + TokenLifetime, revoked |-> FALSE, code |-> r.code,
   redirect_uri |-> r.redirect_uri, code_verifier |-> r.code_verifier]

IssueToken(w) ==
  LET r == workers[w] IN
  /\ r.step = "issue"
  /\ \/ /\ Finish(w)   \* InvalidGrantError: no such user, or not an active one
        /\ UNCHANGED tokens
     \/ /\ active[granted[r.code].subject]
        /\ tokens' = Append(tokens, TokenOf(r))
        /\ workers' = [workers EXCEPT ![w].step = "id_token"]
  /\ UNCHANGED <<now, active, codes, nonce_expiry, saved, keys, id_tokens, granted>>
-----------------------------------------------------------------------------
(***************************************************************************)
(* The ID token.  get_encode_header, for the kid, and                      *)
(* resolve_client_private_key, for the signature, read the current key     *)
(* separately; which one Authlib calls first is left open.                 *)
(***************************************************************************)
current_private_key == Head(keys)

public_jwks == {keys[i] : i \in DOMAIN keys}

ReadKey(w) ==
  /\ workers[w].step = "id_token"
  /\ workers' = [workers EXCEPT ![w].key = current_private_key, ![w].step = "sign"]
  /\ UNCHANGED <<now, active, codes, nonce_expiry, saved, tokens, keys, id_tokens, granted>>

Sign(w) ==
  LET first == workers[w].key IN
  /\ workers[w].step = "sign"
  /\ \/ id_tokens' = id_tokens \cup {[kid |-> first, key |-> current_private_key]}
     \/ id_tokens' = id_tokens \cup {[kid |-> current_private_key, key |-> first]}
  /\ Finish(w)
  /\ UNCHANGED <<now, active, codes, nonce_expiry, saved, tokens, keys, granted>>

\* Wrong form of Rotated: the new key takes the place of the current one.
RotatedInPlace(key) == <<key>> \o Tail(keys)

Rotated(key) == <<key>> \o keys

\* The host rotates the signing keys; kids are given in order.
RotateKeys ==
  /\ current_private_key < MaxKeys
  /\ keys' = Rotated(current_private_key + 1)
  /\ UNCHANGED <<now, active, codes, nonce_expiry, saved, tokens, id_tokens, workers, granted>>
-----------------------------------------------------------------------------
RevokeToken(t) ==
  /\ tokens' = [tokens EXCEPT ![t].revoked = TRUE]
  /\ UNCHANGED <<now, active, codes, nonce_expiry, saved, keys, id_tokens, workers, granted>>

\* The host disables or enables an account.
SetActive(user) ==
  /\ active' = [active EXCEPT ![user] = ~@]
  /\ UNCHANGED <<now, codes, nonce_expiry, saved, tokens, keys, id_tokens, workers, granted>>

Tick ==
  /\ now < MaxTime
  /\ now' = now + 1
  /\ UNCHANGED <<active, codes, nonce_expiry, saved, tokens, keys, id_tokens, workers, granted>>

\* What the two endpoints can be asked.
Authorizations(user) ==
  [step : {"reauthenticate", "consent"}, client_id : Clients, redirect_uri : Redirects,
   nonce : Nonces, code_challenge : Challenges, code_verifier : {None}, user : {user},
   code : {None}, at : {0}, key : {0}]

Exchanges ==
  [step : {"consume"}, client_id : Clients, redirect_uri : Redirects, nonce : {None},
   code_challenge : {None}, code_verifier : Verifiers, user : {None},
   code : 1 .. saved, at : {now}, key : {0}]

Next ==
  \/ \E w \in Workers :
       \/ \E u \in Users : \E r \in Authorizations(u) : StartAuthorization(w, u, r)
       \/ Reauthenticate(w)
       \/ Decide(w)
       \/ IssueCode(w)
       \/ \E r \in Exchanges : StartExchange(w, r)
       \/ Consume(w)
       \/ IssueToken(w)
       \/ ReadKey(w)
       \/ Sign(w)
  \/ RotateKeys
  \/ \E t \in DOMAIN tokens : RevokeToken(t)
  \/ \E u \in Users : SetActive(u)
  \/ Tick

Spec == Init /\ [][Next]_vars
-----------------------------------------------------------------------------
\* Codes that a handler consumed and has not answered yet.
Redeemed == {workers[w].code : w \in {x \in Workers : workers[x].step = "issue"}}

\* A token: whose it is, and what the client proved to get it.
TokenView(token) ==
  [code |-> token.code, client_id |-> token.client_id, redirect_uri |-> token.redirect_uri,
   subject |-> token.subject, code_challenge |-> S256(token.code_verifier)]

Grants ==
  INSTANCE AuthorizationGrants WITH
    Grant <- AuthorizationCode, grants <- granted,
    available <- {c \in Codes : codes[c] # None},
    redeemed <- Redeemed,
    tokens <- {TokenView(tokens[i]) : i \in DOMAIN tokens}

(***************************************************************************)
(* The handlers and the stores keep the promise of AuthorizationGrants:    *)
(* however many handlers find a code before one of them consumes it, it is *)
(* redeemed once; the token goes to the client, redirect URI and user it   *)
(* was granted for, against the verifier of the grant's challenge; and     *)
(* cleaning up never costs a client a code that has not expired.           *)
(***************************************************************************)
ImplementsGrants == Grants!GrantsSpec

\* A code saved after c for its client and nonce, with an earlier expiry.
Outrun(c) ==
  \E d \in Codes :
    /\ d > c /\ granted[d] # None
    /\ granted[d].client_id = granted[c].client_id /\ granted[d].nonce = granted[c].nonce
    /\ granted[d].expires_at < granted[c].expires_at

(***************************************************************************)
(* As long as a code could still be used, whether or not it was, its nonce *)
(* is known: has_nonce refuses a replay even after the code is consumed,   *)
(* whatever was cleaned up and whichever codes were saved under the nonce  *)
(* meanwhile.  The one exception is Outrun: two overlapping requests with  *)
(* one nonce, of which the code issued first is saved last, leave the      *)
(* nonce with the earlier expiry.                                          *)
(***************************************************************************)
NoncesOutliveCodes ==
  \A c \in Codes :
    granted[c] # None /\ ~Expired(granted[c], now) /\ ~Outrun(c) =>
      HasNonce(granted[c].client_id, granted[c].nonce)

(***************************************************************************)
(* Rotation keeps what it replaces: the key that signed an ID token and    *)
(* the key the token names stay published through every later rotation,    *)
(* also when the rotation came while the token was being made.             *)
(***************************************************************************)
IdTokensNamePublishedKeys ==
  \A t \in id_tokens : {t.kid, t.key} \subseteq public_jwks

(***************************************************************************)
(* "RS256, public JWKS, kid", and keys retained "for validation during     *)
(* rotation": an ID token verifies under the published key it names.       *)
(***************************************************************************)
IdTokensVerify ==
  \A t \in id_tokens : t.kid = t.key
=============================================================================
