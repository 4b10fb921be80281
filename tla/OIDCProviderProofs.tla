------------------------- MODULE OIDCProviderProofs -------------------------
(***************************************************************************)
(* The provider's stores and handlers keep the promise of                  *)
(* AuthorizationGrants, and nonces and keys are kept long enough, for any  *)
(* number of handlers, users, clients and codes, any lifetimes and any     *)
(* clock.                                                                  *)
(***************************************************************************)
EXTENDS OIDCProvider, SequenceTheorems, TLAPS

\* What is in the code store was granted, under the numbers given out so far.
CodesAsGranted == \A c \in Codes : codes[c] # None => codes[c] = granted[c]

GrantsSaved == \A c \in Codes : granted[c] # None <=> c <= saved

\* The nonce of a code that could still be used is kept until the code expires,
\* unless a later save left it with an earlier expiry.
NoncesKept ==
  \A c \in Codes :
    granted[c] # None /\ now < granted[c].expires_at /\ ~Outrun(c) =>
      /\ nonce_expiry[<<granted[c].client_id, granted[c].nonce>>] # None
      /\ granted[c].expires_at <= nonce_expiry[<<granted[c].client_id, granted[c].nonce>>]

StoreInv ==
  /\ now \in Time
  /\ codes \in [Codes -> AuthorizationCode \cup {None}]
  /\ nonce_expiry \in [Clients \X Nonces -> Nat \cup {None}]
  /\ saved \in 0 .. MaxCodes
  /\ granted \in [Codes -> AuthorizationCode \cup {None}]
  /\ CodesAsGranted
  /\ GrantsSaved
  /\ NoncesKept

\* What handlers that authorize, and handlers that exchange a code, know.
AuthorizationsOK ==
  \A w \in Workers :
    workers[w].step \in {"reauthenticate", "consent", "save"} =>
      /\ workers[w].client_id \in Clients /\ workers[w].redirect_uri \in Redirects
      /\ workers[w].nonce \in Nonces /\ workers[w].code_challenge \in Challenges
      /\ workers[w].user \in Users

ExchangesOK ==
  \A w \in Workers :
    workers[w].step \in {"consume", "issue", "id_token", "sign"} =>
      /\ workers[w].code \in Codes /\ workers[w].code <= saved
      /\ workers[w].client_id \in Clients /\ workers[w].redirect_uri \in Redirects
      /\ workers[w].code_verifier \in Verifiers

\* Whoever consumed a code proved to be the client it was granted to.
Proved(r, grant) ==
  /\ grant.client_id = r.client_id
  /\ grant.redirect_uri = r.redirect_uri
  /\ grant.code_challenge = S256(r.code_verifier)

HoldersProved ==
  \A w \in Workers :
    workers[w].step = "issue" =>
      /\ codes[workers[w].code] = None
      /\ Proved(workers[w], granted[workers[w].code])

\* Two handlers never hold the same consumed code.
HoldersApart ==
  \A v, w \in Workers :
    workers[v].step = "issue" /\ workers[w].step = "issue" /\ v # w
      => workers[v].code # workers[w].code

WorkersInv ==
  /\ workers \in [Workers -> Request]
  /\ AuthorizationsOK
  /\ ExchangesOK
  /\ HoldersProved
  /\ HoldersApart

\* The key a handler has read is published.
ReadKeysPublished ==
  \A w \in Workers : workers[w].step = "sign" => workers[w].key \in public_jwks

KeysInv ==
  /\ keys \in Seq(1 .. MaxKeys) /\ keys # <<>>
  /\ id_tokens \subseteq [kid : 1 .. MaxKeys, key : 1 .. MaxKeys]
  /\ ReadKeysPublished
  /\ IdTokensNamePublishedKeys

\* The inductive invariant.
IInv ==
  /\ active \in [Users -> BOOLEAN]
  /\ tokens \in Seq(TokenRecord)
  /\ StoreInv
  /\ WorkersInv
  /\ KeysInv

-----------------------------------------------------------------------------
\* The idle request is a request.
LEMMA IdleRequest == Idle \in Request /\ Idle.step = "idle"
BY ProviderAssumption DEF Idle, Request, Steps, Codes, Time

\* The invariant gives every variable its type.
LEMMA InvTypes == IInv => TypeOK
BY DEF IInv, TypeOK, StoreInv, WorkersInv, KeysInv

\* The initial states satisfy the invariant.
LEMMA InitInv == Init => IInv
<1> SUFFICES ASSUME Init PROVE IInv
  OBVIOUS
<1>1. active \in [Users -> BOOLEAN] /\ tokens \in Seq(TokenRecord)
  BY EmptySeq DEF Init
<1>2. StoreInv
  BY ProviderAssumption
  DEF Init, StoreInv, CodesAsGranted, GrantsSaved, NoncesKept, Time, Codes
<1>3. WorkersInv
  BY IdleRequest
  DEF Init, WorkersInv, AuthorizationsOK, ExchangesOK, HoldersProved, HoldersApart
<1>4. KeysInv
  <2>1. keys \in Seq(1 .. MaxKeys) /\ keys # <<>>
    BY ProviderAssumption DEF Init
  <2> QED
    BY <2>1, IdleRequest DEF Init, KeysInv, ReadKeysPublished, IdTokensNamePublishedKeys
<1> QED
  BY <1>1, <1>2, <1>3, <1>4 DEF IInv

\* A store call may drop codes, and nonces whose time has passed.
LEMMA StoreShrinks ==
  ASSUME IInv, UNCHANGED <<now, saved, granted>>,
         codes' \in [Codes -> AuthorizationCode \cup {None}],
         nonce_expiry' \in [Clients \X Nonces -> Nat \cup {None}],
         \A c \in Codes : codes'[c] = codes[c] \/ codes'[c] = None,
         \A n \in Clients \X Nonces :
           nonce_expiry[n] # None /\ nonce_expiry'[n] # nonce_expiry[n]
             => nonce_expiry[n] <= now
  PROVE  StoreInv'
<1>1. CodesAsGranted' /\ GrantsSaved'
  BY DEF IInv, StoreInv, CodesAsGranted, GrantsSaved
<1>2. NoncesKept'
  <2>0. \A c \in Codes : Outrun(c)' <=> Outrun(c)
    BY DEF Outrun
  <2> SUFFICES ASSUME NEW c \in Codes, granted[c] # None, now < granted[c].expires_at, ~Outrun(c)
               PROVE  LET n == <<granted[c].client_id, granted[c].nonce>>
                      IN  nonce_expiry'[n] # None /\ granted[c].expires_at <= nonce_expiry'[n]
    BY <2>0 DEF NoncesKept
  <2> DEFINE n == <<granted[c].client_id, granted[c].nonce>>
  <2>1. granted[c] \in AuthorizationCode
    BY DEF IInv, StoreInv
  <2>2. n \in Clients \X Nonces /\ granted[c].expires_at \in Nat
    BY <2>1 DEF AuthorizationCode
  <2>3. nonce_expiry[n] # None /\ granted[c].expires_at <= nonce_expiry[n]
    BY DEF IInv, StoreInv, NoncesKept
  <2>4. nonce_expiry[n] \in Nat /\ now \in Nat
    BY <2>2, <2>3, ProviderAssumption DEF IInv, StoreInv, Time
  <2>5. nonce_expiry'[n] = nonce_expiry[n]
    BY <2>2, <2>3, <2>4
  <2> QED
    BY <2>3, <2>5
<1> QED
  BY <1>1, <1>2 DEF IInv, StoreInv

\* What a cleanup leaves of the stores.
LEMMA CleanupShrinks ==
  ASSUME IInv, NEW time \in Nat, time <= now
  PROVE  /\ CodesAfterCleanup(time) \in [Codes -> AuthorizationCode \cup {None}]
         /\ NoncesAfterCleanup(time) \in [Clients \X Nonces -> Nat \cup {None}]
         /\ \A c \in Codes :
              CodesAfterCleanup(time)[c] = codes[c] \/ CodesAfterCleanup(time)[c] = None
         /\ \A n \in Clients \X Nonces :
              nonce_expiry[n] # None /\ NoncesAfterCleanup(time)[n] # nonce_expiry[n]
                => nonce_expiry[n] <= now
<1>1. codes \in [Codes -> AuthorizationCode \cup {None}]
  BY DEF IInv, StoreInv
<1>2. nonce_expiry \in [Clients \X Nonces -> Nat \cup {None}] /\ now \in Nat
  BY ProviderAssumption DEF IInv, StoreInv, Time
<1>3. \A n \in Clients \X Nonces :
        nonce_expiry[n] # None /\ NoncesAfterCleanup(time)[n] # nonce_expiry[n]
          => nonce_expiry[n] <= now
  BY <1>2 DEF NoncesAfterCleanup
<1> QED
  BY <1>1, <1>2, <1>3 DEF CodesAfterCleanup, NoncesAfterCleanup

\* has_nonce on the way leaves every nonce that is still known.
LEMMA CheckNonceShrinks ==
  ASSUME IInv, NEW client \in Clients, NEW nonce \in Nonces, CheckNonce(client, nonce)
  PROVE  /\ nonce_expiry' \in [Clients \X Nonces -> Nat \cup {None}]
         /\ \A n \in Clients \X Nonces :
              nonce_expiry[n] # None /\ nonce_expiry'[n] # nonce_expiry[n]
                => nonce_expiry[n] <= now
<1> DEFINE m == <<client, nonce>>
<1>1. nonce_expiry \in [Clients \X Nonces -> Nat \cup {None}] /\ now \in Nat
  BY ProviderAssumption DEF IInv, StoreInv, Time
<1>2. nonce_expiry' = [nonce_expiry EXCEPT ![m] =
                         IF HasNonce(client, nonce) THEN nonce_expiry[m] ELSE None]
  BY DEF CheckNonce
<1>3. m \in Clients \X Nonces
  OBVIOUS
<1>4. nonce_expiry' \in [Clients \X Nonces -> Nat \cup {None}]
  BY <1>1, <1>2, <1>3
<1>5. ASSUME NEW n \in Clients \X Nonces, nonce_expiry[n] # None,
             nonce_expiry'[n] # nonce_expiry[n]
      PROVE  nonce_expiry[n] <= now
  <2>1. n = m /\ ~HasNonce(client, nonce)
    BY <1>1, <1>2, <1>3, <1>5
  <2> QED
    BY <1>1, <1>5, <2>1 DEF HasNonce
<1> QED
  BY <1>4, <1>5

\* Saving a code: the nonces of the codes saved before that it does not outrun are kept.
LEMMA SaveKeepsStore ==
  ASSUME IInv, NEW code \in AuthorizationCode, SaveCode(code), now' = now
  PROVE  StoreInv'
<1> DEFINE n == <<code.client_id, code.nonce>>
<1> DEFINE expiry == IF code.expires_at > now + 1 THEN code.expires_at ELSE now + 1
<1> DEFINE kept == NoncesAfterCleanup(now)
<1> DEFINE left == CodesAfterCleanup(now)
<1>1. now \in Nat /\ now \in Time /\ MaxCodes \in Nat
  BY ProviderAssumption DEF IInv, StoreInv, Time
<1>2. saved \in 0 .. MaxCodes /\ saved' = saved + 1 /\ saved + 1 \in Codes
  BY <1>1 DEF IInv, StoreInv, SaveCode, Codes
<1>3. /\ n \in Clients \X Nonces /\ code.expires_at \in Nat
      /\ expiry \in Nat /\ expiry # None /\ expiry >= code.expires_at
  BY <1>1, ProviderAssumption DEF AuthorizationCode
<1>4. /\ left \in [Codes -> AuthorizationCode \cup {None}]
      /\ kept \in [Clients \X Nonces -> Nat \cup {None}]
      /\ \A c \in Codes : left[c] = codes[c] \/ left[c] = None
      /\ \A m \in Clients \X Nonces :
           nonce_expiry[m] # None /\ kept[m] # nonce_expiry[m] => nonce_expiry[m] <= now
  <2>1. now <= now
    BY <1>1
  <2> QED
    BY <1>1, <2>1, CleanupShrinks
<1>5. nonce_expiry' = [kept EXCEPT ![n] = expiry]
  BY DEF SaveCode
<1>6. codes' = [left EXCEPT ![saved + 1] = code] /\ granted' = [granted EXCEPT ![saved + 1] = code]
  BY DEF SaveCode
<1>7. granted \in [Codes -> AuthorizationCode \cup {None}]
  BY DEF IInv, StoreInv
<1> HIDE DEF n, kept, left, expiry
<1>8. /\ codes' \in [Codes -> AuthorizationCode \cup {None}]
      /\ granted' \in [Codes -> AuthorizationCode \cup {None}]
      /\ nonce_expiry' \in [Clients \X Nonces -> Nat \cup {None}]
  BY <1>2, <1>3, <1>4, <1>5, <1>6, <1>7
<1>9. CodesAsGranted'
  BY <1>2, <1>4, <1>6, <1>7 DEF CodesAsGranted, IInv, StoreInv
<1>10. GrantsSaved'
  <2> SUFFICES ASSUME NEW c \in Codes PROVE granted'[c] # None <=> c <= saved'
    BY DEF GrantsSaved
  <2>1. CASE c = saved + 1
    BY <1>1, <1>2, <1>6, <1>7, <2>1, CodeAssumption DEF Codes
  <2>2. CASE c # saved + 1
    BY <1>1, <1>2, <1>6, <1>7, <2>2 DEF Codes, IInv, StoreInv, GrantsSaved
  <2> QED
    BY <2>1, <2>2
<1>11. NoncesKept'
  <2> SUFFICES ASSUME NEW c \in Codes, granted'[c] # None, now < granted'[c].expires_at,
                      ~Outrun(c)'
               PROVE  LET m == <<granted'[c].client_id, granted'[c].nonce>>
                      IN  nonce_expiry'[m] # None /\ granted'[c].expires_at <= nonce_expiry'[m]
    BY DEF NoncesKept
  <2> DEFINE m == <<granted'[c].client_id, granted'[c].nonce>>
  <2>1. granted'[saved + 1] = code /\ code # None
    BY <1>2, <1>6, <1>7, CodeAssumption
  <2>2. CASE c = saved + 1
    <3>1. m = n /\ nonce_expiry'[n] = expiry
      BY <1>3, <1>4, <1>5, <2>1, <2>2 DEF n
    <3> QED
      BY <1>3, <2>1, <2>2, <3>1
  <2>3. CASE c # saved + 1
    <3>1. granted'[c] = granted[c] /\ c <= saved
      BY <1>1, <1>2, <1>6, <1>7, <2>3 DEF IInv, StoreInv, GrantsSaved
    <3>2. granted[c] \in AuthorizationCode /\ granted[c] # None
      BY <1>7, <3>1
    <3>3. m \in Clients \X Nonces /\ granted[c].expires_at \in Nat
      BY <3>1, <3>2 DEF AuthorizationCode
    <3>4. \A d \in Codes : granted[d] # None => granted'[d] = granted[d]
      BY <1>1, <1>2, <1>6, <1>7 DEF IInv, StoreInv, GrantsSaved
    <3>5. ~Outrun(c)
      BY <3>1, <3>2, <3>4 DEF Outrun
    <3>6. nonce_expiry[m] # None /\ granted[c].expires_at <= nonce_expiry[m]
      BY <3>1, <3>2, <3>5 DEF IInv, StoreInv, NoncesKept
    <3>7. nonce_expiry[m] \in Nat
      BY <3>3, <3>6 DEF IInv, StoreInv
    <3>8. kept[m] = nonce_expiry[m]
      BY <1>1, <1>4, <3>1, <3>3, <3>6, <3>7
    <3>9. nonce_expiry'[m] = IF m = n THEN expiry ELSE kept[m]
      BY <1>3, <1>4, <1>5, <3>3
    <3>10. m = n => granted[c].expires_at <= code.expires_at
      <4>1. c \in Nat /\ c <= saved /\ saved + 1 \in Codes /\ saved + 1 > c
        BY <1>1, <1>2, <3>1 DEF Codes
      <4>2. m = n => code.client_id = granted[c].client_id /\ code.nonce = granted[c].nonce
        BY <3>1 DEF n
      <4>3. m = n => ~(code.expires_at < granted[c].expires_at)
        BY <2>1, <3>1, <4>1, <4>2 DEF Outrun
      <4> QED
        BY <1>3, <3>3, <4>3
    <3>11. nonce_expiry'[m] # None /\ granted[c].expires_at <= nonce_expiry'[m]
      <4> HIDE DEF m
      <4>1. CASE m = n
        BY <1>3, <3>3, <3>9, <3>10, <4>1
      <4>2. CASE m # n
        BY <3>6, <3>8, <3>9, <4>2
      <4> QED
        BY <4>1, <4>2
    <3> QED
      BY <3>1, <3>11
  <2> QED
    BY <2>2, <2>3
<1>12. saved' \in 0 .. MaxCodes /\ now' \in Time
  BY <1>1, <1>2 DEF Codes
<1> QED
  BY <1>8, <1>9, <1>10, <1>11, <1>12 DEF StoreInv

\* One handler moves on: what it then knows is right, and the others lose nothing.
LEMMA HandlerMoves ==
  ASSUME IInv, NEW w \in Workers, NEW r \in Request,
         workers' = [workers EXCEPT ![w] = r],
         saved' \in Nat, saved <= saved',
         \A c \in Codes : c <= saved =>
           granted'[c] = granted[c] /\ (codes[c] = None => codes'[c] = None),
         r.step \in {"reauthenticate", "consent", "save"} =>
           /\ r.client_id \in Clients /\ r.redirect_uri \in Redirects
           /\ r.nonce \in Nonces /\ r.code_challenge \in Challenges /\ r.user \in Users,
         r.step \in {"consume", "issue", "id_token", "sign"} =>
           /\ r.code \in Codes /\ r.code <= saved
           /\ r.client_id \in Clients /\ r.redirect_uri \in Redirects
           /\ r.code_verifier \in Verifiers,
         r.step = "issue" =>
           /\ codes'[r.code] = None
           /\ Proved(r, granted[r.code])
           /\ \A v \in Workers \ {w} : workers[v].step = "issue" => workers[v].code # r.code
  PROVE  WorkersInv'
<1>1. /\ workers \in [Workers -> Request] /\ saved \in Nat
      /\ AuthorizationsOK /\ ExchangesOK /\ HoldersProved /\ HoldersApart
  BY ProviderAssumption DEF IInv, WorkersInv, StoreInv
<1>2. /\ workers'[w] = r
      /\ \A v \in Workers : v # w => workers'[v] = workers[v]
      /\ workers' \in [Workers -> Request]
  BY <1>1
<1>3. AuthorizationsOK'
  <2> SUFFICES ASSUME NEW v \in Workers, workers'[v].step \in {"reauthenticate", "consent", "save"}
               PROVE  /\ workers'[v].client_id \in Clients /\ workers'[v].redirect_uri \in Redirects
                      /\ workers'[v].nonce \in Nonces /\ workers'[v].code_challenge \in Challenges
                      /\ workers'[v].user \in Users
    BY DEF AuthorizationsOK
  <2> QED
    BY <1>1, <1>2 DEF AuthorizationsOK
<1>4. ASSUME NEW v \in Workers, workers'[v].step \in {"consume", "issue", "id_token", "sign"}
      PROVE  /\ workers'[v].code \in Codes /\ workers'[v].code <= saved
             /\ workers'[v].client_id \in Clients /\ workers'[v].redirect_uri \in Redirects
             /\ workers'[v].code_verifier \in Verifiers
  BY <1>1, <1>2, <1>4 DEF ExchangesOK
<1>5. ExchangesOK'
  <2>1. \A c \in Codes : c <= saved => c <= saved'
    BY <1>1, ProviderAssumption DEF Codes
  <2> QED
    BY <1>4, <2>1 DEF ExchangesOK
<1>6. HoldersProved'
  <2> SUFFICES ASSUME NEW v \in Workers, workers'[v].step = "issue"
               PROVE  /\ codes'[workers'[v].code] = None
                      /\ Proved(workers'[v], granted'[workers'[v].code])
    BY DEF HoldersProved, Proved
  <2>1. workers'[v].code \in Codes /\ workers'[v].code <= saved
    BY <1>4
  <2>2. granted'[workers'[v].code] = granted[workers'[v].code]
    BY <2>1
  <2>3. codes'[workers'[v].code] = None /\ Proved(workers'[v], granted[workers'[v].code])
    <3>1. CASE v = w
      BY <1>2, <3>1
    <3>2. CASE v # w
      BY <1>1, <1>2, <2>1, <3>2 DEF HoldersProved
    <3> QED
      BY <3>1, <3>2
  <2> QED
    BY <2>2, <2>3
<1>7. HoldersApart'
  BY <1>1, <1>2 DEF HoldersApart
<1> QED
  BY <1>2, <1>3, <1>5, <1>6, <1>7 DEF WorkersInv

\* A handler that moves reads no key and signs nothing.
LEMMA KeysKept ==
  ASSUME IInv, UNCHANGED <<keys, id_tokens>>,
         \A v \in Workers : workers'[v].step = "sign" =>
           workers[v].step = "sign" /\ workers'[v].key = workers[v].key
  PROVE  KeysInv'
<1>1. public_jwks' = public_jwks
  BY DEF public_jwks
<1> QED
  BY <1>1 DEF IInv, KeysInv, ReadKeysPublished, IdTokensNamePublishedKeys

\* A handler that is done leaves the others as they were.
LEMMA Finished ==
  ASSUME IInv, NEW w \in Workers, Finish(w), saved' \in Nat, saved <= saved',
         \A c \in Codes : c <= saved =>
           granted'[c] = granted[c] /\ (codes[c] = None => codes'[c] = None)
  PROVE  /\ WorkersInv'
         /\ UNCHANGED <<keys, id_tokens>> => KeysInv'
<1>1. workers' = [workers EXCEPT ![w] = Idle] /\ workers \in [Workers -> Request]
  BY DEF Finish, IInv, WorkersInv
<1>2. WorkersInv'
  BY <1>1, IdleRequest, HandlerMoves
<1>3. \A v \in Workers : workers'[v].step = "sign" =>
        workers[v].step = "sign" /\ workers'[v].key = workers[v].key
  BY <1>1, IdleRequest
<1> QED
  BY <1>2, <1>3, KeysKept

\* No store call: the store's part of the invariant stays.
LEMMA StoreUntouched ==
  ASSUME IInv, UNCHANGED <<now, codes, nonce_expiry, saved, granted>>
  PROVE  StoreInv'
BY DEF IInv, StoreInv, CodesAsGranted, GrantsSaved, NoncesKept, Outrun

\* The requests a handler can be given.
LEMMA AuthorizationRequest ==
  ASSUME NEW u \in Users, NEW r \in Authorizations(u)
  PROVE  /\ r \in Request /\ r.step \in {"reauthenticate", "consent"} /\ r.user = u
         /\ r.client_id \in Clients /\ r.redirect_uri \in Redirects
         /\ r.nonce \in Nonces /\ r.code_challenge \in Challenges
BY ProviderAssumption DEF Authorizations, Request, Steps, Time

\* The codes a client can present are those saved so far.
LEMMA ExchangeRequest ==
  ASSUME IInv, NEW r \in Exchanges
  PROVE  /\ r \in Request /\ r.step = "consume" /\ r.code \in Codes /\ r.code <= saved
         /\ r.client_id \in Clients /\ r.redirect_uri \in Redirects
         /\ r.code_verifier \in Verifiers
<1>1. now \in Time /\ saved \in 0 .. MaxCodes /\ 0 \in 0 .. MaxKeys
  BY ProviderAssumption DEF IInv, StoreInv
<1>2. 1 .. saved \subseteq Codes
  BY <1>1, ProviderAssumption DEF Codes
<1> QED
  BY <1>1, <1>2, ProviderAssumption DEF Exchanges, Request, Steps

\* A new authorization request: has_nonce forgets no nonce that is still known.
LEMMA StartAuthorizationInv ==
  ASSUME IInv, NEW w \in Workers, NEW u \in Users, NEW r \in Authorizations(u),
         StartAuthorization(w, u, r)
  PROVE  IInv'
<1>1. /\ CheckNonce(r.client_id, r.nonce)
      /\ UNCHANGED <<now, active, codes, saved, tokens, keys, id_tokens, granted>>
      /\ Finish(w) \/ workers' = [workers EXCEPT ![w] = r]
  BY DEF StartAuthorization
<1>2. StoreInv'
  <2>1. codes' \in [Codes -> AuthorizationCode \cup {None}]
    BY <1>1 DEF IInv, StoreInv
  <2>2. /\ nonce_expiry' \in [Clients \X Nonces -> Nat \cup {None}]
        /\ \A n \in Clients \X Nonces :
             nonce_expiry[n] # None /\ nonce_expiry'[n] # nonce_expiry[n]
               => nonce_expiry[n] <= now
    BY <1>1, AuthorizationRequest, CheckNonceShrinks
  <2> QED
    BY <1>1, <2>1, <2>2, StoreShrinks
<1>3. saved \in Nat /\ saved' \in Nat /\ saved <= saved'
  BY <1>1, ProviderAssumption DEF IInv, StoreInv
<1>4. WorkersInv' /\ KeysInv'
  <2>1. CASE Finish(w)
    BY <1>1, <1>3, <2>1, Finished
  <2>2. CASE workers' = [workers EXCEPT ![w] = r]
    <3>1. WorkersInv'
      BY <1>1, <1>3, <2>2, AuthorizationRequest, HandlerMoves
    <3>2. \A v \in Workers : workers'[v].step = "sign" =>
            workers[v].step = "sign" /\ workers'[v].key = workers[v].key
      BY <2>2, AuthorizationRequest DEF IInv, WorkersInv
    <3> QED
      BY <1>1, <3>1, <3>2, KeysKept
  <2> QED
    BY <1>1, <2>1, <2>2
<1> QED
  BY <1>1, <1>2, <1>4 DEF IInv

\* The host answers with a user, or the request is over.
LEMMA ReauthenticateInv ==
  ASSUME IInv, NEW w \in Workers, Reauthenticate(w)
  PROVE  IInv'
<1>1. /\ workers[w].step = "reauthenticate"
      /\ UNCHANGED <<now, active, codes, nonce_expiry, saved, tokens, keys, id_tokens, granted>>
  BY DEF Reauthenticate
<1>2. StoreInv'
  BY <1>1, StoreUntouched
<1>3. saved \in Nat /\ saved' \in Nat /\ saved <= saved'
  BY <1>1, ProviderAssumption DEF IInv, StoreInv
<1>4. WorkersInv' /\ KeysInv'
  <2>1. CASE Finish(w)
    BY <1>1, <1>3, <2>1, Finished
  <2>2. ASSUME NEW u \in Users,
               workers' = [workers EXCEPT ![w].user = u, ![w].step = "consent"]
        PROVE  WorkersInv' /\ KeysInv'
    <3> DEFINE r == [workers[w] EXCEPT !.user = u, !.step = "consent"]
    <3>1. workers \in [Workers -> Request] /\ workers[w] \in Request
      BY DEF IInv, WorkersInv
    <3>2. workers' = [workers EXCEPT ![w] = r]
      BY <2>2, <3>1
    <3>3. /\ r \in Request /\ r.step = "consent" /\ r.user = u
          /\ r.client_id = workers[w].client_id /\ r.redirect_uri = workers[w].redirect_uri
          /\ r.nonce = workers[w].nonce /\ r.code_challenge = workers[w].code_challenge
      BY <3>1 DEF Request, Steps
    <3>4. /\ workers[w].client_id \in Clients /\ workers[w].redirect_uri \in Redirects
          /\ workers[w].nonce \in Nonces /\ workers[w].code_challenge \in Challenges
      BY <1>1 DEF IInv, WorkersInv, AuthorizationsOK
    <3> HIDE DEF r
    <3>5. WorkersInv'
      BY <1>1, <1>3, <3>2, <3>3, <3>4, HandlerMoves
    <3>6. \A v \in Workers : workers'[v].step = "sign" =>
            workers[v].step = "sign" /\ workers'[v].key = workers[v].key
      BY <3>1, <3>2, <3>3
    <3> QED
      BY <1>1, <3>5, <3>6, KeysKept
  <2> QED
    BY <2>1, <2>2 DEF Reauthenticate
<1> QED
  BY <1>1, <1>2, <1>4 DEF IInv

\* With consent the handler goes on to save a code, or the request is over.
LEMMA DecideInv ==
  ASSUME IInv, NEW w \in Workers, Decide(w)
  PROVE  IInv'
<1> DEFINE r == [workers[w] EXCEPT !.step = "save", !.at = now]
<1>1. /\ workers[w].step = "consent"
      /\ UNCHANGED <<now, active, codes, nonce_expiry, saved, tokens, keys, id_tokens, granted>>
      /\ Finish(w) \/ workers' = [workers EXCEPT ![w].step = "save", ![w].at = now]
  BY DEF Decide
<1>2. StoreInv'
  BY <1>1, StoreUntouched
<1>3. /\ workers \in [Workers -> Request] /\ workers[w] \in Request /\ now \in Time
      /\ saved \in Nat /\ saved' \in Nat /\ saved <= saved'
  BY <1>1, ProviderAssumption DEF IInv, StoreInv, WorkersInv
<1>4. WorkersInv' /\ KeysInv'
  <2>1. CASE Finish(w)
    BY <1>1, <1>3, <2>1, Finished
  <2>2. CASE workers' = [workers EXCEPT ![w].step = "save", ![w].at = now]
    <3>1. workers' = [workers EXCEPT ![w] = r]
      BY <1>3, <2>2
    <3>2. /\ r \in Request /\ r.step = "save" /\ r.user = workers[w].user
          /\ r.client_id = workers[w].client_id /\ r.redirect_uri = workers[w].redirect_uri
          /\ r.nonce = workers[w].nonce /\ r.code_challenge = workers[w].code_challenge
      BY <1>3 DEF Request, Steps
    <3>3. /\ workers[w].client_id \in Clients /\ workers[w].redirect_uri \in Redirects
          /\ workers[w].nonce \in Nonces /\ workers[w].code_challenge \in Challenges
          /\ workers[w].user \in Users
      BY <1>1 DEF IInv, WorkersInv, AuthorizationsOK
    <3> HIDE DEF r
    <3>4. WorkersInv'
      BY <1>1, <1>3, <3>1, <3>2, <3>3, HandlerMoves
    <3>5. \A v \in Workers : workers'[v].step = "sign" =>
            workers[v].step = "sign" /\ workers'[v].key = workers[v].key
      BY <1>3, <3>1, <3>2
    <3> QED
      BY <1>1, <3>4, <3>5, KeysKept
  <2> QED
    BY <1>1, <2>1, <2>2
<1> QED
  BY <1>1, <1>2, <1>4 DEF IInv

\* The code a handler saves, issued with a clock that may be late.
CodeOf(r, issued) ==
  [client_id |-> r.client_id, redirect_uri |-> r.redirect_uri,
   subject |-> r.user, nonce |-> r.nonce, code_challenge |-> r.code_challenge,
   expires_at |-> issued + CodeLifetime]

\* What a handler saves is a code.
LEMMA IssuedCode ==
  ASSUME IInv, NEW w \in Workers, IssueCode(w)
  PROVE  /\ workers[w].step = "save" /\ Finish(w)
         /\ UNCHANGED <<now, active, tokens, keys, id_tokens>>
         /\ \E code \in AuthorizationCode : SaveCode(code)
<1> DEFINE r == workers[w]
<1>1. PICK issued \in r.at .. now : SaveCode(CodeOf(r, issued))
  BY DEF IssueCode, CodeOf
<1>2. r.step = "save" /\ r \in Request
  BY DEF IssueCode, IInv, WorkersInv
<1>3. issued \in Nat /\ issued + CodeLifetime \in Nat
  <2>1. r.at \in Nat /\ now \in Nat /\ CodeLifetime \in Nat
    BY <1>2, ProviderAssumption DEF Request, Time, IInv, StoreInv
  <2> QED
    BY <2>1
<1>4. CodeOf(r, issued) \in AuthorizationCode
  BY <1>2, <1>3 DEF CodeOf, IInv, WorkersInv, AuthorizationsOK, AuthorizationCode
<1> QED
  BY <1>1, <1>4 DEF IssueCode

\* A code is saved for what the handler knows.
LEMMA IssueCodeInv ==
  ASSUME IInv, NEW w \in Workers, IssueCode(w)
  PROVE  IInv'
<1>1. /\ Finish(w)
      /\ UNCHANGED <<now, active, tokens, keys, id_tokens>>
  BY IssuedCode
<1>2. PICK code \in AuthorizationCode : SaveCode(code)
  BY IssuedCode
<1>3. StoreInv'
  BY <1>1, <1>2, SaveKeepsStore
<1>4. /\ saved \in Nat /\ codes \in [Codes -> AuthorizationCode \cup {None}]
      /\ granted \in [Codes -> AuthorizationCode \cup {None}]
  BY ProviderAssumption DEF IInv, StoreInv
<1>5. saved' \in Nat /\ saved <= saved'
  BY <1>2, <1>4 DEF SaveCode
<1>6. \A c \in Codes : c <= saved =>
        granted'[c] = granted[c] /\ (codes[c] = None => codes'[c] = None)
  BY <1>2, <1>4 DEF SaveCode, Codes, CodesAfterCleanup
<1>7. WorkersInv' /\ KeysInv'
  BY <1>1, <1>5, <1>6, Finished
<1> QED
  BY <1>1, <1>3, <1>7 DEF IInv

\* Looking for a code cleans up the stores.
LEMMA StartExchangeInv ==
  ASSUME IInv, NEW w \in Workers, NEW r \in Exchanges, StartExchange(w, r)
  PROVE  IInv'
<1>1. /\ Cleanup(now)
      /\ Finish(w) \/ workers' = [workers EXCEPT ![w] = r]
      /\ UNCHANGED <<now, active, saved, tokens, keys, id_tokens, granted>>
  BY DEF StartExchange
<1>2. now \in Nat /\ now <= now
  BY ProviderAssumption DEF IInv, StoreInv, Time
<1>3. StoreInv' /\ \A c \in Codes : codes'[c] = codes[c] \/ codes'[c] = None
  BY <1>1, <1>2, CleanupShrinks, StoreShrinks DEF Cleanup
<1>4. saved \in Nat /\ saved' \in Nat /\ saved <= saved'
  BY <1>1, ProviderAssumption DEF IInv, StoreInv
<1>5. WorkersInv' /\ KeysInv'
  <2>1. CASE Finish(w)
    BY <1>1, <1>3, <1>4, <2>1, Finished
  <2>2. CASE workers' = [workers EXCEPT ![w] = r]
    <3>1. WorkersInv'
      BY <1>1, <1>3, <1>4, <2>2, ExchangeRequest, HandlerMoves
    <3>2. \A v \in Workers : workers'[v].step = "sign" =>
            workers[v].step = "sign" /\ workers'[v].key = workers[v].key
      BY <2>2, ExchangeRequest DEF IInv, WorkersInv
    <3> QED
      BY <1>1, <3>1, <3>2, KeysKept
  <2> QED
    BY <1>1, <2>1, <2>2
<1> QED
  BY <1>1, <1>3, <1>5 DEF IInv

\* A handler that consumes a code proved to be the client, and finds it once.
LEMMA ConsumeInv ==
  ASSUME IInv, NEW w \in Workers, Consume(w)
  PROVE  IInv'
<1> DEFINE r == workers[w]
<1>1. /\ r.step = "consume"
      /\ UNCHANGED <<now, active, saved, tokens, keys, id_tokens, granted>>
  BY DEF Consume
<1>2. PICK time \in r.at .. now :
        \/ /\ Redeemable(r, time)
           /\ Removed(r, time)
           /\ workers' = [workers EXCEPT ![w].step = "issue"]
        \/ /\ ~Redeemable(r, time)
           /\ Cleanup(time)
           /\ Finish(w)
  BY DEF Consume
<1>3. /\ workers \in [Workers -> Request] /\ r \in Request
      /\ codes \in [Codes -> AuthorizationCode \cup {None}]
      /\ saved \in Nat /\ saved' \in Nat /\ saved <= saved'
  BY <1>1, ProviderAssumption DEF IInv, StoreInv, WorkersInv
<1>4. now \in Nat /\ time \in Nat /\ time <= now
  <2>1. r.at \in Nat /\ now \in Nat
    BY <1>3, ProviderAssumption DEF Request, Time, IInv, StoreInv
  <2> QED
    BY <1>2, <2>1
<1>5. /\ CodesAfterCleanup(time) \in [Codes -> AuthorizationCode \cup {None}]
      /\ NoncesAfterCleanup(time) \in [Clients \X Nonces -> Nat \cup {None}]
      /\ \A c \in Codes :
           CodesAfterCleanup(time)[c] = codes[c] \/ CodesAfterCleanup(time)[c] = None
      /\ \A n \in Clients \X Nonces :
           nonce_expiry[n] # None /\ NoncesAfterCleanup(time)[n] # nonce_expiry[n]
             => nonce_expiry[n] <= now
  BY <1>4, CleanupShrinks
<1>6. /\ r.code \in Codes /\ r.code <= saved
      /\ r.client_id \in Clients /\ r.redirect_uri \in Redirects
      /\ r.code_verifier \in Verifiers
  BY <1>1 DEF IInv, WorkersInv, ExchangesOK
<1>7. CASE Redeemable(r, time) /\ Removed(r, time)
             /\ workers' = [workers EXCEPT ![w].step = "issue"]
  <2> DEFINE q == [r EXCEPT !.step = "issue"]
  <2>1. /\ codes' = [CodesAfterCleanup(time) EXCEPT ![r.code] = None]
        /\ nonce_expiry' = NoncesAfterCleanup(time)
    BY <1>7 DEF Removed
  <2>2. /\ codes' \in [Codes -> AuthorizationCode \cup {None}] /\ codes'[r.code] = None
        /\ \A c \in Codes : codes'[c] = codes[c] \/ codes'[c] = None
    BY <1>5, <1>6, <2>1
  <2>3. StoreInv'
    BY <1>1, <1>5, <2>1, <2>2, StoreShrinks
  <2>4. workers' = [workers EXCEPT ![w] = q]
    BY <1>3, <1>7
  <2>5. /\ q \in Request /\ q.step = "issue" /\ q.code = r.code
        /\ q.client_id = r.client_id /\ q.redirect_uri = r.redirect_uri
        /\ q.code_verifier = r.code_verifier
    BY <1>3 DEF Request, Steps
  <2>6. codes[r.code] # None /\ Proved(r, granted[r.code])
    <3>1. /\ CodesAfterCleanup(time)[r.code] # None
          /\ CodesAfterCleanup(time)[r.code].client_id = r.client_id
          /\ CodesAfterCleanup(time)[r.code].redirect_uri = r.redirect_uri
          /\ CodesAfterCleanup(time)[r.code].code_challenge = S256(r.code_verifier)
      BY <1>7 DEF Redeemable
    <3>2. CodesAfterCleanup(time)[r.code] = codes[r.code]
      BY <1>5, <1>6, <3>1
    <3>3. codes[r.code] = granted[r.code]
      BY <1>6, <3>1, <3>2 DEF IInv, StoreInv, CodesAsGranted
    <3> QED
      BY <3>1, <3>2, <3>3 DEF Proved
  <2>7. \A v \in Workers \ {w} : workers[v].step = "issue" => workers[v].code # r.code
    BY <2>6 DEF IInv, WorkersInv, HoldersProved
  <2>8. Proved(q, granted[q.code])
    BY <2>5, <2>6 DEF Proved
  <2> HIDE DEF q
  <2>9. WorkersInv'
    BY <1>1, <1>3, <1>6, <2>2, <2>4, <2>5, <2>7, <2>8, HandlerMoves
  <2>10. KeysInv'
    <3>1. \A v \in Workers : workers'[v].step = "sign" =>
            workers[v].step = "sign" /\ workers'[v].key = workers[v].key
      BY <1>3, <2>4, <2>5
    <3> QED
      BY <1>1, <3>1, KeysKept
  <2> QED
    BY <1>1, <2>3, <2>9, <2>10 DEF IInv
<1>8. CASE Cleanup(time) /\ Finish(w)
  <2>1. codes' = CodesAfterCleanup(time) /\ nonce_expiry' = NoncesAfterCleanup(time)
    BY <1>8 DEF Cleanup
  <2>2. StoreInv'
    BY <1>1, <1>5, <2>1, StoreShrinks
  <2>3. WorkersInv' /\ KeysInv'
    BY <1>1, <1>3, <1>5, <1>8, <2>1, Finished
  <2> QED
    BY <1>1, <2>2, <2>3 DEF IInv
<1> QED
  BY <1>2, <1>7, <1>8

\* A token is saved for the user of the grant, and the handler no longer holds the code.
LEMMA IssueTokenInv ==
  ASSUME IInv, NEW w \in Workers, IssueToken(w)
  PROVE  IInv'
<1> DEFINE r == workers[w]
<1>1. /\ r.step = "issue"
      /\ UNCHANGED <<now, active, codes, nonce_expiry, saved, keys, id_tokens, granted>>
      /\ \/ Finish(w) /\ UNCHANGED tokens
         \/ /\ tokens' = Append(tokens, TokenOf(r))
            /\ workers' = [workers EXCEPT ![w].step = "id_token"]
  BY DEF IssueToken
<1>2. StoreInv'
  BY <1>1, StoreUntouched
<1>3. /\ workers \in [Workers -> Request] /\ r \in Request /\ tokens \in Seq(TokenRecord)
      /\ saved \in Nat /\ saved' \in Nat /\ saved <= saved'
  BY <1>1, ProviderAssumption DEF IInv, StoreInv, WorkersInv
<1>4. /\ r.code \in Codes /\ r.code <= saved
      /\ r.client_id \in Clients /\ r.redirect_uri \in Redirects
      /\ r.code_verifier \in Verifiers
  BY <1>1 DEF IInv, WorkersInv, ExchangesOK
<1>5. CASE Finish(w) /\ UNCHANGED tokens
  <2>1. WorkersInv' /\ KeysInv'
    BY <1>1, <1>3, <1>5, Finished
  <2> QED
    BY <1>1, <1>2, <1>3, <1>5, <2>1 DEF IInv
<1>6. CASE /\ tokens' = Append(tokens, TokenOf(r))
           /\ workers' = [workers EXCEPT ![w].step = "id_token"]
  <2> DEFINE q == [r EXCEPT !.step = "id_token"]
  <2>1. tokens' \in Seq(TokenRecord)
    <3>1. r.code # None /\ granted[r.code] # None
      BY <1>3, <1>4, ProviderAssumption DEF IInv, StoreInv, GrantsSaved, Codes
    <3>2. granted[r.code] \in AuthorizationCode
      BY <1>4, <3>1 DEF IInv, StoreInv
    <3>3. now + TokenLifetime \in Nat
      BY ProviderAssumption DEF IInv, StoreInv, Time
    <3>4. TokenOf(r) \in TokenRecord
      BY <1>4, <3>2, <3>3 DEF TokenOf, TokenRecord, AuthorizationCode
    <3> QED
      BY <1>3, <1>6, <3>4, AppendProperties
  <2>2. workers' = [workers EXCEPT ![w] = q]
    BY <1>3, <1>6
  <2>3. /\ q \in Request /\ q.step = "id_token" /\ q.code = r.code
        /\ q.client_id = r.client_id /\ q.redirect_uri = r.redirect_uri
        /\ q.code_verifier = r.code_verifier
    BY <1>3 DEF Request, Steps
  <2> HIDE DEF q
  <2>4. WorkersInv'
    BY <1>1, <1>3, <1>4, <2>2, <2>3, HandlerMoves
  <2>5. \A v \in Workers : workers'[v].step = "sign" =>
          workers[v].step = "sign" /\ workers'[v].key = workers[v].key
    BY <1>3, <2>2, <2>3
  <2> QED
    BY <1>1, <1>2, <2>1, <2>4, <2>5, KeysKept DEF IInv
<1> QED
  BY <1>1, <1>5, <1>6

\* The current key is one of those published.
LEMMA CurrentPublished ==
  ASSUME IInv
  PROVE  /\ current_private_key \in public_jwks
         /\ current_private_key \in 1 .. MaxKeys
         /\ public_jwks \subseteq 1 .. MaxKeys
<1>1. keys \in Seq(1 .. MaxKeys) /\ keys # <<>>
  BY DEF IInv, KeysInv
<1>2. Len(keys) \in Nat /\ Len(keys) # 0 /\ DOMAIN keys = 1 .. Len(keys)
  BY <1>1, EmptySeq, LenProperties
<1>3. 1 \in DOMAIN keys
  BY <1>2
<1>4. Head(keys) = keys[1]
  BY <1>1
<1>5. \A i \in DOMAIN keys : keys[i] \in 1 .. MaxKeys
  BY <1>1, <1>2, ElementOfSeq
<1> QED
  BY <1>3, <1>4, <1>5 DEF current_private_key, public_jwks

\* The handler reads a key that is published.
LEMMA ReadKeyInv ==
  ASSUME IInv, NEW w \in Workers, ReadKey(w)
  PROVE  IInv'
<1> DEFINE r == workers[w]
<1> DEFINE q == [r EXCEPT !.key = current_private_key, !.step = "sign"]
<1>1. /\ r.step = "id_token"
      /\ UNCHANGED <<now, active, codes, nonce_expiry, saved, tokens, keys, id_tokens, granted>>
      /\ workers' = [workers EXCEPT ![w].key = current_private_key, ![w].step = "sign"]
  BY DEF ReadKey
<1>2. StoreInv'
  BY <1>1, StoreUntouched
<1>3. /\ workers \in [Workers -> Request] /\ r \in Request
      /\ saved \in Nat /\ saved' \in Nat /\ saved <= saved'
  BY <1>1, ProviderAssumption DEF IInv, StoreInv, WorkersInv
<1>4. workers' = [workers EXCEPT ![w] = q]
  BY <1>1, <1>3
<1>5. current_private_key \in public_jwks /\ current_private_key \in 0 .. MaxKeys
  BY CurrentPublished
<1>6. /\ q \in Request /\ q.step = "sign" /\ q.key = current_private_key /\ q.code = r.code
      /\ q.client_id = r.client_id /\ q.redirect_uri = r.redirect_uri
      /\ q.code_verifier = r.code_verifier
  BY <1>3, <1>5 DEF Request, Steps
<1>7. /\ r.code \in Codes /\ r.code <= saved
      /\ r.client_id \in Clients /\ r.redirect_uri \in Redirects
      /\ r.code_verifier \in Verifiers
  BY <1>1 DEF IInv, WorkersInv, ExchangesOK
<1> HIDE DEF q
<1>8. WorkersInv'
  BY <1>1, <1>3, <1>4, <1>6, <1>7, HandlerMoves
<1>9. KeysInv'
  <2>1. public_jwks' = public_jwks
    BY <1>1 DEF public_jwks
  <2>2. ASSUME NEW v \in Workers, workers'[v].step = "sign"
        PROVE  workers'[v].key \in public_jwks
    BY <1>3, <1>4, <1>5, <1>6, <2>2 DEF IInv, KeysInv, ReadKeysPublished
  <2> QED
    BY <1>1, <2>1, <2>2 DEF IInv, KeysInv, ReadKeysPublished, IdTokensNamePublishedKeys
<1> QED
  BY <1>1, <1>2, <1>8, <1>9 DEF IInv

\* Both keys of an ID token are published when it is made.
LEMMA SignInv ==
  ASSUME IInv, NEW w \in Workers, Sign(w)
  PROVE  IInv'
<1> DEFINE first == workers[w].key
<1>1. /\ workers[w].step = "sign" /\ Finish(w)
      /\ UNCHANGED <<now, active, codes, nonce_expiry, saved, tokens, keys, granted>>
      /\ \/ id_tokens' = id_tokens \cup {[kid |-> first, key |-> current_private_key]}
         \/ id_tokens' = id_tokens \cup {[kid |-> current_private_key, key |-> first]}
  BY DEF Sign
<1>2. StoreInv'
  BY <1>1, StoreUntouched
<1>3. saved \in Nat /\ saved' \in Nat /\ saved <= saved'
  BY <1>1, ProviderAssumption DEF IInv, StoreInv
<1>4. WorkersInv'
  BY <1>1, <1>3, Finished
<1>5. current_private_key \in public_jwks /\ current_private_key \in 1 .. MaxKeys
  BY CurrentPublished
<1>6. first \in public_jwks /\ first \in 1 .. MaxKeys
  BY <1>1, CurrentPublished DEF IInv, KeysInv, ReadKeysPublished
<1>7. public_jwks' = public_jwks
  BY <1>1 DEF public_jwks
<1>8. /\ id_tokens' \subseteq [kid : 1 .. MaxKeys, key : 1 .. MaxKeys]
      /\ IdTokensNamePublishedKeys'
  BY <1>1, <1>5, <1>6, <1>7 DEF IInv, KeysInv, IdTokensNamePublishedKeys
<1>9. ReadKeysPublished'
  BY <1>1, <1>7, IdleRequest DEF Finish, IInv, WorkersInv, KeysInv, ReadKeysPublished
<1> QED
  BY <1>1, <1>2, <1>4, <1>8, <1>9 DEF IInv, KeysInv

\* Every step outside the handlers leaves them as they were.
LEMMA HandlersUntouched ==
  ASSUME IInv, UNCHANGED <<workers, codes, saved, granted>>
  PROVE  WorkersInv'
BY DEF IInv, WorkersInv, AuthorizationsOK, ExchangesOK, HoldersProved, Proved, HoldersApart

\* A rotation publishes one key more.
LEMMA RotateKeysInv ==
  ASSUME IInv, RotateKeys
  PROVE  IInv'
<1> DEFINE new == current_private_key + 1
<1>1. /\ current_private_key < MaxKeys /\ keys' = <<new>> \o keys
      /\ UNCHANGED <<now, active, codes, nonce_expiry, saved, tokens, id_tokens, workers, granted>>
  BY DEF RotateKeys, Rotated
<1>2. keys \in Seq(1 .. MaxKeys) /\ new \in 1 .. MaxKeys
  BY <1>1, CurrentPublished, ProviderAssumption DEF IInv, KeysInv
<1> HIDE DEF new
<1>3. keys' \in Seq(1 .. MaxKeys) /\ keys' # <<>>
  BY <1>1, <1>2
<1>4. public_jwks \subseteq public_jwks'
  <2> SUFFICES ASSUME NEW i \in DOMAIN keys PROVE keys[i] \in public_jwks'
    BY DEF public_jwks
  <2>1. i \in 1 .. Len(keys) /\ Len(keys) \in Nat
    BY <1>2
  <2>2. i + 1 \in DOMAIN keys' /\ keys'[i + 1] = keys[i]
    BY <1>1, <1>2, <2>1
  <2> QED
    BY <2>2 DEF public_jwks
<1>5. StoreInv' /\ WorkersInv'
  BY <1>1, StoreUntouched, HandlersUntouched
<1>6. KeysInv'
  BY <1>1, <1>3, <1>4 DEF IInv, KeysInv, ReadKeysPublished, IdTokensNamePublishedKeys
<1> QED
  BY <1>1, <1>5, <1>6 DEF IInv

\* Revocation marks a token and nothing else.
LEMMA RevokeTokenInv ==
  ASSUME IInv, NEW t \in DOMAIN tokens, RevokeToken(t)
  PROVE  IInv'
<1>1. /\ tokens' = [tokens EXCEPT ![t].revoked = TRUE]
      /\ UNCHANGED <<now, active, codes, nonce_expiry, saved, keys, id_tokens, workers, granted>>
  BY DEF RevokeToken
<1>2. tokens \in Seq(TokenRecord) /\ tokens[t] \in TokenRecord
  BY DEF IInv
<1> DEFINE revoked == [tokens[t] EXCEPT !.revoked = TRUE]
<1>3. revoked \in TokenRecord /\ tokens' = [tokens EXCEPT ![t] = revoked]
  BY <1>1, <1>2 DEF TokenRecord
<1> HIDE DEF revoked
<1>4. tokens' \in Seq(TokenRecord)
  BY <1>2, <1>3
<1>5. StoreInv' /\ WorkersInv' /\ KeysInv'
  BY <1>1, StoreUntouched, HandlersUntouched, KeysKept
<1> QED
  BY <1>1, <1>4, <1>5 DEF IInv

\* Accounts may be disabled at any step.
LEMMA SetActiveInv ==
  ASSUME IInv, NEW u \in Users, SetActive(u)
  PROVE  IInv'
<1>1. /\ active' \in [Users -> BOOLEAN]
      /\ UNCHANGED <<now, codes, nonce_expiry, saved, tokens, keys, id_tokens, workers, granted>>
  BY DEF SetActive, IInv
<1>2. StoreInv' /\ WorkersInv' /\ KeysInv'
  BY <1>1, StoreUntouched, HandlersUntouched, KeysKept
<1> QED
  BY <1>1, <1>2 DEF IInv

\* Time passes: codes and nonces come closer to their end.
LEMMA TickInv ==
  ASSUME IInv, Tick
  PROVE  IInv'
<1>1. /\ now' = now + 1 /\ now < MaxTime
      /\ UNCHANGED <<active, codes, nonce_expiry, saved, tokens, keys, id_tokens, workers, granted>>
  BY DEF Tick
<1>2. now \in Nat /\ now' \in Time
  BY <1>1, ProviderAssumption DEF IInv, StoreInv, Time
<1>3. /\ codes' \in [Codes -> AuthorizationCode \cup {None}]
      /\ nonce_expiry' \in [Clients \X Nonces -> Nat \cup {None}]
      /\ saved' \in 0 .. MaxCodes
      /\ granted' \in [Codes -> AuthorizationCode \cup {None}]
      /\ CodesAsGranted'
  BY <1>1 DEF IInv, StoreInv, CodesAsGranted
<1>4. \A c \in Codes : granted[c] # None => granted[c].expires_at \in Nat
  BY DEF IInv, StoreInv, AuthorizationCode
<1>5. GrantsSaved' /\ NoncesKept'
  <2>1. \A c \in Codes : Outrun(c)' <=> Outrun(c)
    BY <1>1 DEF Outrun
  <2> QED
    BY <1>1, <1>2, <1>4, <2>1 DEF IInv, StoreInv, GrantsSaved, NoncesKept
<1>6. WorkersInv' /\ KeysInv'
  BY <1>1, HandlersUntouched, KeysKept
<1> QED
  BY <1>1, <1>2, <1>3, <1>5, <1>6 DEF IInv, StoreInv

-----------------------------------------------------------------------------
\* Every step preserves the invariant.
LEMMA StepInv == IInv /\ [Next]_vars => IInv'
<1> SUFFICES ASSUME IInv, [Next]_vars PROVE IInv'
  OBVIOUS
<1>1. ASSUME NEW w \in Workers, NEW u \in Users, NEW r \in Authorizations(u),
             StartAuthorization(w, u, r)
      PROVE  IInv'
  BY <1>1, StartAuthorizationInv
<1>2. ASSUME NEW w \in Workers, Reauthenticate(w) PROVE IInv'
  BY <1>2, ReauthenticateInv
<1>3. ASSUME NEW w \in Workers, Decide(w) PROVE IInv'
  BY <1>3, DecideInv
<1>4. ASSUME NEW w \in Workers, NEW r \in Exchanges, StartExchange(w, r) PROVE IInv'
  BY <1>4, StartExchangeInv
<1>5. ASSUME NEW w \in Workers, Consume(w) PROVE IInv'
  BY <1>5, ConsumeInv
<1>6. ASSUME NEW w \in Workers, IssueToken(w) PROVE IInv'
  BY <1>6, IssueTokenInv
<1>7. ASSUME NEW w \in Workers, ReadKey(w) PROVE IInv'
  BY <1>7, ReadKeyInv
<1>8. ASSUME NEW w \in Workers, Sign(w) PROVE IInv'
  BY <1>8, SignInv
<1>9. CASE RotateKeys
  BY <1>9, RotateKeysInv
<1>10. ASSUME NEW t \in DOMAIN tokens, RevokeToken(t) PROVE IInv'
  BY <1>10, RevokeTokenInv
<1>11. ASSUME NEW u \in Users, SetActive(u) PROVE IInv'
  BY <1>11, SetActiveInv
<1>12. CASE Tick
  BY <1>12, TickInv
<1>13. ASSUME NEW w \in Workers, IssueCode(w) PROVE IInv'
  BY <1>13, IssueCodeInv
<1>14. CASE UNCHANGED vars
  <2>1. UNCHANGED <<now, active, codes, nonce_expiry, saved, tokens, keys, id_tokens,
                    workers, granted>>
    BY <1>14 DEF vars
  <2> QED
    BY <2>1, StoreUntouched, HandlersUntouched, KeysKept DEF IInv
<1> QED
  BY <1>1, <1>2, <1>3, <1>4, <1>5, <1>6, <1>7, <1>8, <1>9, <1>10, <1>11, <1>12, <1>13, <1>14
  DEF Next

\* The inductive invariant holds in every reachable state.
THEOREM Invariant == Spec => []IInv
<1>1. Init => IInv
  BY InitInv
<1>2. IInv /\ [Next]_vars => IInv'
  BY StepInv
<1> QED
  BY <1>1, <1>2, PTL DEF Spec

\* Stores, handlers and keys always have their types.
THEOREM TypeCorrect == Spec => []TypeOK
BY Invariant, InvTypes, PTL

(***************************************************************************)
(* has_nonce refuses a replay for as long as the code of the nonce could   *)
(* be used, whatever codes are consumed, cleaned up or saved under the     *)
(* nonce later, for every lifetime and every number of handlers; only a    *)
(* later save of a code that was issued earlier takes its nonce away.      *)
(***************************************************************************)
THEOREM NoncesKeptWhileUsable == Spec => []NoncesOutliveCodes
<1>1. IInv => NoncesOutliveCodes
  <2> SUFFICES ASSUME IInv, NEW c \in Codes, granted[c] # None,
                      ~Expired(granted[c], now), ~Outrun(c)
               PROVE  HasNonce(granted[c].client_id, granted[c].nonce)
    BY DEF NoncesOutliveCodes
  <2> DEFINE n == <<granted[c].client_id, granted[c].nonce>>
  <2>1. granted[c] \in AuthorizationCode
    BY DEF IInv, StoreInv
  <2>2. /\ n \in Clients \X Nonces /\ granted[c].expires_at \in Nat
        /\ now \in Nat
    BY <2>1, ProviderAssumption DEF AuthorizationCode, IInv, StoreInv, Time
  <2>3. now < granted[c].expires_at
    BY <2>2 DEF Expired
  <2>4. nonce_expiry[n] # None /\ granted[c].expires_at <= nonce_expiry[n]
    BY <2>3 DEF IInv, StoreInv, NoncesKept
  <2>5. nonce_expiry[n] \in Nat
    BY <2>2, <2>4 DEF IInv, StoreInv
  <2> QED
    BY <2>2, <2>3, <2>4, <2>5 DEF HasNonce
<1> QED
  BY Invariant, <1>1, PTL

(***************************************************************************)
(* The key that signed an ID token and the key the token names stay        *)
(* published, through any number of rotations.                             *)
(***************************************************************************)
THEOREM SigningKeysPublished == Spec => []IdTokensNamePublishedKeys
<1>1. IInv => IdTokensNamePublishedKeys
  BY DEF IInv, KeysInv
<1> QED
  BY Invariant, <1>1, PTL

-----------------------------------------------------------------------------
\* The state of AuthorizationGrants that the provider is in.
Available == {c \in Codes : codes[c] # None}

Views == {TokenView(tokens[i]) : i \in DOMAIN tokens}

\* The codes that a cleanup at this time drops.
Dropped(time) == {c \in Codes : codes[c] # None /\ Expired(codes[c], time)}

\* A cleanup with a clock that may be late forgets only what has lapsed.
LEMMA CleanupLapses ==
  ASSUME IInv, NEW time \in Nat, time <= now
  PROVE  /\ Dropped(time) \in SUBSET Grants!Lapsed
         /\ {c \in Codes : CodesAfterCleanup(time)[c] # None} = Available \ Dropped(time)
<1>1. ASSUME NEW c \in Dropped(time)
      PROVE  c \in Available /\ granted[c].expires_at <= now
  <2>1. c \in Codes /\ codes[c] # None /\ time >= codes[c].expires_at
    BY <1>1 DEF Dropped, Expired
  <2>2. codes[c] = granted[c] /\ codes[c] \in AuthorizationCode /\ now \in Nat
    BY <2>1, ProviderAssumption DEF IInv, StoreInv, CodesAsGranted, Time
  <2>3. codes[c].expires_at \in Nat
    BY <2>2 DEF AuthorizationCode
  <2> QED
    BY <2>1, <2>2, <2>3 DEF Available
<1>2. Dropped(time) \subseteq Grants!Lapsed
  BY <1>1 DEF Grants!Lapsed, Available
<1>3. {c \in Codes : CodesAfterCleanup(time)[c] # None} = Available \ Dropped(time)
  BY DEF CodesAfterCleanup, Available, Dropped
<1> QED
  BY <1>2, <1>3

\* A handler that neither holds a code nor comes to hold one redeems none.
LEMMA NothingRedeemed ==
  ASSUME IInv, NEW w \in Workers, workers[w].step # "issue",
         \A v \in Workers : v # w => workers'[v] = workers[v],
         workers'[w].step # "issue"
  PROVE  Redeemed' = Redeemed
<1>1. \A v \in Workers : workers'[v].step = "issue" <=> workers[v].step = "issue"
  OBVIOUS
<1>2. \A v \in Workers : workers[v].step = "issue" => workers'[v] = workers[v]
  OBVIOUS
<1> QED
  BY <1>1, <1>2 DEF Redeemed

\* What a step that changes none of the four does to AuthorizationGrants.
LEMMA GrantsUntouched ==
  ASSUME UNCHANGED <<now, codes, tokens, granted>>, Redeemed' = Redeemed
  PROVE  UNCHANGED Grants!grantVars
BY DEF Grants!grantVars

\* Handlers before consume, and after the token, stay within one grant state.
LEMMA WaitingRefines ==
  ASSUME IInv, NEW w \in Workers,
         \/ \E u \in Users : \E r \in Authorizations(u) : StartAuthorization(w, u, r)
         \/ Reauthenticate(w) \/ Decide(w) \/ ReadKey(w) \/ Sign(w)
  PROVE  UNCHANGED Grants!grantVars
<1>1. /\ UNCHANGED <<now, codes, tokens, granted>>
      /\ workers[w].step # "issue" /\ workers'[w].step # "issue"
      /\ \A v \in Workers : v # w => workers'[v] = workers[v]
  <2>1. workers \in [Workers -> Request]
    BY DEF IInv, WorkersInv
  <2>2. CASE Finish(w)
    BY <2>1, <2>2, IdleRequest
    DEF Finish, StartAuthorization, Reauthenticate, Decide, ReadKey, Sign
  <2>3. CASE \E u \in Users : \E r \in Authorizations(u) : StartAuthorization(w, u, r)
    BY <2>1, <2>2, <2>3, IdleRequest, AuthorizationRequest DEF StartAuthorization
  <2>4. CASE Reauthenticate(w)
    BY <2>1, <2>2, <2>4 DEF Reauthenticate, Request
  <2>5. CASE ReadKey(w)
    BY <2>1, <2>5 DEF ReadKey, Request
  <2>6. CASE Sign(w)
    BY <2>2, <2>6 DEF Sign
  <2>7. CASE Decide(w)
    BY <2>1, <2>2, <2>7 DEF Decide, Request
  <2> QED
    BY <2>3, <2>4, <2>5, <2>6, <2>7
<1> QED
  BY <1>1, NothingRedeemed, GrantsUntouched

\* Saving a code issues a grant.
LEMMA IssueCodeRefines ==
  ASSUME IInv, NEW w \in Workers, IssueCode(w)
  PROVE  Grants!GrantsNext
<1>1. /\ workers[w].step = "save" /\ Finish(w)
      /\ UNCHANGED <<now, active, tokens, keys, id_tokens>>
  BY IssuedCode
<1>2. PICK code \in AuthorizationCode : SaveCode(code)
  BY IssuedCode
<1>3. Redeemed' = Redeemed
  BY <1>1, IdleRequest, NothingRedeemed DEF Finish, IInv, WorkersInv
<1>4. now \in Nat /\ now <= now /\ saved \in 0 .. MaxCodes /\ MaxCodes \in Nat
  BY ProviderAssumption DEF IInv, StoreInv, Time
<1> DEFINE new == saved + 1
<1>5. /\ new \in Codes /\ saved < MaxCodes
      /\ codes' = [CodesAfterCleanup(now) EXCEPT ![new] = code]
      /\ granted' = [granted EXCEPT ![new] = code]
  BY <1>2, <1>4 DEF SaveCode, Codes
<1>6. granted[new] = None
  BY <1>4, <1>5 DEF IInv, StoreInv, GrantsSaved
<1>7. /\ granted'[new] = code
      /\ \A other \in Codes \ {new} : granted'[other] = granted[other]
  BY <1>5 DEF IInv, StoreInv
<1>8. Available' = (Available \ Dropped(now)) \cup {new}
  <2>1. \A c \in Codes : codes'[c] = IF c = new THEN code ELSE CodesAfterCleanup(now)[c]
    BY <1>5 DEF CodesAfterCleanup
  <2>2. code # None
    BY CodeAssumption
  <2> HIDE DEF new
  <2> QED
    BY <1>4, <1>5, <2>1, <2>2, CleanupLapses DEF Available
<1> HIDE DEF new
<1>9. PICK lapsed \in SUBSET Grants!Lapsed : lapsed = Dropped(now)
  BY <1>4, CleanupLapses
<1>10. Grants!Issue(new, lapsed)
  BY <1>1, <1>3, <1>6, <1>7, <1>8, <1>9 DEF Grants!Issue, Available
<1> QED
  BY <1>5, <1>10 DEF Grants!GrantsNext

\* Looking for a code forgets what has lapsed.
LEMMA StartExchangeRefines ==
  ASSUME IInv, NEW w \in Workers, NEW r \in Exchanges, StartExchange(w, r)
  PROVE  Grants!GrantsNext
<1>1. /\ Cleanup(now) /\ workers[w] = Idle
      /\ Finish(w) \/ workers' = [workers EXCEPT ![w] = r]
      /\ UNCHANGED <<now, active, saved, tokens, keys, id_tokens, granted>>
  BY DEF StartExchange
<1>2. now \in Nat /\ now <= now
  BY ProviderAssumption DEF IInv, StoreInv, Time
<1>3. Redeemed' = Redeemed
  BY <1>1, IdleRequest, ExchangeRequest, NothingRedeemed DEF Finish, IInv, WorkersInv
<1>4. Available' = Available \ Dropped(now)
  BY <1>1, <1>2, CleanupLapses DEF Cleanup, Available
<1>5. PICK lapsed \in SUBSET Grants!Lapsed : lapsed = Dropped(now)
  BY <1>2, CleanupLapses
<1>6. Grants!Lapse(lapsed)
  BY <1>1, <1>3, <1>4, <1>5 DEF Grants!Lapse, Available
<1> QED
  BY <1>6 DEF Grants!GrantsNext

\* Consuming a code redeems it, for the only handler that holds it.
LEMMA ConsumeRefines ==
  ASSUME IInv, NEW w \in Workers, Consume(w)
  PROVE  Grants!GrantsNext
<1> DEFINE r == workers[w]
<1>1. /\ r.step = "consume"
      /\ UNCHANGED <<now, active, saved, tokens, keys, id_tokens, granted>>
  BY DEF Consume
<1>2. PICK time \in r.at .. now :
        \/ /\ Redeemable(r, time)
           /\ Removed(r, time)
           /\ workers' = [workers EXCEPT ![w].step = "issue"]
        \/ /\ ~Redeemable(r, time)
           /\ Cleanup(time)
           /\ Finish(w)
  BY DEF Consume
<1>3. /\ workers \in [Workers -> Request] /\ r \in Request
      /\ r.code \in Codes
  BY <1>1 DEF IInv, WorkersInv, ExchangesOK
<1>4. now \in Nat /\ time \in Nat /\ time <= now
  <2>1. r.at \in Nat /\ now \in Nat
    BY <1>3, ProviderAssumption DEF Request, Time, IInv, StoreInv
  <2> QED
    BY <1>2, <2>1
<1>5. PICK lapsed \in SUBSET Grants!Lapsed :
        {c \in Codes : CodesAfterCleanup(time)[c] # None} = Available \ lapsed
  BY <1>4, CleanupLapses
<1>6. CASE Redeemable(r, time) /\ Removed(r, time)
             /\ workers' = [workers EXCEPT ![w].step = "issue"]
  <2> DEFINE c == r.code
  <2>1. c \in Available \ lapsed
    BY <1>3, <1>5, <1>6 DEF Redeemable
  <2>2. Available' = Available \ (lapsed \cup {c})
    <3>1. codes' = [CodesAfterCleanup(time) EXCEPT ![c] = None]
      BY <1>6 DEF Removed
    <3>2. \A d \in Codes : codes'[d] = IF d = c THEN None ELSE CodesAfterCleanup(time)[d]
      BY <3>1 DEF CodesAfterCleanup
    <3>3. Available' = {d \in Codes : CodesAfterCleanup(time)[d] # None} \ {c}
      BY <3>2 DEF Available
    <3> QED
      BY <1>5, <3>3
  <2>3. Redeemed' = Redeemed \cup {c}
    <3>1. /\ \A v \in Workers : v # w => workers'[v] = workers[v]
          /\ workers'[w].step = "issue" /\ workers'[w].code = c
      BY <1>3, <1>6 DEF Request
    <3>2. ASSUME NEW d PROVE d \in Redeemed' <=> d \in Redeemed \cup {c}
      <4>1. d \in Redeemed' <=> \E v \in Workers : workers'[v].step = "issue" /\ workers'[v].code = d
        BY DEF Redeemed
      <4>2. d \in Redeemed <=> \E v \in Workers : workers[v].step = "issue" /\ workers[v].code = d
        BY DEF Redeemed
      <4> QED
        BY <1>1, <3>1, <4>1, <4>2
    <3> QED
      BY <3>2
  <2> HIDE DEF c
  <2>4. Grants!Redeem(c, lapsed)
    BY <1>1, <2>1, <2>2, <2>3 DEF Grants!Redeem, Available
  <2>5. c \in Codes
    BY <1>3 DEF c
  <2> QED
    BY <2>4, <2>5 DEF Grants!GrantsNext
<1>7. CASE Cleanup(time) /\ Finish(w)
  <2>1. Redeemed' = Redeemed
    BY <1>1, <1>7, IdleRequest, NothingRedeemed DEF Finish, IInv, WorkersInv
  <2>2. Available' = Available \ lapsed
    BY <1>5, <1>7 DEF Cleanup, Available
  <2>3. Grants!Lapse(lapsed)
    BY <1>1, <2>1, <2>2 DEF Grants!Lapse, Available
  <2> QED
    BY <2>3 DEF Grants!GrantsNext
<1> QED
  BY <1>2, <1>6, <1>7

\* A token more is a view more.
LEMMA ViewsAppended ==
  ASSUME IInv, NEW token, tokens' = Append(tokens, token)
  PROVE  Views' = Views \cup {TokenView(token)}
<1>1. tokens \in Seq(TokenRecord) /\ Len(tokens) \in Nat /\ DOMAIN tokens = 1 .. Len(tokens)
  BY LenProperties DEF IInv
<1>2. /\ DOMAIN tokens' = 1 .. Len(tokens) + 1
      /\ \A i \in DOMAIN tokens : tokens'[i] = tokens[i]
      /\ tokens'[Len(tokens) + 1] = token
  BY <1>1
<1>3. DOMAIN tokens' = DOMAIN tokens \cup {Len(tokens) + 1}
  BY <1>1, <1>2
<1> QED
  BY <1>2, <1>3 DEF Views, TokenView

\* The handler that holds a redeemed code delivers its token, or nothing.
LEMMA IssueTokenRefines ==
  ASSUME IInv, NEW w \in Workers, IssueToken(w)
  PROVE  Grants!GrantsNext
<1> DEFINE r == workers[w]
<1> DEFINE c == r.code
<1>1. /\ r.step = "issue"
      /\ UNCHANGED <<now, active, codes, nonce_expiry, saved, keys, id_tokens, granted>>
      /\ \/ Finish(w) /\ UNCHANGED tokens
         \/ /\ tokens' = Append(tokens, TokenOf(r))
            /\ workers' = [workers EXCEPT ![w].step = "id_token"]
  BY DEF IssueToken
<1>2. /\ workers \in [Workers -> Request] /\ r \in Request /\ c \in Codes
  BY <1>1 DEF IInv, WorkersInv, ExchangesOK
<1>3. c \in Redeemed
  BY <1>1 DEF Redeemed
<1>4. Redeemed' = Redeemed \ {c}
  <2>1. /\ \A v \in Workers : v # w => workers'[v] = workers[v]
        /\ workers'[w].step # "issue"
    BY <1>1, <1>2, IdleRequest DEF Finish, Request
  <2>2. \A v \in Workers : workers[v].step = "issue" /\ v # w => workers[v].code # c
    BY <1>1 DEF IInv, WorkersInv, HoldersApart
  <2>3. ASSUME NEW d PROVE d \in Redeemed' <=> d \in Redeemed \ {c}
    <3>1. d \in Redeemed' <=> \E v \in Workers : workers'[v].step = "issue" /\ workers'[v].code = d
      BY DEF Redeemed
    <3>2. d \in Redeemed <=> \E v \in Workers : workers[v].step = "issue" /\ workers[v].code = d
      BY DEF Redeemed
    <3> QED
      BY <1>1, <2>1, <2>2, <3>1, <3>2
  <2> QED
    BY <2>3
<1>5. Views' \in {Views, Views \cup {Grants!TokenFor(c, granted[c])}}
  <2>1. CASE UNCHANGED tokens
    BY <2>1 DEF Views, TokenView
  <2>2. CASE tokens' = Append(tokens, TokenOf(r))
    <3>1. Proved(r, granted[c])
      BY <1>1 DEF IInv, WorkersInv, HoldersProved
    <3>2. TokenView(TokenOf(r)) = Grants!TokenFor(c, granted[c])
      BY <3>1 DEF TokenView, TokenOf, Grants!TokenFor, Proved
    <3> QED
      BY <2>2, <3>2, ViewsAppended
  <2> QED
    BY <1>1, <2>1, <2>2
<1>6. UNCHANGED Available
  BY <1>1 DEF Available
<1> HIDE DEF c
<1>7. Grants!Deliver(c)
  BY <1>1, <1>3, <1>4, <1>5, <1>6 DEF Grants!Deliver, Available, Views
<1> QED
  BY <1>2, <1>7, Zenon DEF Grants!GrantsNext

\* Revocation is nothing to the grant: the token was issued.
LEMMA RevokeTokenRefines ==
  ASSUME IInv, NEW t \in DOMAIN tokens, RevokeToken(t)
  PROVE  UNCHANGED Grants!grantVars
<1>1. /\ tokens' = [tokens EXCEPT ![t].revoked = TRUE]
      /\ UNCHANGED <<now, active, codes, nonce_expiry, saved, keys, id_tokens, workers, granted>>
  BY DEF RevokeToken
<1>2. \A i \in DOMAIN tokens : tokens[i] \in TokenRecord
  BY ElementOfSeq, LenProperties DEF IInv
<1>3. DOMAIN tokens' = DOMAIN tokens
  BY <1>1
<1>4. ASSUME NEW i \in DOMAIN tokens PROVE TokenView(tokens'[i]) = TokenView(tokens[i])
  BY <1>1, <1>2 DEF TokenView, TokenRecord
<1>5. {TokenView(tokens'[i]) : i \in DOMAIN tokens'} = Views
  BY <1>3, <1>4 DEF Views
<1>6. UNCHANGED <<Available, Redeemed>>
  BY <1>1 DEF Available, Redeemed
<1> QED
  BY <1>1, <1>5, <1>6 DEF Grants!grantVars, Views, Available, TokenView

(***************************************************************************)
(* The provider implements AuthorizationGrants, however many handlers find *)
(* the same code and however late their clocks are: a code is redeemed     *)
(* once, for the client, redirect URI, user and challenge it was granted   *)
(* to, and is not forgotten before it expires.                             *)
(***************************************************************************)
THEOREM Refinement == Spec => ImplementsGrants
<1>1. Init => Grants!GrantsInit
  BY ProviderAssumption, IdleRequest DEF Init, Grants!GrantsInit, Redeemed
<1>2. IInv /\ [Next]_vars => [Grants!GrantsNext]_(Grants!grantVars)
  <2> SUFFICES ASSUME IInv, [Next]_vars
               PROVE  Grants!GrantsNext \/ UNCHANGED Grants!grantVars
    OBVIOUS
  <2>1. ASSUME NEW w \in Workers, IssueCode(w) PROVE Grants!GrantsNext
    BY <2>1, IssueCodeRefines
  <2>2. ASSUME NEW w \in Workers, NEW r \in Exchanges, StartExchange(w, r)
        PROVE  Grants!GrantsNext
    BY <2>2, StartExchangeRefines
  <2>3. ASSUME NEW w \in Workers, Consume(w) PROVE Grants!GrantsNext
    BY <2>3, ConsumeRefines
  <2>4. ASSUME NEW w \in Workers, IssueToken(w) PROVE Grants!GrantsNext
    BY <2>4, IssueTokenRefines
  <2>5. ASSUME NEW w \in Workers,
               \/ \E u \in Users : \E r \in Authorizations(u) : StartAuthorization(w, u, r)
               \/ Reauthenticate(w) \/ Decide(w) \/ ReadKey(w) \/ Sign(w)
        PROVE  UNCHANGED Grants!grantVars
    BY <2>5, WaitingRefines
  <2>6. ASSUME NEW t \in DOMAIN tokens, RevokeToken(t) PROVE UNCHANGED Grants!grantVars
    BY <2>6, RevokeTokenRefines
  <2>7. CASE RotateKeys \/ (\E u \in Users : SetActive(u)) \/ UNCHANGED vars
    <3>1. UNCHANGED <<now, codes, tokens, granted, workers>>
      BY <2>7 DEF RotateKeys, SetActive, vars
    <3> QED
      BY <3>1, GrantsUntouched DEF Redeemed
  <2>8. CASE Tick
    <3>1. now' = now + 1 /\ UNCHANGED <<codes, tokens, granted, workers>>
      BY <2>8 DEF Tick
    <3>2. Grants!Elapse
      BY <3>1 DEF Grants!Elapse, Redeemed, TokenView
    <3> QED
      BY <3>2 DEF Grants!GrantsNext
  <2> QED
    BY <2>1, <2>2, <2>3, <2>4, <2>5, <2>6, <2>7, <2>8 DEF Next
<1> QED
  BY Invariant, <1>1, <1>2, PTL DEF Spec, ImplementsGrants, Grants!GrantsSpec
=============================================================================
