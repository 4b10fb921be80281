------------------------ MODULE PasskeyCeremonyProofs ------------------------
(***************************************************************************)
(* The ceremonies are correct for any number of requests, flows, users and *)
(* credentials, over both stores.  The inductive invariant follows each    *)
(* challenge through the places it can be in (the challenge store, a       *)
(* request that popped it, the history) and each credential back to the    *)
(* challenge it was created for.                                           *)
(***************************************************************************)
EXTENDS PasskeyCeremony, CredentialStoreProofs, SequenceTheorems

AfterPop == {"verify_assertion", "cas", "verify_attestation", "save"}
AfterLookup == {"handle", "pop_authentication", "verify_assertion", "cas"}
RegistrationSteps == {"pop_registration", "verify_attestation", "save"}

\* Credential id answered a challenge issued for user u.
CreatedFor(id, u) ==
  /\ minted[id] # None
  /\ issued_to[minted[id]] # None
  /\ issued_to[minted[id]].user_id = u

\* What a request in progress knows.
RequestOK(q) ==
  /\ q.step # "idle" => q.flow \in Flows /\ q.id \in CredentialIds /\ q.signed \in Challenges
  /\ q.step \in AfterPop => q.taken # None
  /\ q.step \in RegistrationSteps => minted[q.id] = q.signed
  /\ q.step = "save" => q.taken.user # None /\ q.signed = q.taken.challenge
  /\ q.step \in AfterLookup => q.owner \in UserIds /\ CreatedFor(q.id, q.owner)
  /\ q.step = "cas" /\ backend = "sqlite" /\ q.seen # 0 => q.count > q.seen

RequestsOK == \A r \in Requests : RequestOK(request[r])

\* A challenge record was issued, for the user it names.
Issued(record) == record.challenge < fresh /\ record.user = issued_to[record.challenge]

RecordsIssued ==
  /\ \A k \in Keys : challenges[k] # None => Issued(challenges[k])
  /\ \A r \in Requests : request[r].taken # None => Issued(request[r].taken)
  /\ \A i \in 1 .. Len(completed) : completed[i].challenge < fresh

\* No challenge is in two places.
OnePlace ==
  /\ \A k, l \in Keys :
       challenges[k] # None /\ challenges[l] # None
         /\ challenges[k].challenge = challenges[l].challenge => k = l
  /\ \A k \in Keys, r \in Requests :
       challenges[k] # None /\ request[r].taken # None =>
         challenges[k].challenge # request[r].taken.challenge
  /\ \A k \in Keys, i \in 1 .. Len(completed) :
       challenges[k] # None => challenges[k].challenge # completed[i].challenge
  /\ \A r, s \in Requests :
       request[r].taken # None /\ request[s].taken # None
         /\ request[r].taken.challenge = request[s].taken.challenge => r = s
  /\ \A r \in Requests, i \in 1 .. Len(completed) :
       request[r].taken # None => request[r].taken.challenge # completed[i].challenge
  /\ ChallengeSingleUse

\* The registration that the credential's creation challenge allows is over.
Registered(id) == \E i \in 1 .. Len(completed) : completed[i].challenge = minted[id]

\* Where the stored credentials and the history come from.
OriginsOK ==
  /\ \A id \in CredentialIds : minted[id] # None => minted[id] < fresh
  /\ \A id \in CredentialIds :
       credentials[id] # None => CreatedFor(id, credentials[id].user_id) /\ Registered(id)
  /\ \A i \in 1 .. Len(completed) :
       /\ CreatedFor(completed[i].id, completed[i].user_id)
       /\ Registered(completed[i].id)

\* A stored counter is not below any that a ceremony of its credential ended with.
CountersOK ==
  /\ \A i \in 1 .. Len(completed) :
       credentials[completed[i].id] # None =>
         completed[i].count <= credentials[completed[i].id].sign_count
  /\ CountersAdvance

IInv ==
  /\ StoreInv
  /\ TypeOK
  /\ RequestsOK
  /\ RecordsIssued
  /\ OnePlace
  /\ OriginsOK
  /\ CountersOK
  /\ backend = "sqlite" => sweep = {}

\* The initial states satisfy the invariant.
LEMMA InitInv == Init => IInv
<1> SUFFICES ASSUME Init PROVE IInv
  OBVIOUS
<1>1. StoreInv
  BY StoreInitInv DEF Init
<1>2. Idle \in Request
  BY MaxSignCountAssumption DEF Idle, Received, Request, Steps, SignCounts
<1>3. TypeOK
  BY <1>1, <1>2, CeremonyAssumption DEF Init, TypeOK, StoreInv, Time
<1>4. Idle.step = "idle" /\ Idle.taken = None
  BY DEF Idle, Received
<1>5. RequestsOK
  BY <1>4 DEF Init, RequestsOK, RequestOK, AfterPop, AfterLookup, RegistrationSteps
<1>6. Len(completed) = 0
  BY DEF Init
<1>7. RecordsIssued /\ OnePlace /\ OriginsOK /\ CountersOK
  BY <1>4, <1>6
  DEF Init, StoreInit, RecordsIssued, OnePlace, ChallengeSingleUse, OriginsOK, CountersOK,
      CountersAdvance
<1> QED
  BY <1>1, <1>3, <1>5, <1>7 DEF IInv, Init

\* What a request knows stays true while challenges are issued and credentials
\* created.
LEMMA RequestOKStable ==
  ASSUME NEW q, RequestOK(q), OriginsOK, q.step # "idle" => q.id \in CredentialIds,
         backend' = backend,
         \A c : c < fresh => issued_to'[c] = issued_to[c],
         \A id \in CredentialIds : minted[id] # None => minted'[id] = minted[id],
         None \notin Challenges
  PROVE  RequestOK(q)'
BY DEF RequestOK, OriginsOK, CreatedFor, AfterPop, AfterLookup, RegistrationSteps

\* The history records the completions of typed ceremonies.
LEMMA CompletedTyped ==
  ASSUME TypeOK, NEW i \in 1 .. Len(completed)
  PROVE  completed[i] \in Completion
BY ElementOfSeq DEF TypeOK

\* Every challenge in a place is a number.
LEMMA ChallengesAreNumbers ==
  ASSUME TypeOK
  PROVE  /\ fresh \in Nat
         /\ \A k \in Keys : challenges[k] # None => challenges[k].challenge \in Nat
         /\ \A r \in Requests : request[r].taken # None => request[r].taken.challenge \in Nat
         /\ \A i \in 1 .. Len(completed) : completed[i].challenge \in Nat
         /\ \A id \in CredentialIds : minted[id] # None => minted[id] \in Nat
<1>1. Challenges \subseteq Nat /\ fresh \in Nat
  BY CeremonyAssumption DEF TypeOK, Challenges
<1>2. \A r \in Requests : request[r].taken \in ChallengeRecord \cup {None}
  BY DEF TypeOK, Request
<1>3. \A i \in 1 .. Len(completed) : completed[i] \in Completion
  BY CompletedTyped
<1> QED
  BY <1>1, <1>2, <1>3 DEF TypeOK, ChallengeRecord, Completion

\* A step that only changes what one request is doing, or drops its record.
LEMMA RequestStep ==
  ASSUME IInv, NEW r \in Requests, NEW new \in Request,
         request' = [request EXCEPT ![r] = new],
         new.taken \in {request[r].taken, None},
         RequestOK(new),
         UNCHANGED <<storeVars, backend, now, challenges, fresh, issued_to, minted, sweep,
                     completed>>
  PROVE  IInv'
<1>1. /\ request' \in [Requests -> Request] /\ request'[r] = new
      /\ \A s \in Requests : s # r => request'[s] = request[s]
  BY DEF IInv, TypeOK
<1>2. UNCHANGED <<users, users_by_handle, credentials>>
  BY DEF storeVars
<1>3. TypeOK' /\ StoreInv'
  BY <1>1, <1>2
  DEF IInv, TypeOK, StoreInv, StoreTypeOK, OwnersExist, HandleIndexInverse
<1>4. RequestsOK'
  BY <1>1 DEF IInv, RequestsOK, RequestOK, CreatedFor
<1>5. RecordsIssued'
  BY <1>1 DEF IInv, RecordsIssued, Issued
<1>6. OnePlace'
  BY <1>1 DEF IInv, OnePlace, ChallengeSingleUse
<1>7. OriginsOK' /\ CountersOK'
  BY <1>2
  DEF IInv, OriginsOK, CountersOK, CreatedFor, Registered, CountersAdvance, LaterLogin
<1> QED
  BY <1>3, <1>4, <1>5, <1>6, <1>7 DEF IInv

\* A request that fails forgets what it knew.
LEMMA IdleOK == Idle \in Request /\ Idle.step = "idle" /\ Idle.taken = None /\ RequestOK(Idle)
BY MaxSignCountAssumption
DEF Idle, Received, Request, Steps, SignCounts, RequestOK, AfterPop, AfterLookup, RegistrationSteps

\* A request that fails goes back to idle and keeps the invariant.
LEMMA FailInv ==
  ASSUME IInv, NEW r \in Requests, Fail(r),
         UNCHANGED <<storeVars, backend, now, challenges, fresh, issued_to, minted, sweep,
                     completed>>
  PROVE  IInv'
BY IdleOK, RequestStep DEF Fail
-----------------------------------------------------------------------------
(***************************************************************************)
(* Steps of a request that touch nothing but the request.                  *)
(***************************************************************************)
LEMMA StartLoginInv ==
  ASSUME IInv, NEW r \in Requests, NEW flow \in Flows, NEW id \in CredentialIds,
         NEW signed \in Challenges, StartLogin(r, flow, id, signed)
  PROVE  IInv'
<1> DEFINE new == Received("lookup", flow, id, signed)
<1>1. new \in Request /\ new.taken = None
  BY MaxSignCountAssumption DEF Received, Request, Steps, SignCounts
<1>2. RequestOK(new)
  BY DEF Received, RequestOK, AfterPop, AfterLookup, RegistrationSteps
<1>3. request' = [request EXCEPT ![r] = new]
  BY DEF StartLogin
<1> QED
  BY <1>1, <1>2, <1>3, RequestStep DEF StartLogin

\* Reading the stored credential keeps the invariant: it is owned by the user it
\* was created for.
LEMMA LookupCredentialInv ==
  ASSUME IInv, NEW r \in Requests, LookupCredential(r)
  PROVE  IInv'
<1> DEFINE q == request[r]
           stored == credentials[q.id]
           new == [q EXCEPT !.step = "handle", !.owner = stored.user_id,
                            !.seen = stored.sign_count]
<1>1. UNCHANGED <<storeVars, backend, now, challenges, fresh, issued_to, minted, sweep, completed>>
  BY DEF LookupCredential
<1>2. CASE stored = None
  BY <1>1, <1>2, FailInv DEF LookupCredential
<1>3. CASE stored # None
  <2>1. /\ q \in Request /\ q.step = "lookup" /\ RequestOK(q) /\ request \in [Requests -> Request]
    BY DEF LookupCredential, IInv, TypeOK, RequestsOK
  <2>2. q.id \in CredentialIds /\ q.flow \in Flows /\ q.signed \in Challenges
    BY <2>1 DEF RequestOK
  <2>3. stored \in PasskeyCredential /\ CreatedFor(q.id, stored.user_id)
    BY <1>3, <2>2 DEF IInv, StoreInv, StoreTypeOK, OriginsOK
  <2>4. new \in Request
    BY <2>1, <2>3 DEF Request, Steps, PasskeyCredential
  <2>5. RequestOK(new)
    BY <2>1, <2>2, <2>3
    DEF Request, PasskeyCredential, RequestOK, AfterPop, AfterLookup, RegistrationSteps
  <2>6. request' = [request EXCEPT ![r] = new]
    BY <1>3, <2>1 DEF LookupCredential
  <2>7. new.taken = request[r].taken
    BY <2>1 DEF Request
  <2> QED
    BY <1>1, <2>4, <2>5, <2>6, <2>7, RequestStep
<1> QED
  BY <1>2, <1>3

\* The user-handle check keeps the invariant.
LEMMA CheckUserHandleInv ==
  ASSUME IInv, NEW r \in Requests, NEW handle, NEW require_user_handle,
         CheckUserHandle(r, handle, require_user_handle)
  PROVE  IInv'
<1> DEFINE q == request[r]
           new == [q EXCEPT !.step = "pop_authentication"]
<1>1. UNCHANGED <<storeVars, backend, now, challenges, fresh, issued_to, minted, sweep, completed>>
  BY DEF CheckUserHandle
<1>2. CASE Fail(r)
  BY <1>1, <1>2, FailInv
<1>3. CASE Goto(r, "pop_authentication")
  <2>1. /\ q \in Request /\ q.step = "handle" /\ RequestOK(q) /\ request \in [Requests -> Request]
    BY DEF CheckUserHandle, IInv, TypeOK, RequestsOK
  <2>2. new \in Request /\ RequestOK(new) /\ new.taken = q.taken
    BY <2>1 DEF Request, Steps, RequestOK, AfterPop, AfterLookup, RegistrationSteps, CreatedFor
  <2>3. request' = [request EXCEPT ![r] = new]
    BY <1>3, <2>1 DEF Goto
  <2> QED
    BY <1>1, <2>2, <2>3, RequestStep
<1> QED
  BY <1>2, <1>3 DEF CheckUserHandle

\* Verifying an assertion keeps the invariant.
LEMMA VerifyAssertionInv ==
  ASSUME IInv, NEW r \in Requests, NEW count \in SignCounts, VerifyAssertion(r, count)
  PROVE  IInv'
<1> DEFINE q == request[r]
           new == [q EXCEPT !.step = "cas", !.count = count]
<1>1. UNCHANGED <<storeVars, backend, now, challenges, fresh, issued_to, minted, sweep, completed>>
  BY DEF VerifyAssertion
<1>2. CASE ~AssertionValid(r, count)
  BY <1>1, <1>2, FailInv DEF VerifyAssertion
<1>3. CASE AssertionValid(r, count)
  <2>1. /\ q \in Request /\ q.step = "verify_assertion" /\ RequestOK(q)
        /\ request \in [Requests -> Request]
    BY DEF VerifyAssertion, IInv, TypeOK, RequestsOK
  <2>2. backend = "sqlite" /\ q.seen # 0 => count > q.seen
    BY <1>3 DEF AssertionValid, StoredSignCount
  <2>3. new \in Request /\ RequestOK(new) /\ new.taken = q.taken
    BY <2>1, <2>2
    DEF Request, Steps, RequestOK, AfterPop, AfterLookup, RegistrationSteps, CreatedFor
  <2>4. request' = [request EXCEPT ![r] = new]
    BY <1>3, <2>1 DEF VerifyAssertion
  <2> QED
    BY <1>1, <2>3, <2>4, RequestStep
<1> QED
  BY <1>2, <1>3

\* Verifying an attestation keeps the invariant: only a credential created for the
\* popped challenge goes on to be saved.
LEMMA VerifyAttestationInv ==
  ASSUME IInv, NEW r \in Requests, NEW count \in SignCounts, VerifyAttestation(r, count)
  PROVE  IInv'
<1> DEFINE q == request[r]
           new == [q EXCEPT !.step = "save", !.count = count]
<1>1. UNCHANGED <<storeVars, backend, now, challenges, fresh, issued_to, minted, sweep, completed>>
  BY DEF VerifyAttestation
<1>2. CASE ~(q.taken.user # None /\ q.signed = q.taken.challenge)
  BY <1>1, <1>2, FailInv DEF VerifyAttestation
<1>3. CASE q.taken.user # None /\ q.signed = q.taken.challenge
  <2>1. /\ q \in Request /\ q.step = "verify_attestation" /\ RequestOK(q)
        /\ request \in [Requests -> Request]
    BY DEF VerifyAttestation, IInv, TypeOK, RequestsOK
  <2>2. new \in Request /\ RequestOK(new) /\ new.taken = q.taken
    BY <1>3, <2>1
    DEF Request, Steps, RequestOK, AfterPop, AfterLookup, RegistrationSteps, CreatedFor
  <2>3. request' = [request EXCEPT ![r] = new]
    BY <1>3, <2>1 DEF VerifyAttestation
  <2> QED
    BY <1>1, <2>2, <2>3, RequestStep
<1> QED
  BY <1>2, <1>3

\* StartRegistration also ties the new credential to the challenge it answers.
LEMMA StartRegistrationInv ==
  ASSUME IInv, NEW r \in Requests, NEW flow \in Flows, NEW id \in CredentialIds,
         NEW signed \in Challenges, StartRegistration(r, flow, id, signed)
  PROVE  IInv'
<1> DEFINE new == Received("pop_registration", flow, id, signed)
<1>1. /\ request' = [request EXCEPT ![r] = new]
      /\ minted' = [minted EXCEPT ![id] = signed] /\ minted[id] \in {None, signed}
      /\ signed < fresh
      /\ UNCHANGED <<users, users_by_handle, credentials, backend, now, challenges, fresh,
                     issued_to, sweep, completed>>
  BY DEF StartRegistration, storeVars
<1>2. new \in Request /\ new.taken = None
  BY MaxSignCountAssumption DEF Received, Request, Steps, SignCounts
<1>3. /\ minted' \in [CredentialIds -> Challenges \cup {None}] /\ minted'[id] = signed
      /\ \A c \in CredentialIds : minted[c] # None => minted'[c] = minted[c]
      /\ \A c \in CredentialIds : c # id => minted'[c] = minted[c]
  BY <1>1 DEF IInv, TypeOK
<1>4. /\ request' \in [Requests -> Request] /\ request'[r] = new
      /\ \A s \in Requests : s # r => request'[s] = request[s]
  BY <1>1, <1>2 DEF IInv, TypeOK
<1> HIDE DEF new
<1>5. TypeOK' /\ StoreInv'
  BY <1>1, <1>3, <1>4
  DEF IInv, TypeOK, StoreInv, StoreTypeOK, OwnersExist, HandleIndexInverse
<1>6. RequestsOK'
  <2>1. RequestOK(new)'
    BY <1>3 DEF new, Received, RequestOK, AfterPop, AfterLookup, RegistrationSteps
  <2>2. ASSUME NEW s \in Requests, s # r
        PROVE  RequestOK(request[s])'
    <3>1. RequestOK(request[s]) /\ (request[s].step # "idle" => request[s].id \in CredentialIds)
      BY DEF IInv, RequestsOK, RequestOK
    <3>2. None \notin Challenges
      BY CeremonyAssumption DEF Challenges
    <3> QED
      BY <1>1, <1>3, <1>4, <2>2, <3>1, <3>2
      DEF IInv, OriginsOK, RequestOK, CreatedFor, AfterPop, AfterLookup, RegistrationSteps
  <2> QED
    BY <1>4, <2>1, <2>2 DEF RequestsOK
<1>7. RecordsIssued'
  BY <1>1, <1>2, <1>4 DEF IInv, RecordsIssued, Issued
<1>8. OnePlace'
  BY <1>1, <1>2, <1>4 DEF IInv, OnePlace, ChallengeSingleUse
<1>9. OriginsOK'
  <2>1. \A c \in CredentialIds : minted'[c] # None => minted'[c] < fresh
    BY <1>1, <1>3 DEF IInv, OriginsOK
  <2>2. ASSUME NEW c \in CredentialIds, minted[c] # None, Registered(c)
        PROVE  Registered(c)'
    BY <1>1, <1>3, <2>2 DEF Registered
  <2>3. ASSUME NEW c \in CredentialIds, NEW u, CreatedFor(c, u)
        PROVE  CreatedFor(c, u)'
    BY <1>1, <1>3, <2>3 DEF CreatedFor
  <2>4. ASSUME NEW c \in CredentialIds, credentials[c] # None
        PROVE  CreatedFor(c, credentials[c].user_id)' /\ Registered(c)'
    BY <1>1, <2>2, <2>3, <2>4 DEF IInv, OriginsOK, CreatedFor
  <2>5. ASSUME NEW i \in 1 .. Len(completed)
        PROVE  CreatedFor(completed[i].id, completed[i].user_id)' /\ Registered(completed[i].id)'
    <3>1. completed[i].id \in CredentialIds
      BY CompletedTyped DEF IInv, Completion
    <3> QED
      BY <1>1, <2>2, <2>3, <3>1 DEF IInv, OriginsOK, CreatedFor
  <2> QED
    BY <1>1, <2>1, <2>4, <2>5 DEF OriginsOK
<1>10. CountersOK'
  BY <1>1 DEF IInv, CountersOK, CountersAdvance, LaterLogin
<1> QED
  BY <1>1, <1>5, <1>6, <1>7, <1>8, <1>9, <1>10 DEF IInv
-----------------------------------------------------------------------------
(***************************************************************************)
(* The challenge store.                                                    *)
(***************************************************************************)

\* Steps that only make challenges disappear.
LEMMA ChallengesShrink ==
  ASSUME IInv, now' \in Time, sweep' \subseteq Keys, backend = "sqlite" => sweep' = {},
         challenges' \in [Keys -> ChallengeRecord \cup {None}],
         \A k \in Keys : challenges'[k] \in {challenges[k], None},
         UNCHANGED <<storeVars, backend, fresh, issued_to, minted, request, completed>>
  PROVE  IInv'
<1>1. UNCHANGED <<users, users_by_handle, credentials>>
  BY DEF storeVars
<1>2. TypeOK' /\ StoreInv'
  BY <1>1 DEF IInv, TypeOK, StoreInv, StoreTypeOK, OwnersExist, HandleIndexInverse
<1>3. RequestsOK'
  BY DEF IInv, RequestsOK, RequestOK, CreatedFor
<1>4. RecordsIssued'
  BY DEF IInv, RecordsIssued, Issued
<1>5. OnePlace'
  BY DEF IInv, OnePlace, ChallengeSingleUse
<1>6. OriginsOK' /\ CountersOK'
  BY <1>1
  DEF IInv, OriginsOK, CountersOK, CreatedFor, Registered, CountersAdvance, LaterLogin
<1> QED
  BY <1>2, <1>3, <1>4, <1>5, <1>6 DEF IInv

\* SQLite's cleanup keeps the invariant.
LEMMA CleanupExpiredInv == ASSUME IInv, CleanupExpired PROVE IInv'
<1>1. /\ challenges' \in [Keys -> ChallengeRecord \cup {None}]
      /\ \A k \in Keys : challenges'[k] \in {challenges[k], None}
  <2>1. PICK time \in Clock :
          challenges' = [k \in Keys |-> IF k \in Expired(time) THEN None ELSE challenges[k]]
    BY DEF CleanupExpired
  <2> QED
    BY <2>1 DEF IInv, TypeOK
<1> QED
  BY <1>1, ChallengesShrink DEF CleanupExpired, IInv, TypeOK

\* The memory store's search for expired keys keeps the invariant.
LEMMA ScanExpiredInv == ASSUME IInv, ScanExpired PROVE IInv'
BY ChallengesShrink DEF ScanExpired, Expired, IInv, TypeOK

\* Each deletion of the memory store's cleanup keeps the invariant.
LEMMA DeleteExpiredInv == ASSUME IInv, NEW key \in Keys, DeleteExpired(key) PROVE IInv'
<1>1. /\ challenges' \in [Keys -> ChallengeRecord \cup {None}]
      /\ \A k \in Keys : challenges'[k] \in {challenges[k], None}
      /\ sweep' \subseteq Keys
      /\ backend = "sqlite" => sweep' = {}
  BY DEF DeleteExpired, IInv, TypeOK
<1> QED
  BY <1>1, ChallengesShrink DEF DeleteExpired, IInv, TypeOK

\* Time passing keeps the invariant.
LEMMA TickInv == ASSUME IInv, Tick PROVE IInv'
<1>1. now' \in Time
  BY CeremonyAssumption DEF Tick, IInv, TypeOK, Time
<1> QED
  BY <1>1, ChallengesShrink DEF Tick, IInv, TypeOK

\* No store call reads a clock that is ahead.
LEMMA ClockFacts == ASSUME IInv PROVE Clock \subseteq Time /\ \A time \in Clock : time <= now
BY CeremonyAssumption DEF Clock, IInv, TypeOK, Time

\* A new challenge is in no place yet.
LEMMA SaveChallengeInv ==
  ASSUME IInv, NEW key \in Keys, NEW user \in PasskeyUser \cup {None},
         SaveChallenge(key, user),
         UNCHANGED <<storeVars, backend, now, minted, request, sweep, completed>>
  PROVE  IInv'
<1>0. PICK time \in Clock :
        challenges' = [challenges EXCEPT ![key] =
          [challenge |-> fresh, expires_at |-> time + TTL, user |-> user]]
  BY DEF SaveChallenge
<1> DEFINE record == [challenge |-> fresh, expires_at |-> time + TTL, user |-> user]
<1>1. /\ fresh \in Nat /\ fresh \in Challenges /\ fresh' = fresh + 1
      /\ fresh' \in 0 .. MaxChallenges
      /\ issued_to' = [issued_to EXCEPT ![fresh] = user]
      /\ challenges' = [challenges EXCEPT ![key] = record]
      /\ UNCHANGED <<users, users_by_handle, credentials>>
  <2>1. /\ fresh \in Nat /\ fresh \in Challenges /\ fresh' = fresh + 1
        /\ fresh' \in 0 .. MaxChallenges
        /\ issued_to' = [issued_to EXCEPT ![fresh] = user]
    BY CeremonyAssumption DEF SaveChallenge, IInv, TypeOK, Challenges
  <2> QED
    BY <1>0, <2>1 DEF storeVars
<1>2. record \in ChallengeRecord
  BY <1>1, ClockFacts, CeremonyAssumption DEF ChallengeRecord, Time
<1>3. /\ issued_to' \in [Challenges -> PasskeyUser \cup {None}] /\ issued_to'[fresh] = user
      /\ \A c : c < fresh => issued_to'[c] = issued_to[c]
  <2>1. \A c : c < fresh => c # fresh
    BY <1>1
  <2> QED
    BY <1>1, <2>1 DEF IInv, TypeOK
<1>4. /\ challenges' \in [Keys -> ChallengeRecord \cup {None}] /\ challenges'[key] = record
      /\ \A k \in Keys : k # key => challenges'[k] = challenges[k]
  BY <1>1, <1>2 DEF IInv, TypeOK
<1>5. record.challenge = fresh /\ record.user = user
  OBVIOUS
<1> HIDE DEF record
<1>6. \A c \in Nat : c < fresh => c < fresh' /\ c # fresh
  BY <1>1
<1>7. TypeOK' /\ StoreInv'
  BY <1>1, <1>3, <1>4
  DEF IInv, TypeOK, StoreInv, StoreTypeOK, OwnersExist, HandleIndexInverse
<1>8. None \notin Challenges
  BY CeremonyAssumption DEF Challenges
<1>9. RequestsOK'
  <2>1. ASSUME NEW r \in Requests
        PROVE  RequestOK(request[r])'
    <3>1. RequestOK(request[r]) /\ OriginsOK
      BY DEF IInv, RequestsOK
    <3>2. UNCHANGED <<backend, minted, request>>
      OBVIOUS
    <3> QED
      BY <1>3, <3>1, <3>2
      DEF OriginsOK, RequestOK, CreatedFor, AfterPop, AfterLookup, RegistrationSteps
  <2> QED
    BY <2>1 DEF RequestsOK
<1>10. RecordsIssued'
  <2>1. ASSUME NEW k \in Keys, challenges'[k] # None
        PROVE  /\ challenges'[k].challenge < fresh'
               /\ challenges'[k].user = issued_to'[challenges'[k].challenge]
    <3>1. CASE k = key
      BY <1>1, <1>3, <1>4, <1>5, <3>1
    <3>2. CASE k # key
      BY <1>3, <1>4, <1>6, <2>1, <3>2, ChallengesAreNumbers DEF IInv, RecordsIssued, Issued
    <3> QED
      BY <3>1, <3>2
  <2>2. ASSUME NEW r \in Requests, request[r].taken # None
        PROVE  /\ request[r].taken.challenge < fresh'
               /\ request[r].taken.user = issued_to'[request[r].taken.challenge]
    BY <1>3, <1>6, <2>2, ChallengesAreNumbers DEF IInv, RecordsIssued, Issued
  <2>3. \A i \in 1 .. Len(completed) : completed[i].challenge < fresh'
    BY <1>6, ChallengesAreNumbers DEF IInv, RecordsIssued
  <2> QED
    BY <2>1, <2>2, <2>3 DEF RecordsIssued, Issued
<1>11. OnePlace'
  <2>1. /\ \A k \in Keys : challenges[k] # None => challenges[k].challenge # fresh
        /\ \A r \in Requests : request[r].taken # None => request[r].taken.challenge # fresh
        /\ \A i \in 1 .. Len(completed) : completed[i].challenge # fresh
    BY <1>6, ChallengesAreNumbers DEF IInv, RecordsIssued, Issued
  <2> QED
    BY <1>4, <1>5, <2>1 DEF IInv, OnePlace, ChallengeSingleUse
<1>12. OriginsOK'
  <2>1. \A id \in CredentialIds : minted[id] # None => minted[id] < fresh
    BY DEF IInv, OriginsOK
  <2>2. ASSUME NEW id \in CredentialIds, NEW u, CreatedFor(id, u)
        PROVE  CreatedFor(id, u)'
    BY <1>3, <2>1, <2>2 DEF CreatedFor
  <2>3. ASSUME NEW i \in 1 .. Len(completed)
        PROVE  CreatedFor(completed[i].id, completed[i].user_id)'
    <3>1. completed[i].id \in CredentialIds
      BY CompletedTyped DEF IInv, Completion
    <3> QED
      BY <2>2, <3>1 DEF IInv, OriginsOK, CreatedFor
  <2>4. \A id \in CredentialIds : credentials[id] # None =>
           CreatedFor(id, credentials[id].user_id)' /\ Registered(id)
    BY <1>1, <2>2 DEF IInv, OriginsOK, CreatedFor
  <2> QED
    BY <1>1, <1>6, <2>1, <2>3, <2>4, ChallengesAreNumbers
    DEF IInv, OriginsOK, CreatedFor, Registered
<1>13. CountersOK'
  BY <1>1 DEF IInv, CountersOK, CountersAdvance, LaterLogin
<1> QED
  BY <1>7, <1>9, <1>10, <1>11, <1>12, <1>13 DEF IInv

\* begin_registration keeps the invariant.
LEMMA BeginRegistrationInv ==
  ASSUME IInv, NEW flow \in Flows, NEW user \in Subjects, BeginRegistration(flow, user)
  PROVE  IInv'
<1>1. <<flow, "registration">> \in Keys /\ user \in PasskeyUser
  BY CeremonyAssumption DEF Keys, Kinds
<1> QED
  BY <1>1, SaveChallengeInv DEF BeginRegistration

\* begin_authentication keeps the invariant.
LEMMA BeginAuthenticationInv ==
  ASSUME IInv, NEW flow \in Flows, BeginAuthentication(flow)
  PROVE  IInv'
<1>1. <<flow, "authentication">> \in Keys
  BY DEF Keys, Kinds
<1> QED
  BY <1>1, SaveChallengeInv DEF BeginAuthentication
-----------------------------------------------------------------------------
(***************************************************************************)
(* pop moves a challenge from the store to the request.                    *)
(***************************************************************************)
LEMMA PopInv ==
  ASSUME IInv, NEW r \in Requests, NEW kind \in Kinds, NEW next \in Steps,
         request[r].flow \in Flows, Pop(r, kind, next),
         \A record \in ChallengeRecord : record # None =>
           RequestOK([request[r] EXCEPT !.step = next, !.taken = record]),
         UNCHANGED <<storeVars, backend, now, fresh, issued_to, minted, sweep, completed>>
  PROVE  IInv'
<1> DEFINE key == <<request[r].flow, kind>>
<1>0. PICK time \in Clock :
        /\ challenges' = Forget(key, time)
        /\ IF Live(key, time)
           THEN request' = [request EXCEPT ![r].step = next, ![r].taken = challenges[key]]
           ELSE Fail(r)
  BY DEF Pop
<1> DEFINE new == IF Live(key, time)
                  THEN [request[r] EXCEPT !.step = next, !.taken = challenges[key]]
                  ELSE Idle
<1>1. /\ key \in Keys /\ request[r] \in Request
      /\ challenges \in [Keys -> ChallengeRecord \cup {None}]
  BY DEF Keys, IInv, TypeOK
<1>2. /\ challenges' \in [Keys -> ChallengeRecord \cup {None}]
      /\ \A k \in Keys : challenges'[k] \in {challenges[k], None}
      /\ Live(key, time) => challenges'[key] = None
  BY <1>0, <1>1 DEF Forget
<1>3. new \in Request /\ RequestOK(new)
  <2>1. CASE Live(key, time)
    <3>1. challenges[key] \in ChallengeRecord /\ challenges[key] # None
      BY <1>1, <2>1 DEF Live
    <3> QED
      BY <1>1, <2>1, <3>1 DEF Request
  <2>2. CASE ~Live(key, time)
    BY <2>2, IdleOK
  <2> QED
    BY <2>1, <2>2
<1>4. request' = [request EXCEPT ![r] = new]
  <2>1. CASE Live(key, time)
    BY <1>0, <1>1, <2>1
  <2>2. CASE ~Live(key, time)
    BY <1>0, <2>2 DEF Fail
  <2> QED
    BY <2>1, <2>2
<1>5. /\ request' \in [Requests -> Request] /\ request'[r] = new
      /\ \A s \in Requests : s # r => request'[s] = request[s]
  BY <1>3, <1>4 DEF IInv, TypeOK
<1>6. new.taken # None =>
        challenges[key] # None /\ challenges'[key] = None /\ new.taken = challenges[key]
  <2>1. CASE Live(key, time)
    BY <1>1, <1>2, <2>1 DEF Live, Request
  <2>2. CASE ~Live(key, time)
    BY <2>2, IdleOK
  <2> QED
    BY <2>1, <2>2
<1> HIDE DEF new, key
<1>7. UNCHANGED <<users, users_by_handle, credentials>>
  BY DEF storeVars
<1>8. TypeOK' /\ StoreInv'
  BY <1>2, <1>5, <1>7
  DEF IInv, TypeOK, StoreInv, StoreTypeOK, OwnersExist, HandleIndexInverse
<1>9. RequestsOK'
  BY <1>3, <1>5 DEF IInv, RequestsOK, RequestOK, CreatedFor
<1>10. RecordsIssued'
  BY <1>1, <1>2, <1>5, <1>6 DEF IInv, RecordsIssued, Issued
<1>11. OnePlace'
  <2>1. /\ \A k, l \in Keys :
             challenges'[k] # None /\ challenges'[l] # None
               /\ challenges'[k].challenge = challenges'[l].challenge => k = l
        /\ \A k \in Keys, i \in 1 .. Len(completed) :
             challenges'[k] # None => challenges'[k].challenge # completed[i].challenge
    BY <1>2 DEF IInv, OnePlace
  <2>2. ASSUME NEW k \in Keys, NEW s \in Requests,
               challenges'[k] # None, request'[s].taken # None
        PROVE  challenges'[k].challenge # request'[s].taken.challenge
    <3>1. challenges'[k] = challenges[k] /\ challenges[k] # None
      BY <1>2, <2>2
    <3>2. CASE s = r
      <4>1. k # key /\ challenges[key] # None /\ request'[s].taken = challenges[key]
        BY <1>5, <1>6, <2>2, <3>2
      <4> QED
        BY <1>1, <3>1, <4>1 DEF IInv, OnePlace
    <3>3. CASE s # r
      <4>1. request'[s].taken = request[s].taken
        BY <1>5, <3>3
      <4> QED
        BY <2>2, <3>1, <4>1 DEF IInv, OnePlace
    <3> QED
      BY <3>2, <3>3
  <2>3. ASSUME NEW s \in Requests, request'[s].taken # None
        PROVE  \/ s # r /\ request'[s].taken = request[s].taken
               \/ s = r /\ challenges[key] # None /\ request'[s].taken = challenges[key]
    BY <1>5, <1>6, <2>3
  <2>4. ASSUME NEW s \in Requests, NEW t \in Requests,
               request'[s].taken # None, request'[t].taken # None,
               request'[s].taken.challenge = request'[t].taken.challenge
        PROVE  s = t
    <3>1. \A q \in Requests :
             request[q].taken # None /\ challenges[key] # None =>
               challenges[key].challenge # request[q].taken.challenge
      BY <1>1 DEF IInv, OnePlace
    <3>2. CASE s # r /\ t # r
      <4>1. request'[s].taken = request[s].taken /\ request'[t].taken = request[t].taken
        BY <2>3, <2>4, <3>2
      <4> QED
        BY <2>4, <4>1 DEF IInv, OnePlace
    <3>3. CASE s = r \/ t = r
      BY <2>3, <2>4, <3>1, <3>3
    <3> QED
      BY <3>2, <3>3
  <2>5. ASSUME NEW s \in Requests, NEW i \in 1 .. Len(completed), request'[s].taken # None
        PROVE  request'[s].taken.challenge # completed[i].challenge
    <3>1. CASE s = r
      <4>1. challenges[key] # None /\ request'[s].taken = challenges[key]
        BY <2>3, <2>5, <3>1
      <4> QED
        BY <1>1, <4>1 DEF IInv, OnePlace
    <3>2. CASE s # r
      <4>1. request'[s].taken = request[s].taken
        BY <1>5, <3>2
      <4> QED
        BY <2>5, <4>1 DEF IInv, OnePlace
    <3> QED
      BY <3>1, <3>2
  <2> QED
    BY <2>1, <2>2, <2>4, <2>5 DEF IInv, OnePlace, ChallengeSingleUse
<1>12. OriginsOK' /\ CountersOK'
  BY <1>7
  DEF IInv, OriginsOK, CountersOK, CreatedFor, Registered, CountersAdvance, LaterLogin
<1> QED
  BY <1>8, <1>9, <1>10, <1>11, <1>12 DEF IInv

\* A login's pop keeps the invariant.
LEMMA PopAuthenticationInv ==
  ASSUME IInv, NEW r \in Requests, PopAuthentication(r)
  PROVE  IInv'
<1>1. /\ request[r] \in Request /\ RequestOK(request[r])
      /\ request[r].step = "pop_authentication"
  BY DEF PopAuthentication, IInv, TypeOK, RequestsOK
<1>2. ASSUME NEW record \in ChallengeRecord, record # None
      PROVE  RequestOK([request[r] EXCEPT !.step = "verify_assertion", !.taken = record])
  BY <1>1, <1>2
  DEF Request, RequestOK, CreatedFor, AfterPop, AfterLookup, RegistrationSteps
<1>3. request[r].flow \in Flows /\ "authentication" \in Kinds /\ "verify_assertion" \in Steps
  BY <1>1 DEF RequestOK, Kinds, Steps
<1> QED
  BY <1>2, <1>3, PopInv DEF PopAuthentication

\* A registration's pop keeps the invariant.
LEMMA PopRegistrationInv ==
  ASSUME IInv, NEW r \in Requests, PopRegistration(r)
  PROVE  IInv'
<1>1. /\ request[r] \in Request /\ RequestOK(request[r])
      /\ request[r].step = "pop_registration"
  BY DEF PopRegistration, IInv, TypeOK, RequestsOK
<1>2. ASSUME NEW record \in ChallengeRecord, record # None
      PROVE  RequestOK([request[r] EXCEPT !.step = "verify_attestation", !.taken = record])
  BY <1>1, <1>2
  DEF Request, RequestOK, CreatedFor, AfterPop, AfterLookup, RegistrationSteps
<1>3. request[r].flow \in Flows /\ "registration" \in Kinds /\ "verify_attestation" \in Steps
  BY <1>1 DEF RequestOK, Kinds, Steps
<1> QED
  BY <1>2, <1>3, PopInv DEF PopRegistration
-----------------------------------------------------------------------------
(***************************************************************************)
(* A ceremony that succeeds moves its challenge from the request to the    *)
(* history, whatever it does to the store.                                 *)
(***************************************************************************)
LEMMA CompleteInv ==
  ASSUME IInv, NEW r \in Requests, NEW kind \in Kinds, NEW user_id \in UserIds,
         NEW expected \in SignCounts, request[r].step \in AfterPop,
         Complete(r, kind, user_id, expected), StoreInv',
         UNCHANGED <<backend, now, challenges, fresh, issued_to, minted, sweep>>
  PROVE  /\ TypeOK' /\ RequestsOK' /\ RecordsIssued' /\ OnePlace'
         /\ Len(completed) \in Nat /\ Len(completed') = Len(completed) + 1
         /\ \A i \in 1 .. Len(completed) : completed'[i] = completed[i]
         /\ completed'[Len(completed) + 1] =
              [kind |-> kind, challenge |-> request[r].taken.challenge, id |-> request[r].id,
               user_id |-> user_id, expected |-> expected, count |-> request[r].count]
<1> DEFINE q == request[r]
           n == Len(completed) + 1
           e == [kind |-> kind, challenge |-> q.taken.challenge, id |-> q.id,
                 user_id |-> user_id, expected |-> expected, count |-> q.count]
<1>1. /\ completed \in Seq(Completion) /\ completed' = Append(completed, e)
      /\ request' = [request EXCEPT ![r] = Idle]
  BY DEF Complete, Fail, IInv, TypeOK
<1>2. q \in Request /\ q.taken # None /\ q.id \in CredentialIds
  BY DEF IInv, TypeOK, RequestsOK, RequestOK, AfterPop
<1>3. e \in Completion
  BY <1>2 DEF Request, ChallengeRecord, Completion
<1>4. /\ completed' \in Seq(Completion)
      /\ Len(completed) \in Nat /\ Len(completed') = n
      /\ \A i \in 1 .. Len(completed) : completed'[i] = completed[i]
      /\ completed'[n] = e
  BY <1>1, <1>3, AppendProperties, LenProperties
<1>5. e.challenge = q.taken.challenge
  OBVIOUS
<1> HIDE DEF e
<1>6. /\ request' \in [Requests -> Request] /\ request'[r] = Idle /\ Idle.taken = None
      /\ \A s \in Requests : s # r => request'[s] = request[s]
  BY <1>1, IdleOK DEF IInv, TypeOK
<1>7. \A i \in 1 .. Len(completed') : i = n \/ i \in 1 .. Len(completed)
  BY <1>4
<1>8. TypeOK'
  BY <1>4, <1>6 DEF IInv, TypeOK, StoreInv
<1>9. RequestsOK'
  <2>1. RequestOK(Idle)'
    BY IdleOK DEF RequestOK, CreatedFor
  <2> QED
    BY <1>6, <2>1 DEF IInv, RequestsOK, RequestOK, CreatedFor
<1>10. RecordsIssued'
  <2>1. \A s \in Requests : request'[s].taken # None => s # r
    BY <1>6
  <2>2. q.taken.challenge < fresh
    BY <1>2 DEF IInv, RecordsIssued, Issued
  <2>3. \A i \in 1 .. Len(completed') : completed'[i].challenge < fresh
    BY <1>4, <1>5, <1>7, <2>2 DEF IInv, RecordsIssued
  <2> QED
    BY <1>6, <2>1, <2>3 DEF IInv, RecordsIssued, Issued
<1>11. OnePlace'
  <2>1. \A s \in Requests : request'[s].taken # None =>
          s # r /\ request'[s].taken = request[s].taken
    BY <1>6
  <2>2. ASSUME NEW k \in Keys, NEW i \in 1 .. Len(completed'), challenges[k] # None
        PROVE  challenges[k].challenge # completed'[i].challenge
    BY <1>2, <1>4, <1>5, <1>7, <2>2 DEF IInv, OnePlace
  <2>3. ASSUME NEW s \in Requests, NEW i \in 1 .. Len(completed'), request'[s].taken # None
        PROVE  request'[s].taken.challenge # completed'[i].challenge
    <3>1. s # r /\ request'[s].taken = request[s].taken /\ request[s].taken # None
      BY <2>1, <2>3
    <3>2. CASE i = n
      BY <1>2, <1>4, <1>5, <3>1, <3>2 DEF IInv, OnePlace
    <3>3. CASE i \in 1 .. Len(completed)
      BY <1>4, <3>1, <3>3 DEF IInv, OnePlace
    <3> QED
      BY <1>7, <3>2, <3>3
  <2>4. \A i \in 1 .. Len(completed) : q.taken.challenge # completed[i].challenge
    BY <1>2 DEF IInv, OnePlace
  <2>5. ASSUME NEW i \in 1 .. Len(completed'), NEW j \in 1 .. Len(completed'), i # j
        PROVE  completed'[i].challenge # completed'[j].challenge
    <3>1. CASE i = n
      BY <1>4, <1>5, <1>7, <2>4, <2>5, <3>1
    <3>2. CASE j = n
      BY <1>4, <1>5, <1>7, <2>4, <2>5, <3>2
    <3>3. CASE i \in 1 .. Len(completed) /\ j \in 1 .. Len(completed)
      BY <1>4, <2>5, <3>3 DEF IInv, OnePlace, ChallengeSingleUse
    <3> QED
      BY <1>7, <3>1, <3>2, <3>3
  <2>6. /\ \A k, l \in Keys :
             challenges[k] # None /\ challenges[l] # None
               /\ challenges[k].challenge = challenges[l].challenge => k = l
        /\ \A k \in Keys, s \in Requests :
             challenges[k] # None /\ request'[s].taken # None =>
               challenges[k].challenge # request'[s].taken.challenge
    BY <2>1 DEF IInv, OnePlace
  <2>7. \A s, t \in Requests :
          request'[s].taken # None /\ request'[t].taken # None
            /\ request'[s].taken.challenge = request'[t].taken.challenge => s = t
    BY <2>1 DEF IInv, OnePlace
  <2> QED
    BY <2>2, <2>3, <2>5, <2>6, <2>7 DEF OnePlace, ChallengeSingleUse
<1> QED
  BY <1>4, <1>8, <1>9, <1>10, <1>11 DEF e

\* The last step of a login keeps the invariant, whether its compare-and-set wins
\* or not.
LEMMA FinishLoginInv == ASSUME IInv, NEW r \in Requests, FinishLogin(r) PROVE IInv'
<1> DEFINE q == request[r]
           id == q.id
           expected == StoredSignCount(r)
           n == Len(completed) + 1
<1>1. /\ q \in Request /\ q.step = "cas" /\ RequestOK(q)
      /\ UNCHANGED <<backend, now, challenges, fresh, issued_to, minted, sweep>>
  BY DEF FinishLogin, IInv, TypeOK, RequestsOK
<1>2. id \in CredentialIds /\ q.owner \in UserIds /\ CreatedFor(id, q.owner)
  BY <1>1 DEF RequestOK, AfterLookup
<1>3. CASE Fail(r) /\ UNCHANGED <<storeVars, completed>>
  BY <1>1, <1>3, FailInv
<1>4. CASE /\ CompareAndSetCredentialAfterLogin(id, expected, q.count)
           /\ Complete(r, "authentication", q.owner, expected)
  <2>1. expected \in SignCounts /\ q.count \in SignCounts
    BY <1>1, <1>2 DEF StoredSignCount, Request, IInv, StoreInv, StoreTypeOK, PasskeyCredential
  <2>2. /\ StoreInv'
        /\ credentials[id] # None /\ credentials'[id] # None
        /\ credentials[id].sign_count <= q.count /\ credentials'[id].sign_count = q.count
    BY <1>2, <1>4, <2>1, CompareAndSetInv DEF IInv
  <2>3. /\ \A c \in CredentialIds : c # id => credentials'[c] = credentials[c]
        /\ credentials'[id].user_id = credentials[id].user_id
    <3>1. credentials[id] \in PasskeyCredential /\ credentials \in [CredentialIds -> PasskeyCredential \cup {None}]
      BY <1>2, <2>2 DEF IInv, StoreInv, StoreTypeOK
    <3> QED
      BY <1>2, <1>4, <3>1 DEF CompareAndSetCredentialAfterLogin, PasskeyCredential
  <2>4. /\ TypeOK' /\ RequestsOK' /\ RecordsIssued' /\ OnePlace'
        /\ Len(completed) \in Nat /\ Len(completed') = n
        /\ \A i \in 1 .. Len(completed) : completed'[i] = completed[i]
        /\ completed'[n] =
              [kind |-> "authentication", challenge |-> q.taken.challenge, id |-> id,
               user_id |-> q.owner, expected |-> expected, count |-> q.count]
    <3>1. q.step \in AfterPop /\ "authentication" \in Kinds
      BY <1>1 DEF AfterPop, Kinds
    <3> QED
      BY <1>1, <1>2, <1>4, <2>1, <2>2, <3>1, CompleteInv
  <2>5. \A i \in 1 .. Len(completed') : i = n \/ i \in 1 .. Len(completed)
    BY <2>4
  <2>6. \A i \in 1 .. Len(completed) : completed[i] \in Completion
    BY CompletedTyped DEF IInv
  <2>7. Registered(id) /\ \A c : Registered(c) => Registered(c)'
    <3>1. Registered(id)
      BY <1>2, <2>2 DEF IInv, OriginsOK
    <3>2. ASSUME NEW c, Registered(c)
          PROVE  Registered(c)'
      <4>1. PICK i \in 1 .. Len(completed) : completed[i].challenge = minted[c]
        BY <3>2 DEF Registered
      <4>2. i \in 1 .. Len(completed') /\ completed'[i].challenge = minted'[c]
        BY <1>1, <2>4, <4>1
      <4> QED
        BY <4>2 DEF Registered
    <3> QED
      BY <3>1, <3>2
  <2>8. OriginsOK'
    <3>1. ASSUME NEW c \in CredentialIds, credentials'[c] # None
          PROVE  CreatedFor(c, credentials[c].user_id) /\ Registered(c)
                 /\ credentials'[c].user_id = credentials[c].user_id
      BY <2>2, <2>3, <3>1 DEF IInv, OriginsOK
    <3>2. ASSUME NEW i \in 1 .. Len(completed')
          PROVE  CreatedFor(completed'[i].id, completed'[i].user_id) /\ Registered(completed'[i].id)
      BY <1>2, <2>4, <2>5, <2>7 DEF IInv, OriginsOK
    <3>3. \A c \in CredentialIds : minted'[c] # None => minted'[c] < fresh'
      BY <1>1 DEF IInv, OriginsOK
    <3> HIDE DEF id
    <3>4. ASSUME NEW c, NEW u, CreatedFor(c, u)
          PROVE  CreatedFor(c, u)'
      BY <1>1, <3>4 DEF CreatedFor
    <3>5. ASSUME NEW c \in CredentialIds, credentials'[c] # None
          PROVE  CreatedFor(c, credentials[c].user_id)' /\ Registered(c)'
      BY <1>1, <2>7, <3>1, <3>5 DEF CreatedFor
    <3>6. ASSUME NEW i \in 1 .. Len(completed')
          PROVE  CreatedFor(completed[i].id, completed[i].user_id)' /\ Registered(completed[i].id)'
      BY <1>1, <2>7, <3>2 DEF CreatedFor, Registered
    <3> QED
      BY <1>1, <3>1, <3>3, <3>5, <3>6 DEF OriginsOK, CreatedFor
  <2>9. \A i \in 1 .. Len(completed) :
          completed[i].id = id => completed[i].count <= credentials[id].sign_count
    BY <2>2 DEF IInv, CountersOK
  <2>10. credentials[id].sign_count \in Nat /\ q.count \in Nat
    BY <1>2, <2>1, <2>2, MaxSignCountAssumption
    DEF IInv, StoreInv, StoreTypeOK, PasskeyCredential, SignCounts
  <2>11. \A i \in 1 .. Len(completed) : completed[i].count \in Nat /\ completed[i].id \in CredentialIds
    BY <2>6, MaxSignCountAssumption DEF Completion, SignCounts
  <2>12. CountersOK'
    <3>1. ASSUME NEW i \in 1 .. Len(completed'), credentials'[completed'[i].id] # None
          PROVE  completed'[i].count <= credentials'[completed'[i].id].sign_count
      <4>1. CASE i = n
        BY <2>2, <2>4, <2>10, <4>1
      <4>2. CASE i \in 1 .. Len(completed) /\ completed[i].id = id
        BY <2>2, <2>4, <2>9, <2>10, <2>11, <4>2
      <4>3. CASE i \in 1 .. Len(completed) /\ completed[i].id # id
        BY <2>3, <2>4, <2>11, <3>1, <4>3 DEF IInv, CountersOK
      <4> QED
        BY <2>5, <4>1, <4>2, <4>3
    <3>2. ASSUME NEW i \in 1 .. Len(completed'), NEW j \in 1 .. Len(completed'),
                 LaterLogin(i, j)'
          PROVE  /\ completed'[i].count <= completed'[j].count
                 /\ backend = "sqlite" /\ completed'[j].expected # 0 =>
                      completed'[i].count < completed'[j].count
      <4>1. i < j /\ completed'[i].id = completed'[j].id /\ completed'[j].kind = "authentication"
        BY <3>2 DEF LaterLogin
      <4>2. i \in 1 .. Len(completed)
        BY <2>4, <2>5, <4>1
      <4>3. CASE j = n
        <5>1. completed[i].id = id /\ completed'[i] = completed[i]
          BY <2>4, <4>1, <4>2, <4>3
        <5>2. completed[i].count <= q.count
          BY <2>2, <2>9, <2>10, <2>11, <4>2, <5>1
        <5>3. ASSUME backend = "sqlite", expected # 0
              PROVE  completed[i].count < q.count
          <6>1. expected = q.seen /\ q.count > q.seen
            BY <1>1, <5>3 DEF StoredSignCount, RequestOK
          <6>2. credentials[id].sign_count = expected
            BY <1>4, <5>3, NoneAssumption
            DEF CompareAndSetCredentialAfterLogin, LoginRefusal
          <6> QED
            BY <2>9, <2>10, <2>11, <4>2, <5>1, <6>1, <6>2
        <5> QED
          BY <2>4, <4>3, <5>1, <5>2, <5>3
      <4>4. CASE j \in 1 .. Len(completed)
        <5>1. LaterLogin(i, j) /\ completed'[i] = completed[i] /\ completed'[j] = completed[j]
          BY <2>4, <4>1, <4>2, <4>4 DEF LaterLogin
        <5> QED
          BY <4>2, <4>4, <5>1 DEF IInv, CountersOK, CountersAdvance
      <4> QED
        BY <2>5, <4>3, <4>4
    <3> QED
      BY <1>1, <3>1, <3>2 DEF CountersOK, CountersAdvance
  <2> QED
    BY <1>1, <2>2, <2>4, <2>8, <2>12 DEF IInv
<1> QED
  BY <1>3, <1>4 DEF FinishLogin
\* Only one registration of a credential can succeed: its challenge is not in
\* the history yet, so neither is the credential, nor is it stored.
LEMMA FinishRegistrationInv ==
  ASSUME IInv, NEW r \in Requests, NEW public_key \in PublicKeys,
         FinishRegistration(r, public_key)
  PROVE  IInv'
<1> DEFINE q == request[r]
           id == q.id
           user == q.taken.user
           credential == [user_id |-> user.user_id, public_key |-> public_key,
                          sign_count |-> q.count, label |-> None]
           n == Len(completed) + 1
<1>1. /\ q \in Request /\ q.step = "save" /\ RequestOK(q)
      /\ UNCHANGED <<backend, now, challenges, fresh, issued_to, minted, sweep>>
  BY DEF FinishRegistration, IInv, TypeOK, RequestsOK
<1>2. /\ id \in CredentialIds /\ q.taken # None /\ user # None
      /\ minted[id] = q.taken.challenge /\ q.signed \in Challenges
      /\ q.signed = q.taken.challenge
  BY <1>1 DEF RequestOK, AfterPop, RegistrationSteps
<1>3. user \in PasskeyUser /\ user.user_id \in UserIds
  BY <1>1, <1>2 DEF Request, ChallengeRecord, PasskeyUser
<1>4. CreatedFor(id, user.user_id)
  <2>1. issued_to[q.taken.challenge] = user
    BY <1>2 DEF IInv, RecordsIssued, Issued
  <2>2. minted[id] # None
    BY <1>2, CeremonyAssumption DEF Challenges
  <2> QED
    BY <1>2, <2>1, <2>2 DEF CreatedFor
<1>5. ~Registered(id)
  BY <1>2 DEF Registered, IInv, OnePlace
<1>6. /\ credentials[id] = None
      /\ \A i \in 1 .. Len(completed) : completed[i].id # id
  BY <1>2, <1>5 DEF IInv, OriginsOK
<1>7. CASE Fail(r) /\ UNCHANGED <<storeVars, completed>>
  BY <1>1, <1>7, FailInv
<1>8. CASE /\ SaveRegistration(user, id, credential)
           /\ Complete(r, "registration", user.user_id, 0)
  <2>1. credential \in PasskeyCredential
    BY <1>1, <1>3 DEF PasskeyCredential, Request
  <2>2. StoreInv'
    BY <1>2, <1>3, <1>8, <2>1, SaveRegistrationInv DEF IInv
  <2>3. /\ credentials'[id] = credential
        /\ \A c \in CredentialIds : c # id => credentials'[c] = credentials[c]
    BY <1>2, <1>6, <1>8 DEF SaveRegistration, IInv, StoreInv, StoreTypeOK
  <2>4. /\ TypeOK' /\ RequestsOK' /\ RecordsIssued' /\ OnePlace'
        /\ Len(completed) \in Nat /\ Len(completed') = n
        /\ \A i \in 1 .. Len(completed) : completed'[i] = completed[i]
        /\ completed'[n] =
              [kind |-> "registration", challenge |-> q.taken.challenge, id |-> id,
               user_id |-> user.user_id, expected |-> 0, count |-> q.count]
    <3>1. q.step \in AfterPop /\ "registration" \in Kinds /\ 0 \in SignCounts
      BY <1>1, MaxSignCountAssumption DEF AfterPop, Kinds, SignCounts
    <3> QED
      BY <1>1, <1>3, <1>8, <2>2, <3>1, CompleteInv
  <2>5. \A i \in 1 .. Len(completed') : i = n \/ i \in 1 .. Len(completed)
    BY <2>4
  <2>6. \A i \in 1 .. Len(completed) : completed[i] \in Completion
    BY CompletedTyped DEF IInv
  <2>7. q.count \in Nat
    BY <1>1, MaxSignCountAssumption DEF Request, SignCounts
  <2>8. OriginsOK'
    <3>1. /\ \A c : Registered(c) => \E i \in 1 .. Len(completed') : completed'[i].challenge = minted[c]
          /\ \E i \in 1 .. Len(completed') : completed'[i].challenge = minted[id]
      <4>1. n \in 1 .. Len(completed') /\ completed'[n].challenge = minted[id]
        BY <1>2, <2>4
      <4>2. ASSUME NEW c, Registered(c)
            PROVE  \E i \in 1 .. Len(completed') : completed'[i].challenge = minted[c]
        <5>1. PICK i \in 1 .. Len(completed) : completed[i].challenge = minted[c]
          BY <4>2 DEF Registered
        <5>2. i \in 1 .. Len(completed') /\ completed'[i].challenge = minted[c]
          BY <2>4, <5>1
        <5> QED
          BY <5>2
      <4> QED
        BY <4>1, <4>2
    <3>2. ASSUME NEW c \in CredentialIds, credentials'[c] # None
          PROVE  /\ CreatedFor(c, credentials'[c].user_id)
                 /\ \E i \in 1 .. Len(completed') : completed'[i].challenge = minted[c]
      <4>1. CASE c = id
        BY <1>4, <2>3, <3>1, <4>1
      <4>2. CASE c # id
        BY <2>3, <3>1, <3>2, <4>2 DEF IInv, OriginsOK
      <4> QED
        BY <4>1, <4>2
    <3>3. ASSUME NEW i \in 1 .. Len(completed')
          PROVE  /\ CreatedFor(completed'[i].id, completed'[i].user_id)
                 /\ \E j \in 1 .. Len(completed') :
                      completed'[j].challenge = minted[completed'[i].id]
      <4>1. CASE i = n
        BY <1>4, <2>4, <3>1, <4>1
      <4>2. CASE i \in 1 .. Len(completed)
        BY <2>4, <3>1, <4>2 DEF IInv, OriginsOK
      <4> QED
        BY <2>5, <4>1, <4>2
    <3> HIDE DEF id, user, credential
    <3> QED
      BY <1>1, <3>2, <3>3 DEF IInv, OriginsOK, CreatedFor, Registered
  <2>9. CountersOK'
    <3>1. ASSUME NEW i \in 1 .. Len(completed'), credentials'[completed'[i].id] # None
          PROVE  completed'[i].count <= credentials'[completed'[i].id].sign_count
      <4>1. CASE i = n
        BY <2>3, <2>4, <2>7, <4>1
      <4>2. CASE i \in 1 .. Len(completed)
        BY <1>6, <2>3, <2>4, <2>6, <3>1, <4>2 DEF Completion, IInv, CountersOK
      <4> QED
        BY <2>5, <4>1, <4>2
    <3>2. ASSUME NEW i \in 1 .. Len(completed'), NEW j \in 1 .. Len(completed'),
                 LaterLogin(i, j)'
          PROVE  /\ completed'[i].count <= completed'[j].count
                 /\ backend = "sqlite" /\ completed'[j].expected # 0 =>
                      completed'[i].count < completed'[j].count
      <4>1. i < j /\ completed'[i].id = completed'[j].id /\ completed'[j].kind = "authentication"
        BY <3>2 DEF LaterLogin
      <4>2. i \in 1 .. Len(completed) /\ j \in 1 .. Len(completed)
        BY <2>4, <2>5, <4>1
      <4>3. LaterLogin(i, j) /\ completed'[i] = completed[i] /\ completed'[j] = completed[j]
        BY <2>4, <4>1, <4>2 DEF LaterLogin
      <4> QED
        BY <4>2, <4>3 DEF IInv, CountersOK, CountersAdvance
    <3> QED
      BY <1>1, <3>1, <3>2 DEF CountersOK, CountersAdvance
  <2> QED
    BY <1>1, <2>2, <2>4, <2>8, <2>9 DEF IInv
<1> QED
  BY <1>7, <1>8 DEF FinishRegistration

\* A registration the host denies keeps the invariant.
LEMMA DenyRegistrationInv == ASSUME IInv, NEW r \in Requests, DenyRegistration(r) PROVE IInv'
BY FailInv DEF DenyRegistration

\* remove_credential keeps the invariant: it only ever takes credentials away.
LEMMA RemoveCredentialInv ==
  ASSUME IInv, NEW user_id \in UserIds, NEW id \in CredentialIds, NEW allow_final \in BOOLEAN,
         RemoveCredential(user_id, id, allow_final)
  PROVE  IInv'
<1>1. /\ DeleteCredential(id, user_id, ~allow_final)
      /\ UNCHANGED <<backend, now, challenges, fresh, issued_to, minted, request, sweep, completed>>
  <2>1. DeleteCredential(id, user_id, ~allow_final) /\ UNCHANGED ceremonyVars
    BY DEF RemoveCredential
  <2> QED
    BY <2>1 DEF ceremonyVars
<1>2. StoreInv'
  BY <1>1, DeleteCredentialInv DEF IInv
<1>3. \A c \in CredentialIds : credentials'[c] \in {credentials[c], None}
  BY <1>1 DEF DeleteCredential, IInv, StoreInv, StoreTypeOK
<1>4. TypeOK'
  BY <1>1, <1>2 DEF IInv, TypeOK, StoreInv
<1>5. RequestsOK' /\ RecordsIssued' /\ OnePlace'
  BY <1>1
  DEF IInv, RequestsOK, RequestOK, CreatedFor, RecordsIssued, Issued, OnePlace,
      ChallengeSingleUse
<1>6. OriginsOK'
  BY <1>1, <1>3 DEF IInv, OriginsOK, CreatedFor, Registered
<1>7. CountersOK'
  <2>1. \A i \in 1 .. Len(completed) : completed[i].id \in CredentialIds
    BY CompletedTyped DEF IInv, Completion
  <2> QED
    BY <1>1, <1>3, <2>1 DEF IInv, CountersOK, CountersAdvance, LaterLogin
<1> QED
  BY <1>1, <1>2, <1>4, <1>5, <1>6, <1>7 DEF IInv
-----------------------------------------------------------------------------
\* Every step of a request that has begun keeps the invariant.
LEMMA ResponseStepsInv == ASSUME IInv, NEW r \in Requests, ResponseSteps(r) PROVE IInv'
<1>1. CASE LookupCredential(r)
  BY <1>1, LookupCredentialInv
<1>2. ASSUME NEW handle \in Handles \cup {None}, NEW require_user_handle \in BOOLEAN,
             CheckUserHandle(r, handle, require_user_handle)
      PROVE  IInv'
  BY <1>2, CheckUserHandleInv
<1>3. CASE PopAuthentication(r)
  BY <1>3, PopAuthenticationInv
<1>4. ASSUME NEW count \in SignCounts, VerifyAssertion(r, count) PROVE IInv'
  BY <1>4, VerifyAssertionInv
<1>5. CASE FinishLogin(r)
  BY <1>5, FinishLoginInv
<1>6. CASE PopRegistration(r)
  BY <1>6, PopRegistrationInv
<1>7. ASSUME NEW count \in SignCounts, VerifyAttestation(r, count) PROVE IInv'
  BY <1>7, VerifyAttestationInv
<1>8. ASSUME NEW public_key \in PublicKeys, FinishRegistration(r, public_key) PROVE IInv'
  BY <1>8, FinishRegistrationInv
<1>9. CASE DenyRegistration(r)
  BY <1>9, DenyRegistrationInv
<1> QED
  BY <1>1, <1>2, <1>3, <1>4, <1>5, <1>6, <1>7, <1>8, <1>9 DEF ResponseSteps

\* Every step keeps the invariant.
LEMMA StepInv == IInv /\ [Next]_vars => IInv'
<1> SUFFICES ASSUME IInv, [Next]_vars PROVE IInv'
  OBVIOUS
<1>1. CASE UNCHANGED vars
  <2>1. UNCHANGED <<storeVars, backend, now, challenges, fresh, issued_to, minted, request, sweep,
                    completed>>
    BY <1>1 DEF vars, ceremonyVars
  <2> QED
    BY <2>1, ChallengesShrink DEF IInv, TypeOK
<1>2. ASSUME NEW flow \in Flows,
             BeginAuthentication(flow) \/ \E user \in Subjects : BeginRegistration(flow, user)
      PROVE  IInv'
  BY <1>2, BeginAuthenticationInv, BeginRegistrationInv
<1>3. ASSUME NEW r \in Requests, NewRequest(r)
      PROVE  IInv'
  BY <1>3, StartLoginInv, StartRegistrationInv DEF NewRequest
<1>4. ASSUME NEW r \in Requests, ResponseSteps(r)
      PROVE  IInv'
  BY <1>4, ResponseStepsInv
<1>5. ASSUME NEW user_id \in UserIds, NEW id \in CredentialIds, NEW allow_final \in BOOLEAN,
             RemoveCredential(user_id, id, allow_final)
      PROVE  IInv'
  BY <1>5, RemoveCredentialInv
<1>6. CASE CleanupExpired \/ ScanExpired \/ (\E key \in Keys : DeleteExpired(key)) \/ Tick
  BY <1>6, CleanupExpiredInv, ScanExpiredInv, DeleteExpiredInv, TickInv
<1> QED
  BY <1>1, <1>2, <1>3, <1>4, <1>5, <1>6 DEF Next

\* The inductive invariant holds in every reachable state.
LEMMA Invariant == Spec => []IInv
BY InitInv, StepInv, PTL DEF Spec

\* The stores, the requests and the history always hold values of their types.
THEOREM CeremonyTypeCorrect == Spec => []TypeOK
<1>1. IInv => TypeOK
  BY DEF IInv
<1> QED
  BY <1>1, Invariant, PTL

\* No two ceremonies ever succeed on the same challenge, over either store.
THEOREM CeremonyChallengeSingleUse == Spec => []ChallengeSingleUse
<1>1. IInv => ChallengeSingleUse
  BY DEF IInv, OnePlace
<1> QED
  BY <1>1, Invariant, PTL

\* Accepted counters never go back, and over SQLite only one login wins from
\* each non-zero counter, however the requests interleave.
THEOREM CeremonyCountersAdvance == Spec => []CountersAdvance
<1>1. IInv => CountersAdvance
  BY DEF IInv, CountersOK
<1> QED
  BY <1>1, Invariant, PTL

\* Every ceremony binds or signs in the user its credential was created for.
THEOREM CeremonyCompletedAsCreatedFor == Spec => []CompletedAsCreatedFor
<1>1. IInv => CompletedAsCreatedFor
  BY DEF IInv, OriginsOK, CreatedFor, CompletedAsCreatedFor
<1> QED
  BY <1>1, Invariant, PTL

\* A live challenge leaves the SQLite store only with a request that takes it, and
\* no request that comes in time is refused its flow's challenge, whatever clocks
\* the calls had read when they got the lock.
THEOREM CeremonyInTimeServed == Spec => InTimeServed
<1>1. IInv /\ [Next]_vars => [LiveChallengesServed]_vars
  <2> SUFFICES ASSUME IInv, Next, NEW k \in Keys, Live(k, now)
               PROVE  /\ challenges'[k] = None /\ backend = "sqlite" =>
                           \E r \in Requests : Waiting(r, k) /\ request'[r].taken = challenges[k]
                      /\ \A r \in Requests : Waiting(r, k) /\ request'[r] # request[r] =>
                           request'[r].taken = challenges[k]
    BY DEF LiveChallengesServed
  <2> DEFINE Kept == backend = "sqlite" => challenges'[k] # None
             Unmoved(S) == \A r \in S : Waiting(r, k) => request'[r] = request[r]
  <2>1. /\ challenges \in [Keys -> ChallengeRecord \cup {None}] /\ challenges[k] # None
        /\ now \in Time /\ fresh \in 0 .. MaxChallenges
        /\ backend = "sqlite" => sweep = {}
        /\ request \in [Requests -> Request]
        /\ challenges[k].expires_at \in Int /\ challenges[k].expires_at > now
    BY CeremonyAssumption DEF IInv, TypeOK, Live, ChallengeRecord, Time
  <2>2. ASSUME NEW time \in Clock PROVE Live(k, time) /\ k \notin Expired(time)
    BY <2>1, <2>2, ClockFacts DEF Live, Expired, Time
  <2>3. ASSUME NEW r \in Requests, request' = [request EXCEPT ![r] = request'[r]],
               request[r].step \notin {"pop_authentication", "pop_registration"}
        PROVE  Unmoved(Requests)
    BY <2>1, <2>3 DEF Waiting
  <2>4. ASSUME NEW key \in Keys, NEW user \in PasskeyUser \cup {None}, SaveChallenge(key, user)
        PROVE  Kept
    <3>1. PICK time \in Clock :
            challenges' = [challenges EXCEPT ![key] =
              [challenge |-> fresh, expires_at |-> time + TTL, user |-> user]]
      BY <2>4 DEF SaveChallenge
    <3> DEFINE record == [challenge |-> fresh, expires_at |-> time + TTL, user |-> user]
    <3>2. record \in ChallengeRecord
      BY <2>1, <2>4, ClockFacts, CeremonyAssumption
      DEF SaveChallenge, ChallengeRecord, Challenges, Time
    <3>3. record # None
      BY <3>2, RecordAssumption
    <3>4. challenges' = [challenges EXCEPT ![key] = record]
      BY <3>1
    <3> HIDE DEF record
    <3> QED
      BY <2>1, <3>3, <3>4
  <2>5. CASE \E flow \in Flows : BeginAuthentication(flow)
                              \/ \E user \in Subjects : BeginRegistration(flow, user)
    BY <2>4, <2>5, CeremonyAssumption DEF BeginAuthentication, BeginRegistration, Keys, Kinds
  <2>6. ASSUME NEW r \in Requests, NewRequest(r)
        PROVE  Unmoved(Requests) /\ UNCHANGED challenges
    BY <2>1, <2>6 DEF NewRequest, StartLogin, StartRegistration, Waiting
  <2>7. ASSUME NEW r \in Requests, NEW kind \in Kinds, NEW next, Pop(r, kind, next),
               request[r].step = IF kind = "registration" THEN "pop_registration"
                                 ELSE "pop_authentication"
        PROVE  /\ Waiting(r, k) => request'[r].taken = challenges[k]
               /\ ~Waiting(r, k) => Kept
               /\ Unmoved(Requests \ {r})
    <3> DEFINE key == <<request[r].flow, kind>>
    <3>1. PICK time \in Clock :
            /\ challenges' = Forget(key, time)
            /\ IF Live(key, time)
               THEN request' = [request EXCEPT ![r].step = next, ![r].taken = challenges[key]]
               ELSE Fail(r)
      BY <2>7 DEF Pop
    <3>2. Unmoved(Requests \ {r})
      BY <2>1, <3>1 DEF Fail
    <3>3. Waiting(r, k) <=> k = key
      BY <2>7 DEF Waiting, Keys, Kinds
    <3>4. CASE k = key
      <4>1. request' = [request EXCEPT ![r].step = next, ![r].taken = challenges[k]]
        BY <2>2, <3>1, <3>4
      <4>2. request'[r].taken = challenges[k]
        BY <2>1, <4>1 DEF Request
      <4> QED
        BY <3>2, <3>3, <3>4, <4>2
    <3>5. CASE k # key
      <4>1. challenges'[k] = challenges[k]
        BY <2>1, <3>1, <3>5 DEF Forget
      <4> QED
        BY <2>1, <3>2, <3>3, <3>5, <4>1
    <3> QED
      BY <3>4, <3>5
  <2>8. ASSUME NEW r \in Requests, ResponseSteps(r),
               ~PopAuthentication(r), ~PopRegistration(r)
        PROVE  Unmoved(Requests) /\ UNCHANGED challenges
    <3>1. UNCHANGED challenges
      BY <2>8
      DEF ResponseSteps, LookupCredential, CheckUserHandle, VerifyAssertion, FinishLogin,
          VerifyAttestation, FinishRegistration, DenyRegistration
    <3>2. \A s \in Requests : s # r => request'[s] = request[s]
      BY <2>1, <2>8
      DEF ResponseSteps, LookupCredential, CheckUserHandle, VerifyAssertion, FinishLogin,
          VerifyAttestation, FinishRegistration, DenyRegistration, Goto, Fail, Complete
    <3>3. request[r].step \notin {"pop_authentication", "pop_registration"}
      BY <2>8
      DEF ResponseSteps, LookupCredential, CheckUserHandle, VerifyAssertion, FinishLogin,
          VerifyAttestation, FinishRegistration, DenyRegistration
    <3> QED
      BY <3>1, <3>2, <3>3 DEF Waiting
  <2>9. CASE \E r \in Requests : ResponseSteps(r)
    <3>1. PICK r \in Requests : ResponseSteps(r)
      BY <2>9
    <3>2. CASE PopAuthentication(r)
      BY <2>1, <2>7, <3>2 DEF PopAuthentication, Kinds
    <3>3. CASE PopRegistration(r)
      BY <2>1, <2>7, <3>3 DEF PopRegistration, Kinds
    <3>4. CASE ~PopAuthentication(r) /\ ~PopRegistration(r)
      BY <2>1, <2>8, <3>1, <3>4
    <3> QED
      BY <3>2, <3>3, <3>4
  <2>10. CASE \E user_id \in UserIds, id \in CredentialIds, allow_final \in BOOLEAN :
                RemoveCredential(user_id, id, allow_final)
    BY <2>1, <2>10 DEF RemoveCredential, ceremonyVars
  <2>11. CASE CleanupExpired
    BY <2>1, <2>2, <2>11 DEF CleanupExpired
  <2>12. CASE ScanExpired \/ Tick
    BY <2>1, <2>12 DEF ScanExpired, Tick
  <2>13. CASE \E key \in Keys : DeleteExpired(key)
    BY <2>1, <2>13 DEF DeleteExpired
  <2> QED
    BY <2>1, <2>5, <2>6, <2>9, <2>10, <2>11, <2>12, <2>13 DEF Next
<1> QED
  BY <1>1, Invariant, PTL DEF Spec, InTimeServed
=============================================================================
