--------------------------- MODULE PasskeyCeremony ---------------------------
(***************************************************************************)
(* PasskeyService over its two stores: WebAuthn registration and login     *)
(* ceremonies run by concurrent requests.  A ceremony is one step that     *)
(* issues a challenge and, later, a request that takes several steps       *)
(* (finish_authentication is a sequence of store calls with no lock around *)
(* them), so the steps of different requests interleave.                   *)
(*                                                                         *)
(* Two deployments are modelled, chosen once in the initial state:         *)
(*   "memory"  the in-memory stores: get_credential returns the stored     *)
(*             object itself, so a request sees later changes of it, and   *)
(*             cleanup_expired deletes the expired keys one by one;        *)
(*   "sqlite"  the SQLite stores: get_credential returns a copy, and       *)
(*             cleanup_expired is one statement.                           *)
(*                                                                         *)
(* External to src/: the WebAuthn library's verification and the           *)
(* authenticators, which mint a credential id once and sign challenges.    *)
(***************************************************************************)
EXTENDS CredentialStore, Sequences

CONSTANTS
  Requests,      \* request slots: each runs one request at a time
  Subjects,      \* the users hosts prepare registrations for
  Flows,         \* flow ids (the router's challenge cookies)
  Backends,      \* the deployments to consider
  TTL,           \* challenge_ttl_seconds
  MaxTime,       \* bound on the clock
  MaxChallenges  \* bound on the challenges ever issued

ASSUME CeremonyAssumption ==
  /\ TTL \in Nat \ {0} /\ MaxTime \in Nat /\ MaxChallenges \in Nat
  /\ Backends \subseteq {"memory", "sqlite"}
  /\ Subjects \subseteq PasskeyUser
  /\ None \notin Nat

VARIABLES
  backend,    \* the deployment
  now,        \* the clock the stores read
  challenges, \* (flow, kind) -> ChallengeRecord or None
  fresh,      \* the next random challenge: challenges below it were issued
  issued_to,  \* history: challenge -> the user it was issued for, or None
  minted,     \* credential id -> challenge its authenticator created it for
  request,    \* what each request slot is doing
  sweep,      \* keys a memory cleanup_expired found expired and not yet deleted
  completed   \* history: the ceremonies that succeeded, in order

ceremonyVars ==
  <<backend, now, challenges, fresh, issued_to, minted, request, sweep, completed>>
vars == <<storeVars, ceremonyVars>>
-----------------------------------------------------------------------------
Kinds == {"registration", "authentication"}
Keys == Flows \X Kinds
Time == 0 .. MaxTime
Challenges == 0 .. MaxChallenges - 1

ChallengeRecord ==
  [challenge : Challenges, expires_at : 0 .. MaxTime + TTL, user : PasskeyUser \cup {None}]

ASSUME RecordAssumption == None \notin ChallengeRecord

Steps == {"idle", "lookup", "handle", "pop_authentication", "verify_assertion", "cas",
          "pop_registration", "verify_attestation", "save"}

(***************************************************************************)
(* A request slot: the response it received (the flow cookie, the          *)
(* credential id, the challenge the authenticator signed, its counter) and *)
(* what finish_authentication has read so far: the owner and the counter   *)
(* of the stored credential, and the challenge record it popped.           *)
(***************************************************************************)
Request ==
  [step : Steps,
   flow : Flows \cup {None},
   id : CredentialIds \cup {None},
   signed : Challenges \cup {None},
   count : SignCounts,
   owner : UserIds \cup {None},
   seen : SignCounts,
   taken : ChallengeRecord \cup {None}]

\* A request that has received its response and read nothing yet.
Received(step, flow, id, signed) ==
  [step |-> step, flow |-> flow, id |-> id, signed |-> signed, count |-> 0,
   owner |-> None, seen |-> 0, taken |-> None]

Idle == Received("idle", None, None, None)

Completion ==
  [kind : Kinds, challenge : Challenges, id : CredentialIds, user_id : UserIds,
   expected : SignCounts, count : SignCounts]

TypeOK ==
  /\ StoreTypeOK
  /\ backend \in Backends
  /\ now \in Time
  /\ challenges \in [Keys -> ChallengeRecord \cup {None}]
  /\ fresh \in 0 .. MaxChallenges
  /\ issued_to \in [Challenges -> PasskeyUser \cup {None}]
  /\ minted \in [CredentialIds -> Challenges \cup {None}]
  /\ request \in [Requests -> Request]
  /\ sweep \subseteq Keys
  /\ completed \in Seq(Completion)

Init ==
  /\ StoreInit
  /\ backend \in Backends
  /\ now = 0
  /\ challenges = [k \in Keys |-> None]
  /\ fresh = 0
  /\ issued_to = [c \in Challenges |-> None]
  /\ minted = [id \in CredentialIds |-> None]
  /\ request = [r \in Requests |-> Idle]
  /\ sweep = {}
  /\ completed = << >>
-----------------------------------------------------------------------------
(***************************************************************************)
(* The challenge store.  save overwrites the record of its key; pop hands  *)
(* a record out only while it is live, and the memory store forgets it     *)
(* either way.  A call of the SQLite store reads the clock and then waits  *)
(* for the write lock, so its time may have passed when it takes effect.   *)
(***************************************************************************)
Clock == IF backend = "sqlite" THEN 0 .. now ELSE {now}

Live(key, time) == challenges[key] # None /\ challenges[key].expires_at > time

SaveChallenge(key, user) ==
  /\ fresh < MaxChallenges
  /\ fresh' = fresh + 1
  /\ issued_to' = [issued_to EXCEPT ![fresh] = user]
  /\ \E time \in Clock :
       challenges' = [challenges EXCEPT ![key] =
         [challenge |-> fresh, expires_at |-> time + TTL, user |-> user]]

\* Wrong form of Forget: pop reads the record and leaves it in place.
Keep(key, time) == challenges

Forget(key, time) ==
  IF Live(key, time) \/ backend = "memory"
  THEN [challenges EXCEPT ![key] = None]
  ELSE challenges

BeginRegistration(flow, user) ==
  /\ SaveChallenge(<<flow, "registration">>, user)
  /\ UNCHANGED <<storeVars, backend, now, minted, request, sweep, completed>>

BeginAuthentication(flow) ==
  /\ SaveChallenge(<<flow, "authentication">>, None)
  /\ UNCHANGED <<storeVars, backend, now, minted, request, sweep, completed>>

(***************************************************************************)
(* cleanup_expired: SQLite's is one DELETE; the memory store's first lists *)
(* the expired keys and then deletes them, with no lock in between, and    *)
(* stops with a KeyError at a key a pop has taken meanwhile.               *)
(***************************************************************************)
\* Wrong form of Expired: it includes what expires at the next tick.
ExpiringSoon(time) ==
  {k \in Keys : challenges[k] # None /\ challenges[k].expires_at <= time + 1}

Expired(time) ==
  {k \in Keys : challenges[k] # None /\ challenges[k].expires_at <= time}

CleanupExpired ==
  /\ backend = "sqlite"
  /\ \E time \in Clock :
       /\ Expired(time) # {}
       /\ challenges' = [k \in Keys |-> IF k \in Expired(time) THEN None ELSE challenges[k]]
  /\ UNCHANGED <<storeVars, backend, now, fresh, issued_to, minted, request, sweep, completed>>

ScanExpired ==
  /\ backend = "memory"
  /\ sweep = {} /\ Expired(now) # {}
  /\ sweep' = Expired(now)
  /\ UNCHANGED <<storeVars, backend, now, challenges, fresh, issued_to, minted, request, completed>>

DeleteExpired(key) ==
  /\ key \in sweep
  /\ IF challenges[key] = None
     THEN sweep' = {} /\ UNCHANGED challenges
     ELSE sweep' = sweep \ {key} /\ challenges' = [challenges EXCEPT ![key] = None]
  /\ UNCHANGED <<storeVars, backend, now, fresh, issued_to, minted, request, completed>>

Tick ==
  /\ now < MaxTime
  /\ now' = now + 1
  /\ UNCHANGED <<storeVars, backend, challenges, fresh, issued_to, minted, request, sweep, completed>>
-----------------------------------------------------------------------------
(***************************************************************************)
(* Steps of a request.  Fail is every exception that ends it.              *)
(***************************************************************************)
Goto(r, step) == request' = [request EXCEPT ![r].step = step]
Fail(r) == request' = [request EXCEPT ![r] = Idle]

\* A ceremony succeeds: the request returns and the history grows.
Complete(r, kind, user_id, expected) ==
  /\ completed' = Append(completed,
       [kind |-> kind, challenge |-> request[r].taken.challenge, id |-> request[r].id,
        user_id |-> user_id, expected |-> expected, count |-> request[r].count])
  /\ Fail(r)

\* pop(key=flow, kind): the record goes to the request, or ChallengeNotFound.
Pop(r, kind, next) ==
  LET key == <<request[r].flow, kind>> IN
  \E time \in Clock :
    /\ challenges' = Forget(key, time)
    /\ IF Live(key, time)
       THEN request' = [request EXCEPT ![r].step = next, ![r].taken = challenges[key]]
       ELSE Fail(r)
-----------------------------------------------------------------------------
(***************************************************************************)
(* finish_authentication.                                                  *)
(***************************************************************************)
StartLogin(r, flow, id, signed) ==
  /\ request[r].step = "idle"
  /\ signed < fresh
  /\ request' = [request EXCEPT ![r] = Received("lookup", flow, id, signed)]
  /\ UNCHANGED <<storeVars, backend, now, challenges, fresh, issued_to, minted, sweep, completed>>

LookupCredential(r) ==
  LET stored == credentials[request[r].id] IN
  /\ request[r].step = "lookup"
  /\ IF stored = None
     THEN Fail(r)
     ELSE request' = [request EXCEPT ![r].step = "handle", ![r].owner = stored.user_id,
                                     ![r].seen = stored.sign_count]
  /\ UNCHANGED <<storeVars, backend, now, challenges, fresh, issued_to, minted, sweep, completed>>

CheckUserHandle(r, handle, require_user_handle) ==
  LET user == users[request[r].owner] IN
  /\ request[r].step = "handle"
  /\ IF \/ user = None
        \/ /\ handle # user.user_handle
           /\ require_user_handle \/ handle # None
     THEN Fail(r)
     ELSE Goto(r, "pop_authentication")
  /\ UNCHANGED <<storeVars, backend, now, challenges, fresh, issued_to, minted, sweep, completed>>

PopAuthentication(r) ==
  /\ request[r].step = "pop_authentication"
  /\ Pop(r, "authentication", "verify_assertion")
  /\ UNCHANGED <<storeVars, backend, now, fresh, issued_to, minted, sweep, completed>>

\* stored.sign_count, as the request sees it when it evaluates the expression.
\* (An id is registered once, so a removed credential's object is not replaced.)
StoredSignCount(r) ==
  IF backend = "memory" /\ credentials[request[r].id] # None
  THEN credentials[request[r].id].sign_count
  ELSE request[r].seen

\* The library's check: the counter must advance, unless both are 0.
AssertionValid(r, count) ==
  /\ request[r].signed = request[r].taken.challenge
  /\ \/ count > StoredSignCount(r)
     \/ count = 0 /\ StoredSignCount(r) = 0

VerifyAssertion(r, count) ==
  /\ request[r].step = "verify_assertion"
  /\ IF AssertionValid(r, count)
     THEN request' = [request EXCEPT ![r].step = "cas", ![r].count = count]
     ELSE Fail(r)
  /\ UNCHANGED <<storeVars, backend, now, challenges, fresh, issued_to, minted, sweep, completed>>

FinishLogin(r) ==
  LET id == request[r].id
      expected == StoredSignCount(r)
  IN
  /\ request[r].step = "cas"
  /\ \/ /\ CompareAndSetCredentialAfterLogin(id, expected, request[r].count)
        /\ Complete(r, "authentication", request[r].owner, expected)
     \/ /\ LoginRefusal(id, expected, request[r].count) # None
        /\ Fail(r)
        /\ UNCHANGED <<storeVars, completed>>
  /\ UNCHANGED <<backend, now, challenges, fresh, issued_to, minted, sweep>>
-----------------------------------------------------------------------------
(***************************************************************************)
(* verify_registration, then the host's complete_registration, which       *)
(* saves the verified registration or denies it.                           *)
(***************************************************************************)
StartRegistration(r, flow, id, signed) ==
  /\ request[r].step = "idle"
  /\ signed < fresh
  /\ minted[id] \in {None, signed}
  /\ minted' = [minted EXCEPT ![id] = signed]
  /\ request' = [request EXCEPT ![r] = Received("pop_registration", flow, id, signed)]
  /\ UNCHANGED <<storeVars, backend, now, challenges, fresh, issued_to, sweep, completed>>

PopRegistration(r) ==
  /\ request[r].step = "pop_registration"
  /\ Pop(r, "registration", "verify_attestation")
  /\ UNCHANGED <<storeVars, backend, now, fresh, issued_to, minted, sweep, completed>>

\* Wrong form of VerifyAttestation: the signed challenge is not compared.
VerifyAnyAttestation(r, count) ==
  /\ request[r].step = "verify_attestation"
  /\ IF request[r].taken.user # None
     THEN request' = [request EXCEPT ![r].step = "save", ![r].count = count]
     ELSE Fail(r)
  /\ UNCHANGED <<storeVars, backend, now, challenges, fresh, issued_to, minted, sweep, completed>>

VerifyAttestation(r, count) ==
  /\ request[r].step = "verify_attestation"
  /\ IF request[r].taken.user # None /\ request[r].signed = request[r].taken.challenge
     THEN request' = [request EXCEPT ![r].step = "save", ![r].count = count]
     ELSE Fail(r)
  /\ UNCHANGED <<storeVars, backend, now, challenges, fresh, issued_to, minted, sweep, completed>>

FinishRegistration(r, public_key) ==
  LET user == request[r].taken.user
      credential == [user_id |-> user.user_id, public_key |-> public_key,
                     sign_count |-> request[r].count, label |-> None]
  IN
  /\ request[r].step = "save"
  /\ \/ /\ SaveRegistration(user, request[r].id, credential)
        /\ Complete(r, "registration", user.user_id, 0)
     \/ /\ SaveRefusal(user, request[r].id, credential) # None
        /\ Fail(r)
        /\ UNCHANGED <<storeVars, completed>>
  /\ UNCHANGED <<backend, now, challenges, fresh, issued_to, minted, sweep>>

DenyRegistration(r) ==
  /\ request[r].step = "save"
  /\ Fail(r)
  /\ UNCHANGED <<storeVars, backend, now, challenges, fresh, issued_to, minted, sweep, completed>>
-----------------------------------------------------------------------------
(***************************************************************************)
(* remove_credential: the guarded delete decides; the read that follows a  *)
(* refusal only chooses the exception.                                     *)
(***************************************************************************)
RemoveCredential(user_id, id, allow_final) ==
  /\ DeleteCredential(id, user_id, ~allow_final)
  /\ UNCHANGED ceremonyVars
-----------------------------------------------------------------------------
\* What a response holds is chosen at the step that first examines it.
ResponseSteps(r) ==
  \/ LookupCredential(r)
  \/ \E handle \in Handles \cup {None}, require_user_handle \in BOOLEAN :
       CheckUserHandle(r, handle, require_user_handle)
  \/ PopAuthentication(r)
  \/ \E count \in SignCounts : VerifyAssertion(r, count)
  \/ FinishLogin(r)
  \/ PopRegistration(r)
  \/ \E count \in SignCounts : VerifyAttestation(r, count)
  \/ \E public_key \in PublicKeys : FinishRegistration(r, public_key)
  \/ DenyRegistration(r)

NewRequest(r) ==
  \E flow \in Flows, id \in CredentialIds, signed \in Challenges :
    \/ StartLogin(r, flow, id, signed)
    \/ StartRegistration(r, flow, id, signed)

Next ==
  \/ \E flow \in Flows :
       \/ BeginAuthentication(flow)
       \/ \E user \in Subjects : BeginRegistration(flow, user)
  \/ \E r \in Requests :
       \/ NewRequest(r)
       \/ ResponseSteps(r)
  \/ \E user_id \in UserIds, id \in CredentialIds, allow_final \in BOOLEAN :
       RemoveCredential(user_id, id, allow_final)
  \/ CleanupExpired
  \/ ScanExpired
  \/ \E key \in Keys : DeleteExpired(key)
  \/ Tick

Spec == Init /\ [][Next]_vars
-----------------------------------------------------------------------------
(***************************************************************************)
(* One-time challenges: no two ceremonies ever succeed on the same         *)
(* challenge, however often a response is resubmitted, whichever requests  *)
(* race for it, and whatever other flow or kind it is presented to.        *)
(***************************************************************************)
ChallengeSingleUse ==
  \A i, j \in 1 .. Len(completed) :
    i # j => completed[i].challenge # completed[j].challenge

\* The j-th ceremony is a login by the credential of an earlier one, the i-th.
LaterLogin(i, j) ==
  /\ i < j
  /\ completed[i].id = completed[j].id
  /\ completed[j].kind = "authentication"

(***************************************************************************)
(* Across racing logins the counters a credential was accepted with never  *)
(* go back, and over SQLite each login that compared a non-zero counter    *)
(* was the only one to win from it: its counter is strictly above every    *)
(* earlier one.                                                            *)
(***************************************************************************)
CountersAdvance ==
  \A i, j \in 1 .. Len(completed) :
    LaterLogin(i, j) =>
      /\ completed[i].count <= completed[j].count
      /\ backend = "sqlite" /\ completed[j].expected # 0 =>
           completed[i].count < completed[j].count

(***************************************************************************)
(* A ceremony only ever binds or signs in the user its credential was      *)
(* created for: the one the challenge its authenticator answered at        *)
(* registration had been issued to.  Flows begun again for another user,   *)
(* responses presented to the wrong flow, and removals between the steps   *)
(* of a login do not mix users up.                                         *)
(***************************************************************************)
CompletedAsCreatedFor ==
  \A i \in 1 .. Len(completed) :
    LET creation == minted[completed[i].id] IN
    /\ creation # None /\ issued_to[creation] # None
    /\ completed[i].user_id = issued_to[creation].user_id

(***************************************************************************)
(* A response in time is served.  Whatever clocks the calls had read when  *)
(* they got the lock, a challenge leaves the SQLite store before it has    *)
(* expired only with a request that takes it (or its flow is begun again); *)
(* and a request that comes to either store before its flow's challenge    *)
(* has expired gets it.  cleanup_expired and pop compare the expiry in     *)
(* queries of their own, so that they agree at the boundary is a property. *)
(***************************************************************************)
Waiting(r, k) ==
  /\ request[r].flow = k[1]
  /\ request[r].step = IF k[2] = "registration" THEN "pop_registration" ELSE "pop_authentication"

LiveChallengesServed ==
  \A k \in Keys : Live(k, now) =>
    /\ challenges'[k] = None /\ backend = "sqlite" =>
         \E r \in Requests : Waiting(r, k) /\ request'[r].taken = challenges[k]
    /\ \A r \in Requests :
         Waiting(r, k) /\ request'[r] # request[r] => request'[r].taken = challenges[k]

InTimeServed == [][LiveChallengesServed]_vars

(***************************************************************************)
(* "A stale non-zero expected counter raises CredentialCounterConflict":   *)
(* a login is not accepted if another one has moved the counter since this *)
(* one looked the credential up.                                           *)
(***************************************************************************)
StaleLoginRefused ==
  \A r \in Requests :
    /\ request[r].step = "cas" /\ request[r].seen # 0
    /\ request'[r] = Idle /\ completed' # completed
    => credentials[request[r].id].sign_count = request[r].seen

OneWinnerPerCounter == [][StaleLoginRefused]_vars
=============================================================================
