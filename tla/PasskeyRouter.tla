---------------------------- MODULE PasskeyRouter ----------------------------
(***************************************************************************)
(* The FastAPI router between browsers and the passkey service: its        *)
(* requests, the hooks they await, the two challenge cookies, and the      *)
(* responses, which arrive late, in any order, or not at all.              *)
(*                                                                         *)
(* A handler is a coroutine of one event loop.  What it does between two   *)
(* awaits is one step here: the service and its stores are called          *)
(* synchronously, so other requests run only while a hook or the body is   *)
(* awaited.  The steps of the service's own calls, which interleave when   *)
(* the application has several processes, are those of PasskeyCeremony.    *)
(* Enrolment capabilities are claimed and consumed the way                 *)
(* EnrollmentCapability says, on a clock that stands still.                *)
(*                                                                         *)
(* External to src/: the hosts' hooks, modelled after the README (the      *)
(* resolver claims the capability for the flow, completion consumes it     *)
(* and saves the registration), browsers, and authenticators.              *)
(***************************************************************************)
EXTENDS CredentialStore

CONSTANTS
  Browsers,        \* browsers: the tabs of one share its cookies
  Slots,           \* requests in flight
  Subjects,        \* the users hosts prepare registrations for
  CapabilitySubject, \* the user an enrolment capability was issued for
  MaxFlows,        \* bound on the flow ids ever made
  MaxCapabilities  \* bound on the enrolment capabilities

ASSUME RouterAssumption ==
  /\ MaxFlows \in Nat /\ MaxCapabilities \in Nat
  /\ Subjects \subseteq PasskeyUser
  /\ CapabilitySubject \in Subjects
  /\ None \notin Nat

VARIABLES
  challenges, \* flow -> the context saved with its challenge, or None
  records,    \* capability -> its EnrollmentCapability record
  flows,      \* flow ids made so far
  browsers,   \* browser -> its session and its two challenge cookies
  received,   \* browser -> flows whose options its tabs received
  requests,   \* slot -> the request it handles
  minted,     \* credential id -> the flow its authenticator made it for
  resolved,   \* history: flow -> the context the hooks resolved for it
  completions \* history: flow -> completions of its registration

routerVars ==
  <<challenges, records, flows, browsers, received, requests, minted, resolved, completions>>
vars == <<storeVars, routerVars>>
-----------------------------------------------------------------------------
Flows == 1 .. MaxFlows
Capabilities == 1 .. MaxCapabilities

Enrollment ==
  INSTANCE EnrollmentCapability WITH
    Callers <- {}, Purposes <- {"invitation"}, Backends <- {"sqlite"}, TTLs <- {1},
    MaxTime <- 0, backend <- "sqlite", now <- 0, issued <- MaxCapabilities,
    calls <- <<>>, granted <- {}, spent <- <<>>

\* A RegistrationContext; that of a login has no user.
Context ==
  [kind : {"authentication", "self_registration", "additional_credential", "invitation"},
   user : Subjects \cup {None}, capability_id : Capabilities \cup {None}]

ASSUME ContextAssumption == None \notin Context

ContextOf(kind, user, capability_id) ==
  [kind |-> kind, user |-> user, capability_id |-> capability_id]

Login == ContextOf("authentication", None, None)

\* The cookies a browser keeps and a response may set or delete.
Cookies == {"session", "authentication", "registration"}
CookieValue == UserIds \cup Flows \cup {None}

Endpoints == {"login_options", "login_verify", "register_options", "register_verify",
              "credential_label", "credential_remove", "logout"}

(***************************************************************************)
(* A request: the cookies it was sent with, what its body answers (the     *)
(* flow whose options the authenticator used, and the credential), and     *)
(* what the handler knows: the flow it made, the context it resolved or    *)
(* popped, the user it found, whether the final credential may go, and     *)
(* the cookies its response sets.                                          *)
(***************************************************************************)
Request ==
  [endpoint : Endpoints \cup {None}, browser : Browsers \cup {None},
   step : {"idle", "limit", "resolve", "begin", "host", "login", "store", "respond"},
   cookies : [Cookies -> CookieValue], answers : Flows \cup {None},
   id : CredentialIds \cup {None}, flow : Flows \cup {None},
   context : Context \cup {None}, user_id : UserIds \cup {None}, allow_final : BOOLEAN,
   response : UNION {[C -> CookieValue] : C \in SUBSET Cookies}]

NoCookies == [c \in Cookies |-> None]

Idle == [endpoint |-> None, browser |-> None, step |-> "idle", cookies |-> NoCookies,
         answers |-> None, id |-> None, flow |-> None, context |-> None,
         user_id |-> None, allow_final |-> FALSE, response |-> <<>>]

TypeOK ==
  /\ StoreTypeOK
  /\ challenges \in [Flows -> Context \cup {None}]
  /\ records \in [Capabilities -> Enrollment!Capability]
  /\ flows \in 0 .. MaxFlows
  /\ browsers \in [Browsers -> [session : UserIds \cup {None},
                                authentication : Flows \cup {None},
                                registration : Flows \cup {None}]]
  /\ received \in [Browsers -> SUBSET Flows]
  /\ requests \in [Slots -> Request]
  /\ minted \in [CredentialIds -> Flows \cup {None}]
  /\ resolved \in [Flows -> Context \cup {None}]
  /\ completions \in [Flows -> Nat]

Init ==
  /\ StoreInit
  /\ challenges = [f \in Flows |-> None]
  /\ records = [c \in Capabilities |->
       [purpose |-> "invitation", expires_at |-> 1, claimed_flow_id |-> None,
        claimed_at |-> None, consumed_at |-> None, revoked_at |-> None]]
  /\ flows = 0
  /\ browsers = [b \in Browsers |-> NoCookies]
  /\ received = [b \in Browsers |-> {}]
  /\ requests = [s \in Slots |-> Idle]
  /\ minted = [id \in CredentialIds |-> None]
  /\ resolved = [f \in Flows |-> None]
  /\ completions = [f \in Flows |-> 0]
-----------------------------------------------------------------------------
(***************************************************************************)
(* Steps of a request.  An HTTPException or an error of a hook ends it in  *)
(* a response without cookies.                                             *)
(***************************************************************************)
At(s, endpoint, step) == requests[s].endpoint = endpoint /\ requests[s].step = step

Goto(s, step) == requests' = [requests EXCEPT ![s].step = step]

Raise(s) == requests' = [requests EXCEPT ![s] = Idle]

Respond(s, cookies) ==
  requests' = [requests EXCEPT ![s].step = "respond", ![s].response = cookies]

\* A request leaves the browser with its cookies.
Send(s, b, endpoint, answers, id) ==
  /\ requests[s] = Idle
  /\ requests' = [requests EXCEPT ![s] =
       [Idle EXCEPT !.endpoint = endpoint, !.browser = b, !.step = "limit",
                    !.cookies = browsers[b], !.answers = answers, !.id = id]]
  /\ UNCHANGED <<storeVars, challenges, records, flows, browsers, received, resolved,
                 completions>>

Ask(s, b) ==
  /\ \E endpoint \in {"login_options", "register_options", "logout"} :
       Send(s, b, endpoint, None, None)
  /\ UNCHANGED minted

\* navigator.credentials.get, with a passkey of this or another device.
SignIn(s, b, flow, id) ==
  /\ flow \in received[b] /\ resolved[flow] = Login /\ minted[id] # None
  /\ Send(s, b, "login_verify", flow, id)
  /\ UNCHANGED minted

\* navigator.credentials.create, whose answer may be sent more than once.
Create(s, b, flow, id) ==
  /\ flow \in received[b] /\ resolved[flow] # Login
  /\ minted[id] \in {None, flow}
  /\ minted' = [minted EXCEPT ![id] = flow]
  /\ Send(s, b, "register_verify", flow, id)

\* The credentials page lists the passkeys.
Manage(s, b, id) ==
  /\ credentials[id] # None
  /\ \E endpoint \in {"credential_label", "credential_remove"} :
       Send(s, b, endpoint, None, id)
  /\ UNCHANGED minted

\* The cookies a browser has after a response that sets or deletes some.
Replaced(cookies, response) ==
  [c \in Cookies |-> IF c \in DOMAIN response THEN response[c] ELSE cookies[c]]

\* The response arrives: its cookies replace the browser's.
Arrive(s) ==
  LET request == requests[s] IN
  /\ request.step = "respond"
  /\ browsers' = [browsers EXCEPT ![request.browser] = Replaced(@, request.response)]
  /\ received' = IF request.flow = None THEN received
                 ELSE [received EXCEPT ![request.browser] = @ \cup {request.flow}]
  /\ Raise(s)
  /\ UNCHANGED <<storeVars, challenges, records, flows, minted, resolved, completions>>

\* The response is lost, the limiter denies the request, or a hook fails.
Fail(s) ==
  /\ requests[s] # Idle
  /\ Raise(s)
  /\ UNCHANGED <<storeVars, challenges, records, flows, browsers, received, minted,
                 resolved, completions>>
-----------------------------------------------------------------------------
(***************************************************************************)
(* The service's calls, each without an await.                             *)
(***************************************************************************)
\* begin_registration, begin_authentication.
SaveChallenge(flow, context) ==
  /\ challenges' = [challenges EXCEPT ![flow] = context]
  /\ resolved' = [resolved EXCEPT ![flow] = context]

\* Wrong form of Popped: the challenge is read and left in place.
Kept(flow) == challenges

Popped(flow) == [challenges EXCEPT ![flow] = None]

\* pop(key=flow, kind): whether a challenge of that kind is stored.
Stored(flow, kinds) == challenges[flow] # None /\ challenges[flow].kind \in kinds

Registrations == {"self_registration", "additional_credential", "invitation"}
-----------------------------------------------------------------------------
(***************************************************************************)
(* Login.                                                                  *)
(***************************************************************************)
LoginOptions(s) ==
  LET flow == flows + 1 IN
  /\ At(s, "login_options", "limit")
  /\ flows < MaxFlows
  /\ flows' = flow
  /\ SaveChallenge(flow, Login)
  /\ requests' = [requests EXCEPT ![s].step = "respond", ![s].flow = flow,
                                  ![s].response = [authentication |-> flow]]
  /\ UNCHANGED <<storeVars, records, browsers, received, minted, completions>>

\* The counter of an authenticator advances, or stays 0.
Advances(stored, count) == count > stored.sign_count \/ (count = 0 /\ stored.sign_count = 0)

\* finish_authentication: the credential and its user are looked up first.
LoginVerify(s, count) ==
  LET request == requests[s]
      flow == request.cookies.authentication
      stored == credentials[request.id]
      handle == resolved[minted[request.id]].user.user_handle
  IN
  /\ At(s, "login_verify", "limit")
  /\ IF \/ flow = None \/ stored = None
        \/ users[stored.user_id].user_handle # handle
        \/ ~Stored(flow, {"authentication"})
     THEN Raise(s) /\ UNCHANGED <<storeVars, challenges>>
     ELSE /\ challenges' = Popped(flow)
          /\ IF request.answers = flow /\ Advances(stored, count)
             THEN /\ CompareAndSetCredentialAfterLogin(request.id, stored.sign_count, count)
                  /\ requests' = [requests EXCEPT ![s].step = "host",
                                                  ![s].user_id = stored.user_id]
             ELSE Raise(s) /\ UNCHANGED storeVars
  /\ UNCHANGED <<records, flows, browsers, received, minted, resolved, completions>>

\* get_auth_user allows the user.
AllowLogin(s) ==
  /\ At(s, "login_verify", "host")
  /\ Goto(s, "login")
  /\ UNCHANGED <<storeVars, challenges, records, flows, browsers, received, minted,
                 resolved, completions>>

\* The login hook sets the session on the response that drops the cookie.
LogIn(s) ==
  LET request == requests[s] IN
  /\ request.step = "login"
  /\ Respond(s, IF request.endpoint = "login_verify"
                THEN [session |-> request.user_id, authentication |-> None]
                ELSE [session |-> request.user_id, registration |-> None])
  /\ UNCHANGED <<storeVars, challenges, records, flows, browsers, received, minted,
                 resolved, completions>>
-----------------------------------------------------------------------------
(***************************************************************************)
(* register_options: with a session the subject is its user, otherwise a   *)
(* hook is awaited that resolves one, for a capability or a username.      *)
(***************************************************************************)
Resolved(s, context) ==
  requests' = [requests EXCEPT ![s].step = "begin", ![s].context = context]

NewFlow(s) ==
  LET request == requests[s] IN
  /\ At(s, "register_options", "limit")
  /\ flows < MaxFlows
  /\ flows' = flows + 1
  /\ IF request.cookies.session # None
     THEN requests' = [requests EXCEPT ![s].step = "begin", ![s].flow = flows + 1,
            ![s].context = ContextOf("additional_credential",
                                     users[request.cookies.session], None)]
     ELSE requests' = [requests EXCEPT ![s].step = "resolve", ![s].flow = flows + 1]
  /\ UNCHANGED <<storeVars, challenges, records, browsers, received, minted, resolved,
                 completions>>

ResolveUsername(s, user) ==
  /\ At(s, "register_options", "resolve")
  /\ Resolved(s, ContextOf("self_registration", user, None))
  /\ UNCHANGED <<storeVars, challenges, records, flows, browsers, received, minted,
                 resolved, completions>>

ResolveCapability(s, capability) ==
  LET claim == [id |-> capability, flow_id |-> requests[s].flow, purpose |-> "invitation",
                at |-> 0]
  IN
  /\ At(s, "register_options", "resolve")
  /\ IF Enrollment!ClaimAccepted(claim)
     THEN /\ records' = [records EXCEPT ![capability] = Enrollment!Claimed(@, claim)]
          /\ Resolved(s, ContextOf("invitation", CapabilitySubject, capability))
     ELSE Raise(s) /\ UNCHANGED records
  /\ UNCHANGED <<storeVars, challenges, flows, browsers, received, minted, resolved,
                 completions>>

\* Wrong form of RegisterOptions: one cookie serves both ceremonies.
RegisterOptionsSharing(s) ==
  LET request == requests[s] IN
  /\ At(s, "register_options", "begin")
  /\ SaveChallenge(request.flow, request.context)
  /\ Respond(s, [authentication |-> request.flow])
  /\ UNCHANGED <<storeVars, records, flows, browsers, received, minted, completions>>

RegisterOptions(s) ==
  LET request == requests[s] IN
  /\ At(s, "register_options", "begin")
  /\ SaveChallenge(request.flow, request.context)
  /\ Respond(s, [registration |-> request.flow])
  /\ UNCHANGED <<storeVars, records, flows, browsers, received, minted, completions>>
-----------------------------------------------------------------------------
(***************************************************************************)
(* register_verify: verify_registration, then the host's completion.       *)
(***************************************************************************)
\* Wrong form of Subject: the session's user is the subject again.
SubjectOfSession(s) ==
  IF requests[s].cookies.session # None THEN users[requests[s].cookies.session]
  ELSE requests[s].context.user

Subject(s) == requests[s].context.user

RegisterVerify(s) ==
  LET request == requests[s]
      flow == request.cookies.registration
  IN
  /\ At(s, "register_verify", "limit")
  /\ IF flow = None \/ ~Stored(flow, Registrations)
     THEN Raise(s) /\ UNCHANGED challenges
     ELSE /\ challenges' = Popped(flow)
          /\ IF request.answers = flow
             THEN requests' = [requests EXCEPT ![s].step = "host", ![s].flow = flow,
                                               ![s].context = challenges[flow]]
             ELSE Raise(s)
  /\ UNCHANGED <<storeVars, records, flows, browsers, received, minted, resolved, completions>>

Verified(s, public_key) ==
  [user_id |-> Subject(s).user_id, public_key |-> public_key, sign_count |-> 0, label |-> None]

\* The capability of the context is consumed for its flow.
ByFlow(s) == [flow_id |-> requests[s].flow, at |-> 0]

MayConsume(s) ==
  LET capability == requests[s].context.capability_id IN
  capability = None \/ Enrollment!Consumable(capability, ByFlow(s))

Consumed(s) ==
  LET capability == requests[s].context.capability_id IN
  IF capability = None THEN records ELSE [records EXCEPT ![capability].consumed_at = 0]

\* complete_registration saves the registration and returns the user.
CompleteRegistration(s, public_key) ==
  /\ At(s, "register_verify", "host")
  /\ MayConsume(s)
  /\ SaveRegistration(Subject(s), requests[s].id, Verified(s, public_key))
  /\ records' = Consumed(s)
  /\ completions' = [completions EXCEPT ![requests[s].flow] = @ + 1]
  /\ requests' = [requests EXCEPT ![s].step = "login", ![s].flow = None,
                                  ![s].user_id = Subject(s).user_id]
  /\ UNCHANGED <<challenges, flows, browsers, received, minted, resolved>>

\* It fails after it consumed the capability: the claim's use is gone.
CompletionFails(s) ==
  /\ At(s, "register_verify", "host")
  /\ MayConsume(s)
  /\ records' = Consumed(s)
  /\ Raise(s)
  /\ UNCHANGED <<storeVars, challenges, flows, browsers, received, minted, resolved,
                 completions>>
-----------------------------------------------------------------------------
(***************************************************************************)
(* Credential management and logout.  The session is read first, the body  *)
(* or allow_final_credential_removal is awaited next.                      *)
(***************************************************************************)
Authorize(s, allow_final) ==
  LET session == requests[s].cookies.session IN
  /\ requests[s].endpoint \in {"credential_label", "credential_remove"}
  /\ requests[s].step = "limit"
  /\ allow_final => requests[s].endpoint = "credential_remove"
  /\ IF session = None
     THEN Raise(s)
     ELSE requests' = [requests EXCEPT ![s].step = "store", ![s].user_id = session,
                                       ![s].allow_final = allow_final]
  /\ UNCHANGED <<storeVars, challenges, records, flows, browsers, received, minted,
                 resolved, completions>>

LabelCredential(s, label) ==
  /\ At(s, "credential_label", "store")
  /\ UpdateCredentialLabel(requests[s].id, requests[s].user_id, label)
  /\ Raise(s)
  /\ UNCHANGED <<challenges, records, flows, browsers, received, minted, resolved, completions>>

RemoveCredential(s) ==
  /\ At(s, "credential_remove", "store")
  /\ DeleteCredential(requests[s].id, requests[s].user_id, ~requests[s].allow_final)
  /\ Raise(s)
  /\ UNCHANGED <<challenges, records, flows, browsers, received, minted, resolved, completions>>

Logout(s) ==
  /\ At(s, "logout", "limit")
  /\ Respond(s, NoCookies)
  /\ UNCHANGED <<storeVars, challenges, records, flows, browsers, received, minted,
                 resolved, completions>>
-----------------------------------------------------------------------------
\* A challenge expires.
Expire(flow) ==
  /\ challenges[flow] # None
  /\ challenges' = Popped(flow)
  /\ UNCHANGED <<storeVars, records, flows, browsers, received, requests, minted, resolved,
                 completions>>

\* The host gives up on the flow that holds a capability.
ReleaseClaim(capability) ==
  LET flow == records[capability].claimed_flow_id IN
  /\ flow # None /\ Enrollment!Releasable(capability, flow)
  /\ records' = [records EXCEPT ![capability].claimed_flow_id = None,
                                ![capability].claimed_at = None]
  /\ UNCHANGED <<storeVars, challenges, flows, browsers, received, requests, minted,
                 resolved, completions>>

BrowserSends(s, b) ==
  \/ Ask(s, b)
  \/ \E id \in CredentialIds :
       \/ Manage(s, b, id)
       \/ \E flow \in Flows : SignIn(s, b, flow, id) \/ Create(s, b, flow, id)

RequestSteps(s) ==
  \/ LoginOptions(s) \/ AllowLogin(s) \/ LogIn(s)
  \/ \E count \in SignCounts : LoginVerify(s, count)
  \/ NewFlow(s) \/ RegisterOptions(s)
  \/ \E user \in Subjects : ResolveUsername(s, user)
  \/ \E capability \in Capabilities : ResolveCapability(s, capability)
  \/ RegisterVerify(s) \/ CompletionFails(s)
  \/ \E public_key \in PublicKeys : CompleteRegistration(s, public_key)
  \/ \E allow_final \in BOOLEAN : Authorize(s, allow_final)
  \/ \E label \in Labels \cup {None} : LabelCredential(s, label)
  \/ RemoveCredential(s) \/ Logout(s)
  \/ Arrive(s) \/ Fail(s)

Next ==
  \/ \E s \in Slots : RequestSteps(s) \/ \E b \in Browsers : BrowserSends(s, b)
  \/ \E flow \in Flows : Expire(flow)
  \/ \E capability \in Capabilities : ReleaseClaim(capability)

Spec == Init /\ [][Next]_vars
-----------------------------------------------------------------------------
(***************************************************************************)
(* "The resolved context is persisted with the WebAuthn challenge and      *)
(* returned unchanged": a stored passkey belongs to the user the hooks     *)
(* resolved when its options were made, whatever cookies late responses    *)
(* put back and whoever is signed in by the time it is verified.           *)
(***************************************************************************)
StoredAsResolved ==
  \A id \in CredentialIds :
    credentials[id] # None =>
      /\ minted[id] # None
      /\ credentials[id].user_id = resolved[minted[id]].user.user_id

(***************************************************************************)
(* One registration comes of a flow, and one of a capability: not two when *)
(* an answer is sent twice, when the claim is released and taken by        *)
(* another flow while the host completes the first, or after a failure     *)
(* that had consumed it.                                                   *)
(***************************************************************************)
OneRegistrationEach ==
  /\ \A f \in Flows : completions[f] <= 1
  /\ \A f, g \in Flows :
       /\ completions[f] > 0 /\ completions[g] > 0
       /\ resolved[f].capability_id = resolved[g].capability_id
       /\ resolved[f].capability_id # None
       => f = g

(***************************************************************************)
(* "Login and registration use separate challenge cookies": whatever tabs  *)
(* overlap and responses cross, each cookie names a flow of its own kind,  *)
(* so neither ceremony is handed the other's challenge.                    *)
(***************************************************************************)
CookiesNameTheirKind ==
  \A b \in Browsers :
    /\ browsers[b].authentication # None => resolved[browsers[b].authentication] = Login
    /\ browsers[b].registration # None => resolved[browsers[b].registration] # Login

(***************************************************************************)
(* The answer to allow_final_credential_removal may be old when it is      *)
(* used, but a user only ever loses the last passkey to a removal for      *)
(* which the host gave it: two removals that overlap keep one.             *)
(***************************************************************************)
FinalKept ==
  \A id \in CredentialIds :
    /\ credentials[id] # None /\ credentials'[id] = None
    /\ CredentialsOf(credentials[id].user_id) = {id}
    => \E s \in Slots : /\ requests[s].allow_final /\ requests[s].id = id
                        /\ requests'[s] = Idle

FinalRemovedIfAllowed == [][FinalKept]_vars
=============================================================================
