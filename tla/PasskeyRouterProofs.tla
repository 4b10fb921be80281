------------------------- MODULE PasskeyRouterProofs -------------------------
(***************************************************************************)
(* The router is correct for any number of browsers, requests in flight,   *)
(* users, flows and capabilities.  The inductive invariant follows a flow  *)
(* through its life: its number is new and one request's own until its     *)
(* challenge is saved, its challenge is there until one request pops it,   *)
(* and that request alone completes it, with the context that was saved.   *)
(* Everything a cookie, a response or a request remembers of it stays      *)
(* true, because what was resolved for a flow never changes.               *)
(***************************************************************************)
EXTENDS PasskeyRouter, CredentialStoreProofs, FiniteSetTheorems, TLAPS

\* A context the hooks resolved for a registration.
IsRegistration(c) == c \in Context /\ c # Login /\ c.user \in Subjects

\* Cookies of their own kinds: the session of a stored user, the flow of a
\* login, the flow of a registration.  A response sets some of them.
CookiesValid(cookies, usrs, res) ==
  /\ "session" \in DOMAIN cookies /\ cookies["session"] # None =>
       cookies["session"] \in UserIds /\ usrs[cookies["session"]] # None
  /\ "authentication" \in DOMAIN cookies /\ cookies["authentication"] # None =>
       cookies["authentication"] \in Flows /\ res[cookies["authentication"]] = Login
  /\ "registration" \in DOMAIN cookies /\ cookies["registration"] # None =>
       cookies["registration"] \in Flows /\ IsRegistration(res[cookies["registration"]])

\* A request has a new flow of its own until the challenge is saved ...
Preparing(r) == r.step \in {"resolve", "begin"}

\* ... and a verified registration is its own until the host completed it.
Completing(r) == r.endpoint = "register_verify" /\ r.step = "host"

\* What a request knows, over the users, challenges, resolved contexts,
\* authenticators' passkeys, completions and the last flow.
RequestOK(r, usrs, chals, res, mint, comps, last) ==
  /\ CookiesValid(r.cookies, usrs, res)
  /\ r.step # "idle" =>
       /\ r.browser \in Browsers
       /\ r.endpoint \in {"login_verify", "register_verify", "credential_label",
                          "credential_remove"} => r.id \in CredentialIds
       /\ r.endpoint = "register_verify" => r.answers \in Flows /\ mint[r.id] = r.answers
  /\ r.step = "limit" => r.flow = None
  /\ Preparing(r) => /\ r.endpoint = "register_options"
                     /\ r.flow \in Flows /\ r.flow <= last /\ res[r.flow] = None
  /\ r.step = "begin" => IsRegistration(r.context)
  /\ r.step = "host" => r.endpoint \in {"login_verify", "register_verify"}
  /\ Completing(r) =>
       /\ r.flow \in Flows /\ r.context = res[r.flow] /\ IsRegistration(r.context)
       /\ chals[r.flow] = None /\ comps[r.flow] = 0 /\ mint[r.id] = r.flow
  /\ (r.endpoint = "login_verify" /\ r.step = "host") \/ r.step = "login" =>
       r.user_id \in UserIds /\ usrs[r.user_id] # None /\ r.flow = None
  /\ r.step = "store" => r.user_id \in UserIds
  /\ r.step = "respond" => /\ CookiesValid(r.response, usrs, res)
                           /\ r.flow # None => r.flow \in Flows /\ res[r.flow] # None

RequestsOK ==
  \A s \in Slots :
    RequestOK(requests[s], users, challenges, resolved, minted, completions, flows)

\* A request that has a flow of its own.
Holding(r) == Preparing(r) \/ Completing(r)

\* No two requests have the same flow as their own.
HoldersUnique ==
  \A s, t \in Slots :
    /\ Holding(requests[s]) /\ Holding(requests[t])
    /\ requests[s].flow = requests[t].flow
    => s = t

\* The life of a flow.
FlowsOK ==
  \A f \in Flows :
    /\ f > flows => resolved[f] = None
    /\ resolved[f] # None => resolved[f] = Login \/ IsRegistration(resolved[f])
    /\ resolved[f] = None => challenges[f] = None /\ completions[f] = 0
    /\ challenges[f] # None => challenges[f] = resolved[f] /\ completions[f] = 0
    /\ completions[f] <= 1

\* A completed flow consumed its capability, whose claim stays with it.
CapabilitiesOK ==
  \A f \in Flows :
    completions[f] > 0 /\ resolved[f].capability_id # None =>
      /\ records[resolved[f].capability_id].consumed_at # None
      /\ records[resolved[f].capability_id].claimed_flow_id = f

\* What browsers keep: cookies of their kinds, and options that were made.
BrowsersOK ==
  \A b \in Browsers :
    /\ CookiesValid(browsers[b], users, resolved)
    /\ \A f \in received[b] : resolved[f] # None

\* Every passkey was made for a registration, and every stored user is one a
\* registration was prepared for.
MintedOK ==
  \A id \in CredentialIds : minted[id] # None => IsRegistration(resolved[minted[id]])

SubjectsStored == \A u \in UserIds : users[u] # None => users[u] \in Subjects

\* The inductive invariant.
IInv ==
  /\ TypeOK
  /\ StoreInv
  /\ SubjectsStored
  /\ FlowsOK
  /\ CapabilitiesOK
  /\ MintedOK
  /\ StoredAsResolved
  /\ BrowsersOK
  /\ RequestsOK
  /\ HoldersUnique
-----------------------------------------------------------------------------
\* None is no flow, capability or context; a login's context is one.
LEMMA NoneApart ==
  /\ None \notin Flows /\ None \notin Capabilities /\ None \notin Nat
  /\ None \notin Subjects /\ None \notin UserIds /\ None \notin Handles
  /\ None \notin PasskeyUser /\ None \notin PasskeyCredential
  /\ None \notin Context /\ Login \in Context /\ Login.kind = "authentication"
  /\ Login.capability_id = None
  /\ \A c : IsRegistration(c) => c \in Context /\ c # None
  /\ Subjects \subseteq PasskeyUser
BY RouterAssumption, ContextAssumption, NoneAssumption
DEF Flows, Capabilities, PasskeyUser, PasskeyCredential, SignCounts, Context, Login,
    ContextOf, IsRegistration

\* The fields of an idle request.
LEMMA IdleTyped ==
  /\ Idle \in Request /\ Idle.step = "idle" /\ Idle.flow = None /\ Idle.endpoint = None
  /\ Idle.cookies = NoCookies
<1>1. NoCookies \in [Cookies -> CookieValue]
  BY DEF NoCookies, CookieValue
<1>2. <<>> \in UNION {[C -> CookieValue] : C \in SUBSET Cookies}
  BY DEF Cookies
<1> QED
  BY <1>1, <1>2 DEF Idle, Request

\* A browser without cookies has valid ones.
LEMMA NoCookiesValid ==
  ASSUME NEW usrs, NEW res
  PROVE  CookiesValid(NoCookies, usrs, res)
BY DEF CookiesValid, NoCookies, Cookies

\* An idle request knows nothing that could be wrong.
LEMMA IdleOK ==
  ASSUME NEW usrs, NEW chals, NEW res, NEW mint, NEW comps, NEW last
  PROVE  /\ RequestOK(Idle, usrs, chals, res, mint, comps, last)
         /\ ~Holding(Idle)
<1>1. ~Preparing(Idle) /\ ~Completing(Idle)
  BY IdleTyped DEF Preparing, Completing
<1> QED
  BY <1>1, IdleTyped, NoCookiesValid DEF RequestOK, Holding

\* The initial states satisfy the invariant.
LEMMA InitInv == Init => IInv
<1> SUFFICES ASSUME Init PROVE IInv
  OBVIOUS
<1>1. StoreInv
  BY StoreInitInv DEF Init
<1>2. TypeOK
  <2>1. \A b \in Browsers : NoCookies \in [session : UserIds \cup {None},
                                           authentication : Flows \cup {None},
                                           registration : Flows \cup {None}]
    BY DEF NoCookies, Cookies
  <2>2. [purpose |-> "invitation", expires_at |-> 1, claimed_flow_id |-> None,
         claimed_at |-> None, consumed_at |-> None, revoked_at |-> None]
          \in Enrollment!Capability
    BY DEF Enrollment!Capability, Enrollment!Stamp
  <2>3. 0 \in 0 .. MaxFlows
    BY RouterAssumption
  <2> QED
    BY <1>1, <2>1, <2>2, <2>3, IdleTyped DEF Init, TypeOK, StoreInv
<1>3. SubjectsStored
  BY DEF Init, StoreInit, SubjectsStored
<1>4. FlowsOK /\ CapabilitiesOK
  BY DEF Init, FlowsOK, CapabilitiesOK
<1>5. MintedOK /\ StoredAsResolved
  BY DEF Init, StoreInit, MintedOK, StoredAsResolved
<1>6. BrowsersOK
  BY NoCookiesValid DEF Init, BrowsersOK
<1>7. RequestsOK /\ HoldersUnique
  BY IdleOK DEF Init, RequestsOK, HoldersUnique
<1> QED
  BY <1>1, <1>2, <1>3, <1>4, <1>5, <1>6, <1>7 DEF IInv
-----------------------------------------------------------------------------
\* What no step takes back: users, resolved contexts, the flows passkeys were
\* made for, and the last flow.
Monotone ==
  /\ \A u \in UserIds : users[u] # None => users'[u] # None
  /\ \A f \in Flows : resolved[f] # None => resolved'[f] = resolved[f]
  /\ \A id \in CredentialIds : minted[id] # None => minted'[id] = minted[id]
  /\ flows <= flows'

\* The flow a request has as its own stays as the request found it.
FlowKept(r) ==
  /\ Preparing(r) => resolved'[r.flow] = None
  /\ Completing(r) => challenges'[r.flow] = None /\ completions'[r.flow] = 0

\* Valid cookies stay valid.
LEMMA CookiesKept ==
  ASSUME Monotone, NEW cookies, CookiesValid(cookies, users, resolved)
  PROVE  CookiesValid(cookies, users', resolved')
BY NoneApart DEF Monotone, CookiesValid

\* What a request knows stays true, if its own flow is left alone.
LEMMA RequestKept ==
  ASSUME Monotone, flows \in 0 .. MaxFlows, flows' \in 0 .. MaxFlows, NEW r \in Request,
         RequestOK(r, users, challenges, resolved, minted, completions, flows),
         FlowKept(r)
  PROVE  RequestOK(r, users', challenges', resolved', minted', completions', flows')
<1>1. CookiesValid(r.cookies, users', resolved')
  BY CookiesKept DEF RequestOK
<1>2. r.step = "respond" => CookiesValid(r.response, users', resolved')
  BY CookiesKept DEF RequestOK
<1>3. r.step # "idle" /\ r.endpoint = "register_verify" => minted'[r.id] = r.answers
  BY NoneApart DEF RequestOK, Monotone
<1>4. Completing(r) =>
        /\ resolved'[r.flow] = resolved[r.flow] /\ minted'[r.id] = minted[r.id]
  BY NoneApart DEF RequestOK, Monotone, Completing
<1>5. Preparing(r) => r.flow <= flows'
  BY RouterAssumption DEF RequestOK, Monotone, Flows
<1> QED
  BY <1>1, <1>2, <1>3, <1>4, <1>5, NoneApart DEF RequestOK, Monotone, FlowKept

\* A step of one request keeps the others' invariants if it takes no flow
\* that is another's own.
LEMMA RequestsStep ==
  ASSUME IInv, Monotone, flows' \in 0 .. MaxFlows,
         NEW s \in Slots, NEW r \in Request,
         requests' = [requests EXCEPT ![s] = r],
         RequestOK(r, users', challenges', resolved', minted', completions', flows'),
         \A t \in Slots \ {s} : FlowKept(requests[t]),
         Holding(r) =>
           \A t \in Slots \ {s} : Holding(requests[t]) => requests[t].flow # r.flow
  PROVE  requests' \in [Slots -> Request] /\ RequestsOK' /\ HoldersUnique'
<1>1. /\ requests \in [Slots -> Request] /\ flows \in 0 .. MaxFlows
      /\ \A t \in Slots :
           RequestOK(requests[t], users, challenges, resolved, minted, completions, flows)
  BY DEF IInv, TypeOK, RequestsOK
<1>2. /\ requests' \in [Slots -> Request] /\ requests'[s] = r
      /\ \A t \in Slots \ {s} : requests'[t] = requests[t]
  BY <1>1
<1>3. RequestsOK'
  BY <1>1, <1>2, RequestKept DEF RequestsOK
<1>4. HoldersUnique'
  BY <1>2 DEF IInv, HoldersUnique
<1> QED
  BY <1>2, <1>3, <1>4

\* Browsers that a step leaves alone keep their invariant.
LEMMA BrowsersKept ==
  ASSUME IInv, Monotone, UNCHANGED <<browsers, received>>
  PROVE  BrowsersOK'
BY CookiesKept DEF IInv, TypeOK, BrowsersOK, Monotone

\* Passkeys stay made for registrations.
LEMMA MintedKept ==
  ASSUME IInv, Monotone, UNCHANGED minted
  PROVE  MintedOK'
<1> SUFFICES ASSUME NEW id \in CredentialIds, minted[id] # None
             PROVE  IsRegistration(resolved'[minted[id]])
  BY DEF MintedOK
<1>1. IsRegistration(resolved[minted[id]]) /\ minted[id] \in Flows
  BY DEF IInv, MintedOK, TypeOK
<1> QED
  BY <1>1, NoneApart DEF Monotone

\* Stored passkeys stay stored as they were resolved, if none is added or
\* gets another owner.
LEMMA StoredKept ==
  ASSUME IInv, Monotone,
         \A id \in CredentialIds : credentials'[id] # None =>
           credentials[id] # None /\ credentials'[id].user_id = credentials[id].user_id
  PROVE  StoredAsResolved'
<1> SUFFICES ASSUME NEW id \in CredentialIds, credentials'[id] # None
             PROVE  /\ minted'[id] # None
                    /\ credentials'[id].user_id = resolved'[minted'[id]].user.user_id
  BY DEF StoredAsResolved
<1>1. /\ minted[id] \in Flows
      /\ credentials[id].user_id = resolved[minted[id]].user.user_id
      /\ minted'[id] = minted[id] /\ credentials'[id].user_id = credentials[id].user_id
  BY DEF IInv, StoredAsResolved, TypeOK, Monotone
<1>2. resolved'[minted[id]] = resolved[minted[id]]
  BY <1>1, NoneApart DEF IInv, MintedOK, Monotone
<1> QED
  BY <1>1, <1>2, NoneApart

\* Completed flows keep their capabilities.
LEMMA CapabilitiesKept ==
  ASSUME IInv, Monotone, UNCHANGED <<records, completions>>
  PROVE  CapabilitiesOK'
<1> SUFFICES ASSUME NEW f \in Flows, completions[f] > 0,
                    resolved'[f].capability_id # None
             PROVE  /\ records[resolved'[f].capability_id].consumed_at # None
                    /\ records[resolved'[f].capability_id].claimed_flow_id = f
  BY DEF CapabilitiesOK
<1>1. resolved'[f] = resolved[f]
  BY DEF IInv, FlowsOK, Monotone
<1> QED
  BY <1>1 DEF IInv, CapabilitiesOK

\* A step that changes neither store nor flows leaves everything but the
\* requests as it was.
LEMMA OnlyRequest ==
  ASSUME IInv, NEW s \in Slots, NEW r \in Request,
         requests' = [requests EXCEPT ![s] = r],
         UNCHANGED <<storeVars, challenges, records, flows, browsers, received, minted,
                     resolved, completions>>,
         RequestOK(r, users, challenges, resolved, minted, completions, flows),
         Holding(r) => Holding(requests[s]) /\ r.flow = requests[s].flow
  PROVE  IInv'
<1>1. Monotone
  BY RouterAssumption DEF Monotone, storeVars, IInv, TypeOK
<1>2. \A t \in Slots : FlowKept(requests[t])
  BY DEF IInv, RequestsOK, RequestOK, FlowKept, storeVars
<1>3. flows' \in 0 .. MaxFlows
  BY DEF IInv, TypeOK
<1>4. requests' \in [Slots -> Request] /\ RequestsOK' /\ HoldersUnique'
  <2>1. RequestOK(r, users', challenges', resolved', minted', completions', flows')
    BY DEF storeVars
  <2>2. Holding(r) =>
          \A t \in Slots \ {s} : Holding(requests[t]) => requests[t].flow # r.flow
    BY DEF IInv, HoldersUnique
  <2> QED
    BY <1>1, <1>2, <1>3, <2>1, <2>2, RequestsStep
<1>5. StoreInv'
  BY DEF IInv, StoreInv, StoreTypeOK, OwnersExist, HandleIndexInverse, storeVars
<1>6. TypeOK'
  BY <1>4, <1>5 DEF IInv, TypeOK, StoreInv
<1>7. SubjectsStored' /\ FlowsOK'
  BY DEF IInv, SubjectsStored, FlowsOK, storeVars
<1>8. CapabilitiesOK' /\ MintedOK' /\ StoredAsResolved' /\ BrowsersOK'
  BY <1>1, CapabilitiesKept, MintedKept, StoredKept, BrowsersKept DEF storeVars
<1> QED
  BY <1>4, <1>5, <1>6, <1>7, <1>8 DEF IInv
-----------------------------------------------------------------------------
\* What the invariant says of one request.
LEMMA RequestFacts ==
  ASSUME IInv, NEW s \in Slots
  PROVE  /\ requests[s] \in Request
         /\ RequestOK(requests[s], users, challenges, resolved, minted, completions, flows)
         /\ flows \in 0 .. MaxFlows
         /\ requests \in [Slots -> Request]
BY DEF IInv, TypeOK, RequestsOK

\* Raise, alone, keeps the invariant: the request is forgotten.
LEMMA RaiseInv ==
  ASSUME IInv, NEW s \in Slots, Raise(s),
         UNCHANGED <<storeVars, challenges, records, flows, browsers, received, minted,
                     resolved, completions>>
  PROVE  IInv'
<1>1. PICK r \in Request : r = Idle
  BY IdleTyped
<1>2. /\ RequestOK(r, users, challenges, resolved, minted, completions, flows)
      /\ ~Holding(r)
  BY <1>1, IdleOK
<1>3. requests' = [requests EXCEPT ![s] = r]
  BY <1>1 DEF Raise
<1> QED
  BY <1>2, <1>3, OnlyRequest

\* A request that leaves a browser takes the browser's cookies along.
LEMMA SendInv ==
  ASSUME IInv, NEW s \in Slots, NEW b \in Browsers, NEW endpoint \in Endpoints,
         NEW answers \in Flows \cup {None}, NEW id \in CredentialIds \cup {None},
         Send(s, b, endpoint, answers, id), Monotone, MintedOK',
         minted' \in [CredentialIds -> Flows \cup {None}],
         endpoint \in {"login_verify", "register_verify", "credential_label",
                       "credential_remove"} => id \in CredentialIds,
         endpoint = "register_verify" => answers \in Flows /\ minted'[id] = answers
  PROVE  IInv'
<1> DEFINE rec(idle) ==
      [idle EXCEPT !.endpoint = endpoint, !.browser = b, !.step = "limit",
                   !.cookies = browsers[b], !.answers = answers, !.id = id]
<1>1. PICK idle \in Request : idle = Idle
  BY IdleTyped
<1>2. browsers[b] \in [Cookies -> CookieValue]
  BY DEF IInv, TypeOK, Cookies, CookieValue
<1>3. PICK r : r = rec(idle)
  OBVIOUS
<1>4. /\ r \in Request
      /\ r.endpoint = endpoint /\ r.browser = b /\ r.step = "limit"
      /\ r.cookies = browsers[b] /\ r.answers = answers /\ r.id = id /\ r.flow = None
  BY <1>1, <1>2, <1>3, IdleTyped DEF Request
<1>5. /\ requests' = [requests EXCEPT ![s] = r]
      /\ UNCHANGED <<storeVars, challenges, records, flows, browsers, received, resolved,
                     completions>>
  BY <1>1, <1>3 DEF Send
<1>6. ~Holding(r)
  BY <1>4 DEF Holding, Preparing, Completing
<1>7. CookiesValid(r.cookies, users, resolved)
  BY <1>4 DEF IInv, BrowsersOK
<1>8. RequestOK(r, users', challenges', resolved', minted', completions', flows')
  BY <1>4, <1>5, <1>6, <1>7 DEF RequestOK, Holding, storeVars
<1>9. \A t \in Slots : FlowKept(requests[t])
  BY <1>5 DEF IInv, RequestsOK, RequestOK, FlowKept
<1>10. requests' \in [Slots -> Request] /\ RequestsOK' /\ HoldersUnique'
  BY <1>4, <1>5, <1>6, <1>8, <1>9, RequestsStep DEF IInv, TypeOK
<1>11. StoreInv'
  BY <1>5 DEF IInv, StoreInv, StoreTypeOK, OwnersExist, HandleIndexInverse, storeVars
<1>12. TypeOK'
  BY <1>5, <1>10, <1>11 DEF IInv, TypeOK, StoreInv
<1>13. SubjectsStored' /\ FlowsOK'
  BY <1>5 DEF IInv, SubjectsStored, FlowsOK, storeVars
<1>14. CapabilitiesOK' /\ StoredAsResolved' /\ BrowsersOK'
  BY <1>5, CapabilitiesKept, StoredKept, BrowsersKept DEF storeVars
<1> QED
  BY <1>10, <1>11, <1>12, <1>13, <1>14 DEF IInv

\* The requests a browser sends keep the invariant.
LEMMA BrowserSendsInv ==
  ASSUME IInv, NEW s \in Slots, NEW b \in Browsers, BrowserSends(s, b)
  PROVE  IInv'
<1>1. /\ flows \in Nat /\ minted \in [CredentialIds -> Flows \cup {None}]
      /\ received[b] \subseteq Flows
  BY RouterAssumption DEF IInv, TypeOK
<1>2. ASSUME NEW endpoint \in Endpoints, NEW answers \in Flows \cup {None},
             NEW id \in CredentialIds \cup {None},
             Send(s, b, endpoint, answers, id), UNCHANGED minted,
             endpoint # "register_verify",
             endpoint \in {"login_verify", "credential_label", "credential_remove"}
               => id \in CredentialIds
      PROVE  IInv'
  <2>1. Monotone
    BY <1>1, <1>2 DEF Send, Monotone, storeVars
  <2>2. MintedOK'
    BY <1>2, <2>1, MintedKept
  <2> QED
    BY <1>1, <1>2, <2>1, <2>2, SendInv
<1>3. CASE Ask(s, b)
  <2>1. PICK endpoint \in {"login_options", "register_options", "logout"} :
          Send(s, b, endpoint, None, None) /\ UNCHANGED minted
    BY <1>3 DEF Ask
  <2> QED
    BY <1>2, <2>1 DEF Endpoints
<1>4. ASSUME NEW id \in CredentialIds, Manage(s, b, id) PROVE IInv'
  <2>1. PICK endpoint \in {"credential_label", "credential_remove"} :
          Send(s, b, endpoint, None, id) /\ UNCHANGED minted
    BY <1>4 DEF Manage
  <2> QED
    BY <1>2, <2>1 DEF Endpoints
<1>5. ASSUME NEW id \in CredentialIds, NEW flow \in Flows, SignIn(s, b, flow, id) PROVE IInv'
  <2>1. Send(s, b, "login_verify", flow, id) /\ UNCHANGED minted
    BY <1>5 DEF SignIn
  <2> QED
    BY <1>2, <2>1 DEF Endpoints
<1>6. ASSUME NEW id \in CredentialIds, NEW flow \in Flows, Create(s, b, flow, id) PROVE IInv'
  <2>1. /\ Send(s, b, "register_verify", flow, id)
        /\ flow \in received[b] /\ resolved[flow] # Login
        /\ minted[id] \in {None, flow} /\ minted' = [minted EXCEPT ![id] = flow]
    BY <1>6 DEF Create
  <2>2. UNCHANGED <<storeVars, challenges, resolved, flows>>
    BY <2>1 DEF Send
  <2>3. /\ minted' \in [CredentialIds -> Flows \cup {None}] /\ minted'[id] = flow
        /\ \A c \in CredentialIds \ {id} : minted'[c] = minted[c]
    BY <1>1, <2>1
  <2>4. Monotone
    BY <1>1, <2>1, <2>2, <2>3 DEF Monotone, storeVars
  <2>5. IsRegistration(resolved[flow])
    BY <2>1 DEF IInv, BrowsersOK, FlowsOK
  <2>6. MintedOK'
    BY <2>2, <2>3, <2>5 DEF IInv, MintedOK
  <2> QED
    BY <2>1, <2>3, <2>4, <2>6, SendInv DEF Endpoints
<1> QED
  BY <1>3, <1>4, <1>5, <1>6 DEF BrowserSends
-----------------------------------------------------------------------------
\* Fail and Logout keep the invariant.
LEMMA FailInv ==
  ASSUME IInv, NEW s \in Slots, Fail(s)
  PROVE  IInv'
BY RaiseInv DEF Fail

\* A request that has its response.
Responding(old, cookies) == [old EXCEPT !.step = "respond", !.response = cookies]

\* It differs from the request it was in its step and its response only.
LEMMA RespondTyped ==
  ASSUME NEW old \in Request, NEW C \in SUBSET Cookies, NEW cookies \in [C -> CookieValue]
  PROVE  /\ Responding(old, cookies) \in Request
         /\ Responding(old, cookies).step = "respond"
         /\ Responding(old, cookies).response = cookies
         /\ Responding(old, cookies).endpoint = old.endpoint
         /\ Responding(old, cookies).browser = old.browser
         /\ Responding(old, cookies).cookies = old.cookies
         /\ Responding(old, cookies).answers = old.answers
         /\ Responding(old, cookies).id = old.id
         /\ Responding(old, cookies).flow = old.flow
         /\ ~Holding(Responding(old, cookies))
<1>1. cookies \in UNION {[D -> CookieValue] : D \in SUBSET Cookies}
  OBVIOUS
<1> QED
  BY <1>1 DEF Request, Holding, Preparing, Completing, Responding

\* Responding keeps the invariant if the cookies are valid, and the flow is
\* one whose options were made.
LEMMA RespondInv ==
  ASSUME IInv, NEW s \in Slots, NEW C \in SUBSET Cookies, NEW cookies \in [C -> CookieValue],
         Respond(s, cookies), CookiesValid(cookies, users, resolved),
         requests[s].step # "idle", requests[s].flow = None,
         UNCHANGED <<storeVars, challenges, records, flows, browsers, received, minted,
                     resolved, completions>>
  PROVE  IInv'
<1>1. PICK old \in Request : old = requests[s]
  BY RequestFacts
<1>2. PICK r : r = Responding(old, cookies)
  OBVIOUS
<1>3. /\ r \in Request /\ r.step = "respond" /\ r.response = cookies
      /\ r.endpoint = old.endpoint /\ r.browser = old.browser
      /\ r.cookies = old.cookies /\ r.answers = old.answers /\ r.id = old.id
      /\ r.flow = old.flow /\ ~Holding(r)
  BY <1>2, RespondTyped
<1>4. requests' = [requests EXCEPT ![s] = r]
  BY <1>1, <1>2 DEF Respond, Responding
<1>5. RequestOK(old, users, challenges, resolved, minted, completions, flows)
  BY <1>1, RequestFacts
<1>6. RequestOK(r, users, challenges, resolved, minted, completions, flows)
  BY <1>1, <1>3, <1>5 DEF RequestOK, Holding
<1> QED
  BY <1>3, <1>4, <1>6, OnlyRequest

\* The user is allowed to log in: get_auth_user keeps the invariant.
LEMMA AllowLoginInv ==
  ASSUME IInv, NEW s \in Slots, AllowLogin(s)
  PROVE  IInv'
<1>1. PICK old \in Request : old = requests[s]
  BY RequestFacts
<1>2. PICK r : r = [old EXCEPT !.step = "login"]
  OBVIOUS
<1>3. /\ r \in Request /\ r.step = "login" /\ r.response = old.response
      /\ r.endpoint = old.endpoint /\ r.browser = old.browser
      /\ r.cookies = old.cookies /\ r.answers = old.answers /\ r.id = old.id
      /\ r.flow = old.flow /\ r.user_id = old.user_id
  BY <1>2 DEF Request
<1>4. ~Holding(r)
  BY <1>3 DEF Holding, Preparing, Completing
<1>5. /\ requests' = [requests EXCEPT ![s] = r]
      /\ old.endpoint = "login_verify" /\ old.step = "host"
      /\ UNCHANGED <<storeVars, challenges, records, flows, browsers, received, minted,
                     resolved, completions>>
  BY <1>1, <1>2 DEF AllowLogin, At, Goto
<1>6. RequestOK(old, users, challenges, resolved, minted, completions, flows)
  BY <1>1, RequestFacts
<1>7. RequestOK(r, users, challenges, resolved, minted, completions, flows)
  BY <1>3, <1>4, <1>5, <1>6 DEF RequestOK, Holding
<1> QED
  BY <1>3, <1>4, <1>5, <1>7, OnlyRequest

\* The login hook's response carries the session of a stored user.
LEMMA LogInInv ==
  ASSUME IInv, NEW s \in Slots, LogIn(s)
  PROVE  IInv'
<1>1. /\ requests[s].step = "login"
      /\ UNCHANGED <<storeVars, challenges, records, flows, browsers, received, minted,
                     resolved, completions>>
  BY DEF LogIn
<1>2. /\ requests[s].user_id \in UserIds /\ users[requests[s].user_id] # None
      /\ requests[s].flow = None
  BY <1>1, RequestFacts DEF RequestOK
<1> DEFINE login == [session |-> requests[s].user_id, authentication |-> None]
           registration == [session |-> requests[s].user_id, registration |-> None]
<1>3. /\ login \in [{"session", "authentication"} -> CookieValue]
      /\ registration \in [{"session", "registration"} -> CookieValue]
  BY <1>2 DEF CookieValue
<1>4. /\ CookiesValid(login, users, resolved)
      /\ CookiesValid(registration, users, resolved)
  BY <1>2 DEF CookiesValid
<1>5. Respond(s, login) \/ Respond(s, registration)
  BY DEF LogIn
<1> HIDE DEF login, registration
<1>6. CASE Respond(s, login)
  <2>1. PICK C \in SUBSET Cookies : C = {"session", "authentication"}
    BY DEF Cookies
  <2>2. PICK c \in [C -> CookieValue] : c = login
    BY <1>3, <2>1
  <2>3. Respond(s, c) /\ CookiesValid(c, users, resolved)
    BY <1>4, <1>6, <2>2
  <2> QED
    BY <1>1, <1>2, <2>3, RespondInv
<1>7. CASE Respond(s, registration)
  <2>1. PICK C \in SUBSET Cookies : C = {"session", "registration"}
    BY DEF Cookies
  <2>2. PICK c \in [C -> CookieValue] : c = registration
    BY <1>3, <2>1
  <2>3. Respond(s, c) /\ CookiesValid(c, users, resolved)
    BY <1>4, <1>7, <2>2
  <2> QED
    BY <1>1, <1>2, <2>3, RespondInv
<1> QED
  BY <1>5, <1>6, <1>7

\* The response of a logout deletes every cookie.
LEMMA LogoutInv ==
  ASSUME IInv, NEW s \in Slots, Logout(s)
  PROVE  IInv'
<1>1. /\ requests[s].step = "limit" /\ Respond(s, NoCookies)
      /\ UNCHANGED <<storeVars, challenges, records, flows, browsers, received, minted,
                     resolved, completions>>
  BY DEF Logout, At
<1>2. requests[s].flow = None
  BY <1>1, RequestFacts DEF RequestOK
<1>3. PICK C \in SUBSET Cookies : C = Cookies
  OBVIOUS
<1>4. PICK c \in [C -> CookieValue] : c = NoCookies
  BY <1>3 DEF NoCookies, CookieValue
<1>5. Respond(s, c) /\ CookiesValid(c, users, resolved)
  BY <1>1, <1>4, NoCookiesValid
<1> QED
  BY <1>1, <1>2, <1>5, RespondInv

\* The hook resolves a username: its context is one of a registration.
LEMMA ResolveUsernameInv ==
  ASSUME IInv, NEW s \in Slots, NEW user \in Subjects, ResolveUsername(s, user)
  PROVE  IInv'
<1> DEFINE context == ContextOf("self_registration", user, None)
<1>1. PICK old \in Request : old = requests[s]
  BY RequestFacts
<1>2. IsRegistration(context)
  BY NoneApart DEF IsRegistration, ContextOf, Context, Login
<1>3. /\ requests' = [requests EXCEPT ![s].step = "begin", ![s].context = context]
      /\ old.endpoint = "register_options" /\ old.step = "resolve"
      /\ UNCHANGED <<storeVars, challenges, records, flows, browsers, received, minted,
                     resolved, completions>>
  BY <1>1 DEF ResolveUsername, At, Resolved
<1> HIDE DEF context
<1>4. PICK r : r = [old EXCEPT !.step = "begin", !.context = context]
  OBVIOUS
<1>5. /\ r \in Request /\ r.step = "begin" /\ r.context = context
      /\ r.endpoint = old.endpoint /\ r.browser = old.browser
      /\ r.cookies = old.cookies /\ r.flow = old.flow
  BY <1>2, <1>4, NoneApart DEF Request
<1>6. requests' = [requests EXCEPT ![s] = r]
  BY <1>1, <1>3, <1>4
<1>7. RequestOK(old, users, challenges, resolved, minted, completions, flows)
  BY <1>1, RequestFacts
<1>8. RequestOK(r, users, challenges, resolved, minted, completions, flows)
  BY <1>2, <1>3, <1>5, <1>7 DEF RequestOK, Preparing, Completing
<1>9. Holding(requests[s])
  BY <1>1, <1>3 DEF Holding, Preparing
<1> QED
  BY <1>1, <1>3, <1>5, <1>6, <1>8, <1>9, OnlyRequest

\* The session is read, and the body or the host is awaited.
LEMMA AuthorizeInv ==
  ASSUME IInv, NEW s \in Slots, NEW allow_final \in BOOLEAN, Authorize(s, allow_final)
  PROVE  IInv'
<1> DEFINE session == requests[s].cookies.session
<1>1. PICK old \in Request : old = requests[s]
  BY RequestFacts
<1>2. /\ old.endpoint \in {"credential_label", "credential_remove"}
      /\ old.step = "limit"
      /\ UNCHANGED <<storeVars, challenges, records, flows, browsers, received, minted,
                     resolved, completions>>
  BY <1>1 DEF Authorize
<1>3. CASE session = None
  BY <1>2, <1>3, RaiseInv DEF Authorize
<1>4. CASE session # None
  <2>1. RequestOK(old, users, challenges, resolved, minted, completions, flows)
    BY <1>1, RequestFacts
  <2>2. session \in UserIds
    BY <1>1, <1>4, <2>1 DEF RequestOK, CookiesValid, Request, Cookies
  <2>3. PICK r : r = [old EXCEPT !.step = "store", !.user_id = session,
                                 !.allow_final = allow_final]
    OBVIOUS
  <2>4. /\ r \in Request /\ r.step = "store" /\ r.user_id = session
        /\ r.endpoint = old.endpoint /\ r.browser = old.browser /\ r.id = old.id
        /\ r.cookies = old.cookies /\ r.flow = old.flow
    BY <2>2, <2>3 DEF Request
  <2>5. requests' = [requests EXCEPT ![s] = r]
    BY <1>1, <1>4, <2>3 DEF Authorize
  <2>6. ~Holding(r)
    BY <2>4 DEF Holding, Preparing, Completing
  <2>7. RequestOK(r, users, challenges, resolved, minted, completions, flows)
    BY <1>2, <2>1, <2>2, <2>4, <2>6 DEF RequestOK, Holding
  <2> QED
    BY <1>2, <2>4, <2>5, <2>6, <2>7, OnlyRequest
<1> QED
  BY <1>3, <1>4
-----------------------------------------------------------------------------
\* A step that makes no flow and completes none, but may end challenges.
Quiet ==
  /\ UNCHANGED <<users, flows, minted, resolved, completions>>
  /\ challenges' \in [Flows -> Context \cup {None}]
  /\ \A f \in Flows : challenges'[f] \in {None, challenges[f]}

\* Such a step takes nothing back, and leaves every request its own flow.
LEMMA QuietKeeps ==
  ASSUME IInv, Quiet
  PROVE  /\ Monotone /\ flows' \in 0 .. MaxFlows
         /\ \A t \in Slots : FlowKept(requests[t])
<1>1. Monotone /\ flows' \in 0 .. MaxFlows
  BY RouterAssumption DEF Quiet, Monotone, IInv, TypeOK
<1>2. ASSUME NEW t \in Slots PROVE FlowKept(requests[t])
  BY RequestFacts DEF RequestOK, FlowKept, Quiet
<1> QED
  BY <1>1, <1>2

\* An ended request is forgotten.
LEMMA RaiseRequests ==
  ASSUME IInv, Monotone, flows' \in 0 .. MaxFlows, NEW s \in Slots, Raise(s),
         \A t \in Slots \ {s} : FlowKept(requests[t])
  PROVE  requests' \in [Slots -> Request] /\ RequestsOK' /\ HoldersUnique'
<1>1. PICK r \in Request : r = Idle
  BY IdleTyped
<1>2. /\ RequestOK(r, users', challenges', resolved', minted', completions', flows')
      /\ ~Holding(r)
  BY <1>1, IdleOK
<1>3. requests' = [requests EXCEPT ![s] = r]
  BY <1>1 DEF Raise
<1> QED
  BY <1>2, <1>3, RequestsStep

\* Requests that a quiet step leaves alone keep their invariants.
LEMMA RequestsQuiet ==
  ASSUME IInv, Quiet, UNCHANGED requests
  PROVE  requests' \in [Slots -> Request] /\ RequestsOK' /\ HoldersUnique'
<1>1. RequestsOK'
  BY QuietKeeps, RequestKept, RequestFacts DEF RequestsOK
<1> QED
  BY <1>1 DEF IInv, TypeOK, HoldersUnique

\* A quiet step keeps the invariant if it adds no passkey and keeps what is
\* said of the store, the capabilities, the browsers and the requests.
LEMMA QuietInv ==
  ASSUME IInv, Quiet, StoreInv',
         \A id \in CredentialIds : credentials'[id] # None =>
           credentials[id] # None /\ credentials'[id].user_id = credentials[id].user_id,
         records' \in [Capabilities -> Enrollment!Capability], CapabilitiesOK',
         browsers' \in [Browsers -> [session : UserIds \cup {None},
                                     authentication : Flows \cup {None},
                                     registration : Flows \cup {None}]],
         received' \in [Browsers -> SUBSET Flows], BrowsersOK',
         requests' \in [Slots -> Request], RequestsOK', HoldersUnique'
  PROVE  IInv'
<1>1. Monotone
  BY QuietKeeps
<1>2. TypeOK'
  BY DEF IInv, TypeOK, StoreInv, Quiet
<1>3. SubjectsStored'
  BY DEF IInv, SubjectsStored, Quiet
<1>4. FlowsOK'
  BY DEF IInv, FlowsOK, Quiet
<1>5. MintedOK' /\ StoredAsResolved'
  BY <1>1, MintedKept, StoredKept DEF Quiet
<1> QED
  BY <1>2, <1>3, <1>4, <1>5 DEF IInv

\* Changing a capability that is neither consumed nor revoked disturbs no
\* completed flow.
LEMMA CapabilitiesMove ==
  ASSUME IInv, UNCHANGED <<completions, resolved>>,
         \A c \in Capabilities : records'[c] = records[c] \/ Enrollment!Open(records[c])
  PROVE  CapabilitiesOK'
<1> SUFFICES ASSUME NEW f \in Flows, completions[f] > 0, resolved[f].capability_id # None
             PROVE  /\ records'[resolved[f].capability_id].consumed_at # None
                    /\ records'[resolved[f].capability_id].claimed_flow_id = f
  BY DEF CapabilitiesOK
<1>1. /\ records[resolved[f].capability_id].consumed_at # None
      /\ records[resolved[f].capability_id].claimed_flow_id = f
  BY DEF IInv, CapabilitiesOK
<1>2. resolved[f] # None /\ resolved[f] \in Context
  BY DEF IInv, FlowsOK, TypeOK
<1>3. resolved[f].capability_id \in Capabilities
  BY <1>2 DEF Context
<1> QED
  BY <1>1, <1>3 DEF Enrollment!Open

\* The store is left alone.
LEMMA StoreKept ==
  ASSUME IInv, UNCHANGED storeVars
  PROVE  /\ StoreInv' /\ UNCHANGED users
         /\ \A id \in CredentialIds : credentials'[id] # None =>
              credentials[id] # None /\ credentials'[id].user_id = credentials[id].user_id
BY DEF IInv, StoreInv, StoreTypeOK, OwnersExist, HandleIndexInverse, storeVars

\* The flow's challenge was popped, and no other.
LEMMA PoppedQuiet ==
  ASSUME IInv, NEW flow \in Flows, challenges' = Popped(flow),
         UNCHANGED <<users, flows, minted, resolved, completions>>
  PROVE  /\ Quiet /\ challenges'[flow] = None
         /\ \A f \in Flows \ {flow} : challenges'[f] = challenges[f]
BY DEF IInv, TypeOK, Quiet, Popped

\* A challenge expires.
LEMMA ExpireInv ==
  ASSUME IInv, NEW flow \in Flows, Expire(flow)
  PROVE  IInv'
<1>1. /\ challenges' = Popped(flow)
      /\ UNCHANGED <<storeVars, records, flows, browsers, received, requests, minted,
                     resolved, completions>>
  BY DEF Expire
<1>2. Quiet
  BY <1>1, PoppedQuiet, StoreKept
<1>3. Monotone
  BY <1>2, QuietKeeps
<1>4. CapabilitiesOK' /\ BrowsersOK'
  BY <1>1, <1>3, CapabilitiesKept, BrowsersKept
<1> QED
  BY <1>1, <1>2, <1>4, StoreKept, RequestsQuiet, QuietInv DEF IInv, TypeOK

\* The host releases a claim that was not used.
LEMMA ReleaseClaimInv ==
  ASSUME IInv, NEW capability \in Capabilities, ReleaseClaim(capability)
  PROVE  IInv'
<1>1. /\ Enrollment!Open(records[capability])
      /\ records' = [records EXCEPT ![capability].claimed_flow_id = None,
                                    ![capability].claimed_at = None]
      /\ UNCHANGED <<storeVars, challenges, flows, browsers, received, requests, minted,
                     resolved, completions>>
  BY DEF ReleaseClaim, Enrollment!Releasable
<1>2. records[capability] \in Enrollment!Capability
  BY DEF IInv, TypeOK
<1>3. [records[capability] EXCEPT !.claimed_flow_id = None, !.claimed_at = None]
        \in Enrollment!Capability
  BY <1>2 DEF Enrollment!Capability, Enrollment!Stamp
<1>4. /\ records' \in [Capabilities -> Enrollment!Capability]
      /\ \A c \in Capabilities : c # capability => records'[c] = records[c]
  BY <1>1, <1>3 DEF IInv, TypeOK
<1>5. Quiet
  BY <1>1, StoreKept DEF Quiet, IInv, TypeOK
<1>6. Monotone
  BY <1>5, QuietKeeps
<1>7. CapabilitiesOK' /\ BrowsersOK'
  BY <1>1, <1>4, <1>6, CapabilitiesMove, BrowsersKept
<1> QED
  BY <1>1, <1>4, <1>5, <1>7, StoreKept, RequestsQuiet, QuietInv DEF IInv, TypeOK
-----------------------------------------------------------------------------
\* A response that arrives replaces cookies by cookies of the same kinds,
\* however late it is.
LEMMA ArriveInv ==
  ASSUME IInv, NEW s \in Slots, Arrive(s)
  PROVE  IInv'
<1>1. PICK r \in Request : r = requests[s]
  BY RequestFacts
<1>2. /\ r.step = "respond"
      /\ browsers' = [browsers EXCEPT ![r.browser] =
                        Replaced(browsers[r.browser], r.response)]
      /\ received' = IF r.flow = None THEN received
                     ELSE [received EXCEPT ![r.browser] = received[r.browser] \cup {r.flow}]
      /\ Raise(s)
      /\ UNCHANGED <<storeVars, challenges, records, flows, minted, resolved, completions>>
  BY <1>1 DEF Arrive
<1>3. /\ r.browser \in Browsers /\ CookiesValid(r.response, users, resolved)
      /\ r.flow # None => r.flow \in Flows /\ resolved[r.flow] # None
  BY <1>1, <1>2, RequestFacts DEF RequestOK
<1>4. PICK b \in Browsers : b = r.browser
  BY <1>3
<1>5. /\ browsers[b] \in [session : UserIds \cup {None}, authentication : Flows \cup {None},
                          registration : Flows \cup {None}]
      /\ CookiesValid(browsers[b], users, resolved)
  BY DEF IInv, TypeOK, BrowsersOK
<1>6. PICK cookies : cookies = Replaced(browsers[b], r.response)
  OBVIOUS
<1>7. /\ cookies = [c \in Cookies |-> IF c \in DOMAIN r.response THEN r.response[c]
                                      ELSE browsers[b][c]]
      /\ DOMAIN cookies = Cookies
  BY <1>6 DEF Replaced
<1>8. CookiesValid(cookies, users, resolved)
  BY <1>3, <1>5, <1>7 DEF CookiesValid, Cookies
<1>9. cookies \in [session : UserIds \cup {None}, authentication : Flows \cup {None},
                   registration : Flows \cup {None}]
  BY <1>7, <1>8 DEF CookiesValid, Cookies
<1>10. /\ browsers' = [browsers EXCEPT ![b] = cookies]
       /\ browsers \in [Browsers -> [session : UserIds \cup {None},
                                     authentication : Flows \cup {None},
                                     registration : Flows \cup {None}]]
       /\ received \in [Browsers -> SUBSET Flows]
  BY <1>2, <1>4, <1>6 DEF IInv, TypeOK
<1>11. /\ browsers' \in [Browsers -> [session : UserIds \cup {None},
                                      authentication : Flows \cup {None},
                                      registration : Flows \cup {None}]]
       /\ browsers'[b] = cookies
       /\ \A a \in Browsers \ {b} : browsers'[a] = browsers[a]
  BY <1>9, <1>10
<1>12. /\ received' \in [Browsers -> SUBSET Flows]
       /\ \A a \in Browsers : \A f \in received'[a] : f \in received[a] \/ (f = r.flow /\ f # None)
  <2>1. CASE r.flow = None
    BY <1>2, <1>10, <2>1
  <2>2. CASE r.flow # None
    <3>1. /\ received' = [received EXCEPT ![b] = received[b] \cup {r.flow}]
          /\ r.flow \in Flows
      BY <1>2, <1>3, <1>4, <2>2
    <3>2. received[b] \cup {r.flow} \in SUBSET Flows
      BY <1>10, <3>1
    <3> QED
      BY <1>10, <2>2, <3>1, <3>2
  <2> QED
    BY <2>1, <2>2
<1>13. Quiet
  BY <1>2, StoreKept DEF Quiet, IInv, TypeOK
<1>14. BrowsersOK'
  <2>1. ASSUME NEW a \in Browsers
        PROVE  /\ CookiesValid(browsers'[a], users', resolved')
               /\ \A f \in received'[a] : resolved'[f] # None
    <3>1. CookiesValid(browsers[a], users, resolved)
            /\ \A f \in received[a] : resolved[f] # None
      BY DEF IInv, BrowsersOK
    <3>2. users' = users /\ resolved' = resolved
      BY <1>13 DEF Quiet
    <3>3. CookiesValid(browsers'[a], users, resolved)
      BY <1>8, <1>11, <3>1
    <3>4. \A f \in received'[a] : resolved[f] # None
      BY <1>3, <1>12, <3>1
    <3> QED
      BY <3>2, <3>3, <3>4
  <2> QED
    BY <2>1 DEF BrowsersOK
<1>15. CapabilitiesOK'
  BY <1>2, <1>13, QuietKeeps, CapabilitiesKept
<1>16. requests' \in [Slots -> Request] /\ RequestsOK' /\ HoldersUnique'
  BY <1>2, <1>13, QuietKeeps, RaiseRequests
<1> QED
  BY <1>2, <1>11, <1>12, <1>13, <1>14, <1>15, <1>16, StoreKept, QuietInv DEF IInv, TypeOK

\* A credential endpoint's call of the store keeps the invariant.
LEMMA ManageInv ==
  ASSUME IInv, NEW s \in Slots, Raise(s), StoreInv', UNCHANGED <<users, users_by_handle>>,
         \A id \in CredentialIds : credentials'[id] # None =>
           credentials[id] # None /\ credentials'[id].user_id = credentials[id].user_id,
         UNCHANGED <<challenges, records, flows, browsers, received, minted, resolved,
                     completions>>
  PROVE  IInv'
<1>1. Quiet
  BY DEF Quiet, IInv, TypeOK
<1>2. CapabilitiesOK' /\ BrowsersOK'
  BY <1>1, QuietKeeps, CapabilitiesKept, BrowsersKept
<1>3. requests' \in [Slots -> Request] /\ RequestsOK' /\ HoldersUnique'
  BY <1>1, QuietKeeps, RaiseRequests
<1> QED
  BY <1>1, <1>2, <1>3, QuietInv DEF IInv, TypeOK

\* What a call of the store does to the credentials, from what it keeps.
LEMMA OwnersKept ==
  ASSUME NeverReassigned,
         \A id \in CredentialIds : credentials'[id] # None => credentials[id] # None
  PROVE  \A id \in CredentialIds : credentials'[id] # None =>
           credentials[id] # None /\ credentials'[id].user_id = credentials[id].user_id
BY DEF NeverReassigned

\* update_credential_label keeps the invariant, and reassigns nothing.
LEMMA LabelCredentialInv ==
  ASSUME IInv, NEW s \in Slots, NEW label \in Labels \cup {None}, LabelCredential(s, label)
  PROVE  IInv' /\ NeverReassigned
<1>1. /\ requests[s].step = "store" /\ requests[s].endpoint = "credential_label"
      /\ UpdateCredentialLabel(requests[s].id, requests[s].user_id, label)
      /\ Raise(s)
      /\ UNCHANGED <<challenges, records, flows, browsers, received, minted, resolved,
                     completions>>
  BY DEF LabelCredential, At
<1>2. PICK id \in CredentialIds, owner \in UserIds :
        id = requests[s].id /\ owner = requests[s].user_id
  BY <1>1, RequestFacts DEF RequestOK
<1>3. UpdateCredentialLabel(id, owner, label)
  BY <1>1, <1>2
<1>4. StoreInv' /\ NeverReassigned
  BY <1>3, UpdateLabelInv DEF IInv
<1>5. /\ UNCHANGED <<users, users_by_handle>>
      /\ \A c \in CredentialIds : credentials'[c] # None => credentials[c] # None
  BY <1>3 DEF UpdateCredentialLabel, OwnedBy, IInv, TypeOK, StoreTypeOK
<1> QED
  BY <1>1, <1>4, <1>5, OwnersKept, ManageInv

\* delete_credential keeps the invariant, and reassigns nothing.
LEMMA RemoveCredentialInv ==
  ASSUME IInv, NEW s \in Slots, RemoveCredential(s)
  PROVE  IInv' /\ NeverReassigned
<1>1. /\ requests[s].step = "store" /\ requests[s].endpoint = "credential_remove"
      /\ DeleteCredential(requests[s].id, requests[s].user_id, ~requests[s].allow_final)
      /\ Raise(s)
      /\ UNCHANGED <<challenges, records, flows, browsers, received, minted, resolved,
                     completions>>
  BY DEF RemoveCredential, At
<1>2. PICK id \in CredentialIds, owner \in UserIds \cup {None} :
        id = requests[s].id /\ owner = requests[s].user_id
  BY <1>1, RequestFacts DEF RequestOK
<1>3. PICK require_remaining : require_remaining = ~requests[s].allow_final
  OBVIOUS
<1>4. DeleteCredential(id, owner, require_remaining)
  BY <1>1, <1>2, <1>3
<1>5. StoreInv' /\ NeverReassigned
  BY <1>4, DeleteCredentialInv DEF IInv
<1>6. /\ UNCHANGED <<users, users_by_handle>>
      /\ \A c \in CredentialIds : credentials'[c] # None => credentials[c] # None
  BY <1>4 DEF DeleteCredential, IInv, TypeOK, StoreTypeOK
<1> QED
  BY <1>1, <1>5, <1>6, OwnersKept, ManageInv
-----------------------------------------------------------------------------
\* The flow that the cookie of a request names.
LEMMA CookieFlows ==
  ASSUME IInv, NEW s \in Slots
  PROVE  /\ requests[s].cookies.session # None =>
              /\ requests[s].cookies.session \in UserIds
              /\ users[requests[s].cookies.session] # None
         /\ requests[s].cookies.authentication # None =>
              requests[s].cookies.authentication \in Flows
         /\ requests[s].cookies.registration # None =>
              requests[s].cookies.registration \in Flows
<1>1. requests[s] \in Request /\ CookiesValid(requests[s].cookies, users, resolved)
  BY RequestFacts DEF RequestOK
<1> QED
  BY <1>1 DEF CookiesValid, Request, Cookies

\* A verified login waits for the host; the challenge is gone in any case.
LEMMA LoginVerifyInv ==
  ASSUME IInv, NEW s \in Slots, NEW count \in SignCounts, LoginVerify(s, count)
  PROVE  IInv' /\ [NeverReassigned]_storeVars
<1> DEFINE flow == requests[s].cookies.authentication
           stored == credentials[requests[s].id]
<1>1. /\ requests[s].endpoint = "login_verify" /\ requests[s].step = "limit"
      /\ UNCHANGED <<records, flows, browsers, received, minted, resolved, completions>>
      /\ \/ Raise(s) /\ UNCHANGED <<storeVars, challenges>>
         \/ /\ flow # None /\ stored # None
            /\ challenges' = Popped(flow)
            /\ \/ /\ CompareAndSetCredentialAfterLogin(requests[s].id, stored.sign_count, count)
                  /\ requests' = [requests EXCEPT ![s].step = "host",
                                                  ![s].user_id = stored.user_id]
               \/ Raise(s) /\ UNCHANGED storeVars
  BY DEF LoginVerify, At
<1>2. CASE Raise(s) /\ UNCHANGED <<storeVars, challenges>>
  BY <1>1, <1>2, RaiseInv
<1>3. ASSUME flow # None, stored # None, challenges' = Popped(flow)
      PROVE  flow \in Flows
  BY <1>3, CookieFlows
<1>4. CASE /\ flow # None /\ stored # None /\ challenges' = Popped(flow)
           /\ Raise(s) /\ UNCHANGED storeVars
  <2>1. Quiet
    BY <1>1, <1>3, <1>4, PoppedQuiet, StoreKept
  <2>2. CapabilitiesOK' /\ BrowsersOK'
    BY <1>1, <2>1, QuietKeeps, CapabilitiesKept, BrowsersKept
  <2>3. requests' \in [Slots -> Request] /\ RequestsOK' /\ HoldersUnique'
    BY <1>4, <2>1, QuietKeeps, RaiseRequests
  <2>4. IInv'
    BY <1>1, <1>4, <2>1, <2>2, <2>3, StoreKept, QuietInv DEF IInv, TypeOK
  <2> QED
    BY <1>4, <2>4
<1>5. CASE /\ flow # None /\ stored # None /\ challenges' = Popped(flow)
           /\ CompareAndSetCredentialAfterLogin(requests[s].id, stored.sign_count, count)
           /\ requests' = [requests EXCEPT ![s].step = "host",
                                           ![s].user_id = stored.user_id]
  <2>1. PICK old \in Request : old = requests[s]
    BY RequestFacts
  <2>2. RequestOK(old, users, challenges, resolved, minted, completions, flows)
    BY <2>1, RequestFacts
  <2>3. PICK id \in CredentialIds : id = requests[s].id
    BY <1>1, <2>1, <2>2 DEF RequestOK
  <2>4. /\ credentials[id] \in PasskeyCredential /\ credentials[id] # None
        /\ stored = credentials[id]
    BY <1>5, <2>3 DEF IInv, TypeOK, StoreTypeOK
  <2>5. PICK expected \in SignCounts : expected = stored.sign_count
    BY <2>4 DEF PasskeyCredential
  <2>6. PICK owner \in UserIds : owner = stored.user_id
    BY <2>4 DEF PasskeyCredential
  <2>7. users[owner] # None
    BY <2>4, <2>6 DEF IInv, StoreInv, OwnersExist
  <2>8. CompareAndSetCredentialAfterLogin(id, expected, count)
    BY <1>5, <2>3, <2>5
  <2>9. StoreInv' /\ NeverReassigned /\ UNCHANGED <<users, users_by_handle>>
    BY <2>8, CompareAndSetInv DEF IInv, CompareAndSetCredentialAfterLogin
  <2>10. \A c \in CredentialIds : credentials'[c] # None => credentials[c] # None
    BY <2>4, <2>8 DEF CompareAndSetCredentialAfterLogin, IInv, TypeOK, StoreTypeOK
  <2>11. \A c \in CredentialIds : credentials'[c] # None =>
           credentials[c] # None /\ credentials'[c].user_id = credentials[c].user_id
    BY <2>9, <2>10, OwnersKept
  <2>12. Quiet
    BY <1>1, <1>3, <1>5, <2>9, PoppedQuiet
  <2>13. CapabilitiesOK' /\ BrowsersOK'
    BY <1>1, <2>12, QuietKeeps, CapabilitiesKept, BrowsersKept
  <2>14. PICK r : r = [old EXCEPT !.step = "host", !.user_id = owner]
    OBVIOUS
  <2>15. /\ r \in Request /\ r.step = "host" /\ r.user_id = owner
         /\ r.endpoint = old.endpoint /\ r.browser = old.browser
         /\ r.cookies = old.cookies /\ r.answers = old.answers /\ r.id = old.id
         /\ r.flow = old.flow
    BY <2>14 DEF Request
  <2>16. ~Holding(r)
    BY <1>1, <2>1, <2>15 DEF Holding, Preparing, Completing
  <2>17. requests' = [requests EXCEPT ![s] = r]
    BY <1>5, <2>1, <2>6, <2>14
  <2>18. RequestOK(r, users, challenges, resolved, minted, completions, flows)
    BY <1>1, <2>1, <2>2, <2>7, <2>15, <2>16 DEF RequestOK, Holding
  <2>19. FlowKept(r)
    BY <2>16 DEF FlowKept, Holding
  <2>20. RequestOK(r, users', challenges', resolved', minted', completions', flows')
    BY <2>12, <2>15, <2>18, <2>19, QuietKeeps, RequestKept DEF IInv, TypeOK
  <2>21. requests' \in [Slots -> Request] /\ RequestsOK' /\ HoldersUnique'
    BY <2>12, <2>15, <2>16, <2>17, <2>20, QuietKeeps, RequestsStep
  <2> QED
    BY <1>1, <2>9, <2>11, <2>12, <2>13, <2>21, QuietInv DEF IInv, TypeOK
<1> QED
  BY <1>1, <1>2, <1>4, <1>5

\* A verified registration is the request's own: it popped the challenge, and
\* holds the context saved with it.
LEMMA RegisterVerifyInv ==
  ASSUME IInv, NEW s \in Slots, RegisterVerify(s)
  PROVE  IInv'
<1> DEFINE cookie == requests[s].cookies.registration
<1>1. /\ requests[s].endpoint = "register_verify" /\ requests[s].step = "limit"
      /\ UNCHANGED <<storeVars, records, flows, browsers, received, minted, resolved,
                     completions>>
      /\ \/ Raise(s) /\ UNCHANGED challenges
         \/ /\ cookie # None /\ Stored(cookie, Registrations)
            /\ challenges' = Popped(cookie)
            /\ \/ /\ requests[s].answers = cookie
                  /\ requests' = [requests EXCEPT ![s].step = "host", ![s].flow = cookie,
                                                  ![s].context = challenges[cookie]]
               \/ Raise(s)
  BY DEF RegisterVerify, At
<1>2. CASE Raise(s) /\ UNCHANGED challenges
  BY <1>1, <1>2, RaiseInv
<1>3. CASE cookie # None /\ Stored(cookie, Registrations) /\ challenges' = Popped(cookie)
  <2>1. PICK flow \in Flows : flow = cookie
    BY <1>3, CookieFlows
  <2>2. /\ Quiet /\ challenges'[flow] = None
        /\ \A f \in Flows \ {flow} : challenges'[f] = challenges[f]
    BY <1>1, <1>3, <2>1, PoppedQuiet, StoreKept
  <2>3. CapabilitiesOK' /\ BrowsersOK'
    BY <1>1, <2>2, QuietKeeps, CapabilitiesKept, BrowsersKept
  <2>4. requests' \in [Slots -> Request] /\ RequestsOK' /\ HoldersUnique'
    <3>1. CASE Raise(s)
      BY <2>2, <3>1, QuietKeeps, RaiseRequests
    <3>2. CASE /\ requests[s].answers = cookie
               /\ requests' = [requests EXCEPT ![s].step = "host", ![s].flow = cookie,
                                               ![s].context = challenges[cookie]]
      <4>1. PICK old \in Request : old = requests[s]
        BY RequestFacts
      <4>2. RequestOK(old, users, challenges, resolved, minted, completions, flows)
        BY <4>1, RequestFacts
      <4>3. PICK context \in Context : context = challenges[flow]
        BY <1>3, <2>1 DEF Stored, IInv, TypeOK
      <4>4. /\ context = resolved[flow] /\ completions[flow] = 0
            /\ IsRegistration(context)
        BY <1>3, <2>1, <4>3, NoneApart DEF Stored, Registrations, IInv, FlowsOK
      <4>5. PICK r : r = [old EXCEPT !.step = "host", !.flow = flow, !.context = context]
        OBVIOUS
      <4>6. /\ r \in Request /\ r.step = "host" /\ r.flow = flow /\ r.context = context
            /\ r.endpoint = old.endpoint /\ r.browser = old.browser
            /\ r.cookies = old.cookies /\ r.answers = old.answers /\ r.id = old.id
        BY <4>5 DEF Request
      <4>7. requests' = [requests EXCEPT ![s] = r]
        BY <2>1, <3>2, <4>1, <4>3, <4>5
      <4>8. /\ minted[old.id] = flow
            /\ old.endpoint = "register_verify" /\ old.step = "limit"
        BY <1>1, <2>1, <3>2, <4>1, <4>2 DEF RequestOK
      <4>9. UNCHANGED <<users, minted, resolved, completions, flows>>
        BY <2>2 DEF Quiet
      <4>10. RequestOK(r, users', challenges', resolved', minted', completions', flows')
        BY <2>2, <4>2, <4>4, <4>6, <4>8, <4>9 DEF RequestOK, Preparing, Completing
      <4>11. ASSUME NEW t \in Slots, Holding(requests[t]) PROVE requests[t].flow # flow
        <5>1. Preparing(requests[t]) => resolved[requests[t].flow] = None
          BY RequestFacts DEF RequestOK
        <5>2. Completing(requests[t]) => challenges[requests[t].flow] = None
          BY RequestFacts DEF RequestOK
        <5> QED
          BY <4>3, <4>4, <4>11, <5>1, <5>2, NoneApart DEF Holding
      <4> QED
        BY <2>2, <4>6, <4>7, <4>10, <4>11, QuietKeeps, RequestsStep
    <3> QED
      BY <1>1, <1>3, <3>1, <3>2 DEF Raise
  <2> QED
    BY <1>1, <2>2, <2>3, <2>4, StoreKept, QuietInv DEF IInv, TypeOK
<1> QED
  BY <1>1, <1>2, <1>3
-----------------------------------------------------------------------------
\* Making options: the context is saved for a flow that had none.
LEMMA SaveInv ==
  ASSUME IInv, NEW s \in Slots, NEW flow \in Flows, NEW context \in Context,
         resolved[flow] = None, context = Login \/ IsRegistration(context),
         SaveChallenge(flow, context),
         flows' \in 0 .. MaxFlows, flows <= flows', flow <= flows',
         \A t \in Slots \ {s} : Preparing(requests[t]) => requests[t].flow # flow,
         UNCHANGED <<storeVars, records, browsers, received, minted, completions>>,
         NEW r \in Request, requests' = [requests EXCEPT ![s] = r],
         RequestOK(r, users', challenges', resolved', minted', completions', flows'),
         ~Holding(r)
  PROVE  IInv'
<1>1. /\ resolved' \in [Flows -> Context \cup {None}]
      /\ challenges' \in [Flows -> Context \cup {None}]
      /\ resolved'[flow] = context /\ challenges'[flow] = context
      /\ \A f \in Flows \ {flow} : resolved'[f] = resolved[f] /\ challenges'[f] = challenges[f]
  BY DEF SaveChallenge, IInv, TypeOK
<1>2. Monotone
  BY <1>1 DEF Monotone, storeVars
<1>3. \A t \in Slots \ {s} : FlowKept(requests[t])
  <2>1. ASSUME NEW t \in Slots \ {s} PROVE FlowKept(requests[t])
    <3>1. RequestOK(requests[t], users, challenges, resolved, minted, completions, flows)
      BY RequestFacts
    <3>2. Preparing(requests[t]) => resolved'[requests[t].flow] = None
      BY <1>1, <3>1 DEF RequestOK
    <3>3. Completing(requests[t]) =>
            /\ requests[t].flow \in Flows /\ resolved[requests[t].flow] # None
            /\ challenges[requests[t].flow] = None /\ completions[requests[t].flow] = 0
      BY <3>1, NoneApart DEF RequestOK
    <3> QED
      BY <1>1, <3>2, <3>3 DEF FlowKept
  <2> QED
    BY <2>1
<1>4. requests' \in [Slots -> Request] /\ RequestsOK' /\ HoldersUnique'
  BY <1>2, <1>3, RequestsStep
<1>5. TypeOK'
  BY <1>1, <1>4, StoreKept DEF IInv, TypeOK, StoreInv
<1>6. SubjectsStored'
  BY StoreKept DEF IInv, SubjectsStored
<1>7. FlowsOK'
  <2>1. ASSUME NEW f \in Flows
        PROVE  /\ f > flows' => resolved'[f] = None
               /\ resolved'[f] # None => resolved'[f] = Login \/ IsRegistration(resolved'[f])
               /\ resolved'[f] = None => challenges'[f] = None /\ completions'[f] = 0
               /\ challenges'[f] # None =>
                    challenges'[f] = resolved'[f] /\ completions'[f] = 0
               /\ completions'[f] <= 1
    <3>1. CASE f = flow
      <4>1. completions[flow] = 0 /\ context # None
        BY NoneApart DEF IInv, FlowsOK
      <4>2. ~(flow > flows')
        BY RouterAssumption DEF Flows
      <4> QED
        BY <1>1, <3>1, <4>1, <4>2
    <3>2. CASE f # flow
      <4>1. f > flows' => f > flows
        BY RouterAssumption DEF Flows, IInv, TypeOK
      <4> QED
        BY <1>1, <3>2, <4>1 DEF IInv, FlowsOK
    <3> QED
      BY <3>1, <3>2
  <2> QED
    BY <2>1 DEF FlowsOK
<1>8. CapabilitiesOK' /\ MintedOK' /\ StoredAsResolved' /\ BrowsersOK'
  BY <1>2, CapabilitiesKept, MintedKept, StoredKept, StoreKept, BrowsersKept
<1> QED
  BY <1>4, <1>5, <1>6, <1>7, <1>8, StoreKept DEF IInv

\* begin_authentication for a new flow.
LEMMA LoginOptionsInv ==
  ASSUME IInv, NEW s \in Slots, LoginOptions(s)
  PROVE  IInv'
<1>1. PICK flow : flow = flows + 1
  OBVIOUS
<1>2. /\ requests[s].endpoint = "login_options" /\ requests[s].step = "limit"
      /\ flows < MaxFlows /\ flows' = flow
      /\ SaveChallenge(flow, Login)
      /\ requests' = [requests EXCEPT ![s].step = "respond", ![s].flow = flow,
                                      ![s].response = [authentication |-> flow]]
      /\ UNCHANGED <<storeVars, records, browsers, received, minted, completions>>
  BY <1>1 DEF LoginOptions, At
<1>3. /\ flow \in Flows /\ flows' \in 0 .. MaxFlows /\ flows <= flows' /\ flow <= flows'
      /\ flow > flows
  BY <1>1, <1>2, RouterAssumption DEF IInv, TypeOK, Flows
<1>4. resolved[flow] = None
  BY <1>3 DEF IInv, FlowsOK
<1>5. ASSUME NEW t \in Slots, Preparing(requests[t]) PROVE requests[t].flow # flow
  BY <1>3, <1>5, RequestFacts, RouterAssumption DEF RequestOK, Flows
<1>6. PICK old \in Request : old = requests[s]
  BY RequestFacts
<1>7. PICK cookies : cookies = [authentication |-> flow]
  OBVIOUS
<1>8. /\ cookies \in [{"authentication"} -> CookieValue]
      /\ DOMAIN cookies = {"authentication"} /\ cookies["authentication"] = flow
  BY <1>3, <1>7 DEF CookieValue
<1>9. PICK r : r = [old EXCEPT !.step = "respond", !.flow = flow, !.response = cookies]
  OBVIOUS
<1>10. cookies \in UNION {[C -> CookieValue] : C \in SUBSET Cookies}
  BY <1>8 DEF Cookies
<1>11. /\ r \in Request /\ r.step = "respond" /\ r.flow = flow /\ r.response = cookies
       /\ r.endpoint = old.endpoint /\ r.browser = old.browser
       /\ r.cookies = old.cookies /\ r.answers = old.answers /\ r.id = old.id
  BY <1>3, <1>9, <1>10 DEF Request
<1>12. requests' = [requests EXCEPT ![s] = r]
  BY <1>2, <1>6, <1>7, <1>9
<1>13. ~Holding(r)
  BY <1>11 DEF Holding, Preparing, Completing
<1>14. /\ resolved'[flow] = Login /\ Login # None
       /\ \A f \in Flows : resolved[f] # None => resolved'[f] = resolved[f]
  BY <1>2, <1>3, <1>4, NoneApart DEF SaveChallenge, IInv, TypeOK
<1>15. Monotone
  BY <1>2, <1>3, <1>14 DEF Monotone, storeVars
<1>16. RequestOK(old, users, challenges, resolved, minted, completions, flows)
  BY <1>6, RequestFacts
<1>17. CookiesValid(r.cookies, users', resolved')
  BY <1>11, <1>15, <1>16, CookiesKept DEF RequestOK
<1>18. CookiesValid(r.response, users', resolved')
  BY <1>3, <1>8, <1>11, <1>14 DEF CookiesValid
<1>19. RequestOK(r, users', challenges', resolved', minted', completions', flows')
  BY <1>2, <1>3, <1>6, <1>11, <1>13, <1>14, <1>16, <1>17, <1>18 DEF RequestOK, Holding
<1> QED
  BY <1>2, <1>3, <1>4, <1>5, <1>11, <1>12, <1>13, <1>19, SaveInv, NoneApart

\* begin_registration for the request's own flow.
LEMMA RegisterOptionsInv ==
  ASSUME IInv, NEW s \in Slots, RegisterOptions(s)
  PROVE  IInv'
<1>1. PICK old \in Request : old = requests[s]
  BY RequestFacts
<1>2. /\ old.endpoint = "register_options" /\ old.step = "begin"
      /\ SaveChallenge(old.flow, old.context)
      /\ requests' = [requests EXCEPT ![s].step = "respond",
                                      ![s].response = [registration |-> old.flow]]
      /\ UNCHANGED <<storeVars, records, flows, browsers, received, minted, completions>>
  BY <1>1 DEF RegisterOptions, At, Respond
<1>3. RequestOK(old, users, challenges, resolved, minted, completions, flows)
  BY <1>1, RequestFacts
<1>4. PICK flow \in Flows, context \in Context : flow = old.flow /\ context = old.context
  BY <1>2, <1>3, NoneApart DEF RequestOK, Preparing
<1>5. /\ resolved[flow] = None /\ IsRegistration(context) /\ flow <= flows
      /\ flows' = flows /\ flows \in 0 .. MaxFlows /\ flows <= flows
  BY <1>2, <1>3, <1>4, RouterAssumption DEF RequestOK, Preparing, IInv, TypeOK
<1>6. ASSUME NEW t \in Slots \ {s}, Preparing(requests[t]) PROVE requests[t].flow # flow
  BY <1>1, <1>2, <1>4, <1>6 DEF IInv, HoldersUnique, Holding, Preparing
<1>7. PICK cookies : cookies = [registration |-> flow]
  OBVIOUS
<1>8. /\ cookies \in [{"registration"} -> CookieValue]
      /\ DOMAIN cookies = {"registration"} /\ cookies["registration"] = flow
  BY <1>7 DEF CookieValue
<1>9. PICK r : r = [old EXCEPT !.step = "respond", !.response = cookies]
  OBVIOUS
<1>10. cookies \in UNION {[C -> CookieValue] : C \in SUBSET Cookies}
  BY <1>8 DEF Cookies
<1>11. /\ r \in Request /\ r.step = "respond" /\ r.flow = flow /\ r.response = cookies
       /\ r.endpoint = old.endpoint /\ r.browser = old.browser
       /\ r.cookies = old.cookies /\ r.answers = old.answers /\ r.id = old.id
  BY <1>4, <1>9, <1>10 DEF Request
<1>12. requests' = [requests EXCEPT ![s] = r]
  BY <1>1, <1>2, <1>4, <1>7, <1>9
<1>13. ~Holding(r)
  BY <1>11 DEF Holding, Preparing, Completing
<1>14. /\ resolved'[flow] = context /\ context # None
       /\ \A f \in Flows : resolved[f] # None => resolved'[f] = resolved[f]
  BY <1>2, <1>4, <1>5, NoneApart DEF SaveChallenge, IInv, TypeOK
<1>15. Monotone
  BY <1>2, <1>5, <1>14 DEF Monotone, storeVars
<1>16. CookiesValid(r.cookies, users', resolved')
  BY <1>3, <1>11, <1>15, CookiesKept DEF RequestOK
<1>17. CookiesValid(r.response, users', resolved')
  BY <1>5, <1>8, <1>11, <1>14 DEF CookiesValid
<1>18. RequestOK(r, users', challenges', resolved', minted', completions', flows')
  BY <1>2, <1>3, <1>11, <1>13, <1>14, <1>16, <1>17 DEF RequestOK, Holding
<1>19. SaveChallenge(flow, context)
  BY <1>2, <1>4
<1>20. flows' \in 0 .. MaxFlows /\ flows <= flows' /\ flow <= flows'
  BY <1>5
<1>21. UNCHANGED <<storeVars, records, browsers, received, minted, completions>>
  BY <1>2
<1> QED
  BY <1>5, <1>6, <1>11, <1>12, <1>13, <1>18, <1>19, <1>20, <1>21, SaveInv

\* A request gets a flow id nobody has, and the user of its session if it has
\* one.
LEMMA NewFlowInv ==
  ASSUME IInv, NEW s \in Slots, NewFlow(s)
  PROVE  IInv'
<1>1. PICK old \in Request : old = requests[s]
  BY RequestFacts
<1>2. PICK flow : flow = flows + 1
  OBVIOUS
<1> DEFINE context == ContextOf("additional_credential", users[old.cookies.session], None)
           known == [old EXCEPT !.step = "begin", !.flow = flow, !.context = context]
           unknown == [old EXCEPT !.step = "resolve", !.flow = flow]
<1>3. /\ old.endpoint = "register_options" /\ old.step = "limit"
      /\ flows < MaxFlows /\ flows' = flow
      /\ UNCHANGED <<storeVars, challenges, records, browsers, received, minted, resolved,
                     completions>>
      /\ \/ /\ old.cookies.session # None
            /\ requests' = [requests EXCEPT ![s] = known]
         \/ requests' = [requests EXCEPT ![s] = unknown]
  BY <1>1, <1>2 DEF NewFlow, At
<1>4. /\ flow \in Flows /\ flows' \in 0 .. MaxFlows /\ flows <= flows' /\ flow <= flows'
      /\ flow > flows /\ flows \in Nat
  BY <1>2, <1>3, RouterAssumption DEF IInv, TypeOK, Flows
<1>5. resolved[flow] = None
  BY <1>4 DEF IInv, FlowsOK
<1>6. RequestOK(old, users, challenges, resolved, minted, completions, flows)
  BY <1>1, RequestFacts
<1>7. old.cookies.session # None => IsRegistration(context)
  <2>1. SUFFICES ASSUME old.cookies.session # None PROVE IsRegistration(context)
    OBVIOUS
  <2>2. users[old.cookies.session] \in Subjects
    BY <1>1, <2>1, CookieFlows DEF IInv, SubjectsStored
  <2> QED
    BY <2>2, NoneApart DEF IsRegistration, ContextOf, Context, Login
<1>8. PICK r :
        /\ requests' = [requests EXCEPT ![s] = r]
        /\ \/ r = known /\ IsRegistration(context)
           \/ r = unknown
  BY <1>3, <1>7
<1> HIDE DEF context
<1>9. /\ r \in Request /\ r.step \in {"resolve", "begin"} /\ r.flow = flow
      /\ r.endpoint = old.endpoint /\ r.browser = old.browser
      /\ r.cookies = old.cookies /\ r.answers = old.answers /\ r.id = old.id
      /\ r.step = "begin" => IsRegistration(r.context)
  <2>1. CASE r = known /\ IsRegistration(context)
    BY <1>4, <2>1, NoneApart DEF Request
  <2>2. CASE r = unknown
    BY <1>4, <2>2 DEF Request
  <2> QED
    BY <1>8, <2>1, <2>2
<1> HIDE DEF known, unknown
<1>10. Monotone
  BY <1>3, <1>4 DEF Monotone, storeVars
<1>11. \A t \in Slots : FlowKept(requests[t])
  BY <1>3, RequestFacts DEF RequestOK, FlowKept
<1>12. RequestOK(r, users', challenges', resolved', minted', completions', flows')
  BY <1>3, <1>4, <1>5, <1>6, <1>9 DEF RequestOK, Preparing, Completing, storeVars
<1>13. ASSUME NEW t \in Slots, Holding(requests[t]) PROVE requests[t].flow # flow
  <2>1. Preparing(requests[t]) => requests[t].flow <= flows /\ requests[t].flow \in Flows
    BY RequestFacts DEF RequestOK
  <2>2. Completing(requests[t]) => resolved[requests[t].flow] # None
    BY RequestFacts, NoneApart DEF RequestOK
  <2> QED
    BY <1>4, <1>5, <1>13, <2>1, <2>2, RouterAssumption DEF Holding, Flows
<1>14. requests' \in [Slots -> Request] /\ RequestsOK' /\ HoldersUnique'
  BY <1>4, <1>8, <1>9, <1>10, <1>11, <1>12, <1>13, RequestsStep
<1>15. TypeOK'
  BY <1>3, <1>4, <1>14, StoreKept DEF IInv, TypeOK, StoreInv
<1>16. SubjectsStored'
  BY <1>3, StoreKept DEF IInv, SubjectsStored
<1>17. FlowsOK'
  <2>1. \A f \in Flows : f > flows' => f > flows
    BY <1>2, <1>3, <1>4, RouterAssumption DEF Flows
  <2> QED
    BY <1>3, <2>1 DEF IInv, FlowsOK
<1>18. CapabilitiesOK' /\ MintedOK' /\ StoredAsResolved' /\ BrowsersOK'
  BY <1>3, <1>10, CapabilitiesKept, MintedKept, StoredKept, StoreKept, BrowsersKept
<1> QED
  BY <1>3, <1>14, <1>15, <1>16, <1>17, <1>18, StoreKept DEF IInv

\* The hook claims the capability for the request's flow: no completed flow
\* had it, or it would be consumed.
LEMMA ResolveCapabilityInv ==
  ASSUME IInv, NEW s \in Slots, NEW capability \in Capabilities,
         ResolveCapability(s, capability)
  PROVE  IInv'
<1> DEFINE context == ContextOf("invitation", CapabilitySubject, capability)
           flow == requests[s].flow
           claim == [id |-> capability, flow_id |-> flow, purpose |-> "invitation", at |-> 0]
<1>1. PICK old \in Request : old = requests[s]
  BY RequestFacts
<1>2. /\ old.endpoint = "register_options" /\ old.step = "resolve"
      /\ UNCHANGED <<storeVars, challenges, flows, browsers, received, minted, resolved,
                     completions>>
      /\ \/ /\ Enrollment!ClaimAccepted(claim)
            /\ records' = [records EXCEPT ![capability] =
                             Enrollment!Claimed(records[capability], claim)]
            /\ Resolved(s, context)
         \/ Raise(s) /\ UNCHANGED records
  BY <1>1 DEF ResolveCapability, At
<1>3. CASE Raise(s) /\ UNCHANGED records
  BY <1>2, <1>3, RaiseInv
<1>4. CASE /\ Enrollment!ClaimAccepted(claim)
           /\ records' = [records EXCEPT ![capability] =
                            Enrollment!Claimed(records[capability], claim)]
           /\ Resolved(s, context)
  <2>1. RequestOK(old, users, challenges, resolved, minted, completions, flows)
    BY <1>1, RequestFacts
  <2>2. flow \in Flows
    BY <1>1, <1>2, <2>1 DEF RequestOK, Preparing
  <2>3. Enrollment!Open(records[capability])
    BY <1>4 DEF Enrollment!ClaimAccepted, Enrollment!Claimable
  <2>4. Enrollment!Claimed(records[capability], claim) \in Enrollment!Capability
    <3>1. records[capability] \in Enrollment!Capability
      BY DEF IInv, TypeOK
    <3>2. PICK f \in Flows, record \in Enrollment!Capability :
            f = flow /\ record = records[capability]
      BY <2>2, <3>1
    <3>3. 0 \in Enrollment!Stamp
      BY DEF Enrollment!Stamp, Enrollment!Time
    <3>4. [record EXCEPT !.claimed_flow_id = f, !.claimed_at = 0] \in Enrollment!Capability
      BY <3>3 DEF Enrollment!Capability
    <3> QED
      BY <3>1, <3>2, <3>4 DEF Enrollment!Claimed
  <2>5. PICK record \in Enrollment!Capability :
          record = Enrollment!Claimed(records[capability], claim)
    BY <2>4
  <2>6. /\ records' \in [Capabilities -> Enrollment!Capability]
        /\ \A c \in Capabilities : c # capability => records'[c] = records[c]
    BY <1>4, <2>5 DEF IInv, TypeOK
  <2>7. Quiet
    BY <1>2, StoreKept DEF Quiet, IInv, TypeOK
  <2>8. CapabilitiesOK' /\ BrowsersOK'
    BY <1>2, <2>3, <2>6, <2>7, QuietKeeps, CapabilitiesMove, BrowsersKept
  <2>9. IsRegistration(context) /\ context \in Context
    BY NoneApart, RouterAssumption DEF IsRegistration, ContextOf, Context, Login
  <2>10. PICK ctx \in Context : ctx = context
    BY <2>9
  <2>11. PICK r : r = [old EXCEPT !.step = "begin", !.context = ctx]
    OBVIOUS
  <2>12. requests' = [requests EXCEPT ![s] = r]
    BY <1>1, <1>4, <2>10, <2>11 DEF Resolved
  <2>13. /\ r \in Request /\ r.step = "begin" /\ r.context = ctx
         /\ r.endpoint = old.endpoint /\ r.browser = old.browser
         /\ r.cookies = old.cookies /\ r.flow = old.flow
    BY <2>11 DEF Request
  <2>14. RequestOK(r, users', challenges', resolved', minted', completions', flows')
    BY <1>2, <2>1, <2>9, <2>10, <2>13 DEF RequestOK, Preparing, Completing, storeVars
  <2>15. \A t \in Slots \ {s} : Holding(requests[t]) => requests[t].flow # r.flow
    BY <1>1, <1>2, <2>13 DEF IInv, HoldersUnique, Holding, Preparing
  <2>16. requests' \in [Slots -> Request] /\ RequestsOK' /\ HoldersUnique'
    BY <2>7, <2>12, <2>13, <2>14, <2>15, QuietKeeps, RequestsStep
  <2> QED
    BY <1>2, <2>6, <2>7, <2>8, <2>16, StoreKept, QuietInv DEF IInv, TypeOK
<1> QED
  BY <1>2, <1>3, <1>4
-----------------------------------------------------------------------------
\* Consuming the capability of a verified registration: it was claimed for
\* the request's flow, was open, and is consumed, while the others stay.
LEMMA ConsumedMoves ==
  ASSUME IInv, NEW s \in Slots, requests[s].context \in Context, MayConsume(s),
         records' = Consumed(s)
  PROVE  /\ records' \in [Capabilities -> Enrollment!Capability]
         /\ \A c \in Capabilities :
              \/ records'[c] = records[c] /\ c # requests[s].context.capability_id
              \/ /\ c = requests[s].context.capability_id
                 /\ Enrollment!Open(records[c])
                 /\ records[c].claimed_flow_id = requests[s].flow
                 /\ records'[c].claimed_flow_id = requests[s].flow
                 /\ records'[c].consumed_at # None
<1> DEFINE capability == requests[s].context.capability_id
<1>1. records \in [Capabilities -> Enrollment!Capability] /\ capability \in Capabilities \cup {None}
  BY DEF IInv, TypeOK, Context
<1>2. CASE capability = None
  BY <1>1, <1>2, NoneApart DEF Consumed
<1>3. CASE capability # None
  <2>1. PICK c \in Capabilities : c = capability
    BY <1>1, <1>3
  <2>2. Enrollment!Consumable(c, ByFlow(s))
    BY <1>3, <2>1 DEF MayConsume
  <2>3. Enrollment!Open(records[c]) /\ records[c].claimed_flow_id = requests[s].flow
    BY <2>2 DEF Enrollment!Consumable, Enrollment!IsFirstClaimed, Enrollment!ClaimedBy, ByFlow
  <2>4. records' = [records EXCEPT ![c] = [records[c] EXCEPT !.consumed_at = 0]]
    BY <1>3, <2>1 DEF Consumed
  <2>5. /\ [records[c] EXCEPT !.consumed_at = 0] \in Enrollment!Capability
        /\ [records[c] EXCEPT !.consumed_at = 0].consumed_at = 0
        /\ [records[c] EXCEPT !.consumed_at = 0].claimed_flow_id = records[c].claimed_flow_id
    BY <1>1 DEF Enrollment!Capability, Enrollment!Stamp, Enrollment!Time
  <2>6. 0 # None
    BY NoneApart
  <2>7. PICK record \in Enrollment!Capability :
          record = [records[c] EXCEPT !.consumed_at = 0]
    BY <2>5
  <2>8. /\ records' = [records EXCEPT ![c] = record]
        /\ record.consumed_at = 0 /\ record.claimed_flow_id = records[c].claimed_flow_id
    BY <2>4, <2>5, <2>7
  <2> QED
    BY <1>1, <2>1, <2>3, <2>6, <2>8
<1> QED
  BY <1>2, <1>3

\* A completion that fails has consumed the capability, which no completed
\* flow had.
LEMMA CompletionFailsInv ==
  ASSUME IInv, NEW s \in Slots, CompletionFails(s)
  PROVE  IInv'
<1>1. /\ Completing(requests[s]) /\ MayConsume(s) /\ records' = Consumed(s) /\ Raise(s)
      /\ UNCHANGED <<storeVars, challenges, flows, browsers, received, minted, resolved,
                     completions>>
  BY DEF CompletionFails, At, Completing
<1>2. requests[s].context \in Context
  BY <1>1, RequestFacts, NoneApart DEF RequestOK
<1>3. /\ records' \in [Capabilities -> Enrollment!Capability]
      /\ \A c \in Capabilities : records'[c] = records[c] \/ Enrollment!Open(records[c])
  BY <1>1, <1>2, ConsumedMoves
<1>4. Quiet
  BY <1>1, StoreKept DEF Quiet, IInv, TypeOK
<1>5. CapabilitiesOK' /\ BrowsersOK'
  BY <1>1, <1>3, <1>4, QuietKeeps, CapabilitiesMove, BrowsersKept
<1>6. requests' \in [Slots -> Request] /\ RequestsOK' /\ HoldersUnique'
  BY <1>1, <1>4, QuietKeeps, RaiseRequests
<1> QED
  BY <1>1, <1>3, <1>4, <1>5, <1>6, StoreKept, QuietInv DEF IInv, TypeOK

\* A completion saves the registration of the user resolved for the flow the
\* passkey was made for, consumes its capability, and ends the flow.
LEMMA CompleteRegistrationInv ==
  ASSUME IInv, NEW s \in Slots, NEW public_key \in PublicKeys,
         CompleteRegistration(s, public_key)
  PROVE  IInv' /\ NeverReassigned
<1>1. PICK old \in Request : old = requests[s]
  BY RequestFacts
<1>2. /\ Completing(old) /\ old.step = "host" /\ MayConsume(s) /\ records' = Consumed(s)
      /\ SaveRegistration(Subject(s), old.id, Verified(s, public_key))
      /\ completions' = [completions EXCEPT ![old.flow] = completions[old.flow] + 1]
      /\ requests' = [requests EXCEPT ![s].step = "login", ![s].flow = None,
                                      ![s].user_id = Subject(s).user_id]
      /\ UNCHANGED <<challenges, flows, browsers, received, minted, resolved>>
  BY <1>1 DEF CompleteRegistration, At, Completing
<1>3. RequestOK(old, users, challenges, resolved, minted, completions, flows)
  BY <1>1, RequestFacts
<1>4. PICK flow \in Flows, id \in CredentialIds, context \in Context :
        flow = old.flow /\ id = old.id /\ context = old.context
  BY <1>2, <1>3, NoneApart DEF RequestOK, Completing
<1>5. /\ context = resolved[flow] /\ IsRegistration(context) /\ context # None
      /\ challenges[flow] = None /\ completions[flow] = 0 /\ minted[id] = flow
  BY <1>2, <1>3, <1>4, NoneApart DEF RequestOK
<1>6. PICK user \in Subjects : user = context.user
  BY <1>5 DEF IsRegistration
<1>7. user \in PasskeyUser /\ user.user_id \in UserIds /\ user # None
  BY <1>6, NoneApart DEF PasskeyUser
<1>8. Subject(s) = user
  BY <1>1, <1>4, <1>6 DEF Subject
<1>9. /\ Verified(s, public_key) \in PasskeyCredential
      /\ Verified(s, public_key).user_id = user.user_id
  BY <1>7, <1>8, MaxSignCountAssumption DEF Verified, PasskeyCredential, SignCounts
<1>10. PICK credential \in PasskeyCredential :
         credential = Verified(s, public_key) /\ credential.user_id = user.user_id
  BY <1>9
<1>11. SaveRegistration(user, id, credential)
  BY <1>2, <1>4, <1>8, <1>10
<1>12. StoreInv' /\ NeverReassigned
  BY <1>7, <1>11, SaveRegistrationInv DEF IInv
<1>13. /\ users' = [users EXCEPT ![user.user_id] = user]
       /\ credentials' = [credentials EXCEPT ![id] =
                            IF credentials[id] = None THEN credential ELSE credentials[id]]
       /\ users \in [UserIds -> PasskeyUser \cup {None}]
       /\ credentials \in [CredentialIds -> PasskeyCredential \cup {None}]
  BY <1>11 DEF SaveRegistration, IInv, TypeOK, StoreTypeOK
<1>14. /\ completions' \in [Flows -> Nat] /\ completions'[flow] = 1
       /\ \A f \in Flows \ {flow} : completions'[f] = completions[f]
  BY <1>2, <1>4, <1>5 DEF IInv, TypeOK
<1>15. Monotone /\ flows' \in 0 .. MaxFlows
  <2>1. \A u \in UserIds : users[u] # None => users'[u] # None
    BY <1>7, <1>13
  <2> QED
    BY <1>2, <2>1, RouterAssumption DEF Monotone, IInv, TypeOK
<1>16. /\ records' \in [Capabilities -> Enrollment!Capability]
       /\ \A c \in Capabilities :
            \/ records'[c] = records[c] /\ c # context.capability_id
            \/ /\ c = context.capability_id
               /\ Enrollment!Open(records[c])
               /\ records'[c].claimed_flow_id = flow
               /\ records'[c].consumed_at # None
  BY <1>1, <1>2, <1>4, ConsumedMoves
<1>17. PICK r : r = [old EXCEPT !.step = "login", !.flow = None, !.user_id = user.user_id]
  OBVIOUS
<1>18. /\ r \in Request /\ r.step = "login" /\ r.flow = None /\ r.user_id = user.user_id
       /\ r.endpoint = old.endpoint /\ r.browser = old.browser
       /\ r.cookies = old.cookies /\ r.answers = old.answers /\ r.id = old.id
  BY <1>7, <1>17 DEF Request
<1>19. requests' = [requests EXCEPT ![s] = r]
  BY <1>1, <1>2, <1>8, <1>17
<1>20. ~Holding(r)
  BY <1>18 DEF Holding, Preparing, Completing
<1>21. CookiesValid(r.cookies, users', resolved')
  BY <1>3, <1>15, <1>18, CookiesKept DEF RequestOK
<1>22. users'[user.user_id] # None
  BY <1>7, <1>13
<1>23. RequestOK(r, users', challenges', resolved', minted', completions', flows')
  BY <1>2, <1>3, <1>7, <1>18, <1>20, <1>21, <1>22 DEF RequestOK, Holding
<1>24. \A t \in Slots \ {s} : FlowKept(requests[t])
  <2>1. ASSUME NEW t \in Slots \ {s} PROVE FlowKept(requests[t])
    <3>1. RequestOK(requests[t], users, challenges, resolved, minted, completions, flows)
      BY RequestFacts
    <3>2. Completing(requests[t]) => requests[t].flow # flow
      BY <1>1, <1>2, <1>4, <2>1 DEF IInv, HoldersUnique, Holding
    <3> QED
      BY <1>2, <1>14, <3>1, <3>2 DEF FlowKept, RequestOK
  <2> QED
    BY <2>1
<1>25. requests' \in [Slots -> Request] /\ RequestsOK' /\ HoldersUnique'
  BY <1>15, <1>18, <1>19, <1>20, <1>23, <1>24, RequestsStep
<1>26. TypeOK'
  BY <1>2, <1>12, <1>14, <1>16, <1>25 DEF IInv, TypeOK, StoreInv
<1>27. SubjectsStored'
  BY <1>6, <1>7, <1>13 DEF IInv, SubjectsStored
<1>28. FlowsOK'
  <2>1. ASSUME NEW f \in Flows
        PROVE  /\ f > flows => resolved[f] = None
               /\ resolved[f] # None => resolved[f] = Login \/ IsRegistration(resolved[f])
               /\ resolved[f] = None => challenges[f] = None /\ completions'[f] = 0
               /\ challenges[f] # None => challenges[f] = resolved[f] /\ completions'[f] = 0
               /\ completions'[f] <= 1
    <3>1. CASE f = flow
      BY <1>5, <1>14, <3>1 DEF IInv, FlowsOK
    <3>2. CASE f # flow
      BY <1>14, <3>2 DEF IInv, FlowsOK
    <3> QED
      BY <3>1, <3>2
  <2> QED
    BY <1>2, <2>1 DEF FlowsOK
<1>29. CapabilitiesOK'
  <2> SUFFICES ASSUME NEW f \in Flows, completions'[f] > 0, resolved[f].capability_id # None
               PROVE  /\ records'[resolved[f].capability_id].consumed_at # None
                      /\ records'[resolved[f].capability_id].claimed_flow_id = f
    BY <1>2 DEF CapabilitiesOK
  <2>1. CASE f = flow
    <3>1. context.capability_id \in Capabilities
      BY <1>5, <2>1 DEF Context
    <3> QED
      BY <1>5, <1>16, <2>1, <3>1
  <2>2. CASE f # flow
    <3>1. /\ completions[f] > 0
          /\ records[resolved[f].capability_id].consumed_at # None
          /\ records[resolved[f].capability_id].claimed_flow_id = f
      BY <1>14, <2>2 DEF IInv, CapabilitiesOK
    <3>2. resolved[f] \in Context
      BY <3>1 DEF IInv, FlowsOK, TypeOK
    <3>3. resolved[f].capability_id \in Capabilities
      BY <3>2 DEF Context
    <3>4. ~Enrollment!Open(records[resolved[f].capability_id])
      BY <3>1 DEF Enrollment!Open
    <3> QED
      BY <1>16, <3>1, <3>3, <3>4
  <2> QED
    BY <2>1, <2>2
<1>30. MintedOK' /\ BrowsersOK'
  BY <1>2, <1>15, MintedKept, BrowsersKept
<1>31. StoredAsResolved'
  <2> SUFFICES ASSUME NEW c \in CredentialIds, credentials'[c] # None
               PROVE  /\ minted[c] # None
                      /\ credentials'[c].user_id = resolved[minted[c]].user.user_id
    BY <1>2 DEF StoredAsResolved
  <2>1. CASE c = id /\ credentials[c] = None
    <3>1. credentials'[c] = credential
      BY <1>13, <2>1
    <3> QED
      BY <1>5, <1>6, <1>10, <2>1, <3>1, NoneApart
  <2>2. CASE ~(c = id /\ credentials[c] = None)
    <3>1. credentials'[c] = credentials[c]
      BY <1>13, <2>2
    <3> QED
      BY <3>1 DEF IInv, StoredAsResolved
  <2> QED
    BY <2>1, <2>2
<1> QED
  BY <1>12, <1>25, <1>26, <1>27, <1>28, <1>29, <1>30, <1>31 DEF IInv
-----------------------------------------------------------------------------
\* Every step of the router keeps the invariant and reassigns nothing.
LEMMA StepInv == IInv /\ [Next]_vars => IInv' /\ [NeverReassigned]_storeVars
<1> SUFFICES ASSUME IInv, [Next]_vars PROVE IInv' /\ [NeverReassigned]_storeVars
  OBVIOUS
<1>1. CASE UNCHANGED vars
  <2>1. UNCHANGED storeVars /\ UNCHANGED routerVars
    BY <1>1 DEF vars
  <2>2. Quiet
    BY <2>1, StoreKept DEF Quiet, routerVars, IInv, TypeOK
  <2>3. CapabilitiesOK' /\ BrowsersOK'
    BY <2>1, <2>2, QuietKeeps, CapabilitiesKept, BrowsersKept DEF routerVars
  <2>4. IInv'
    BY <2>1, <2>2, <2>3, StoreKept, RequestsQuiet, QuietInv DEF routerVars, IInv, TypeOK
  <2> QED
    BY <2>1, <2>4
<1>2. ASSUME NEW s \in Slots, RequestSteps(s)
      PROVE  IInv' /\ [NeverReassigned]_storeVars
  <2>1. CASE LoginOptions(s)
    BY <2>1, LoginOptionsInv DEF LoginOptions
  <2>2. CASE AllowLogin(s)
    BY <2>2, AllowLoginInv DEF AllowLogin
  <2>3. CASE LogIn(s)
    BY <2>3, LogInInv DEF LogIn
  <2>4. CASE \E count \in SignCounts : LoginVerify(s, count)
    BY <2>4, LoginVerifyInv
  <2>5. CASE NewFlow(s)
    BY <2>5, NewFlowInv DEF NewFlow
  <2>6. CASE RegisterOptions(s)
    BY <2>6, RegisterOptionsInv DEF RegisterOptions
  <2>7. CASE \E user \in Subjects : ResolveUsername(s, user)
    BY <2>7, ResolveUsernameInv DEF ResolveUsername
  <2>8. CASE \E capability \in Capabilities : ResolveCapability(s, capability)
    BY <2>8, ResolveCapabilityInv DEF ResolveCapability
  <2>9. CASE RegisterVerify(s)
    BY <2>9, RegisterVerifyInv DEF RegisterVerify
  <2>10. CASE CompletionFails(s)
    BY <2>10, CompletionFailsInv DEF CompletionFails
  <2>11. CASE \E public_key \in PublicKeys : CompleteRegistration(s, public_key)
    BY <2>11, CompleteRegistrationInv
  <2>12. CASE \E allow_final \in BOOLEAN : Authorize(s, allow_final)
    BY <2>12, AuthorizeInv DEF Authorize
  <2>13. CASE \E label \in Labels \cup {None} : LabelCredential(s, label)
    BY <2>13, LabelCredentialInv
  <2>14. CASE RemoveCredential(s)
    BY <2>14, RemoveCredentialInv
  <2>15. CASE Logout(s)
    BY <2>15, LogoutInv DEF Logout
  <2>16. CASE Arrive(s)
    BY <2>16, ArriveInv DEF Arrive
  <2>17. CASE Fail(s)
    BY <2>17, FailInv DEF Fail
  <2> QED
    BY <1>2, <2>1, <2>2, <2>3, <2>4, <2>5, <2>6, <2>7, <2>8, <2>9, <2>10, <2>11, <2>12,
       <2>13, <2>14, <2>15, <2>16, <2>17 DEF RequestSteps
<1>3. ASSUME NEW s \in Slots, NEW b \in Browsers, BrowserSends(s, b)
      PROVE  IInv' /\ [NeverReassigned]_storeVars
  <2>1. UNCHANGED storeVars
    BY <1>3 DEF BrowserSends, Ask, Manage, SignIn, Create, Send
  <2> QED
    BY <1>3, <2>1, BrowserSendsInv
<1>4. ASSUME NEW flow \in Flows, Expire(flow) PROVE IInv' /\ [NeverReassigned]_storeVars
  BY <1>4, ExpireInv DEF Expire
<1>5. ASSUME NEW capability \in Capabilities, ReleaseClaim(capability)
      PROVE  IInv' /\ [NeverReassigned]_storeVars
  BY <1>5, ReleaseClaimInv DEF ReleaseClaim
<1> QED
  BY <1>1, <1>2, <1>3, <1>4, <1>5 DEF Next

\* The invariant holds in every reachable state.
LEMMA RouterInvariant == Spec => []IInv
BY InitInv, StepInv, PTL DEF Spec

\* A removal that leaves its user without a passkey was allowed by the host.
LEMMA RemovalAllowed ==
  ASSUME IInv, NEW s \in Slots, RemoveCredential(s), NEW id \in CredentialIds,
         credentials[id] # None, credentials'[id] = None,
         CredentialsOf(credentials[id].user_id) = {id}
  PROVE  requests[s].allow_final /\ requests[s].id = id /\ requests'[s] = Idle
<1>1. /\ requests[s].step = "store" /\ requests[s].endpoint = "credential_remove"
      /\ DeleteCredential(requests[s].id, requests[s].user_id, ~requests[s].allow_final)
      /\ Raise(s)
  BY DEF RemoveCredential, At
<1>2. requests[s].id \in CredentialIds /\ requests[s] \in Request
  BY <1>1, RequestFacts DEF RequestOK
<1>3. requests[s].id = id
  BY <1>1, <1>2 DEF DeleteCredential, IInv, TypeOK, StoreTypeOK
<1>4. IsFinal(id)
  <2>1. Cardinality({id}) = 1
    BY FS_Singleton
  <2> QED
    BY <2>1 DEF IsFinal
<1>5. requests[s].allow_final
  BY <1>1, <1>3, <1>4 DEF DeleteCredential, DeleteRefused
<1>6. requests'[s] = Idle
  BY <1>1 DEF Raise, IInv, TypeOK
<1> QED
  BY <1>3, <1>5, <1>6

\* No other step of a request ends a stored passkey.
LEMMA OnlyRemovalsEnd ==
  ASSUME IInv, NEW s \in Slots, RequestSteps(s), ~RemoveCredential(s),
         NEW id \in CredentialIds, credentials[id] # None
  PROVE  credentials'[id] # None
<1>1. credentials \in [CredentialIds -> PasskeyCredential \cup {None}]
  BY DEF IInv, TypeOK, StoreTypeOK
<1>2. ASSUME NEW count \in SignCounts, LoginVerify(s, count)
      PROVE  credentials'[id] # None
  <2>1. CASE UNCHANGED storeVars
    BY <2>1 DEF storeVars
  <2>2. CASE ~UNCHANGED storeVars
    <3> DEFINE stored == credentials[requests[s].id]
    <3>1. /\ requests[s].endpoint = "login_verify" /\ requests[s].step = "limit"
          /\ stored # None
          /\ CompareAndSetCredentialAfterLogin(requests[s].id, stored.sign_count, count)
      BY <1>2, <2>2 DEF LoginVerify, At
    <3>2. PICK c \in CredentialIds : c = requests[s].id
      BY <3>1, RequestFacts DEF RequestOK
    <3>3. PICK expected \in SignCounts : expected = stored.sign_count
      BY <1>1, <3>1, <3>2 DEF PasskeyCredential
    <3>4. CompareAndSetCredentialAfterLogin(c, expected, count)
      BY <3>1, <3>2, <3>3
    <3>5. credentials'[c] # None
      BY <3>4, CompareAndSetInv DEF IInv
    <3>6. c # id => credentials'[id] = credentials[id]
      BY <1>1, <3>4 DEF CompareAndSetCredentialAfterLogin
    <3> QED
      BY <3>5, <3>6
  <2> QED
    BY <2>1, <2>2
<1>3. ASSUME NEW label \in Labels \cup {None}, LabelCredential(s, label)
      PROVE  credentials'[id] # None
  <2>1. /\ requests[s].step = "store" /\ requests[s].endpoint = "credential_label"
        /\ UpdateCredentialLabel(requests[s].id, requests[s].user_id, label)
    BY <1>3 DEF LabelCredential, At
  <2>2. PICK c \in CredentialIds : c = requests[s].id
    BY <2>1, RequestFacts DEF RequestOK
  <2>3. /\ credentials[c] \in PasskeyCredential
        /\ credentials' = [credentials EXCEPT ![c].label = label]
    BY <1>1, <2>1, <2>2 DEF UpdateCredentialLabel, OwnedBy
  <2>4. [credentials[c] EXCEPT !.label = label] \in PasskeyCredential
    BY <2>3 DEF PasskeyCredential
  <2> QED
    BY <1>1, <2>3, <2>4, NoneApart
<1>4. ASSUME NEW public_key \in PublicKeys, CompleteRegistration(s, public_key)
      PROVE  credentials'[id] # None
  BY <1>1, <1>4 DEF CompleteRegistration, SaveRegistration
<1>5. CASE UNCHANGED storeVars
  BY <1>5 DEF storeVars
<1>6. \/ UNCHANGED storeVars
      \/ \E count \in SignCounts : LoginVerify(s, count)
      \/ \E label \in Labels \cup {None} : LabelCredential(s, label)
      \/ \E public_key \in PublicKeys : CompleteRegistration(s, public_key)
  BY DEF RequestSteps, LoginOptions, AllowLogin, LogIn, NewFlow, RegisterOptions,
         ResolveUsername, ResolveCapability, RegisterVerify, CompletionFails, Authorize,
         Logout, Arrive, Fail
<1> QED
  BY <1>2, <1>3, <1>4, <1>5, <1>6

\* A step by which a user loses the last passkey is such a removal.
LEMMA FinalStep == IInv /\ [Next]_vars => [FinalKept]_vars
<1> SUFFICES ASSUME IInv, [Next]_vars, NEW id \in CredentialIds,
                    credentials[id] # None, credentials'[id] = None,
                    CredentialsOf(credentials[id].user_id) = {id}
             PROVE  \E s \in Slots : /\ requests[s].allow_final /\ requests[s].id = id
                                     /\ requests'[s] = Idle
  BY DEF FinalKept
<1>1. credentials' # credentials
  OBVIOUS
<1>2. Next
  BY <1>1 DEF vars, storeVars
<1>a. ASSUME NEW t \in Slots, NEW b \in Browsers, BrowserSends(t, b)
      PROVE  credentials' = credentials
  <2>1. CASE Ask(t, b)
    BY <2>1 DEF Ask, Send, storeVars
  <2>2. CASE \E i \in CredentialIds : Manage(t, b, i)
    BY <2>2 DEF Manage, Send, storeVars
  <2>3. CASE \E i \in CredentialIds, flow \in Flows : SignIn(t, b, flow, i)
    BY <2>3 DEF SignIn, Send, storeVars
  <2>4. CASE \E i \in CredentialIds, flow \in Flows : Create(t, b, flow, i)
    BY <2>4 DEF Create, Send, storeVars
  <2> QED
    BY <1>a, <2>1, <2>2, <2>3, <2>4 DEF BrowserSends
<1>b. ASSUME NEW flow \in Flows, Expire(flow) PROVE credentials' = credentials
  BY <1>b DEF Expire, storeVars
<1>c. ASSUME NEW capability \in Capabilities, ReleaseClaim(capability)
      PROVE  credentials' = credentials
  BY <1>c DEF ReleaseClaim, storeVars
<1>3. PICK s \in Slots : RequestSteps(s)
  BY <1>1, <1>2, <1>a, <1>b, <1>c DEF Next
<1>4. RemoveCredential(s)
  BY <1>3, OnlyRemovalsEnd
<1> QED
  BY <1>4, RemovalAllowed

\* The router's state is what it is said to be, for any number of browsers,
\* requests, flows and capabilities.
THEOREM RouterTypeCorrect == Spec => []TypeOK
<1>1. IInv => TypeOK
  BY DEF IInv
<1> QED
  BY <1>1, RouterInvariant, PTL

\* A stored passkey belongs to the user resolved when its options were made,
\* whatever cookies late responses put back and whoever is signed in.
THEOREM PasskeysStoredAsResolved == Spec => []StoredAsResolved
<1>1. IInv => StoredAsResolved
  BY DEF IInv
<1> QED
  BY <1>1, RouterInvariant, PTL

\* A flow is completed once at most, and so is an enrolment capability.
THEOREM RegistrationsOnce == Spec => []OneRegistrationEach
<1>1. IInv => OneRegistrationEach
  BY DEF IInv, FlowsOK, CapabilitiesOK, OneRegistrationEach
<1> QED
  BY <1>1, RouterInvariant, PTL

\* Each challenge cookie names a flow of its own kind.
THEOREM CookiesKeepTheirKind == Spec => []CookiesNameTheirKind
<1>1. IInv => CookiesNameTheirKind
  BY DEF IInv, TypeOK, BrowsersOK, CookiesValid, CookiesNameTheirKind, IsRegistration
<1> QED
  BY <1>1, RouterInvariant, PTL

\* Over the router too, every stored credential has a stored owner.
THEOREM RouterOwnersExist == Spec => []OwnersExist
<1>1. IInv => OwnersExist
  BY DEF IInv, StoreInv
<1> QED
  BY <1>1, RouterInvariant, PTL

\* Over the router too, the handle index is the inverse of the users.
THEOREM RouterHandleIndexInverse == Spec => []HandleIndexInverse
<1>1. IInv => HandleIndexInverse
  BY DEF IInv, StoreInv
<1> QED
  BY <1>1, RouterInvariant, PTL

\* No request, in whatever order, reassigns a user or a credential or takes
\* a counter back.
THEOREM RouterNeverReassigns == Spec => RecordsNeverReassigned
BY RouterInvariant, StepInv, PTL DEF Spec, RecordsNeverReassigned

\* A user only loses the last passkey to a removal for which the host had
\* allowed it, however removals overlap.
THEOREM FinalPasskeysKept == Spec => FinalRemovedIfAllowed
BY RouterInvariant, FinalStep, PTL DEF Spec, FinalRemovedIfAllowed
=============================================================================
