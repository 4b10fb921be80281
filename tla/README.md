# my-auth: a verification project

TLA+ models of my-auth's passkey ceremonies, credential stores, enrolment
capabilities, router, login page, schema migration and OpenID Provider, checked
with TLC on small instances and, but for liveness, proved with TLAPS for every
value of the constants. Paths below are relative to the repository root
(`src/my_auth/...`).

## 1. The system

my-auth is a library, not a server: a host application gives it stores, a
connection or hooks, and calls it from request handlers. What can go wrong is
therefore mostly about *several requests, threads or processes over shared
stores*, about *time* (challenges, capabilities, codes, nonces and tokens expire)
and about *steps of one request that are not one step of the store*.

| Component | Code | State | Operations | Modelled in |
|---|---|---|---|---|
| Passkey service | `passkeys.py`, `passkey_models.py` | none of its own; a request's local variables between store calls | begin/finish authentication, begin/verify registration, label, remove | `PasskeyCeremony` |
| Challenge stores | `passkey_memory.py:24-69`, `passkey_sqlite.py:213-269` | one record per (flow, kind) | save, pop, cleanup_expired | `PasskeyCeremony` |
| In-memory credential store | `passkey_memory.py:71-169` | users, handle index, credentials | save_registration, compare-and-set after login, label, guarded delete | `CredentialStore` |
| SQLite credential store | `passkey_sqlite.py:272-475` | two tables; transactions of several statements | the same, in `operation` or `external` transaction mode | `SQLiteCredentialStore` |
| Enrolment capability stores | `enrollment.py` | one record per capability: expiry, claiming flow, consumed, revoked | issue, claim, consume, release, revoke | `EnrollmentCapability` |
| OpenID Provider | `oidc.py`, `oidc_fastapi.py` | codes, nonces, access tokens, signing keys | authorize, exchange, revoke, rotate | `OIDCProvider` |
| FastAPI passkey router | `fastapi.py` | two challenge cookies and the session in the browser; a request's local variables across awaits | options/verify for both ceremonies, credential management, logout | `PasskeyRouter` |
| SQLite schema lifecycle | `sqlite_schema.py` | the tables and their version | inspect, ensure, migrate | `SchemaLifecycle` |
| Browser scripts | `fastapi_htmx/static/*.js` | the login in progress of each form of one page | conditional and manual login | `LoginPage` |
| HTMX pages, translations, settings | `fastapi_htmx/*.py`, templates | none | rendering | no: nothing outlives a request |
| Contract helpers | `testing.py` | none | assertions for implementers | no: their promises are properties of the store modules |

How they interact. The router calls the service; the service calls a challenge
store and a credential store, each call on its own (there is no lock around a
ceremony); the router awaits host hooks, one of which claims or consumes an
enrolment capability for the flow id in the cookie. The provider's endpoints
share the code, token and key stores and await host hooks for the session, a
fresh login and the consent. SQLite stores share one database between processes.

Which behaviours are hard, and the properties that make each part correct:

- **Ceremonies.** `finish_authentication` looks the credential up, checks the
  handle, pops the challenge, verifies and compares-and-sets, in that order and
  without a lock. A challenge must work once; the signature counter of a
  credential must never go back, whoever races; no interleaving of flows and
  users may bind a passkey to somebody else.
- **Credential stores.** The two user dictionaries must stay inverse, and a
  record must never change owner. Over SQLite the checks and the writes are
  separate statements of one transaction: a call must behave as if it were
  atomic although transactions overlap, are refused as locked, or die; two
  guarded deletes must not remove a user's last two passkeys.
- **Capabilities.** Every call reads the clock *before* it waits for the lock, so
  it decides late. A capability must be used once, stay with the flow that
  claimed it, and never change once it is consumed or revoked.
- **Provider.** A code must be exchanged once, by the client, redirect URI and
  verifier it is bound to; its nonce must be remembered while the code could
  live, although codes are not saved in the order in which they were issued; the
  keys behind an ID token must stay published.
- **Router.** It keeps nothing between two requests but a flow id in a cookie,
  and responses that set cookies arrive late, in any order or never. What is
  stored must be what was resolved when the flow began, once per flow and per
  capability, whoever is signed in by the time it is verified.
- **Schema.** Several processes start up over one file, may die at any statement,
  and an earlier version may still be writing. No row may be lost or encoded
  twice, no commit may be half a migration, and start-up must get somewhere, also
  over a database that has more wrong with it than its inspection sees.
- **Login page.** A conditional login starts by itself and overlaps the user's
  own. Every login must be cancellable, cancelled ones must end, and a cancelled
  one must not disturb its successor.

`PROJECT.json` lists every such hazard at its line (`hazards`), with the property
that covers it or the reason why none does yet.

## 2. The modules

`CredentialStore` is atomic: one action per store call. It is at once the model
of the in-memory store, whose calls run under a lock, and the abstract
specification of the durable one. `PasskeyCeremony` and `PasskeyRouter` EXTEND
it and run requests over it, the one call by call, the other endpoint by
endpoint. `SQLiteCredentialStore` INSTANCEs it under a refinement mapping, and
`OIDCProvider` so INSTANCEs `AuthorizationGrants`.

    CredentialStore <--- EXTENDS --- PasskeyCeremony
       ^      ^
       |      +--------- EXTENDS --- PasskeyRouter --- INSTANCE ---> EnrollmentCapability
       +- INSTANCE (refinement) ---- SQLiteCredentialStore
    AuthorizationGrants <- INSTANCE (refinement) - OIDCProvider
    SchemaLifecycle             LoginPage

Each `MC...` module EXTENDS one of them and adds symmetry and constants that a
`.cfg` cannot write; each `...Proofs` module EXTENDS one and holds its theorems.
An operator marked "Wrong form of X" is X with a plausible bug; PROJECT.json
pairs it with the property that such a bug breaks. No specification uses it.

**CredentialStore.** `users`, `users_by_handle` and `credentials` are the three
dictionaries of `MemoryCredentialStore`. `SaveRefusal`, `LoginRefusal` and
`DeleteRefused` are the early exits, in the code's order; the actions are
enabled when there is none. Names are carried but decide nothing, byte strings
are model values, timestamps are left out.

**PasskeyCeremony.** One slot per concurrent request; `step` names the store call
it makes next, and the fields what it has read. Two deployments are chosen in
the initial state. Over `"memory"` `get_credential` hands out the stored object,
so a request sees later changes of the counter (`StoredSignCount`), `pop` forgets
an expired record, and `cleanup_expired` is a scan and then single deletions.
Over `"sqlite"` a look-up is a copy, and each challenge call is one statement,
which may have waited for the write lock since it read the clock: its time is any
one in `Clock`. The expiry is compared as the code does, by `Live` in `pop` and by
`Expired` in `cleanup_expired`. The credential calls are atomic there because
`SQLiteCredentialStore` implements `CredentialStore`. External: the WebAuthn
library (a response is accepted for the challenge it was signed for, with a
counter that advances or is 0) and the authenticators, which create a credential
id once, for one challenge. Responses may be presented to any flow, at any time,
and repeatedly.

**SQLiteCredentialStore.** A connection has an open transaction, the rows it sees
and the call it runs. Reads take a snapshot at the first statement; the first
write needs the write lock and a snapshot that no commit has overtaken, else the
statement fails as locked; `BEGIN IMMEDIATE` takes the lock first. Operation mode
wraps each call in a transaction; external mode runs it in a savepoint of the
caller's transaction, and the caller may commit, go on after a refused call, or
roll back. A crash rolls back. SQLite itself is external (WAL mode).

**EnrollmentCapability.** `BeginCall` reads the clock; the operation's own action
happens later, with that clock. The memory store finds the first record of a
flow; the SQLite store has UNIQUE `claimed_flow_id`. Token digests are the
identity of a record; the token and the id are one number here.

**OIDCProvider.** A worker handles one request; each step ends at a store call or
an awaited hook. `StartAuthorization`, `Reauthenticate`, `Decide` and `IssueCode`
are the authorization endpoint: the user is checked in `Decide`, the code is issued
with a clock read at any time since, and `SaveCode` reads the store's own under its
lock. So codes may be saved out of the order of their issue, after they have
expired, or for an account disabled meanwhile. `StartExchange`, `Consume`,
`IssueToken`, `ReadKey` and `Sign` the token endpoint. Code and nonce clean-up is
part of every call that does it. The in-process stores say they are thread-safe,
and a host may share its own between processes, so steps of two exchanges may
interleave although one event loop would run each without a pause. External:
Authlib, which is represented by the hooks it calls; where its order is not
visible here (the two reads of the signing key, a second nonce check) both
outcomes are allowed. Two requests that overlap may so use one nonce; when the code
issued first is saved last, `save` replaces the nonce's expiry by an earlier one.
`NoncesOutliveCodes` names that case (`Outrun`) and shows that there is no other.
Scopes, claims, client secrets and UserInfo are left out:
they change no state.

**AuthorizationGrants.** What all of that amounts to: a code stands for a grant,
stays available until it expires, is redeemed once, and yields one token for the
client, redirect URI, user and PKCE challenge of the grant. The mapping reads
*available* off the code store, *redeemed* off the handlers between `Consume`
and `IssueToken`, and forgets nonces, keys, accounts and the other steps.

**PasskeyRouter.** A slot is a request in flight; its step says which await it is
at. What a handler does between two awaits is one step, because the router calls
the service synchronously inside one event loop. A request carries the cookies
the browser had when it was sent; a response sets cookies when it *arrives*
(`Arrive`), or is lost (`Fail`). `NewFlow`, `ResolveCapability`,
`ResolveUsername` and `RegisterOptions` are `register_options`; `RegisterVerify`,
`CompleteRegistration`, `CompletionFails` and `LogIn` are `register_verify`, and
so on. The hosts' hooks follow README.md: the resolver claims the capability for
the flow with `EnrollmentCapability`'s own guard, completion consumes it and
saves the registration, and the host may release the claim of a flow at any
time. Clocks stand still; challenges may expire at any step. Recovery runs the
code of an invitation. A response without a user handle, which a deployment with
`require_user_handle=False` accepts, is left out here: `PasskeyCeremony` has it.

**SchemaLifecycle.** A process runs the start-up of README.md: inspect, then
`ensure` or `migrate`, statement by statement. A standalone inspection reads what
is committed at each statement; an external call reads its caller's snapshot.
A database is the columns, indexes and rows of the three passkey tables as one
unit, the `*_v2` copies, the rows of `my_auth_schema` and the enrolment table.
`Interrupt` is a crash or a passing failure of a statement; it rolls the transaction
back. What is lasting belongs to the database. The inspection of an older layout is
weaker than that of the current one (`AfterLayout`), so a database may start with
something `hidden`: a *divergence*, which it overlooks and no upgrade repairs
(other columns of users or credentials, no unique `user_handle`, another enrolment
table), or an *obstacle*, on which the last statements of every upgrade fail (an
index name that is taken, orphans that `foreign_key_check` finds).
SQLite is external and assumed to be in WAL mode, as for the credential store.

**LoginPage.** One page: the forms HTMX swaps in and out, the logins they start,
and `conditionalControllers`. A login moves from await to await: availability of
conditional mediation, options request, prompt, verify request. The abort signal
reaches the prompt only, as in `passkey.js`; the fetches go on. The router is
reduced to the cookie its responses set.

## 3. The runs

| Run | Asks | Shows |
|---|---|---|
| `ceremony` | two concurrent requests: one credential with three challenges; two flows, users and credentials | `CountersAdvance`, `ChallengeSingleUse`, `CompletedAsCreatedFor`, `InTimeServed` |
| `ceremony_memory_counter` | is a stale counter refused over the in-memory store? | no: finding 1 |
| `sqlite_operation` | two operation-mode connections; registrations saved again, with the same key or another one, after logins | `ImplementsStore` (refinement), `RefusalsAgree`, `RecordsKept` |
| `sqlite_external` | a caller-owned transaction against an operation-mode connection | `InsertsMeetNoConstraint`, `RegistrationsWhole`, `GuardedDecisionsCurrent`, `FinalCredentialKept` |
| `capability` | two callers, two flows, two capabilities, late clocks | `UsedOnce`, `ClaimsHold`, `SettledNeverChange` |
| `capability_unique` | does a refused claim always raise EnrollmentCapabilityNotFound? | no: finding 2 |
| `oidc` | two handlers: two codes with one nonce over time; a key rotation; two users, clients and verifiers, accounts disabled at any time | `ImplementsGrants` (refinement), `NoncesOutliveCodes`, `IdTokensNamePublishedKeys` |
| `oidc_keys` | does an ID token verify under the key it names? | not across a rotation: finding 3 |
| `schema` | two processes, either transaction mode, databases of every version with or without a hidden divergence or obstacle, a crash each, an older version writing | `RowsKept`, `NoHalfMigration`, `UpMeansUpgraded`; `Upgraded`, `StartUpsEnd` (liveness) |
| `router` | one browser, two requests in flight, two flows, three possible users, one capability | `StoredAsResolved`, `OneRegistrationEach`, `CookiesNameTheirKind`, `FinalRemovedIfAllowed`, and the store's `OwnersExist`, `HandleIndexInverse` under its real caller |
| `login_page` | two forms, three overlapping logins | `OneLoginPerForm`; `AbortedLoginsSettle` (liveness) |
| `login_page_manual` | does a manual login stay available beside the conditional one? | not always: finding 4 |

**Bounds.** Every constant of a `.cfg` is a bound. Two requests, connections or
callers are enough for each hazard, which is about a pair of them. A second user
with a second handle and a second credential gives every conflict and lets the
guarded delete meet a user's last two passkeys. Counters up to 2 give a login
that wins from 1 against one that looked 1 up; 0 is the counterless case. One or
two ticks of the clock with a lifetime of one or two put an expiry before, at and
after each step. `MaxChallenges`, `MaxCapabilities` and `MaxCodes` bound how many
are ever issued: three challenges let one be replaced and one be reused.
`MaxKeys = 2` is one rotation. `MaxFlows = 2` lets a response of an earlier flow
cross a later one; `MaxLogins = 3` lets a login be superseded twice. Each process
of `schema` is interrupted once at most.

Three runs cover several small instances at once: their MC modules define a state
constraint `Small`, a disjunction of the instances, and TLC explores no further
from a state outside all of them. `ceremony` has one flow and one credential with
three challenges and counters up to 2, or two flows and two credentials with two
challenges and counters up to 1. `sqlite_operation` has two credentials and one
key, or one credential and two keys. `oidc` has one user and client with two codes
and three ticks, the same with one code and a key rotation, or two users and two
clients with one code and two ticks.

Symmetry is used over sets whose members the modules treat alike; no run that
checks liveness uses it. Deadlock is checked everywhere but on the login page,
which stops once its forms are gone and its logins have ended. Issuing a
capability is bounded where the call begins, so that no call waits for a bound.

**Fairness.** Two modules assume it, and only of steps nobody has to want.

- `SchemaLifecycle`: weak fairness of launching each process and of its next
  statement. Start-up is straight-line code that waits for SQLite's lock and
  nothing else. `Relaunch` has none: whether a process that raised is started
  again is the host's affair. So `Upgraded` says that *one* standalone process
  that is never interrupted suffices, when no obstacle is hidden, and `StartUpsEnd`
  that no start-up hangs, unless the host restarts for ever what an obstacle fails.
- `LoginPage`: weak fairness of each login's script. Fetches are answered or
  fail, promises settle, and a browser closes a prompt whose signal is aborted.
  Clicking, dismissing a prompt and picking a passkey have no fairness.

The other modules assume none: the library starts no work by itself, and whether
a response ever arrives or a host calls `cleanup_expired` is outside it.

## 4. What is proved

Each theorem holds for every value of the constants, from the named assumptions
of the modules (the bounds are naturals, `None` is no member of the other sets).
Two theorems have a hypothesis besides them, `OperationModeRefinement` and
`OperationModeKeepsRecords` below.

- `CredentialStoreProofs`: `StoreTypeCorrect`, `StoreOwnersExist`,
  `StoreHandleIndexInverse`, `StoreRecordsNeverReassigned`. The inductive
  invariant `StoreInv` is the conjunction of the type invariant with the other
  two: a refused registration depends on the index, and the index is right
  only if it is the inverse of the users. Each call has a lemma, used again by
  the ceremonies.
- `PasskeyCeremonyProofs`: `CeremonyTypeCorrect`, `CeremonyChallengeSingleUse`,
  `CeremonyCountersAdvance`, `CeremonyCompletedAsCreatedFor`,
  `CeremonyInTimeServed`, which needs that no clock runs ahead of `now`
  (`ClockFacts`). Single use is not inductive: a challenge is in
  one *place* at a time, the store, a request's hands, or the history, so `IInv`
  has `OnePlace` for that, `RecordsIssued` (what a record holds was issued for
  its user), `RequestsOK` (what a request in a given step has read),
  `OriginsOK` (a stored credential belongs to the user of the challenge it was
  created for), and `CountersOK` (the counter stored for a credential bounds the
  counters it was accepted with).
- `EnrollmentCapabilityProofs`: `CapabilityTypeCorrect`, `CapabilityUsedOnce`,
  `CapabilityClaimsHold`, `SettledCapabilitiesNeverChange`. `IInv` adds
  `RecordsIssued` and `CallsOK` (a waiting call has the arguments of its
  operation) to the properties.
- `OIDCProviderProofs`: `TypeCorrect`, `NoncesKeptWhileUsable`,
  `SigningKeysPublished`, and `Refinement`: the provider
  implements `AuthorizationGrants`, each step being one of its steps or a stutter.
  A redeemed code has left the store and is known only to the handler that holds
  it, so `IInv` has `HoldersProved` (the code is gone, and the holder proved to be
  the client of the grant) and `HoldersApart` (no two handlers hold one code);
  `CodesAsGranted` ties what is stored to the history. Only a save may shorten the
  time a nonce is kept, and then it outruns every code of that nonce that ends
  later: `NoncesKept` says so of the grants, and `GrantsSaved` numbers them in the
  order of their saves. Keys need `ReadKeysPublished`, for the key a handler has
  read and not used yet.
- `SQLiteCredentialStoreProofs`: `TypeCorrect`, `NoConstraintViolated`,
  `GuardedDeletesDecideCurrent`, `RegistrationsCommitWhole`,
  `FinalCredentialGuarded`, `RefusalsAlwaysAgree` for both transaction modes, and
  `OperationModeRefinement` and `OperationModeKeepsRecords`: without external
  connections the module implements `CredentialStore`, and no commit reassigns a
  record. That hypothesis is the property's own: a caller's transaction
  commits several calls at once, which is no single call of the store. What a
  running call has read matters only once it writes, so `StepOK` ties its view to
  the lock: a connection that holds it works on rows no commit has overtaken, and
  what its SELECTs found still holds of them. `HolderOK` says what a commit of the
  holder's rows would lose or add (`Kept`, `Whole`); `OperationOK` that these rows
  are the committed ones plus one call. `RowsOK`, unique handles, makes the mapped
  handle index a function.
- `PasskeyRouterProofs`: `RouterTypeCorrect`, `PasskeysStoredAsResolved`,
  `RegistrationsOnce`, `CookiesKeepTheirKind`, `RouterNeverReassigns`,
  `FinalPasskeysKept`, `RouterOwnersExist`, `RouterHandleIndexInverse`; it cites
  the lemmas of `CredentialStoreProofs` for the calls of the store. None of the
  first three is inductive: a request carries cookies of the past, so `FlowsOK`
  follows a flow from its number to its completion, `HoldersUnique` says that no
  two requests own one (its options are in the making, or its challenge is in
  their hands), `CapabilitiesOK` that a completed flow keeps the claim of the
  capability it consumed, `MintedOK` for which flow a passkey was created, and
  `RequestsOK` what each await may rely on. Requests that a step does not touch are
  covered once, by facts that only grow (`Monotone`).
- `SchemaLifecycleProofs`: `LifecycleTypeCorrect`, `EveryRowKept`,
  `UpProcessesSeeUpgraded`, `MigrationsWhole`. `Sound` lists the layouts a
  commit can leave, with the rows each holds; `Pending` says, statement by
  statement, what the lock holder has made of one. Every upgrade ends
  `Complete`: in the current version but for a divergence, which stays where it
  was. `MayReplace` adds that a database the inspection does not know is left as
  it is. A commit has to be safe after an inspection made without the lock:
  `Known` is what a standalone inspection has learned that no later commit
  undoes (tables and a version stay, current stays current), `Exact` that an
  inspection of one snapshot concludes what `Inspect` does, and `Viewing` that a
  snapshot which can still be written is the database itself. That `migrate`
  does not inspect again under its lock is safe because its first statement
  raises on another layout.
- `LoginPageProofs`: `PageTypeCorrect`, `LoginsOnePerForm`. A form has one login
  that can still act because its controller is the one stored, which needs
  `StoredForItsForm`: a stored controller belongs to a login of that form.

Each proof has one lemma per action; a step lemma joins them and the temporal
theorem follows by PTL. TLC checked each inductive invariant on the run's
instance before it was proved.

Every safety and action property of a passing run is proved. Only model-checked:
liveness under fairness (`Upgraded`, `StartUpsEnd`, `AbortedLoginsSettle`), which
this prover cannot do, nor ENABLED. No module declares a RECURSIVE operator.

## 5. What the models found

1. *A stale counter is accepted over the in-memory store.* The object that
   `get_credential` returns is the stored one, and the expected counter is read
   from it only when the compare-and-set is called, so it is never stale
   (`ceremony_memory_counter`). README.md:162 promises `CredentialCounterConflict`.
   `CountersAdvance` still holds: counters do not go back.
2. *A claim may raise IntegrityError.* A flow that already holds a capability,
   even a spent one, and claims another runs into UNIQUE `claimed_flow_id`
   instead of the one documented exception (`capability_unique`). The in-memory
   store grants the second claim.
3. *A rotation may tear an ID token.* The key for the header and the key for the
   signature are read separately, and `rotate` takes no lock: a rotation by
   another thread in between gives a token that names one key and is signed
   with the other (`oidc_keys`). One event loop that also runs the rotation
   cannot do that.
4. *A cancelled conditional login can take a manual one down.* The abort signal
   is given to the prompt but not to the options request. When the user clicks
   while the conditional login still waits for its options, its late response
   replaces the challenge cookie of the manual login, whose answer is then
   verified against the wrong challenge and refused (`login_page_manual`).
   CHANGELOG.md:43 promises that "manual and hybrid login remain available".

Three more things the models contain rather than refute. The properties of their
runs name each case and show that there is no other.

- *A divergent schema 2 is stamped 3.* The inspection of schema 2 compares
  the columns of `passkey_challenges`, two indexes and a foreign key
  (`sqlite_schema.py:217-245`, `374-386`). With other columns of
  users or credentials, no unique `user_handle` or another enrolment table, the
  database counts as legacy, is altered and committed (528-539), and is unsupported
  from then on; `migrate` returns that verdict without raising, and the start-up of
  README.md ignores it. The docstring says "Ambiguous layouts fail closed" (497).
  `NoHalfMigration` and `UpMeansUpgraded` show that nothing but such a divergence
  leaves an upgraded database unsupported.
- *Some databases can never be upgraded*, although they inspect as legacy: those of
  `tests/test_v02_contracts.py:412-470`, and those with orphans. Every attempt rolls
  back and loses nothing (`RowsKept`).
- *A nonce may be forgotten before its code.* Two threads authorize with one nonce;
  the code issued first is saved last, and `save` replaces the nonce's expiry by the
  earlier one (`oidc.py:468`). `NoncesOutliveCodes` shows that a nonce outlives its
  codes but for this.

## 6. What is not modelled, and the plan

Left out for good: cryptography and encodings, HTTP parsing, cookie attributes and
headers, rendering and translation, settings, and the wording of errors. The
HTMX package (pages, translations, configuration) and the contract helpers keep
no state. Of the browser scripts, registration and credential management are one
chain of requests per click with no state they share. A capability store over a
connection already inside a caller's transaction is not modelled: its calls are
single statements, and the credential store shows what external mode does. Also
left out: UserInfo, JWKS and discovery, which change no state. Nothing is claimed
of two things no document promises: that an abandoned capability is released
(nothing in the repository does), and that no code is saved for an account that was
disabled after `Decide` had checked it (`IssueCode` may; the account is checked
again when tokens are used).

Next: the properties of the abstract level. `AuthorizationGrants` and
`CredentialStore` promise more than the runs ask of their implementations (a token
is for one grant, a removed credential is not used again); stated there and proved
there, they carry over by the two refinements.

## 7. Running it

    tlc -config MCPasskeyCeremony.cfg MCPasskeyCeremony
    tlapm PasskeyCeremonyProofs.tla

The four `violation` runs (`MCPasskeyMemoryCounter.cfg`,
`MCEnrollmentCapabilityUnique.cfg`, `MCOIDCKeys.cfg`, `MCLoginPageManual.cfg`) are
meant to stop with a counterexample, and everything else without one. The longest
takes a minute or two.
