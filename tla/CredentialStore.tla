--------------------------- MODULE CredentialStore ---------------------------
(***************************************************************************)
(* The durable half of a passkey deployment: MemoryCredentialStore, whose  *)
(* every operation runs under one re-entrant lock and is therefore one     *)
(* step here.  It is also what the CredentialStore protocol promises, so   *)
(* SQLiteCredentialStore is checked against it.  An operation is the       *)
(* action of a call that is accepted; the operator named after it with     *)
(* "Refusal" is what the call raises instead, changing nothing.            *)
(*                                                                         *)
(* A credential's transports, device type, backup flag and creation time   *)
(* are written and read back but decide nothing, and are left out.         *)
(***************************************************************************)
EXTENDS Naturals, FiniteSets

CONSTANTS
  UserIds,       \* user ids
  Handles,       \* WebAuthn user handles
  Names,         \* the names a host may give a user
  CredentialIds, \* credential ids
  PublicKeys,    \* public keys of credentials
  Labels,        \* labels a user may give a credential
  MaxSignCount,  \* bound on the signature counters
  None           \* Python's None

ASSUME MaxSignCountAssumption == MaxSignCount \in Nat
ASSUME NoneAssumption ==
  /\ None \notin UserIds
  /\ None \notin Handles
  /\ None \notin Labels
  /\ None \notin [user_id : UserIds, user_handle : Handles, name : Names]
  /\ None \notin [user_id : UserIds, public_key : PublicKeys,
                  sign_count : 0 .. MaxSignCount, label : Labels \cup {None}]
  /\ None \notin {"user_conflict", "credential_conflict", "not_found", "counter_conflict"}

VARIABLES
  users,           \* user id -> PasskeyUser or None
  users_by_handle, \* user handle -> user id or None
  credentials      \* credential id -> PasskeyCredential or None

storeVars == <<users, users_by_handle, credentials>>
-----------------------------------------------------------------------------
SignCounts == 0 .. MaxSignCount

PasskeyUser == [user_id : UserIds, user_handle : Handles, name : Names]

PasskeyCredential ==
  [user_id    : UserIds,
   public_key : PublicKeys,
   sign_count : SignCounts,
   label      : Labels \cup {None}]

StoreTypeOK ==
  /\ users \in [UserIds -> PasskeyUser \cup {None}]
  /\ users_by_handle \in [Handles -> UserIds \cup {None}]
  /\ credentials \in [CredentialIds -> PasskeyCredential \cup {None}]

StoreInit ==
  /\ users = [u \in UserIds |-> None]
  /\ users_by_handle = [h \in Handles |-> None]
  /\ credentials = [id \in CredentialIds |-> None]

\* The credentials whose owner is u.
CredentialsOf(u) ==
  {id \in CredentialIds : credentials[id] # None /\ credentials[id].user_id = u}
-----------------------------------------------------------------------------
(***************************************************************************)
(* save_registration(VerifiedRegistration(user, credential)).              *)
(***************************************************************************)
\* Wrong form of UserConflict: the owner of the handle is not looked up.
UserConflictById(user) == users[user.user_id] \notin {None, user}

UserConflict(user) ==
  \/ users[user.user_id] \notin {None, user}
  \/ users_by_handle[user.user_handle] \notin {None, user.user_id}

CredentialConflict(id, credential) ==
  LET existing == credentials[id] IN
  existing # None /\ ( \/ existing.user_id # credential.user_id
                       \/ existing.public_key # credential.public_key )

SaveRefusal(user, id, credential) ==
  IF credential.user_id # user.user_id THEN "credential_conflict"
  ELSE IF UserConflict(user) THEN "user_conflict"
  ELSE IF CredentialConflict(id, credential) THEN "credential_conflict"
  ELSE None

\* Wrong form of SaveRegistration: the user is indexed but not stored.
SaveWithoutUser(user, id, credential) ==
  /\ SaveRefusal(user, id, credential) = None
  /\ users_by_handle' = [users_by_handle EXCEPT ![user.user_handle] = user.user_id]
  /\ credentials' = [credentials EXCEPT ![id] = IF @ = None THEN credential ELSE @]
  /\ UNCHANGED users

SaveRegistration(user, id, credential) ==
  /\ SaveRefusal(user, id, credential) = None
  /\ users' = [users EXCEPT ![user.user_id] = user]
  /\ users_by_handle' = [users_by_handle EXCEPT ![user.user_handle] = user.user_id]
  /\ credentials' = [credentials EXCEPT ![id] = IF @ = None THEN credential ELSE @]
-----------------------------------------------------------------------------
(***************************************************************************)
(* compare_and_set_credential_after_login.  The expected counter of a      *)
(* counterless authenticator is 0 and is not compared.                     *)
(***************************************************************************)
\* Wrong form of LoginRefusal: the expected counter is not compared.
LoginRefusalUncompared(id, expected, new) ==
  IF credentials[id] = None THEN "not_found"
  ELSE IF new < credentials[id].sign_count THEN "counter_conflict"
  ELSE None

LoginRefusal(id, expected, new) ==
  IF credentials[id] = None THEN "not_found"
  ELSE IF \/ expected # 0 /\ credentials[id].sign_count # expected
          \/ new < credentials[id].sign_count
  THEN "counter_conflict"
  ELSE None

\* Wrong form of CompareAndSetCredentialAfterLogin: it counts the logins itself.
CountLogin(id, expected, new) ==
  /\ LoginRefusal(id, expected, new) = None
  /\ credentials' = [credentials EXCEPT ![id].sign_count = @ + 1]
  /\ UNCHANGED <<users, users_by_handle>>

CompareAndSetCredentialAfterLogin(id, expected, new) ==
  /\ LoginRefusal(id, expected, new) = None
  /\ credentials' =
       [credentials EXCEPT ![id].sign_count = IF new > @ THEN new ELSE @]
  /\ UNCHANGED <<users, users_by_handle>>
-----------------------------------------------------------------------------
\* Whether id is stored for `owner`; the owner None asks for any user's.
OwnedBy(id, owner) ==
  credentials[id] # None /\ owner \in {None, credentials[id].user_id}

UpdateCredentialLabel(id, owner, label) ==
  /\ OwnedBy(id, owner)
  /\ credentials' = [credentials EXCEPT ![id].label = label]
  /\ UNCHANGED <<users, users_by_handle>>

\* Wrong form of IsFinal: the credentials of all users are counted.
IsFinalOfAll(id) == Cardinality({c \in CredentialIds : credentials[c] # None}) <= 1

IsFinal(id) == Cardinality(CredentialsOf(credentials[id].user_id)) <= 1

DeleteRefused(id, owner, require_remaining) ==
  \/ ~OwnedBy(id, owner)
  \/ require_remaining /\ IsFinal(id)

DeleteCredential(id, owner, require_remaining) ==
  /\ ~DeleteRefused(id, owner, require_remaining)
  /\ credentials' = [credentials EXCEPT ![id] = None]
  /\ UNCHANGED <<users, users_by_handle>>
-----------------------------------------------------------------------------
StoreNext ==
  \E id \in CredentialIds :
    \/ \E user \in PasskeyUser, credential \in PasskeyCredential :
         /\ credential.label = None \* PasskeyService never registers a label
         /\ SaveRegistration(user, id, credential)
    \/ \E expected, new \in SignCounts :
         CompareAndSetCredentialAfterLogin(id, expected, new)
    \/ \E owner \in UserIds, label \in Labels \cup {None} :
         UpdateCredentialLabel(id, owner, label)
    \/ \E owner \in UserIds \cup {None}, require_remaining \in BOOLEAN :
         DeleteCredential(id, owner, require_remaining)

StoreSpec == StoreInit /\ [][StoreNext]_storeVars
-----------------------------------------------------------------------------
(***************************************************************************)
(* Every stored credential belongs to a stored user, so the login path's   *)
(* "credential has no user" is unreachable (users are never deleted).      *)
(***************************************************************************)
OwnersExist ==
  \A id \in CredentialIds :
    credentials[id] # None => users[credentials[id].user_id] # None

(***************************************************************************)
(* The handle index is exactly the inverse of the users: no two users      *)
(* share a handle, no handle leads to a user that does not carry it.       *)
(* Registrations of different users, in any order, must keep the two       *)
(* dictionaries in step.                                                   *)
(***************************************************************************)
HandleIndexInverse ==
  /\ \A u \in UserIds :
       users[u] # None => /\ users[u].user_id = u
                          /\ users_by_handle[users[u].user_handle] = u
  /\ \A h \in Handles :
       users_by_handle[h] # None =>
         /\ users[users_by_handle[h]] # None
         /\ users[users_by_handle[h]].user_handle = h

(***************************************************************************)
(* README: "records are never reassigned", and counters only move forward: *)
(* whatever calls are repeated or refused, a stored user keeps its handle  *)
(* and name, and a stored credential keeps its owner and its key and never *)
(* loses the counter of an earlier login while it stays stored.            *)
(***************************************************************************)
NeverReassigned ==
  /\ \A u \in UserIds : users[u] # None => users'[u] = users[u]
  /\ \A id \in CredentialIds :
       credentials[id] # None /\ credentials'[id] # None =>
         /\ credentials'[id].user_id = credentials[id].user_id
         /\ credentials'[id].public_key = credentials[id].public_key
         /\ credentials'[id].sign_count >= credentials[id].sign_count

RecordsNeverReassigned == [][NeverReassigned]_storeVars
=============================================================================
