------------------------ MODULE CredentialStoreProofs ------------------------
(***************************************************************************)
(* The credential store is correct for any number of users, handles,       *)
(* credentials, keys and labels and any bound on the counters.  Each       *)
(* invariant is inductive given the type invariant; a lemma per operation  *)
(* states what the operation preserves, so that modules that call the      *)
(* store from their own actions can cite it.                               *)
(***************************************************************************)
EXTENDS CredentialStore, TLAPS

\* The invariants that the operations preserve together.
StoreInv == StoreTypeOK /\ OwnersExist /\ HandleIndexInverse

\* The initial, empty store satisfies the invariants.
LEMMA StoreInitInv == StoreInit => StoreInv
BY NoneAssumption DEF StoreInit, StoreInv, StoreTypeOK, OwnersExist, HandleIndexInverse

\* save_registration keeps the invariants and reassigns nothing.
LEMMA SaveRegistrationInv ==
  ASSUME StoreInv,
         NEW id \in CredentialIds, NEW user \in PasskeyUser, NEW credential \in PasskeyCredential,
         SaveRegistration(user, id, credential)
  PROVE  StoreInv' /\ NeverReassigned
<1>1. /\ user.user_id \in UserIds /\ user.user_handle \in Handles
      /\ credential.user_id \in UserIds
      /\ user # None /\ credential # None /\ user.user_id # None /\ user.user_handle # None
  BY NoneAssumption DEF PasskeyUser, PasskeyCredential, SignCounts
<1>2. /\ credential.user_id = user.user_id
      /\ users[user.user_id] \in {None, user}
      /\ users_by_handle[user.user_handle] \in {None, user.user_id}
  BY NoneAssumption DEF SaveRegistration, SaveRefusal, UserConflict
<1>3. StoreTypeOK'
  BY <1>1 DEF StoreInv, StoreTypeOK, SaveRegistration
<1>4. OwnersExist'
  BY <1>1, <1>2 DEF StoreInv, StoreTypeOK, OwnersExist, SaveRegistration
<1>5. HandleIndexInverse'
  <2>1. /\ users' = [users EXCEPT ![user.user_id] = user]
        /\ users_by_handle' = [users_by_handle EXCEPT ![user.user_handle] = user.user_id]
        /\ users \in [UserIds -> PasskeyUser \cup {None}]
        /\ users_by_handle \in [Handles -> UserIds \cup {None}]
    BY DEF StoreInv, StoreTypeOK, SaveRegistration
  <2>2. ASSUME NEW u \in UserIds, users'[u] # None
        PROVE  /\ users'[u].user_id = u
               /\ users_by_handle'[users'[u].user_handle] = u
    <3>1. CASE u = user.user_id
      BY <1>1, <2>1, <3>1
    <3>2. CASE u # user.user_id
      <4>1. /\ users'[u] = users[u] /\ users[u].user_handle \in Handles
            /\ users[u].user_id = u /\ users_by_handle[users[u].user_handle] = u
        BY <2>1, <2>2, <3>2 DEF StoreInv, HandleIndexInverse, PasskeyUser
      <4>2. users[u].user_handle # user.user_handle
        BY <1>2, <3>2, <4>1, NoneAssumption
      <4> QED
        BY <2>1, <4>1, <4>2
    <3> QED
      BY <3>1, <3>2
  <2>3. ASSUME NEW h \in Handles, users_by_handle'[h] # None
        PROVE  /\ users'[users_by_handle'[h]] # None
               /\ users'[users_by_handle'[h]].user_handle = h
    <3>1. CASE h = user.user_handle
      BY <1>1, <2>1, <3>1
    <3>2. CASE h # user.user_handle
      <4>1. /\ users_by_handle'[h] = users_by_handle[h]
            /\ users_by_handle[h] \in UserIds
            /\ users[users_by_handle[h]] # None
            /\ users[users_by_handle[h]].user_handle = h
        BY <2>1, <2>3, <3>2 DEF StoreInv, HandleIndexInverse
      <4>2. users_by_handle[h] # user.user_id
        BY <1>2, <3>2, <4>1
      <4> QED
        BY <2>1, <4>1, <4>2
    <3> QED
      BY <3>1, <3>2
  <2> QED
    BY <2>2, <2>3 DEF HandleIndexInverse
<1>6. NeverReassigned
  <2>1. \A u \in UserIds : users[u] # None => users'[u] = users[u]
    BY <1>1, <1>2 DEF StoreInv, StoreTypeOK, SaveRegistration
  <2>2. ASSUME NEW c \in CredentialIds, credentials[c] # None, credentials'[c] # None
        PROVE  /\ credentials'[c] = credentials[c]
               /\ credentials[c].sign_count \in Nat
    BY <2>2, MaxSignCountAssumption
    DEF StoreInv, StoreTypeOK, SaveRegistration, PasskeyCredential, SignCounts
  <2> QED
    BY <2>1, <2>2 DEF NeverReassigned
<1> QED
  BY <1>3, <1>4, <1>5, <1>6 DEF StoreInv

\* What a call that changes one stored credential in place, or removes it,
\* has to keep: the owner.
LEMMA CredentialChangeInv ==
  ASSUME StoreInv,
         UNCHANGED <<users, users_by_handle>>,
         credentials' \in [CredentialIds -> PasskeyCredential \cup {None}],
         \A c \in CredentialIds :
           credentials'[c] # None =>
             credentials[c] # None /\ credentials'[c].user_id = credentials[c].user_id
  PROVE  StoreInv'
<1>1. StoreTypeOK'
  BY DEF StoreInv, StoreTypeOK
<1>2. OwnersExist'
  BY DEF StoreInv, StoreTypeOK, OwnersExist
<1>3. HandleIndexInverse'
  BY DEF StoreInv, HandleIndexInverse
<1> QED
  BY <1>1, <1>2, <1>3 DEF StoreInv

\* compare_and_set_credential_after_login keeps the invariants, reassigns
\* nothing, and leaves the accepted counter stored.
LEMMA CompareAndSetInv ==
  ASSUME StoreInv,
         NEW id \in CredentialIds, NEW expected \in SignCounts, NEW new \in SignCounts,
         CompareAndSetCredentialAfterLogin(id, expected, new)
  PROVE  /\ StoreInv' /\ NeverReassigned
         /\ credentials[id] # None /\ credentials'[id] # None
         /\ credentials[id].sign_count <= new /\ credentials'[id].sign_count = new
<1>1. /\ credentials[id] \in PasskeyCredential /\ credentials[id] # None
      /\ credentials[id].sign_count \in Nat /\ new \in Nat
      /\ ~(new < credentials[id].sign_count)
  BY MaxSignCountAssumption, NoneAssumption
  DEF StoreInv, StoreTypeOK, CompareAndSetCredentialAfterLogin, LoginRefusal,
      PasskeyCredential, SignCounts
<1> DEFINE count == IF new > credentials[id].sign_count THEN new
                    ELSE credentials[id].sign_count
<1>2. count = new /\ credentials[id].sign_count <= new
  BY <1>1
<1>3. credentials' = [credentials EXCEPT ![id].sign_count = new]
  BY <1>2 DEF CompareAndSetCredentialAfterLogin
<1>4. [credentials[id] EXCEPT !.sign_count = new] \in PasskeyCredential
  BY <1>1 DEF PasskeyCredential
<1>5. /\ credentials' \in [CredentialIds -> PasskeyCredential \cup {None}]
      /\ credentials'[id] = [credentials[id] EXCEPT !.sign_count = new]
      /\ \A c \in CredentialIds \ {id} : credentials'[c] = credentials[c]
  BY <1>3, <1>4 DEF StoreInv, StoreTypeOK
<1>6. /\ credentials'[id] # None
      /\ credentials'[id].user_id = credentials[id].user_id
      /\ credentials'[id].public_key = credentials[id].public_key
      /\ credentials'[id].sign_count = new
  BY <1>1, <1>4, <1>5, NoneAssumption DEF PasskeyCredential, SignCounts
<1>7. UNCHANGED <<users, users_by_handle>>
  BY DEF CompareAndSetCredentialAfterLogin
<1>8. StoreInv'
  BY <1>1, <1>5, <1>6, <1>7, CredentialChangeInv
<1>9. NeverReassigned
  <2>1. ASSUME NEW c \in CredentialIds, credentials[c] # None
        PROVE  /\ credentials'[c].user_id = credentials[c].user_id
               /\ credentials'[c].public_key = credentials[c].public_key
               /\ credentials'[c].sign_count >= credentials[c].sign_count
    <3>1. CASE c = id
      BY <1>1, <1>2, <1>6, <3>1
    <3>2. CASE c # id
      <4>1. credentials[c].sign_count \in Nat
        BY <2>1, MaxSignCountAssumption
        DEF StoreInv, StoreTypeOK, PasskeyCredential, SignCounts
      <4> QED
        BY <1>5, <3>2, <4>1
    <3> QED
      BY <3>1, <3>2
  <2> QED
    BY <1>7, <2>1 DEF NeverReassigned
<1> QED
  BY <1>1, <1>2, <1>6, <1>8, <1>9

\* update_credential_label keeps the invariants and reassigns nothing.
LEMMA UpdateLabelInv ==
  ASSUME StoreInv,
         NEW id \in CredentialIds, NEW owner \in UserIds, NEW label \in Labels \cup {None},
         UpdateCredentialLabel(id, owner, label)
  PROVE  StoreInv' /\ NeverReassigned
<1>1. /\ credentials[id] \in PasskeyCredential /\ credentials[id] # None
      /\ credentials' = [credentials EXCEPT ![id].label = label]
      /\ UNCHANGED <<users, users_by_handle>>
  BY DEF StoreInv, StoreTypeOK, UpdateCredentialLabel, OwnedBy
<1>2. [credentials[id] EXCEPT !.label = label] \in PasskeyCredential
  BY <1>1 DEF PasskeyCredential
<1>3. /\ credentials' \in [CredentialIds -> PasskeyCredential \cup {None}]
      /\ credentials'[id] = [credentials[id] EXCEPT !.label = label]
      /\ \A c \in CredentialIds \ {id} : credentials'[c] = credentials[c]
  BY <1>1, <1>2 DEF StoreInv, StoreTypeOK
<1>4. /\ credentials'[id].user_id = credentials[id].user_id
      /\ credentials'[id].public_key = credentials[id].public_key
      /\ credentials'[id].sign_count = credentials[id].sign_count
  BY <1>1, <1>3 DEF PasskeyCredential
<1>5. StoreInv'
  BY <1>1, <1>3, <1>4, CredentialChangeInv
<1>6. ASSUME NEW c \in CredentialIds, credentials[c] # None
      PROVE  credentials[c].sign_count \in Nat
  BY <1>6, MaxSignCountAssumption DEF StoreInv, StoreTypeOK, PasskeyCredential, SignCounts
<1>7. NeverReassigned
  BY <1>1, <1>3, <1>4, <1>6 DEF NeverReassigned
<1> QED
  BY <1>5, <1>7

\* delete_credential keeps the invariants and reassigns nothing.
LEMMA DeleteCredentialInv ==
  ASSUME StoreInv,
         NEW id \in CredentialIds, NEW owner \in UserIds \cup {None},
         NEW require_remaining,
         DeleteCredential(id, owner, require_remaining)
  PROVE  StoreInv' /\ NeverReassigned
<1>1. /\ credentials' = [credentials EXCEPT ![id] = None]
      /\ UNCHANGED <<users, users_by_handle>>
  BY DEF DeleteCredential
<1>2. /\ credentials' \in [CredentialIds -> PasskeyCredential \cup {None}]
      /\ credentials'[id] = None
      /\ \A c \in CredentialIds \ {id} : credentials'[c] = credentials[c]
  BY <1>1 DEF StoreInv, StoreTypeOK
<1>3. StoreInv'
  BY <1>1, <1>2, CredentialChangeInv
<1>4. ASSUME NEW c \in CredentialIds, credentials[c] # None
      PROVE  credentials[c].sign_count \in Nat
  BY <1>4, MaxSignCountAssumption DEF StoreInv, StoreTypeOK, PasskeyCredential, SignCounts
<1>5. NeverReassigned
  BY <1>1, <1>2, <1>4 DEF NeverReassigned
<1> QED
  BY <1>3, <1>5
-----------------------------------------------------------------------------
\* Every step of the store keeps the invariants and reassigns nothing.
LEMMA StoreStep == StoreInv /\ [StoreNext]_storeVars => StoreInv' /\ [NeverReassigned]_storeVars
<1> SUFFICES ASSUME StoreInv, [StoreNext]_storeVars
             PROVE  StoreInv' /\ [NeverReassigned]_storeVars
  OBVIOUS
<1>1. CASE UNCHANGED storeVars
  BY <1>1 DEF storeVars, StoreInv, StoreTypeOK, OwnersExist, HandleIndexInverse
<1>2. CASE StoreNext
  <2> PICK id \in CredentialIds :
        \/ \E user \in PasskeyUser, credential \in PasskeyCredential :
             credential.label = None /\ SaveRegistration(user, id, credential)
        \/ \E expected, new \in SignCounts :
             CompareAndSetCredentialAfterLogin(id, expected, new)
        \/ \E owner \in UserIds, label \in Labels \cup {None} :
             UpdateCredentialLabel(id, owner, label)
        \/ \E owner \in UserIds \cup {None}, require_remaining \in BOOLEAN :
             DeleteCredential(id, owner, require_remaining)
    BY <1>2 DEF StoreNext
  <2>1. CASE \E user \in PasskeyUser, credential \in PasskeyCredential :
               credential.label = None /\ SaveRegistration(user, id, credential)
    BY <2>1, SaveRegistrationInv
  <2>2. CASE \E expected, new \in SignCounts :
               CompareAndSetCredentialAfterLogin(id, expected, new)
    BY <2>2, CompareAndSetInv
  <2>3. CASE \E owner \in UserIds, label \in Labels \cup {None} :
               UpdateCredentialLabel(id, owner, label)
    BY <2>3, UpdateLabelInv
  <2>4. CASE \E owner \in UserIds \cup {None}, require_remaining \in BOOLEAN :
               DeleteCredential(id, owner, require_remaining)
    BY <2>4, DeleteCredentialInv
  <2> QED
    BY <2>1, <2>2, <2>3, <2>4
<1> QED
  BY <1>1, <1>2

\* The conjunction of the invariants holds in every reachable state.
LEMMA StoreInvariant == StoreSpec => []StoreInv
BY StoreInitInv, StoreStep, PTL DEF StoreSpec

\* MemoryCredentialStore's dictionaries hold only what their types allow; in
\* particular no login ever stores a counter beyond what an authenticator sent.
THEOREM StoreTypeCorrect == StoreSpec => []StoreTypeOK
<1>1. StoreInv => StoreTypeOK
  BY DEF StoreInv
<1> QED
  BY <1>1, StoreInvariant, PTL

\* Every stored credential has a stored owner: the login path never meets a
\* credential without a user.
THEOREM StoreOwnersExist == StoreSpec => []OwnersExist
<1>1. StoreInv => OwnersExist
  BY DEF StoreInv
<1> QED
  BY <1>1, StoreInvariant, PTL

\* users and users_by_handle are inverse to each other in every reachable
\* state: one handle, one user.
THEOREM StoreHandleIndexInverse == StoreSpec => []HandleIndexInverse
<1>1. StoreInv => HandleIndexInverse
  BY DEF StoreInv
<1> QED
  BY <1>1, StoreInvariant, PTL

\* "Records are never reassigned": no call ever changes a stored user, or the
\* owner or the key of a stored credential, or takes its counter back.
THEOREM StoreRecordsNeverReassigned == StoreSpec => RecordsNeverReassigned
BY StoreInvariant, StoreStep, PTL DEF StoreSpec, RecordsNeverReassigned
=============================================================================
