-------------------- MODULE SQLiteCredentialStoreProofs --------------------
(***************************************************************************)
(* The SQLite store keeps its promises for any number of connections of    *)
(* both kinds, users, handles, credentials and keys and any bound on the   *)
(* counters, and in operation mode it implements the atomic store.         *)
(***************************************************************************)
EXTENDS SQLiteCredentialStore, FiniteSetTheorems, TLAPS

\* Rows that a database may hold: the UNIQUE constraint on handles is met.
RowsOK(v) ==
  /\ v \in Database
  /\ \A u \in UserIds : v.users[u] # None => v.users[u].user_id = u
  /\ \A u, w \in UserIds :
       v.users[u] # None /\ v.users[w] # None /\ v.users[u].user_handle = v.users[w].user_handle
         => u = w

\* A registration that save_registration accepted to start with.
CallOK(call) ==
  /\ call \in Calls
  /\ call.name = "save" =>
       call.credential.user_id = call.user.user_id /\ call.credential.label = None

\* The rows v lost no user's last credential, except of the users dropped.
Kept(rows, v, dropped) ==
  \A u \in UserIds :
    CredentialsOf(rows, u) # {} /\ u \notin dropped => CredentialsOf(v, u) # {}

\* The users that v adds have a credential, except those dropped or pending.
Whole(rows, v, dropped, pending) ==
  \A u \in UserIds :
    rows.users[u] = None /\ v.users[u] # None =>
      CredentialsOf(v, u) # {} \/ u \in dropped \/ u \in pending

\* The user whose credential is still to be inserted.
Pending(t) == IF t.step = "write_credential" THEN {t.call.user.user_id} ELSE {}

\* What the step of the running call says of the transaction.
StepOK(c, t, holder) ==
  /\ t.call = None <=> t.step = "none"
  /\ t.step # "none" => t.open /\ CallOK(t.call)
  /\ t.step = "lock" => Guarded(t.call)
  /\ t.step = "read" => t.call.name # "label" /\ (Guarded(t.call) => holder = c)
  /\ t.step \in {"write", "write_credential"} =>
       /\ t.call.name # "label" => t.view # None
       /\ Writes(t.view, t.call)
  /\ t.step = "write_credential" =>
       t.call.name = "save" /\ t.view.users[t.call.user.user_id] # None
  /\ t.step \in {"write_credential", "commit"} <=> t.savepoint # None

\* Of whoever holds the lock: what a commit of its rows would lose or add.
HolderOK(t, rows) ==
  /\ t.view # None /\ ~t.stale
  /\ Kept(rows, t.view, t.dropped)
  /\ Whole(rows, t.view, t.dropped, Pending(t))
  /\ t.savepoint # None =>
       Kept(rows, t.savepoint, t.dropped) /\ Whole(rows, t.savepoint, t.dropped, {})

\* The rows after all statements of a call that runs on v.
Result(v, call) ==
  IF InsertsUser(v, call) THEN Effect(UserInserted(v, call), call) ELSE Effect(v, call)

\* In operation mode a transaction is one call, on rows nobody changed meanwhile.
OperationOK(c, t, rows, holder) ==
  /\ t.step = "none" => t = Closed
  /\ holder = c /\ t.step \in {"lock", "read", "write"} => t.view = rows
  /\ t.step = "write_credential" =>
       /\ Writes(rows, t.call) /\ InsertsUser(rows, t.call)
       /\ t.view = UserInserted(rows, t.call)
  /\ t.step = "commit" => Writes(rows, t.call) /\ t.view = Result(rows, t.call)

TransactionOK(c, t, rows, holder) ==
  /\ t \in Transaction
  /\ ~t.open => t = Closed
  /\ t.view # None => RowsOK(t.view)
  /\ t.savepoint # None => RowsOK(t.savepoint) /\ holder = c
  /\ t.view # None /\ ~t.stale /\ holder # c => t.view = rows
  /\ StepOK(c, t, holder)
  /\ holder = c => HolderOK(t, rows)
  /\ c \in OperationConnections => OperationOK(c, t, rows, holder)

\* The inductive invariant.
IInv ==
  /\ RowsOK(db)
  /\ writer \in Connections \cup {None}
  /\ tx \in [Connections -> Transaction]
  /\ \A c \in Connections : TransactionOK(c, tx[c], db, writer)

-----------------------------------------------------------------------------
\* The calls by name, with the types of their arguments.
LEMMA CallTypes ==
  ASSUME NEW call, CallOK(call)
  PROVE  /\ call \in Calls /\ call # None
         /\ call.name \in {"save", "login", "label", "delete"}
         /\ call.name = "save" =>
              /\ call \in SaveCalls /\ call.id \in CredentialIds
              /\ call.user \in PasskeyUser /\ call.user # None
              /\ call.user.user_id \in UserIds /\ call.user.user_handle \in Handles
              /\ call.credential \in PasskeyCredential /\ call.credential # None
              /\ call.credential.user_id = call.user.user_id /\ call.credential.label = None
         /\ call.name = "login" =>
              /\ call.id \in CredentialIds /\ call.expected \in SignCounts
              /\ call.new \in SignCounts
         /\ call.name = "label" =>
              /\ call.id \in CredentialIds /\ call.owner \in UserIds
              /\ call.label \in Labels \cup {None}
         /\ call.name = "delete" =>
              /\ call.id \in CredentialIds /\ call.owner \in UserIds \cup {None}
              /\ call.require_remaining \in BOOLEAN
<1>1. call \in Calls
  BY DEF CallOK
<1>2. call # None
  BY <1>1, RowsAssumption
<1>3. CASE call \in SaveCalls
  BY <1>1, <1>2, <1>3, RowsAssumption DEF SaveCalls, CallOK, PasskeyUser
<1>4. CASE call \in LoginCalls
  BY <1>1, <1>2, <1>4 DEF LoginCalls
<1>5. CASE call \in LabelCalls
  BY <1>1, <1>2, <1>5 DEF LabelCalls
<1>6. CASE call \in DeleteCalls
  BY <1>1, <1>2, <1>6 DEF DeleteCalls
<1> QED
  BY <1>1, <1>3, <1>4, <1>5, <1>6 DEF Calls

\* What the fields of rows are.
LEMMA RowTypes ==
  ASSUME NEW v, RowsOK(v)
  PROVE  /\ v \in Database /\ v # None
         /\ v.users \in [UserIds -> PasskeyUser \cup {None}]
         /\ v.credentials \in [CredentialIds -> PasskeyCredential \cup {None}]
         /\ v = [users |-> v.users, credentials |-> v.credentials]
BY RowsAssumption DEF RowsOK, Database

\* What the SELECTs of an accepted registration found.
LEMMA SaveAccepted ==
  ASSUME NEW v, RowsOK(v), NEW call, CallOK(call), call.name = "save", Writes(v, call)
  PROVE  /\ v.credentials[call.id] = None
         /\ v.users[call.user.user_id] \in {None, call.user}
         /\ \A u \in HandleOwners(v, call.user.user_handle) : u = call.user.user_id
         /\ SaveRefusal(v, call) = None
<1>1. Refusal(v, call) = SaveRefusal(v, call)
  BY DEF Refusal
<1>2. SaveRefusal(v, call) = None /\ v.credentials[call.id] = None
  BY <1>1 DEF Writes
<1>3. ~UserConflict(v, call.user)
  BY <1>2, RowsAssumption DEF SaveRefusal
<1> QED
  BY <1>2, <1>3 DEF UserConflict

\* The INSERT of a user, after which the SELECTs would accept the call again.
LEMMA UserInsertedRows ==
  ASSUME NEW v, RowsOK(v), NEW call, CallOK(call), call.name = "save", Writes(v, call)
  PROVE  /\ RowsOK(UserInserted(v, call))
         /\ UserInserted(v, call).credentials = v.credentials
         /\ UserInserted(v, call).users = [v.users EXCEPT ![call.user.user_id] = call.user]
         /\ Writes(UserInserted(v, call), call)
<1> DEFINE e == UserInserted(v, call)
<1> DEFINE user == call.user
<1>1. /\ user \in PasskeyUser /\ user.user_id \in UserIds /\ user.user_handle \in Handles
      /\ user # None
  BY CallTypes
<1>2. /\ v.users \in [UserIds -> PasskeyUser \cup {None}]
      /\ v.credentials \in [CredentialIds -> PasskeyCredential \cup {None}]
      /\ v \in Database
  BY RowTypes
<1>3. /\ e.users = [v.users EXCEPT ![user.user_id] = user]
      /\ e.credentials = v.credentials
      /\ e \in Database
  BY <1>1, <1>2 DEF UserInserted, Database
<1>4. \A u \in UserIds : e.users[u] = IF u = user.user_id THEN user ELSE v.users[u]
  BY <1>2, <1>3
<1> HIDE DEF e
<1>5. \A u \in HandleOwners(v, user.user_handle) : u = user.user_id
  BY SaveAccepted
<1>6. RowsOK(e)
  <2>1. \A u \in UserIds : e.users[u] # None => e.users[u].user_id = u
    BY <1>4 DEF RowsOK
  <2>2. ASSUME NEW u \in UserIds, NEW w \in UserIds, e.users[u] # None, e.users[w] # None,
               e.users[u].user_handle = e.users[w].user_handle
        PROVE  u = w
    <3>1. CASE u = user.user_id
      BY <1>4, <1>5, <2>2, <3>1 DEF HandleOwners
    <3>2. CASE w = user.user_id
      BY <1>4, <1>5, <2>2, <3>2 DEF HandleOwners
    <3>3. CASE u # user.user_id /\ w # user.user_id
      BY <1>4, <2>2, <3>3 DEF RowsOK
    <3> QED
      BY <3>1, <3>2, <3>3
  <2> QED
    BY <1>3, <2>1, <2>2 DEF RowsOK
<1>7. Writes(e, call)
  <2>1. e.credentials[call.id] = None
    BY <1>3, SaveAccepted
  <2>2. e.users[user.user_id] = user
    BY <1>1, <1>4
  <2>3. \A u \in HandleOwners(e, user.user_handle) : u = user.user_id
    BY <1>4, <1>5 DEF HandleOwners
  <2>4. ~UserConflict(e, user) /\ ~CredentialConflict(e, call.id, call.credential)
    BY <2>1, <2>2, <2>3 DEF UserConflict, CredentialConflict
  <2>5. SaveRefusal(e, call) = None
    BY <2>4 DEF SaveRefusal
  <2> QED
    BY <2>1, <2>5 DEF Writes, Refusal
<1> QED
  BY <1>3, <1>6, <1>7 DEF e

\* What any call's last statement does to rows it accepted.
LEMMA EffectRows ==
  ASSUME NEW v, RowsOK(v), NEW call, CallOK(call), Writes(v, call), ~InsertsUser(v, call)
  PROVE  /\ RowsOK(Effect(v, call))
         /\ Effect(v, call).users = v.users
         /\ \A u \in UserIds :
              /\ CredentialsOf(v, u) # {}
              /\ ~( /\ call.name = "delete" /\ ~call.require_remaining
                    /\ u = v.credentials[call.id].user_id )
              => CredentialsOf(Effect(v, call), u) # {}
         /\ call.name = "save" =>
              CredentialsOf(Effect(v, call), call.user.user_id) # {}
<1> DEFINE e == Effect(v, call)
<1>1. /\ v \in Database
      /\ v.users \in [UserIds -> PasskeyUser \cup {None}]
      /\ v.credentials \in [CredentialIds -> PasskeyCredential \cup {None}]
  BY RowTypes
<1>2. ASSUME NEW f \in [CredentialIds -> PasskeyCredential \cup {None}],
             e = [v EXCEPT !.credentials = f]
      PROVE  RowsOK(e) /\ e.users = v.users /\ e.credentials = f
  BY <1>1, <1>2 DEF RowsOK, Database
<1>3. CASE call.name = "save"
  <2>1. e = [v EXCEPT !.credentials = [v.credentials EXCEPT ![call.id] = call.credential]]
    BY <1>3 DEF Effect, CredentialInserted
  <2>2. /\ call.id \in CredentialIds /\ call.credential \in PasskeyCredential
        /\ call.credential # None /\ call.credential.user_id = call.user.user_id
    BY <1>3, CallTypes
  <2> DEFINE f == [v.credentials EXCEPT ![call.id] = call.credential]
  <2>3. f \in [CredentialIds -> PasskeyCredential \cup {None}]
    BY <1>1, <2>2
  <2>4. v.credentials[call.id] = None
    BY <1>3, SaveAccepted
  <2>5. \A id \in CredentialIds :
          f[id] = IF id = call.id THEN call.credential ELSE v.credentials[id]
    BY <1>1
  <2>6. RowsOK(e) /\ e.users = v.users /\ e.credentials = f
    BY <1>2, <2>1, <2>3
  <2> HIDE DEF e, f
  <2>7. \A u \in UserIds : CredentialsOf(v, u) \subseteq CredentialsOf(e, u)
    BY <2>4, <2>5, <2>6 DEF CredentialsOf
  <2>8. call.id \in CredentialsOf(e, call.user.user_id)
    BY <2>2, <2>5, <2>6 DEF CredentialsOf
  <2> QED
    BY <2>6, <2>7, <2>8 DEF e
<1>4. ASSUME call.name \in {"login", "label"},
             NEW f \in [CredentialIds -> PasskeyCredential \cup {None}],
             e = [v EXCEPT !.credentials = f],
             \A id \in CredentialIds : v.credentials[id] # None =>
               f[id] # None /\ f[id].user_id = v.credentials[id].user_id
      PROVE  /\ RowsOK(e) /\ e.users = v.users
             /\ \A u \in UserIds : CredentialsOf(v, u) # {} => CredentialsOf(e, u) # {}
  <2>1. RowsOK(e) /\ e.users = v.users /\ e.credentials = f
    BY <1>2, <1>4
  <2>2. \A u \in UserIds : CredentialsOf(v, u) \subseteq CredentialsOf(e, u)
    BY <1>4, <2>1 DEF CredentialsOf
  <2> QED
    BY <2>1, <2>2
<1>5. CASE call.name = "login"
  <2>1. /\ call.id \in CredentialIds /\ call.new \in SignCounts
    BY <1>5, CallTypes
  <2>2. v.credentials[call.id] # None /\ v.credentials[call.id] \in PasskeyCredential
    BY <1>1, <1>5, <2>1, RowsAssumption DEF Writes, Refusal, LoginRefusal
  <2> DEFINE count == IF call.new > v.credentials[call.id].sign_count THEN call.new
                      ELSE v.credentials[call.id].sign_count
  <2> DEFINE row == [v.credentials[call.id] EXCEPT !.sign_count = count]
  <2>3. row \in PasskeyCredential /\ row.user_id = v.credentials[call.id].user_id
    BY <2>1, <2>2 DEF PasskeyCredential
  <2> DEFINE f == [v.credentials EXCEPT ![call.id] = row]
  <2>4. e = [v EXCEPT !.credentials = f]
    BY <1>5 DEF Effect, LoggedIn
  <2> HIDE DEF row, e
  <2>5. f \in [CredentialIds -> PasskeyCredential \cup {None}]
    BY <1>1, <2>3
  <2>6. \A id \in CredentialIds : v.credentials[id] # None =>
          f[id] # None /\ f[id].user_id = v.credentials[id].user_id
    BY <1>1, <2>2, <2>3, RowsAssumption
  <2> HIDE DEF f
  <2> QED
    BY <1>4, <1>5, <2>4, <2>5, <2>6 DEF e
<1>6. CASE call.name = "label"
  <2>1. call.id \in CredentialIds /\ call.label \in Labels \cup {None}
    BY <1>6, CallTypes
  <2>2. CASE ~Owned(v, call.id, call.owner)
    BY <1>6, <2>2 DEF Effect, Labelled
  <2>3. CASE Owned(v, call.id, call.owner)
    <3>1. v.credentials[call.id] # None /\ v.credentials[call.id] \in PasskeyCredential
      BY <1>1, <2>1, <2>3 DEF Owned
    <3> DEFINE row == [v.credentials[call.id] EXCEPT !.label = call.label]
    <3>2. row \in PasskeyCredential /\ row.user_id = v.credentials[call.id].user_id
      BY <2>1, <3>1 DEF PasskeyCredential
    <3> DEFINE f == [v.credentials EXCEPT ![call.id] = row]
    <3>3. e = [v EXCEPT !.credentials = f]
      BY <1>6, <2>3 DEF Effect, Labelled
    <3> HIDE DEF row, e
    <3>4. f \in [CredentialIds -> PasskeyCredential \cup {None}]
      BY <1>1, <3>2
    <3>5. \A id \in CredentialIds : v.credentials[id] # None =>
            f[id] # None /\ f[id].user_id = v.credentials[id].user_id
      BY <1>1, <3>1, <3>2, RowsAssumption
    <3> HIDE DEF f
    <3> QED
      BY <1>4, <1>6, <3>3, <3>4, <3>5 DEF e
  <2> QED
    BY <2>2, <2>3
<1>7. CASE call.name = "delete"
  <2>1. call.id \in CredentialIds
    BY <1>7, CallTypes
  <2> DEFINE f == [v.credentials EXCEPT ![call.id] = None]
  <2>2. e = [v EXCEPT !.credentials = f]
    BY <1>7 DEF Effect, Deleted
  <2>3. f \in [CredentialIds -> PasskeyCredential \cup {None}]
    BY <1>1, <2>1
  <2>4. RowsOK(e) /\ e.users = v.users /\ e.credentials = f
    BY <1>2, <2>2, <2>3
  <2> DEFINE owner == v.credentials[call.id].user_id
  <2>5. /\ v.credentials[call.id] # None
        /\ call.require_remaining => ~(Cardinality(CredentialsOf(v, owner)) <= 1)
    BY <1>7, RowsAssumption DEF Writes, Refusal, DeleteRefusal, Owned
  <2>6. \A u \in UserIds : CredentialsOf(e, u) = CredentialsOf(v, u) \ {call.id}
    <3> HIDE DEF e
    <3> QED
      BY <1>1, <2>4 DEF CredentialsOf
  <2> HIDE DEF e, f
  <2>7. ASSUME NEW u \in UserIds, CredentialsOf(v, u) # {}, CredentialsOf(e, u) = {}
        PROVE  u = owner /\ ~call.require_remaining
    <3>1. CredentialsOf(v, u) = {call.id}
      BY <2>6, <2>7
    <3>2. u = owner
      BY <3>1 DEF CredentialsOf
    <3>3. Cardinality(CredentialsOf(v, owner)) = 1
      BY <3>1, <3>2, FS_Singleton
    <3> QED
      BY <2>5, <3>2, <3>3
  <2> QED
    BY <1>7, <2>4, <2>7 DEF e
<1> QED
  BY <1>3, <1>5, <1>6, <1>7, CallTypes
-----------------------------------------------------------------------------
\* No connection is None, and a closed transaction is as it should be.
LEMMA ClosedOK ==
  ASSUME NEW c \in Connections, NEW rows, NEW holder, holder # c
  PROVE  Closed \in Transaction /\ TransactionOK(c, Closed, rows, holder) /\ c # None
<1>1. Closed \in Transaction /\ c # None
  BY ConnectionsAssumption DEF Closed, Transaction, Connections
<1>2. /\ ~Closed.open /\ Closed.view = None /\ Closed.call = None /\ Closed.step = "none"
      /\ Closed.savepoint = None
  BY DEF Closed
<1> HIDE DEF Closed
<1>3. StepOK(c, Closed, holder) /\ OperationOK(c, Closed, rows, holder)
  BY <1>2 DEF StepOK, OperationOK
<1> QED
  BY <1>1, <1>2, <1>3 DEF TransactionOK

\* It matters only whether a connection itself holds the lock.
LEMMA HolderSame ==
  ASSUME NEW c, NEW t, NEW rows, NEW h1, NEW h2, h1 = c <=> h2 = c,
         TransactionOK(c, t, rows, h1)
  PROVE  TransactionOK(c, t, rows, h2)
BY DEF TransactionOK, StepOK, OperationOK

\* Another connection's commit makes a snapshot stale, and does nothing else.
LEMMA Overtaken ==
  ASSUME NEW c \in Connections, NEW t, NEW rows, NEW new, NEW holder, holder # c,
         TransactionOK(c, t, rows, holder)
  PROVE  /\ [t EXCEPT !.stale = t.stale \/ t.view # None] \in Transaction
         /\ TransactionOK(c, [t EXCEPT !.stale = t.stale \/ t.view # None], new, None)
<1> DEFINE s == [t EXCEPT !.stale = t.stale \/ t.view # None]
<1>1. c # None /\ t \in Transaction
  BY ClosedOK DEF TransactionOK
<1>2. /\ s \in Transaction /\ s.open = t.open /\ s.view = t.view /\ s.call = t.call
      /\ s.step = t.step /\ s.savepoint = t.savepoint
      /\ s.view # None => s.stale
  BY <1>1 DEF Transaction
<1>3. t.view = None => s = t
  BY <1>1 DEF Transaction
<1>4. t.step \notin {"write_credential", "commit"} /\ t.savepoint = None
  BY DEF TransactionOK, StepOK
<1>5. t = Closed => s = Closed
  BY <1>3 DEF Closed
<1> HIDE DEF s
<1>6. StepOK(c, s, None)
  BY <1>1, <1>2 DEF TransactionOK, StepOK
<1>7. c \in OperationConnections => OperationOK(c, s, new, None)
  BY <1>1, <1>2, <1>4, <1>5 DEF TransactionOK, OperationOK
<1>8. ~s.open => s = Closed
  BY <1>2, <1>5 DEF TransactionOK
<1>9. s.view # None => RowsOK(s.view)
  BY <1>2 DEF TransactionOK
<1>10. TransactionOK(c, s, new, None)
  BY <1>1, <1>2, <1>4, <1>6, <1>7, <1>8, <1>9 DEF TransactionOK
<1> QED
  BY <1>2, <1>10 DEF s

\* One connection moves and the database stays.
LEMMA ConnectionMoves ==
  ASSUME IInv, NEW c \in Connections, NEW t, NEW holder \in Connections \cup {None},
         \A d \in Connections : d # c => (writer = d <=> holder = d),
         tx' = [tx EXCEPT ![c] = t], writer' = holder, db' = db,
         TransactionOK(c, t, db, holder)
  PROVE  IInv'
<1>1. tx \in [Connections -> Transaction] /\ t \in Transaction
  BY DEF IInv, TransactionOK
<1>2. tx' \in [Connections -> Transaction] /\ tx'[c] = t
  BY <1>1
<1>3. ASSUME NEW d \in Connections, d # c PROVE TransactionOK(d, tx'[d], db, holder)
  <2>1. TransactionOK(d, tx[d], db, writer) /\ tx'[d] = tx[d]
    BY <1>1, <1>3 DEF IInv
  <2> QED
    BY <1>3, <2>1, HolderSame
<1>4. \A d \in Connections : TransactionOK(d, tx'[d], db', writer')
  BY <1>2, <1>3
<1> QED
  BY <1>2, <1>4 DEF IInv

\* A transaction ends without its writes.
LEMMA RollbackInv ==
  ASSUME IInv, NEW c \in Connections, Rollback(c)
  PROVE  IInv'
<1> DEFINE holder == IF writer = c THEN None ELSE writer
<1>1. tx' = [tx EXCEPT ![c] = Closed] /\ writer' = holder /\ db' = db
  BY DEF Rollback
<1>2. /\ holder \in Connections \cup {None} /\ holder # c
      /\ \A d \in Connections : d # c => (writer = d <=> holder = d)
  BY ConnectionsAssumption DEF IInv, Connections
<1> HIDE DEF holder
<1>3. TransactionOK(c, Closed, db, holder)
  BY <1>2, ClosedOK
<1> QED
  BY <1>1, <1>2, <1>3, ConnectionMoves

\* A transaction ends with its writes.
LEMMA CommitInv ==
  ASSUME IInv, NEW c \in Connections, Commit(c)
  PROVE  IInv'
<1>1. CASE writer # c
  BY <1>1, RollbackInv DEF Commit
<1>2. CASE writer = c
  <2>1. /\ db' = tx[c].view /\ writer' = None
        /\ tx' = [d \in Connections |->
                    IF d = c THEN Closed
                    ELSE [tx[d] EXCEPT !.stale = tx[d].stale \/ tx[d].view # None]]
    BY <1>2 DEF Commit
  <2>2. RowsOK(db')
    BY <1>2, <2>1 DEF IInv, TransactionOK, HolderOK
  <2>3. ASSUME NEW d \in Connections
        PROVE  tx'[d] \in Transaction /\ TransactionOK(d, tx'[d], db', None)
    <3>1. CASE d = c
      BY <2>1, <3>1, ClosedOK
    <3>2. CASE d # c
      <4>1. TransactionOK(d, tx[d], db, writer) /\ writer # d
        BY <1>2, <3>2 DEF IInv
      <4>2. tx'[d] = [tx[d] EXCEPT !.stale = tx[d].stale \/ tx[d].view # None]
        BY <2>1, <3>2
      <4> QED
        BY <4>1, <4>2, Overtaken
    <3> QED
      BY <3>1, <3>2
  <2>4. tx' \in [Connections -> Transaction]
    BY <2>1, <2>3
  <2>5. writer' \in Connections \cup {None}
    BY <2>1
  <2>6. \A d \in Connections : TransactionOK(d, tx'[d], db', writer')
    BY <2>1, <2>3
  <2> QED
    BY <2>2, <2>4, <2>5, <2>6 DEF IInv
<1> QED
  BY <1>1, <1>2

\* The rows a statement sees; they are the committed ones if it takes the lock.
LEMMA ViewOK ==
  ASSUME IInv, NEW c \in Connections
  PROVE  /\ RowsOK(View(c)) /\ View(c) # None /\ View(c) \in Database
         /\ writer # c /\ ~tx[c].stale => View(c) = db
         /\ tx[c].view # None => View(c) = tx[c].view
         /\ writer = c => View(c) = tx[c].view
         /\ CanWrite(c) =>
              /\ ~tx[c].stale
              /\ \A d \in Connections : d # c => writer # d
              /\ Kept(db, View(c), tx[c].dropped)
              /\ Whole(db, View(c), tx[c].dropped, Pending(tx[c]))
<1>1. TransactionOK(c, tx[c], db, writer) /\ RowsOK(db)
  BY DEF IInv
<1>2. RowsOK(View(c)) /\ (tx[c].view # None => View(c) = tx[c].view)
  BY <1>1 DEF View, TransactionOK
<1>3. View(c) # None /\ View(c) \in Database
  BY <1>2, RowTypes
<1>4. writer # c /\ ~tx[c].stale => View(c) = db
  BY <1>1 DEF View, TransactionOK
<1>5. writer = c => View(c) = tx[c].view /\ ~tx[c].stale
  BY <1>1, <1>2 DEF TransactionOK, HolderOK
<1>6. \A d \in Connections : d # None
  BY ConnectionsAssumption DEF Connections
<1>7. ASSUME CanWrite(c)
      PROVE  Kept(db, View(c), tx[c].dropped) /\ Whole(db, View(c), tx[c].dropped, Pending(tx[c]))
  <2>1. CASE writer = c
    BY <1>1, <1>5, <2>1 DEF TransactionOK, HolderOK
  <2>2. CASE writer # c
    BY <1>4, <1>7, <2>2 DEF CanWrite, Kept, Whole
  <2> QED
    BY <2>1, <2>2
<1> QED
  BY <1>2, <1>3, <1>4, <1>5, <1>6, <1>7 DEF CanWrite

-----------------------------------------------------------------------------
\* A call begins: a transaction of its own, or one its caller opened.
LEMMA StartCallInv ==
  ASSUME IInv, NEW c \in Connections, NEW call \in Calls, StartCall(c, call)
  PROVE  IInv'
<1> DEFINE t == [tx[c] EXCEPT !.open = TRUE, !.call = call, !.step = FirstStep(call)]
<1>1. /\ tx[c].call = None /\ CallOK(call)
      /\ tx' = [tx EXCEPT ![c].open = TRUE, ![c].call = call, ![c].step = FirstStep(call)]
      /\ db' = db /\ writer' = writer
  BY DEF StartCall, CallOK
<1>2. /\ TransactionOK(c, tx[c], db, writer) /\ tx[c] \in Transaction /\ tx[c].step = "none"
      /\ tx[c].savepoint = None /\ writer \in Connections \cup {None}
      /\ tx \in [Connections -> Transaction]
  BY <1>1 DEF IInv, TransactionOK, StepOK
<1>3. tx' = [tx EXCEPT ![c] = t]
  BY <1>1, <1>2
<1>4. call # None /\ call.name \in {"save", "login", "label", "delete"}
  BY <1>1, CallTypes
<1>5. /\ FirstStep(call) \in {"lock", "read", "write"}
      /\ FirstStep(call) = "lock" => Guarded(call)
      /\ FirstStep(call) = "read" => ~Guarded(call) /\ call.name # "label"
      /\ FirstStep(call) = "write" => call.name = "label"
  BY <1>4 DEF FirstStep, Guarded
<1>6. /\ t \in Transaction /\ t.open /\ t.call = call /\ t.step = FirstStep(call)
      /\ t.view = tx[c].view /\ t.stale = tx[c].stale /\ t.savepoint = None
      /\ t.dropped = tx[c].dropped
  BY <1>2, <1>5 DEF Transaction
<1>7. call.name = "label" => Writes(t.view, call)
  BY DEF Writes, Refusal
<1> HIDE DEF t
<1>8. StepOK(c, t, writer)
  BY <1>1, <1>4, <1>5, <1>6, <1>7 DEF StepOK
<1>9. writer = c => HolderOK(t, db)
  BY <1>2, <1>5, <1>6 DEF TransactionOK, HolderOK, Pending
<1>10. ASSUME c \in OperationConnections PROVE OperationOK(c, t, db, writer)
  <2>1. tx[c] = Closed
    BY <1>2, <1>10 DEF TransactionOK, OperationOK
  <2>2. writer # c
    BY <1>2, <2>1 DEF TransactionOK, HolderOK, Closed
  <2> QED
    BY <1>5, <1>6, <2>2 DEF OperationOK
<1>11. TransactionOK(c, t, db, writer)
  BY <1>2, <1>6, <1>8, <1>9, <1>10 DEF TransactionOK
<1> QED
  BY <1>1, <1>2, <1>3, <1>11, ConnectionMoves

\* The write lock before the count.
LEMMA LockInv ==
  ASSUME IInv, NEW c \in Connections, Lock(c)
  PROVE  IInv'
<1> DEFINE t == [tx[c] EXCEPT !.step = "read", !.view = View(c)]
<1>1. /\ tx[c].step = "lock" /\ CanWrite(c) /\ writer' = c /\ db' = db
      /\ tx' = [tx EXCEPT ![c].step = "read", ![c].view = View(c)]
  BY DEF Lock
<1>2. /\ TransactionOK(c, tx[c], db, writer) /\ tx[c] \in Transaction
      /\ tx[c].savepoint = None /\ tx[c].call # None /\ tx[c].open
      /\ tx \in [Connections -> Transaction]
      /\ CallOK(tx[c].call) /\ Guarded(tx[c].call)
  BY <1>1 DEF IInv, TransactionOK, StepOK
<1>3. tx' = [tx EXCEPT ![c] = t]
  BY <1>1, <1>2
<1>4. /\ RowsOK(View(c)) /\ View(c) # None /\ View(c) \in Database /\ ~tx[c].stale
      /\ \A d \in Connections : d # c => writer # d
      /\ Kept(db, View(c), tx[c].dropped)
      /\ Whole(db, View(c), tx[c].dropped, {})
      /\ c \in OperationConnections => View(c) = db
  BY <1>1, <1>2, ViewOK DEF Pending, TransactionOK, OperationOK
<1>5. /\ t \in Transaction /\ t.open /\ t.call = tx[c].call /\ t.step = "read"
      /\ t.view = View(c) /\ t.stale = tx[c].stale /\ t.savepoint = None
      /\ t.dropped = tx[c].dropped
  BY <1>2, <1>4 DEF Transaction
<1> HIDE DEF t
<1>6. StepOK(c, t, c)
  BY <1>2, <1>5 DEF StepOK, Guarded
<1>7. HolderOK(t, db)
  BY <1>4, <1>5 DEF HolderOK, Pending
<1>8. c \in OperationConnections => OperationOK(c, t, db, c)
  BY <1>4, <1>5 DEF OperationOK
<1>9. TransactionOK(c, t, db, c)
  BY <1>4, <1>5, <1>6, <1>7, <1>8 DEF TransactionOK
<1> QED
  BY <1>1, <1>3, <1>4, <1>9, ConnectionMoves

\* A call of an external connection returns; its caller's transaction goes on.
LEMMA ReturnInv ==
  ASSUME IInv, NEW c \in Connections, c \notin OperationConnections, tx[c].open,
         NEW view \in Database \cup {None},
         view # None => RowsOK(view),
         writer # c /\ view # None /\ ~tx[c].stale => view = db,
         writer = c => /\ view # None
                       /\ Kept(db, view, tx[c].dropped) /\ Whole(db, view, tx[c].dropped, {}),
         Return(c, view), UNCHANGED <<db, writer>>
  PROVE  IInv'
<1> DEFINE t == [tx[c] EXCEPT !.call = None, !.step = "none", !.savepoint = None,
                              !.view = view]
<1>1. tx' = [tx EXCEPT ![c].call = None, ![c].step = "none", ![c].savepoint = None,
                       ![c].view = view]
  BY DEF Return
<1>2. /\ TransactionOK(c, tx[c], db, writer) /\ tx[c] \in Transaction
      /\ tx \in [Connections -> Transaction] /\ writer \in Connections \cup {None}
  BY DEF IInv, TransactionOK
<1>3. tx' = [tx EXCEPT ![c] = t]
  BY <1>1, <1>2
<1>4. /\ t \in Transaction /\ t.open /\ t.call = None /\ t.step = "none"
      /\ t.view = view /\ t.stale = tx[c].stale /\ t.savepoint = None
      /\ t.dropped = tx[c].dropped
  BY <1>2 DEF Transaction
<1> HIDE DEF t
<1>5. StepOK(c, t, writer)
  BY <1>4 DEF StepOK
<1>6. writer = c => HolderOK(t, db)
  BY <1>2, <1>4 DEF HolderOK, Pending, TransactionOK
<1>7. TransactionOK(c, t, db, writer)
  BY <1>4, <1>5, <1>6 DEF TransactionOK
<1> QED
  BY <1>2, <1>3, <1>7, ConnectionMoves

\* The SELECTs accept the call, or it is over.
LEMMA ReadInv ==
  ASSUME IInv, NEW c \in Connections, Read(c)
  PROVE  IInv'
<1>1. /\ TransactionOK(c, tx[c], db, writer) /\ tx[c] \in Transaction
      /\ tx \in [Connections -> Transaction] /\ writer \in Connections \cup {None}
      /\ tx[c].step = "read" /\ tx[c].savepoint = None /\ tx[c].open
      /\ tx[c].call # None /\ CallOK(tx[c].call) /\ tx[c].call.name # "label"
  BY DEF IInv, TransactionOK, StepOK, Read
<1>2. /\ RowsOK(View(c)) /\ View(c) # None /\ View(c) \in Database
      /\ writer # c /\ ~tx[c].stale => View(c) = db
      /\ tx[c].view # None => View(c) = tx[c].view
      /\ writer = c => View(c) = tx[c].view
  BY ViewOK
<1>3. CASE Writes(View(c), tx[c].call)
  <2> DEFINE t == [tx[c] EXCEPT !.step = "write", !.view = View(c)]
  <2>1. /\ tx' = [tx EXCEPT ![c].step = "write", ![c].view = View(c)]
        /\ db' = db /\ writer' = writer
    BY <1>3 DEF Read
  <2>2. tx' = [tx EXCEPT ![c] = t]
    BY <1>1, <2>1
  <2>3. /\ t \in Transaction /\ t.open /\ t.call = tx[c].call /\ t.step = "write"
        /\ t.view = View(c) /\ t.stale = tx[c].stale /\ t.savepoint = None
        /\ t.dropped = tx[c].dropped
    BY <1>1, <1>2 DEF Transaction
  <2> HIDE DEF t
  <2>4. StepOK(c, t, writer)
    BY <1>1, <1>2, <1>3, <2>3 DEF StepOK
  <2>5. writer = c => HolderOK(t, db)
    BY <1>1, <1>2, <2>3 DEF HolderOK, Pending, TransactionOK
  <2>6. c \in OperationConnections => OperationOK(c, t, db, writer)
    BY <1>1, <1>2, <2>3 DEF OperationOK, TransactionOK
  <2>7. TransactionOK(c, t, db, writer)
    BY <1>2, <2>3, <2>4, <2>5, <2>6 DEF TransactionOK
  <2> QED
    BY <1>1, <2>1, <2>2, <2>7, ConnectionMoves
<1>4. CASE ~Writes(View(c), tx[c].call) /\ c \in OperationConnections
  BY <1>4, RollbackInv DEF Read
<1>5. CASE ~Writes(View(c), tx[c].call) /\ c \notin OperationConnections
  <2>1. Return(c, View(c)) /\ UNCHANGED <<db, writer>>
    BY <1>5 DEF Read
  <2>2. writer = c =>
          Kept(db, View(c), tx[c].dropped) /\ Whole(db, View(c), tx[c].dropped, {})
    BY <1>1, <1>2 DEF TransactionOK, HolderOK, Pending
  <2> QED
    BY <1>1, <1>2, <1>5, <2>1, <2>2, ReturnInv
<1> QED
  BY <1>3, <1>4, <1>5

\* A statement that writes: the connection holds the lock, and what a failure
\* restores is what it saw before the first of them.
LEMMA WriteStatementInv ==
  ASSUME IInv, NEW c \in Connections, tx[c].step \in {"write", "write_credential"},
         NEW step \in {"write_credential", "commit"}, NEW view, RowsOK(view),
         NEW dropped \in SUBSET UserIds,
         WriteStatement(c, view, step, dropped),
         Kept(View(c), view, dropped),
         NEW pending, step = "commit" => pending = {},
         step = "write_credential" => pending = {tx[c].call.user.user_id},
         Whole(db, view, tx[c].dropped \cup dropped, pending),
         step = "write_credential" =>
           /\ tx[c].call.name = "save" /\ view.users[tx[c].call.user.user_id] # None
           /\ Writes(view, tx[c].call),
         c \in OperationConnections =>
           /\ Writes(db, tx[c].call)
           /\ step = "write_credential" =>
                InsertsUser(db, tx[c].call) /\ view = UserInserted(db, tx[c].call)
           /\ step = "commit" => view = Result(db, tx[c].call)
  PROVE  IInv'
<1> DEFINE savepoint == IF tx[c].savepoint = None THEN View(c) ELSE tx[c].savepoint
<1> DEFINE t == [tx[c] EXCEPT !.step = step, !.view = view,
                              !.dropped = tx[c].dropped \cup dropped,
                              !.savepoint = savepoint]
<1>1. /\ CanWrite(c) /\ writer' = c /\ db' = db
      /\ tx' = [tx EXCEPT ![c].step = step, ![c].view = view, ![c].dropped = @ \cup dropped,
                          ![c].savepoint = IF @ = None THEN View(c) ELSE @]
  BY DEF WriteStatement
<1>2. /\ TransactionOK(c, tx[c], db, writer) /\ tx[c] \in Transaction
      /\ tx \in [Connections -> Transaction]
      /\ tx[c].open /\ tx[c].call # None /\ CallOK(tx[c].call)
  BY DEF IInv, TransactionOK, StepOK
<1>3. tx' = [tx EXCEPT ![c] = t]
  BY <1>1, <1>2
<1>4. /\ RowsOK(View(c)) /\ View(c) # None /\ View(c) \in Database /\ ~tx[c].stale
      /\ \A d \in Connections : d # c => writer # d
      /\ Kept(db, View(c), tx[c].dropped)
      /\ Whole(db, View(c), tx[c].dropped, Pending(tx[c]))
  BY <1>1, ViewOK
<1>5. /\ savepoint # None /\ savepoint \in Database /\ RowsOK(savepoint)
      /\ Kept(db, savepoint, tx[c].dropped) /\ Whole(db, savepoint, tx[c].dropped, {})
  <2>1. CASE tx[c].savepoint = None
    <3>1. tx[c].step = "write"
      BY <1>2, <2>1 DEF TransactionOK, StepOK
    <3> QED
      BY <1>4, <2>1, <3>1 DEF Pending
  <2>2. CASE tx[c].savepoint # None
    BY <1>2, <2>2 DEF TransactionOK, HolderOK, Transaction
  <2> QED
    BY <2>1, <2>2
<1> HIDE DEF savepoint
<1>6. view \in Database /\ view # None
  BY RowTypes
<1>7. /\ t \in Transaction /\ t.open /\ t.call = tx[c].call /\ t.step = step
      /\ t.view = view /\ t.stale = tx[c].stale /\ t.savepoint = savepoint
      /\ t.dropped = tx[c].dropped \cup dropped
  BY <1>2, <1>5, <1>6 DEF Transaction
<1> HIDE DEF t
<1>8. StepOK(c, t, c)
  BY <1>2, <1>5, <1>6, <1>7 DEF StepOK
<1>9. HolderOK(t, db)
  <2>1. Kept(db, view, t.dropped)
    BY <1>4, <1>7 DEF Kept
  <2>2. Whole(db, view, t.dropped, Pending(t))
    BY <1>7 DEF Pending
  <2>3. Kept(db, savepoint, t.dropped) /\ Whole(db, savepoint, t.dropped, {})
    BY <1>5, <1>7 DEF Kept, Whole
  <2> QED
    BY <1>4, <1>6, <1>7, <2>1, <2>2, <2>3 DEF HolderOK
<1>10. c \in OperationConnections => OperationOK(c, t, db, c)
  BY <1>7 DEF OperationOK
<1>11. TransactionOK(c, t, db, c)
  BY <1>4, <1>5, <1>7, <1>8, <1>9, <1>10 DEF TransactionOK
<1> QED
  BY <1>1, <1>3, <1>4, <1>11, ConnectionMoves

\* What the statements of a call that are still to run go by.
LEMMA WritingOK ==
  ASSUME IInv, NEW c \in Connections, tx[c].step \in {"write", "write_credential"}
  PROVE  /\ CallOK(tx[c].call) /\ Writes(View(c), tx[c].call)
         /\ tx[c].step = "write_credential" =>
              /\ tx[c].call.name = "save" /\ ~InsertsUser(View(c), tx[c].call)
              /\ writer = c
         /\ c \in OperationConnections /\ CanWrite(c) =>
              /\ Writes(db, tx[c].call)
              /\ tx[c].step = "write" => View(c) = db
              /\ tx[c].step = "write_credential" =>
                   InsertsUser(db, tx[c].call) /\ View(c) = UserInserted(db, tx[c].call)
<1>1. /\ TransactionOK(c, tx[c], db, writer) /\ CallOK(tx[c].call)
      /\ tx[c].call.name # "label" => tx[c].view # None
      /\ Writes(tx[c].view, tx[c].call)
      /\ tx[c].step = "write_credential" =>
           /\ tx[c].call.name = "save" /\ tx[c].view.users[tx[c].call.user.user_id] # None
           /\ writer = c
  BY DEF IInv, TransactionOK, StepOK
<1>2. /\ tx[c].view # None => View(c) = tx[c].view
      /\ writer # c /\ ~tx[c].stale => View(c) = db
      /\ writer = c => View(c) = tx[c].view
      /\ CanWrite(c) => ~tx[c].stale
  BY ViewOK
<1>3. Writes(View(c), tx[c].call)
  <2>1. CASE tx[c].call.name = "label"
    BY <2>1 DEF Writes, Refusal
  <2>2. CASE tx[c].call.name # "label"
    BY <1>1, <1>2, <2>2
  <2> QED
    BY <2>1, <2>2
<1>4. tx[c].step = "write_credential" => ~InsertsUser(View(c), tx[c].call)
  BY <1>1, <1>2 DEF InsertsUser
<1>5. ASSUME c \in OperationConnections, CanWrite(c)
      PROVE  /\ Writes(db, tx[c].call)
             /\ tx[c].step = "write" => View(c) = db
             /\ tx[c].step = "write_credential" =>
                  InsertsUser(db, tx[c].call) /\ View(c) = UserInserted(db, tx[c].call)
  <2>1. OperationOK(c, tx[c], db, writer)
    BY <1>1, <1>5 DEF TransactionOK
  <2>2. tx[c].step = "write" => View(c) = db
    BY <1>2, <1>5, <2>1 DEF OperationOK
  <2>3. tx[c].step = "write_credential" =>
          /\ Writes(db, tx[c].call) /\ InsertsUser(db, tx[c].call)
          /\ View(c) = UserInserted(db, tx[c].call)
    BY <1>1, <1>2, <2>1 DEF OperationOK
  <2> QED
    BY <1>3, <2>2, <2>3
<1> QED
  BY <1>1, <1>3, <1>4, <1>5

\* The INSERT of the user: the credential is still to come.
LEMMA InsertUserInv ==
  ASSUME IInv, NEW c \in Connections, InsertUser(c)
  PROVE  IInv'
<1> DEFINE call == tx[c].call
<1> DEFINE view == UserInserted(View(c), call)
<1> DEFINE nobody == {}
<1> DEFINE pending == {call.user.user_id}
<1>1. /\ tx[c].step = "write" /\ InsertsUser(View(c), call)
      /\ WriteStatement(c, view, "write_credential", nobody)
  BY DEF InsertUser
<1>2. CanWrite(c) /\ call.name = "save"
  BY <1>1 DEF WriteStatement, InsertsUser
<1>3. /\ RowsOK(View(c)) /\ CallOK(call) /\ Writes(View(c), call)
      /\ Whole(db, View(c), tx[c].dropped, {})
      /\ c \in OperationConnections => View(c) = db /\ Writes(db, call)
  BY <1>1, <1>2, ViewOK, WritingOK DEF Pending
<1>4. /\ RowsOK(view) /\ view.credentials = View(c).credentials
      /\ view.users = [View(c).users EXCEPT ![call.user.user_id] = call.user]
      /\ Writes(view, call)
  BY <1>2, <1>3, UserInsertedRows
<1>5. /\ call.user.user_id \in UserIds /\ call.user # None
      /\ View(c).users \in [UserIds -> PasskeyUser \cup {None}]
  BY <1>2, <1>3, CallTypes, RowTypes
<1>6. c \in OperationConnections => InsertsUser(db, call) /\ view = UserInserted(db, call)
  BY <1>1, <1>3
<1>7. nobody \in SUBSET UserIds /\ pending = {call.user.user_id}
  OBVIOUS
<1> HIDE DEF view
<1>8. Kept(View(c), view, nobody)
  BY <1>4 DEF Kept, CredentialsOf
<1>9. Whole(db, view, tx[c].dropped \cup nobody, pending)
  BY <1>3, <1>4, <1>5 DEF Whole, CredentialsOf
<1>10. view.users[call.user.user_id] # None
  BY <1>4, <1>5
<1> HIDE DEF nobody, pending
<1> QED
  BY <1>1, <1>2, <1>3, <1>4, <1>6, <1>7, <1>8, <1>9, <1>10, WriteStatementInv

\* The last statement of a call.
LEMMA WriteInv ==
  ASSUME IInv, NEW c \in Connections, Write(c)
  PROVE  IInv'
<1> DEFINE call == tx[c].call
<1> DEFINE view == Effect(View(c), call)
<1> DEFINE dropped == IF call.name = "delete" /\ ~call.require_remaining
                      THEN {View(c).credentials[call.id].user_id} ELSE {}
<1>1. /\ tx[c].step \in {"write", "write_credential"}
      /\ tx[c].step = "write" => ~InsertsUser(View(c), call)
      /\ WriteStatement(c, view, "commit", dropped)
  BY DEF Write
<1>2. CanWrite(c)
  BY <1>1 DEF WriteStatement
<1>3. /\ RowsOK(View(c)) /\ CallOK(call) /\ Writes(View(c), call)
      /\ ~InsertsUser(View(c), call)
      /\ Whole(db, View(c), tx[c].dropped, Pending(tx[c]))
  BY <1>1, <1>2, ViewOK, WritingOK
<1>4. /\ RowsOK(view) /\ view.users = View(c).users
      /\ \A u \in UserIds : CredentialsOf(View(c), u) # {} /\ u \notin dropped =>
           CredentialsOf(view, u) # {}
      /\ call.name = "save" => CredentialsOf(view, call.user.user_id) # {}
  BY <1>3, EffectRows
<1>5. dropped \in SUBSET UserIds
  <2>1. CASE call.name = "delete"
    <3>1. call.id \in CredentialIds /\ View(c).credentials[call.id] \in PasskeyCredential \cup {None}
      BY <1>3, <2>1, CallTypes, RowTypes
    <3>2. View(c).credentials[call.id] # None
      BY <1>3, <2>1, RowsAssumption DEF Writes, Refusal, DeleteRefusal, Owned
    <3> QED
      BY <3>1, <3>2 DEF PasskeyCredential
  <2> QED
    BY <2>1
<1>6. c \in OperationConnections => Writes(db, call) /\ view = Result(db, call)
  BY <1>1, <1>2, <1>3, WritingOK DEF Result
<1>7. tx[c].step = "write_credential" => call.name = "save"
  BY <1>1, WritingOK
<1> HIDE DEF view, dropped
<1>8. Kept(View(c), view, dropped)
  BY <1>4 DEF Kept
<1>9. Whole(db, view, tx[c].dropped \cup dropped, {})
  <2> SUFFICES ASSUME NEW u \in UserIds, db.users[u] = None, view.users[u] # None,
                      u \notin tx[c].dropped \cup dropped
               PROVE  CredentialsOf(view, u) # {}
    BY DEF Whole
  <2>1. CredentialsOf(View(c), u) # {} \/ u \in Pending(tx[c])
    BY <1>3, <1>4 DEF Whole
  <2> QED
    BY <1>4, <1>7, <2>1 DEF Pending
<1> QED
  BY <1>1, <1>4, <1>5, <1>6, <1>8, <1>9, WriteStatementInv

\* COMMIT in operation mode, RELEASE SAVEPOINT in external mode.
LEMMA FinishInv ==
  ASSUME IInv, NEW c \in Connections, Finish(c)
  PROVE  IInv'
<1>1. CASE c \in OperationConnections
  BY <1>1, CommitInv DEF Finish
<1>2. CASE c \notin OperationConnections
  <2>1. /\ tx[c].step = "commit" /\ Return(c, tx[c].view) /\ UNCHANGED <<db, writer>>
    BY <1>2 DEF Finish
  <2>2. TransactionOK(c, tx[c], db, writer) /\ tx[c].open /\ writer = c
    BY <2>1 DEF IInv, TransactionOK, StepOK
  <2>3. /\ tx[c].view # None /\ RowsOK(tx[c].view) /\ tx[c].view \in Database
        /\ Kept(db, tx[c].view, tx[c].dropped) /\ Whole(db, tx[c].view, tx[c].dropped, {})
    BY <2>1, <2>2 DEF TransactionOK, HolderOK, Pending, RowsOK
  <2> QED
    BY <1>2, <2>1, <2>2, <2>3, ReturnInv
<1> QED
  BY <1>1, <1>2

\* ROLLBACK in operation mode, ROLLBACK TO SAVEPOINT in external mode.
LEMMA StatementFailsInv ==
  ASSUME IInv, NEW c \in Connections, StatementFails(c)
  PROVE  IInv'
<1>1. CASE c \in OperationConnections
  BY <1>1, RollbackInv DEF StatementFails
<1>2. CASE c \notin OperationConnections
  <2> DEFINE view == IF tx[c].savepoint = None THEN tx[c].view ELSE tx[c].savepoint
  <2>1. /\ tx[c].step \in {"lock", "write", "write_credential"}
        /\ Return(c, view) /\ UNCHANGED <<db, writer>>
    BY <1>2 DEF StatementFails
  <2>2. TransactionOK(c, tx[c], db, writer) /\ tx[c].open
    BY <2>1 DEF IInv, TransactionOK, StepOK
  <2>3. CASE tx[c].savepoint = None
    <3>1. tx[c].step \in {"lock", "write"}
      BY <2>1, <2>2, <2>3 DEF TransactionOK, StepOK
    <3>2. /\ view \in Database \cup {None} /\ (view # None => RowsOK(view))
          /\ writer # c /\ view # None /\ ~tx[c].stale => view = db
          /\ writer = c => /\ view # None
                           /\ Kept(db, view, tx[c].dropped)
                           /\ Whole(db, view, tx[c].dropped, {})
      BY <2>2, <2>3, <3>1 DEF TransactionOK, Transaction, HolderOK, Pending
    <3> HIDE DEF view
    <3> QED
      BY <1>2, <2>1, <2>2, <3>2, ReturnInv
  <2>4. CASE tx[c].savepoint # None
    <3>1. /\ view \in Database \cup {None} /\ RowsOK(view) /\ view # None /\ writer = c
          /\ Kept(db, view, tx[c].dropped) /\ Whole(db, view, tx[c].dropped, {})
      BY <2>2, <2>4 DEF TransactionOK, Transaction, HolderOK
    <3> HIDE DEF view
    <3> QED
      BY <1>2, <2>1, <2>2, <3>1, ReturnInv
  <2> QED
    BY <2>3, <2>4
<1> QED
  BY <1>1, <1>2

\* BEGIN by the caller of an external connection, with the lock or without.
LEMMA CallerBeginInv ==
  ASSUME IInv, NEW c \in Connections, CallerBegin(c) \/ CallerBeginImmediate(c)
  PROVE  IInv'
<1>1. /\ c \notin OperationConnections /\ ~tx[c].open /\ db' = db
      /\ \/ /\ tx' = [tx EXCEPT ![c].open = TRUE] /\ writer' = writer
         \/ /\ tx' = [tx EXCEPT ![c].open = TRUE, ![c].view = db]
            /\ writer = None /\ writer' = c
  BY ConnectionsAssumption DEF CallerBegin, CallerBeginImmediate
<1>2. /\ TransactionOK(c, tx[c], db, writer) /\ tx[c] \in Transaction
      /\ tx \in [Connections -> Transaction] /\ writer \in Connections \cup {None}
      /\ tx[c] = Closed
      /\ RowsOK(db) /\ db \in Database /\ db # None /\ c # None
      /\ \A d \in Connections : d # None
  BY <1>1, RowTypes, ConnectionsAssumption DEF IInv, TransactionOK, Connections
<1>3. /\ tx[c].view = None /\ ~tx[c].stale /\ tx[c].call = None /\ tx[c].step = "none"
      /\ tx[c].savepoint = None
  BY <1>2 DEF Closed
<1>4. CASE tx' = [tx EXCEPT ![c].open = TRUE] /\ writer' = writer
  <2> DEFINE t == [tx[c] EXCEPT !.open = TRUE]
  <2>1. tx' = [tx EXCEPT ![c] = t]
    BY <1>2, <1>4
  <2>2. /\ t \in Transaction /\ t.open /\ t.view = None /\ t.call = None
        /\ t.step = "none" /\ t.savepoint = None
    BY <1>2, <1>3 DEF Transaction
  <2> HIDE DEF t
  <2>3. writer # c
    BY <1>2, <1>3 DEF TransactionOK, HolderOK
  <2>4. TransactionOK(c, t, db, writer)
    BY <1>1, <2>2, <2>3 DEF TransactionOK, StepOK
  <2> QED
    BY <1>1, <1>2, <1>4, <2>1, <2>4, ConnectionMoves
<1>5. CASE tx' = [tx EXCEPT ![c].open = TRUE, ![c].view = db] /\ writer = None /\ writer' = c
  <2> DEFINE t == [tx[c] EXCEPT !.open = TRUE, !.view = db]
  <2>1. tx' = [tx EXCEPT ![c] = t]
    BY <1>2, <1>5
  <2>2. /\ t \in Transaction /\ t.open /\ t.view = db /\ t.call = None
        /\ t.step = "none" /\ t.savepoint = None /\ ~t.stale
    BY <1>2, <1>3 DEF Transaction
  <2> HIDE DEF t
  <2>3. HolderOK(t, db)
    BY <1>2, <2>2 DEF HolderOK, Kept, Whole
  <2>4. TransactionOK(c, t, db, c)
    BY <1>1, <1>2, <2>2, <2>3 DEF TransactionOK, StepOK
  <2> QED
    BY <1>1, <1>2, <1>5, <2>1, <2>4, ConnectionMoves
<1> QED
  BY <1>1, <1>4, <1>5

\* A SELECT of the caller takes the snapshot.
LEMMA CallerReadInv ==
  ASSUME IInv, NEW c \in Connections, CallerRead(c)
  PROVE  IInv'
<1> DEFINE t == [tx[c] EXCEPT !.view = View(c)]
<1>1. /\ c \notin OperationConnections /\ tx[c].open /\ tx[c].call = None
      /\ db' = db /\ writer' = writer
      /\ tx' = [tx EXCEPT ![c].view = View(c)]
  BY ConnectionsAssumption DEF CallerRead, CallerIdle
<1>2. /\ TransactionOK(c, tx[c], db, writer) /\ tx[c] \in Transaction
      /\ tx \in [Connections -> Transaction] /\ writer \in Connections \cup {None}
      /\ tx[c].step = "none" /\ tx[c].savepoint = None
  BY <1>1 DEF IInv, TransactionOK, StepOK
<1>3. tx' = [tx EXCEPT ![c] = t]
  BY <1>1, <1>2
<1>4. /\ RowsOK(View(c)) /\ View(c) # None /\ View(c) \in Database
      /\ writer # c /\ ~tx[c].stale => View(c) = db
      /\ writer = c => View(c) = tx[c].view
  BY ViewOK
<1>5. /\ t \in Transaction /\ t.open /\ t.view = View(c) /\ t.stale = tx[c].stale
      /\ t.call = None /\ t.step = "none" /\ t.savepoint = None /\ t.dropped = tx[c].dropped
  BY <1>1, <1>2, <1>4 DEF Transaction
<1> HIDE DEF t
<1>6. writer = c => HolderOK(t, db)
  BY <1>2, <1>4, <1>5 DEF TransactionOK, HolderOK, Pending
<1>7. TransactionOK(c, t, db, writer)
  BY <1>1, <1>4, <1>5, <1>6 DEF TransactionOK, StepOK
<1> QED
  BY <1>1, <1>2, <1>3, <1>7, ConnectionMoves

-----------------------------------------------------------------------------
\* The initial states satisfy the invariant.
LEMMA InitInv == Init => IInv
<1> SUFFICES ASSUME Init PROVE IInv
  OBVIOUS
<1>1. RowsOK(db)
  BY DEF Init, RowsOK, Database
<1>2. ASSUME NEW c \in Connections
      PROVE  tx[c] = Closed /\ writer # c
  BY ConnectionsAssumption DEF Init, Connections
<1>3. \A c \in Connections : tx[c] \in Transaction /\ TransactionOK(c, tx[c], db, writer)
  BY <1>2, ClosedOK
<1>4. tx \in [Connections -> Transaction] /\ writer \in Connections \cup {None}
  BY <1>2, <1>3 DEF Init
<1> QED
  BY <1>1, <1>3, <1>4 DEF IInv

\* Every step preserves the invariant.
LEMMA StepInv == IInv /\ [Next]_vars => IInv'
<1> SUFFICES ASSUME IInv, [Next]_vars PROVE IInv'
  OBVIOUS
<1>1. ASSUME NEW c \in Connections, NEW call \in Calls, StartCall(c, call) PROVE IInv'
  BY <1>1, StartCallInv
<1>2. ASSUME NEW c \in Connections, Lock(c) PROVE IInv'
  BY <1>2, LockInv
<1>3. ASSUME NEW c \in Connections, Read(c) PROVE IInv'
  BY <1>3, ReadInv
<1>4. ASSUME NEW c \in Connections, InsertUser(c) PROVE IInv'
  BY <1>4, InsertUserInv
<1>5. ASSUME NEW c \in Connections, Write(c) PROVE IInv'
  BY <1>5, WriteInv
<1>6. ASSUME NEW c \in Connections, Finish(c) PROVE IInv'
  BY <1>6, FinishInv
<1>7. ASSUME NEW c \in Connections, StatementFails(c) PROVE IInv'
  BY <1>7, StatementFailsInv
<1>8. ASSUME NEW c \in Connections, CallerBegin(c) \/ CallerBeginImmediate(c) PROVE IInv'
  BY <1>8, CallerBeginInv
<1>9. ASSUME NEW c \in Connections, CallerRead(c) PROVE IInv'
  BY <1>9, CallerReadInv
<1>10. ASSUME NEW c \in Connections, CallerCommit(c) PROVE IInv'
  BY <1>10, CommitInv DEF CallerCommit
<1>11. ASSUME NEW c \in Connections, CallerRollback(c) \/ Crash(c) PROVE IInv'
  BY <1>11, RollbackInv DEF CallerRollback, Crash
<1>12. CASE UNCHANGED vars
  BY <1>12 DEF vars, IInv
<1> QED
  BY <1>1, <1>2, <1>3, <1>4, <1>5, <1>6, <1>7, <1>8, <1>9, <1>10, <1>11, <1>12 DEF Next

\* The inductive invariant holds in every reachable state.
THEOREM Invariant == Spec => []IInv
<1>1. Init => IInv
  BY InitInv
<1>2. IInv /\ [Next]_vars => IInv'
  BY StepInv
<1> QED
  BY <1>1, <1>2, PTL DEF Spec

\* The database and every transaction always have their types.
THEOREM TypeCorrect == Spec => []TypeOK
<1>1. IInv => TypeOK
  BY DEF IInv, TypeOK, RowsOK
<1> QED
  BY Invariant, <1>1, PTL

(***************************************************************************)
(* No INSERT of save_registration meets a UNIQUE or PRIMARY KEY: nothing   *)
(* that other connections commit changes what its SELECTs found.           *)
(***************************************************************************)
THEOREM NoConstraintViolated == Spec => []InsertsMeetNoConstraint
<1>1. IInv => InsertsMeetNoConstraint
  <2> SUFFICES ASSUME IInv, NEW c \in Connections,
                      tx[c].step \in {"write", "write_credential"}, tx[c].call.name = "save"
               PROVE  /\ View(c).credentials[tx[c].call.id] = None
                      /\ HandleOwners(View(c), tx[c].call.user.user_handle)
                           \subseteq {tx[c].call.user.user_id}
    BY DEF InsertsMeetNoConstraint
  <2>1. RowsOK(View(c)) /\ CallOK(tx[c].call) /\ Writes(View(c), tx[c].call)
    BY ViewOK, WritingOK
  <2> QED
    BY <2>1, SaveAccepted
<1> QED
  BY Invariant, <1>1, PTL

(***************************************************************************)
(* A guarded delete of either kind of connection holds the write lock from *)
(* before its count to its decision.                                       *)
(***************************************************************************)
THEOREM GuardedDeletesDecideCurrent == Spec => GuardedDecisionsCurrent
<1>1. IInv => DecidesCurrent
  BY DEF IInv, TransactionOK, StepOK, HolderOK, DecidesCurrent
<1> QED
  BY Invariant, <1>1, PTL DEF Spec, GuardedDecisionsCurrent

\* The database changes only by a commit of the holder's rows.
LEMMA OnlyCommits ==
  ASSUME IInv, [Next]_vars
  PROVE  \/ db' = db
         \/ \E c \in Connections :
              /\ writer = c /\ db' = tx[c].view /\ tx[c].step \in {"none", "commit"}
              /\ Commit(c)
<1>1. ASSUME NEW c \in Connections, Finish(c) \/ CallerCommit(c), db' # db
      PROVE  /\ writer = c /\ db' = tx[c].view /\ tx[c].step \in {"none", "commit"}
             /\ Commit(c)
  <2>1. Commit(c) /\ (tx[c].step = "commit" \/ tx[c].call = None)
    BY <1>1 DEF Finish, CallerCommit, CallerIdle
  <2>2. tx[c].call = None => tx[c].step = "none"
    BY DEF IInv, TransactionOK, StepOK
  <2> QED
    BY <1>1, <2>1, <2>2 DEF Commit, Rollback
<1>2. ASSUME NEW c \in Connections,
             \/ \E call \in Calls : StartCall(c, call)
             \/ Lock(c) \/ Read(c) \/ InsertUser(c) \/ Write(c) \/ StatementFails(c)
             \/ CallerBegin(c) \/ CallerBeginImmediate(c) \/ CallerRead(c)
             \/ CallerRollback(c) \/ Crash(c)
      PROVE  db' = db
  BY <1>2
  DEF StartCall, Lock, Read, InsertUser, Write, WriteStatement, StatementFails, CallerBegin,
      CallerBeginImmediate, CallerRead, CallerRollback, Crash, Rollback
<1>3. CASE UNCHANGED vars
  BY <1>3 DEF vars
<1> QED
  BY <1>1, <1>2, <1>3 DEF Next

(***************************************************************************)
(* A transaction that adds a user adds a credential of that user, also     *)
(* when one of its statements failed and its caller went on.               *)
(***************************************************************************)
THEOREM RegistrationsCommitWhole == Spec => RegistrationsWhole
<1>1. IInv /\ [Next]_vars => [UserComesWithCredential]_vars
  <2> SUFFICES ASSUME IInv, [Next]_vars, NEW u \in UserIds,
                      db.users[u] = None, db'.users[u] # None
               PROVE  \/ CredentialsOf(db', u) # {}
                      \/ \E c \in Connections : writer = c /\ u \in tx[c].dropped
    BY DEF UserComesWithCredential
  <2>1. PICK c \in Connections :
          writer = c /\ db' = tx[c].view /\ tx[c].step \in {"none", "commit"}
    BY OnlyCommits
  <2>2. Whole(db, tx[c].view, tx[c].dropped, {})
    BY <2>1 DEF IInv, TransactionOK, HolderOK, Pending
  <2> QED
    BY <2>1, <2>2 DEF Whole
<1> QED
  BY Invariant, <1>1, PTL DEF Spec, RegistrationsWhole

(***************************************************************************)
(* No commit takes a user's last credential, unless its transaction        *)
(* removed one of that user's without the guard.                           *)
(***************************************************************************)
THEOREM FinalCredentialGuarded == Spec => FinalCredentialKept
<1>1. IInv /\ [Next]_vars => [GuardKeepsOne]_vars
  <2> SUFFICES ASSUME IInv, [Next]_vars, NEW u \in UserIds,
                      CredentialsOf(db, u) # {}, CredentialsOf(db', u) = {}
               PROVE  \E c \in Connections : writer = c /\ u \in tx[c].dropped
    BY DEF GuardKeepsOne
  <2>1. PICK c \in Connections : writer = c /\ db' = tx[c].view
    BY OnlyCommits
  <2>2. Kept(db, tx[c].view, tx[c].dropped)
    BY <2>1 DEF IInv, TransactionOK, HolderOK
  <2> QED
    BY <2>1, <2>2 DEF Kept
<1> QED
  BY Invariant, <1>1, PTL DEF Spec, FinalCredentialKept

-----------------------------------------------------------------------------
\* The handle index of the rows v, as the atomic store would keep it.
Index(v) ==
  [h \in Handles |-> IF HandleOwners(v, h) = {} THEN None
                     ELSE CHOOSE u \in HandleOwners(v, h) : TRUE]

\* The index leads to the one owner of a handle.
LEMMA IndexOwner ==
  ASSUME NEW v, RowsOK(v), NEW h \in Handles
  PROVE  /\ Index(v)[h] \in UserIds \cup {None}
         /\ \A u \in UserIds : Index(v)[h] = u <=> u \in HandleOwners(v, h)
<1>1. HandleOwners(v, h) \subseteq UserIds
  BY DEF HandleOwners
<1>2. \A u, w \in HandleOwners(v, h) : u = w
  BY DEF HandleOwners, RowsOK
<1>3. CASE HandleOwners(v, h) = {}
  BY <1>3, RowsAssumption DEF Index
<1>4. CASE HandleOwners(v, h) # {}
  <2>1. Index(v)[h] = CHOOSE u \in HandleOwners(v, h) : TRUE
    BY <1>4 DEF Index
  <2>2. Index(v)[h] \in HandleOwners(v, h)
    BY <1>4, <2>1
  <2> QED
    BY <1>1, <1>2, <2>2
<1> QED
  BY <1>3, <1>4

(***************************************************************************)
(* On every database the SELECTs refuse a call exactly when, and as, the   *)
(* atomic store refuses it.                                                *)
(***************************************************************************)
LEMMA SameRefusals ==
  ASSUME RowsOK(db), NEW call \in Calls,
         call.name = "save" => call.credential.user_id = call.user.user_id
  PROVE  Refusal(db, call) = StoreRefusal(call)
<1>1. CASE call \in SaveCalls
  <2>1. /\ call.name = "save" /\ call.user \in PasskeyUser
        /\ call.user.user_id \in UserIds /\ call.user.user_handle \in Handles
    BY <1>1 DEF SaveCalls, PasskeyUser
  <2>2. HandleIndex = Index(db)
    BY DEF HandleIndex, Index
  <2>3. UserConflict(db, call.user) <=> Store!UserConflict(call.user)
    <3> DEFINE h == call.user.user_handle
    <3>1. /\ HandleIndex[h] \in UserIds \cup {None}
          /\ \A u \in UserIds : HandleIndex[h] = u <=> u \in HandleOwners(db, h)
      BY <2>1, <2>2, IndexOwner
    <3>2. HandleOwners(db, h) \subseteq UserIds
      BY DEF HandleOwners
    <3>3. (\E u \in HandleOwners(db, h) : u # call.user.user_id)
            <=> HandleIndex[h] \notin {None, call.user.user_id}
      BY <2>1, <3>1, <3>2, RowsAssumption
    <3> QED
      BY <3>3 DEF UserConflict, Store!UserConflict
  <2>4. CredentialConflict(db, call.id, call.credential)
          <=> Store!CredentialConflict(call.id, call.credential)
    BY DEF CredentialConflict, Store!CredentialConflict
  <2>5. SaveRefusal(db, call) = Store!SaveRefusal(call.user, call.id, call.credential)
    BY <2>1, <2>3, <2>4 DEF SaveRefusal, Store!SaveRefusal
  <2> QED
    BY <2>1, <2>5 DEF Refusal, StoreRefusal
<1>2. CASE call \in LoginCalls
  <2>1. call.name = "login"
    BY <1>2 DEF LoginCalls
  <2>2. LoginRefusal(db, call) = Store!LoginRefusal(call.id, call.expected, call.new)
    BY DEF LoginRefusal, Store!LoginRefusal
  <2> QED
    BY <2>1, <2>2 DEF Refusal, StoreRefusal
<1>3. CASE call \in LabelCalls
  <2>1. call.name = "label"
    BY <1>3 DEF LabelCalls
  <2> QED
    BY <2>1 DEF Refusal, StoreRefusal
<1>4. CASE call \in DeleteCalls
  <2>1. call.name = "delete"
    BY <1>4 DEF DeleteCalls
  <2>2. Owned(db, call.id, call.owner) <=> Store!OwnedBy(call.id, call.owner)
    BY DEF Owned, Store!OwnedBy
  <2>3. Cardinality(CredentialsOf(db, db.credentials[call.id].user_id)) <= 1
          <=> Store!IsFinal(call.id)
    <3> DEFINE owner == db.credentials[call.id].user_id
    <3>1. CredentialsOf(db, owner) = Store!CredentialsOf(owner)
      BY DEF CredentialsOf, Store!CredentialsOf
    <3>2. Cardinality(CredentialsOf(db, owner)) = Store!Cardinality(CredentialsOf(db, owner))
      BY DEF Cardinality, Store!Cardinality
    <3> QED
      BY <3>1, <3>2 DEF Store!IsFinal
  <2>4. DeleteRefusal(db, call) =
          IF Store!DeleteRefused(call.id, call.owner, call.require_remaining)
          THEN "false" ELSE None
    BY <2>2, <2>3 DEF DeleteRefusal, Store!DeleteRefused
  <2> QED
    BY <2>1, <2>4 DEF Refusal, StoreRefusal
<1> QED
  BY <1>1, <1>2, <1>3, <1>4 DEF Calls

\* What the SELECTs refuse on any reachable database is what the store refuses.
THEOREM RefusalsAlwaysAgree == Spec => []RefusalsAgree
<1>1. IInv => RefusalsAgree
  BY SameRefusals DEF IInv, RefusalsAgree
<1> QED
  BY Invariant, <1>1, PTL

\* A committed registration is the store's registration.
LEMMA SaveCommitted ==
  ASSUME RowsOK(db), NEW call, CallOK(call), call.name = "save", Writes(db, call),
         db' = Result(db, call)
  PROVE  Store!SaveRegistration(call.user, call.id, call.credential)
<1> DEFINE user == call.user
<1> DEFINE mid == IF InsertsUser(db, call) THEN UserInserted(db, call) ELSE db
<1>1. /\ user \in PasskeyUser /\ user.user_id \in UserIds /\ user.user_handle \in Handles
      /\ user # None /\ call.id \in CredentialIds /\ call \in Calls
      /\ call.credential \in PasskeyCredential /\ call.credential.user_id = user.user_id
  BY CallTypes
<1>2. /\ db.users \in [UserIds -> PasskeyUser \cup {None}]
      /\ db.credentials \in [CredentialIds -> PasskeyCredential \cup {None}]
  BY RowTypes
<1>3. /\ db.credentials[call.id] = None
      /\ db.users[user.user_id] \in {None, user}
      /\ \A u \in HandleOwners(db, user.user_handle) : u = user.user_id
      /\ Refusal(db, call) = None
  BY SaveAccepted DEF Refusal
<1>4. /\ RowsOK(mid) /\ mid.credentials = db.credentials
      /\ mid.users = [db.users EXCEPT ![user.user_id] = user]
      /\ ~InsertsUser(mid, call) /\ Writes(mid, call)
  <2>1. CASE InsertsUser(db, call)
    BY <1>1, <1>2, <2>1, UserInsertedRows DEF InsertsUser
  <2>2. CASE ~InsertsUser(db, call)
    <3>1. db.users[user.user_id] = user
      BY <1>3, <2>2 DEF InsertsUser
    <3>2. mid = db
      BY <2>2
    <3> QED
      BY <1>2, <2>2, <3>1, <3>2
  <2> QED
    BY <2>1, <2>2
<1>5. db' = Effect(mid, call)
  BY DEF Result
<1> HIDE DEF mid
<1>6. db'.users = [db.users EXCEPT ![user.user_id] = user] /\ RowsOK(db')
  BY <1>4, <1>5, EffectRows
<1>7. db'.credentials = [db.credentials EXCEPT ![call.id] = call.credential]
  <2>1. db' = [mid EXCEPT !.credentials = [mid.credentials EXCEPT ![call.id] = call.credential]]
    BY <1>5 DEF Effect, CredentialInserted
  <2>2. mid \in Database
    BY <1>4, RowTypes
  <2> QED
    BY <1>4, <2>1, <2>2 DEF Database
<1>8. HandleIndex' = [HandleIndex EXCEPT ![user.user_handle] = user.user_id]
  <2>1. HandleIndex = Index(db) /\ HandleIndex' = Index(db')
    BY DEF HandleIndex, Index
  <2>2. \A u \in UserIds : db'.users[u] = IF u = user.user_id THEN user ELSE db.users[u]
    BY <1>2, <1>6
  <2>3. ASSUME NEW h \in Handles
        PROVE  Index(db')[h] = IF h = user.user_handle THEN user.user_id ELSE Index(db)[h]
    <3>1. CASE h = user.user_handle
      <4>1. user.user_id \in HandleOwners(db', h)
        BY <1>1, <2>2, <3>1 DEF HandleOwners
      <4> QED
        BY <1>1, <1>6, <3>1, <4>1, IndexOwner
    <3>2. CASE h # user.user_handle
      <4>1. HandleOwners(db', h) = HandleOwners(db, h)
        BY <1>1, <1>3, <2>2, <3>2 DEF HandleOwners
      <4> QED
        BY <3>2, <4>1 DEF Index
    <3> QED
      BY <3>1, <3>2
  <2>4. DOMAIN Index(db) = Handles /\ DOMAIN Index(db') = Handles
    BY DEF Index
  <2>5. Index(db) = [h \in Handles |-> Index(db)[h]] /\ Index(db') = [h \in Handles |-> Index(db')[h]]
    BY DEF Index
  <2> QED
    BY <1>1, <2>1, <2>3, <2>4, <2>5
<1>9. Store!SaveRefusal(user, call.id, call.credential) = None
  BY <1>1, <1>3, SameRefusals DEF StoreRefusal, CallOK
<1> QED
  BY <1>3, <1>6, <1>7, <1>8, <1>9 DEF Store!SaveRegistration

\* A committed login is the store's compare-and-set.
LEMMA LoginCommitted ==
  ASSUME RowsOK(db), NEW call, CallOK(call), call.name = "login", Writes(db, call),
         db' = Result(db, call)
  PROVE  Store!CompareAndSetCredentialAfterLogin(call.id, call.expected, call.new)
<1>1. db' = LoggedIn(db, call) /\ Refusal(db, call) = None
  BY DEF Result, InsertsUser, Effect, Writes
<1>2. Store!LoginRefusal(call.id, call.expected, call.new) = None
  BY <1>1, SameRefusals DEF CallOK, StoreRefusal
<1>3. /\ db'.users = db.users
      /\ db'.credentials = [db.credentials EXCEPT ![call.id].sign_count =
                              IF call.new > @ THEN call.new ELSE @]
  BY <1>1, RowTypes DEF LoggedIn, Database
<1>4. UNCHANGED HandleIndex
  BY <1>3 DEF HandleIndex, HandleOwners
<1> QED
  BY <1>2, <1>3, <1>4 DEF Store!CompareAndSetCredentialAfterLogin

\* A committed change of a label is the store's, or changes nothing.
LEMMA LabelCommitted ==
  ASSUME RowsOK(db), NEW call, CallOK(call), call.name = "label", db' = Result(db, call)
  PROVE  db' = db \/ Store!UpdateCredentialLabel(call.id, call.owner, call.label)
<1>1. db' = Labelled(db, call)
  BY DEF Result, InsertsUser, Effect
<1>2. CASE ~Owned(db, call.id, call.owner)
  BY <1>1, <1>2 DEF Labelled
<1>3. CASE Owned(db, call.id, call.owner)
  <2>1. /\ db'.users = db.users
        /\ db'.credentials = [db.credentials EXCEPT ![call.id].label = call.label]
    BY <1>1, <1>3, RowTypes DEF Labelled, Database
  <2>2. UNCHANGED HandleIndex
    BY <2>1 DEF HandleIndex, HandleOwners
  <2> QED
    BY <1>3, <2>1, <2>2 DEF Owned, Store!OwnedBy, Store!UpdateCredentialLabel
<1> QED
  BY <1>2, <1>3

\* A committed delete is the store's.
LEMMA DeleteCommitted ==
  ASSUME RowsOK(db), NEW call, CallOK(call), call.name = "delete", Writes(db, call),
         db' = Result(db, call)
  PROVE  Store!DeleteCredential(call.id, call.owner, call.require_remaining)
<1>1. db' = Deleted(db, call) /\ Refusal(db, call) = None
  BY DEF Result, InsertsUser, Effect, Writes
<1>2. ~Store!DeleteRefused(call.id, call.owner, call.require_remaining)
  BY <1>1, SameRefusals, RowsAssumption DEF CallOK, StoreRefusal
<1>3. /\ db'.users = db.users
      /\ db'.credentials = [db.credentials EXCEPT ![call.id] = None]
  BY <1>1, RowTypes DEF Deleted, Database
<1>4. UNCHANGED HandleIndex
  BY <1>3 DEF HandleIndex, HandleOwners
<1> QED
  BY <1>2, <1>3, <1>4 DEF Store!DeleteCredential

\* A call that commits is a step of the atomic store, or changes nothing.
LEMMA CallCommitted ==
  ASSUME RowsOK(db), NEW call, CallOK(call), Writes(db, call), db' = Result(db, call)
  PROVE  db' = db \/ Store!StoreNext
<1>1. CASE call.name = "save"
  <2>1. /\ call.id \in CredentialIds /\ call.user \in PasskeyUser
        /\ call.credential \in PasskeyCredential /\ call.credential.label = None
    BY <1>1, CallTypes
  <2>2. Store!SaveRegistration(call.user, call.id, call.credential)
    BY <1>1, SaveCommitted
  <2>3. call.user \in Store!PasskeyUser /\ call.credential \in Store!PasskeyCredential
    BY <2>1 DEF PasskeyUser, PasskeyCredential, SignCounts, Store!PasskeyUser,
                Store!PasskeyCredential, Store!SignCounts
  <2> QED
    BY <2>1, <2>2, <2>3 DEF Store!StoreNext
<1>2. CASE call.name = "login"
  <2>1. /\ call.id \in CredentialIds /\ call.expected \in Store!SignCounts
        /\ call.new \in Store!SignCounts
    BY <1>2, CallTypes DEF SignCounts, Store!SignCounts
  <2>2. Store!CompareAndSetCredentialAfterLogin(call.id, call.expected, call.new)
    BY <1>2, LoginCommitted
  <2> QED
    BY <2>1, <2>2 DEF Store!StoreNext
<1>3. CASE call.name = "label"
  <2>1. /\ call.id \in CredentialIds /\ call.owner \in UserIds
        /\ call.label \in Labels \cup {None}
    BY <1>3, CallTypes
  <2>2. db' = db \/ Store!UpdateCredentialLabel(call.id, call.owner, call.label)
    BY <1>3, LabelCommitted
  <2> QED
    BY <2>1, <2>2 DEF Store!StoreNext
<1>4. CASE call.name = "delete"
  <2>1. /\ call.id \in CredentialIds /\ call.owner \in UserIds \cup {None}
        /\ call.require_remaining \in BOOLEAN
    BY <1>4, CallTypes
  <2>2. Store!DeleteCredential(call.id, call.owner, call.require_remaining)
    BY <1>4, DeleteCommitted
  <2> QED
    BY <2>1, <2>2 DEF Store!StoreNext
<1> QED
  BY <1>1, <1>2, <1>3, <1>4, CallTypes

\* What an operation-mode connection commits is the outcome of one call.
LEMMA OneCallCommits ==
  ASSUME ExternalConnections = {}, IInv, [Next]_vars, db' # db
  PROVE  /\ RowsOK(db)
         /\ \E call : CallOK(call) /\ Writes(db, call) /\ db' = Result(db, call)
<1>1. PICK c \in Connections :
        writer = c /\ db' = tx[c].view /\ tx[c].step \in {"none", "commit"}
  BY OnlyCommits
<1>2. c \in OperationConnections /\ TransactionOK(c, tx[c], db, writer)
  BY <1>1 DEF Connections, IInv
<1>3. tx[c].step # "none"
  BY <1>1, <1>2 DEF TransactionOK, OperationOK, HolderOK, Closed
<1>4. PICK call : call = tx[c].call
  OBVIOUS
<1>5. CallOK(call) /\ Writes(db, call) /\ db' = Result(db, call)
  BY <1>1, <1>2, <1>3, <1>4 DEF TransactionOK, StepOK, OperationOK
<1>6. RowsOK(db)
  BY DEF IInv
<1> QED
  BY <1>5, <1>6

\* The outcome of a call reassigns nothing.
LEMMA CallReassignsNothing ==
  ASSUME RowsOK(db), NEW call, CallOK(call), Writes(db, call), db' = Result(db, call)
  PROVE  Store!NeverReassigned
<1>1. /\ db.users \in [UserIds -> PasskeyUser \cup {None}]
      /\ db.credentials \in [CredentialIds -> PasskeyCredential \cup {None}]
  BY RowTypes
<1>2. \A id \in CredentialIds : db.credentials[id] # None =>
        db.credentials[id] \in PasskeyCredential /\ db.credentials[id].sign_count \in Int
  BY <1>1 DEF PasskeyCredential, SignCounts
<1>3. CASE call.name = "save"
  <2>1. /\ db'.users = [db.users EXCEPT ![call.user.user_id] = call.user]
        /\ db'.credentials = [db.credentials EXCEPT ![call.id] =
                                IF @ = None THEN call.credential ELSE @]
    BY <1>3, SaveCommitted DEF Store!SaveRegistration
  <2>2. /\ db.credentials[call.id] = None
        /\ db.users[call.user.user_id] \in {None, call.user}
    BY <1>3, SaveAccepted
  <2>3. \A u \in UserIds : db.users[u] # None => db'.users[u] = db.users[u]
    BY <1>1, <2>1, <2>2
  <2>4. \A id \in CredentialIds :
          db.credentials[id] # None => db'.credentials[id] = db.credentials[id]
    BY <1>1, <2>1, <2>2
  <2> QED
    BY <1>2, <2>3, <2>4 DEF Store!NeverReassigned
<1>4. CASE call.name = "login"
  <2>1. /\ db'.users = db.users
        /\ db'.credentials = [db.credentials EXCEPT ![call.id].sign_count =
                                IF call.new > @ THEN call.new ELSE @]
    BY <1>4, LoginCommitted DEF Store!CompareAndSetCredentialAfterLogin
  <2>2. call.id \in CredentialIds /\ call.new \in Int
    BY <1>4, CallTypes DEF SignCounts
  <2>3. PICK row \in PasskeyCredential : row = db.credentials[call.id]
    <3>1. db.credentials[call.id] # None
      BY <1>4, RowsAssumption DEF Writes, Refusal, LoginRefusal
    <3> QED
      BY <1>2, <2>2, <3>1
  <2>4. row.sign_count \in Int
    BY DEF PasskeyCredential, SignCounts
  <2>5. db'.credentials = [db.credentials EXCEPT ![call.id] =
          [row EXCEPT !.sign_count = IF call.new > row.sign_count THEN call.new
                                     ELSE row.sign_count]]
    BY <1>1, <2>1, <2>2, <2>3
  <2>6. PICK moved : moved = [row EXCEPT !.sign_count =
          IF call.new > row.sign_count THEN call.new ELSE row.sign_count]
    OBVIOUS
  <2>7. /\ moved.user_id = row.user_id /\ moved.public_key = row.public_key
        /\ moved.sign_count >= row.sign_count
    BY <2>2, <2>4, <2>6 DEF PasskeyCredential
  <2>8. \A id \in CredentialIds :
          db'.credentials[id] = IF id = call.id THEN moved ELSE db.credentials[id]
    BY <1>1, <2>5, <2>6
  <2>9. ASSUME NEW id \in CredentialIds, db.credentials[id] # None
        PROVE  /\ db'.credentials[id].user_id = db.credentials[id].user_id
               /\ db'.credentials[id].public_key = db.credentials[id].public_key
               /\ db'.credentials[id].sign_count >= db.credentials[id].sign_count
    <3>1. CASE id = call.id
      BY <2>3, <2>7, <2>8, <3>1
    <3>2. CASE id # call.id
      BY <1>2, <2>8, <2>9, <3>2
    <3> QED
      BY <3>1, <3>2
  <2>10. db'.users = db.users
    BY <2>1
  <2> QED
    BY <2>9, <2>10 DEF Store!NeverReassigned
<1>5. CASE call.name = "label"
  <2>1. CASE db' = db
    BY <1>2, <2>1 DEF Store!NeverReassigned
  <2>2. CASE Store!UpdateCredentialLabel(call.id, call.owner, call.label)
    <3>1. /\ db'.users = db.users
          /\ db'.credentials = [db.credentials EXCEPT ![call.id].label = call.label]
          /\ db.credentials[call.id] # None
      BY <2>2 DEF Store!UpdateCredentialLabel, Store!OwnedBy
    <3>2. call.id \in CredentialIds
      BY <1>5, CallTypes
    <3>3. PICK row \in PasskeyCredential : row = db.credentials[call.id]
      BY <1>2, <3>1, <3>2
    <3>4. PICK labelled : labelled = [row EXCEPT !.label = call.label]
      OBVIOUS
    <3>5. /\ labelled.user_id = row.user_id /\ labelled.public_key = row.public_key
          /\ labelled.sign_count = row.sign_count
      BY <3>4 DEF PasskeyCredential
    <3>6. \A id \in CredentialIds :
            db'.credentials[id] = IF id = call.id THEN labelled ELSE db.credentials[id]
      BY <1>1, <3>1, <3>3, <3>4
    <3> QED
      BY <1>2, <3>1, <3>3, <3>5, <3>6 DEF Store!NeverReassigned
  <2> QED
    BY <1>5, <2>1, <2>2, LabelCommitted
<1>6. CASE call.name = "delete"
  <2>1. /\ db'.users = db.users
        /\ db'.credentials = [db.credentials EXCEPT ![call.id] = None]
    BY <1>6, DeleteCommitted DEF Store!DeleteCredential
  <2>2. \A id \in CredentialIds :
          db'.credentials[id] = IF id = call.id THEN None ELSE db.credentials[id]
    BY <1>1, <2>1
  <2> QED
    BY <1>2, <2>1, <2>2 DEF Store!NeverReassigned
<1> QED
  BY <1>3, <1>4, <1>5, <1>6, CallTypes

(***************************************************************************)
(* "Records are never reassigned": whatever registrations are saved again, *)
(* by however many connections in operation mode, after whatever logins,   *)
(* no commit changes a user, or the owner or key of a credential that      *)
(* stays stored, or takes its counter back.                                *)
(***************************************************************************)
THEOREM OperationModeKeepsRecords ==
  ASSUME ExternalConnections = {}
  PROVE  Spec => RecordsKept
<1>1. IInv /\ [Next]_vars => [Store!NeverReassigned]_(Store!storeVars)
  <2> SUFFICES ASSUME IInv, [Next]_vars
               PROVE  Store!NeverReassigned \/ UNCHANGED Store!storeVars
    OBVIOUS
  <2>1. CASE db' = db
    <3>1. UNCHANGED HandleIndex
      BY <2>1 DEF HandleIndex
    <3> QED
      BY <2>1, <3>1 DEF Store!storeVars
  <2>2. CASE db' # db
    BY <2>2, OneCallCommits, CallReassignsNothing
  <2> QED
    BY <2>1, <2>2
<1> QED
  BY Invariant, <1>1, PTL DEF Spec, RecordsKept, Store!RecordsNeverReassigned

(***************************************************************************)
(* In operation mode, with any number of connections, every commit is one  *)
(* call of the atomic store on the rows that it commits over, and nothing  *)
(* else changes what the store holds: not a refusal, a failed statement,   *)
(* a rollback or a crash.                                                  *)
(***************************************************************************)
THEOREM OperationModeRefinement ==
  ASSUME ExternalConnections = {}
  PROVE  Spec => ImplementsStore
<1>1. Init => Store!StoreInit
  <2> SUFFICES ASSUME Init PROVE Store!StoreInit
    OBVIOUS
  <2>1. db.users = [u \in UserIds |-> None] /\ db.credentials = [id \in CredentialIds |-> None]
    BY DEF Init
  <2>2. \A h \in Handles : HandleOwners(db, h) = {}
    BY <2>1 DEF HandleOwners
  <2>3. HandleIndex = [h \in Handles |-> None]
    BY <2>2 DEF HandleIndex
  <2> QED
    BY <2>1, <2>3 DEF Store!StoreInit
<1>2. IInv /\ [Next]_vars => [Store!StoreNext]_(Store!storeVars)
  <2> SUFFICES ASSUME IInv, [Next]_vars
               PROVE  Store!StoreNext \/ UNCHANGED Store!storeVars
    OBVIOUS
  <2>1. CASE db' = db
    <3>1. UNCHANGED HandleIndex
      BY <2>1 DEF HandleIndex
    <3> QED
      BY <2>1, <3>1 DEF Store!storeVars
  <2>2. CASE db' # db
    BY <2>2, OneCallCommits, CallCommitted
  <2> QED
    BY <2>1, <2>2
<1> QED
  BY Invariant, <1>1, <1>2, PTL DEF Spec, ImplementsStore, Store!StoreSpec
=============================================================================
