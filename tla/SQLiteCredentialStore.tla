------------------------ MODULE SQLiteCredentialStore ------------------------
(***************************************************************************)
(* SQLiteCredentialStore over a database in WAL mode: calls of several     *)
(* connections, each a transaction of several statements.                  *)
(*                                                                         *)
(* Operation-mode connections run each call in a transaction of its own:   *)
(* BEGIN, or BEGIN IMMEDIATE for a guarded delete.  External connections   *)
(* run calls inside a transaction their caller began and will commit or    *)
(* roll back, each call in a savepoint.                                    *)
(*                                                                         *)
(* External to src/: SQLite.  A transaction reads the snapshot of its      *)
(* first statement.  One connection at a time holds the write lock, from   *)
(* its first write (or BEGIN IMMEDIATE) to its end.  A write is refused as *)
(* "database is locked" when another connection holds the lock for too     *)
(* long, and at once when the snapshot is no longer the latest commit.     *)
(***************************************************************************)
EXTENDS Naturals, FiniteSets

CONSTANTS
  OperationConnections, \* connections in transaction_mode="operation"
  ExternalConnections,  \* connections in transaction_mode="external"
  UserIds, Handles, Names, CredentialIds, PublicKeys, Labels, MaxSignCount, None

ASSUME ConnectionsAssumption ==
  /\ OperationConnections \cap ExternalConnections = {}
  /\ None \notin OperationConnections \cup ExternalConnections

VARIABLES
  db,     \* the committed rows
  writer, \* the connection that holds the write lock, or None
  tx      \* what each connection is doing

vars == <<db, writer, tx>>

Connections == OperationConnections \cup ExternalConnections
-----------------------------------------------------------------------------
SignCounts == 0 .. MaxSignCount

PasskeyUser == [user_id : UserIds, user_handle : Handles, name : Names]

PasskeyCredential ==
  [user_id : UserIds, public_key : PublicKeys, sign_count : SignCounts,
   label : Labels \cup {None}]

Database ==
  [users : [UserIds -> PasskeyUser \cup {None}],
   credentials : [CredentialIds -> PasskeyCredential \cup {None}]]

\* The calls with their arguments.
SaveCalls == [name : {"save"}, user : PasskeyUser, id : CredentialIds,
              credential : PasskeyCredential]
LoginCalls == [name : {"login"}, id : CredentialIds, expected : SignCounts,
               new : SignCounts]
LabelCalls == [name : {"label"}, id : CredentialIds, owner : UserIds,
               label : Labels \cup {None}]
DeleteCalls == [name : {"delete"}, id : CredentialIds, owner : UserIds \cup {None},
                require_remaining : BOOLEAN]

Calls == SaveCalls \cup LoginCalls \cup LabelCalls \cup DeleteCalls

ASSUME RowsAssumption ==
  /\ MaxSignCount \in Nat
  /\ None \notin UserIds \cup Handles
  /\ None \notin PasskeyUser /\ None \notin PasskeyCredential /\ None \notin Database
  /\ None \notin Calls
  /\ None \notin {"user_conflict", "credential_conflict", "not_found", "counter_conflict", "false"}

Guarded(call) == call.name = "delete" /\ call.require_remaining

(***************************************************************************)
(* A connection: whether its transaction is open, the rows it sees (its    *)
(* snapshot and its own writes; None before the first statement), whether  *)
(* another commit has made the snapshot stale, the running call with its   *)
(* next step and the rows its failure restores, and the users it deleted a *)
(* credential of without the guard.                                        *)
(***************************************************************************)
Transaction ==
  [open : BOOLEAN, view : Database \cup {None}, stale : BOOLEAN,
   call : Calls \cup {None},
   step : {"none", "lock", "read", "write", "write_credential", "commit"},
   savepoint : Database \cup {None}, dropped : SUBSET UserIds]

Closed == [open |-> FALSE, view |-> None, stale |-> FALSE, call |-> None,
           step |-> "none", savepoint |-> None, dropped |-> {}]

TypeOK ==
  /\ db \in Database
  /\ writer \in Connections \cup {None}
  /\ tx \in [Connections -> Transaction]

Init ==
  /\ db = [users |-> [u \in UserIds |-> None],
           credentials |-> [id \in CredentialIds |-> None]]
  /\ writer = None
  /\ tx = [c \in Connections |-> Closed]
-----------------------------------------------------------------------------
(***************************************************************************)
(* SQLite: what a statement of c reads, whether c may write, and the end   *)
(* of a transaction.                                                       *)
(***************************************************************************)
View(c) == IF tx[c].view = None THEN db ELSE tx[c].view

CanWrite(c) == writer = c \/ (writer = None /\ ~tx[c].stale)

\* c's transaction ends without its writes.
Rollback(c) ==
  /\ tx' = [tx EXCEPT ![c] = Closed]
  /\ writer' = IF writer = c THEN None ELSE writer
  /\ UNCHANGED db

\* c's transaction ends; its writes make every other snapshot stale.
Commit(c) ==
  IF writer = c
  THEN /\ db' = tx[c].view
       /\ writer' = None
       /\ tx' = [d \in Connections |->
                   IF d = c THEN Closed
                   ELSE [tx[d] EXCEPT !.stale = @ \/ tx[d].view # None]]
  ELSE Rollback(c)
-----------------------------------------------------------------------------
(***************************************************************************)
(* The statements of save_registration, on the rows v.                     *)
(***************************************************************************)
HandleOwners(v, handle) ==
  {u \in UserIds : v.users[u] # None /\ v.users[u].user_handle = handle}

\* Wrong form of UserConflict: the owner of the handle is not looked up.
UserConflictById(v, user) == v.users[user.user_id] \notin {None, user}

UserConflict(v, user) ==
  \/ v.users[user.user_id] \notin {None, user}
  \/ \E u \in HandleOwners(v, user.user_handle) : u # user.user_id

CredentialConflict(v, id, credential) ==
  LET existing == v.credentials[id] IN
  existing # None /\ ( \/ existing.user_id # credential.user_id
                       \/ existing.public_key # credential.public_key )

SaveRefusal(v, call) ==
  IF UserConflict(v, call.user) THEN "user_conflict"
  ELSE IF CredentialConflict(v, call.id, call.credential) THEN "credential_conflict"
  ELSE None

UserInserted(v, call) ==
  [v EXCEPT !.users[call.user.user_id] = call.user]

CredentialInserted(v, call) ==
  [v EXCEPT !.credentials[call.id] = call.credential]

(***************************************************************************)
(* The statements of compare_and_set_credential_after_login.               *)
(***************************************************************************)
\* Wrong form of LoginRefusal: a counterless authenticator logs in only once.
LoginRefusalStrict(v, call) ==
  LET current == v.credentials[call.id] IN
  IF current = None THEN "not_found"
  ELSE IF \/ call.expected # 0 /\ current.sign_count # call.expected
          \/ call.new <= current.sign_count
  THEN "counter_conflict"
  ELSE None

LoginRefusal(v, call) ==
  LET current == v.credentials[call.id] IN
  IF current = None THEN "not_found"
  ELSE IF \/ call.expected # 0 /\ current.sign_count # call.expected
          \/ call.new < current.sign_count
  THEN "counter_conflict"
  ELSE None

\* Wrong form of LoggedIn: it counts the logins itself.
LoginCounted(v, call) == [v EXCEPT !.credentials[call.id].sign_count = @ + 1]

LoggedIn(v, call) ==
  [v EXCEPT !.credentials[call.id].sign_count = IF call.new > @ THEN call.new ELSE @]

(***************************************************************************)
(* The statements of update_credential_label and delete_credential.        *)
(***************************************************************************)
Owned(v, id, owner) ==
  v.credentials[id] # None /\ owner \in {None, v.credentials[id].user_id}

Labelled(v, call) ==
  IF Owned(v, call.id, call.owner)
  THEN [v EXCEPT !.credentials[call.id].label = call.label]
  ELSE v

CredentialsOf(v, u) ==
  {id \in CredentialIds : v.credentials[id] # None /\ v.credentials[id].user_id = u}

\* Wrong form of DeleteRefusal: the credentials of all users are counted.
DeleteRefusalAnyUser(v, call) ==
  IF \/ ~Owned(v, call.id, call.owner)
     \/ /\ call.require_remaining
        /\ Cardinality({id \in CredentialIds : v.credentials[id] # None}) <= 1
  THEN "false"
  ELSE None

DeleteRefusal(v, call) ==
  IF \/ ~Owned(v, call.id, call.owner)
     \/ /\ call.require_remaining
        /\ Cardinality(CredentialsOf(v, v.credentials[call.id].user_id)) <= 1
  THEN "false"
  ELSE None

Deleted(v, call) == [v EXCEPT !.credentials[call.id] = None]
-----------------------------------------------------------------------------
\* What the SELECTs of a call, run on the rows v, raise or return at once.
Refusal(v, call) ==
  CASE call.name = "save" -> SaveRefusal(v, call)
    [] call.name = "login" -> LoginRefusal(v, call)
    [] call.name = "delete" -> DeleteRefusal(v, call)
    [] call.name = "label" -> None

\* Wrong form of Writes: a registration that is stored already is written again.
WritesAgain(v, call) == Refusal(v, call) = None

\* A registration that is stored already is accepted and writes nothing.
Writes(v, call) ==
  /\ Refusal(v, call) = None
  /\ call.name = "save" => v.credentials[call.id] = None

InsertsUser(v, call) == call.name = "save" /\ v.users[call.user.user_id] = None

\* The rows after the call's last statement.
Effect(v, call) ==
  CASE call.name = "save" -> CredentialInserted(v, call)
    [] call.name = "login" -> LoggedIn(v, call)
    [] call.name = "label" -> Labelled(v, call)
    [] call.name = "delete" -> Deleted(v, call)

\* Wrong form of FirstStep: a guarded delete counts before it takes the lock.
FirstStepUnlocked(call) == IF call.name = "label" THEN "write" ELSE "read"

FirstStep(call) ==
  IF Guarded(call) THEN "lock" ELSE IF call.name = "label" THEN "write" ELSE "read"

(***************************************************************************)
(* A call begins: in operation mode its own transaction, in external mode  *)
(* a savepoint of the caller's.  save_registration of a credential of      *)
(* another user raises before either.                                      *)
(***************************************************************************)
StartCall(c, call) ==
  /\ tx[c].call = None
  /\ c \in ExternalConnections => tx[c].open
  /\ call.name = "save" =>
       call.credential.user_id = call.user.user_id /\ call.credential.label = None
  /\ tx' = [tx EXCEPT ![c].open = TRUE, ![c].call = call, ![c].step = FirstStep(call)]
  /\ UNCHANGED <<db, writer>>

\* A call of an external connection ends; the caller's transaction goes on.
Return(c, view) ==
  tx' = [tx EXCEPT ![c].call = None, ![c].step = "none", ![c].savepoint = None,
                   ![c].view = view]

\* BEGIN IMMEDIATE, or the UPDATE that changes nothing: the lock before the count.
Lock(c) ==
  /\ tx[c].step = "lock"
  /\ CanWrite(c)
  /\ writer' = c
  /\ tx' = [tx EXCEPT ![c].step = "read", ![c].view = View(c)]
  /\ UNCHANGED db

\* Wrong form of Read: the SELECTs run before the transaction, which is not
\* bound to what they saw.
ReadOutside(c) ==
  /\ tx[c].step = "read"
  /\ IF Writes(View(c), tx[c].call)
     THEN /\ tx' = [tx EXCEPT ![c].step = "write"]
          /\ UNCHANGED <<db, writer>>
     ELSE IF c \in OperationConnections
     THEN Rollback(c)
     ELSE Return(c, View(c)) /\ UNCHANGED <<db, writer>>

\* The SELECTs, and what they decide.  A call that refuses ends here.
Read(c) ==
  /\ tx[c].step = "read"
  /\ IF Writes(View(c), tx[c].call)
     THEN /\ tx' = [tx EXCEPT ![c].step = "write", ![c].view = View(c)]
          /\ UNCHANGED <<db, writer>>
     ELSE IF c \in OperationConnections
     THEN Rollback(c)
     ELSE Return(c, View(c)) /\ UNCHANGED <<db, writer>>

\* A statement that writes: it takes the write lock and changes the rows c sees.
WriteStatement(c, view, step, dropped) ==
  /\ CanWrite(c)
  /\ writer' = c
  /\ tx' = [tx EXCEPT ![c].step = step, ![c].view = view, ![c].dropped = @ \cup dropped,
                      ![c].savepoint = IF @ = None THEN View(c) ELSE @]
  /\ UNCHANGED db

InsertUser(c) ==
  /\ tx[c].step = "write"
  /\ InsertsUser(View(c), tx[c].call)
  /\ WriteStatement(c, UserInserted(View(c), tx[c].call), "write_credential", {})

\* The last statement: the INSERT of the credential, the UPDATE or the DELETE.
Write(c) ==
  LET call == tx[c].call
      dropped == IF call.name = "delete" /\ ~call.require_remaining
                 THEN {View(c).credentials[call.id].user_id} ELSE {}
  IN
  /\ tx[c].step \in {"write", "write_credential"}
  /\ tx[c].step = "write" => ~InsertsUser(View(c), call)
  /\ WriteStatement(c, Effect(View(c), call), "commit", dropped)

\* The call is over: COMMIT in operation mode, RELEASE SAVEPOINT in external mode.
Finish(c) ==
  /\ tx[c].step = "commit"
  /\ IF c \in OperationConnections
     THEN Commit(c)
     ELSE Return(c, tx[c].view) /\ UNCHANGED <<db, writer>>

\* Wrong form of StatementFails: the savepoint is released, not rolled back.
FailureKeepsWrites(c) ==
  /\ \/ tx[c].step \in {"lock", "write", "write_credential"}
     \/ tx[c].step = "commit" /\ c \in OperationConnections
  /\ IF c \in OperationConnections
     THEN Rollback(c)
     ELSE Return(c, tx[c].view) /\ UNCHANGED <<db, writer>>

(***************************************************************************)
(* sqlite3.Error from a statement that writes (locked, stale snapshot,     *)
(* disk full): ROLLBACK, or ROLLBACK TO SAVEPOINT, which restores the rows *)
(* and keeps the snapshot and the lock.                                    *)
(***************************************************************************)
StatementFails(c) ==
  /\ \/ tx[c].step \in {"lock", "write", "write_credential"}
     \/ tx[c].step = "commit" /\ c \in OperationConnections
  /\ IF c \in OperationConnections
     THEN Rollback(c)
     ELSE /\ Return(c, IF tx[c].savepoint = None THEN tx[c].view ELSE tx[c].savepoint)
          /\ UNCHANGED <<db, writer>>

(***************************************************************************)
(* The caller of an external connection, between its calls.                *)
(***************************************************************************)
CallerIdle(c) == c \in ExternalConnections /\ tx[c].open /\ tx[c].call = None

CallerBegin(c) ==
  /\ c \in ExternalConnections /\ ~tx[c].open
  /\ tx' = [tx EXCEPT ![c].open = TRUE]
  /\ UNCHANGED <<db, writer>>

CallerBeginImmediate(c) ==
  /\ c \in ExternalConnections /\ ~tx[c].open
  /\ writer = None
  /\ writer' = c
  /\ tx' = [tx EXCEPT ![c].open = TRUE, ![c].view = db]
  /\ UNCHANGED db

\* Any SELECT: the get_ and list_ calls, or one of the host's own.
CallerRead(c) ==
  /\ CallerIdle(c)
  /\ tx' = [tx EXCEPT ![c].view = View(c)]
  /\ UNCHANGED <<db, writer>>

CallerCommit(c) == CallerIdle(c) /\ Commit(c)
CallerRollback(c) == CallerIdle(c) /\ Rollback(c)

\* The process or its connection dies in the middle of a transaction.
Crash(c) == tx[c].open /\ Rollback(c)
-----------------------------------------------------------------------------
Next ==
  \E c \in Connections :
    \/ \E call \in Calls : StartCall(c, call)
    \/ Lock(c)
    \/ Read(c)
    \/ InsertUser(c)
    \/ Write(c)
    \/ Finish(c)
    \/ StatementFails(c)
    \/ CallerBegin(c)
    \/ CallerBeginImmediate(c)
    \/ CallerRead(c)
    \/ CallerCommit(c)
    \/ CallerRollback(c)
    \/ Crash(c)

Spec == Init /\ [][Next]_vars
-----------------------------------------------------------------------------
HandleIndex ==
  [h \in Handles |-> IF HandleOwners(db, h) = {} THEN None
                     ELSE CHOOSE u \in HandleOwners(db, h) : TRUE]

Store == INSTANCE CredentialStore
           WITH users <- db.users, users_by_handle <- HandleIndex,
                credentials <- db.credentials

(***************************************************************************)
(* Operation mode implements the store the protocol promises: whatever the *)
(* transactions of concurrent calls interleave, collide or lose to a       *)
(* crash, every commit is one call of the store whose calls are atomic,    *)
(* accepted on the rows it commits over.                                   *)
(***************************************************************************)
ImplementsStore == Store!StoreSpec

(***************************************************************************)
(* README: "records are never reassigned".  Registrations are saved again  *)
(* after logins have moved the counter, with the same key or another one,  *)
(* by connections that had looked before: no commit of an operation-mode   *)
(* connection changes a stored user or the owner or key of a credential    *)
(* that stays stored, nor takes its counter back.                          *)
(***************************************************************************)
RecordsKept == Store!RecordsNeverReassigned

(***************************************************************************)
(* On every reachable database the SELECTs of a call refuse it exactly     *)
(* when, and with the exception with which, the atomic store refuses it.   *)
(***************************************************************************)
StoreRefusal(call) ==
  CASE call.name = "save" -> Store!SaveRefusal(call.user, call.id, call.credential)
    [] call.name = "login" -> Store!LoginRefusal(call.id, call.expected, call.new)
    [] call.name = "delete" ->
         IF Store!DeleteRefused(call.id, call.owner, call.require_remaining)
         THEN "false" ELSE None
    [] call.name = "label" -> None

RefusalsAgree ==
  \A call \in Calls :
    (call.name = "save" => call.credential.user_id = call.user.user_id) =>
      Refusal(db, call) = StoreRefusal(call)

(***************************************************************************)
(* Conflicts surface as PasskeyUserConflict and PasskeyCredentialConflict, *)
(* never as a UNIQUE or PRIMARY KEY violation of the INSERTs: whenever one *)
(* may run, what the SELECTs before it found still holds in the database   *)
(* it will be committed to.                                                *)
(***************************************************************************)
InsertsMeetNoConstraint ==
  \A c \in Connections :
    LET call == tx[c].call IN
    /\ tx[c].step \in {"write", "write_credential"} /\ CanWrite(c)
    /\ call.name = "save"
    => /\ View(c).credentials[call.id] = None
       /\ HandleOwners(View(c), call.user.user_handle) \subseteq {call.user.user_id}

(***************************************************************************)
(* A registration commits whole: a transaction that adds a user adds a     *)
(* credential of that user too, also when a statement failed half way and  *)
(* the caller of an external connection went on and committed the rest.    *)
(***************************************************************************)
UserComesWithCredential ==
  \A u \in UserIds :
    db.users[u] = None /\ db'.users[u] # None =>
      \/ CredentialsOf(db', u) # {}
      \/ \E c \in Connections : writer = c /\ u \in tx[c].dropped

RegistrationsWhole == [][UserComesWithCredential]_vars

(***************************************************************************)
(* "A deferred caller transaction must own the write lock before reading   *)
(* the count": a guarded delete never decides, either way, on a snapshot   *)
(* that another commit has overtaken.                                      *)
(***************************************************************************)
DecidesCurrent ==
  \A c \in Connections :
    tx[c].step = "read" /\ Guarded(tx[c].call) /\ tx'[c].step # "read" =>
      writer = c /\ ~tx[c].stale

GuardedDecisionsCurrent == [][DecidesCurrent]_vars

(***************************************************************************)
(* A user with passkeys keeps one through every commit whose transaction   *)
(* only removed that user's passkeys under the guard, whatever other       *)
(* deletes, of the same or of other connections, run at the same time.     *)
(***************************************************************************)
GuardKeepsOne ==
  \A u \in UserIds :
    CredentialsOf(db, u) # {} /\ CredentialsOf(db', u) = {} =>
      \E c \in Connections : writer = c /\ u \in tx[c].dropped

FinalCredentialKept == [][GuardKeepsOne]_vars
=============================================================================
