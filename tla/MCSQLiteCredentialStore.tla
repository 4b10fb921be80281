----------------------- MODULE MCSQLiteCredentialStore -----------------------
(***************************************************************************)
(* The SQLite credential store on small instances.  A run with two keys    *)
(* covers two instances, told apart by Small: two credentials with keys    *)
(* that are never compared, and one credential that is registered again    *)
(* with the key it has or with another one.                                *)
(***************************************************************************)
EXTENDS SQLiteCredentialStore, TLC

Stored == {id \in CredentialIds : db.credentials[id] # None}

Called == {c \in Connections : tx[c].call # None}

Saving == {c \in Called : tx[c].call.name = "save"}

IdsSeen == Stored \cup {tx[c].call.id : c \in Called}

KeysSeen ==
  {db.credentials[id].public_key : id \in Stored}
    \cup {tx[c].call.credential.public_key : c \in Saving}

\* States beyond both instances are not explored further.
Small == Cardinality(IdsSeen) <= 1 \/ Cardinality(KeysSeen) <= 1

Symmetry == Permutations(UserIds) \cup Permutations(Handles)
              \cup Permutations(CredentialIds) \cup Permutations(PublicKeys)
              \cup Permutations(OperationConnections)
              \cup Permutations(ExternalConnections)
=============================================================================
