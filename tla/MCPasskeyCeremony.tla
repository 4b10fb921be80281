-------------------------- MODULE MCPasskeyCeremony --------------------------
(***************************************************************************)
(* Ceremonies on small instances: two users with their handles, two        *)
(* request slots.  One run covers two instances, told apart by Small: one  *)
(* flow and one credential with three challenges and counters up to 2, and *)
(* two flows and two credentials with two challenges and counters up to 1. *)
(*                                                                         *)
(* Renaming a user together with its handle changes nothing, so the two    *)
(* may be swapped.                                                         *)
(***************************************************************************)
EXTENDS PasskeyCeremony, TLC

CONSTANTS u1, u2, h1, h2, n1

MCSubjects == {[user_id |-> u1, user_handle |-> h1, name |-> n1],
               [user_id |-> u2, user_handle |-> h2, name |-> n1]}

FlowsSeen ==
  ({k[1] : k \in {x \in Keys : challenges[x] # None}} \cup {request[r].flow : r \in Requests})
    \ {None}

Counted ==
  {request[r].count : r \in Requests} \cup {completed[i].count : i \in DOMAIN completed}

\* States beyond both instances are not explored further.
Small ==
  \/ /\ Cardinality(FlowsSeen) <= 1
     /\ Cardinality({id \in CredentialIds : minted[id] # None}) <= 1
  \/ fresh <= 2 /\ Counted \subseteq 0 .. 1

SwapUsers == u1 :> u2 @@ u2 :> u1 @@ h1 :> h2 @@ h2 :> h1

Symmetry == Permutations(Requests) \cup Permutations(Flows)
              \cup Permutations(CredentialIds) \cup {SwapUsers}
=============================================================================
