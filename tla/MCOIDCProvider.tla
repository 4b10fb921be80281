--------------------------- MODULE MCOIDCProvider ---------------------------
(***************************************************************************)
(* The provider on small instances: each client registers every redirect   *)
(* URI.  One run covers three instances, told apart by Small: two codes    *)
(* over a long time, key rotations, and two clients with two users.        *)
(***************************************************************************)
EXTENDS OIDCProvider, FiniteSets, TLC

EveryRedirect == [c \in Clients |-> Redirects]

Requests == {workers[w] : w \in Workers}

SavedCodes == {granted[c] : c \in {x \in Codes : granted[x] # None}}

UsersSeen ==
  ({r.user : r \in Requests} \cup {g.subject : g \in SavedCodes} \cup {u \in Users : ~active[u]})
    \ {None}

ClientsSeen ==
  ({r.client_id : r \in Requests} \cup {g.client_id : g \in SavedCodes}) \ {None}

OneOfEach == Cardinality(UsersSeen) <= 1 /\ Cardinality(ClientsSeen) <= 1

\* States beyond all three instances are not explored further.
Small ==
  \/ OneOfEach /\ keys = <<1>>
  \/ OneOfEach /\ saved <= 1
  \/ saved <= 1 /\ now <= 2 /\ keys = <<1>>

Symmetry == Permutations(Workers) \cup Permutations(Users) \cup Permutations(Clients) \cup Permutations(Verifiers)
=============================================================================
