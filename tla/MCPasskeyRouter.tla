--------------------------- MODULE MCPasskeyRouter ---------------------------
(* The router on a small instance: one browser with two requests in        *)
(* flight.  Two self-registrations of one username are prepared with       *)
(* handles of their own; the other user carries one of those handles too.  *)
EXTENDS PasskeyRouter, TLC

CONSTANTS u1, u2, h1, h2, n1

User(u, h) == [user_id |-> u, user_handle |-> h, name |-> n1]

MCSubjects == {User(u1, h1), User(u1, h2), User(u2, h2)}

MCCapabilitySubject == User(u2, h2)

Symmetry == Permutations(Slots) \cup Permutations(CredentialIds)
=============================================================================
