------------------------- MODULE AuthorizationGrants -------------------------
(***************************************************************************)
(* What the provider promises of authorization codes, whatever its         *)
(* handlers, stores and clocks do in between: a code stands for the grant  *)
(* of one user to one client, until it expires it stays available, it is   *)
(* redeemed once, and the one token it may yield belongs to the client,    *)
(* redirect URI, user and PKCE challenge of the grant.                     *)
(*                                                                         *)
(* Codes that expired may be forgotten at any step.  A code can still be   *)
(* redeemed while it is not forgotten: a handler's clock may be late.      *)
(***************************************************************************)
EXTENDS Naturals

CONSTANTS
  Codes,  \* authorization codes
  Grant,  \* records with client_id, redirect_uri, subject, code_challenge, expires_at
  None    \* no grant

VARIABLES
  now,       \* the clock
  grants,    \* code -> the grant it stands for, or None
  available, \* codes that can be redeemed
  redeemed,  \* codes redeemed for a token that is not issued yet
  tokens     \* the tokens issued, as TokenFor describes them

grantVars == <<now, grants, available, redeemed, tokens>>
-----------------------------------------------------------------------------
GrantsInit ==
  /\ now = 0
  /\ grants = [c \in Codes |-> None]
  /\ available = {}
  /\ redeemed = {}
  /\ tokens = {}

\* The token of a code: whose it is, and what the client had to prove.
TokenFor(c, grant) ==
  [code |-> c, client_id |-> grant.client_id, redirect_uri |-> grant.redirect_uri,
   subject |-> grant.subject, code_challenge |-> grant.code_challenge]

Lapsed == {c \in available : grants[c].expires_at <= now}

\* Expired codes are forgotten.
Lapse(lapsed) ==
  /\ available' = available \ lapsed
  /\ UNCHANGED <<now, grants, redeemed, tokens>>

\* A new grant gets a code; it may have waited so long that it lapses at once.
Issue(c, lapsed) ==
  /\ grants[c] = None
  /\ grants'[c] \in Grant
  /\ \A other \in Codes \ {c} : grants'[other] = grants[other]
  /\ available' = (available \ lapsed) \cup {c}
  /\ UNCHANGED <<now, redeemed, tokens>>

Redeem(c, lapsed) ==
  /\ c \in available \ lapsed
  /\ available' = available \ (lapsed \cup {c})
  /\ redeemed' = redeemed \cup {c}
  /\ UNCHANGED <<now, grants, tokens>>

\* The redeemed code yields its token, or nothing.
Deliver(c) ==
  /\ c \in redeemed
  /\ redeemed' = redeemed \ {c}
  /\ tokens' \in {tokens, tokens \cup {TokenFor(c, grants[c])}}
  /\ UNCHANGED <<now, grants, available>>

Elapse ==
  /\ now' = now + 1
  /\ UNCHANGED <<grants, available, redeemed, tokens>>

GrantsNext ==
  \/ \E lapsed \in SUBSET Lapsed :
       \/ Lapse(lapsed)
       \/ \E c \in Codes : Issue(c, lapsed) \/ Redeem(c, lapsed)
  \/ \E c \in Codes : Deliver(c)
  \/ Elapse

GrantsSpec == GrantsInit /\ [][GrantsNext]_grantVars
=============================================================================
