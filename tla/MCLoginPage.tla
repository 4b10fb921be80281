----------------------------- MODULE MCLoginPage -----------------------------
(* The login page with two forms, swapped for one another, and three logins. *)
EXTENDS LoginPage, TLC
=============================================================================
