----------------------- MODULE MCEnrollmentCapability -----------------------
(* Enrolment capabilities on a small instance.                             *)
EXTENDS EnrollmentCapability, TLC

Symmetry == Permutations(Callers) \cup Permutations(Flows) \cup Permutations(Purposes)
=============================================================================
