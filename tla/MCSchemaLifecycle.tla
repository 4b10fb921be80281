-------------------------- MODULE MCSchemaLifecycle --------------------------
(* Two processes over every database of Initial.  No symmetry: the run     *)
(* checks liveness.                                                        *)
EXTENDS SchemaLifecycle, TLC
=============================================================================
