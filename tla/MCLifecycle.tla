---------------------------- MODULE MCLifecycle -----------------------------
(***************************************************************************)
(* Model checking of Lifecycle together with the inductive invariant of    *)
(* its proofs. No symmetry: the run has liveness properties.               *)
(***************************************************************************)
EXTENDS Lifecycle_proofs
=============================================================================
