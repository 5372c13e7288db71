---------------------------- MODULE MCLifecycle ----------------------------
(* Small instances of Lifecycle. *)
EXTENDS Lifecycle, TLC

\* Requests to one port are alike.
Symmetry == Permutations(HttpReq) \cup Permutations(GrpcReq)
=============================================================================
