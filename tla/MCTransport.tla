---------------------------- MODULE MCTransport ----------------------------
(* Small instances of Transport. *)
EXTENDS Transport, TLC

\* Users are alike.
Symmetry == Permutations(Subject)
=============================================================================
