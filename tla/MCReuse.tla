---------------------------- MODULE MCReuse ----------------------------
(* Small instances of ReuseHistory. *)
EXTENDS ReuseHistory, MCValues

\* Tokens are random values and requests are alike.
Symmetry ==
  Permutations(Token) \cup Permutations(AuthProc) \cup Permutations(UserProc)
=============================================================================
