----------------------------- MODULE MCSessions -----------------------------
(* Small instances of SessionHistory. *)
EXTENDS SessionHistory, MCValues

\* Tokens are random values and requests are alike.
Symmetry ==
  Permutations(Token) \cup Permutations(AuthProc) \cup Permutations(UserProc)
=============================================================================
