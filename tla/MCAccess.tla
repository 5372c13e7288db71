------------------------------ MODULE MCAccess ------------------------------
(* Small instances of AccessTokens. *)
EXTENDS AccessTokens, MCValues

\* Tokens are random values and requests are alike.
Symmetry ==
  Permutations(Token) \cup Permutations(AuthProc) \cup Permutations(UserProc)
=============================================================================
