---------------------------- MODULE MCUserManagement ----------------------------
(* Small instances of UserManagement. *)
EXTENDS UserManagement, MCValues

\* Tokens are random values and requests are alike.
Symmetry ==
  Permutations(Token) \cup Permutations(AuthProc) \cup Permutations(UserProc)

(* Two races in one instance, each with the other side at rest: of requests over
   the sessions of accounts nobody touches, and of requests over accounts with a
   few sessions nobody refreshes.  Both at once is for MCSessions and MCAccess. *)
AccountsAtRest ==
  /\ users = InitUsers
  /\ \A p \in UserProc : JobAt(p, "idle")

SessionsAtRest ==
  /\ clock = 0
  /\ Cardinality({t \in Token : Born(t)}) <= 2
  /\ \A p \in AuthProc : At(p, "idle")

RaceNext ==
  \/ AccountsAtRest /\ \E p \in AuthProc : AuthStep(p) /\ UNCHANGED userVars
  \/ SessionsAtRest /\ \E p \in UserProc : UserStep(p) /\ UNCHANGED authVars
  \/ /\ AccountsAtRest
     /\ (Tick \/ \E t \in Token : PurgeExpired(t)) /\ UNCHANGED <<authVars, userVars>>

\* Each step is one of Next.
RaceSpec == Init /\ [][RaceNext]_vars
=============================================================================
