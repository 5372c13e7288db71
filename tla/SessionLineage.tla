--------------------------- MODULE SessionLineage ---------------------------
(***************************************************************************)
(* What refresh-token rotation promises, without requests, database or     *)
(* clock: a login opens a chain of tokens, a rotation replaces the token   *)
(* at its end by a new one, and at any time a chain has at most one token  *)
(* that still works.  A token that stopped working never works again, and  *)
(* none is ever replaced twice, however many requests present it.          *)
(***************************************************************************)
CONSTANTS Token, None

VARIABLES
  stage,   \* token -> "none", "live" or "spent"
  root,    \* token -> the token its chain was opened with
  parent   \* token -> the token it replaced

vars == <<stage, root, parent>>

Init ==
  /\ stage = [t \in Token |-> "none"]
  /\ root = [t \in Token |-> None]
  /\ parent = [t \in Token |-> None]

\* A login.
Open(t) ==
  /\ stage[t] = "none"
  /\ stage' = [stage EXCEPT ![t] = "live"]
  /\ root' = [root EXCEPT ![t] = t]
  /\ parent' = [parent EXCEPT ![t] = None]

\* A token is claimed, revoked with its user's others, or removed.
Retire(t) ==
  /\ stage[t] = "live"
  /\ stage' = [stage EXCEPT ![t] = "spent"]
  /\ UNCHANGED <<root, parent>>

\* The second half of a rotation: `t` is spent and gets its only successor.
Renew(t, c) ==
  /\ stage[t] = "spent"
  /\ stage[c] = "none"
  /\ \A s \in Token : parent[s] # t
  /\ \A s \in Token : stage[s] = "live" => root[s] # root[t]
  /\ stage' = [stage EXCEPT ![c] = "live"]
  /\ root' = [root EXCEPT ![c] = root[t]]
  /\ parent' = [parent EXCEPT ![c] = t]

Next ==
  \/ \E t \in Token : Open(t) \/ Retire(t)
  \/ \E t, c \in Token : Renew(t, c)

Spec == Init /\ [][Next]_vars
=============================================================================
