------------------------------ MODULE MCValues ------------------------------
(***************************************************************************)
(* The values the model-checked instances share.  The cfgs say which of    *)
(* them an instance uses.                                                  *)
(***************************************************************************)
EXTENDS Storage, TLC

CONSTANTS
  u1, u2, u3,                     \* users
  ea, eb,                         \* normalized emails
  rawA, rawAUpper, rawB, rawBad,  \* what a client may type as an email
  n1, n2                          \* names

\* One address and none; or two spellings of one address, another, and none.
NormalizeOne == rawA :> ea @@ rawBad :> None
NormalizeTwo == rawA :> ea @@ rawB :> eb @@ rawBad :> None
NormalizeAll == rawA :> ea @@ rawAUpper :> ea @@ rawB :> eb @@ rawBad :> None

Registered(n, e) == [state |-> "live", name |-> n, email |-> e]

OneRegistered ==
  [u \in UserId |-> IF u = u1 THEN Registered(n1, ea) ELSE NoUser]

TwoRegistered ==
  [u \in UserId |-> CASE u = u1 -> Registered(n1, ea)
                      [] u = u2 -> Registered(n1, eb)
                      [] OTHER -> NoUser]
=============================================================================
