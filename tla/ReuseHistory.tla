---------------------------- MODULE ReuseHistory ----------------------------
(***************************************************************************)
(* UserManagement with what has to be remembered to state what the         *)
(* repository says of presenting a refresh token again.  The variables     *)
(* added here follow the steps of the system and restrict none of them.    *)
(***************************************************************************)
EXTENDS UserManagement

VARIABLES
  fresh,     \* refresh requests whose token was live when they began
  rotated,   \* tokens revoked by rotate, not by a RevokeAllForUser
  burned     \* roots of the tokens whose reuse has been answered

reuseHistory == <<fresh, rotated, burned>>

ReuseHistoryInit == fresh = {} /\ rotated = {} /\ burned = {}

FreshBegins(p) == At(p, "idle") /\ req'[p].pc = "find" /\ Live(req'[p].token)

Rotates(p) == At(p, "claim") /\ req'[p].pc = "store"

ReuseRecord ==
  /\ fresh' = {p \in AuthProc : FreshBegins(p) \/ (p \in fresh /\ req'[p].pc # "idle")}
  /\ rotated' = rotated \cup {req[p].token : p \in {q \in AuthProc : Rotates(q)}}
  /\ burned' = burned \cup {root[req[p].token] : p \in {q \in AuthProc : WipeEnd(q)}}

ReuseSpec ==
  /\ Init /\ ReuseHistoryInit
  /\ [][Next /\ ReuseRecord]_<<vars, reuseHistory>>

-----------------------------------------------------------------------------
(* What the repository says of a reuse, and interleavings of the code deny. *)

Wiping(p) == req[p].pc \in {"reuse", "wipe"}

(* "Two concurrent refreshes have exactly one winner; the loser gets 401 with no wipe.
   Only presenting a token already known to be rotated wipes every session"
   (docs/design-decisions.md): what a wipe answers was rotated, where an earlier wipe
   may have revoked it, and was so when the refresh began, where a concurrent one may
   have rotated it since. *)
OnlyKnownReuseWipes ==
  \A p \in AuthProc : Wiping(p) => req[p].token \in rotated /\ p \notin fresh

(* Presenting a rotated token "wipes every session belonging to that user"
   (auth_handler.go): afterwards no token of the presented one's chain is live,
   also not one whose rotation was between the claim and the insert. *)
BurnedChainIsDead ==
  \A t \in Token : Live(t) => root[t] \notin burned
=============================================================================
