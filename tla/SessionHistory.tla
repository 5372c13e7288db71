--------------------------- MODULE SessionHistory ---------------------------
(***************************************************************************)
(* UserManagement with what has to be remembered to say which sessions     *)
(* end when a revoked refresh token is presented, and when an account is   *)
(* deleted.  The variables added here follow the steps of the system and   *)
(* restrict none of them.                                                  *)
(***************************************************************************)
EXTENDS UserManagement

VARIABLES
  seen,        \* request -> its user's live tokens when it found a revoked one
  doomed,      \* tokens seen by requests whose wipe is complete
  closed,      \* users whose DELETE has done all it does and is answered 204
  late,        \* refresh requests that began when the account was gone
  stragglers   \* tokens stored when the account was gone

sessionHistory == <<seen, doomed, closed, late, stragglers>>

SessionHistoryInit ==
  /\ seen = [p \in AuthProc |-> {}]
  /\ doomed = {} /\ closed = {} /\ late = {} /\ stragglers = {}

RefreshBegins(p) == At(p, "idle") /\ req'[p].pc = "find"

ReuseFound(p) == At(p, "find") /\ req'[p].pc = "reuse"

Ends(p) == req'[p].pc = "idle"

Stored(t) == tokens[t].state = "unborn" /\ tokens'[t].state = "stored"

ReuseRecord ==
  /\ seen' = [p \in AuthProc |-> IF ReuseFound(p) THEN LiveOf(req'[p].user)
                                 ELSE IF Ends(p) THEN {} ELSE seen[p]]
  /\ doomed' = doomed \cup UNION {seen[p] : p \in {q \in AuthProc : WipeEnd(q)}}

DeleteRecord ==
  /\ closed' = closed \cup {job[p].user : p \in {q \in UserProc : DeleteEnd(q)}}
  /\ late' = {p \in AuthProc :
                \/ RefreshBegins(p) /\ ~Exists(tokens[req'[p].token].user)
                \/ p \in late /\ ~Ends(p)}
  /\ stragglers' = stragglers \cup
                     {t \in Token : Stored(t) /\ ~Exists(tokens'[t].user)}

SessionSpec ==
  /\ Init /\ SessionHistoryInit
  /\ [][Next /\ ReuseRecord /\ DeleteRecord]_<<vars, sessionHistory>>

-----------------------------------------------------------------------------
(* When a reuse has been answered 401, every session its user had when it was
   found is dead, whatever ran between the read and the end of the UpdateMany. *)
ReuseKillsEverySession == \A t \in doomed : ~Live(t)

(* A deleted account "must not be able to come back through /auth/refresh"
   (Delete): a refresh that began after the row was gone never gets as far as
   claiming its token, whichever requests ran before it. *)
NoComeback ==
  \A p \in late : req[p].pc \in {"find", "user", "reuse", "wipe"}

(* Delete removes the row before it revokes, so a login or a refresh that comes
   between the two is caught: once DELETE has answered, a token of the account
   that still works was stored after the row was gone. *)
OnlyStragglersSurvive ==
  \A u \in closed, t \in Token : Live(t) /\ tokens[t].user = u => t \in stragglers

(* "Deleting the account revokes its tokens on the spot" (docs/jwt-guide.md):
   once DELETE has answered, no token of the account is live. *)
ClosedAccountHasNoLiveToken ==
  \A u \in closed, t \in Token : tokens[t].user = u => ~Live(t)
=============================================================================
