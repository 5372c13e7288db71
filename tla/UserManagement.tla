--------------------------- MODULE UserManagement ---------------------------
(***************************************************************************)
(* The application core as every transport calls it: requests of the two   *)
(* services over one database, the TTL monitor of MongoDB and the clock.   *)
(* internal/adapter/inbound authenticates a call with the access token and *)
(* hands the verified subject to the use case as the actor.                *)
(***************************************************************************)
EXTENDS AuthService, UserService

CONSTANT LoggedIn   \* users whose clients hold an access token at the start

ASSUME LoggedInAssumption == LoggedIn \subseteq UserId

vars == <<storageVars, authVars, userVars>>

\* Some client has been given an access token for `u`.  It may have expired, but
\* need not: Verify never asks the database, so a deleted user passes too.
Authenticated(u) == u \in LoggedIn \/ \E t \in held : tokens[t].user = u

UserStep(p) ==
  \/ \E n \in Name, raw \in RawEmail : CreateBegin(p, n, raw)
  \/ \E u \in UserId :
       /\ Authenticated(u)
       /\ \/ \E sent \in SUBSET {"name", "email"}, n \in Name, raw \in RawEmail :
               UpdateBegin(p, u, sent, n, raw)
          \/ DeleteBegin(p, u)
  \/ UserProgress(p)
  \/ JobFail(p)

Init == StorageInit /\ AuthInit /\ UserInit

Next ==
  \/ \E p \in AuthProc : AuthStep(p) /\ UNCHANGED userVars
  \/ \E p \in UserProc : UserStep(p) /\ UNCHANGED authVars
  \/ (Tick \/ \E t \in Token : PurgeExpired(t)) /\ UNCHANGED <<authVars, userVars>>

Spec == Init /\ [][Next]_vars

-----------------------------------------------------------------------------
\* Every variable has its type.
TypeOK == StorageTypeOK /\ AuthTypeOK /\ UserTypeOK

\* A rotation between its compare-and-swap and the insert of the new token.
Rotating(p) == req[p].token # None /\ At(p, "store")

(* The tokens of one chain of rotations that work, and the rotations about to
   add one, are never more than one together: issuing after the claim cannot
   "leave a second live token behind" (rotate). *)
OneLivePerChain ==
  /\ \A s, t \in Token : Live(s) /\ Live(t) /\ root[s] = root[t] => s = t
  /\ \A p \in AuthProc, t \in Token :
       Rotating(p) /\ Live(t) => root[req[p].token] # root[t]
  /\ \A p, q \in AuthProc :
       Rotating(p) /\ Rotating(q) /\ root[req[p].token] = root[req[q].token] => p = q

(* Two requests presenting the same token "cannot both win": no token is ever
   the parent of two sessions. *)
OneRotationPerToken ==
  \A s, t \in Token : parent[s] = parent[t] /\ parent[s] # None => s = t

(* OneLivePerChain and OneRotationPerToken as the steps keep them up: a parent
   is spent, a claimed token has no child yet, and what a request presents and
   what a chain began with have been stored. *)
Born(t) == tokens[t].state # "unborn"

RotationInv ==
  /\ OneLivePerChain
  /\ OneRotationPerToken
  /\ \A t \in Token : Born(t) => root[t] \in Token /\ Born(root[t])
  /\ \A t \in Token : parent[t] \in Token => Born(parent[t]) /\ ~Live(parent[t])
  /\ \A p \in AuthProc : Rotating(p) =>
       ~Live(req[p].token) /\ \A t \in Token : parent[t] # req[p].token
  /\ \A t \in held : Born(t)
  /\ \A p \in AuthProc : req[p].token \in Token => Born(req[p].token)

(* Refresh reads the clock first and claims much later, when the token may have
   expired: the chain still never skips a lifetime and never shrinks. *)
ExpiryChain ==
  \A s \in Token : parent[s] # None =>
    /\ tokens[parent[s]].expires <= tokens[s].expires
    /\ tokens[s].expires < tokens[parent[s]].expires + RefreshTTL

(* No two accounts share an email, whatever Create and Update race: the services
   never query for a duplicate before they write. *)
UniqueEmail ==
  \A u, v \in UserId : Exists(u) /\ Exists(v) /\ users[u].email = users[v].email
                         => u = v

\* Updates about to write `field` of `u`, which their body contained.
SentTo(u, field) ==
  {p \in UserProc : JobAt(p, "patch") /\ job[p].user = u /\ field \in job[p].sent}

(* A field of a row changes only when the request that writes it was sent that
   field and to the value sent: Update patches from an entity read earlier, and
   what other requests wrote meanwhile is not undone. *)
NoLostUpdate ==
  [][\A u \in UserId : Exists(u) /\ Exists(u)' =>
       /\ users'[u].name # users[u].name =>
            \E p \in SentTo(u, "name") : users'[u].name = job[p].name
       /\ users'[u].email # users[u].email =>
            \E p \in SentTo(u, "email") : users'[u].email = job[p].email
    ]_vars

(* What is gone stays gone, whatever requests that read it before still do: a
   deleted row is never written again, a revoked token is never valid again. *)
NoWayBack ==
  [][/\ \A u \in UserId : users[u].state = "deleted" => users'[u] = users[u]
     /\ \A t \in Token : tokens[t].state # "unborn" /\ ~Live(t) => ~Live(t)'
    ]_vars

(* A session is revoked by its own rotation or on behalf of its own user: the
   reuse of a token, or the end of an account, costs no other user a session. *)
RevocationStaysWithUser ==
  [][\A t \in Token : Live(t) /\ tokens'[t].revoked =>
       \/ \E p \in AuthProc : At(p, "claim") /\ req[p].token = t
       \/ \E p \in AuthProc : /\ At(p, "wipe")
                              /\ tokens[req[p].token].user = tokens[t].user
       \/ \E p \in UserProc : JobAt(p, "revoke") /\ job[p].user = tokens[t].user
    ]_vars

-----------------------------------------------------------------------------
(* The code implements SessionLineage: each token is none, live or spent. *)

Stage == [t \in Token |-> CASE tokens[t].state = "unborn" -> "none"
                            [] Live(t) -> "live"
                            [] OTHER -> "spent"]

Lineage == INSTANCE SessionLineage WITH stage <- Stage

\* Every step of the system is a step of the promise, or changes none of it.
ImplementsLineage == Lineage!Spec
=============================================================================
