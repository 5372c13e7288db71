----------------------------- MODULE AuthService -----------------------------
(***************************************************************************)
(* internal/app/auth_service.go: Login and Refresh.                        *)
(*                                                                         *)
(* A request is a process of AuthProc (a goroutine of the HTTP or the gRPC *)
(* server, of any replica) and runs one repository call per step, so that  *)
(* any other request may come between two calls.  `req[p].pc` names the    *)
(* next call:                                                              *)
(*                                                                         *)
(*   Login    lookup -> compare -> store                                   *)
(*   Refresh  find -> user -> claim -> store                               *)
(*            find -> reuse -> wipe        (the token is already revoked)  *)
(*                                                                         *)
(* A call that fails, times out or loses its caller ends the request       *)
(* (Fail).  A call that takes effect although the caller was told it       *)
(* failed is the call's step followed by Fail.                             *)
(*                                                                         *)
(* root and parent are history variables: no guard reads them.             *)
(***************************************************************************)
EXTENDS Storage

CONSTANTS
  AuthProc,    \* requests that may be in progress at once
  RefreshTTL   \* lifetime of a refresh token

VARIABLES
  req,         \* the requests in progress
  held,        \* refresh tokens some client has been given
  root,        \* token -> the token of the login its chain of rotations began at
  parent       \* token -> the token it was rotated from

lineage == <<root, parent>>
authVars == <<req, held, lineage>>

ASSUME AuthAssumption == RefreshTTL \in Nat \ {0}

Request == [pc    : {"idle", "lookup", "compare", "find", "reuse", "wipe",
                     "user", "claim", "store"},
            email : Email \cup {None},
            user  : UserId \cup {None},
            token : Token \cup {None},     \* the refresh token presented
            now   : Nat,                   \* clock.Now() as the request read it
            todo  : SUBSET Token]          \* what the UpdateMany still must reach

NoRequest == [pc |-> "idle", email |-> None, user |-> None, token |-> None,
              now |-> 0, todo |-> {}]

\* A request knows the user and the token its next call is about.
HasSubject(r) ==
  /\ r.pc \in {"compare", "user", "claim", "reuse", "wipe", "store"}
       => r.user \in UserId
  /\ r.pc \in {"find", "user", "claim", "reuse", "wipe"}
       => r.token \in Token
  /\ r.pc \in {"idle", "lookup", "compare"} => r.token = None

AuthTypeOK ==
  /\ req \in [AuthProc -> Request]
  /\ \A p \in AuthProc : HasSubject(req[p])
  /\ held \subseteq Token
  /\ root \in [Token -> Token \cup {None}]
  /\ parent \in [Token -> Token \cup {None}]

AuthInit ==
  /\ req = [p \in AuthProc |-> NoRequest]
  /\ held = {}
  /\ root = [t \in Token |-> None]
  /\ parent = [t \in Token |-> None]

At(p, pc) == req[p].pc = pc

Goto(p, pc) == req' = [req EXCEPT ![p] = [@ EXCEPT !.pc = pc]]

\* The request has its answer, a refusal or a session.
Answer(p) == req' = [req EXCEPT ![p] = NoRequest]

MayStore(p) ==
  \/ req[p].pc \in {"lookup", "compare", "user", "claim", "store"}
  \/ At(p, "find") /\ Live(req[p].token)

\* Bound: a request that may store a token starts only when one is left for it.
TokenLeft ==
  Cardinality({p \in AuthProc : MayStore(p)})
    < Cardinality({t \in Token : tokens[t].state = "unborn"})

-----------------------------------------------------------------------------
(* Login *)

LoginBegin(p, raw) ==
  /\ At(p, "idle")
  /\ TokenLeft \/ Normalize[raw] = None
  /\ req' = [req EXCEPT ![p] = [@ EXCEPT !.pc = "lookup", !.email = Normalize[raw]]]
  /\ UNCHANGED <<storageVars, held, lineage>>

\* Mutant: ErrNotFound is not looked at.
LoginFindUnchecked(p) ==
  /\ At(p, "lookup")
  /\ Goto(p, "compare")
  /\ UNCHANGED <<storageVars, held, lineage>>

\* NewEmail refuses a malformed address, FindByEmail may find no row.
LoginFind(p) ==
  /\ At(p, "lookup")
  /\ \/ \E u \in FoundByEmail(req[p].email) :
          req' = [req EXCEPT ![p] = [@ EXCEPT !.pc = "compare", !.user = u]]
     \/ FoundByEmail(req[p].email) = {} /\ Answer(p)
  /\ UNCHANGED <<storageVars, held, lineage>>

\* The password is the client's: it matches or it does not.
LoginCompare(p) ==
  /\ At(p, "compare")
  /\ \/ req' = [req EXCEPT ![p] = [@ EXCEPT !.pc = "store", !.now = clock]]
     \/ Answer(p)
  /\ UNCHANGED <<storageVars, held, lineage>>

-----------------------------------------------------------------------------
(* Refresh *)

RefreshBegin(p, t) ==
  /\ At(p, "idle")
  /\ t \in held
  /\ TokenLeft \/ ~Live(t)
  /\ req' = [req EXCEPT ![p] = [@ EXCEPT !.pc = "find", !.token = t, !.now = clock]]
  /\ UNCHANGED <<storageVars, held, lineage>>

\* findLiveRefreshToken.  The TTL monitor may have removed the document.
RefreshFind(p) ==
  LET doc == tokens[req[p].token]
      found == doc.state = "stored"
      current == BeforeExpiry(req[p].now, req[p].token)
  IN  /\ At(p, "find")
      /\ \/ /\ found /\ doc.revoked
            /\ req' = [req EXCEPT ![p] = [@ EXCEPT !.pc = "reuse", !.user = doc.user]]
         \/ /\ found /\ ~doc.revoked /\ current
            /\ req' = [req EXCEPT ![p] = [@ EXCEPT !.pc = "user", !.user = doc.user]]
         \/ /\ ~found \/ (~doc.revoked /\ ~current)
            /\ Answer(p)
      /\ UNCHANGED <<storageVars, held, lineage>>

\* Mutant: the user is not looked up.
RefreshUserSkipped(p) ==
  /\ At(p, "user")
  /\ Goto(p, "claim")
  /\ UNCHANGED <<storageVars, held, lineage>>

\* FindByID of the token's user.
RefreshUser(p) ==
  /\ At(p, "user")
  /\ \/ Exists(req[p].user) /\ Goto(p, "claim")
     \/ ~Exists(req[p].user) /\ Answer(p)
  /\ UNCHANGED <<storageVars, held, lineage>>

\* Mutants: the token is not claimed; losing the claim is not an error.
ClaimForgotten(p) ==
  /\ At(p, "claim")
  /\ Goto(p, "store")
  /\ UNCHANGED <<storageVars, held, lineage>>

ClaimIgnoringLoss(p) ==
  /\ At(p, "claim")
  /\ Goto(p, "store")
  /\ RevokeToken(req[p].token) \/ (~Live(req[p].token) /\ UNCHANGED tokens)
  /\ UNCHANGED <<users, clock, held, lineage>>

\* rotate: the compare-and-swap comes before anything is issued.
Claim(p) ==
  /\ At(p, "claim")
  /\ \/ /\ RevokeToken(req[p].token)
        /\ Goto(p, "store")
     \/ /\ ~Live(req[p].token)
        /\ Answer(p)
        /\ UNCHANGED tokens
  /\ UNCHANGED <<users, clock, held, lineage>>

\* Mutant: the presented token is revoked, not those of its user.
WipeBeginPresented(p) ==
  /\ At(p, "reuse")
  /\ req' = [req EXCEPT ![p] = [@ EXCEPT !.pc = "wipe", !.todo = {req[p].token}]]
  /\ UNCHANGED <<storageVars, held, lineage>>

\* revokeAllOnReuse: the UpdateMany starts, ...
WipeBegin(p) ==
  /\ At(p, "reuse")
  /\ req' = [req EXCEPT ![p] = [@ EXCEPT !.pc = "wipe", !.todo = RevokeScan(req[p].user)]]
  /\ UNCHANGED <<storageVars, held, lineage>>

\* ... revokes a document at a time, ...
WipeNext(p) ==
  /\ At(p, "wipe")
  /\ \E t \in Token : RevokeNext(req[p].user, t)
  /\ UNCHANGED <<users, clock, authVars>>

\* ... and ends, upon which the caller is answered 401.
WipeEnd(p) ==
  /\ At(p, "wipe")
  /\ RevokeScanDone(req[p].todo)
  /\ Answer(p)
  /\ UNCHANGED <<storageVars, held, lineage>>

-----------------------------------------------------------------------------
(* issueSession, the end of both *)

\* A new random value `t` and its hash stored.  The answer with the session,
\* the token and the access token signed before, reaches its client or is lost.
Store(p) ==
  LET r == req[p] IN
  /\ At(p, "store")
  /\ \E t \in Token :
       /\ StoreToken(t, r.user, r.now + RefreshTTL)
       /\ root' = [root EXCEPT ![t] = IF r.token = None THEN t ELSE root[r.token]]
       /\ parent' = [parent EXCEPT ![t] = r.token]
       /\ held' \in {held, held \cup {t}}
  /\ Answer(p)
  /\ UNCHANGED <<users, clock>>

\* Mutant: a rotation that cannot store its token gives the old one back.
FailUndoingClaim(p) ==
  /\ ~At(p, "idle")
  /\ Answer(p)
  /\ tokens' = IF At(p, "store") /\ req[p].token # None
               THEN [tokens EXCEPT ![req[p].token].revoked = FALSE]
               ELSE tokens
  /\ UNCHANGED <<users, clock, held, lineage>>

\* A repository call returned an error or the caller's context was cancelled.
Fail(p) ==
  /\ ~At(p, "idle")
  /\ Answer(p)
  /\ UNCHANGED <<storageVars, held, lineage>>

-----------------------------------------------------------------------------
\* What the code does once a request has begun.
AuthProgress(p) ==
  \/ LoginFind(p) \/ LoginCompare(p)
  \/ RefreshFind(p) \/ RefreshUser(p) \/ Claim(p)
  \/ WipeBegin(p) \/ WipeNext(p) \/ WipeEnd(p)
  \/ Store(p)

AuthStep(p) ==
  \/ \E raw \in RawEmail : LoginBegin(p, raw)
  \/ \E t \in Token : RefreshBegin(p, t)
  \/ AuthProgress(p)
  \/ Fail(p)
=============================================================================
