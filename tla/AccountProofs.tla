--------------------------- MODULE AccountProofs ---------------------------
(***************************************************************************)
(* Theorems about the rows and the tokens that requests write on the        *)
(* strength of what they read calls ago: no email is taken twice although  *)
(* no request looks before it writes, no update undoes another, what is    *)
(* deleted or revoked stays so, the lifetimes of a chain connect, and a    *)
(* revocation costs no other user a session.                               *)
(***************************************************************************)
EXTENDS UserManagementProofs

(* What a step does to the users: nothing, or one of the repository's writes. *)
LEMMA UsersStep ==
  ASSUME TypeOK, [Next]_vars
  PROVE  \/ UNCHANGED users
         \/ \E u \in UserId : \E n, e : InsertUser(u, n, e)
         \/ \E u \in UserId : \E sent, n, e : PatchUser(u, sent, n, e)
         \/ \E u \in UserId : DeleteUser(u)
<1>1. CASE UNCHANGED vars
  BY <1>1 DEF vars, storageVars
<1>2. ASSUME NEW p \in AuthProc, AuthStep(p)
      PROVE  UNCHANGED users
  BY <1>2 DEF AuthStep, AuthProgress, LoginBegin, RefreshBegin, LoginFind, LoginCompare,
    RefreshFind, RefreshUser, Claim, WipeBegin, WipeNext, WipeEnd, Store, Fail, storageVars
<1>3. ASSUME NEW p \in UserProc, UserStep(p)
      PROVE  \/ UNCHANGED users
             \/ \E u \in UserId : \E n, e : InsertUser(u, n, e)
             \/ \E u \in UserId : \E sent, n, e : PatchUser(u, sent, n, e)
             \/ \E u \in UserId : DeleteUser(u)
  <2>a. UserTypeOK
    BY DEF TypeOK
  <2>1. CASE CreateInsert(p)
    BY <2>1 DEF CreateInsert
  <2>2. CASE UpdatePatch(p)
    <3>1. job[p].user \in UserId
      BY <2>a, <2>2 DEF UpdatePatch, JobAt, UserTypeOK
    <3> QED
      BY <2>2, <3>1 DEF UpdatePatch
  <2>3. CASE DeleteRow(p)
    <3>1. job[p].user \in UserId
      BY <2>a, <2>3 DEF DeleteRow, JobAt, UserTypeOK
    <3> QED
      BY <2>3, <3>1 DEF DeleteRow
  <2>4. CASE ~CreateInsert(p) /\ ~UpdatePatch(p) /\ ~DeleteRow(p)
    BY <1>3, <2>4 DEF UserStep, UserProgress, CreateBegin, UpdateBegin, UpdateRead,
      DeleteBegin, DeleteScan, DeleteRevoke, DeleteEnd, JobFail, storageVars
  <2> QED
    BY <2>1, <2>2, <2>3, <2>4
<1>4. ASSUME Tick \/ \E t \in Token : PurgeExpired(t)
      PROVE  UNCHANGED users
  BY <1>4 DEF Tick, PurgeExpired
<1> QED
  BY <1>1, <1>2, <1>3, <1>4 DEF Next

LEMMA UniqueEmailStep ==
  ASSUME TypeOK, UniqueEmail, [Next]_vars
  PROVE  UniqueEmail'
<1>1. users \in [UserId -> UserDoc]
  BY DEF TypeOK, StorageTypeOK
<1>2. CASE UNCHANGED users
  BY <1>2 DEF UniqueEmail, Exists
<1>3. ASSUME NEW u \in UserId, NEW n, NEW e, InsertUser(u, n, e)
      PROVE  UniqueEmail'
  <2>1. /\ \A v \in UserId : v # u => users'[v] = users[v]
        /\ users'[u].email = e
        /\ \A v \in UserId : Exists(v) /\ users[v].email = e => v = u
    BY <1>1, <1>3 DEF InsertUser, EmailFree, FoundByEmail
  <2> QED
    BY <2>1 DEF UniqueEmail, Exists
<1>4. ASSUME NEW u \in UserId, NEW sent, NEW n, NEW e, PatchUser(u, sent, n, e)
      PROVE  UniqueEmail'
  <2>1. /\ \A v \in UserId : v # u => users'[v] = users[v]
        /\ Exists(u)
        /\ users'[u].email = IF "email" \in sent THEN e ELSE users[u].email
        /\ "email" \in sent => \A v \in UserId : Exists(v) /\ users[v].email = e => v = u
    BY <1>1, <1>4 DEF PatchUser, EmailFree, FoundByEmail, UserDoc
  <2> QED
    BY <2>1 DEF UniqueEmail, Exists
<1>5. ASSUME NEW u \in UserId, DeleteUser(u)
      PROVE  UniqueEmail'
  <2>1. /\ \A v \in UserId : v # u => users'[v] = users[v]
        /\ users'[u].state = "deleted"
    BY <1>1, <1>5 DEF DeleteUser, NoUser
  <2> QED
    BY <2>1 DEF UniqueEmail, Exists
<1> QED
  BY <1>2, <1>3, <1>4, <1>5, UsersStep

(* The unique index alone keeps emails apart, for any number of requests that
   create accounts and change addresses at once. *)
THEOREM EmailsUnique == Spec => []UniqueEmail
<1>1. Init => TypeOK /\ UniqueEmail
  <2>1. Init => UniqueEmail
    BY StorageAssumption DEF Init, StorageInit, UniqueEmail, Exists
  <2> QED
    BY <2>1, InitTypes
<1>2. TypeOK /\ UniqueEmail /\ [Next]_vars => TypeOK' /\ UniqueEmail'
  BY NextTypes, UniqueEmailStep
<1> QED
  BY <1>1, <1>2, PTL DEF Spec

(* What a step does to the tokens: nothing, or one of the repository's writes, or
   what the TTL monitor does. *)
LEMMA TokensStep ==
  ASSUME TypeOK, [Next]_vars
  PROVE  \/ UNCHANGED tokens
         \/ \E t \in Token : \E u, e : StoreToken(t, u, e)
         \/ \E t \in Token : RevokeToken(t) \/ PurgeExpired(t)
<1>1. CASE UNCHANGED vars
  BY <1>1 DEF vars, storageVars
<1>2. ASSUME NEW p \in AuthProc, AuthStep(p)
      PROVE  \/ UNCHANGED tokens
             \/ \E t \in Token : \E u, e : StoreToken(t, u, e)
             \/ \E t \in Token : RevokeToken(t)
  <2>1. CASE Claim(p)
    <3>1. req[p].token \in Token
      BY <2>1 DEF Claim, At, TypeOK, AuthTypeOK, HasSubject
    <3> QED
      BY <2>1, <3>1 DEF Claim
  <2>2. CASE Store(p)
    BY <2>2 DEF Store
  <2>3. CASE WipeNext(p)
    BY <2>3 DEF WipeNext, RevokeNext
  <2>4. CASE ~Claim(p) /\ ~Store(p) /\ ~WipeNext(p)
    BY <1>2, <2>4 DEF AuthStep, AuthProgress, LoginBegin, RefreshBegin, LoginFind,
      LoginCompare, RefreshFind, RefreshUser, WipeBegin, WipeEnd, Fail, storageVars
  <2> QED
    BY <2>1, <2>2, <2>3, <2>4
<1>3. ASSUME NEW p \in UserProc, UserStep(p)
      PROVE  UNCHANGED tokens \/ \E t \in Token : RevokeToken(t)
  BY <1>3 DEF UserStep, UserProgress, CreateBegin, CreateInsert, UpdateBegin, UpdateRead,
    UpdatePatch, DeleteBegin, DeleteRow, DeleteScan, DeleteRevoke, DeleteEnd, JobFail,
    RevokeNext, storageVars
<1>4. ASSUME Tick \/ \E t \in Token : PurgeExpired(t)
      PROVE  UNCHANGED tokens \/ \E t \in Token : PurgeExpired(t)
  BY <1>4 DEF Tick
<1> QED
  BY <1>1, <1>2, <1>3, <1>4 DEF Next

LEMMA DeletedStaysDeleted ==
  ASSUME TypeOK, [Next]_vars, NEW u \in UserId, users[u].state = "deleted"
  PROVE  users'[u] = users[u]
<1>1. users \in [UserId -> UserDoc]
  BY DEF TypeOK, StorageTypeOK
<1> QED
  BY <1>1, UsersStep DEF InsertUser, PatchUser, DeleteUser, Exists

LEMMA RevokedStaysRevoked ==
  ASSUME TypeOK, [Next]_vars, NEW t \in Token, tokens[t].state # "unborn", ~Live(t)
  PROVE  ~Live(t)'
<1>1. StorageTypeOK /\ tokens \in [Token -> TokenDoc]
  BY DEF TypeOK, StorageTypeOK
<1>2. ASSUME NEW s \in Token, NEW u, NEW e, StoreToken(s, u, e)
      PROVE  ~Live(t)'
  BY <1>1, <1>2 DEF StoreToken, Live
<1>3. ASSUME NEW s \in Token, RevokeToken(s)
      PROVE  ~Live(t)'
  BY <1>1, <1>3, Revoked DEF Live
<1>4. ASSUME NEW s \in Token, PurgeExpired(s)
      PROVE  ~Live(t)'
  BY <1>1, <1>4 DEF PurgeExpired, TokenDoc, Live
<1>5. CASE UNCHANGED tokens
  BY <1>5 DEF Live
<1> QED
  BY <1>2, <1>3, <1>4, <1>5, TokensStep

(* No request, however old what it read, writes a deleted row again or makes a
   revoked or purged token valid again. *)
THEOREM NothingComesBack == Spec => NoWayBack
<1>1. TypeOK /\ [Next]_vars =>
        /\ \A u \in UserId : users[u].state = "deleted" => users'[u] = users[u]
        /\ \A t \in Token : tokens[t].state # "unborn" /\ ~Live(t) => ~Live(t)'
  BY DeletedStaysDeleted, RevokedStaysRevoked
<1> QED
  BY <1>1, InitTypes, NextTypes, PTL DEF Spec, NoWayBack

-----------------------------------------------------------------------------
(* What a step of the system does to one request: it leaves it alone, ends it,
   or takes it from one repository call to the next. *)

Keeps(q) == /\ req'[q].token = req[q].token
            /\ req'[q].user = req[q].user
            /\ req'[q].now = req[q].now

MovesOn(q, from, to) == req[q].pc = from /\ req'[q].pc = to

RequestMoves(q) ==
  \/ req'[q] = req[q]
  \/ req'[q] = NoRequest
  \/ MovesOn(q, "idle", "lookup") /\ Keeps(q)
  \/ /\ MovesOn(q, "lookup", "compare")
     /\ Exists(req'[q].user)
     /\ req'[q].token = req[q].token /\ req'[q].now = req[q].now
  \/ /\ MovesOn(q, "compare", "store")
     /\ req'[q].token = req[q].token /\ req'[q].user = req[q].user
     /\ req'[q].now = clock
  \/ /\ MovesOn(q, "idle", "find")
     /\ req'[q].token \in held /\ req'[q].user = req[q].user
     /\ req'[q].now = clock
  \/ /\ MovesOn(q, "find", "reuse") \/ MovesOn(q, "find", "user")
     /\ req'[q].pc = "user" => BeforeExpiry(req[q].now, req[q].token)
     /\ req'[q].user = tokens[req[q].token].user
     /\ req'[q].token = req[q].token /\ req'[q].now = req[q].now
  \/ MovesOn(q, "user", "claim") /\ Exists(req[q].user) /\ Keeps(q)
  \/ MovesOn(q, "claim", "store") /\ Keeps(q)
  \/ MovesOn(q, "reuse", "wipe") /\ Keeps(q) /\ req'[q].todo = LiveOf(req[q].user)

LEMMA RequestStep ==
  ASSUME TypeOK, [Next]_vars, NEW q \in AuthProc
  PROVE  RequestMoves(q)
<1>a. req \in [AuthProc -> Request]
  BY DEF TypeOK, AuthTypeOK
<1>1. CASE UNCHANGED req
  BY <1>1 DEF RequestMoves
<1>2. ASSUME NEW p \in AuthProc, AuthStep(p), p # q
      PROVE  req'[q] = req[q]
  BY <1>a, <1>2 DEF AuthStep, AuthProgress, LoginBegin, RefreshBegin, LoginFind,
    LoginCompare, RefreshFind, RefreshUser, Claim, WipeBegin, WipeNext, WipeEnd, Store,
    Fail, Goto, Answer, authVars
<1>3. CASE AuthStep(q)
  <2>a. req[q] \in Request
    BY <1>a
  <2>1. ASSUME NEW raw \in RawEmail, LoginBegin(q, raw)
        PROVE  RequestMoves(q)
    BY <1>a, <2>a, <2>1 DEF LoginBegin, At, Request, RequestMoves, MovesOn, Keeps
  <2>2. ASSUME NEW t \in Token, RefreshBegin(q, t)
        PROVE  RequestMoves(q)
    BY <1>a, <2>a, <2>2 DEF RefreshBegin, At, Request, RequestMoves, MovesOn
  <2>3. CASE LoginFind(q)
    <3>1. CASE Answer(q)
      BY <1>a, <3>1 DEF Answer, RequestMoves
    <3>2. ASSUME NEW u \in FoundByEmail(req[q].email),
                 req' = [req EXCEPT ![q] = [@ EXCEPT !.pc = "compare", !.user = u]]
          PROVE  RequestMoves(q)
      <4>1. req'[q] = [req[q] EXCEPT !.pc = "compare", !.user = u]
        BY <1>a, <3>2
      <4>2. /\ req'[q].pc = "compare" /\ req'[q].user = u
            /\ req'[q].token = req[q].token /\ req'[q].now = req[q].now
        BY <2>a, <4>1 DEF Request
      <4>3. req[q].pc = "lookup" /\ Exists(u)
        BY <2>3, <3>2 DEF LoginFind, At, FoundByEmail
      <4> QED
        BY <4>2, <4>3 DEF RequestMoves, MovesOn
    <3> QED
      BY <2>3, <3>1, <3>2 DEF LoginFind
  <2>4. CASE LoginCompare(q)
    <3>1. CASE Answer(q)
      BY <1>a, <3>1 DEF Answer, RequestMoves
    <3>2. CASE req' = [req EXCEPT ![q] = [@ EXCEPT !.pc = "store", !.now = clock]]
      <4>1. req'[q] = [req[q] EXCEPT !.pc = "store", !.now = clock]
        BY <1>a, <3>2
      <4>2. /\ req'[q].pc = "store" /\ req'[q].now = clock
            /\ req'[q].token = req[q].token /\ req'[q].user = req[q].user
        BY <2>a, <4>1 DEF Request
      <4>3. req[q].pc = "compare"
        BY <2>4 DEF LoginCompare, At
      <4> QED
        BY <4>2, <4>3 DEF RequestMoves, MovesOn
    <3> QED
      BY <2>4, <3>1, <3>2 DEF LoginCompare
  <2>5. CASE RefreshFind(q)
    <3> DEFINE r(pc) == [req[q] EXCEPT !.pc = pc, !.user = tokens[req[q].token].user]
    <3>1. ASSUME NEW pc \in {"reuse", "user"}, req' = [req EXCEPT ![q] = r(pc)],
                 pc = "user" => BeforeExpiry(req[q].now, req[q].token)
          PROVE  RequestMoves(q)
      <4>1. req'[q] = r(pc)
        BY <1>a, <3>1
      <4>2. /\ r(pc).pc = pc
            /\ r(pc).user = tokens[req[q].token].user
            /\ r(pc).token = req[q].token /\ r(pc).now = req[q].now
        BY <2>a DEF Request
      <4>3. req[q].pc = "find"
        BY <2>5 DEF RefreshFind, At
      <4> QED
        BY <3>1, <4>1, <4>2, <4>3 DEF RequestMoves, MovesOn
    <3>2. Answer(q) => RequestMoves(q)
      BY <1>a DEF Answer, RequestMoves
    <3> QED
      BY <2>5, <3>1, <3>2 DEF RefreshFind
  <2>6. CASE RefreshUser(q)
    BY <1>a, <2>a, <2>6
       DEF RefreshUser, Goto, Answer, At, Request, RequestMoves, MovesOn, Keeps
  <2>7. CASE Claim(q)
    BY <1>a, <2>a, <2>7 DEF Claim, Goto, Answer, At, Request, RequestMoves, MovesOn, Keeps
  <2>8. CASE WipeBegin(q)
    BY <1>a, <2>a, <2>8 DEF WipeBegin, RevokeScan, At, Request, RequestMoves, MovesOn, Keeps
  <2>9. CASE WipeNext(q)
    BY <2>9 DEF WipeNext, authVars, RequestMoves
  <2>10. CASE WipeEnd(q) \/ Store(q) \/ Fail(q)
    BY <1>a, <2>10 DEF WipeEnd, Store, Fail, Answer, RequestMoves
  <2> QED
    BY <1>3, <2>1, <2>2, <2>3, <2>4, <2>5, <2>6, <2>7, <2>8, <2>9, <2>10
       DEF AuthStep, AuthProgress
<1> QED
  BY <1>1, <1>2, <1>3 DEF Next, vars, authVars, RequestMoves

(* What has been stored is revoked and removed, and never rewritten. *)
LEMMA DocsKept ==
  ASSUME TypeOK, [Next]_vars, NEW t \in Token, Born(t)
  PROVE  /\ Born(t)'
         /\ tokens'[t].user = tokens[t].user
         /\ tokens'[t].expires = tokens[t].expires
<1>1. StorageTypeOK /\ tokens \in [Token -> TokenDoc]
  BY DEF TypeOK, StorageTypeOK
<1>2. ASSUME NEW s \in Token, NEW u, NEW e, StoreToken(s, u, e)
      PROVE  tokens'[t] = tokens[t]
  BY <1>1, <1>2 DEF StoreToken, Born
<1>3. ASSUME NEW s \in Token, RevokeToken(s)
      PROVE  /\ tokens'[t].state = tokens[t].state
             /\ tokens'[t].user = tokens[t].user
             /\ tokens'[t].expires = tokens[t].expires
  BY <1>1, <1>3, Revoked
<1>4. ASSUME NEW s \in Token, PurgeExpired(s)
      PROVE  /\ tokens'[t].state \in {tokens[t].state, "purged"}
             /\ tokens'[t].user = tokens[t].user
             /\ tokens'[t].expires = tokens[t].expires
  BY <1>1, <1>4 DEF PurgeExpired, TokenDoc
<1> QED
  BY <1>2, <1>3, <1>4, TokensStep DEF Born

(* A token is born, and a chain grows, by a Store alone. *)
LEMMA BirthStep ==
  ASSUME TypeOK, [Next]_vars
  PROVE  \/ \E p \in AuthProc : Store(p)
         \/ /\ UNCHANGED <<held, lineage>>
            /\ \A t \in Token : Born(t)' = Born(t) /\ (Live(t)' => Live(t))
<1> DEFINE NoBirth == \A t \in Token : Born(t)' = Born(t) /\ (Live(t)' => Live(t))
<1>a. StorageTypeOK /\ tokens \in [Token -> TokenDoc]
  BY DEF TypeOK, StorageTypeOK
<1>b. ASSUME NEW t \in Token, RevokeToken(t) PROVE NoBirth
  BY <1>a, <1>b, Revoked DEF Born, Live
<1>c. ASSUME NEW t \in Token, PurgeExpired(t) PROVE NoBirth
  BY <1>a, <1>c DEF PurgeExpired, TokenDoc, Born, Live
<1>d. UNCHANGED tokens => NoBirth
  BY DEF Born, Live
<1>1. ASSUME NEW p \in AuthProc, AuthStep(p), ~Store(p)
      PROVE  UNCHANGED <<held, lineage>> /\ NoBirth
  <2>1. CASE Claim(p)
    <3>1. req[p].token \in Token
      BY <2>1 DEF Claim, At, TypeOK, AuthTypeOK, HasSubject
    <3> QED
      BY <1>b, <1>d, <2>1, <3>1 DEF Claim
  <2>2. CASE WipeNext(p)
    BY <1>b, <2>2 DEF WipeNext, RevokeNext, authVars
  <2>3. CASE ~Claim(p) /\ ~WipeNext(p)
    <3>1. UNCHANGED <<tokens, held, lineage>>
      BY <1>1, <2>3 DEF AuthStep, AuthProgress, LoginBegin, RefreshBegin, LoginFind,
        LoginCompare, RefreshFind, RefreshUser, WipeBegin, WipeEnd, Fail, storageVars
    <3> QED
      BY <1>d, <3>1
  <2> QED
    BY <2>1, <2>2, <2>3
<1>2. ASSUME NEW p \in UserProc, UserStep(p), UNCHANGED authVars
      PROVE  UNCHANGED <<held, lineage>> /\ NoBirth
  <2>1. UNCHANGED tokens \/ \E t \in Token : RevokeToken(t)
    BY <1>2 DEF UserStep, UserProgress, CreateBegin, CreateInsert, UpdateBegin, UpdateRead,
      UpdatePatch, DeleteBegin, DeleteRow, DeleteScan, DeleteRevoke, DeleteEnd, JobFail,
      RevokeNext, storageVars
  <2> QED
    BY <1>b, <1>d, <1>2, <2>1 DEF authVars
<1>3. ASSUME Tick \/ \E t \in Token : PurgeExpired(t), UNCHANGED <<authVars, userVars>>
      PROVE  UNCHANGED <<held, lineage>> /\ NoBirth
  BY <1>c, <1>d, <1>3 DEF Tick, authVars
<1>4. UNCHANGED vars => UNCHANGED <<held, lineage>> /\ NoBirth
  BY <1>d DEF vars, storageVars, authVars
<1> HIDE DEF NoBirth
<1>5. (\E p \in AuthProc : Store(p)) \/ (UNCHANGED <<held, lineage>> /\ NoBirth)
  BY <1>1, <1>2, <1>3, <1>4 DEF Next
<1> QED
  BY <1>5 DEF NoBirth

(* What a request knows of the token it presents, kept up from its first call to
   its last: that it was stored, whose it is, and when, by the instant the request
   has read, it expires. *)
Presents(p) ==
  LET r == req[p]
      t == req[p].token
  IN  t \in Token =>
        /\ Born(t)
        /\ tokens[t].expires <= r.now + RefreshTTL
        /\ r.pc \in {"user", "claim", "store"} => r.now < tokens[t].expires
        /\ r.pc \in {"user", "claim", "store", "reuse", "wipe"} => r.user = tokens[t].user

PresentedInv ==
  /\ \A p \in AuthProc : req[p].now <= clock /\ Presents(p)
  /\ \A t \in Token : Born(t) => tokens[t].expires <= clock + RefreshTTL
  /\ \A t \in held : Born(t)
  /\ \A t \in Token : parent[t] \in Token => Born(t) /\ Born(parent[t])
  /\ ExpiryChain

LEMMA ClockGoesOn ==
  ASSUME TypeOK, [Next]_vars
  PROVE  clock \in Nat /\ clock' \in Nat /\ clock <= clock'
<1>1. clock \in Nat
  BY StorageAssumption DEF TypeOK, StorageTypeOK
<1>2. clock' \in {clock, clock + 1}
  BY DEF Next, vars, storageVars, AuthStep, AuthProgress, LoginBegin, RefreshBegin,
    LoginFind, LoginCompare, RefreshFind, RefreshUser, Claim, WipeBegin, WipeNext, WipeEnd,
    Store, Fail, UserStep, UserProgress, CreateBegin, CreateInsert, UpdateBegin, UpdateRead,
    UpdatePatch, DeleteBegin, DeleteRow, DeleteScan, DeleteRevoke, DeleteEnd, JobFail,
    Tick, PurgeExpired
<1> QED
  BY <1>1, <1>2

(* A request keeps its knowledge from call to call. *)
LEMMA PresentsKept ==
  ASSUME TypeOK, PresentedInv, [Next]_vars, NEW q \in AuthProc
  PROVE  req'[q].now <= clock' /\ Presents(q)'
<1>a. /\ req[q] \in Request /\ HasSubject(req[q])
      /\ None \notin Token /\ RefreshTTL \in Nat
      /\ held \subseteq Token
      /\ tokens \in [Token -> TokenDoc]
  BY StorageAssumption, AuthAssumption DEF TypeOK, AuthTypeOK, StorageTypeOK
<1>b. clock \in Nat /\ clock' \in Nat /\ clock <= clock'
  BY ClockGoesOn
<1>c. \A t \in Token : Born(t) =>
        /\ Born(t)' /\ tokens'[t].user = tokens[t].user
        /\ tokens'[t].expires = tokens[t].expires
        /\ tokens[t].expires \in Nat
  BY <1>a, DocsKept DEF TokenDoc
<1>d. req[q].now \in Nat /\ req[q].now <= clock /\ Presents(q)
  BY <1>a DEF PresentedInv, Request
<1>1. CASE req'[q] = req[q]
  BY <1>b, <1>c, <1>d, <1>1 DEF Presents
<1>2. CASE req'[q] = NoRequest
  BY <1>a, <1>b, <1>2 DEF Presents, NoRequest
<1>3. CASE req'[q].token = None /\ req'[q].now \in {req[q].now, clock}
  BY <1>a, <1>b, <1>d, <1>3 DEF Presents
<1>4. CASE MovesOn(q, "idle", "find") /\ req'[q].token \in held /\ req'[q].now = clock
  <2>1. req'[q].token \in Token /\ Born(req'[q].token)
    BY <1>a, <1>4 DEF PresentedInv
  <2> QED
    BY <1>b, <1>c, <1>4, <2>1 DEF Presents, PresentedInv, MovesOn
<1>5. CASE /\ MovesOn(q, "find", "reuse") \/ MovesOn(q, "find", "user")
           /\ req'[q].pc = "user" => BeforeExpiry(req[q].now, req[q].token)
           /\ req'[q].user = tokens[req[q].token].user
           /\ req'[q].token = req[q].token /\ req'[q].now = req[q].now
  BY <1>b, <1>c, <1>d, <1>5 DEF Presents, MovesOn, BeforeExpiry
<1>6. CASE /\ \/ MovesOn(q, "user", "claim") \/ MovesOn(q, "claim", "store")
              \/ MovesOn(q, "reuse", "wipe")
           /\ Keeps(q)
  BY <1>b, <1>c, <1>d, <1>6 DEF Presents, MovesOn, Keeps
<1>7. req[q].pc \in {"idle", "lookup", "compare"} => req[q].token = None
  BY <1>a DEF HasSubject
<1>8. RequestMoves(q)
  BY RequestStep
<1> QED
  BY <1>1, <1>2, <1>3, <1>4, <1>5, <1>6, <1>7, <1>8 DEF RequestMoves, MovesOn, Keeps

(* A session is stored: its lifetime begins at the instant its request has read,
   which lay within the lifetime of the token that was presented. *)
LEMMA StoredLater ==
  ASSUME TypeOK, PresentedInv, NEW p \in AuthProc, Store(p)
  PROVE  /\ \A t \in Token : Born(t)' => tokens'[t].expires <= clock + RefreshTTL
         /\ \A t \in held' : Born(t)'
         /\ \A t \in Token : parent'[t] \in Token => Born(t)' /\ Born(parent[t])'
         /\ ExpiryChain'
<1> DEFINE old == req[p].token
           now == req[p].now
<1>1. PICK t \in Token :
        /\ StoreToken(t, req[p].user, now + RefreshTTL)
        /\ parent' = [parent EXCEPT ![t] = old]
        /\ held' \in {held, held \cup {t}}
  BY DEF Store
<1>2. /\ parent \in [Token -> Token \cup {None}] /\ None \notin Token
      /\ tokens \in [Token -> TokenDoc] /\ held \subseteq Token
      /\ old \in Token \cup {None} /\ now \in Nat /\ RefreshTTL \in Nat
      /\ clock \in Nat /\ now <= clock
  BY StorageAssumption, AuthAssumption
     DEF TypeOK, AuthTypeOK, StorageTypeOK, Request, PresentedInv
<1>3. /\ ~Born(t) /\ Born(t)' /\ tokens'[t].expires = now + RefreshTTL
      /\ \A s \in Token : s # t => tokens'[s] = tokens[s] /\ (Born(s)' = Born(s))
  BY <1>1, <1>2 DEF StoreToken, Born
<1>4. /\ parent'[t] = old
      /\ \A s \in Token : s # t => parent'[s] = parent[s]
  BY <1>1, <1>2
<1>5. old \in Token => /\ old # t /\ Born(old)
                       /\ tokens[old].expires <= now + RefreshTTL
                       /\ now < tokens[old].expires
  BY <1>3 DEF PresentedInv, Presents, Store, At
<1>6. \A s \in Token : s # t /\ parent[s] \in Token => parent[s] # t
  BY <1>3 DEF PresentedInv
<1>7. \A s \in Token : tokens[s].expires \in Nat
  BY <1>2 DEF TokenDoc
<1>8. \A s \in Token : Born(s)' => tokens'[s].expires <= clock + RefreshTTL
  BY <1>2, <1>3 DEF PresentedInv
<1>9. \A s \in held' : Born(s)'
  BY <1>1, <1>2, <1>3 DEF PresentedInv
<1>10. \A s \in Token : parent'[s] \in Token => Born(s)' /\ Born(parent[s])'
  <2> SUFFICES ASSUME NEW s \in Token, parent'[s] \in Token
               PROVE  Born(s)' /\ Born(parent[s])'
    OBVIOUS
  <2>1. CASE s = t
    BY <1>3, <1>4, <1>5, <2>1 DEF Born
  <2>2. CASE s # t
    <3>1. /\ parent'[s] = parent[s] /\ parent[s] # t
          /\ Born(s) /\ Born(parent[s])
      BY <1>4, <1>6, <2>2 DEF PresentedInv
    <3> QED
      BY <1>3, <2>2, <3>1 DEF Born
  <2> QED
    BY <2>1, <2>2
<1>11. ExpiryChain'
  <2> SUFFICES ASSUME NEW s \in Token, parent'[s] # None
               PROVE  /\ tokens'[parent'[s]].expires <= tokens'[s].expires
                      /\ tokens'[s].expires < tokens'[parent'[s]].expires + RefreshTTL
    BY DEF ExpiryChain
  <2>1. CASE s = t
    <3>1. old \in Token /\ parent'[s] = old /\ tokens'[old] = tokens[old]
      BY <1>2, <1>3, <1>4, <1>5, <2>1
    <3>2. tokens[old].expires \in Nat
      BY <1>7, <3>1
    <3> QED
      BY <1>2, <1>3, <1>5, <2>1, <3>1, <3>2
  <2>2. CASE s # t
    <3>1. parent'[s] = parent[s] /\ parent[s] \in Token /\ parent[s] # t
      BY <1>2, <1>4, <1>6, <2>2
    <3> QED
      BY <1>3, <2>2, <3>1 DEF PresentedInv, ExpiryChain
  <2> QED
    BY <2>1, <2>2
<1> QED
  BY <1>8, <1>9, <1>10, <1>11

LEMMA NextPresented == TypeOK /\ PresentedInv /\ [Next]_vars => PresentedInv'
<1> SUFFICES ASSUME TypeOK, PresentedInv, [Next]_vars PROVE PresentedInv'
  OBVIOUS
<1>a. /\ clock \in Nat /\ clock' \in Nat /\ clock <= clock' /\ RefreshTTL \in Nat
      /\ held \subseteq Token
      /\ parent \in [Token -> Token \cup {None}]
      /\ None \notin Token
      /\ tokens \in [Token -> TokenDoc]
  BY ClockGoesOn, StorageAssumption, AuthAssumption DEF TypeOK, AuthTypeOK, StorageTypeOK
<1>1. \A p \in AuthProc : req'[p].now <= clock' /\ Presents(p)'
  BY PresentsKept
<1>2. ASSUME NEW p \in AuthProc, Store(p)
      PROVE  PresentedInv'
  <2>1. clock' = clock
    BY <1>2 DEF Store
  <2> QED
    BY <1>1, <1>2, <2>1, StoredLater DEF PresentedInv
<1>3. ASSUME UNCHANGED <<held, lineage>>,
             \A t \in Token : Born(t)' = Born(t)
      PROVE  PresentedInv'
  <2>1. \A t \in Token : Born(t) => /\ tokens'[t].expires = tokens[t].expires
                                    /\ tokens[t].expires \in Nat
    BY <1>a, DocsKept DEF TokenDoc
  <2>2. held' = held /\ parent' = parent
    BY <1>3 DEF lineage
  <2>3. \A t \in Token : Born(t)' => tokens'[t].expires <= clock' + RefreshTTL
    BY <1>a, <1>3, <2>1 DEF PresentedInv
  <2>4. ExpiryChain'
    <3> SUFFICES ASSUME NEW s \in Token, parent[s] # None
                 PROVE  /\ tokens'[parent[s]].expires <= tokens'[s].expires
                        /\ tokens'[s].expires < tokens'[parent[s]].expires + RefreshTTL
      BY <2>2 DEF ExpiryChain
    <3>1. parent[s] \in Token /\ Born(s) /\ Born(parent[s])
      BY <1>a DEF PresentedInv
    <3> QED
      BY <2>1, <3>1 DEF PresentedInv, ExpiryChain
  <2>5. \A t \in held' : Born(t)'
    BY <1>a, <1>3, <2>2 DEF PresentedInv
  <2>6. \A t \in Token : parent'[t] \in Token => Born(t)' /\ Born(parent[t])'
    <3> SUFFICES ASSUME NEW t \in Token, parent[t] \in Token
                 PROVE  Born(t)' /\ Born(parent[t])'
      BY <2>2
    <3>1. Born(t) /\ Born(parent[t])
      BY DEF PresentedInv
    <3>2. Born(parent[t])' = Born(parent[t])
      BY <1>3, <2>2 DEF Born
    <3> QED
      BY <1>3, <3>1, <3>2
  <2> QED
    BY <1>1, <2>3, <2>4, <2>5, <2>6 DEF PresentedInv
<1> QED
  BY <1>2, <1>3, BirthStep

LEMMA PresentedInvariant == Spec => []TypeOK /\ []PresentedInv
<1>1. Init => TypeOK /\ PresentedInv
  <2>1. Init => PresentedInv
    BY StorageAssumption
       DEF Init, StorageInit, AuthInit, NoToken, NoRequest, PresentedInv, Presents,
           ExpiryChain, Born
  <2> QED
    BY <2>1, InitTypes
<1>2. TypeOK /\ PresentedInv /\ [Next]_vars => TypeOK' /\ PresentedInv'
  BY NextTypes, NextPresented
<1> QED
  BY <1>1, <1>2, PTL DEF Spec

(* However long a rotation takes between reading the clock and its insert, its new
   token never expires before its parent, and its lifetime begins within it. *)
THEOREM LifetimesConnect == Spec => []ExpiryChain
<1>1. PresentedInv => ExpiryChain
  BY DEF PresentedInv
<1> QED
  BY <1>1, PresentedInvariant, PTL

(* A reuse is wiped on behalf of the user whose token was presented, and a DELETE
   on behalf of the user whose row it removed, as both remember them. *)
LEMMA RevocationStep ==
  ASSUME TypeOK, PresentedInv, [Next]_vars,
         NEW t \in Token, Live(t), tokens'[t].revoked
  PROVE  \/ \E p \in AuthProc : At(p, "claim") /\ req[p].token = t
         \/ \E p \in AuthProc : /\ At(p, "wipe")
                                /\ tokens[req[p].token].user = tokens[t].user
         \/ \E p \in UserProc : JobAt(p, "revoke") /\ job[p].user = tokens[t].user
<1> DEFINE Accounted ==
      \/ \E p \in AuthProc : At(p, "claim") /\ req[p].token = t
      \/ \E p \in AuthProc : /\ At(p, "wipe")
                             /\ tokens[req[p].token].user = tokens[t].user
      \/ \E p \in UserProc : JobAt(p, "revoke") /\ job[p].user = tokens[t].user
<1>a. /\ tokens \in [Token -> TokenDoc] /\ tokens' # tokens
      /\ \A s \in Token : RevokeToken(s) => s = t
  BY DEF TypeOK, StorageTypeOK, RevokeToken, Live
<1>1. ASSUME NEW p \in AuthProc, AuthStep(p)
      PROVE  Accounted
  <2>a. HasSubject(req[p]) /\ Presents(p)
    BY DEF TypeOK, AuthTypeOK, PresentedInv
  <2>1. CASE Claim(p)
    BY <1>a, <2>a, <2>1 DEF Claim, At, HasSubject
  <2>2. CASE WipeNext(p)
    <3>1. At(p, "wipe") /\ tokens[t].user = req[p].user
      BY <1>a, <2>2 DEF WipeNext, RevokeNext, LiveOf
    <3> QED
      BY <2>a, <3>1 DEF Presents, HasSubject, At
  <2>3. CASE Store(p)
    <3>1. PICK s \in Token : StoreToken(s, req[p].user, req[p].now + RefreshTTL)
      BY <2>3 DEF Store
    <3>2. s # t /\ tokens'[t] = tokens[t]
      BY <1>a, <3>1 DEF StoreToken, Live
    <3> QED
      BY <3>2 DEF Live
  <2>4. CASE ~Claim(p) /\ ~WipeNext(p) /\ ~Store(p)
    BY <1>a, <1>1, <2>4 DEF AuthStep, AuthProgress, LoginBegin, RefreshBegin, LoginFind,
      LoginCompare, RefreshFind, RefreshUser, WipeBegin, WipeEnd, Fail, storageVars
  <2> QED
    BY <2>1, <2>2, <2>3, <2>4
<1>2. ASSUME NEW p \in UserProc, UserStep(p)
      PROVE  Accounted
  <2>1. CASE DeleteRevoke(p)
    BY <1>a, <2>1 DEF DeleteRevoke, RevokeNext, LiveOf
  <2>2. CASE ~DeleteRevoke(p)
    BY <1>a, <1>2, <2>2 DEF UserStep, UserProgress, CreateBegin, CreateInsert, UpdateBegin,
      UpdateRead, UpdatePatch, DeleteBegin, DeleteRow, DeleteScan, DeleteEnd, JobFail,
      storageVars
  <2> QED
    BY <2>1, <2>2
<1>3. ~Tick /\ \A s \in Token : ~PurgeExpired(s)
  <2>1. ASSUME NEW s \in Token, PurgeExpired(s) PROVE FALSE
    BY <1>a, <2>1 DEF PurgeExpired, Live
  <2> QED
    BY <1>a, <2>1 DEF Tick
<1>4. ~UNCHANGED vars
  BY <1>a DEF vars, storageVars
<1> QED
  BY <1>1, <1>2, <1>3, <1>4 DEF Next

(* No order of requests, however many calls ago they learnt whose token it is,
   costs a user a session for what another user's tokens or account met. *)
THEOREM RevocationsStayWithTheUser == Spec => RevocationStaysWithUser
<1>1. TypeOK /\ PresentedInv /\ [Next]_vars =>
        \A t \in Token : Live(t) /\ tokens'[t].revoked =>
          \/ \E p \in AuthProc : At(p, "claim") /\ req[p].token = t
          \/ \E p \in AuthProc : /\ At(p, "wipe")
                                 /\ tokens[req[p].token].user = tokens[t].user
          \/ \E p \in UserProc : JobAt(p, "revoke") /\ job[p].user = tokens[t].user
  BY RevocationStep
<1> QED
  BY <1>1, PresentedInvariant, PTL DEF Spec, RevocationStaysWithUser

-----------------------------------------------------------------------------
(* A row that stays is written by the patch of an update alone. *)
LEMMA RowStep ==
  ASSUME TypeOK, [Next]_vars, NEW u \in UserId, Exists(u), Exists(u)'
  PROVE  \/ users'[u] = users[u]
         \/ \E p \in UserProc : /\ JobAt(p, "patch")
                                /\ PatchUser(job[p].user, job[p].sent, job[p].name, job[p].email)
<1>a. users \in [UserId -> UserDoc]
  BY DEF TypeOK, StorageTypeOK
<1>1. ASSUME NEW p \in UserProc, UserStep(p)
      PROVE  \/ users'[u] = users[u]
             \/ /\ JobAt(p, "patch")
                /\ PatchUser(job[p].user, job[p].sent, job[p].name, job[p].email)
  <2>1. CASE CreateInsert(p)
    BY <1>a, <2>1 DEF CreateInsert, InsertUser, Exists
  <2>2. CASE UpdatePatch(p)
    BY <2>2 DEF UpdatePatch
  <2>3. CASE DeleteRow(p)
    BY <1>a, <2>3 DEF DeleteRow, DeleteUser, NoUser, Exists
  <2>4. CASE ~CreateInsert(p) /\ ~UpdatePatch(p) /\ ~DeleteRow(p)
    BY <1>1, <2>4 DEF UserStep, UserProgress, CreateBegin, UpdateBegin, UpdateRead,
      DeleteBegin, DeleteScan, DeleteRevoke, DeleteEnd, JobFail, storageVars
  <2> QED
    BY <2>1, <2>2, <2>3, <2>4
<1>2. ASSUME NEW p \in AuthProc, AuthStep(p)
      PROVE  users' = users
  BY <1>2 DEF AuthStep, AuthProgress, LoginBegin, RefreshBegin, LoginFind, LoginCompare,
    RefreshFind, RefreshUser, Claim, WipeBegin, WipeNext, WipeEnd, Store, Fail, storageVars
<1>3. Tick \/ (\E t \in Token : PurgeExpired(t)) \/ UNCHANGED vars
        => users' = users
  BY DEF Tick, PurgeExpired, vars, storageVars
<1>4. \/ users' = users
      \/ \E p \in UserProc : UserStep(p)
  BY <1>2, <1>3 DEF Next
<1> QED
  BY <1>1, <1>4

(* Of two updates of a row that both read it before either wrote, neither undoes
   the other's field: for any number of them, in whatever order they write. *)
THEOREM UpdatesKeepEachOther == Spec => NoLostUpdate
<1>1. ASSUME TypeOK, [Next]_vars, NEW u \in UserId, Exists(u), Exists(u)'
      PROVE  /\ users'[u].name # users[u].name =>
                  \E p \in SentTo(u, "name") : users'[u].name = job[p].name
             /\ users'[u].email # users[u].email =>
                  \E p \in SentTo(u, "email") : users'[u].email = job[p].email
  <2>a. users \in [UserId -> UserDoc]
    BY <1>1 DEF TypeOK, StorageTypeOK
  <2>1. CASE users'[u] = users[u]
    BY <2>1
  <2>2. ASSUME NEW p \in UserProc, JobAt(p, "patch"),
               PatchUser(job[p].user, job[p].sent, job[p].name, job[p].email),
               users'[u] # users[u]
        PROVE  /\ users'[u].name # users[u].name =>
                    p \in SentTo(u, "name") /\ users'[u].name = job[p].name
               /\ users'[u].email # users[u].email =>
                    p \in SentTo(u, "email") /\ users'[u].email = job[p].email
    <3>1. job[p].user = u
      BY <2>a, <2>2 DEF PatchUser
    <3>2. /\ users'[u].name = IF "name" \in job[p].sent THEN job[p].name ELSE users[u].name
          /\ users'[u].email = IF "email" \in job[p].sent THEN job[p].email ELSE users[u].email
      BY <2>a, <2>2, <3>1 DEF PatchUser, UserDoc
    <3> QED
      BY <2>2, <3>1, <3>2 DEF SentTo
  <2> QED
    BY <1>1, <2>1, <2>2, RowStep
<1>2. TypeOK /\ [Next]_vars =>
        \A u \in UserId : Exists(u) /\ Exists(u)' =>
          /\ users'[u].name # users[u].name =>
               \E p \in SentTo(u, "name") : users'[u].name = job[p].name
          /\ users'[u].email # users[u].email =>
               \E p \in SentTo(u, "email") : users'[u].email = job[p].email
  BY <1>1
<1> QED
  BY <1>2, InitTypes, NextTypes, PTL DEF Spec, NoLostUpdate
=============================================================================
