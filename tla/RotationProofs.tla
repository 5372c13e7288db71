--------------------------- MODULE RotationProofs ---------------------------
(***************************************************************************)
(* Refresh-token rotation, proved: a chain of rotations has at most one    *)
(* token that works, no token is rotated twice, and the system implements  *)
(* SessionLineage.                                                         *)
(***************************************************************************)
EXTENDS UserManagementProofs

(* Nothing becomes live, no token is stored and no rotation gets past its claim:
   this is every step but a successful Claim and a Store. *)
LEMMA NothingNew ==
  ASSUME TypeOK, RotationInv, UNCHANGED <<held, lineage>>,
         \A t \in Token : Born(t)' = Born(t),
         \A t \in Token : Live(t)' => Live(t),
         \A p \in AuthProc : Rotating(p)' => Rotating(p) /\ req'[p].token = req[p].token,
         \A p \in AuthProc : req'[p].token \in Token => Born(req'[p].token)
  PROVE  RotationInv'
<1>1. /\ held' = held /\ root' = root /\ parent' = parent
      /\ root \in [Token -> Token \cup {None}]
      /\ held \subseteq Token
  BY DEF lineage, TypeOK, AuthTypeOK
<1>2. OneLivePerChain'
  BY <1>1 DEF RotationInv, OneLivePerChain
<1>3. OneRotationPerToken'
  BY <1>1 DEF RotationInv, OneRotationPerToken
<1>4. \A t \in Token : Born(t)' => root'[t] \in Token /\ Born(root[t])'
  BY <1>1 DEF RotationInv
<1>5. \A t \in Token : parent'[t] \in Token => Born(parent[t])' /\ ~Live(parent[t])'
  BY <1>1 DEF RotationInv
<1>6. \A p \in AuthProc : Rotating(p)' =>
        ~Live(req[p].token)' /\ \A t \in Token : parent'[t] # req'[p].token
  <2> TAKE p \in AuthProc
  <2> HAVE Rotating(p)'
  <2>1. Rotating(p) /\ req'[p].token = req[p].token
    OBVIOUS
  <2>2. req[p].token \in Token
    BY <2>1 DEF Rotating, TypeOK, AuthTypeOK, Request
  <2> QED
    BY <1>1, <2>1, <2>2 DEF RotationInv
<1>7. (\A t \in held : Born(t))'
  BY <1>1 DEF RotationInv
<1>8. (\A p \in AuthProc : req[p].token \in Token => Born(req[p].token))'
  OBVIOUS
<1> QED
  BY <1>2, <1>3, <1>4, <1>5, <1>6, <1>7, <1>8 DEF RotationInv

(* The compare-and-swap is won: the token was the one live token of its chain,
   so no other rotation of the chain is between its claim and its insert. *)
LEMMA ClaimWon ==
  ASSUME TypeOK, RotationInv, NEW p \in AuthProc, At(p, "claim"),
         RevokeToken(req[p].token), Goto(p, "store"), UNCHANGED <<held, lineage>>
  PROVE  RotationInv'
<1> DEFINE t == req[p].token
<1>1. /\ held' = held /\ root' = root /\ parent' = parent
      /\ root \in [Token -> Token \cup {None}]
      /\ req \in [AuthProc -> Request]
      /\ t \in Token
      /\ StorageTypeOK
  BY DEF lineage, TypeOK, AuthTypeOK, HasSubject, At
<1>2. Live(t)
  BY DEF RevokeToken
<1>3. /\ \A s \in Token : Born(s)' = Born(s)
      /\ \A s \in Token : Live(s)' = (Live(s) /\ s # t)
  BY <1>1, Revoked DEF Born, Live
<1>4. /\ \A q \in AuthProc : req'[q].token = req[q].token
      /\ \A q \in AuthProc : Rotating(q)' => Rotating(q) \/ q = p
  BY <1>1 DEF Goto, Rotating, At, Request
<1>5. \A q \in AuthProc : Rotating(q) => root[req[q].token] # root[t]
  BY <1>1, <1>2 DEF RotationInv, OneLivePerChain
<1>6. \A s \in Token : Live(s) /\ s # t => root[s] # root[t]
  BY <1>1, <1>2 DEF RotationInv, OneLivePerChain
<1>7. OneLivePerChain'
  <2>1. \A s, u \in Token : Live(s)' /\ Live(u)' /\ root'[s] = root'[u] => s = u
    BY <1>1, <1>3 DEF RotationInv, OneLivePerChain
  <2>2. \A q \in AuthProc, s \in Token :
          Rotating(q)' /\ Live(s)' => root'[req'[q].token] # root'[s]
    <3> TAKE q \in AuthProc, s \in Token
    <3> HAVE Rotating(q)' /\ Live(s)'
    <3>1. Live(s) /\ s # t /\ req'[q].token = req[q].token /\ (Rotating(q) \/ q = p)
      BY <1>3, <1>4
    <3>2. CASE q = p
      BY <1>1, <1>6, <3>1, <3>2
    <3>3. CASE Rotating(q)
      BY <1>1, <3>1, <3>3 DEF RotationInv, OneLivePerChain
    <3> QED
      BY <3>1, <3>2, <3>3
  <2>3. \A q, r \in AuthProc :
          Rotating(q)' /\ Rotating(r)' /\ root'[req'[q].token] = root'[req'[r].token]
            => q = r
    BY <1>1, <1>4, <1>5 DEF RotationInv, OneLivePerChain
  <2> QED
    BY <2>1, <2>2, <2>3 DEF OneLivePerChain
<1>8. OneRotationPerToken'
  BY <1>1 DEF RotationInv, OneRotationPerToken
<1>9. \A s \in Token : Born(s)' => root'[s] \in Token /\ Born(root[s])'
  BY <1>1, <1>3 DEF RotationInv
<1>10. \A s \in Token : parent'[s] \in Token => Born(parent[s])' /\ ~Live(parent[s])'
  BY <1>1, <1>3 DEF RotationInv
<1>11. \A q \in AuthProc : Rotating(q)' =>
         ~Live(req[q].token)' /\ \A s \in Token : parent'[s] # req'[q].token
  <2> SUFFICES ASSUME NEW q \in AuthProc, Rotating(q)'
               PROVE  ~Live(req[q].token)' /\ \A s \in Token : parent'[s] # req'[q].token
    OBVIOUS
  <2>1. CASE q = p
    BY <1>1, <1>2, <1>3, <1>4, <2>1 DEF RotationInv
  <2>2. CASE Rotating(q)
    <3>1. req[q].token \in Token
      BY <1>1, <2>2 DEF Rotating, Request
    <3> QED
      BY <1>1, <1>3, <1>4, <2>2, <3>1 DEF RotationInv
  <2> QED
    BY <1>4, <2>1, <2>2
<1>12. (\A s \in held : Born(s))'
  BY <1>1, <1>3 DEF RotationInv, TypeOK, AuthTypeOK
<1>13. (\A q \in AuthProc : req[q].token \in Token => Born(req[q].token))'
  BY <1>3, <1>4 DEF RotationInv
<1> QED
  BY <1>7, <1>8, <1>9, <1>10, <1>11, <1>12, <1>13 DEF RotationInv

(* A session is stored: the first of a chain of its own, or the only child of a
   token whose chain has no other live token and no other rotation under way. *)
LEMMA SessionStored ==
  ASSUME TypeOK, RotationInv, NEW p \in AuthProc, Store(p)
  PROVE  RotationInv'
<1> DEFINE old == req[p].token
<1>1. PICK t \in Token :
        /\ StoreToken(t, req[p].user, req[p].now + RefreshTTL)
        /\ root' = [root EXCEPT ![t] = IF old = None THEN t ELSE root[old]]
        /\ parent' = [parent EXCEPT ![t] = old]
        /\ held' \in {held, held \cup {t}}
  BY DEF Store
<1>2. /\ root \in [Token -> Token \cup {None}]
      /\ parent \in [Token -> Token \cup {None}]
      /\ req \in [AuthProc -> Request]
      /\ held \subseteq Token
      /\ old \in Token \cup {None}
      /\ None \notin Token
      /\ tokens \in [Token -> TokenDoc]
      /\ At(p, "store")
  BY StorageAssumption DEF TypeOK, AuthTypeOK, StorageTypeOK, Request, Store
<1>3. ~Born(t) /\ ~Live(t)
  BY <1>1 DEF StoreToken, Born, Live
<1>4. /\ \A s \in Token : Born(s)' = (Born(s) \/ s = t)
      /\ \A s \in Token : Live(s)' = (Live(s) \/ s = t)
  BY <1>1, <1>2, <1>3 DEF StoreToken, Born, Live
<1>5. \A s \in Token : s # t => root'[s] = root[s] /\ parent'[s] = parent[s]
  BY <1>1, <1>2
<1>6. /\ root'[t] = IF old = None THEN t ELSE root[old]
      /\ parent'[t] = old
  BY <1>1, <1>2
<1>7. \A q \in AuthProc :
        /\ Rotating(q)' => Rotating(q) /\ q # p /\ req'[q].token = req[q].token
        /\ req'[q].token \in Token => req'[q].token = req[q].token
  BY <1>2 DEF Store, Answer, NoRequest, Rotating, At, Request
<1>8. old # None => Rotating(p) /\ Born(old) /\ old # t
  BY <1>2, <1>3 DEF Rotating, RotationInv
<1>9. \A q \in AuthProc : Rotating(q) =>
        req[q].token \in Token /\ Born(req[q].token) /\ req[q].token # t
  BY <1>2, <1>3 DEF Rotating, Request, RotationInv
<1>10. \A s \in Token : Live(s) => root'[t] # root[s]
  <2> TAKE s \in Token
  <2> HAVE Live(s)
  <2>1. Born(s) /\ Born(root[s]) /\ root[s] \in Token
    BY DEF RotationInv, Live, Born
  <2>2. CASE old = None
    BY <1>3, <1>6, <2>1, <2>2
  <2>3. CASE old # None
    BY <1>6, <1>8, <2>3 DEF RotationInv, OneLivePerChain
  <2> QED
    BY <2>2, <2>3
<1>11. \A q \in AuthProc : Rotating(q) /\ q # p => root'[t] # root[req[q].token]
  <2> TAKE q \in AuthProc
  <2> HAVE Rotating(q) /\ q # p
  <2>1. Born(root[req[q].token]) /\ root[req[q].token] \in Token
    BY <1>9 DEF RotationInv
  <2>2. CASE old = None
    BY <1>3, <1>6, <2>1, <2>2
  <2>3. CASE old # None
    BY <1>6, <1>8, <2>3 DEF RotationInv, OneLivePerChain
  <2> QED
    BY <2>2, <2>3
<1>12. OneLivePerChain'
  <2>1. \A s, u \in Token : Live(s)' /\ Live(u)' /\ root'[s] = root'[u] => s = u
    BY <1>4, <1>5, <1>10 DEF RotationInv, OneLivePerChain
  <2>2. \A q \in AuthProc, s \in Token :
          Rotating(q)' /\ Live(s)' => root'[req'[q].token] # root'[s]
    <3> TAKE q \in AuthProc, s \in Token
    <3> HAVE Rotating(q)' /\ Live(s)'
    <3>1. /\ Rotating(q) /\ q # p /\ req'[q].token = req[q].token
          /\ root'[req[q].token] = root[req[q].token]
      BY <1>5, <1>7, <1>9
    <3>2. CASE s = t
      BY <1>11, <3>1, <3>2
    <3>3. CASE s # t
      <4>1. Live(s) /\ root'[s] = root[s]
        BY <1>4, <1>5, <3>3
      <4>2. root[req[q].token] # root[s]
        BY <3>1, <4>1 DEF RotationInv, OneLivePerChain
      <4> QED
        BY <3>1, <4>1, <4>2
    <3> QED
      BY <3>2, <3>3
  <2>3. \A q, r \in AuthProc :
          Rotating(q)' /\ Rotating(r)' /\ root'[req'[q].token] = root'[req'[r].token]
            => q = r
    BY <1>5, <1>7, <1>9 DEF RotationInv, OneLivePerChain
  <2> QED
    BY <2>1, <2>2, <2>3 DEF OneLivePerChain
<1>13. OneRotationPerToken'
  <2> SUFFICES ASSUME NEW s \in Token, NEW u \in Token,
                      parent'[s] = parent'[u], parent'[s] # None
               PROVE  s = u
    BY DEF OneRotationPerToken
  <2>1. CASE s # t /\ u # t
    BY <1>5, <2>1 DEF RotationInv, OneRotationPerToken
  <2>2. CASE s = t \/ u = t
    BY <1>5, <1>6, <1>8, <2>2 DEF RotationInv
  <2> QED
    BY <2>1, <2>2
<1>14. \A s \in Token : Born(s)' => root'[s] \in Token /\ Born(root[s])'
  <2> TAKE s \in Token
  <2> HAVE Born(s)'
  <2>1. CASE s = t
    BY <1>2, <1>4, <1>6, <1>8, <2>1 DEF RotationInv
  <2>2. CASE s # t
    BY <1>4, <1>5, <2>2 DEF RotationInv
  <2> QED
    BY <2>1, <2>2
<1>15. \A s \in Token : parent'[s] \in Token => Born(parent[s])' /\ ~Live(parent[s])'
  <2> TAKE s \in Token
  <2> HAVE parent'[s] \in Token
  <2>1. CASE s = t
    BY <1>2, <1>4, <1>6, <1>8, <2>1 DEF RotationInv
  <2>2. CASE s # t
    BY <1>3, <1>4, <1>5, <2>2 DEF RotationInv
  <2> QED
    BY <2>1, <2>2
<1>16. \A q \in AuthProc : Rotating(q)' =>
         ~Live(req[q].token)' /\ \A s \in Token : parent'[s] # req'[q].token
  <2> TAKE q \in AuthProc
  <2> HAVE Rotating(q)'
  <2>1. /\ Rotating(q) /\ q # p /\ req'[q].token = req[q].token
        /\ req[q].token \in Token /\ req[q].token # t
    BY <1>7, <1>9
  <2>2. old # None => old # req[q].token
    BY <1>8, <2>1 DEF RotationInv, OneLivePerChain
  <2>3. ~Live(req[q].token)'
    BY <1>4, <2>1 DEF RotationInv
  <2>4. \A s \in Token : parent'[s] # req'[q].token
    BY <1>2, <1>5, <1>6, <2>1, <2>2 DEF RotationInv
  <2> QED
    BY <2>3, <2>4
<1>17. (\A s \in held : Born(s))'
  BY <1>1, <1>2, <1>4 DEF RotationInv
<1>18. (\A q \in AuthProc : req[q].token \in Token => Born(req[q].token))'
  BY <1>4, <1>7 DEF RotationInv
<1> QED
  BY <1>12, <1>13, <1>14, <1>15, <1>16, <1>17, <1>18 DEF RotationInv

(* A request of AuthService keeps the invariant. *)
LEMMA AuthStepRotation ==
  ASSUME TypeOK, RotationInv, NEW p \in AuthProc, AuthStep(p)
  PROVE  RotationInv'
<1>a. /\ req \in [AuthProc -> Request]
      /\ HasSubject(req[p])
      /\ None \notin Token
      /\ held \subseteq Token
      /\ StorageTypeOK
  BY StorageAssumption DEF TypeOK, AuthTypeOK
\* The steps that leave the collection of tokens alone.
<1>b. ASSUME UNCHANGED <<tokens, held, lineage>>,
             NEW r, req' = [req EXCEPT ![p] = r],
             ~(r.pc = "store" /\ r.token # None),
             r.token \in Token => Born(r.token)
      PROVE  RotationInv'
  <2>1. /\ \A t \in Token : Born(t)' = Born(t)
        /\ \A t \in Token : Live(t)' => Live(t)
    BY <1>b DEF Born, Live
  <2>2. \A q \in AuthProc : Rotating(q)' => Rotating(q) /\ req'[q].token = req[q].token
    BY <1>a, <1>b DEF Rotating, At
  <2>3. \A q \in AuthProc : req'[q].token \in Token => Born(req'[q].token)
    BY <1>a, <1>b, <2>1 DEF RotationInv, Born
  <2> QED
    BY <1>b, <2>1, <2>2, <2>3, NothingNew
<1>c. ASSUME UNCHANGED <<tokens, held, lineage>>, Answer(p)
      PROVE  RotationInv'
  BY <1>a, <1>b, <1>c DEF Answer, NoRequest
<1>d. /\ req[p].token \in Token => Born(req[p].token)
      /\ req[p].pc \in {"idle", "lookup", "compare"} => req[p].token = None
  BY <1>a DEF RotationInv, HasSubject
<1>1. ASSUME NEW raw \in RawEmail, LoginBegin(p, raw)
      PROVE  RotationInv'
  BY <1>a, <1>b, <1>d, <1>1 DEF LoginBegin, storageVars, Request, At
<1>2. ASSUME NEW t \in Token, RefreshBegin(p, t)
      PROVE  RotationInv'
  BY <1>a, <1>b, <1>2 DEF RefreshBegin, storageVars, Request, RotationInv
<1>3. CASE LoginFind(p)
  BY <1>a, <1>b, <1>c, <1>d, <1>3 DEF LoginFind, storageVars, Request, At
<1>4. CASE LoginCompare(p)
  BY <1>a, <1>b, <1>c, <1>d, <1>4 DEF LoginCompare, storageVars, Request, At
<1>5. CASE RefreshFind(p)
  <2> DEFINE r(pc) == [req[p] EXCEPT !.pc = pc, !.user = tokens[req[p].token].user]
  <2>1. UNCHANGED <<tokens, held, lineage>>
    BY <1>5 DEF RefreshFind, storageVars
  <2>2. ASSUME NEW pc \in {"reuse", "user"}, req' = [req EXCEPT ![p] = r(pc)]
        PROVE  RotationInv'
    <3>1. r(pc).pc = pc /\ r(pc).token = req[p].token
      BY <1>a DEF Request
    <3> QED
      BY <1>b, <1>d, <2>1, <2>2, <3>1
  <2> QED
    BY <1>c, <1>5, <2>1, <2>2 DEF RefreshFind
<1>6. CASE RefreshUser(p)
  BY <1>a, <1>b, <1>c, <1>d, <1>6 DEF RefreshUser, storageVars, Request, Goto
<1>7. CASE Claim(p)
  BY <1>c, <1>7, ClaimWon DEF Claim
<1>8. CASE WipeBegin(p)
  BY <1>a, <1>b, <1>d, <1>8 DEF WipeBegin, storageVars, Request
<1>9. CASE WipeNext(p)
  <2>1. PICK t \in Token : RevokeToken(t)
    BY <1>9 DEF WipeNext, RevokeNext
  <2>2. /\ \A s \in Token : Born(s)' = Born(s)
        /\ \A s \in Token : Live(s)' => Live(s)
    BY <1>a, <2>1, Revoked DEF Born, Live
  <2> QED
    BY <1>9, <2>2, NothingNew DEF WipeNext, authVars, Rotating, At, RotationInv
<1>10. CASE WipeEnd(p)
  BY <1>c, <1>10 DEF WipeEnd, storageVars
<1>11. CASE Store(p)
  BY <1>11, SessionStored
<1>12. CASE Fail(p)
  BY <1>c, <1>12 DEF Fail, storageVars
<1> QED
  BY <1>1, <1>2, <1>3, <1>4, <1>5, <1>6, <1>7, <1>8, <1>9, <1>10, <1>11, <1>12
     DEF AuthStep, AuthProgress

(* What the other steps do to the tokens: nothing, or a revocation, or a purge. *)
LEMMA OtherStepRotation ==
  ASSUME TypeOK, RotationInv, UNCHANGED authVars,
         \/ UNCHANGED tokens
         \/ \E t \in Token : RevokeToken(t)
         \/ \E t \in Token : PurgeExpired(t)
  PROVE  RotationInv'
<1>1. StorageTypeOK
  BY DEF TypeOK
<1>2. /\ \A s \in Token : Born(s)' = Born(s)
      /\ \A s \in Token : Live(s)' => Live(s)
  <2>1. CASE UNCHANGED tokens
    BY <2>1 DEF Born, Live
  <2>2. ASSUME NEW t \in Token, RevokeToken(t)
        PROVE  <1>2!:
    BY <1>1, <2>2, Revoked DEF Born, Live
  <2>3. ASSUME NEW t \in Token, PurgeExpired(t)
        PROVE  <1>2!:
    BY <1>1, <2>3 DEF PurgeExpired, StorageTypeOK, TokenDoc, Born, Live
  <2> QED
    BY <2>1, <2>2, <2>3
<1> QED
  BY <1>2, NothingNew DEF authVars, Rotating, At, RotationInv

LEMMA InitRotation == Init => RotationInv
BY StorageAssumption
   DEF Init, StorageInit, AuthInit, NoToken, NoRequest, RotationInv, OneLivePerChain,
       OneRotationPerToken, Rotating, At, Live, Born

LEMMA NextRotation == TypeOK /\ RotationInv /\ [Next]_vars => RotationInv'
<1> SUFFICES ASSUME TypeOK, RotationInv, [Next]_vars PROVE RotationInv'
  OBVIOUS
<1>1. CASE UNCHANGED vars
  BY <1>1, OtherStepRotation DEF vars, storageVars
<1>2. ASSUME NEW p \in AuthProc, AuthStep(p)
      PROVE  RotationInv'
  BY <1>2, AuthStepRotation
<1>3. ASSUME NEW p \in UserProc, UserStep(p), UNCHANGED authVars
      PROVE  RotationInv'
  <2>1. UNCHANGED tokens \/ \E t \in Token : RevokeToken(t)
    BY <1>3 DEF UserStep, UserProgress, CreateBegin, CreateInsert, UpdateBegin,
      UpdateRead, UpdatePatch, DeleteBegin, DeleteRow, DeleteScan, DeleteRevoke,
      DeleteEnd, JobFail, RevokeNext, storageVars
  <2> QED
    BY <1>3, <2>1, OtherStepRotation
<1>4. ASSUME Tick \/ \E t \in Token : PurgeExpired(t), UNCHANGED <<authVars, userVars>>
      PROVE  RotationInv'
  BY <1>4, OtherStepRotation DEF Tick
<1> QED
  BY <1>1, <1>2, <1>3, <1>4 DEF Next

LEMMA RotationInvariant == Spec => []TypeOK /\ []RotationInv
<1>1. Init => TypeOK /\ RotationInv
  BY InitTypes, InitRotation
<1>2. TypeOK /\ RotationInv /\ [Next]_vars => TypeOK' /\ RotationInv'
  BY NextTypes, NextRotation
<1> QED
  BY <1>1, <1>2, PTL DEF Spec

(* Whatever requests present a refresh token, however many at once, a chain of
   rotations has at most one token that works or is about to. *)
THEOREM RotationCorrect == Spec => []OneLivePerChain
<1>1. RotationInv => OneLivePerChain
  BY DEF RotationInv
<1> QED
  BY <1>1, RotationInvariant, PTL

(* Of all the requests that ever present a refresh token, before, while or after
   another does, one at most is answered with its successor. *)
THEOREM NeverRotatedTwice == Spec => []OneRotationPerToken
<1>1. RotationInv => OneRotationPerToken
  BY DEF RotationInv
<1> QED
  BY <1>1, RotationInvariant, PTL

-----------------------------------------------------------------------------
(* The refinement. *)

LEMMA StageOf ==
  \A t \in Token : Stage[t] = IF ~Born(t) THEN "none" ELSE IF Live(t) THEN "live" ELSE "spent"
BY DEF Stage, Born, Live

LEMMA StageOfNext ==
  \A t \in Token :
    Stage'[t] = IF ~Born(t)' THEN "none" ELSE IF Live(t)' THEN "live" ELSE "spent"
BY DEF Stage, Born, Live

LEMMA StageUnchanged ==
  ASSUME UNCHANGED <<tokens, lineage>>
  PROVE  UNCHANGED Lineage!vars
BY DEF Lineage!vars, Stage, Live, lineage

(* A claim, a document of an UpdateMany or a purge retires a live token. *)
LEMMA TokenRetired ==
  ASSUME StorageTypeOK, NEW t \in Token, RevokeToken(t) \/ PurgeExpired(t),
         UNCHANGED lineage
  PROVE  [Lineage!Next]_Lineage!vars
<1>1. /\ \A s \in Token : Born(s)' = Born(s)
      /\ \A s \in Token : Live(s)' = (Live(s) /\ s # t)
      /\ Born(t)
  <2>1. CASE RevokeToken(t)
    BY <2>1, Revoked DEF RevokeToken, Born, Live
  <2>2. CASE PurgeExpired(t)
    BY <2>2 DEF PurgeExpired, StorageTypeOK, TokenDoc, Born, Live
  <2> QED
    BY <2>1, <2>2
<1>2. CASE Live(t)
  <2>1. Stage[t] = "live"
    BY <1>1, <1>2, StageOf
  <2>2. Stage' = [Stage EXCEPT ![t] = "spent"]
    <3>1. \A s \in Token : Stage'[s] = IF s = t THEN "spent" ELSE Stage[s]
      BY <1>1, StageOf, StageOfNext
    <3> QED
      BY <3>1 DEF Stage
  <2> QED
    BY <2>1, <2>2 DEF Lineage!Next, Lineage!Retire, lineage
<1>3. CASE ~Live(t)
  <2>1. \A s \in Token : Stage'[s] = Stage[s]
    BY <1>1, <1>3, StageOf, StageOfNext
  <2>2. Stage' = Stage
    BY <2>1 DEF Stage
  <2> QED
    BY <2>2 DEF Lineage!vars, lineage
<1> QED
  BY <1>2, <1>3

(* The insert of a session opens a chain, or renews the claimed token. *)
LEMMA StoreRefines ==
  ASSUME TypeOK, RotationInv, NEW p \in AuthProc, Store(p)
  PROVE  Lineage!Next
<1> DEFINE old == req[p].token
<1>1. PICK t \in Token :
        /\ StoreToken(t, req[p].user, req[p].now + RefreshTTL)
        /\ root' = [root EXCEPT ![t] = IF old = None THEN t ELSE root[old]]
        /\ parent' = [parent EXCEPT ![t] = old]
  BY DEF Store
<1>2. tokens \in [Token -> TokenDoc] /\ old \in Token \cup {None} /\ None \notin Token
  BY StorageAssumption DEF TypeOK, AuthTypeOK, StorageTypeOK, Request
<1>3. /\ ~Born(t)
      /\ \A s \in Token : Born(s)' = (Born(s) \/ s = t)
      /\ \A s \in Token : Live(s)' = (Live(s) \/ s = t)
  BY <1>1, <1>2 DEF StoreToken, Born, Live
<1>4. Stage[t] = "none" /\ Stage' = [Stage EXCEPT ![t] = "live"]
  <2>1. \A s \in Token : Stage'[s] = IF s = t THEN "live" ELSE Stage[s]
    BY <1>3, StageOf, StageOfNext
  <2>2. Stage[t] = "none"
    BY <1>3, StageOf
  <2>3. Stage' = [Stage EXCEPT ![t] = "live"]
    BY <2>1 DEF Stage
  <2> QED
    BY <2>2, <2>3
<1>5. CASE old = None
  BY <1>1, <1>4, <1>5 DEF Lineage!Next, Lineage!Open
<1>6. CASE old # None
  <2>1. old \in Token /\ Rotating(p)
    BY <1>2, <1>6 DEF Rotating, Store
  <2>2. Stage[old] = "spent" /\ \A s \in Token : parent[s] # old
    BY <2>1, StageOf DEF RotationInv
  <2>3. \A s \in Token : Stage[s] = "live" => root[s] # root[old]
    <3>1. \A s \in Token : Live(s) => root[s] # root[old]
      BY <2>1 DEF RotationInv, OneLivePerChain
    <3> QED
      BY <3>1, StageOf
  <2>4. Lineage!Renew(old, t)
    BY <1>1, <1>4, <1>6, <2>2, <2>3 DEF Lineage!Renew
  <2> QED
    BY <2>1, <2>4 DEF Lineage!Next
<1> QED
  BY <1>5, <1>6

LEMMA NextRefines ==
  TypeOK /\ RotationInv /\ [Next]_vars => [Lineage!Next]_Lineage!vars
<1> SUFFICES ASSUME TypeOK, RotationInv, [Next]_vars
             PROVE  [Lineage!Next]_Lineage!vars
  OBVIOUS
<1>a. StorageTypeOK
  BY DEF TypeOK
<1>b. ASSUME UNCHANGED lineage,
             \/ UNCHANGED tokens
             \/ \E t \in Token : RevokeToken(t) \/ PurgeExpired(t)
      PROVE  [Lineage!Next]_Lineage!vars
  BY <1>a, <1>b, StageUnchanged, TokenRetired
<1>1. CASE UNCHANGED vars
  BY <1>1, <1>b DEF vars, storageVars, authVars
<1>2. ASSUME NEW p \in AuthProc, AuthStep(p)
      PROVE  [Lineage!Next]_Lineage!vars
  <2>1. CASE Store(p)
    BY <2>1, StoreRefines
  <2>2. CASE Claim(p)
    <3>1. req[p].token \in Token
      BY <2>2 DEF Claim, At, TypeOK, AuthTypeOK, HasSubject
    <3> QED
      BY <1>b, <2>2, <3>1 DEF Claim
  <2>3. CASE ~Store(p) /\ ~Claim(p)
    <3>1. UNCHANGED lineage
      BY <1>2, <2>3 DEF AuthStep, AuthProgress, LoginBegin, RefreshBegin, LoginFind,
        LoginCompare, RefreshFind, RefreshUser, WipeBegin, WipeNext, WipeEnd, Fail,
        authVars
    <3>2. UNCHANGED tokens \/ \E t \in Token : RevokeToken(t)
      BY <1>2, <2>3 DEF AuthStep, AuthProgress, LoginBegin, RefreshBegin, LoginFind,
        LoginCompare, RefreshFind, RefreshUser, WipeBegin, WipeNext, WipeEnd, Fail,
        RevokeNext, storageVars
    <3> QED
      BY <1>b, <3>1, <3>2
  <2> QED
    BY <2>1, <2>2, <2>3
<1>3. ASSUME NEW p \in UserProc, UserStep(p), UNCHANGED authVars
      PROVE  [Lineage!Next]_Lineage!vars
  <2>1. UNCHANGED tokens \/ \E t \in Token : RevokeToken(t)
    BY <1>3 DEF UserStep, UserProgress, CreateBegin, CreateInsert, UpdateBegin,
      UpdateRead, UpdatePatch, DeleteBegin, DeleteRow, DeleteScan, DeleteRevoke,
      DeleteEnd, JobFail, RevokeNext, storageVars
  <2> QED
    BY <1>b, <1>3, <2>1 DEF authVars
<1>4. ASSUME Tick \/ \E t \in Token : PurgeExpired(t), UNCHANGED <<authVars, userVars>>
      PROVE  [Lineage!Next]_Lineage!vars
  BY <1>b, <1>4 DEF Tick, authVars
<1> QED
  BY <1>1, <1>2, <1>3, <1>4 DEF Next

LEMMA InitRefines == Init => Lineage!Init
BY DEF Init, StorageInit, AuthInit, NoToken, Lineage!Init, Stage, Live

(* The system implements SessionLineage: seen from outside, refresh tokens are
   only ever opened, retired and renewed as that module allows. *)
THEOREM RotationRefines == Spec => ImplementsLineage
BY RotationInvariant, InitRefines, NextRefines, PTL DEF Spec, ImplementsLineage, Lineage!Spec
=============================================================================
