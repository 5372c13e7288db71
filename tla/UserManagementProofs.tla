------------------------ MODULE UserManagementProofs ------------------------
(***************************************************************************)
(* Theorems about UserManagement, for any number of users, tokens and      *)
(* requests.                                                               *)
(***************************************************************************)
EXTENDS UserManagement, TLAPS

-----------------------------------------------------------------------------
(* Type correctness.  A step belongs to a request of one of the services, or
   to MongoDB and the clock; there is a lemma for each of the three. *)

(* What a step of one request leaves behind is a request again. *)
LEMMA RequestUpdate ==
  ASSUME AuthTypeOK, NEW p \in AuthProc,
         NEW r \in Request, HasSubject(r),
         req' = [req EXCEPT ![p] = r]
  PROVE  /\ req' \in [AuthProc -> Request]
         /\ \A q \in AuthProc : HasSubject(req'[q])
BY DEF AuthTypeOK

LEMMA Answered ==
  ASSUME AuthTypeOK, NEW p \in AuthProc, Answer(p)
  PROVE  /\ req' \in [AuthProc -> Request]
         /\ \A q \in AuthProc : HasSubject(req'[q])
<1>1. NoRequest \in Request /\ HasSubject(NoRequest)
  BY DEF NoRequest, Request, HasSubject
<1> QED
  BY <1>1, RequestUpdate DEF Answer

(* Revoking a token changes nothing but its revoked_at. *)
LEMMA Revoked ==
  ASSUME StorageTypeOK, NEW t \in Token, RevokeToken(t)
  PROVE  /\ tokens' \in [Token -> TokenDoc]
         /\ \A s \in Token : /\ tokens'[s].state = tokens[s].state
                             /\ tokens'[s].user = tokens[s].user
                             /\ tokens'[s].expires = tokens[s].expires
                             /\ tokens'[s].revoked = (s = t \/ tokens[s].revoked)
         /\ \A s \in Token : tokens'[s].state # "unborn" => tokens'[s].user \in UserId
<1>1. tokens' = [tokens EXCEPT ![t].revoked = TRUE]
  BY DEF RevokeToken
<1>2. tokens \in [Token -> TokenDoc]
  BY DEF StorageTypeOK
<1>3. \A s \in Token : tokens'[s] = IF s = t THEN [tokens[s] EXCEPT !.revoked = TRUE]
                                          ELSE tokens[s]
  BY <1>1, <1>2
<1>4. [tokens[t] EXCEPT !.revoked = TRUE] \in TokenDoc
  BY <1>2 DEF TokenDoc
<1>5. tokens' \in [Token -> TokenDoc]
  BY <1>1, <1>2, <1>3, <1>4
<1>6. \A s \in Token : /\ tokens'[s].state = tokens[s].state
                      /\ tokens'[s].user = tokens[s].user
                      /\ tokens'[s].expires = tokens[s].expires
                      /\ tokens'[s].revoked = (s = t \/ tokens[s].revoked)
  BY <1>2, <1>3 DEF TokenDoc
<1> QED
  BY <1>5, <1>6 DEF StorageTypeOK

(* A request of AuthService keeps the types. *)
LEMMA AuthStepTypes ==
  ASSUME TypeOK, NEW p \in AuthProc, AuthStep(p), UNCHANGED userVars
  PROVE  TypeOK'
<1> DEFINE ReqTypeOK == /\ req' \in [AuthProc -> Request]
                        /\ \A q \in AuthProc : HasSubject(req'[q])
<1>a. UserTypeOK'
  BY DEF TypeOK, UserTypeOK, userVars
<1>b. AuthTypeOK /\ req[p] \in Request /\ HasSubject(req[p])
  BY DEF TypeOK, AuthTypeOK
<1>e. clock \in Nat
  BY StorageAssumption DEF TypeOK, StorageTypeOK
<1>c. ASSUME ReqTypeOK, UNCHANGED <<storageVars, held, lineage>>
      PROVE  TypeOK'
  BY <1>a, <1>c DEF TypeOK, StorageTypeOK, AuthTypeOK, storageVars, lineage
<1>d. Answer(p) => ReqTypeOK
  BY <1>b, Answered
<1>1. ASSUME NEW raw \in RawEmail, LoginBegin(p, raw)
      PROVE  TypeOK'
  <2> DEFINE r == [req[p] EXCEPT !.pc = "lookup", !.email = Normalize[raw]]
  <2>1. r \in Request /\ HasSubject(r)
    BY <1>b, <1>1, StorageAssumption DEF Request, HasSubject, LoginBegin, At
  <2>2. req' = [req EXCEPT ![p] = r]
    BY <1>1 DEF LoginBegin
  <2> QED
    BY <1>b, <1>c, <1>1, <2>1, <2>2, RequestUpdate DEF LoginBegin
<1>2. ASSUME NEW t \in Token, RefreshBegin(p, t)
      PROVE  TypeOK'
  <2> DEFINE r == [req[p] EXCEPT !.pc = "find", !.token = t, !.now = clock]
  <2>1. r \in Request /\ HasSubject(r)
    BY <1>b, <1>e DEF Request, HasSubject
  <2>2. req' = [req EXCEPT ![p] = r]
    BY <1>2 DEF RefreshBegin
  <2> QED
    BY <1>b, <1>c, <1>2, <2>1, <2>2, RequestUpdate DEF RefreshBegin
<1>3. CASE LoginFind(p)
  <2>1. ASSUME NEW u \in UserId,
               req' = [req EXCEPT ![p] = [req[p] EXCEPT !.pc = "compare", !.user = u]]
        PROVE  ReqTypeOK
    <3>1. [req[p] EXCEPT !.pc = "compare", !.user = u] \in Request
      BY <1>b DEF Request
    <3>2. HasSubject([req[p] EXCEPT !.pc = "compare", !.user = u])
      BY <1>b, <1>3 DEF Request, HasSubject, LoginFind, At
    <3> QED
      BY <1>b, <2>1, <3>1, <3>2, RequestUpdate
  <2> QED
    BY <1>c, <1>d, <1>3, <2>1 DEF LoginFind, FoundByEmail
<1>4. CASE LoginCompare(p)
  <2> DEFINE r == [req[p] EXCEPT !.pc = "store", !.now = clock]
  <2>1. r \in Request /\ HasSubject(r)
    BY <1>b, <1>e, <1>4 DEF Request, HasSubject, LoginCompare, At
  <2>2. req' = [req EXCEPT ![p] = r] => ReqTypeOK
    BY <1>b, <2>1, RequestUpdate
  <2> QED
    BY <1>c, <1>d, <1>4, <2>2 DEF LoginCompare
<1>5. CASE RefreshFind(p)
  <2> DEFINE doc == tokens[req[p].token]
             r(pc) == [req[p] EXCEPT !.pc = pc, !.user = doc.user]
  <2>1. ASSUME NEW pc \in {"reuse", "user"}, doc.state = "stored",
               req' = [req EXCEPT ![p] = r(pc)]
        PROVE  ReqTypeOK
    <3>1. doc.user \in UserId /\ req[p].token \in Token
      BY <1>b, <1>5, <2>1 DEF RefreshFind, At, HasSubject, TypeOK, StorageTypeOK
    <3>2. r(pc) \in Request /\ HasSubject(r(pc))
      BY <1>b, <3>1 DEF Request, HasSubject
    <3> QED
      BY <1>b, <2>1, <3>2, RequestUpdate
  <2> QED
    BY <1>c, <1>d, <1>5, <2>1 DEF RefreshFind
<1>6. CASE RefreshUser(p)
  <2>1. [req[p] EXCEPT !.pc = "claim"] \in Request
        /\ HasSubject([req[p] EXCEPT !.pc = "claim"])
    BY <1>b, <1>6 DEF Request, HasSubject, RefreshUser, At
  <2>2. Goto(p, "claim") => ReqTypeOK
    BY <1>b, <2>1, RequestUpdate DEF Goto
  <2> QED
    BY <1>c, <1>d, <1>6, <2>2 DEF RefreshUser
<1>7. CASE Claim(p)
  <2>1. [req[p] EXCEPT !.pc = "store"] \in Request
        /\ HasSubject([req[p] EXCEPT !.pc = "store"])
    BY <1>b, <1>7 DEF Request, HasSubject, Claim, At
  <2>2. ReqTypeOK
    BY <1>b, <1>d, <1>7, <2>1, RequestUpdate DEF Claim, Goto
  <2>3. StorageTypeOK'
    <3>1. req[p].token \in Token
      BY <1>b, <1>7 DEF Claim, At, HasSubject
    <3>2. CASE RevokeToken(req[p].token)
      BY <1>7, <3>1, <3>2, Revoked DEF Claim, TypeOK, StorageTypeOK
    <3>3. CASE UNCHANGED tokens
      BY <1>7, <3>3 DEF Claim, TypeOK, StorageTypeOK
    <3> QED
      BY <1>7, <3>2, <3>3 DEF Claim
  <2> QED
    BY <1>a, <1>7, <2>2, <2>3 DEF Claim, TypeOK, AuthTypeOK, lineage
<1>8. CASE WipeBegin(p)
  <2> DEFINE r == [req[p] EXCEPT !.pc = "wipe", !.todo = RevokeScan(req[p].user)]
  <2>1. r \in Request /\ HasSubject(r)
    BY <1>b, <1>8 DEF Request, HasSubject, WipeBegin, At, RevokeScan, LiveOf
  <2>2. req' = [req EXCEPT ![p] = r]
    BY <1>8 DEF WipeBegin
  <2> QED
    BY <1>b, <1>c, <1>8, <2>1, <2>2, RequestUpdate DEF WipeBegin
<1>9. CASE WipeNext(p)
  <2>1. StorageTypeOK'
    BY <1>9, Revoked DEF WipeNext, RevokeNext, TypeOK, StorageTypeOK
  <2> QED
    BY <1>a, <1>b, <1>9, <2>1 DEF WipeNext, TypeOK, AuthTypeOK, authVars, lineage
<1>10. CASE WipeEnd(p)
  BY <1>c, <1>d, <1>10 DEF WipeEnd
<1>11. CASE Store(p)
  <2>1. req[p].user \in UserId /\ req[p].now \in Nat /\ req[p].token \in Token \cup {None}
    BY <1>b, <1>11 DEF Store, At, Request, HasSubject
  <2>2. req[p].now + RefreshTTL \in Nat
    BY <2>1, AuthAssumption
  <2>3. PICK t \in Token :
          /\ StoreToken(t, req[p].user, req[p].now + RefreshTTL)
          /\ root' = [root EXCEPT ![t] = IF req[p].token = None THEN t
                                         ELSE root[req[p].token]]
          /\ parent' = [parent EXCEPT ![t] = req[p].token]
          /\ held' \in {held, held \cup {t}}
    BY <1>11 DEF Store
  <2>4. StorageTypeOK'
    BY <1>11, <2>1, <2>2, <2>3
       DEF Store, StoreToken, TypeOK, StorageTypeOK, TokenDoc
  <2>5. /\ held' \subseteq Token
        /\ root' \in [Token -> Token \cup {None}]
        /\ parent' \in [Token -> Token \cup {None}]
    BY <2>1, <2>3 DEF TypeOK, AuthTypeOK
  <2>6. ReqTypeOK
    BY <1>d, <1>11 DEF Store
  <2> QED
    BY <1>a, <2>4, <2>5, <2>6 DEF TypeOK, AuthTypeOK
<1>12. CASE Fail(p)
  BY <1>c, <1>d, <1>12 DEF Fail
<1> QED
  BY <1>1, <1>2, <1>3, <1>4, <1>5, <1>6, <1>7, <1>8, <1>9, <1>10, <1>11, <1>12
     DEF AuthStep, AuthProgress

LEMMA JobUpdate ==
  ASSUME UserTypeOK, NEW p \in UserProc, NEW j \in Job,
         j.pc \notin {"idle", "insert"} => j.user \in UserId,
         job' = [job EXCEPT ![p] = j]
  PROVE  UserTypeOK'
BY DEF UserTypeOK

LEMMA Finished ==
  ASSUME UserTypeOK, NEW p \in UserProc, Finish(p)
  PROVE  UserTypeOK'
<1>1. NoJob \in Job /\ NoJob.pc = "idle"
  BY DEF NoJob, Job
<1> QED
  BY <1>1, JobUpdate DEF Finish

(* An update writes the fields that were sent and no other. *)
LEMMA Patched ==
  ASSUME users \in [UserId -> UserDoc], NEW u, NEW sent,
         NEW n \in Name \cup {None}, NEW e \in Email \cup {None},
         PatchUser(u, sent, n, e)
  PROVE  users' \in [UserId -> UserDoc]
<1> DEFINE nn == IF "name" \in sent THEN n ELSE users[u].name
           ee == IF "email" \in sent THEN e ELSE users[u].email
           doc == [users[u] EXCEPT !.name = nn, !.email = ee]
<1>1. CASE u \in UserId
  <2>1. users[u] \in UserDoc
    BY <1>1
  <2>2. nn \in Name \cup {None} /\ ee \in Email \cup {None}
    BY <2>1 DEF UserDoc
  <2>3. doc \in UserDoc
    BY <2>1, <2>2 DEF UserDoc
  <2>4. users' = [users EXCEPT ![u] = doc]
    BY <2>1 DEF PatchUser, UserDoc
  <2> QED
    BY <2>3, <2>4
<1>2. CASE u \notin UserId
  BY <1>2 DEF PatchUser
<1> QED
  BY <1>1, <1>2

(* A request of UserService keeps the types. *)
LEMMA UserStepTypes ==
  ASSUME TypeOK, NEW p \in UserProc, UserStep(p), UNCHANGED authVars
  PROVE  TypeOK'
<1>a. AuthTypeOK'
  BY DEF TypeOK, AuthTypeOK, authVars, lineage
<1>b. /\ UserTypeOK
      /\ job[p] \in Job
      /\ job[p].pc \notin {"idle", "insert"} => job[p].user \in UserId
  BY DEF TypeOK, UserTypeOK
<1>c. ASSUME UserTypeOK', UNCHANGED storageVars
      PROVE  TypeOK'
  BY <1>a, <1>c DEF TypeOK, StorageTypeOK, storageVars
<1>d. ASSUME UserTypeOK', users' \in [UserId -> UserDoc], UNCHANGED <<tokens, clock>>
      PROVE  TypeOK'
  BY <1>a, <1>d DEF TypeOK, StorageTypeOK
<1>e. Finish(p) => UserTypeOK'
  BY <1>b, Finished
<1>f. users \in [UserId -> UserDoc]
  BY DEF TypeOK, StorageTypeOK
<1>1. ASSUME NEW n \in Name, NEW raw \in RawEmail, CreateBegin(p, n, raw)
      PROVE  TypeOK'
  <2> DEFINE j == [job[p] EXCEPT !.pc = "insert", !.name = n, !.email = Normalize[raw]]
  <2>1. j \in Job /\ j.pc = "insert"
    BY <1>b, StorageAssumption DEF Job
  <2>2. job' = [job EXCEPT ![p] = j]
    BY <1>1 DEF CreateBegin
  <2> QED
    BY <1>b, <1>c, <1>1, <2>1, <2>2, JobUpdate DEF CreateBegin
<1>2. ASSUME NEW u \in UserId, NEW sent \in SUBSET {"name", "email"},
             NEW n \in Name, NEW raw \in RawEmail, UpdateBegin(p, u, sent, n, raw)
      PROVE  TypeOK'
  <2> DEFINE j == [job[p] EXCEPT !.pc = "read", !.user = u, !.sent = sent,
                     !.name  = IF "name" \in sent THEN n ELSE None,
                     !.email = IF "email" \in sent THEN Normalize[raw] ELSE None]
  <2>1. j \in Job /\ j.user \in UserId
    BY <1>b, StorageAssumption DEF Job
  <2>2. job' = [job EXCEPT ![p] = j]
    BY <1>2 DEF UpdateBegin
  <2> QED
    BY <1>b, <1>c, <1>2, <2>1, <2>2, JobUpdate DEF UpdateBegin
<1>3. ASSUME NEW u \in UserId, DeleteBegin(p, u)
      PROVE  TypeOK'
  <2>1. /\ [job[p] EXCEPT !.pc = "row", !.user = u] \in Job
        /\ [job[p] EXCEPT !.pc = "row", !.user = u].user \in UserId
    BY <1>b DEF Job
  <2> QED
    BY <1>b, <1>c, <1>3, <2>1, JobUpdate DEF DeleteBegin
<1>4. CASE CreateInsert(p)
  <2>1. users' \in [UserId -> UserDoc]
    BY <1>b, <1>f, <1>4 DEF CreateInsert, InsertUser, UserDoc, Job
  <2> QED
    BY <1>d, <1>e, <1>4, <2>1 DEF CreateInsert
<1>5. CASE UpdateRead(p)
  <2> DEFINE j == job[p]
             k == [j EXCEPT !.pc = "patch",
                     !.name  = IF "name" \in j.sent THEN j.name ELSE users[j.user].name,
                     !.email = IF "email" \in j.sent THEN j.email ELSE users[j.user].email]
  <2>1. j.user \in UserId
    BY <1>b, <1>5 DEF UpdateRead, JobAt
  <2>2. users[j.user].name \in Name \cup {None} /\ users[j.user].email \in Email \cup {None}
    BY <1>f, <2>1 DEF UserDoc
  <2>3. k \in Job /\ k.user \in UserId
    BY <1>b, <2>1, <2>2 DEF Job
  <2>4. job' = [job EXCEPT ![p] = k] \/ Finish(p)
    BY <1>5 DEF UpdateRead
  <2>5. UserTypeOK'
    BY <1>b, <1>e, <2>3, <2>4, JobUpdate
  <2> QED
    BY <1>c, <1>5, <2>5 DEF UpdateRead
<1>6. CASE UpdatePatch(p)
  <2>1. users' \in [UserId -> UserDoc]
    <3>1. job[p].name \in Name \cup {None} /\ job[p].email \in Email \cup {None}
      BY <1>b DEF Job
    <3>2. ASSUME PatchUser(job[p].user, job[p].sent, job[p].name, job[p].email)
          PROVE  users' \in [UserId -> UserDoc]
      BY <1>f, <3>1, <3>2, Patched
    <3> QED
      BY <1>f, <1>6, <3>2 DEF UpdatePatch
  <2> QED
    BY <1>d, <1>e, <1>6, <2>1 DEF UpdatePatch
<1>7. CASE DeleteRow(p)
  <2>1. users' \in [UserId -> UserDoc]
    BY <1>f, <1>7 DEF DeleteRow, DeleteUser, NoUser, UserDoc
  <2>2. [job[p] EXCEPT !.pc = "scan"] \in Job
    BY <1>b DEF Job
  <2>3. [job[p] EXCEPT !.pc = "scan"].user \in UserId
    BY <1>b, <1>7 DEF DeleteRow, JobAt, Job
  <2>4. JobGoto(p, "scan") => UserTypeOK'
    BY <1>b, <2>2, <2>3, JobUpdate DEF JobGoto
  <2> QED
    BY <1>d, <1>e, <1>7, <2>1, <2>4 DEF DeleteRow
<1>8. CASE DeleteScan(p)
  <2> DEFINE j == [job[p] EXCEPT !.pc = "revoke", !.todo = RevokeScan(job[p].user)]
  <2>1. j \in Job /\ j.user \in UserId
    BY <1>b, <1>8 DEF DeleteScan, JobAt, Job, RevokeScan, LiveOf
  <2>2. job' = [job EXCEPT ![p] = j]
    BY <1>8 DEF DeleteScan
  <2> QED
    BY <1>b, <1>c, <1>8, <2>1, <2>2, JobUpdate DEF DeleteScan
<1>9. CASE DeleteRevoke(p)
  <2>1. StorageTypeOK'
    BY <1>9, Revoked DEF DeleteRevoke, RevokeNext, TypeOK, StorageTypeOK
  <2> QED
    BY <1>a, <1>b, <1>9, <2>1 DEF DeleteRevoke, TypeOK, UserTypeOK, userVars
<1>10. CASE DeleteEnd(p)
  BY <1>c, <1>e, <1>10 DEF DeleteEnd
<1>11. CASE JobFail(p)
  BY <1>c, <1>e, <1>11 DEF JobFail
<1> QED
  BY <1>1, <1>2, <1>3, <1>4, <1>5, <1>6, <1>7, <1>8, <1>9, <1>10, <1>11
     DEF UserStep, UserProgress

(* So do the TTL monitor and the clock. *)
LEMMA EnvironmentTypes ==
  ASSUME TypeOK, Tick \/ \E t \in Token : PurgeExpired(t),
         UNCHANGED <<authVars, userVars>>
  PROVE  TypeOK'
<1>1. StorageTypeOK'
  <2>1. CASE Tick
    BY <2>1, StorageAssumption DEF Tick, TypeOK, StorageTypeOK
  <2>2. ASSUME NEW t \in Token, PurgeExpired(t)
        PROVE  StorageTypeOK'
    BY <2>2 DEF PurgeExpired, TypeOK, StorageTypeOK, TokenDoc
  <2> QED
    BY <2>1, <2>2
<1> QED
  BY <1>1 DEF TypeOK, AuthTypeOK, UserTypeOK, authVars, lineage, userVars

LEMMA InitTypes == Init => TypeOK
<1> SUFFICES ASSUME Init PROVE TypeOK
  OBVIOUS
<1>1. StorageTypeOK
  BY StorageAssumption DEF Init, StorageInit, StorageTypeOK, NoToken, TokenDoc
<1>2. AuthTypeOK
  BY DEF Init, AuthInit, AuthTypeOK, NoRequest, Request, HasSubject
<1>3. UserTypeOK
  BY DEF Init, UserInit, UserTypeOK, NoJob, Job
<1> QED
  BY <1>1, <1>2, <1>3 DEF TypeOK

LEMMA NextTypes == TypeOK /\ [Next]_vars => TypeOK'
<1> SUFFICES ASSUME TypeOK, [Next]_vars PROVE TypeOK'
  OBVIOUS
<1>1. CASE UNCHANGED vars
  BY <1>1 DEF vars, storageVars, authVars, lineage, userVars,
              TypeOK, StorageTypeOK, AuthTypeOK, UserTypeOK
<1>2. CASE Next
  BY <1>2, AuthStepTypes, UserStepTypes, EnvironmentTypes DEF Next
<1> QED
  BY <1>1, <1>2

(* Every variable keeps its type, and a request that has looked its user or its
   token up still knows it, whatever the other requests do. *)
THEOREM TypeCorrect == Spec => []TypeOK
BY InitTypes, NextTypes, PTL DEF Spec
=============================================================================
