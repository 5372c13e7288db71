--------------------------- MODULE SessionProofs ---------------------------
(***************************************************************************)
(* Theorems about sessions, for any number of requests whose calls fall    *)
(* between each other in any order.                                        *)
(*                                                                         *)
(* Which sessions end: when the reuse of a refresh token is answered, when *)
(* an account has been deleted, and what a refresh of a deleted account    *)
(* can reach.  Then for how long the access token of a session is          *)
(* accepted, on any replica, for every lifetime, leeway, granularity and   *)
(* skew within the assumption, and for how long a deleted account passes   *)
(* with one.                                                               *)
(***************************************************************************)
EXTENDS Integers, SessionHistory, AccessTokens, AccountProofs

Gone(u) == users[u].state = "deleted"

HistoryTypeOK ==
  /\ seen \in [AuthProc -> SUBSET Token]
  /\ doomed \subseteq Token
  /\ closed \subseteq UserId
  /\ late \subseteq AuthProc
  /\ stragglers \subseteq Token

\* Whoever a token or a request names has, or has had, a row.
OwnersKnown ==
  /\ \A t \in Token : Born(t) => users[tokens[t].user].state # "unborn"
  /\ \A p \in AuthProc : req[p].user \in UserId => users[req[p].user].state # "unborn"

\* What a request saw when it found the reuse is revoked, or still to be reached.
SeenInv(p) ==
  /\ \A t \in seen[p] : Born(t)
  /\ At(p, "reuse") => \A t \in seen[p] : tokens[t].user = req[p].user
  /\ At(p, "wipe") => \A t \in seen[p] : Live(t) => t \in req[p].todo

\* A late refresh presents the token of an account that is gone.
LateInv(p) ==
  /\ req[p].pc \in {"find", "user", "reuse", "wipe"}
  /\ Gone(tokens[req[p].token].user)

\* A DELETE that revokes has removed the row, and reaches what was there then.
ClosingInv(p) ==
  /\ job[p].pc \in {"scan", "revoke"} => Gone(job[p].user)
  /\ JobAt(p, "revoke") =>
       \A t \in Token : Live(t) /\ tokens[t].user = job[p].user
                          => t \in job[p].todo \cup stragglers

SessionInv ==
  /\ HistoryTypeOK
  /\ OwnersKnown
  /\ \A p \in AuthProc : SeenInv(p)
  /\ \A t \in doomed : Born(t) /\ ~Live(t)
  /\ \A p \in late : LateInv(p)
  /\ \A p \in UserProc : ClosingInv(p)
  /\ \A u \in closed : Gone(u)
  /\ OnlyStragglersSurvive

SessionNext == Next /\ ReuseRecord /\ DeleteRecord

-----------------------------------------------------------------------------
(* What a step of the system does to one request of the user service, as far as
   deletions go. *)
LEMMA DeleteStep ==
  ASSUME TypeOK, [Next]_vars, NEW q \in UserProc
  PROVE  \/ job'[q] = job[q]
         \/ job'[q].pc \notin {"scan", "revoke"}
         \/ /\ job[q].pc = "row" /\ job'[q].pc = "scan"
            /\ job'[q].user = job[q].user /\ DeleteUser(job[q].user)
         \/ /\ job[q].pc = "scan" /\ job'[q].pc = "revoke"
            /\ job'[q].user = job[q].user
            /\ job'[q].todo = LiveOf(job[q].user)
<1> DEFINE Moves ==
      \/ job'[q] = job[q]
      \/ job'[q].pc \notin {"scan", "revoke"}
      \/ /\ job[q].pc = "row" /\ job'[q].pc = "scan"
         /\ job'[q].user = job[q].user /\ DeleteUser(job[q].user)
      \/ /\ job[q].pc = "scan" /\ job'[q].pc = "revoke"
         /\ job'[q].user = job[q].user
         /\ job'[q].todo = LiveOf(job[q].user)
<1>a. job \in [UserProc -> Job] /\ job[q] \in Job
  BY DEF TypeOK, UserTypeOK
<1>1. ASSUME NEW p \in UserProc, UserStep(p), p # q
      PROVE  job'[q] = job[q]
  BY <1>a, <1>1 DEF UserStep, UserProgress, CreateBegin, CreateInsert, UpdateBegin,
    UpdateRead, UpdatePatch, DeleteBegin, DeleteRow, DeleteScan, DeleteRevoke, DeleteEnd,
    JobFail, JobGoto, Finish, userVars
<1>2. ASSUME UserStep(q)
      PROVE  Moves
  <2>1. Finish(q) => Moves
    BY <1>a DEF Finish, NoJob
  <2>2. ASSUME NEW n \in Name, NEW raw \in RawEmail, CreateBegin(q, n, raw)
        PROVE  Moves
    BY <1>a, <2>2 DEF CreateBegin, Job
  <2>3. ASSUME NEW u \in UserId, NEW sent \in SUBSET {"name", "email"}, NEW n \in Name,
               NEW raw \in RawEmail, UpdateBegin(q, u, sent, n, raw)
        PROVE  Moves
    BY <1>a, <2>3 DEF UpdateBegin, Job
  <2>4. ASSUME NEW u \in UserId, DeleteBegin(q, u)
        PROVE  Moves
    BY <1>a, <2>4 DEF DeleteBegin, Job
  <2>5. CASE UpdateRead(q)
    <3>1. CASE ~Finish(q)
      <4>1. PICK n, e :
              job' = [job EXCEPT ![q] = [@ EXCEPT !.pc = "patch", !.name = n, !.email = e]]
        BY <2>5, <3>1 DEF UpdateRead
      <4> QED
        BY <1>a, <4>1 DEF Job
    <3> QED
      BY <2>1, <3>1
  <2>6. CASE DeleteRow(q)
    BY <1>a, <2>1, <2>6 DEF DeleteRow, JobGoto, JobAt, Job
  <2>7. CASE DeleteScan(q)
    BY <1>a, <2>7 DEF DeleteScan, RevokeScan, JobAt, Job
  <2>8. CASE DeleteRevoke(q)
    BY <2>8 DEF DeleteRevoke, userVars
  <2>9. CASE CreateInsert(q) \/ UpdatePatch(q) \/ DeleteEnd(q) \/ JobFail(q)
    BY <2>1, <2>9 DEF CreateInsert, UpdatePatch, DeleteEnd, JobFail
  <2> HIDE DEF Moves
  <2> QED
    BY <1>2, <2>2, <2>3, <2>4, <2>5, <2>6, <2>7, <2>8, <2>9 DEF UserStep, UserProgress
<1>3. \/ job' = job
      \/ \E p \in UserProc : UserStep(p)
  BY DEF Next, vars, userVars
<1> QED
  BY <1>1, <1>2, <1>3

(* A row that was there is there or deleted, and deleted for good. *)
LEMMA RowsKept ==
  ASSUME TypeOK, [Next]_vars, NEW u \in UserId
  PROVE  /\ users[u].state # "unborn" => users'[u].state # "unborn"
         /\ Gone(u) => Gone(u)'
<1>1. users \in [UserId -> UserDoc]
  BY DEF TypeOK, StorageTypeOK
<1>2. ASSUME NEW v \in UserId, NEW sent, NEW n, NEW e, PatchUser(v, sent, n, e)
      PROVE  users'[u].state = users[u].state
  BY <1>1, <1>2 DEF PatchUser, UserDoc
<1>3. ASSUME NEW v \in UserId, DeleteUser(v)
      PROVE  users'[u].state \in {users[u].state, "deleted"}
  BY <1>1, <1>3 DEF DeleteUser, NoUser
<1>4. ASSUME NEW v \in UserId, NEW n, NEW e, InsertUser(v, n, e)
      PROVE  users'[u].state = users[u].state \/ users[u].state = "unborn"
  BY <1>1, <1>4 DEF InsertUser
<1>5. Gone(u) => Gone(u)'
  BY DeletedStaysDeleted DEF Gone
<1> QED
  BY <1>2, <1>3, <1>4, <1>5, UsersStep

-----------------------------------------------------------------------------
(* One part of the invariant at a time. *)

LEMMA OwnersStep ==
  ASSUME TypeOK, PresentedInv, OwnersKnown, [Next]_vars
  PROVE  OwnersKnown'
<1>a. /\ req \in [AuthProc -> Request] /\ \A p \in AuthProc : HasSubject(req[p])
      /\ tokens \in [Token -> TokenDoc] /\ None \notin UserId
      /\ \A t \in Token : Born(t) => tokens[t].user \in UserId
  BY StorageAssumption DEF TypeOK, AuthTypeOK, StorageTypeOK, Born
<1>b. \A u \in UserId : users[u].state # "unborn" => users'[u].state # "unborn"
  BY RowsKept
<1>1. ASSUME NEW t \in Token, Born(t)'
      PROVE  users'[tokens'[t].user].state # "unborn"
  <2>1. CASE Born(t)
    BY <1>a, <1>b, <2>1, DocsKept DEF OwnersKnown
  <2>2. CASE ~Born(t)
    <3>1. PICK p \in AuthProc : Store(p)
      BY <1>1, <2>2, BirthStep
    <3>2. PICK s \in Token : StoreToken(s, req[p].user, req[p].now + RefreshTTL)
      BY <3>1 DEF Store
    <3>3. tokens'[t].user = req[p].user
      BY <1>1, <1>a, <2>2, <3>2 DEF StoreToken, Born
    <3>4. req[p].user \in UserId
      BY <1>a, <3>1 DEF Store, At, HasSubject
    <3> QED
      BY <1>b, <3>3, <3>4 DEF OwnersKnown
  <2> QED
    BY <2>1, <2>2
<1>2. ASSUME NEW p \in AuthProc, req'[p].user \in UserId
      PROVE  users'[req'[p].user].state # "unborn"
  <2>1. CASE req'[p].user = req[p].user
    BY <1>b, <1>2, <2>1 DEF OwnersKnown
  <2>2. CASE Exists(req'[p].user)
    BY <1>b, <1>2, <2>2 DEF Exists
  <2>3. CASE req[p].pc = "find" /\ req'[p].user = tokens[req[p].token].user
    <3>1. req[p].token \in Token /\ Born(req[p].token)
      BY <1>a, <2>3 DEF HasSubject, PresentedInv, Presents
    <3> QED
      BY <1>b, <1>2, <2>3, <3>1 DEF OwnersKnown
  <2>4. RequestMoves(p)
    BY RequestStep
  <2> QED
    BY <1>2, <1>a, <2>1, <2>2, <2>3, <2>4 DEF RequestMoves, MovesOn, Keeps, NoRequest
<1> QED
  BY <1>1, <1>2 DEF OwnersKnown

LEMMA SeenStep ==
  ASSUME TypeOK, HistoryTypeOK, [Next]_vars, ReuseRecord,
         NEW q \in AuthProc, SeenInv(q)
  PROVE  SeenInv(q)' /\ seen'[q] \subseteq Token
<1>a. seen'[q] = IF ReuseFound(q) THEN LiveOf(req'[q].user)
                 ELSE IF Ends(q) THEN {} ELSE seen[q]
  BY DEF ReuseRecord
<1>b. \A t \in Token : Born(t) => /\ Born(t)' /\ tokens'[t].user = tokens[t].user
                                  /\ Live(t)' => Live(t)
  BY DocsKept, RevokedStaysRevoked DEF Born
<1>c. \A t \in Token : Live(t) => Born(t)
  BY DEF Live, Born
<1>d. seen[q] \subseteq Token
  BY DEF HistoryTypeOK
<1>1. CASE ReuseFound(q)
  BY <1>1, <1>a, <1>b, <1>c DEF ReuseFound, LiveOf, SeenInv, At
<1>2. CASE ~ReuseFound(q)
  <2>1. CASE Ends(q)
    BY <1>2, <1>a, <2>1 DEF SeenInv, Ends, At
  <2>2. CASE req'[q] = req[q] /\ ~Ends(q)
    BY <1>2, <1>a, <1>b, <1>d, <2>2 DEF SeenInv, At
  <2>3. CASE /\ MovesOn(q, "reuse", "wipe") /\ Keeps(q) /\ ~Ends(q)
             /\ req'[q].todo = LiveOf(req[q].user)
    BY <1>2, <1>a, <1>b, <1>d, <2>3 DEF SeenInv, At, MovesOn, LiveOf
  <2>4. CASE ~Ends(q) /\ req'[q].pc \notin {"reuse", "wipe"}
    BY <1>2, <1>a, <1>b, <1>d, <2>4 DEF SeenInv, At
  <2>5. RequestMoves(q)
    BY RequestStep
  <2>6. NoRequest.pc = "idle"
    BY DEF NoRequest
  <2> QED
    BY <1>2, <2>1, <2>2, <2>3, <2>4, <2>5, <2>6
       DEF RequestMoves, MovesOn, ReuseFound, Ends, At
<1> QED
  BY <1>1, <1>2

LEMMA LateStep ==
  ASSUME TypeOK, PresentedInv, OwnersKnown, [Next]_vars, DeleteRecord,
         \A p \in late : LateInv(p), NEW q \in late'
  PROVE  q \in AuthProc /\ LateInv(q)'
<1>1. /\ q \in AuthProc
      /\ \/ RefreshBegins(q) /\ ~Exists(tokens[req'[q].token].user)
         \/ q \in late /\ ~Ends(q)
  BY DEF DeleteRecord
<1>a. /\ HasSubject(req[q]) /\ Presents(q) /\ held \subseteq Token
      /\ users \in [UserId -> UserDoc]
      /\ \A t \in Token : Born(t) => /\ tokens[t].user \in UserId
                                    /\ users[tokens[t].user].state # "unborn"
      /\ \A t \in held : Born(t)
  BY <1>1 DEF TypeOK, AuthTypeOK, StorageTypeOK, PresentedInv, OwnersKnown, Born
<1>b. \A t \in Token : Born(t) /\ Gone(tokens[t].user) => Gone(tokens[t].user)'
  BY <1>a, DocsKept, RowsKept DEF Gone
<1>c. RequestMoves(q)
  BY <1>1, RequestStep
<1>2. CASE RefreshBegins(q) /\ ~Exists(tokens[req'[q].token].user)
  <2>1. req'[q].pc = "find" /\ req'[q].token \in held
    BY <1>2, <1>c DEF RefreshBegins, RequestMoves, MovesOn, At, NoRequest
  <2>2. Gone(tokens[req'[q].token].user)
    BY <1>2, <1>a, <2>1 DEF Gone, Exists, UserDoc
  <2> QED
    BY <1>1, <1>a, <1>b, <2>1, <2>2, DocsKept DEF LateInv, Gone
<1>3. CASE q \in late /\ ~Ends(q)
  <2>1. /\ req[q].token \in Token /\ Born(req[q].token)
        /\ req[q].pc \in {"find", "user", "reuse", "wipe"}
        /\ Gone(tokens[req[q].token].user)
    BY <1>3, <1>a DEF LateInv, HasSubject, Presents
  <2>2. ~(MovesOn(q, "user", "claim") /\ Exists(req[q].user))
    BY <1>a, <2>1 DEF MovesOn, Presents, Exists, Gone
  <2>3. /\ req'[q].token = req[q].token
        /\ req'[q].pc \in {"find", "user", "reuse", "wipe"}
    BY <1>3, <1>c, <2>1, <2>2 DEF RequestMoves, MovesOn, Keeps, Ends, NoRequest
  <2> QED
    BY <1>1, <1>b, <2>1, <2>3, DocsKept DEF LateInv, Gone
<1> QED
  BY <1>1, <1>2, <1>3

(* A token that works after a step and did not before has just been stored. *)
LEMMA NewlyLive ==
  ASSUME TypeOK, [Next]_vars, DeleteRecord, NEW u \in UserId, Gone(u),
         NEW t \in Token, Live(t)', tokens'[t].user = u
  PROVE  t \in stragglers' \/ (Live(t) /\ tokens[t].user = u)
<1>1. CASE Born(t)
  BY <1>1, DocsKept, RevokedStaysRevoked DEF Born
<1>2. CASE ~Born(t)
  BY <1>2 DEF Born, Live, Stored, DeleteRecord, Exists, Gone
<1> QED
  BY <1>1, <1>2

LEMMA ClosingStep ==
  ASSUME TypeOK, [Next]_vars, DeleteRecord, NEW q \in UserProc, ClosingInv(q)
  PROVE  ClosingInv(q)'
<1>a. /\ UserTypeOK /\ users \in [UserId -> UserDoc]
      /\ job[q].pc \in {"row", "scan", "revoke"} => job[q].user \in UserId
  BY DEF TypeOK, UserTypeOK, StorageTypeOK
<1>b. stragglers \subseteq stragglers'
  BY DEF DeleteRecord
<1>1. CASE job'[q] = job[q]
  BY <1>1, <1>a, <1>b, RowsKept, NewlyLive DEF ClosingInv, JobAt, Gone
<1>2. CASE job'[q].pc \notin {"scan", "revoke"}
  BY <1>2 DEF ClosingInv, JobAt
<1>3. CASE /\ job[q].pc = "row" /\ job'[q].pc = "scan"
           /\ job'[q].user = job[q].user /\ DeleteUser(job[q].user)
  BY <1>3, <1>a DEF ClosingInv, JobAt, Gone, DeleteUser, NoUser
<1>4. CASE /\ job[q].pc = "scan" /\ job'[q].pc = "revoke"
           /\ job'[q].user = job[q].user
           /\ job'[q].todo = LiveOf(job[q].user)
  BY <1>4, <1>a, RowsKept, NewlyLive DEF ClosingInv, JobAt, Gone, LiveOf
<1> QED
  BY <1>1, <1>2, <1>3, <1>4, DeleteStep

(* DELETE is answered when nothing that was there when it began to revoke, and
   so nothing but stragglers, is left. *)
LEMMA ClosedStep ==
  ASSUME TypeOK, HistoryTypeOK, OnlyStragglersSurvive, [Next]_vars, DeleteRecord,
         \A p \in UserProc : ClosingInv(p), \A u \in closed : Gone(u),
         NEW u \in closed'
  PROVE  /\ u \in UserId /\ Gone(u)'
         /\ \A t \in Token : Live(t)' /\ tokens'[t].user = u => t \in stragglers'
<1>b. stragglers \subseteq stragglers'
  BY DEF DeleteRecord
<1>1. CASE u \in closed
  <2>1. u \in UserId /\ Gone(u)
    BY <1>1 DEF HistoryTypeOK
  <2> QED
    BY <1>1, <1>b, <2>1, RowsKept, NewlyLive DEF OnlyStragglersSurvive
<1>2. CASE u \notin closed
  <2>1. PICK p \in UserProc : DeleteEnd(p) /\ u = job[p].user
    BY <1>2 DEF DeleteRecord
  <2>2. u \in UserId /\ Gone(u)
    BY <2>1 DEF DeleteEnd, JobAt, TypeOK, UserTypeOK, ClosingInv
  <2>3. \A t \in Token : Live(t) /\ tokens[t].user = u => t \in stragglers
    BY <2>1 DEF DeleteEnd, JobAt, RevokeScanDone, ClosingInv
  <2> QED
    BY <1>b, <2>2, <2>3, RowsKept, NewlyLive
<1> QED
  BY <1>1, <1>2

(* The UpdateMany of a reuse is over when all it set out to reach is revoked. *)
LEMMA DoomedStep ==
  ASSUME TypeOK, HistoryTypeOK, [Next]_vars, ReuseRecord,
         \A p \in AuthProc : SeenInv(p), \A t \in doomed : Born(t) /\ ~Live(t),
         NEW t \in doomed'
  PROVE  t \in Token /\ Born(t)' /\ ~Live(t)'
<1>1. t \in Token /\ Born(t) /\ ~Live(t)
  <2>1. CASE t \in doomed
    BY <2>1 DEF HistoryTypeOK
  <2>2. CASE t \notin doomed
    <3>1. PICK p \in AuthProc : WipeEnd(p) /\ t \in seen[p]
      BY <2>2 DEF ReuseRecord
    <3> QED
      BY <3>1 DEF WipeEnd, RevokeScanDone, SeenInv, HistoryTypeOK
  <2> QED
    BY <2>1, <2>2
<1> QED
  BY <1>1, DocsKept, RevokedStaysRevoked DEF Born

-----------------------------------------------------------------------------
LEMMA SessionInvStep ==
  TypeOK /\ PresentedInv /\ SessionInv /\ [SessionNext]_<<vars, sessionHistory>>
    => SessionInv'
<1> SUFFICES ASSUME TypeOK, PresentedInv, SessionInv,
                    [SessionNext]_<<vars, sessionHistory>>
             PROVE  SessionInv'
  OBVIOUS
<1>1. CASE SessionNext
  <2>a. [Next]_vars /\ ReuseRecord /\ DeleteRecord
    BY <1>1 DEF SessionNext
  <2>b. /\ HistoryTypeOK /\ OwnersKnown /\ OnlyStragglersSurvive
        /\ \A p \in AuthProc : SeenInv(p)
        /\ \A t \in doomed : Born(t) /\ ~Live(t)
        /\ \A p \in late : LateInv(p)
        /\ \A p \in UserProc : ClosingInv(p)
        /\ \A u \in closed : Gone(u)
    BY DEF SessionInv
  <2>1. OwnersKnown'
    BY <2>a, <2>b, OwnersStep
  <2>2. \A p \in AuthProc : SeenInv(p)' /\ seen'[p] \subseteq Token
    BY <2>a, <2>b, SeenStep
  <2>3. \A t \in doomed' : t \in Token /\ Born(t)' /\ ~Live(t)'
    BY <2>a, <2>b, DoomedStep
  <2>4. \A p \in late' : p \in AuthProc /\ LateInv(p)'
    BY <2>a, <2>b, LateStep
  <2>5. \A p \in UserProc : ClosingInv(p)'
    BY <2>a, <2>b, ClosingStep
  <2>6. \A u \in closed' :
          /\ u \in UserId /\ Gone(u)'
          /\ \A t \in Token : Live(t)' /\ tokens'[t].user = u => t \in stragglers'
    BY <2>a, <2>b, ClosedStep
  <2>7. OnlyStragglersSurvive'
    BY <2>6 DEF OnlyStragglersSurvive
  <2>8. seen' \in [AuthProc -> SUBSET Token] /\ stragglers' \subseteq Token
    BY <2>a, <2>b, <2>2 DEF ReuseRecord, DeleteRecord, HistoryTypeOK
  <2>9. HistoryTypeOK'
    BY <2>3, <2>4, <2>6, <2>8 DEF HistoryTypeOK
  <2> QED
    BY <2>1, <2>2, <2>3, <2>4, <2>5, <2>6, <2>7, <2>9 DEF SessionInv
<1>2. CASE UNCHANGED <<vars, sessionHistory>>
  BY <1>2 DEF vars, storageVars, authVars, lineage, userVars, sessionHistory, SessionInv,
    HistoryTypeOK, OwnersKnown, SeenInv, LateInv, ClosingInv, OnlyStragglersSurvive,
    Born, Live, Gone, At, JobAt
<1> QED
  BY <1>1, <1>2

LEMMA SessionInvInit == Init /\ SessionHistoryInit => SessionInv
BY StorageAssumption
   DEF Init, StorageInit, AuthInit, UserInit, SessionHistoryInit, NoToken, NoRequest, NoJob,
       SessionInv, HistoryTypeOK, OwnersKnown, SeenInv, LateInv, ClosingInv,
       OnlyStragglersSurvive, Born, At, JobAt

LEMMA SessionInvariant == SessionSpec => []SessionInv
<1>1. SessionSpec => Spec
  <2>1. [SessionNext]_<<vars, sessionHistory>> => [Next]_vars
    BY DEF SessionNext
  <2> QED
    BY <2>1, PTL DEF SessionSpec, SessionNext, Spec
<1>2. SessionSpec => []TypeOK /\ []PresentedInv
  BY <1>1, PresentedInvariant
<1> QED
  BY <1>2, SessionInvInit, SessionInvStep, PTL DEF SessionSpec, SessionNext

(* Once a reuse is answered 401 no session its user had when it was found works,
   whatever was revoked, stored or purged while the UpdateMany ran. *)
THEOREM ReuseEndsWhatItSaw == SessionSpec => []ReuseKillsEverySession
<1>1. SessionInv => ReuseKillsEverySession
  BY DEF SessionInv, ReuseKillsEverySession
<1> QED
  BY <1>1, SessionInvariant, PTL

(* A refresh that began after the row was gone never claims its token: what it
   looks up between its calls is gone for good. *)
THEOREM DeletedStaysOut == SessionSpec => []NoComeback
<1>1. SessionInv => NoComeback
  BY DEF SessionInv, LateInv, NoComeback
<1> QED
  BY <1>1, SessionInvariant, PTL

(* The order of Delete, row before tokens, leaves no session of the account but
   one whose insert came after the row was gone. *)
THEOREM DeleteLeavesOnlyStragglers == SessionSpec => []OnlyStragglersSurvive
<1>1. SessionInv => OnlyStragglersSurvive
  BY DEF SessionInv
<1> QED
  BY <1>1, SessionInvariant, PTL

-----------------------------------------------------------------------------
\* What is known of a token: when it was signed, by what clock, and that the
\* row of its user, or a request that had found it, was still there.
SignedInv(a) ==
  /\ a.at <= clock
  /\ a.now \in Readings(a.at)
  /\ a.at <= last[a.user]

\* A request signs for the user its session is for, once.
SigningInv(p) ==
  signed[p] # None =>
    /\ At(p, "store")
    /\ signed[p].user = req[p].user
    /\ signed[p].at <= clock
    /\ signed[p].now \in Readings(signed[p].at)

AccessInv ==
  /\ AccessTypeOK
  /\ \A p \in AuthProc : SigningInv(p)
  /\ \A a \in access : SignedInv(a)
  /\ \A u \in UserId : last[u] <= clock
  /\ \A p \in AuthProc : req[p].pc \in {"compare", "claim", "store"} => p \in vouched

-----------------------------------------------------------------------------
(* A NumericDate is behind the instant it stands for, by less than a second. *)
LEMMA Truncated ==
  ASSUME NEW t \in Nat
  PROVE  NumericDate(t) \in Int /\ NumericDate(t) <= t /\ t <= NumericDate(t) + (Second - 1)
<1>1. Second \in Nat \ {0}
  BY AccessAssumption
<1>2. t % Second \in 0..(Second - 1)
  BY <1>1
<1> QED
  BY <1>1, <1>2 DEF NumericDate

(* The leeway pays for the truncation and the skew, and adds nothing else. *)
LEMMA Accepted ==
  ASSUME NEW a \in Signature, SignedInv(a), clock \in Nat, NEW now \in Readings(clock)
  PROVE  /\ clock < a.at + AccessTTL => Verify(a, now)
         /\ Verify(a, now) => clock < a.at + AccessTTL + Leeway + MaxSkew
<1>1. /\ AccessTTL \in Nat /\ Leeway \in Nat /\ Second \in Nat \ {0} /\ MaxSkew \in Nat
      /\ MaxSkew + (Second - 1) <= Leeway
  BY AccessAssumption
<1>2. /\ a.at \in Nat /\ a.now \in Nat /\ a.at <= clock
      /\ a.at <= a.now /\ a.now <= a.at + MaxSkew
  BY <1>1 DEF Signature, SignedInv, Readings
<1>3. now \in Nat /\ clock <= now /\ now <= clock + MaxSkew
  BY <1>1 DEF Readings
<1>4. NotBefore(a) \in Int /\ NotBefore(a) <= a.now
  BY <1>2, Truncated DEF NotBefore
<1>5. /\ ExpiresAt(a) \in Int
      /\ ExpiresAt(a) <= a.now + AccessTTL
      /\ a.now + AccessTTL <= ExpiresAt(a) + (Second - 1)
  <2>1. a.now + AccessTTL \in Nat
    BY <1>1, <1>2
  <2> QED
    BY <2>1, Truncated DEF ExpiresAt
<1> QED
  BY <1>1, <1>2, <1>3, <1>4, <1>5 DEF Verify

-----------------------------------------------------------------------------
(* Only a request whose lookup has found the row goes on to sign a token. *)
LEMMA VouchedStep ==
  ASSUME TypeOK, AccessInv, [Next]_vars, LastRecord,
         NEW p \in AuthProc, req'[p].pc \in {"compare", "claim", "store"}
  PROVE  p \in vouched'
<1>1. RequestMoves(p)
  BY RequestStep
<1> QED
  BY <1>1 DEF AccessInv, LastRecord, FindsRow, RequestMoves, MovesOn, At, NoRequest

(* The time a row was last there goes on with the clock while it is. *)
LEMMA LastStep ==
  ASSUME TypeOK, AccessInv, [Next]_vars, LastRecord, NEW u \in UserId
  PROVE  /\ last'[u] \in Nat /\ last[u] <= last'[u] /\ last'[u] <= clock'
         /\ (\E p \in vouched : req[p].user = u) => last'[u] = clock
<1>1. clock \in Nat /\ clock' \in Nat /\ clock <= clock'
  BY ClockGoesOn
<1>2. last[u] \in Nat /\ last[u] <= clock
  BY DEF AccessInv, AccessTypeOK
<1>3. last'[u] = IF Exists(u) \/ \E p \in vouched : req[p].user = u
                 THEN clock ELSE last[u]
  BY DEF LastRecord
<1> QED
  BY <1>1, <1>2, <1>3

LEMMA SigningStep ==
  ASSUME TypeOK, AccessInv, [Next]_vars, IssueRecord, NEW p \in AuthProc
  PROVE  signed'[p] \in Signature \cup {None} /\ SigningInv(p)'
<1>a. clock \in Nat /\ clock' \in Nat /\ clock <= clock' /\ MaxSkew \in Nat
  BY ClockGoesOn, AccessAssumption
<1>b. signed'[p] = IF At(p, "store")' THEN signed[p] ELSE None
  BY DEF IssueRecord
<1>c. signed[p] \in Signature \cup {None} /\ SigningInv(p)
  BY DEF AccessInv, AccessTypeOK
<1>1. CASE signed'[p] = None
  BY <1>1 DEF SigningInv
<1>2. CASE signed'[p] # None
  <2>1. At(p, "store")' /\ signed'[p] = signed[p] /\ signed[p] # None
    BY <1>2, <1>b
  <2>2. signed[p].at \in Nat /\ signed[p] \in Signature
    BY <1>c, <2>1 DEF Signature
  <2>3. req'[p].user = req[p].user
    <3>1. req[p].pc = "store" /\ req'[p].pc = "store"
      BY <1>c, <2>1 DEF SigningInv, At
    <3>2. RequestMoves(p)
      BY RequestStep
    <3> QED
      BY <3>1, <3>2 DEF RequestMoves, MovesOn, Keeps, NoRequest
  <2>4. signed[p].at <= clock'
    BY <1>a, <1>c, <2>1, <2>2 DEF SigningInv
  <2> QED
    BY <1>c, <2>1, <2>2, <2>3, <2>4 DEF SigningInv, Readings
<1> QED
  BY <1>1, <1>2

LEMMA SignedStep ==
  ASSUME TypeOK, AccessInv, [Next]_vars, IssueRecord, LastRecord, NEW a \in access'
  PROVE  a \in Signature /\ SignedInv(a)'
<1>a. clock \in Nat /\ clock' \in Nat /\ clock <= clock' /\ MaxSkew \in Nat
  BY ClockGoesOn, AccessAssumption
<1>1. CASE a \in access
  <2>1. a \in Signature /\ SignedInv(a)
    BY <1>1 DEF AccessInv, AccessTypeOK
  <2>2. a.user \in UserId /\ a.at \in Nat /\ last[a.user] \in Nat
    BY <2>1 DEF Signature, AccessInv, AccessTypeOK
  <2>3. last'[a.user] \in Nat /\ last[a.user] <= last'[a.user]
    BY <2>2, LastStep
  <2> QED
    BY <1>a, <2>1, <2>2, <2>3 DEF SignedInv, Readings
<1>2. CASE a \notin access
  <2>1. PICK p \in AuthProc : p \in SessionsGiven /\ a = signed[p]
    BY <1>2 DEF IssueRecord, SessionsGiven
  <2>2. At(p, "store") /\ signed[p] # None
    BY <2>1 DEF IssueRecord, SessionsGiven, Stores
  <2>3. /\ a \in Signature
        /\ a.user = req[p].user /\ a.at <= clock /\ a.now \in Readings(a.at)
    BY <2>1, <2>2 DEF AccessInv, AccessTypeOK, SigningInv
  <2>4. p \in vouched /\ req[p].user \in UserId
    BY <2>2 DEF At, AccessInv, TypeOK, AuthTypeOK, HasSubject
  <2>5. last'[a.user] = clock
    BY <2>3, <2>4, LastStep
  <2>6. a.at \in Nat
    BY <2>3 DEF Signature
  <2> QED
    BY <1>a, <2>3, <2>5, <2>6 DEF SignedInv, Readings
<1> QED
  BY <1>1, <1>2

LEMMA AccessInvStep ==
  TypeOK /\ AccessInv /\ [AccessNext]_<<vars, accessVars>> => AccessInv'
<1> SUFFICES ASSUME TypeOK, AccessInv, [AccessNext]_<<vars, accessVars>>
             PROVE  AccessInv'
  OBVIOUS
<1>1. CASE Next /\ OnlyAdmitted /\ IssueRecord /\ LastRecord
  <2>a. [Next]_vars /\ IssueRecord /\ LastRecord
    BY <1>1
  <2>1. \A a \in access' : a \in Signature /\ SignedInv(a)'
    BY <2>a, SignedStep
  <2>2. \A u \in UserId : last'[u] \in Nat /\ last'[u] <= clock'
    BY <2>a, LastStep
  <2>3. \A p \in AuthProc :
          req'[p].pc \in {"compare", "claim", "store"} => p \in vouched'
    BY <2>a, VouchedStep
  <2>4. \A p \in AuthProc : signed'[p] \in Signature \cup {None} /\ SigningInv(p)'
    BY <2>a, SigningStep
  <2>5. signed' \in [AuthProc -> Signature \cup {None}]
    BY <2>a, <2>4 DEF IssueRecord
  <2>6. AccessTypeOK'
    BY <2>a, <2>1, <2>2, <2>5 DEF AccessTypeOK, LastRecord
  <2> QED
    BY <2>1, <2>2, <2>3, <2>4, <2>6 DEF AccessInv
<1>2. ASSUME NEW p \in AuthProc, Issue(p)
      PROVE  AccessInv'
  <2>1. UNCHANGED <<clock, req, access, vouched, last>> /\ At(p, "store")
    BY <1>2 DEF Issue, vars, storageVars, authVars
  <2>2. PICK now \in Readings(clock) :
          signed' = [signed EXCEPT ![p] = [user |-> req[p].user, at |-> clock, now |-> now]]
    BY <1>2 DEF Issue
  <2>3. clock \in Nat /\ MaxSkew \in Nat /\ req[p].user \in UserId
    BY <2>1, StorageAssumption, AccessAssumption
       DEF TypeOK, StorageTypeOK, AuthTypeOK, HasSubject, At
  <2> DEFINE s == [user |-> req[p].user, at |-> clock, now |-> now]
  <2>4. s \in Signature /\ s.user = req[p].user /\ s.at = clock /\ s.now \in Readings(s.at)
    BY <2>3 DEF Signature, Readings
  <2> HIDE DEF s
  <2>5. signed' = [signed EXCEPT ![p] = s]
    BY <2>2 DEF s
  <2>6. signed \in [AuthProc -> Signature \cup {None}]
    BY DEF AccessInv, AccessTypeOK
  <2>7. signed' \in [AuthProc -> Signature \cup {None}]
    BY <2>4, <2>5, <2>6
  <2>8. AccessTypeOK'
    BY <2>1, <2>7 DEF AccessInv, AccessTypeOK
  <2>9. SigningInv(p)'
    <3>1. signed'[p] = s
      BY <2>5, <2>6
    <3> QED
      BY <2>1, <2>3, <2>4, <3>1 DEF SigningInv, At, Readings
  <2>10. ASSUME NEW q \in AuthProc, q # p  PROVE SigningInv(q)'
    <3>1. signed'[q] = signed[q] /\ SigningInv(q)
      BY <2>5, <2>6, <2>10 DEF AccessInv
    <3> QED
      BY <2>1, <3>1 DEF SigningInv, At, Readings
  <2>11. \A a \in access' : SignedInv(a)'
    BY <2>1 DEF AccessInv, SignedInv, Readings
  <2> QED
    BY <2>1, <2>8, <2>9, <2>10, <2>11 DEF AccessInv
<1>3. CASE UNCHANGED <<vars, accessVars>>
  BY <1>3 DEF vars, storageVars, authVars, accessVars, AccessInv, AccessTypeOK, SignedInv,
    SigningInv, At, Readings
<1> QED
  BY <1>1, <1>2, <1>3 DEF AccessNext

LEMMA AccessInvariant == AccessSpec => []TypeOK /\ []AccessInv
<1>1. AccessSpec => Spec
  <2>1. [AccessNext]_<<vars, accessVars>> => [Next]_vars
    BY DEF AccessNext, Issue
  <2> QED
    BY <2>1, PTL DEF AccessSpec, Spec
<1>2. Init /\ AccessInit => AccessInv
  BY DEF Init, StorageInit, AuthInit, AccessInit, NoRequest, AccessInv, AccessTypeOK,
         SigningInv
<1>3. AccessSpec => []TypeOK
  BY <1>1, TypeCorrect
<1> QED
  BY <1>2, <1>3, AccessInvStep, PTL DEF AccessSpec

(* A client that was told ExpiresIn can rely on it on every replica, and no
   replica accepts the token for longer than that, the leeway and the skew. *)
THEOREM ExpiresInIsKept == AccessSpec => []LifetimeKept
<1>1. TypeOK /\ AccessInv => LifetimeKept
  <2> SUFFICES ASSUME TypeOK, AccessInv, NEW a \in access, NEW now \in Readings(clock)
               PROVE  /\ clock < a.at + AccessTTL => Verify(a, now)
                      /\ Verify(a, now) => clock < a.at + AccessTTL + Leeway + MaxSkew
    BY DEF LifetimeKept
  <2>1. clock \in Nat /\ a \in Signature /\ SignedInv(a)
    BY StorageAssumption DEF TypeOK, StorageTypeOK, AccessInv, AccessTypeOK
  <2> QED
    BY <2>1, Accepted
<1> QED
  BY <1>1, AccessInvariant, PTL

(* However logins, refreshes and deletes follow each other, a deleted account
   stops passing authentication a bounded time after it was last seen there. *)
THEOREM DeletedAccountsFadeOut == AccessSpec => []FadesOut
<1>1. TypeOK /\ AccessInv => FadesOut
  <2> SUFFICES ASSUME TypeOK, AccessInv, NEW u \in UserId, NEW a \in access,
                      NEW now \in Readings(clock), a.user = u, Verify(a, now)
               PROVE  clock < last[u] + AccessTTL + Leeway + MaxSkew
    BY DEF FadesOut, Admitted
  <2>1. clock \in Nat /\ a \in Signature /\ SignedInv(a)
    BY StorageAssumption DEF TypeOK, StorageTypeOK, AccessInv, AccessTypeOK
  <2>2. clock < a.at + AccessTTL + Leeway + MaxSkew
    BY <2>1, Accepted
  <2>3. a.at \in Nat /\ last[u] \in Nat /\ a.at <= last[u]
    BY <2>1 DEF Signature, SignedInv, AccessInv, AccessTypeOK
  <2> QED
    BY <2>1, <2>2, <2>3, AccessAssumption
<1> QED
  BY <1>1, AccessInvariant, PTL
=============================================================================
