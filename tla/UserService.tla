----------------------------- MODULE UserService -----------------------------
(***************************************************************************)
(* internal/app/user_service.go: Create, Update and Delete, the operations *)
(* that write.  As in AuthService a request is a process of UserProc and a *)
(* step is one repository call:                                            *)
(*                                                                         *)
(*   Create  insert                                                        *)
(*   Update  read -> patch                                                 *)
(*   Delete  row -> scan -> revoke                                         *)
(*                                                                         *)
(* Get, List and Count read once and write nothing.                        *)
(***************************************************************************)
EXTENDS Storage

CONSTANTS UserProc   \* requests that may be in progress at once

VARIABLES
  job      \* the requests in progress

userVars == <<job>>

Job == [pc    : {"idle", "insert", "read", "patch", "row", "scan", "revoke"},
        user  : UserId \cup {None},
        sent  : SUBSET {"name", "email"},   \* fields present in the body
        name  : Name \cup {None},           \* of the entity in memory
        email : Email \cup {None},          \* of the entity in memory
        todo  : SUBSET Token]               \* what the UpdateMany still must reach

NoJob == [pc |-> "idle", user |-> None, sent |-> {}, name |-> None,
          email |-> None, todo |-> {}]

UserTypeOK ==
  /\ job \in [UserProc -> Job]
  /\ \A p \in UserProc : job[p].pc \notin {"idle", "insert"} => job[p].user \in UserId

UserInit == job = [p \in UserProc |-> NoJob]

JobAt(p, pc) == job[p].pc = pc

JobGoto(p, pc) == job' = [job EXCEPT ![p] = [@ EXCEPT !.pc = pc]]

\* The request has its answer.
Finish(p) == job' = [job EXCEPT ![p] = NoJob]

-----------------------------------------------------------------------------
(* Create *)

\* Bound: a creation starts only when an id is left for it.
IdLeft ==
  Cardinality({p \in UserProc : JobAt(p, "insert")})
    < Cardinality({u \in UserId : users[u].state = "unborn"})

\* user.New accepts the body.
CreateBegin(p, n, raw) ==
  /\ JobAt(p, "idle")
  /\ IdLeft
  /\ Normalize[raw] # None
  /\ job' = [job EXCEPT ![p] = [@ EXCEPT !.pc = "insert", !.name = n,
                        !.email = Normalize[raw]]]
  /\ UNCHANGED storageVars

\* InsertOne: there is no check before it, the unique index decides.
CreateInsert(p) ==
  /\ JobAt(p, "insert")
  /\ \/ \E u \in UserId : InsertUser(u, job[p].name, job[p].email)
     \/ FoundByEmail(job[p].email) # {} /\ UNCHANGED users
  /\ Finish(p)
  /\ UNCHANGED <<tokens, clock>>

-----------------------------------------------------------------------------
(* Update, of the caller's own row *)

\* requireSelf has passed; at least one field is in the body.
UpdateBegin(p, u, sent, n, raw) ==
  /\ JobAt(p, "idle")
  /\ sent # {}
  /\ job' = [job EXCEPT ![p] = [@ EXCEPT !.pc = "read", !.user = u, !.sent = sent,
               !.name  = IF "name" \in sent THEN n ELSE None,
               !.email = IF "email" \in sent THEN Normalize[raw] ELSE None]]
  /\ UNCHANGED storageVars

\* FindByID, then Rename and ChangeEmail on the entity that was read.
UpdateRead(p) ==
  LET j == job[p]
      accepted == "email" \in j.sent => j.email # None
  IN  /\ JobAt(p, "read")
      /\ \/ /\ Exists(j.user)
            /\ accepted
            /\ job' = [job EXCEPT ![p] = [@ EXCEPT !.pc = "patch",
                 !.name  = IF "name" \in j.sent THEN j.name ELSE users[j.user].name,
                 !.email = IF "email" \in j.sent THEN j.email ELSE users[j.user].email]]
         \/ ~(Exists(j.user) /\ accepted) /\ Finish(p)
      /\ UNCHANGED storageVars

\* FindOneAndUpdate with the fields that were sent: 200, 404 or 409.
UpdatePatch(p) ==
  LET j == job[p] IN
  /\ JobAt(p, "patch")
  /\ \/ PatchUser(j.user, j.sent, j.name, j.email)
     \/ /\ ~Exists(j.user) \/ ("email" \in j.sent /\ ~EmailFree(j.user, j.email))
        /\ UNCHANGED users
  /\ Finish(p)
  /\ UNCHANGED <<tokens, clock>>

-----------------------------------------------------------------------------
(* Delete, of the caller's own row *)

DeleteBegin(p, u) ==
  /\ JobAt(p, "idle")
  /\ job' = [job EXCEPT ![p] = [@ EXCEPT !.pc = "row", !.user = u]]
  /\ UNCHANGED storageVars

\* Mutant: the tokens are not revoked.
DeleteRowAlone(p) ==
  /\ JobAt(p, "row")
  /\ \/ DeleteUser(job[p].user) /\ JobGoto(p, "revoke")
     \/ ~Exists(job[p].user) /\ Finish(p) /\ UNCHANGED users
  /\ UNCHANGED <<tokens, clock>>

\* The row goes first; a second DELETE stops here with 404.
DeleteRow(p) ==
  /\ JobAt(p, "row")
  /\ \/ DeleteUser(job[p].user) /\ JobGoto(p, "scan")
     \/ ~Exists(job[p].user) /\ Finish(p) /\ UNCHANGED users
  /\ UNCHANGED <<tokens, clock>>

\* RevokeAllForUser: the UpdateMany starts, ...
DeleteScan(p) ==
  /\ JobAt(p, "scan")
  /\ job' = [job EXCEPT ![p] = [@ EXCEPT !.pc = "revoke", !.todo = RevokeScan(job[p].user)]]
  /\ UNCHANGED storageVars

\* ... revokes a document at a time, ...
DeleteRevoke(p) ==
  /\ JobAt(p, "revoke")
  /\ \E t \in Token : RevokeNext(job[p].user, t)
  /\ UNCHANGED <<users, clock, userVars>>

\* ... and ends, upon which the caller is answered 204.
DeleteEnd(p) ==
  /\ JobAt(p, "revoke")
  /\ RevokeScanDone(job[p].todo)
  /\ Finish(p)
  /\ UNCHANGED storageVars

-----------------------------------------------------------------------------
\* A repository call returned an error or the caller's context was cancelled.
JobFail(p) ==
  /\ ~JobAt(p, "idle")
  /\ Finish(p)
  /\ UNCHANGED storageVars

\* What the code does once a request has begun.
UserProgress(p) ==
  \/ CreateInsert(p)
  \/ UpdateRead(p) \/ UpdatePatch(p)
  \/ DeleteRow(p) \/ DeleteScan(p) \/ DeleteRevoke(p) \/ DeleteEnd(p)
=============================================================================
