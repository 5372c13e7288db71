------------------------------- MODULE Storage -------------------------------
(***************************************************************************)
(* The two MongoDB collections every request of the service works on, and  *)
(* the clock the application layer reads.  `users` is written through      *)
(* mongostore.UserRepo and `tokens` (collection refresh_tokens) through    *)
(* mongostore.RefreshTokenRepo.  The repository calls are operators here;  *)
(* AuthService and UserService say in which order a request makes them.    *)
(*                                                                         *)
(* A single-document command of MongoDB is one step.  UpdateMany is not:   *)
(* it revokes the matching documents one after the other, so a scan is     *)
(* split into the set it has to reach and a step per document.             *)
(*                                                                         *)
(* Left out: what no other request reads back (password hashes, the        *)
(* timestamps created_at and updated_at, the instant of a revocation).     *)
(***************************************************************************)
EXTENDS Naturals, FiniteSets

CONSTANTS
  UserId,     \* the ObjectIDs MongoDB may allocate to users
  Token,      \* the random values newRefreshToken may return
  Email,      \* normalized email addresses
  Name,       \* accepted names
  RawEmail,   \* what a client may type as an email
  Normalize,  \* raw email -> its normalized form, or None when malformed
  None,       \* no value
  InitUsers,  \* the users collection when the model starts
  MaxClock    \* bound: the clock stops here

VARIABLES
  users,      \* collection users, and the ids already spent on deleted rows
  tokens,     \* collection refresh_tokens, and the values already spent
  clock       \* what clock.Now() returns

storageVars == <<users, tokens, clock>>

UserDoc  == [state : {"unborn", "live", "deleted"},
             name  : Name \cup {None},
             email : Email \cup {None}]

TokenDoc == [state   : {"unborn", "stored", "purged"},
             user    : UserId \cup {None},
             expires : Nat,
             revoked : BOOLEAN]

NoUser  == [state |-> "unborn", name |-> None, email |-> None]
NoToken == [state |-> "unborn", user |-> None, expires |-> 0, revoked |-> FALSE]

ASSUME StorageAssumption ==
  /\ None \notin UserId \cup Token \cup Email \cup Name
  /\ Normalize \in [RawEmail -> Email \cup {None}]
  /\ MaxClock \in Nat
  /\ InitUsers \in [UserId -> UserDoc]
  /\ \A u, v \in UserId :
       /\ InitUsers[u].state # "deleted"
       /\ InitUsers[u].state = "live" => InitUsers[u].email \in Email
       /\ InitUsers[u].state = "live" /\ InitUsers[v].state = "live"
          /\ InitUsers[u].email = InitUsers[v].email => u = v

StorageTypeOK ==
  /\ users \in [UserId -> UserDoc]
  /\ tokens \in [Token -> TokenDoc]
  /\ \A t \in Token : tokens[t].state # "unborn" => tokens[t].user \in UserId
  /\ clock \in 0..MaxClock

StorageInit ==
  /\ users = InitUsers
  /\ tokens = [t \in Token |-> NoToken]
  /\ clock = 0

-----------------------------------------------------------------------------
(* Collection users. *)

Exists(u) == users[u].state = "live"

\* FindByEmail: the unique index leaves at most one row to find.
FoundByEmail(e) == {u \in UserId : Exists(u) /\ users[u].email = e}

\* Mutant: EnsureIndexes creates the index without SetUnique.
EmailFreeWithoutIndex(u, e) == TRUE

\* The unique index on email lets `u` take `e` only when no other row has it.
EmailFree(u, e) == FoundByEmail(e) \subseteq {u}

InsertUser(u, n, e) ==
  /\ users[u].state = "unborn"
  /\ EmailFree(u, e)
  /\ users' = [users EXCEPT ![u] = [state |-> "live", name |-> n, email |-> e]]

\* Mutant: the whole entity is written back.
ReplaceUser(u, sent, n, e) ==
  /\ Exists(u)
  /\ EmailFree(u, e)
  /\ users' = [users EXCEPT ![u].name = n, ![u].email = e]

\* FindOneAndUpdate with a $set of the fields in `sent` alone.
PatchUser(u, sent, n, e) ==
  /\ Exists(u)
  /\ "email" \in sent => EmailFree(u, e)
  /\ users' = [users EXCEPT
                 ![u].name  = IF "name"  \in sent THEN n ELSE @,
                 ![u].email = IF "email" \in sent THEN e ELSE @]

\* DeleteOne.  The id is spent: MongoDB never allocates it again.
DeleteUser(u) ==
  /\ Exists(u)
  /\ users' = [users EXCEPT ![u] = [NoUser EXCEPT !.state = "deleted"]]

-----------------------------------------------------------------------------
(* Collection refresh_tokens. *)

\* The filter of Revoke and RevokeAllForUser: there, and no revoked_at.
Live(t) == tokens[t].state = "stored" /\ ~tokens[t].revoked

\* Mutant: the filter of RevokeAllForUser lacks the user.
LiveOfAnyone(u) == {t \in Token : Live(t)}

LiveOf(u) == {t \in Token : Live(t) /\ tokens[t].user = u}

StoreToken(t, u, expires) ==
  /\ tokens[t].state = "unborn"
  /\ tokens' = [tokens EXCEPT ![t] = [state   |-> "stored",
                                      user    |-> u,
                                      expires |-> expires,
                                      revoked |-> FALSE]]

\* findLiveRefreshToken's comparison, and a mutant that is off by one.
BeforeOrAtExpiry(now, t) == now <= tokens[t].expires
BeforeExpiry(now, t) == now < tokens[t].expires

\* Mutant: the filter of Revoke is the _id alone.
RevokeTokenBlindly(t) ==
  /\ tokens[t].state = "stored"
  /\ tokens' = [tokens EXCEPT ![t].revoked = TRUE]

\* Revoke: UpdateOne on "this _id and not yet revoked", a compare-and-swap.
RevokeToken(t) ==
  /\ Live(t)
  /\ tokens' = [tokens EXCEPT ![t].revoked = TRUE]

\* RevokeAllForUser: the documents an UpdateMany that starts now must reach.
RevokeScan(u) == LiveOf(u)

\* One document of the UpdateMany.  It may also meet one stored meanwhile.
RevokeNext(u, t) == t \in LiveOf(u) /\ RevokeToken(t)

RevokeScanDone(todo) == \A t \in todo : ~Live(t)

\* MongoDB's TTL monitor removes an expired document, now or later.
PurgeExpired(t) ==
  /\ tokens[t].state = "stored"
  /\ tokens[t].expires <= clock
  /\ tokens' = [tokens EXCEPT ![t].state = "purged"]
  /\ UNCHANGED <<users, clock>>

Tick ==
  /\ clock < MaxClock
  /\ clock' = clock + 1
  /\ UNCHANGED <<users, tokens>>
=============================================================================
