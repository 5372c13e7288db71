---------------------------- MODULE AccessTokens ----------------------------
(***************************************************************************)
(* internal/adapter/outbound/token/jwt.go over the application core: the   *)
(* access tokens that come with a session, how long they are accepted, and *)
(* what a deleted account can still do with one.                           *)
(*                                                                         *)
(* UserManagement lets anyone call who was ever given a token.  Here a     *)
(* request on one's own account begins only with a token that Verify       *)
(* accepts on the replica that is asked.  The unit of the clock is finer   *)
(* than the second a NumericDate is truncated to, and each replica's clock *)
(* is ahead of the slowest one's by up to MaxSkew.                         *)
(***************************************************************************)
EXTENDS UserManagement

CONSTANTS
  AccessTTL,  \* lifetime of an access token, a number of seconds
  Leeway,     \* jwt.WithLeeway
  Second,     \* units of the clock per second
  MaxSkew     \* how far the clocks of two replicas may be apart

ASSUME AccessAssumption ==
  /\ AccessTTL \in Nat \ {0} /\ Leeway \in Nat /\ Second \in Nat \ {0} /\ MaxSkew \in Nat
  /\ AccessTTL % Second = 0
  /\ MaxSkew + (Second - 1) <= Leeway

VARIABLES
  signed,     \* request -> the access token it has signed and not yet answered with
  access,     \* the access tokens clients have been given
  vouched,    \* requests in progress whose lookup found the user's row
  last        \* user -> when the row, or a request that had found it, was last there

accessVars == <<signed, access, vouched, last>>

\* `at` is when the token was signed; the signer's clock read `now`.
Signature == [user : UserId, at : Nat, now : Nat]

AccessTypeOK ==
  /\ signed \in [AuthProc -> Signature \cup {None}]
  /\ access \subseteq Signature
  /\ vouched \subseteq AuthProc
  /\ last \in [UserId -> Nat]

AccessInit ==
  /\ signed = [p \in AuthProc |-> None]
  /\ access = {} /\ vouched = {}
  /\ last = [u \in UserId |-> 0]

\* What the clock of some replica may read.
Readings(at) == at..(at + MaxSkew)

-----------------------------------------------------------------------------
(* Issue and Verify. *)

\* jwt.NewNumericDate.
NumericDate(t) == t - (t % Second)

NotBefore(a) == NumericDate(a.now)
ExpiresAt(a) == NumericDate(a.now + AccessTTL)

\* Mutant: no leeway.
VerifyExactly(a, now) == NotBefore(a) <= now /\ now < ExpiresAt(a)

Verify(a, now) == NotBefore(a) <= now + Leeway /\ now < ExpiresAt(a) + Leeway

\* A token of `u` that some replica accepts.
Admitted(u) ==
  \E a \in access, now \in Readings(clock) : a.user = u /\ Verify(a, now)

\* issueSession signs before it stores the session: the insert may take its time ...
Issue(p) ==
  /\ At(p, "store") /\ signed[p] = None
  /\ \E now \in Readings(clock) :
       signed' = [signed EXCEPT ![p] = [user |-> req[p].user, at |-> clock, now |-> now]]
  /\ UNCHANGED <<vars, access, vouched, last>>

Stores(p) == At(p, "store") /\ tokens' # tokens /\ ~At(p, "store")'

\* ... and the token comes with the answer, if that reaches its client.
SessionsGiven == {p \in AuthProc : Stores(p) /\ held' # held}

IssueRecord ==
  /\ \A p \in AuthProc : Stores(p) => signed[p] # None
  /\ access' = access \cup {signed[p] : p \in SessionsGiven}
  /\ signed' = [p \in AuthProc |-> IF At(p, "store")' THEN signed[p] ELSE None]

\* Authenticate and authUnary: Update and Delete begin with an accepted token.
BeginsAs(p, u) == JobAt(p, "idle") /\ job'[p].pc \in {"read", "row"} /\ job'[p].user = u

OnlyAdmitted == \A p \in UserProc, u \in UserId : BeginsAs(p, u) => Admitted(u)

FindsRow(p) ==
  \/ At(p, "lookup") /\ req'[p].pc = "compare"
  \/ At(p, "user") /\ req'[p].pc = "claim" /\ Exists(req[p].user)

LastRecord ==
  /\ vouched' = {p \in AuthProc : FindsRow(p) \/ (p \in vouched /\ req'[p].pc # "idle")}
  /\ last' = [u \in UserId |->
                IF Exists(u) \/ \E p \in vouched : req[p].user = u THEN clock ELSE last[u]]

AccessNext ==
  \/ Next /\ OnlyAdmitted /\ IssueRecord /\ LastRecord
  \/ \E p \in AuthProc : Issue(p)

AccessSpec == Init /\ AccessInit /\ [][AccessNext]_<<vars, accessVars>>

-----------------------------------------------------------------------------
(* A session is answered with ExpiresIn: as long as that after it was signed, the token
   is accepted by every replica, though its expiry was cut to the second and clocks
   differ; and it is accepted for no longer than that and the leeway.  The time the
   insert takes between signing and answering (issueSession) is the client's loss. *)
LifetimeKept ==
  \A a \in access, now \in Readings(clock) :
    /\ clock < a.at + AccessTTL => Verify(a, now)
    /\ Verify(a, now) => clock < a.at + AccessTTL + Leeway + MaxSkew

(* Verify asks no database, so a deleted account passes authentication for a
   while: until TTL and leeway after its row, and the last request that had read
   the row, were gone.  No order of logins, refreshes and deletes prolongs it. *)
FadesOut ==
  \A u \in UserId : Admitted(u) => clock < last[u] + AccessTTL + Leeway + MaxSkew
=============================================================================
