---------------------------- MODULE CallContract ----------------------------
(***************************************************************************)
(* What an inbound adapter promises of a call, without chain, contexts or  *)
(* errors: a request that is not entitled is denied, one that makes no     *)
(* sense is rejected, and any other has its use case run, once.  Then what *)
(* the caller is told is settled, and noted as it is before the call is    *)
(* over.  A call that panics may be noted too: docs/rest-api.md wants a    *)
(* request line of it, the code writes none, and this asks for neither.    *)
(***************************************************************************)
CONSTANTS Adapter, None

VARIABLES
  entitled,  \* may the caller have the use case run?
  fit,       \* adapter -> does the request make sense?
  stage,     \* adapter -> how far the call has come
  said,      \* adapter -> the status its caller is given, once settled
  noted      \* adapter -> request lines and samples, each a kind and a status

vars == <<entitled, fit, stage, said, noted>>

Denial    == {"401", "Unauthenticated"}
Rejection == {"400", "413", "422"}
Failure   == {"500", "Internal"}

\* What a use case may lead to; no error reaches a caller as it is.
Verdict ==
  {"200", "201", "204", "401", "403", "404", "409", "422", "500",
   "OK", "InvalidArgument", "Unauthenticated", "PermissionDenied", "NotFound",
   "AlreadyExists", "Internal", "Canceled", "DeadlineExceeded"}

Init ==
  /\ entitled \in BOOLEAN /\ fit \in [Adapter -> BOOLEAN]
  /\ stage = [x \in Adapter |-> "open"]
  /\ said = [x \in Adapter |-> None]
  /\ noted = [x \in Adapter |-> {}]

Moves(x, from, to) == stage[x] = from /\ stage' = [stage EXCEPT ![x] = to]

Says(x, statuses) == \E s \in statuses : said' = [said EXCEPT ![x] = s]

Run(x) ==
  /\ Moves(x, "open", "running")
  /\ entitled /\ fit[x]
  /\ UNCHANGED <<said, noted>>

\* Who is not entitled is not told whether the request makes sense.
Refuse(x) ==
  /\ Moves(x, "open", "settled")
  /\ \/ ~entitled /\ Says(x, Denial)
     \/ entitled /\ ~fit[x] /\ Says(x, Rejection)
  /\ UNCHANGED noted

Settle(x) ==
  /\ Moves(x, "running", "settled") /\ Says(x, Verdict)
  /\ UNCHANGED noted

Note(x, kind) ==
  /\ stage[x] \in {"settled", "recovered"}
  /\ \A n \in noted[x] : n.kind # kind
  /\ noted' = [noted EXCEPT ![x] = @ \cup {[kind |-> kind, status |-> said[x]]}]
  /\ UNCHANGED <<stage, said>>

Panic(x) ==
  /\ Moves(x, "running", "panicking")
  /\ UNCHANGED <<said, noted>>

\* Whoever recovers a panic settles what the caller is told.
Recover(x) ==
  /\ Moves(x, "panicking", "recovered") /\ Says(x, Failure)
  /\ UNCHANGED noted

\* The call leaves the adapter, its request line written.  Of what the caller is
\* told, some may have reached it before.
Finish(x) ==
  /\ \/ Moves(x, "recovered", "answered")
     \/ Moves(x, "settled", "answered") /\ \E n \in noted[x] : n.kind = "access"
  /\ UNCHANGED <<said, noted>>

Drop(x) ==
  /\ Moves(x, "panicking", "dropped")
  /\ UNCHANGED <<said, noted>>

Next ==
  /\ \E x \in Adapter :
       \/ Run(x) \/ Refuse(x) \/ Settle(x)
       \/ \E kind \in {"access", "sample"} : Note(x, kind)
       \/ Panic(x) \/ Recover(x) \/ Finish(x) \/ Drop(x)
  /\ UNCHANGED <<entitled, fit>>

Spec == Init /\ [][Next]_vars
=============================================================================
