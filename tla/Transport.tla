------------------------------ MODULE Transport ------------------------------
(***************************************************************************)
(* One call to the service as the two inbound adapters carry it: the REST  *)
(* middleware of internal/adapter/inbound/http and the interceptors of     *)
(* internal/adapter/inbound/grpc.  Both are given the same request and the *)
(* same answer of the core, so that what they say can be compared.         *)
(*                                                                         *)
(* A call goes inward through the layers of its chain, turns round at one  *)
(* of them and goes outward again; a panic goes outward until a layer      *)
(* recovers it.  A layer sees in its context what the layers outside it    *)
(* have put there, and nothing of those inside.                            *)
(*                                                                         *)
(* Left out: what health checks, /metrics and the development pages answer,*)
(* and what net/http and grpc-go refuse before the first layer runs.       *)
(***************************************************************************)
EXTENDS Naturals, Sequences

CONSTANTS
  Subject,   \* users a bearer token may name
  None

\* What a call may carry instead of a valid token of a user.
NoToken == {"absent", "otherScheme", "invalid"}

ASSUME TransportAssumption == Subject \cap (NoToken \cup {None}) = {}

Adapter == {"rest", "grpc"}

\* The routes of /api/v1, and the RPCs of the two services.
Method == {"register", "login", "refresh", "create", "list", "get", "update", "delete"}

\* What the use case of a method returns, "timeout" being a command that met
\* opTimeout, or panics with, "abort" being http.ErrAbortHandler.
Outcome(method) ==
  {"ok", "other", "timeout", "panic", "abort"}
    \cup (CASE method \in {"register", "create"} -> {"validation", "taken"}
            [] method = "login"   -> {"credentials"}
            [] method = "refresh" -> {"unauthorized"}
            [] method = "list"    -> {"validation"}
            [] method = "get"     -> {"validation", "notFound"}
            [] method = "update"  -> {"validation", "forbidden", "notFound", "taken"}
            [] method = "delete"  -> {"validation", "forbidden", "notFound"})

VARIABLES
  asked,     \* the request: the method, the token's subject or what is wrong, and
             \* what decoding comes to
  outcome,   \* what the use case makes of it
  call,      \* adapter -> where the call is
  lines      \* adapter -> log lines, and samples of the request counter

vars == <<asked, outcome, call, lines>>

Bodiless == {"list", "get", "delete"}

\* `decoded` is what decoding the REST request comes to: no error, or which.  A body
\* may be no JSON or too long, and the limit of a listing no integer.
Request ==
  {r \in [method : Method, bearer : Subject \cup NoToken,
          decoded : {"fine", "malformed", "tooBig", "validation"}] :
     /\ r.decoded \in {"malformed", "tooBig"} => r.method \notin Bodiless
     /\ r.decoded = "validation" => r.method = "list"}

NoResult == [status |-> None, reason |-> None, quoted |-> FALSE]

Code == {"VALIDATION_ERROR", "USER_NOT_FOUND", "EMAIL_TAKEN", "INVALID_CREDENTIALS",
         "UNAUTHORIZED", "FORBIDDEN", "INTERNAL"}

Init ==
  /\ asked \in Request
  /\ outcome \in Outcome(asked.method)
  /\ call = [x \in Adapter |-> [layer |-> 1, way |-> "in", ended |-> None,
                                slot |-> None, actor |-> None,
                                result |-> NoResult]]
  /\ lines = [x \in Adapter |-> {}]

-----------------------------------------------------------------------------
(* The chains, outermost layer first *)

\* The routes of the /auth group; Authenticate is in the chain of the others.
AuthRoutes == {"register", "login", "refresh"}

\* Mutant: the request id is settled inside Recoverer.
RestChainIdLate ==
  <<"Recoverer", "RequestID", "RealIP", "Logging", "Metrics", "MaxBytes">>
    \o (IF asked.method \in AuthRoutes THEN <<>> ELSE <<"Authenticate">>) \o <<"handler">>

\* NewRouter.
RestChain ==
  <<"RequestID", "RealIP", "Recoverer", "Logging", "Metrics", "MaxBytes">>
    \o (IF asked.method \in AuthRoutes THEN <<>> ELSE <<"Authenticate">>) \o <<"handler">>

\* Mutant: logging sits inside the error translation.
GrpcChainLogInside ==
  <<"recovery", "errors", "logging", "timeout", "auth", "method">>

\* NewServer.
GrpcChain == <<"recovery", "logging", "errors", "timeout", "auth", "method">>

Chain(x) == IF x = "rest" THEN RestChain ELSE GrpcChain

Layer(x) == Chain(x)[call[x].layer]

At(x, way, layer) ==
  /\ call[x].way = way
  /\ call[x].layer \in DOMAIN Chain(x)
  /\ Layer(x) = layer

InsideOf(x, layer) ==
  \E i \in 1 .. call[x].layer - 1 : Chain(x)[i] = layer

\* reqctx.RequestID and requestID: what the context here says.
HasId(x) == InsideOf(x, IF x = "rest" THEN "RequestID" ELSE "logging")

Goes(x, there) == call' = [call EXCEPT ![x] = there]

Inward(x) == Goes(x, [call[x] EXCEPT !.layer = @ + 1])

Returns(x, result) ==
  Goes(x, [call[x] EXCEPT !.way = "out", !.layer = @ - 1, !.result = result])

Outward(x) == Returns(x, call[x].result)

Panics(x) == Goes(x, [call[x] EXCEPT !.way = "panic", !.layer = @ - 1])

Line(kind, status, id, actor) ==
  [kind |-> kind, status |-> status, id |-> id, actor |-> actor]

Logs(x, more) == lines' = [lines EXCEPT ![x] = @ \cup more]

-----------------------------------------------------------------------------
(* What an error means, and how each adapter says it *)

\* apierr.Classify.  "unauthenticated" is its own ErrUnauthenticated.
Classify(err) ==
  CASE err = "validation"  -> "VALIDATION_ERROR"
    [] err = "notFound"    -> "USER_NOT_FOUND"
    [] err = "taken"       -> "EMAIL_TAKEN"
    [] err = "credentials" -> "INVALID_CREDENTIALS"
    [] err \in {"unauthenticated", "unauthorized"} -> "UNAUTHORIZED"
    [] err = "forbidden"   -> "FORBIDDEN"
    [] OTHER               -> "INTERNAL"

\* statusOf.
StatusOf == [c \in Code |->
  CASE c = "VALIDATION_ERROR" -> "422"
    [] c = "USER_NOT_FOUND"   -> "404"
    [] c = "EMAIL_TAKEN"      -> "409"
    [] c \in {"INVALID_CREDENTIALS", "UNAUTHORIZED"} -> "401"
    [] c = "FORBIDDEN"        -> "403"
    [] c = "INTERNAL"         -> "500"]

\* Mutant: a row is missing, and toStatus takes what it does not find for internal.
CodeOfIncomplete == [c \in Code |->
  CASE c = "VALIDATION_ERROR" -> "InvalidArgument"
    [] c = "USER_NOT_FOUND"   -> "NotFound"
    [] c \in {"INVALID_CREDENTIALS", "UNAUTHORIZED"} -> "Unauthenticated"
    [] c = "FORBIDDEN"        -> "PermissionDenied"
    [] c \in {"EMAIL_TAKEN", "INTERNAL"} -> "Internal"]

\* codeOf.
CodeOf == [c \in Code |->
  CASE c = "VALIDATION_ERROR" -> "InvalidArgument"
    [] c = "USER_NOT_FOUND"   -> "NotFound"
    [] c = "EMAIL_TAKEN"      -> "AlreadyExists"
    [] c \in {"INVALID_CREDENTIALS", "UNAUTHORIZED"} -> "Unauthenticated"
    [] c = "FORBIDDEN"        -> "PermissionDenied"
    [] c = "INTERNAL"         -> "Internal"]

Answer(status, reason, quoted) ==
  [status |-> status, reason |-> reason, quoted |-> quoted]

\* respond.Error: the answer is on its way to the caller as soon as it is written.
ErrorBody(x, err) ==
  CASE err = "malformed" -> Answer("400", "MALFORMED_JSON", HasId(x))
    [] err = "tooBig"    -> Answer("413", "PAYLOAD_TOO_LARGE", HasId(x))
    [] OTHER -> Answer(StatusOf[Classify(err)], Classify(err), HasId(x))

RespondError(x, err) ==
  LET answer == ErrorBody(x, err) IN
  /\ Returns(x, answer)
  /\ Logs(x, IF answer.status = "500" THEN {Line("error", "500", HasId(x), None)} ELSE {})

\* What an interceptor or a method returns: status.Code of a plain error is Unknown.
Fails(x, err) ==
  /\ Returns(x, Answer("Unknown", err, FALSE))
  /\ UNCHANGED lines

\* toStatus: the code as ErrorInfo.reason, the request id beside it.
ToStatus(err, quoted) == Answer(CodeOf[Classify(err)], Classify(err), quoted)

-----------------------------------------------------------------------------
(* Around the layers *)

\* A context ends: the caller goes away or, on gRPC, a deadline passes, which is
\* the caller's own or the ceiling that timeoutUnary has put on the call.
ContextEnds(x) ==
  /\ call[x].way \in {"in", "core"}
  /\ call[x].ended = None
  /\ \E how \in {"canceled"} \cup (IF x = "grpc" THEN {"deadline"} ELSE {}) :
       Goes(x, [call[x] EXCEPT !.ended = how])
  /\ UNCHANGED lines

\* Layers that do nothing but pass the call on, inward, outward or as a panic.
PassIn(x) ==
  /\ \E layer \in {"RequestID", "RealIP", "Recoverer", "Logging", "Metrics", "MaxBytes",
                    "recovery", "logging", "errors", "timeout"} : At(x, "in", layer)
  /\ Inward(x)
  /\ UNCHANGED lines

PassOut(x) ==
  /\ \E layer \in {"RequestID", "RealIP", "Recoverer", "MaxBytes", "Authenticate",
                    "recovery", "timeout", "auth"} : At(x, "out", layer)
  /\ Outward(x)
  /\ UNCHANGED lines

Unwind(x) ==
  /\ \E layer \in {"RequestID", "RealIP", "Logging", "Metrics", "MaxBytes", "Authenticate",
                    "logging", "errors", "timeout", "auth"} : At(x, "panic", layer)
  /\ Panics(x)
  /\ UNCHANGED lines

\* The call leaves the outermost layer.  What nobody recovered, net/http does,
\* and drops the connection.
End(x) ==
  /\ call[x].layer = 0
  /\ call[x].way \in {"out", "panic"}
  /\ Goes(x, [call[x] EXCEPT !.way = IF @ = "out" THEN "answered" ELSE "dropped"])
  /\ UNCHANGED lines

-----------------------------------------------------------------------------
(* Authentication *)

\* Mutant: actor.Set fills the context alone.
SetInContext(x, id) ==
  Goes(x, [call[x] EXCEPT !.layer = @ + 1, !.actor = id])

\* actor.Set fills the context of the layers inside and the slot the logging layer
\* has reserved, if it is outside of this one.
Set(x, id) ==
  Goes(x, [call[x] EXCEPT !.layer = @ + 1, !.actor = id,
             !.slot = IF InsideOf(x, IF x = "rest" THEN "Logging" ELSE "logging")
                      THEN id ELSE @])

\* bearer.Token and JWTService.Verify.
HasToken == asked.bearer \notin {"absent", "otherScheme"}

Verifies == asked.bearer # "invalid"

\* No header, another scheme, a bad signature, expired: all the same answer.
Authenticate(x) ==
  /\ At(x, "in", "Authenticate")
  /\ IF HasToken /\ Verifies
     THEN Set(x, asked.bearer) /\ UNCHANGED lines
     ELSE RespondError(x, "unauthenticated")

\* The service whose descriptor has the method.
ServiceOf(method) ==
  IF method \in {"create", "list", "get", "update", "delete"} THEN "UserService"
                                                            ELSE "AuthService"

publicPrefixes == {"Health", "reflection", "AuthService"}

\* Mutant: the prefix is that of the package, not of AuthService.
IsPublicPackage == TRUE

IsPublicMethod == ServiceOf(asked.method) \in publicPrefixes

AuthUnary(x) ==
  /\ At(x, "in", "auth")
  /\ \/ IsPublicMethod /\ Inward(x) /\ UNCHANGED lines
     \/ ~IsPublicMethod /\ ~(HasToken /\ Verifies) /\ Fails(x, "unauthenticated")
     \/ ~IsPublicMethod /\ HasToken /\ Verifies /\ Set(x, asked.bearer) /\ UNCHANGED lines

-----------------------------------------------------------------------------
(* The innermost layer and the use case *)

\* The use case is running, with the actor the context says.
Core(x) == Goes(x, [call[x] EXCEPT !.way = "core"])

\* Mutant: what decode reports is dropped.
RestHandlerGoesOn(x) == At(x, "in", "handler") /\ Core(x) /\ UNCHANGED lines

\* A handler decodes first: the body, under the limit MaxBytes has put on it, or
\* the query of a listing (listFilterFrom).  On an error no use case runs.
RestHandler(x) ==
  /\ At(x, "in", "handler")
  /\ IF asked.decoded = "fine" THEN Core(x) /\ UNCHANGED lines
                               ELSE RespondError(x, asked.decoded)

GrpcMethod(x) ==
  /\ At(x, "in", "method")
  /\ Core(x)
  /\ UNCHANGED lines

\* What the use case may come back with: its outcome or, when the context has
\* ended, the error of a repository call that noticed.  A command that has met its
\* own opTimeout ends in the same context.DeadlineExceeded as the call's deadline.
Returned(x) ==
  {IF outcome = "timeout" THEN "deadline" ELSE outcome}
    \cup (IF call[x].ended = None THEN {} ELSE {call[x].ended})

Success ==
  CASE asked.method \in {"register", "create"} -> "201"
    [] asked.method = "delete" -> "204"
    [] OTHER -> "200"

RestReturns(x) ==
  /\ At(x, "core", "handler")
  /\ \E it \in Returned(x) :
       \/ it \in {"panic", "abort"} /\ Panics(x) /\ UNCHANGED lines
       \/ it = "ok" /\ Returns(x, Answer(Success, "ok", HasId(x))) /\ UNCHANGED lines
       \/ it \notin {"panic", "abort", "ok"} /\ RespondError(x, it)

GrpcReturns(x) ==
  /\ At(x, "core", "method")
  /\ \E it \in Returned(x) :
       \/ it \in {"panic", "abort"} /\ Panics(x)
       \/ it = "ok" /\ Returns(x, Answer("OK", "ok", TRUE))
       \/ it \notin {"panic", "abort", "ok"} /\ Returns(x, Answer("Unknown", it, FALSE))
  /\ UNCHANGED lines

-----------------------------------------------------------------------------
(* On the way out *)

\* errorsUnary.
Translate(x) ==
  LET err == call[x].result.reason
      answer == CASE call[x].result.status # "Unknown" -> call[x].result
                  [] err = "deadline" -> Answer("DeadlineExceeded", None, FALSE)
                  [] err = "canceled" -> Answer("Canceled", None, FALSE)
                  [] OTHER            -> ToStatus(err, HasId(x))
  IN  /\ At(x, "out", "errors")
      /\ Returns(x, answer)
      /\ Logs(x, IF answer.status = "Internal"
                 THEN {Line("error", "Internal", HasId(x), None)} ELSE {})

\* Logging: the status its recorder has seen, and the actor in the slot.
LogRequest(x) ==
  /\ At(x, "out", "Logging")
  /\ Outward(x)
  /\ Logs(x, {Line("access", call[x].result.status, HasId(x), call[x].slot)})

\* Metrics.
CountRequest(x) ==
  /\ At(x, "out", "Metrics")
  /\ Outward(x)
  /\ Logs(x, {Line("sample", call[x].result.status, FALSE, None)})

\* loggingUnary: it has settled the request id itself.
LogCall(x) ==
  /\ At(x, "out", "logging")
  /\ Outward(x)
  /\ Logs(x, {Line("access", call[x].result.status, TRUE, call[x].slot)})

\* Recoverer.  ErrAbortHandler goes on.
Recoverer(x) ==
  /\ At(x, "panic", "Recoverer")
  /\ IF outcome = "abort"
     THEN Panics(x) /\ UNCHANGED lines
     ELSE LET answer == ErrorBody(x, "panic") IN
          /\ Returns(x, answer)
          /\ Logs(x, {Line("panic", None, HasId(x), None),
                      Line("error", answer.status, HasId(x), None)})

\* recoveryUnary: no request id is known out here.
RecoverCall(x) ==
  /\ At(x, "panic", "recovery")
  /\ Returns(x, Answer("Internal", None, FALSE))
  /\ Logs(x, {Line("panic", None, FALSE, None)})

-----------------------------------------------------------------------------
Step(x) ==
  \/ PassIn(x) \/ PassOut(x) \/ Unwind(x) \/ End(x)
  \/ Authenticate(x) \/ AuthUnary(x)
  \/ RestHandler(x) \/ RestReturns(x)
  \/ GrpcMethod(x) \/ GrpcReturns(x)
  \/ Translate(x) \/ LogRequest(x) \/ CountRequest(x) \/ LogCall(x)
  \/ Recoverer(x) \/ RecoverCall(x)

Next ==
  \E x \in Adapter : (Step(x) \/ ContextEnds(x)) /\ UNCHANGED <<asked, outcome>>

Spec == Init /\ [][Next]_vars

-----------------------------------------------------------------------------
Answered(x) == call[x].way = "answered"

LinesOf(x, kinds) == {l \in lines[x] : l.kind \in kinds}

\* What the table of docs/grpc-api.md calls the same, and the ways to say it went well.
Counterparts ==
  ({"200", "201", "204"} \X {"OK"})
    \cup {<<"422", "InvalidArgument">>, <<"404", "NotFound">>, <<"409", "AlreadyExists">>,
          <<"401", "Unauthenticated">>, <<"403", "PermissionDenied">>, <<"500", "Internal">>}

(* "REST and gRPC can never drift apart in what they tell the caller" (apierr):
   given the same answer of the core they name the same failure, under a status and
   a code that docs/grpc-api.md puts side by side, and quote the request id.  Not so
   for a panic and for a context that has ended, which gRPC says in words of its own,
   and REST cannot tell from any other failure. *)
SameVerdict ==
  /\ \A x \in Adapter : Answered(x) /\ call[x].ended = None
  /\ outcome \notin {"timeout", "panic", "abort"}
  /\ asked.decoded = "fine"
  => /\ call["rest"].result.reason = call["grpc"].result.reason
     /\ <<call["rest"].result.status, call["grpc"].result.status>> \in Counterparts
     /\ \A x \in Adapter : call[x].result.quoted

(* "REST and gRPC can never drift apart in what they tell the caller": as apierr
   says it, also when a command of the use case has met its own opTimeout while the
   call had time left.  errorsUnary takes that for the end of the call. *)
NeverDriftApart ==
  /\ \A x \in Adapter : Answered(x) /\ call[x].ended = None
  /\ outcome \notin {"panic", "abort"}
  /\ asked.decoded = "fine"
  => call["rest"].result.reason = call["grpc"].result.reason

(* The request line and the request counter say what the caller was told, though
   layers between them and the caller may still turn an error into a status. *)
LoggedAsAnswered ==
  \A x \in Adapter : Answered(x) =>
    \A l \in LinesOf(x, {"access", "sample"}) : l.status = call[x].result.status

(* "Who did it": a call that did not panic has its request line, and this names
   the verified caller, whom only layers inside of Logging know. *)
CallerIsOnTheLine ==
  \A x \in Adapter : Answered(x) /\ LinesOf(x, {"panic"}) = {} =>
    \E l \in LinesOf(x, {"access"}) : l.id /\ l.actor = call[x].actor

(* "The caller gets a request_id to quote, which is enough to follow up": what is
   answered as internal has left a line that says why, under the id of the call.
   The line of a panic on gRPC has none: recoveryUnary is outside of the logging. *)
FailureIsTraceable ==
  \A x \in Adapter : Answered(x) /\ call[x].result.status \in {"500", "Internal"} =>
    \E l \in LinesOf(x, {"error", "panic"}) : l.id \/ (x = "grpc" /\ l.kind = "panic")

(* Nothing but what leads to a token runs for a caller who has none: not by the
   nesting of the routes, nor by the prefixes of the methods.  The use case is told
   who the caller is. *)
OnlyVerified ==
  \A x \in Adapter : call[x].way = "core" /\ asked.method \notin {"register", "login", "refresh"} =>
    asked.bearer \in Subject /\ call[x].actor = asked.bearer
-----------------------------------------------------------------------------
(* What this is meant to implement *)

Entitled == asked.method \in AuthRoutes \/ (HasToken /\ Verifies)

\* What the caller will be told is fixed, but for a call that still has to pass errorsUnary.
Settled(x) ==
  /\ call[x].way \in {"out", "answered"}
  /\ \A i \in 1 .. call[x].layer : Chain(x)[i] # "errors"

StageOf(x) ==
  CASE call[x].way \in {"answered", "dropped"} -> call[x].way
    [] call[x].way = "panic" -> "panicking"
    [] call[x].way = "core"  -> "running"
    [] call[x].way = "in"    -> "open"
    [] call[x].way = "out" ->
         IF Settled(x) THEN IF LinesOf(x, {"panic"}) = {} THEN "settled" ELSE "recovered"
         ELSE IF call[x].result.reason = "unauthenticated" THEN "open" ELSE "running"

Fit   == [x \in Adapter |-> x = "rest" => asked.decoded = "fine"]
Stage == [x \in Adapter |-> StageOf(x)]
Said  == [x \in Adapter |-> IF Settled(x) THEN call[x].result.status ELSE None]
Noted == [x \in Adapter |-> {[kind |-> l.kind, status |-> l.status] :
                                l \in LinesOf(x, {"access", "sample"})}]

Contract == INSTANCE CallContract WITH
  entitled <- Entitled, fit <- Fit, stage <- Stage, said <- Said, noted <- Noted

(* Either chain is an implementation of the promise: the layers only settle, in some
   order, what a caller is told and what is written of it, and run the use case of one
   who may have it, once. *)
ImplementsContract == Contract!Spec
=============================================================================
