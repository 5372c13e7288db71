--------------------------- MODULE TransportProofs ---------------------------
(***************************************************************************)
(* Theorems about one call through the chains of both adapters: who gets   *)
(* to the use case, what the caller is told, and what is left in the logs, *)
(* whatever goes wrong at which layer, for any set of users.               *)
(***************************************************************************)
EXTENDS Transport, TLAPS

Public == asked.method \in AuthRoutes

-----------------------------------------------------------------------------
(* The chains, place by place. *)

LEMMA RestPlaces ==
  /\ DOMAIN RestChain = 1 .. (IF Public THEN 7 ELSE 8)
  /\ RestChain[1] = "RequestID" /\ RestChain[2] = "RealIP"
  /\ RestChain[3] = "Recoverer" /\ RestChain[4] = "Logging"
  /\ RestChain[5] = "Metrics"   /\ RestChain[6] = "MaxBytes"
  /\ RestChain[7] = IF Public THEN "handler" ELSE "Authenticate"
  /\ ~Public => RestChain[8] = "handler"
BY DEF RestChain, Public

LEMMA GrpcPlaces ==
  /\ DOMAIN GrpcChain = 1 .. 6
  /\ GrpcChain[1] = "recovery" /\ GrpcChain[2] = "logging" /\ GrpcChain[3] = "errors"
  /\ GrpcChain[4] = "timeout" /\ GrpcChain[5] = "auth" /\ GrpcChain[6] = "method"
BY DEF GrpcChain

-----------------------------------------------------------------------------
(* The invariant.  A layer of a chain is its place in it. *)

Status ==
  {"200", "201", "204", "400", "401", "403", "404", "409", "413", "422", "500",
   "OK", "Unknown", "DeadlineExceeded", "Canceled", "InvalidArgument", "NotFound",
   "AlreadyExists", "Unauthenticated", "PermissionDenied", "Internal", None}

\* What an interceptor may find in an error that has not been translated.
Err == {"validation", "notFound", "taken", "credentials", "unauthenticated",
        "unauthorized", "forbidden", "other", "deadline", "canceled"}

Result ==
  [status : Status,
   reason : Code \cup Err \cup {"ok", "MALFORMED_JSON", "PAYLOAD_TOO_LARGE", None},
   quoted : BOOLEAN]

Call ==
  [layer  : 0..8,
   way    : {"in", "core", "out", "panic", "answered", "dropped"},
   ended  : {None, "canceled", "deadline"},
   slot   : Subject \cup {None},
   actor  : Subject \cup {None},
   result : Result]

LogLine ==
  [kind : {"access", "sample", "error", "panic"}, status : Status, id : BOOLEAN,
   actor : Subject \cup {None}]

Typed ==
  /\ asked \in Request
  /\ outcome \in Outcome(asked.method)
  /\ call \in [Adapter -> Call]
  /\ lines \in [Adapter -> SUBSET LogLine]

\* Authenticate, or authUnary, lets the call through.
Passes == Public \/ (HasToken /\ Verifies)

\* Nothing has happened to the call but what both adapters are given.
Plain(c) == /\ c.ended = None
            /\ outcome \notin {"timeout", "panic", "abort"}
            /\ asked.decoded = "fine"

\* What the caller is to be told of it.
Verdict == IF ~Passes THEN "UNAUTHORIZED"
           ELSE IF outcome = "ok" THEN "ok" ELSE Classify(outcome)

\* The status, or the code, it is told under.
RestTells(verdict) ==
  IF verdict = "ok" THEN {"200", "201", "204"} ELSE {StatusOf[verdict]}

GrpcTells(verdict) == IF verdict = "ok" THEN {"OK"} ELSE {CodeOf[verdict]}

Returning(c) == c.way \in {"out", "answered"}

\* The call is where the use case can be reached from, past the authentication.
Admitted(c, n) == c.way = "core" \/ (c.way = "in" /\ c.layer = n)

\* Where a call may be in a chain of `n` layers, and what is known there.
Placed(c, n) ==
  /\ c.way = "in" => c.layer \in 1..n
  /\ c.way = "core" => c.layer = n
  /\ c.way \in {"out", "panic"} => c.layer < n
  /\ c.way \in {"answered", "dropped"} => c.layer = 0
  /\ c.slot = c.actor
  /\ Admitted(c, n) => Passes
  /\ Admitted(c, n) /\ ~Public => asked.bearer \in Subject /\ c.actor = asked.bearer

Told(ls) == {l \in ls : l.kind \in {"access", "sample"}}

\* The line and the sample are written on the way out, from layer `count` on, and
\* say what is then left as it is; past `log` the line is there, or a panic's.
Logged(c, ls, log, count) ==
  /\ Told(ls) # {} => Returning(c) /\ c.layer < count
  /\ \A l \in Told(ls) : l.status = c.result.status
  /\ Returning(c) /\ c.layer < log =>
       \/ \E l \in ls : l.kind = "access" /\ l.id /\ l.actor = c.actor
       \/ \E l \in ls : l.kind = "panic"

RestLayers == IF Public THEN 7 ELSE 8

\* What REST answers, and the line that follows an answer of 500.
RestAnswer(c, ls) ==
  /\ Returning(c) =>
       /\ c.result.status # "Internal"
       /\ c.result.status = "500" => \E l \in ls : l.kind = "error" /\ l.id
  /\ Plain(c) =>
       /\ c.way # "panic"
       /\ Returning(c) => /\ c.result.reason = Verdict /\ c.result.quoted
                          /\ c.result.status \in RestTells(Verdict)

RestOk(c, ls) == Placed(c, RestLayers) /\ Logged(c, ls, 4, 5) /\ RestAnswer(c, ls)

Translated(c) == Returning(c) /\ c.layer < 3

Raw(c) == c.way = "out" /\ c.layer >= 3

\* What gRPC answers, before and after the errors have been translated.
GrpcAnswer(c, ls) ==
  /\ Raw(c) => c.result.status \in {"OK", "Unknown"}
  /\ Raw(c) => c.result.reason \in IF c.result.status = "OK" THEN {"ok"} ELSE Err
  /\ Translated(c) =>
       /\ c.result.status # "500"
       /\ c.result.status = "Internal" =>
            \E l \in ls : (l.kind = "error" /\ l.id) \/ l.kind = "panic"
  /\ Plain(c) =>
       /\ c.way # "panic"
       /\ Translated(c) => /\ c.result.reason = Verdict /\ c.result.quoted
                           /\ c.result.status \in GrpcTells(Verdict)
       /\ Raw(c) => \/ /\ c.result.status = "OK" /\ c.result.quoted
                       /\ c.result.reason = "ok" /\ Verdict = "ok"
                    \/ /\ c.result.status = "Unknown"
                       /\ c.result.reason \notin {"deadline", "canceled"}
                       /\ Classify(c.result.reason) = Verdict

GrpcOk(c, ls) == Placed(c, 6) /\ Logged(c, ls, 2, 2) /\ GrpcAnswer(c, ls)

CallInv == /\ Typed
           /\ RestOk(call["rest"], lines["rest"])
           /\ GrpcOk(call["grpc"], lines["grpc"])

-----------------------------------------------------------------------------
(* What the operators of the model give. *)

LEMMA OutcomeRange ==
  ASSUME NEW m \in Method, NEW o \in Outcome(m)
  PROVE  /\ o \in {"ok", "other", "timeout", "panic", "abort", "validation", "taken",
                   "credentials", "unauthorized", "notFound", "forbidden"}
         /\ o \notin {"ok", "timeout", "panic", "abort"} => o \in Err \ {"deadline", "canceled"}
BY DEF Outcome, Method, Err

LEMMA AnswerType ==
  ASSUME NEW s \in Status, NEW q \in BOOLEAN,
         NEW r \in Code \cup Err \cup {"ok", "MALFORMED_JSON", "PAYLOAD_TOO_LARGE", None}
  PROVE  Answer(s, r, q) \in Result
BY DEF Answer, Result

LEMMA ClassifyRange == ASSUME NEW e PROVE Classify(e) \in Code
BY DEF Classify, Code

LEMMA StatusRange ==
  ASSUME NEW c \in Code
  PROVE  /\ StatusOf[c] \in {"401", "403", "404", "409", "422", "500"}
         /\ CodeOf[c] \in {"InvalidArgument", "NotFound", "AlreadyExists",
                           "Unauthenticated", "PermissionDenied", "Internal"}
         /\ RestTells(c) = {StatusOf[c]} /\ GrpcTells(c) = {CodeOf[c]}
BY DEF StatusOf, CodeOf, Code, RestTells, GrpcTells

\* The two tables go by the one of docs/grpc-api.md.
LEMMA TablesAgree ==
  ASSUME NEW v \in Code \cup {"ok"}, NEW s \in RestTells(v), NEW g \in GrpcTells(v)
  PROVE  <<s, g>> \in Counterparts
BY DEF RestTells, GrpcTells, StatusOf, CodeOf, Code, Counterparts

\* The prefix of AuthService in authUnary, and the routes of the /auth group, leave
\* the same methods open.
LEMMA SameOpenMethods ==
  ASSUME Typed
  PROVE  IsPublicMethod <=> Public
BY DEF Typed, Request, Method, IsPublicMethod, ServiceOf, publicPrefixes, Public, AuthRoutes

LEMMA BearerOfPassing ==
  ASSUME Typed, HasToken, Verifies
  PROVE  asked.bearer \in Subject
BY DEF Typed, Request, HasToken, Verifies, NoToken

-----------------------------------------------------------------------------
(* Where a layer is, and what a call knows there. *)

LEMMA RestAt ==
  ASSUME Typed, NEW way, NEW name, At("rest", way, name)
  PROVE  LET c == call["rest"] IN
         /\ c.way = way
         /\ \/ c.layer = 1 /\ name = "RequestID"
            \/ c.layer = 2 /\ name = "RealIP"
            \/ c.layer = 3 /\ name = "Recoverer"
            \/ c.layer = 4 /\ name = "Logging"
            \/ c.layer = 5 /\ name = "Metrics"
            \/ c.layer = 6 /\ name = "MaxBytes"
            \/ c.layer = 7 /\ ~Public /\ name = "Authenticate"
            \/ c.layer = RestLayers /\ name = "handler"
<1>1. call["rest"].layer \in DOMAIN RestChain /\ name = RestChain[call["rest"].layer]
  BY DEF At, Chain, Layer
<1>2. CASE Public
  BY <1>1, <1>2, RestPlaces DEF At, RestLayers
<1>3. CASE ~Public
  BY <1>1, <1>3, RestPlaces DEF At, RestLayers
<1> QED
  BY <1>2, <1>3

LEMMA RestKnows ==
  ASSUME Typed
  PROVE  /\ call["rest"].layer > 1 => HasId("rest")
         /\ call["rest"].layer > 4 => InsideOf("rest", "Logging")
<1>1. call["rest"].layer \in 0..8
  BY DEF Typed, Call, Adapter
<1>2. ASSUME NEW i \in 1..4, call["rest"].layer > i  PROVE InsideOf("rest", RestChain[i])
  BY <1>1, <1>2 DEF InsideOf, Chain
<1> QED
  BY <1>1, <1>2, RestPlaces DEF HasId

LEMMA GrpcAt ==
  ASSUME Typed, NEW way, NEW name, At("grpc", way, name)
  PROVE  LET c == call["grpc"] IN
         /\ c.way = way
         /\ \/ c.layer = 1 /\ name = "recovery"
            \/ c.layer = 2 /\ name = "logging"
            \/ c.layer = 3 /\ name = "errors"
            \/ c.layer = 4 /\ name = "timeout"
            \/ c.layer = 5 /\ name = "auth"
            \/ c.layer = 6 /\ name = "method"
<1>1. call["grpc"].layer \in DOMAIN GrpcChain /\ name = GrpcChain[call["grpc"].layer]
  BY DEF At, Chain, Layer
<1> QED
  BY <1>1, GrpcPlaces DEF At

LEMMA GrpcKnows ==
  ASSUME Typed
  PROVE  call["grpc"].layer > 2 => HasId("grpc") /\ InsideOf("grpc", "logging")
<1>1. call["grpc"].layer \in 0..8
  BY DEF Typed, Call, Adapter
<1>2. call["grpc"].layer > 2 => InsideOf("grpc", GrpcChain[2])
  BY <1>1 DEF InsideOf, Chain
<1> QED
  BY <1>2, GrpcPlaces DEF HasId

\* A handler's or a middleware's error: what is told, and the line of a 500.
LEMMA RestErrors ==
  ASSUME Typed, NEW err \in Err \cup {"malformed", "tooBig"},
         RespondError("rest", err), call["rest"].layer > 1
  PROVE  \E a \in Result :
           /\ Returns("rest", a)
           /\ a.quoted
           /\ a.status \in Status \ {"Internal"}
           /\ err \in Err => /\ a.reason = Classify(err)
                            /\ a.status \in RestTells(Classify(err))
           /\ Logs("rest", IF a.status = "500" THEN {Line("error", "500", TRUE, None)} ELSE {})
<1> DEFINE a == ErrorBody("rest", err)
<1>1. HasId("rest")
  BY RestKnows
<1>2. CASE err \in Err
  <2>1. a = Answer(StatusOf[Classify(err)], Classify(err), TRUE)
    BY <1>1, <1>2 DEF ErrorBody, Err
  <2>2. Classify(err) \in Code
    BY ClassifyRange
  <2>3. StatusOf[Classify(err)] \in {"401", "403", "404", "409", "422", "500"}
    BY <2>2, StatusRange
  <2>4. a.reason = Classify(err) /\ a.status \in Status \ {"Internal"}
    BY <2>1, <2>3 DEF Answer, Status
  <2>7. a.status \in RestTells(Classify(err))
    BY <2>1, <2>2, StatusRange DEF Answer
  <2>5. a \in Result
    <3>1. StatusOf[Classify(err)] \in Status
      BY <2>3 DEF Status
    <3> QED
      BY <2>1, <2>2, <3>1, AnswerType
  <2>6. a.quoted
    BY <2>1 DEF Answer
  <2> QED
    BY <1>1, <2>4, <2>5, <2>6, <2>7 DEF RespondError
<1>3. CASE err \in {"malformed", "tooBig"}
  <2>1. \/ a = Answer("400", "MALFORMED_JSON", TRUE)
        \/ a = Answer("413", "PAYLOAD_TOO_LARGE", TRUE)
    BY <1>1, <1>3 DEF ErrorBody
  <2>2. a \in Result
    <3>1. "400" \in Status /\ "413" \in Status
      BY DEF Status
    <3> QED
      BY <2>1, <3>1, AnswerType
  <2>5. a.status \in Status \ {"Internal"}
    BY <2>1 DEF Answer, Status
  <2>3. a.quoted
    BY <2>1 DEF Answer
  <2>4. err \notin Err
    BY <1>3 DEF Err
  <2> QED
    BY <1>1, <2>2, <2>3, <2>4, <2>5 DEF RespondError
<1> QED
  BY <1>2, <1>3

-----------------------------------------------------------------------------
(* One step of the call on REST. *)

\* What a step of REST has to keep.
RestKept ==
  \E d \in Call, ms \in SUBSET LogLine :
    /\ call' = [call EXCEPT !["rest"] = d]
    /\ lines' = [lines EXCEPT !["rest"] = ms]
    /\ RestOk(d, ms)

LEMMA LineType ==
  ASSUME NEW kind \in {"access", "sample", "error", "panic"}, NEW st \in Status,
         NEW id \in BOOLEAN, NEW who \in Subject \cup {None}
  PROVE  Line(kind, st, id, who) \in LogLine
BY DEF Line, LogLine

LEMMA TurnsRound ==
  ASSUME Typed, NEW x \in Adapter, NEW a \in Result, Returns(x, a), call[x].layer > 0
  PROVE  \E d \in Call :
           /\ call' = [call EXCEPT ![x] = d]
           /\ d.way = "out" /\ d.layer = call[x].layer - 1 /\ d.result = a
           /\ d.ended = call[x].ended /\ d.slot = call[x].slot /\ d.actor = call[x].actor
<1> DEFINE d == [call[x] EXCEPT !.way = "out", !.layer = @ - 1, !.result = a]
<1>1. call[x] \in Call
  BY DEF Typed
<1>2. call[x].layer \in 0..8
  BY <1>1 DEF Call
<1>3. call[x].layer - 1 \in 0..8
  BY <1>2
<1>4. d \in Call
  BY <1>1, <1>3 DEF Call
<1>5. /\ d.way = "out" /\ d.layer = call[x].layer - 1 /\ d.result = a
      /\ d.ended = call[x].ended /\ d.slot = call[x].slot /\ d.actor = call[x].actor
  BY <1>1 DEF Call
<1>6. call' = [call EXCEPT ![x] = d]
  BY DEF Returns, Goes
<1> HIDE DEF d
<1> QED
  BY <1>4, <1>5, <1>6

LEMMA PanicsOn ==
  ASSUME Typed, NEW x \in Adapter, Panics(x), call[x].layer > 0
  PROVE  \E d \in Call :
           /\ call' = [call EXCEPT ![x] = d]
           /\ d.way = "panic" /\ d.layer = call[x].layer - 1 /\ d.result = call[x].result
           /\ d.ended = call[x].ended /\ d.slot = call[x].slot /\ d.actor = call[x].actor
<1> DEFINE d == [call[x] EXCEPT !.way = "panic", !.layer = @ - 1]
<1>1. call[x] \in Call
  BY DEF Typed
<1>2. call[x].layer \in 0..8
  BY <1>1 DEF Call
<1>3. call[x].layer - 1 \in 0..8
  BY <1>2
<1>4. d \in Call
  BY <1>1, <1>3 DEF Call
<1>5. /\ d.way = "panic" /\ d.layer = call[x].layer - 1 /\ d.result = call[x].result
      /\ d.ended = call[x].ended /\ d.slot = call[x].slot /\ d.actor = call[x].actor
  BY <1>1 DEF Call
<1>6. call' = [call EXCEPT ![x] = d]
  BY DEF Panics, Goes
<1> HIDE DEF d
<1> QED
  BY <1>4, <1>5, <1>6

LEMMA RestRefuses ==
  ASSUME Typed, RestOk(call["rest"], lines["rest"]),
         NEW err \in Err \cup {"malformed", "tooBig"}, RespondError("rest", err),
         call["rest"].way \in {"in", "core"}, call["rest"].layer \in {7, RestLayers},
         Plain(call["rest"]) => err \in Err /\ Classify(err) = Verdict
  PROVE  RestKept
<1> DEFINE c == call["rest"]
           ls == lines["rest"]
           n == RestLayers
<1>1. c \in Call /\ ls \in SUBSET LogLine /\ c.layer \in 0..8
  BY DEF Typed, Call, Adapter
<1>2. n \in {7, 8}
  BY DEF RestLayers
<1>3. PICK a \in Result :
        /\ Returns("rest", a)
        /\ a.quoted
        /\ a.status \in Status \ {"Internal"}
        /\ err \in Err => a.reason = Classify(err) /\ a.status \in RestTells(Classify(err))
        /\ Logs("rest", IF a.status = "500" THEN {Line("error", "500", TRUE, None)} ELSE {})
  <2>1. c.layer > 1
    BY <1>2
  <2> QED
    BY <2>1, RestErrors
<1>4. PICK d \in Call :
        /\ call' = [call EXCEPT !["rest"] = d]
        /\ d.way = "out" /\ d.layer = c.layer - 1 /\ d.result = a
        /\ d.ended = c.ended /\ d.slot = c.slot /\ d.actor = c.actor
  BY <1>2, <1>3, TurnsRound DEF Adapter
<1> DEFINE ms == ls \cup (IF a.status = "500" THEN {Line("error", "500", TRUE, None)} ELSE {})
<1>5. lines' = [lines EXCEPT !["rest"] = ms]
  BY <1>3 DEF Typed, Adapter, Logs
<1>6. Told(ls) = {}
  BY <1>1 DEF RestOk, Logged, Returning
<1>7. ms \in SUBSET LogLine /\ Told(ms) = {}
  <2>1. "500" \in Status
    BY DEF Status
  <2>2. Line("error", "500", TRUE, None) \in LogLine
    BY <2>1 DEF Line, LogLine
  <2>3. Told(ms) = Told(ls)
    BY DEF Told, Line
  <2> QED
    BY <1>1, <1>6, <2>2, <2>3
<1>8. Placed(d, n)
  BY <1>1, <1>2, <1>4 DEF RestOk, Placed, Admitted
<1>9. Logged(d, ms, 4, 5)
  <2>1. d.layer \in 6..7
    BY <1>2, <1>4
  <2> HIDE DEF ms
  <2> QED
    BY <1>7, <2>1 DEF Logged
<1>10. a.status = "500" => \E l \in ms : l.kind = "error" /\ l.id
  <2>1. Line("error", "500", TRUE, None).kind = "error" /\ Line("error", "500", TRUE, None).id
    BY DEF Line
  <2> QED
    BY <2>1
<1> HIDE DEF ms
<1>11. RestAnswer(d, ms)
  <2>1. d.result.status # "Internal"
    BY <1>3, <1>4
  <2>2. d.result.status = "500" => \E l \in ms : l.kind = "error" /\ l.id
    BY <1>4, <1>10
  <2>3. Plain(d) => Plain(c)
    BY <1>4 DEF Plain
  <2>4. Plain(d) => /\ d.result.reason = Verdict /\ d.result.quoted
                    /\ d.result.status \in RestTells(Verdict)
    BY <1>3, <1>4, <2>3
  <2> QED
    BY <1>4, <2>1, <2>2, <2>4 DEF RestAnswer
<1> QED
  BY <1>4, <1>5, <1>7, <1>8, <1>9, <1>11 DEF RestOk, RestKept

LEMMA RestInward ==
  ASSUME Typed, RestOk(call["rest"], lines["rest"]),
         PassIn("rest") \/ Authenticate("rest") \/ RestHandler("rest")
  PROVE  RestKept
<1> DEFINE c == call["rest"]
           ls == lines["rest"]
           n == RestLayers
<1>1. c \in Call /\ ls \in SUBSET LogLine /\ c.layer \in 0..8
  BY DEF Typed, Call, Adapter
<1>2. lines = [lines EXCEPT !["rest"] = ls] /\ "rest" \in Adapter
  BY DEF Typed, Adapter
<1>3. n \in {7, 8} /\ (Public <=> n = 7)
  BY DEF RestLayers
<1>4. PassIn("rest") => c.way = "in" /\ c.layer \in 1..6
  BY RestAt DEF PassIn
<1>5. Authenticate("rest") => c.way = "in" /\ c.layer = 7 /\ ~Public
  BY RestAt DEF Authenticate
<1>6. RestHandler("rest") => c.way = "in" /\ c.layer = n
  BY RestAt DEF RestHandler
<1>7. Told(ls) = {}
  BY <1>4, <1>5, <1>6 DEF RestOk, Logged, Returning
<1>8. CASE PassIn("rest")
  <2> DEFINE d == [c EXCEPT !.layer = @ + 1]
  <2>1. d \in Call
    BY <1>1, <1>4, <1>8 DEF Call
  <2>2. call' = [call EXCEPT !["rest"] = d] /\ lines' = [lines EXCEPT !["rest"] = ls]
    BY <1>2, <1>8 DEF PassIn, Inward, Goes
  <2>3. Placed(d, n)
    BY <1>1, <1>3, <1>4, <1>8 DEF RestOk, Placed, Admitted, Passes, Call
  <2>4. Logged(d, ls, 4, 5)
    BY <1>1, <1>4, <1>7, <1>8 DEF Logged, Returning, Call
  <2>5. RestAnswer(d, ls)
    BY <1>1, <1>4, <1>8 DEF RestAnswer, Returning, Plain, Call
  <2> QED
    BY <1>1, <2>1, <2>2, <2>3, <2>4, <2>5 DEF RestOk, RestKept
<1>9. CASE Authenticate("rest") /\ HasToken /\ Verifies
  <2> DEFINE d == [c EXCEPT !.layer = @ + 1, !.actor = asked.bearer, !.slot = asked.bearer]
  <2>1. d \in Call
    <3>1. asked.bearer \in Subject \cup {None} /\ c.layer + 1 \in 0..8
      BY <1>1, <1>5, <1>9, BearerOfPassing
    <3> QED
      BY <1>1, <3>1 DEF Call
  <2>2. call' = [call EXCEPT !["rest"] = d] /\ lines' = [lines EXCEPT !["rest"] = ls]
    <3>1. Set("rest", asked.bearer) /\ UNCHANGED lines
      BY <1>9 DEF Authenticate
    <3>2. InsideOf("rest", "Logging")
      BY <1>5, <1>9, RestKnows
    <3> QED
      BY <1>2, <3>1, <3>2 DEF Set, Goes
  <2>3. Placed(d, n)
    <3>1. d.way = "in" /\ d.layer = 8 /\ d.actor = asked.bearer /\ d.slot = asked.bearer
      BY <1>1, <1>5, <1>9 DEF Call
    <3>2. Passes /\ asked.bearer \in Subject
      BY <1>9, BearerOfPassing DEF Passes
    <3> QED
      BY <1>3, <1>5, <1>9, <3>1, <3>2 DEF Placed, Admitted
  <2>4. Logged(d, ls, 4, 5)
    BY <1>1, <1>5, <1>7, <1>9 DEF Logged, Returning, Call
  <2>5. RestAnswer(d, ls)
    BY <1>1, <1>5, <1>9 DEF RestAnswer, Returning, Plain, Call
  <2> QED
    BY <1>1, <2>1, <2>2, <2>3, <2>4, <2>5 DEF RestOk, RestKept
<1>10. CASE Authenticate("rest") /\ ~(HasToken /\ Verifies)
  <2>1. RespondError("rest", "unauthenticated") /\ "unauthenticated" \in Err
    BY <1>10 DEF Authenticate, HasToken, Verifies, Err
  <2>2. Classify("unauthenticated") = Verdict
    BY <1>5, <1>10 DEF Classify, Verdict, Passes
  <2> QED
    BY <1>5, <1>10, <2>1, <2>2, RestRefuses
<1>11. CASE RestHandler("rest") /\ asked.decoded = "fine"
  <2> DEFINE d == [c EXCEPT !.way = "core"]
  <2>1. d \in Call
    BY <1>1 DEF Call
  <2>2. call' = [call EXCEPT !["rest"] = d] /\ lines' = [lines EXCEPT !["rest"] = ls]
    BY <1>2, <1>11 DEF RestHandler, Core, Goes
  <2>3. Placed(d, n)
    BY <1>1, <1>3, <1>6, <1>11 DEF RestOk, Placed, Admitted, Call
  <2>4. Logged(d, ls, 4, 5)
    BY <1>1, <1>7 DEF Logged, Returning, Call
  <2>5. RestAnswer(d, ls)
    BY <1>1, <1>6, <1>11 DEF RestAnswer, Returning, Plain, Call
  <2> QED
    BY <1>1, <2>1, <2>2, <2>3, <2>4, <2>5 DEF RestOk, RestKept
<1>12. CASE RestHandler("rest") /\ asked.decoded # "fine"
  <2>1. RespondError("rest", asked.decoded)
    BY <1>12 DEF RestHandler
  <2>2. asked.decoded \in Err \cup {"malformed", "tooBig"}
    BY <1>12 DEF Typed, Request, Err
  <2> QED
    BY <1>6, <1>12, <2>1, <2>2, RestRefuses DEF Plain
<1> QED
  BY <1>8, <1>9, <1>10, <1>11, <1>12

LEMMA RestCore ==
  ASSUME Typed, RestOk(call["rest"], lines["rest"]), RestReturns("rest")
  PROVE  RestKept
<1> DEFINE c == call["rest"]
           ls == lines["rest"]
           n == RestLayers
<1>1. c \in Call /\ ls \in SUBSET LogLine /\ lines = [lines EXCEPT !["rest"] = ls]
  BY DEF Typed, Call, Adapter
<1>2. n \in {7, 8} /\ c.way = "core" /\ c.layer = n
  BY RestAt DEF RestReturns, RestLayers
<1>3. Told(ls) = {} /\ Passes
  BY <1>2 DEF RestOk, Logged, Placed, Admitted, Returning
<1>4. PICK it \in Returned("rest") :
        \/ it \in {"panic", "abort"} /\ Panics("rest") /\ UNCHANGED lines
        \/ /\ it = "ok" /\ Returns("rest", Answer(Success, "ok", HasId("rest")))
           /\ UNCHANGED lines
        \/ it \notin {"panic", "abort", "ok"} /\ RespondError("rest", it)
  BY DEF RestReturns
<1>5. /\ it \in Err \cup {"ok", "panic", "abort"}
      /\ Plain(c) => it = outcome /\ it \notin {"panic", "abort"}
  <2>1. outcome \in {"ok", "timeout", "panic", "abort"} \cup (Err \ {"deadline", "canceled"})
    BY OutcomeRange DEF Typed, Request
  <2>2. c.ended \in {None, "canceled", "deadline"}
    BY <1>1 DEF Call
  <2> QED
    BY <2>1, <2>2, <1>4 DEF Returned, Err, Plain
<1>6. Plain(c) /\ it # "ok" => it \in Err /\ Classify(it) = Verdict
  BY <1>3, <1>5 DEF Verdict
<1>7. CASE it \in {"panic", "abort"}
  <2>1. PICK d \in Call :
          /\ call' = [call EXCEPT !["rest"] = d]
          /\ d.way = "panic" /\ d.layer = c.layer - 1 /\ d.result = c.result
          /\ d.ended = c.ended /\ d.slot = c.slot /\ d.actor = c.actor
    BY <1>2, <1>4, <1>7, PanicsOn DEF Adapter, RespondError
  <2>2. lines' = lines
    BY <1>4, <1>7
  <2>3. Placed(d, n)
    BY <1>2, <2>1 DEF RestOk, Placed, Admitted
  <2>4. Logged(d, ls, 4, 5)
    BY <1>3, <2>1 DEF Logged, Returning
  <2>5. RestAnswer(d, ls)
    BY <1>5, <1>7, <2>1 DEF RestAnswer, Returning, Plain
  <2> QED
    BY <1>1, <2>1, <2>2, <2>3, <2>4, <2>5 DEF RestOk, RestKept
<1>8. CASE it = "ok"
  <2> DEFINE a == Answer(Success, "ok", HasId("rest"))
  <2>1. a = Answer(Success, "ok", TRUE)
    <3>1. HasId("rest") = TRUE
      <4>1. HasId("rest")
        BY <1>2, RestKnows
      <4> QED
        BY <4>1 DEF HasId, InsideOf
    <3> QED
      BY <3>1
  <2>2. Success \in Status \ {"500", "Internal"} /\ Success \in RestTells("ok")
    BY DEF Success, Status, RestTells
  <2>3. a \in Result
    BY <2>1, <2>2, AnswerType
  <2>4. a.status \notin {"500", "Internal"} /\ a.reason = "ok" /\ a.status \in RestTells("ok")
    BY <2>2 DEF Answer
  <2>5. a.quoted
    BY <2>1 DEF Answer
  <2>6. Returns("rest", a) /\ UNCHANGED lines
    BY <1>4, <1>8
  <2> HIDE DEF a
  <2>7. PICK d \in Call :
          /\ call' = [call EXCEPT !["rest"] = d]
          /\ d.way = "out" /\ d.layer = c.layer - 1 /\ d.result = a
          /\ d.ended = c.ended /\ d.slot = c.slot /\ d.actor = c.actor
    BY <1>2, <2>3, <2>6, TurnsRound DEF Adapter
  <2>8. Placed(d, n)
    BY <1>2, <2>7 DEF RestOk, Placed, Admitted
  <2>9. Logged(d, ls, 4, 5)
    BY <1>2, <1>3, <2>7 DEF Logged
  <2>10. Plain(d) => Verdict = "ok"
    BY <1>3, <1>5, <1>8, <2>7 DEF Plain, Verdict
  <2>11. RestAnswer(d, ls)
    BY <2>4, <2>5, <2>7, <2>10 DEF RestAnswer
  <2> QED
    BY <1>1, <2>6, <2>7, <2>8, <2>9, <2>11 DEF RestOk, RestKept
<1>9. CASE it \notin {"panic", "abort", "ok"}
  <2>1. RespondError("rest", it) /\ it \in Err
    BY <1>4, <1>5, <1>9
  <2> QED
    BY <1>2, <1>6, <1>9, <2>1, RestRefuses
<1> QED
  BY <1>7, <1>8, <1>9

LEMMA RestOutward ==
  ASSUME Typed, RestOk(call["rest"], lines["rest"]),
         PassOut("rest") \/ LogRequest("rest") \/ CountRequest("rest")
  PROVE  RestKept
<1> DEFINE c == call["rest"]
           ls == lines["rest"]
           n == RestLayers
<1>1. c \in Call /\ ls \in SUBSET LogLine /\ lines = [lines EXCEPT !["rest"] = ls]
  BY DEF Typed, Call, Adapter
<1>2. n \in {7, 8} /\ (Public <=> n = 7)
  BY DEF RestLayers
<1>3. PassOut("rest") => c.way = "out" /\ (c.layer \in {1, 2, 3, 6} \/ (c.layer = 7 /\ n = 8))
  BY <1>2, RestAt DEF PassOut
<1>4. LogRequest("rest") => c.way = "out" /\ c.layer = 4
  BY RestAt DEF LogRequest
<1>5. CountRequest("rest") => c.way = "out" /\ c.layer = 5
  BY RestAt DEF CountRequest
<1>6. Returns("rest", c.result) /\ c.result \in Result /\ c.result.status \in Status
  BY <1>1 DEF PassOut, LogRequest, CountRequest, Outward, Call, Result
<1>7. c.way = "out" /\ c.layer \in 1..7
  BY <1>3, <1>4, <1>5
<1>8. PICK d \in Call :
        /\ call' = [call EXCEPT !["rest"] = d]
        /\ d.way = "out" /\ d.layer = c.layer - 1 /\ d.result = c.result
        /\ d.ended = c.ended /\ d.slot = c.slot /\ d.actor = c.actor
  BY <1>6, <1>7, TurnsRound DEF Adapter
<1>9. Placed(d, n)
  BY <1>2, <1>7, <1>8 DEF RestOk, Placed, Admitted
<1>10. ASSUME NEW ms, ls \subseteq ms  PROVE RestAnswer(d, ms)
  BY <1>7, <1>8, <1>10 DEF RestOk, RestAnswer, Returning, Plain
<1>11. CASE PassOut("rest")
  <2>1. Logged(d, ls, 4, 5)
    BY <1>3, <1>8, <1>11 DEF RestOk, Logged, Returning
  <2> QED
    BY <1>1, <1>8, <1>9, <1>10, <1>11, <2>1 DEF RestOk, RestKept, PassOut
<1>12. CASE LogRequest("rest")
  <2> DEFINE l == Line("access", c.result.status, TRUE, c.slot)
             ms == ls \cup {l}
  <2>1. HasId("rest") = TRUE
    <3>1. HasId("rest")
      BY <1>4, <1>12, RestKnows
    <3> QED
      BY <3>1 DEF HasId, InsideOf
  <2>2. lines' = [lines EXCEPT !["rest"] = ms]
    BY <1>12, <2>1 DEF LogRequest, Logs, Typed, Adapter
  <2>3. l.kind = "access" /\ l.status = c.result.status /\ l.id /\ l.actor = c.slot
    BY DEF Line
  <2>6. l \in LogLine
    <3>1. c.slot \in Subject \cup {None}
      BY <1>1 DEF Call
    <3> QED
      BY <1>6, <3>1, LineType
  <2>4. c.slot = c.actor
    BY DEF RestOk, Placed
  <2> HIDE DEF l
  <2>5. Logged(d, ms, 4, 5)
    BY <1>4, <1>8, <1>12, <2>3, <2>4 DEF RestOk, Logged, Returning, Told
  <2>7. ms \in SUBSET LogLine /\ RestAnswer(d, ms)
    BY <1>1, <1>10, <2>6
  <2> HIDE DEF ms
  <2> QED
    BY <1>8, <1>9, <2>2, <2>5, <2>7 DEF RestOk, RestKept
<1>13. CASE CountRequest("rest")
  <2> DEFINE l == Line("sample", c.result.status, FALSE, None)
             ms == ls \cup {l}
  <2>1. lines' = [lines EXCEPT !["rest"] = ms]
    BY <1>13 DEF CountRequest, Logs, Typed, Adapter
  <2>2. l.kind = "sample" /\ l.status = c.result.status
    BY DEF Line
  <2>4. l \in LogLine
    BY <1>6, LineType
  <2> HIDE DEF l
  <2>3. Logged(d, ms, 4, 5)
    BY <1>5, <1>8, <1>13, <2>2 DEF RestOk, Logged, Returning, Told
  <2>7. ms \in SUBSET LogLine /\ RestAnswer(d, ms)
    BY <1>1, <1>10, <2>4
  <2> HIDE DEF ms
  <2> QED
    BY <1>8, <1>9, <2>1, <2>3, <2>7 DEF RestOk, RestKept
<1> QED
  BY <1>11, <1>12, <1>13

LEMMA RestUnwinds ==
  ASSUME Typed, RestOk(call["rest"], lines["rest"]), Unwind("rest") \/ Recoverer("rest")
  PROVE  RestKept
<1> DEFINE c == call["rest"]
           ls == lines["rest"]
           n == RestLayers
<1>1. c \in Call /\ ls \in SUBSET LogLine /\ lines = [lines EXCEPT !["rest"] = ls]
  BY DEF Typed, Call, Adapter
<1>2. n \in {7, 8} /\ c.way = "panic" /\ c.layer \in 1..7 /\ (Recoverer("rest") => c.layer = 3)
  <2>1. n \in {7, 8}
    BY DEF RestLayers
  <2>2. Unwind("rest") => c.way = "panic" /\ c.layer \in 1..7
    BY RestAt DEF Unwind
  <2>3. Recoverer("rest") => c.way = "panic" /\ c.layer = 3
    BY RestAt DEF Recoverer
  <2> QED
    BY <2>1, <2>2, <2>3
<1>3. Told(ls) = {} /\ ~Plain(c)
  BY <1>2 DEF RestOk, Logged, RestAnswer, Returning
<1>4. CASE Panics("rest") /\ UNCHANGED lines
  <2>1. PICK d \in Call :
          /\ call' = [call EXCEPT !["rest"] = d]
          /\ d.way = "panic" /\ d.layer = c.layer - 1 /\ d.result = c.result
          /\ d.ended = c.ended /\ d.slot = c.slot /\ d.actor = c.actor
    BY <1>2, <1>4, PanicsOn DEF Adapter
  <2>2. Placed(d, n)
    BY <1>2, <2>1 DEF RestOk, Placed, Admitted
  <2>3. Logged(d, ls, 4, 5)
    BY <1>3, <2>1 DEF Logged, Returning
  <2>4. RestAnswer(d, ls)
    BY <1>3, <2>1 DEF RestAnswer, Returning, Plain
  <2> QED
    BY <1>1, <1>4, <2>1, <2>2, <2>3, <2>4 DEF RestOk, RestKept
<1>5. CASE Recoverer("rest") /\ outcome # "abort"
  <2> DEFINE a == ErrorBody("rest", "panic")
             p == Line("panic", None, TRUE, None)
             e == Line("error", "500", TRUE, None)
             ms == ls \cup {p, e}
  <2>1. HasId("rest") = TRUE
    <3>1. HasId("rest")
      BY <1>2, <1>5, RestKnows
    <3> QED
      BY <3>1 DEF HasId, InsideOf
  <2>2. a = Answer("500", "INTERNAL", TRUE)
    BY <2>1 DEF ErrorBody, Classify, StatusOf, Code
  <2>3. a \in Result /\ a.status = "500"
    <3>1. "500" \in Status /\ "INTERNAL" \in Code
      BY DEF Status, Code
    <3>2. a.status = "500"
      BY <2>2 DEF Answer
    <3> QED
      BY <2>2, <3>1, <3>2, AnswerType
  <2>4. Returns("rest", a) /\ lines' = [lines EXCEPT !["rest"] = ms]
    BY <1>5, <2>1, <2>3 DEF Recoverer, Logs, Typed, Adapter
  <2> HIDE DEF a
  <2>5. PICK d \in Call :
          /\ call' = [call EXCEPT !["rest"] = d]
          /\ d.way = "out" /\ d.layer = c.layer - 1 /\ d.result = a
          /\ d.ended = c.ended /\ d.slot = c.slot /\ d.actor = c.actor
    BY <1>2, <2>3, <2>4, TurnsRound DEF Adapter
  <2>6. p \in LogLine /\ e \in LogLine
    <3>1. "500" \in Status /\ None \in Status
      BY DEF Status
    <3> QED
      BY <3>1, LineType
  <2>7. p.kind = "panic" /\ e.kind = "error"
    BY DEF Line
  <2>8. e.id
    BY DEF Line
  <2> HIDE DEF p, e
  <2>9. Told(ms) = {}
    BY <1>3, <2>7 DEF Told
  <2>10. Placed(d, n)
    BY <1>2, <2>5 DEF RestOk, Placed, Admitted
  <2>11. Logged(d, ms, 4, 5)
    BY <2>7, <2>9 DEF Logged
  <2>12. RestAnswer(d, ms)
    BY <1>3, <2>3, <2>5, <2>7, <2>8 DEF RestAnswer, Plain
  <2>13. ms \in SUBSET LogLine
    BY <1>1, <2>6
  <2> HIDE DEF ms
  <2> QED
    BY <2>4, <2>5, <2>10, <2>11, <2>12, <2>13 DEF RestOk, RestKept
<1> QED
  BY <1>4, <1>5 DEF Unwind, Recoverer

LEMMA RestEnds ==
  ASSUME Typed, RestOk(call["rest"], lines["rest"]), End("rest") \/ ContextEnds("rest")
  PROVE  RestKept
<1> DEFINE c == call["rest"]
           ls == lines["rest"]
           n == RestLayers
<1>1. c \in Call /\ ls \in SUBSET LogLine /\ lines = [lines EXCEPT !["rest"] = ls]
  BY DEF Typed, Call, Adapter
<1>2. CASE End("rest")
  <2>1. c.layer = 0 /\ c.way \in {"out", "panic"}
    BY <1>2 DEF End
  <2> DEFINE d == [c EXCEPT !.way = IF @ = "out" THEN "answered" ELSE "dropped"]
  <2>2. call' = [call EXCEPT !["rest"] = d] /\ UNCHANGED lines
    BY <1>2 DEF End, Goes
  <2>3. /\ d \in Call /\ d.layer = 0 /\ d.ended = c.ended /\ d.slot = c.slot
        /\ d.actor = c.actor /\ d.result = c.result
        /\ d.way \in {"answered", "dropped"} /\ (d.way = "answered" <=> c.way = "out")
    BY <1>1, <2>1 DEF Call
  <2> HIDE DEF d
  <2>4. Placed(d, n)
    BY <2>1, <2>3 DEF RestOk, Placed, Admitted, RestLayers
  <2>5. Logged(d, ls, 4, 5)
    BY <2>1, <2>3 DEF RestOk, Logged, Returning
  <2>6. RestAnswer(d, ls)
    BY <2>1, <2>3 DEF RestOk, RestAnswer, Returning, Plain
  <2> QED
    BY <1>1, <2>2, <2>3, <2>4, <2>5, <2>6 DEF RestOk, RestKept
<1>3. CASE ContextEnds("rest")
  <2>1. PICK how \in {"canceled"} : Goes("rest", [c EXCEPT !.ended = how])
    BY <1>3 DEF ContextEnds
  <2> DEFINE d == [c EXCEPT !.ended = how]
  <2>2. call' = [call EXCEPT !["rest"] = d] /\ UNCHANGED lines
    BY <1>3, <2>1 DEF ContextEnds, Goes
  <2>3. /\ d \in Call /\ d.layer = c.layer /\ d.slot = c.slot /\ d.actor = c.actor
        /\ d.result = c.result /\ d.way = c.way
    BY <1>1 DEF Call
  <2> HIDE DEF d
  <2>4. c.way \in {"in", "core"}
    BY <1>3 DEF ContextEnds
  <2>5. Placed(d, n)
    BY <2>3 DEF RestOk, Placed, Admitted
  <2>6. Logged(d, ls, 4, 5)
    BY <2>3 DEF RestOk, Logged, Returning
  <2>7. RestAnswer(d, ls)
    BY <2>3, <2>4 DEF RestAnswer, Returning
  <2> QED
    BY <1>1, <2>2, <2>3, <2>5, <2>6, <2>7 DEF RestOk, RestKept
<1> QED
  BY <1>2, <1>3

LEMMA RestStep ==
  ASSUME Typed, RestOk(call["rest"], lines["rest"]), Step("rest") \/ ContextEnds("rest")
  PROVE  RestKept
<1>1. ASSUME NEW way, NEW name \in {"auth", "method", "errors", "logging", "recovery"},
             At("rest", way, name)
      PROVE  FALSE
  BY <1>1, RestAt
<1>2. /\ ~AuthUnary("rest") /\ ~GrpcMethod("rest") /\ ~GrpcReturns("rest")
      /\ ~Translate("rest") /\ ~LogCall("rest") /\ ~RecoverCall("rest")
  BY <1>1 DEF AuthUnary, GrpcMethod, GrpcReturns, Translate, LogCall, RecoverCall
<1> QED
  BY <1>2, RestInward, RestCore, RestOutward, RestUnwinds, RestEnds DEF Step

-----------------------------------------------------------------------------
(* One step of the call on gRPC. *)

GrpcKept ==
  \E d \in Call, ms \in SUBSET LogLine :
    /\ call' = [call EXCEPT !["grpc"] = d]
    /\ lines' = [lines EXCEPT !["grpc"] = ms]
    /\ GrpcOk(d, ms)

\* An error of authUnary or of the method goes back as it is.
LEMMA GrpcReturnsIt ==
  ASSUME Typed, GrpcOk(call["grpc"], lines["grpc"]), UNCHANGED lines,
         call["grpc"].way \in {"in", "core"}, call["grpc"].layer \in {5, 6},
         NEW a \in Result, Returns("grpc", a),
         \/ a.status = "OK" /\ a.reason = "ok" /\ a.quoted
         \/ a.status = "Unknown" /\ a.reason \in Err,
         Plain(call["grpc"]) =>
           \/ a.status = "OK" /\ Verdict = "ok"
           \/ /\ a.status = "Unknown" /\ a.reason \notin {"deadline", "canceled"}
              /\ Classify(a.reason) = Verdict
  PROVE  GrpcKept
<1> DEFINE c == call["grpc"]
           ls == lines["grpc"]
<1>1. c \in Call /\ ls \in SUBSET LogLine /\ lines' = [lines EXCEPT !["grpc"] = ls]
  BY DEF Typed, Call, Adapter
<1>2. PICK d \in Call :
        /\ call' = [call EXCEPT !["grpc"] = d]
        /\ d.way = "out" /\ d.layer = c.layer - 1 /\ d.result = a
        /\ d.ended = c.ended /\ d.slot = c.slot /\ d.actor = c.actor
  BY TurnsRound DEF Adapter
<1>3. Told(ls) = {}
  BY DEF GrpcOk, Logged, Returning
<1>4. Placed(d, 6)
  BY <1>2 DEF GrpcOk, Placed, Admitted
<1>5. Logged(d, ls, 2, 2)
  BY <1>2, <1>3 DEF Logged
<1>6. Plain(d) => Plain(c)
  BY <1>2 DEF Plain
<1>7. GrpcAnswer(d, ls)
  BY <1>2, <1>6 DEF GrpcAnswer, Raw, Translated
<1> QED
  BY <1>1, <1>2, <1>4, <1>5, <1>7 DEF GrpcOk, GrpcKept

LEMMA GrpcInward ==
  ASSUME Typed, GrpcOk(call["grpc"], lines["grpc"]),
         PassIn("grpc") \/ AuthUnary("grpc") \/ GrpcMethod("grpc")
  PROVE  GrpcKept
<1> DEFINE c == call["grpc"]
           ls == lines["grpc"]
<1>1. c \in Call /\ ls \in SUBSET LogLine /\ lines = [lines EXCEPT !["grpc"] = ls]
  BY DEF Typed, Call, Adapter
<1>2. PassIn("grpc") => c.way = "in" /\ c.layer \in 1..4
  BY GrpcAt DEF PassIn
<1>3. AuthUnary("grpc") => c.way = "in" /\ c.layer = 5
  BY GrpcAt DEF AuthUnary
<1>4. GrpcMethod("grpc") => c.way = "in" /\ c.layer = 6
  BY GrpcAt DEF GrpcMethod
<1>5. c.way = "in" /\ c.layer \in 1..6
  BY <1>2, <1>3, <1>4
<1>6. Told(ls) = {} /\ c.slot = c.actor
  BY <1>5 DEF GrpcOk, Logged, Placed, Returning
\* What any move inward keeps, but for where the call is.
<1>7. ASSUME NEW d \in Call, d.way \in {"in", "core"}
      PROVE  Logged(d, ls, 2, 2) /\ GrpcAnswer(d, ls)
  BY <1>6, <1>7 DEF Logged, GrpcAnswer, Returning, Raw, Translated
<1>8. CASE Inward("grpc") /\ UNCHANGED lines /\ (c.layer \in 1..4 \/ (c.layer = 5 /\ Public))
  <2> DEFINE d == [c EXCEPT !.layer = @ + 1]
  <2>1. d \in Call /\ d.way = "in" /\ d.layer = c.layer + 1 /\ d.slot = c.slot /\ d.actor = c.actor
    BY <1>1, <1>5, <1>8 DEF Call
  <2>2. call' = [call EXCEPT !["grpc"] = d]
    BY <1>8 DEF Inward, Goes
  <2> HIDE DEF d
  <2>3. Placed(d, 6)
    BY <1>6, <1>8, <2>1 DEF Placed, Admitted, Passes
  <2> QED
    BY <1>1, <1>7, <1>8, <2>1, <2>2, <2>3 DEF GrpcOk, GrpcKept
<1>9. CASE AuthUnary("grpc") /\ Set("grpc", asked.bearer) /\ UNCHANGED lines
           /\ HasToken /\ Verifies
  <2> DEFINE d == [c EXCEPT !.layer = @ + 1, !.actor = asked.bearer, !.slot = asked.bearer]
  <2>1. asked.bearer \in Subject /\ Passes
    BY <1>9, BearerOfPassing DEF Passes
  <2>2. InsideOf("grpc", "logging")
    BY <1>3, <1>9, GrpcKnows
  <2>3. call' = [call EXCEPT !["grpc"] = d]
    BY <1>9, <2>2 DEF Set, Goes
  <2>4. c.layer + 1 \in 0..8 /\ asked.bearer \in Subject \cup {None}
    BY <1>5, <2>1
  <2>5. d \in Call
    BY <1>1, <2>4 DEF Call
  <2>6. d.way = "in" /\ d.layer = 6 /\ d.actor = asked.bearer /\ d.slot = asked.bearer
    BY <1>1, <1>3, <1>9 DEF Call
  <2> HIDE DEF d
  <2>7. Placed(d, 6)
    BY <2>1, <2>6 DEF Placed, Admitted
  <2> QED
    BY <1>1, <1>7, <1>9, <2>3, <2>5, <2>6, <2>7 DEF GrpcOk, GrpcKept
<1>10. CASE AuthUnary("grpc") /\ ~Public /\ ~(HasToken /\ Verifies)
            /\ Fails("grpc", "unauthenticated")
  <2> DEFINE a == Answer("Unknown", "unauthenticated", FALSE)
  <2>1. a \in Result
    BY AnswerType DEF Status, Err
  <2>2. a.status = "Unknown" /\ a.reason = "unauthenticated" /\ a.reason \in Err
    BY DEF Answer, Err
  <2>3. Classify("unauthenticated") = Verdict
    BY <1>10 DEF Classify, Verdict, Passes
  <2>4. Returns("grpc", a) /\ UNCHANGED lines
    BY <1>10 DEF Fails
  <2> HIDE DEF a
  <2> QED
    BY <1>3, <1>10, <2>1, <2>2, <2>3, <2>4, GrpcReturnsIt
<1>11. CASE GrpcMethod("grpc")
  <2> DEFINE d == [c EXCEPT !.way = "core"]
  <2>1. d \in Call /\ d.way = "core" /\ d.layer = 6 /\ d.slot = c.slot /\ d.actor = c.actor
    BY <1>1, <1>4, <1>11 DEF Call
  <2>2. call' = [call EXCEPT !["grpc"] = d] /\ UNCHANGED lines
    BY <1>11 DEF GrpcMethod, Core, Goes
  <2> HIDE DEF d
  <2>3. Placed(d, 6)
    BY <1>4, <1>11, <2>1 DEF GrpcOk, Placed, Admitted
  <2> QED
    BY <1>1, <1>7, <2>1, <2>2, <2>3 DEF GrpcOk, GrpcKept
<1>12. CASE PassIn("grpc")
  BY <1>2, <1>8, <1>12 DEF PassIn
<1>13. CASE AuthUnary("grpc")
  BY <1>3, <1>8, <1>9, <1>10, <1>13, SameOpenMethods DEF AuthUnary
<1> QED
  BY <1>11, <1>12, <1>13

LEMMA GrpcCore ==
  ASSUME Typed, GrpcOk(call["grpc"], lines["grpc"]), GrpcReturns("grpc")
  PROVE  GrpcKept
<1> DEFINE c == call["grpc"]
           ls == lines["grpc"]
<1>1. c \in Call /\ ls \in SUBSET LogLine /\ lines = [lines EXCEPT !["grpc"] = ls]
  BY DEF Typed, Call, Adapter
<1>2. c.way = "core" /\ c.layer = 6 /\ UNCHANGED lines
  BY GrpcAt DEF GrpcReturns
<1>3. Told(ls) = {} /\ Passes
  BY <1>2 DEF GrpcOk, Logged, Placed, Admitted, Returning
<1>4. PICK it \in Returned("grpc") :
        \/ it \in {"panic", "abort"} /\ Panics("grpc")
        \/ it = "ok" /\ Returns("grpc", Answer("OK", "ok", TRUE))
        \/ it \notin {"panic", "abort", "ok"} /\ Returns("grpc", Answer("Unknown", it, FALSE))
  BY DEF GrpcReturns
<1>5. /\ it \in Err \cup {"ok", "panic", "abort"}
      /\ Plain(c) => /\ it = outcome
                     /\ it \notin {"panic", "abort", "deadline", "canceled"}
  <2>1. outcome \in {"ok", "timeout", "panic", "abort"} \cup (Err \ {"deadline", "canceled"})
    BY OutcomeRange DEF Typed, Request
  <2>2. c.ended \in {None, "canceled", "deadline"}
    BY <1>1 DEF Call
  <2> QED
    BY <2>1, <2>2, <1>4 DEF Returned, Err, Plain
<1>6. CASE it \in {"panic", "abort"}
  <2>1. PICK d \in Call :
          /\ call' = [call EXCEPT !["grpc"] = d]
          /\ d.way = "panic" /\ d.layer = c.layer - 1 /\ d.result = c.result
          /\ d.ended = c.ended /\ d.slot = c.slot /\ d.actor = c.actor
    <3>1. Panics("grpc")
      BY <1>4, <1>6
    <3> QED
      BY <1>2, <3>1, PanicsOn DEF Adapter
  <2>2. Placed(d, 6)
    BY <1>2, <2>1 DEF GrpcOk, Placed, Admitted
  <2>3. Logged(d, ls, 2, 2)
    BY <1>3, <2>1 DEF Logged, Returning
  <2>4. GrpcAnswer(d, ls)
    BY <1>5, <1>6, <2>1 DEF GrpcAnswer, Raw, Translated, Returning, Plain
  <2> QED
    BY <1>1, <1>2, <2>1, <2>2, <2>3, <2>4 DEF GrpcOk, GrpcKept
<1>7. CASE it = "ok"
  <2> DEFINE a == Answer("OK", "ok", TRUE)
  <2>1. a \in Result
    BY AnswerType DEF Status
  <2>2. a.status = "OK" /\ a.reason = "ok"
    BY DEF Answer
  <2>3. a.quoted
    BY DEF Answer
  <2>4. Plain(c) => Verdict = "ok"
    BY <1>3, <1>5, <1>7 DEF Verdict
  <2>5. Returns("grpc", a)
    BY <1>4, <1>7
  <2> HIDE DEF a
  <2> QED
    BY <1>2, <2>1, <2>2, <2>3, <2>4, <2>5, GrpcReturnsIt
<1>8. CASE it \notin {"panic", "abort", "ok"}
  <2> DEFINE a == Answer("Unknown", it, FALSE)
  <2>1. it \in Err
    BY <1>5, <1>8
  <2>2. a \in Result
    BY <2>1, AnswerType DEF Status
  <2>3. a.status = "Unknown" /\ a.reason = it
    BY DEF Answer
  <2>4. Plain(c) => Verdict = Classify(it)
    BY <1>3, <1>5, <1>8 DEF Verdict
  <2>5. Returns("grpc", a)
    BY <1>4, <1>8
  <2> HIDE DEF a
  <2> QED
    BY <1>2, <1>5, <2>1, <2>2, <2>3, <2>4, <2>5, GrpcReturnsIt
<1> QED
  BY <1>6, <1>7, <1>8

LEMMA GrpcOutward ==
  ASSUME Typed, GrpcOk(call["grpc"], lines["grpc"]), PassOut("grpc") \/ LogCall("grpc")
  PROVE  GrpcKept
<1> DEFINE c == call["grpc"]
           ls == lines["grpc"]
<1>1. c \in Call /\ ls \in SUBSET LogLine /\ lines = [lines EXCEPT !["grpc"] = ls]
  BY DEF Typed, Call, Adapter
<1>2. PassOut("grpc") => c.way = "out" /\ c.layer \in {1, 4, 5}
  BY GrpcAt DEF PassOut
<1>3. LogCall("grpc") => c.way = "out" /\ c.layer = 2
  BY GrpcAt DEF LogCall
<1>4. Returns("grpc", c.result) /\ c.result \in Result /\ c.result.status \in Status
  BY <1>1 DEF PassOut, LogCall, Outward, Call, Result
<1>5. c.way = "out" /\ c.layer \in {1, 2, 4, 5}
  BY <1>2, <1>3
<1>6. PICK d \in Call :
        /\ call' = [call EXCEPT !["grpc"] = d]
        /\ d.way = "out" /\ d.layer = c.layer - 1 /\ d.result = c.result
        /\ d.ended = c.ended /\ d.slot = c.slot /\ d.actor = c.actor
  BY <1>4, <1>5, TurnsRound DEF Adapter
<1>7. Placed(d, 6)
  BY <1>5, <1>6 DEF GrpcOk, Placed, Admitted
<1>8. /\ Raw(d) <=> Raw(c)
      /\ Translated(d) <=> Translated(c)
      /\ Plain(d) <=> Plain(c)
  BY <1>5, <1>6 DEF Raw, Translated, Returning, Plain
<1>9. ASSUME NEW ms, ls \subseteq ms  PROVE GrpcAnswer(d, ms)
  BY <1>5, <1>6, <1>8, <1>9 DEF GrpcOk, GrpcAnswer
<1>10. CASE PassOut("grpc")
  <2>1. Logged(d, ls, 2, 2)
    BY <1>2, <1>6, <1>10 DEF GrpcOk, Logged, Returning
  <2> QED
    BY <1>1, <1>6, <1>7, <1>9, <1>10, <2>1 DEF GrpcOk, GrpcKept, PassOut
<1>11. CASE LogCall("grpc")
  <2> DEFINE l == Line("access", c.result.status, TRUE, c.slot)
             ms == ls \cup {l}
  <2>1. lines' = [lines EXCEPT !["grpc"] = ms]
    BY <1>11 DEF LogCall, Logs, Typed, Adapter
  <2>2. l.kind = "access" /\ l.status = c.result.status /\ l.id /\ l.actor = c.slot
    BY DEF Line
  <2>3. l \in LogLine
    <3>1. c.slot \in Subject \cup {None}
      BY <1>1 DEF Call
    <3> QED
      BY <1>4, <3>1, LineType
  <2>4. c.slot = c.actor
    BY DEF GrpcOk, Placed
  <2> HIDE DEF l
  <2>5. Logged(d, ms, 2, 2)
    BY <1>3, <1>6, <1>11, <2>2, <2>4 DEF GrpcOk, Logged, Returning, Told
  <2>6. ms \in SUBSET LogLine /\ GrpcAnswer(d, ms)
    BY <1>1, <1>9, <2>3
  <2> HIDE DEF ms
  <2> QED
    BY <1>6, <1>7, <2>1, <2>5, <2>6 DEF GrpcOk, GrpcKept
<1> QED
  BY <1>10, <1>11

LEMMA GrpcTranslates ==
  ASSUME Typed, GrpcOk(call["grpc"], lines["grpc"]), Translate("grpc")
  PROVE  GrpcKept
<1> DEFINE c == call["grpc"]
           ls == lines["grpc"]
           err == c.result.reason
           a == CASE c.result.status # "Unknown" -> c.result
                  [] err = "deadline" -> Answer("DeadlineExceeded", None, FALSE)
                  [] err = "canceled" -> Answer("Canceled", None, FALSE)
                  [] OTHER            -> ToStatus(err, HasId("grpc"))
           l == Line("error", "Internal", TRUE, None)
           ms == ls \cup (IF a.status = "Internal" THEN {l} ELSE {})
<1>1. c \in Call /\ ls \in SUBSET LogLine /\ c.result \in Result
  BY DEF Typed, Call, Adapter
<1>2. c.way = "out" /\ c.layer = 3
  BY GrpcAt DEF Translate
<1>3. HasId("grpc") = TRUE
  <2>1. HasId("grpc")
    BY <1>2, GrpcKnows
  <2> QED
    BY <2>1 DEF HasId, InsideOf
<1>4. Returns("grpc", a) /\ lines' = [lines EXCEPT !["grpc"] = ms]
  BY <1>3 DEF Translate, Logs, Typed, Adapter
<1>5. c.result.status \in {"OK", "Unknown"}
  BY <1>2 DEF GrpcOk, GrpcAnswer, Raw
<1>6. err \in IF c.result.status = "OK" THEN {"ok"} ELSE Err
  BY <1>2 DEF GrpcOk, GrpcAnswer, Raw
<1>7. /\ a \in Result
      /\ a.status \in {"OK", "DeadlineExceeded", "Canceled", "InvalidArgument", "NotFound",
                       "AlreadyExists", "Unauthenticated", "PermissionDenied", "Internal"}
      /\ Plain(c) => a.reason = Verdict /\ a.quoted /\ a.status \in GrpcTells(Verdict)
  <2>1. Plain(c) =>
          \/ /\ c.result.status = "OK" /\ c.result.quoted
             /\ err = "ok" /\ Verdict = "ok"
          \/ /\ c.result.status = "Unknown"
             /\ err \notin {"deadline", "canceled"}
             /\ Classify(err) = Verdict
    BY <1>2 DEF GrpcOk, GrpcAnswer, Raw
  <2>2. CASE c.result.status = "OK"
    <3>1. a = c.result
      BY <1>6, <2>2
    <3>2. "OK" \in GrpcTells("ok")
      BY DEF GrpcTells
    <3> HIDE DEF a
    <3> QED
      BY <1>1, <2>1, <2>2, <3>1, <3>2
  <2>3. CASE c.result.status = "Unknown" /\ err = "deadline"
    <3>1. a = Answer("DeadlineExceeded", None, FALSE)
      BY <2>3
    <3> HIDE DEF a
    <3>2. a \in Result
      BY <3>1, AnswerType DEF Status
    <3>3. a.status = "DeadlineExceeded" /\ ~Plain(c)
      BY <2>1, <2>3, <3>1 DEF Answer
    <3> QED
      BY <3>2, <3>3
  <2>4. CASE c.result.status = "Unknown" /\ err = "canceled"
    <3>1. a = Answer("Canceled", None, FALSE)
      BY <2>4
    <3> HIDE DEF a
    <3>2. a \in Result
      BY <3>1, AnswerType DEF Status
    <3>3. a.status = "Canceled" /\ ~Plain(c)
      BY <2>1, <2>4, <3>1 DEF Answer
    <3> QED
      BY <3>2, <3>3
  <2>5. CASE c.result.status = "Unknown" /\ err \notin {"deadline", "canceled"}
    <3> DEFINE code == Classify(err)
    <3>1. a = Answer(CodeOf[code], code, TRUE)
      BY <1>3, <2>5 DEF ToStatus
    <3> HIDE DEF a
    <3>2. code \in Code
      BY ClassifyRange
    <3> HIDE DEF code
    <3>3. CodeOf[code] \in {"InvalidArgument", "NotFound", "AlreadyExists",
                            "Unauthenticated", "PermissionDenied", "Internal"}
      BY <3>2, StatusRange
    <3>4. a \in Result
      <4>1. CodeOf[code] \in Status
        BY <3>3 DEF Status
      <4> QED
        BY <3>1, <3>2, <4>1, AnswerType
    <3>5. a.status = CodeOf[code] /\ a.reason = code
      BY <3>1 DEF Answer
    <3>6. a.quoted
      BY <3>1 DEF Answer
    <3>7. Plain(c) => Verdict = code
      BY <2>1, <2>5 DEF code
    <3>8. CodeOf[code] \in GrpcTells(code)
      BY <3>2, StatusRange
    <3> QED
      BY <3>3, <3>4, <3>5, <3>6, <3>7, <3>8
  <2> HIDE DEF a
  <2> QED
    BY <1>5, <2>2, <2>3, <2>4, <2>5
<1> HIDE DEF a
<1>8. PICK d \in Call :
        /\ call' = [call EXCEPT !["grpc"] = d]
        /\ d.way = "out" /\ d.layer = 2 /\ d.result = a
        /\ d.ended = c.ended /\ d.slot = c.slot /\ d.actor = c.actor
  BY <1>2, <1>4, <1>7, TurnsRound DEF Adapter
<1>9. Told(ls) = {}
  BY <1>2 DEF GrpcOk, Logged
<1>10. l \in LogLine
  BY LineType DEF Status
<1>11. l.kind = "error" /\ l.id
  BY DEF Line
<1> HIDE DEF l
<1>12. ms \in SUBSET LogLine /\ Told(ms) = {}
  BY <1>1, <1>9, <1>10, <1>11 DEF Told
<1>13. a.status = "Internal" => \E e \in ms : e.kind = "error" /\ e.id
  BY <1>11
<1> HIDE DEF ms
<1>14. Placed(d, 6)
  BY <1>2, <1>8 DEF GrpcOk, Placed, Admitted
<1>15. Logged(d, ms, 2, 2)
  BY <1>8, <1>12 DEF Logged
<1>16. GrpcAnswer(d, ms)
  BY <1>7, <1>8, <1>13 DEF GrpcAnswer, Raw, Translated, Plain
<1> QED
  BY <1>4, <1>8, <1>12, <1>14, <1>15, <1>16 DEF GrpcOk, GrpcKept

LEMMA GrpcUnwinds ==
  ASSUME Typed, GrpcOk(call["grpc"], lines["grpc"]), Unwind("grpc") \/ RecoverCall("grpc")
  PROVE  GrpcKept
<1> DEFINE c == call["grpc"]
           ls == lines["grpc"]
<1>1. c \in Call /\ ls \in SUBSET LogLine /\ lines = [lines EXCEPT !["grpc"] = ls]
  BY DEF Typed, Call, Adapter
<1>2. c.way = "panic" /\ c.layer \in 1..5
  <2>1. Unwind("grpc") => c.way = "panic" /\ c.layer \in 2..5
    BY GrpcAt DEF Unwind
  <2>2. RecoverCall("grpc") => c.way = "panic" /\ c.layer = 1
    BY GrpcAt DEF RecoverCall
  <2> QED
    BY <2>1, <2>2
<1>3. Told(ls) = {} /\ ~Plain(c)
  BY <1>2 DEF GrpcOk, Logged, GrpcAnswer, Returning
<1>4. CASE Unwind("grpc")
  <2>1. Panics("grpc") /\ UNCHANGED lines
    BY <1>4 DEF Unwind
  <2>2. PICK d \in Call :
          /\ call' = [call EXCEPT !["grpc"] = d]
          /\ d.way = "panic" /\ d.layer = c.layer - 1 /\ d.result = c.result
          /\ d.ended = c.ended /\ d.slot = c.slot /\ d.actor = c.actor
    BY <1>2, <2>1, PanicsOn DEF Adapter
  <2>3. Placed(d, 6)
    BY <1>2, <2>2 DEF GrpcOk, Placed, Admitted
  <2>4. Logged(d, ls, 2, 2)
    BY <1>3, <2>2 DEF Logged, Returning
  <2>5. GrpcAnswer(d, ls)
    BY <1>3, <2>2 DEF GrpcAnswer, Raw, Translated, Returning, Plain
  <2> QED
    BY <1>1, <2>1, <2>2, <2>3, <2>4, <2>5 DEF GrpcOk, GrpcKept
<1>5. CASE RecoverCall("grpc")
  <2> DEFINE a == Answer("Internal", None, FALSE)
             p == Line("panic", None, FALSE, None)
             ms == ls \cup {p}
  <2>1. a \in Result
    BY AnswerType DEF Status
  <2>2. a.status = "Internal"
    BY DEF Answer
  <2>3. Returns("grpc", a) /\ lines' = [lines EXCEPT !["grpc"] = ms]
    BY <1>5 DEF RecoverCall, Logs, Typed, Adapter
  <2> HIDE DEF a
  <2>4. PICK d \in Call :
          /\ call' = [call EXCEPT !["grpc"] = d]
          /\ d.way = "out" /\ d.layer = c.layer - 1 /\ d.result = a
          /\ d.ended = c.ended /\ d.slot = c.slot /\ d.actor = c.actor
    BY <1>2, <2>1, <2>3, TurnsRound DEF Adapter
  <2>5. p \in LogLine
    BY LineType DEF Status
  <2>6. p.kind = "panic"
    BY DEF Line
  <2> HIDE DEF p
  <2>7. Told(ms) = {}
    BY <1>3, <2>6 DEF Told
  <2>8. c.layer = 1
    BY <1>5, GrpcAt DEF RecoverCall
  <2>9. Placed(d, 6)
    BY <1>2, <2>4 DEF GrpcOk, Placed, Admitted
  <2>10. Logged(d, ms, 2, 2)
    BY <2>6, <2>7 DEF Logged
  <2>11. GrpcAnswer(d, ms)
    BY <1>3, <2>2, <2>4, <2>6, <2>8 DEF GrpcAnswer, Raw, Plain
  <2>12. ms \in SUBSET LogLine
    BY <1>1, <2>5
  <2> HIDE DEF ms
  <2> QED
    BY <2>3, <2>4, <2>9, <2>10, <2>11, <2>12 DEF GrpcOk, GrpcKept
<1> QED
  BY <1>4, <1>5

LEMMA GrpcEnds ==
  ASSUME Typed, GrpcOk(call["grpc"], lines["grpc"]), End("grpc") \/ ContextEnds("grpc")
  PROVE  GrpcKept
<1> DEFINE c == call["grpc"]
           ls == lines["grpc"]
<1>1. c \in Call /\ ls \in SUBSET LogLine /\ lines = [lines EXCEPT !["grpc"] = ls]
  BY DEF Typed, Call, Adapter
<1>2. CASE End("grpc")
  <2>1. c.layer = 0 /\ c.way \in {"out", "panic"}
    BY <1>2 DEF End
  <2> DEFINE d == [c EXCEPT !.way = IF @ = "out" THEN "answered" ELSE "dropped"]
  <2>2. call' = [call EXCEPT !["grpc"] = d] /\ UNCHANGED lines
    BY <1>2 DEF End, Goes
  <2>3. /\ d \in Call /\ d.layer = 0 /\ d.ended = c.ended /\ d.slot = c.slot
        /\ d.actor = c.actor /\ d.result = c.result
        /\ d.way \in {"answered", "dropped"} /\ (d.way = "answered" <=> c.way = "out")
    BY <1>1, <2>1 DEF Call
  <2> HIDE DEF d
  <2>4. Placed(d, 6)
    BY <2>1, <2>3 DEF GrpcOk, Placed, Admitted
  <2>5. Logged(d, ls, 2, 2)
    BY <2>1, <2>3 DEF GrpcOk, Logged, Returning
  <2>6. GrpcAnswer(d, ls)
    BY <2>1, <2>3 DEF GrpcOk, GrpcAnswer, Raw, Translated, Returning, Plain
  <2> QED
    BY <1>1, <2>2, <2>3, <2>4, <2>5, <2>6 DEF GrpcOk, GrpcKept
<1>3. CASE ContextEnds("grpc")
  <2>1. PICK how \in {"canceled", "deadline"} : Goes("grpc", [c EXCEPT !.ended = how])
    BY <1>3 DEF ContextEnds
  <2> DEFINE d == [c EXCEPT !.ended = how]
  <2>2. call' = [call EXCEPT !["grpc"] = d] /\ UNCHANGED lines
    BY <1>3, <2>1 DEF ContextEnds, Goes
  <2>3. /\ d \in Call /\ d.layer = c.layer /\ d.slot = c.slot /\ d.actor = c.actor
        /\ d.result = c.result /\ d.way = c.way
    BY <1>1 DEF Call
  <2> HIDE DEF d
  <2>4. c.way \in {"in", "core"}
    BY <1>3 DEF ContextEnds
  <2>5. Placed(d, 6)
    BY <2>3 DEF GrpcOk, Placed, Admitted
  <2>6. Logged(d, ls, 2, 2)
    BY <2>3 DEF GrpcOk, Logged, Returning
  <2>7. GrpcAnswer(d, ls)
    BY <2>3, <2>4 DEF GrpcAnswer, Raw, Translated, Returning
  <2> QED
    BY <1>1, <2>2, <2>3, <2>5, <2>6, <2>7 DEF GrpcOk, GrpcKept
<1> QED
  BY <1>2, <1>3

LEMMA GrpcStep ==
  ASSUME Typed, GrpcOk(call["grpc"], lines["grpc"]), Step("grpc") \/ ContextEnds("grpc")
  PROVE  GrpcKept
<1>1. ASSUME NEW way, NEW name \in {"Authenticate", "handler", "Logging", "Metrics", "Recoverer"},
             At("grpc", way, name)
      PROVE  FALSE
  BY <1>1, GrpcAt
<1>2. /\ ~Authenticate("grpc") /\ ~RestHandler("grpc") /\ ~RestReturns("grpc")
      /\ ~LogRequest("grpc") /\ ~CountRequest("grpc") /\ ~Recoverer("grpc")
  BY <1>1 DEF Authenticate, RestHandler, RestReturns, LogRequest, CountRequest, Recoverer
<1> QED
  BY <1>2, GrpcInward, GrpcCore, GrpcOutward, GrpcTranslates, GrpcUnwinds, GrpcEnds DEF Step

-----------------------------------------------------------------------------
(* The invariant holds throughout. *)

\* The parts of CallInv name asked and outcome, which no step changes.
LEMMA SameRequest ==
  ASSUME UNCHANGED <<asked, outcome>>
  PROVE  /\ RestOk(call'["rest"], lines'["rest"]) => RestOk(call["rest"], lines["rest"])'
         /\ GrpcOk(call'["grpc"], lines'["grpc"]) => GrpcOk(call["grpc"], lines["grpc"])'
BY DEF RestOk, GrpcOk, Placed, Admitted, Logged, RestAnswer, GrpcAnswer, RestLayers, Plain,
       Verdict, Passes, Public, HasToken, Verifies

LEMMA CallInit == Init => CallInv
<1> SUFFICES ASSUME Init PROVE CallInv
  OBVIOUS
<1> DEFINE c0 == [layer |-> 1, way |-> "in", ended |-> None, slot |-> None, actor |-> None,
                  result |-> NoResult]
<1>1. c0 \in Call
  BY DEF Call, Result, NoResult, Status
<1>2. Typed
  BY <1>1 DEF Init, Typed
<1>3. /\ call["rest"] = c0 /\ call["grpc"] = c0
      /\ lines["rest"] = {} /\ lines["grpc"] = {}
  BY DEF Init, Adapter
<1>4. c0.way = "in" /\ c0.layer = 1 /\ c0.slot = c0.actor
  OBVIOUS
<1> HIDE DEF c0
<1>5. RestOk(c0, {})
  BY <1>4 DEF RestOk, Placed, Admitted, Logged, Told, RestAnswer, RestLayers, Returning
<1>6. GrpcOk(c0, {})
  BY <1>4 DEF GrpcOk, Placed, Admitted, Logged, Told, GrpcAnswer, Raw, Translated, Returning
<1> QED
  BY <1>2, <1>3, <1>5, <1>6 DEF CallInv

LEMMA CallNext == CallInv /\ [Next]_vars => CallInv'
<1> SUFFICES ASSUME CallInv, [Next]_vars PROVE CallInv'
  OBVIOUS
<1>1. Typed
  BY DEF CallInv
<1>2. UNCHANGED <<asked, outcome>>
  BY DEF Next, vars
<1>3. CASE Step("rest") \/ ContextEnds("rest")
  <2>1. PICK d \in Call, ms \in SUBSET LogLine :
          /\ call' = [call EXCEPT !["rest"] = d]
          /\ lines' = [lines EXCEPT !["rest"] = ms]
          /\ RestOk(d, ms)
    BY <1>1, <1>3, RestStep DEF CallInv, RestKept
  <2>2. Typed'
    BY <1>1, <1>2, <2>1 DEF Typed
  <2>3. /\ call'["rest"] = d /\ call'["grpc"] = call["grpc"]
        /\ lines'["rest"] = ms /\ lines'["grpc"] = lines["grpc"]
    BY <1>1, <2>1 DEF Typed, Adapter
  <2> QED
    BY <1>2, <2>1, <2>2, <2>3, SameRequest DEF CallInv
<1>4. CASE Step("grpc") \/ ContextEnds("grpc")
  <2>1. PICK d \in Call, ms \in SUBSET LogLine :
          /\ call' = [call EXCEPT !["grpc"] = d]
          /\ lines' = [lines EXCEPT !["grpc"] = ms]
          /\ GrpcOk(d, ms)
    BY <1>1, <1>4, GrpcStep DEF CallInv, GrpcKept
  <2>2. Typed'
    BY <1>1, <1>2, <2>1 DEF Typed
  <2>3. /\ call'["grpc"] = d /\ call'["rest"] = call["rest"]
        /\ lines'["grpc"] = ms /\ lines'["rest"] = lines["rest"]
    BY <1>1, <2>1 DEF Typed, Adapter
  <2> QED
    BY <1>2, <2>1, <2>2, <2>3, SameRequest DEF CallInv
<1>5. CASE UNCHANGED vars
  <2>1. Typed' /\ call' = call /\ lines' = lines
    BY <1>1, <1>5 DEF Typed, vars
  <2> QED
    BY <1>2, <2>1, SameRequest DEF CallInv
<1> QED
  BY <1>3, <1>4, <1>5 DEF Next, Adapter

(* CallInv is an invariant of a call, whatever is asked and whatever the use case makes
   of it: NewRouter and NewServer. *)
THEOREM CallIsAsSaid == Spec => []CallInv
BY CallInit, CallNext, PTL DEF Spec

(* The two adapters name the same failure, under what docs/grpc-api.md calls the same, and
   quote the request id (apierr, statusOf, codeOf, respond, toStatus): where the call has
   turned round, what it carries is Verdict, and its status is Verdict's. *)
THEOREM VerdictIsTheSame == Spec => []SameVerdict
<1>1. CallInv => SameVerdict
  <2> DEFINE r == call["rest"].result
             g == call["grpc"].result
  <2> SUFFICES ASSUME CallInv,
                      \A x \in Adapter : Answered(x) /\ call[x].ended = None,
                      outcome \notin {"timeout", "panic", "abort"}, asked.decoded = "fine"
               PROVE  /\ r.reason = g.reason
                      /\ <<r.status, g.status>> \in Counterparts
                      /\ \A x \in Adapter : call[x].result.quoted
    BY DEF SameVerdict
  <2>1. /\ r.reason = Verdict /\ r.quoted /\ r.status \in RestTells(Verdict)
        /\ g.reason = Verdict /\ g.quoted /\ g.status \in GrpcTells(Verdict)
    BY DEF CallInv, Answered, Adapter, RestOk, GrpcOk, RestAnswer, GrpcAnswer, Plain,
           Returning, Translated, Placed
  <2>2. Verdict \in Code \cup {"ok"}
    BY ClassifyRange DEF Verdict, Code
  <2> QED
    BY <2>1, <2>2, TablesAgree DEF Adapter
<1> QED
  BY <1>1, CallIsAsSaid, PTL

(* The request line and the sample carry the status the caller gets, though the error is
   translated after the call has left the layers inside (Logging, Metrics, loggingUnary). *)
THEOREM LogSaysTheAnswer == Spec => []LoggedAsAnswered
<1>1. CallInv => LoggedAsAnswered
  BY DEF CallInv, LoggedAsAnswered, LinesOf, Adapter, RestOk, GrpcOk, Logged, Told
<1> QED
  BY <1>1, CallIsAsSaid, PTL

(* A call that did not panic has a request line that names its caller under its id
   (reqctx.WithRequestID, actor.Set). *)
THEOREM LineNamesTheCaller == Spec => []CallerIsOnTheLine
<1>1. CallInv => CallerIsOnTheLine
  <2> SUFFICES ASSUME CallInv, NEW x \in Adapter, Answered(x), LinesOf(x, {"panic"}) = {}
               PROVE  \E l \in LinesOf(x, {"access"}) : l.id /\ l.actor = call[x].actor
    BY DEF CallerIsOnTheLine
  <2>1. call[x].layer = 0 /\ Returning(call[x])
    BY DEF CallInv, Adapter, RestOk, GrpcOk, Placed, Answered, Returning
  <2>2. \/ \E l \in lines[x] : l.kind = "access" /\ l.id /\ l.actor = call[x].actor
        \/ \E l \in lines[x] : l.kind = "panic"
    BY <2>1 DEF CallInv, Adapter, RestOk, GrpcOk, Logged
  <2> QED
    BY <2>2 DEF LinesOf
<1> QED
  BY <1>1, CallIsAsSaid, PTL

(* What is answered as internal can be followed up in the logs (respond.Error,
   errorsUnary, Recoverer, recoveryUnary). *)
THEOREM FailureLeavesATrace == Spec => []FailureIsTraceable
<1>1. CallInv => FailureIsTraceable
  <2> SUFFICES ASSUME CallInv, NEW x \in Adapter, Answered(x),
                      call[x].result.status \in {"500", "Internal"}
               PROVE  \E l \in LinesOf(x, {"error", "panic"}) :
                         l.id \/ (x = "grpc" /\ l.kind = "panic")
    BY DEF FailureIsTraceable
  <2>1. call[x].layer = 0 /\ Returning(call[x])
    BY DEF CallInv, Adapter, RestOk, GrpcOk, Placed, Answered, Returning
  <2>2. CASE x = "rest"
    BY <2>1, <2>2 DEF CallInv, RestOk, RestAnswer, LinesOf
  <2>3. CASE x = "grpc"
    BY <2>1, <2>3 DEF CallInv, GrpcOk, GrpcAnswer, Translated, LinesOf
  <2> QED
    BY <2>2, <2>3 DEF Adapter
<1> QED
  BY <1>1, CallIsAsSaid, PTL

(* The use case runs for verified callers only, and is told who they are (Authenticate in
   the nesting of the routes, authUnary and publicPrefixes). *)
THEOREM CallersAreVerified == Spec => []OnlyVerified
<1>1. CallInv => OnlyVerified
  BY DEF CallInv, OnlyVerified, Adapter, RestOk, GrpcOk, Placed, Admitted, Public, AuthRoutes
<1> QED
  BY <1>1, CallIsAsSaid, PTL

-----------------------------------------------------------------------------
(* What a step does to the record of a call and its lines, c and ls before, d and ms
   after. *)

\* An error on its way to errorsUnary.
Unsaid(x, c) == x = "grpc" /\ Raw(c)

\* The layers that write the request line and the sample, and the one that recovers.
LogAt(x)     == IF x = "rest" THEN 4 ELSE 2
CountAt(x)   == IF x = "rest" THEN 5 ELSE 2
RecoverAt(x) == IF x = "rest" THEN 3 ELSE 1

\* The request line is there, or a panic's, once their layers have been passed.
NotedOk(x, c, ls) ==
  /\ \A l \in ls : l.kind = "access" => Returning(c) /\ c.layer < LogAt(x)
  /\ \A l \in ls : l.kind = "panic"  => Returning(c) /\ c.layer < RecoverAt(x)
  /\ Unsaid(x, c) /\ c.result.reason = "unauthenticated" => ~Passes

NotedInv == \A x \in Adapter : NotedOk(x, call[x], lines[x])

\* Lines have been added, of these kinds.
Adds(ls, ms, kinds) == ls \subseteq ms /\ \A l \in ms : l \in ls \/ l.kind \in kinds

Stays(c, ls, d, ms) == c.way \in {"in", "core", "panic"} /\ d.way = c.way /\ ms = ls

Starts(x, c, ls, d, ms) == c.way = "in" /\ d.way = "core" /\ ms = ls /\ Passes /\ Fit[x]

TurnsBack(x, c, ls, d, ms) ==
  /\ c.way = "in" /\ d.way = "out" /\ Adds(ls, ms, {"error"})
  /\ \/ x = "rest" /\ ~Passes /\ d.result.status = "401"
     \/ x = "rest" /\ Passes /\ ~Fit[x] /\ d.result.status \in {"400", "413", "422"}
     \/ Unsaid(x, d) /\ ~Passes /\ d.result.reason = "unauthenticated"

Finishes(x, c, ls, d, ms) ==
  /\ c.way = "core" /\ d.way = "out" /\ Adds(ls, ms, {"error"})
  /\ \/ x = "rest" /\ d.result.status \in Contract!Verdict
     \/ Unsaid(x, d) /\ d.result.reason # "unauthenticated"

BreaksOff(c, ls, d, ms) == c.way = "core" /\ d.way = "panic" /\ ms = ls

GoesOut(x, c, d) ==
  /\ c.way = "out" /\ d.way = "out" /\ d.layer = c.layer - 1 /\ d.result = c.result
  /\ x = "grpc" => c.layer # 3

Translates(x, c, ls, d, ms) ==
  /\ Unsaid(x, c) /\ d.way = "out" /\ d.layer = 2 /\ Adds(ls, ms, {"error"})
  /\ d.result.status \in Contract!Verdict
  /\ c.result.reason = "unauthenticated" => d.result.status = "Unauthenticated"

Notes(x, c, ls, d, ms) ==
  /\ GoesOut(x, c, d)
  /\ \E l : /\ ms = ls \cup {l} /\ l.status = c.result.status
            /\ \/ l.kind = "access" /\ c.layer = LogAt(x)
               \/ l.kind = "sample" /\ c.layer = 5 /\ x = "rest"

Recovers(x, c, ls, d, ms) ==
  /\ c.way = "panic" /\ d.way = "out" /\ d.layer = RecoverAt(x) - 1
  /\ d.result.status \in Contract!Failure
  /\ Adds(ls, ms, {"error", "panic"}) /\ \E l \in ms : l.kind = "panic"

Leaves(c, ls, d, ms) ==
  /\ c.layer = 0 /\ d.layer = 0 /\ d.result = c.result /\ ms = ls
  /\ \/ c.way = "out" /\ d.way = "answered"
     \/ c.way = "panic" /\ d.way = "dropped"

Takes(x, c, ls, d, ms) ==
  \/ Stays(c, ls, d, ms) \/ Starts(x, c, ls, d, ms) \/ TurnsBack(x, c, ls, d, ms)
  \/ Finishes(x, c, ls, d, ms) \/ BreaksOff(c, ls, d, ms)
  \/ GoesOut(x, c, d) /\ ms = ls
  \/ Translates(x, c, ls, d, ms) \/ Notes(x, c, ls, d, ms)
  \/ Recovers(x, c, ls, d, ms) \/ Leaves(c, ls, d, ms)

Took(x) == Takes(x, call[x], lines[x], call'[x], lines'[x])

LEMMA WentOn ==
  ASSUME Typed, NEW x \in Adapter, NEW d, Goes(x, d)
  PROVE  call'[x] = d
BY DEF Typed, Goes

LEMMA CameBack ==
  ASSUME Typed, NEW x \in Adapter, NEW a, Returns(x, a)
  PROVE  /\ call'[x].way = "out" /\ call'[x].layer = call[x].layer - 1
         /\ call'[x].result = a
<1> DEFINE d == [call[x] EXCEPT !.way = "out", !.layer = @ - 1, !.result = a]
<1>1. call[x] \in Call
  BY DEF Typed
<1>2. d.way = "out" /\ d.layer = call[x].layer - 1 /\ d.result = a
  BY <1>1 DEF Call
<1>3. call'[x] = d
  BY WentOn DEF Returns
<1> QED
  BY <1>2, <1>3

LEMMA BrokeOff ==
  ASSUME Typed, NEW x \in Adapter, Panics(x)
  PROVE  call'[x].way = "panic"
<1> DEFINE d == [call[x] EXCEPT !.way = "panic", !.layer = @ - 1]
<1>1. call[x] \in Call
  BY DEF Typed
<1>2. d.way = "panic"
  BY <1>1 DEF Call
<1>3. call'[x] = d
  BY WentOn DEF Panics
<1> QED
  BY <1>2, <1>3

LEMMA LinesAdded ==
  ASSUME Typed, NEW x \in Adapter, NEW more, Logs(x, more)
  PROVE  lines'[x] = lines[x] \cup more
BY DEF Typed, Logs

LEMMA StaysQuiet ==
  ASSUME Typed, NEW x \in Adapter,
         \/ PassIn(x) \/ Unwind(x) \/ ContextEnds(x)
         \/ Authenticate(x) /\ HasToken /\ Verifies
         \/ AuthUnary(x) /\ Passes
         \/ Recoverer(x) /\ outcome = "abort"
  PROVE  Took(x)
<1> DEFINE c == call[x]
           d == call'[x]
<1>1. c \in Call
  BY DEF Typed
<1>2. CASE c.way = "panic" /\ Panics(x) /\ lines' = lines
  BY <1>2, BrokeOff DEF Took, Takes, Stays
<1>3. CASE c.way = "in" /\ Inward(x) /\ lines' = lines
  <2>1. d = [c EXCEPT !.layer = @ + 1]
    BY <1>3, WentOn DEF Inward
  <2>2. d.way = c.way
    BY <1>1, <2>1 DEF Call
  <2> QED
    BY <1>3, <2>2 DEF Took, Takes, Stays
<1>4. CASE c.way = "in" /\ Set(x, asked.bearer) /\ lines' = lines
  <2>1. PICK who : d = [c EXCEPT !.layer = @ + 1, !.actor = asked.bearer, !.slot = who]
    <3> DEFINE who == IF InsideOf(x, IF x = "rest" THEN "Logging" ELSE "logging")
                      THEN asked.bearer ELSE c.slot
    <3>1. [c EXCEPT !.layer = @ + 1, !.actor = asked.bearer, !.slot = who]
            = [c EXCEPT !.layer = @ + 1, !.actor = asked.bearer,
                 !.slot = IF InsideOf(x, IF x = "rest" THEN "Logging" ELSE "logging")
                          THEN asked.bearer ELSE @]
      BY <1>1 DEF Call
    <3>2. Goes(x, [c EXCEPT !.layer = @ + 1, !.actor = asked.bearer, !.slot = who])
      BY <1>4, <3>1 DEF Set
    <3> HIDE DEF who
    <3> QED
      BY <3>2, WentOn
  <2>2. d.way = c.way
    BY <1>1, <2>1 DEF Call
  <2> QED
    BY <1>4, <2>2 DEF Took, Takes, Stays
<1>5. CASE ContextEnds(x)
  <2>1. c.way \in {"in", "core"} /\ lines' = lines
    BY <1>5 DEF ContextEnds
  <2>2. PICK how : Goes(x, [c EXCEPT !.ended = how])
    BY <1>5 DEF ContextEnds
  <2>3. d = [c EXCEPT !.ended = how]
    BY <2>2, WentOn
  <2>4. d.way = c.way
    BY <1>1, <2>3 DEF Call
  <2> QED
    BY <2>1, <2>4 DEF Took, Takes, Stays
<1>6. CASE PassIn(x)
  BY <1>3, <1>6 DEF PassIn, At
<1>7. CASE Unwind(x)
  BY <1>2, <1>7 DEF Unwind, At
<1>8. CASE Recoverer(x) /\ outcome = "abort"
  BY <1>2, <1>8 DEF Recoverer, At
<1>9. CASE Authenticate(x) /\ HasToken /\ Verifies
  BY <1>4, <1>9 DEF Authenticate, At
<1>10. CASE AuthUnary(x) /\ Passes
  <2>1. c.way = "in"
    BY <1>10 DEF AuthUnary, At
  <2>2. \/ Inward(x) /\ lines' = lines
        \/ Set(x, asked.bearer) /\ lines' = lines
    BY <1>10, SameOpenMethods DEF AuthUnary, Passes
  <2> QED
    BY <1>3, <1>4, <2>1, <2>2
<1> QED
  BY <1>5, <1>6, <1>7, <1>8, <1>9, <1>10

LEMMA LeavesChain ==
  ASSUME Typed, NEW x \in Adapter, End(x)
  PROVE  Took(x)
<1> DEFINE c == call[x]
           d == call'[x]
<1>1. c.layer = 0 /\ c.way \in {"out", "panic"} /\ lines' = lines
  BY DEF End
<1>2. d = [c EXCEPT !.way = IF @ = "out" THEN "answered" ELSE "dropped"]
  BY WentOn DEF End
<1>3. /\ d.layer = 0 /\ d.result = c.result
      /\ d.way = IF c.way = "out" THEN "answered" ELSE "dropped"
  BY <1>1, <1>2 DEF Typed, Call
<1> QED
  BY <1>1, <1>3 DEF Took, Takes, Leaves

LEMMA ErrorsTold ==
  ASSUME Typed, NEW x \in Adapter, NEW err, RespondError(x, err)
  PROVE  /\ call'[x].way = "out" /\ Adds(lines[x], lines'[x], {"error"})
         /\ err = "unauthenticated" => call'[x].result.status = "401"
         /\ err \in {"malformed", "tooBig"} => call'[x].result.status \in {"400", "413"}
         /\ err = "validation" => call'[x].result.status = "422"
         /\ err \in Err => call'[x].result.status \in Contract!Verdict
<1> DEFINE a == ErrorBody(x, err)
           more == IF a.status = "500" THEN {Line("error", "500", HasId(x), None)} ELSE {}
<1>1. Returns(x, a) /\ Logs(x, more)
  BY DEF RespondError
<1>2. call'[x].way = "out" /\ call'[x].result = a
  BY <1>1, CameBack
<1>3. Adds(lines[x], lines'[x], {"error"})
  <2>1. \A l \in more : l.kind = "error"
    BY DEF Line
  <2> HIDE DEF more
  <2> QED
    BY <1>1, <2>1, LinesAdded DEF Adds
<1>4. CASE err \in {"malformed", "tooBig"}
  <2>1. /\ a.status \in {"400", "413"}
        /\ err \notin Err /\ err # "unauthenticated" /\ err # "validation"
    BY <1>4 DEF ErrorBody, Answer, Err
  <2> QED
    BY <1>2, <1>3, <2>1
<1>5. CASE err \notin {"malformed", "tooBig"}
  <2>1. a.status = StatusOf[Classify(err)]
    BY <1>5 DEF ErrorBody, Answer
  <2>2. Classify(err) \in Code
    BY ClassifyRange
  <2>3. StatusOf[Classify(err)] \in Contract!Verdict
    BY <2>2, StatusRange DEF Contract!Verdict
  <2>4. /\ err = "unauthenticated" => StatusOf[Classify(err)] = "401"
        /\ err = "validation" => StatusOf[Classify(err)] = "422"
    BY DEF Classify, StatusOf, Code
  <2> HIDE DEF a
  <2> QED
    BY <1>2, <1>3, <1>5, <2>1, <2>3, <2>4
<1> QED
  BY <1>4, <1>5

\* What a use case may come back with is an outcome, or a context that has ended.
LEMMA ReturnedRange ==
  ASSUME Typed, NEW x \in Adapter, NEW it \in Returned(x)
  PROVE  /\ it \in Err \cup {"ok", "panic", "abort"}
         /\ it # "unauthenticated"
<1>1. outcome \in {"ok", "timeout", "panic", "abort"} \cup (Err \ {"deadline", "canceled"})
  BY OutcomeRange DEF Typed, Request
<1>2. outcome # "unauthenticated"
  BY OutcomeRange DEF Typed, Request
<1>3. call[x].ended \in {None, "canceled", "deadline"}
  BY DEF Typed, Call
<1> QED
  BY <1>1, <1>2, <1>3 DEF Returned, Err

LEMMA RestTook ==
  ASSUME Typed, RestOk(call["rest"], lines["rest"]), Step("rest") \/ ContextEnds("rest")
  PROVE  Took("rest")
<1> DEFINE c == call["rest"]
           d == call'["rest"]
           ls == lines["rest"]
           ms == lines'["rest"]
<1>0. "rest" \in Adapter
  BY DEF Adapter
<1>1. ASSUME NEW way,
             NEW name \in {"recovery", "logging", "errors", "timeout", "auth", "method"},
             At("rest", way, name)
      PROVE  FALSE
  BY <1>1, RestAt
<1>2. ~AuthUnary("rest") /\ ~GrpcMethod("rest") /\ ~GrpcReturns("rest") /\ ~Translate("rest")
      /\ ~LogCall("rest") /\ ~RecoverCall("rest")
  BY <1>1 DEF AuthUnary, GrpcMethod, GrpcReturns, Translate, LogCall, RecoverCall
<1>3. CASE PassIn("rest") \/ Unwind("rest") \/ ContextEnds("rest")
  BY <1>0, <1>3, StaysQuiet
<1>4. CASE PassOut("rest")
  <2>1. c.way = "out" /\ Outward("rest") /\ ms = ls
    BY <1>4 DEF PassOut, At
  <2>2. d.way = "out" /\ d.layer = c.layer - 1 /\ d.result = c.result
    BY <1>0, <2>1, CameBack DEF Outward
  <2> QED
    BY <2>1, <2>2 DEF Took, Takes, GoesOut
<1>5. CASE Authenticate("rest") /\ ~(HasToken /\ Verifies)
  <2>1. c.way = "in" /\ RespondError("rest", "unauthenticated")
    BY <1>5 DEF Authenticate, At
  <2>2. ~Passes
    BY <1>5, RestAt DEF Authenticate, Passes
  <2>3. d.way = "out" /\ Adds(ls, ms, {"error"}) /\ d.result.status = "401"
    BY <1>0, <2>1, ErrorsTold
  <2> QED
    BY <2>1, <2>2, <2>3 DEF Took, Takes, TurnsBack
<1>6. CASE RestHandler("rest")
  <2>1. c.way = "in" /\ Passes
    BY <1>6, RestAt DEF RestHandler, RestOk, Placed, Admitted
  <2>2. CASE asked.decoded = "fine"
    <3>1. Core("rest") /\ ms = ls
      BY <1>6, <2>2 DEF RestHandler
    <3>2. d = [c EXCEPT !.way = "core"]
      BY <1>0, <3>1, WentOn DEF Core
    <3>3. d.way = "core"
      BY <3>2 DEF Typed, Call, Adapter
    <3> QED
      BY <2>1, <2>2, <3>1, <3>3 DEF Took, Takes, Starts, Fit, Adapter
  <2>3. CASE asked.decoded # "fine"
    <3>1. /\ RespondError("rest", asked.decoded)
          /\ asked.decoded \in {"malformed", "tooBig", "validation"}
      BY <1>6, <2>3 DEF RestHandler, Typed, Request
    <3>2. d.way = "out" /\ Adds(ls, ms, {"error"}) /\ d.result.status \in {"400", "413", "422"}
      BY <1>0, <3>1, ErrorsTold
    <3> QED
      BY <2>1, <2>3, <3>2 DEF Took, Takes, TurnsBack, Fit, Adapter
  <2> QED
    BY <2>2, <2>3
<1>7. CASE RestReturns("rest")
  <2>1. c.way = "core"
    BY <1>7 DEF RestReturns, At
  <2>2. PICK it \in Returned("rest") :
          \/ it \in {"panic", "abort"} /\ Panics("rest") /\ UNCHANGED lines
          \/ it = "ok" /\ Returns("rest", Answer(Success, "ok", HasId("rest"))) /\ UNCHANGED lines
          \/ it \notin {"panic", "abort", "ok"} /\ RespondError("rest", it)
    BY <1>7 DEF RestReturns
  <2>3. CASE it \in {"panic", "abort"}
    <3>1. d.way = "panic" /\ ms = ls
      BY <1>0, <2>2, <2>3, BrokeOff DEF RespondError
    <3> QED
      BY <2>1, <3>1 DEF Took, Takes, BreaksOff
  <2>4. CASE it = "ok"
    <3>1. Returns("rest", Answer(Success, "ok", HasId("rest"))) /\ ms = ls
      BY <2>2, <2>4
    <3>2. d.way = "out" /\ d.result = Answer(Success, "ok", HasId("rest"))
      BY <1>0, <3>1, CameBack
    <3>3. d.result.status = Success
      BY <3>2 DEF Answer
    <3>4. Success \in Contract!Verdict
      BY DEF Success, Contract!Verdict
    <3> QED
      BY <2>1, <3>1, <3>2, <3>3, <3>4 DEF Took, Takes, Finishes, Adds
  <2>5. CASE it \notin {"panic", "abort", "ok"}
    <3>1. RespondError("rest", it) /\ it \in Err
      BY <1>0, <2>2, <2>5, ReturnedRange
    <3>2. d.way = "out" /\ Adds(ls, ms, {"error"}) /\ d.result.status \in Contract!Verdict
      BY <1>0, <3>1, ErrorsTold
    <3> QED
      BY <2>1, <3>2 DEF Took, Takes, Finishes
  <2> QED
    BY <2>3, <2>4, <2>5
<1>8. CASE LogRequest("rest") \/ CountRequest("rest")
  <2>1. c.way = "out" /\ Outward("rest")
    BY <1>8 DEF LogRequest, CountRequest, At
  <2>2. d.way = "out" /\ d.layer = c.layer - 1 /\ d.result = c.result
    BY <1>0, <2>1, CameBack DEF Outward
  <2>3. PICK l : /\ ms = ls \cup {l} /\ l.status = c.result.status
                 /\ \/ l.kind = "access" /\ c.layer = 4
                    \/ l.kind = "sample" /\ c.layer = 5
    <3>1. CASE LogRequest("rest")
      <4> DEFINE l == Line("access", c.result.status, HasId("rest"), c.slot)
      <4>1. c.layer = 4
        BY <3>1, RestAt DEF LogRequest
      <4>2. l.kind = "access" /\ l.status = c.result.status
        BY DEF Line
      <4>3. Logs("rest", {l})
        BY <3>1 DEF LogRequest
      <4> HIDE DEF l
      <4>4. ms = ls \cup {l}
        BY <1>0, <4>3, LinesAdded
      <4> QED
        BY <4>1, <4>2, <4>4
    <3>2. CASE CountRequest("rest")
      <4> DEFINE l == Line("sample", c.result.status, FALSE, None)
      <4>1. c.layer = 5
        BY <3>2, RestAt DEF CountRequest
      <4>2. l.kind = "sample" /\ l.status = c.result.status
        BY DEF Line
      <4>3. Logs("rest", {l})
        BY <3>2 DEF CountRequest
      <4> HIDE DEF l
      <4>4. ms = ls \cup {l}
        BY <1>0, <4>3, LinesAdded
      <4> QED
        BY <4>1, <4>2, <4>4
    <3> QED
      BY <1>8, <3>1, <3>2
  <2> QED
    BY <2>1, <2>2, <2>3 DEF Took, Takes, Notes, GoesOut, LogAt
<1>9. CASE Recoverer("rest") /\ outcome # "abort"
  <2> DEFINE a == ErrorBody("rest", "panic")
             p == Line("panic", None, HasId("rest"), None)
             e == Line("error", a.status, HasId("rest"), None)
  <2>1. c.way = "panic" /\ c.layer = 3
    BY <1>9, RestAt DEF Recoverer
  <2>2. Returns("rest", a) /\ Logs("rest", {p, e})
    BY <1>9 DEF Recoverer
  <2>3. a.status = "500"
    BY DEF ErrorBody, Answer, Classify, StatusOf, Code
  <2>4. p.kind = "panic" /\ e.kind = "error"
    BY DEF Line
  <2> HIDE DEF a, p, e
  <2>5. d.way = "out" /\ d.layer = 2 /\ d.result = a
    BY <1>0, <2>1, <2>2, CameBack
  <2>6. ms = ls \cup {p, e}
    BY <1>0, <2>2, LinesAdded
  <2>7. d.result.status \in Contract!Failure
    BY <2>3, <2>5 DEF Contract!Failure
  <2>8. Adds(ls, ms, {"error", "panic"}) /\ \E l \in ms : l.kind = "panic"
    BY <2>4, <2>6 DEF Adds
  <2> QED
    BY <2>1, <2>5, <2>7, <2>8 DEF Took, Takes, Recovers, RecoverAt
<1>10. End("rest") => Took("rest")
  BY <1>0, LeavesChain
<1>11. Authenticate("rest") /\ HasToken /\ Verifies => Took("rest")
  BY <1>0, StaysQuiet
<1>12. Recoverer("rest") /\ outcome = "abort" => Took("rest")
  BY <1>0, StaysQuiet
<1> QED
  BY <1>2, <1>3, <1>4, <1>5, <1>6, <1>7, <1>8, <1>9, <1>10, <1>11, <1>12 DEF Step

LEMMA TranslateTook ==
  ASSUME Typed, GrpcOk(call["grpc"], lines["grpc"]), Translate("grpc")
  PROVE  Took("grpc")
<1> DEFINE c == call["grpc"]
           d == call'["grpc"]
           err == c.result.reason
           a == CASE c.result.status # "Unknown" -> c.result
                  [] err = "deadline" -> Answer("DeadlineExceeded", None, FALSE)
                  [] err = "canceled" -> Answer("Canceled", None, FALSE)
                  [] OTHER            -> ToStatus(err, HasId("grpc"))
           e == Line("error", "Internal", HasId("grpc"), None)
           more == IF a.status = "Internal" THEN {e} ELSE {}
<1>1. c.way = "out" /\ c.layer = 3 /\ Unsaid("grpc", c)
  BY GrpcAt DEF Translate, Unsaid, Raw
<1>2. Returns("grpc", a) /\ Logs("grpc", more)
  BY DEF Translate
<1>3. e.kind = "error"
  BY DEF Line
<1>4. /\ a.status \in Contract!Verdict
      /\ err = "unauthenticated" => a.status = "Unauthenticated"
  <2>1. CASE c.result.status # "Unknown"
    <3>1. c.result.status = "OK" /\ err = "ok" /\ a = c.result
      BY <1>1, <2>1 DEF Unsaid, GrpcOk, GrpcAnswer
    <3> HIDE DEF a
    <3> QED
      BY <3>1 DEF Contract!Verdict
  <2>2. CASE c.result.status = "Unknown" /\ err \in {"deadline", "canceled"}
    <3>1. a.status \in {"DeadlineExceeded", "Canceled"}
      BY <2>2 DEF Answer
    <3> HIDE DEF a
    <3> QED
      BY <2>2, <3>1 DEF Contract!Verdict
  <2>3. CASE c.result.status = "Unknown" /\ err \notin {"deadline", "canceled"}
    <3>1. a.status = CodeOf[Classify(err)]
      BY <2>3 DEF ToStatus, Answer
    <3> HIDE DEF a
    <3>2. Classify(err) \in Code
      BY ClassifyRange
    <3>3. CodeOf[Classify(err)] \in Contract!Verdict
      BY <3>2, StatusRange DEF Contract!Verdict
    <3>4. err = "unauthenticated" => CodeOf[Classify(err)] = "Unauthenticated"
      BY DEF Classify, CodeOf, Code
    <3> QED
      BY <3>1, <3>3, <3>4
  <2> QED
    BY <2>1, <2>2, <2>3
<1> HIDE DEF a, e
<1>5. "grpc" \in Adapter
  BY DEF Adapter
<1>6. d.way = "out" /\ d.layer = 2 /\ d.result = a
  BY <1>1, <1>2, <1>5, CameBack
<1>7. Adds(lines["grpc"], lines'["grpc"], {"error"})
  BY <1>2, <1>3, <1>5, LinesAdded DEF Adds
<1> QED
  BY <1>1, <1>4, <1>6, <1>7 DEF Took, Takes, Translates

LEMMA GrpcTook ==
  ASSUME Typed, GrpcOk(call["grpc"], lines["grpc"]), Step("grpc") \/ ContextEnds("grpc")
  PROVE  Took("grpc")
<1> DEFINE c == call["grpc"]
           d == call'["grpc"]
           ls == lines["grpc"]
           ms == lines'["grpc"]
<1>0. "grpc" \in Adapter
  BY DEF Adapter
<1>1. ASSUME NEW way, NEW name \in {"Authenticate", "handler", "Logging", "Metrics", "Recoverer"},
             At("grpc", way, name)
      PROVE  FALSE
  BY <1>1, GrpcAt
<1>2. /\ ~Authenticate("grpc") /\ ~RestHandler("grpc") /\ ~RestReturns("grpc")
      /\ ~LogRequest("grpc") /\ ~CountRequest("grpc") /\ ~Recoverer("grpc")
  BY <1>1 DEF Authenticate, RestHandler, RestReturns, LogRequest, CountRequest, Recoverer
<1>3. CASE PassIn("grpc") \/ Unwind("grpc") \/ ContextEnds("grpc")
  BY <1>0, <1>3, StaysQuiet
<1>4. CASE PassOut("grpc")
  <2>1. c.way = "out" /\ Outward("grpc") /\ ms = ls /\ c.layer # 3
    BY <1>4, GrpcAt DEF PassOut, At
  <2>2. d.way = "out" /\ d.layer = c.layer - 1 /\ d.result = c.result
    BY <1>0, <2>1, CameBack DEF Outward
  <2> QED
    BY <2>1, <2>2 DEF Took, Takes, GoesOut
<1>5. CASE AuthUnary("grpc") /\ Passes
  BY <1>0, <1>5, StaysQuiet
<1>6. CASE AuthUnary("grpc") /\ ~Passes
  <2>1. c.way = "in" /\ c.layer = 5
    BY <1>6, GrpcAt DEF AuthUnary
  <2>2. Fails("grpc", "unauthenticated")
    BY <1>6, SameOpenMethods DEF AuthUnary, Passes
  <2>3. ms = ls /\ \E a : Returns("grpc", a) /\ a.reason = "unauthenticated"
    <3> DEFINE a == Answer("Unknown", "unauthenticated", FALSE)
    <3>1. Returns("grpc", a) /\ ms = ls
      BY <2>2 DEF Fails
    <3>2. a.reason = "unauthenticated"
      BY DEF Answer
    <3> HIDE DEF a
    <3> QED
      BY <3>1, <3>2
  <2>4. PICK a : Returns("grpc", a) /\ a.reason = "unauthenticated"
    BY <2>3
  <2>5. d.way = "out" /\ d.layer = 4 /\ d.result.reason = "unauthenticated"
    BY <1>0, <2>1, <2>4, CameBack
  <2>6. Adds(ls, ms, {"error"})
    BY <2>3 DEF Adds
  <2> QED
    BY <1>6, <2>1, <2>5, <2>6 DEF Took, Takes, TurnsBack, Unsaid, Raw
<1>7. CASE GrpcMethod("grpc")
  <2>1. c.way = "in" /\ Passes
    BY <1>7, GrpcAt DEF GrpcMethod, GrpcOk, Placed, Admitted
  <2>2. Core("grpc") /\ ms = ls
    BY <1>7 DEF GrpcMethod
  <2>3. d = [c EXCEPT !.way = "core"]
    BY <1>0, <2>2, WentOn DEF Core
  <2>4. d.way = "core"
    BY <2>3 DEF Typed, Call, Adapter
  <2> QED
    BY <2>1, <2>2, <2>4 DEF Took, Takes, Starts, Fit, Adapter
<1>8. CASE GrpcReturns("grpc")
  <2>1. c.way = "core" /\ c.layer = 6 /\ ms = ls
    BY <1>8, GrpcAt DEF GrpcReturns
  <2>2. PICK it \in Returned("grpc") :
          \/ it \in {"panic", "abort"} /\ Panics("grpc")
          \/ it = "ok" /\ Returns("grpc", Answer("OK", "ok", TRUE))
          \/ it \notin {"panic", "abort", "ok"} /\ Returns("grpc", Answer("Unknown", it, FALSE))
    BY <1>8 DEF GrpcReturns
  <2>3. CASE Panics("grpc")
    <3>1. d.way = "panic"
      BY <1>0, <2>3, BrokeOff
    <3> QED
      BY <2>1, <3>1 DEF Took, Takes, BreaksOff
  <2>4. CASE ~Panics("grpc")
    <3>1. PICK st, q : Returns("grpc", Answer(st, it, q))
      BY <2>2, <2>4
    <3>2. d.way = "out" /\ d.layer = 5 /\ d.result = Answer(st, it, q)
      BY <1>0, <2>1, <3>1, CameBack
    <3>3. d.result.reason = it
      BY <3>2 DEF Answer
    <3>4. it # "unauthenticated"
      BY <1>0, ReturnedRange
    <3>5. Adds(ls, ms, {"error"})
      BY <2>1 DEF Adds
    <3> QED
      BY <2>1, <3>2, <3>3, <3>4, <3>5 DEF Took, Takes, Finishes, Unsaid, Raw
  <2> QED
    BY <2>3, <2>4
<1>9. CASE Translate("grpc")
  BY <1>0, <1>9, TranslateTook
<1>10. CASE LogCall("grpc")
  <2> DEFINE l == Line("access", c.result.status, TRUE, c.slot)
  <2>1. c.way = "out" /\ c.layer = 2
    BY <1>10, GrpcAt DEF LogCall
  <2>2. Outward("grpc") /\ Logs("grpc", {l})
    BY <1>10 DEF LogCall
  <2>3. d.way = "out" /\ d.layer = c.layer - 1 /\ d.result = c.result
    BY <1>0, <2>2, CameBack DEF Outward
  <2>4. l.kind = "access" /\ l.status = c.result.status
    BY DEF Line
  <2> HIDE DEF l
  <2>5. ms = ls \cup {l}
    BY <1>0, <2>2, LinesAdded
  <2>6. GoesOut("grpc", c, d)
    BY <2>1, <2>3 DEF GoesOut
  <2> QED
    BY <2>1, <2>4, <2>5, <2>6 DEF Took, Takes, Notes, LogAt
<1>11. CASE RecoverCall("grpc")
  <2> DEFINE a == Answer("Internal", None, FALSE)
             p == Line("panic", None, FALSE, None)
  <2>1. c.way = "panic" /\ c.layer = 1
    BY <1>11, GrpcAt DEF RecoverCall
  <2>2. Returns("grpc", a) /\ Logs("grpc", {p})
    BY <1>11 DEF RecoverCall
  <2>3. a.status \in Contract!Failure
    BY DEF Answer, Contract!Failure
  <2>4. p.kind = "panic"
    BY DEF Line
  <2> HIDE DEF a, p
  <2>5. d.way = "out" /\ d.layer = 0 /\ d.result = a
    BY <1>0, <2>1, <2>2, CameBack
  <2>6. ms = ls \cup {p}
    BY <1>0, <2>2, LinesAdded
  <2>7. Adds(ls, ms, {"error", "panic"}) /\ \E l \in ms : l.kind = "panic"
    BY <2>4, <2>6 DEF Adds
  <2> QED
    BY <2>1, <2>3, <2>5, <2>7 DEF Took, Takes, Recovers, RecoverAt
<1>12. End("grpc") => Took("grpc")
  BY <1>0, LeavesChain
<1> QED
  BY <1>2, <1>3, <1>4, <1>5, <1>6, <1>7, <1>8, <1>9, <1>10, <1>11, <1>12 DEF Step

-----------------------------------------------------------------------------
(* What such a step is in CallContract. *)

\* Stage[x], Said[x] and Noted[x], of a call and its lines.
StageAt(x, c, ls) ==
  CASE c.way \in {"answered", "dropped"} -> c.way
    [] c.way = "panic" -> "panicking"
    [] c.way = "core"  -> "running"
    [] c.way = "in"    -> "open"
    [] c.way = "out"   ->
         IF Unsaid(x, c) THEN IF c.result.reason = "unauthenticated" THEN "open" ELSE "running"
         ELSE IF \A l \in ls : l.kind # "panic" THEN "settled" ELSE "recovered"

SaidAt(x, c) == IF Returning(c) /\ ~Unsaid(x, c) THEN c.result.status ELSE None

NotedAt(ls) == {[kind |-> l.kind, status |-> l.status] : l \in Told(ls)}

\* The promise to one adapter's caller: stage, status and notes, before and after.
Promised(x, st, sa, no, st2, sa2, no2) ==
  \/ st2 = st /\ sa2 = sa /\ no2 = no
  \/ st = "open" /\ st2 = "running" /\ Entitled /\ Fit[x] /\ sa2 = sa /\ no2 = no
  \/ /\ st = "open" /\ st2 = "settled" /\ no2 = no
     /\ \/ ~Entitled /\ sa2 \in Contract!Denial
        \/ Entitled /\ ~Fit[x] /\ sa2 \in Contract!Rejection
  \/ st = "running" /\ st2 = "settled" /\ sa2 \in Contract!Verdict /\ no2 = no
  \/ /\ st = "settled" /\ st2 = st /\ sa2 = sa
     /\ \E kind \in {"access", "sample"} :
          /\ \A n \in no : n.kind # kind
          /\ no2 = no \cup {[kind |-> kind, status |-> sa]}
  \/ st = "running" /\ st2 = "panicking" /\ sa2 = sa /\ no2 = no
  \/ st = "panicking" /\ st2 = "recovered" /\ sa2 \in Contract!Failure /\ no2 = no
  \/ /\ \/ st = "recovered"
        \/ st = "settled" /\ \E n \in no : n.kind = "access"
     /\ st2 = "answered" /\ sa2 = sa /\ no2 = no
  \/ st = "panicking" /\ st2 = "dropped" /\ sa2 = sa /\ no2 = no

Keeps(x, c, ls, d, ms) ==
  /\ NotedOk(x, d, ms)
  /\ Promised(x, StageAt(x, c, ls), SaidAt(x, c), NotedAt(ls),
                 StageAt(x, d, ms), SaidAt(x, d), NotedAt(ms))

LEMMA SameNotes ==
  ASSUME NEW ls, NEW ms, NEW kinds, kinds \subseteq {"error", "panic"}, Adds(ls, ms, kinds)
  PROVE  NotedAt(ms) = NotedAt(ls)
<1>1. Told(ms) = Told(ls)
  BY DEF Told, Adds
<1> QED
  BY <1>1 DEF NotedAt

LEMMA OneNote ==
  ASSUME NEW ls, NEW l, l.kind \in {"access", "sample"}
  PROVE  NotedAt(ls \cup {l}) = NotedAt(ls) \cup {[kind |-> l.kind, status |-> l.status]}
<1>1. Told(ls \cup {l}) = Told(ls) \cup {l}
  BY DEF Told
<1> QED
  BY <1>1 DEF NotedAt

LEMMA KindOfNote ==
  ASSUME NEW ls, NEW kind \in {"access", "sample"}
  PROVE  (\E n \in NotedAt(ls) : n.kind = kind) <=> (\E l \in ls : l.kind = kind)
<1>1. ASSUME NEW n \in NotedAt(ls)  PROVE \E l \in ls : l.kind = n.kind
  <2>1. PICK l \in Told(ls) : n = [kind |-> l.kind, status |-> l.status]
    BY DEF NotedAt
  <2> QED
    BY <2>1 DEF Told
<1>2. ASSUME NEW l \in ls, l.kind = kind  PROVE \E n \in NotedAt(ls) : n.kind = kind
  <2> DEFINE n == [kind |-> l.kind, status |-> l.status]
  <2>1. n \in NotedAt(ls)
    BY <1>2 DEF NotedAt, Told
  <2>2. n.kind = kind
    BY <1>2
  <2> QED
    BY <2>1, <2>2
<1> QED
  BY <1>1, <1>2

LEMMA StepIsPromised ==
  ASSUME NEW x \in Adapter, NEW c \in Call, NEW d \in Call,
         NEW ls \in SUBSET LogLine, NEW ms \in SUBSET LogLine,
         NotedOk(x, c, ls), Logged(c, ls, LogAt(x), CountAt(x)), Takes(x, c, ls, d, ms)
  PROVE  Keeps(x, c, ls, d, ms)
<1>1. c.layer \in 0..8 /\ d.layer \in 0..8
  BY DEF Call
<1>2. x \in {"rest", "grpc"}
  BY DEF Adapter
<1>e. Entitled <=> Passes
  BY DEF Entitled, Passes, Public
<1>3. CASE Stays(c, ls, d, ms)
  <2>1. NotedOk(x, d, ms)
    BY <1>3 DEF Stays, NotedOk, Returning, Unsaid, Raw
  <2>2. StageAt(x, d, ms) = StageAt(x, c, ls)
    BY <1>3 DEF Stays, StageAt
  <2>3. SaidAt(x, d) = SaidAt(x, c)
    BY <1>3 DEF Stays, SaidAt, Returning
  <2> QED
    BY <1>3, <2>1, <2>2, <2>3 DEF Stays, Keeps, Promised
<1>4. CASE Starts(x, c, ls, d, ms)
  <2>1. NotedOk(x, d, ms)
    BY <1>4 DEF Starts, NotedOk, Returning, Unsaid, Raw
  <2>2. StageAt(x, c, ls) = "open" /\ StageAt(x, d, ms) = "running"
    BY <1>4 DEF Starts, StageAt
  <2>3. SaidAt(x, d) = SaidAt(x, c)
    BY <1>4 DEF Starts, SaidAt, Returning
  <2> QED
    BY <1>4, <1>e, <2>1, <2>2, <2>3 DEF Starts, Keeps, Promised
<1>5. CASE BreaksOff(c, ls, d, ms)
  <2>1. NotedOk(x, d, ms)
    BY <1>5 DEF BreaksOff, NotedOk, Returning, Unsaid, Raw
  <2>2. StageAt(x, c, ls) = "running" /\ StageAt(x, d, ms) = "panicking"
    BY <1>5 DEF BreaksOff, StageAt
  <2>3. SaidAt(x, d) = SaidAt(x, c)
    BY <1>5 DEF BreaksOff, SaidAt, Returning
  <2> QED
    BY <1>5, <2>1, <2>2, <2>3 DEF BreaksOff, Keeps, Promised
<1>6. CASE TurnsBack(x, c, ls, d, ms)
  <2>1. Adds(ls, ms, {"error"}) /\ c.way = "in" /\ d.way = "out"
    BY <1>6 DEF TurnsBack
  <2>2. \A l \in ms : l.kind \notin {"access", "panic"}
    BY <2>1 DEF NotedOk, Adds, Returning
  <2>3. NotedAt(ms) = NotedAt(ls)
    BY <2>1, SameNotes
  <2>4. StageAt(x, c, ls) = "open" /\ SaidAt(x, c) = None
    BY <2>1 DEF StageAt, SaidAt, Returning
  <2>5. CASE x = "rest"
    <3>1. ~Unsaid(x, d)
      BY <2>5 DEF Unsaid
    <3>2. NotedOk(x, d, ms)
      BY <2>2, <3>1 DEF NotedOk
    <3>3. StageAt(x, d, ms) = "settled" /\ SaidAt(x, d) = d.result.status
      BY <2>1, <2>2, <3>1 DEF StageAt, SaidAt, Returning
    <3>4. \/ ~Passes /\ d.result.status \in Contract!Denial
          \/ Passes /\ ~Fit[x] /\ d.result.status \in Contract!Rejection
      BY <1>6, <3>1 DEF TurnsBack, Contract!Denial, Contract!Rejection
    <3> QED
      BY <1>e, <2>3, <2>4, <3>2, <3>3, <3>4 DEF Keeps, Promised
  <2>6. CASE x = "grpc"
    <3>1. Unsaid(x, d) /\ ~Passes /\ d.result.reason = "unauthenticated"
      BY <1>6, <2>6 DEF TurnsBack
    <3>2. NotedOk(x, d, ms)
      BY <2>2, <3>1 DEF NotedOk
    <3>3. StageAt(x, d, ms) = "open" /\ SaidAt(x, d) = None
      BY <2>1, <3>1 DEF StageAt, SaidAt
    <3> QED
      BY <2>3, <2>4, <3>2, <3>3 DEF Keeps, Promised
  <2> QED
    BY <1>2, <2>5, <2>6
<1>7. CASE Finishes(x, c, ls, d, ms)
  <2>1. Adds(ls, ms, {"error"}) /\ c.way = "core" /\ d.way = "out"
    BY <1>7 DEF Finishes
  <2>2. \A l \in ms : l.kind \notin {"access", "panic"}
    BY <2>1 DEF NotedOk, Adds, Returning
  <2>3. NotedAt(ms) = NotedAt(ls)
    BY <2>1, SameNotes
  <2>4. StageAt(x, c, ls) = "running" /\ SaidAt(x, c) = None
    BY <2>1 DEF StageAt, SaidAt, Returning
  <2>5. CASE x = "rest"
    <3>1. ~Unsaid(x, d)
      BY <2>5 DEF Unsaid
    <3>2. NotedOk(x, d, ms)
      BY <2>2, <3>1 DEF NotedOk
    <3>3. StageAt(x, d, ms) = "settled" /\ SaidAt(x, d) = d.result.status
      BY <2>1, <2>2, <3>1 DEF StageAt, SaidAt, Returning
    <3>4. d.result.status \in Contract!Verdict
      BY <1>7, <3>1 DEF Finishes
    <3> QED
      BY <2>3, <2>4, <3>2, <3>3, <3>4 DEF Keeps, Promised
  <2>6. CASE x = "grpc"
    <3>1. Unsaid(x, d) /\ d.result.reason # "unauthenticated"
      BY <1>7, <2>6 DEF Finishes
    <3>2. NotedOk(x, d, ms)
      BY <2>2, <3>1 DEF NotedOk
    <3>3. StageAt(x, d, ms) = "running" /\ SaidAt(x, d) = None
      BY <2>1, <3>1 DEF StageAt, SaidAt
    <3> QED
      BY <2>3, <2>4, <3>2, <3>3 DEF Keeps, Promised
  <2> QED
    BY <1>2, <2>5, <2>6
<1>8. ASSUME GoesOut(x, c, d)
      PROVE  /\ Unsaid(x, d) <=> Unsaid(x, c)
             /\ SaidAt(x, d) = SaidAt(x, c)
             /\ NotedOk(x, d, ls)
             /\ StageAt(x, d, ls) = StageAt(x, c, ls)
  <2>1. /\ c.way = "out" /\ d.way = "out" /\ d.result = c.result
        /\ d.layer = c.layer - 1 /\ (x = "grpc" => c.layer # 3)
    BY <1>8 DEF GoesOut
  <2>2. Unsaid(x, d) <=> Unsaid(x, c)
    BY <1>1, <2>1 DEF Unsaid, Raw
  <2>3. SaidAt(x, d) = SaidAt(x, c)
    BY <2>1, <2>2 DEF SaidAt, Returning
  <2>4. LogAt(x) \in Nat /\ RecoverAt(x) \in Nat
    BY DEF LogAt, RecoverAt
  <2>5. NotedOk(x, d, ls)
    BY <1>1, <2>1, <2>2, <2>4 DEF NotedOk, Returning
  <2>6. StageAt(x, d, ls) = StageAt(x, c, ls)
    BY <2>1, <2>2 DEF StageAt
  <2> QED
    BY <2>2, <2>3, <2>5, <2>6
<1>9. CASE GoesOut(x, c, d) /\ ms = ls
  BY <1>8, <1>9 DEF Keeps, Promised
<1>10. CASE Translates(x, c, ls, d, ms)
  <2>1. /\ x = "grpc" /\ c.way = "out" /\ c.layer >= 3 /\ Unsaid(x, c)
        /\ d.way = "out" /\ d.layer = 2 /\ Adds(ls, ms, {"error"})
    BY <1>10 DEF Translates, Unsaid, Raw
  <2>2. \A l \in ms : l.kind \notin {"access", "panic"}
    BY <1>1, <2>1 DEF NotedOk, Adds, LogAt, RecoverAt
  <2>3. NotedAt(ms) = NotedAt(ls)
    BY <2>1, SameNotes
  <2>4. ~Unsaid(x, d)
    BY <2>1 DEF Unsaid, Raw
  <2>5. NotedOk(x, d, ms)
    BY <2>2, <2>4 DEF NotedOk
  <2>6. StageAt(x, d, ms) = "settled" /\ SaidAt(x, d) = d.result.status
    BY <2>1, <2>2, <2>4 DEF StageAt, SaidAt, Returning
  <2>7. SaidAt(x, c) = None
    BY <2>1 DEF SaidAt
  <2>8. CASE c.result.reason = "unauthenticated"
    <3>1. StageAt(x, c, ls) = "open" /\ ~Passes
      BY <2>1, <2>8 DEF StageAt, NotedOk
    <3>2. d.result.status \in Contract!Denial
      BY <1>10, <2>8 DEF Translates, Contract!Denial
    <3> QED
      BY <1>e, <2>3, <2>5, <2>6, <2>7, <3>1, <3>2 DEF Keeps, Promised
  <2>9. CASE c.result.reason # "unauthenticated"
    <3>1. StageAt(x, c, ls) = "running"
      BY <2>1, <2>9 DEF StageAt
    <3>2. d.result.status \in Contract!Verdict
      BY <1>10 DEF Translates
    <3> QED
      BY <2>3, <2>5, <2>6, <2>7, <3>1, <3>2 DEF Keeps, Promised
  <2> QED
    BY <2>8, <2>9
<1>11. CASE Notes(x, c, ls, d, ms)
  <2>1. GoesOut(x, c, d)
    BY <1>11 DEF Notes
  <2>2. PICK l : /\ ms = ls \cup {l} /\ l.status = c.result.status
                 /\ \/ l.kind = "access" /\ c.layer = LogAt(x)
                    \/ l.kind = "sample" /\ c.layer = 5 /\ x = "rest"
    BY <1>11 DEF Notes
  <2>3. /\ c.way = "out" /\ d.way = "out" /\ d.layer = c.layer - 1
        /\ c.layer \in 1..8 /\ c.layer >= RecoverAt(x)
    BY <1>1, <2>1, <2>2 DEF GoesOut, LogAt, RecoverAt
  <2>4. ~Unsaid(x, c)
    BY <1>2, <2>2 DEF Unsaid, Raw, LogAt
  <2>5. \A e \in ls : e.kind # "panic"
    BY <1>1, <2>3 DEF NotedOk, RecoverAt
  <2>6. \A e \in ls : e.kind # l.kind
    <3>1. CASE l.kind = "access"
      BY <1>1, <2>2, <3>1 DEF NotedOk, LogAt
    <3>2. CASE l.kind = "sample"
      <4>1. c.layer = 5 /\ x = "rest" /\ CountAt(x) = 5
        BY <2>2, <3>2 DEF CountAt
      <4>2. Told(ls) = {}
        BY <4>1 DEF Logged
      <4> QED
        BY <3>2, <4>2 DEF Told
    <3> QED
      BY <2>2, <3>1, <3>2
  <2>7. l.kind \in {"access", "sample"}
    BY <2>2
  <2>8. \A n \in NotedAt(ls) : n.kind # l.kind
    BY <2>6, <2>7, KindOfNote
  <2>9. NotedAt(ms) = NotedAt(ls) \cup {[kind |-> l.kind, status |-> c.result.status]}
    BY <2>2, <2>7, OneNote
  <2>10. SaidAt(x, c) = c.result.status
    BY <2>3, <2>4 DEF SaidAt, Returning
  <2>11. StageAt(x, c, ls) = "settled"
    BY <2>3, <2>4, <2>5 DEF StageAt
  <2>12. StageAt(x, d, ms) = "settled"
    <3>1. \A e \in ms : e.kind # "panic"
      BY <2>2, <2>5
    <3> QED
      BY <1>8, <2>1, <2>3, <2>4, <3>1 DEF StageAt
  <2>13. NotedOk(x, d, ms)
    <3>1. NotedOk(x, d, ls)
      BY <1>8, <2>1
    <3>2. l.kind = "access" => Returning(d) /\ d.layer < LogAt(x)
      BY <1>1, <2>2, <2>3 DEF Returning
    <3>3. l.kind # "panic"
      BY <2>2
    <3> QED
      BY <2>2, <3>1, <3>2, <3>3 DEF NotedOk
  <2>14. SaidAt(x, d) = SaidAt(x, c)
    BY <1>8, <2>1
  <2> QED
    BY <2>7, <2>8, <2>9, <2>10, <2>11, <2>12, <2>13, <2>14 DEF Keeps, Promised
<1>12. CASE Recovers(x, c, ls, d, ms)
  <2>1. /\ c.way = "panic" /\ d.way = "out" /\ d.layer = RecoverAt(x) - 1
        /\ d.result.status \in Contract!Failure
        /\ Adds(ls, ms, {"error", "panic"}) /\ \E l \in ms : l.kind = "panic"
    BY <1>12 DEF Recovers
  <2>2. ~Unsaid(x, d)
    BY <1>2, <2>1 DEF Unsaid, Raw, RecoverAt
  <2>3. NotedOk(x, d, ms)
    <3>1. \A l \in ms : l.kind # "access"
      BY <2>1 DEF NotedOk, Adds, Returning
    <3>2. Returning(d) /\ d.layer < RecoverAt(x)
      BY <2>1 DEF Returning, RecoverAt
    <3> QED
      BY <2>2, <3>1, <3>2 DEF NotedOk
  <2>4. NotedAt(ms) = NotedAt(ls)
    BY <2>1, SameNotes
  <2>5. StageAt(x, c, ls) = "panicking"
    BY <2>1 DEF StageAt
  <2>6. StageAt(x, d, ms) = "recovered" /\ SaidAt(x, d) = d.result.status
    BY <2>1, <2>2 DEF StageAt, SaidAt, Returning
  <2> QED
    BY <2>1, <2>3, <2>4, <2>5, <2>6 DEF Keeps, Promised
<1>13. CASE Leaves(c, ls, d, ms)
  <2>1. /\ c.layer = 0 /\ d.layer = 0 /\ d.result = c.result /\ ms = ls
        /\ \/ c.way = "out" /\ d.way = "answered"
           \/ c.way = "panic" /\ d.way = "dropped"
    BY <1>13 DEF Leaves
  <2>2. ~Unsaid(x, c) /\ ~Unsaid(x, d)
    BY <2>1 DEF Unsaid, Raw
  <2>3. SaidAt(x, d) = SaidAt(x, c)
    BY <2>1, <2>2 DEF SaidAt, Returning
  <2>4. NotedOk(x, d, ms)
    BY <2>1, <2>2 DEF NotedOk, Returning
  <2>5. CASE c.way = "panic"
    <3>1. StageAt(x, c, ls) = "panicking" /\ StageAt(x, d, ms) = "dropped"
      BY <2>1, <2>5 DEF StageAt
    <3> QED
      BY <2>1, <2>3, <2>4, <3>1 DEF Keeps, Promised
  <2>6. CASE c.way = "out"
    <3>1. StageAt(x, d, ms) = "answered"
      BY <2>1, <2>6 DEF StageAt
    <3>2. CASE \E l \in ls : l.kind = "panic"
      <4>1. StageAt(x, c, ls) = "recovered"
        BY <2>2, <2>6, <3>2 DEF StageAt
      <4> QED
        BY <2>1, <2>3, <2>4, <3>1, <4>1 DEF Keeps, Promised
    <3>3. CASE \A l \in ls : l.kind # "panic"
      <4>1. StageAt(x, c, ls) = "settled"
        BY <2>2, <2>6, <3>3 DEF StageAt
      <4>2. \E l \in ls : l.kind = "access"
        BY <2>1, <2>6, <3>3 DEF Logged, Returning, LogAt
      <4>3. \E n \in NotedAt(ls) : n.kind = "access"
        BY <4>2, KindOfNote
      <4> QED
        BY <2>1, <2>3, <2>4, <3>1, <4>1, <4>3 DEF Keeps, Promised
    <3> QED
      BY <3>2, <3>3
  <2> QED
    BY <2>1, <2>5, <2>6
<1> QED
  BY <1>3, <1>4, <1>5, <1>6, <1>7, <1>9, <1>10, <1>11, <1>12, <1>13 DEF Takes

-----------------------------------------------------------------------------
(* What is seen of the call is what its record and its lines say. *)

View ==
  \A x \in Adapter : /\ Stage[x] = StageAt(x, call[x], lines[x])
                     /\ Said[x] = SaidAt(x, call[x])
                     /\ Noted[x] = NotedAt(lines[x])

\* No layer of REST translates an error, and it is the third of gRPC.
LEMMA WhereErrorsAre ==
  ASSUME CallInv, NEW x \in Adapter, Returning(call[x])
  PROVE  Settled(x) <=> ~Unsaid(x, call[x])
<1> DEFINE c == call[x]
<1>1. /\ Typed /\ c \in Call /\ c.layer \in 0..8
      /\ c.way = "answered" => c.layer = 0
  BY DEF CallInv, Typed, Call, Adapter, RestOk, GrpcOk, Placed
<1>2. CASE x = "rest"
  <2>1. c.layer < RestLayers
    BY <1>2 DEF CallInv, RestOk, Placed, Returning, RestLayers
  <2>2. \A i \in 1 .. c.layer : Chain(x)[i] # "errors"
    <3> SUFFICES ASSUME NEW i \in 1 .. c.layer PROVE RestChain[i] # "errors"
      BY <1>2 DEF Chain
    <3>1. i \in 1..7 /\ (i = 7 => ~Public)
      BY <1>1, <2>1 DEF RestLayers
    <3> QED
      BY <3>1, RestPlaces
  <2> QED
    BY <1>2, <2>2 DEF Settled, Unsaid, Returning
<1>3. CASE x = "grpc"
  <2>1. c.way \in {"out", "answered"}
    BY DEF Returning
  <2>2. CASE c.layer >= 3
    <3>1. 3 \in 1 .. c.layer /\ Chain(x)[3] = "errors"
      BY <1>1, <1>3, <2>2, GrpcPlaces DEF Chain
    <3> QED
      BY <1>1, <1>3, <2>1, <2>2, <3>1 DEF Settled, Unsaid, Raw
  <2>3. CASE c.layer < 3
    <3>1. \A i \in 1 .. c.layer : Chain(x)[i] # "errors"
      BY <1>1, <1>3, <2>3, GrpcPlaces DEF Chain
    <3> QED
      BY <1>1, <1>3, <2>1, <2>3, <3>1 DEF Settled, Unsaid, Raw
  <2> QED
    BY <1>1, <2>2, <2>3
<1> QED
  BY <1>2, <1>3 DEF Adapter

LEMMA ViewHolds == CallInv => View
<1> SUFFICES ASSUME CallInv, NEW x \in Adapter
             PROVE  /\ Stage[x] = StageAt(x, call[x], lines[x])
                    /\ Said[x] = SaidAt(x, call[x])
                    /\ Noted[x] = NotedAt(lines[x])
  BY DEF View
<1> DEFINE c == call[x]
<1>1. c.way \in {"in", "core", "out", "panic", "answered", "dropped"}
  BY DEF CallInv, Typed, Call
<1>2. Noted[x] = NotedAt(lines[x])
  <2>1. LinesOf(x, {"access", "sample"}) = Told(lines[x])
    BY DEF LinesOf, Told
  <2> QED
    BY <2>1 DEF Noted, NotedAt
<1>3. Returning(c) => (Settled(x) <=> ~Unsaid(x, c))
  BY WhereErrorsAre
<1>4. ~Returning(c) => ~Settled(x)
  BY DEF Settled, Returning
<1>5. Said[x] = SaidAt(x, c)
  BY <1>3, <1>4 DEF Said, SaidAt
<1>6. Stage[x] = StageAt(x, c, lines[x])
  <2>1. Stage[x] = StageOf(x)
    BY DEF Stage
  <2>2. CASE c.way # "out"
    <3>1. CASE c.way \in {"answered", "dropped"}
      BY <2>1, <3>1 DEF StageOf, StageAt
    <3>2. CASE c.way \in {"in", "core", "panic"}
      BY <2>1, <3>2 DEF StageOf, StageAt
    <3> QED
      BY <1>1, <2>2, <3>1, <3>2
  <2>3. CASE c.way = "out"
    <3>1. Settled(x) <=> ~Unsaid(x, c)
      BY <1>3, <2>3 DEF Returning
    <3>2. LinesOf(x, {"panic"}) = {} <=> \A l \in lines[x] : l.kind # "panic"
      BY DEF LinesOf
    <3> QED
      BY <2>1, <2>3, <3>1, <3>2 DEF StageOf, StageAt
  <2> QED
    BY <2>2, <2>3
<1> QED
  BY <1>2, <1>5, <1>6

\* What one adapter does is a step of CallContract.
LEMMA PromiseIsStep ==
  ASSUME View, View', asked' = asked, NEW x \in Adapter,
         Keeps(x, call[x], lines[x], call'[x], lines'[x]),
         \A y \in Adapter \ {x} : call'[y] = call[y] /\ lines'[y] = lines[y]
  PROVE  [Contract!Next]_Contract!vars
<1>1. Promised(x, Stage[x], Said[x], Noted[x], Stage'[x], Said'[x], Noted'[x])
  BY DEF Keeps, View
<1>2. \A y \in Adapter \ {x} : /\ Stage'[y] = Stage[y] /\ Said'[y] = Said[y]
                               /\ Noted'[y] = Noted[y]
  BY DEF View
<1>3. /\ Stage' = [Stage EXCEPT ![x] = Stage'[x]]
      /\ Stage'[x] = Stage[x] => Stage' = Stage
  BY <1>2 DEF Stage
<1>4. /\ Said' = [Said EXCEPT ![x] = Said'[x]]
      /\ Said'[x] = Said[x] => Said' = Said
  BY <1>2 DEF Said
<1>5. /\ Noted' = [Noted EXCEPT ![x] = Noted'[x]]
      /\ Noted'[x] = Noted[x] => Noted' = Noted
  BY <1>2 DEF Noted
<1>6. Entitled' = Entitled
  BY DEF Entitled, HasToken, Verifies, AuthRoutes
<1>7. Fit' = Fit
  BY DEF Fit
<1> DEFINE st == Stage[x]
           st2 == Stage'[x]
           sa == Said[x]
           sa2 == Said'[x]
           no == Noted[x]
           no2 == Noted'[x]
<1>8. CASE st2 = st /\ sa2 = sa /\ no2 = no
  BY <1>3, <1>4, <1>5, <1>6, <1>7, <1>8 DEF Contract!vars
<1>9. CASE st = "open" /\ st2 = "running" /\ Entitled /\ Fit[x] /\ sa2 = sa /\ no2 = no
  <2>1. Contract!Run(x)
    BY <1>3, <1>4, <1>5, <1>9 DEF Contract!Run, Contract!Moves
  <2> QED
    BY <1>6, <1>7, <2>1 DEF Contract!Next
<1>10. CASE /\ st = "open" /\ st2 = "settled" /\ no2 = no
            /\ \/ ~Entitled /\ sa2 \in Contract!Denial
               \/ Entitled /\ ~Fit[x] /\ sa2 \in Contract!Rejection
  <2>1. Contract!Refuse(x)
    BY <1>3, <1>4, <1>5, <1>10 DEF Contract!Refuse, Contract!Moves, Contract!Says
  <2> QED
    BY <1>6, <1>7, <2>1 DEF Contract!Next
<1>11. CASE st = "running" /\ st2 = "settled" /\ sa2 \in Contract!Verdict /\ no2 = no
  <2>1. Contract!Settle(x)
    BY <1>3, <1>4, <1>5, <1>11 DEF Contract!Settle, Contract!Moves, Contract!Says
  <2> QED
    BY <1>6, <1>7, <2>1 DEF Contract!Next
<1>12. CASE /\ st = "settled" /\ st2 = st /\ sa2 = sa
            /\ \E kind \in {"access", "sample"} :
                 /\ \A n \in no : n.kind # kind
                 /\ no2 = no \cup {[kind |-> kind, status |-> sa]}
  <2>1. PICK kind \in {"access", "sample"} :
          /\ \A n \in no : n.kind # kind
          /\ no2 = no \cup {[kind |-> kind, status |-> sa]}
    BY <1>12
  <2>2. Noted' = [Noted EXCEPT ![x] = Noted[x] \cup {[kind |-> kind, status |-> Said[x]]}]
    BY <1>5, <2>1
  <2>3. Contract!Note(x, kind)
    BY <1>3, <1>4, <1>12, <2>1, <2>2 DEF Contract!Note
  <2> QED
    BY <1>6, <1>7, <2>3 DEF Contract!Next
<1>13. CASE st = "running" /\ st2 = "panicking" /\ sa2 = sa /\ no2 = no
  <2>1. Contract!Panic(x)
    BY <1>3, <1>4, <1>5, <1>13 DEF Contract!Panic, Contract!Moves
  <2> QED
    BY <1>6, <1>7, <2>1 DEF Contract!Next
<1>14. CASE st = "panicking" /\ st2 = "recovered" /\ sa2 \in Contract!Failure /\ no2 = no
  <2>1. Contract!Recover(x)
    BY <1>3, <1>4, <1>5, <1>14 DEF Contract!Recover, Contract!Moves, Contract!Says
  <2> QED
    BY <1>6, <1>7, <2>1 DEF Contract!Next
<1>15. CASE /\ \/ st = "recovered"
               \/ st = "settled" /\ \E n \in no : n.kind = "access"
            /\ st2 = "answered" /\ sa2 = sa /\ no2 = no
  <2>1. Contract!Finish(x)
    BY <1>3, <1>4, <1>5, <1>15 DEF Contract!Finish, Contract!Moves
  <2> QED
    BY <1>6, <1>7, <2>1 DEF Contract!Next
<1>16. CASE st = "panicking" /\ st2 = "dropped" /\ sa2 = sa /\ no2 = no
  <2>1. Contract!Drop(x)
    BY <1>3, <1>4, <1>5, <1>16 DEF Contract!Drop, Contract!Moves
  <2> QED
    BY <1>6, <1>7, <2>1 DEF Contract!Next
<1> QED
  BY <1>1, <1>8, <1>9, <1>10, <1>11, <1>12, <1>13, <1>14, <1>15, <1>16 DEF Promised

LEMMA NotedInit == Init => NotedInv
BY DEF Init, NotedInv, NotedOk, Unsaid, Raw

LEMMA StepRefines ==
  CallInv /\ NotedInv /\ CallInv' /\ View /\ View' /\ [Next]_vars
    => NotedInv' /\ [Contract!Next]_Contract!vars
<1> SUFFICES ASSUME CallInv, NotedInv, CallInv', View, View', [Next]_vars
             PROVE  NotedInv' /\ [Contract!Next]_Contract!vars
  OBVIOUS
<1>1. /\ Typed /\ Typed' /\ asked' = asked
      /\ RestOk(call["rest"], lines["rest"]) /\ GrpcOk(call["grpc"], lines["grpc"])
  BY DEF CallInv, Next, vars
<1>2. CASE UNCHANGED vars
  <2>1. NotedInv'
    BY <1>2 DEF vars, NotedInv, NotedOk, Passes, Public, HasToken, Verifies
  <2>2. UNCHANGED Contract!vars
    BY <1>2 DEF vars, View, Contract!vars, Entitled, HasToken, Verifies, Fit, Stage, Said, Noted
  <2> QED
    BY <2>1, <2>2
<1>3. ASSUME NEW x \in Adapter, Step(x) \/ ContextEnds(x)
      PROVE  NotedInv' /\ [Contract!Next]_Contract!vars
  <2>1. \A y \in Adapter \ {x} : call'[y] = call[y] /\ lines'[y] = lines[y]
    <3>1. CASE x = "rest"
      <4>1. RestKept
        BY <1>1, <1>3, <3>1, RestStep
      <4> QED
        BY <1>1, <3>1, <4>1 DEF RestKept, Typed, Adapter
    <3>2. CASE x = "grpc"
      <4>1. GrpcKept
        BY <1>1, <1>3, <3>2, GrpcStep
      <4> QED
        BY <1>1, <3>2, <4>1 DEF GrpcKept, Typed, Adapter
    <3> QED
      BY <3>1, <3>2 DEF Adapter
  <2>2. Took(x)
    BY <1>1, <1>3, RestTook, GrpcTook DEF Adapter
  <2>3. Keeps(x, call[x], lines[x], call'[x], lines'[x])
    <3>1. Logged(call[x], lines[x], LogAt(x), CountAt(x))
      BY <1>1 DEF RestOk, GrpcOk, LogAt, CountAt, Adapter
    <3>2. NotedOk(x, call[x], lines[x])
      BY DEF NotedInv
    <3>3. /\ call[x] \in Call /\ call'[x] \in Call
          /\ lines[x] \in SUBSET LogLine /\ lines'[x] \in SUBSET LogLine
      BY <1>1 DEF Typed
    <3> QED
      BY <2>2, <3>1, <3>2, <3>3, StepIsPromised DEF Took
  <2>4. NotedInv'
    <3> SUFFICES ASSUME NEW y \in Adapter PROVE NotedOk(y, call[y], lines[y])'
      BY DEF NotedInv
    <3>1. NotedOk(y, call'[y], lines'[y])
      BY <2>1, <2>3 DEF Keeps, NotedInv
    <3> QED
      BY <1>1, <3>1 DEF NotedOk, Passes, Public, HasToken, Verifies
  <2> QED
    BY <1>1, <2>1, <2>3, <2>4, PromiseIsStep
<1> QED
  BY <1>2, <1>3 DEF Next

LEMMA CallRefinesInit == Init => Contract!Init
<1> SUFFICES ASSUME Init PROVE Contract!Init
  OBVIOUS
<1>1. CallInv /\ \A x \in Adapter : call[x].way = "in" /\ lines[x] = {}
  BY CallInit DEF Init
<1>2. View
  BY <1>1, ViewHolds
<1>3. \A x \in Adapter : Stage[x] = "open" /\ Said[x] = None /\ Noted[x] = {}
  BY <1>1, <1>2 DEF View, StageAt, SaidAt, NotedAt, Told, Returning
<1>4. Entitled \in BOOLEAN
  BY DEF Entitled
<1>5. Fit \in [Adapter -> BOOLEAN]
  BY DEF Fit
<1>6. /\ Stage = [x \in Adapter |-> "open"] /\ Said = [x \in Adapter |-> None]
      /\ Noted = [x \in Adapter |-> {}]
  BY <1>3 DEF Stage, Said, Noted
<1> QED
  BY <1>4, <1>5, <1>6 DEF Contract!Init

(* Both chains implement CallContract: whatever is asked and whatever comes of it, the
   layers of NewRouter and of NewServer let the use case run once for who may have it,
   write at most one line and one sample, of the status the caller is then given. *)
THEOREM CallKeepsContract == Spec => ImplementsContract
<1>1. Spec => [](CallInv /\ View)
  BY CallIsAsSaid, ViewHolds, PTL
<1>2. Spec => []NotedInv /\ [][Contract!Next]_Contract!vars
  BY <1>1, NotedInit, StepRefines, PTL DEF Spec
<1> QED
  BY <1>2, CallRefinesInit, PTL DEF Spec, ImplementsContract, Contract!Spec
=============================================================================
