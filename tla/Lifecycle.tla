------------------------------ MODULE Lifecycle ------------------------------
(***************************************************************************)
(* cmd/api/lifecycle.go: one replica from the moment it serves until its   *)
(* process ends.  serve starts four goroutines in an errgroup, the HTTP    *)
(* server, the gRPC server, the worker and the gatekeeper (gracefulShut-   *)
(* down), and GracefulStop runs in a fifth.  In front of the replica is a  *)
(* load balancer that probes readiness and sends requests meanwhile.       *)
(*                                                                         *)
(*   gate  waiting -> health -> delay -> close -> drain -> stop -> returned*)
(*                                                drain -> cut -> closing  *)
(*                                                              -> returned*)
(***************************************************************************)
EXTENDS FiniteSets

CONSTANTS
  HttpReq,    \* requests that will be sent to the HTTP port
  GrpcReq     \* requests that will be sent to the gRPC port

ASSUME LifecycleAssumption == HttpReq \cap GrpcReq = {}

Request   == HttpReq \cup GrpcReq
Transport == {"http", "grpc"}
Side(r)   == IF r \in HttpReq THEN "http" ELSE "grpc"
To(x)     == {r \in Request : Side(r) = x}

VARIABLES
  request,   \* what became of each request
  ctx,       \* gctx is cancelled
  gate,      \* where the gatekeeper is
  ready,     \* transports whose readiness probe answers yes
  noticed,   \* transports the balancer has stopped sending to
  listening, \* transports whose listener is open
  serving,   \* transports whose Serve has not returned
  graceful,  \* the goroutine that runs GracefulStop
  elapsed,   \* drainFor has passed since the drain began
  failed,    \* what has returned an error to the errgroup
  worker,    \* where UserCounter.Run is
  process    \* "up" or "exited"

groupVars  == <<ctx, gate, graceful, elapsed, failed, worker, process>>
serverVars == <<ready, listening, serving>>
balancer   == <<request, noticed>>
vars       == <<groupVars, serverVars, balancer>>

TypeOK ==
  /\ request \in [Request -> {"new", "sent", "refused", "running", "answered", "cut"}]
  /\ gate \in {"waiting", "health", "delay", "close", "drain", "stop", "cut",
               "closing", "returned"}
  /\ ready \subseteq Transport /\ noticed \subseteq Transport
  /\ listening \subseteq Transport /\ serving \subseteq Transport
  /\ graceful \in {"none", "started", "waiting", "returned"}
  /\ ctx \in BOOLEAN /\ elapsed \in BOOLEAN
  /\ failed \subseteq {"http", "grpc", "drain"}
  /\ worker \in {"waiting", "counting", "stopped"}
  /\ process \in {"up", "exited"}

Init ==
  /\ request = [r \in Request |-> "new"]
  /\ ctx = FALSE /\ gate = "waiting" /\ graceful = "none" /\ elapsed = FALSE
  /\ ready = Transport /\ noticed = {}
  /\ listening = Transport /\ serving = Transport
  /\ failed = {} /\ worker = "waiting" /\ process = "up"

Running(x) == {r \in To(x) : request[r] = "running"}

Become(S, status) == request' = [r \in Request |-> IF r \in S THEN status ELSE request[r]]

-----------------------------------------------------------------------------
(* The load balancer, and the requests it sends. *)

\* A probe is answered no, or not at all.
Probe(x) ==
  /\ x \notin ready \cap listening
  /\ noticed' = noticed \cup {x}
  /\ UNCHANGED <<groupVars, serverVars, request>>

Send(r) ==
  /\ request[r] = "new"
  /\ Side(r) \notin noticed
  /\ Become({r}, "sent")
  /\ UNCHANGED <<groupVars, serverVars, noticed>>

Arrive(r) ==
  /\ request[r] = "sent"
  /\ Become({r}, IF Side(r) \in listening THEN "running" ELSE "refused")
  /\ UNCHANGED <<groupVars, serverVars, noticed>>

Answered(r) ==
  /\ request[r] = "running"
  /\ Become({r}, "answered")
  /\ UNCHANGED <<groupVars, serverVars, noticed>>

-----------------------------------------------------------------------------
(* The errgroup: its context, the two servers and the worker. *)

\* SIGINT or SIGTERM.
Signal ==
  /\ ctx' = TRUE
  /\ UNCHANGED <<gate, graceful, elapsed, failed, worker, process, serverVars, balancer>>

\* Serve returns an error of its own; the first one cancels the group.
ServeFails(x) ==
  /\ x \in serving \cap listening
  /\ listening' = listening \ {x}
  /\ serving' = serving \ {x}
  /\ failed' = failed \cup {x}
  /\ ctx' = TRUE
  /\ UNCHANGED <<gate, graceful, elapsed, worker, process, ready, balancer>>

\* ErrServerClosed and ErrServerStopped are no errors.  The gRPC server returns
\* from Serve only when Stop or GracefulStop is done.
ServeReturns(x) ==
  /\ x \in serving \ listening
  /\ x = "grpc" => graceful = "returned"
  /\ serving' = serving \ {x}
  /\ UNCHANGED <<groupVars, ready, listening, balancer>>

\* select: with both channels ready, either.
WorkerTick ==
  /\ worker = "waiting"
  /\ worker' = "counting"
  /\ UNCHANGED <<ctx, gate, graceful, elapsed, failed, process, serverVars, balancer>>

\* Counted, failed or cancelled, the round is over and the worker carries on.
WorkerCounted ==
  /\ worker = "counting"
  /\ worker' = "waiting"
  /\ UNCHANGED <<ctx, gate, graceful, elapsed, failed, process, serverVars, balancer>>

WorkerStops ==
  /\ worker = "waiting" /\ ctx
  /\ worker' = "stopped"
  /\ UNCHANGED <<ctx, gate, graceful, elapsed, failed, process, serverVars, balancer>>

\* Mutant: serve returns when the servers do, not when all four goroutines have.
ExitWithServers ==
  /\ serving = {} /\ worker = "stopped"
  /\ process' = "exited"
  /\ UNCHANGED <<ctx, gate, graceful, elapsed, failed, worker, serverVars, balancer>>

\* g.Wait returns; run closes the MongoDB connection and the process ends.
Exit ==
  /\ serving = {} /\ worker = "stopped" /\ gate = "returned"
  /\ process' = "exited"
  /\ UNCHANGED <<ctx, gate, graceful, elapsed, failed, worker, serverVars, balancer>>

-----------------------------------------------------------------------------
(* gracefulShutdown *)

Gate(from, to) == gate = from /\ gate' = to

\* Mutant: REST readiness is not flipped.
GateWakesReady ==
  /\ Gate("waiting", "health") /\ ctx
  /\ UNCHANGED <<ctx, graceful, elapsed, failed, worker, process, serverVars, balancer>>

\* draining.Store(true): /readyz answers 503 from now on, ...
GateWakes ==
  /\ Gate("waiting", "health") /\ ctx
  /\ ready' = ready \ {"http"}
  /\ UNCHANGED <<ctx, graceful, elapsed, failed, worker, process, listening, serving,
                 balancer>>

\* ... and health.Shutdown(): so does grpc.health.v1.
GateHealth ==
  /\ Gate("health", "delay")
  /\ ready' = ready \ {"grpc"}
  /\ UNCHANGED <<ctx, graceful, elapsed, failed, worker, process, listening, serving,
                 balancer>>

(* Assumption on the deployment: delayFor is the time the balancer needs to act
   on a probe and its requests to arrive.  A probe that says yes ends no wait. *)
NoticePeriodOver ==
  /\ \A r \in Request : request[r] # "sent"
  /\ Transport \ ready \subseteq noticed

\* The sleep ends, the drain window opens and GracefulStop is started.
GateDelayOver ==
  /\ Gate("delay", "close")
  /\ NoticePeriodOver
  /\ graceful' = "started"
  /\ UNCHANGED <<ctx, elapsed, failed, worker, process, serverVars, balancer>>

\* http.Shutdown closes the listener before it waits.
CloseHttp ==
  /\ Gate("close", "drain")
  /\ listening' = listening \ {"http"}
  /\ UNCHANGED <<ctx, graceful, elapsed, failed, worker, process, ready, serving,
                 balancer>>

DrainForElapses ==
  /\ gate = "drain"
  /\ elapsed' = TRUE
  /\ UNCHANGED <<ctx, gate, graceful, failed, worker, process, serverVars, balancer>>

HttpDrained ==
  /\ Gate("drain", "stop")
  /\ Running("http") = {}
  /\ UNCHANGED <<ctx, graceful, elapsed, failed, worker, process, serverVars, balancer>>

\* Mutants: the window is a child of ctx; the window has no end.
DrainFailsOnCtx ==
  /\ Gate("drain", "cut") /\ ctx
  /\ UNCHANGED <<ctx, graceful, elapsed, failed, worker, process, serverVars, balancer>>

DrainNeverFails == FALSE /\ UNCHANGED vars

\* http.Shutdown gives up, also when the last request has just been answered.
DrainFails ==
  /\ Gate("drain", "cut") /\ elapsed
  /\ UNCHANGED <<ctx, graceful, elapsed, failed, worker, process, serverVars, balancer>>

\* grpc.Stop closes the listener and the connections, on either way out.
StopGrpc ==
  /\ \/ Gate("stop", "returned")
     \/ Gate("cut", "closing")
  /\ listening' = listening \ {"grpc"}
  /\ graceful' = "returned"
  /\ Become(Running("grpc"), "cut")
  /\ UNCHANGED <<ctx, elapsed, failed, worker, process, ready, serving, noticed>>

\* Mutant: the error of http.Shutdown is dropped.
CloseConnectionsSilently ==
  /\ Gate("closing", "returned")
  /\ Become(Running("http"), "cut")
  /\ UNCHANGED <<ctx, graceful, elapsed, failed, worker, process, serverVars, noticed>>

\* http.Close, and the error that serve returns.
CloseConnections ==
  /\ Gate("closing", "returned")
  /\ Become(Running("http"), "cut")
  /\ failed' = failed \cup {"drain"}
  /\ UNCHANGED <<ctx, graceful, elapsed, worker, process, serverVars, noticed>>

\* GracefulStop closes the listener, and returns when no RPC is running.
GracefulStop ==
  /\ graceful = "started"
  /\ graceful' = "waiting"
  /\ listening' = listening \ {"grpc"}
  /\ UNCHANGED <<ctx, gate, elapsed, failed, worker, process, ready, serving, balancer>>

GracefulEnds ==
  /\ graceful = "waiting"
  /\ Running("grpc") = {}
  /\ graceful' = "returned"
  /\ UNCHANGED <<ctx, gate, elapsed, failed, worker, process, serverVars, balancer>>

-----------------------------------------------------------------------------
GateStep ==
  \/ GateWakes \/ GateHealth \/ GateDelayOver \/ CloseHttp
  \/ HttpDrained \/ DrainFails \/ StopGrpc \/ CloseConnections

BalancerStep ==
  \/ \E x \in Transport : Probe(x)
  \/ \E r \in Request : Send(r) \/ Arrive(r)

Next ==
  /\ process = "up"
  /\ \/ BalancerStep
     \/ \E r \in Request : Answered(r)
     \/ Signal
     \/ \E x \in Transport : ServeFails(x) \/ ServeReturns(x)
     \/ WorkerTick \/ WorkerCounted \/ WorkerStops
     \/ GateStep \/ DrainForElapses
     \/ GracefulStop \/ GracefulEnds
     \/ Exit

Spec == Init /\ [][Next]_vars

-----------------------------------------------------------------------------
(* "A load balancer learns to stop sending work before any listener closes": no
   request it sends meets a closed port, unless that server failed by itself. *)
NoneRefused ==
  \A r \in Request : request[r] = "refused" => Side(r) \in failed

(* "Using ctx would turn Shutdown into an immediate cut rather than a drain": an
   HTTP request is cut only when drainFor has passed, whatever else is over. *)
HttpHasItsWindow == \A r \in HttpReq : request[r] = "cut" => elapsed

(* "Let in-flight requests and RPCs run to completion within drainFor". *)
EveryoneHasTheWindow == \A r \in Request : request[r] = "cut" => elapsed

(* The process, and with it the MongoDB connection, outlives every request: at
   the exit none is running that was not cut before. *)
NobodyLeftBehind == process = "exited" => \A r \in Request : request[r] # "running"

(* "service shut down cleanly" is the truth about HTTP: nothing was cut. *)
CleanExitCutNoHttp ==
  process = "exited" /\ failed = {} => \A r \in HttpReq : request[r] # "cut"

(* The above as the steps keep it up: what each place of the gatekeeper says about
   readiness, listeners and requests.  Without it none of them is inductive. *)
GateIn(places) == gate \in places

Closing  == {"close", "drain", "stop", "cut", "closing", "returned"}
HttpShut == Closing \ {"close"}
GrpcShut == {"closing", "returned"}

ShutdownInv ==
  /\ GateIn({"health", "delay"} \cup Closing) => "http" \notin ready
  /\ GateIn({"delay"} \cup Closing) => "grpc" \notin ready
  /\ GateIn(Closing) => noticed = Transport /\ \A r \in Request : request[r] # "sent"
  /\ GateIn({"cut", "closing"}) => elapsed
  /\ GateIn(HttpShut) => "http" \notin listening
  /\ GateIn({"stop", "returned"}) => Running("http") = {}
  /\ GateIn(GrpcShut) => "grpc" \notin listening /\ Running("grpc") = {}
  /\ \A x \in Transport : x \notin listening => x \in failed \/ GateIn(Closing)
  /\ graceful # "none" => GateIn(Closing)
  /\ process = "exited" => gate = "returned"
  /\ \A r \in HttpReq : request[r] = "cut" => elapsed /\ "drain" \in failed
  /\ NoneRefused
=============================================================================
