---------------------------- MODULE ProcessProofs ----------------------------
(***************************************************************************)
(* A process from main to its end, proved for any number of requests.      *)
(*                                                                         *)
(* First its shutdown, as Lifecycle has it: no request is refused by a     *)
(* server that works, none to the HTTP port is cut before drainFor has     *)
(* passed or without serve returning an error, and none is running when    *)
(* the process ends.  Then the whole: it is Lifecycle's process while it   *)
(* serves, so that all this holds of it, and boot and unwinding keep their *)
(* own promises.                                                           *)
(***************************************************************************)
EXTENDS Process, TLAPS

ShutdownTyped == TypeOK /\ ShutdownInv

LEMMA InitTyped == Init => ShutdownTyped
BY LifecycleAssumption
   DEF Init, ShutdownTyped, TypeOK, ShutdownInv, GateIn, NoneRefused, Closing,
       HttpShut, GrpcShut, Running, To, Request, Transport, Side

(* What the balancer and the clients do.  Once a listener closes by shutdown, no
   request is on its way any more. *)
LEMMA BalancerKeeps ==
  ASSUME ShutdownTyped, process = "up",
         BalancerStep \/ \E r \in Request : Answered(r)
  PROVE  ShutdownTyped'
<1> USE DEF ShutdownTyped, TypeOK, ShutdownInv, GateIn, NoneRefused, groupVars,
            serverVars
<1>1. ASSUME NEW x \in Transport, Probe(x)
      PROVE  ShutdownTyped'
  BY <1>1 DEF Probe, Running, To
<1>2. ASSUME NEW r \in Request, Send(r)
      PROVE  ShutdownTyped'
  BY <1>2, LifecycleAssumption DEF Send, Become, Running, To, Transport, Request, Side, Closing
<1>3. ASSUME NEW r \in Request, Arrive(r)
      PROVE  ShutdownTyped'
  BY <1>3, LifecycleAssumption
     DEF Arrive, Become, Running, To, Transport, Request, Side, Closing, HttpShut, GrpcShut
<1>4. ASSUME NEW r \in Request, Answered(r)
      PROVE  ShutdownTyped'
  BY <1>4 DEF Answered, Become, Running, To, Request
<1> QED
  BY <1>1, <1>2, <1>3, <1>4 DEF BalancerStep

(* What the errgroup's goroutines do, the gatekeeper apart. *)
LEMMA GroupKeeps ==
  ASSUME ShutdownTyped, process = "up",
         \/ Signal
         \/ \E x \in Transport : ServeFails(x) \/ ServeReturns(x)
         \/ WorkerTick \/ WorkerCounted \/ WorkerStops
         \/ DrainForElapses
         \/ GracefulStop \/ GracefulEnds
         \/ Exit
  PROVE  ShutdownTyped'
<1> USE DEF ShutdownTyped, TypeOK, ShutdownInv, GateIn, NoneRefused, groupVars,
            serverVars, balancer, Running, To
<1>1. CASE Signal
  BY <1>1 DEF Signal
<1>2. ASSUME NEW x \in Transport, ServeFails(x)
      PROVE  ShutdownTyped'
  BY <1>2 DEF ServeFails, Transport, HttpShut, GrpcShut, Closing
<1>3. ASSUME NEW x \in Transport, ServeReturns(x)
      PROVE  ShutdownTyped'
  BY <1>3 DEF ServeReturns
<1>4. CASE WorkerTick \/ WorkerCounted \/ WorkerStops
  <2>1. UNCHANGED <<ctx, gate, graceful, elapsed, failed, process, serverVars, balancer>>
    BY <1>4 DEF WorkerTick, WorkerCounted, WorkerStops
  <2>2. worker' \in {"waiting", "counting", "stopped"}
    BY <1>4 DEF WorkerTick, WorkerCounted, WorkerStops
  <2> QED
    BY <2>1, <2>2
<1>5. CASE DrainForElapses
  BY <1>5 DEF DrainForElapses
<1>6. CASE GracefulStop
  BY <1>6 DEF GracefulStop, Closing
<1>7. CASE GracefulEnds
  BY <1>7 DEF GracefulEnds, Closing
<1>8. CASE Exit
  BY <1>8 DEF Exit
<1> QED
  BY <1>1, <1>2, <1>3, <1>4, <1>5, <1>6, <1>7, <1>8

(* What the gatekeeper does. *)
LEMMA GateKeeps ==
  ASSUME ShutdownTyped, process = "up", GateStep
  PROVE  ShutdownTyped'
<1> USE DEF ShutdownTyped, TypeOK, ShutdownInv, GateIn, NoneRefused, Gate, serverVars,
            balancer, Closing, HttpShut, GrpcShut
<1>1. CASE GateWakes
  BY <1>1 DEF GateWakes, Running, To
<1>2. CASE GateHealth
  BY <1>2 DEF GateHealth, Running, To
<1>3. CASE GateDelayOver
  BY <1>3 DEF GateDelayOver, NoticePeriodOver, Running, To, Transport
<1>4. CASE CloseHttp
  BY <1>4 DEF CloseHttp, Running, To
<1>5. CASE HttpDrained
  BY <1>5 DEF HttpDrained, Running, To
<1>6. CASE DrainFails
  BY <1>6 DEF DrainFails, Running, To
<1>7. CASE StopGrpc
  BY <1>7, LifecycleAssumption DEF StopGrpc, Become, Running, To, Side, Request
<1>8. CASE CloseConnections
  BY <1>8 DEF CloseConnections, Become, Running, To
<1> QED
  BY <1>1, <1>2, <1>3, <1>4, <1>5, <1>6, <1>7, <1>8 DEF GateStep

LEMMA ShutdownInvariant == Spec => []ShutdownTyped
<1>1. ShutdownTyped /\ [Next]_vars => ShutdownTyped'
  <2>1. ASSUME ShutdownTyped, Next
        PROVE  ShutdownTyped'
    BY <2>1, BalancerKeeps, GroupKeeps, GateKeeps DEF Next
  <2>2. ASSUME ShutdownTyped, UNCHANGED vars
        PROVE  ShutdownTyped'
    BY <2>2 DEF ShutdownTyped, TypeOK, ShutdownInv, GateIn, NoneRefused, vars, groupVars,
                serverVars, balancer, Running, To
  <2> QED
    BY <2>1, <2>2
<1> QED
  BY InitTyped, <1>1, PTL DEF Spec

(* Each variable of the lifecycle has its type. *)
THEOREM LifecycleTypes == Spec => []TypeOK
<1>1. ShutdownTyped => TypeOK
  BY DEF ShutdownTyped
<1> QED
  BY ShutdownInvariant, <1>1, PTL

(* gracefulShutdown flips readiness, waits and only then closes: no request of the
   balancer meets a port that shutdown closed. *)
THEOREM NoRequestRefused == Spec => []NoneRefused
<1>1. ShutdownTyped => NoneRefused
  BY DEF ShutdownTyped, ShutdownInv
<1> QED
  BY ShutdownInvariant, <1>1, PTL

(* HTTP requests get the whole of drainFor, whatever the gRPC server waits for. *)
THEOREM HttpDrainsFully == Spec => []HttpHasItsWindow
<1>1. ShutdownTyped => HttpHasItsWindow
  BY DEF ShutdownTyped, ShutdownInv, HttpHasItsWindow
<1> QED
  BY ShutdownInvariant, <1>1, PTL

(* If an HTTP request was cut all the same, serve returns an error. *)
THEOREM CleanExitIsHonest == Spec => []CleanExitCutNoHttp
<1>1. ShutdownTyped => CleanExitCutNoHttp
  BY DEF ShutdownTyped, ShutdownInv, CleanExitCutNoHttp
<1> QED
  BY ShutdownInvariant, <1>1, PTL

(* The process does not end, nor is MongoDB disconnected, under a request. *)
THEOREM ProcessOutlivesRequests == Spec => []NobodyLeftBehind
<1>1. ShutdownTyped => NobodyLeftBehind
  BY DEF ShutdownTyped, ShutdownInv, GateIn, NobodyLeftBehind, GrpcShut, Running, To,
         Request, Side
<1> QED
  BY ShutdownInvariant, <1>1, PTL

-----------------------------------------------------------------------------
(* Boot, unwinding and other replicas take no step of Lifecycle, apart from a
   signal. *)
LEMMA StepIsLifecycles ==
  ASSUME ProcessNext
  PROVE  [Next]_vars
<1>1. BootStep => UNCHANGED vars
  <2>1. MustLoad \/ NotifyContext \/ Connect \/ Ping => UNCHANGED vars
    BY DEF MustLoad, NotifyContext, Connect, Ping
  <2>2. EnsureUsers \/ EnsureRefresh \/ BuildCore => UNCHANGED vars
    BY DEF EnsureUsers, EnsureRefresh, BuildCore
  <2>3. BuildServers \/ ListenHttp \/ ListenGrpc => UNCHANGED vars
    BY DEF BuildServers, ListenHttp, ListenGrpc
  <2> QED
    BY <2>1, <2>2, <2>3 DEF BootStep
<1>2. BootTimeout \/ OtherReplica \/ ServeReturned \/ Disconnect => UNCHANGED vars
  BY DEF BootTimeout, OtherReplica, ServeReturned, Disconnect
<1>3. SignalAtBoot => Next \/ UNCHANGED vars
  BY DEF SignalAtBoot, Next
<1>4. Serving => Next
  BY DEF Serving
<1> QED
  BY <1>1, <1>2, <1>3, <1>4 DEF ProcessNext

(* The process, boot included, is one of Lifecycle's: nothing that holds of
   Lifecycle is lost by what run does before and after it serves. *)
THEOREM ProcessImplementsLifecycle == ProcessSpec => Spec
<1>1. ProcessInit => Init
  BY DEF ProcessInit
<1>2. [ProcessNext]_allVars => [Next]_vars
  <2>1. ProcessNext => [Next]_vars
    BY StepIsLifecycles
  <2> QED
    BY <2>1 DEF allVars
<1> QED
  BY <1>1, <1>2, PTL DEF ProcessSpec, Spec

(* What every step of run knows about the ones before it. *)
Connected == step \in (Booting \ {"connect"}) \cup {"serve", "closing"}

ProcessInv ==
  /\ ProcessTypeOK
  /\ mongo = "open" <=> Connected
  /\ bound # {} => indexes = Collection
  /\ step \in {"core", "servers", "http", "grpc", "serve"} => indexes = Collection
  /\ step = "refresh" => "users" \in indexes
  /\ step \notin {"load", "over"} => bad \cap Validated = {}
  /\ bound # {} => bad \cap Validated = {} /\ "SERVER_RPC_TIMEOUT" \notin bad
  /\ step \in {"load", "watch"} \cup Booting \cup {"serve"} => end = "none"
  /\ step \in {"http", "grpc", "serve"} => "SERVER_RPC_TIMEOUT" \notin bad
  /\ step \in {"load", "watch", "connect", "ping", "users", "refresh", "core", "servers"}
       => bound = {}
  /\ end = "panic" => bound = {}
  /\ (\E r \in Request : request[r] # "new") => process = "exited" \/ step = "serve"

USE DEF Booting, Validated, Setting, Step, Collection

LEMMA ProcessInvInit == ProcessInit => ProcessInv
BY DEF ProcessInit, ProcessInv, ProcessTypeOK, Connected, Init, Request, Transport

(* Boot, up to the connection. *)
LEMMA OpeningKeeps ==
  ASSUME ProcessInv, MustLoad \/ NotifyContext \/ Connect \/ Ping
  PROVE  ProcessInv'
<1> USE DEF ProcessInv, ProcessTypeOK, Connected, GoOn, Leave, Unwind, vars, groupVars,
            balancer, database
<1>1. CASE MustLoad
  BY <1>1 DEF MustLoad
<1>2. CASE NotifyContext
  BY <1>2 DEF NotifyContext
<1>3. CASE Connect
  BY <1>3 DEF Connect
<1>4. CASE Ping
  BY <1>4 DEF Ping
<1> QED
  BY <1>1, <1>2, <1>3, <1>4

(* Indexes are only added, by whichever replica builds them. *)
LEMMA BuildingAdds ==
  ASSUME ProcessInv, NEW c \in Collection, BuildIndexes(c)
  PROVE  indexes \subseteq indexes' /\ indexes' \subseteq Collection /\ dups' = dups
BY DEF BuildIndexes, Buildable, ProcessInv, ProcessTypeOK

(* Boot, from the indexes on. *)
LEMMA BuildingKeeps ==
  ASSUME ProcessInv,
         EnsureUsers \/ EnsureRefresh \/ BuildCore \/ BuildServers
  PROVE  ProcessInv'
<1> USE DEF ProcessInv, ProcessTypeOK, Connected, GoOn, Leave, Unwind, vars, groupVars,
            balancer, database
<1>1. CASE EnsureUsers
  <2>1. indexes \subseteq indexes' /\ indexes' \subseteq Collection /\ dups' = dups
    BY <1>1, BuildingAdds DEF EnsureUsers
  <2> QED
    BY <1>1, <2>1 DEF EnsureUsers
<1>2. CASE EnsureRefresh
  <2>1. indexes \subseteq indexes' /\ indexes' \subseteq Collection /\ dups' = dups
    BY <1>2, BuildingAdds DEF EnsureRefresh
  <2> QED
    BY <1>2, <2>1 DEF EnsureRefresh
<1>3. CASE BuildCore
  BY <1>3 DEF BuildCore
<1>4. CASE BuildServers
  BY <1>4 DEF BuildServers
<1> QED
  BY <1>1, <1>2, <1>3, <1>4

(* The ports, the end, and what happens besides. *)
LEMMA RestKeeps ==
  ASSUME ProcessInv,
         \/ ListenHttp \/ ListenGrpc
         \/ BootTimeout \/ SignalAtBoot \/ OtherReplica
         \/ Serving \/ ServeReturned \/ Disconnect
  PROVE  ProcessInv'
<1> USE DEF ProcessInv, ProcessTypeOK, Connected, GoOn, Leave, Unwind, database
<1>1. CASE ListenHttp
  BY <1>1 DEF ListenHttp, vars, groupVars, balancer, Transport
<1>2. CASE ListenGrpc
  BY <1>2 DEF ListenGrpc, vars, groupVars, balancer, Transport
<1>3. CASE BootTimeout
  BY <1>3 DEF BootTimeout, vars, groupVars, balancer
<1>4. CASE SignalAtBoot
  <2>1. CASE UNCHANGED bootVars
    BY <1>4, <2>1 DEF SignalAtBoot, Signal, bootVars, vars, groupVars, serverVars, balancer
  <2>2. CASE Leave("load", "killed") \/ Leave("watch", "killed")
    <3>1. UNCHANGED <<bad, expired, mongo, bound, indexes, dups, request, process>>
      BY <1>4, <2>2 DEF SignalAtBoot, bootVars, vars, groupVars, serverVars, balancer
    <3> QED
      BY <2>2, <3>1
  <2> QED
    BY <1>4, <2>1, <2>2 DEF SignalAtBoot
<1>5. CASE OtherReplica
  <2>1. indexes \subseteq indexes' /\ indexes' \subseteq Collection /\ dups' = dups
    BY <1>5, BuildingAdds DEF OtherReplica
  <2>2. UNCHANGED <<step, bad, expired, mongo, bound, end, request, process>>
    BY <1>5 DEF OtherReplica, vars, groupVars, serverVars, balancer
  <2>3. ProcessTypeOK'
    <3>1. ProcessTypeOK
      OBVIOUS
    <3> QED
      BY <2>1, <2>2, <3>1
  <2>4. /\ indexes = Collection => indexes' = Collection
        /\ "users" \in indexes => "users" \in indexes'
    BY <2>1
  <2> HIDE DEF ProcessTypeOK
  <2> QED
    BY <2>2, <2>3, <2>4
<1>6. CASE Serving
  BY <1>6 DEF Serving, bootVars
<1>7. CASE ServeReturned
  BY <1>7 DEF ServeReturned, vars, groupVars, balancer
<1>8. CASE Disconnect
  BY <1>8 DEF Disconnect, vars, groupVars, balancer
<1> QED
  BY <1>1, <1>2, <1>3, <1>4, <1>5, <1>6, <1>7, <1>8

LEMMA ProcessInvariant == ProcessSpec => []ProcessInv
<1>1. ProcessInv /\ [ProcessNext]_allVars => ProcessInv'
  <2>1. ASSUME ProcessInv, ProcessNext
        PROVE  ProcessInv'
    BY <2>1, OpeningKeeps, BuildingKeeps, RestKeeps DEF ProcessNext, BootStep
  <2>2. ASSUME ProcessInv, UNCHANGED allVars
        PROVE  ProcessInv'
    BY <2>2 DEF ProcessInv, ProcessTypeOK, Connected, allVars, bootVars, database, vars,
                groupVars, balancer
  <2> QED
    BY <2>1, <2>2
<1> QED
  BY ProcessInvInit, <1>1, PTL DEF ProcessSpec

(* Shutdown keeps its promises in a process that boots first and may be told to
   stop before it has. *)
THEOREM ProcessShutsDownInOrder ==
  ProcessSpec => /\ []NoneRefused /\ []NobodyLeftBehind
                 /\ []HttpHasItsWindow /\ []CleanExitCutNoHttp
BY ProcessImplementsLifecycle, NoRequestRefused, ProcessOutlivesRequests,
   HttpDrainsFully, CleanExitIsHonest, PTL

(* Whatever fails during boot, and whoever else builds indexes: open ports have
   their indexes behind them. *)
THEOREM BootIsSafe == ProcessSpec => []PortsOpenOnIndexes
<1>1. ProcessInv => PortsOpenOnIndexes
  BY DEF ProcessInv, PortsOpenOnIndexes
<1> QED
  BY ProcessInvariant, <1>1, PTL

(* A process whose settings a constructor panics on never opens a port. *)
THEOREM MisconfiguredNeverServes == ProcessSpec => []PanicsBeforePorts
<1>1. ProcessInv => PanicsBeforePorts
  BY DEF ProcessInv, PanicsBeforePorts
<1> QED
  BY ProcessInvariant, <1>1, PTL

(* However run returns, at whatever step, the connection is not left open. *)
THEOREM ConnectionIsClosed == ProcessSpec => []NothingLeftOpen
<1>1. ProcessInv => NothingLeftOpen
  BY DEF ProcessInv, NothingLeftOpen, Connected
<1> QED
  BY ProcessInvariant, <1>1, PTL

(* run disconnects only after serve has returned, and serve only after every
   request is answered or cut. *)
THEOREM MongoOutlivesRequests == ProcessSpec => []RequestsHaveMongo
<1>1. ProcessInv /\ ShutdownTyped => RequestsHaveMongo
  <2> SUFFICES ASSUME ProcessInv, ShutdownTyped, NEW r \in Request, request[r] = "running"
               PROVE  mongo = "open"
    BY DEF RequestsHaveMongo
  <2>1. process # "exited"
    BY DEF ShutdownTyped, ShutdownInv, GateIn, GrpcShut, Running, To, Request, Side
  <2> QED
    BY <2>1 DEF ProcessInv, Connected
<1> QED
  BY ProcessImplementsLifecycle, ProcessInvariant, ShutdownInvariant, <1>1, PTL
=============================================================================
