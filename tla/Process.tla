------------------------------ MODULE Process ------------------------------
(***************************************************************************)
(* cmd/api: one process from main to its end.  run brings the parts to     *)
(* life in a fixed order, each step of which may fail, then serves (the    *)
(* steps of Lifecycle) and unwinds:                                        *)
(*                                                                         *)
(*   load -> watch -> connect -> ping -> users -> refresh -> core          *)
(*        -> servers -> http -> grpc -> serve -> closing -> over           *)
(*                                                                         *)
(* bootCtx, which the calls to MongoDB are given, ends with a signal or    *)
(* after bootTimeout.  The database is shared with other replicas, whose   *)
(* boot may build the same indexes.                                        *)
(***************************************************************************)
EXTENDS Lifecycle

VARIABLES
  step,      \* where run is
  bad,       \* settings of the environment that are unusable
  expired,   \* bootTimeout has passed
  mongo,     \* the client of this process: none, open or closed
  bound,     \* transports whose port this process has bound
  indexes,   \* collections of the database whose indexes exist
  dups,      \* collection users has two rows with one email
  end        \* how the process ended: clean, error, panic or killed

database == <<indexes, dups>>
bootVars == <<step, bad, expired, mongo, bound, database, end>>
allVars  == <<vars, bootVars>>

Collection == {"users", "refresh_tokens"}

\* What validate checks, and what only a later constructor refuses.
Validated == {"USER_COUNT_INTERVAL", "SHUTDOWN_DELAY", "JWT_SECRET", "MONGO_MAX_IDLE_CONNS"}
Setting   == Validated \cup {"SERVER_RPC_TIMEOUT"}

Booting == {"connect", "ping", "users", "refresh", "core", "servers", "http", "grpc"}
Step    == {"load", "watch", "serve", "closing", "over"} \cup Booting

ProcessTypeOK ==
  /\ step \in Step
  /\ bad \subseteq Setting
  /\ expired \in BOOLEAN /\ dups \in BOOLEAN
  /\ mongo \in {"none", "open", "closed"}
  /\ bound \subseteq Transport
  /\ indexes \subseteq Collection
  /\ end \in {"none", "clean", "error", "panic", "killed"}

ProcessInit ==
  /\ Init
  /\ step = "load" /\ end = "none"
  /\ bad \in SUBSET Setting
  /\ expired = FALSE /\ mongo = "none" /\ bound = {}
  /\ indexes \in SUBSET Collection
  /\ dups \in BOOLEAN /\ (dups => "users" \notin indexes)

-----------------------------------------------------------------------------
GoOn(from, to) == step = from /\ step' = to /\ UNCHANGED end

\* run returns or panics, with nothing deferred that matters, ...
Leave(from, how) == step = from /\ step' = "over" /\ end' = how

\* ... or with the connection still to be closed.
Unwind(from, how) == step = from /\ step' = "closing" /\ end' = how

\* bootCtx is done.
BootCtxDone == ctx \/ expired

\* Mutant: validate does not look at the worker's interval.
MustLoadLax ==
  /\ IF bad \cap (Validated \ {"USER_COUNT_INTERVAL"}) = {}
     THEN GoOn("load", "watch") ELSE Leave("load", "panic")
  /\ UNCHANGED <<vars, bad, expired, mongo, bound, database>>

\* config.MustLoad: every problem is logged, then it panics.
MustLoad ==
  /\ IF bad \cap Validated = {}
     THEN GoOn("load", "watch") ELSE Leave("load", "panic")
  /\ UNCHANGED <<vars, bad, expired, mongo, bound, database>>

NotifyContext ==
  /\ GoOn("watch", "connect")
  /\ UNCHANGED <<vars, bad, expired, mongo, bound, database>>

\* mongo.Connect reaches no server yet; it fails on a URI it cannot use.
Connect ==
  /\ \/ GoOn("connect", "ping") /\ mongo' = "open"
     \/ Leave("connect", "error") /\ UNCHANGED mongo
  /\ UNCHANGED <<vars, bad, expired, bound, database>>

\* Ready: when it fails, Connect disconnects what it has just connected.
Ping ==
  /\ \/ GoOn("ping", "users") /\ ~BootCtxDone
     \/ Unwind("ping", "error")
  /\ UNCHANGED <<vars, bad, expired, mongo, bound, database>>

\* CreateMany: refused when the data contradicts the index.  The indexes may be
\* there although the call fails.
Buildable == IF dups THEN Collection \ {"users"} ELSE Collection

BuildIndexes(c) ==
  /\ indexes' \in {indexes, indexes \cup ({c} \cap Buildable)}
  /\ UNCHANGED dups

EnsureUsers ==
  /\ BuildIndexes("users")
  /\ \/ GoOn("users", "refresh") /\ ~BootCtxDone /\ "users" \in indexes'
     \/ Unwind("users", "error")
  /\ UNCHANGED <<vars, bad, expired, mongo, bound>>

\* Mutants: the error is dropped; the connection is not closed.
EnsureRefreshUnchecked ==
  /\ BuildIndexes("refresh_tokens")
  /\ GoOn("refresh", "core")
  /\ UNCHANGED <<vars, bad, expired, mongo, bound>>

EnsureRefreshLeaking ==
  /\ BuildIndexes("refresh_tokens")
  /\ \/ GoOn("refresh", "core") /\ ~BootCtxDone /\ "refresh_tokens" \in indexes'
     \/ Leave("refresh", "error")
  /\ UNCHANGED <<vars, bad, expired, mongo, bound>>

EnsureRefresh ==
  /\ BuildIndexes("refresh_tokens")
  /\ \/ GoOn("refresh", "core") /\ ~BootCtxDone /\ "refresh_tokens" \in indexes'
     \/ Unwind("refresh", "error")
  /\ UNCHANGED <<vars, bad, expired, mongo, bound>>

\* NewAuthService hashes the decoy, and fails with it.  It knows no context.
BuildCore ==
  /\ GoOn("core", "servers") \/ Unwind("core", "error")
  /\ UNCHANGED <<vars, bad, expired, mongo, bound, database>>

\* mustBeComplete panics, and run's deferred calls are made all the same.
BuildServers ==
  /\ IF "SERVER_RPC_TIMEOUT" \notin bad
     THEN GoOn("servers", "http") ELSE Unwind("servers", "panic")
  /\ UNCHANGED <<vars, bad, expired, mongo, bound, database>>

\* Listen with bootCtx, which it need not look at.  The port may be in use.
ListenHttp ==
  /\ \/ GoOn("http", "grpc") /\ bound' = bound \cup {"http"}
     \/ Unwind("http", "error") /\ UNCHANGED bound
  /\ UNCHANGED <<vars, bad, expired, mongo, database>>

\* After the second port nothing reads bootCtx any more.
ListenGrpc ==
  /\ \/ GoOn("grpc", "serve") /\ bound' = bound \cup {"grpc"} /\ expired' = FALSE
     \/ Unwind("grpc", "error") /\ UNCHANGED <<bound, expired>>
  /\ UNCHANGED <<vars, bad, mongo, database>>

BootStep ==
  \/ MustLoad \/ NotifyContext \/ Connect \/ Ping \/ EnsureUsers \/ EnsureRefresh
  \/ BuildCore \/ BuildServers \/ ListenHttp \/ ListenGrpc

BootTimeout ==
  /\ step \in Booting
  /\ expired' = TRUE
  /\ UNCHANGED <<vars, step, bad, mongo, bound, database, end>>

\* Until NotifyContext a signal ends the process; during boot it ends bootCtx.
SignalAtBoot ==
  \/ /\ \/ Leave("load", "killed")
        \/ Leave("watch", "killed")
     /\ UNCHANGED <<vars, bad, expired, mongo, bound, database>>
  \/ /\ step \in Booting \cup {"closing"} /\ process = "up"
     /\ Signal
     /\ UNCHANGED bootVars

\* Another replica boots and builds its indexes.
OtherReplica ==
  /\ \E c \in Collection : BuildIndexes(c)
  /\ UNCHANGED <<vars, step, bad, expired, mongo, bound, end>>

-----------------------------------------------------------------------------
Serving == step = "serve" /\ Next /\ UNCHANGED bootVars

\* Mutant: closeStore is tied to the signal, not to serve's return.
ServeReturnedOnSignal ==
  /\ Unwind("serve", "clean") /\ ctx
  /\ UNCHANGED <<vars, bad, expired, mongo, bound, database>>

\* serve returns to run, unless time.NewTicker has panicked in the worker's own
\* goroutine, upon which nothing that run deferred is called.
ServeReturned ==
  /\ IF "USER_COUNT_INTERVAL" \in bad
     THEN Leave("serve", "panic")
     ELSE /\ process = "exited"
          /\ Unwind("serve", IF failed = {} THEN "clean" ELSE "error")
  /\ UNCHANGED <<vars, bad, expired, mongo, bound, database>>

\* closeStore, closeFn or Connect's own Disconnect: a failure is only logged.
Disconnect ==
  /\ GoOn("closing", "over")
  /\ mongo' = "closed"
  /\ UNCHANGED <<vars, bad, expired, bound, database>>

ProcessNext ==
  \/ BootStep \/ BootTimeout \/ SignalAtBoot \/ OtherReplica
  \/ Serving \/ ServeReturned
  \/ Disconnect

ProcessSpec == ProcessInit /\ [][ProcessNext]_allVars

While(A) == step = "serve" /\ process = "up" /\ A

(* Each call of boot ends: those to MongoDB by bootTimeout, Disconnect by its own
   bound; whether it succeeds is not assumed.  While serving goroutines run on,
   time passes, the balancer probes and its requests arrive.  The worker meets a
   closed ctx.Done() at every select, and the select does not prefer the ticker
   for ever: strong fairness.  No request need be answered. *)
ProcessFairness ==
  /\ WF_allVars(BootStep)
  /\ WF_allVars(ServeReturned)
  /\ WF_allVars(Disconnect)
  /\ WF_vars(While(GateStep))
  /\ WF_vars(While(DrainForElapses))
  /\ \A x \in Transport : WF_vars(While(Probe(x))) /\ WF_vars(While(ServeReturns(x)))
  /\ \A r \in Request : WF_vars(While(Arrive(r)))
  /\ WF_vars(While(WorkerCounted))
  /\ SF_vars(While(WorkerStops))
  /\ WF_vars(While(Exit))

FairProcessSpec == ProcessSpec /\ ProcessFairness

-----------------------------------------------------------------------------
(* "All before the port accepts requests, because the unique index is the source
   of truth for email uniqueness" (storage.go): whatever failed on the way and
   whoever built them, a process whose ports are open has its indexes. *)
PortsOpenOnIndexes == bound # {} => indexes = Collection

(* A request always finds the connection open: no way out closes it under one. *)
RequestsHaveMongo ==
  \A r \in Request : request[r] = "running" => mongo = "open"

(* Whichever step fails, returns early or panics, the connection is closed before
   the process is over. *)
NothingLeftOpen == step = "over" => mongo # "open"

(* A setting that no constructor can use panics "before the port ever opens"
   (main.go): what validate lets through is never found by a goroutine of serve. *)
PanicsBeforePorts == end = "panic" => bound = {}

(* A signal, at any step of boot or of serving, and the failure of a server end
   the process, though no request is ever answered. *)
ShutdownEnds == ctx ~> step = "over"
=============================================================================
