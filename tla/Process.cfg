\* A process from main to its end, with requests to both ports and a balancer.
SPECIFICATION FairProcessSpec
CONSTANTS
  HttpReq = {h1, h2}
  GrpcReq = {g1, g2}
INVARIANTS NoneRefused HttpHasItsWindow NobodyLeftBehind CleanExitCutNoHttp
INVARIANTS PortsOpenOnIndexes RequestsHaveMongo NothingLeftOpen PanicsBeforePorts
PROPERTIES ShutdownEnds
\* A process that is over does nothing more.
CHECK_DEADLOCK FALSE
