\* RPCs that are still running when the last HTTP request is answered.
SPECIFICATION Spec
CONSTANTS
  HttpReq = {h1}
  GrpcReq = {g1}
SYMMETRY Symmetry
INVARIANTS EveryoneHasTheWindow
\* A process that has exited does nothing more.
CHECK_DEADLOCK FALSE
