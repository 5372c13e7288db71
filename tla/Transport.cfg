\* Every request and outcome, carried by both adapters.
SPECIFICATION Spec
CONSTANTS
  None = None
  Subject = {u1, u2}
SYMMETRY Symmetry
INVARIANTS SameVerdict LoggedAsAnswered CallerIsOnTheLine FailureIsTraceable OnlyVerified
PROPERTIES ImplementsContract
\* A call that has been answered is over.
CHECK_DEADLOCK FALSE
