SPECIFICATION Spec
CONSTANTS
  q1 = q1 q2 = q2 q3 = q3
  Reqs = {q1, q2, q3}
  MaxConns = 2
INVARIANTS TypeOK PendingIsUnsettled OwnAnswer
PROPERTY FailFast
CHECK_DEADLOCK FALSE
