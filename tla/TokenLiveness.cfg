\* Liveness of the lock waits: two handlers, one application, one code and two
\* ids.  No symmetry: TLC's symmetry reduction is not sound for liveness.
SPECIFICATION FairSpec
CONSTANTS
  Request = {p1, p2}
  Client = {app}
  Code = {c1}
  Token = {t1, t2}
  None = None
CHECK_DEADLOCK FALSE
PROPERTY EveryRequestEnds
