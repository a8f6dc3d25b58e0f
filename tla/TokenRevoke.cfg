\* A revocation request overlapping a refresh of the same family.
SPECIFICATION Spec
CONSTANTS
  Request = {p1, p2}
  Client = {app}
  Code = {c1}
  Token = {t1, t2}
  None = None
CHECK_DEADLOCK FALSE
SYMMETRY Symmetry
INVARIANT
  RevokeReachesTheFamily
