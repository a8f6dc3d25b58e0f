\* Three handlers on one application and one code, with ids for a family of
\* three: three refresh tokens, or three handlers in flight at once.
SPECIFICATION FamilySpec
CONSTANTS
  Request = {p1, p2, p3}
  Client = {app}
  Code = {c1}
  Token = {1, 2, 3}
  None = None
CHECK_DEADLOCK FALSE
SYMMETRY HandlerSymmetry
INVARIANTS
  OneLiveTokenPerCode
  FamilyIsALine
  RevocationReachesItsSnapshot
PROPERTIES
  OnlyLiveTokensRotate
  ImplementsLedger
  RevokedFamilyStaysRevoked
