\* Two tabs, two developers, a limit of one application, ids for two.
SPECIFICATION Spec
CONSTANTS
  Tab = {t1, t2}
  User = {u1, u2}
  App = {a1, a2}
  Secret = {s1, s2, s3}
  Details = {d1, d2}
  Limit = 1
  None = None
CHECK_DEADLOCK FALSE
SYMMETRY Symmetry
INVARIANTS
  PortalInv
  LimitOvershootIsBounded
  CurrentSecretIsKnown
PROPERTIES
  SecretsMoveForward
  OnlyTheOwnerChanges
