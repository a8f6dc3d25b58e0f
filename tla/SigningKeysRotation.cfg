\* The instance of SigningKeys.cfg without stops of the command, for the one property
\* that a replica restarted between the first two steps of a rotation violates.
SPECIFICATION Spec
CONSTANTS
  Replica = {r1, r2}
  Verifier = {v1}
  Job = {j1}
  LastKid = 2
  MaxAge = 1
  Lifetime = 3
  Deaths = 0
CHECK_DEADLOCK FALSE
INVARIANTS
  TokensVerifyUntilTheyExpire
