\* Two replicas, a verifier, ids for a rotation and for a run of the command that
\* is stopped half way.  A tick is five minutes: the JWKS is fresh for one, a token
\* lives for three.  No symmetry: TLC does not support it for liveness.
SPECIFICATION FairSpec
CONSTANTS
  Replica = {r1, r2}
  Verifier = {v1}
  Job = {j1}
  LastKid = 3
  MaxAge = 1
  Lifetime = 3
  Deaths = 1
CHECK_DEADLOCK FALSE
INVARIANTS
  OnlyEarlyTokensFail
  RestartsAreNotRefused
PROPERTIES
  ReplicasComeBack
  RotationsEnd
