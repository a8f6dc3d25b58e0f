\* Every authorization request with at most two unusual parameters, in every session
\* state, and every token or revocation request: two confidential clients, so that
\* one may present the other's secret.
SPECIFICATION BothSpec
CONSTANTS
  Usual <- UsualRequest
  Deviation <- Deviations
  RefreshScope <- RefreshScopes
  MaxLost = 2
  None = None
  Confidential = {c1, c2}
  Public = {p1}
  Inactive = {i1}
  Unknown = {u1}
  Garbled = Garbled
CHECK_DEADLOCK FALSE
INVARIANTS
  TokensAreForTheRequest
  ScopesAreAsNamed
  PromisesAreKept
  AnswersAreAddressed
  SignInIsAskedOnce
  TakenForItsSender
  FailuresAreAlike
PROPERTIES
  OnlyTheUserCanStillRefuse
