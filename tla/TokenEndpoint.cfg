\* Two handlers, the two roles of a client, one code, ids for two refresh tokens
\* and an access token that lives for one tick.
SPECIFICATION AccessSpec
CONSTANTS
  Request = {p1, p2}
  Client = {app, other}
  Code = {c1}
  Token = {t1, t2}
  None = None
  Lifetime = 1
CHECK_DEADLOCK FALSE
SYMMETRY Symmetry
INVARIANTS
  IInv
  NothingOutlivesItsClient
  RefusedCodeIsSpent
  DeliveredTokensAreStored
  EndedGrantsFade
PROPERTY
  CodeIsRedeemedOnce
