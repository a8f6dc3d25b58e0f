\* One tab, requests for one or both of two scopes.  No symmetry: TLC's symmetry
\* reduction is not sound for liveness.
SPECIFICATION FairSpec
CONSTANTS
  Tab = {t1}
  User = {u1}
  Scope = {a, b}
  Asks <- MixedAsks
  Client = {app}
  Session = {s1, s2}
  BrowserOf <- OneBrowser
  Browser = {browser}
  None = None
  app = app
  a = a
  browser = browser
  b = b
CHECK_DEADLOCK FALSE
INVARIANTS
  ApprovalInv
  NothingBeyondApproval
  SilentRequestsShowNothing
  ReturnFromSignInIsFinal
PROPERTY
  EveryFlowEnds
