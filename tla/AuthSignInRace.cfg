\* Two tabs of one browser signing in at the same time.
SPECIFICATION Spec
CONSTANTS
  Tab = {t1, t2}
  User = {u1}
  Scope = {a, b}
  Asks <- TwoAsks
  Client = {app}
  Session = {s1, s2}
  BrowserOf <- OneBrowser
  Browser = {browser}
  None = None
  app = app
  a = a
  browser = browser
  b = b
CHECK_DEADLOCK FALSE
SYMMETRY Symmetry
PROPERTY
  ReplacedSessionIsOver
