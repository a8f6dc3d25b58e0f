\* Two tabs of one browser, which is closed and reopened at most once; one mailbox
\* in two spellings, two passwords.  No symmetry: TLC does not support it for
\* liveness.
SPECIFICATION FairSpec
CONSTANTS
  b1 = b1
  a1 = a1
  p1 = p1
  p2 = p2
  Tab = {t1, t2}
  Browser = {b1}
  BrowserOf <- OneBrowser
  Address = {a1}
  Password = {p1, p2}
  Forms <- MixedForms
  MaxCookies = 8
  MaxRestarts = 1
  None = None
INVARIANTS
  OneAccountPerMailbox
  SignedInWithItsPassword
PROPERTIES
  OpenTabsKeepWorking
  SpellingsMeet
  TryingAgainHelps
