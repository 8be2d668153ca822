SPECIFICATION Spec
CONSTANTS
  NoSession = NoSession
  Sessions = {s1, s2}
  Calls = {c1, c2, c3}
  MaxBrowsers = 2
  MaxTabs = 1
SYMMETRY Symmetric
INVARIANTS NoStrayChrome ScreenshotsAccounted
CHECK_DEADLOCK FALSE
