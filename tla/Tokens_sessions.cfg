\* A browser and a command line, two people, two requests at a time.
SPECIFICATION Spec
CONSTANTS
  People = {p1, p2}
  Browsers = {b1}
  Profiles = {c1}
  Patches <- UpAndDown
  Reqs = {q1, q2}
  MaxReqs = 4
  MaxTokens = 3
  MaxDeploys = 2
  MaxExpired = 1
  MayFail = TRUE
  None = None
SYMMETRY Symmetry
INVARIANTS TypeOK ExchangedOnce  RoleIsCurrent NeverLockedOut
CHECK_DEADLOCK FALSE
