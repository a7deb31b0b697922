\* Two tiers, one repo with two apps, two requests at a time that may fail.
SPECIFICATION Spec
CONSTANTS
  small = small  large = large  a1 = a1  a2 = a2  r1 = r1
  TierNames = {small, large}
  Builtin <- TwoTiers
  Fallback = small
  Repos = {r1}
  Apps = {a1, a2}
  RepoOf <- OneRepo
  MaxApps = {1, 2}
  Limits = {1, 2}
  Baseline = 1
  Reqs = {q1, q2}
  MaxReqs = 4
  MayFail = TRUE
  None = None
SYMMETRY Symmetry
INVARIANTS TypeOK OneDefault TiersInUseExist
PROPERTIES NewAppWithinQuota EditsReachNamespaces
CHECK_DEADLOCK FALSE
