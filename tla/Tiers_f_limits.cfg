\* One request at a time and no failures: a deploy applies the small baseline.
SPECIFICATION Spec
CONSTANTS
  small = small  large = large  a1 = a1  a2 = a2  r1 = r1
  TierNames = {small, large}
  Builtin <- TwoTiers
  Fallback = small
  Repos = {r1}
  Apps = {a1, a2}
  RepoOf <- OneRepo
  MaxApps = {1, 2}
  Limits = {1, 2}
  Baseline = 1
  Reqs = {q1}
  MaxReqs = 4
  MayFail = FALSE
  None = None
INVARIANT NamespaceHasTierLimits
CHECK_DEADLOCK FALSE
