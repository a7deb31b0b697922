\* Two requests through the wake proxy, both watchers and an operation
\* overlap on one app; any Kubernetes call may fail, the process may crash.
SPECIFICATION Spec
CONSTANTS
  app1 = app1  app2 = app2  app3 = app3  op1 = op1  op2 = op2  op3 = op3
  wk1 = wk1  wk2 = wk2  good1 = good1  good2 = good2  bad = bad
  Apps = {app1}
  AppType <- OneHttp
  Ops = {op1}
  Wakers = {wk1, wk2}
  IdleWatcher = IdleWatcher
  BudgetWatcher = BudgetWatcher
  Watchers = {IdleWatcher, BudgetWatcher}
  Images = {good1}
  Startable = {good1}
  None = None
  Exclusive = FALSE
  KubeMayFail = TRUE
  MayCrash = TRUE
SYMMETRY Symmetry
INVARIANTS TypeOK  WakingNowExact
PROPERTIES TerminalIsFinal
CHECK_DEADLOCK FALSE
