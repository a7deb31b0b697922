\* An HTTP app, a worker and a cron app; tasks that do not overlap,
\* Kubernetes errors, no crash.
SPECIFICATION Spec
CONSTANTS
  app1 = app1  app2 = app2  app3 = app3  op1 = op1  op2 = op2  op3 = op3
  wk1 = wk1  wk2 = wk2  good1 = good1  good2 = good2  bad = bad
  Apps = {app1, app2, app3}
  AppType <- OneOfEach
  Ops = {op1, op2}
  Wakers = {wk1}
  IdleWatcher = IdleWatcher
  BudgetWatcher = BudgetWatcher
  Watchers = {IdleWatcher}
  Images = {good1, bad}
  Startable = {good1}
  None = None
  Exclusive = TRUE
  KubeMayFail = TRUE
  MayCrash = FALSE
SYMMETRY Symmetry
INVARIANTS RouteOnlyToScaledUp DeletedMeansGone 
CHECK_DEADLOCK FALSE
