\* Fair goroutines and a working cluster.
SPECIFICATION FairSpec
CONSTANTS
  app1 = app1  app2 = app2  app3 = app3  op1 = op1  op2 = op2  op3 = op3
  wk1 = wk1  wk2 = wk2  good1 = good1  good2 = good2  bad = bad
  Apps = {app1}
  AppType <- OneHttp
  Ops = {op1, op2}
  Wakers = {wk1}
  IdleWatcher = IdleWatcher
  BudgetWatcher = BudgetWatcher
  Watchers = {IdleWatcher}
  Images = {good1}
  Startable = {good1}
  None = None
  Exclusive = TRUE
  KubeMayFail = FALSE
  MayCrash = FALSE
PROPERTIES OperationsEnd WakesEnd IdleAppHibernates
CHECK_DEADLOCK FALSE
