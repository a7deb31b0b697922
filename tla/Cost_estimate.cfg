\* Four events over five hours and any division of them into months.
SPECIFICATION Spec
CONSTANTS
  MaxTime = 5
  MaxEvents = 4
  MayFail = TRUE
  None = None
INVARIANTS TypeOK NeverMoreThanElapsed MonthExact
CHECK_DEADLOCK FALSE
