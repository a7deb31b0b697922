\* One app, one period, no fault: the limit is hit while a wake is under way.
SPECIFICATION FairSpec
CONSTANTS
  Apps = {a1}
  Repos = {r1}
  RepoOf <- OneRepo
  Ceilings = {1}
  SoftPcts = {50}
  HardPcts = {100}
  MaxSpend = 1
  MaxPeriod = 1
  MaxPatches = 0
  MaxFaults = 0
  None = None
PROPERTIES HardLimitStopsApps
