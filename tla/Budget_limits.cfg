\* One app of one repo, two billing periods, one PATCH, one fault.
SPECIFICATION FairSpec
CONSTANTS
  Apps = {a1}
  Repos = {r1}
  RepoOf <- OneRepo
  Ceilings = {1, 2}
  SoftPcts = {50}
  HardPcts = {100}
  MaxSpend = 1
  MaxPeriod = 2
  MaxPatches = 1
  MaxFaults = 1
  None = None
INVARIANTS TypeOK 
PROPERTIES LimitsConverge
