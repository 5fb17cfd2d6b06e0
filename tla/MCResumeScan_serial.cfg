SPECIFICATION Spec
CONSTANTS
  r1 = r1  r2 = r2  a = a  b = b
  NoRun = NoRun  NoEntry = NoEntry
  Run = {r1}
  Manifest <- TwoTasks
  TaskOf <- Names
  DependsOn <- BAfterA
  Phases = 2
  Lanes = FALSE
  Handoffs = FALSE
  Duration = 1
  MaxClock = 1
  MaxGrants = 2
  MaxRenewals = 0
  MaxFaults = 1
INVARIANTS GateIsSound TargetSkipsNothing
