SPECIFICATION Spec
CONSTANTS
  r1 = r1  a = a  b = b
  NoRun = NoRun  NoEntry = NoEntry
  Run = {r1}
  Manifest <- TwoEntries
  Phases = 1
  Duration = 1
  MaxClock = 2
  MaxGrants = 2
  MaxRenewals = 2
  MaxScans = 1
  MaxFaults = 1
CHECK_DEADLOCK FALSE
INVARIANT AlertedLeaseIsDead
PROPERTIES CleanScanMissesNothing
