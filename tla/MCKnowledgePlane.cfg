SPECIFICATION Spec
CONSTANTS
  c1 = c1  c2 = c2  d1 = d1  d2 = d2  Job = Job
  Conv = {c1, c2}
  Editor <- Editors
  Dor = {d1, d2}
  Cli <- User
  MaxClock = 1
  MaxKinds = 1
  MaxPrompts = 2
  MaxOps = 3
  MaxTrouble = 2
SYMMETRY Symmetry
CHECK_DEADLOCK FALSE
INVARIANTS ShownCanBeRead VersionsAreOrdered AckedJobMadeAll TurnsAreKept EventsAreKept
