SPECIFICATION Spec
CONSTANTS
  r1 = r1  r2 = r2  h1 = h1  h2 = h2
  NoRun = NoRun  NoHandler = NoHandler
  Run = {r1, r2}
  Handler = {h1, h2}
  TTL = {1}
  StaleReads = FALSE
  MaxClock = 2
  MaxCalls = 4
SYMMETRY Symmetry
INVARIANTS TypeOK FencingOrder OneWritePerVersion EventsFollowWrites
PROPERTIES LeaseNotStolen DeadTokensStayDead ImplementsRegister
