SPECIFICATION FairSpec
CONSTANTS
  r1 = r1  r2 = r2  h1 = h1  h2 = h2
  NoRun = NoRun  NoHandler = NoHandler
  Run = {r1, r2}
  Handler = {h1, h2}
  TTL = {1}
  StaleReads = TRUE
  MaxClock = 1
  MaxCalls = 2
PROPERTY CallsReturn
