SPECIFICATION FairSpec
CONSTANTS
  NumCores = 2
  Main = Main
  Threads = {Main, t1, t2}
  Priorities = {0}
  Affinities = {0, 1}
  Svcs = {"create", "start", "yield", "exit"}
  MaxAlarms = 3
  MaxRestarts = 0
  DEFAULT_CORE = DEFAULT_CORE
  INVALID = INVALID
PROPERTIES YieldReturns
CHECK_DEADLOCK FALSE
