SPECIFICATION FairSpec
CONSTANTS
  NumCores = 2
  Main = Main
  Threads = {Main, t1, t2}
  Priorities = {63}
  Affinities = {DEFAULT_CORE, 1}
  Svcs = {"create", "start", "yield", "exit", "sleep", "wait"}
  MaxAlarms = 2
  MaxRestarts = 1
  DEFAULT_CORE = DEFAULT_CORE
  INVALID = INVALID
INVARIANTS TypeOK RegistersOfCurrent BlockedDoesNotRun QueuedOnce
PROPERTIES RescheduleRunsBest RunsOwnCode IdleCoreWakes SleepsEnd
CHECK_DEADLOCK FALSE
