SPECIFICATION FairSpec
CONSTANTS
  Runs = {r1, r2, r3}
  DaemonRuns = {r1, r2}
  Daemon = Daemon
  Dates = {d1}
  Limits = {1}
  HighestLimit = 1
  MaxInFlight = 2
  Estimates = {2}
  Costs = {7}
  Caps = {3, 10}
  LowestEstimate = 2
  HighestCost = 7
  HighestCap = 10
INVARIANTS DayLimitBound AlarmNotMissed
PROPERTIES GatedCalls ProposalsEnd
CHECK_DEADLOCK FALSE
