SPECIFICATION FairSpec
CONSTANTS
  Runs = {r1, r2}
  Dates = {d1, d2}
  Texts = {t1}
  MaxEvents = 2
  MaxInFlight = 2
  Estimates = {2}
  Costs = {2}
  Caps = {3}
  LowestEstimate = 2
  HighestCost = 2
  HighestCap = 3
PROPERTIES
  AttemptsEnd
  FinishedLoopGetsSummary
CHECK_DEADLOCK FALSE
