SPECIFICATION Spec
CONSTANTS
  Debriefs = {r1}
  Replays = {x1, x2}
  Dates = {d1}
  Texts = {t1, t2}
  MaxEvents = 1
  MaxInFlight = 1
  MaxActions = 1
  Estimates = {1}
  Costs = {1}
  Caps = {1}
  LowestEstimate = 1
  HighestCost = 1
  HighestCap = 1
  Redacted = redacted
  NoText = none
SYMMETRY AnyNaming
INVARIANTS
  TypeOK
  ErasedStaysErased
  ReplayBilledOnce
  WholeExtracts
PROPERTIES
  SummaryLife
  SummaryOutlivesReplays
CHECK_DEADLOCK FALSE
