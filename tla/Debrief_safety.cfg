SPECIFICATION Spec
CONSTANTS
  Runs = {r1, r2, r3}
  Dates = {d1}
  Texts = {t1, t2}
  MaxEvents = 2
  MaxInFlight = 3
  Estimates = {2}
  Costs = {1, 2}
  Caps = {3}
  LowestEstimate = 2
  HighestCost = 2
  HighestCap = 3
SYMMETRY AnyNaming
INVARIANTS
  TypeOK
  SuccessHasSummary
  SummaryClosesItsRun
  RowsArePaidFor
  TranscriptIsTheDebriefs
PROPERTIES
  SummaryWrittenOnce
  GatedCalls
CHECK_DEADLOCK FALSE
