SPECIFICATION Spec
CONSTANTS
  Calls = {c1, c2, c3, c4}
  MaxInFlight = 3
  Estimates = {2, 4}
  Costs = {0, 1, 5}
  Caps = {6, 10}
  LowestEstimate = 2
  HighestCost = 5
  HighestCap = 10
INVARIANT SpendBound
