SPECIFICATION Spec
CONSTANTS
  Procs = {p1, p2}
  Last = 3
  Rebuilds = {2}
  Unique = 3
  Names = {fine, blank}
  Blank = {blank}
  Days = {d1, d2}
  Unset = unset
  MaxRows = 3
INVARIANTS TypeOK ReadyMeansMigrated OneSummary
PROPERTY LostToCleanUpOnly
CHECK_DEADLOCK FALSE
