SPECIFICATION FairSpec
CONSTANTS
  Starts = {p1, p2}
  Stops = {s1}
  Ghost = Ghost
  NoFile = NoFile
  Zero = Zero
  Garbage = Garbage
INVARIANTS ServesAlone
PROPERTIES LeftoversDoNotBlock AskedDaemonEnds
CHECK_DEADLOCK FALSE
