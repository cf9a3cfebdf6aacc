SPECIFICATION CallsSpec
CONSTANTS
  Calls = {c1, c2}
  Commands = {m1}
  Goals = {g1}
  NoGoal = NoGoal
INVARIANTS OneEnding AnswersAreTrue
PROPERTIES EveryRequestSettles
CHECK_DEADLOCK FALSE
