SPECIFICATION VocabSpec
CONSTANTS
  Debriefs = {d1, d2}
  Reviews = {v1}
  Seeders = {s1}
  Words = {w1, w2}
  Starters = {w1}
  StarterVariant = w2
  StarterTarget = w1
  NoWord = none
INVARIANTS
  OneHop
  NothingInvented
  AnsweredIsAligned
CHECK_DEADLOCK FALSE
