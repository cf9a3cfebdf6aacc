SPECIFICATION Spec
CONSTANTS
  Imports = {p1, p2}
  Notes = {n1}
  Items = {i1, i2}
  Keys = {k1, k2}
  NoKey = NoKey
  Texts = {t1, t2}
  Dates = {d1}
  NoDate = NoDate
SYMMETRY AnyNaming
INVARIANTS
  UsableItemsStored
  RedactedStaysRedacted
  VoiceNoteKept
