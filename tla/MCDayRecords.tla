---------------------------- MODULE MCDayRecords ----------------------------
(***************************************************************************)
(* DayRecords for TLC.  Debriefs, replays, dates and texts are each        *)
(* interchangeable.                                                        *)
(***************************************************************************)
EXTENDS DayRecords, TLC

AnyNaming ==
  Permutations(Debriefs) \cup Permutations(Replays) \cup Permutations(Dates)
    \cup Permutations(Texts)
=============================================================================
