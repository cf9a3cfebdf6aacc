----------------------------- MODULE MCDebrief -----------------------------
(***************************************************************************)
(* Debrief for TLC.  Attempts, dates and texts are interchangeable.        *)
(***************************************************************************)
EXTENDS Debrief, TLC

AnyNaming == Permutations(Runs) \cup Permutations(Dates) \cup Permutations(Texts)
=============================================================================
