----------------------------- MODULE MCCapture -----------------------------
(***************************************************************************)
(* Capture for TLC.  Imports, items, what identifies them, and texts are   *)
(* each interchangeable.                                                   *)
(***************************************************************************)
EXTENDS Capture, TLC

AnyNaming ==
  Permutations(Imports) \cup Permutations(Items) \cup Permutations(Keys)
    \cup Permutations(Texts)
=============================================================================
