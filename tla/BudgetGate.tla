---------------------------- MODULE BudgetGate ----------------------------
(***************************************************************************)
(* The pre-call budget gate of tm.llm.cost_meter.CostMeter as its callers  *)
(* use it: check_budget reads the month's total and refuses or lets the    *)
(* call go, the call runs, and record inserts its real cost afterwards.    *)
(* Nothing is reserved in between, so calls that were admitted before      *)
(* either was recorded do not see each other.                              *)
(*                                                                         *)
(* The module is an abstract protocol: Debrief and Scheduler are shown to  *)
(* implement it, and what is proved here about the money holds for both.   *)
(* Amounts are natural numbers of some small unit.                         *)
(***************************************************************************)
EXTENDS Integers, FiniteSets

CONSTANTS Calls,          \* LLM calls that can be under way
          MaxInFlight,    \* how many of them are under way at once, at most
          Estimates,      \* what a caller may estimate before its call
          Costs,          \* what the call may turn out to cost
          Caps            \* monthly caps in force: each meter has its own

CONSTANTS LowestEstimate, HighestCost, HighestCap

ASSUME GateAssumption ==
  /\ MaxInFlight \in Nat
  /\ Estimates \subseteq Nat /\ Costs \subseteq Nat /\ Caps \subseteq Nat
  /\ LowestEstimate \in Nat /\ \A e \in Estimates : LowestEstimate <= e
  /\ HighestCost \in Nat /\ \A k \in Costs : k <= HighestCost
  /\ HighestCap \in Nat /\ \A cap \in Caps : cap <= HighestCap

VARIABLES spent,          \* SUM(est_cost_usd) of this month's ledger rows
          admitted        \* calls let through and neither charged nor given up

vars == <<spent, admitted>>

TypeOK == spent \in Nat /\ admitted \subseteq Calls

Init == spent = 0 /\ admitted = {}

(* A slip, no part of Next: a call may be charged again after it was. *)
ChargeRepeats(c) ==
  /\ c \in admitted
  /\ \E k \in Costs : spent' = spent + k
  /\ UNCHANGED admitted

(* check_budget, when it lets the call go; a refusal changes nothing. *)
Admit(c) ==
  /\ c \notin admitted
  /\ Cardinality(admitted) < MaxInFlight
  /\ \E e \in Estimates, cap \in Caps : spent + e <= cap
  /\ admitted' = admitted \cup {c}
  /\ UNCHANGED spent

(* record: the row is inserted whatever the total has become meanwhile. *)
Charge(c) ==
  /\ c \in admitted
  /\ \E k \in Costs : spent' = spent + k
  /\ admitted' = admitted \ {c}

(* A call failed or its answer was refused, or a process died and took the  *)
(* calls of all its threads with it.                                        *)
Abandon(gone) ==
  /\ gone # {} /\ gone \subseteq admitted
  /\ admitted' = admitted \ gone
  /\ UNCHANGED spent

(* monthly_total counts from the first instant of the current UTC month. *)
MonthRolls ==
  /\ spent > 0
  /\ spent' = 0
  /\ UNCHANGED admitted

Next ==
  \/ \E c \in Calls : Admit(c) \/ Charge(c)
  \/ \E gone \in SUBSET admitted : Abandon(gone)
  \/ MonthRolls

Spec == Init /\ [][Next]_vars

-----------------------------------------------------------------------------
(* The month's ledger may pass the cap, but by no more than what the calls  *)
(* admitted side by side can add: check_budget (cost_meter.py) holds each   *)
(* new call against what was already recorded.                              *)
SpendBound ==
  \/ spent = 0
  \/ spent <= HighestCap - LowestEstimate + MaxInFlight * HighestCost

(* The stronger fact that is inductive: every admitted call may still add   *)
(* HighestCost to the ledger, so its share of the bound is set aside.       *)
GateInv ==
  \/ spent = 0 /\ admitted = {}
  \/ spent + Cardinality(admitted) * HighestCost
       <= HighestCap - LowestEstimate + MaxInFlight * HighestCost

(* "The command refuses to run if cumulative monthly spend would exceed     *)
(* this" (debrief.py --monthly-cap-usd).  It holds of calls made one at a   *)
(* time, and not of calls side by side.                                     *)
CapHolds == spent <= HighestCap
=============================================================================
