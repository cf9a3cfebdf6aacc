-------------------------- MODULE BudgetGate_proofs --------------------------
(***************************************************************************)
(* The spending bound of BudgetGate for every number of calls, every cap   *)
(* and every price list.                                                   *)
(***************************************************************************)
EXTENDS BudgetGate, FiniteSetTheorems, TLAPS

(* The set of admitted calls stays within MaxInFlight, so its cardinality   *)
(* is a number the invariant can multiply.                                  *)
FewAdmitted ==
  IsFiniteSet(admitted) /\ Cardinality(admitted) <= MaxInFlight

IInv == TypeOK /\ FewAdmitted /\ GateInv

(* Setting one call more aside costs exactly one HighestCost. *)
LEMMA OneMoreShare ==
  ASSUME NEW n \in Int, NEW k \in Int
  PROVE  (n + 1) * k = n * k + k /\ (n - 1) * k = n * k - k
  BY SMT

(* Shares are monotonic in the number of calls. *)
LEMMA FewerShares ==
  ASSUME NEW n \in Nat, NEW m \in Nat, NEW k \in Nat, n <= m
  PROVE  n * k <= m * k
  BY SMT

(* The ledger and the admitted set keep their types (cost_meter.py). *)
THEOREM TypeCorrect == Spec => []TypeOK
<1>1. Init => TypeOK
  BY DEF Init, TypeOK
<1>2. TypeOK /\ [Next]_vars => TypeOK'
  BY GateAssumption
  DEF TypeOK, Next, Admit, Charge, Abandon, MonthRolls, vars
<1>3. QED
  BY <1>1, <1>2, PTL DEF Spec

(* Letting a call go keeps the invariant: the check left an estimate of     *)
(* room under a cap, and at most MaxInFlight calls share the rest.          *)
LEMMA AdmitKeepsIInv ==
  ASSUME IInv, NEW c \in Calls, Admit(c)
  PROVE  IInv'
<1> DEFINE n == Cardinality(admitted)
<1>1. /\ n \in Nat /\ n < MaxInFlight
      /\ IsFiniteSet(admitted') /\ Cardinality(admitted') = n + 1
  BY FS_CardinalityType, FS_AddElement DEF Admit, IInv, FewAdmitted
<1>2. spent <= HighestCap - LowestEstimate
  <2>1. PICK e \in Estimates, cap \in Caps : spent + e <= cap
    BY DEF Admit
  <2>2. QED
    BY <2>1, GateAssumption DEF IInv, TypeOK
<1>3. (n + 1) * HighestCost <= MaxInFlight * HighestCost
  <2>1. n + 1 \in Nat /\ n + 1 <= MaxInFlight
    BY <1>1, GateAssumption
  <2>2. QED
    BY <2>1, FewerShares, GateAssumption
<1>4. GateInv'
  <2>1. /\ (n + 1) * HighestCost \in Int
        /\ MaxInFlight * HighestCost \in Int
    BY <1>1, GateAssumption
  <2>2. spent' + Cardinality(admitted') * HighestCost
          <= HighestCap - LowestEstimate + MaxInFlight * HighestCost
    BY <1>1, <1>2, <1>3, <2>1, GateAssumption DEF Admit, IInv, TypeOK
  <2>3. QED
    BY <2>2 DEF GateInv
<1>5. TypeOK' /\ FewAdmitted'
  BY <1>1, GateAssumption DEF Admit, IInv, TypeOK, FewAdmitted
<1>6. QED
  BY <1>4, <1>5 DEF IInv

(* A charged call gives back one share and spends at most that share.       *)
LEMMA ChargeKeepsIInv ==
  ASSUME IInv, NEW c \in Calls, Charge(c)
  PROVE  IInv'
<1> DEFINE n == Cardinality(admitted)
<1>1. /\ n \in Nat /\ n <= MaxInFlight
      /\ IsFiniteSet(admitted') /\ Cardinality(admitted') = n - 1
  BY FS_CardinalityType, FS_RemoveElement DEF Charge, IInv, FewAdmitted
<1>2. spent' \in Nat /\ spent' <= spent + HighestCost
  BY GateAssumption DEF Charge, IInv, TypeOK
<1>3. (n - 1) * HighestCost = n * HighestCost - HighestCost
  BY <1>1, OneMoreShare, GateAssumption
<1>4. admitted # {}
  BY DEF Charge
<1>5. GateInv'
  <2>1. spent + n * HighestCost
          <= HighestCap - LowestEstimate + MaxInFlight * HighestCost
    BY <1>4 DEF IInv, GateInv
  <2>2. /\ n * HighestCost \in Int /\ MaxInFlight * HighestCost \in Int
        /\ spent \in Int
    BY <1>1, GateAssumption DEF IInv, TypeOK
  <2>3. spent' + (n - 1) * HighestCost
          <= HighestCap - LowestEstimate + MaxInFlight * HighestCost
    BY <1>2, <1>3, <2>1, <2>2, GateAssumption
  <2>4. QED
    BY <2>3, <1>1 DEF GateInv
<1>6. TypeOK' /\ FewAdmitted'
  BY <1>1, <1>2, GateAssumption DEF Charge, IInv, TypeOK, FewAdmitted
<1>7. QED
  BY <1>5, <1>6 DEF IInv

(* Abandoned calls give their shares back and spend nothing. *)
LEMMA AbandonKeepsIInv ==
  ASSUME IInv, NEW gone, Abandon(gone)
  PROVE  IInv'
<1> DEFINE n == Cardinality(admitted)
           m == Cardinality(admitted')
<1>1. /\ IsFiniteSet(admitted') /\ n \in Nat /\ m \in Nat
      /\ m <= n /\ n <= MaxInFlight
  <2>1. admitted' \subseteq admitted /\ IsFiniteSet(admitted)
    BY DEF Abandon, IInv, FewAdmitted
  <2>2. IsFiniteSet(admitted') /\ m <= n
    BY <2>1, FS_Subset
  <2>3. QED
    BY <2>1, <2>2, FS_CardinalityType DEF IInv, FewAdmitted
<1>2. m * HighestCost <= n * HighestCost
  BY <1>1, FewerShares, GateAssumption
<1>3. /\ n * HighestCost \in Int /\ m * HighestCost \in Int
      /\ MaxInFlight * HighestCost \in Int
  BY <1>1, GateAssumption
<1>4. spent + n * HighestCost
        <= HighestCap - LowestEstimate + MaxInFlight * HighestCost
  BY DEF Abandon, IInv, GateInv
<1>5. GateInv'
  BY <1>2, <1>3, <1>4, GateAssumption DEF Abandon, GateInv, IInv, TypeOK
<1>6. TypeOK' /\ FewAdmitted'
  BY <1>1, GateAssumption DEF Abandon, IInv, TypeOK, FewAdmitted
<1>7. QED
  BY <1>5, <1>6 DEF IInv

(* IInv is inductive. *)
LEMMA IInvInductive == IInv /\ [Next]_vars => IInv'
<1> SUFFICES ASSUME IInv, [Next]_vars PROVE IInv'
  OBVIOUS
<1>1. ASSUME NEW c \in Calls, Admit(c) PROVE IInv'
  BY <1>1, AdmitKeepsIInv
<1>2. ASSUME NEW c \in Calls, Charge(c) PROVE IInv'
  BY <1>2, ChargeKeepsIInv
<1>3. CASE MonthRolls
  <2>1. /\ Cardinality(admitted) * HighestCost \in Int
        /\ MaxInFlight * HighestCost \in Int
    BY FS_CardinalityType, GateAssumption DEF IInv, FewAdmitted
  <2>2. GateInv'
    BY <1>3, <2>1, GateAssumption DEF MonthRolls, IInv, GateInv, TypeOK
  <2>3. QED
    BY <1>3, <2>2 DEF MonthRolls, IInv, TypeOK, FewAdmitted
<1>4. CASE UNCHANGED vars
  BY <1>4 DEF vars, IInv, TypeOK, FewAdmitted, GateInv
<1>5. ASSUME NEW gone \in SUBSET admitted, Abandon(gone) PROVE IInv'
  BY <1>5, AbandonKeepsIInv
<1>6. QED
  BY <1>1, <1>2, <1>3, <1>4, <1>5 DEF Next

(* IInv holds when nothing is admitted, whatever the constants are. *)
LEMMA IInvInit == Init => IInv
  BY FS_EmptySet, GateAssumption DEF Init, IInv, TypeOK, FewAdmitted, GateInv

(* The month's ledger passes the cap by no more than what MaxInFlight calls *)
(* admitted side by side can add (CostMeter.check_budget / record).         *)
THEOREM Overspend == Spec => []SpendBound
<1>1. IInv => SpendBound
  <2> SUFFICES ASSUME IInv PROVE SpendBound
    OBVIOUS
  <2>1. CASE admitted = {} /\ spent = 0
    BY <2>1 DEF SpendBound
  <2>2. CASE spent + Cardinality(admitted) * HighestCost
               <= HighestCap - LowestEstimate + MaxInFlight * HighestCost
    <3>1. /\ Cardinality(admitted) \in Nat
          /\ MaxInFlight * HighestCost \in Int
      BY FS_CardinalityType, GateAssumption DEF IInv, FewAdmitted
    <3>2. 0 * HighestCost <= Cardinality(admitted) * HighestCost
      BY <3>1, FewerShares, GateAssumption
    <3>3. /\ 0 <= Cardinality(admitted) * HighestCost
          /\ Cardinality(admitted) * HighestCost \in Int
      BY <3>1, <3>2, GateAssumption
    <3>4. QED
      BY <2>2, <3>1, <3>3, GateAssumption DEF SpendBound, IInv, TypeOK
  <2>3. QED
    BY <2>1, <2>2 DEF IInv, GateInv
<1>2. QED
  BY <1>1, IInvInit, IInvInductive, PTL DEF Spec

(* One call at a time, each estimated at no less than it costs, never       *)
(* passes the cap: what check_budget promises is true without concurrency.  *)
THEOREM SequentialCap ==
  ASSUME MaxInFlight = 1, HighestCost <= LowestEstimate
  PROVE  Spec => []CapHolds
<1>1. SpendBound /\ TypeOK => CapHolds
  BY GateAssumption DEF SpendBound, CapHolds, TypeOK
<1>2. QED
  BY <1>1, Overspend, TypeCorrect, PTL
=============================================================================
