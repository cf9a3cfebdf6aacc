--------------------------- MODULE Scheduler_proofs ---------------------------
(***************************************************************************)
(* Proposals for every number of runs, every limit, cap and cost: the      *)
(* bound on a day's suggestions, the alarm that is not missed, and the     *)
(* protocol of BudgetGate.                                                 *)
(***************************************************************************)
EXTENDS Scheduler, FiniteSetTheorems, TLAPS

LEMMA RequestType ==
  ASSUME TypeOK, NEW r \in Runs
  PROVE  /\ request[r].date \in Dates /\ request[r].limit \in Limits
         /\ [run |-> r, date |-> DateOf(r)] \in SuggestionRows
  BY DEF TypeOK, Requests, DateOf, SuggestionRows

LEMMA MeterType ==
  ASSUME NEW r \in Runs
  PROVE  MeterOf(r) \in Meters
  BY DEF MeterOf, Meters

LEMMA TypeInductive == TypeOK /\ [Next]_vars => TypeOK'
<1> SUFFICES ASSUME TypeOK, [Next]_vars
             PROVE  TypeOK'
  OBVIOUS
<1> USE DEF telemetry, meter
<1>1. stage' \in [Runs -> Working \cup Ended \cup {"new"}]
  <2>1. ASSUME NEW r \in Runs, NEW to \in Working \cup Ended,
               stage' = [stage EXCEPT ![r] = to]
        PROVE  stage' \in [Runs -> Working \cup Ended \cup {"new"}]
    BY <2>1 DEF TypeOK
  <2>2. CASE DaemonRestarts
    BY <2>2 DEF DaemonRestarts, TypeOK, Ended
  <2>3. CASE UNCHANGED stage
    BY <2>3 DEF TypeOK
  <2>4. QED
    BY <2>1, <2>2, <2>3
    DEF Next, Proposal, Begin, CountAdmits, CountRefuses, GatherContext,
        ContextEmpty, ContextFails, BudgetAdmits, BudgetRefuses, LlmAnswers,
        LlmFails, RecordCost, AlarmReadsFlag, AlarmReadsTotal, GuardsAccept,
        GuardsReject, LogSuggestion, StoreFails, CommandCrashes, Rate,
        ForgetDay, MonthRolls, vars, Moves, Working, Ended
<1>2. /\ request' \in [Runs -> Requests] /\ caps' \in [Meters -> Caps]
  BY DEF TypeOK, Next, Proposal, Begin, CountAdmits, CountRefuses, GatherContext,
         ContextEmpty, ContextFails, BudgetAdmits, BudgetRefuses, LlmAnswers,
         LlmFails, RecordCost, AlarmReadsFlag, AlarmReadsTotal, GuardsAccept,
         GuardsReject, LogSuggestion, StoreFails, CommandCrashes, Rate,
         ForgetDay, MonthRolls, DaemonRestarts, vars
<1>3. suggestions' \subseteq SuggestionRows /\ rated' \subseteq suggestions'
  <2>1. ASSUME NEW r \in Runs, LogSuggestion(r)
        PROVE  suggestions' \subseteq SuggestionRows /\ rated' \subseteq suggestions'
    BY <2>1, RequestType DEF LogSuggestion, TypeOK
  <2>2. QED
    BY <2>1
    DEF TypeOK, Next, Proposal, Begin, CountAdmits, CountRefuses, GatherContext,
        ContextEmpty, ContextFails, BudgetAdmits, BudgetRefuses, LlmAnswers,
        LlmFails, RecordCost, AlarmReadsFlag, AlarmReadsTotal, GuardsAccept,
        GuardsReject, StoreFails, CommandCrashes, Rate,
        ForgetDay, MonthRolls, DaemonRestarts, RowsOf, vars
<1>4. spent' \in Nat /\ latest' \subseteq Runs /\ fired' \subseteq Meters
  <2>1. ASSUME NEW r \in Runs, RecordCost(r)
        PROVE  spent' \in Nat /\ latest' \subseteq Runs /\ fired' \subseteq Meters
    BY <2>1, SchedulerAssumption DEF RecordCost, TypeOK
  <2>2. ASSUME NEW r \in Runs, AlarmReadsTotal(r)
        PROVE  spent' \in Nat /\ latest' \subseteq Runs /\ fired' \subseteq Meters
    BY <2>2, MeterType DEF AlarmReadsTotal, TypeOK
  <2>3. QED
    BY <2>1, <2>2
    DEF TypeOK, Next, Proposal, Begin, CountAdmits, CountRefuses, GatherContext,
        ContextEmpty, ContextFails, BudgetAdmits, BudgetRefuses, LlmAnswers,
        LlmFails, AlarmReadsFlag, GuardsAccept,
        GuardsReject, LogSuggestion, StoreFails, CommandCrashes, Rate,
        ForgetDay, MonthRolls, DaemonRestarts, vars
<1>5. QED
  BY <1>1, <1>2, <1>3, <1>4 DEF TypeOK

(* Rows, ledger, meters and stages keep their types through every step,     *)
(* restarts of the daemon included.                                         *)
THEOREM TypeCorrect == Spec => []TypeOK
<1>1. Init => TypeOK
  BY DEF Init, TypeOK
<1>2. QED
  BY <1>1, TypeInductive, PTL DEF Spec

-----------------------------------------------------------------------------
(* Begin counts who is under way, and nobody joins them otherwise. *)
FewRunning == IsFiniteSet(Running) /\ Cardinality(Running) <= MaxInFlight

LEMMA FewRunningInductive ==
  ASSUME TypeOK, FewRunning, [Next]_vars
  PROVE  FewRunning'
<1>1. CASE \E r \in Runs : Begin(r)
  <2>1. PICK r \in Runs : Begin(r)
    BY <1>1
  <2>2. Running' = Running \cup {r} /\ r \notin Running
    BY <2>1 DEF Begin, Moves, Running, Working, TypeOK
  <2>3. /\ IsFiniteSet(Running')
        /\ Cardinality(Running') = Cardinality(Running) + 1
    BY <2>2, FS_AddElement DEF FewRunning
  <2>4. Cardinality(Running) < MaxInFlight /\ Cardinality(Running) \in Nat
    BY <2>1, FS_CardinalityType DEF Begin, FewRunning
  <2>5. QED
    BY <2>3, <2>4, SchedulerAssumption DEF FewRunning
<1>2. CASE Running' \subseteq Running
  BY <1>2, FS_Subset, FS_CardinalityType, SchedulerAssumption DEF FewRunning
<1>3. (\E r \in Runs : Begin(r)) \/ Running' \subseteq Running
  BY DEF Next, Proposal, CountAdmits, CountRefuses, GatherContext, ContextEmpty,
         ContextFails, BudgetAdmits, BudgetRefuses, LlmAnswers, LlmFails,
         RecordCost, AlarmReadsFlag, AlarmReadsTotal, GuardsAccept, GuardsReject,
         LogSuggestion, StoreFails, CommandCrashes, DaemonRestarts, Rate,
         ForgetDay, MonthRolls, vars, Moves, Running, Working, TypeOK
<1>4. QED
  BY <1>1, <1>2, <1>3

-----------------------------------------------------------------------------
(* The bound on a day's rows.  A proposal that was let through by the count *)
(* will add a row, so the rows are counted together with the proposals on   *)
(* their way to one.                                                        *)
LetThrough(d) ==
  {r \in Runs : stage[r] \in Working \ {"count"} /\ DateOf(r) = d}

DayInv ==
  /\ IsFiniteSet(suggestions)
  /\ \A d \in Dates :
       \/ RowsOf(d) = {} /\ LetThrough(d) = {}
       \/ /\ HighestLimit > 0
          /\ Cardinality(RowsOf(d)) + Cardinality(LetThrough(d))
               <= HighestLimit - 1 + MaxInFlight

(* Both parts of the sum are numbers. *)
LEMMA DayFinite ==
  ASSUME FewRunning, IsFiniteSet(suggestions), NEW d
  PROVE  /\ IsFiniteSet(RowsOf(d)) /\ IsFiniteSet(LetThrough(d))
         /\ Cardinality(RowsOf(d)) \in Nat /\ Cardinality(LetThrough(d)) \in Nat
         /\ Cardinality(LetThrough(d)) <= Cardinality(Running)
         /\ Cardinality(Running) \in Nat
<1>1. RowsOf(d) \in SUBSET suggestions /\ LetThrough(d) \in SUBSET Running
  BY DEF RowsOf, LetThrough, Running
<1>2. QED
  BY <1>1, FS_Subset, FS_CardinalityType DEF FewRunning

(* Rows and proposals that only go away keep the bound. *)
LEMMA FewerKeepDayInv ==
  ASSUME FewRunning, DayInv, suggestions' \subseteq suggestions,
         \A d \in Dates : LetThrough(d)' \subseteq LetThrough(d)
  PROVE  DayInv'
<1>1. IsFiniteSet(suggestions')
  BY FS_Subset DEF DayInv
<1>2. ASSUME NEW d \in Dates
      PROVE  \/ RowsOf(d)' = {} /\ LetThrough(d)' = {}
             \/ /\ HighestLimit > 0
                /\ Cardinality(RowsOf(d)') + Cardinality(LetThrough(d)')
                     <= HighestLimit - 1 + MaxInFlight
  <2>1. RowsOf(d)' \in SUBSET RowsOf(d) /\ LetThrough(d)' \in SUBSET LetThrough(d)
    BY DEF RowsOf
  <2>2. /\ Cardinality(RowsOf(d)) \in Nat /\ Cardinality(LetThrough(d)) \in Nat
        /\ IsFiniteSet(RowsOf(d)) /\ IsFiniteSet(LetThrough(d))
    BY DayFinite DEF DayInv
  <2>3. /\ Cardinality(RowsOf(d)') <= Cardinality(RowsOf(d))
        /\ Cardinality(LetThrough(d)') <= Cardinality(LetThrough(d))
        /\ Cardinality(RowsOf(d)') \in Nat /\ Cardinality(LetThrough(d)') \in Nat
    BY <2>1, <2>2, FS_Subset, FS_CardinalityType
  <2>4. QED
    BY <2>1, <2>2, <2>3, SchedulerAssumption DEF DayInv
<1>3. QED
  BY <1>1, <1>2 DEF DayInv

(* The count was below the limit, and all that were let through are running.*)
LEMMA CountKeepsDayInv ==
  ASSUME TypeOK, FewRunning, FewRunning', DayInv,
         NEW r \in Runs, CountAdmits(r)
  PROVE  DayInv'
<1> USE DEF telemetry
<1>1. /\ suggestions' = suggestions /\ request' = request
      /\ IsFiniteSet(suggestions')
  BY DEF CountAdmits, DayInv
<1>2. ASSUME NEW d \in Dates, d # DateOf(r)
      PROVE  LetThrough(d)' = LetThrough(d) /\ RowsOf(d)' = RowsOf(d)
  BY <1>1, <1>2 DEF CountAdmits, Moves, LetThrough, RowsOf, DateOf, TypeOK
<1>3. ASSUME NEW d \in Dates, d = DateOf(r)
      PROVE  /\ HighestLimit > 0
             /\ Cardinality(RowsOf(d)') + Cardinality(LetThrough(d)')
                  <= HighestLimit - 1 + MaxInFlight
  <2>1. Cardinality(RowsOf(d)) < request[r].limit /\ RowsOf(d)' = RowsOf(d)
    BY <1>1, <1>3 DEF CountAdmits, RowsOf
  <2>2. request[r].limit \in Nat /\ request[r].limit <= HighestLimit
    BY RequestType, SchedulerAssumption
  <2>3. Cardinality(RowsOf(d)) \in Nat
    BY DayFinite DEF DayInv
  <2>4. /\ Cardinality(LetThrough(d)') \in Nat
        /\ Cardinality(LetThrough(d)') <= MaxInFlight
    <3>1. LetThrough(d)' \in SUBSET Running'
      BY DEF LetThrough, Running
    <3>2. QED
      BY <3>1, FS_Subset, FS_CardinalityType, SchedulerAssumption DEF FewRunning
  <2>5. QED
    BY <2>1, <2>2, <2>3, <2>4, SchedulerAssumption
<1>4. QED
  BY <1>1, <1>2, <1>3 DEF DayInv

(* One proposal becomes one row. *)
LEMMA LogKeepsDayInv ==
  ASSUME TypeOK, FewRunning, DayInv, NEW r \in Runs, LogSuggestion(r)
  PROVE  DayInv'
<1> DEFINE row == [run |-> r, date |-> DateOf(r)]
<1>1. /\ suggestions' = suggestions \cup {row} /\ request' = request
      /\ stage[r] = "log" /\ stage' = [stage EXCEPT ![r] = "suggested"]
  BY DEF LogSuggestion, Moves
<1>2. IsFiniteSet(suggestions')
  BY <1>1, FS_AddElement DEF DayInv
<1>3. ASSUME NEW d \in Dates, d # DateOf(r)
      PROVE  LetThrough(d)' = LetThrough(d) /\ RowsOf(d)' = RowsOf(d)
  BY <1>1, <1>3 DEF LetThrough, RowsOf, DateOf, Working, TypeOK
<1>4. ASSUME NEW d \in Dates, d = DateOf(r)
      PROVE  /\ HighestLimit > 0
             /\ Cardinality(RowsOf(d)') + Cardinality(LetThrough(d)')
                  <= HighestLimit - 1 + MaxInFlight
  <2>1. RowsOf(d)' = RowsOf(d) \cup {row}
    BY <1>1, <1>4 DEF RowsOf
  <2>2. r \in LetThrough(d) /\ LetThrough(d)' = LetThrough(d) \ {r}
    BY <1>1, <1>4 DEF LetThrough, DateOf, Working, TypeOK
  <2>3. /\ IsFiniteSet(RowsOf(d)) /\ IsFiniteSet(LetThrough(d))
        /\ Cardinality(RowsOf(d)) \in Nat /\ Cardinality(LetThrough(d)) \in Nat
    BY DayFinite DEF DayInv
  <2>4. Cardinality(RowsOf(d)') <= Cardinality(RowsOf(d)) + 1
        /\ Cardinality(RowsOf(d)') \in Nat
    <3> HIDE DEF row
    <3>1. /\ IsFiniteSet(RowsOf(d) \cup {row})
          /\ Cardinality(RowsOf(d) \cup {row})
               = IF row \in RowsOf(d) THEN Cardinality(RowsOf(d))
                                      ELSE Cardinality(RowsOf(d)) + 1
      BY <2>3, FS_AddElement
    <3>2. QED
      BY <2>1, <2>3, <3>1
  <2>5. Cardinality(LetThrough(d)') = Cardinality(LetThrough(d)) - 1
    BY <2>2, <2>3, FS_RemoveElement
  <2>6. QED
    BY <2>2, <2>3, <2>4, <2>5, SchedulerAssumption DEF DayInv
<1>5. QED
  BY <1>1, <1>2, <1>3, <1>4 DEF DayInv

(* Rows of a day and those let through, step by step.                       *)
LEMMA DayInductive ==
  ASSUME TypeOK, FewRunning, FewRunning', DayInv, [Next]_vars
  PROVE  DayInv'
<1>1. CASE \E r \in Runs : CountAdmits(r)
  BY <1>1, CountKeepsDayInv
<1>2. CASE \E r \in Runs : LogSuggestion(r)
  BY <1>2, LogKeepsDayInv
<1>3. CASE ~(\E r \in Runs : CountAdmits(r) \/ LogSuggestion(r))
  <2>1. suggestions' \subseteq suggestions
    BY <1>3
    DEF Next, Proposal, Begin, CountRefuses, GatherContext, ContextEmpty,
        ContextFails, BudgetAdmits, BudgetRefuses, LlmAnswers, LlmFails,
        RecordCost, AlarmReadsFlag, AlarmReadsTotal, GuardsAccept, GuardsReject,
        StoreFails, CommandCrashes, DaemonRestarts, Rate, ForgetDay, MonthRolls,
        vars, telemetry
  <2>2. request' = request
    BY DEF Next, Proposal, Begin, CountAdmits, CountRefuses, GatherContext,
           ContextEmpty, ContextFails, BudgetAdmits, BudgetRefuses, LlmAnswers,
           LlmFails, RecordCost, AlarmReadsFlag, AlarmReadsTotal, GuardsAccept,
           GuardsReject, LogSuggestion, StoreFails, CommandCrashes,
           DaemonRestarts, Rate, ForgetDay, MonthRolls, vars
  <2>3. \A r \in Runs : stage'[r] \in Working \ {"count"}
                          => stage[r] \in Working \ {"count"}
    BY <1>3
    DEF Next, Proposal, Begin, CountRefuses, GatherContext, ContextEmpty,
        ContextFails, BudgetAdmits, BudgetRefuses, LlmAnswers, LlmFails,
        RecordCost, AlarmReadsFlag, AlarmReadsTotal, GuardsAccept, GuardsReject,
        StoreFails, CommandCrashes, DaemonRestarts, Rate, ForgetDay, MonthRolls,
        vars, Moves, Working, TypeOK
  <2>4. \A d \in Dates : LetThrough(d)' \subseteq LetThrough(d)
    BY <2>2, <2>3 DEF LetThrough, DateOf
  <2>5. QED
    BY <2>1, <2>4, FewerKeepDayInv
<1>4. QED
  BY <1>1, <1>2, <1>3

(* No day has more suggestions than its highest limit and the proposals     *)
(* that may overtake each other's count (propose_suggestion, steps 1 and 7).*)
THEOREM DayBounded == Spec => []DayLimitBound
<1>1. Init => FewRunning /\ DayInv
  <2> SUFFICES ASSUME Init PROVE FewRunning /\ DayInv
    OBVIOUS
  <2>1. Running = {} /\ suggestions = {}
    BY DEF Init, Running, Working
  <2>2. \A d \in Dates : RowsOf(d) = {} /\ LetThrough(d) = {}
    BY DEF Init, RowsOf, LetThrough, Working
  <2>3. QED
    BY <2>1, <2>2, FS_EmptySet, SchedulerAssumption DEF FewRunning, DayInv
<1>2. TypeOK /\ FewRunning /\ [Next]_vars => FewRunning'
  BY FewRunningInductive
<1>3. TypeOK /\ FewRunning /\ FewRunning' /\ DayInv /\ [Next]_vars => DayInv'
  BY DayInductive
<1>4. FewRunning /\ DayInv => DayLimitBound
  <2> SUFFICES ASSUME FewRunning, DayInv, NEW d \in Dates, RowsOf(d) # {}
               PROVE  /\ HighestLimit > 0
                      /\ Cardinality(RowsOf(d)) <= HighestLimit - 1 + MaxInFlight
    BY DEF DayLimitBound
  <2>1. Cardinality(RowsOf(d)) \in Nat /\ Cardinality(LetThrough(d)) \in Nat
    BY DayFinite DEF DayInv
  <2>2. QED
    BY <2>1, SchedulerAssumption DEF DayInv
<1>5. QED
  BY <1>1, <1>2, <1>3, <1>4, TypeCorrect, PTL DEF Spec

-----------------------------------------------------------------------------
(* The alarm.  AlarmNotMissed is inductive as it stands: the total moves    *)
(* only with a new ledger row, whose writer has its alarm still before it.  *)
LEMMA AlarmInductive ==
  ASSUME TypeOK, AlarmNotMissed, [Next]_vars
  PROVE  AlarmNotMissed'
<1> USE DEF telemetry, meter
<1> DEFINE Past == {"weigh", "log", "rejected", "suggested", "unlogged"}
<1>1. ASSUME NEW r \in Runs, RecordCost(r)
      PROVE  AlarmNotMissed'
  BY <1>1 DEF RecordCost, Moves, AlarmNotMissed, TypeOK
<1>2. CASE MonthRolls
  BY <1>2 DEF MonthRolls, AlarmNotMissed
<1>3. CASE DaemonRestarts
  <2> SUFFICES ASSUME NEW r \in latest', stage'[r] \in Past, NearCap(MeterOf(r))'
               PROVE  MeterOf(r) \in fired'
    BY DEF AlarmNotMissed, MeterOf
  <2>1. r \in latest /\ r \in Runs \ DaemonRuns /\ r # Daemon
    BY <1>3, SchedulerAssumption DEF DaemonRestarts, TypeOK
  <2>2. stage'[r] = stage[r] /\ MeterOf(r) = r
    BY <1>3, <2>1 DEF DaemonRestarts, MeterOf
  <2>3. NearCap(MeterOf(r))
    BY <1>3 DEF DaemonRestarts, NearCap, MeterOf
  <2>4. QED
    BY <1>3, <2>1, <2>2, <2>3 DEF DaemonRestarts, AlarmNotMissed
<1>4. ASSUME NEW r \in Runs, AlarmReadsFlag(r)
      PROVE  AlarmNotMissed'
  BY <1>4 DEF AlarmReadsFlag, Moves, AlarmNotMissed, NearCap, MeterOf, TypeOK
<1>5. ASSUME NEW r \in Runs, AlarmReadsTotal(r)
      PROVE  AlarmNotMissed'
  BY <1>5 DEF AlarmReadsTotal, Moves, AlarmNotMissed, NearCap, MeterOf, TypeOK
<1>6. ASSUME UNCHANGED <<spent, latest, fired, caps>>,
             \A r \in Runs : stage'[r] \in Past => stage[r] \in Past
      PROVE  AlarmNotMissed'
  BY <1>6 DEF AlarmNotMissed, NearCap, MeterOf, TypeOK
<1>7. ASSUME NEW r \in Runs,
             \/ Begin(r) \/ CountAdmits(r) \/ CountRefuses(r) \/ GatherContext(r)
             \/ ContextEmpty(r) \/ ContextFails(r) \/ BudgetAdmits(r)
             \/ BudgetRefuses(r) \/ LlmAnswers(r) \/ LlmFails(r) \/ GuardsAccept(r)
             \/ GuardsReject(r) \/ LogSuggestion(r) \/ StoreFails(r)
             \/ CommandCrashes(r)
      PROVE  AlarmNotMissed'
  <2>1. UNCHANGED <<spent, latest, fired, caps>>
    BY <1>7
    DEF Begin, CountAdmits, CountRefuses, GatherContext, ContextEmpty,
        ContextFails, BudgetAdmits, BudgetRefuses, LlmAnswers, LlmFails,
        GuardsAccept, GuardsReject, LogSuggestion, StoreFails, CommandCrashes
  <2>2. \A q \in Runs : stage'[q] \in Past => stage[q] \in Past
    BY <1>7
    DEF Begin, CountAdmits, CountRefuses, GatherContext, ContextEmpty,
        ContextFails, BudgetAdmits, BudgetRefuses, LlmAnswers, LlmFails,
        GuardsAccept, GuardsReject, LogSuggestion, StoreFails, CommandCrashes,
        Moves, TypeOK
  <2>3. QED
    BY <2>1, <2>2, <1>6
<1>8. CASE \/ \E s \in suggestions : Rate(s)
           \/ \E d \in Dates : ForgetDay(d)
           \/ UNCHANGED vars
  BY <1>8, <1>6 DEF Rate, ForgetDay, vars
<1>9. QED
  BY <1>1, <1>2, <1>3, <1>4, <1>5, <1>7, <1>8 DEF Next, Proposal

(* A month near its cap is warned of, whatever the threads that share a     *)
(* meter did between its flag, its total and its warning.                   *)
THEOREM AlarmRings == Spec => []AlarmNotMissed
<1>1. Init => AlarmNotMissed
  BY DEF Init, AlarmNotMissed
<1>2. QED
  BY <1>1, AlarmInductive, TypeCorrect, PTL DEF Spec

-----------------------------------------------------------------------------
(* The protocol of BudgetGate: a proposal is an admitted call from          *)
(* BudgetAdmits to RecordCost.                                              *)

(* A proposal about to ask the meter runs and is not in its call. *)
LEMMA RoomForOneMore ==
  ASSUME FewRunning, NEW r \in Runs, stage[r] = "budget"
  PROVE  Cardinality(InCall) < MaxInFlight
<1>1. /\ InCall \subseteq Running \ {r} /\ r \in Running
  BY DEF InCall, Running, Working
<1>2. /\ IsFiniteSet(Running \ {r})
      /\ Cardinality(Running \ {r}) = Cardinality(Running) - 1
  BY <1>1, FS_RemoveElement DEF FewRunning
<1>3. /\ Cardinality(InCall) <= Cardinality(Running \ {r})
      /\ IsFiniteSet(InCall)
  BY <1>1, <1>2, FS_Subset
<1>4. Cardinality(InCall) \in Nat /\ Cardinality(Running) \in Nat
  BY <1>3, FS_CardinalityType DEF FewRunning
<1>5. QED
  BY <1>2, <1>3, <1>4, SchedulerAssumption DEF FewRunning

(* The gate counts with the Cardinality of its own copy of FiniteSets. *)
LEMMA SameCardinality ==
  Gate!Cardinality(InCall) = Cardinality(InCall)
  BY DEF Gate!Cardinality, Cardinality

(* Each step is one of the gate or leaves its variables alone.              *)
LEMMA GateStep ==
  ASSUME TypeOK, FewRunning, [Next]_vars
  PROVE  [Gate!Next]_<<spent, InCall>>
<1> USE DEF telemetry, meter
<1>1. ASSUME NEW r \in Runs, BudgetAdmits(r) PROVE Gate!Admit(r)
  <2>1. r \notin InCall /\ InCall' = InCall \cup {r}
    BY <1>1 DEF BudgetAdmits, Moves, InCall, TypeOK
  <2>2. Cardinality(InCall) < MaxInFlight
    BY <1>1, RoomForOneMore DEF BudgetAdmits, Moves
  <2>3. \E e \in Estimates, cap \in Caps : spent + e <= cap
    BY <1>1, MeterType DEF BudgetAdmits, TypeOK
  <2>4. QED
    BY <1>1, <2>1, <2>2, <2>3, SameCardinality DEF BudgetAdmits, Gate!Admit
<1>2. ASSUME NEW r \in Runs, RecordCost(r) PROVE Gate!Charge(r)
  <2>1. r \in InCall /\ InCall' = InCall \ {r}
    BY <1>2 DEF RecordCost, Moves, InCall, TypeOK
  <2>2. QED
    BY <1>2, <2>1 DEF RecordCost, Gate!Charge
<1>3. ASSUME UNCHANGED spent, InCall' \subseteq InCall
      PROVE  [Gate!Next]_<<spent, InCall>>
  <2> DEFINE gone == InCall \ InCall'
  <2>1. InCall' = InCall \ gone /\ gone \in SUBSET InCall
    BY <1>3
  <2>2. CASE gone = {}
    BY <1>3, <2>1, <2>2
  <2>3. CASE gone # {}
    BY <1>3, <2>1, <2>3 DEF Gate!Abandon, Gate!Next
  <2>4. QED
    BY <2>2, <2>3
<1>4. CASE MonthRolls
  <2>1. InCall' = InCall
    BY <1>4 DEF MonthRolls, InCall
  <2>2. QED
    BY <1>4, <2>1 DEF MonthRolls, Gate!MonthRolls, Gate!Next
<1>5. ASSUME NEW r \in Runs,
             \/ Begin(r) \/ CountAdmits(r) \/ CountRefuses(r) \/ GatherContext(r)
             \/ ContextEmpty(r) \/ ContextFails(r) \/ BudgetRefuses(r)
             \/ LlmAnswers(r) \/ LlmFails(r) \/ AlarmReadsFlag(r)
             \/ AlarmReadsTotal(r) \/ GuardsAccept(r) \/ GuardsReject(r)
             \/ LogSuggestion(r) \/ StoreFails(r) \/ CommandCrashes(r)
      PROVE UNCHANGED spent /\ InCall' \subseteq InCall
  BY <1>5
  DEF Begin, CountAdmits, CountRefuses, GatherContext, ContextEmpty,
      ContextFails, BudgetRefuses, LlmAnswers, LlmFails, AlarmReadsFlag,
      AlarmReadsTotal, GuardsAccept, GuardsReject, LogSuggestion, StoreFails,
      CommandCrashes, Moves, InCall, TypeOK
<1>6. CASE \/ DaemonRestarts \/ UNCHANGED vars
           \/ \E s \in suggestions : Rate(s)
           \/ \E d \in Dates : ForgetDay(d)
  <2>1. UNCHANGED spent /\ InCall' \subseteq InCall
    BY <1>6 DEF DaemonRestarts, Rate, ForgetDay, vars, InCall, TypeOK
  <2>2. QED
    BY <2>1, <1>3
<1>7. QED
  BY <1>1, <1>2, <1>3, <1>4, <1>5, <1>6 DEF Next, Proposal, Gate!Next

(* Between its budget check and its ledger row a proposal follows the       *)
(* gate's protocol, and a daemon that dies gives up all of its calls.       *)
THEOREM ImplementsBudgetGate == Spec => GatedCalls
<1>1. Init => Gate!Init /\ FewRunning
  <2> SUFFICES ASSUME Init PROVE Gate!Init /\ FewRunning
    OBVIOUS
  <2>1. InCall = {} /\ Running = {}
    BY DEF Init, InCall, Running, Working
  <2>2. QED
    BY <2>1, FS_EmptySet, SchedulerAssumption DEF Init, Gate!Init, FewRunning
<1>2. TypeOK /\ FewRunning /\ [Next]_vars => FewRunning'
  BY FewRunningInductive
<1>3. TypeOK /\ FewRunning /\ [Next]_vars => [Gate!Next]_<<spent, InCall>>
  BY GateStep
<1>4. QED
  BY <1>1, <1>2, <1>3, TypeCorrect, PTL DEF Spec, GatedCalls, Gate!Spec, Gate!vars

(* Hence the bound of the gate holds for the proposals of a month. *)
GateTheory == INSTANCE BudgetGate_proofs WITH Calls <- Runs, admitted <- InCall

(* The month's spend passes its cap by no more than the proposals in flight *)
(* can add to it.                                                           *)
THEOREM ProposalSpendBound == Spec => []Gate!SpendBound
<1>1. GateTheory!GateAssumption
  BY SchedulerAssumption DEF GateTheory!GateAssumption
<1>2. GateTheory!Spec => []GateTheory!SpendBound
  BY <1>1, GateTheory!Overspend
<1>3. GatedCalls => GateTheory!Spec
  <2>1. Gate!Init => GateTheory!Init
    BY DEF Gate!Init, GateTheory!Init
  <2>2. Gate!Cardinality(InCall) = GateTheory!Cardinality(InCall)
    BY DEF Gate!Cardinality, GateTheory!Cardinality
  <2>3. [Gate!Next]_<<spent, InCall>> => [GateTheory!Next]_<<spent, InCall>>
    BY <2>2
    DEF Gate!Next, Gate!Admit, Gate!Charge, Gate!Abandon, Gate!MonthRolls,
        GateTheory!Next, GateTheory!Admit, GateTheory!Charge,
        GateTheory!Abandon, GateTheory!MonthRolls
  <2>4. QED
    BY <2>1, <2>3, PTL
    DEF GatedCalls, Gate!Spec, Gate!vars, GateTheory!Spec, GateTheory!vars
<1>4. GateTheory!SpendBound => Gate!SpendBound
  BY DEF GateTheory!SpendBound, Gate!SpendBound
<1>5. QED
  BY <1>2, <1>3, <1>4, ImplementsBudgetGate, PTL
=============================================================================
