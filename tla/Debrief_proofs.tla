--------------------------- MODULE Debrief_proofs ---------------------------
(***************************************************************************)
(* The debrief pipeline's invariants, for every number of attempts, dates, *)
(* texts and events, and its two refinements: every behaviour is one of    *)
(* DaySummary and, through the LLM call, one of BudgetGate.                *)
(***************************************************************************)
EXTENDS Debrief, FiniteSetTheorems, TLAPS

(* What the summary row of an attempt tells about the attempt. *)
OwnersPastInsert ==
  \A s \in summaries :
    /\ s.date = DateOf(s.run)
    /\ stage[s.run] \in {"keepNew", "persisted", "store_error", "crashed"}
    /\ handled[s.run] = planned[s.run]

(* The events an attempt counts as handled are in the table, and it leaves  *)
(* the loop when they are all its extract holds.                            *)
HandledArePersisted ==
  \A r \in Runs :
    /\ \A n \in 1..handled[r] :
         [run |-> r, nr |-> n, date |-> DateOf(r)] \in events
    /\ stage[r] = "insert" => handled[r] = planned[r]

(* Past the charge the attempt has its ledger row. *)
ChargedAreRecorded ==
  \A r \in Runs :
    stage[r] \in {"loop", "insert", "keepNew", "keepOld"} => r \in recorded

-----------------------------------------------------------------------------
(* An attempt's request names one of the dates and one of the texts. *)
LEMMA RequestType ==
  ASSUME TypeOK, NEW r \in Runs
  PROVE  DateOf(r) \in Dates /\ request[r].text \in Texts
  BY DEF TypeOK, Requests, DateOf

(* Every step keeps the types; the only one that needs more than its own    *)
(* assignment is PersistEvent, whose count stays below the extract's.       *)
LEMMA TypeInductive == TypeOK /\ [Next]_vars => TypeOK'
<1> SUFFICES ASSUME TypeOK, [Next]_vars PROVE TypeOK'
  OBVIOUS
<1> USE DebriefAssumption DEF TypeOK, Requests, Working, Ended, Succeeded, EventFaults
<1>1. ASSUME NEW r \in Runs, Begin(r) PROVE TypeOK'
  BY <1>1 DEF Begin, Moves, database
<1>2. ASSUME NEW r \in Runs, GuardPasses(r) \/ GuardRefuses(r) PROVE TypeOK'
  BY <1>2 DEF GuardPasses, GuardRefuses, Moves, database
<1>3. ASSUME NEW r \in Runs, BudgetAdmits(r) \/ BudgetRefuses(r) PROVE TypeOK'
  BY <1>3 DEF BudgetAdmits, BudgetRefuses, Moves, database
<1>4. ASSUME NEW r \in Runs, LlmAnswers(r) \/ LlmFails(r) PROVE TypeOK'
  BY <1>4 DEF LlmAnswers, LlmFails, Moves, database
<1>5. ASSUME NEW r \in Runs, RecordCost(r) PROVE TypeOK'
  BY <1>5 DEF RecordCost, Moves
<1>6. ASSUME NEW r \in Runs, PersistEvent(r) PROVE TypeOK'
  <2>1. /\ handled[r] + 1 \in 1..MaxEvents
        /\ handled[r] + 1 \in 0..MaxEvents
    BY <1>6 DEF PersistEvent
  <2>2. [run |-> r, nr |-> handled[r] + 1, date |-> DateOf(r)] \in EventRows
    BY <2>1, RequestType DEF EventRows
  <2>3. QED
    BY <1>6, <2>1, <2>2 DEF PersistEvent
<1>7. ASSUME NEW r \in Runs, EventFails(r) PROVE TypeOK'
  BY <1>7 DEF EventFails, Moves, database
<1>8. ASSUME NEW r \in Runs, RecheckFindsNone(r) \/ RecheckFindsSummary(r)
      PROVE TypeOK'
  BY <1>8 DEF RecheckFindsNone, RecheckFindsSummary, Moves, database
<1>9. ASSUME NEW r \in Runs, InsertSummary(r) \/ InsertConflicts(r) PROVE TypeOK'
  <2>1. [run |-> r, date |-> DateOf(r)] \in SummaryRows
    BY RequestType DEF SummaryRows
  <2>2. QED
    BY <1>9, <2>1 DEF InsertSummary, InsertConflicts, Moves, database
<1>10. ASSUME NEW r \in Runs, KeepTranscript(r) PROVE TypeOK'
  <2>1. DateOf(r) \in Dates /\ request[r].text \in Texts
    BY RequestType
  <2>2. Merged(transcripts[DateOf(r)], request[r].text) \in Seq(Texts)
    BY <2>1 DEF Merged
  <2>3. transcripts' \in [Dates -> Seq(Texts)]
    BY <1>10, <2>1, <2>2 DEF KeepTranscript
  <2>4. QED
    BY <1>10, <2>3 DEF KeepTranscript, Moves
<1>11. ASSUME NEW r \in Runs, StoreFails(r) \/ Crash(r) PROVE TypeOK'
  BY <1>11 DEF StoreFails, Crash, database
<1>12. CASE MonthRolls
  BY <1>12 DEF MonthRolls
<1>13. CASE UNCHANGED vars
  BY <1>13 DEF vars, database
<1>14. QED
  BY <1>1, <1>2, <1>3, <1>4, <1>5, <1>6, <1>7, <1>8, <1>9, <1>10, <1>11,
     <1>12, <1>13 DEF Next, Attempt

(* The tables and the counters of the pipeline are well typed. *)
THEOREM TypeCorrect == Spec => []TypeOK
<1>1. Init => TypeOK
  BY DebriefAssumption DEF Init, TypeOK, Requests
<1>2. QED
  BY <1>1, TypeInductive, PTL DEF Spec

-----------------------------------------------------------------------------
(* The summary: who owns a row, what its attempt wrote before, and that a   *)
(* day has one.                                                             *)
SummaryInv ==
  /\ OwnersPastInsert
  /\ HandledArePersisted
  /\ AtMostOneSummary
  /\ SuccessHasSummary

(* A step that only moves an attempt between stages, to one that is neither *)
(* "insert" nor a success, and not away from a row it owns.                 *)
LEMMA QuietMoveKeepsSummaryInv ==
  ASSUME TypeOK, SummaryInv, NEW r \in Runs, NEW to,
         stage' = [stage EXCEPT ![r] = to],
         \/ to \notin {"insert", "keepNew", "keepOld"} \cup Succeeded
         \/ to = "insert" /\ handled[r] = planned[r]
         \/ to = "keepOld" /\ HasSummary(DateOf(r))
         \/ to = "persisted" /\ stage[r] = "keepNew"
         \/ to = "superseded" /\ stage[r] = "keepOld",
         \/ \A s \in summaries : s.run # r
         \/ to \in {"persisted", "store_error", "crashed"},
         UNCHANGED <<request, planned, handled, events, summaries>>
  PROVE  SummaryInv'
<1>1. OwnersPastInsert'
  BY DEF SummaryInv, OwnersPastInsert, TypeOK, SummaryRows, DateOf
<1>2. HandledArePersisted'
  BY DEF SummaryInv, HandledArePersisted, TypeOK, DateOf
<1>3. AtMostOneSummary'
  BY DEF SummaryInv, AtMostOneSummary
<1>4. SuccessHasSummary'
  BY DEF SummaryInv, SuccessHasSummary, Succeeded, TypeOK, HasSummary, DateOf
<1>5. QED
  BY <1>1, <1>2, <1>3, <1>4 DEF SummaryInv

(* An attempt that stands before its INSERT owns no summary row. *)
LEMMA EarlyOwnNothing ==
  ASSUME SummaryInv, NEW r \in Runs,
         stage[r] \notin {"keepNew", "persisted", "store_error", "crashed"}
  PROVE  \A s \in summaries : s.run # r
  BY DEF SummaryInv, OwnersPastInsert

(* Each part of the invariant, step by step: summaries, ...                 *)
LEMMA SummaryInductive ==
  ASSUME TypeOK, SummaryInv, [Next]_vars
  PROVE  SummaryInv'
<1> USE DEF Succeeded
<1>1. ASSUME NEW r \in Runs, Begin(r) PROVE SummaryInv'
  BY <1>1, EarlyOwnNothing, QuietMoveKeepsSummaryInv DEF Begin, Moves, database
<1>2. ASSUME NEW r \in Runs, GuardPasses(r) \/ GuardRefuses(r) PROVE SummaryInv'
  BY <1>2, EarlyOwnNothing, QuietMoveKeepsSummaryInv
  DEF GuardPasses, GuardRefuses, Moves, database
<1>3. ASSUME NEW r \in Runs, BudgetAdmits(r) \/ BudgetRefuses(r)
      PROVE SummaryInv'
  BY <1>3, EarlyOwnNothing, QuietMoveKeepsSummaryInv
  DEF BudgetAdmits, BudgetRefuses, Moves, database
<1>4. ASSUME NEW r \in Runs, LlmAnswers(r) PROVE SummaryInv'
  <2>1. \A s \in summaries : s.run # r
    BY <1>4, EarlyOwnNothing DEF LlmAnswers, Moves
  <2>2. OwnersPastInsert'
    BY <1>4, <2>1
    DEF LlmAnswers, Moves, database, SummaryInv, OwnersPastInsert, TypeOK,
        SummaryRows, DateOf
  <2>3. HandledArePersisted'
    BY <1>4
    DEF LlmAnswers, Moves, database, SummaryInv, HandledArePersisted, TypeOK, DateOf
  <2>4. AtMostOneSummary' /\ SuccessHasSummary'
    BY <1>4
    DEF LlmAnswers, Moves, database, SummaryInv, AtMostOneSummary,
        SuccessHasSummary, TypeOK, HasSummary, DateOf
  <2>5. QED
    BY <2>2, <2>3, <2>4 DEF SummaryInv
<1>5. ASSUME NEW r \in Runs, LlmFails(r) PROVE SummaryInv'
  BY <1>5, EarlyOwnNothing, QuietMoveKeepsSummaryInv DEF LlmFails, Moves, database
<1>6. ASSUME NEW r \in Runs, RecordCost(r) PROVE SummaryInv'
  BY <1>6, EarlyOwnNothing, QuietMoveKeepsSummaryInv DEF RecordCost, Moves
<1>7. ASSUME NEW r \in Runs, PersistEvent(r) PROVE SummaryInv'
  <2>1. \A s \in summaries : s.run # r
    BY <1>7, EarlyOwnNothing DEF PersistEvent
  <2>2. OwnersPastInsert'
    BY <1>7, <2>1
    DEF PersistEvent, SummaryInv, OwnersPastInsert, TypeOK, SummaryRows, DateOf
  <2>3. HandledArePersisted'
    <3>1. ASSUME NEW q \in Runs, NEW n \in 1..handled'[q]
          PROVE [run |-> q, nr |-> n, date |-> DateOf(q)'] \in events'
      <4>1. DateOf(q)' = DateOf(q)
        BY <1>7 DEF PersistEvent, DateOf
      <4>2. CASE q = r /\ n = handled[r] + 1
        BY <1>7, <4>1, <4>2 DEF PersistEvent
      <4>3. CASE ~(q = r /\ n = handled[r] + 1)
        <5>1. n \in 1..handled[q]
          BY <1>7, <4>3, DebriefAssumption DEF PersistEvent, TypeOK
        <5>2. QED
          BY <1>7, <4>1, <5>1
          DEF PersistEvent, SummaryInv, HandledArePersisted
      <4>4. QED
        BY <4>2, <4>3
    <3>2. ASSUME NEW q \in Runs, stage'[q] = "insert"
          PROVE handled'[q] = planned'[q]
      BY <1>7, <3>2 DEF PersistEvent, SummaryInv, HandledArePersisted, TypeOK
    <3>3. QED
      BY <3>1, <3>2 DEF HandledArePersisted
  <2>4. AtMostOneSummary' /\ SuccessHasSummary'
    BY <1>7
    DEF PersistEvent, SummaryInv, AtMostOneSummary, SuccessHasSummary,
        HasSummary, DateOf
  <2>5. QED
    BY <2>2, <2>3, <2>4 DEF SummaryInv
<1>8. ASSUME NEW r \in Runs, EventFails(r) PROVE SummaryInv'
  BY <1>8, EarlyOwnNothing, QuietMoveKeepsSummaryInv
  DEF EventFails, EventFaults, Moves, database
<1>9. ASSUME NEW r \in Runs, RecheckFindsNone(r) \/ RecheckFindsSummary(r)
      PROVE SummaryInv'
  BY <1>9, EarlyOwnNothing, QuietMoveKeepsSummaryInv
  DEF RecheckFindsNone, RecheckFindsSummary, Moves, database
<1>10. ASSUME NEW r \in Runs, InsertSummary(r) PROVE SummaryInv'
  <2>1. handled[r] = planned[r]
    BY <1>10 DEF InsertSummary, Moves, SummaryInv, HandledArePersisted
  <2>2. OwnersPastInsert'
    BY <1>10, <2>1
    DEF InsertSummary, Moves, SummaryInv, OwnersPastInsert, TypeOK, SummaryRows,
        DateOf
  <2>3. HandledArePersisted'
    BY <1>10
    DEF InsertSummary, Moves, SummaryInv, HandledArePersisted, TypeOK, DateOf
  <2>4. AtMostOneSummary'
    BY <1>10 DEF InsertSummary, SummaryInv, AtMostOneSummary, HasSummary, DateOf
  <2>5. SuccessHasSummary'
    <3>1. [run |-> r, date |-> DateOf(r)] \in summaries'
      BY <1>10 DEF InsertSummary
    <3>2. \A q \in Runs : DateOf(q)' = DateOf(q)
      BY <1>10 DEF InsertSummary, DateOf
    <3>3. ASSUME NEW q \in Runs,
                 stage'[q] \in Succeeded \cup {"keepNew", "keepOld"}
          PROVE  \E s \in summaries' : s.date = DateOf(q)
      <4>1. CASE q = r
        BY <3>1, <4>1
      <4>2. CASE q # r
        <5>1. stage[q] \in Succeeded \cup {"keepNew", "keepOld"}
          BY <1>10, <3>3, <4>2 DEF InsertSummary, Moves, TypeOK
        <5>2. HasSummary(DateOf(q))
          BY <5>1 DEF SummaryInv, SuccessHasSummary
        <5>3. QED
          BY <1>10, <5>2 DEF InsertSummary, HasSummary
      <4>3. QED
        BY <4>1, <4>2
    <3>4. QED
      BY <3>2, <3>3 DEF SuccessHasSummary, HasSummary
  <2>6. QED
    BY <2>2, <2>3, <2>4, <2>5 DEF SummaryInv
<1>11. ASSUME NEW r \in Runs, InsertConflicts(r) PROVE SummaryInv'
  BY <1>11, EarlyOwnNothing, QuietMoveKeepsSummaryInv
  DEF InsertConflicts, Moves, database
<1>12. ASSUME NEW r \in Runs, KeepTranscript(r) PROVE SummaryInv'
  BY <1>12, EarlyOwnNothing, QuietMoveKeepsSummaryInv DEF KeepTranscript, Moves
<1>13. ASSUME NEW r \in Runs, StoreFails(r) \/ Crash(r) PROVE SummaryInv'
  BY <1>13, QuietMoveKeepsSummaryInv DEF StoreFails, Crash, database
<1>14. CASE MonthRolls \/ UNCHANGED vars
  BY <1>14
  DEF MonthRolls, vars, database, SummaryInv, OwnersPastInsert,
      HandledArePersisted, AtMostOneSummary, SuccessHasSummary, HasSummary, DateOf
<1>15. QED
  BY <1>1, <1>2, <1>3, <1>4, <1>5, <1>6, <1>7, <1>8, <1>9, <1>10, <1>11,
     <1>12, <1>13, <1>14 DEF Next, Attempt

-----------------------------------------------------------------------------
(* The money: who has a ledger row. *)
PaidInv == ChargedAreRecorded /\ RowsArePaidFor

(* ... ledger rows, ...                                                     *)
LEMMA PaidInductive ==
  ASSUME TypeOK, PaidInv, [Next]_vars
  PROVE  PaidInv'
<1> USE DEF PaidInv, TypeOK, ChargedAreRecorded, RowsArePaidFor
<1>1. ASSUME NEW r \in Runs,
             \/ Begin(r) \/ GuardPasses(r) \/ GuardRefuses(r)
             \/ BudgetAdmits(r) \/ BudgetRefuses(r)
             \/ LlmAnswers(r) \/ LlmFails(r)
      PROVE PaidInv'
  BY <1>1
  DEF Begin, GuardPasses, GuardRefuses, BudgetAdmits, BudgetRefuses,
      LlmAnswers, LlmFails, Moves, database
<1>2. ASSUME NEW r \in Runs, RecordCost(r) PROVE PaidInv'
  BY <1>2 DEF RecordCost, Moves
<1>3. ASSUME NEW r \in Runs, PersistEvent(r) PROVE PaidInv'
  BY <1>3 DEF PersistEvent
<1>4. ASSUME NEW r \in Runs, EventFails(r) PROVE PaidInv'
  BY <1>4 DEF EventFails, EventFaults, Moves, database
<1>5. ASSUME NEW r \in Runs, RecheckFindsNone(r) \/ RecheckFindsSummary(r)
      PROVE PaidInv'
  BY <1>5 DEF RecheckFindsNone, RecheckFindsSummary, Moves, database
<1>6. ASSUME NEW r \in Runs, InsertSummary(r) PROVE PaidInv'
  BY <1>6 DEF InsertSummary, Moves
<1>7. ASSUME NEW r \in Runs,
             InsertConflicts(r) \/ KeepTranscript(r) \/ StoreFails(r) \/ Crash(r)
      PROVE PaidInv'
  BY <1>7 DEF InsertConflicts, KeepTranscript, StoreFails, Crash, Moves, database
<1>8. CASE MonthRolls \/ UNCHANGED vars
  BY <1>8 DEF MonthRolls, vars, database
<1>9. QED
  BY <1>1, <1>2, <1>3, <1>4, <1>5, <1>6, <1>7, <1>8 DEF Next, Attempt

-----------------------------------------------------------------------------
(* The transcripts. *)
TranscriptInv == SegmentsDiffer /\ SegmentsAreDebriefed /\ DebriefsAreKept

(* Merging a text into segments without repetition repeats none, keeps   *)
(* the old ones and adds at most that text, which is then there.            *)
LEMMA MergedFacts ==
  ASSUME NEW segments \in Seq(Texts), NEW text \in Texts,
         \A i, j \in DOMAIN segments : segments[i] = segments[j] => i = j
  PROVE  LET m == Merged(segments, text) IN
         /\ \E i \in DOMAIN m : m[i] = text
         /\ \A k \in DOMAIN segments : k \in DOMAIN m /\ m[k] = segments[k]
         /\ \A i, j \in DOMAIN m : m[i] = m[j] => i = j
         /\ \A i \in DOMAIN m :
              m[i] = text \/ \E k \in DOMAIN segments : m[i] = segments[k]
<1>1. CASE \E i \in DOMAIN segments : segments[i] = text
  BY <1>1 DEF Merged
<1>2. CASE ~\E i \in DOMAIN segments : segments[i] = text
  <2> DEFINE m == Append(segments, text)
  <2>1. /\ Merged(segments, text) = m
        /\ DOMAIN m = 1..Len(segments) + 1 /\ DOMAIN segments = 1..Len(segments)
        /\ Len(segments) \in Nat
    BY <1>2 DEF Merged
  <2>2. /\ \A k \in 1..Len(segments) : m[k] = segments[k]
        /\ m[Len(segments) + 1] = text
    OBVIOUS
  <2>3. \A i \in DOMAIN m : i \in DOMAIN segments \/ i = Len(segments) + 1
    BY <2>1
  <2> HIDE DEF m
  <2>4. \E i \in DOMAIN m : m[i] = text
    BY <2>1, <2>2
  <2>5. QED
    BY <1>2, <2>1, <2>2, <2>3, <2>4
<1>3. QED
  BY <1>1, <1>2

(* A step that leaves the transcripts alone and neither ends an attempt in  *)
(* success nor takes one out of it.                                         *)
LEMMA OtherStepsKeepTranscriptInv ==
  ASSUME TypeOK, TranscriptInv, UNCHANGED <<request, transcripts>>,
         \A r \in Runs : stage[r] \in Succeeded <=> stage'[r] \in Succeeded
  PROVE  TranscriptInv'
<1>1. SegmentsDiffer'
  BY DEF TranscriptInv, SegmentsDiffer
<1>2. SegmentsAreDebriefed'
  BY DEF TranscriptInv, SegmentsAreDebriefed
<1>3. DebriefsAreKept'
  BY DEF TranscriptInv, DebriefsAreKept, DateOf
<1>4. QED
  BY <1>1, <1>2, <1>3 DEF TranscriptInv

(* ... transcripts.                                                         *)
LEMMA TranscriptInductive ==
  ASSUME TypeOK, TranscriptInv, [Next]_vars
  PROVE  TranscriptInv'
<1>1. ASSUME NEW r \in Runs, KeepTranscript(r) PROVE TranscriptInv'
  <2> DEFINE d == DateOf(r)
             old == transcripts[d]
             new == Merged(old, request[r].text)
  <2>1. d \in Dates /\ request[r].text \in Texts /\ old \in Seq(Texts)
    BY RequestType DEF TypeOK
  <2>2. transcripts' = [transcripts EXCEPT ![d] = new]
    BY <1>1 DEF KeepTranscript
  <2>3. \A i, j \in DOMAIN old : old[i] = old[j] => i = j
    BY <2>1 DEF TranscriptInv, SegmentsDiffer
  <2>4. /\ \E i \in DOMAIN new : new[i] = request[r].text
        /\ \A k \in DOMAIN old : k \in DOMAIN new /\ new[k] = old[k]
        /\ \A i, j \in DOMAIN new : new[i] = new[j] => i = j
        /\ \A i \in DOMAIN new :
             new[i] = request[r].text \/ \E k \in DOMAIN old : new[i] = old[k]
    BY <2>1, <2>3, MergedFacts
  <2>5. SegmentsDiffer'
    <3>1. ASSUME NEW e \in Dates,
                 NEW i \in DOMAIN transcripts'[e], NEW j \in DOMAIN transcripts'[e],
                 transcripts'[e][i] = transcripts'[e][j]
          PROVE  i = j
      <4>1. CASE e = d
        BY <2>1, <2>2, <2>4, <3>1, <4>1 DEF TypeOK
      <4>2. CASE e # d
        BY <2>2, <3>1, <4>2 DEF TypeOK, TranscriptInv, SegmentsDiffer
      <4>3. QED
        BY <4>1, <4>2
    <3>2. QED
      BY <3>1 DEF SegmentsDiffer
  <2>6. /\ request' = request
        /\ stage'[r] \in Succeeded
        /\ \A q \in Runs : stage[q] \in Succeeded => stage'[q] \in Succeeded
    BY <1>1 DEF KeepTranscript, Moves, Succeeded, TypeOK
  <2>7. SegmentsAreDebriefed'
    <3>1. ASSUME NEW e \in Dates, NEW i \in DOMAIN transcripts'[e]
          PROVE  \E q \in Runs :
                   /\ request[q] = [date |-> e, text |-> transcripts'[e][i]]
                   /\ stage'[q] \in Succeeded
      <4>1. ASSUME NEW k \in DOMAIN transcripts[e],
                   transcripts'[e][i] = transcripts[e][k]
            PROVE  \E q \in Runs :
                     /\ request[q] = [date |-> e, text |-> transcripts'[e][i]]
                     /\ stage'[q] \in Succeeded
        BY <2>6, <4>1 DEF TranscriptInv, SegmentsAreDebriefed
      <4>2. CASE e = d /\ transcripts'[e][i] = request[r].text
        <5>1. request[r] = [date |-> e, text |-> transcripts'[e][i]]
          BY <4>2 DEF DateOf, TypeOK, Requests
        <5>2. QED
          BY <2>6, <5>1
      <4>3. CASE e = d /\ transcripts'[e][i] # request[r].text
        <5>1. transcripts'[e] = new
          BY <2>1, <2>2, <4>3 DEF TypeOK
        <5>2. PICK k \in DOMAIN old : transcripts'[e][i] = old[k]
          BY <2>4, <4>3, <5>1
        <5>3. QED
          BY <4>1, <4>3, <5>2
      <4>4. CASE e # d
        BY <2>2, <4>1, <4>4 DEF TypeOK
      <4>5. QED
        BY <4>2, <4>3, <4>4
    <3>2. QED
      BY <2>6, <3>1 DEF SegmentsAreDebriefed
  <2>8. DebriefsAreKept'
    <3>1. ASSUME NEW q \in Runs, stage'[q] \in Succeeded
          PROVE  \E i \in DOMAIN transcripts'[DateOf(q)] :
                   transcripts'[DateOf(q)][i] = request[q].text
      <4>1. DateOf(q) \in Dates
        BY RequestType
      <4>2. CASE q = r
        BY <2>1, <2>2, <2>4, <4>2 DEF TypeOK
      <4>3. CASE q # r
        <5>1. stage[q] \in Succeeded
          BY <1>1, <3>1, <4>3 DEF KeepTranscript, Moves, TypeOK
        <5>2. PICK k \in DOMAIN transcripts[DateOf(q)] :
                transcripts[DateOf(q)][k] = request[q].text
          BY <5>1 DEF TranscriptInv, DebriefsAreKept
        <5>3. CASE DateOf(q) = d
          BY <2>1, <2>2, <2>4, <5>2, <5>3 DEF TypeOK
        <5>4. CASE DateOf(q) # d
          BY <2>2, <4>1, <5>2, <5>4 DEF TypeOK
        <5>5. QED
          BY <5>3, <5>4
      <4>4. QED
        BY <4>2, <4>3
    <3>2. QED
      BY <2>6, <3>1 DEF DebriefsAreKept, DateOf
  <2>9. QED
    BY <2>5, <2>7, <2>8 DEF TranscriptInv
<1>2. ASSUME NEW r \in Runs,
             \/ Begin(r) \/ GuardPasses(r) \/ GuardRefuses(r)
             \/ BudgetAdmits(r) \/ BudgetRefuses(r)
             \/ LlmAnswers(r) \/ LlmFails(r) \/ EventFails(r)
             \/ RecheckFindsNone(r) \/ RecheckFindsSummary(r)
             \/ InsertConflicts(r)
      PROVE TranscriptInv'
  <2>1. /\ UNCHANGED <<request, transcripts>>
        /\ stage[r] \notin Succeeded
        /\ \E to : to \notin Succeeded /\ stage' = [stage EXCEPT ![r] = to]
    BY <1>2
    DEF Begin, GuardPasses, GuardRefuses, BudgetAdmits, BudgetRefuses,
        LlmAnswers, LlmFails, EventFails, RecheckFindsNone, RecheckFindsSummary,
        InsertConflicts, Moves, Succeeded, EventFaults, database
  <2>2. QED
    BY <2>1, OtherStepsKeepTranscriptInv DEF TypeOK
<1>3. ASSUME NEW r \in Runs,
             RecordCost(r) \/ PersistEvent(r) \/ InsertSummary(r)
      PROVE TranscriptInv'
  BY <1>3, OtherStepsKeepTranscriptInv
  DEF RecordCost, PersistEvent, InsertSummary, Moves, Succeeded, TypeOK
<1>4. ASSUME NEW r \in Runs, StoreFails(r) \/ Crash(r) PROVE TranscriptInv'
  BY <1>4, OtherStepsKeepTranscriptInv
  DEF StoreFails, Crash, Working, Succeeded, TypeOK, database
<1>5. CASE MonthRolls \/ UNCHANGED vars
  BY <1>5, OtherStepsKeepTranscriptInv DEF MonthRolls, vars, database
<1>6. QED
  BY <1>1, <1>2, <1>3, <1>4, <1>5 DEF Next, Attempt

-----------------------------------------------------------------------------
(* The inductive invariant, and what follows from it. *)
IInv == TypeOK /\ SummaryInv /\ PaidInv /\ TranscriptInv

LEMMA IInvInvariant == Spec => []IInv
<1>1. Init => IInv
  BY DebriefAssumption
  DEF Init, IInv, TypeOK, Requests, SummaryInv, OwnersPastInsert,
      HandledArePersisted, AtMostOneSummary, SuccessHasSummary, Succeeded,
      PaidInv, ChargedAreRecorded, RowsArePaidFor,
      TranscriptInv, SegmentsDiffer, SegmentsAreDebriefed, DebriefsAreKept
<1>2. IInv /\ [Next]_vars => IInv'
  BY TypeInductive, SummaryInductive, PaidInductive, TranscriptInductive DEF IInv
<1>3. QED
  BY <1>1, <1>2, PTL DEF Spec

(* A case_date never has two summaries (migration 0010 and the two checks). *)
THEOREM SummaryUnique == Spec => []AtMostOneSummary
  BY IInvInvariant, PTL DEF IInv, SummaryInv

(* A debrief that reports success leaves a summary for its day. *)
THEOREM SuccessMeansSummary == Spec => []SuccessHasSummary
  BY IInvInvariant, PTL DEF IInv, SummaryInv

(* A summary row closes a fully persisted extract. *)
THEOREM SummaryIsLast == Spec => []SummaryClosesItsRun
<1>1. IInv => SummaryClosesItsRun
  BY DEF IInv, TypeOK, SummaryRows, SummaryInv, OwnersPastInsert,
         HandledArePersisted, SummaryClosesItsRun
<1>2. QED
  BY <1>1, IInvInvariant, PTL

(* No row of a debrief precedes its ledger row. *)
THEOREM PaidFirst == Spec => []RowsArePaidFor
  BY IInvInvariant, PTL DEF IInv, PaidInv

(* The day's transcript holds the texts of its successful debriefs, each once. *)
THEOREM TranscriptsSound == Spec => []TranscriptIsTheDebriefs
  BY IInvInvariant, PTL DEF IInv, TranscriptInv, TranscriptIsTheDebriefs

-----------------------------------------------------------------------------
(* The pipeline implements DaySummary: only InsertSummary touches the       *)
(* owners of a day, and the attempt that does owns no row anywhere.         *)
Owners == [d \in Dates |-> {s.run : s \in {x \in summaries : x.date = d}}]

(* A summary that is inserted is a Record of DaySummary.                    *)
LEMMA InsertRecords ==
  ASSUME IInv, NEW r \in Runs, InsertSummary(r)
  PROVE  Day!Record(DateOf(r), r)
<1>1. DateOf(r) \in Dates
  BY RequestType DEF IInv
<1>2. \A s \in summaries : s.run # r
  BY EarlyOwnNothing DEF IInv, InsertSummary, Moves
<1>3. Owners[DateOf(r)] = {}
  BY <1>1 DEF Owners, InsertSummary, HasSummary
<1>4. \A d \in Dates : r \notin Owners[d]
  BY <1>2 DEF Owners
<1>5. ASSUME NEW d \in Dates
      PROVE  Owners'[d] = IF d = DateOf(r) THEN {r} ELSE Owners[d]
  <2>1. summaries' = summaries \cup {[run |-> r, date |-> DateOf(r)]}
    BY DEF InsertSummary
  <2>2. CASE d = DateOf(r)
    <3>1. \A x \in summaries : x.date # d
      BY <2>2 DEF InsertSummary, HasSummary
    <3>2. {x \in summaries' : x.date = d} = {[run |-> r, date |-> d]}
      BY <2>1, <2>2, <3>1
    <3>3. {s.run : s \in {[run |-> r, date |-> d]}} = {r}
      OBVIOUS
    <3>4. Owners'[d] = {s.run : s \in {x \in summaries' : x.date = d}}
      BY DEF Owners
    <3>5. QED
      BY <2>2, <3>2, <3>3, <3>4
  <2>3. CASE d # DateOf(r)
    <3>1. {x \in summaries' : x.date = d} = {x \in summaries : x.date = d}
      BY <2>1, <2>3
    <3>2. QED
      BY <2>3, <3>1 DEF Owners
  <2>4. QED
    BY <2>2, <2>3
<1>6. Owners' = [Owners EXCEPT ![DateOf(r)] = {r}]
  BY <1>1, <1>5 DEF Owners
<1>7. QED
  BY <1>3, <1>4, <1>6 DEF Day!Record, Day!Fresh, Owners

(* A day's summary is written once and never replaced, whatever attempts    *)
(* overlap, fail or crash: the pipeline implements DaySummary.              *)
THEOREM ImplementsDaySummary == Spec => SummaryWrittenOnce
<1>1. Init => Day!Init
  BY DEF Init, Day!Init
<1>2. IInv /\ [Next]_vars => [Day!Next]_Owners
  <2> SUFFICES ASSUME IInv, [Next]_vars PROVE [Day!Next]_Owners
    OBVIOUS
  <2>1. ASSUME NEW r \in Runs, InsertSummary(r) PROVE Day!Next
    <3>1. DateOf(r) \in Dates
      BY RequestType DEF IInv
    <3>2. Day!Record(DateOf(r), r)
      BY <2>1, InsertRecords
    <3>3. QED
      BY <3>1, <3>2 DEF Day!Next, Day!Record, Day!Fresh
  <2>2. CASE UNCHANGED summaries
    BY <2>2 DEF Owners
  <2>3. QED
    BY <2>1, <2>2
    DEF Next, Attempt, Begin, GuardPasses, GuardRefuses, BudgetAdmits,
        BudgetRefuses, LlmAnswers, LlmFails, RecordCost, PersistEvent,
        EventFails, RecheckFindsNone, RecheckFindsSummary, InsertConflicts,
        KeepTranscript, StoreFails, Crash, MonthRolls, vars, database
<1>3. QED
  BY <1>1, <1>2, IInvInvariant, PTL DEF Spec, SummaryWrittenOnce, Day!Spec, Owners

-----------------------------------------------------------------------------
(* The pipeline implements BudgetGate: an attempt is an admitted call from  *)
(* BudgetAdmits to RecordCost.                                              *)
FewRunning == IsFiniteSet(Running) /\ Cardinality(Running) <= MaxInFlight

(* A set that changes by one attempt leaving, or none, stays small. *)
LEMMA FewRunningInductive ==
  ASSUME TypeOK, FewRunning, [Next]_vars
  PROVE  FewRunning'
<1>1. CASE \E r \in Runs : Begin(r)
  <2>1. PICK r \in Runs : Begin(r)
    BY <1>1
  <2>2. Running' = Running \cup {r} /\ r \notin Running
    BY <2>1 DEF Begin, Moves, Running, Working, TypeOK
  <2>3. /\ IsFiniteSet(Running')
        /\ Cardinality(Running') = Cardinality(Running) + 1
    BY <2>2, FS_AddElement DEF FewRunning
  <2>4. Cardinality(Running) < MaxInFlight /\ Cardinality(Running) \in Nat
    BY <2>1, FS_CardinalityType DEF Begin, FewRunning
  <2>5. QED
    BY <2>3, <2>4, DebriefAssumption DEF FewRunning
<1>2. CASE Running' \subseteq Running
  BY <1>2, FS_Subset, FS_CardinalityType, DebriefAssumption DEF FewRunning
<1>3. (\E r \in Runs : Begin(r)) \/ Running' \subseteq Running
  BY DEF Next, Attempt, GuardPasses, GuardRefuses, BudgetAdmits,
         BudgetRefuses, LlmAnswers, LlmFails, RecordCost, PersistEvent,
         EventFails, RecheckFindsNone, RecheckFindsSummary, InsertSummary,
         InsertConflicts, KeepTranscript, StoreFails, Crash, MonthRolls, vars,
         Moves, Running, Working, TypeOK
<1>4. QED
  BY <1>1, <1>2, <1>3

(* An attempt about to ask the meter runs and is not in its call, so fewer  *)
(* calls are under way than attempts.                                       *)
LEMMA RoomForOneMore ==
  ASSUME TypeOK, FewRunning, NEW r \in Runs, stage[r] = "budget"
  PROVE  Cardinality(InCall) < MaxInFlight
<1>1. /\ InCall \subseteq Running \ {r} /\ r \in Running
  BY DEF InCall, Running, Working
<1>2. /\ IsFiniteSet(Running \ {r})
      /\ Cardinality(Running \ {r}) = Cardinality(Running) - 1
  BY <1>1, FS_RemoveElement DEF FewRunning
<1>3. /\ Cardinality(InCall) <= Cardinality(Running \ {r})
      /\ IsFiniteSet(InCall)
  BY <1>1, <1>2, FS_Subset
<1>4. Cardinality(InCall) \in Nat /\ Cardinality(Running) \in Nat
  BY <1>3, FS_CardinalityType DEF FewRunning
<1>5. QED
  BY <1>2, <1>3, <1>4, DebriefAssumption DEF FewRunning

(* The gate counts with the Cardinality of its own copy of FiniteSets. *)
LEMMA SameCardinality ==
  Gate!Cardinality(InCall) = Cardinality(InCall)
  BY DEF Gate!Cardinality, Cardinality

(* Each step is one of the gate or leaves its variables alone.              *)
LEMMA GateStep ==
  ASSUME TypeOK, FewRunning, [Next]_vars
  PROVE  [Gate!Next]_<<spent, InCall>>
<1>1. ASSUME NEW r \in Runs, BudgetAdmits(r) PROVE Gate!Admit(r)
  <2>1. r \notin InCall /\ InCall' = InCall \cup {r}
    BY <1>1 DEF BudgetAdmits, Moves, InCall, TypeOK
  <2>2. Cardinality(InCall) < MaxInFlight
    BY <1>1, RoomForOneMore DEF BudgetAdmits, Moves
  <2>3. QED
    BY <1>1, <2>1, <2>2, SameCardinality DEF BudgetAdmits, database, Gate!Admit
<1>2. ASSUME NEW r \in Runs, RecordCost(r) PROVE Gate!Charge(r)
  <2>1. r \in InCall /\ InCall' = InCall \ {r}
    BY <1>2 DEF RecordCost, Moves, InCall, TypeOK
  <2>2. QED
    BY <1>2, <2>1 DEF RecordCost, Gate!Charge
<1>3. ASSUME NEW r \in Runs, r \in InCall,
             LlmFails(r) \/ StoreFails(r) \/ Crash(r)
      PROVE Gate!Abandon({r}) /\ {r} \in SUBSET InCall
  <2>1. InCall' = InCall \ {r}
    BY <1>3 DEF LlmFails, StoreFails, Crash, Moves, InCall, TypeOK
  <2>2. QED
    BY <1>3, <2>1 DEF LlmFails, StoreFails, Crash, database, Gate!Abandon
<1>4. CASE MonthRolls
  <2>1. InCall' = InCall
    BY <1>4 DEF MonthRolls, InCall
  <2>2. QED
    BY <1>4, <2>1 DEF MonthRolls, Gate!MonthRolls, Gate!Next
<1>5. ASSUME NEW r \in Runs, r \notin InCall, StoreFails(r) \/ Crash(r)
      PROVE UNCHANGED <<spent, InCall>>
  BY <1>5 DEF StoreFails, Crash, database, InCall, TypeOK
<1>6. ASSUME NEW r \in Runs,
             \/ Begin(r) \/ GuardPasses(r) \/ GuardRefuses(r) \/ BudgetRefuses(r)
             \/ LlmAnswers(r) \/ PersistEvent(r) \/ EventFails(r)
             \/ RecheckFindsNone(r) \/ RecheckFindsSummary(r)
             \/ InsertSummary(r) \/ InsertConflicts(r) \/ KeepTranscript(r)
      PROVE UNCHANGED <<spent, InCall>>
  BY <1>6
  DEF Begin, GuardPasses, GuardRefuses, BudgetRefuses, LlmAnswers,
      PersistEvent, EventFails, EventFaults, RecheckFindsNone,
      RecheckFindsSummary, InsertSummary, InsertConflicts, KeepTranscript,
      Moves, database, InCall, TypeOK
<1>7. ASSUME NEW r \in Runs, LlmFails(r) PROVE r \in InCall
  BY <1>7 DEF LlmFails, Moves, InCall
<1>8. CASE UNCHANGED vars
  BY <1>8 DEF vars, database, InCall
<1>9. QED
  BY <1>1, <1>2, <1>3, <1>4, <1>5, <1>6, <1>7, <1>8
  DEF Next, Attempt, Gate!Next

(* Between its budget check and its ledger row a debrief follows the gate's *)
(* protocol.                                                                *)
THEOREM ImplementsBudgetGate == Spec => GatedCalls
<1>1. Init => Gate!Init /\ FewRunning
  <2> SUFFICES ASSUME Init PROVE Gate!Init /\ FewRunning
    OBVIOUS
  <2>1. InCall = {} /\ Running = {}
    BY DEF Init, InCall, Running, Working
  <2>2. QED
    BY <2>1, FS_EmptySet, DebriefAssumption DEF Init, Gate!Init, FewRunning
<1>2. TypeOK /\ FewRunning /\ [Next]_vars => FewRunning'
  BY FewRunningInductive
<1>3. TypeOK /\ FewRunning /\ [Next]_vars => [Gate!Next]_<<spent, InCall>>
  BY GateStep
<1>4. QED
  BY <1>1, <1>2, <1>3, TypeCorrect, PTL DEF Spec, GatedCalls, Gate!Spec, Gate!vars

(* Hence the gate's bound holds for the debriefs of a month. *)
GateTheory == INSTANCE BudgetGate_proofs WITH Calls <- Runs, admitted <- InCall

(* What debriefs spend in a month, by the refinement: the cap and what the  *)
(* calls in flight can add to it.                                           *)
THEOREM DebriefSpendBound == Spec => []SpendWithinBound
<1>1. GateTheory!GateAssumption
  BY DebriefAssumption DEF GateTheory!GateAssumption
<1>2. GateTheory!Spec => []GateTheory!SpendBound
  BY <1>1, GateTheory!Overspend
<1>3. GatedCalls => GateTheory!Spec
  <2>1. Gate!Init => GateTheory!Init
    BY DEF Gate!Init, GateTheory!Init
  <2>2. Gate!Cardinality(InCall) = GateTheory!Cardinality(InCall)
    BY DEF Gate!Cardinality, GateTheory!Cardinality
  <2>3. [Gate!Next]_<<spent, InCall>> => [GateTheory!Next]_<<spent, InCall>>
    BY <2>2
    DEF Gate!Next, Gate!Admit, Gate!Charge, Gate!Abandon, Gate!MonthRolls,
        GateTheory!Next, GateTheory!Admit, GateTheory!Charge,
        GateTheory!Abandon, GateTheory!MonthRolls
  <2>4. QED
    BY <2>1, <2>3, PTL
    DEF GatedCalls, Gate!Spec, Gate!vars, GateTheory!Spec, GateTheory!vars
<1>4. GateTheory!SpendBound => SpendWithinBound
  BY DEF GateTheory!SpendBound, SpendWithinBound, Gate!SpendBound
<1>5. QED
  BY <1>2, <1>3, <1>4, ImplementsBudgetGate, PTL
=============================================================================
