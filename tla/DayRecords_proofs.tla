------------------------- MODULE DayRecords_proofs -------------------------
(***************************************************************************)
(* What the fence of a re-extraction protects, for every number of days,   *)
(* texts, debriefs, re-extractions and privacy actions: nothing erased     *)
(* comes back, and what was paid is billed once.                           *)
(***************************************************************************)
EXTENDS DayRecords, TLAPS

(* What the pipeline's own variables are, as far as its rows depend on them. *)
PipelineTypeOK ==
  /\ request \in [Debriefs -> Pipeline!Requests]
  /\ planned \in [Debriefs -> 0..MaxEvents]
  /\ handled \in [Debriefs -> 0..MaxEvents]

Types == TypeOK /\ PipelineTypeOK

(* A row of a re-extraction is there only since its replacement. *)
RowsOfReplays ==
  \A e \in events : e.run \in Replays => step[e.run] = "replaced"

(* While a fence stands, nothing its replay has read was erased. *)
FencesHold ==
  \A x \in Replays :
    /\ fence[x] <= actions
    /\ fence[x] = actions /\ step[x] \in {"source", "copy", "extract", "replace"} =>
         order[x].given \notin erased[DayOf(x)]
    /\ fence[x] = actions /\ step[x] \in {"copy", "extract", "replace"} =>
         source[x] \cap erased[DayOf(x)] = {}

IInv == Types /\ RowsOfReplays /\ FencesHold /\ ErasedStaysErased /\ ReplayBilledOnce

-----------------------------------------------------------------------------
(* A debrief's step keeps the types: PersistEvent counts up to its extract's *)
(* length, and a merged transcript is made of the old one and the request.   *)
LEMMA DebriefTypes == Types /\ DebriefStep => Types'
<1> SUFFICES ASSUME Types, DebriefStep PROVE Types'
  OBVIOUS
<1> USE DayRecordsAssumption
<1>1. /\ UNCHANGED <<blank, billed, replays, actions>>
      /\ erased' \in [Dates -> SUBSET Texts]
  BY DEF DebriefStep, Types, TypeOK
<1>2. SUFFICES /\ PipelineTypeOK'
               /\ events' \subseteq Pipeline!EventRows \cup ReplayRows
               /\ summaries' \subseteq [run : Debriefs \cup Replays, date : Dates]
               /\ transcripts' \in [Dates -> Seq(Texts \cup {Redacted})]
               /\ spent' \in Nat
  BY <1>1 DEF Types, TypeOK, replays
<1> USE DEF Types, TypeOK, PipelineTypeOK
<1>3. CASE \E r \in Debriefs : Pipeline!PersistEvent(r)
  <2>1. PICK r \in Debriefs : Pipeline!PersistEvent(r)
    BY <1>3
  <2>2. handled[r] + 1 \in 1..MaxEvents /\ handled[r] + 1 \in 0..MaxEvents
    BY <2>1 DEF Pipeline!PersistEvent
  <2>3. [run |-> r, nr |-> handled[r] + 1, date |-> Pipeline!DateOf(r)]
          \in Pipeline!EventRows
    BY <2>2 DEF Pipeline!EventRows, Pipeline!DateOf, Pipeline!Requests
  <2>4. QED
    BY <2>1, <2>2, <2>3 DEF Pipeline!PersistEvent
<1>4. CASE \E r \in Debriefs : Pipeline!InsertSummary(r)
  BY <1>4 DEF Pipeline!InsertSummary, Pipeline!Moves, Pipeline!DateOf, Pipeline!Requests
<1>5. CASE \E r \in Debriefs : Pipeline!KeepTranscript(r)
  <2>1. PICK r \in Debriefs : Pipeline!KeepTranscript(r)
    BY <1>5
  <2>2. Pipeline!DateOf(r) \in Dates /\ request[r].text \in Texts
    BY DEF Pipeline!DateOf, Pipeline!Requests
  <2>3. Pipeline!Merged(transcripts[Pipeline!DateOf(r)], request[r].text)
          \in Seq(Texts \cup {Redacted})
    BY <2>2 DEF Pipeline!Merged
  <2>4. QED
    BY <2>1, <2>2, <2>3 DEF Pipeline!KeepTranscript, Pipeline!Moves
<1>6. CASE \E r \in Debriefs : Pipeline!RecordCost(r)
  BY <1>6 DEF Pipeline!RecordCost, Pipeline!Moves
<1>7. CASE \E r \in Debriefs : Pipeline!LlmAnswers(r)
  <2>1. planned' \in [Debriefs -> 0..MaxEvents]
    BY <1>7 DEF Pipeline!LlmAnswers
  <2>2. QED
    BY <1>7, <2>1 DEF Pipeline!LlmAnswers, Pipeline!database
<1>8. CASE Pipeline!MonthRolls
  BY <1>8 DEF Pipeline!MonthRolls
<1>9. CASE UNCHANGED <<request, planned, handled, events, summaries, spent, transcripts>>
  BY <1>9
<1>10. QED
  BY <1>3, <1>4, <1>5, <1>6, <1>7, <1>8, <1>9
  DEF DebriefStep, Pipeline!Next, Pipeline!Attempt, Pipeline!Begin,
      Pipeline!GuardPasses, Pipeline!GuardRefuses, Pipeline!BudgetAdmits,
      Pipeline!BudgetRefuses, Pipeline!LlmFails, Pipeline!EventFails,
      Pipeline!RecheckFindsNone, Pipeline!RecheckFindsSummary,
      Pipeline!InsertConflicts, Pipeline!StoreFails, Pipeline!Crash,
      Pipeline!Moves, Pipeline!database

(* A re-extraction's step keeps the types. *)
LEMMA ReplayTypes == Types /\ (\E x \in Replays : Replay(x)) => Types'
<1> SUFFICES ASSUME Types, NEW x \in Replays, Replay(x) PROVE Types'
  OBVIOUS
<1> USE DayRecordsAssumption
    DEF Types, TypeOK, PipelineTypeOK, Steps, Orders, Moves, DayOf,
        pipeline, rows, ledger, replays
<1>1. DayOf(x) \in Dates
  OBVIOUS
<1>2. CASE ReadFence(x)
  BY <1>1, <1>2 DEF ReadFence
<1>3. CASE ReadSource(x)
  <2>1. Segments(DayOf(x)) \ {Redacted} \subseteq Texts
    BY <1>1 DEF Segments
  <2>2. step' \in [Replays -> Steps]
    <3>1. \/ step' = [step EXCEPT ![x] = "copy"]
          \/ step' = [step EXCEPT ![x] = "aborted"]
      BY <1>3 DEF ReadSource
    <3>2. QED
      BY <3>1
  <2>3. source' \in [Replays -> SUBSET Texts]
    BY <1>1, <1>3, <2>1 DEF ReadSource
  <2>4. QED
    BY <1>3, <2>2, <2>3 DEF ReadSource
<1>4. CASE CopyDatabase(x)
  BY <1>4 DEF CopyDatabase
<1>5. CASE ExtractRefused(x) \/ ExtractFails(x) \/ ReplaceFails(x) \/ AppendFails(x)
  BY <1>5 DEF ExtractRefused, ExtractFails, ReplaceFails, AppendFails
<1>6. CASE Extracts(x)
  BY <1>6 DEF Extracts
<1>7. CASE Replace(x)
  <2>1. [run : {x}, nr : 1..found[x], date : {DayOf(x)}] \subseteq ReplayRows
    BY <1>1 DEF ReplayRows
  <2>2. events' \subseteq Pipeline!EventRows \cup ReplayRows
    BY <1>7, <2>1 DEF Replace, ReplacedRows
  <2>3. summaries' \subseteq [run : Debriefs \cup Replays, date : Dates]
    BY <1>1, <1>7 DEF Replace, ReplacedRows
  <2>4. transcripts' \in [Dates -> Seq(Texts \cup {Redacted})]
    BY <1>1, <1>7 DEF Replace
  <2>5. billed' \in [Replays -> Nat] /\ spent' \in Nat
    BY <1>7 DEF Replace, Bill
  <2>6. QED
    BY <1>7, <2>2, <2>3, <2>4, <2>5 DEF Replace, ReplacedRows
<1>8. CASE AppendCost(x)
  <2>1. billed' \in [Replays -> Nat] /\ spent' \in Nat
    BY <1>8 DEF AppendCost, Bill
  <2>2. QED
    BY <1>8, <2>1 DEF AppendCost, Bill
<1>9. CASE ReplayCrashes(x)
  BY <1>9 DEF ReplayCrashes
<1>10. QED
  BY <1>2, <1>3, <1>4, <1>5, <1>6, <1>7, <1>8, <1>9 DEF Replay

(* A day shows only texts that were submitted for it. *)
LEMMA VisibleTexts ==
  ASSUME Types, NEW d \in Dates
  PROVE  Visible(d) \subseteq Texts
<1>1. Segments(d) \ {Redacted} \subseteq Texts
  BY DEF Types, TypeOK, Segments
<1>2. ASSUME NEW e \in events PROVE TextsOf(e.run) \subseteq Texts
  BY <1>2 DEF Types, TypeOK, PipelineTypeOK, TextsOf, ReplayRows,
              Pipeline!EventRows, Pipeline!Requests
<1>3. QED
  BY <1>1, <1>2 DEF Visible

(* So does a privacy action's. *)
LEMMA PrivacyTypes == Types /\ (\E d \in Dates : PrivacyAction(d)) => Types'
<1> SUFFICES ASSUME Types, NEW d \in Dates, PrivacyAction(d) PROVE Types'
  OBVIOUS
<1> USE DayRecordsAssumption
<1>1. Logged(d)
  BY DEF PrivacyAction, ForgetDay, ForgetEvent, RedactDay, RedactEvent, UnknownEvent
<1>2. erased' \in [Dates -> SUBSET Texts]
  BY <1>1, VisibleTexts DEF Logged, Types, TypeOK
<1>3. transcripts' \in [Dates -> Seq(Texts \cup {Redacted})]
  <2>1. <<>> \in Seq(Texts \cup {Redacted}) /\ <<Redacted>> \in Seq(Texts \cup {Redacted})
    OBVIOUS
  <2>2. \/ transcripts' = transcripts
        \/ transcripts' = [transcripts EXCEPT ![d] = <<>>]
        \/ transcripts' = [transcripts EXCEPT ![d] = <<Redacted>>]
    BY DEF PrivacyAction, ForgetDay, ForgetEvent, RedactDay, RedactEvent, UnknownEvent,
           RedactTranscript, rows
  <2>3. QED
    BY <2>1, <2>2 DEF Types, TypeOK
<1>4. events' \subseteq events /\ summaries' \subseteq summaries
  BY DEF PrivacyAction, ForgetDay, ForgetEvent, RedactDay, RedactEvent, UnknownEvent,
         rows
<1>5. blank' \subseteq blank \cup events
  BY DEF PrivacyAction, ForgetDay, ForgetEvent, RedactDay, RedactEvent, UnknownEvent,
         rows
<1>6. QED
  BY <1>1, <1>2, <1>3, <1>4, <1>5 DEF Logged, Types, TypeOK, PipelineTypeOK, pipeline, ledger,
                          replays

LEMMA TypesInductive == Types /\ [Next]_vars => Types'
<1>1. Types /\ UNCHANGED vars => Types'
  BY DEF Types, TypeOK, PipelineTypeOK, vars, pipeline, rows, ledger, replays
<1>2. QED
  BY <1>1, DebriefTypes, ReplayTypes, PrivacyTypes DEF Next
-----------------------------------------------------------------------------
(* What a day shows, text by text. *)
LEMMA VisibleText ==
  ASSUME NEW d \in Dates, NEW t
  PROVE  t \in Visible(d) <=>
           \/ t # Redacted /\ \E i \in DOMAIN transcripts[d] : t = transcripts[d][i]
           \/ \E e \in events \ blank : e.date = d /\ t \in TextsOf(e.run)
  BY DEF Visible, Segments

LEMMA VisibleTextNext ==
  ASSUME NEW d \in Dates, NEW t
  PROVE  t \in Visible(d)' <=>
           \/ t # Redacted /\ \E i \in DOMAIN transcripts'[d] : t = transcripts'[d][i]
           \/ \E e \in events' \ blank' : e.date = d /\ t \in TextsOf(e.run)'
  BY DEF Visible, Segments

(* A step that leaves the rows alone, and what their runs read, leaves what  *)
(* the day shows.                                                            *)
LEMMA VisibleStays ==
  ASSUME UNCHANGED <<rows, request>>, NEW d \in Dates,
         \A e \in events : e.run \in Replays => source'[e.run] = source[e.run],
         \A e \in events : e.run \in Debriefs \cup Replays
  PROVE  Visible(d)' = Visible(d)
<1>1. \A e \in events : TextsOf(e.run)' = TextsOf(e.run)
  BY DEF TextsOf
<1>2. ASSUME NEW t PROVE t \in Visible(d)' <=> t \in Visible(d)
  BY <1>1, VisibleText, VisibleTextNext DEF rows
<1>3. QED
  BY <1>2

LEMMA RunsOfRows ==
  ASSUME Types
  PROVE  \A e \in events : e.run \in Debriefs \cup Replays /\ e.date \in Dates
  BY DEF Types, TypeOK, ReplayRows, Pipeline!EventRows

(* Debriefs: their rows are theirs, and what they write is not erased. *)
LEMMA DebriefSafe == IInv /\ DebriefStep => IInv'
<1> SUFFICES ASSUME IInv, DebriefStep PROVE IInv'
  OBVIOUS
<1>1. Types'
  BY DebriefTypes DEF IInv
<1>2. UNCHANGED <<blank, billed, replays, actions>>
  BY DEF DebriefStep
<1>3. \A d \in Dates : erased'[d] = erased[d] \ Visible(d)'
  BY DEF DebriefStep
<1>4. \A e \in events' : e \in events \/ e.run \in Debriefs
  BY DEF DebriefStep, Pipeline!Next, Pipeline!Attempt, Pipeline!Begin,
      Pipeline!GuardPasses, Pipeline!GuardRefuses, Pipeline!BudgetAdmits,
      Pipeline!BudgetRefuses, Pipeline!LlmAnswers, Pipeline!LlmFails,
      Pipeline!RecordCost, Pipeline!PersistEvent, Pipeline!EventFails,
      Pipeline!RecheckFindsNone, Pipeline!RecheckFindsSummary,
      Pipeline!InsertSummary, Pipeline!InsertConflicts, Pipeline!KeepTranscript,
      Pipeline!StoreFails, Pipeline!Crash, Pipeline!MonthRolls, Pipeline!database
<1>5. RowsOfReplays'
  BY <1>2, <1>4, DayRecordsAssumption DEF IInv, RowsOfReplays, replays
<1>6. FencesHold'
  <2>1. \A x \in Replays : DayOf(x) \in Dates /\ DayOf(x)' = DayOf(x)
    BY <1>2 DEF IInv, Types, TypeOK, Orders, DayOf, replays
  <2>2. QED
    BY <1>2, <1>3, <2>1 DEF IInv, FencesHold, replays
<1>7. ErasedStaysErased'
  BY <1>3 DEF ErasedStaysErased
<1>8. ReplayBilledOnce'
  BY <1>2 DEF IInv, ReplayBilledOnce, replays
<1>9. QED
  BY <1>1, <1>5, <1>6, <1>7, <1>8 DEF IInv

(* Privacy actions: every fence is stale, and the day shows nothing erased. *)
LEMMA PrivacySafe == IInv /\ (\E d \in Dates : PrivacyAction(d)) => IInv'
<1> SUFFICES ASSUME IInv, NEW d \in Dates, PrivacyAction(d) PROVE IInv'
  OBVIOUS
<1>1. Types'
  BY PrivacyTypes DEF IInv
<1>2. Logged(d)
  BY DEF PrivacyAction, ForgetDay, ForgetEvent, RedactDay, RedactEvent, UnknownEvent
<1>3. events' \subseteq events
  BY DEF PrivacyAction, ForgetDay, ForgetEvent, RedactDay, RedactEvent, UnknownEvent,
         rows
<1>4. RowsOfReplays'
  BY <1>2, <1>3 DEF IInv, RowsOfReplays, Logged, replays
<1>5. FencesHold'
  BY <1>2, DayRecordsAssumption
  DEF IInv, FencesHold, Logged, replays, Types, TypeOK
<1>6. ErasedStaysErased'
  <2>1. ASSUME NEW c \in Dates, c # d PROVE Visible(c)' \subseteq Visible(c)
    <3>1. transcripts'[c] = transcripts[c]
      BY <2>1 DEF PrivacyAction, ForgetDay, ForgetEvent, RedactDay, RedactEvent,
                  UnknownEvent, RedactTranscript, rows, IInv, Types, TypeOK
    <3>2. blank \subseteq blank'
      BY DEF PrivacyAction, ForgetDay, ForgetEvent, RedactDay, RedactEvent,
             UnknownEvent, rows
    <3>3. \A e \in events : TextsOf(e.run)' = TextsOf(e.run)
      BY <1>2 DEF Logged, TextsOf, replays, pipeline
    <3>4. ASSUME NEW t \in Visible(c)' PROVE t \in Visible(c)
      BY <3>1, <3>2, <3>3, <3>4, <1>3, VisibleText, VisibleTextNext
    <3>5. QED
      BY <3>4
  <2>2. /\ erased'[d] \cap Visible(d)' = {}
        /\ \A c \in Dates : c # d => erased'[c] = erased[c]
    BY <1>2 DEF Logged, IInv, Types, TypeOK
  <2>3. QED
    BY <2>1, <2>2 DEF IInv, ErasedStaysErased
<1>7. ReplayBilledOnce'
  BY <1>2 DEF IInv, ReplayBilledOnce, Logged, replays, ledger
<1>8. QED
  BY <1>1, <1>4, <1>5, <1>6, <1>7 DEF IInv

(* The steps of a re-extraction that touch no row: each fence goes on to     *)
(* cover what its replay has read, ReadSource included, since what a day     *)
(* shows is not erased.                                                      *)
LEMMA ReadingSafe ==
  ASSUME IInv, NEW x \in Replays, Replay(x), ~Replace(x)
  PROVE  IInv'
<1> USE DayRecordsAssumption
<1>1. Types'
  BY ReplayTypes DEF IInv
<1>2. UNCHANGED <<rows, pipeline, order, actions>>
  BY DEF Replay, ReadFence, ReadSource, CopyDatabase, ExtractRefused, ExtractFails,
         Extracts, ReplaceFails, AppendCost, AppendFails, ReplayCrashes, ledger
<1>3. /\ step[x] \notin {"replaced", "aborted"}
      /\ step'[x] # "replaced"
      /\ \A y \in Replays : y # x => step'[y] = step[y]
  BY DEF IInv, Types, TypeOK, Replay, ReadFence, ReadSource, CopyDatabase,
         ExtractRefused, ExtractFails, Extracts, ReplaceFails, AppendCost,
         AppendFails, ReplayCrashes, Moves
<1>4. /\ \A d \in Dates : erased'[d] \subseteq erased[d]
      /\ \A y \in Replays : y # x => source'[y] = source[y] /\ fence'[y] = fence[y]
  BY DEF IInv, Types, TypeOK, Replay, ReadFence, ReadSource, CopyDatabase,
         ExtractRefused, ExtractFails, Extracts, ReplaceFails, AppendCost,
         AppendFails, ReplayCrashes
<1>5. RowsOfReplays'
  BY <1>2, <1>3 DEF IInv, RowsOfReplays, rows
<1>6. ErasedStaysErased'
  <2>1. ASSUME NEW d \in Dates PROVE Visible(d)' = Visible(d)
    <3>1. \A e \in events : e.run \in Replays => source'[e.run] = source[e.run]
      BY <1>3, <1>4 DEF IInv, RowsOfReplays
    <3>2. \A e \in events : e.run \in Debriefs \cup Replays
      BY RunsOfRows DEF IInv
    <3>3. UNCHANGED <<rows, request>>
      BY <1>2 DEF pipeline
    <3>4. QED
      BY <3>1, <3>2, <3>3, VisibleStays
  <2>2. QED
    BY <1>4, <2>1 DEF IInv, ErasedStaysErased
<1>7. FencesHold'
  <2>1. \A y \in Replays : DayOf(y) \in Dates /\ DayOf(y)' = DayOf(y)
    BY <1>2 DEF IInv, Types, TypeOK, Orders, DayOf
  <2> DEFINE Fenced(y) ==
        /\ fence[y] <= actions
        /\ fence[y] = actions /\ step[y] \in {"source", "copy", "extract", "replace"} =>
             order[y].given \notin erased[DayOf(y)]
        /\ fence[y] = actions /\ step[y] \in {"copy", "extract", "replace"} =>
             source[y] \cap erased[DayOf(y)] = {}
  <2>2. ASSUME NEW y \in Replays, y # x PROVE Fenced(y)'
    BY <1>2, <1>3, <1>4, <2>1, <2>2 DEF IInv, FencesHold
  <2>3. Fenced(x)'
    <3>1. CASE ReadFence(x)
      BY <1>2, <2>1, <3>1 DEF ReadFence, Moves, IInv, Types, TypeOK
    <3>2. CASE ReadSource(x)
      <4>1. CASE step'[x] = "aborted"
        BY <1>2, <1>4, <2>1, <3>2, <4>1 DEF ReadSource, IInv, FencesHold
      <4>2. CASE step'[x] = "copy"
        <5>1. \/ order[x].given # NoText /\ source'[x] = {order[x].given}
              \/ source'[x] = Segments(DayOf(x)) \ {Redacted}
          BY <3>2, <4>2 DEF ReadSource, Moves, IInv, Types, TypeOK
        <5>2. (Segments(DayOf(x)) \ {Redacted}) \cap erased[DayOf(x)] = {}
          BY <2>1 DEF IInv, ErasedStaysErased, Visible
        <5>3. step[x] = "source" /\ fence'[x] = fence[x] /\ erased' = erased
          BY <3>2 DEF ReadSource, Moves
        <5>4. QED
          BY <1>2, <2>1, <4>2, <5>1, <5>2, <5>3 DEF IInv, FencesHold
      <4>3. QED
        BY <3>2, <4>1, <4>2 DEF ReadSource, Moves, IInv, Types, TypeOK
    <3>3. CASE CopyDatabase(x) \/ Extracts(x)
      BY <1>2, <2>1, <3>3 DEF CopyDatabase, Extracts, Moves, IInv, FencesHold, Types, TypeOK
    <3>4. CASE \/ ExtractRefused(x) \/ ExtractFails(x) \/ ReplaceFails(x)
               \/ AppendCost(x) \/ AppendFails(x) \/ ReplayCrashes(x)
      BY <1>2, <2>1, <3>4
      DEF ExtractRefused, ExtractFails, ReplaceFails, AppendCost, AppendFails,
          ReplayCrashes, Moves, IInv, FencesHold, Types, TypeOK
    <3>5. QED
      BY <3>1, <3>2, <3>3, <3>4 DEF Replay
  <2>4. QED
    BY <2>2, <2>3 DEF FencesHold
<1>8. ReplayBilledOnce'
  <2>1. CASE AppendCost(x)
    BY <2>1 DEF AppendCost, Bill, Moves, IInv, ReplayBilledOnce, Types, TypeOK
  <2>2. CASE billed' = billed
    BY <1>3, <2>2 DEF IInv, ReplayBilledOnce
  <2>3. QED
    BY <2>1, <2>2
    DEF Replay, ReadFence, ReadSource, CopyDatabase, ExtractRefused, ExtractFails,
        Extracts, ReplaceFails, AppendFails, ReplayCrashes, ledger
<1>9. QED
  BY <1>1, <1>5, <1>6, <1>7, <1>8 DEF IInv

(* The replacement: its fence stands, so what it read was not erased. *)
LEMMA ReplaceSafe ==
  ASSUME IInv, NEW x \in Replays, Replace(x)
  PROVE  IInv'
<1> USE DayRecordsAssumption
<1>1. Types'
  BY ReplayTypes DEF IInv, Replay
<1>2. /\ actions = fence[x] /\ step[x] = "replace" /\ step'[x] = "replaced"
      /\ UNCHANGED <<pipeline, order, fence, source, actions, erased, blank>>
      /\ \A y \in Replays : y # x => step'[y] = step[y]
  BY DEF Replace, ReplacedRows, Moves, IInv, Types, TypeOK
<1>3. /\ source[x] \cap erased[DayOf(x)] = {}
      /\ order[x].given \notin erased[DayOf(x)]
  BY <1>2 DEF IInv, FencesHold
<1>4. events' = {e \in events : e.date # DayOf(x)}
                  \cup [run : {x}, nr : 1..found[x], date : {DayOf(x)}]
  BY DEF Replace, ReplacedRows
<1>5. RowsOfReplays'
  BY <1>2, <1>4 DEF IInv, RowsOfReplays
<1>6. FencesHold'
  BY <1>2 DEF IInv, FencesHold, DayOf
<1>7. ErasedStaysErased'
  <2>1. \A r \in Debriefs \cup Replays : TextsOf(r)' = TextsOf(r)
    BY <1>2 DEF TextsOf, pipeline
  <2>2. TextsOf(x) = source[x]
    BY DEF TextsOf
  <2>3. ASSUME NEW d \in Dates, NEW t \in erased[d], t \in Visible(d)'
        PROVE  FALSE
    <3>1. t \notin Visible(d)
      BY <2>3 DEF IInv, ErasedStaysErased
    <3>2. CASE t # Redacted /\ \E i \in DOMAIN transcripts'[d] : t = transcripts'[d][i]
      <4>1. CASE transcripts'[d] = transcripts[d]
        BY <3>1, <3>2, <4>1, VisibleText
      <4>2. CASE d = DayOf(x) /\ transcripts'[d] = <<order[x].given>>
        BY <1>3, <2>3, <3>2, <4>2
      <4>3. QED
        BY <4>1, <4>2 DEF Replace, IInv, Types, TypeOK
    <3>3. CASE \E e \in events' \ blank' : e.date = d /\ t \in TextsOf(e.run)'
      <4>1. PICK e \in events' \ blank' : e.date = d /\ t \in TextsOf(e.run)'
        BY <3>3
      <4>2. CASE e \in events
        <5>1. e.run \in Debriefs \cup Replays
          BY <4>2, RunsOfRows DEF IInv
        <5>2. QED
          BY <1>2, <2>1, <3>1, <4>1, <4>2, <5>1, VisibleText
      <4>3. CASE e \in [run : {x}, nr : 1..found[x], date : {DayOf(x)}]
        BY <1>3, <2>1, <2>2, <2>3, <4>1, <4>3
      <4>4. QED
        BY <1>4, <4>1, <4>2, <4>3
    <3>4. QED
      BY <2>3, <3>2, <3>3, VisibleTextNext
  <2>4. QED
    BY <1>2, <2>3 DEF ErasedStaysErased
<1>8. ReplayBilledOnce'
  <2>1. billed[x] = 0
    BY <1>2 DEF IInv, ReplayBilledOnce
  <2>2. billed' = [billed EXCEPT ![x] = @ + 1]
    BY DEF Replace, Bill
  <2>3. billed'[x] = 1 /\ \A y \in Replays : y # x => billed'[y] = billed[y]
    BY <2>1, <2>2 DEF IInv, Types, TypeOK
  <2>4. QED
    BY <1>2, <2>3 DEF IInv, ReplayBilledOnce
<1>9. QED
  BY <1>1, <1>5, <1>6, <1>7, <1>8 DEF IInv

-----------------------------------------------------------------------------
LEMMA IInvInitially == Init => IInv
<1> SUFFICES ASSUME Init PROVE IInv
  OBVIOUS
<1> USE DayRecordsAssumption DEF Init, Pipeline!Init
<1>1. Types
  <2>1. \A d \in Dates : transcripts[d] \in Seq(Texts \cup {Redacted})
    OBVIOUS
  <2>2. QED
    BY <2>1 DEF Types, TypeOK, PipelineTypeOK, Steps, Orders
<1>2. RowsOfReplays /\ ErasedStaysErased /\ ReplayBilledOnce
  BY DEF RowsOfReplays, ErasedStaysErased, ReplayBilledOnce
<1>3. FencesHold
  BY DEF FencesHold
<1>4. QED
  BY <1>1, <1>2, <1>3 DEF IInv

LEMMA IInvInductive == IInv /\ [Next]_vars => IInv'
<1>1. IInv /\ UNCHANGED vars => IInv'
  BY DEF IInv, Types, TypeOK, PipelineTypeOK, RowsOfReplays, FencesHold,
         ErasedStaysErased, ReplayBilledOnce, Visible, Segments, TextsOf, DayOf,
         vars, pipeline, rows, ledger, replays
<1>2. QED
  BY <1>1, DebriefSafe, ReadingSafe, ReplaceSafe, PrivacySafe DEF Next

(* For any number of debriefs, replays and privacy actions: IInv.           *)
THEOREM IInvInvariant == Spec => []IInv
  BY IInvInitially, IInvInductive, PTL DEF Spec

(* The rows of a day, its log and its re-extractions stay well typed. *)
THEOREM TypeCorrect == Spec => []TypeOK
<1>1. IInv => TypeOK
  BY DEF IInv, Types
<1>2. QED
  BY <1>1, IInvInvariant, PTL

(* Whatever a privacy action takes from a day, no re-extraction brings back: *)
(* the fence of _replace_debrief_events is enough.                           *)
THEOREM FenceProtects == Spec => []ErasedStaysErased
<1>1. IInv => ErasedStaysErased
  BY DEF IInv
<1>2. QED
  BY <1>1, IInvInvariant, PTL

(* No path through reextract enters the cost of a replay twice, and none     *)
(* replaces the day's rows without it.                                       *)
THEOREM BilledOnce == Spec => []ReplayBilledOnce
<1>1. IInv => ReplayBilledOnce
  BY DEF IInv
<1>2. QED
  BY <1>1, IInvInvariant, PTL

-----------------------------------------------------------------------------
(* The summary row of a day, under debriefs, replacements and erasures.      *)
OneSummary == \A s, t \in summaries : s.date = t.date => s = t

(* A run that owns one is past the step that wrote it, so it writes no other. *)
OwnersHaveWritten ==
  \A s \in summaries :
    /\ s.run \in Debriefs =>
         stage[s.run] \in {"keepNew", "persisted", "store_error", "crashed"}
    /\ s.run \in Replays => step[s.run] = "replaced"

SummaryInv ==
  /\ stage = [r \in Debriefs |-> stage[r]]
  /\ OneSummary
  /\ OwnersHaveWritten

Owners == [d \in Dates |-> {s.run : s \in {t \in summaries : t.date = d}}]

(* A debrief either leaves the summaries or inserts one where there is none. *)
LEMMA DebriefSummaries ==
  ASSUME Pipeline!Next
  PROVE  \/ UNCHANGED summaries
         \/ \E r \in Debriefs : Pipeline!InsertSummary(r)
  BY DEF Pipeline!Next, Pipeline!Attempt, Pipeline!Begin,
      Pipeline!GuardPasses, Pipeline!GuardRefuses, Pipeline!BudgetAdmits,
      Pipeline!BudgetRefuses, Pipeline!LlmAnswers, Pipeline!LlmFails,
      Pipeline!RecordCost, Pipeline!PersistEvent, Pipeline!EventFails,
      Pipeline!RecheckFindsNone, Pipeline!RecheckFindsSummary,
      Pipeline!InsertConflicts, Pipeline!KeepTranscript,
      Pipeline!StoreFails, Pipeline!Crash, Pipeline!MonthRolls, Pipeline!database

(* A debrief that has written its summary stays past that step. *)
LEMMA DebriefStages ==
  ASSUME SummaryInv, Pipeline!Next, NEW r \in Debriefs,
         stage[r] \in {"keepNew", "persisted", "store_error", "crashed"}
  PROVE  stage'[r] \in {"keepNew", "persisted", "store_error", "crashed"}
<1>1. CASE UNCHANGED stage
  BY <1>1
<1>2. ASSUME NEW q \in Debriefs, q # r, NEW to, stage' = [stage EXCEPT ![q] = to]
      PROVE  stage'[r] = stage[r]
  BY <1>2 DEF SummaryInv
<1>3. ASSUME NEW to \in {"persisted", "store_error", "crashed"},
             stage' = [stage EXCEPT ![r] = to]
      PROVE  stage'[r] = to
  BY <1>3 DEF SummaryInv
<1>4. \/ UNCHANGED stage
      \/ \E q \in Debriefs : q # r /\ \E to : stage' = [stage EXCEPT ![q] = to]
      \/ \E to \in {"persisted", "store_error", "crashed"} :
           stage' = [stage EXCEPT ![r] = to]
  BY DEF Pipeline!Next, Pipeline!Attempt, Pipeline!Begin,
      Pipeline!GuardPasses, Pipeline!GuardRefuses, Pipeline!BudgetAdmits,
      Pipeline!BudgetRefuses, Pipeline!LlmAnswers, Pipeline!LlmFails,
      Pipeline!RecordCost, Pipeline!PersistEvent, Pipeline!EventFails,
      Pipeline!EventFaults, Pipeline!RecheckFindsNone, Pipeline!RecheckFindsSummary,
      Pipeline!InsertSummary, Pipeline!InsertConflicts, Pipeline!KeepTranscript,
      Pipeline!StoreFails, Pipeline!Crash, Pipeline!MonthRolls, Pipeline!Moves,
      Pipeline!Working
<1>5. QED
  BY <1>1, <1>2, <1>3, <1>4

(* Where the summaries of one day become those of Q and no other day's do,   *)
(* the owners of that day become Q.                                          *)
LEMMA OwnersOfDay ==
  ASSUME NEW d \in Dates, NEW Q,
         \A q : (\E s \in summaries' : s.date = d /\ s.run = q) <=> q \in Q,
         \A c \in Dates \ {d} : \A q :
           (\E s \in summaries' : s.date = c /\ s.run = q)
             <=> (\E s \in summaries : s.date = c /\ s.run = q)
  PROVE  Owners' = [Owners EXCEPT ![d] = Q]
<1>1. ASSUME NEW c \in Dates, NEW q
      PROVE  /\ q \in Owners[c] <=> \E s \in summaries : s.date = c /\ s.run = q
             /\ q \in Owners'[c] <=> \E s \in summaries' : s.date = c /\ s.run = q
  BY DEF Owners
<1>2. Owners'[d] = Q
  <2>1. ASSUME NEW q PROVE q \in Owners'[d] <=> q \in Q
    BY <1>1
  <2>2. QED
    BY <2>1 DEF Owners
<1>3. ASSUME NEW c \in Dates \ {d} PROVE Owners'[c] = Owners[c]
  <2>1. ASSUME NEW q PROVE q \in Owners'[c] <=> q \in Owners[c]
    BY <1>1
  <2>2. QED
    BY <2>1 DEF Owners
<1>4. Owners = [c \in Dates |-> Owners[c]] /\ Owners' = [c \in Dates |-> Owners'[c]]
  BY DEF Owners
<1>5. QED
  BY <1>2, <1>3, <1>4

(* The insert of a debrief is a Record of the abstract specification. *)
LEMMA InsertRecords ==
  ASSUME IInv, SummaryInv, NEW r \in Debriefs, Pipeline!InsertSummary(r)
  PROVE  \E d \in Dates : Day!Record(d, r)
<1>1. request[r].date \in Dates
  BY DEF IInv, Types, PipelineTypeOK, Pipeline!Requests
<1>2. /\ \A s \in summaries : s.date # request[r].date
      /\ stage[r] = "insert"
      /\ summaries' = summaries \cup {[run |-> r, date |-> request[r].date]}
  BY DEF Pipeline!InsertSummary, Pipeline!HasSummary, Pipeline!DateOf, Pipeline!Moves
<1>3. \A s \in summaries : s.run # r
  BY <1>2 DEF SummaryInv, OwnersHaveWritten
<1>4. Owners[request[r].date] = {} /\ \A e \in Dates : r \notin Owners[e]
  BY <1>1, <1>2, <1>3 DEF Owners
<1>5. Owners' = [Owners EXCEPT ![request[r].date] = {r}]
  <2>1. \A q : (\E s \in summaries' : s.date = request[r].date /\ s.run = q)
                 <=> q \in {r}
    <3>1. \A s \in summaries' : s.date = request[r].date => s.run = r
      BY <1>2
    <3>2. [run |-> r, date |-> request[r].date] \in summaries'
      BY <1>2
    <3>3. QED
      BY <3>1, <3>2
  <2>2. \A c \in Dates \ {request[r].date} : \A q :
          (\E s \in summaries' : s.date = c /\ s.run = q)
            <=> (\E s \in summaries : s.date = c /\ s.run = q)
    BY <1>2
  <2>3. QED
    BY <1>1, <2>1, <2>2, OwnersOfDay
<1>6. QED
  BY <1>1, <1>4, <1>5 DEF Day!Record, Day!Fresh, Owners

(* The replacement of a re-extraction is a Replace. *)
LEMMA ReplaceReplaces ==
  ASSUME IInv, SummaryInv, NEW x \in Replays, Replace(x)
  PROVE  \E d \in Dates : Day!Replace(d, x)
<1>1. DayOf(x) \in Dates
  BY DEF IInv, Types, TypeOK, Orders, DayOf
<1>2. /\ step[x] = "replace"
      /\ summaries' = {s \in summaries : s.date # DayOf(x)}
                        \cup {[run |-> x, date |-> DayOf(x)]}
  BY DEF Replace, ReplacedRows, Moves
<1>3. \A s \in summaries : s.run # x
  BY <1>2 DEF SummaryInv, OwnersHaveWritten
<1>4. \A e \in Dates : x \notin Owners[e]
  BY <1>3 DEF Owners
<1>5. Owners' = [Owners EXCEPT ![DayOf(x)] = {x}]
  <2>1. \A q : (\E s \in summaries' : s.date = DayOf(x) /\ s.run = q) <=> q \in {x}
    <3>1. \A s \in summaries' : s.date = DayOf(x) => s.run = x
      BY <1>2
    <3>2. [run |-> x, date |-> DayOf(x)] \in summaries'
      BY <1>2
    <3>3. QED
      BY <3>1, <3>2
  <2>2. \A c \in Dates \ {DayOf(x)} : \A q :
          (\E s \in summaries' : s.date = c /\ s.run = q)
            <=> (\E s \in summaries : s.date = c /\ s.run = q)
    BY <1>2
  <2>3. QED
    BY <1>1, <2>1, <2>2, OwnersOfDay
<1>6. QED
  BY <1>1, <1>4, <1>5 DEF Day!Replace, Day!Fresh, Owners

(* A privacy action erases the summary of its day or leaves the summaries.   *)
LEMMA PrivacyErases ==
  ASSUME IInv, SummaryInv, NEW d \in Dates, PrivacyAction(d)
  PROVE  Day!Erase(d) \/ UNCHANGED summaries
<1>1. ASSUME summaries' = {s \in summaries : s.date # d}
      PROVE  Day!Erase(d)
  <2>1. \A q : (\E s \in summaries' : s.date = d /\ s.run = q) <=> q \in {}
    BY <1>1
  <2>2. \A c \in Dates \ {d} : \A q :
          (\E s \in summaries' : s.date = c /\ s.run = q)
            <=> (\E s \in summaries : s.date = c /\ s.run = q)
    BY <1>1
  <2>3. Owners' = [Owners EXCEPT ![d] = {}]
    BY <2>1, <2>2, OwnersOfDay
  <2>4. QED
    BY <2>3 DEF Day!Erase, Owners
<1>2. ASSUME NEW s \in summaries, s.date = d, summaries' = summaries \ {s}
      PROVE  Day!Erase(d)
  <2>1. summaries' = {t \in summaries : t.date # d}
    BY <1>2 DEF SummaryInv, OneSummary
  <2>2. QED
    BY <1>1, <2>1
<1>3. QED
  BY <1>1, <1>2 DEF PrivacyAction, ForgetDay, ForgetEvent, RedactDay, RedactEvent,
                    UnknownEvent, rows

LEMMA SummaryInvInductive == IInv /\ SummaryInv /\ [Next]_vars => SummaryInv'
<1> SUFFICES ASSUME IInv, SummaryInv, [Next]_vars PROVE SummaryInv'
  OBVIOUS
<1> USE DayRecordsAssumption
<1>1. CASE DebriefStep
  <2>1. Pipeline!Next /\ UNCHANGED step
    BY <1>1 DEF DebriefStep, replays
  <2>2. stage' = [r \in Debriefs |-> stage'[r]]
    BY <2>1 DEF SummaryInv, Pipeline!Next, Pipeline!Attempt, Pipeline!Begin,
      Pipeline!GuardPasses, Pipeline!GuardRefuses, Pipeline!BudgetAdmits,
      Pipeline!BudgetRefuses, Pipeline!LlmAnswers, Pipeline!LlmFails,
      Pipeline!RecordCost, Pipeline!PersistEvent, Pipeline!EventFails,
      Pipeline!RecheckFindsNone, Pipeline!RecheckFindsSummary,
      Pipeline!InsertSummary, Pipeline!InsertConflicts, Pipeline!KeepTranscript,
      Pipeline!StoreFails, Pipeline!Crash, Pipeline!MonthRolls, Pipeline!Moves
  <2>3. CASE UNCHANGED summaries
    BY <2>1, <2>2, <2>3, DebriefStages DEF SummaryInv, OneSummary, OwnersHaveWritten
  <2>4. CASE \E r \in Debriefs : Pipeline!InsertSummary(r)
    <3>1. PICK r \in Debriefs : Pipeline!InsertSummary(r)
      BY <2>4
    <3>2. /\ \A s \in summaries : s.date # request[r].date
          /\ summaries' = summaries \cup {[run |-> r, date |-> request[r].date]}
      BY <3>1 DEF Pipeline!InsertSummary, Pipeline!HasSummary, Pipeline!DateOf
    <3>3. stage'[r] = "keepNew"
      BY <3>1 DEF Pipeline!InsertSummary, Pipeline!Moves, SummaryInv
    <3>4. OneSummary'
      BY <3>2 DEF SummaryInv, OneSummary
    <3>5. OwnersHaveWritten'
      BY <2>1, <3>2, <3>3, DebriefStages DEF SummaryInv, OwnersHaveWritten
    <3>6. QED
      BY <2>2, <3>4, <3>5 DEF SummaryInv
  <2>5. QED
    BY <2>1, <2>3, <2>4, DebriefSummaries
<1>2. CASE \E x \in Replays : Replace(x)
  <2>1. PICK x \in Replays : Replace(x)
    BY <1>2
  <2>2. /\ summaries' = {s \in summaries : s.date # DayOf(x)}
                          \cup {[run |-> x, date |-> DayOf(x)]}
        /\ UNCHANGED stage
        /\ step'[x] = "replaced" /\ \A y \in Replays : y # x => step'[y] = step[y]
    BY <2>1 DEF Replace, ReplacedRows, Moves, pipeline, IInv, Types, TypeOK
  <2>3. OneSummary'
    BY <2>2 DEF SummaryInv, OneSummary
  <2>4. OwnersHaveWritten'
    BY <2>2 DEF SummaryInv, OwnersHaveWritten
  <2>5. QED
    BY <2>2, <2>3, <2>4 DEF SummaryInv
<1>3. CASE \E x \in Replays : Replay(x) /\ ~Replace(x)
  <2>1. PICK x \in Replays : Replay(x) /\ ~Replace(x)
    BY <1>3
  <2>2. /\ UNCHANGED <<summaries, stage>>
        /\ step[x] # "replaced" /\ \A y \in Replays : y # x => step'[y] = step[y]
    BY <2>1
    DEF IInv, Types, TypeOK, Replay, ReadFence, ReadSource, CopyDatabase,
        ExtractRefused, ExtractFails, Extracts, ReplaceFails, AppendCost,
        AppendFails, ReplayCrashes, Moves, pipeline, rows
  <2>3. QED
    BY <2>2 DEF SummaryInv, OneSummary, OwnersHaveWritten
<1>4. CASE \E d \in Dates : PrivacyAction(d)
  <2>1. UNCHANGED <<stage, step>> /\ summaries' \subseteq summaries
    BY <1>4 DEF PrivacyAction, ForgetDay, ForgetEvent, RedactDay, RedactEvent,
                UnknownEvent, Logged, pipeline, replays, rows
  <2>2. QED
    BY <2>1 DEF SummaryInv, OneSummary, OwnersHaveWritten
<1>5. CASE UNCHANGED vars
  BY <1>5 DEF SummaryInv, OneSummary, OwnersHaveWritten, vars, pipeline, rows, replays
<1>6. QED
  BY <1>1, <1>2, <1>3, <1>4, <1>5 DEF Next

(* So are the summaries: one a day, owned by a run that has written it.     *)
THEOREM SummaryInvInvariant == Spec => []SummaryInv
<1>1. Init => SummaryInv
  BY DEF Init, Pipeline!Init, SummaryInv, OneSummary, OwnersHaveWritten
<1>2. QED
  BY <1>1, SummaryInvInductive, IInvInvariant, PTL DEF Spec

(* The life of a day's summary, seen through its owners, is the one that     *)
(* DaySummary states: recorded where there is none, replaced in one step by  *)
(* a re-extraction, erased by a privacy action.                              *)
THEOREM ImplementsSummaryLife == Spec => SummaryLife
<1>1. Init => Day!Init
  BY DEF Init, Pipeline!Init, Day!Init
<1>2. IInv /\ SummaryInv /\ [Next]_vars => [Day!LifeNext]_Owners
  <2> SUFFICES ASSUME IInv, SummaryInv, [Next]_vars PROVE [Day!LifeNext]_Owners
    OBVIOUS
  <2>1. ASSUME NEW r \in Debriefs, Pipeline!InsertSummary(r) PROVE Day!LifeNext
    <3>1. PICK c \in Dates : Day!Record(c, r)
      BY <2>1, InsertRecords
    <3>2. QED
      BY <3>1 DEF Day!LifeNext, Day!Next, Day!Record, Day!Fresh
  <2>2. ASSUME NEW x \in Replays, Replace(x) PROVE Day!LifeNext
    <3>1. PICK c \in Dates : Day!Replace(c, x)
      BY <2>2, ReplaceReplaces
    <3>2. QED
      BY <3>1 DEF Day!LifeNext, Day!Replace, Day!Fresh
  <2>3. ASSUME NEW d \in Dates, PrivacyAction(d)
        PROVE  Day!LifeNext \/ UNCHANGED summaries
    BY <2>3, PrivacyErases DEF Day!LifeNext
  <2>4. CASE UNCHANGED summaries
    BY <2>4 DEF Owners
  <2>5. \A x \in Replays : Replay(x) => Replace(x) \/ UNCHANGED summaries
    BY DEF Replay, ReadFence, ReadSource, CopyDatabase, ExtractRefused, ExtractFails,
           Extracts, ReplaceFails, AppendCost, AppendFails, ReplayCrashes, rows
  <2>6. CASE DebriefStep
    BY <2>1, <2>4, <2>6, DebriefSummaries DEF DebriefStep
  <2>7. CASE UNCHANGED vars
    BY <2>4, <2>7 DEF vars, rows
  <2>8. QED
    BY <2>2, <2>3, <2>4, <2>5, <2>6, <2>7 DEF Next
<1>3. QED
  BY <1>1, <1>2, IInvInvariant, SummaryInvInvariant, PTL
  DEF Spec, SummaryLife, Day!LifeSpec, Owners

(* A day loses its summary by a privacy action only, never by a replacement  *)
(* or its failure.                                                           *)
THEOREM SummaryOutlives == Spec => SummaryOutlivesReplays
<1>1. IInv /\ [Next]_vars =>
        [\A d \in Dates :
           Pipeline!HasSummary(d) /\ ~Pipeline!HasSummary(d)' => actions' # actions]_vars
  <2> SUFFICES ASSUME IInv, [Next]_vars, NEW d \in Dates,
                      Pipeline!HasSummary(d), ~Pipeline!HasSummary(d)'
               PROVE  actions' # actions
    OBVIOUS
  <2>1. CASE DebriefStep
    BY <2>1, DebriefSummaries
    DEF DebriefStep, Pipeline!InsertSummary, Pipeline!HasSummary
  <2>2. CASE \E x \in Replays : Replay(x)
    <3>1. PICK x \in Replays : Replay(x)
      BY <2>2
    <3>2. CASE Replace(x)
      <4>1. /\ \A s \in summaries : s.date # DayOf(x) => s \in summaries'
            /\ [run |-> x, date |-> DayOf(x)] \in summaries'
        BY <3>2 DEF Replace, ReplacedRows
      <4>2. [run |-> x, date |-> DayOf(x)].date = DayOf(x)
        OBVIOUS
      <4>3. QED
        BY <4>1, <4>2 DEF Pipeline!HasSummary
    <3>3. CASE UNCHANGED summaries
      BY <3>3 DEF Pipeline!HasSummary
    <3>4. QED
      BY <3>1, <3>2, <3>3
      DEF Replay, ReadFence, ReadSource, CopyDatabase, ExtractRefused, ExtractFails,
          Extracts, ReplaceFails, AppendCost, AppendFails, ReplayCrashes, rows
  <2>3. CASE \E c \in Dates : PrivacyAction(c)
    BY <2>3, DayRecordsAssumption
    DEF PrivacyAction, ForgetDay, ForgetEvent, RedactDay, RedactEvent, UnknownEvent,
        Logged, IInv, Types, TypeOK
  <2>4. CASE UNCHANGED vars
    BY <2>4 DEF Pipeline!HasSummary, vars, rows
  <2>5. QED
    BY <2>1, <2>2, <2>3, <2>4 DEF Next
<1>2. QED
  BY <1>1, IInvInvariant, PTL DEF Spec, SummaryOutlivesReplays

-----------------------------------------------------------------------------
(* The extracts behind the summaries.  A debrief in its loop still has what *)
(* it has persisted, or its day has a summary by now: only a replacement    *)
(* takes rows away without a privacy action, and it leaves a summary.       *)
DebriefRow(r, n) == [run |-> r, nr |-> n, date |-> request[r].date]

HandledAreKept ==
  actions = 0 =>
    \A r \in Debriefs : stage[r] \in {"loop", "insert"} =>
      \/ Pipeline!HasSummary(request[r].date)
      \/ \A n \in 1..handled[r] : DebriefRow(r, n) \in events

(* What the stages say of the counters. *)
LoopsCount ==
  \A r \in Debriefs :
    /\ stage[r] \in {"new", "guard", "budget", "llm", "charge"} => handled[r] = 0
    /\ stage[r] = "insert" => handled[r] = planned[r]

ExtractInv == LoopsCount /\ HandledAreKept /\ WholeExtracts

(* WholeExtracts, row by row. *)
LEMMA WholeExtractsRows ==
  WholeExtracts <=>
    \A s \in summaries :
      /\ s.run \in Replays /\ fence[s.run] = actions =>
           \A n \in 1..found[s.run] : [run |-> s.run, nr |-> n, date |-> s.date] \in events
      /\ s.run \notin Replays /\ actions = 0 =>
           \A n \in 1..planned[s.run] : [run |-> s.run, nr |-> n, date |-> s.date] \in events
<1>1. ASSUME NEW s, NEW k
      PROVE  [run : {s.run}, nr : 1..k, date : {s.date}] \subseteq events
               <=> \A n \in 1..k : [run |-> s.run, nr |-> n, date |-> s.date] \in events
  <2>1. \A n \in 1..k : [run |-> s.run, nr |-> n, date |-> s.date]
                          \in [run : {s.run}, nr : 1..k, date : {s.date}]
    OBVIOUS
  <2>2. \A e \in [run : {s.run}, nr : 1..k, date : {s.date}] :
          e = [run |-> s.run, nr |-> e.nr, date |-> s.date] /\ e.nr \in 1..k
    OBVIOUS
  <2>3. QED
    BY <2>1, <2>2
<1>2. QED
  BY <1>1 DEF WholeExtracts

LEMMA WholeExtractsRowsNext ==
  WholeExtracts' <=>
    \A s \in summaries' :
      /\ s.run \in Replays /\ fence'[s.run] = actions' =>
           \A n \in 1..found'[s.run] :
             [run |-> s.run, nr |-> n, date |-> s.date] \in events'
      /\ s.run \notin Replays /\ actions' = 0 =>
           \A n \in 1..planned'[s.run] :
             [run |-> s.run, nr |-> n, date |-> s.date] \in events'
<1>1. ASSUME NEW s, NEW k
      PROVE  [run : {s.run}, nr : 1..k, date : {s.date}] \subseteq events'
               <=> \A n \in 1..k : [run |-> s.run, nr |-> n, date |-> s.date] \in events'
  <2>1. \A n \in 1..k : [run |-> s.run, nr |-> n, date |-> s.date]
                          \in [run : {s.run}, nr : 1..k, date : {s.date}]
    OBVIOUS
  <2>2. \A e \in [run : {s.run}, nr : 1..k, date : {s.date}] :
          e = [run |-> s.run, nr |-> e.nr, date |-> s.date] /\ e.nr \in 1..k
    OBVIOUS
  <2>3. QED
    BY <2>1, <2>2
<1>2. QED
  BY <1>1 DEF WholeExtracts

(* A debrief adds rows and takes none away, and moves one attempt.          *)
LEMMA DebriefAdds ==
  ASSUME IInv, DebriefStep
  PROVE  /\ events \subseteq events' /\ summaries \subseteq summaries'
         /\ UNCHANGED <<request, actions, step, fence, found>>
<1>1. UNCHANGED <<actions, step, fence, found>>
  BY DEF DebriefStep, replays
<1>2. events \subseteq events' /\ summaries \subseteq summaries' /\ UNCHANGED request
  BY DEF DebriefStep, Pipeline!Next, Pipeline!Attempt, Pipeline!Begin,
      Pipeline!GuardPasses, Pipeline!GuardRefuses, Pipeline!BudgetAdmits,
      Pipeline!BudgetRefuses, Pipeline!LlmAnswers, Pipeline!LlmFails,
      Pipeline!RecordCost, Pipeline!PersistEvent, Pipeline!EventFails,
      Pipeline!RecheckFindsNone, Pipeline!RecheckFindsSummary,
      Pipeline!InsertSummary, Pipeline!InsertConflicts, Pipeline!KeepTranscript,
      Pipeline!StoreFails, Pipeline!Crash, Pipeline!MonthRolls, Pipeline!database
<1>3. QED
  BY <1>1, <1>2

(* Attempt by attempt: what a step does to its counters.                    *)
LEMMA DebriefCounts ==
  ASSUME IInv, SummaryInv, LoopsCount, DebriefStep, NEW r \in Debriefs
  PROVE  \/ /\ UNCHANGED <<stage[r], handled[r], planned[r]>>
         \/ /\ stage'[r] \notin {"loop", "insert"} /\ handled'[r] = handled[r]
            /\ stage'[r] \in {"new", "guard", "budget", "llm", "charge"} =>
                 stage[r] \in {"new", "guard", "budget", "llm", "charge"}
            /\ planned'[r] = planned[r]
               \/ stage[r] \notin {"keepNew", "persisted", "store_error", "crashed"}
         \/ /\ stage[r] = "charge" /\ stage'[r] = "loop"
            /\ UNCHANGED <<handled[r], planned[r]>>
         \/ /\ stage[r] = "loop" /\ stage'[r] = "loop" /\ planned'[r] = planned[r]
            /\ handled'[r] = handled[r] + 1
            /\ DebriefRow(r, handled[r] + 1) \in events'
         \/ /\ stage[r] = "loop" /\ stage'[r] = "insert"
            /\ handled[r] = planned[r] /\ UNCHANGED <<handled[r], planned[r]>>
<1> USE DEF SummaryInv, IInv, Types, PipelineTypeOK, DebriefStep, Pipeline!Next, Pipeline!Moves
<1>1. ASSUME NEW q \in Debriefs, q # r,
             Pipeline!Begin(q) \/ Pipeline!Attempt(q) \/ Pipeline!StoreFails(q)
               \/ Pipeline!Crash(q)
      PROVE  UNCHANGED <<stage[r], handled[r], planned[r]>>
  BY <1>1 DEF Pipeline!Attempt, Pipeline!Begin,
      Pipeline!GuardPasses, Pipeline!GuardRefuses, Pipeline!BudgetAdmits,
      Pipeline!BudgetRefuses, Pipeline!LlmAnswers, Pipeline!LlmFails,
      Pipeline!RecordCost, Pipeline!PersistEvent, Pipeline!EventFails,
      Pipeline!RecheckFindsNone, Pipeline!RecheckFindsSummary,
      Pipeline!InsertSummary, Pipeline!InsertConflicts, Pipeline!KeepTranscript,
      Pipeline!StoreFails, Pipeline!Crash, Pipeline!MonthRolls, Pipeline!database
<1>2. CASE Pipeline!MonthRolls
  BY <1>2 DEF Pipeline!MonthRolls
<1>3. CASE \/ Pipeline!Begin(r) \/ Pipeline!GuardPasses(r) \/ Pipeline!GuardRefuses(r)
           \/ Pipeline!BudgetAdmits(r) \/ Pipeline!BudgetRefuses(r)
           \/ Pipeline!LlmFails(r) \/ Pipeline!EventFails(r)
           \/ Pipeline!RecheckFindsSummary(r) \/ Pipeline!InsertSummary(r)
           \/ Pipeline!InsertConflicts(r) \/ Pipeline!KeepTranscript(r)
           \/ Pipeline!StoreFails(r) \/ Pipeline!Crash(r)
  BY <1>3 DEF Pipeline!Begin, Pipeline!GuardPasses, Pipeline!GuardRefuses,
      Pipeline!BudgetAdmits, Pipeline!BudgetRefuses, Pipeline!LlmFails,
      Pipeline!EventFails, Pipeline!EventFaults, Pipeline!RecheckFindsSummary,
      Pipeline!InsertSummary, Pipeline!InsertConflicts, Pipeline!KeepTranscript,
      Pipeline!StoreFails, Pipeline!Crash, Pipeline!Working
<1>4. CASE Pipeline!LlmAnswers(r)
  BY <1>4 DEF Pipeline!LlmAnswers
<1>5. CASE Pipeline!RecordCost(r)
  BY <1>5 DEF Pipeline!RecordCost
<1>6. CASE Pipeline!PersistEvent(r)
  BY <1>6 DEF Pipeline!PersistEvent, Pipeline!DateOf, DebriefRow
<1>7. CASE Pipeline!RecheckFindsNone(r)
  BY <1>7 DEF Pipeline!RecheckFindsNone
<1>8. QED
  BY <1>1, <1>2, <1>3, <1>4, <1>5, <1>6, <1>7 DEF Pipeline!Attempt

(* A debrief adds to its extract, and its summary when that is whole.       *)
LEMMA DebriefExtracts ==
  ASSUME IInv, SummaryInv, ExtractInv, DebriefStep
  PROVE  ExtractInv'
<1> USE DEF ExtractInv
<1>1. /\ events \subseteq events' /\ summaries \subseteq summaries'
      /\ UNCHANGED <<request, actions, step, fence, found>>
  BY DebriefAdds
<1>2. \A r \in Debriefs : handled[r] \in Nat /\ planned[r] \in Nat
  BY DEF IInv, Types, PipelineTypeOK
<1>3. LoopsCount'
  BY <1>2, DebriefCounts DEF LoopsCount
<1>4. HandledAreKept'
  <2> SUFFICES ASSUME actions = 0, NEW r \in Debriefs, stage'[r] \in {"loop", "insert"},
                      ~Pipeline!HasSummary(request[r].date)'
               PROVE  \A n \in 1..handled'[r] : DebriefRow(r, n) \in events'
    BY <1>1 DEF HandledAreKept, DebriefRow
  <2>1. ~Pipeline!HasSummary(request[r].date)
    BY <1>1 DEF Pipeline!HasSummary
  <2>2. CASE stage[r] \in {"loop", "insert"}
    <3>1. \A n \in 1..handled[r] : DebriefRow(r, n) \in events'
      BY <1>1, <2>1, <2>2 DEF HandledAreKept
    <3>2. \/ handled'[r] = handled[r]
          \/ handled'[r] = handled[r] + 1 /\ DebriefRow(r, handled[r] + 1) \in events'
      BY DebriefCounts
    <3>3. QED
      BY <1>2, <3>1, <3>2
  <2>3. CASE stage[r] \notin {"loop", "insert"}
    <3>1. handled'[r] = 0
      BY <2>3, DebriefCounts DEF LoopsCount
    <3>2. QED
      BY <3>1
  <2>4. QED
    BY <2>2, <2>3
<1>5. WholeExtracts'
  <2>1. ASSUME NEW s \in summaries, s.run \in Replays, fence'[s.run] = actions',
               NEW n \in 1..found'[s.run]
        PROVE  [run |-> s.run, nr |-> n, date |-> s.date] \in events'
    BY <1>1, <2>1, WholeExtractsRows
  <2>2. ASSUME NEW s \in summaries, s.run \notin Replays, actions' = 0,
               NEW n \in 1..planned'[s.run]
        PROVE  [run |-> s.run, nr |-> n, date |-> s.date] \in events'
    <3>1. /\ s.run \in Debriefs
          /\ stage[s.run] \in {"keepNew", "persisted", "store_error", "crashed"}
      BY <2>2 DEF SummaryInv, OwnersHaveWritten, IInv, Types, TypeOK
    <3>2. planned'[s.run] = planned[s.run]
      BY <3>1, DebriefCounts
    <3>3. QED
      BY <1>1, <2>2, <3>2, WholeExtractsRows
  <2>3. ASSUME NEW r \in Debriefs, Pipeline!InsertSummary(r), actions = 0,
               NEW n \in 1..planned'[r]
        PROVE  DebriefRow(r, n) \in events'
    <3>1. stage[r] = "insert" /\ ~Pipeline!HasSummary(request[r].date)
          /\ planned'[r] = planned[r]
      BY <2>3 DEF Pipeline!InsertSummary, Pipeline!Moves, Pipeline!DateOf
    <3>2. handled[r] = planned[r]
      BY <3>1 DEF LoopsCount
    <3>3. QED
      BY <1>1, <2>3, <3>1, <3>2 DEF HandledAreKept
  <2>4. \A s \in summaries' : s \in summaries \/
          \E r \in Debriefs : /\ Pipeline!InsertSummary(r)
                              /\ s = [run |-> r, date |-> request[r].date]
    BY DebriefSummaries DEF DebriefStep, Pipeline!InsertSummary, Pipeline!DateOf
  <2>5. ASSUME NEW s \in summaries'
        PROVE  /\ s.run \in Replays /\ fence'[s.run] = actions' =>
                    \A n \in 1..found'[s.run] :
                      [run |-> s.run, nr |-> n, date |-> s.date] \in events'
               /\ s.run \notin Replays /\ actions' = 0 =>
                    \A n \in 1..planned'[s.run] :
                      [run |-> s.run, nr |-> n, date |-> s.date] \in events'
    <3>1. CASE s \in summaries
      BY <2>1, <2>2, <3>1
    <3>2. CASE s \notin summaries
      <4>1. PICK r \in Debriefs : /\ Pipeline!InsertSummary(r)
                                  /\ s = [run |-> r, date |-> request[r].date]
        BY <2>4, <3>2
      <4>2. s.run = r /\ s.date = request[r].date /\ r \notin Replays
        BY <4>1, DayRecordsAssumption
      <4>3. QED
        BY <1>1, <2>3, <4>1, <4>2 DEF DebriefRow
    <3>3. QED
      BY <3>1, <3>2
  <2>6. QED
    BY <2>5, WholeExtractsRowsNext
<1>6. QED
  BY <1>3, <1>4, <1>5

(* A re-extraction on the way to its replacement owns no summary. *)
LEMMA ReplayExtracts ==
  ASSUME IInv, SummaryInv, ExtractInv, NEW x \in Replays, Replay(x), ~Replace(x)
  PROVE  ExtractInv'
<1> USE DEF ExtractInv
<1>1. UNCHANGED <<events, summaries, actions, stage, request, planned, handled>>
  BY DEF Replay, ReadFence, ReadSource, CopyDatabase, ExtractRefused, ExtractFails,
         Extracts, ReplaceFails, AppendCost, AppendFails, ReplayCrashes, pipeline, rows
<1>2. /\ step[x] # "replaced"
      /\ \A y \in Replays : y # x => fence'[y] = fence[y] /\ found'[y] = found[y]
  BY DEF IInv, Types, TypeOK, Replay, ReadFence, ReadSource, CopyDatabase,
         ExtractRefused, ExtractFails, Extracts, ReplaceFails, AppendCost,
         AppendFails, ReplayCrashes, Moves
<1>3. \A s \in summaries : s.run # x
  BY <1>2 DEF SummaryInv, OwnersHaveWritten
<1>4. LoopsCount'
  BY <1>1 DEF LoopsCount
<1>5. HandledAreKept'
  BY <1>1 DEF HandledAreKept, DebriefRow, Pipeline!HasSummary
<1>6. WholeExtracts'
  BY <1>1, <1>2, <1>3, WholeExtractsRows, WholeExtractsRowsNext
<1>7. QED
  BY <1>4, <1>5, <1>6

(* A replacement takes the rows of one day away and gives it a summary with  *)
(* all of its extract.                                                       *)
LEMMA ReplaceExtracts ==
  ASSUME IInv, SummaryInv, ExtractInv, NEW x \in Replays, Replace(x)
  PROVE  ExtractInv'
<1> USE DEF ExtractInv
<1> DEFINE d == DayOf(x)
           new == [run |-> x, date |-> d]
<1>1. /\ UNCHANGED <<stage, request, planned, handled, actions, fence, found>>
      /\ summaries' = {s \in summaries : s.date # d} \cup {new}
      /\ events' = {e \in events : e.date # d}
                     \cup [run : {x}, nr : 1..found[x], date : {d}]
  BY DEF Replace, ReplacedRows, pipeline
<1>2. \A n \in 1..found[x] : [run |-> x, nr |-> n, date |-> d] \in events'
  BY <1>1
<1>3. \A s \in summaries : s.date # d =>
        \A n : [run |-> s.run, nr |-> n, date |-> s.date] \in events =>
                [run |-> s.run, nr |-> n, date |-> s.date] \in events'
  BY <1>1
<1>4. LoopsCount'
  BY <1>1 DEF LoopsCount
<1>5. HandledAreKept'
  <2> SUFFICES ASSUME actions = 0, NEW r \in Debriefs, stage[r] \in {"loop", "insert"},
                      ~Pipeline!HasSummary(request[r].date)', NEW n \in 1..handled[r]
               PROVE  DebriefRow(r, n) \in events'
    BY <1>1 DEF HandledAreKept, DebriefRow
  <2>1. request[r].date # d
    <3>1. new \in summaries' /\ new.date = d
      BY <1>1
    <3>2. \A s \in summaries' : s.date # request[r].date
      BY <1>1 DEF Pipeline!HasSummary
    <3>3. QED
      BY <3>1, <3>2
  <2>2. ~Pipeline!HasSummary(request[r].date)
    BY <1>1, <2>1 DEF Pipeline!HasSummary
  <2>3. DebriefRow(r, n) \in events
    BY <2>2 DEF HandledAreKept
  <2>4. DebriefRow(r, n).date = request[r].date
    BY DEF DebriefRow
  <2>5. QED
    BY <1>1, <2>1, <2>3, <2>4
<1>6. WholeExtracts'
  <2>1. ASSUME NEW s \in summaries'
        PROVE  /\ s.run \in Replays /\ fence'[s.run] = actions' =>
                    \A n \in 1..found'[s.run] :
                      [run |-> s.run, nr |-> n, date |-> s.date] \in events'
               /\ s.run \notin Replays /\ actions' = 0 =>
                    \A n \in 1..planned'[s.run] :
                      [run |-> s.run, nr |-> n, date |-> s.date] \in events'
    <3>1. CASE s = new
      <4>1. s.run = x /\ s.date = d
        BY <3>1
      <4>2. QED
        BY <1>1, <1>2, <4>1
    <3>2. CASE s \in summaries /\ s.date # d
      BY <1>1, <1>3, <3>2, WholeExtractsRows
    <3>3. QED
      BY <1>1, <3>1, <3>2
  <2>2. QED
    BY <2>1, WholeExtractsRowsNext
<1>7. QED
  BY <1>4, <1>5, <1>6

(* A privacy action makes every fence and every count of a debrief stale.    *)
LEMMA PrivacyExtracts ==
  ASSUME IInv, SummaryInv, ExtractInv, NEW d \in Dates, PrivacyAction(d)
  PROVE  ExtractInv'
<1> USE DEF ExtractInv
<1>1. /\ UNCHANGED <<stage, request, planned, handled, fence, found>>
      /\ actions' = actions + 1 /\ actions \in Nat
      /\ summaries' \subseteq summaries
  BY DayRecordsAssumption
  DEF PrivacyAction, ForgetDay, ForgetEvent, RedactDay, RedactEvent, UnknownEvent,
      Logged, pipeline, replays, rows, IInv, Types, TypeOK
<1>2. \A y \in Replays : fence'[y] # actions'
  BY <1>1 DEF IInv, Types, TypeOK, FencesHold
<1>3. actions' # 0
  BY <1>1
<1>4. QED
  BY <1>1, <1>2, <1>3, WholeExtractsRowsNext DEF LoopsCount, HandledAreKept

(* The extracts, step by step.                                              *)
LEMMA ExtractInvInductive ==
  IInv /\ SummaryInv /\ ExtractInv /\ [Next]_vars => ExtractInv'
<1> SUFFICES ASSUME IInv, SummaryInv, ExtractInv, [Next]_vars PROVE ExtractInv'
  OBVIOUS
<1>1. CASE UNCHANGED vars
  <2>1. UNCHANGED <<events, summaries, actions, stage, request, planned, handled, fence,
                    found>>
    BY <1>1 DEF vars, pipeline, rows, replays
  <2>2. LoopsCount' /\ HandledAreKept'
    BY <2>1 DEF ExtractInv, LoopsCount, HandledAreKept, DebriefRow, Pipeline!HasSummary
  <2>3. WholeExtracts'
    BY <2>1, WholeExtractsRows, WholeExtractsRowsNext DEF ExtractInv
  <2>4. QED
    BY <2>2, <2>3 DEF ExtractInv
<1>2. QED
  BY <1>1, DebriefExtracts, ReplayExtracts, ReplaceExtracts, PrivacyExtracts DEF Next

(* As long as no privacy action came in between, every summary row stands    *)
(* beside all the events its debrief, or its re-extraction, extracted: a     *)
(* replacement that overtakes a debrief never leaves a summary of one        *)
(* extract with the events of another.                                       *)
THEOREM SummariesAreWhole == Spec => []WholeExtracts
<1>1. Init => ExtractInv
  BY DEF Init, Pipeline!Init, ExtractInv, LoopsCount, HandledAreKept, WholeExtracts
<1>2. ExtractInv => WholeExtracts
  BY DEF ExtractInv
<1>3. QED
  BY <1>1, <1>2, ExtractInvInductive, IInvInvariant, SummaryInvInvariant, PTL DEF Spec
=============================================================================
