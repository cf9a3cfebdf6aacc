------------------------------ MODULE Debrief ------------------------------
(***************************************************************************)
(* The debrief pipeline (tm.agents.debrief.DebriefAgent and its two        *)
(* callers, the 'tm debrief' command and the daemon's run_debrief RPC).    *)
(*                                                                         *)
(* An attempt (a run) is one call of the pipeline: a CLI process or a      *)
(* worker thread of the daemon.  Attempts run side by side: the daemon     *)
(* keeps run_debrief out of its write lock, and the CLI does not go        *)
(* through the daemon at all.  Every repository call opens a connection of *)
(* its own and commits on its own, so each of them is one step here, and   *)
(* other attempts, a crash or a locked database may come between any two.  *)
(* A retry, of the user or of a client that timed out, is another attempt. *)
(***************************************************************************)
EXTENDS Integers, Sequences, FiniteSets

CONSTANTS Runs, Dates, Texts,
          MaxEvents,      \* model bound: activity events in one extract
          MaxInFlight     \* attempts running at once

CONSTANTS Estimates, Costs, Caps, LowestEstimate, HighestCost, HighestCap

ASSUME DebriefAssumption ==
  /\ IsFiniteSet(Runs) /\ MaxEvents \in Nat /\ MaxInFlight \in Nat
  /\ Estimates \subseteq Nat /\ Costs \subseteq Nat /\ Caps \subseteq Nat
  /\ LowestEstimate \in Nat /\ \A e \in Estimates : LowestEstimate <= e
  /\ HighestCost \in Nat /\ \A k \in Costs : k <= HighestCost
  /\ HighestCap \in Nat /\ \A cap \in Caps : cap <= HighestCap

VARIABLES
  stage,        \* where each attempt stands, or how it ended
  request,      \* the case_date and transcript each attempt was given
  planned,      \* how many events its extract holds
  handled,      \* how many of them it has persisted
  \* the database
  events,       \* activity rows of the events table
  summaries,    \* rows with activity = 'debrief_summary'
  recorded,     \* attempts that have a row in cost_ledger
  spent,        \* the ledger's total for the current month
  transcripts   \* the segments of each date's transcripts row, in order

database == <<events, summaries, recorded, spent, transcripts>>
vars == <<stage, request, planned, handled, database>>

Working == {"guard", "budget", "llm", "charge", "loop", "insert",
            "keepNew", "keepOld"}
Succeeded == {"persisted", "superseded"}
EventFaults == {"event_error", "alignment_error", "unknown_goal"}
Ended == Succeeded \cup EventFaults \cup
         {"already_debriefed", "over_cap", "llm_error", "invalid_extract",
          "duplicate_summary", "store_error", "crashed"}

Requests == [date : Dates, text : Texts]
EventRows == [run : Runs, nr : 1..MaxEvents, date : Dates]
SummaryRows == [run : Runs, date : Dates]

DateOf(r) == request[r].date
HasSummary(d) == \E s \in summaries : s.date = d
Running == {r \in Runs : stage[r] \in Working}

TypeOK ==
  /\ stage \in [Runs -> Working \cup Ended \cup {"new"}]
  /\ request \in [Runs -> Requests]
  /\ planned \in [Runs -> 0..MaxEvents]
  /\ handled \in [Runs -> 0..MaxEvents]
  /\ events \subseteq EventRows
  /\ summaries \subseteq SummaryRows
  /\ recorded \subseteq Runs
  /\ spent \in Nat
  /\ transcripts \in [Dates -> Seq(Texts)]

Init ==
  /\ stage = [r \in Runs |-> "new"]
  /\ request \in [Runs -> Requests]
  /\ planned = [r \in Runs |-> 0]
  /\ handled = [r \in Runs |-> 0]
  /\ events = {} /\ summaries = {} /\ recorded = {}
  /\ spent = 0
  /\ transcripts = [d \in Dates |-> <<>>]

-----------------------------------------------------------------------------
Moves(r, from, to) == stage[r] = from /\ stage' = [stage EXCEPT ![r] = to]

(* Steps with a slip in them, one for each property: none is part of Next.  *)

(* A summary is inserted without the partial UNIQUE index. *)
InsertUnindexed(r) ==
  /\ Moves(r, "insert", "keepNew")
  /\ summaries' = summaries \cup {[run |-> r, date |-> DateOf(r)]}
  /\ UNCHANGED <<request, planned, handled, events, recorded, spent, transcripts>>

(* A conflicting INSERT is tried again and again. *)
ConflictRetried(r) ==
  stage[r] = "insert" /\ HasSummary(DateOf(r)) /\ UNCHANGED vars

(* The look-up after the loop takes any event of the day for its summary. *)
RecheckFindsAnyEvent(r) ==
  /\ handled[r] = planned[r]
  /\ \E e \in events : e.date = DateOf(r)
  /\ Moves(r, "loop", "keepOld")
  /\ UNCHANGED <<request, planned, handled, database>>

(* The summary is written without waiting for the last event. *)
RecheckInsideLoop(r) ==
  /\ ~HasSummary(DateOf(r))
  /\ Moves(r, "loop", "insert")
  /\ UNCHANGED <<request, planned, handled, database>>

(* The loop does not stop at the extract's last event. *)
PersistPastTheEnd(r) ==
  /\ stage[r] = "loop"
  /\ handled' = [handled EXCEPT ![r] = @ + 1]
  /\ UNCHANGED <<stage, request, planned, database>>

(* The answer is persisted without its cost. *)
LlmAnswersUncharged(r) ==
  /\ Moves(r, "llm", "loop")
  /\ \E n \in 0..MaxEvents : planned' = [planned EXCEPT ![r] = n]
  /\ UNCHANGED <<request, handled, database>>

(* The estimate alone is held against the cap. *)
BudgetForgetsSpent(r) ==
  /\ \E e \in Estimates, cap \in Caps : e <= cap
  /\ Moves(r, "budget", "llm")
  /\ UNCHANGED <<request, planned, handled, database>>

(* The day's transcript is replaced by the latest text. *)
MergedOverwrites(segments, text) == <<text>>

-----------------------------------------------------------------------------
(* A caller submits a transcript: 'tm debrief' or run_debrief. *)
Begin(r) ==
  /\ Cardinality(Running) < MaxInFlight
  /\ Moves(r, "new", "guard")
  /\ UNCHANGED <<request, planned, handled, database>>

(* _guard_existing_summary, the check before any money is spent. *)
GuardPasses(r) ==
  /\ ~HasSummary(DateOf(r))
  /\ Moves(r, "guard", "budget")
  /\ UNCHANGED <<request, planned, handled, database>>

GuardRefuses(r) ==
  /\ HasSummary(DateOf(r))
  /\ Moves(r, "guard", "already_debriefed")
  /\ UNCHANGED <<request, planned, handled, database>>

(* CostMeter.check_budget with the estimate for this transcript. *)
BudgetAdmits(r) ==
  /\ \E e \in Estimates, cap \in Caps : spent + e <= cap
  /\ Moves(r, "budget", "llm")
  /\ UNCHANGED <<request, planned, handled, database>>

BudgetRefuses(r) ==
  /\ \E e \in Estimates, cap \in Caps : spent + e > cap
  /\ Moves(r, "budget", "over_cap")
  /\ UNCHANGED <<request, planned, handled, database>>

(* LLMClient.extract answers with a well-formed extract of n events, fails  *)
(* (the adapters bound every call by a timeout), or answers something that  *)
(* _validate_extract_response refuses, before the cost is recorded.         *)
LlmAnswers(r) ==
  /\ Moves(r, "llm", "charge")
  /\ \E n \in 0..MaxEvents : planned' = [planned EXCEPT ![r] = n]
  /\ UNCHANGED <<request, handled, database>>

LlmFails(r) ==
  /\ \E how \in {"llm_error", "invalid_extract"} : Moves(r, "llm", how)
  /\ UNCHANGED <<request, planned, handled, database>>

(* CostMeter.record: always inserts, the gate was check_budget. *)
RecordCost(r) ==
  /\ Moves(r, "charge", "loop")
  /\ \E k \in Costs : spent' = spent + k
  /\ recorded' = recorded \cup {r}
  /\ UNCHANGED <<request, planned, handled, events, summaries, transcripts>>

(* One turn of the event loop: the next event is valid, its label aligns,   *)
(* its goal exists, and append_event commits it in a transaction of its own. *)
PersistEvent(r) ==
  /\ stage[r] = "loop"
  /\ handled[r] < planned[r]
  /\ handled' = [handled EXCEPT ![r] = @ + 1]
  /\ events' = events \cup
       {[run |-> r, nr |-> handled[r] + 1, date |-> DateOf(r)]}
  /\ UNCHANGED <<stage, request, planned, summaries, recorded, spent, transcripts>>

(* ... or it is refused, and the rows written so far stay. *)
EventFails(r) ==
  /\ handled[r] < planned[r]
  /\ \E fault \in EventFaults : Moves(r, "loop", fault)
  /\ UNCHANGED <<request, planned, handled, database>>

(* After the loop the summary is looked up again: a free day is inserted    *)
(* in a later step, a taken one makes the attempt return without raising.   *)
RecheckFindsNone(r) ==
  /\ handled[r] = planned[r]
  /\ ~HasSummary(DateOf(r))
  /\ Moves(r, "loop", "insert")
  /\ UNCHANGED <<request, planned, handled, database>>

RecheckFindsSummary(r) ==
  /\ handled[r] = planned[r]
  /\ HasSummary(DateOf(r))
  /\ Moves(r, "loop", "keepOld")
  /\ UNCHANGED <<request, planned, handled, database>>

(* The INSERT, under the partial UNIQUE index of migration 0010. *)
InsertSummary(r) ==
  /\ ~HasSummary(DateOf(r))
  /\ Moves(r, "insert", "keepNew")
  /\ summaries' = summaries \cup {[run |-> r, date |-> DateOf(r)]}
  /\ UNCHANGED <<request, planned, handled, events, recorded, spent, transcripts>>

InsertConflicts(r) ==
  /\ HasSummary(DateOf(r))
  /\ Moves(r, "insert", "duplicate_summary")
  /\ UNCHANGED <<request, planned, handled, database>>

(* TranscriptRepository.upsert, by the caller, in one BEGIN IMMEDIATE. *)
Merged(segments, text) ==
  IF \E i \in DOMAIN segments : segments[i] = text
    THEN segments
    ELSE Append(segments, text)

KeepTranscript(r) ==
  /\ \/ Moves(r, "keepNew", "persisted")
     \/ Moves(r, "keepOld", "superseded")
  /\ transcripts' =
       [transcripts EXCEPT ![DateOf(r)] = Merged(@, request[r].text)]
  /\ UNCHANGED <<request, planned, handled, events, summaries, recorded, spent>>

(* A repository call gives up on a locked database and its error ends the   *)
(* attempt.  Only the LLM call touches no table.                            *)
StoreFails(r) ==
  /\ stage[r] \in Working \ {"llm"}
  /\ stage' = [stage EXCEPT ![r] = "store_error"]
  /\ UNCHANGED <<request, planned, handled, database>>

(* The process dies: Ctrl-C, kill, or the daemon's exit, which does not     *)
(* wait for its daemon=True worker threads beyond WORKER_JOIN_TIMEOUT_S.    *)
Crash(r) ==
  /\ stage[r] \in Working
  /\ stage' = [stage EXCEPT ![r] = "crashed"]
  /\ UNCHANGED <<request, planned, handled, database>>

MonthRolls ==
  /\ spent > 0
  /\ spent' = 0
  /\ UNCHANGED <<stage, request, planned, handled, events, summaries, recorded,
                 transcripts>>

(* What an attempt does by itself once it has begun. *)
Attempt(r) ==
  \/ GuardPasses(r) \/ GuardRefuses(r)
  \/ BudgetAdmits(r) \/ BudgetRefuses(r)
  \/ LlmAnswers(r) \/ LlmFails(r) \/ RecordCost(r)
  \/ PersistEvent(r) \/ EventFails(r)
  \/ RecheckFindsNone(r) \/ RecheckFindsSummary(r)
  \/ InsertSummary(r) \/ InsertConflicts(r)
  \/ KeepTranscript(r)

Next ==
  \/ \E r \in Runs : Begin(r) \/ Attempt(r) \/ StoreFails(r) \/ Crash(r)
  \/ MonthRolls

Spec == Init /\ [][Next]_vars

(* A begun attempt keeps running: its thread is scheduled and the adapters  *)
(* put a timeout on the LLM call.  Nothing obliges anyone to begin one.     *)
FairSpec == Spec /\ \A r \in Runs : WF_vars(Attempt(r))

-----------------------------------------------------------------------------
(* A case_date never has two summary rows, although the look-up before the  *)
(* INSERT is not atomic with it: OutcomeAggregator takes the MAX of         *)
(* completed and total over the day's rows, and two summaries would mix.    *)
AtMostOneSummary ==
  \A s, t \in summaries : s.date = t.date => s = t

(* An attempt that reported success leaves its case_date with a summary,    *)
(* its own or the one it found (extract_and_persist's two ways out).        *)
SuccessHasSummary ==
  \A r \in Runs :
    stage[r] \in Succeeded \cup {"keepNew", "keepOld"} => HasSummary(DateOf(r))

(* A summary row stands for a whole extract: its attempt had persisted every *)
(* event of the answer before, so no reader of the day sees a summary whose  *)
(* events are still to come (the loop runs before the summary).              *)
SummaryClosesItsRun ==
  \A s \in summaries : \A n \in 1..planned[s.run] :
    [run |-> s.run, nr |-> n, date |-> s.date] \in events

(* Nothing an LLM extract produced reaches the events table before the call  *)
(* was charged: a crash between the two never leaves unpaid rows.            *)
RowsArePaidFor ==
  \A e \in events \cup summaries : e.run \in recorded

(* The day's transcript is what reextract replays: of debriefs it holds      *)
(* exactly the texts of the attempts that succeeded, each once - none of a   *)
(* refused or failed debrief, none lost when two attempts upsert side by     *)
(* side, and none repeated by a retry after a client's timeout.              *)
SegmentsDiffer ==
  \A d \in Dates : \A i, j \in DOMAIN transcripts[d] :
    transcripts[d][i] = transcripts[d][j] => i = j

SegmentsAreDebriefed ==
  \A d \in Dates : \A i \in DOMAIN transcripts[d] :
    \E r \in Runs : /\ request[r] = [date |-> d, text |-> transcripts[d][i]]
                    /\ stage[r] \in Succeeded

DebriefsAreKept ==
  \A r \in Runs : stage[r] \in Succeeded =>
    \E i \in DOMAIN transcripts[DateOf(r)] :
      transcripts[DateOf(r)][i] = request[r].text

TranscriptIsTheDebriefs ==
  SegmentsDiffer /\ SegmentsAreDebriefed /\ DebriefsAreKept

(* The pipeline implements the promise of DaySummary ... *)
Day == INSTANCE DaySummary WITH
         Debriefs <- Runs, Replays <- {},
         owners <- [d \in Dates |-> {s.run : s \in {x \in summaries : x.date = d}}]

SummaryWrittenOnce == Day!Spec

(* ... and, between check_budget and record, the protocol of BudgetGate, so  *)
(* that BudgetGate's bound on the month's spend is a bound for debriefs.     *)
InCall == {r \in Runs : stage[r] \in {"llm", "charge"}}

Gate == INSTANCE BudgetGate WITH Calls <- Runs, admitted <- InCall

GatedCalls == Gate!Spec

(* Debriefs side by side take the month past its cap by no more than what    *)
(* MaxInFlight of them can cost.                                             *)
SpendWithinBound == Gate!SpendBound

(* An attempt that has begun comes to an end. *)
AttemptsEnd ==
  \A r \in Runs : stage[r] \in Working ~> stage[r] \in Ended

(* When a run has persisted its last event its day gets a summary, from it   *)
(* or from another: no two attempts each leave the summary to the other.     *)
FinishedLoopGetsSummary ==
  \A r \in Runs :
    (stage[r] = "loop" /\ handled[r] = planned[r])
      ~> (HasSummary(DateOf(r)) \/ stage[r] \in {"store_error", "crashed"})

=============================================================================
