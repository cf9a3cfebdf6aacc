------------------------------ MODULE Scheduler ------------------------------
(***************************************************************************)
(* Proactive suggestions (tm.agents.scheduler.SchedulerAgent and its two   *)
(* callers, 'tm suggest' and the daemon's propose_suggestion RPC).         *)
(*                                                                         *)
(* A proposal counts the day's suggestions, gathers its context, passes    *)
(* the budget gate, asks the LLM, records the cost, warns when the month   *)
(* nears its cap, weighs the candidate and logs it.  Each of these is a    *)
(* repository call with a connection of its own; the daemon runs proposals *)
(* outside its write lock, and all of its proposals share one CostMeter.   *)
(***************************************************************************)
EXTENDS Integers, FiniteSets

CONSTANTS Runs,           \* proposals
          DaemonRuns,     \* those of them that the daemon runs
          Daemon,         \* its CostMeter
          Dates,
          Limits,         \* suggestions per day a caller may ask for
          HighestLimit,
          MaxInFlight     \* proposals running at once

CONSTANTS Estimates, Costs, Caps, LowestEstimate, HighestCost, HighestCap

ASSUME SchedulerAssumption ==
  /\ IsFiniteSet(Runs) /\ DaemonRuns \subseteq Runs /\ Daemon \notin Runs
  /\ MaxInFlight \in Nat
  /\ Limits \subseteq Nat /\ HighestLimit \in Nat
  /\ \A n \in Limits : n <= HighestLimit
  /\ Estimates \subseteq Nat /\ Costs \subseteq Nat /\ Caps \subseteq Nat
  /\ LowestEstimate \in Nat /\ \A e \in Estimates : LowestEstimate <= e
  /\ HighestCost \in Nat /\ \A k \in Costs : k <= HighestCost
  /\ HighestCap \in Nat /\ \A cap \in Caps : cap <= HighestCap

VARIABLES
  stage,        \* where each proposal stands, or how it ended
  request,      \* the day it is for and its limit
  suggestions,  \* rows of suggestion_telemetry
  rated,        \* those of them with an outcome or thumbs
  spent,        \* the ledger's total for the current month
  latest,       \* history: whose row of this month is the ledger's last
  caps,         \* the cap each CostMeter was made with
  fired         \* meters whose _soft_alarm_fired is set

telemetry == <<suggestions, rated>>
meter == <<spent, latest, fired>>
vars == <<stage, request, telemetry, meter, caps>>

Working == {"count", "context", "budget", "llm", "charge", "alarm", "total",
            "weigh", "log"}

(* "skipped" before the call and "rejected" after it are answers without a  *)
(* suggestion, "failed" and, of log_suggestion, "unlogged" are errors.      *)
Ended == {"suggested", "skipped", "rejected", "failed", "unlogged", "crashed"}

Meters == (Runs \ DaemonRuns) \cup {Daemon}
MeterOf(r) == IF r \in DaemonRuns THEN Daemon ELSE r

(* What is asked: the limit per day is the caller's or the environment's.   *)
Requests == [date : Dates, limit : Limits]

SuggestionRows == [run : Runs, date : Dates]
DateOf(r) == request[r].date
RowsOf(d) == {s \in suggestions : s.date = d}
Running == {r \in Runs : stage[r] \in Working}

TypeOK ==
  /\ stage \in [Runs -> Working \cup Ended \cup {"new"}]
  /\ request \in [Runs -> Requests]
  /\ suggestions \subseteq SuggestionRows
  /\ rated \subseteq suggestions
  /\ spent \in Nat
  /\ latest \subseteq Runs
  /\ caps \in [Meters -> Caps]
  /\ fired \subseteq Meters

Init ==
  /\ stage = [r \in Runs |-> "new"]
  /\ request \in [Runs -> Requests]
  /\ suggestions = {} /\ rated = {}
  /\ spent = 0 /\ latest = {} /\ fired = {}
  /\ caps \in [Meters -> Caps]

-----------------------------------------------------------------------------
Moves(r, from, to) == stage[r] = from /\ stage' = [stage EXCEPT ![r] = to]

(* Soft alarm at seven tenths of the cap. *)
NearCap(m) == 10 * spent >= 7 * caps[m]

(* Steps with a slip in them; none is part of Next. *)

(* The count is held against the limit with the wrong comparison. *)
CountTooFew(r) ==
  /\ Cardinality(RowsOf(DateOf(r))) <= request[r].limit
  /\ Moves(r, "count", "context")
  /\ UNCHANGED <<request, telemetry, meter, caps>>

(* The gate is passed without a look at the ledger. *)
GateForgetsSpent(r) ==
  /\ \E e \in Estimates : e <= caps[MeterOf(r)]
  /\ Moves(r, "budget", "llm")
  /\ UNCHANGED <<request, telemetry, meter, caps>>

(* The total is read with a strict comparison. *)
AlarmAboveOnly(r) ==
  /\ Moves(r, "total", "weigh")
  /\ fired' = IF 10 * spent > 7 * caps[MeterOf(r)] THEN fired \cup {MeterOf(r)}
                                                   ELSE fired
  /\ UNCHANGED <<request, telemetry, spent, latest, caps>>

(* A failing call is tried again and again. *)
LlmRetries(r) ==
  /\ Moves(r, "llm", "budget")
  /\ UNCHANGED <<request, telemetry, meter, caps>>

-----------------------------------------------------------------------------
(* 'tm suggest', or propose_suggestion with parameters it accepts. *)
Begin(r) ==
  /\ Cardinality(Running) < MaxInFlight
  /\ Moves(r, "new", "count")
  /\ UNCHANGED <<request, telemetry, meter, caps>>

(* count_for_case_date against the limit per day. *)
CountAdmits(r) ==
  /\ Cardinality(RowsOf(DateOf(r))) < request[r].limit
  /\ Moves(r, "count", "context")
  /\ UNCHANGED <<request, telemetry, meter, caps>>

CountRefuses(r) ==
  /\ Cardinality(RowsOf(DateOf(r))) >= request[r].limit
  /\ Moves(r, "count", "skipped")
  /\ UNCHANGED <<request, telemetry, meter, caps>>

(* Variants, clusters, the day's events and the active goals: something ... *)
GatherContext(r) ==
  /\ Moves(r, "context", "budget")
  /\ UNCHANGED <<request, telemetry, meter, caps>>

(* ... or nothing at all ... *)
ContextEmpty(r) ==
  /\ Moves(r, "context", "skipped")
  /\ UNCHANGED <<request, telemetry, meter, caps>>

(* ... or an error of any of them. *)
ContextFails(r) ==
  /\ Moves(r, "context", "failed")
  /\ UNCHANGED <<request, telemetry, meter, caps>>

(* CostMeter.check_budget with the estimate for this context. *)
BudgetAdmits(r) ==
  /\ \E e \in Estimates : spent + e <= caps[MeterOf(r)]
  /\ Moves(r, "budget", "llm")
  /\ UNCHANGED <<request, telemetry, meter, caps>>

BudgetRefuses(r) ==
  /\ \E e \in Estimates : spent + e > caps[MeterOf(r)]
  /\ Moves(r, "budget", "failed")
  /\ UNCHANGED <<request, telemetry, meter, caps>>

(* LLMClient.extract and _validate_candidate_response: a candidate, or an   *)
(* error before the cost is recorded.                                       *)
LlmAnswers(r) ==
  /\ Moves(r, "llm", "charge")
  /\ UNCHANGED <<request, telemetry, meter, caps>>

LlmFails(r) ==
  /\ Moves(r, "llm", "failed")
  /\ UNCHANGED <<request, telemetry, meter, caps>>

(* CostMeter.record: the row first ... *)
RecordCost(r) ==
  /\ Moves(r, "charge", "alarm")
  /\ \E k \in Costs : spent' = spent + k
  /\ latest' = {r}
  /\ UNCHANGED <<request, telemetry, fired, caps>>

(* ... then the alarm: the meter's flag is read ... *)
AlarmReadsFlag(r) ==
  /\ Moves(r, "alarm", IF MeterOf(r) \in fired THEN "weigh" ELSE "total")
  /\ UNCHANGED <<request, telemetry, meter, caps>>

(* ... and, if it was clear, the month's total, with the warning. *)
AlarmReadsTotal(r) ==
  /\ Moves(r, "total", "weigh")
  /\ fired' = IF NearCap(MeterOf(r)) THEN fired \cup {MeterOf(r)} ELSE fired
  /\ UNCHANGED <<request, telemetry, spent, latest, caps>>

(* Guardrails.evaluate: all three accept the candidate ... *)
GuardsAccept(r) ==
  /\ Moves(r, "weigh", "log")
  /\ UNCHANGED <<request, telemetry, meter, caps>>

(* ... or one of them does not, and the candidate that was paid for is      *)
(* dropped.                                                                 *)
GuardsReject(r) ==
  /\ Moves(r, "weigh", "rejected")
  /\ UNCHANGED <<request, telemetry, meter, caps>>

(* log_suggestion, however many the day has by now. *)
LogSuggestion(r) ==
  /\ Moves(r, "log", "suggested")
  /\ suggestions' = suggestions \cup {[run |-> r, date |-> DateOf(r)]}
  /\ UNCHANGED <<request, rated, meter, caps>>

(* A repository call gives up on a locked database. *)
StoreFails(r) ==
  /\ \/ \E from \in {"count", "budget", "charge", "total"} : Moves(r, from, "failed")
     \/ Moves(r, "log", "unlogged")
  /\ UNCHANGED <<request, telemetry, meter, caps>>

(* The process dies: the daemon takes all of its proposals with it, and the *)
(* next one starts with a meter whose alarm has not fired.                  *)
CommandCrashes(r) ==
  /\ r \notin DaemonRuns /\ stage[r] \in Working
  /\ stage' = [stage EXCEPT ![r] = "crashed"]
  /\ UNCHANGED <<request, telemetry, meter, caps>>

DaemonRestarts ==
  /\ \E r \in DaemonRuns : stage[r] \in Working
  /\ stage' = [r \in Runs |->
                 IF r \in DaemonRuns /\ stage[r] \notin {"new"} THEN
                   IF stage[r] \in Working THEN "crashed" ELSE stage[r]
                 ELSE stage[r]]
  /\ fired' = fired \ {Daemon}
  /\ latest' = latest \ DaemonRuns
  /\ UNCHANGED <<request, telemetry, spent, caps>>

(* record_actual_outcome and record_thumbs; an unknown id changes nothing. *)
Rate(s) ==
  /\ rated' = rated \cup {s}
  /\ UNCHANGED <<stage, request, suggestions, meter, caps>>

(* tm privacy forget takes the day's suggestions as well. *)
ForgetDay(d) ==
  /\ suggestions' = suggestions \ RowsOf(d)
  /\ rated' = rated \ RowsOf(d)
  /\ UNCHANGED <<stage, request, meter, caps>>

MonthRolls ==
  /\ spent > 0
  /\ spent' = 0 /\ latest' = {}
  /\ UNCHANGED <<stage, request, telemetry, fired, caps>>

(* What a proposal does by itself once it has begun. *)
Proposal(r) ==
  \/ CountAdmits(r) \/ CountRefuses(r) \/ GatherContext(r)
  \/ ContextEmpty(r) \/ ContextFails(r) \/ BudgetAdmits(r) \/ BudgetRefuses(r)
  \/ LlmAnswers(r) \/ LlmFails(r) \/ RecordCost(r)
  \/ AlarmReadsFlag(r) \/ AlarmReadsTotal(r) \/ GuardsAccept(r) \/ GuardsReject(r)
  \/ LogSuggestion(r)

Next ==
  \/ \E r \in Runs :
       Begin(r) \/ Proposal(r) \/ StoreFails(r) \/ CommandCrashes(r)
  \/ DaemonRestarts
  \/ \E s \in suggestions : Rate(s)
  \/ \E d \in Dates : ForgetDay(d)
  \/ MonthRolls

Spec == Init /\ [][Next]_vars

(* A begun proposal keeps running; nothing obliges anyone to begin one. *)
FairSpec == Spec /\ \A r \in Runs : WF_vars(Proposal(r))

-----------------------------------------------------------------------------
(* The limit per day is counted before the call and the row comes after it: *)
(* proposals side by side may pass it, but by no more than were under way   *)
(* together, and a limit of zero is kept (propose_suggestion, step 1).      *)
DayLimitBound ==
  \A d \in Dates :
    \/ RowsOf(d) = {}
    \/ HighestLimit > 0
       /\ Cardinality(RowsOf(d)) <= HighestLimit - 1 + MaxInFlight

(* The alarm is not missed: when the proposal that wrote the month's last   *)
(* ledger row has gone past its alarm, its meter has warned if the total is *)
(* at seven tenths of the cap, whatever the meter's other proposals did in  *)
(* between the flag, the total and the warning.  A meter warns once in the  *)
(* life of its process: a daemon that has warned says nothing of the months *)
(* that follow.                                                             *)
AlarmNotMissed ==
  \A r \in latest :
    stage[r] \in {"weigh", "log", "rejected", "suggested", "unlogged"}
      /\ NearCap(MeterOf(r))
    => MeterOf(r) \in fired

(* Between check_budget and record a proposal follows BudgetGate, so its    *)
(* bound on the month's spend is a bound for proposals too.                 *)
InCall == {r \in Runs : stage[r] \in {"llm", "charge"}}

Gate == INSTANCE BudgetGate WITH Calls <- Runs, admitted <- InCall

GatedCalls == Gate!Spec

(* A proposal that has begun comes to an end. *)
ProposalsEnd == \A r \in Runs : stage[r] \in Working ~> stage[r] \in Ended
=============================================================================
