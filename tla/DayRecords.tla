----------------------------- MODULE DayRecords -----------------------------
(***************************************************************************)
(* What happens to the rows of a day over its life: debriefs write them    *)
(* (Debrief, the whole pipeline), 'tm reextract' replaces them and         *)
(* 'tm privacy redact' and 'forget' take their contents away.              *)
(*                                                                         *)
(* A re-extraction (a replay) reads the privacy log's length, its fence,   *)
(* then the day's transcript, copies the database and runs the pipeline    *)
(* there, alone; minutes later one transaction replaces the day's debrief  *)
(* rows if the fence still stands.  Debriefs know no fence.                *)
(***************************************************************************)
EXTENDS Integers, Sequences, FiniteSets

CONSTANTS Debriefs, Dates, Texts, MaxEvents, MaxInFlight,
          Estimates, Costs, Caps, LowestEstimate, HighestCost, HighestCap

CONSTANTS Replays,
          MaxActions,     \* model bound: privacy actions in the log
          Redacted,       \* the replacement text of redact
          NoText          \* a replay without --transcript-file

ASSUME DayRecordsAssumption ==
  /\ MaxActions \in Nat /\ MaxEvents \in Nat
  /\ Costs \subseteq Nat
  /\ Debriefs \cap Replays = {}
  /\ Redacted \notin Texts /\ NoText \notin Texts /\ Redacted # NoText

(* The database and the debriefs at work on it. *)
VARIABLES stage, request, planned, handled,
          events, summaries, recorded, spent, transcripts

VARIABLES
  blank,        \* event rows whose contents were redacted
  actions,      \* how many rows privacy_actions holds
  order,        \* the case_date and replacement text each replay was given
  step,         \* where each replay stands, or how it ended
  fence,        \* the length of privacy_actions it has read
  source,       \* the texts it extracts from
  seen,         \* the month's total in its copy of the ledger
  found,        \* how many events its extract holds
  billed,       \* how often its cost was entered in the live ledger
  erased        \* history: contents a privacy action took from each day

pipeline == <<stage, request, planned, handled>>
rows == <<events, summaries, transcripts, blank>>
ledger == <<recorded, spent, billed>>
replays == <<order, step, fence, source, seen, found>>
vars == <<pipeline, rows, ledger, replays, actions, erased>>

Pipeline == INSTANCE Debrief WITH Runs <- Debriefs

-----------------------------------------------------------------------------
DayOf(x) == order[x].date

Orders == [date : Dates, given : Texts \cup {NoText}]

Steps == {"new", "source", "copy", "extract", "replace", "bill",
          "replaced", "aborted", "unbilled", "crashed"}

ReplayRows == [run : Replays, nr : 1..MaxEvents, date : Dates]

(* What an event row tells: the text its run extracted it from, unless it   *)
(* was redacted.  A summary row holds two integers, which redact keeps.     *)
TextsOf(q) == IF q \in Debriefs THEN {request[q].text} ELSE source[q]

Segments(d) == {transcripts[d][i] : i \in DOMAIN transcripts[d]}

Visible(d) ==
  (Segments(d) \ {Redacted})
    \cup UNION {TextsOf(e.run) : e \in {row \in events \ blank : row.date = d}}

TypeOK ==
  /\ events \subseteq Pipeline!EventRows \cup ReplayRows
  /\ blank \subseteq Pipeline!EventRows \cup ReplayRows
  /\ summaries \subseteq [run : Debriefs \cup Replays, date : Dates]
  /\ transcripts \in [Dates -> Seq(Texts \cup {Redacted})]
  /\ actions \in 0..MaxActions
  /\ order \in [Replays -> Orders]
  /\ step \in [Replays -> Steps]
  /\ fence \in [Replays -> 0..MaxActions]
  /\ source \in [Replays -> SUBSET Texts]
  /\ seen \in [Replays -> Nat]
  /\ found \in [Replays -> 0..MaxEvents]
  /\ billed \in [Replays -> Nat]
  /\ spent \in Nat
  /\ erased \in [Dates -> SUBSET Texts]

Init ==
  /\ Pipeline!Init
  /\ blank = {} /\ actions = 0
  /\ order \in [Replays -> Orders]
  /\ step = [x \in Replays |-> "new"]
  /\ fence = [x \in Replays |-> 0]
  /\ source = [x \in Replays |-> {}]
  /\ seen = [x \in Replays |-> 0]
  /\ found = [x \in Replays |-> 0]
  /\ billed = [x \in Replays |-> 0]
  /\ erased = [d \in Dates |-> {}]

-----------------------------------------------------------------------------
Moves(x, from, to) == step[x] = from /\ step' = [step EXCEPT ![x] = to]

(* The rows of the copy's ledger above its cost floor, inserted with their  *)
(* own timestamps: they count for this month unless it has turned since.    *)
Bill(x) ==
  /\ billed' = [billed EXCEPT ![x] = @ + 1]
  /\ \E k \in Costs \cup {0} : spent' = spent + k
  /\ UNCHANGED recorded

(* Steps with a slip in them, one for each property: none is part of Next.  *)

(* The option's text is taken although the option was not given. *)
ReadOptionOnly(x) ==
  /\ Moves(x, "source", "copy")
  /\ source' = [source EXCEPT ![x] = {order[x].given}]
  /\ UNCHANGED <<pipeline, rows, ledger, order, fence, seen, found, actions, erased>>

(* The fence is read with the copy, after the transcript. *)
CopyReadsFence(x) ==
  /\ Moves(x, "copy", "extract")
  /\ seen' = [seen EXCEPT ![x] = spent]
  /\ fence' = [fence EXCEPT ![x] = actions]
  /\ UNCHANGED <<pipeline, rows, ledger, order, source, found, actions, erased>>

(* The old summary is not deleted, and the new one ignored if there is one. *)
SummaryIgnored(x) ==
  /\ events' = {e \in events : e.date # DayOf(x)}
                 \cup [run : {x}, nr : 1..found[x], date : {DayOf(x)}]
  /\ summaries' = IF \E s \in summaries : s.date = DayOf(x)
                    THEN summaries
                    ELSE summaries \cup {[run |-> x, date |-> DayOf(x)]}
  /\ UNCHANGED blank

(* The old summary is not deleted, and no index minds the new one. *)
SummaryJoined(x) ==
  /\ events' = {e \in events : e.date # DayOf(x)}
                 \cup [run : {x}, nr : 1..found[x], date : {DayOf(x)}]
  /\ summaries' = summaries \cup {[run |-> x, date |-> DayOf(x)]}
  /\ UNCHANGED blank

(* An error after the commit leads into the handler that bills. *)
ReplaceRaises(x) ==
  /\ actions = fence[x]
  /\ Moves(x, "replace", "bill")
  /\ Bill(x)
  /\ UNCHANGED <<pipeline, rows, order, fence, source, seen, found, actions, erased>>

(* The DELETE is not rolled back with the rest. *)
ReplaceFailsHalfway(x) ==
  /\ Moves(x, "replace", "bill")
  /\ events' = {e \in events : e.date # DayOf(x)}
  /\ summaries' = {s \in summaries : s.date # DayOf(x)}
  /\ UNCHANGED <<pipeline, transcripts, blank, ledger, order, fence, source, seen,
                 found, actions, erased>>

-----------------------------------------------------------------------------
(* A debrief's step.  What it writes into a day was submitted to it, so it  *)
(* counts as erased no longer: the person told it again, or was telling it. *)
DebriefStep ==
  /\ Pipeline!Next
  /\ UNCHANGED <<blank, billed, replays, actions>>
  /\ erased' = [d \in Dates |-> erased[d] \ Visible(d)']

(* reextract starts: the fence is read before anything else is.  A text the *)
(* person hands over with --transcript-file is told again, too.             *)
ReadFence(x) ==
  /\ Moves(x, "new", "source")
  /\ fence' = [fence EXCEPT ![x] = actions]
  /\ erased' = [erased EXCEPT ![DayOf(x)] = @ \ {order[x].given}]
  /\ UNCHANGED <<pipeline, rows, ledger, order, source, seen, found, actions>>

(* The retained transcript, all its segments, or the given text instead. *)
ReadSource(x) ==
  /\ IF order[x].given # NoText
       THEN /\ Moves(x, "source", "copy")
            /\ source' = [source EXCEPT ![x] = {order[x].given}]
       ELSE IF transcripts[DayOf(x)] = <<>>
         THEN Moves(x, "source", "aborted") /\ UNCHANGED source
         ELSE /\ Moves(x, "source", "copy")
              /\ source' = [source EXCEPT ![x] = Segments(DayOf(x)) \ {Redacted}]
  /\ UNCHANGED <<pipeline, rows, ledger, order, fence, seen, found, actions, erased>>

(* _copy_database, and the debrief rows of the day deleted in the copy. *)
CopyDatabase(x) ==
  /\ Moves(x, "copy", "extract")
  /\ seen' = [seen EXCEPT ![x] = spent]
  /\ UNCHANGED <<pipeline, rows, ledger, order, fence, source, found, actions, erased>>

(* The pipeline on the copy, where it is alone: it ends before its call is  *)
(* charged (over the cap, no answer, a refused answer) ...                  *)
ExtractRefused(x) ==
  /\ Moves(x, "extract", "aborted")
  /\ UNCHANGED <<pipeline, rows, ledger, order, fence, source, seen, found, actions,
                 erased>>

(* ... or after, in the loop, with a ledger row in the copy only ...        *)
ExtractFails(x) ==
  /\ \E e \in Estimates, cap \in Caps : seen[x] + e <= cap
  /\ Moves(x, "extract", "bill")
  /\ UNCHANGED <<pipeline, rows, ledger, order, fence, source, seen, found, actions,
                 erased>>

(* ... or with n events and a summary. *)
Extracts(x) ==
  /\ \E e \in Estimates, cap \in Caps : seen[x] + e <= cap
  /\ Moves(x, "extract", "replace")
  /\ \E n \in 0..MaxEvents : found' = [found EXCEPT ![x] = n]
  /\ UNCHANGED <<pipeline, rows, ledger, order, fence, source, seen, actions, erased>>

(* What _DEBRIEF_EVENT_FILTER leaves of the day and what comes in its place. *)
ReplacedRows(x) ==
  /\ events' = {e \in events : e.date # DayOf(x)}
                 \cup [run : {x}, nr : 1..found[x], date : {DayOf(x)}]
  /\ summaries' = {s \in summaries : s.date # DayOf(x)}
                    \cup {[run |-> x, date |-> DayOf(x)]}
  /\ UNCHANGED blank

(* _replace_debrief_events: one BEGIN IMMEDIATE. *)
Replace(x) ==
  /\ actions = fence[x]
  /\ Moves(x, "replace", "replaced")
  /\ ReplacedRows(x)
  /\ transcripts' = IF order[x].given = NoText
                      THEN transcripts
                      ELSE [transcripts EXCEPT ![DayOf(x)] = <<order[x].given>>]
  /\ Bill(x)
  /\ UNCHANGED <<pipeline, order, fence, source, seen, found, actions, erased>>

(* PrivacyFenceChangedError, or any error that rolls the replacement back. *)
ReplaceFails(x) ==
  /\ Moves(x, "replace", "bill")
  /\ UNCHANGED <<pipeline, rows, ledger, order, fence, source, seen, found, actions,
                 erased>>

(* _append_cost_rows in the handlers of those errors; it can fail as well. *)
AppendCost(x) ==
  /\ Moves(x, "bill", "aborted")
  /\ Bill(x)
  /\ UNCHANGED <<pipeline, rows, order, fence, source, seen, found, actions, erased>>

AppendFails(x) ==
  /\ Moves(x, "bill", "unbilled")
  /\ UNCHANGED <<pipeline, rows, ledger, order, fence, source, seen, found, actions,
                 erased>>

(* The command dies, or one of its reads finds the database locked. *)
ReplayCrashes(x) ==
  /\ step[x] \in {"source", "copy", "extract", "replace", "bill"}
  /\ step' = [step EXCEPT ![x] = "crashed"]
  /\ UNCHANGED <<pipeline, rows, ledger, order, fence, source, seen, found, actions,
                 erased>>

-----------------------------------------------------------------------------
(* A privacy action of day d: one BEGIN IMMEDIATE that ends with its row in *)
(* privacy_actions.  What the day showed before and no longer is erased.    *)
Logged(d) ==
  /\ actions < MaxActions
  /\ actions' = actions + 1
  /\ UNCHANGED <<pipeline, ledger, replays>>
  /\ erased' = [erased EXCEPT ![d] = (@ \cup Visible(d)) \ Visible(d)']

(* forget --case-date: the day's rows of every table. *)
ForgetDay(d) ==
  /\ events' = {e \in events : e.date # d}
  /\ summaries' = {s \in summaries : s.date # d}
  /\ transcripts' = [transcripts EXCEPT ![d] = <<>>]
  /\ UNCHANGED blank
  /\ Logged(d)

(* forget --event-id: one event (or summary), and its day's transcript. *)
ForgetEvent(d) ==
  /\ \/ \E e \in events : e.date = d /\ events' = events \ {e} /\ UNCHANGED summaries
     \/ \E s \in summaries :
          s.date = d /\ summaries' = summaries \ {s} /\ UNCHANGED events
  /\ transcripts' = [transcripts EXCEPT ![d] = <<>>]
  /\ UNCHANGED blank
  /\ Logged(d)

RedactTranscript(d) ==
  transcripts' = IF transcripts[d] = <<>>
                   THEN transcripts
                   ELSE [transcripts EXCEPT ![d] = <<Redacted>>]

(* redact --case-date: events keep their shape, the transcript one text. *)
RedactDay(d) ==
  /\ blank' = blank \cup {e \in events : e.date = d}
  /\ RedactTranscript(d)
  /\ UNCHANGED <<events, summaries>>
  /\ Logged(d)

(* redact --event-id: one event, and its day's transcript. *)
RedactEvent(d) ==
  /\ \/ \E e \in events : e.date = d /\ blank' = blank \cup {e}
     \/ (\E s \in summaries : s.date = d) /\ UNCHANGED blank
  /\ RedactTranscript(d)
  /\ UNCHANGED <<events, summaries>>
  /\ Logged(d)

(* Either command with an event id no row has: logged, and nothing else. *)
UnknownEvent(d) == UNCHANGED rows /\ Logged(d)

PrivacyAction(d) ==
  \/ ForgetDay(d) \/ ForgetEvent(d) \/ RedactDay(d) \/ RedactEvent(d)
  \/ UnknownEvent(d)

Replay(x) ==
  \/ ReadFence(x) \/ ReadSource(x) \/ CopyDatabase(x)
  \/ ExtractRefused(x) \/ ExtractFails(x) \/ Extracts(x)
  \/ Replace(x) \/ ReplaceFails(x) \/ AppendCost(x) \/ AppendFails(x)
  \/ ReplayCrashes(x)

Next ==
  \/ DebriefStep
  \/ \E x \in Replays : Replay(x)
  \/ \E d \in Dates : PrivacyAction(d)

Spec == Init /\ [][Next]_vars

-----------------------------------------------------------------------------
(* What a privacy action took from a day stays away: no re-extraction that   *)
(* had read it, or copied it, before brings it back.  Only a debrief of it   *)
(* or a new --transcript-file can (the fence of _replace_debrief_events).    *)
ErasedStaysErased ==
  \A d \in Dates : Visible(d) \cap erased[d] = {}

(* A re-extraction that was paid for enters the live ledger once, although   *)
(* its cost is written by the replacement or by either of two handlers; it   *)
(* replaces nothing unpaid.                                                  *)
ReplayBilledOnce ==
  \A x \in Replays :
    /\ step[x] \notin {"replaced", "aborted"} => billed[x] = 0
    /\ step[x] = "replaced" => billed[x] = 1
    /\ billed[x] <= 1

(* As long as no privacy action touched the data, a summary row stands for   *)
(* a whole extract: a replacement that overtakes a debrief takes both its    *)
(* events and its claim to the summary, never one of the two.                *)
WholeExtracts ==
  \A s \in summaries :
    IF s.run \in Replays
      THEN fence[s.run] = actions =>
             [run : {s.run}, nr : 1..found[s.run], date : {s.date}] \subseteq events
      ELSE actions = 0 =>
             [run : {s.run}, nr : 1..planned[s.run], date : {s.date}] \subseteq events

(* The summary of a day has one owner through all of this; a replacement     *)
(* swaps it in one step and only a privacy action leaves the day without.    *)
Day == INSTANCE DaySummary WITH
         owners <- [d \in Dates |-> {s.run : s \in {t \in summaries : t.date = d}}]

SummaryLife == Day!LifeSpec

(* Nothing but a privacy action takes a day's summary away. *)
SummaryOutlivesReplays ==
  [][\A d \in Dates :
       Pipeline!HasSummary(d) /\ ~Pipeline!HasSummary(d)' => actions' # actions]_vars
=============================================================================
