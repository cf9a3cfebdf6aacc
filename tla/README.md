# A TLA+ verification of tm

`tm` is a single-user time manager. A person describes a day in free prose;
an LLM turns the prose into events, which are kept in SQLite, mined for a
process model (kept in Kuzu) and used to suggest what to do next. There is no
server farm, but there is concurrency: a daemon with worker threads, CLI
commands that open the same database themselves, and LLM calls that last for
minutes in the middle of both. This directory models that part of the program.
Paths below are relative to the repository.

## The system

| part | state | operations | interacts with |
|---|---|---|---|
| debrief agent (`tm/agents/debrief.py`, `tm/commands/debrief.py`) | none of its own: rows of `events`, `cost_ledger`, `transcripts` | `extract_and_persist` | LLM client, cost meter, aligner, goals, events, transcripts |
| cost meter (`tm/llm/cost_meter.py`) | `cost_ledger`, the alarm flag of a process | `check_budget`, `record`, soft alarm | both agents, the daemon |
| scheduler agent (`tm/agents/scheduler.py`) | `suggestion_telemetry` | `propose_suggestion`, guardrails | cost meter, engines, telemetry |
| daemon (`tm/daemon.py`, `tm/commands/daemon.py`) | listener, workers, write lock, PID and socket files | start, stop, dispatch, shutdown | every repository, both agents, web app |
| re-extraction (`tm/commands/reextract.py`) | a staging copy of the database | replay of a day's transcript, replacement | debrief agent, privacy log |
| privacy (`tm/commands/privacy.py`) | `privacy_actions` | redact, forget | events, transcripts, telemetry, Kuzu files |
| capture (`tm/commands/capture.py`) | - | telegram, calendar, voice import | events, transcripts |
| repositories (`tm/repositories/*`) | their tables | one short transaction per call | SQLite |
| SQLite store (`tm/stores/sqlite_store.py`) | `schema_migrations` | apply pending migrations | every command at its start |
| Kuzu store (`tm/stores/kuzu_*.py`) | graph of models, places, arcs | persist, delete, read a model | daemon, `tm discover` |
| aligner and vocabulary (`tm/vocab_alignment.py`, `tm/repositories/vocabulary.py`, `tm/commands/vocab.py`) | `vocabulary`, `aliases` | resolve, align, alias, archive, seed, review | debrief agent, daemon |
| goals (`tm/repositories/goals.py`, `tm/commands/goal.py`) | `goals` | add, complete, abandon | daemon, `tm goal` |
| outcome, engines | - | pure functions of the event log | scheduler, reports |

What is hard in it:

* `_READ_METHODS` and `_LLM_METHODS` bypass the daemon's write lock, so two
  `run_debrief` or `propose_suggestion` requests run side by side; CLI commands
  never take that lock at all.
* Each repository call is its own connection and its own commit. An operation
  of several calls can be cut anywhere by a crash, a locked database, or the
  daemon's exit (its workers are `daemon=True` threads, joined for a bounded
  time), and another operation can come in between.
* Checks are separated from the writes they guard: the budget from the ledger
  row by a whole LLM call, the summary look-up from its insert, the rate limit
  from the logged suggestion, the privacy fence from the replacement.
* Clients time out (2 s in the web app, 5 s in `DaemonClient`) and try again
  while the daemon still works on the first request.

What makes each part correct:

* debrief: one summary for a day, written after all events of its extract; no
  row unpaid; success means the day has a summary; the transcript kept for
  re-extraction is exactly what was debriefed.
* cost meter: a bound on how far the month can pass its cap; an alarm that is
  not missed.
* scheduler: at most the daily number of suggestions; nothing logged that the
  guardrails refused.
* re-extraction and privacy: a day never loses its summary to a replacement;
  what was erased does not come back; each paid call is charged once.
* daemon: one listener, which its files name; what a dead daemon left stops no
  later one; a daemon that is asked to stop ends.
* goals: a goal ends once, and a caller is told what was committed, as far as the
  code reads back what it wrote.
* migrations: who begins its work sees the schema its files describe; an upgrade
  loses no goal, and of the summaries only those its clean-up names.
* Kuzu: what a rebuild answered can be read back whole; it leaves other models
  alone.
* vocabulary: labels of one activity end in one row; an answered label stays
  answered.
* capture: a finished import has stored whatever it could use; importing again adds
  nothing that was redacted; a note in the log can be replayed.

`PROJECT.json` lists every component with its status, and the hazards at their
lines with the properties that watch over them.

## Modules

| module | models | proofs |
|---|---|---|
| `BudgetGate` | the protocol between `check_budget` and `record`, for any caller | `BudgetGate_proofs` |
| `DaySummary` | what the program promises about a day's summary row | - |
| `Debrief` | the debrief pipeline, any number of attempts side by side | `Debrief_proofs` |
| `DayRecords` | a day's rows under debriefs, re-extractions and privacy actions | `DayRecords_proofs` |
| `Capture` | imports and voice notes beside everything that writes their days | `Capture_proofs` |
| `Scheduler` | proposals of suggestions, the day's limit, the soft alarm | `Scheduler_proofs` |
| `GoalCalls` | goals written through the daemon and past it; requests, lock, shutdown | `Daemon_proofs` |
| `Vocabulary` | the alignment of labels, aliases, seeding, the review session | `SqliteStore_proofs` |
| `Migrations` | upgrades of one database by processes of several releases | `SqliteStore_proofs` |
| `KuzuProjection` | the statements of a rebuild, cut short anywhere | `KuzuProjection_proofs` |
| `DaemonLife` | `tm daemon start` and `stop` around the PID file and the socket | `Daemon_proofs` |
| `MCDebrief`, `MCDayRecords`, `MCCapture` | symmetry for TLC | |

`DayRecords` composes `Debrief` with re-extraction and privacy; `Debrief` and
`Scheduler` implement `BudgetGate`; `Debrief` and `DayRecords` implement
`DaySummary`. The other modules share no variable: each is about a table, a
pair of files or a database of its own. Where two of them meet in the code, the
module that needs the other's steps has them in the form it can tell apart
(`Vocabulary` the end of a debrief, `Capture` a replaced transcript, `Scheduler`
a forgotten day).

`Daemon_proofs` extends the two modules about the daemon, `DaemonLife` and
`GoalCalls`, and `SqliteStore_proofs` two about the store, `Migrations` and
`Vocabulary`. That is why `GoalCalls` and `Vocabulary` name what every module has
after themselves (`CallsInit`, `CallsNext`, `CallsSpec`; `VocabInit` ...).

### Debrief

An attempt is one call of `extract_and_persist` with its caller, a CLI process
or a daemon thread. `stage[r]` is the program counter between two repository
calls, and at the end the way it ended, one value per error class:

| stage | waits to | leaves by |
|---|---|---|
| `guard` | look up the summary (`_guard_existing_summary`) | `GuardPasses`, `GuardRefuses` |
| `budget` | `check_budget` | `BudgetAdmits`, `BudgetRefuses` |
| `llm` | get the answer, validate its shape | `LlmAnswers`, `LlmFails` |
| `charge` | `CostMeter.record` | `RecordCost` |
| `loop` | persist the next event, then look the summary up again | `PersistEvent`, `EventFails`, `RecheckFindsNone`, `RecheckFindsSummary` |
| `insert` | insert the summary under the index of migration 0010 | `InsertSummary`, `InsertConflicts` |
| `keepNew`, `keepOld` | upsert the transcript | `KeepTranscript` |

`StoreFails` (a locked database) and `Crash` can end an attempt at every stage,
`MonthRolls` empties the current month's total, `Begin` is a new submission; a
retry of the user or of a client is just another attempt. `planned` is the
number of events in the attempt's extract, `handled` how many it has committed.
The variables `events`, `summaries`, `recorded`, `spent` and `transcripts` are
the tables. A successful attempt is `persisted` when it wrote the summary and
`superseded` when the look-up after the loop found one.

Abstracted: the contents of events, the words of errors, amounts of money
(small naturals in the runs, any naturals in the proofs), token counts, the
transcript's separators (a transcript is the sequence of its segments). The
aligner and the goal look-up are outcomes of an event's turn. Two assumptions:
the vocabulary holds no activity called `debrief_summary` (nothing seeds it,
though nothing forbids it), and in `Debrief` by itself a day's transcript is fed by debriefs
only (`DayRecords` adds re-extractions and privacy actions, `Capture` voice
notes).

### BudgetGate and DaySummary

Two abstract specifications, each the promise of one aspect of the pipeline.
`Debrief` instantiates them: `Day` maps a date to the attempts that own a
summary row of it, `Gate` maps the admitted calls to the attempts at `llm` or
`charge`. `SummaryWrittenOnce` and `GatedCalls` say that every behaviour of
`Debrief` is one of theirs; TLC checks it and TLAPS proves it. `GatedCalls` of
`Scheduler` says the same of proposals, so the bound on the spend that is
proved of `BudgetGate` is one for both.
`DaySummary` has two next-state relations: debriefs alone only ever record a
summary (`Spec`); with re-extractions and privacy actions it may also be
replaced in one step or erased (`LifeSpec`), which is what `DayRecords`
implements.

### DayRecords

`Pipeline == INSTANCE Debrief` is the debriefs, every action of theirs, on the
shared tables; a debrief row is `[run, nr, date]` with the attempt as `run`. A
re-extraction `x \in Replays` is one `tm reextract` process, with `order[x]` its
options and `step[x]` its program counter:

| step | waits to | leaves by |
|---|---|---|
| `new` | count `privacy_actions`, its fence | `ReadFence` |
| `source` | read the retained transcript, or take the given text | `ReadSource` |
| `copy` | copy the database and delete the day's debrief rows there | `CopyDatabase` |
| `extract` | run the pipeline on the copy | `ExtractRefused`, `ExtractFails`, `Extracts` |
| `replace` | replace the day's rows in one transaction, fence tested inside | `Replace`, `ReplaceFails` |
| `bill` | append the copy's new ledger rows, in an error handler | `AppendCost`, `AppendFails` |

`ReplayCrashes` can end it at each of them. The copy has one user, so the
pipeline there is not interleaved: what it leaves is a number of events and a
summary, or an error before or after the charge. A privacy action is one
transaction that ends with its row in `privacy_actions`: `ForgetDay`,
`ForgetEvent`, `RedactDay`, `RedactEvent`, and `UnknownEvent` for an id that no
row has. `blank` holds the rows that redaction emptied. `erased` is a history
variable, the texts each day showed (in a transcript segment or a row extracted
from it) until a privacy action took them; telling a day again, by a debrief
or by `--transcript-file`, is no return of what was erased, so it leaves
`erased`. A debrief in progress while its day is forgotten is such a telling:
the code gives debriefs no fence.

No bound on the month's spend is stated here: a re-extraction asks the meter of
its copy, minutes before its cost reaches the live ledger, so `BudgetGate` does
not describe it.

Left out here: rows that are no debrief's (in `Capture`), `suggestion_telemetry`
(in `Scheduler`), and the Kuzu projection that the privacy actions remove (in
`KuzuProjection`).

### Capture

An import reads its whole file first (`BeginImport`, or `FileRefused`) and then
appends one row after the other, each in a transaction of its own (`ImportItem`,
or `SkipKnown` where the `IntegrityError` of a taken `event_id` is swallowed). An
item is a model value; what its `event_id` is made of is `key[i]`, so items with
one key are the same item in two exports or two messages that the fallback
identity does not tell apart. The first that arrives is the one that stays: an
edited message or a moved appointment is not updated. `NoKey` is an entry without
a UID, which gets a fresh id each time. `Usable` are the items with a `day`: a message
without text or with a date that cannot be read or has no zone, and an entry without
`DTSTART`, are passed over in silence (`SkipUnusable`) and the import still ends well,
while an entry with a zone of its own, a recurrence or an unreadable date refuses the
whole calendar (`FileRefused`). A voice note is `KeepSegment`, then
`AppendNote`; `CutShort` ends either kind of capture between two transactions.
`Debriefed` and `Replace` are what debriefs and re-extractions do to a day's
transcript, `ForgetDay`, `ForgetEvent`, `RedactDay`, `RedactEvent` what privacy
actions do to rows and transcripts. `forgotten`, `hidden`, `taken` and `replaced`
are history: they say whom the properties must except. `Replace` is where a voice
note's segment may go: the fence of a re-extraction counts privacy actions only.

### Scheduler

A proposal is a daemon thread (`DaemonRuns`) or one `tm suggest`. `stage[r]` goes
`count`, `context`, `budget`, `llm`, `charge`, `alarm`, `total`, `weigh`, `log`, one
repository call each; `alarm` and `total` are the two reads of the soft alarm, whose
flag `fired` belongs to a meter: one for all of the daemon's proposals, one for each
command. The guardrails are one step with two outcomes, because their scores are
floating point. `DaemonRestarts` ends the daemon's proposals and resets its flag,
`ForgetDay` takes suggestions away and `Rate` judges one. `latest` names the writer
of the month's last ledger row, at whose alarm the whole total is visible.

### GoalCalls

A request goes from its client (`Send`, `Refused`, `ClientGivesUp`) through one
worker: `ReadRequest` or `BadRequest`, `AcquireLock`, then the repository's
statements, `CheckPasses` or `CheckFails`, `Insert` or `Update` (`WriteFails`),
commit, and `Fetch`, which builds the answer from the row. The lock is released by
whatever ends the handler. A `Commands` run does the same without the lock.
`Shutdown` and `ProcessEnds` are the daemon's end under all of it. `outcome` is
what the caller has learnt, `effects` (history) whose write was committed.
The table and the dataclass do not agree on what a goal is: a name of no-break spaces,
and from the daemon's clients a priority of 1.5, pass the `CHECK`s of migration 0009
but not `Goal`. `refused` are the rows of that kind among those a caller asks for, to
be added or from an earlier day. For them each of the three operations commits and
then raises (`GoalRaises`, in `Fetch`), so the caller hears of an error although the
write is there, and `AnswersAreTrue` says just that: a success is a committed write of
a row that `Goal` accepts, an error is no write or a row that it refuses. That a row
read back on the connection that wrote it is there is assumed.

### Vocabulary

A debrief aligns one label: `AlignHits`, or `AlignMisses` with the active names
`offered` to the LLM and `LlmProposes`, then `StoreEvent`; aligning reads the
vocabulary and writes nothing to it. A review loads the novel labels of the events and
asks about one at a time: `Merge`, `MergeInto`, `MergeCancelled`, `Create` and `AliasCreated` (two
transactions), `Skipped`. `Seeders` are `tm init` and `tm vocab list` (two
transactions too), and the `Client...` actions and `Archive` the daemon's methods.
Letter case is left out, white space is not: `padded` labels are stored as they
came, looked up as they are by a review and stripped in the alias it writes, so
such a label is asked about again. A daemon's client may also add a name with blanks
around it (`daemon.py:687` does not strip it), which `VocabularyRepository.resolve`
would match as it stands; such names are left out, and so is the `ValueError` that a
review swallows for a label of blanks only, which no debrief stores. The aligner's call to the LLM passes no budget
gate and leaves no ledger row, so no money is modelled here.

### Migrations

`Open`, `ReadRecorded`, then for each version `PreTxn`, `BeginImmediate` (or `Busy`),
`BodyCommits` (or `BodyFails`) and `PostTxn`. `release[p]` is how many files the process
has, `edited[p]` which of them differs from what was shipped (`DriftFound`). Two
bodies are singled out: the rebuild of `goals` (0008, 0009), which a blank name
makes fail at every start, and the unique index of 0010 with its pruning. `AddGoal`
and `AddSummary` are writers who were ready earlier, of an older release or a newer
one. Releases are prefixes of one history; that a file added later with a version
below the highest applied would be skipped in silence is thereby left out.

A row of `summaries` has a `date` (its `case_date`, or `Unset` for the empty string) and a
`day`, the one it tells of: rows written before 0006 or by `SQLiteStore.append_event`
have no `case_date`, and `privacy.py:45` and `:97` date them by their timestamp. The
`DELETE` of 0010 groups by `case_date` alone, so it keeps one of all the rows without
one and takes the summaries of other days with the rest (`Pruned`). `LostToCleanUpOnly`
allows this and nothing else.

### KuzuProjection

`Begin` mines a net and makes the `Script` of `persist_model`: the deletions of
`_delete_model_rows`, then the `MERGE`s of activities, the `CREATE`s of nodes and the
edges between them. `todo` holds the statements still to execute, and `Ready` those
that may be next: `Order` numbers the loops of `persist_model`, and `Before` says what
comes first within one pass of a loop (a place is created, then attached to its
model; a transition then gets its label). In which order a loop goes through its
nodes is left open. `Execute` runs one statement and commits it, `Conflict` is a
taken primary key, `CutShort` a daemon that dies or a statement that fails,
`DeleteEmpty` the `delete_model` after a window without a case, `Answer` the net read
back. One rebuild is at work at a time, under the daemon's lock. `Clear` is a privacy
action of another process that removes the files; a rebuild that has them open goes on
in a database nobody else can reach (`attached`). `Clear` leaves nothing behind: where
the projection is one file (`privacy.py:183`), that no write-ahead log of a daemon that
died outlives it is assumed. Nets join every place to every
transition, which keeps the nets few and gives each kind of row and edge.

### DaemonLife

Each system call of `start` on its two files is a step: read the PID file, `kill(pid,
0)`, drop a stale file, rehearse (of a start that will detach: write and remove the
PID file, bind and remove the socket), write the PID, probe the socket, drop a stale
one, bind, listen, `chmod`, serve, close, remove. A `stop` reads, signals and polls.
`Init` has whatever a dead daemon (`Ghost`) left. `Crash` may end a start anywhere.
`overlapped` (history) tells whether two commands were at the files at once: then
two starts can both serve (the one takes for stale what the other has bound and does
not listen on yet), contrary to `tm/daemon.py:5`, so `ServesAlone` is about commands
that do not overlap. PIDs are not reused.

## Runs

| run | question | bounds | result |
|---|---|---|---|
| `debrief_safety` | do attempts side by side, crashing and failing anywhere, keep the day consistent and the money bounded? | 3 attempts, 1 day, 2 texts, up to 2 events, 3 in flight, costs 1 and 2 against a cap of 3 | holds |
| `debrief_liveness` | does every attempt end, and does a finished loop give its day a summary? | 2 attempts, 2 days, up to 2 events | holds |
| `dayrecords_life` | can a re-extraction undo what happened to the day while it worked? | 1 debrief, 2 re-extractions, 1 privacy action, 1 day, 2 texts, 1 event | holds |
| `capture_imports` | did a finished import store all it could use, and does what was redacted stay so? | 2 imports, 1 voice note, 2 items, 2 keys, 2 texts, 1 day or none | holds |
| `gate_concurrent` | how far can the month pass its cap? | 4 calls, 3 in flight, two caps, costs below and above estimates | holds |
| `scheduler_proposals` | how far can a day pass its limit, and can a warning be missed? | 3 proposals, 2 of them the daemon's, 2 in flight, 1 day, limit 1, cost 7, caps 3 and 10 | holds |
| `goals_locked` | does the lock keep a goal's end single and every answer true? | 2 requests, 1 command, 1 goal | holds |
| `vocabulary_alignment` | do aliases stay one hop long whoever writes them? | 2 debriefs, 1 review, 1 seeder, 2 words | holds |
| `migrations_upgrade` | is a process that is ready on the schema it expects, and what does the way there cost? | 2 processes, 3 versions of which 2 rebuilds `goals` and 3 makes the index, 2 kinds of name, 2 days, 3 summary rows | holds |
| `kuzu_rebuild` | can an answered net be read back whole? | 2 models, 1 place, 1 transition | holds |
| `kuzu_rows_removed_first` | does a rebuild first remove all the model has? | the same | violated |
| `daemon_commands` | who serves, after any sequence of commands and crashes? | 2 starts, 1 stop | holds |

Why these bounds are enough to be telling:

* Three attempts at one day are one that wins the summary, one that loses at the
  insert and one that loses at the look-up; two texts are a repeated one and a
  new one; two events are a first and a last, so a loop can be cut before,
  between and after; the budget lets attempts in flight pass the cap together
  but not one after another. The day of an attempt matters only for what other
  days must not disturb, which the liveness run covers with two. Attempts, days
  and texts are interchangeable, hence the symmetry of the safety run; the
  liveness run uses none.
* In `dayrecords_life` one privacy action suffices for every fence to be stale or
  fresh at every step of two re-extractions; two of them are one that replaces
  what the other replaced, with or without a debrief half done in between.
  The cap admits a copy with an empty ledger, as after the turn of the month,
  and refuses one that holds another's charge.
* Two imports are one that was cut short and one that repeats it, or two at
  once; two items are twins or not, with a key or without, and one that is passed
  over may stand before or behind one that is not. The number of privacy
  actions has no bound.
* Three proposals with two in flight are two that count before either logs, and
  one that comes after; a cost of 7 brings a cap of 10 to its alarm at once and
  leaves a cap of 3 far behind, so meters of both kinds meet.
* Two requests and a command are each pair of writers of a goal, on both sides
  of the lock; a further one could only repeat an end.
* With two words a label is canonical, an alias of the other or neither, and a
  chain or a loop of aliases would have its two links.
* Two processes may be of any two of the releases, with or without drift; three
  summary rows are two duplicates and one in the way of the index later, or rows
  without a date that tell of two days.
* A net with one place and one transition has every kind of row, and with a
  second model every row that deletions could confuse.
* Two starts are a daemon and its successor or rival. A third would meet what the
  two leave, and the files of `Init` already are what another left.

Crashes are part of every process, so no further bound hides them.
`CHECK_DEADLOCK FALSE` stands where a model's processes are used up and the
system has nothing left to do.

`RowsRemovedFirst` is violated: the doc string of `persist_model` says that
"any pre-existing rows for the same model are removed first", but a place or a
transition whose rebuild died before the statement that ties it to its model is
found by none of the deletions, and every later rebuild of the model fails on
its primary key until a privacy action removes the files. The finding is in
`PROJECT.json`.

More of the repository's words do not hold of its code. Each of the following
is a behaviour of the models named, and the properties are stated to be true with
it:

* `tm/agents/debrief.py:306-308`: the second debrief of a day raises. If both
  passed the first guard, the slower one finds the other's summary after its loop
  and returns a result (`Debrief`, stage `superseded`).
* `tm/llm/cost_meter.py:5`: every call is recorded. The shape of an answer is
  validated before its cost is recorded, so a refused answer is paid for and
  leaves no row (`LlmFails` of `Debrief` and `Scheduler`).
* `tm/commands/debrief.py:142-145`: the cap cannot be passed. Two calls may be admitted
  against one recorded total (`BudgetGate`; `CapHolds` is proved for one call at
  a time only).
* `migrations/0009_goals_name_check_tighten.sql:4-5`: its `CHECK` mirrors
  `str.strip()`. It strips fewer characters, and `Goal` refuses the row after the
  commit (`GoalCalls`, `refused`).
* `migrations/0010_debrief_summary_uniqueness.sql:23-25`: the empty `case_date` "must
  not collide with itself". The index excludes it, but the `DELETE` before it takes
  all such rows for one day and keeps one (`Migrations`, `Pruned`).
* `tm/daemon.py:10-12`: the alarm fires once per process. Two threads may both find
  the flag unset (`Scheduler`).
* `tm/daemon.py:5`: one daemon. See `DaemonLife` above.

Beside its actions a module holds a section of steps with a slip in them (a
dropped guard, a wrong look-up, a missing charge). They are no part of `Next`;
each names a mistake that one of the properties would expose.

### Fairness

In each module with liveness fairness is weak, per process, and of the process's
own steps only. Nothing obliges anyone to begin, to crash, to give up, to stop
the daemon or to turn the month, and between alternatives of one stage (an
answer or a failure) no choice is favoured.

* `Debrief`, `Scheduler`: an attempt or proposal is a thread or process of its own
  that holds nothing others wait for. Each step is a bounded computation, a
  database call with a busy timeout, or an LLM call that the adapter limits in
  time; that it fails then is one of its own steps (`LlmFails`).
* `GoalCalls`: a worker reads its connection with a timeout, and waits for
  nothing but the lock, which is held over database calls with a busy timeout.
  Weak fairness of `Handle(r)` suffices although the lock comes and goes, because
  there are finitely many requests: in the end nobody takes it away.
* `DaemonLife`: a process that was begun runs. The accept loop looks at its event
  after each timeout, and the join of the workers is bounded, so no worker's
  fairness is needed for `AskedDaemonEnds`.

`Capture`, `Vocabulary`, `Migrations` and `KuzuProjection` state safety only: their
loops end with the file, list or script they walk through.

## Proofs

`BudgetGate_proofs`, for every set of calls, number in flight, estimate, cost
and cap that `GateAssumption` allows:

* `Overspend`: `Spec => []SpendBound`. `SpendBound` is not inductive, since it
  forgets what admitted calls may still add. `GateInv` is: spent plus
  `HighestCost` for each admitted call stays within the bound. `Admit` adds one
  call when the total is at most `HighestCap - LowestEstimate` and fewer than
  `MaxInFlight` are admitted; `Charge` trades a call for at most its cost.
* `SequentialCap`: with one call at a time and costs no higher than the lowest
  estimate (the code estimates conservatively, from `max_tokens`), the cap
  holds. So the excess has exactly two sources, overlap and underestimation.

`Debrief_proofs`, for any finite set of attempts and any dates and texts:

* the inductive invariant `IInv` is type correctness with three parts: about
  summaries (an owner of a row is past `insert` and had handled its whole
  extract; handled events are in the table), about money (past `charge` an
  attempt has its ledger row; so has every row's attempt), about transcripts.
  The properties of `debrief_safety` follow from it: `SuccessMeansSummary`,
  `SummaryIsLast`, `PaidFirst`, `TranscriptsSound`, `SummaryUnique`;
* `ImplementsDaySummary` and `ImplementsBudgetGate`: each step of the pipeline
  is a step of the abstract specification or leaves its variables alone, and
  through the second `DebriefSpendBound` is a corollary of `Overspend`.

`DayRecords_proofs`, for any number of debriefs, re-extractions, privacy
actions, dates and texts:

* `FenceProtects`: `Spec => []ErasedStaysErased`. By itself the property is not
  inductive: it says nothing of a text that a re-extraction holds and has not
  written yet. `FencesHold` does: while `fence[x] = actions`, neither
  `source[x]` nor the given text meets what was erased of the day. It survives
  a privacy action because the action makes every fence stale, and `ReadSource`
  because what a day shows is not erased. `RowsOfReplays` keeps the source of a
  re-extraction from changing under rows it has written. The order in the code,
  fence first and transcript second, is what makes `ReadFence` establish it.
* `BilledOnce`: the three places that write a replay's cost exclude each other.
* `ImplementsSummaryLife`: from `SummaryInv` (one summary a day, and a run that
  owns one is past the step that wrote it) `InsertSummary` is a `Record`,
  `Replace` a `Replace`, a privacy action an `Erase`, and every other step
  leaves the owners alone; `SummaryOutlives` follows from the actions.
* `SummariesAreWhole`: `Spec => []WholeExtracts`. The property speaks of rows that
  are there; `ExtractInv` adds how they get there: a debrief that is still in its loop
  has the rows it has handled, or its day has a summary by now
  (`HandledAreKept`). Only a replacement removes rows without a privacy action, and it
  leaves a summary, so that the debrief it overtook finds one when it looks again
  and writes none.

`Scheduler_proofs`, for any finite set of proposals, any limits, costs and meters:

* `DayBounded`: `DayInv` adds to the rows of a day the proposals that have passed
  their count for it and not logged yet (`LetThrough`). A count that lets one
  through sees fewer rows than the limit, and `FewRunning` bounds the others in
  flight; logging moves a proposal from the one set to the other.
* `AlarmRings`: `AlarmNotMissed` is inductive as it stands, because it speaks of
  the last writer only: the total can grow beyond what that one reads through a
  later writer alone, who then is the last.
* `ImplementsBudgetGate`: as for `Debrief`; `DaemonRestarts` is an `Abandon` of
  all the daemon's calls at once. `ProposalSpendBound` follows.

`SqliteStore_proofs` about `Vocabulary`, for any labels, aligners, reviews and
seeders: `NothingInvented` is inductive together with `Carried`, that the words
offered to an LLM are rows of the vocabulary when its answer comes, and a seeder's
words when it writes their aliases. Both rest on one fact about the code, that a
vocabulary row is archived and never deleted (`KnownGrows`). That a word which has a
row resolves to itself makes `OneHop` a consequence.

`Daemon_proofs` about `GoalCalls`, for any number of requests and commands:
`LockHeld` (who is between `AcquireLock` and its end holds the lock, so one at a
time), `WriteKnown` and `StampsTraced` (each stage knows what it has written),
`FirstToEnd` (a request that was let through to its write met no earlier ending by
the daemon, and under the lock meets none on the way; a command may still end the
goal in between). `AnswersTrue` and `EndsOnce` follow.

`Capture_proofs`, for any files, keys and number of privacy actions: `ImportsSoFar`
says of an import in progress what `UsableItemsStored` says of a finished one, of the
usable items behind it; `KeysUnique` is the primary key; `NotesSoFar` adds to
`VoiceNoteKept` the note between its two transactions. `RedactedStaysRedacted` needs
the second: the row that was emptied is the only one its key can have.

`SqliteStore_proofs` about `Migrations`, for any number of processes, releases and
versions:

* `Gapless` (the recorded versions are `1..n`) and `Underway` (below the version at
  hand everything is applied with the text this process has) carry each other: a
  body commits only if its version is not applied, and since those below it are,
  it is the next one (`NextVersion`).
* With `Enforced` (between `post` and `pre` foreign keys are on, and off in between
  for a rebuild only), `WhoIsReadyIsMigrated` follows.
* `UpgradesKeepRows` (`LostToCleanUpOnly`) needs that of the rows with one `case_date`
  the one with the highest id exists (`LastOfItsDateStays`, by well-foundedness of `<`
  on the distances from the bound), so that each pruned row makes room for a later one
  (`PrunedForALater`), of the same day unless the `case_date` is empty.

`Daemon_proofs` about `DaemonLife`, for any number of starts and stops and any crashes:

* `Marks` holds whether or not commands overlap: a process that listens is at a
  stage that has bound, and a PID that can be read was written by a process that
  is past its rehearsal.
* `Alone` says what being alone at the files is worth: as long as no two processes were
  there at once (`overlapped`), what a start or a stop has read is still what the
  files hold, whoever is past the PID check knows that no daemon serves, and both
  files name the one that does. A crash keeps it, for the files of the dead one name
  nobody who serves. `DaemonServesAlone` (`ServesAlone`) is a part of it.
* `LeftoversBlockNobody` (`LeftoversDoNotBlock`): in that invariant each of the four
  places where a start gives up (`GivesUpFor`) needs a living process or the `0`.

`KuzuProjection_proofs`, for any models, places and transitions. The difficulty is that
the properties speak of whole nets while a rebuild works statement by statement, each
of them committed:

* `Ordered`: what has been executed belongs to no later loop than what has not. From it
  `ReadyFacts` tells what is through when a statement is ready.
* `Deleted`: while rows are deleted, which kinds are gone. Places and transitions are
  found through their edge to the model, so those are gone that had one; nodes
  without one (`Tidy`) exist only after a cut, which is why `RebuildsRepeat` needs
  `cutShort`, and why `RowsRemovedFirst` is violated.
* `Built`: afterwards the model's edges are exactly those whose statement was executed,
  and its rows contain exactly theirs but for such leftovers. `Joined` drops an edge
  without a word if an end is missing; `LinkReady` shows from the order that none is.
* `NetIsRead`: with nothing left to do, `get_petri_net` returns the mined net, whatever
  leftovers there are, because it follows edges only. `RebuildsAreShown` follows for
  the model at hand, and for the others from `ReadFromPart` (a model is read from its
  own rows and edges alone) and `EffectKeeps` (a statement changes its own
  model's part alone), which also give `RebuildsKeepOthers`.
* `ConflictsFollowCuts`: a `CREATE` of a node is executed at most once per script, and
  a node that is there without it is a leftover.

Assumed: the named assumptions on the constants, which each run evaluates, and
nothing else.

Only model-checked: liveness under fairness (`AttemptsEnd`,
`FinishedLoopGetsSummary`, `ProposalsEnd`, `EveryRequestSettles`, `AskedDaemonEnds`),
which the prover does not handle. Every invariant and every action property that
a passing run checks is a theorem as well.

## Plan

1. Hazards without a property (`PROJECT.json` gives the reason of each): the order of
   validation and ledger row in the debrief, and a debrief that is under way while its
   day is forgotten, as invariants that say how far the loss goes.
2. The refinements of `BudgetGate` by debriefs and proposals together, as one ledger that
   both write.

## Not modelled

* The outcome model and the engines (`tm/engines`): numerical work on a frozen
  log, in floating point, most of it inside pm4py. What it relies on, one summary
  a day, is proved. The miner appears as the nets it may return, a guardrail as
  its two verdicts.
* LLM adapters and factory: translation of a request to a provider, without
  state. Elsewhere a call answers well, answers badly, fails or times out.
* Prompts, parsers of exports, ranking of candidates, prices, the words of
  errors: data.
* Reports and exports: read-only, or a copy renamed into place. So are `status`,
  `ping`, the list handlers, and the filters of the event queries.
* Security: file modes and SQLCipher keys, single calls into the operating
  system and a library.
* `tm/resilience.py`: helpers that no other module imports.
* The web app beyond its capture endpoints: handlers run one after the other on
  one event loop and call commands that are modelled. Local agents are one file
  that is written whole.
