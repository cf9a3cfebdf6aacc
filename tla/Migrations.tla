----------------------------- MODULE Migrations -----------------------------
(***************************************************************************)
(* The migration runner (tm.stores.sqlite_store.SQLiteStore).              *)
(*                                                                         *)
(* Every command and every daemon opens the store and applies what is      *)
(* pending before it does its work, so two of them may upgrade the same    *)
(* file at once, each with the migrations of its own release.  The         *)
(* recorded versions are read once, outside any transaction; each body     *)
(* runs in a BEGIN IMMEDIATE of its own, between pragmas that must run     *)
(* outside it.  A process may die anywhere, and SQLite then rolls back.    *)
(***************************************************************************)
EXTENDS Integers, FiniteSets

CONSTANTS Procs,
          Last,         \* files of the newest release: versions 1..Last
          Rebuilds,     \* versions that rebuild goals with foreign_keys off
          Unique,       \* the version that indexes summaries (0010)
          Names,        \* kinds of goal names
          Blank,        \* those of them that a rebuild's CHECK refuses
          Days,
          Unset,        \* case_date = '', which the index leaves alone
          MaxRows       \* model bound: summary rows ever written

Versions == 1..Last

ASSUME MigrationsAssumption ==
  /\ Last \in Nat \ {0} /\ MaxRows \in Nat
  /\ Rebuilds \subseteq Versions /\ Unique \in Versions
  /\ Blank \subseteq Names
  /\ Unset \notin Days

VARIABLES
  release,    \* how many of the files each process has on its disk
  edited,     \* the one of them that differs from what was shipped, or 0
  stage,      \* where each process stands, or how it ended
  current,    \* the version it is at
  fk,         \* connections with foreign_keys on
  writer,     \* who holds SQLite's write lock
  \* the database
  recorded,   \* schema_migrations: the checksum of each applied version
  goals,      \* names in the goals table
  summaries   \* debrief_summary rows; their ids grow like ULIDs

disks == <<release, edited>>
tables == <<goals, summaries>>
vars == <<disks, stage, current, fk, writer, recorded, tables>>

NoOne == "no one"

(* No duplicates are expected. *)
PruneNothing(rows) == rows

Text(p, v) == IF edited[p] = v THEN "edited" ELSE "shipped"
Applied == DOMAIN recorded
Newest == IF Applied = {} THEN 0 ELSE CHOOSE v \in Applied : \A w \in Applied : w <= v

(* What the constraints of a schema with these versions let through. *)
NamesAt(applied) == IF applied \cap Rebuilds = {} THEN Names ELSE Names \ Blank

(* A summary tells of the day of its timestamp, which is its case_date       *)
(* unless it was written by append_event of the store or before 0006.        *)
SummaryRows ==
  {s \in [date : Days \cup {Unset}, day : Days, id : 1..MaxRows] :
     s.date \in {s.day, Unset}}

RowsOf(d) == {s \in summaries : s.date = d}
OnePerDate(rows) == \A s, t \in rows : s.date = t.date /\ s.date # Unset => s = t

(* DELETE ... event_id NOT IN (SELECT MAX(event_id) ... GROUP BY case_date): *)
(* the rows without a case_date are one group, whatever day each tells of.   *)
Pruned(rows) == {s \in rows : \A t \in rows : t.date = s.date => t.id <= s.id}

Upgrading == {"ensure", "read", "pre", "begin", "body", "post"}

TypeOK ==
  /\ release \in [Procs -> Versions] /\ edited \in [Procs -> 0..Last]
  /\ stage \in [Procs -> Upgrading \cup {"ready", "failed", "crashed"}]
  /\ current \in [Procs -> 0..(Last + 1)]
  /\ fk \subseteq Procs
  /\ writer \in Procs \cup {NoOne}
  /\ writer # NoOne => stage[writer] = "body"
  /\ Applied = 1..Newest /\ Newest <= Last
  /\ \A v \in Applied : recorded[v] \in {"shipped", "edited"}
  /\ goals \subseteq NamesAt(Applied)
  /\ summaries \subseteq SummaryRows

(* A database that an earlier release left behind. *)
Init ==
  /\ release \in [Procs -> Versions]
  /\ edited \in [Procs -> 0..Last] /\ \A p \in Procs : edited[p] <= release[p]
  /\ stage = [p \in Procs |-> "ensure"]
  /\ current = [p \in Procs |-> 0]
  /\ fk = {} /\ writer = NoOne
  /\ \E level \in 0..Last :
       /\ recorded = [v \in 1..level |-> "shipped"]
       /\ goals \in SUBSET NamesAt(1..level)
       /\ summaries \in SUBSET SummaryRows
       /\ \A s, t \in summaries : s.id = t.id => s = t
       /\ Unique \in 1..level => OnePerDate(summaries)
       /\ level = 0 => goals = {} /\ summaries = {}

-----------------------------------------------------------------------------
Moves(p, from, to) == stage[p] = from /\ stage' = [stage EXCEPT ![p] = to]

(* A rebuild copies every row through its CHECK. *)
CopyRefused(p) ==
  current[p] \in Rebuilds /\ goals \cap Blank # {}

(* Steps with a slip in them; none is part of Next. *)

(* Only the row of schema_migrations can make a body fail. *)
CopiesUnchecked(p) ==
  /\ current[p] \notin Applied
  /\ Moves(p, "body", "post")
  /\ recorded' = [v \in Applied \cup {current[p]} |->
                    IF v = current[p] THEN Text(p, v) ELSE recorded[v]]
  /\ summaries' = IF current[p] = Unique THEN Pruned(summaries) ELSE summaries
  /\ writer' = NoOne
  /\ UNCHANGED <<disks, current, fk, goals>>

(* foreign_keys is left as the rebuild needed it. *)
PostForgotten(p) ==
  /\ Moves(p, "post", "pre")
  /\ current' = [current EXCEPT ![p] = @ + 1]
  /\ UNCHANGED <<disks, fk, writer, recorded, tables>>

(* A rebuild copies the rows that pass its CHECK. *)
CopiesAccepted(p) ==
  /\ current[p] \notin Applied
  /\ Moves(p, "body", "post")
  /\ recorded' = [v \in Applied \cup {current[p]} |->
                    IF v = current[p] THEN Text(p, v) ELSE recorded[v]]
  /\ goals' = goals \cap NamesAt({current[p]})
  /\ summaries' = IF current[p] = Unique THEN Pruned(summaries) ELSE summaries
  /\ writer' = NoOne
  /\ UNCHANGED <<disks, current, fk>>

-----------------------------------------------------------------------------
(* __init__ with its pragmas, and _ensure_schema_migrations_table. *)
Open(p) ==
  /\ writer = NoOne
  /\ Moves(p, "ensure", "read")
  /\ fk' = fk \cup {p}
  /\ UNCHANGED <<disks, current, writer, recorded, tables>>

(* _recorded_checksums, _discover_migrations and the drift check. *)
Drifted(p) == \E v \in Applied \cap 1..release[p] : recorded[v] # Text(p, v)

ReadRecorded(p) ==
  /\ ~Drifted(p)
  /\ Moves(p, "read", "pre")
  /\ current' = [current EXCEPT ![p] = Newest + 1]
  /\ UNCHANGED <<disks, fk, writer, recorded, tables>>

DriftFound(p) ==
  /\ Drifted(p)
  /\ Moves(p, "read", "failed")
  /\ UNCHANGED <<disks, current, fk, writer, recorded, tables>>

(* Nothing is pending (any more). *)
UpToDate(p) ==
  /\ current[p] > release[p]
  /\ Moves(p, "pre", "ready")
  /\ UNCHANGED <<disks, current, fk, writer, recorded, tables>>

(* The pre-txn pragmas, before BEGIN: inside they would do nothing. *)
PreTxn(p) ==
  /\ current[p] <= release[p]
  /\ Moves(p, "pre", "begin")
  /\ fk' = IF current[p] \in Rebuilds THEN fk \ {p} ELSE fk
  /\ UNCHANGED <<disks, current, writer, recorded, tables>>

BeginImmediate(p) ==
  /\ writer = NoOne
  /\ Moves(p, "begin", "body")
  /\ writer' = p
  /\ UNCHANGED <<disks, current, fk, recorded, tables>>

(* Another process holds the lock through all retries. *)
Busy(p) ==
  /\ writer \notin {NoOne, p}
  /\ Moves(p, "ensure", "failed") \/ Moves(p, "begin", "failed")
  /\ UNCHANGED <<disks, current, fk, writer, recorded, tables>>

(* The statements and the row of schema_migrations, committed together. *)
BodyCommits(p) ==
  /\ current[p] \notin Applied /\ ~CopyRefused(p)
  /\ Moves(p, "body", "post")
  /\ recorded' = [v \in Applied \cup {current[p]} |->
                    IF v = current[p] THEN Text(p, v) ELSE recorded[v]]
  /\ summaries' = IF current[p] = Unique THEN Pruned(summaries) ELSE summaries
  /\ writer' = NoOne
  /\ UNCHANGED <<disks, current, fk, goals>>

(* ... or rolled back, because another process was first (its schema makes   *)
(* a statement fail, or its row does) or because of the rows in the way.     *)
BodyFails(p) ==
  /\ current[p] \in Applied \/ CopyRefused(p)
  /\ Moves(p, "body", "failed")
  /\ writer' = NoOne
  /\ UNCHANGED <<disks, current, fk, recorded, tables>>

(* The post-txn pragmas, after COMMIT. *)
PostTxn(p) ==
  /\ Moves(p, "post", "pre")
  /\ fk' = IF current[p] \in Rebuilds THEN fk \cup {p} ELSE fk
  /\ current' = [current EXCEPT ![p] = @ + 1]
  /\ UNCHANGED <<disks, writer, recorded, tables>>

Crash(p) ==
  /\ stage[p] \in Upgrading
  /\ stage' = [stage EXCEPT ![p] = "crashed"]
  /\ writer' = IF writer = p THEN NoOne ELSE writer
  /\ fk' = fk \ {p}
  /\ UNCHANGED <<disks, current, recorded, tables>>

(* The work of a process that is ready, under the constraints the file has. *)
AddGoal(p, name) ==
  /\ stage[p] = "ready" /\ writer = NoOne
  /\ name \in NamesAt(Applied)
  /\ goals' = goals \cup {name}
  /\ UNCHANGED <<disks, stage, current, fk, writer, recorded, summaries>>

AddSummary(p, date, day) ==
  /\ stage[p] = "ready" /\ writer = NoOne
  /\ Unique \in Applied /\ date # Unset => RowsOf(date) = {}
  /\ \E id \in 1..MaxRows :
       /\ \A s \in summaries : s.id < id
       /\ summaries' = summaries \cup {[date |-> date, day |-> day, id |-> id]}
  /\ UNCHANGED <<disks, stage, current, fk, writer, recorded, goals>>

Next ==
  \E p \in Procs :
    \/ Open(p) \/ ReadRecorded(p) \/ DriftFound(p) \/ UpToDate(p)
    \/ PreTxn(p) \/ BeginImmediate(p) \/ Busy(p)
    \/ BodyCommits(p) \/ BodyFails(p) \/ PostTxn(p) \/ Crash(p)
    \/ \E name \in Names : AddGoal(p, name)
    \/ \E day \in Days : \E date \in {day, Unset} : AddSummary(p, date, day)

Spec == Init /\ [][Next]_vars

-----------------------------------------------------------------------------
(* A process starts its work with every migration of its own files applied  *)
(* as they have it, a newer release's perhaps on top, and with foreign keys *)
(* enforced: what it read before another process's upgrade never lets it    *)
(* pass (apply_pending_migrations reads the recorded versions once and      *)
(* checks drift only then).                                                 *)
ReadyMeansMigrated ==
  \A p \in Procs : stage[p] = "ready" =>
    /\ p \in fk
    /\ \A v \in 1..release[p] : v \in Applied /\ recorded[v] = Text(p, v)

(* From migration 0010 on a day has one summary, whatever duplicates and    *)
(* whoever's inserts it met on the way.                                     *)
OneSummary == Unique \in Applied => OnePerDate(summaries)

(* An upgrade loses no goal, and a summary only to the clean-up of 0010,    *)
(* which leaves a later one in its place: of the same day if the two have a *)
(* case_date, so that a day which has one keeps its last summary.  Rows     *)
(* without a case_date, which the index lets stand side by side, make room  *)
(* for the last of them all: of the days they tell of, others lose theirs.  *)
LostToCleanUpOnly ==
  [][/\ goals \subseteq goals'
     /\ \A s \in summaries \ summaries' :
          /\ Unique \in Applied' \ Applied
          /\ \E t \in summaries' :
               /\ t.date = s.date /\ s.id < t.id
               /\ t.day = s.day \/ s.date = Unset]_vars
=============================================================================
