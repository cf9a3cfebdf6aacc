--------------------------- MODULE SqliteStore_proofs --------------------------
(***************************************************************************)
(* Two users of the SQLite store, for any number of processes.             *)
(*                                                                         *)
(* First its upgrade (Migrations): whatever two releases do to one file at *)
(* once, who opens it finds every migration of its release applied, and no *)
(* row is lost that a migration does not mean to drop.  Then the           *)
(* vocabulary (Vocabulary): aliases lead to a known word in one hop, and   *)
(* an answer given to a review is not undone by whatever the others do.    *)
(***************************************************************************)
EXTENDS Migrations, Vocabulary, WellFoundedInduction, TLAPS

(* The file's versions have no gap. *)
Gapless == \E n \in 0..Last : Applied = 1..n

(* What has been passed is applied, with the text that this process has;    *)
(* with "post" the version at hand is passed as well.                       *)
Passed(p, v) == v \in Applied /\ (v <= release[p] => recorded[v] = Text(p, v))

Underway ==
  \A p \in Procs :
    /\ stage[p] \in {"pre", "begin", "body", "post", "ready"} =>
         \A v \in 1..(current[p] - 1) : Passed(p, v)
    /\ stage[p] \in {"pre", "begin", "body", "post", "ready"} => current[p] >= 1
    /\ stage[p] \in {"begin", "body", "post"} => current[p] <= release[p]
    /\ stage[p] = "post" => Passed(p, current[p])
    /\ stage[p] = "ready" => current[p] > release[p]

(* The pragmas: off at most from the one before a rebuild to the one after. *)
Enforced ==
  \A p \in Procs :
    /\ stage[p] \in {"read", "pre", "ready"} => p \in fk
    /\ stage[p] \in {"begin", "body", "post"} => p \in fk \/ current[p] \in Rebuilds

Typed ==
  /\ release \in [Procs -> Versions] /\ edited \in [Procs -> 0..Last]
  /\ stage \in [Procs -> Upgrading \cup {"ready", "failed", "crashed"}]
  /\ current \in [Procs -> 0..(Last + 1)]
  /\ fk \subseteq Procs
  /\ writer \in Procs \cup {NoOne}
  /\ writer # NoOne => stage[writer] = "body"
  /\ recorded \in [Applied -> {"shipped", "edited"}]
  /\ goals \subseteq NamesAt(Applied)
  /\ summaries \subseteq SummaryRows

IInv == Typed /\ Gapless /\ Underway /\ Enforced /\ OneSummary

(* Without gaps the newest version is the number of versions.               *)
LEMMA NewestIs ==
  ASSUME NEW n \in Nat, Applied = 1..n
  PROVE  Newest = n
<1>1. CASE n = 0
  BY <1>1 DEF Newest
<1>2. CASE n > 0
  <2>1. n \in Applied /\ Applied # {} /\ \A w \in Applied : w <= n
    BY <1>2
  <2>2. \E v \in Applied : \A w \in Applied : w <= v
    BY <2>1
  <2>3. /\ Newest \in Applied /\ \A w \in Applied : w <= Newest
    BY <2>1, <2>2 DEF Newest
  <2>4. QED
    BY <2>1, <2>3
<1>3. QED
  BY <1>1, <1>2

-----------------------------------------------------------------------------
(* The body.  It is the next version that commits, since the one at hand is *)
(* not applied and those before it are.                                     *)
LEMMA NextVersion ==
  ASSUME IInv, NEW p \in Procs, BodyCommits(p)
  PROVE  /\ current[p] \in Versions
         /\ Applied' = Applied \cup {current[p]} /\ Applied' = 1..current[p]
         /\ recorded'[current[p]] = Text(p, current[p])
         /\ \A v \in Applied : recorded'[v] = recorded[v]
         /\ recorded' \in [Applied' -> {"shipped", "edited"}]
<1>1. /\ current[p] \in 1..release[p] /\ release[p] \in Versions
      /\ \A v \in 1..(current[p] - 1) : v \in Applied
  BY DEF IInv, Typed, Underway, BodyCommits, Moves, Passed, Versions
<1>2. PICK n \in 0..Last : Applied = 1..n
  BY DEF IInv, Gapless
<1>3. current[p] \in Versions /\ current[p] \notin Applied
  BY <1>1, MigrationsAssumption DEF Versions, BodyCommits
<1>4. current[p] = n + 1
  <2>1. current[p] > n
    BY <1>2, <1>3 DEF Versions
  <2>2. ~(current[p] > n + 1)
    <3> SUFFICES ASSUME current[p] > n + 1 PROVE FALSE
      OBVIOUS
    <3>1. n + 1 \in 1..(current[p] - 1)
      BY <1>3 DEF Versions
    <3>2. QED
      BY <1>1, <1>2, <3>1
  <2>3. QED
    BY <1>3, <2>1, <2>2 DEF Versions
<1>5. /\ recorded' = [v \in Applied \cup {current[p]} |->
                        IF v = current[p] THEN Text(p, v) ELSE recorded[v]]
      /\ Applied' = Applied \cup {current[p]}
  BY DEF BodyCommits, Applied
<1>6. Text(p, current[p]) \in {"shipped", "edited"}
  BY DEF Text
<1>7. \A v \in Applied : recorded[v] \in {"shipped", "edited"}
  BY DEF IInv, Typed
<1>8. recorded' \in [Applied' -> {"shipped", "edited"}]
  BY <1>5, <1>6, <1>7
<1>9. QED
  BY <1>2, <1>3, <1>4, <1>5, <1>8

(* Nobody else touches schema_migrations, and nobody its files.             *)
LEMMA RecordedKept ==
  ASSUME IInv, [Next]_vars
  PROVE  /\ UNCHANGED disks
         /\ Applied \subseteq Applied'
         /\ \A v \in Applied : recorded'[v] = recorded[v]
         /\ UNCHANGED recorded \/ \E p \in Procs : BodyCommits(p)
<1>1. UNCHANGED disks /\ (UNCHANGED recorded \/ \E p \in Procs : BodyCommits(p))
  BY DEF Next, vars, disks, Open, ReadRecorded, DriftFound, UpToDate, PreTxn,
         BeginImmediate, Busy, BodyCommits, BodyFails, PostTxn, Crash,
         AddGoal, AddSummary
<1>2. CASE UNCHANGED recorded
  BY <1>1, <1>2 DEF Applied
<1>3. CASE \E p \in Procs : BodyCommits(p)
  <2>1. PICK p \in Procs : BodyCommits(p)
    BY <1>3
  <2>2. /\ Applied' = Applied \cup {current[p]}
        /\ \A v \in Applied : recorded'[v] = recorded[v]
    BY <2>1, NextVersion
  <2>3. QED
    BY <1>1, <2>2
<1>4. QED
  BY <1>1, <1>2, <1>3

(* What has been passed stays so.                                           *)
LEMMA PassedKept ==
  ASSUME IInv, [Next]_vars, NEW p \in Procs, NEW v, Passed(p, v)
  PROVE  Passed(p, v)'
BY RecordedKept DEF Passed, Text, disks

(* A body adds the next version, and nothing takes one away.                *)
LEMMA GaplessStep ==
  ASSUME IInv, [Next]_vars
  PROVE  Gapless'
<1>1. CASE UNCHANGED recorded
  BY <1>1 DEF IInv, Gapless, Applied
<1>2. ASSUME NEW p \in Procs, BodyCommits(p)
      PROVE  Gapless'
  <2>1. current[p] \in 0..Last /\ Applied' = 1..current[p]
    BY <1>2, NextVersion DEF Versions
  <2>2. QED
    BY <2>1 DEF Gapless
<1>3. QED
  BY <1>1, <1>2, RecordedKept

LEMMA OneSummaryStep ==
  ASSUME IInv, [Next]_vars
  PROVE  OneSummary'
<1>1. summaries \subseteq SummaryRows /\ OneSummary
  BY DEF IInv, Typed
<1>2. ASSUME NEW p \in Procs, BodyCommits(p)
      PROVE  OneSummary'
  <2>1. Applied' = Applied \cup {current[p]}
    BY <1>2, NextVersion
  <2>2. CASE current[p] = Unique
    <3>1. summaries' = Pruned(summaries)
      BY <1>2, <2>2 DEF BodyCommits
    <3>2. ASSUME NEW s \in Pruned(summaries), NEW t \in Pruned(summaries),
                 s.date = t.date, s.date # Unset
          PROVE  s = t
      <4>1. s \in SummaryRows /\ t \in SummaryRows /\ s.id <= t.id /\ t.id <= s.id
        BY <1>1, <3>2 DEF Pruned
      <4>2. s.id \in Int /\ t.id \in Int /\ s.day = t.day
        BY <3>2, <4>1, MigrationsAssumption DEF SummaryRows
      <4>3. s.id = t.id
        BY <4>1, <4>2
      <4>4. QED
        BY <4>1, <4>2, <4>3, <3>2 DEF SummaryRows
    <3>3. QED
      BY <3>1, <3>2 DEF OneSummary, OnePerDate
  <2>3. CASE current[p] # Unique
    <3>1. UNCHANGED summaries /\ (Unique \in Applied' => Unique \in Applied)
      BY <1>2, <2>1, <2>3 DEF BodyCommits
    <3>2. QED
      BY <1>1, <3>1 DEF OneSummary, OnePerDate
  <2>4. QED
    BY <2>2, <2>3
<1>3. ASSUME NEW p \in Procs, NEW day \in Days, NEW date \in {day, Unset},
             AddSummary(p, date, day)
      PROVE  OneSummary'
  <2>1. UNCHANGED recorded
    BY <1>3 DEF AddSummary
  <2>2. PICK id \in 1..MaxRows :
          summaries' = summaries \cup {[date |-> date, day |-> day, id |-> id]}
    BY <1>3 DEF AddSummary
  <2>3. Unique \in Applied /\ date # Unset => \A s \in summaries : s.date # date
    BY <1>3 DEF AddSummary, RowsOf
  <2>4. QED
    BY <1>1, <2>1, <2>2, <2>3 DEF OneSummary, OnePerDate, Applied
<1>4. CASE UNCHANGED <<recorded, summaries>>
  BY <1>1, <1>4 DEF OneSummary, OnePerDate, Applied
<1>5. QED
  BY <1>2, <1>3, <1>4
  DEF Next, vars, tables, Open, ReadRecorded, DriftFound, UpToDate, PreTxn,
      BeginImmediate, Busy, BodyFails, PostTxn, Crash, AddGoal

-----------------------------------------------------------------------------
(* One process moves; where the others stand is as before.                  *)
Stands(p) ==
  /\ stage[p] \in {"pre", "begin", "body", "post", "ready"} =>
       current[p] >= 1 /\ \A v \in 1..(current[p] - 1) : Passed(p, v)
  /\ stage[p] \in {"begin", "body", "post"} => current[p] <= release[p]
  /\ stage[p] = "post" => Passed(p, current[p])
  /\ stage[p] = "ready" => current[p] > release[p]

LEMMA StaysPut ==
  ASSUME IInv, [Next]_vars, NEW p \in Procs,
         stage'[p] = stage[p], current'[p] = current[p]
  PROVE  Stands(p)'
<1>1. Stands(p) /\ release' = release
  BY RecordedKept DEF IInv, Underway, Stands, disks
<1>2. \A v : Passed(p, v) => Passed(p, v)'
  BY PassedKept
<1>3. QED
  BY <1>1, <1>2 DEF Stands

LEMMA UnderwayStep ==
  ASSUME IInv, [Next]_vars
  PROVE  Underway'
<1> SUFFICES ASSUME NEW q \in Procs PROVE Stands(q)'
  BY DEF Underway, Stands
<1>1. /\ stage \in [Procs -> Upgrading \cup {"ready", "failed", "crashed"}]
      /\ current \in [Procs -> 0..(Last + 1)]
      /\ release \in [Procs -> Versions]
      /\ Stands(q) /\ Last \in Nat
  BY MigrationsAssumption DEF IInv, Typed, Underway, Stands
<1>2. release' = release /\ \A v : Passed(q, v) => Passed(q, v)'
  BY RecordedKept, PassedKept DEF disks
<1>3. CASE stage'[q] = stage[q] /\ current'[q] = current[q]
  BY <1>3, StaysPut
<1>4. CASE stage'[q] \in {"read", "failed", "crashed"}
  BY <1>4 DEF Stands
<1>5. CASE ReadRecorded(q)
  <2>1. PICK n \in 0..Last : Applied = 1..n
    BY DEF IInv, Gapless
  <2>2. current'[q] = n + 1 /\ stage'[q] = "pre" /\ recorded' = recorded
    BY <1>1, <1>5, <2>1, NewestIs DEF ReadRecorded, Moves
  <2>3. \A v \in 1..n : Passed(q, v)
    <3> SUFFICES ASSUME NEW v \in 1..n PROVE Passed(q, v)
      OBVIOUS
    <3>1. v \in Applied /\ v \in Nat \ {0} /\ release[q] \in Nat
      BY <1>1, <2>1 DEF Versions
    <3>2. v <= release[q] => v \in 1..release[q]
      BY <3>1
    <3>3. QED
      BY <3>1, <3>2, <1>5 DEF ReadRecorded, Drifted, Passed
  <2>4. current'[q] - 1 = n /\ current'[q] >= 1
    BY <2>2
  <2>5. QED
    BY <1>2, <2>2, <2>3, <2>4 DEF Stands
<1>6. CASE UpToDate(q)
  BY <1>1, <1>2, <1>6 DEF UpToDate, Moves, Stands
<1>7. CASE PreTxn(q)
  BY <1>1, <1>2, <1>7 DEF PreTxn, Moves, Stands
<1>8. CASE BeginImmediate(q)
  BY <1>1, <1>2, <1>8 DEF BeginImmediate, Moves, Stands
<1>9. CASE BodyCommits(q)
  <2>1. /\ current[q] \in Applied'
        /\ recorded'[current[q]] = Text(q, current[q])
        /\ UNCHANGED <<release, edited, current>>
    BY <1>9, NextVersion DEF BodyCommits, disks
  <2>2. Passed(q, current[q])'
    BY <2>1 DEF Passed, Text
  <2>3. stage[q] = "body" /\ stage'[q] = "post"
    BY <1>1, <1>9 DEF BodyCommits, Moves
  <2>4. QED
    BY <1>1, <1>2, <2>1, <2>2, <2>3 DEF Stands
<1>10. CASE PostTxn(q)
  <2>1. stage[q] = "post" /\ stage'[q] = "pre" /\ current'[q] = current[q] + 1
    BY <1>1, <1>10 DEF PostTxn, Moves
  <2>2. current[q] \in Nat /\ current[q] >= 1
    BY <1>1, <2>1 DEF Stands
  <2>3. \A v \in 1..current[q] : v \in 1..(current[q] - 1) \/ v = current[q]
    BY <2>2
  <2>4. \A v \in 1..current[q] : Passed(q, v)'
    BY <1>1, <1>2, <2>1, <2>3 DEF Stands
  <2>5. current'[q] - 1 = current[q] /\ current'[q] >= 1
    BY <2>1, <2>2
  <2>6. QED
    BY <2>1, <2>4, <2>5 DEF Stands
<1>11. QED
  <2>1. CASE UNCHANGED vars
    BY <1>3, <2>1 DEF vars
  <2>2. ASSUME NEW p \in Procs, NEW name \in Names, AddGoal(p, name)
        PROVE  Stands(q)'
    BY <1>3, <2>2 DEF AddGoal
  <2>3. ASSUME NEW p \in Procs, NEW day \in Days, NEW date \in {day, Unset},
               AddSummary(p, date, day)
        PROVE  Stands(q)'
    BY <1>3, <2>3 DEF AddSummary
  <2>4. ASSUME NEW p \in Procs, p # q,
               \/ Open(p) \/ ReadRecorded(p) \/ DriftFound(p) \/ UpToDate(p)
               \/ PreTxn(p) \/ BeginImmediate(p) \/ Busy(p)
               \/ BodyCommits(p) \/ BodyFails(p) \/ PostTxn(p) \/ Crash(p)
        PROVE  Stands(q)'
    <3>1. stage'[q] = stage[q] /\ current'[q] = current[q]
      BY <1>1, <2>4 DEF Open, ReadRecorded, DriftFound, UpToDate, PreTxn,
         BeginImmediate, Busy, BodyCommits, BodyFails, PostTxn, Crash, Moves
    <3>2. QED
      BY <1>3, <3>1
  <2>5. ASSUME Open(q) \/ DriftFound(q) \/ Busy(q) \/ BodyFails(q) \/ Crash(q)
        PROVE  Stands(q)'
    BY <1>1, <1>4, <2>5 DEF Open, DriftFound, Busy, BodyFails, Crash, Moves
  <2>6. QED
    BY <1>5, <1>6, <1>7, <1>8, <1>9, <1>10, <2>1, <2>2, <2>3, <2>4, <2>5
    DEF Next

LEMMA EnforcedStep ==
  ASSUME IInv, [Next]_vars
  PROVE  Enforced'
<1>1. /\ stage \in [Procs -> Upgrading \cup {"ready", "failed", "crashed"}]
      /\ current \in [Procs -> 0..(Last + 1)]
      /\ fk \subseteq Procs /\ Enforced
  BY DEF IInv, Typed
<1>2. ASSUME NEW p \in Procs,
             \/ Open(p) \/ ReadRecorded(p) \/ DriftFound(p) \/ UpToDate(p)
             \/ PreTxn(p) \/ BeginImmediate(p) \/ Busy(p)
             \/ BodyCommits(p) \/ BodyFails(p) \/ PostTxn(p) \/ Crash(p),
             NEW q \in Procs
      PROVE  /\ stage'[q] \in {"read", "pre", "ready"} => q \in fk'
             /\ stage'[q] \in {"begin", "body", "post"} =>
                  q \in fk' \/ current'[q] \in Rebuilds
  BY <1>1, <1>2 DEF Enforced, Open, ReadRecorded, DriftFound, UpToDate, PreTxn,
     BeginImmediate, Busy, BodyCommits, BodyFails, PostTxn, Crash, Moves
<1>3. CASE UNCHANGED <<stage, current, fk>>
  BY <1>1, <1>3 DEF Enforced
<1>4. QED
  BY <1>2, <1>3 DEF Next, vars, Enforced, AddGoal, AddSummary

LEMMA TypedStep ==
  ASSUME IInv, [Next]_vars
  PROVE  Typed'
<1> USE DEF Typed
<1>1. Typed /\ Unique \in Versions /\ MaxRows \in Nat
  BY MigrationsAssumption DEF IInv
<1>2. CASE UNCHANGED vars
  BY <1>1, <1>2 DEF vars, disks, tables, Applied
<1>3. ASSUME NEW p \in Procs, BodyCommits(p)
      PROVE  Typed'
  <2>1. /\ Applied' = Applied \cup {current[p]}
        /\ recorded' \in [Applied' -> {"shipped", "edited"}]
    BY <1>3, NextVersion
  <2>2. goals' \subseteq NamesAt(Applied')
    <3>1. goals' = goals /\ (current[p] \in Rebuilds => goals \cap Blank = {})
      BY <1>3 DEF BodyCommits, CopyRefused
    <3>2. QED
      BY <1>1, <2>1, <3>1 DEF NamesAt
  <2>3. summaries' \subseteq summaries
    BY <1>3 DEF BodyCommits, Pruned
  <2>4. stage' \in [Procs -> Upgrading \cup {"ready", "failed", "crashed"}]
    BY <1>1, <1>3 DEF BodyCommits, Moves, Upgrading
  <2>5. UNCHANGED <<release, edited, current, fk>> /\ writer' = NoOne
    BY <1>3 DEF BodyCommits, disks
  <2>6. goals' \subseteq NamesAt(Applied)'
    BY <2>2 DEF NamesAt
  <2>7. QED
    BY <1>1, <2>1, <2>3, <2>4, <2>5, <2>6
<1>4. ASSUME NEW p \in Procs, NEW day \in Days, NEW date \in {day, Unset},
             AddSummary(p, date, day)
      PROVE  Typed'
  <2>1. PICK id \in 1..MaxRows :
          summaries' = summaries \cup {[date |-> date, day |-> day, id |-> id]}
    BY <1>4 DEF AddSummary
  <2>2. summaries' \subseteq SummaryRows
    BY <1>1, <2>1 DEF SummaryRows
  <2>3. QED
    BY <1>1, <1>4, <2>2 DEF AddSummary, disks, Applied, NamesAt
<1>5. ASSUME NEW p \in Procs, NEW name \in Names, AddGoal(p, name)
      PROVE  Typed'
  BY <1>1, <1>5 DEF AddGoal, disks, Applied, NamesAt
<1>6. ASSUME NEW p \in Procs,
             \/ Open(p) \/ ReadRecorded(p) \/ DriftFound(p) \/ UpToDate(p)
             \/ PreTxn(p) \/ BeginImmediate(p) \/ Busy(p)
             \/ BodyFails(p) \/ PostTxn(p) \/ Crash(p)
      PROVE  Typed'
  <2>1. UNCHANGED <<release, edited, recorded, goals, summaries, Applied>>
    BY <1>6 DEF Open, ReadRecorded, DriftFound, UpToDate, PreTxn,
       BeginImmediate, Busy, BodyFails, PostTxn, Crash, disks, tables, Applied
  <2>2. stage' \in [Procs -> Upgrading \cup {"ready", "failed", "crashed"}]
    BY <1>1, <1>6 DEF Open, ReadRecorded, DriftFound, UpToDate, PreTxn,
       BeginImmediate, Busy, BodyFails, PostTxn, Crash, Moves, Upgrading
  <2>3. fk' \subseteq Procs /\ writer' \in Procs \cup {NoOne}
    BY <1>1, <1>6 DEF Open, ReadRecorded, DriftFound, UpToDate, PreTxn,
       BeginImmediate, Busy, BodyFails, PostTxn, Crash
  <2>4. writer' # NoOne => stage'[writer'] = "body"
    BY <1>1, <1>6 DEF Open, ReadRecorded, DriftFound, UpToDate, PreTxn,
       BeginImmediate, Busy, BodyFails, PostTxn, Crash, Moves
  <2>5. current' \in [Procs -> 0..(Last + 1)]
    <3>1. CASE ReadRecorded(p)
      <4>1. PICK n \in 0..Last : Applied = 1..n
        BY DEF IInv, Gapless
      <4>2. n \in Nat /\ n + 1 \in 0..(Last + 1)
        BY <4>1, MigrationsAssumption
      <4>3. Newest = n
        BY <4>1, <4>2, NewestIs
      <4>4. current' = [current EXCEPT ![p] = n + 1]
        BY <3>1, <4>3 DEF ReadRecorded
      <4>5. QED
        BY <1>1, <4>2, <4>4
    <3>2. CASE PostTxn(p)
      <4>1. current[p] <= release[p] /\ release[p] \in 1..Last
        BY <1>1, <3>2 DEF IInv, Underway, PostTxn, Moves, Versions
      <4>2. current[p] + 1 \in 0..(Last + 1)
        BY <1>1, <4>1, MigrationsAssumption
      <4>3. QED
        BY <1>1, <3>2, <4>2 DEF PostTxn
    <3>3. CASE UNCHANGED current
      BY <1>1, <3>3
    <3>4. QED
      BY <1>6, <3>1, <3>2, <3>3 DEF Open, DriftFound, UpToDate, PreTxn,
         BeginImmediate, Busy, BodyFails, Crash
  <2>6. QED
    BY <1>1, <2>1, <2>2, <2>3, <2>4, <2>5 DEF NamesAt
<1>7. QED
  BY <1>2, <1>3, <1>4, <1>5, <1>6 DEF Next

-----------------------------------------------------------------------------
(* Pruning keeps the row inserted last of each case_date: ids are bounded,  *)
(* so a row at the least distance from the bound exists.                    *)
LEMMA LastOfItsDateStays ==
  ASSUME NEW rows \in SUBSET SummaryRows, NEW s \in rows
  PROVE  \E t \in Pruned(rows) : t.date = s.date /\ s.id <= t.id
<1> DEFINE T == {MaxRows - t.id : t \in {r \in rows : r.date = s.date}}
<1>1. \A r \in rows : r.id \in 1..MaxRows
  BY DEF SummaryRows
<1>2. T \subseteq Nat /\ T # {}
  BY <1>1, MigrationsAssumption
<1>3. PICK x \in T : \A y \in T : ~ (<<y, x>> \in OpToRel(<, Nat))
  BY <1>2, NatLessThanWellFounded, WFMin
<1>4. \A y \in T : ~(y < x)
  BY <1>2, <1>3 DEF OpToRel
<1>5. PICK t \in rows : t.date = s.date /\ x = MaxRows - t.id
  BY <1>3
<1>6. \A r \in rows : r.date = s.date => r.id <= t.id
  <2> SUFFICES ASSUME NEW r \in rows, r.date = s.date PROVE r.id <= t.id
    OBVIOUS
  <2>1. ~(MaxRows - r.id < MaxRows - t.id)
    BY <1>4, <1>5
  <2>2. QED
    BY <1>1, <2>1, MigrationsAssumption
<1>7. QED
  BY <1>5, <1>6 DEF Pruned

LEMMA InvStep ==
  ASSUME IInv, [Next]_vars
  PROVE  IInv'
BY TypedStep, GaplessStep, UnderwayStep, EnforcedStep, OneSummaryStep DEF IInv

LEMMA InvInit == Init => IInv
<1> SUFFICES ASSUME Init PROVE IInv
  OBVIOUS
<1>1. PICK level \in 0..Last :
        /\ recorded = [v \in 1..level |-> "shipped"]
        /\ goals \in SUBSET NamesAt(1..level)
        /\ summaries \in SUBSET SummaryRows
        /\ Unique \in 1..level => OnePerDate(summaries)
  BY DEF Init
<1>2. Applied = 1..level
  BY <1>1 DEF Applied
<1>3. Typed
  BY <1>1, <1>2, MigrationsAssumption DEF Init, Typed, Upgrading
<1>4. Gapless /\ OneSummary
  BY <1>1, <1>2 DEF Gapless, OneSummary
<1>5. Underway /\ Enforced
  BY DEF Init, Underway, Enforced
<1>6. QED
  BY <1>3, <1>4, <1>5 DEF IInv

(* For any number of processes, releases and versions: IInv.                *)
LEMMA Invariant == Spec => []IInv
<1>1. IInv /\ [Next]_vars => IInv'
  BY InvStep
<1>2. QED
  BY InvInit, <1>1, PTL DEF Spec

-----------------------------------------------------------------------------
(* apply_pending_migrations leaves schema_migrations without a gap, a       *)
(* version is recorded once, and rows obey the constraints it stands for.   *)
THEOREM TypeCorrect == Spec => []TypeOK
<1>1. IInv => TypeOK
  <2> SUFFICES ASSUME IInv PROVE TypeOK
    OBVIOUS
  <2>1. PICK n \in 0..Last : Applied = 1..n
    BY DEF IInv, Gapless
  <2>2. Newest = n
    BY <2>1, NewestIs
  <2>3. QED
    BY <2>1, <2>2, MigrationsAssumption DEF IInv, Typed, TypeOK
<1>2. QED
  BY <1>1, Invariant, PTL

(* Whoever leaves apply_pending_migrations without an error finds each of   *)
(* its own files applied as its disk has it, with foreign keys on, however  *)
(* many processes of whatever releases upgraded the file beside it.         *)
THEOREM WhoIsReadyIsMigrated == Spec => []ReadyMeansMigrated
<1>1. IInv => ReadyMeansMigrated
  <2> SUFFICES ASSUME IInv, NEW p \in Procs, stage[p] = "ready"
               PROVE  /\ p \in fk
                      /\ \A v \in 1..release[p] :
                           v \in Applied /\ recorded[v] = Text(p, v)
    BY DEF ReadyMeansMigrated
  <2>1. /\ current[p] \in Int /\ release[p] \in Int /\ current[p] > release[p]
        /\ \A v \in 1..(current[p] - 1) : Passed(p, v)
    BY DEF IInv, Typed, Underway, Versions
  <2>2. \A v \in 1..release[p] : v \in 1..(current[p] - 1) /\ v <= release[p]
    BY <2>1
  <2>3. QED
    BY <2>1, <2>2 DEF IInv, Enforced, Passed
<1>2. QED
  BY <1>1, Invariant, PTL

(* From migration 0010 on, no day has two summaries.                        *)
THEOREM IndexHolds == Spec => []OneSummary
<1>1. IInv => OneSummary
  BY DEF IInv
<1>2. QED
  BY <1>1, Invariant, PTL

(* What pruning takes away leaves a later row of its case_date, which tells *)
(* of the same day if that is set.                                          *)
LEMMA PrunedForALater ==
  ASSUME NEW rows \in SUBSET SummaryRows, NEW s \in rows \ Pruned(rows)
  PROVE  \E t \in Pruned(rows) :
           t.date = s.date /\ s.id < t.id /\ (t.day = s.day \/ s.date = Unset)
<1>1. PICK u \in rows : u.date = s.date /\ ~(u.id <= s.id)
  BY DEF Pruned
<1>2. PICK t \in Pruned(rows) : t.date = u.date /\ u.id <= t.id
  BY LastOfItsDateStays
<1>3. t \in SummaryRows /\ u \in SummaryRows /\ s \in SummaryRows
  BY DEF Pruned
<1>4. s.id \in Int /\ t.id \in Int /\ u.id \in Int
  BY <1>3, MigrationsAssumption DEF SummaryRows
<1>5. s.id < t.id
  BY <1>1, <1>2, <1>4
<1>6. t.day = s.day \/ s.date = Unset
  BY <1>1, <1>2, <1>3 DEF SummaryRows
<1>7. QED
  BY <1>1, <1>2, <1>5, <1>6

(* No migration, and no crash within one, takes away a goal, or a summary   *)
(* that is the last of its case_date.                                       *)
THEOREM UpgradesKeepRows == Spec => LostToCleanUpOnly
<1>1. ASSUME IInv, [Next]_vars
      PROVE  /\ goals \subseteq goals'
             /\ \A s \in summaries \ summaries' :
                  /\ Unique \in Applied' \ Applied
                  /\ \E t \in summaries' :
                       /\ t.date = s.date /\ s.id < t.id
                       /\ t.day = s.day \/ s.date = Unset
  <2>1. goals \subseteq goals'
    BY <1>1 DEF Next, vars, tables, Open, ReadRecorded, DriftFound, UpToDate,
       PreTxn, BeginImmediate, Busy, BodyCommits, BodyFails, PostTxn, Crash,
       AddGoal, AddSummary
  <2>2. CASE summaries \subseteq summaries'
    BY <2>1, <2>2
  <2>3. ASSUME NEW p \in Procs, BodyCommits(p), current[p] = Unique
        PROVE  \A s \in summaries \ summaries' :
                 /\ Unique \in Applied' \ Applied
                 /\ \E t \in summaries' :
                      /\ t.date = s.date /\ s.id < t.id
                      /\ t.day = s.day \/ s.date = Unset
    <3>1. Unique \in Applied' \ Applied
      <4>1. Applied' = Applied \cup {current[p]}
        BY <1>1, <2>3, NextVersion
      <4>2. QED
        BY <2>3, <4>1 DEF BodyCommits
    <3>2. summaries' = Pruned(summaries)
      BY <2>3 DEF BodyCommits
    <3>3. summaries \in SUBSET SummaryRows
      BY <1>1 DEF IInv, Typed
    <3>4. QED
      BY <3>1, <3>2, <3>3, PrunedForALater
  <2>4. \/ summaries \subseteq summaries'
        \/ \E p \in Procs : BodyCommits(p) /\ current[p] = Unique
    BY <1>1 DEF Next, vars, tables, Open, ReadRecorded, DriftFound, UpToDate,
       PreTxn, BeginImmediate, Busy, BodyCommits, BodyFails, PostTxn, Crash,
       AddGoal, AddSummary
  <2>5. QED
    BY <2>1, <2>2, <2>3, <2>4
<1>2. QED
  BY <1>1, Invariant, PTL DEF Spec, LostToCleanUpOnly

-----------------------------------------------------------------------------
(* The upgrade is done; what follows is about the vocabulary.               *)
(* What the tables' readers and writers carry from one step to another:     *)
(* words once known stay known, so a prompt may be answered late, and the   *)
(* seeder's second transaction finds the rows of its first.                 *)
Carried ==
  /\ \A d \in Debriefs : offered[d] \subseteq Known
  /\ \A s \in Seeders : seed[s] = "words" => Starters \subseteq Known
  /\ \A v \in Reviews : review[v] \in {"prompt", "merging", "aliasing"}
                          => asking[v] \in Labels

VocabInv == VocabTypeOK /\ NothingInvented /\ Carried /\ AnsweredIsAligned

(* Types of what is derived from the tables.                                *)
LEMMA WordFacts ==
  ASSUME VocabTypeOK
  PROVE  /\ Known \subseteq Words /\ NoWord \notin Known /\ Active \subseteq Known
         /\ \A w \in Words : alias[w] \in Words \cup {NoWord}
  BY VocabularyAssumption DEF VocabTypeOK, Known, Active

(* A stripped label is known, or an alias, or novel. *)
LEMMA ResolveStripped ==
  ASSUME NEW l \in Labels
  PROVE  /\ Stripped(l).word = l.word /\ l.word \in Words
         /\ Resolve(Stripped(l)) = IF l.word \in Known THEN l.word ELSE alias[l.word]
  BY DEF Labels, Stripped, Resolve

LEMMA ResolvesToKnown ==
  ASSUME VocabTypeOK, NothingInvented, NEW l \in Labels
  PROVE  Resolve(l) \in Known \cup {NoWord}
  BY WordFacts DEF Resolve, NothingInvented, Labels

LEMMA PlainResolves ==
  ASSUME VocabTypeOK, NEW w \in Known
  PROVE  Resolve(Plain(w)) = w
  BY DEF Plain, Resolve

(* No step makes a row of vocabulary vanish. *)
LEMMA KnownGrows ==
  ASSUME VocabTypeOK, [VocabNext]_vocabVars
  PROVE  /\ Known \subseteq Known'
         /\ status' \in [Words -> {"none", "active", "archived"}]
<1> USE DEF wordTables, debriefing, reviewing
<1>1. ASSUME NEW w \in Words, AddCanonical(w)
      PROVE  /\ Known \subseteq Known'
             /\ status' \in [Words -> {"none", "active", "archived"}]
  BY <1>1 DEF AddCanonical, Known, VocabTypeOK
<1>2. ASSUME NEW s \in Seeders, SeedWords(s)
      PROVE  /\ Known \subseteq Known'
             /\ status' \in [Words -> {"none", "active", "archived"}]
  BY <1>2 DEF SeedWords, Known, VocabTypeOK
<1>3. ASSUME NEW w \in Words, Archive(w)
      PROVE  /\ Known \subseteq Known'
             /\ status' \in [Words -> {"none", "active", "archived"}]
  BY <1>3 DEF Archive, Known, VocabTypeOK
<1>4. CASE UNCHANGED status
  BY <1>4 DEF Known, VocabTypeOK
<1>5. QED
  BY <1>1, <1>2, <1>3, <1>4
  DEF VocabNext, DebriefStep, ReviewStep, SeedAliases, SeedNoMore, AlignHits,
      AlignMisses, LlmProposes, AlignFails, StoreEvent, LoadNovel, AskNext,
      Merge, MergeInto, MergeCancelled, Create, AliasCreated, Skipped,
      ReviewEnds, ClientAliases, ClientAdds, vocabVars

(* An alias is written to a known word, and none is ever taken away. *)
AliasesSound ==
  /\ alias' \in [Words -> Words \cup {NoWord}]
  /\ \A w \in Words : alias'[w] \in Known \cup {NoWord}
  /\ \A w \in Words : alias[w] # NoWord => alias'[w] # NoWord

LEMMA AliasWrite ==
  ASSUME VocabTypeOK, NothingInvented, NEW l, NEW w \in Words, AddAlias(l, w)
  PROVE  AliasesSound /\ (l.word \in Words => alias'[l.word] = w)
  BY WordFacts DEF AliasesSound, AddAlias, NothingInvented, VocabTypeOK

LEMMA AliasesKept ==
  ASSUME VocabInv, [VocabNext]_vocabVars
  PROVE  AliasesSound
<1> USE DEF wordTables, debriefing, reviewing, VocabInv
<1>1. ASSUME NEW s \in Seeders, SeedAliases(s)
      PROVE  AliasesSound
  BY <1>1, VocabularyAssumption, WordFacts
  DEF SeedAliases, AliasesSound, NothingInvented, Carried, VocabTypeOK
<1>2. ASSUME NEW v \in Reviews, MergeInto(v) \/ AliasCreated(v)
      PROVE  AliasesSound
  BY <1>2, AliasWrite DEF MergeInto, AliasCreated, VocabTypeOK
<1>3. ASSUME NEW x \in Words, NEW w \in Words, ClientAliases(x, w)
      PROVE  AliasesSound
  BY <1>3, AliasWrite DEF ClientAliases
<1>4. CASE UNCHANGED alias
  BY <1>4 DEF AliasesSound, NothingInvented, VocabTypeOK
<1>5. QED
  BY <1>1, <1>2, <1>3, <1>4
  DEF VocabNext, DebriefStep, ReviewStep, SeedWords, SeedNoMore, AlignHits,
      AlignMisses, LlmProposes, AlignFails, StoreEvent, LoadNovel, AskNext,
      Merge, MergeCancelled, Create, Skipped,
      ReviewEnds, ClientAdds, Archive, vocabVars

-----------------------------------------------------------------------------
LEMMA DebriefsSound ==
  ASSUME VocabInv, [VocabNext]_vocabVars
  PROVE  /\ label' \in [Debriefs -> Labels]
         /\ align' \in [Debriefs -> {"new", "asking", "settled", "stored", "failed"}]
         /\ canonical' \in [Debriefs -> Words \cup {NoWord}]
         /\ offered' \in [Debriefs -> SUBSET Words]
         /\ \A d \in Debriefs : /\ canonical'[d] \in Known \cup {NoWord}
                                /\ offered'[d] \subseteq Known
<1> USE DEF wordTables, debriefing, reviewing, VocabInv
<1>1. ASSUME NEW d \in Debriefs, AlignHits(d)
      PROVE  canonical'[d] \in Known \cup {NoWord}
  <2>1. label[d] \in Labels
    BY DEF VocabTypeOK
  <2>2. Resolve(Stripped(label[d])) \in Known \cup {NoWord}
    BY <2>1, ResolveStripped DEF NothingInvented
  <2>3. QED
    BY <1>1, <2>2 DEF AlignHits, VocabTypeOK
<1>2. CASE \E d \in Debriefs : DebriefStep(d)
  <2>1. PICK d \in Debriefs : DebriefStep(d)
    BY <1>2
  <2>2. CASE AlignHits(d)
    BY <2>2, <1>1, WordFacts DEF AlignHits, VocabTypeOK, NothingInvented, Carried
  <2>3. CASE AlignMisses(d)
    BY <2>3, WordFacts DEF AlignMisses, VocabTypeOK, NothingInvented, Carried
  <2>4. CASE LlmProposes(d)
    BY <2>4, WordFacts DEF LlmProposes, VocabTypeOK, NothingInvented, Carried
  <2>5. CASE AlignFails(d) \/ StoreEvent(d)
    BY <2>5 DEF AlignFails, StoreEvent, VocabTypeOK, NothingInvented, Carried
  <2>6. QED
    BY <2>1, <2>2, <2>3, <2>4, <2>5 DEF DebriefStep
<1>3. CASE UNCHANGED debriefing
  BY <1>3 DEF VocabTypeOK, NothingInvented, Carried
<1>4. QED
  BY <1>2, <1>3
  DEF VocabNext, ReviewStep, SeedWords, SeedAliases, SeedNoMore, LoadNovel, AskNext,
      Merge, MergeInto, MergeCancelled, Create, AliasCreated, Skipped,
      ReviewEnds, ClientAliases, ClientAdds, Archive, vocabVars

LEMMA SeedersSound ==
  ASSUME VocabInv, [VocabNext]_vocabVars
  PROVE  /\ seed' \in [Seeders -> {"new", "words", "done"}]
         /\ \A s \in Seeders : seed'[s] = "words" => Starters \subseteq Known'
<1> USE DEF wordTables, debriefing, reviewing, VocabInv
<1>1. ASSUME NEW s \in Seeders, SeedWords(s)
      PROVE  Starters \subseteq Known'
  BY <1>1, VocabularyAssumption DEF SeedWords, Known, VocabTypeOK
<1>2. CASE \E s \in Seeders : SeedWords(s) \/ SeedAliases(s) \/ SeedNoMore(s)
  BY <1>1, <1>2, KnownGrows DEF SeedWords, SeedAliases, SeedNoMore, VocabTypeOK, Carried
<1>3. CASE UNCHANGED seed
  BY <1>3, KnownGrows DEF VocabTypeOK, Carried
<1>4. QED
  BY <1>2, <1>3
  DEF VocabNext, DebriefStep, ReviewStep, AlignHits,
      AlignMisses, LlmProposes, AlignFails, StoreEvent, LoadNovel, AskNext,
      Merge, MergeInto, MergeCancelled, Create, AliasCreated, Skipped,
      ReviewEnds, ClientAliases, ClientAdds, Archive, vocabVars

(* What a review has in hand is a label from its first question on. *)
LEMMA ReviewsSound ==
  ASSUME VocabInv, [VocabNext]_vocabVars
  PROVE  /\ review' \in [Reviews -> {"idle", "next", "prompt", "merging", "aliasing"}]
         /\ todo' \in [Reviews -> SUBSET Labels]
         /\ asking' \in [Reviews -> Labels \cup {NoLabel}]
         /\ names' \in [Reviews -> SUBSET Words]
         /\ answered' \subseteq Labels
         /\ \A v \in Reviews : review'[v] \in {"prompt", "merging", "aliasing"}
                                 => asking'[v] \in Labels
<1> USE DEF wordTables, debriefing, reviewing, VocabInv
<1>1. CASE \E v \in Reviews : ReviewStep(v)
  <2>1. PICK v \in Reviews : ReviewStep(v)
    BY <1>1
  <2>2. Stored \subseteq Labels
    <3>1. ASSUME NEW d \in Debriefs PROVE Activity(d) \in Labels
      <4>1. label[d] \in Labels /\ canonical[d] \in Words \cup {NoWord}
        BY DEF VocabTypeOK
      <4>2. \A w \in Words : Plain(w) \in Labels
        BY DEF Plain, Labels
      <4>3. QED
        BY <4>1, <4>2 DEF Activity
    <3>2. QED
      BY <3>1 DEF Stored
  <2>3. CASE LoadNovel(v)
    BY <2>2, <2>3 DEF LoadNovel, VocabTypeOK, Carried
  <2>4. CASE AskNext(v)
    BY <2>4 DEF AskNext, VocabTypeOK, Carried
  <2>5. CASE Merge(v) \/ MergeCancelled(v) \/ Skipped(v) \/ ReviewEnds(v)
    BY <2>5, WordFacts
    DEF Merge, MergeCancelled, Skipped, ReviewEnds, VocabTypeOK, Carried
  <2>6. CASE MergeInto(v) \/ AliasCreated(v)
    BY <2>6 DEF MergeInto, AliasCreated, VocabTypeOK, Carried
  <2>7. CASE Create(v)
    BY <2>7 DEF Create, VocabTypeOK, Carried
  <2>8. QED
    BY <2>1, <2>3, <2>4, <2>5, <2>6, <2>7 DEF ReviewStep
<1>2. CASE UNCHANGED <<reviewing, answered>>
  BY <1>2 DEF VocabTypeOK, Carried
<1>3. QED
  BY <1>1, <1>2
  DEF VocabNext, DebriefStep, SeedWords, SeedAliases, SeedNoMore, AlignHits,
      AlignMisses, LlmProposes, AlignFails, StoreEvent, ClientAliases,
      ClientAdds, Archive, vocabVars

-----------------------------------------------------------------------------
(* A label that was aligned stays so. *)
LEMMA AlignedStays ==
  ASSUME VocabInv, [VocabNext]_vocabVars, NEW l \in Labels, Resolve(Stripped(l)) # NoWord
  PROVE  Resolve(Stripped(l))' # NoWord
<1>1. /\ Resolve(Stripped(l)) = IF l.word \in Known THEN l.word ELSE alias[l.word]
      /\ Resolve(Stripped(l))' = IF l.word \in Known' THEN l.word ELSE alias'[l.word]
      /\ l.word \in Words
  BY DEF Labels, Stripped, Resolve
<1>2. Known \subseteq Known' /\ AliasesSound
  BY KnownGrows, AliasesKept DEF VocabInv
<1>3. QED
  BY <1>1, <1>2, VocabularyAssumption DEF AliasesSound

(* Whoever answers for a label has given it a row or an alias.              *)
LEMMA AnswersKept ==
  ASSUME VocabInv, [VocabNext]_vocabVars
  PROVE  AnsweredIsAligned'
<1> USE DEF wordTables, debriefing, reviewing, VocabInv
<1>1. ASSUME NEW v \in Reviews, MergeInto(v) \/ AliasCreated(v),
             asking[v] \in Labels
      PROVE  Resolve(Stripped(asking[v]))' # NoWord
  <2> DEFINE l == asking[v]
  <2>1. PICK w \in Words : AddAlias(l, w)
    BY <1>1 DEF MergeInto, AliasCreated, VocabTypeOK
  <2>2. l.word \in Words /\ alias'[l.word] = w /\ w # NoWord
    BY <1>1, <2>1, VocabularyAssumption DEF AddAlias, Labels, VocabTypeOK
  <2>3. asking'[v] = l
    BY <1>1 DEF MergeInto, AliasCreated
  <2>4. Resolve(Stripped(asking[v]))'
          = IF l.word \in Known' THEN l.word ELSE alias'[l.word]
    BY <1>1, <2>3 DEF Labels, Stripped, Resolve
  <2>5. QED
    BY <2>2, <2>4, VocabularyAssumption
<1>2. ASSUME NEW v \in Reviews, Create(v), asking[v] \in Labels,
             answered' # answered
      PROVE  /\ answered' = answered \cup {asking[v]} /\ asking' = asking
             /\ Resolve(Stripped(asking[v]))' # NoWord
  <2>1. PICK w \in Words : /\ AddCanonical(w) /\ asking[v] = Plain(w)
                           /\ answered' = answered \cup {asking[v]}
    BY <1>2 DEF Create
  <2>2. w \in Known' /\ asking' = asking
    BY <1>2, <2>1 DEF AddCanonical, Known, VocabTypeOK, Create
  <2>3. Resolve(Stripped(asking[v]))' = w
    BY <2>1, <2>2 DEF Plain, Stripped, Resolve
  <2>4. QED
    BY <2>1, <2>2, <2>3, VocabularyAssumption
<1>3. SUFFICES ASSUME NEW l \in answered'
               PROVE  Resolve(Stripped(l))' # NoWord
  BY DEF AnsweredIsAligned
<1>4. CASE l \in answered
  BY <1>4, AlignedStays DEF AnsweredIsAligned, VocabTypeOK
<1>5. CASE l \notin answered
  <2>1. PICK v \in Reviews : MergeInto(v) \/ AliasCreated(v) \/ Create(v)
    BY <1>5
    DEF VocabNext, DebriefStep, ReviewStep, SeedWords, SeedAliases, SeedNoMore,
        AlignHits, AlignMisses, LlmProposes, AlignFails, StoreEvent, LoadNovel,
        AskNext, Merge, MergeCancelled, Skipped, ReviewEnds, ClientAliases,
        ClientAdds, Archive, vocabVars
  <2>2. asking[v] \in Labels
    BY <2>1 DEF Carried, MergeInto, AliasCreated, Create
  <2>3. CASE MergeInto(v) \/ AliasCreated(v)
    <3>1. l = asking[v] /\ asking' = asking
      BY <1>5, <2>3 DEF MergeInto, AliasCreated
    <3>2. QED
      BY <1>1, <2>2, <2>3, <3>1
  <2>4. CASE Create(v)
    BY <1>2, <1>5, <2>2, <2>4
  <2>5. QED
    BY <2>1, <2>3, <2>4
<1>6. QED
  BY <1>4, <1>5

LEMMA VocabInductive == VocabInv /\ [VocabNext]_vocabVars => VocabInv'
<1> SUFFICES ASSUME VocabInv, [VocabNext]_vocabVars
             PROVE  VocabInv'
  OBVIOUS
<1>1. Known \subseteq Known'
  BY KnownGrows DEF VocabInv
<1>2. VocabTypeOK'
  BY KnownGrows, AliasesKept, DebriefsSound, SeedersSound, ReviewsSound
  DEF VocabInv, VocabTypeOK, AliasesSound
<1>3. NothingInvented'
  BY <1>1, AliasesKept, DebriefsSound DEF NothingInvented, AliasesSound
<1>4. Carried'
  BY <1>1, DebriefsSound, SeedersSound, ReviewsSound DEF Carried
<1>5. QED
  BY <1>2, <1>3, <1>4, AnswersKept DEF VocabInv

(* For any number of debriefs, reviews and seeders: VocabInv.               *)
LEMMA VocabInvariant == VocabSpec => []VocabInv
<1>1. VocabInit => VocabInv
  BY DEF VocabInit, VocabInv, VocabTypeOK, NothingInvented, Carried, AnsweredIsAligned, Known
<1>2. QED
  BY <1>1, VocabInductive, PTL DEF VocabSpec

(* Every alias and every aligned row leads to a row of the vocabulary,      *)
(* however late the LLM answers and whatever was archived meanwhile.        *)
THEOREM NoInvention == VocabSpec => []NothingInvented
  BY VocabInvariant, PTL DEF VocabInv

(* Hence aliases make no chain: what a label resolves to is its own word.   *)
THEOREM AliasesAreShort == VocabSpec => []OneHop
<1>1. VocabInv => OneHop
  <2> SUFFICES ASSUME VocabInv, NEW l \in Labels, Resolve(l) # NoWord
               PROVE  Resolve(Plain(Resolve(l))) = Resolve(l)
    BY DEF OneHop
  <2>1. Resolve(l) \in Known
    BY ResolvesToKnown DEF VocabInv
  <2>2. QED
    BY <2>1, PlainResolves DEF VocabInv
<1>2. QED
  BY <1>1, VocabInvariant, PTL

(* A review's answer lasts: the label resolves from then on. *)
THEOREM AnswersLast == VocabSpec => []AnsweredIsAligned
  BY VocabInvariant, PTL DEF VocabInv
=============================================================================
