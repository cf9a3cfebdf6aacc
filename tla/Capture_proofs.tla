---------------------------- MODULE Capture_proofs ----------------------------
(***************************************************************************)
(* Imports and voice notes for any number of captures, items and days:     *)
(* finished imports left all they could use, what was redacted is not      *)
(* imported again, and a note in the log can be replayed.                  *)
(***************************************************************************)
EXTENDS Capture, TLAPS

(* An item that is in the log: under its key, or by this import.            *)
Stored(p, i) == Known(i) \/ (key[i] = NoKey /\ \E r \in rows : r.of = i /\ r.by = p)

(* What an import could use of what is behind it is in the log, at every    *)
(* point of its file.                                                       *)
ImportsSoFar ==
  \A p \in Imports :
    /\ stage[p] = "new" => file[p] = {}
    /\ stage[p] = "done" => left[p] = {}
    /\ \A i \in (file[p] \cap Usable) \ (left[p] \cup forgotten[p]) : Stored(p, i)

(* One row for each key, the emptied row of a redacted item included. *)
KeysUnique ==
  /\ \A r, s \in rows :
       r.of \in Items /\ s.of \in Items /\ Twins(r.of, s.of) => r = s
  /\ \A i \in hidden : key[i] = NoKey \/ Known(i)

(* A note's segment is written before its row. *)
NotesSoFar ==
  \A n \in Notes \ taken :
    /\ stage[n] = "done" => RowOf(n, n) \in rows
    /\ (stage[n] = "event" \/ RowOf(n, n) \in rows) /\ n \notin replaced
         => told[n].text \in transcripts[told[n].date]

IInv == TypeOK /\ ImportsSoFar /\ KeysUnique /\ RedactedStaysRedacted /\ NotesSoFar

(* The items and what identifies them are given. *)
LEMMA WorldStays ==
  ASSUME [Next]_vars
  PROVE  /\ UNCHANGED world
         /\ \A i, j : Twins(i, j)' = Twins(i, j)
         /\ \A r : DateOf(r)' = DateOf(r)
         /\ Usable' = Usable /\ Rows' = Rows
<1>1. UNCHANGED world
  BY DEF Next, Import, Note, BeginImport, FileRefused, ImportItem, SkipKnown,
         SkipUnusable, ImportEnds, CutShort, BeginNote, KeepSegment, AppendNote,
         Debriefed, Replace, ForgetDay, ForgetEvent, Forget, RedactDay, RedactEvent, Redact,
         vars
<1>2. QED
  BY <1>1 DEF world, Twins, DateOf, Usable, Rows

(* The actions by what they have in common. *)
Forgets == \E gone \in SUBSET rows, dates \in SUBSET Dates :
             (\A r \in gone : DateOf(r) \in dates) /\ Forget(gone, dates)
Redacts == \E chosen \in SUBSET rows, dates \in SUBSET Dates :
             (\A r \in chosen : DateOf(r) \in dates) /\ Redact(chosen, dates)

LEMMA RowDates ==
  ASSUME TypeOK, NEW r \in rows
  PROVE  DateOf(r) \in Dates
  BY CaptureAssumption DEF TypeOK, Rows, DateOf, Usable

LEMMA StepKinds ==
  ASSUME TypeOK, Next
  PROVE  \/ \E p \in Imports : Import(p)
         \/ \E n \in Notes : Note(n)
         \/ \E d \in Dates, t \in Texts : Debriefed(d, t) \/ Replace(d, t)
         \/ Forgets \/ Redacts
<1>1. ASSUME NEW d \in Dates, ForgetDay(d) PROVE Forgets
  BY <1>1 DEF ForgetDay, Forgets, RowsOn
<1>2. ASSUME NEW r \in rows, ForgetEvent(r) PROVE Forgets
  BY <1>2, RowDates DEF ForgetEvent, Forgets
<1>3. ASSUME NEW d \in Dates, RedactDay(d) PROVE Redacts
  BY <1>3 DEF RedactDay, Redacts, RowsOn
<1>4. ASSUME NEW r \in rows, RedactEvent(r) PROVE Redacts
  BY <1>4, RowDates DEF RedactEvent, Redacts
<1>5. QED
  BY <1>1, <1>2, <1>3, <1>4 DEF Next

LEMMA RowTypes ==
  /\ \A i \in Usable, p \in Imports : RowOf(i, p) \in Rows
  /\ \A n \in Notes : RowOf(n, n) \in Rows
  BY DEF RowOf, Rows, Captures

LEMMA TypeInductive == TypeOK /\ [Next]_vars => TypeOK'
<1> SUFFICES ASSUME TypeOK, [Next]_vars
             PROVE  TypeOK'
  OBVIOUS
<1> USE DEF world, database, history
<1>0. Rows' = Rows
  BY WorldStays
<1>1. ASSUME NEW p \in Imports, Import(p)
      PROVE  TypeOK'
  <2>1. CASE BeginImport(p)
    BY <1>0, <2>1 DEF BeginImport, Moves, TypeOK, Captures
  <2>2. CASE FileRefused(p) \/ ImportEnds(p) \/ CutShort(p)
    BY <1>0, <2>2 DEF FileRefused, ImportEnds, CutShort, Moves, TypeOK, Captures, Ended
  <2>3. CASE ImportItem(p)
    <3>1. PICK i \in left[p] \cap Usable :
                               /\ left' = [left EXCEPT ![p] = @ \ {i}]
                               /\ rows' = rows \cup {RowOf(i, p)}
      BY <2>3 DEF ImportItem
    <3>2. rows' \subseteq Rows
      BY <3>1, RowTypes DEF TypeOK
    <3>3. QED
      BY <1>0, <2>3, <3>1, <3>2 DEF ImportItem, TypeOK
  <2>4. CASE SkipKnown(p) \/ SkipUnusable(p)
    BY <1>0, <2>4 DEF SkipKnown, SkipUnusable, TypeOK
  <2>5. QED
    BY <1>1, <2>1, <2>2, <2>3, <2>4 DEF Import
<1>2. ASSUME NEW n \in Notes, Note(n)
      PROVE  TypeOK'
  BY <1>0, <1>2, RowTypes
  DEF Note, BeginNote, KeepSegment, AppendNote, CutShort, Moves, TypeOK, Captures,
      Ended
<1>3. ASSUME NEW d \in Dates, NEW t \in Texts, Debriefed(d, t) \/ Replace(d, t)
      PROVE  TypeOK'
  BY <1>0, <1>3 DEF Debriefed, Replace, Written, TypeOK
<1>4. CASE Forgets
  BY <1>0, <1>4 DEF Forgets, Forget, Written, TypeOK
<1>5. CASE Redacts
  <2>1. PICK chosen \in SUBSET rows, dates \in SUBSET Dates : Redact(chosen, dates)
    BY <1>5 DEF Redacts
  <2>2. \A r \in chosen : [r EXCEPT !.legible = FALSE] \in Rows
    <3>1. \A r \in Rows : [r EXCEPT !.legible = FALSE] \in Rows
      BY DEF Rows
    <3>2. chosen \subseteq Rows
      BY DEF TypeOK
    <3>3. QED
      BY <3>1, <3>2
  <2>3. rows' \subseteq Rows
    BY <2>1, <2>2 DEF Redact, TypeOK
  <2>4. hidden' \subseteq Items /\ taken' \subseteq Notes
    BY <2>1 DEF Redact, Written, TypeOK
  <2>5. transcripts' \in [Dates -> SUBSET Texts]
    BY <2>1 DEF Redact, TypeOK
  <2>6. QED
    BY <1>0, <2>1, <2>3, <2>4, <2>5 DEF Redact, TypeOK
<1>6. CASE UNCHANGED vars
  BY <1>0, <1>6 DEF vars, TypeOK
<1>7. QED
  BY <1>1, <1>2, <1>3, <1>4, <1>5, <1>6, StepKinds

-----------------------------------------------------------------------------
(* What emptying a row leaves of it. *)
LEMMA RedactedRows ==
  ASSUME TypeOK, NEW chosen \in SUBSET rows, NEW dates, Redact(chosen, dates)
  PROVE  /\ \A r \in rows : \E s \in rows' : s.of = r.of /\ s.by = r.by
         /\ \A s \in rows' : \E r \in rows :
              /\ s.of = r.of /\ s.by = r.by
              /\ IF r \in chosen THEN s = [r EXCEPT !.legible = FALSE] ELSE s = r
         /\ \A s \in rows' : s \in rows \/ ~s.legible
<1>1. /\ rows' = (rows \ chosen) \cup {[r EXCEPT !.legible = FALSE] : r \in chosen}
      /\ rows \subseteq Rows
  BY DEF Redact, TypeOK
<1>2. \A r \in Rows : LET s == [r EXCEPT !.legible = FALSE]
                      IN  s.of = r.of /\ s.by = r.by /\ ~s.legible
  BY DEF Rows
<1>3. QED
  BY <1>1, <1>2

(* A row under a key makes every item of that key known. *)
LEMMA TwinsShare ==
  ASSUME NEW i, NEW j, NEW k
  PROVE  /\ Twins(i, j) => Twins(j, i)
         /\ Twins(i, j) /\ Twins(j, k) => Twins(i, k)
         /\ key[i] # NoKey => Twins(i, i)
  BY DEF Twins

(* Rows that only grow keep what is stored. *)
LEMMA StoredStays ==
  ASSUME [Next]_vars, NEW p, NEW i, Stored(p, i),
         \A r \in rows : \E s \in rows' : s.of = r.of /\ s.by = r.by
  PROVE  Stored(p, i)'
  BY WorldStays DEF Stored, Known, world

LEMMA ImportsInductive ==
  ASSUME IInv, [Next]_vars
  PROVE  ImportsSoFar'
<1> USE DEF world, database, history, IInv
<1>0. Usable' = Usable
  BY WorldStays
<1>1. ASSUME NEW p \in Imports, Import(p)
      PROVE  ImportsSoFar'
  <2>1. ASSUME NEW q \in Imports \ {p}
        PROVE  /\ stage'[q] = stage[q] /\ file'[q] = file[q]
               /\ left'[q] = left[q] /\ forgotten' = forgotten
    BY <1>1
    DEF Import, BeginImport, FileRefused, ImportItem, SkipKnown, SkipUnusable,
        ImportEnds, CutShort, Moves, TypeOK, Captures
  <2>2. \A r \in rows : r \in rows'
    BY <1>1
    DEF Import, BeginImport, FileRefused, ImportItem, SkipKnown, SkipUnusable,
        ImportEnds, CutShort
  <2>3. ASSUME NEW q \in Imports, NEW i, Stored(q, i) PROVE Stored(q, i)'
    BY <2>2, <2>3, StoredStays
  <2>4. ASSUME NEW q \in Imports \ {p}
        PROVE  /\ stage'[q] = "new" => file'[q] = {}
               /\ stage'[q] = "done" => left'[q] = {}
               /\ \A i \in (file'[q] \cap Usable) \ (left'[q] \cup forgotten'[q]) :
                     Stored(q, i)'
    BY <2>1, <2>3 DEF ImportsSoFar
  <2>5. /\ stage'[p] = "new" => file'[p] = {}
        /\ stage'[p] = "done" => left'[p] = {}
        /\ \A i \in (file'[p] \cap Usable) \ (left'[p] \cup forgotten'[p]) :
                     Stored(p, i)'
    <3>1. CASE BeginImport(p)
      BY <3>1 DEF BeginImport, Moves, TypeOK, Captures
    <3>2. CASE FileRefused(p) \/ ImportEnds(p) \/ CutShort(p)
      BY <3>2, <2>3
      DEF FileRefused, ImportEnds, CutShort, Moves, TypeOK, Captures, ImportsSoFar
    <3>3. CASE ImportItem(p)
      <4>1. PICK i \in left[p] \cap Usable :
                                 /\ left' = [left EXCEPT ![p] = @ \ {i}]
                                 /\ rows' = rows \cup {RowOf(i, p)}
        BY <3>3 DEF ImportItem
      <4>2. i \in Items /\ Stored(p, i)'
        <5>1. i \in Items /\ RowOf(i, p).of = i /\ RowOf(i, p).by = p
          BY DEF TypeOK, RowOf
        <5>2. RowOf(i, p) \in rows' /\ key' = key
          BY <4>1, WorldStays
        <5>3. QED
          BY <5>1, <5>2 DEF Stored, Known, Twins
      <4>3. /\ stage' = stage /\ file' = file /\ forgotten' = forgotten
            /\ stage[p] = "reading"
        BY <3>3 DEF ImportItem
      <4>4. \A j \in (file'[p] \cap Usable) \ (left'[p] \cup forgotten'[p]) :
              j = i \/ j \in (file[p] \cap Usable) \ (left[p] \cup forgotten[p])
        BY <4>1, <4>3 DEF TypeOK
      <4>5. QED
        BY <2>3, <4>2, <4>3, <4>4 DEF ImportsSoFar
    <3>4. CASE SkipKnown(p)
      <4>1. PICK i \in left[p] \cap Usable :
              Known(i) /\ left' = [left EXCEPT ![p] = @ \ {i}]
        BY <3>4 DEF SkipKnown
      <4>2. /\ stage' = stage /\ file' = file /\ forgotten' = forgotten
            /\ stage[p] = "reading"
        BY <3>4 DEF SkipKnown
      <4>3. \A j \in (file'[p] \cap Usable) \ (left'[p] \cup forgotten'[p]) :
              j = i \/ j \in (file[p] \cap Usable) \ (left[p] \cup forgotten[p])
        BY <4>1, <4>2 DEF TypeOK
      <4>4. Stored(p, i)
        BY <4>1 DEF Stored
      <4>5. QED
        BY <2>3, <4>2, <4>3, <4>4 DEF ImportsSoFar
    <3>5. CASE SkipUnusable(p)
      <4>1. PICK i \in left[p] \ Usable : left' = [left EXCEPT ![p] = @ \ {i}]
        BY <3>5 DEF SkipUnusable
      <4>2. /\ stage' = stage /\ file' = file /\ forgotten' = forgotten
            /\ stage[p] = "reading"
        BY <3>5 DEF SkipUnusable
      <4>3. (file'[p] \cap Usable) \ (left'[p] \cup forgotten'[p])
              \subseteq (file[p] \cap Usable) \ (left[p] \cup forgotten[p])
        BY <4>1, <4>2 DEF TypeOK
      <4>4. QED
        BY <2>3, <4>2, <4>3 DEF ImportsSoFar
    <3>6. QED
      BY <1>1, <3>1, <3>2, <3>3, <3>4, <3>5 DEF Import
  <2>6. QED
    BY <1>0, <2>4, <2>5 DEF ImportsSoFar
<1>2. ASSUME UNCHANGED <<file, left, forgotten>>,
             \A p \in Imports : stage'[p] = stage[p],
             \A r \in rows : \E s \in rows' : s.of = r.of /\ s.by = r.by
      PROVE  ImportsSoFar'
  BY <1>0, <1>2, StoredStays DEF ImportsSoFar
<1>3. ASSUME NEW n \in Notes, Note(n)
      PROVE  ImportsSoFar'
  <2>1. /\ UNCHANGED <<file, left, forgotten>>
        /\ \A p \in Imports : stage'[p] = stage[p]
        /\ \A r \in rows : r \in rows'
    BY <1>3, CaptureAssumption
    DEF Note, BeginNote, KeepSegment, AppendNote, CutShort, Moves, TypeOK, Captures
  <2>2. QED
    BY <2>1, <1>2
<1>4. ASSUME NEW d \in Dates, NEW t \in Texts, Debriefed(d, t) \/ Replace(d, t)
      PROVE  ImportsSoFar'
  BY <1>4, <1>2 DEF Debriefed, Replace
<1>5. CASE Redacts
  <2>1. PICK chosen \in SUBSET rows, dates \in SUBSET Dates : Redact(chosen, dates)
    BY <1>5 DEF Redacts
  <2>2. QED
    BY <2>1, RedactedRows, <1>2 DEF Redact
<1>6. CASE Forgets
  <2>1. PICK gone \in SUBSET rows, dates \in SUBSET Dates : Forget(gone, dates)
    BY <1>6 DEF Forgets
  <2> DEFINE ids == {i \in Items : \E r \in gone : r.of \in Items
                                                   /\ (r.of = i \/ Twins(r.of, i))}
  <2>2. /\ rows' = rows \ gone /\ UNCHANGED <<file, left, stage>>
        /\ forgotten' = [p \in Imports |-> IF stage[p] = "new" THEN {}
                                           ELSE forgotten[p] \cup ids]
    BY <2>1 DEF Forget
  <2>3. ASSUME NEW p \in Imports, NEW i \in Items \ ids, Stored(p, i)
        PROVE  Stored(p, i)'
    <3>1. CASE Known(i)
      <4>1. PICK r \in rows : r.of \in Items /\ Twins(r.of, i)
        BY <3>1 DEF Known
      <4>2. r \in rows'
        BY <2>2, <2>3, <4>1
      <4>3. QED
        BY <4>1, <4>2, WorldStays DEF Stored, Known
    <3>2. CASE key[i] = NoKey /\ \E r \in rows : r.of = i /\ r.by = p
      <4>1. PICK r \in rows : r.of = i /\ r.by = p
        BY <3>2
      <4>2. r \in rows'
        BY <2>2, <2>3, <4>1
      <4>3. QED
        BY <3>2, <4>1, <4>2, WorldStays DEF Stored
    <3>3. QED
      BY <2>3, <3>1, <3>2 DEF Stored
  <2>4. ASSUME NEW p \in Imports,
               NEW i \in (file'[p] \cap Usable) \ (left'[p] \cup forgotten'[p])
        PROVE  Stored(p, i)'
    <3>1. stage[p] # "new" /\ i \in file[p] /\ i \in Items
      BY <2>2 DEF ImportsSoFar, TypeOK
    <3>2. i \notin ids /\ i \in (file[p] \cap Usable) \ (left[p] \cup forgotten[p])
      BY <2>2, <3>1
    <3>3. QED
      BY <2>3, <3>1, <3>2 DEF ImportsSoFar
  <2>5. QED
    BY <1>0, <2>2, <2>4 DEF ImportsSoFar
<1>7. CASE UNCHANGED vars
  BY <1>7, <1>2 DEF vars
<1>8. QED
  BY <1>1, <1>3, <1>4, <1>5, <1>6, <1>7, StepKinds

-----------------------------------------------------------------------------
(* Who appends a row of an item found no row under its key. *)
LEMMA KeysInductive ==
  ASSUME IInv, [Next]_vars
  PROVE  KeysUnique' /\ RedactedStaysRedacted'
<1> USE DEF world, database, history, IInv
<1>0. /\ \A i, j : Twins(i, j)' = Twins(i, j)
      /\ key' = key
  BY WorldStays
<1>1. ASSUME UNCHANGED hidden,
             \A r \in rows' : r.of \in Items => r \in rows,
             \A r \in rows : r.of \in Items => r \in rows'
      PROVE  KeysUnique' /\ RedactedStaysRedacted'
  BY <1>0, <1>1 DEF KeysUnique, RedactedStaysRedacted, Known
<1>2. ASSUME NEW p \in Imports, ImportItem(p)
      PROVE  KeysUnique' /\ RedactedStaysRedacted'
  <2>1. PICK i \in left[p] \cap Usable : ~Known(i) /\ rows' = rows \cup {RowOf(i, p)}
    BY <1>2 DEF ImportItem
  <2>2. RowOf(i, p).of = i /\ hidden' = hidden
    BY <1>2 DEF RowOf, ImportItem
  <2>3. \A r \in rows : r.of \in Items => ~Twins(r.of, i) /\ ~Twins(i, r.of)
    BY <2>1, TwinsShare DEF Known
  <2>4. \A r, s \in rows' :
          r.of \in Items /\ s.of \in Items /\ Twins(r.of, s.of) => r = s
    BY <2>1, <2>2, <2>3 DEF KeysUnique
  <2>5. \A j \in hidden : key[j] = NoKey \/ Known(j)'
    BY <1>0, <2>1 DEF KeysUnique, Known
  <2>6. \A j \in hidden : ~Twins(i, j)
    <3> SUFFICES ASSUME NEW j \in hidden, Twins(i, j) PROVE FALSE
      OBVIOUS
    <3>1. key[j] # NoKey
      BY DEF Twins
    <3>2. PICK r \in rows : r.of \in Items /\ Twins(r.of, j)
      BY <3>1 DEF KeysUnique, Known
    <3>3. Twins(r.of, i)
      BY <3>2, TwinsShare
    <3>4. QED
      BY <2>3, <3>2, <3>3
  <2>7. QED
    BY <1>0, <2>1, <2>2, <2>4, <2>5, <2>6 DEF KeysUnique, RedactedStaysRedacted
<1>3. ASSUME NEW p \in Imports, Import(p), ~ImportItem(p)
      PROVE  KeysUnique' /\ RedactedStaysRedacted'
  BY <1>1, <1>3
  DEF Import, BeginImport, FileRefused, SkipKnown, SkipUnusable, ImportEnds, CutShort
<1>4. ASSUME NEW n \in Notes, Note(n)
      PROVE  KeysUnique' /\ RedactedStaysRedacted'
  <2>1. RowOf(n, n).of \notin Items
    BY CaptureAssumption DEF RowOf
  <2>2. QED
    BY <1>1, <1>4, <2>1 DEF Note, BeginNote, KeepSegment, AppendNote, CutShort
<1>5. ASSUME NEW d \in Dates, NEW t \in Texts, Debriefed(d, t) \/ Replace(d, t)
      PROVE  KeysUnique' /\ RedactedStaysRedacted'
  BY <1>1, <1>5 DEF Debriefed, Replace
<1>6. CASE Redacts
  <2>1. PICK chosen \in SUBSET rows, dates \in SUBSET Dates : Redact(chosen, dates)
    BY <1>6 DEF Redacts
  <2>2. hidden' = hidden \cup {r.of : r \in {s \in chosen : s.of \in Items}}
    BY <2>1 DEF Redact
  <2>3. ASSUME NEW s \in rows', NEW t \in rows', s.of \in Items, t.of \in Items,
               Twins(s.of, t.of)
        PROVE  s = t
    <3>1. PICK r \in rows :
            /\ s.of = r.of /\ s.by = r.by
            /\ IF r \in chosen THEN s = [r EXCEPT !.legible = FALSE] ELSE s = r
      BY <2>1, RedactedRows
    <3>2. PICK q \in rows :
            /\ t.of = q.of /\ t.by = q.by
            /\ IF q \in chosen THEN t = [q EXCEPT !.legible = FALSE] ELSE t = q
      BY <2>1, RedactedRows
    <3>3. r = q
      BY <2>3, <3>1, <3>2 DEF KeysUnique
    <3>4. CASE r \in chosen
      <4>1. s = [r EXCEPT !.legible = FALSE] /\ t = [q EXCEPT !.legible = FALSE]
        BY <3>1, <3>2, <3>3, <3>4
      <4>2. QED
        BY <3>3, <4>1, Zenon
    <3>5. CASE r \notin chosen
      BY <3>1, <3>2, <3>3, <3>5
    <3>6. QED
      BY <3>4, <3>5
  <2>4. ASSUME NEW j, Known(j) PROVE Known(j)'
    BY <1>0, <2>1, <2>4, RedactedRows DEF Known
  <2>5. ASSUME NEW r \in chosen, r.of \in Items, key[r.of] # NoKey
        PROVE  Known(r.of)
    BY <2>5, TwinsShare DEF Known
  <2>6. ASSUME NEW j \in hidden', NEW s \in rows', s.of \in Items, Twins(s.of, j)
        PROVE  ~s.legible
    <3>1. PICK r \in rows :
            /\ s.of = r.of /\ s.by = r.by
            /\ IF r \in chosen THEN s = [r EXCEPT !.legible = FALSE] ELSE s = r
      BY <2>1, RedactedRows
    <3>2. CASE r \in chosen
      <4>1. r \in Rows
        BY DEF TypeOK
      <4>2. QED
        BY <3>1, <3>2, <4>1 DEF Rows
    <3>3. CASE r \notin chosen
      <4>1. s = r
        BY <3>1, <3>3
      <4>2. CASE j \in hidden
        BY <2>6, <4>1, <4>2 DEF RedactedStaysRedacted
      <4>3. CASE j \notin hidden
        <5>1. PICK q \in chosen : q.of \in Items /\ j = q.of
          BY <2>2, <2>6, <4>3
        <5>2. q = r
          BY <2>6, <4>1, <5>1, TwinsShare DEF KeysUnique
        <5>3. QED
          BY <3>3, <5>2
      <4>4. QED
        BY <4>2, <4>3
    <3>4. QED
      BY <3>2, <3>3
  <2>7. KeysUnique'
    BY <1>0, <2>2, <2>3, <2>4, <2>5 DEF KeysUnique
  <2>8. RedactedStaysRedacted'
    BY <1>0, <2>6 DEF RedactedStaysRedacted
  <2>9. QED
    BY <2>7, <2>8
<1>7. CASE Forgets
  <2>1. PICK gone \in SUBSET rows, dates \in SUBSET Dates : Forget(gone, dates)
    BY <1>7 DEF Forgets
  <2> DEFINE ids == {i \in Items : \E r \in gone : r.of \in Items
                                                   /\ (r.of = i \/ Twins(r.of, i))}
  <2>2. rows' = rows \ gone /\ hidden' = hidden \ ids
    BY <2>1 DEF Forget
  <2>3. ASSUME NEW j \in hidden', key[j] # NoKey
        PROVE  Known(j)'
    <3>1. PICK r \in rows : r.of \in Items /\ Twins(r.of, j)
      BY <2>2, <2>3 DEF KeysUnique, Known
    <3>2. r \notin gone
      BY <2>2, <2>3, <3>1 DEF TypeOK
    <3>3. QED
      BY <1>0, <2>2, <3>1, <3>2 DEF Known
  <2>4. QED
    BY <1>0, <2>2, <2>3 DEF KeysUnique, RedactedStaysRedacted
<1>8. CASE UNCHANGED vars
  BY <1>1, <1>8 DEF vars
<1>9. QED
  BY <1>2, <1>3, <1>4, <1>5, <1>6, <1>7, <1>8, StepKinds

-----------------------------------------------------------------------------
(* Segment first, row second; whoever takes the segment is remembered.      *)
LEMMA NotesInductive ==
  ASSUME IInv, [Next]_vars
  PROVE  NotesSoFar'
<1> USE DEF world, database, history, IInv
<1>0. told' = told /\ \A n \in Notes : DateOf(RowOf(n, n)) = told[n].date
  BY WorldStays DEF DateOf, RowOf
<1>1. ASSUME UNCHANGED <<taken, replaced>>,
             \A n \in Notes : stage'[n] = stage[n],
             \A n \in Notes : RowOf(n, n) \in rows' <=> RowOf(n, n) \in rows,
             \A d \in Dates : transcripts[d] \subseteq transcripts'[d]
      PROVE  NotesSoFar'
  BY <1>0, <1>1 DEF NotesSoFar, TypeOK, RowOf
<1>2. ASSUME NEW p \in Imports, Import(p)
      PROVE  NotesSoFar'
  <2>1. \A n \in Notes : stage'[n] = stage[n]
    BY <1>2, CaptureAssumption
    DEF Import, BeginImport, FileRefused, ImportItem, SkipKnown, SkipUnusable,
        ImportEnds, CutShort, Moves, TypeOK, Captures
  <2>2. \A n \in Notes : RowOf(n, n) \in rows' <=> RowOf(n, n) \in rows
    <3>1. \A n \in Notes, i \in Items : RowOf(i, p) # RowOf(n, n)
      BY CaptureAssumption DEF RowOf
    <3>2. left[p] \subseteq Items
      BY DEF TypeOK
    <3>3. QED
      BY <1>2, <3>1, <3>2
      DEF Import, BeginImport, FileRefused, ImportItem, SkipKnown, SkipUnusable,
          ImportEnds, CutShort
  <2>3. UNCHANGED <<taken, replaced, transcripts>>
    BY <1>2
    DEF Import, BeginImport, FileRefused, ImportItem, SkipKnown, SkipUnusable,
        ImportEnds, CutShort
  <2>4. QED
    BY <2>1, <2>2, <2>3, <1>1
<1>3. ASSUME NEW n \in Notes, Note(n)
      PROVE  NotesSoFar'
  <2>1. \A m \in Notes \ {n} : RowOf(m, m) # RowOf(n, n)
    BY DEF RowOf
  <2>2. CASE BeginNote(n) \/ CutShort(n)
    BY <1>0, <2>2 DEF BeginNote, CutShort, Moves, NotesSoFar, TypeOK, Captures, RowOf
  <2>3. CASE KeepSegment(n)
    BY <1>0, <2>3 DEF KeepSegment, Moves, NotesSoFar, TypeOK, Captures, RowOf
  <2>4. CASE AppendNote(n)
    BY <1>0, <2>1, <2>4 DEF AppendNote, Moves, NotesSoFar, TypeOK, Captures, RowOf
  <2>5. QED
    BY <1>3, <2>2, <2>3, <2>4 DEF Note
<1>4. ASSUME NEW d \in Dates, NEW t \in Texts, Debriefed(d, t)
      PROVE  NotesSoFar'
  BY <1>4, <1>1 DEF Debriefed, TypeOK
<1>5. ASSUME NEW d \in Dates, NEW t \in Texts, Replace(d, t)
      PROVE  NotesSoFar'
  BY <1>0, <1>5 DEF Replace, Written, NotesSoFar, TypeOK, RowOf
<1>6. ASSUME NEW gone \in SUBSET rows, NEW dates \in SUBSET Dates,
             \A r \in gone : DateOf(r) \in dates,
             Forget(gone, dates) \/ Redact(gone, dates)
      PROVE  NotesSoFar'
  <2>1. /\ taken' = taken \cup UNION {Written(d) : d \in dates}
        /\ transcripts' = [d \in Dates |-> IF d \in dates THEN {} ELSE transcripts[d]]
        /\ stage' = stage /\ replaced' = replaced
    BY <1>6 DEF Forget, Redact
  <2>2. ASSUME NEW n \in Notes, RowOf(n, n) \in rows' \/ RowOf(n, n) \in rows,
               n \notin taken'
        PROVE  RowOf(n, n) \in rows /\ RowOf(n, n) \in rows'
    <3>1. RowOf(n, n) \in rows
      <4>1. CASE Forget(gone, dates)
        BY <2>2, <4>1 DEF Forget
      <4>2. CASE Redact(gone, dates)
        BY <2>2, <4>2, RedactedRows DEF RowOf
      <4>3. QED
        BY <1>6, <4>1, <4>2
    <3>2. told[n].date \notin dates
      BY <2>1, <2>2, <3>1 DEF Written
    <3>3. RowOf(n, n) \notin gone
      BY <1>0, <1>6, <3>2
    <3>4. QED
      BY <1>6, <3>1, <3>3 DEF Forget, Redact
  <2>3. ASSUME NEW n \in Notes \ taken'
        PROVE  /\ stage'[n] = "done" => RowOf(n, n) \in rows'
               /\ (stage'[n] = "event" \/ RowOf(n, n) \in rows') /\ n \notin replaced'
                    => told[n].text \in transcripts'[told[n].date]
    <3>1. n \notin taken /\ told[n].date \in Dates
      BY <2>1 DEF TypeOK
    <3>2. CASE stage[n] # "event" /\ RowOf(n, n) \notin rows
      BY <2>1, <2>2, <3>1, <3>2 DEF NotesSoFar
    <3>3. CASE stage[n] = "event" \/ RowOf(n, n) \in rows
      <4>1. told[n].date \notin dates
        BY <2>1, <3>3 DEF Written
      <4>2. transcripts'[told[n].date] = transcripts[told[n].date]
        BY <2>1, <3>1, <4>1
      <4>3. QED
        BY <2>1, <2>2, <3>1, <3>3, <4>2 DEF NotesSoFar
    <3>4. QED
      BY <3>2, <3>3
  <2>4. \A n : RowOf(n, n)' = RowOf(n, n)
    BY DEF RowOf
  <2>5. QED
    BY <1>0, <2>3, <2>4 DEF NotesSoFar
<1>7. CASE UNCHANGED vars
  BY <1>7, <1>1 DEF vars
<1>8. QED
  BY <1>2, <1>3, <1>4, <1>5, <1>6, <1>7, StepKinds DEF Forgets, Redacts

LEMMA IInvInvariant == Spec => []IInv
<1>1. Init => IInv
  BY DEF Init, IInv, TypeOK, ImportsSoFar, KeysUnique, RedactedStaysRedacted,
         NotesSoFar, Captures
<1>2. IInv /\ [Next]_vars => IInv'
  BY TypeInductive, ImportsInductive, KeysInductive, NotesInductive DEF IInv
<1>3. QED
  BY <1>1, <1>2, PTL DEF Spec

(* A finished import left all of its file that it could use in the log. *)
THEOREM ImportsWhole == Spec => []UsableItemsStored
<1>1. IInv => UsableItemsStored
  BY DEF IInv, ImportsSoFar, UsableItemsStored, Stored
<1>2. QED
  BY <1>1, IInvInvariant, PTL

(* No import brings back what was redacted. *)
THEOREM RedactionLasts == Spec => []RedactedStaysRedacted
  BY IInvInvariant, PTL DEF IInv

(* A stored note is in the log and, unless someone took it, in its day's    *)
(* transcript.                                                              *)
THEOREM NotesKept == Spec => []VoiceNoteKept
<1>1. IInv => VoiceNoteKept
  BY DEF IInv, NotesSoFar, VoiceNoteKept
<1>2. QED
  BY <1>1, IInvInvariant, PTL
=============================================================================
