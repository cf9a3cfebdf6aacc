------------------------------ MODULE Capture ------------------------------
(***************************************************************************)
(* 'tm capture': imports of Telegram and calendar exports, and voice notes *)
(* that were already transcribed, from the command line or the web app.    *)
(* An import commits one row of its file at a time, under an event_id made *)
(* from what identifies the item (chat and message id, or UID), so that    *)
(* reading a file again adds only what is not there yet.  An item without  *)
(* a date it can use is passed over without a word.  A voice note is a     *)
(* segment of its day's transcript and then an event with a fresh id, in   *)
(* two transactions.  Captures run beside each other, beside debriefs and  *)
(* re-extractions, which write the same transcripts, and beside privacy    *)
(* actions, which take rows and transcripts away.                          *)
(***************************************************************************)
EXTENDS FiniteSets

CONSTANTS Imports, Notes,   \* runs of the import commands and of capture voice
          Items, Keys,      \* messages and entries; what may identify one
          NoKey,            \* a calendar entry without a UID
          Texts, Dates,
          NoDate            \* of an item that the importers pass over

ASSUME CaptureAssumption ==
  /\ Imports \cap Notes = {} /\ Items \cap Notes = {} /\ NoKey \notin Keys
  /\ NoDate \notin Dates

VARIABLES
  key,          \* what identifies each item in the files it comes in
  day,          \* its date in UTC
  file,         \* the items of the file each import was given
  left,         \* those it has not come to yet
  told,         \* the date and the text of each voice note
  stage,        \* where each capture stands, or how it ended
  \* the database
  rows,         \* capture rows of events, from whom and still legible or not
  transcripts,  \* the segments of each day's transcript
  \* history
  forgotten,    \* items of an import that were forgotten since it began
  hidden,       \* items whose row was redacted, and not forgotten since
  taken,        \* notes whose day a privacy action met since their segment
  replaced      \* notes whose day's transcript was replaced since

world == <<key, day, told>>
database == <<rows, transcripts>>
history == <<forgotten, hidden, taken, replaced>>
vars == <<world, file, left, stage, database, history>>

Captures == Imports \cup Notes
Ended == {"done", "refused", "cut"}

(* A message with text and a date that has an offset or counts seconds, an   *)
(* entry with a DTSTART.                                                     *)
Usable == {i \in Items : day[i] \in Dates}

Rows == [of : Usable \cup Notes, by : Captures, legible : BOOLEAN]
DateOf(r) == IF r.of \in Notes THEN told[r.of].date ELSE day[r.of]

(* Two items whose rows would have one event_id: those of one message in    *)
(* two exports, or two messages that the fallback of _telegram_source_id    *)
(* (date, sender and number in a chat without a name) does not tell apart.  *)
Twins(i, j) == key[i] = key[j] /\ key[i] # NoKey

Known(i) == \E r \in rows : r.of \in Items /\ Twins(r.of, i)

TypeOK ==
  /\ key \in [Items -> Keys \cup {NoKey}] /\ day \in [Items -> Dates \cup {NoDate}]
  /\ file \in [Imports -> SUBSET Items] /\ left \in [Imports -> SUBSET Items]
  /\ told \in [Notes -> [date : Dates, text : Texts]]
  /\ stage \in [Captures -> {"new", "reading", "segment", "event"} \cup Ended]
  /\ rows \subseteq Rows
  /\ transcripts \in [Dates -> SUBSET Texts]
  /\ forgotten \in [Imports -> SUBSET Items] /\ hidden \subseteq Items
  /\ taken \subseteq Notes /\ replaced \subseteq Notes

Init ==
  /\ key \in [Items -> Keys \cup {NoKey}] /\ day \in [Items -> Dates \cup {NoDate}]
  /\ file = [p \in Imports |-> {}] /\ left = [p \in Imports |-> {}]
  /\ told \in [Notes -> [date : Dates, text : Texts]]
  /\ stage = [c \in Captures |-> "new"]
  /\ rows = {}
  /\ transcripts = [d \in Dates |-> {}]
  /\ forgotten = [p \in Imports |-> {}] /\ hidden = {}
  /\ taken = {} /\ replaced = {}

Moves(c, from, to) == stage[c] = from /\ stage' = [stage EXCEPT ![c] = to]

RowOf(x, c) == [of |-> x, by |-> c, legible |-> TRUE]
RowsOn(d) == {r \in rows : DateOf(r) = d}

(* Notes of the day whose segment was already written. *)
Written(d) ==
  {n \in Notes : told[n].date = d /\ (stage[n] = "event" \/ RowOf(n, n) \in rows)}

-----------------------------------------------------------------------------
(* Steps with a slip in them; none is part of Next. *)

(* A known item is taken for the end of what is new. *)
EndsAtKnown(p) ==
  /\ Moves(p, "reading", "done")
  /\ \E i \in left[p] \cap Usable : Known(i)
  /\ UNCHANGED <<world, file, left, database, history>>

(* INSERT OR REPLACE. *)
RowWrittenAgain(p) ==
  /\ stage[p] = "reading"
  /\ \E i \in left[p] \cap Usable :
       /\ Known(i)
       /\ left' = [left EXCEPT ![p] = @ \ {i}]
       /\ rows' = {r \in rows : ~(r.of \in Items /\ Twins(r.of, i))} \cup {RowOf(i, p)}
  /\ UNCHANGED <<world, file, stage, transcripts, history>>

(* The filter of the replacement is the date alone. *)
WholeDayReplaced(d, t) ==
  /\ transcripts' = [transcripts EXCEPT ![d] = {t}]
  /\ rows' = rows \ RowsOn(d)
  /\ replaced' = replaced \cup Written(d)
  /\ UNCHANGED <<world, file, left, stage, forgotten, hidden, taken>>

-----------------------------------------------------------------------------
(* Imports *)

(* The whole file is parsed before its first row: a file that cannot be     *)
(* read, or a calendar with a time zone, a recurrence or a DTSTART that is  *)
(* no UTC or offset time, leaves nothing behind.                            *)
BeginImport(p) ==
  /\ Moves(p, "new", "reading")
  /\ \E f \in SUBSET Items :
       file' = [file EXCEPT ![p] = f] /\ left' = [left EXCEPT ![p] = f]
  /\ UNCHANGED <<world, database, history>>

FileRefused(p) ==
  /\ Moves(p, "new", "refused")
  /\ UNCHANGED <<world, file, left, database, history>>

(* append_event, in a transaction of its own. *)
ImportItem(p) ==
  /\ stage[p] = "reading"
  /\ \E i \in left[p] \cap Usable :
       /\ ~Known(i)
       /\ left' = [left EXCEPT ![p] = @ \ {i}]
       /\ rows' = rows \cup {RowOf(i, p)}
  /\ UNCHANGED <<world, file, stage, transcripts, history>>

(* The primary key is taken: IntegrityError, not counted, and on it goes. *)
SkipKnown(p) ==
  /\ stage[p] = "reading"
  /\ \E i \in left[p] \cap Usable :
       Known(i) /\ left' = [left EXCEPT ![p] = @ \ {i}]
  /\ UNCHANGED <<world, file, stage, database, history>>

(* No message, or one without text or with a missing, unreadable or naive   *)
(* date; a VEVENT without DTSTART: not counted either, and no error.        *)
SkipUnusable(p) ==
  /\ stage[p] = "reading"
  /\ \E i \in left[p] \ Usable : left' = [left EXCEPT ![p] = @ \ {i}]
  /\ UNCHANGED <<world, file, stage, database, history>>

ImportEnds(p) ==
  /\ left[p] = {} /\ Moves(p, "reading", "done")
  /\ UNCHANGED <<world, file, left, database, history>>

-----------------------------------------------------------------------------
(* Voice notes *)

BeginNote(n) ==
  /\ \E to \in {"segment", "refused"} : Moves(n, "new", to)
  /\ UNCHANGED <<world, file, left, database, history>>

(* TranscriptRepository.upsert: a segment the day already has is kept once. *)
KeepSegment(n) ==
  /\ Moves(n, "segment", "event")
  /\ transcripts' = [transcripts EXCEPT ![told[n].date] = @ \cup {told[n].text}]
  /\ UNCHANGED <<world, file, left, rows, history>>

(* Without a source_id the event gets a ULID, so nothing stands in its way. *)
AppendNote(n) ==
  /\ Moves(n, "event", "done")
  /\ rows' = rows \cup {RowOf(n, n)}
  /\ UNCHANGED <<world, file, left, transcripts, history>>

(* A locked database, a date_unixtime too large for a datetime (Overflow-   *)
(* Error, which nobody catches), or the end of the process: what is         *)
(* committed stays.                                                         *)
CutShort(c) ==
  /\ stage[c] \in {"reading", "segment", "event"}
  /\ stage' = [stage EXCEPT ![c] = "cut"]
  /\ UNCHANGED <<world, file, left, database, history>>

-----------------------------------------------------------------------------
(* The other writers of the same rows *)

(* A debrief that succeeded adds its text to the transcript. *)
Debriefed(d, t) ==
  /\ transcripts' = [transcripts EXCEPT ![d] = @ \cup {t}]
  /\ UNCHANGED <<world, file, left, stage, rows, history>>

(* _replace_debrief_events with a transcript of its own: it takes the place *)
(* of the day's, whatever captures have added to that meanwhile, and leaves *)
(* capture rows alone.                                                      *)
Replace(d, t) ==
  /\ transcripts' = [transcripts EXCEPT ![d] = {t}]
  /\ replaced' = replaced \cup Written(d)
  /\ UNCHANGED <<world, file, left, stage, rows, forgotten, hidden, taken>>

(* privacy forget: rows go, and the transcripts of their days with them. *)
Forget(gone, dates) ==
  /\ rows' = rows \ gone
  /\ transcripts' = [d \in Dates |-> IF d \in dates THEN {} ELSE transcripts[d]]
  /\ LET ids == {i \in Items :
                   \E r \in gone : r.of \in Items /\ (r.of = i \/ Twins(r.of, i))}
     IN  /\ forgotten' = [p \in Imports |-> IF stage[p] = "new" THEN {}
                                            ELSE forgotten[p] \cup ids]
         /\ hidden' = hidden \ ids
  /\ taken' = taken \cup UNION {Written(d) : d \in dates}
  /\ UNCHANGED <<world, file, left, stage, replaced>>

(* privacy redact: rows stay, with nothing legible in them. *)
Redact(chosen, dates) ==
  /\ rows' = (rows \ chosen) \cup {[r EXCEPT !.legible = FALSE] : r \in chosen}
  /\ transcripts' = [d \in Dates |-> IF d \in dates THEN {} ELSE transcripts[d]]
  /\ hidden' = hidden \cup {r.of : r \in {s \in chosen : s.of \in Items}}
  /\ taken' = taken \cup UNION {Written(d) : d \in dates}
  /\ UNCHANGED <<world, file, left, stage, forgotten, replaced>>

(* By day, or by event_id: then it meets the whole transcript of its day. *)
ForgetDay(d) == Forget(RowsOn(d), {d})
ForgetEvent(r) == Forget({r}, {DateOf(r)})
RedactDay(d) == Redact(RowsOn(d), {d})
RedactEvent(r) == Redact({r}, {DateOf(r)})

-----------------------------------------------------------------------------
Import(p) ==
  BeginImport(p) \/ FileRefused(p) \/ ImportItem(p) \/ SkipKnown(p)
    \/ SkipUnusable(p) \/ ImportEnds(p) \/ CutShort(p)

Note(n) == BeginNote(n) \/ KeepSegment(n) \/ AppendNote(n) \/ CutShort(n)

Next ==
  \/ \E p \in Imports : Import(p)
  \/ \E n \in Notes : Note(n)
  \/ \E d \in Dates, t \in Texts : Debriefed(d, t) \/ Replace(d, t)
  \/ \E d \in Dates : ForgetDay(d) \/ RedactDay(d)
  \/ \E r \in rows : ForgetEvent(r) \/ RedactEvent(r)

Spec == Init /\ [][Next]_vars

-----------------------------------------------------------------------------
(* An import that ran to its end, whatever others imported or cut short     *)
(* before and beside it, leaves every item of its file that it could use in *)
(* the log, unless the person had it forgotten meanwhile (capture_telegram  *)
(* and capture_calendar; _append_capture_event's answer False is no         *)
(* failure).  That an import reports success says nothing of the others:    *)
(* they are in no row and in no message.                                    *)
UsableItemsStored ==
  \A p \in Imports : stage[p] = "done" =>
    \A i \in (file[p] \cap Usable) \ forgotten[p] :
      Known(i) \/ (key[i] = NoKey /\ \E r \in rows : r.of = i /\ r.by = p)

(* Importing a file once more does not bring back what was redacted: the    *)
(* emptied row still holds the item's event_id (privacy.py redact; capture  *)
(* _append_capture_event).  An entry without a UID has no such guard.       *)
RedactedStaysRedacted ==
  \A i \in hidden, r \in rows :
    r.of \in Items /\ Twins(r.of, i) => ~r.legible

(* A voice note reported as stored is in the log, and a note in the log is  *)
(* also where a re-extraction will read it: a segment of its day, unless    *)
(* a privacy action or a replacement of the transcript took that away       *)
(* (capture_voice; reextract's filter leaves other rows alone).             *)
VoiceNoteKept ==
  \A n \in Notes \ taken :
    /\ stage[n] = "done" => RowOf(n, n) \in rows
    /\ (RowOf(n, n) \in rows /\ n \notin replaced)
         => told[n].text \in transcripts[told[n].date]
=============================================================================
