------------------------------ MODULE Vocabulary ------------------------------
(***************************************************************************)
(* The vocabulary of canonical activities, the aliases that lead to it,    *)
(* and those who use both at once: debriefs, which align the label of an   *)
(* event over several statements and a call to the LLM; 'tm vocab review', *)
(* which asks its user about the labels nobody knows; 'tm init' and 'tm    *)
(* vocab list', which seed the starter rows in two transactions; and       *)
(* clients of the daemon, which add and archive.                           *)
(*                                                                         *)
(* Letter case is left out: every look-up and every write lowers it.       *)
(* White space is not, because a review looks a stored label up as it is   *)
(* and stores it stripped.                                                 *)
(***************************************************************************)
EXTENDS FiniteSets

CONSTANTS Debriefs,       \* debriefs, each at one event of its extract
          Reviews,        \* processes of tm vocab review
          Seeders,        \* runs of tm init and of tm vocab list
          Words,          \* labels without white space around them
          Starters,       \* STARTER_VOCABULARY
          StarterVariant, \* STARTER_ALIASES: the variant
          StarterTarget,  \* and its canonical
          NoWord          \* Python's None

ASSUME VocabularyAssumption ==
  /\ Starters \subseteq Words /\ NoWord \notin Words
  /\ StarterVariant \in Words /\ StarterTarget \in Starters

VARIABLES
  status,       \* of each row of vocabulary: "none" if there is no such row
  alias,        \* the canonical_activity of each row of aliases
  label,        \* the label that each debrief's event came with
  align,        \* where each debrief's alignment stands
  canonical,    \* what it has settled on, NoWord for the label itself
  offered,      \* the active names that its prompt listed
  review,       \* where each review stands
  todo,         \* the labels a review has still to ask about
  asking,       \* the label it is asking about
  names,        \* merge: the active names; create: the new canonical
  seed,         \* where each seeder stands
  answered      \* history: labels a review has reported as merged or created

wordTables == <<status, alias>>
debriefing == <<label, align, canonical, offered>>
reviewing == <<review, todo, asking, names>>
vocabVars == <<wordTables, debriefing, reviewing, seed, answered>>

Labels == [word : Words, padded : BOOLEAN]
NoLabel == [word |-> NoWord, padded |-> FALSE]
Stripped(l) == [l EXCEPT !.padded = FALSE]
Plain(w) == [word |-> w, padded |-> FALSE]

Known == {w \in Words : status[w] # "none"}
Active == {w \in Words : status[w] = "active"}

-----------------------------------------------------------------------------
(* Resolve with a slip in it; not the one in use.  The alias is tried first. *)
AliasFirst(l) ==
  IF l.padded THEN NoWord
  ELSE IF alias[l.word] # NoWord THEN alias[l.word]
  ELSE IF l.word \in Known THEN l.word ELSE NoWord

(* VocabularyRepository.resolve: a vocabulary row, whatever its status, and  *)
(* only then an alias.  Nothing is stored with white space around it, but   *)
(* for names that a client of the daemon adds so, which are left out.        *)
Resolve(l) ==
  IF l.padded THEN NoWord
  ELSE IF l.word \in Known THEN l.word ELSE alias[l.word]

(* The activity of the event that a debrief writes. *)
Activity(d) == IF canonical[d] = NoWord THEN label[d] ELSE Plain(canonical[d])

(* The activities of the events table. *)
Stored == {Activity(d) : d \in {e \in Debriefs : align[e] = "stored"}}

VocabTypeOK ==
  /\ status \in [Words -> {"none", "active", "archived"}]
  /\ alias \in [Words -> Words \cup {NoWord}]
  /\ label \in [Debriefs -> Labels]
  /\ align \in [Debriefs -> {"new", "asking", "settled", "stored", "failed"}]
  /\ canonical \in [Debriefs -> Words \cup {NoWord}]
  /\ offered \in [Debriefs -> SUBSET Words]
  /\ review \in [Reviews -> {"idle", "next", "prompt", "merging", "aliasing"}]
  /\ todo \in [Reviews -> SUBSET Labels]
  /\ asking \in [Reviews -> Labels \cup {NoLabel}]
  /\ names \in [Reviews -> SUBSET Words]
  /\ seed \in [Seeders -> {"new", "words", "done"}]
  /\ answered \subseteq Labels

VocabInit ==
  /\ status = [w \in Words |-> "none"]
  /\ alias = [w \in Words |-> NoWord]
  /\ label \in [Debriefs -> Labels]
  /\ align = [d \in Debriefs |-> "new"]
  /\ canonical = [d \in Debriefs |-> NoWord]
  /\ offered = [d \in Debriefs |-> {}]
  /\ review = [v \in Reviews |-> "idle"]
  /\ todo = [v \in Reviews |-> {}]
  /\ asking = [v \in Reviews |-> NoLabel]
  /\ names = [v \in Reviews |-> {}]
  /\ seed = [s \in Seeders |-> "new"]
  /\ answered = {}

-----------------------------------------------------------------------------
(* The repository's writes. *)

(* add_alias: any row of vocabulary will do, and INSERT OR REPLACE. *)
AddAlias(l, w) ==
  /\ w \in Known
  /\ alias' = [alias EXCEPT ![l.word] = w]

(* add_canonical: INSERT OR ABORT. *)
AddCanonical(w) ==
  /\ w \notin Known
  /\ status' = [status EXCEPT ![w] = "active"]

-----------------------------------------------------------------------------
(* Steps with a slip in them; none is part of Next. *)

(* The model's proposal is stored as it is. *)
Unguarded(d) ==
  /\ align[d] = "asking" /\ align' = [align EXCEPT ![d] = "settled"]
  /\ \E proposed \in Words \cup {NoWord} :
       canonical' = [canonical EXCEPT ![d] = proposed]
  /\ UNCHANGED <<wordTables, label, offered, reviewing, seed, answered>>

(* The new canonical is reported, and its label left without an alias. *)
CreateOnly(v) ==
  /\ review[v] = "prompt"
  /\ \E w \in Words : AddCanonical(w)
  /\ answered' = answered \cup {asking[v]}
  /\ review' = [review EXCEPT ![v] = "next"]
  /\ UNCHANGED <<alias, debriefing, todo, asking, names, seed>>

-----------------------------------------------------------------------------
(* tm init seeds whatever is there; tm vocab list only an empty table.      *)
SeedWords(s) ==
  /\ seed[s] = "new"
  /\ status' = [w \in Words |->
                  IF w \in Starters \ Known THEN "active" ELSE status[w]]
  /\ seed' = [seed EXCEPT ![s] = "words"]
  /\ UNCHANGED <<alias, debriefing, reviewing, answered>>

(* INSERT OR IGNORE: a variant that is taken keeps its canonical. *)
SeedAliases(s) ==
  /\ seed[s] = "words"
  /\ alias' = [alias EXCEPT ![StarterVariant] =
                 IF @ = NoWord THEN StarterTarget ELSE @]
  /\ seed' = [seed EXCEPT ![s] = "done"]
  /\ UNCHANGED <<status, debriefing, reviewing, answered>>

(* tm vocab list on a table with rows, or a process that ends in between. *)
SeedNoMore(s) ==
  /\ seed[s] = "new" => Known # {}
  /\ seed[s] # "done"
  /\ seed' = [seed EXCEPT ![s] = "done"]
  /\ UNCHANGED <<wordTables, debriefing, reviewing, answered>>

-----------------------------------------------------------------------------
(* VocabAligner.align, in the loop of a debrief.                            *)

AlignHits(d) ==
  /\ align[d] = "new" /\ Resolve(Stripped(label[d])) # NoWord
  /\ align' = [align EXCEPT ![d] = "settled"]
  /\ canonical' = [canonical EXCEPT ![d] = Resolve(Stripped(label[d]))]
  /\ UNCHANGED <<wordTables, label, offered, reviewing, seed, answered>>

(* No row, no alias: the active names are read for the prompt. *)
AlignMisses(d) ==
  /\ align[d] = "new" /\ Resolve(Stripped(label[d])) = NoWord
  /\ align' = [align EXCEPT ![d] = "asking"]
  /\ offered' = [offered EXCEPT ![d] = Active]
  /\ UNCHANGED <<wordTables, label, canonical, reviewing, seed, answered>>

(* The answer may name anything; a name that was not offered counts as none. *)
LlmProposes(d) ==
  /\ align[d] = "asking" /\ align' = [align EXCEPT ![d] = "settled"]
  /\ \E proposed \in Words \cup {NoWord} :
       canonical' = [canonical EXCEPT ![d] =
                       IF proposed \in offered[d] THEN proposed ELSE NoWord]
  /\ offered' = [offered EXCEPT ![d] = {}]
  /\ UNCHANGED <<wordTables, label, reviewing, seed, answered>>

(* No client, an error of its SDK, or an answer of the wrong shape. *)
AlignFails(d) ==
  /\ align[d] = "asking" /\ align' = [align EXCEPT ![d] = "failed"]
  /\ offered' = [offered EXCEPT ![d] = {}]
  /\ UNCHANGED <<wordTables, label, canonical, reviewing, seed, answered>>

(* append_event, after the event's goal was looked up. *)
StoreEvent(d) ==
  /\ align[d] = "settled" /\ align' = [align EXCEPT ![d] = "stored"]
  /\ UNCHANGED <<wordTables, label, canonical, offered, reviewing, seed, answered>>

-----------------------------------------------------------------------------
(* tm vocab review.                                                         *)

(* _load_novel_labels looks a stored activity up as it is, not stripped;    *)
(* --limit and --since leave some of them out.                              *)
LoadNovel(v) ==
  /\ review[v] = "idle"
  /\ \E some \in SUBSET {l \in Stored : Resolve(l) = NoWord} :
       some # {} /\ todo' = [todo EXCEPT ![v] = some]
  /\ review' = [review EXCEPT ![v] = "next"]
  /\ UNCHANGED <<wordTables, debriefing, asking, names, seed, answered>>

AskNext(v) ==
  /\ review[v] = "next"
  /\ \E l \in todo[v] : /\ asking' = [asking EXCEPT ![v] = l]
                        /\ todo' = [todo EXCEPT ![v] = @ \ {l}]
  /\ review' = [review EXCEPT ![v] = "prompt"]
  /\ UNCHANGED <<wordTables, debriefing, names, seed, answered>>

(* "m": the active names are read, then the user is asked for one of them. *)
Merge(v) ==
  /\ review[v] = "prompt"
  /\ names' = [names EXCEPT ![v] = Active]
  /\ review' = [review EXCEPT ![v] = "merging"]
  /\ UNCHANGED <<wordTables, debriefing, todo, asking, seed, answered>>

MergeInto(v) ==
  /\ review[v] = "merging"
  /\ \E w \in names[v] : AddAlias(asking[v], w)
  /\ answered' = answered \cup {asking[v]}
  /\ review' = [review EXCEPT ![v] = "next"]
  /\ UNCHANGED <<status, debriefing, todo, asking, names, seed>>

MergeCancelled(v) ==
  /\ review[v] = "merging" /\ review' = [review EXCEPT ![v] = "prompt"]
  /\ UNCHANGED <<wordTables, debriefing, todo, asking, names, seed, answered>>

(* "c": add_canonical commits; the alias is a transaction of its own.       *)
Create(v) ==
  /\ review[v] = "prompt"
  /\ \E w \in Words :
       /\ AddCanonical(w)
       /\ IF asking[v] = Plain(w)
          THEN /\ answered' = answered \cup {asking[v]}
               /\ review' = [review EXCEPT ![v] = "next"]
               /\ UNCHANGED names
          ELSE /\ names' = [names EXCEPT ![v] = {w}]
               /\ review' = [review EXCEPT ![v] = "aliasing"]
               /\ UNCHANGED answered
  /\ UNCHANGED <<alias, debriefing, todo, asking, seed>>

AliasCreated(v) ==
  /\ review[v] = "aliasing"
  /\ \E w \in names[v] : AddAlias(asking[v], w)
  /\ answered' = answered \cup {asking[v]}
  /\ review' = [review EXCEPT ![v] = "next"]
  /\ UNCHANGED <<status, debriefing, todo, asking, names, seed>>

(* "i", or a canonical that exists already: nothing is written. *)
Skipped(v) ==
  /\ review[v] = "prompt" /\ review' = [review EXCEPT ![v] = "next"]
  /\ UNCHANGED <<wordTables, debriefing, todo, asking, names, seed, answered>>

(* The last label is done, the user skips the rest, or the process ends at  *)
(* any point; a later review starts from the events again.                  *)
ReviewEnds(v) ==
  /\ review[v] # "idle" /\ review' = [review EXCEPT ![v] = "idle"]
  /\ todo' = [todo EXCEPT ![v] = {}]
  /\ asking' = [asking EXCEPT ![v] = NoLabel]
  /\ names' = [names EXCEPT ![v] = {}]
  /\ UNCHANGED <<wordTables, debriefing, seed, answered>>

-----------------------------------------------------------------------------
(* The daemon's methods add_alias, add_canonical and archive_vocabulary.    *)

ClientAliases(x, w) ==
  /\ AddAlias(Plain(x), w)
  /\ UNCHANGED <<status, debriefing, reviewing, seed, answered>>

ClientAdds(w) ==
  /\ AddCanonical(w)
  /\ UNCHANGED <<alias, debriefing, reviewing, seed, answered>>

Archive(w) ==
  /\ w \in Known
  /\ status' = [status EXCEPT ![w] = "archived"]
  /\ UNCHANGED <<alias, debriefing, reviewing, seed, answered>>

DebriefStep(d) ==
  \/ AlignHits(d) \/ AlignMisses(d) \/ LlmProposes(d) \/ AlignFails(d)
  \/ StoreEvent(d)

ReviewStep(v) ==
  \/ LoadNovel(v) \/ AskNext(v) \/ Merge(v) \/ MergeInto(v) \/ MergeCancelled(v)
  \/ Create(v) \/ AliasCreated(v) \/ Skipped(v) \/ ReviewEnds(v)

VocabNext ==
  \/ \E s \in Seeders : SeedWords(s) \/ SeedAliases(s) \/ SeedNoMore(s)
  \/ \E d \in Debriefs : DebriefStep(d)
  \/ \E v \in Reviews : ReviewStep(v)
  \/ \E x, w \in Words : ClientAliases(x, w)
  \/ \E w \in Words : ClientAdds(w) \/ Archive(w)

VocabSpec == VocabInit /\ [][VocabNext]_vocabVars

-----------------------------------------------------------------------------
(* Whatever a label resolves to resolves to itself: no sequence of aliases, *)
(* replacements and archivings makes a chain or a loop of them, so that two *)
(* labels of one activity end in one row.                                   *)
OneHop == \A l \in Labels : Resolve(l) # NoWord =>
                              Resolve(Plain(Resolve(l))) = Resolve(l)

(* Every alias leads to a row of the vocabulary, and what a debrief stores  *)
(* is such a row or the label as it came: the names offered to the LLM may  *)
(* be archived before it answers, and it may answer with any other.         *)
NothingInvented ==
  /\ \A w \in Words : alias[w] \in Known \cup {NoWord}
  /\ \A d \in Debriefs : canonical[d] \in Known \cup {NoWord}

(* A label that a review has reported as merged or created is aligned from  *)
(* then on without the LLM, whatever was archived, replaced or interrupted  *)
(* since the review read its names.                                         *)
AnsweredIsAligned == \A l \in answered : Resolve(Stripped(l)) # NoWord
=============================================================================
