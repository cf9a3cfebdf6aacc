---------------------------- MODULE DaySummary ----------------------------
(***************************************************************************)
(* What the program promises about the summary event of a day (activity    *)
(* 'debrief_summary'), whoever writes it and however often.                *)
(*                                                                         *)
(* Debriefs alone (Spec): the day gets its summary once, from one attempt, *)
(* and it is then never replaced or joined by another.  With re-extraction *)
(* and privacy actions (LifeSpec): a re-extraction may put a summary of    *)
(* its own in the place of whatever was there, in one step, and only a     *)
(* privacy action may leave the day without one.                           *)
(***************************************************************************)
CONSTANTS Dates,
          Debriefs,       \* attempts that record a summary where there is none
          Replays         \* re-extractions, which replace

VARIABLE owners           \* for each date the runs that own a summary row

Init == owners = [d \in Dates |-> {}]

Fresh(r) == \A e \in Dates : r \notin owners[e]

Record(d, r) ==
  /\ owners[d] = {}
  /\ Fresh(r)
  /\ owners' = [owners EXCEPT ![d] = {r}]

Replace(d, x) ==
  /\ Fresh(x)
  /\ owners' = [owners EXCEPT ![d] = {x}]

Erase(d) == owners' = [owners EXCEPT ![d] = {}]

Next == \E d \in Dates, r \in Debriefs : Record(d, r)

Spec == Init /\ [][Next]_owners

LifeNext ==
  \/ Next
  \/ \E d \in Dates, x \in Replays : Replace(d, x)
  \/ \E d \in Dates : Erase(d)

LifeSpec == Init /\ [][LifeNext]_owners
=============================================================================
