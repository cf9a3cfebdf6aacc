------------------------------ MODULE GoalCalls ------------------------------
(***************************************************************************)
(* Writes to the goals table: by calls that reach the daemon over its      *)
(* socket, one worker thread each, under the daemon's write lock, and by   *)
(* 'tm goal' commands, which open the database themselves and know no      *)
(* lock.  The repository tests a goal's status in one statement and writes *)
(* it, by goal_id alone, in another; the answer is built from the row read *)
(* back after the commit, and some rows the table takes no Goal is made of.*)
(*                                                                         *)
(* A client may give up before its answer is there and the daemon may stop *)
(* with workers at work; neither takes back what was committed.            *)
(***************************************************************************)
EXTENDS Integers, FiniteSets

CONSTANTS Calls,          \* requests sent to the daemon, a connection each
          Commands,       \* runs of tm goal add, complete and abandon
          Goals,          \* goal ids that complete and abandon may name
          NoGoal          \* none of them: the row of an add is its own

ASSUME GoalCallsAssumption ==
  /\ Calls \cap Commands = {} /\ Goals \cap (Calls \cup Commands) = {}
  /\ NoGoal \notin Goals

VARIABLES
  request,      \* what each caller asks for
  refused,      \* of the rows they name, those the table takes and Goal refuses
  standing,     \* where its handler stands
  outcome,      \* what the caller has learnt
  status,       \* of each row of goals: "none" if there is no such row
  stamps,       \* which of completed_at and abandoned_at are set
  lock,         \* the daemon's write lock: the calls that hold it
  daemon,       \* "up", "closing" its workers, or "gone"
  effects       \* history: callers whose write was committed

given == <<request, refused>>
callVars == <<given, standing, outcome, status, stamps, lock, daemon, effects>>
table == <<status, stamps, effects>>

Callers == Calls \cup Commands
Rows == Goals \cup Callers

Requests ==
  [op : {"complete", "abandon"}, goal : Goals] \cup [op : {"add"}, goal : {NoGoal}]

Row(r) == IF request[r].op = "add" THEN r ELSE request[r].goal

Named == {Row(r) : r \in Callers}

Ending(r) == IF request[r].op = "complete" THEN "completed" ELSE "abandoned"

CallsTypeOK ==
  /\ request \in [Callers -> Requests] /\ refused \subseteq Rows
  /\ standing \in [Callers -> {"new", "sent", "locking", "check", "write", "fetch",
                            "done"}]
  /\ outcome \in [Callers -> {"pending", "ok", "error", "unsent", "lost"}]
  /\ status \in [Rows -> {"none", "active", "completed", "abandoned"}]
  /\ stamps \in [Rows -> SUBSET {"completed", "abandoned"}]
  /\ lock \subseteq Calls
  /\ daemon \in {"up", "closing", "gone"}
  /\ effects \subseteq Callers

CallsInit ==
  /\ request \in [Callers -> Requests] /\ refused \in SUBSET Named
  /\ standing = [r \in Callers |-> "new"]
  /\ outcome = [r \in Callers |-> "pending"]
  /\ \E known \in SUBSET Goals :
       status = [g \in Rows |-> IF g \in known THEN "active" ELSE "none"]
  /\ stamps = [g \in Rows |-> {}]
  /\ lock = {}
  /\ daemon = "up"
  /\ effects = {}

Goes(r, from, to) == standing[r] = from /\ standing' = [standing EXCEPT ![r] = to]

(* A worker runs until the process ends; a command is its own process. *)
Runs(r) == r \in Calls => daemon # "gone"

(* The handler ends, with an answer if the caller is still there for it;    *)
(* 'with self._lock' lets go of the lock, whatever it ends with.            *)
Tells(r, answer) ==
  /\ outcome' = [outcome EXCEPT ![r] = IF @ = "pending" THEN answer ELSE @]
  /\ lock' = lock \ {r}

(* Goal.__post_init__ raises for the row read back: a name of which strip()  *)
(* leaves nothing (no-break spaces, a form feed), or from the daemon's       *)
(* clients a priority of 1.5.  The CHECKs of migration 0009 let both pass.   *)
GoalRaises(r) == Row(r) \in refused

-----------------------------------------------------------------------------
(* Steps with a slip in them; none is part of Next. *)

(* The method is taken for one that needs no lock. *)
BypassLock(r) ==
  /\ daemon # "gone" /\ Goes(r, "locking", "check")
  /\ UNCHANGED <<given, outcome, table, lock, daemon>>

(* The answer is sent before the commit, which fails. *)
AnswerEarly(r) ==
  /\ Runs(r) /\ Goes(r, "write", "done")
  /\ Tells(r, "ok")
  /\ UNCHANGED <<given, table, daemon>>

(* An exception leaves the lock behind. *)
KeepsLock(r) ==
  /\ Runs(r) /\ Goes(r, "check", "done")
  /\ request[r].op # "add" /\ status[Row(r)] # "active"
  /\ outcome' = [outcome EXCEPT ![r] = IF @ = "pending" THEN "error" ELSE @]
  /\ UNCHANGED <<given, table, lock, daemon>>

-----------------------------------------------------------------------------
(* DaemonClient.call: the connection is accepted, or nobody listens.        *)
Send(r) ==
  /\ r \in Calls /\ daemon = "up" /\ outcome[r] = "pending"
  /\ Goes(r, "new", "sent")
  /\ UNCHANGED <<given, outcome, table, lock, daemon>>

Refused(r) ==
  /\ r \in Calls /\ daemon # "up" /\ Goes(r, "new", "done")
  /\ outcome' = [outcome EXCEPT ![r] = "unsent"]
  /\ UNCHANGED <<given, table, lock, daemon>>

(* The client's timeout: its socket is closed, its worker is not told.      *)
ClientGivesUp(r) ==
  /\ r \in Calls /\ standing[r] # "new" /\ outcome[r] = "pending"
  /\ outcome' = [outcome EXCEPT ![r] = "lost"]
  /\ UNCHANGED <<given, standing, table, lock, daemon>>

(* _handle_connection reads a line and _dispatch_line parses it ...         *)
ReadRequest(r) ==
  /\ Runs(r) /\ Goes(r, "sent", "locking")
  /\ UNCHANGED <<given, outcome, table, lock, daemon>>

(* ... into nothing dispatch knows, or parameters the handler cannot take ...*)
BadRequest(r) ==
  /\ Runs(r) /\ Goes(r, "sent", "done")
  /\ Tells(r, "error")
  /\ UNCHANGED <<given, table, daemon>>

(* ... or the line has no end, or more than MAX_REQUEST_BYTES: no answer.   *)
LineDropped(r) ==
  /\ Runs(r) /\ Goes(r, "sent", "done")
  /\ Tells(r, "lost")
  /\ UNCHANGED <<given, table, daemon>>

AcquireLock(r) ==
  /\ Runs(r) /\ lock = {} /\ Goes(r, "locking", "check")
  /\ lock' = {r}
  /\ UNCHANGED <<given, outcome, table, daemon>>

(* A command goes to the repository at once, if its options are accepted.   *)
CommandBegins(r) ==
  /\ r \in Commands
  /\ \/ Goes(r, "new", "check") /\ UNCHANGED outcome
     \/ /\ request[r].op = "add"
        /\ Goes(r, "new", "done") /\ outcome' = [outcome EXCEPT ![r] = "error"]
  /\ UNCHANGED <<given, table, lock, daemon>>

(* complete and abandon: the row is there and active ...                    *)
CheckPasses(r) ==
  /\ Runs(r) /\ Goes(r, "check", "write")
  /\ request[r].op = "add" \/ status[Row(r)] = "active"
  /\ UNCHANGED <<given, outcome, table, lock, daemon>>

(* ... or a ValueError. *)
CheckFails(r) ==
  /\ Runs(r) /\ Goes(r, "check", "done")
  /\ request[r].op # "add" /\ status[Row(r)] # "active"
  /\ Tells(r, "error")
  /\ UNCHANGED <<given, table, daemon>>

(* INSERT and COMMIT. *)
Insert(r) ==
  /\ request[r].op = "add"
  /\ Runs(r) /\ Goes(r, "write", "fetch")
  /\ status' = [status EXCEPT ![r] = "active"]
  /\ effects' = effects \cup {r}
  /\ UNCHANGED <<given, outcome, stamps, lock, daemon>>

(* UPDATE ... WHERE goal_id = ?, whatever the status is by now, and COMMIT. *)
Update(r) ==
  /\ request[r].op # "add"
  /\ Runs(r) /\ Goes(r, "write", "fetch")
  /\ status' = [status EXCEPT ![Row(r)] = Ending(r)]
  /\ stamps' = [stamps EXCEPT ![Row(r)] = @ \cup {Ending(r)}]
  /\ effects' = effects \cup {r}
  /\ UNCHANGED <<given, outcome, lock, daemon>>

(* The CHECK of migration 0009, or a database that stays locked: nothing    *)
(* is written.                                                              *)
WriteFails(r) ==
  /\ Runs(r) /\ Goes(r, "write", "done")
  /\ Tells(r, "error")
  /\ UNCHANGED <<given, table, daemon>>

(* The row read back makes a Goal, or raises: the commit stands. *)
Fetch(r) ==
  /\ Runs(r) /\ Goes(r, "fetch", "done")
  /\ Tells(r, IF GoalRaises(r) THEN "error" ELSE "ok")
  /\ UNCHANGED <<given, table, daemon>>

(* A command is killed; its connection rolls back what it had not committed.*)
CommandCrashes(r) ==
  /\ r \in Commands /\ standing[r] \in {"check", "write", "fetch"}
  /\ standing' = [standing EXCEPT ![r] = "done"]
  /\ outcome' = [outcome EXCEPT ![r] = "lost"]
  /\ UNCHANGED <<given, table, lock, daemon>>

(* SIGTERM: the listener is closed, the workers have five seconds each.     *)
Shutdown ==
  /\ daemon = "up" /\ daemon' = "closing"
  /\ UNCHANGED <<given, standing, outcome, table, lock>>

(* The process ends; the workers that are left are daemon threads.          *)
ProcessEnds ==
  /\ daemon # "gone" /\ daemon' = "gone"
  /\ outcome' = [r \in Callers |->
                   IF r \in Calls /\ standing[r] \notin {"new", "done"}
                      /\ outcome[r] = "pending" THEN "lost" ELSE outcome[r]]
  /\ standing' = [r \in Callers |->
                 IF r \in Calls /\ standing[r] # "new" THEN "done" ELSE standing[r]]
  /\ lock' = {}
  /\ UNCHANGED <<given, table>>

Handle(r) ==
  \/ ReadRequest(r) \/ BadRequest(r) \/ LineDropped(r) \/ AcquireLock(r)
  \/ CheckPasses(r) \/ CheckFails(r) \/ Insert(r) \/ Update(r) \/ WriteFails(r)
  \/ Fetch(r)

CallsNext ==
  \/ \E r \in Callers :
       \/ Send(r) \/ Refused(r) \/ ClientGivesUp(r) \/ CommandBegins(r)
       \/ Handle(r) \/ CommandCrashes(r)
  \/ Shutdown \/ ProcessEnds

(* Threads run and the lock, once free for good, is taken. *)
CallsSpec ==
  CallsInit /\ [][CallsNext]_callVars /\ \A r \in Calls : WF_callVars(Handle(r))

-----------------------------------------------------------------------------
(* The write lock makes test and write of complete and abandon one: of the   *)
(* daemon's calls at most one takes effect on a goal, and a goal with both   *)
(* completed_at and abandoned_at was written past the daemon.                *)
OneEnding ==
  /\ \A r, q \in effects \cap Calls : Row(r) = Row(q) => r = q
  /\ \A g \in Goals :
       Cardinality(stamps[g]) > 1 => \E m \in effects \cap Commands : Row(m) = g

(* An answer tells the truth in spite of timeouts, shutdown and failing      *)
(* statements: success means committed, and a request never sent did         *)
(* nothing.  An error means that nothing was written unless the row is one   *)
(* that Goal refuses: add, complete and abandon commit before they look, so  *)
(* for such a row success is never reported and an error proves nothing.     *)
AnswersAreTrue ==
  \A r \in Callers :
    /\ outcome[r] = "ok" => r \in effects /\ ~GoalRaises(r)
    /\ outcome[r] = "error" => r \notin effects \/ GoalRaises(r)
    /\ outcome[r] = "unsent" => r \notin effects

(* No worker waits for ever: whatever the handlers before it did, the lock   *)
(* comes free and the request is answered, or the process is gone.           *)
EveryRequestSettles ==
  \A r \in Calls : standing[r] = "sent" ~> standing[r] = "done"
=============================================================================
