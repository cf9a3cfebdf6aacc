----------------------------- MODULE DaemonLife -----------------------------
(***************************************************************************)
(* 'tm daemon start' and 'tm daemon stop': processes that meet in two      *)
(* files, the PID file and the path of the Unix socket, each read, removed *)
(* and written by a separate system call.                                  *)
(*                                                                         *)
(* A start reads the PID file and drops a stale one; one that will detach  *)
(* first rehearses, writing and removing both files.  It then writes its   *)
(* PID, probes the socket path, drops a stale socket, binds, listens and   *)
(* serves until SIGTERM.  Any process may be killed between two steps and  *)
(* leaves both files as they are.                                          *)
(***************************************************************************)
EXTENDS Integers, FiniteSets

CONSTANTS Starts,         \* processes of tm daemon start, each its own PID
          Stops,          \* processes of tm daemon stop
          Ghost,          \* a daemon that died before any of these began
          NoFile, Zero, Garbage  \* no file; the text "0"; no number

ASSUME DaemonLifeAssumption ==
  /\ Starts \cap Stops = {} /\ Ghost \notin Starts
  /\ {NoFile, Zero, Garbage} \cap (Starts \cup {Ghost}) = {}
  /\ Cardinality({NoFile, Zero, Garbage}) = 3

VARIABLES
  stage,        \* where each command stands, or how it ended
  read,         \* the PID it read from the PID file
  mode,         \* of a start: in the foreground, before or after detaching
  asked,        \* starts whose shutdown event is set
  listener,     \* what the socket of each start can do
  pidfile,      \* what the PID file holds
  path,         \* whose socket the socket path names
  overlapped    \* history: two commands were at the files at once

own == <<mode, asked, listener>>
files == <<pidfile, path>>
vars == <<stage, read, own, files, overlapped>>

Contents == Starts \cup {Ghost, NoFile}

Checking == {"kill0", "droppid", "reserve", "release", "build"}
Opening == {"exists", "stale", "bind", "listen", "chmod"}
Rehearsal == {"close", "unlink"}
Closing == {"closing", "unlinking", "joining", "unpid"}
Over == {"refused", "failed", "exited", "killed"}

StartStages ==
  Checking \cup Opening \cup Rehearsal \cup Closing \cup Over
    \cup {"new", "writepid", "install", "serving"}
StopStages == {"new", "signal", "droppid", "waiting"} \cup Over

TypeOK ==
  /\ stage \in [Starts \cup Stops -> StartStages \cup StopStages]
  /\ \A p \in Starts : stage[p] \in StartStages
  /\ \A s \in Stops : stage[s] \in StopStages
  /\ read \in [Starts \cup Stops -> Contents \cup {Zero, Garbage}]
  /\ mode \in [Starts -> {"foreground", "rehearsal", "detached"}]
  /\ asked \subseteq Starts
  /\ listener \in [Starts -> {"none", "bound", "listening"}]
  /\ pidfile \in Contents \cup {Zero, Garbage}
  /\ path \in Contents
  /\ overlapped \in BOOLEAN

(* Files may be left from a daemon that crashed before. *)
Init ==
  /\ stage = [c \in Starts \cup Stops |-> "new"]
  /\ read = [c \in Starts \cup Stops |-> NoFile]
  /\ mode \in [Starts -> {"foreground", "rehearsal"}]
  /\ asked = {}
  /\ listener = [p \in Starts |-> "none"]
  /\ pidfile \in {NoFile, Ghost, Garbage}
  /\ path \in {NoFile, Ghost}
  /\ overlapped = FALSE

Alive(q) == q \in Starts /\ stage[q] \notin Over \cup {"new"}

(* A command between its first look at the files and its last change. *)
AtTheFiles(c) == stage[c] \notin Over \cup {"new", "serving", "waiting"}

Crowded == \E c, d \in Starts \cup Stops : c # d /\ AtTheFiles(c) /\ AtTheFiles(d)

Moves(c, from, to) == stage[c] = from /\ stage' = [stage EXCEPT ![c] = to]

(* The signal 0 finds a process: PID 0 names the caller's own group. *)
Answers(pid) == pid = Zero \/ Alive(pid)

AfterCheck(p) == IF mode[p] = "rehearsal" THEN "reserve" ELSE "build"

(* What an exception in _bind_socket leads to: in run() the handler that     *)
(* removes the PID file, in the rehearsal none.                              *)
BindFailure(p) == IF mode[p] = "rehearsal" THEN "failed" ELSE "unpid"

-----------------------------------------------------------------------------
(* Steps with a slip in them; none is part of Next. *)

(* The PID in the file is not asked for at all. *)
SkipKill(p) ==
  /\ Moves(p, "kill0", "droppid")
  /\ UNCHANGED <<read, own, files>>

(* A socket file is taken for a daemon without a probe. *)
ExistsMeansAlive(p) ==
  /\ \/ path = NoFile /\ Moves(p, "exists", "bind")
     \/ path # NoFile /\ Moves(p, "exists", BindFailure(p))
  /\ UNCHANGED <<read, own, files>>

(* A worker that never ends is joined without a time limit. *)
JoinForever(p) ==
  /\ stage[p] = "joining"
  /\ UNCHANGED <<stage, read, own, files>>

-----------------------------------------------------------------------------
(* start: the PID file is read, if there is one ...                          *)
ReadPid(p) ==
  /\ \/ pidfile = NoFile /\ Moves(p, "new", AfterCheck(p)) /\ UNCHANGED read
     \/ pidfile = Garbage /\ Moves(p, "new", "droppid") /\ UNCHANGED read
     \/ /\ pidfile \notin {NoFile, Garbage}
        /\ Moves(p, "new", "kill0")
        /\ read' = [read EXCEPT ![p] = pidfile]
  /\ UNCHANGED <<own, files>>

(* ... its process asked for with signal 0 ...                              *)
KillZero(p) ==
  /\ IF Answers(read[p]) THEN Moves(p, "kill0", "refused")
                         ELSE Moves(p, "kill0", "droppid")
  /\ UNCHANGED <<read, own, files>>

(* ... and the file removed, whatever it holds by now. *)
DropPid(p) ==
  /\ Moves(p, "droppid", AfterCheck(p))
  /\ pidfile' = NoFile
  /\ UNCHANGED <<read, own, path>>

(* _preflight_pid_write: an exclusive create, "0", and the file removed. *)
Reserve(p) ==
  /\ \/ pidfile = NoFile /\ Moves(p, "reserve", "release") /\ pidfile' = Zero
     \/ pidfile # NoFile /\ Moves(p, "reserve", "failed") /\ UNCHANGED pidfile
  /\ UNCHANGED <<read, own, path>>

Release(p) ==
  /\ Moves(p, "release", "build")
  /\ pidfile' = NoFile
  /\ UNCHANGED <<read, own, path>>

(* TMDaemon(): migrations, which may fail, and no file of ours. *)
Build(p) ==
  /\ \/ Moves(p, "build", IF mode[p] = "rehearsal" THEN "exists" ELSE "writepid")
     \/ Moves(p, "build", "failed")
  /\ UNCHANGED <<read, own, files>>

(* write_text(os.getpid()), after _daemonize when the start detaches. *)
WritePid(p) ==
  /\ Moves(p, "writepid", "install")
  /\ mode' = [mode EXCEPT ![p] = IF @ = "rehearsal" THEN "detached" ELSE @]
  /\ pidfile' = p
  /\ UNCHANGED <<read, asked, listener, path>>

(* The signal handlers: from here on SIGTERM only sets the event. *)
InstallHandlers(p) ==
  /\ Moves(p, "install", "exists")
  /\ UNCHANGED <<read, own, files>>

(* _bind_socket.  The path is probed: free, in use, or stale ...             *)
ProbeSocket(p) ==
  /\ \/ path = NoFile /\ Moves(p, "exists", "bind")
     \/ /\ path \in Starts /\ listener[path] = "listening"
        /\ Moves(p, "exists", BindFailure(p))
     \/ /\ path # NoFile /\ ~(path \in Starts /\ listener[path] = "listening")
        /\ Moves(p, "exists", "stale")
  /\ UNCHANGED <<read, own, files>>

(* ... or gone between exists() and connect(). *)
ProbeFindsNone(p) ==
  /\ path = NoFile
  /\ Moves(p, "exists", "stale")
  /\ UNCHANGED <<read, own, files>>

UnlinkStale(p) ==
  /\ Moves(p, "stale", "bind")
  /\ path' = NoFile
  /\ UNCHANGED <<read, own, pidfile>>

Bind(p) ==
  /\ \/ /\ path = NoFile
        /\ Moves(p, "bind", "listen")
        /\ path' = p
        /\ listener' = [listener EXCEPT ![p] = "bound"]
     \/ /\ path # NoFile
        /\ Moves(p, "bind", BindFailure(p))
        /\ UNCHANGED <<path, listener>>
  /\ UNCHANGED <<read, mode, asked, pidfile>>

Listen(p) ==
  /\ Moves(p, "listen", "chmod")
  /\ listener' = [listener EXCEPT ![p] = "listening"]
  /\ UNCHANGED <<read, mode, asked, files>>

(* chmod(path) raises when another start took the bound socket for stale. *)
Chmod(p) ==
  /\ \/ /\ path # NoFile
        /\ Moves(p, "chmod", IF mode[p] = "rehearsal" THEN "close" ELSE "serving")
        /\ UNCHANGED listener
     \/ /\ path = NoFile
        /\ Moves(p, "chmod", BindFailure(p))
        /\ listener' = [listener EXCEPT ![p] = "none"]
  /\ UNCHANGED <<read, mode, asked, files>>

(* The rehearsal's socket is closed and the path removed. *)
CloseRehearsal(p) ==
  /\ Moves(p, "close", "unlink")
  /\ listener' = [listener EXCEPT ![p] = "none"]
  /\ UNCHANGED <<read, mode, asked, files>>

UnlinkRehearsal(p) ==
  /\ Moves(p, "unlink", "writepid")
  /\ path' = NoFile
  /\ UNCHANGED <<read, own, pidfile>>

(* run: the loop sees the event within ACCEPT_LOOP_TIMEOUT_S ...             *)
LeaveLoop(p) ==
  /\ p \in asked
  /\ Moves(p, "serving", "closing")
  /\ UNCHANGED <<read, own, files>>

(* ... _cleanup_listener closes the socket and removes the path ...          *)
CloseListener(p) ==
  /\ Moves(p, "closing", "unlinking")
  /\ listener' = [listener EXCEPT ![p] = "none"]
  /\ UNCHANGED <<read, mode, asked, files>>

UnlinkPath(p) ==
  /\ Moves(p, "unlinking", "joining")
  /\ path' = NoFile
  /\ UNCHANGED <<read, own, pidfile>>

(* ... _join_workers waits for each worker WORKER_JOIN_TIMEOUT_S at most ... *)
JoinWorkers(p) ==
  /\ Moves(p, "joining", "unpid")
  /\ UNCHANGED <<read, own, files>>

(* ... and start's handler removes the PID file, whatever it holds. *)
UnlinkPid(p) ==
  /\ Moves(p, "unpid", "exited")
  /\ pidfile' = NoFile
  /\ UNCHANGED <<read, own, path>>

StartStep(p) ==
  \/ ReadPid(p) \/ KillZero(p) \/ DropPid(p) \/ Reserve(p) \/ Release(p)
  \/ Build(p) \/ WritePid(p) \/ InstallHandlers(p)
  \/ ProbeSocket(p) \/ ProbeFindsNone(p) \/ UnlinkStale(p)
  \/ Bind(p) \/ Listen(p) \/ Chmod(p) \/ CloseRehearsal(p) \/ UnlinkRehearsal(p)
  \/ LeaveLoop(p) \/ CloseListener(p) \/ UnlinkPath(p) \/ JoinWorkers(p)
  \/ UnlinkPid(p)

-----------------------------------------------------------------------------
(* What the kernel leaves of a process that dies: its sockets are closed. *)
Dies(p) ==
  /\ stage' = [stage EXCEPT ![p] = "killed"]
  /\ listener' = [listener EXCEPT ![p] = "none"]

(* SIGKILL, power loss, an error nothing handles. *)
Crash(p) ==
  /\ Alive(p)
  /\ Dies(p)
  /\ UNCHANGED <<read, mode, asked, files>>

(* stop reads the PID file; none or no number ends it. *)
StopReads(s) ==
  /\ \/ pidfile \in {NoFile, Garbage} /\ Moves(s, "new", "refused") /\ UNCHANGED read
     \/ /\ pidfile \notin {NoFile, Garbage}
        /\ Moves(s, "new", "signal")
        /\ read' = [read EXCEPT ![s] = pidfile]
  /\ UNCHANGED <<own, files>>

(* SIGTERM to a daemon: its handler sets the event, if it is installed. *)
SignalHandled(s) ==
  LET p == read[s] IN
  /\ Alive(p)
  /\ stage[p] \in Opening \cup Closing \cup {"serving"} /\ mode[p] # "rehearsal"
  /\ Moves(s, "signal", "waiting")
  /\ asked' = asked \cup {p}
  /\ UNCHANGED <<read, mode, listener, files>>

SignalKills(s) ==
  LET p == read[s] IN
  /\ Alive(p)
  /\ ~(stage[p] \in Opening \cup Closing \cup {"serving"} /\ mode[p] # "rehearsal")
  /\ stage[s] = "signal"
  /\ stage' = [stage EXCEPT ![s] = "waiting", ![p] = "killed"]
  /\ listener' = [listener EXCEPT ![p] = "none"]
  /\ UNCHANGED <<read, mode, asked, files>>

(* PID 0 is stop's own process group. *)
SignalsItself(s) ==
  /\ read[s] = Zero
  /\ Moves(s, "signal", "killed")
  /\ UNCHANGED <<read, own, files>>

(* ProcessLookupError: the file is removed, whatever it holds by now. *)
SignalsNobody(s) ==
  /\ ~Answers(read[s])
  /\ Moves(s, "signal", "droppid")
  /\ UNCHANGED <<read, own, files>>

StopDropsPid(s) ==
  /\ Moves(s, "droppid", "exited")
  /\ pidfile' = NoFile
  /\ UNCHANGED <<read, own, path>>

(* stop polls until the process is gone ... or its timeout is. *)
StopSeesEnd(s) ==
  /\ ~Alive(read[s])
  /\ Moves(s, "waiting", "exited")
  /\ UNCHANGED <<read, own, files>>

StopGivesUp(s) ==
  /\ Moves(s, "waiting", "failed")
  /\ UNCHANGED <<read, own, files>>

StopStep(s) ==
  \/ StopReads(s) \/ SignalHandled(s) \/ SignalKills(s) \/ SignalsItself(s)
  \/ SignalsNobody(s) \/ StopDropsPid(s) \/ StopSeesEnd(s) \/ StopGivesUp(s)

Watch == overlapped' = (overlapped \/ Crowded')

Next ==
  /\ \/ \E p \in Starts : StartStep(p) \/ Crash(p)
     \/ \E s \in Stops : StopStep(s)
  /\ Watch

(* A process that was begun runs; when one is begun, or killed, is open. *)
Fairness == \A p \in Starts : WF_vars(stage[p] # "new" /\ StartStep(p) /\ Watch)

Spec == Init /\ [][Next]_vars

FairSpec == Spec /\ Fairness

-----------------------------------------------------------------------------
(* As long as no two commands were at the files at once, crashes included,  *)
(* a daemon that serves is the only one, and both files name it: the PID    *)
(* check, the probe and the removals of _bind_socket, _cleanup_listener and *)
(* start are enough for commands given one after the other.                 *)
ServesAlone ==
  ~overlapped =>
    \A p \in Starts :
      stage[p] = "serving" =>
        /\ pidfile = p /\ path = p
        /\ \A q \in Starts \ {p} : stage[q] # "serving"

(* What a crash leaves behind stops no later start: one that gives up on the *)
(* way to serving met a living process, or "0" in the PID file (a rehearsal  *)
(* that was killed between its two steps; only the user can remove that).    *)
LeftoversDoNotBlock ==
  [][\A p \in Starts :
       /\ stage[p] \in (Checking \ {"build"}) \cup Opening
       /\ stage'[p] \in {"refused", "failed", "unpid"}
       => overlapped \/ pidfile = Zero \/ \E q \in Starts \ {p} : Alive(q)]_vars

(* A daemon whose shutdown event is set ends, whatever its workers do.       *)
AskedDaemonEnds == \A p \in Starts : p \in asked ~> ~Alive(p)
=============================================================================
