---------------------------- MODULE Daemon_proofs ----------------------------
(***************************************************************************)
(* The daemon for any number of processes, requests, commands and goals.   *)
(*                                                                         *)
(* First its life cycle (DaemonLife): starts and stops given one after the *)
(* other, crashes included, never have two daemons serve, and no file of a *)
(* dead one keeps a start from serving.  Then its write lock and the truth *)
(* of its answers (GoalCalls): what a caller is told was committed.        *)
(***************************************************************************)
EXTENDS DaemonLife, GoalCalls, FiniteSetTheorems, TLAPS

(* A socket is there from bind on, and answers from listen to close.        *)
ListenersServe ==
  \A q \in Starts :
    /\ listener[q] # "none" =>
         stage[q] \in {"listen", "chmod", "close", "serving", "closing"}
    /\ stage[q] \in {"chmod", "serving"} => listener[q] = "listening"

(* What serves, or has served, has its rehearsal behind it. *)
ModesFit ==
  \A p \in Starts :
    stage[p] \in {"install", "serving"} \cup Closing => mode[p] # "rehearsal"

(* A PID that can be read was written by its process. *)
Written == {"install", "serving"} \cup Opening \cup Closing \cup Over

PidsWritten ==
  \A p \in Starts :
    p = pidfile \/ (\E c \in Starts \cup Stops : p = read[c]) =>
      /\ stage[p] \in Written
      /\ mode[p] # "rehearsal"

Processes == Starts \cup Stops

NobodyServes == \A q \in Starts : stage[q] # "serving"

(* A start at the files, by how far it has come. *)
StartAlone(p) ==
  /\ stage[p] = "kill0" => read[p] = pidfile
  /\ AtTheFiles(p) /\ stage[p] # "kill0" => NobodyServes
  /\ stage[p] = "reserve" => pidfile = NoFile
  /\ stage[p] \in {"install"} \cup Opening /\ mode[p] # "rehearsal" => pidfile = p
  /\ stage[p] = "bind" => path = NoFile
  /\ stage[p] \in {"listen", "chmod"} => path = p

(* A stop: the PID it is about to signal, and that it removes no live       *)
(* daemon's PID file.                                                       *)
StopAlone(s) ==
  /\ stage[s] = "signal" => read[s] = pidfile
  /\ stage[s] = "droppid" => NobodyServes

(* As long as nobody has met another at the files: what a process has read  *)
(* of them is still what they hold, and whoever is past the PID check knows *)
(* that no daemon serves.                                                   *)
Alone ==
  ~overlapped =>
    /\ ~Crowded
    /\ \A q \in Starts : stage[q] = "serving" => pidfile = q /\ path = q
    /\ \A p \in Starts : StartAlone(p)
    /\ \A s \in Stops : StopAlone(s)

-----------------------------------------------------------------------------
(* A start moves itself alone, and is at the files before or after. *)
LEMMA StartMoves ==
  ASSUME TypeOK, NEW p \in Starts, StartStep(p)
  PROVE  /\ \A c \in Processes \ {p} : stage'[c] = stage[c] /\ read'[c] = read[c]
         /\ \A q \in Starts \ {p} : mode'[q] = mode[q] /\ listener'[q] = listener[q]
         /\ UNCHANGED asked
         /\ AtTheFiles(p) \/ AtTheFiles(p)'
<1> USE DEF TypeOK, Processes, own, files, Moves, AtTheFiles, AfterCheck,
         BindFailure, Over
<1>1. CASE ReadPid(p) \/ KillZero(p) \/ DropPid(p) \/ Reserve(p) \/ Release(p)
  BY <1>1 DEF ReadPid, KillZero, DropPid, Reserve, Release
<1>2. CASE Build(p) \/ WritePid(p) \/ InstallHandlers(p) \/ ProbeSocket(p)
             \/ ProbeFindsNone(p) \/ UnlinkStale(p)
  BY <1>2
  DEF Build, WritePid, InstallHandlers, ProbeSocket, ProbeFindsNone, UnlinkStale
<1>3. CASE Bind(p) \/ Listen(p) \/ Chmod(p) \/ CloseRehearsal(p) \/ UnlinkRehearsal(p)
  BY <1>3 DEF Bind, Listen, Chmod, CloseRehearsal, UnlinkRehearsal
<1>4. CASE LeaveLoop(p) \/ CloseListener(p) \/ UnlinkPath(p) \/ JoinWorkers(p)
             \/ UnlinkPid(p)
  BY <1>4 DEF LeaveLoop, CloseListener, UnlinkPath, JoinWorkers, UnlinkPid
<1>5. QED
  BY <1>1, <1>2, <1>3, <1>4 DEF StartStep

(* Types, by groups of steps. *)
LEMMA StartTypes ==
  ASSUME TypeOK, NEW p \in Starts, StartStep(p), Watch
  PROVE  TypeOK'
<1> USE DaemonLifeAssumption
    DEF TypeOK, own, files, Moves, AfterCheck, BindFailure, Contents, StartStages,
        StopStages, Checking, Opening, Rehearsal, Closing, Over
<1>1. overlapped' \in BOOLEAN
  BY DEF Watch
<1>2. CASE ReadPid(p) \/ KillZero(p) \/ DropPid(p) \/ Reserve(p) \/ Release(p)
  BY <1>1, <1>2 DEF ReadPid, KillZero, DropPid, Reserve, Release
<1>3. CASE Build(p) \/ WritePid(p) \/ InstallHandlers(p) \/ ProbeSocket(p)
             \/ ProbeFindsNone(p) \/ UnlinkStale(p)
  BY <1>1, <1>3
  DEF Build, WritePid, InstallHandlers, ProbeSocket, ProbeFindsNone, UnlinkStale
<1>4. CASE Bind(p) \/ Listen(p) \/ Chmod(p) \/ CloseRehearsal(p) \/ UnlinkRehearsal(p)
  BY <1>1, <1>4 DEF Bind, Listen, Chmod, CloseRehearsal, UnlinkRehearsal
<1>5. CASE LeaveLoop(p) \/ CloseListener(p) \/ UnlinkPath(p) \/ JoinWorkers(p)
             \/ UnlinkPid(p)
  BY <1>1, <1>5 DEF LeaveLoop, CloseListener, UnlinkPath, JoinWorkers, UnlinkPid
<1>6. QED
  BY <1>2, <1>3, <1>4, <1>5 DEF StartStep

LEMMA StopTypes ==
  ASSUME TypeOK, NEW s \in Stops, StopStep(s), Watch
  PROVE  TypeOK'
<1> USE DaemonLifeAssumption
    DEF TypeOK, own, files, Moves, Contents, StartStages, StopStages, Over
<1>1. overlapped' \in BOOLEAN
  BY DEF Watch
<1>2. CASE StopReads(s) \/ SignalsItself(s) \/ SignalsNobody(s) \/ StopDropsPid(s)
             \/ StopSeesEnd(s) \/ StopGivesUp(s)
  BY <1>1, <1>2
  DEF StopReads, SignalsItself, SignalsNobody, StopDropsPid, StopSeesEnd,
      StopGivesUp
<1>3. CASE SignalHandled(s) \/ SignalKills(s)
  BY <1>1, <1>3 DEF SignalHandled, SignalKills, Alive
<1>4. QED
  BY <1>2, <1>3 DEF StopStep

(* The type invariant; a crash ends one process and changes nothing else.   *)
LEMMA TypeInductive == TypeOK /\ [Next]_vars => TypeOK'
<1> SUFFICES ASSUME TypeOK, [Next]_vars PROVE TypeOK'
  OBVIOUS
<1>1. ASSUME NEW p \in Starts, Crash(p), Watch PROVE TypeOK'
  BY <1>1, DaemonLifeAssumption
  DEF TypeOK, Crash, Dies, Watch, files, StartStages, StopStages, Over
<1>2. CASE UNCHANGED vars
  BY <1>2 DEF TypeOK, vars, own, files
<1>3. QED
  BY <1>1, <1>2, StartTypes, StopTypes DEF Next

-----------------------------------------------------------------------------
(* What the stages tell of sockets, modes and PIDs, overlapping or not. *)
Marks == ListenersServe /\ ModesFit /\ PidsWritten

(* They hold of a start as it goes, ... *)
LEMMA StartMarks ==
  ASSUME TypeOK, Marks, NEW p \in Starts, StartStep(p)
  PROVE  Marks'
<1> USE DaemonLifeAssumption
    DEF TypeOK, Marks, ListenersServe, ModesFit, PidsWritten, Written, own, files,
        Moves, AfterCheck, BindFailure, Opening, Closing, Over
<1>1. CASE ReadPid(p) \/ KillZero(p) \/ DropPid(p) \/ Reserve(p) \/ Release(p)
  BY <1>1 DEF ReadPid, KillZero, DropPid, Reserve, Release
<1>2. CASE Build(p) \/ WritePid(p) \/ InstallHandlers(p) \/ ProbeSocket(p)
             \/ ProbeFindsNone(p) \/ UnlinkStale(p)
  BY <1>2
  DEF Build, WritePid, InstallHandlers, ProbeSocket, ProbeFindsNone, UnlinkStale
<1>3. CASE Bind(p) \/ Listen(p) \/ CloseRehearsal(p) \/ UnlinkRehearsal(p)
  BY <1>3 DEF Bind, Listen, CloseRehearsal, UnlinkRehearsal
<1>4. CASE Chmod(p)
  BY <1>4 DEF Chmod
<1>5. CASE LeaveLoop(p) \/ CloseListener(p) \/ UnlinkPath(p) \/ JoinWorkers(p)
             \/ UnlinkPid(p)
  BY <1>5 DEF LeaveLoop, CloseListener, UnlinkPath, JoinWorkers, UnlinkPid
<1>6. QED
  BY <1>1, <1>2, <1>3, <1>4, <1>5 DEF StartStep

(* ... whatever a stop signals ... *)
LEMMA StopMarks ==
  ASSUME TypeOK, Marks, NEW s \in Stops, StopStep(s)
  PROVE  Marks'
<1> USE DaemonLifeAssumption
    DEF TypeOK, Marks, ListenersServe, ModesFit, PidsWritten, Written, own, files,
        Moves, Opening, Closing, Over
<1>1. CASE StopReads(s) \/ SignalsItself(s) \/ SignalsNobody(s) \/ StopDropsPid(s)
             \/ StopSeesEnd(s) \/ StopGivesUp(s)
  BY <1>1
  DEF StopReads, SignalsItself, SignalsNobody, StopDropsPid, StopSeesEnd,
      StopGivesUp
<1>2. CASE SignalHandled(s) \/ SignalKills(s)
  BY <1>2 DEF SignalHandled, SignalKills, Alive
<1>3. QED
  BY <1>1, <1>2 DEF StopStep

(* ... and whoever dies. *)
LEMMA MarksInductive == TypeOK /\ Marks /\ [Next]_vars => Marks'
<1> SUFFICES ASSUME TypeOK, Marks, [Next]_vars PROVE Marks'
  OBVIOUS
<1>1. ASSUME NEW p \in Starts, Crash(p) PROVE Marks'
  BY <1>1
  DEF Crash, Dies, files, TypeOK, Marks, ListenersServe, ModesFit, PidsWritten,
      Written, Closing, Over
<1>2. CASE UNCHANGED vars
  BY <1>2 DEF vars, own, files, Marks, ListenersServe, ModesFit, PidsWritten
<1>3. QED
  BY <1>1, <1>2, StartMarks, StopMarks DEF Next

-----------------------------------------------------------------------------
(* While nobody has met another at the files, one that is there before or    *)
(* after its step is there alone.                                            *)
LEMMA NobodyElse ==
  ASSUME Alone, Watch, ~overlapped',
         NEW c \in Processes, AtTheFiles(c) \/ AtTheFiles(c)',
         \A d \in Processes \ {c} : stage'[d] = stage[d]
  PROVE  /\ ~overlapped /\ ~Crowded /\ ~Crowded'
         /\ \A d \in Processes \ {c} : ~AtTheFiles(d) /\ ~AtTheFiles(d)'
<1>1. ~overlapped /\ ~Crowded /\ ~Crowded'
  BY DEF Alone, Watch
<1>2. ASSUME NEW d \in Processes, d # c PROVE AtTheFiles(d)' <=> AtTheFiles(d)
  BY <1>2 DEF AtTheFiles
<1>3. QED
  BY <1>1, <1>2 DEF Crowded, Processes

(* A start that is alone at the files keeps what it has read true for the   *)
(* others, and serves only when both files name it.                         *)
LEMMA StartAlones ==
  ASSUME TypeOK, Marks, Alone, NEW p \in Starts, StartStep(p), Watch
  PROVE  Alone'
<1> SUFFICES ASSUME ~overlapped' PROVE Alone'
  BY DEF Alone
<1>1. /\ \A c \in Processes \ {p} : stage'[c] = stage[c] /\ read'[c] = read[c]
      /\ \A q \in Starts \ {p} : mode'[q] = mode[q]
      /\ p \in Processes /\ p \notin Stops
  BY StartMoves, DaemonLifeAssumption DEF Processes
<1>2. /\ ~overlapped /\ ~Crowded'
      /\ \A d \in Processes \ {p} : ~AtTheFiles(d) /\ ~AtTheFiles(d)'
  BY <1>1, StartMoves, NobodyElse
<1>3. \A q \in Starts \ {p} : StartAlone(q)'
  BY <1>2 DEF StartAlone, AtTheFiles, Processes, Opening, Over
<1>4. \A s \in Stops : StopAlone(s)'
  BY <1>1, <1>2 DEF StopAlone, AtTheFiles, Processes, Over
<1>5. /\ \A q \in Starts : stage[q] = "serving" => pidfile = q /\ path = q
      /\ StartAlone(p)
  BY <1>2 DEF Alone
<1>6. /\ StartAlone(p)'
      /\ \A q \in Starts : stage'[q] = "serving" => pidfile' = q /\ path' = q
  <2> USE <1>1, <1>5, DaemonLifeAssumption
      DEF TypeOK, Marks, ListenersServe, ModesFit, PidsWritten, Written, StartAlone,
          NobodyServes, AtTheFiles, own, files, Moves, AfterCheck, BindFailure,
          Opening, Closing, Over, Processes
  <2>1. CASE ReadPid(p) \/ DropPid(p) \/ Reserve(p) \/ Release(p)
    BY <2>1 DEF ReadPid, DropPid, Reserve, Release
  <2>2. CASE KillZero(p)
    BY <2>2 DEF KillZero, Answers, Alive
  <2>3. CASE Build(p) \/ WritePid(p) \/ InstallHandlers(p) \/ ProbeSocket(p)
               \/ ProbeFindsNone(p) \/ UnlinkStale(p)
    BY <2>3
    DEF Build, WritePid, InstallHandlers, ProbeSocket, ProbeFindsNone, UnlinkStale
  <2>4. CASE \/ Bind(p) \/ Listen(p) \/ Chmod(p)
             \/ CloseRehearsal(p) \/ UnlinkRehearsal(p)
    BY <2>4 DEF Bind, Listen, Chmod, CloseRehearsal, UnlinkRehearsal
  <2>5. CASE LeaveLoop(p) \/ CloseListener(p) \/ UnlinkPath(p) \/ JoinWorkers(p)
               \/ UnlinkPid(p)
    BY <2>5 DEF LeaveLoop, CloseListener, UnlinkPath, JoinWorkers, UnlinkPid
  <2>6. QED
    BY <2>1, <2>2, <2>3, <2>4, <2>5 DEF StartStep
<1>7. QED
  BY <1>2, <1>3, <1>4, <1>6 DEF Alone

(* A stop that is alone at the files takes the PID file of nobody who       *)
(* serves; what it does to a process ends it.                               *)
LEMMA StopAlones ==
  ASSUME TypeOK, Marks, Alone, NEW s \in Stops, StopStep(s), Watch
  PROVE  Alone'
<1> SUFFICES ASSUME ~overlapped' PROVE Alone'
  BY DEF Alone
<1> USE DaemonLifeAssumption
    DEF TypeOK, own, files, Moves, AtTheFiles, Opening, Closing, Over, Processes
<1>1. ~overlapped /\ ~Crowded' /\ s \in Processes /\ s \notin Starts
  BY DEF Alone, Watch
<1>2. CASE StopSeesEnd(s) \/ StopGivesUp(s) \/ SignalsItself(s)
           \/ (StopReads(s) /\ stage'[s] = "refused")
  BY <1>1, <1>2
  DEF Alone, StartAlone, StopAlone, NobodyServes, StopSeesEnd, StopGivesUp,
      SignalsItself, StopReads
<1>3. CASE \/ StopReads(s) /\ stage'[s] = "signal"
           \/ SignalsNobody(s) \/ StopDropsPid(s)
           \/ SignalHandled(s)
  <2>1. /\ AtTheFiles(s) \/ AtTheFiles(s)'
        /\ \A d \in Processes \ {s} : stage'[d] = stage[d]
    BY <1>3 DEF StopReads, SignalsNobody, StopDropsPid, SignalHandled
  <2>2. \A d \in Processes \ {s} : ~AtTheFiles(d) /\ ~AtTheFiles(d)'
    BY <1>1, <2>1, NobodyElse
  <2>3. \A q \in Starts : StartAlone(q)'
    BY <1>1, <2>2 DEF StartAlone
  <2>4. \A r \in Stops \ {s} : StopAlone(r)'
    BY <2>2 DEF StopAlone
  <2>5. /\ \A q \in Starts : stage[q] = "serving" => pidfile = q /\ path = q
        /\ StopAlone(s)
    BY <1>1 DEF Alone
  <2>6. /\ StopAlone(s)'
        /\ \A q \in Starts : stage'[q] = "serving" => pidfile' = q /\ path' = q
    BY <1>1, <1>3, <2>1, <2>5
    DEF StopAlone, NobodyServes, StopReads, SignalsNobody, StopDropsPid,
        SignalHandled, Answers, Alive
  <2>7. QED
    BY <1>1, <2>3, <2>4, <2>6 DEF Alone
<1>4. CASE SignalKills(s)
  BY <1>1, <1>4
  DEF Alone, StartAlone, StopAlone, NobodyServes, SignalKills, Alive
<1>5. StopReads(s) => stage'[s] \in {"signal", "refused"}
  BY DEF StopReads
<1>6. QED
  BY <1>2, <1>3, <1>4, <1>5 DEF StopStep

(* A crash leaves the files as they are: they may name nobody then, but     *)
(* nobody serves under another name.                                        *)
LEMMA CrashAlones ==
  ASSUME TypeOK, Alone, NEW p \in Starts, Crash(p), Watch
  PROVE  Alone'
  BY DaemonLifeAssumption
  DEF TypeOK, Alone, StartAlone, StopAlone, NobodyServes, AtTheFiles, Crash, Dies,
      Watch, files, Opening, Over

IInv == TypeOK /\ Marks /\ Alone

LEMMA IInvInductive == IInv /\ [Next]_vars => IInv'
<1> SUFFICES ASSUME IInv, [Next]_vars PROVE IInv'
  OBVIOUS
<1> USE DEF IInv
<1>1. Alone'
  <2>1. CASE UNCHANGED vars
    BY <2>1
    DEF vars, own, files, Alone, StartAlone, StopAlone, NobodyServes, AtTheFiles,
        Crowded
  <2>2. QED
    BY <2>1, StartAlones, StopAlones, CrashAlones DEF Next
<1>2. QED
  BY <1>1, TypeInductive, MarksInductive

LEMMA IInvInit == Init => IInv
<1> SUFFICES ASSUME Init PROVE IInv
  OBVIOUS
<1> USE DaemonLifeAssumption DEF Init, Over, Closing, Opening
<1>1. TypeOK
  BY DEF TypeOK, StartStages, StopStages, Contents, Checking
<1>2. Marks
  BY DEF Marks, ListenersServe, ModesFit, PidsWritten
<1>3. Alone
  BY DEF Alone, StartAlone, StopAlone, Crowded, AtTheFiles
<1>4. QED
  BY <1>1, <1>2, <1>3 DEF IInv

(* Whatever the number of starts and stops, wherever one of them dies: IInv. *)
THEOREM IInvInvariant == Spec => []IInv
  BY IInvInit, IInvInductive, PTL DEF Spec

(* The PID check, the probe of the socket and the removals on the way out   *)
(* are enough for commands given one after the other: whoever serves then   *)
(* serves alone, and the PID file and the socket path name it.              *)
THEOREM DaemonServesAlone == Spec => []ServesAlone
<1>1. IInv => ServesAlone
  BY DaemonLifeAssumption DEF IInv, Alone, ServesAlone
<1>2. QED
  BY <1>1, IInvInvariant, PTL

(* The four places where a start gives up: a live PID, a socket that        *)
(* answers, a PID file or a path that somebody took in between.             *)
LEMMA GivesUpFor ==
  ASSUME IInv, NEW p \in Starts, StartStep(p),
         stage[p] \in (Checking \ {"build"}) \cup Opening,
         stage'[p] \in {"refused", "failed", "unpid"}
  PROVE  overlapped \/ pidfile = Zero \/ \E q \in Starts \ {p} : Alive(q)
<1> USE DaemonLifeAssumption
    DEF IInv, TypeOK, own, files, Moves, AfterCheck, BindFailure, Checking, Opening
<1>1. CASE KillZero(p)
  BY <1>1
  DEF KillZero, Answers, Alive, Alone, StartAlone, Marks, PidsWritten, Written,
      Closing, Over
<1>2. CASE ProbeSocket(p)
  BY <1>2 DEF ProbeSocket, Marks, ListenersServe, Alive, Over
<1>3. CASE Reserve(p) \/ Bind(p) \/ Chmod(p)
  BY <1>3 DEF Reserve, Bind, Chmod, Alone, StartAlone
<1>4. QED
  BY <1>1, <1>2, <1>3
  DEF StartStep, ReadPid, DropPid, Release, Build, WritePid, InstallHandlers,
      ProbeFindsNone, UnlinkStale, Listen, CloseRehearsal, UnlinkRehearsal,
      LeaveLoop, CloseListener, UnlinkPath, JoinWorkers, UnlinkPid, Closing,
      Rehearsal

(* A stale PID file and a stale socket are cleared away, in whatever state  *)
(* a crash left them: only a living process or the text "0" refuses a start.*)
THEOREM LeftoversBlockNobody == Spec => LeftoversDoNotBlock
<1>1. IInv /\ [Next]_vars =>
        [\A p \in Starts :
           /\ stage[p] \in (Checking \ {"build"}) \cup Opening
           /\ stage'[p] \in {"refused", "failed", "unpid"}
           => overlapped \/ pidfile = Zero \/ \E q \in Starts \ {p} : Alive(q)]_vars
  <2> SUFFICES ASSUME IInv, [Next]_vars, NEW p \in Starts,
                      stage[p] \in (Checking \ {"build"}) \cup Opening,
                      stage'[p] \in {"refused", "failed", "unpid"}
               PROVE  overlapped \/ pidfile = Zero \/ \E q \in Starts \ {p} : Alive(q)
    OBVIOUS
  <2>1. stage'[p] # stage[p]
    BY DEF Checking, Opening
  <2>2. StartStep(p)
    <3>1. \A q \in Starts : StartStep(q) => q = p
      BY <2>1, StartMoves DEF IInv, Processes
    <3>2. \A q \in Starts : ~Crash(q)
      BY <2>1 DEF Crash, Dies, IInv, TypeOK
    <3>3. \A s \in Stops : ~StopStep(s)
      BY <2>1, DaemonLifeAssumption
      DEF StopStep, StopReads, SignalHandled, SignalKills, SignalsItself,
          SignalsNobody, StopDropsPid, StopSeesEnd, StopGivesUp, Moves, IInv, TypeOK
    <3>4. QED
      BY <2>1, <3>1, <3>2, <3>3 DEF Next, vars
  <2>3. QED
    BY <2>2, GivesUpFor
<1>2. QED
  BY <1>1, IInvInvariant, PTL DEF Spec, LeftoversDoNotBlock

-----------------------------------------------------------------------------
(* The life cycle is done; what follows is about the calls.                 *)
Handling == {"check", "write", "fetch"}

(* A request in its handler is the one that holds the lock. *)
LockHeld == \A r \in Calls : standing[r] \in Handling => lock = {r}

(* What each stage knows of its own write, and what each outcome tells.     *)
WriteKnown ==
  \A r \in Callers :
    /\ standing[r] = "fetch" => r \in effects
    /\ r \in effects => standing[r] \in {"fetch", "done"}
    /\ outcome[r] \in {"ok", "error", "unsent"} => standing[r] = "done"

(* An ending by the daemon leaves its goal inactive, so a request that was  *)
(* let through to its write met no earlier one, and under the lock it meets *)
(* none on the way.                                                         *)
FirstToEnd ==
  /\ \A r \in effects \cap Calls : Row(r) \in Goals => status[Row(r)] # "active"
  /\ \A q \in Calls : standing[q] = "write" /\ Row(q) \in Goals =>
       \A r \in effects \cap Calls : Row(r) # Row(q)

(* Each stamp of a goal is the ending of somebody's write. *)
StampsTraced ==
  \A g \in Goals : \A e \in stamps[g] :
    \E r \in effects : Row(r) = g /\ Ending(r) = e

OncePerRow == \A r, q \in effects \cap Calls : Row(r) = Row(q) => r = q

(* A command never queues for the lock. *)
Lockless == \A m \in Commands : standing[m] \notin {"sent", "locking"}

CallsInv ==
  /\ CallsTypeOK /\ Lockless /\ LockHeld /\ WriteKnown /\ AnswersAreTrue
  /\ FirstToEnd /\ StampsTraced /\ OncePerRow

LEMMA RowFacts ==
  ASSUME CallsTypeOK, NEW r \in Callers
  PROVE  /\ request[r].op = "add" => Row(r) = r /\ Row(r) \notin Goals
         /\ request[r].op # "add" => Row(r) \in Goals
         /\ Row(r) \in Rows
         /\ Ending(r) \in {"completed", "abandoned"}
  BY GoalCallsAssumption DEF CallsTypeOK, Row, Requests, Callers, Rows, Ending

(* Nobody changes his request, or what Goal refuses. *)
LEMMA RequestsStay ==
  ASSUME CallsTypeOK, [CallsNext]_callVars
  PROVE  request' = request /\ refused' = refused
  BY DEF CallsNext, Handle, Send, Refused, ClientGivesUp, CommandBegins, ReadRequest,
         BadRequest, LineDropped, AcquireLock, CheckPasses, CheckFails, Insert,
         Update, WriteFails, Fetch, CommandCrashes, Shutdown, ProcessEnds, given,
         callVars

LEMMA CallTypes ==
  ASSUME CallsTypeOK, Lockless, [CallsNext]_callVars
  PROVE  CallsTypeOK' /\ Lockless'
<1> USE DEF table, given, Callers
<1>1. ASSUME NEW r \in Callers, Insert(r) \/ Update(r)
      PROVE  CallsTypeOK' /\ Lockless'
  <2>1. Row(r) \in Rows /\ Ending(r) \in {"completed", "abandoned"} /\ r \in Rows
    BY RowFacts DEF Rows
  <2>2. CASE Insert(r)
    BY <2>1, <2>2 DEF Insert, Goes, CallsTypeOK, Lockless
  <2>3. CASE Update(r)
    BY <2>1, <2>3 DEF Update, Goes, CallsTypeOK, Lockless
  <2>4. QED
    BY <1>1, <2>2, <2>3
<1>2. ASSUME NEW r \in Callers, Send(r) \/ Refused(r) \/ ReadRequest(r) \/ AcquireLock(r)
      PROVE  CallsTypeOK' /\ Lockless'
  <2>1. r \in Calls /\ r \notin Commands
    BY <1>2, GoalCallsAssumption
    DEF Send, Refused, ReadRequest, AcquireLock, Goes, Lockless
  <2>2. QED
    BY <1>2, <2>1
    DEF Send, Refused, ReadRequest, AcquireLock, Goes, CallsTypeOK, Lockless
<1>3. ASSUME NEW r \in Callers,
             \/ ClientGivesUp(r) \/ CommandBegins(r) \/ CheckPasses(r)
             \/ CommandCrashes(r)
      PROVE  CallsTypeOK' /\ Lockless'
  BY <1>3
  DEF ClientGivesUp, CommandBegins, CheckPasses, CommandCrashes, Goes, CallsTypeOK,
      Lockless
<1>4. ASSUME NEW r \in Callers,
             \/ BadRequest(r) \/ LineDropped(r) \/ CheckFails(r) \/ WriteFails(r)
             \/ Fetch(r)
      PROVE  CallsTypeOK' /\ Lockless'
  BY <1>4
  DEF BadRequest, LineDropped, CheckFails, WriteFails, Fetch, Tells, Goes,
      CallsTypeOK, Lockless
<1>5. CASE Shutdown \/ UNCHANGED callVars
  BY <1>5 DEF Shutdown, callVars, CallsTypeOK, Lockless
<1>6. CASE ProcessEnds
  <2>1. /\ standing' \in [Callers -> {"new", "sent", "locking", "check", "write",
                                   "fetch", "done"}]
        /\ outcome' \in [Callers -> {"pending", "ok", "error", "unsent", "lost"}]
    BY <1>6 DEF ProcessEnds, CallsTypeOK
  <2>2. QED
    BY <1>6, <2>1, GoalCallsAssumption DEF ProcessEnds, CallsTypeOK, Lockless
<1>7. QED
  BY <1>1, <1>2, <1>3, <1>4, <1>5, <1>6 DEF CallsNext, Handle

-----------------------------------------------------------------------------
(* The lock: taken when it is free, held through the handler, let go by     *)
(* whatever ends it.                                                        *)
LEMMA LockInductive ==
  ASSUME CallsTypeOK, Lockless, LockHeld, [CallsNext]_callVars
  PROVE  LockHeld'
<1> USE DEF Callers, Handling, LockHeld
<1>1. ASSUME NEW r \in Callers, AcquireLock(r)
      PROVE  LockHeld'
  BY <1>1 DEF AcquireLock, Goes, CallsTypeOK
<1>2. ASSUME NEW r \in Callers,
             \/ CheckPasses(r) \/ Insert(r) \/ Update(r) \/ Send(r) \/ Refused(r)
             \/ ClientGivesUp(r) \/ ReadRequest(r)
      PROVE  LockHeld'
  BY <1>2
  DEF CheckPasses, Insert, Update, Send, Refused, ClientGivesUp, ReadRequest,
      Goes, CallsTypeOK
<1>3. ASSUME NEW r \in Callers,
             \/ BadRequest(r) \/ LineDropped(r) \/ CheckFails(r) \/ WriteFails(r)
             \/ Fetch(r)
      PROVE  LockHeld'
  <2>1. standing' = [standing EXCEPT ![r] = "done"] /\ lock' = lock \ {r}
    BY <1>3 DEF BadRequest, LineDropped, CheckFails, WriteFails, Fetch, Goes, Tells
  <2>2. QED
    BY <2>1 DEF CallsTypeOK
<1>4. ASSUME NEW r \in Callers, CommandBegins(r) \/ CommandCrashes(r)
      PROVE  LockHeld'
  BY <1>4, GoalCallsAssumption DEF CommandBegins, CommandCrashes, Goes, CallsTypeOK
<1>5. CASE Shutdown \/ UNCHANGED callVars
  BY <1>5 DEF Shutdown, callVars
<1>6. CASE ProcessEnds
  BY <1>6 DEF ProcessEnds, CallsTypeOK
<1>7. QED
  BY <1>1, <1>2, <1>3, <1>4, <1>5, <1>6 DEF CallsNext, Handle

(* A write is committed on the way from "write" to "fetch" and nowhere else,*)
(* and what is answered follows from where the handler ended.               *)
LEMMA AnswersInductive ==
  ASSUME CallsTypeOK, WriteKnown, AnswersAreTrue, [CallsNext]_callVars
  PROVE  WriteKnown' /\ AnswersAreTrue'
<1> USE DEF table, WriteKnown, AnswersAreTrue
<1>0. \A r : GoalRaises(r)' = GoalRaises(r)
  BY RequestsStay DEF GoalRaises, Row
<1>1. ASSUME NEW r \in Callers, Insert(r) \/ Update(r)
      PROVE  WriteKnown' /\ AnswersAreTrue'
  <2>1. /\ effects' = effects \cup {r} /\ outcome' = outcome
        /\ standing[r] = "write" /\ standing' = [standing EXCEPT ![r] = "fetch"]
    BY <1>1 DEF Insert, Update, Goes
  <2>2. QED
    BY <1>0, <2>1 DEF CallsTypeOK
<1>2. ASSUME NEW r \in Callers,
             BadRequest(r) \/ LineDropped(r) \/ CheckFails(r) \/ WriteFails(r)
      PROVE  WriteKnown' /\ AnswersAreTrue'
  <2>1. /\ effects' = effects /\ r \notin effects
        /\ standing' = [standing EXCEPT ![r] = "done"]
        /\ \E answer \in {"error", "lost"} :
             outcome' = [outcome EXCEPT ![r] = IF @ = "pending" THEN answer ELSE @]
    BY <1>2 DEF BadRequest, LineDropped, CheckFails, WriteFails, Goes, Tells
  <2>2. QED
    BY <1>0, <2>1 DEF CallsTypeOK
<1>3. ASSUME NEW r \in Callers, Fetch(r)
      PROVE  WriteKnown' /\ AnswersAreTrue'
  <2>1. /\ effects' = effects /\ r \in effects
        /\ standing' = [standing EXCEPT ![r] = "done"]
        /\ outcome' = [outcome EXCEPT ![r] =
                         IF @ = "pending"
                           THEN IF GoalRaises(r) THEN "error" ELSE "ok"
                           ELSE @]
    BY <1>3 DEF Fetch, Goes, Tells
  <2>2. QED
    BY <1>0, <2>1 DEF CallsTypeOK
<1>4. ASSUME NEW r \in Callers,
             \/ Send(r) \/ Refused(r) \/ ClientGivesUp(r) \/ ReadRequest(r)
             \/ AcquireLock(r) \/ CheckPasses(r) \/ CommandBegins(r)
             \/ CommandCrashes(r)
      PROVE  WriteKnown' /\ AnswersAreTrue'
  BY <1>0, <1>4
  DEF Send, Refused, ClientGivesUp, ReadRequest, AcquireLock, CheckPasses,
      CommandBegins, CommandCrashes, Goes, CallsTypeOK
<1>5. CASE Shutdown \/ UNCHANGED callVars
  BY <1>0, <1>5 DEF Shutdown, callVars
<1>6. CASE ProcessEnds
  BY <1>0, <1>6 DEF ProcessEnds, CallsTypeOK
<1>7. QED
  BY <1>1, <1>2, <1>3, <1>4, <1>5, <1>6 DEF CallsNext, Handle

-----------------------------------------------------------------------------
(* The steps that write nothing.  They may end a handler, and only          *)
(* CheckPasses brings one to its write.                                     *)
Quiet(r) ==
  \/ Send(r) \/ Refused(r) \/ ClientGivesUp(r) \/ CommandBegins(r) \/ ReadRequest(r)
  \/ BadRequest(r) \/ LineDropped(r) \/ AcquireLock(r) \/ CheckFails(r)
  \/ WriteFails(r) \/ Fetch(r) \/ CommandCrashes(r)

(* A quiet step leaves the table alone and brings nobody to its write.      *)
LEMMA QuietSteps ==
  ASSUME CallsTypeOK, UNCHANGED callVars \/ Shutdown \/ ProcessEnds
                   \/ \E r \in Callers : Quiet(r)
  PROVE  /\ UNCHANGED table
         /\ \A q \in Callers : standing'[q] = "write" => standing[q] = "write"
<1> USE DEF table
<1>1. ASSUME NEW r \in Callers, Quiet(r)
      PROVE  /\ UNCHANGED table
             /\ \A q \in Callers : standing'[q] = "write" => standing[q] = "write"
  BY <1>1
  DEF Quiet, Send, Refused, ClientGivesUp, CommandBegins, ReadRequest, BadRequest,
      LineDropped, AcquireLock, CheckFails, WriteFails, Fetch, CommandCrashes,
      Goes, CallsTypeOK
<1>2. CASE Shutdown \/ UNCHANGED callVars
  BY <1>2 DEF Shutdown, callVars
<1>3. CASE ProcessEnds
  BY <1>3 DEF ProcessEnds, CallsTypeOK
<1>4. QED
  BY <1>1, <1>2, <1>3

(* No two requests of the daemon write one row.                             *)
LEMMA EndingsInductive ==
  ASSUME CallsInv, [CallsNext]_callVars
  PROVE  FirstToEnd' /\ OncePerRow'
<1> USE DEF CallsInv, table, FirstToEnd, OncePerRow
<1>0. request' = request /\ \A r : Row(r)' = Row(r)
  BY RequestsStay DEF Row
<1>1. ASSUME NEW r \in Callers, CheckPasses(r)
      PROVE  FirstToEnd' /\ OncePerRow'
  <2>1. /\ status' = status /\ effects' = effects
        /\ standing' = [standing EXCEPT ![r] = "write"]
    BY <1>1 DEF CheckPasses, Goes
  <2>2. Row(r) \in Goals => status[Row(r)] = "active"
    BY <1>1, RowFacts DEF CheckPasses
  <2>3. QED
    BY <1>0, <2>1, <2>2 DEF CallsTypeOK, Callers
<1>2. ASSUME NEW r \in Callers, Insert(r)
      PROVE  FirstToEnd' /\ OncePerRow'
  <2>1. /\ status' = [status EXCEPT ![r] = "active"] /\ effects' = effects \cup {r}
        /\ standing' = [standing EXCEPT ![r] = "fetch"]
        /\ Row(r) = r /\ r \notin Goals
    BY <1>2, RowFacts DEF Insert, Goes
  <2>2. \A q \in effects \cap Calls : Row(q) = r => q = r
    BY RowFacts, <2>1, GoalCallsAssumption DEF CallsTypeOK, Row, Callers, Requests
  <2>3. QED
    BY <1>0, <2>1, <2>2 DEF CallsTypeOK, Callers
<1>3. ASSUME NEW r \in Callers, Update(r)
      PROVE  FirstToEnd' /\ OncePerRow'
  <2>1. /\ status' = [status EXCEPT ![Row(r)] = Ending(r)]
        /\ effects' = effects \cup {r}
        /\ standing[r] = "write" /\ standing' = [standing EXCEPT ![r] = "fetch"]
        /\ Row(r) \in Goals /\ Row(r) \in Rows /\ Ending(r) # "active"
    BY <1>3, RowFacts DEF Update, Goes
  <2>2. r \in Calls => \A q \in effects \cap Calls : Row(q) # Row(r)
    BY <2>1
  <2>3. r \in Calls => \A q \in Calls \ {r} : standing[q] # "write"
    BY <2>1 DEF LockHeld, Handling
  <2>4. QED
    BY <1>0, <2>1, <2>2, <2>3 DEF CallsTypeOK, Callers
<1>4. CASE UNCHANGED callVars \/ Shutdown \/ ProcessEnds \/ \E r \in Callers : Quiet(r)
  BY <1>0, <1>4, QuietSteps DEF Callers
<1>5. QED
  BY <1>1, <1>2, <1>3, <1>4 DEF CallsNext, Handle, Quiet

LEMMA StampsInductive ==
  ASSUME CallsInv, [CallsNext]_callVars
  PROVE  StampsTraced'
<1> USE DEF CallsInv, table, StampsTraced
<1>0. /\ request' = request
      /\ (\A r : Row(r)' = Row(r)) /\ (\A r : Ending(r)' = Ending(r))
  BY RequestsStay DEF Row, Ending
<1>1. ASSUME NEW r \in Callers, Update(r)
      PROVE  StampsTraced'
  BY <1>0, <1>1, RowFacts DEF Update, CallsTypeOK
<1>2. ASSUME NEW r \in Callers, Insert(r) \/ CheckPasses(r)
      PROVE  StampsTraced'
  BY <1>0, <1>2 DEF Insert, CheckPasses
<1>3. CASE UNCHANGED callVars \/ Shutdown \/ ProcessEnds \/ \E r \in Callers : Quiet(r)
  BY <1>0, <1>3, QuietSteps
<1>4. QED
  BY <1>1, <1>2, <1>3 DEF CallsNext, Handle, Quiet

(* For any number of requests and commands: CallsInv.                       *)
LEMMA CallsInvariant == CallsSpec => []CallsInv
<1>1. CallsInit => CallsInv
  <2> SUFFICES ASSUME CallsInit PROVE CallsInv
    OBVIOUS
  <2>1. CallsTypeOK
    <3>1. status \in [Rows -> {"none", "active", "completed", "abandoned"}]
      BY DEF CallsInit
    <3>2. refused \subseteq Rows
      BY DEF CallsInit, Named, Row, Requests, Rows, Callers
    <3>3. QED
      BY <3>1, <3>2 DEF CallsInit, CallsTypeOK
  <2>2. QED
    BY <2>1
    DEF CallsInit, CallsInv, Lockless, LockHeld, WriteKnown, AnswersAreTrue, FirstToEnd,
        StampsTraced, OncePerRow, Handling, Rows, Callers
<1>2. CallsInv /\ [CallsNext]_callVars => CallsInv'
  BY CallTypes, LockInductive, AnswersInductive, EndingsInductive,
     StampsInductive
  DEF CallsInv
<1>3. QED
  BY <1>1, <1>2, PTL DEF CallsSpec

(* What a caller was told is what was committed, for every schedule of      *)
(* clients that give up, failing statements and a daemon that stops.        *)
THEOREM AnswersTrue == CallsSpec => []AnswersAreTrue
  BY CallsInvariant, PTL DEF CallsInv

(* A goal ends once through the daemon: two endings have a command among    *)
(* their writers.                                                           *)
THEOREM EndsOnce == CallsSpec => []OneEnding
<1>1. CallsInv => OneEnding
  <2> SUFFICES ASSUME CallsInv PROVE OneEnding
    OBVIOUS
  <2>1. ASSUME NEW g \in Goals, Cardinality(stamps[g]) > 1
        PROVE  \E m \in effects \cap Commands : Row(m) = g
    <3>1. stamps[g] \in SUBSET {"completed", "abandoned"}
      BY DEF CallsInv, CallsTypeOK, Rows
    <3>2. {"completed", "abandoned"} \subseteq stamps[g]
      <4>1. \A e : stamps[g] \subseteq {e} => Cardinality(stamps[g]) <= 1
        <5> TAKE e
        <5>1. IsFiniteSet({e}) /\ Cardinality({e}) = 1
          BY FS_Singleton
        <5>2. QED
          BY <5>1, FS_Subset
      <4>2. stamps[g] \subseteq {"completed"} \/ stamps[g] \subseteq {"abandoned"}
              \/ {"completed", "abandoned"} \subseteq stamps[g]
        BY <3>1
      <4>3. Cardinality(stamps[g]) \in Nat
        <5>1. IsFiniteSet({"completed", "abandoned"})
          <6>1. IsFiniteSet({"completed"})
            BY FS_Singleton
          <6>2. IsFiniteSet({"completed"} \cup {"abandoned"})
            BY <6>1, FS_AddElement
          <6>3. {"completed"} \cup {"abandoned"} = {"completed", "abandoned"}
            OBVIOUS
          <6>4. QED
            BY <6>2, <6>3
        <5>2. QED
          BY <3>1, <5>1, FS_Subset, FS_CardinalityType
      <4>4. QED
        BY <2>1, <4>1, <4>2, <4>3
    <3>3. PICK r \in effects : Row(r) = g /\ Ending(r) = "completed"
      BY <3>2 DEF CallsInv, StampsTraced
    <3>4. PICK q \in effects : Row(q) = g /\ Ending(q) = "abandoned"
      BY <3>2 DEF CallsInv, StampsTraced
    <3>5. r # q /\ r \in Callers /\ q \in Callers
      BY <3>3, <3>4 DEF CallsInv, CallsTypeOK
    <3>6. ~(r \in Calls /\ q \in Calls)
      BY <3>3, <3>4, <3>5 DEF CallsInv, OncePerRow
    <3>7. QED
      BY <3>3, <3>4, <3>5, <3>6 DEF Callers
  <2>2. QED
    BY <2>1 DEF OneEnding, CallsInv, OncePerRow
<1>2. QED
  BY <1>1, CallsInvariant, PTL
=============================================================================
