---------------------------- MODULE DaemonProofs ----------------------------
(***************************************************************************)
(* Proofs about Daemon: for any number of daemons, sessions, start-ups and *)
(* crashes, on Windows as it is and on Unix if start-ups do not overlap    *)
(* (the run TwoDaemons shows why that is needed there).                    *)
(*                                                                         *)
(* The properties are not inductive.  ProcessInv adds what Listener::bind  *)
(* knows at each of its system calls: that it is the only one starting,    *)
(* and that nobody is behind the endpoint once it is about to be removed.  *)
(* HistoryInv adds what a daemon holds in memory at each point of main,    *)
(* that commands have a session row, and which rows are out of date since  *)
(* their write failed.                                                     *)
(***************************************************************************)
EXTENDS Daemon, TLAPS

\* On Unix, start-ups are one after another.
Sequential == "unix" \in Platforms => ~OverlapStarts

OnlyOneStarts ==
    platform = "unix" =>
        \A d, e \in Daemons : dpc[d] \in Starting /\ dpc[e] \in Starting => d = e

RemovesTheDead ==
    /\ \A d \in Daemons : dpc[d] \in {"exists", "connect", "remove"} => platform = "unix"
    /\ \A d, e \in Daemons : dpc[d] = "remove" => dpc[e] \notin Bound

ProcessInv == DaemonTypeOK /\ OneDaemon /\ OnlyOneStarts /\ RemovesTheDead

\* What a daemon that started alone finds.
AloneInv ==
    /\ \A d \in alone, e \in Daemons : e # d => dpc[e] \in {"off", "refused"}
    /\ platform = "windows" /\ endpoint # Nobody => dpc[endpoint] \in Bound
    /\ \A d \in alone :
         /\ dpc[d] \in {"connect", "remove"} => endpoint # Nobody
         /\ dpc[d] = "bind" => endpoint = Nobody

Running(d) == dpc[d] \in {"serving", "stopping"}

HistoryInv ==
    /\ \A d \in Daemons : ~Running(d) => tasks[d] = {} /\ \A s \in Sessions : mem[d][s] = "none"
    /\ \A d \in Daemons, s \in Sessions \ unwritten : mem[d][s] = "live" => row[s] = "live"
    /\ \A d \in Daemons, s \in Sessions : dpc[d] = "clean" => row[s] # "live"
    /\ \A s \in Sessions : row[s] = "none" => cmd[s] = "none"
    /\ \A d \in Daemons, s \in Sessions \ stuck :
         mem[d][s] # "none" /\ cmd[s] = "running" => s \in tasks[d]
    /\ NoGhostSessions
    /\ RecentCommandsAreKept

-----------------------------------------------------------------------------
(* The processes.                                                          *)

LEMMA ProcessInit == DaemonInit => ProcessInv /\ AloneInv
  BY DaemonAssumption
     DEF DaemonInit, ProcessInv, DaemonTypeOK, OneDaemon, OnlyOneStarts, RemovesTheDead,
         AloneInv, NoSessions, Bound, Starting, Ended

(* A serving daemon's requests change nothing but the history.             *)
LEMMA ServeKeepsProcesses ==
  ASSUME NEW d \in Daemons, Serve(d) PROVE UNCHANGED processVars
  BY DEF Serve, Reap, CreateSession, BecomeLive, StartCommand, StartFails, EndCommand,
         EndFails, LoseConnection, CloseSession

(* A change of a session's status, written or not: memory has it, the row  *)
(* has it or is marked as out of date, and nothing else changes.           *)
LEMMA UpsertStep ==
  ASSUME DaemonTypeOK, NEW d \in Daemons, NEW s \in Sessions,
         NEW status \in {"live", "closed", "disconnected"}, Upsert(d, s, status)
  PROVE  /\ mem' = [mem EXCEPT ![d][s] = status]
         /\ mem' \in [Daemons -> [Sessions -> {"none", "live", "closed", "disconnected"}]]
         /\ row' \in [Sessions -> Ended \cup {"none", "live"}]
         /\ unwritten' \subseteq Sessions
         /\ \A x \in Sessions \ {s} : row'[x] = row[x] /\ (x \in unwritten' <=> x \in unwritten)
         /\ s \notin unwritten' => row'[s] = status
         /\ row[s] # "none" => row'[s] # "none"
<1>1. CASE Written(s, status)
  BY <1>1 DEF DaemonTypeOK, Upsert, Written, Ended
<1>2. CASE Unwritten(s, status)
  BY <1>2 DEF DaemonTypeOK, Upsert, Unwritten, Ended
<1> QED BY <1>1, <1>2 DEF Upsert

(* A foreground command makes its session live, a background command does  *)
(* not touch it.                                                           *)
LEMMA StartCommandStep ==
  ASSUME NEW d \in Daemons, NEW s \in Sessions, StartCommand(d, s)
  PROVE  UNCHANGED <<mem, row, unwritten>> \/ Upsert(d, s, "live")
  BY DEF StartCommand, Upsert

LEMMA TypeStep ==
  ASSUME DaemonTypeOK, [DaemonNext]_daemonVars PROVE DaemonTypeOK'
<1> USE DaemonAssumption DEF DaemonTypeOK, Go, NoSessions, Starting, Bound, Ended
<1>1. CASE UNCHANGED daemonVars
  BY <1>1 DEF daemonVars, processVars, historyVars, memoryVars
<1>2. ASSUME NEW d \in Daemons, StartDaemon(d) PROVE DaemonTypeOK'
  BY <1>2 DEF StartDaemon, BeginMain, historyVars, memoryVars
<1>3. ASSUME NEW d \in Daemons, StartUp(d) PROVE DaemonTypeOK'
  <2>1. CASE LookAtEndpoint(d) BY <2>1 DEF LookAtEndpoint, historyVars, memoryVars
  <2>2. CASE ConnectToEndpoint(d) BY <2>2 DEF ConnectToEndpoint, historyVars, memoryVars
  <2>3. CASE RemoveStale(d) BY <2>3 DEF RemoveStale, historyVars, memoryVars
  <2>4. CASE BindEndpoint(d) BY <2>4 DEF BindEndpoint, Take, historyVars, memoryVars
  <2>5. CASE CreatePipe(d) BY <2>5 DEF CreatePipe, Take, historyVars, memoryVars
  <2>6. CASE OpenStorage(d) BY <2>6 DEF OpenStorage, historyVars, memoryVars
  <2>7. CASE InterruptUnfinished(d) BY <2>7 DEF InterruptUnfinished, memoryVars
  <2>8. CASE StartServing(d) BY <2>8 DEF StartServing, Cleanup
  <2> QED BY <1>3, <2>1, <2>2, <2>3, <2>4, <2>5, <2>6, <2>7, <2>8 DEF StartUp
<1>4. ASSUME NEW d \in Daemons, Serve(d) PROVE DaemonTypeOK'
  <2>1. CASE Reap(d) BY <2>1 DEF Reap, Cleanup, processVars, memoryVars
  <2>2. ASSUME NEW s \in Sessions, CreateSession(d, s) PROVE DaemonTypeOK'
    BY <2>2 DEF CreateSession, Written, processVars
  <2>3. ASSUME NEW s \in Sessions, BecomeLive(d, s) PROVE DaemonTypeOK'
    BY <2>3, UpsertStep DEF BecomeLive, processVars
  <2>4. ASSUME NEW s \in Sessions, StartCommand(d, s) PROVE DaemonTypeOK'
    <3>1. CASE UNCHANGED <<mem, row, unwritten>>
      BY <2>4, <3>1 DEF StartCommand, InsertCommand, processVars
    <3>2. CASE Upsert(d, s, "live")
      BY <2>4, <3>2, UpsertStep DEF StartCommand, InsertCommand, processVars
    <3> QED BY <2>4, <3>1, <3>2, StartCommandStep
  <2>5. ASSUME NEW s \in Sessions, StartFails(d, s) PROVE DaemonTypeOK'
    BY <2>5 DEF StartFails, Unwritten, InsertCommand, processVars
  <2>6. ASSUME NEW s \in Sessions, EndCommand(d, s) PROVE DaemonTypeOK'
    BY <2>6 DEF EndCommand, processVars
  <2>7. ASSUME NEW s \in Sessions, EndFails(d, s) PROVE DaemonTypeOK'
    BY <2>7 DEF EndFails, processVars
  <2>8. ASSUME NEW s \in Sessions, LoseConnection(d, s) PROVE DaemonTypeOK'
    BY <2>8, UpsertStep DEF LoseConnection, processVars
  <2>9. ASSUME NEW s \in Sessions, CloseSession(d, s) PROVE DaemonTypeOK'
    BY <2>9, UpsertStep DEF CloseSession, processVars
  <2> QED BY <1>4, <2>1, <2>2, <2>3, <2>4, <2>5, <2>6, <2>7, <2>8, <2>9 DEF Serve
<1>5. ASSUME NEW d \in Daemons, Shutdown(d) PROVE DaemonTypeOK'
  BY <1>5 DEF Shutdown, historyVars, memoryVars
<1>6. ASSUME NEW d \in Daemons, Stop(d) PROVE DaemonTypeOK'
  BY <1>6 DEF Stop, Forget, historyVars
<1>7. ASSUME NEW d \in Daemons, StorageFails(d) PROVE DaemonTypeOK'
  BY <1>7 DEF StorageFails, Exit, Forget, historyVars
<1>8. ASSUME NEW d \in Daemons, Crash(d) PROVE DaemonTypeOK'
  BY <1>8 DEF Crash, Exit, Forget, historyVars
<1>9. ASSUME NEW s \in Sessions, Age(s) PROVE DaemonTypeOK'
  BY <1>9 DEF Age, processVars, memoryVars
<1> QED BY <1>1, <1>2, <1>3, <1>4, <1>5, <1>6, <1>7, <1>8, <1>9 DEF DaemonNext

LEMMA ProcessStep ==
  ASSUME Sequential, ProcessInv, [DaemonNext]_daemonVars PROVE ProcessInv'
<1> USE DaemonAssumption
    DEF ProcessInv, DaemonTypeOK, OneDaemon, OnlyOneStarts, RemovesTheDead, Go, Starting, Bound
<1>0. DaemonTypeOK' BY TypeStep
<1>1. CASE UNCHANGED processVars
  BY <1>0, <1>1 DEF processVars
<1>2. ASSUME NEW d \in Daemons, StartDaemon(d) PROVE ProcessInv'
  BY <1>0, <1>2 DEF StartDaemon, BeginMain, Sequential
<1>3. ASSUME NEW d \in Daemons, StartUp(d) PROVE ProcessInv'
  <2>1. CASE LookAtEndpoint(d) BY <1>0, <2>1 DEF LookAtEndpoint
  <2>2. CASE ConnectToEndpoint(d)
    <3>1. \A e \in Daemons : dpc'[e] \in Bound <=> dpc[e] \in Bound
      BY <2>2 DEF ConnectToEndpoint
    <3>2. OneDaemon'
      BY <2>2, <3>1 DEF ConnectToEndpoint
    <3>3. OnlyOneStarts'
      BY <2>2 DEF ConnectToEndpoint
    <3>4. ASSUME dpc'[d] = "remove", NEW e \in Daemons PROVE dpc[e] \notin Bound
      BY <2>2, <3>4 DEF ConnectToEndpoint
    <3>5. RemovesTheDead'
      BY <2>2, <3>1, <3>4 DEF ConnectToEndpoint
    <3> QED BY <1>0, <3>2, <3>3, <3>5
  <2>3. CASE RemoveStale(d) BY <1>0, <2>3 DEF RemoveStale
  <2>4. CASE BindEndpoint(d)
    <3>1. CASE endpoint = Nobody
      <4>1. \A e \in Daemons : dpc[e] \notin Bound BY <3>1
      <4>2. /\ platform = "unix" /\ dpc[d] = "bind" /\ platform' = platform
            /\ dpc' = [dpc EXCEPT ![d] = "open"] /\ endpoint' = d
        BY <2>4, <3>1 DEF BindEndpoint, Take
      <4>3. OneDaemon' BY <4>1, <4>2
      <4>4. OnlyOneStarts' BY <4>2
      <4>5. RemovesTheDead' BY <4>1, <4>2
      <4> QED BY <1>0, <4>3, <4>4, <4>5
    <3>2. CASE endpoint # Nobody
      <4>1. /\ dpc[d] = "bind" /\ platform' = platform
            /\ dpc' = [dpc EXCEPT ![d] = "refused"] /\ endpoint' = endpoint
        BY <2>4, <3>2 DEF BindEndpoint, Take
      <4> QED BY <1>0, <4>1
    <3> QED BY <3>1, <3>2
  <2>5. CASE CreatePipe(d) BY <1>0, <2>5 DEF CreatePipe, Take
  <2>6. CASE OpenStorage(d) BY <1>0, <2>6 DEF OpenStorage
  <2>7. CASE InterruptUnfinished(d) BY <1>0, <2>7 DEF InterruptUnfinished
  <2>8. CASE StartServing(d) BY <1>0, <2>8 DEF StartServing
  <2> QED BY <1>3, <2>1, <2>2, <2>3, <2>4, <2>5, <2>6, <2>7, <2>8 DEF StartUp
<1>5. ASSUME NEW d \in Daemons, Shutdown(d) PROVE ProcessInv'
  BY <1>0, <1>5 DEF Shutdown
<1>6. ASSUME NEW d \in Daemons, Stop(d) PROVE ProcessInv'
  BY <1>0, <1>6 DEF Stop
<1>7. ASSUME NEW d \in Daemons, StorageFails(d) PROVE ProcessInv'
  BY <1>0, <1>7 DEF StorageFails, Exit
<1>8. ASSUME NEW d \in Daemons, Crash(d) PROVE ProcessInv'
  BY <1>0, <1>8 DEF Crash, Exit
<1> QED
  BY <1>1, <1>2, <1>3, <1>5, <1>6, <1>7, <1>8, ServeKeepsProcesses
     DEF DaemonNext, daemonVars, Age

(* A second daemon refuses to start: no two daemons get past               *)
(* Listener::bind, and the endpoint is that of the one that has.           *)
THEOREM OneDaemonAtATime == Sequential => (DaemonSpec => []OneDaemon)
<1> SUFFICES ASSUME Sequential PROVE DaemonSpec => []OneDaemon
  OBVIOUS
<1>1. DaemonInit => ProcessInv BY ProcessInit
<1>2. ProcessInv /\ [DaemonNext]_daemonVars => ProcessInv' BY ProcessStep
<1>3. ProcessInv => OneDaemon BY DEF ProcessInv
<1> QED BY <1>1, <1>2, <1>3, PTL DEF DaemonSpec

-----------------------------------------------------------------------------
(* A daemon that is alone.                                                 *)

LEMMA AloneStep ==
  ASSUME ProcessInv, AloneInv, DeadIsTakenOver, [DaemonNext]_daemonVars
  PROVE  AloneInv' /\ DeadIsTakenOver'
<1> USE DaemonAssumption
    DEF ProcessInv, DaemonTypeOK, AloneInv, DeadIsTakenOver, OneDaemon, RemovesTheDead,
        Go, Starting, Bound
<1> DEFINE Goal == AloneInv' /\ DeadIsTakenOver'
<1>1. CASE UNCHANGED processVars
  BY <1>1 DEF processVars
<1>2. ASSUME NEW d \in Daemons, StartDaemon(d) PROVE Goal
  BY <1>2 DEF StartDaemon, BeginMain
<1>3. ASSUME NEW d \in Daemons, StartUp(d) PROVE Goal
  <2>1. CASE LookAtEndpoint(d) BY <2>1 DEF LookAtEndpoint
  <2>2. CASE ConnectToEndpoint(d) BY <2>2 DEF ConnectToEndpoint
  <2>3. CASE RemoveStale(d) BY <2>3 DEF RemoveStale
  <2>4. CASE BindEndpoint(d) BY <2>4 DEF BindEndpoint, Take
  <2>5. CASE CreatePipe(d) BY <2>5 DEF CreatePipe, Take
  <2>6. CASE OpenStorage(d) BY <2>6 DEF OpenStorage
  <2>7. CASE InterruptUnfinished(d) BY <2>7 DEF InterruptUnfinished
  <2>8. CASE StartServing(d) BY <2>8 DEF StartServing
  <2> QED BY <1>3, <2>1, <2>2, <2>3, <2>4, <2>5, <2>6, <2>7, <2>8 DEF StartUp
<1>5. ASSUME NEW d \in Daemons, Shutdown(d) PROVE Goal
  BY <1>5 DEF Shutdown
<1>6. ASSUME NEW d \in Daemons, Stop(d) PROVE Goal
  BY <1>6 DEF Stop
<1>7. ASSUME NEW d \in Daemons, StorageFails(d) PROVE Goal
  BY <1>7 DEF StorageFails, Exit
<1>8. ASSUME NEW d \in Daemons, Crash(d) PROVE Goal
  BY <1>8 DEF Crash, Exit
<1> QED
  BY <1>1, <1>2, <1>3, <1>5, <1>6, <1>7, <1>8, ServeKeepsProcesses
     DEF DaemonNext, daemonVars, Age

(* A daemon that starts while no other is alive gets the endpoint, whatever *)
(* its predecessors left there.                                            *)
THEOREM TakesOverTheDead == Sequential => (DaemonSpec => []DeadIsTakenOver)
<1> SUFFICES ASSUME Sequential PROVE DaemonSpec => []DeadIsTakenOver
  OBVIOUS
<1> DEFINE I == ProcessInv /\ AloneInv /\ DeadIsTakenOver
<1>1. DaemonInit => I BY ProcessInit DEF DaemonInit, DeadIsTakenOver
<1>2. I /\ [DaemonNext]_daemonVars => I' BY ProcessStep, AloneStep
<1>3. I => DeadIsTakenOver OBVIOUS
<1> QED BY <1>1, <1>2, <1>3, PTL DEF DaemonSpec

-----------------------------------------------------------------------------
(* The history.                                                            *)

(* While one daemon runs, nobody else remembers or works on anything.      *)
LEMMA OthersAreEmpty ==
  ASSUME ProcessInv, HistoryInv, NEW d \in Daemons, dpc[d] \in Bound,
         NEW e \in Daemons, e # d
  PROVE  tasks[e] = {} /\ \A s \in Sessions : mem[e][s] = "none"
  BY DEF ProcessInv, OneDaemon, HistoryInv, Running, Bound

(* A change of the status of a session that a serving daemon holds.        *)
LEMMA StatusStep ==
  ASSUME ProcessInv, HistoryInv, NEW d \in Daemons, NEW s \in Sessions, Serving(d),
         mem[d][s] # "none", NEW status \in {"live", "closed", "disconnected"},
         Upsert(d, s, status), UNCHANGED <<dpc, cmd, old, stuck, tasks>>
  PROVE  HistoryInv'
<1> USE DaemonAssumption
    DEF DaemonTypeOK, HistoryInv, NoGhostSessions, RecentCommandsAreKept, Running, Serving,
        Bound, Ended
<1>1. DaemonTypeOK BY DEF ProcessInv
<1>2. ASSUME NEW e \in Daemons \ {d}
      PROVE  dpc[e] \notin Bound /\ tasks[e] = {} /\ \A x \in Sessions : mem[e][x] = "none"
  BY <1>2, OthersAreEmpty DEF ProcessInv, OneDaemon
<1>3. /\ mem' = [mem EXCEPT ![d][s] = status]
      /\ row' \in [Sessions -> Ended \cup {"none", "live"}]
      /\ \A x \in Sessions \ {s} : row'[x] = row[x] /\ (x \in unwritten' <=> x \in unwritten)
      /\ s \notin unwritten' => row'[s] = status
      /\ row[s] # "none" => row'[s] # "none"
  BY <1>1, UpsertStep
<1> QED BY <1>1, <1>2, <1>3

LEMMA HistoryStep ==
  ASSUME ProcessInv, HistoryInv, [DaemonNext]_daemonVars PROVE HistoryInv'
<1> USE DaemonAssumption
    DEF DaemonTypeOK, HistoryInv, NoGhostSessions, RecentCommandsAreKept, Running, Serving,
        Go, Starting, Bound, Ended
<1>a. DaemonTypeOK BY DEF ProcessInv
<1>1. CASE UNCHANGED daemonVars
  BY <1>1 DEF daemonVars, processVars, historyVars, memoryVars
<1>2. ASSUME NEW d \in Daemons, StartDaemon(d) PROVE HistoryInv'
  BY <1>a, <1>2 DEF StartDaemon, BeginMain, historyVars, memoryVars
<1>3. ASSUME NEW d \in Daemons, StartUp(d) PROVE HistoryInv'
  <2>1. CASE LookAtEndpoint(d) BY <1>a, <2>1 DEF LookAtEndpoint, historyVars, memoryVars
  <2>2. CASE ConnectToEndpoint(d) BY <1>a, <2>2 DEF ConnectToEndpoint, historyVars, memoryVars
  <2>3. CASE RemoveStale(d) BY <1>a, <2>3 DEF RemoveStale, historyVars, memoryVars
  <2>4. CASE BindEndpoint(d)
    <3>1. PICK to \in {"open", "refused"} : dpc' = [dpc EXCEPT ![d] = to]
      BY <2>4 DEF BindEndpoint, Take
    <3>2. ~Running(d) BY <2>4 DEF BindEndpoint, Take
    <3> QED BY <1>a, <2>4, <3>1, <3>2 DEF BindEndpoint, Take, historyVars, memoryVars
  <2>5. CASE CreatePipe(d)
    <3>1. PICK to \in {"open", "refused"} : dpc' = [dpc EXCEPT ![d] = to]
      BY <2>5 DEF CreatePipe, Take
    <3>2. ~Running(d) BY <2>5 DEF CreatePipe, Take
    <3> QED BY <1>a, <2>5, <3>1, <3>2 DEF CreatePipe, Take, historyVars, memoryVars
  <2>6. CASE OpenStorage(d) BY <1>a, <2>6 DEF OpenStorage, historyVars, memoryVars
  <2>7. CASE InterruptUnfinished(d)
    <3>1. \A e \in Daemons, s \in Sessions : mem[e][s] = "none" /\ ~Serving(e)
      BY <1>a, <2>7, OthersAreEmpty DEF InterruptUnfinished, ProcessInv, OneDaemon
    <3> QED BY <1>a, <2>7, <3>1 DEF InterruptUnfinished, memoryVars
  <2>8. CASE StartServing(d)
    <3>1. \A e \in Daemons, s \in Sessions : mem'[e][s] = "none" /\ mem[e][s] = "none"
      BY <1>a, <2>8, OthersAreEmpty DEF StartServing, NoSessions
    <3>2. \A e \in Daemons : tasks[e] = {}
      BY <1>a, <2>8, OthersAreEmpty DEF StartServing
    <3>3. \A e \in Daemons \ {d} : dpc[e] \notin Bound
      BY <2>8 DEF StartServing, ProcessInv, OneDaemon
    <3> QED BY <1>a, <2>8, <3>1, <3>2, <3>3 DEF StartServing, Cleanup
  <2> QED BY <1>3, <2>1, <2>2, <2>3, <2>4, <2>5, <2>6, <2>7, <2>8 DEF StartUp
<1>4. ASSUME NEW d \in Daemons, Serve(d) PROVE HistoryInv'
  <2>0. UNCHANGED dpc BY <1>4, ServeKeepsProcesses DEF processVars
  <2>1. CASE Reap(d) BY <1>a, <2>0, <2>1 DEF Reap, Cleanup, memoryVars
  <2>a. ASSUME Serving(d), NEW e \in Daemons \ {d}
        PROVE  dpc[e] \notin Bound /\ tasks[e] = {} /\ \A x \in Sessions : mem[e][x] = "none"
    BY <2>a, OthersAreEmpty DEF ProcessInv, OneDaemon
  <2>2. ASSUME NEW s \in Sessions, CreateSession(d, s) PROVE HistoryInv'
    <3>1. /\ mem' = [mem EXCEPT ![d][s] = "live"] /\ row' = [row EXCEPT ![s] = "live"]
          /\ dpc[d] = "serving" /\ row[s] = "none" /\ mem[d][s] = "none"
          /\ UNCHANGED <<cmd, old, tasks, stuck>> /\ unwritten' = unwritten \ {s}
      BY <2>2 DEF CreateSession, Written
    <3> QED BY <1>a, <2>0, <2>a, <3>1
  <2>3. ASSUME NEW s \in Sessions, BecomeLive(d, s) PROVE HistoryInv'
    BY <2>3, StatusStep DEF BecomeLive, ProcessInv, processVars
  <2>4. ASSUME NEW s \in Sessions, StartCommand(d, s) PROVE HistoryInv'
    <3>1. /\ cmd' = [cmd EXCEPT ![s] = "running"]
          /\ tasks' = [tasks EXCEPT ![d] = @ \cup {s}]
          /\ dpc[d] = "serving" /\ row[s] # "none" /\ mem[d][s] # "none"
          /\ UNCHANGED <<old, stuck>>
      BY <2>4 DEF StartCommand, InsertCommand
    <3>2. CASE UNCHANGED <<mem, row, unwritten>>
      BY <1>a, <2>0, <2>a, <3>1, <3>2
    <3>3. CASE Upsert(d, s, "live")
      <4>1. /\ mem' = [mem EXCEPT ![d][s] = "live"]
            /\ row' \in [Sessions -> Ended \cup {"none", "live"}]
            /\ \A x \in Sessions \ {s} : row'[x] = row[x] /\ (x \in unwritten' <=> x \in unwritten)
            /\ s \notin unwritten' => row'[s] = "live"
            /\ row'[s] # "none"
        BY <1>a, <3>1, <3>3, UpsertStep
      <4> QED BY <1>a, <2>0, <2>a, <3>1, <4>1
    <3> QED BY <2>4, <3>2, <3>3, StartCommandStep
  <2>5. ASSUME NEW s \in Sessions, StartFails(d, s) PROVE HistoryInv'
    <3>1. /\ mem' = [mem EXCEPT ![d][s] = "live"] /\ cmd' = [cmd EXCEPT ![s] = "running"]
          /\ row' = row /\ row[s] # "none" /\ dpc[d] = "serving"
          /\ \A x \in Sessions \ {s} : x \in unwritten' <=> x \in unwritten
          /\ s \notin unwritten' => row[s] = "live"
          /\ stuck' = stuck \cup {s} /\ UNCHANGED <<old, tasks>>
          /\ \A e \in Daemons : s \notin tasks[e]
      BY <2>5 DEF StartFails, InsertCommand, Unwritten
    <3> QED BY <1>a, <2>0, <2>a, <3>1
  <2>6. ASSUME NEW s \in Sessions, EndCommand(d, s) PROVE HistoryInv'
    BY <1>a, <2>0, <2>6, OthersAreEmpty DEF EndCommand
  <2>7. ASSUME NEW s \in Sessions, EndFails(d, s) PROVE HistoryInv'
    BY <1>a, <2>0, <2>7, OthersAreEmpty DEF EndFails
  <2>8. ASSUME NEW s \in Sessions, LoseConnection(d, s) PROVE HistoryInv'
    BY <2>8, StatusStep DEF LoseConnection, ProcessInv, processVars
  <2>9. ASSUME NEW s \in Sessions, CloseSession(d, s) PROVE HistoryInv'
    BY <2>9, StatusStep DEF CloseSession, ProcessInv, processVars
  <2> QED BY <1>4, <2>1, <2>2, <2>3, <2>4, <2>5, <2>6, <2>7, <2>8, <2>9 DEF Serve
<1>5. ASSUME NEW d \in Daemons, Shutdown(d) PROVE HistoryInv'
  BY <1>a, <1>5 DEF Shutdown, historyVars, memoryVars
<1>6. ASSUME NEW d \in Daemons, Stop(d) PROVE HistoryInv'
  BY <1>a, <1>6 DEF Stop, Forget, historyVars, NoSessions
<1>7. ASSUME NEW d \in Daemons, StorageFails(d) PROVE HistoryInv'
  BY <1>a, <1>7 DEF StorageFails, Exit, Forget, historyVars, NoSessions
<1>8. ASSUME NEW d \in Daemons, Crash(d) PROVE HistoryInv'
  BY <1>a, <1>8 DEF Crash, Exit, Forget, historyVars, NoSessions
<1>9. ASSUME NEW s \in Sessions, Age(s) PROVE HistoryInv'
  BY <1>a, <1>9 DEF Age, processVars, memoryVars
<1> QED BY <1>1, <1>2, <1>3, <1>4, <1>5, <1>6, <1>7, <1>8, <1>9 DEF DaemonNext

LEMMA HistoryHolds == Sequential => (DaemonSpec => []HistoryInv)
<1> SUFFICES ASSUME Sequential PROVE DaemonSpec => []HistoryInv
  OBVIOUS
<1> DEFINE I == ProcessInv /\ HistoryInv
<1>1. DaemonInit => HistoryInv
  BY DEF DaemonInit, HistoryInv, NoGhostSessions, RecentCommandsAreKept, NoSessions, Serving
<1>2. DaemonInit => I BY <1>1, ProcessInit
<1>3. I /\ [DaemonNext]_daemonVars => I' BY ProcessStep, HistoryStep
<1>4. I => HistoryInv OBVIOUS
<1> QED BY <1>2, <1>3, <1>4, PTL DEF DaemonSpec

(* No start-up of another daemon touches the row of a live session, and no *)
(* crash leaves a session that a later daemon reports as live.  Writes may *)
(* fail: what the history then says of a session is wrong only as long as  *)
(* this daemon has not written it again, and no longer than its process.   *)
THEOREM HistoryStaysHonest == Sequential => (DaemonSpec => []HistoryAgrees)
<1>1. HistoryInv => LiveRowsAreKept BY DEF HistoryInv, LiveRowsAreKept
<1>2. HistoryInv => HistoryAgrees BY <1>1 DEF HistoryInv, HistoryAgrees
<1> QED BY <1>2, HistoryHolds, PTL

(* A command of a session the daemon holds is only reported running while  *)
(* its task is at work, or if a write failed that should have ended it or  *)
(* that its task was to follow.                                            *)
THEOREM RunningMeansRunning == Sequential => (DaemonSpec => []RunningIsHonest)
<1>1. HistoryInv => RunningIsHonest BY DEF HistoryInv, RunningIsHonest
<1> QED BY <1>1, HistoryHolds, PTL

(* Retention never removes the command row of a running task whose session *)
(* is younger than the retention.                                          *)
THEOREM RunningRowsAreKept == Sequential => (DaemonSpec => []RecentCommandsAreKept)
<1>1. HistoryInv => RecentCommandsAreKept BY DEF HistoryInv
<1> QED BY <1>1, HistoryHolds, PTL

-----------------------------------------------------------------------------

(* The variables of the daemons keep their types.                          *)
THEOREM DaemonTypeCorrect == DaemonSpec => []DaemonTypeOK
<1>1. DaemonInit => DaemonTypeOK BY ProcessInit DEF ProcessInv
<1>2. DaemonTypeOK /\ [DaemonNext]_daemonVars => DaemonTypeOK' BY TypeStep
<1> QED BY <1>1, <1>2, PTL DEF DaemonSpec

=============================================================================
