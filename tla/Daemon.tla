------------------------------- MODULE Daemon -------------------------------
(***************************************************************************)
(* The life of aisshd: apps/daemon main takes the endpoint over (crates/ipc), *)
(* opens the history (crates/storage), marks what an earlier daemon left   *)
(* unfinished, deletes what is past its retention, serves, and is shut     *)
(* down or dies.  Start-ups of several daemon processes interleave at      *)
(* every system call on the endpoint; the database is shared by all.       *)
(*                                                                         *)
(* A session is abstracted to the statuses the history tells apart (live   *)
(* stands for connecting, ready, idle, exec_running and pty_open,          *)
(* disconnected also for failed), a session's commands to one command.     *)
(* The details within a session are in SessionRuntime and Recording.  A    *)
(* write to the history may fail at any time; what memory says of the      *)
(* session has changed by then.                                            *)
(***************************************************************************)
EXTENDS Naturals, FiniteSets

CONSTANTS Daemons,        \* processes running aisshd
          Sessions,
          Nobody,         \* no daemon behind the endpoint
          Platforms,      \* subset of {"unix", "windows"}
          OverlapStarts,  \* whether a Unix daemon may start during another's start-up
          MaxStarts,      \* bound: start-ups
          MaxCrashes      \* bound: daemons killed

ASSUME DaemonAssumption ==
    /\ Nobody \notin Daemons
    /\ Platforms \subseteq {"unix", "windows"}
    /\ OverlapStarts \in BOOLEAN
    /\ MaxStarts \in Nat /\ MaxCrashes \in Nat

VARIABLES
    platform,   \* fixed when the program is built
    endpoint,   \* whose socket the endpoint's name stands for, dead or alive
    dpc,        \* progress of each daemon's main
    alone,      \* history: a daemon that has been alone since it started
    row,        \* sessions table: status, or "none"
    cmd,        \* commands table: status of the session's command, or "none"
    old,        \* sessions created more than retention_days ago
    unwritten,  \* history: sessions whose row is out of date as its write failed
    stuck,      \* history: sessions whose command ended, or never began, unwritten
    mem,        \* SessionManager.sessions of each daemon
    tasks,      \* sessions whose command has a running run_exec task
    starts, crashes

processVars == <<platform, endpoint, dpc, alone, starts, crashes>>
historyVars == <<row, cmd, old, unwritten, stuck>>
memoryVars  == <<mem, tasks>>
daemonVars  == <<processVars, historyVars, memoryVars>>

Starting == {"exists", "connect", "remove", "bind", "open", "recover", "clean"}
Bound    == {"open", "recover", "clean", "serving", "stopping"}
Ended    == {"closed", "disconnected", "interrupted"}

Serving(d) == dpc[d] = "serving"

NoSessions == [s \in Sessions |-> "none"]

DaemonInit ==
    /\ platform \in Platforms
    /\ endpoint = Nobody
    /\ dpc = [d \in Daemons |-> "off"]
    /\ alone = {}
    /\ row = NoSessions /\ cmd = NoSessions /\ old = {}
    /\ unwritten = {} /\ stuck = {}
    /\ mem = [d \in Daemons |-> NoSessions]
    /\ tasks = [d \in Daemons |-> {}]
    /\ starts = 0 /\ crashes = 0

-----------------------------------------------------------------------------
(* Start-up.                                                               *)

Go(d, from, to) == dpc[d] = from /\ dpc' = [dpc EXCEPT ![d] = to]

\* main, with its configuration loaded, comes to Listener::bind.
BeginMain(d) ==
    /\ dpc[d] \in {"off", "refused"}
    /\ OverlapStarts \/ platform = "windows"
                     \/ \A e \in Daemons : dpc[e] \notin Starting
    /\ dpc' = [dpc EXCEPT ![d] = IF platform = "unix" THEN "exists" ELSE "bind"]
    /\ alone' = IF \A e \in Daemons \ {d} : dpc[e] \in {"off", "refused"}
                THEN {d} ELSE {}
    /\ UNCHANGED <<platform, endpoint, crashes, memoryVars>>

\* Mutant: the history is recovered before the endpoint is bound.
StartDaemonRecovering(d) ==
    /\ starts < MaxStarts /\ starts' = starts + 1
    /\ BeginMain(d)
    /\ row' = [s \in Sessions |-> IF row[s] = "live" THEN "interrupted" ELSE row[s]]
    /\ UNCHANGED <<cmd, old, unwritten, stuck>>

StartDaemon(d) ==
    /\ starts < MaxStarts /\ starts' = starts + 1
    /\ BeginMain(d)
    /\ UNCHANGED historyVars

\* unix bind: endpoint.exists()
LookAtEndpoint(d) ==
    /\ dpc[d] = "exists"
    /\ dpc' = [dpc EXCEPT ![d] = IF endpoint = Nobody THEN "bind" ELSE "connect"]
    /\ UNCHANGED <<platform, endpoint, alone, starts, crashes, historyVars, memoryVars>>

\* Mutant: a socket nobody answers on is taken for a running daemon.
ConnectOrRefuse(d) ==
    /\ dpc[d] = "connect"
    /\ dpc' = [dpc EXCEPT ![d] = "refused"]
    /\ UNCHANGED <<platform, endpoint, alone, starts, crashes, historyVars, memoryVars>>

\* unix bind: AddrInUse if somebody answers; refused or not found if not.
ConnectToEndpoint(d) ==
    /\ dpc[d] = "connect"
    /\ dpc' = [dpc EXCEPT ![d] = IF endpoint # Nobody /\ dpc[endpoint] \in Bound
                                 THEN "refused" ELSE "remove"]
    /\ UNCHANGED <<platform, endpoint, alone, starts, crashes, historyVars, memoryVars>>

\* unix bind: remove_file of whatever the name stands for by now.
RemoveStale(d) ==
    /\ dpc[d] = "remove"
    /\ dpc' = [dpc EXCEPT ![d] = IF endpoint = Nobody THEN "refused" ELSE "bind"]
    /\ endpoint' = Nobody
    /\ UNCHANGED <<platform, alone, starts, crashes, historyVars, memoryVars>>

\* The name is taken if it is free.
Take(d) ==
    /\ IF endpoint = Nobody
       THEN Go(d, "bind", "open") /\ endpoint' = d
       ELSE Go(d, "bind", "refused") /\ UNCHANGED endpoint
    /\ UNCHANGED <<platform, alone, starts, crashes, historyVars, memoryVars>>

\* UnixListener::bind, then harden.
BindEndpoint(d) == platform = "unix" /\ Take(d)

\* Mutant: without first_pipe_instance, a further instance of the pipe.
CreateInstance(d) ==
    /\ platform = "windows" /\ Go(d, "bind", "open")
    /\ endpoint' = d
    /\ UNCHANGED <<platform, alone, starts, crashes, historyVars, memoryVars>>

\* The first instance of a pipe, whose name disappears with its last handle.
CreatePipe(d) == platform = "windows" /\ Take(d)

\* Storage::open
OpenStorage(d) ==
    /\ Go(d, "open", "recover")
    /\ UNCHANGED <<platform, endpoint, alone, starts, crashes, historyVars, memoryVars>>

\* Storage::interrupt_unfinished, which also corrects rows that an earlier daemon
\* failed to write; the commands table is not touched.
InterruptUnfinished(d) ==
    /\ Go(d, "recover", "clean")
    /\ row' = [s \in Sessions |-> IF row[s] = "live" THEN "interrupted" ELSE row[s]]
    /\ unwritten' = {}
    /\ UNCHANGED <<platform, endpoint, alone, starts, crashes, cmd, old, stuck, memoryVars>>

\* Mutant: everything that has ended goes, whatever its age.
CleanupEnded ==
    LET gone == {s \in Sessions : row[s] \in Ended}
    IN  /\ row' = [s \in Sessions |-> IF s \in gone THEN "none" ELSE row[s]]
        /\ cmd' = [s \in Sessions |-> IF s \in gone THEN "none" ELSE cmd[s]]

\* Storage::cleanup: commands and events go with their session.
Cleanup ==
    LET gone == {s \in old : row[s] \in Ended}
    IN  /\ row' = [s \in Sessions |-> IF s \in gone THEN "none" ELSE row[s]]
        /\ cmd' = [s \in Sessions |-> IF s \in gone THEN "none" ELSE cmd[s]]

\* The first cleanup, and an empty SessionManager.
StartServing(d) ==
    /\ Go(d, "clean", "serving")
    /\ Cleanup
    /\ mem' = [mem EXCEPT ![d] = NoSessions]
    /\ UNCHANGED <<platform, endpoint, alone, starts, crashes, old, unwritten, stuck, tasks>>

-----------------------------------------------------------------------------
(* The end of a daemon.                                                    *)

Forget(d) == /\ mem' = [mem EXCEPT ![d] = NoSessions]
             /\ tasks' = [tasks EXCEPT ![d] = {}]

\* DaemonShutdown: the answer is sent, then the main loop is left.
Shutdown(d) ==
    /\ Go(d, "serving", "stopping")
    /\ UNCHANGED <<platform, endpoint, alone, starts, crashes, historyVars, memoryVars>>

\* listener.cleanup() removes the name, whoever it stands for; main returns.
Stop(d) ==
    /\ Go(d, "stopping", "off")
    /\ endpoint' = IF platform = "unix" \/ endpoint = d THEN Nobody ELSE endpoint
    /\ Forget(d)
    /\ UNCHANGED <<platform, alone, starts, crashes, historyVars>>

\* The process dies, or main returns an error: a Unix socket stays behind.
Exit(d) ==
    /\ dpc' = [dpc EXCEPT ![d] = "off"]
    /\ endpoint' = IF platform = "windows" /\ endpoint = d THEN Nobody ELSE endpoint
    /\ Forget(d)
    /\ UNCHANGED <<platform, alone, starts, historyVars>>

StorageFails(d) == dpc[d] \in {"open", "recover", "clean"} /\ Exit(d) /\ UNCHANGED crashes

Crash(d) ==
    /\ crashes < MaxCrashes
    /\ dpc[d] \notin {"off", "refused"}
    /\ crashes' = crashes + 1
    /\ Exit(d)

-----------------------------------------------------------------------------
(* What a serving daemon writes to the history.                            *)

\* upsert_session succeeds: the row has what memory has.
Written(s, status) ==
    /\ row' = [row EXCEPT ![s] = status]
    /\ unwritten' = unwritten \ {s}

\* It fails: the row stays as it is.
Unwritten(s, status) ==
    /\ row' = row
    /\ unwritten' = IF row[s] = status THEN unwritten \ {s} ELSE unwritten \cup {s}

\* A change of info.status and its upsert_session, whose error is ignored, or is
\* the answer to a request that has done everything else.
Upsert(d, s, status) ==
    /\ mem' = [mem EXCEPT ![d][s] = status]
    /\ Written(s, status) \/ Unwritten(s, status)

\* create: a fresh id; without its first row there is no session.
CreateSession(d, s) ==
    /\ Serving(d)
    /\ row[s] = "none" /\ s \notin old /\ \A e \in Daemons : mem[e][s] = "none"
    /\ mem' = [mem EXCEPT ![d][s] = "live"]
    /\ Written(s, "live")
    /\ UNCHANGED <<processVars, cmd, old, stuck, tasks>>

\* connect_runtime has dialled, a shell has been opened (which a close may have
\* overtaken), or a foreground task writes idle as it ends.
BecomeLive(d, s) ==
    /\ Serving(d) /\ mem[d][s] # "none"
    /\ Upsert(d, s, "live")
    /\ UNCHANGED <<processVars, cmd, old, stuck, tasks>>

\* start_exec's insert_command, which needs the session's row; a close may have
\* overtaken the request.
InsertCommand(d, s) ==
    /\ Serving(d) /\ mem[d][s] # "none"
    /\ cmd[s] = "none" /\ row[s] # "none"
    /\ \A e \in Daemons : s \notin tasks[e]
    /\ cmd' = [cmd EXCEPT ![s] = "running"]

\* A background command leaves the session's status alone.
StartCommand(d, s) ==
    /\ InsertCommand(d, s)
    /\ \/ UNCHANGED <<mem, row, unwritten>>
       \/ mem' = [mem EXCEPT ![d][s] = "live"] /\ Written(s, "live")
    /\ tasks' = [tasks EXCEPT ![d] = @ \cup {s}]
    /\ UNCHANGED <<processVars, old, stuck>>

\* The status of a foreground command cannot be written: start_exec returns before
\* it spawns the task of the command it has inserted.
StartFails(d, s) ==
    /\ InsertCommand(d, s)
    /\ mem' = [mem EXCEPT ![d][s] = "live"] /\ Unwritten(s, "live")
    /\ stuck' = stuck \cup {s}
    /\ UNCHANGED <<processVars, old, tasks>>

\* Mutant: a closed session's command is not written any more.
EndCommandUnlessClosed(d, s) ==
    /\ s \in tasks[d]
    /\ cmd' = [cmd EXCEPT ![s] = IF @ = "none" THEN "none"
                                ELSE IF mem[d][s] = "closed" THEN "running" ELSE "ended"]
    /\ tasks' = [tasks EXCEPT ![d] = @ \ {s}]
    /\ UNCHANGED <<processVars, row, old, unwritten, stuck, mem>>

\* run_exec: update_command changes a row that is there.
EndCommand(d, s) ==
    /\ s \in tasks[d]
    /\ cmd' = [cmd EXCEPT ![s] = IF @ = "none" THEN "none" ELSE "ended"]
    /\ tasks' = [tasks EXCEPT ![d] = @ \ {s}]
    /\ UNCHANGED <<processVars, row, old, unwritten, stuck, mem>>

\* update_command fails, which run_exec ignores.
EndFails(d, s) ==
    /\ s \in tasks[d]
    /\ tasks' = [tasks EXCEPT ![d] = @ \ {s}]
    /\ stuck' = stuck \cup {s}
    /\ UNCHANGED <<processVars, row, cmd, old, unwritten, mem>>

\* A lost connection, noticed by some task or request of the session, or one that
\* could not be made.
LoseConnection(d, s) ==
    /\ Serving(d) /\ mem[d][s] \in {"live", "disconnected"}
    /\ Upsert(d, s, "disconnected")
    /\ UNCHANGED <<processVars, cmd, old, stuck, tasks>>

\* close, by a request or the reaper: the session stays in the map.
CloseSession(d, s) ==
    /\ Serving(d) /\ mem[d][s] # "none"
    /\ Upsert(d, s, "closed")
    /\ UNCHANGED <<processVars, cmd, old, stuck, tasks>>

\* reap_idle, once a minute, also deletes what is past its retention.
Reap(d) ==
    /\ Serving(d)
    /\ Cleanup
    /\ UNCHANGED <<processVars, old, unwritten, stuck, memoryVars>>

\* A session's age reaches retention_days.
Age(s) ==
    /\ s \notin old /\ row[s] # "none"
    /\ old' = old \cup {s}
    /\ UNCHANGED <<processVars, row, cmd, unwritten, stuck, memoryVars>>

-----------------------------------------------------------------------------

StartUp(d) ==
    \/ LookAtEndpoint(d) \/ ConnectToEndpoint(d) \/ RemoveStale(d) \/ BindEndpoint(d)
    \/ CreatePipe(d)    \/ OpenStorage(d) \/ InterruptUnfinished(d) \/ StartServing(d)

Serve(d) ==
    \/ Reap(d)
    \/ \E s \in Sessions :
          \/ CreateSession(d, s) \/ BecomeLive(d, s) \/ LoseConnection(d, s)
          \/ StartCommand(d, s) \/ StartFails(d, s) \/ EndCommand(d, s) \/ EndFails(d, s)
          \/ CloseSession(d, s)

DaemonNext ==
    \/ \E d \in Daemons : \/ StartDaemon(d) \/ StartUp(d) \/ Serve(d)
                          \/ Shutdown(d) \/ Stop(d) \/ StorageFails(d) \/ Crash(d)
    \/ \E s \in Sessions : Age(s)

DaemonSpec == DaemonInit /\ [][DaemonNext]_daemonVars

-----------------------------------------------------------------------------
(* Properties.                                                             *)

DaemonTypeOK ==
    /\ platform \in Platforms
    /\ endpoint \in Daemons \cup {Nobody}
    /\ dpc \in [Daemons -> Starting \cup {"off", "refused", "serving", "stopping"}]
    /\ alone \subseteq Daemons /\ old \subseteq Sessions
    /\ unwritten \subseteq Sessions /\ stuck \subseteq Sessions
    /\ row \in [Sessions -> Ended \cup {"none", "live"}]
    /\ cmd \in [Sessions -> {"none", "running", "ended"}]
    /\ mem \in [Daemons -> [Sessions -> {"none", "live", "closed", "disconnected"}]]
    /\ tasks \in [Daemons -> SUBSET Sessions]
    /\ starts \in Nat /\ crashes \in Nat

(* Listener::bind: a second daemon refuses to start instead of splitting   *)
(* the clients between two processes, so no two daemons ever get past it,  *)
(* and clients that open the endpoint reach the one that serves.           *)
OneDaemon ==
    \A d \in Daemons : dpc[d] \in Bound =>
        /\ endpoint = d
        /\ \A e \in Daemons \ {d} : dpc[e] \notin Bound

(* Listener::bind takes the endpoint over when the previous daemon died    *)
(* without releasing it: a daemon that started while no other was alive is *)
(* never turned away.                                                      *)
DeadIsTakenOver == \A d \in alone : dpc[d] # "refused"

(* interrupt_unfinished only ever touches what a dead daemon left behind:  *)
(* the row of a session that a serving daemon holds as live says so.       *)
LiveRowsAreKept ==
    \A d \in Daemons, s \in Sessions \ unwritten :
        Serving(d) /\ mem[d][s] = "live" => row[s] = "live"

(* After the start-up of a daemon nothing in the history claims to be live *)
(* that is not: crashes and shutdowns leave no session behind as unfinished. *)
NoGhostSessions ==
    \A d \in Daemons, s \in Sessions \ unwritten :
        Serving(d) /\ row[s] = "live" => mem[d][s] = "live"

(* What the history says of live sessions is what the daemon that serves   *)
(* holds, whichever daemons came, were refused and died before, and        *)
(* whatever they failed to write: except for the sessions whose status     *)
(* this daemon itself failed to write, until it writes them again.         *)
HistoryAgrees == LiveRowsAreKept /\ NoGhostSessions

(* ssh_command_poll can trust `running' for the sessions of the daemon it  *)
(* asks: a task is at work on the command, unless the write that would     *)
(* have said otherwise failed: update_command at its end, or the status of *)
(* the session at its start.  (Commands of an earlier daemon stay running  *)
(* for ever, which is why the daemon's own map is a premise.)              *)
RunningIsHonest ==
    \A d \in Daemons, s \in Sessions \ stuck :
        Serving(d) /\ mem[d][s] # "none" /\ cmd[s] = "running" => s \in tasks[d]

(* Retention never takes the row of a running command away, and with it    *)
(* its output and its result, unless the session has reached its age.      *)
RecentCommandsAreKept ==
    \A d \in Daemons : \A s \in tasks[d] \ old : cmd[s] = "running"

=============================================================================
