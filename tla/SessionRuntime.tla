--------------------------- MODULE SessionRuntime ---------------------------
(***************************************************************************)
(* One logical SSH session inside aisshd: the SessionRuntime that          *)
(* SessionManager keeps in its map (crates/session/src/lib.rs) and every   *)
(* task that works on it.  Request handlers, the create call, the idle     *)
(* reaper, and the run_exec / run_pty task of each piece of work all       *)
(* interleave at their await points; a handler is one action per stretch   *)
(* between two locks it takes.                                             *)
(*                                                                         *)
(* The foreground mutex is a variable (fgLock), because start_exec and     *)
(* shell_open hold it across a whole reconnect.  The info, connection and  *)
(* background locks are held for one stretch only, so a stretch is atomic. *)
(* Every write to info is upserted under the same lock, hence status is    *)
(* also the persisted session row.                                         *)
(*                                                                         *)
(* A request that is refused without touching the session (an argument     *)
(* error, SESSION_BUSY, PTY_NOT_OPEN on an empty slot, a cancel that finds *)
(* no such command) is a stuttering step and has no action.                *)
(***************************************************************************)
EXTENDS Naturals, FiniteSets

CONSTANTS Callers,           \* concurrent client requests (serve_client tasks)
          Commands,          \* command ids that may be handed out
          Ptys,              \* PTY ids that may be handed out
          Conns,             \* transports that may be dialled
          Reaper, Creator,   \* the reap_idle task and the create() request
          None,
          ShellCloseAnytime, \* clients may call shell_close with no PTY open
          ExitSignals,       \* remote processes may die from a signal
          StorageFaults,     \* SQLite writes in start_exec/shell_open may fail
          Quiet              \* the session may be quiet for idle_timeout_seconds

Work  == Commands \cup Ptys
Procs == Callers \cup {Reaper, Creator}

ASSUME IdsAssumption ==
    /\ Commands \cap Ptys = {}
    /\ None \notin Work \cup Conns \cup Procs
    /\ Reaper \notin Callers /\ Creator \notin Callers /\ Reaper # Creator

ASSUME SwitchAssumption ==
    /\ ShellCloseAnytime \in BOOLEAN
    /\ ExitSignals \in BOOLEAN
    /\ StorageFaults \in BOOLEAN
    /\ Quiet \in BOOLEAN

VARIABLES
    status,      \* info.status
    current,     \* info.current_command, as the work it names
    slot,        \* connection: the installed handle or None
    alive,       \* transports that are up (is_closed() is false)
    dialed,      \* transports ever dialled
    foreground,  \* foreground: the work that owns the slot or None
    fgLock,      \* the caller that holds the foreground mutex or None
    background,  \* background: ids with a registered cancellation token
    detached,    \* commands started by exec_background (run_exec's argument)
    cancelled,   \* commands whose cancellation token has fired
    hungUp,      \* PTYs whose writer was closed by this daemon
    cmd,         \* commands.status of the persisted command row
    exit,        \* what the remote reported, while run_exec waits for the end
    connOf,      \* transport that carries the work's channel
    task,        \* progress of the work's run_exec / run_pty task
    pc, call,    \* progress and locals of each request handler
    activity     \* last_activity: recent, or idle_timeout_seconds ago

infoVars == <<status, current>>
connVars == <<slot, alive, dialed>>
slotVars == <<foreground, fgLock>>
workVars == <<background, detached, cancelled, hungUp, cmd, exit, connOf,
              task>>
procVars == <<pc, call>>
vars == <<infoVars, connVars, slotVars, workVars, procVars, activity>>

Statuses  == {"connecting", "ready", "exec_running", "pty_open", "idle",
              "disconnected", "closed", "failed"}
Terminal  == {"exited", "timed_out", "cancelled", "interrupted"}
Exits     == {"none", "code", "signal"}
TaskSteps == {"none", "opened", "orphaned", "running", "discard", "clear",
              "info", "lost", "done"}
Ops       == {"none", "exec", "background", "shell", "file", "write", "cancel",
              "close", "create"}
Steps     == {"idle", "conn", "precheck", "dial", "install", "open",
              "info", "writing", "cancelBg",
              "closeFg", "drain", "disconnect", "closeInfo",
              "reapFg", "reapBg", "cDial", "cInstall", "cInfo"}

NoCall == [op |-> "none", work |-> None, conn |-> None]

(***************************************************************************)
(* The session as create() leaves it in the map before it dials.           *)
(***************************************************************************)
Init ==
    /\ status = "connecting" /\ current = None
    /\ slot = None /\ alive = {} /\ dialed = {}
    /\ foreground = None /\ fgLock = None
    /\ background = {} /\ detached = {} /\ cancelled = {} /\ hungUp = {}
    /\ cmd = [c \in Commands |-> "unused"]
    /\ exit = [c \in Commands |-> "none"]
    /\ connOf = [w \in Work |-> None]
    /\ task = [w \in Work |-> "none"]
    /\ pc = [k \in Procs |-> IF k = Creator THEN "cDial" ELSE "idle"]
    /\ call = [k \in Procs |->
                 IF k = Creator THEN [NoCall EXCEPT !.op = "create"] ELSE NoCall]
    /\ activity = "recent"

-----------------------------------------------------------------------------
(* Steps every handler shares.                                             *)

Goto(k, step) == pc' = [pc EXCEPT ![k] = step]
Return(k)     == Goto(k, "idle") /\ call' = [call EXCEPT ![k] = NoCall]
Unlock(k)     == fgLock' = IF fgLock = k THEN None ELSE fgLock
Leave(k)      == Return(k) /\ Unlock(k)

\* A connected and authenticated transport.
Connect(n) ==
    /\ n \notin dialed
    /\ dialed' = dialed \cup {n} /\ alive' = alive \cup {n}

Begin(k, op, w, step) ==
    /\ pc[k] = "idle"
    /\ Goto(k, step)
    /\ call' = [call EXCEPT ![k] = [op |-> op, work |-> w, conn |-> None]]

\* A uuid no other request or task carries.
Fresh(w) == task[w] = "none" /\ \A k \in Procs : call[k].work # w

-----------------------------------------------------------------------------
(* create(): dial, install the handle, publish Ready; nothing rereads the  *)
(* status in between.                                                      *)

CreateConnects(n) ==
    /\ pc[Creator] = "cDial"
    /\ Connect(n)
    /\ call' = [call EXCEPT ![Creator].conn = n]
    /\ Goto(Creator, "cInstall")
    /\ UNCHANGED <<infoVars, slot, slotVars, workVars, activity>>

CreateFails ==
    /\ pc[Creator] = "cDial"
    /\ status' = "failed"
    /\ Return(Creator)
    /\ UNCHANGED <<current, connVars, slotVars, workVars, activity>>

CreateInstalls ==
    /\ pc[Creator] = "cInstall"
    /\ slot' = call[Creator].conn
    /\ Goto(Creator, "cInfo")
    /\ UNCHANGED <<infoVars, alive, dialed, slotVars, workVars, call,
                   activity>>

CreateReady ==
    /\ pc[Creator] = "cInfo"
    /\ status' = "ready"
    /\ Return(Creator)
    /\ UNCHANGED <<current, connVars, slotVars, workVars, activity>>

-----------------------------------------------------------------------------
(* Requests that need a connection.  start_exec and shell_open take the    *)
(* foreground mutex first; a file operation never does.                    *)

\* Mutant: no SESSION_BUSY.
ExecStartUnchecked(k, c) ==
    /\ fgLock = None
    /\ Fresh(c)
    /\ Begin(k, "exec", c, "conn")
    /\ fgLock' = k
    /\ UNCHANGED <<infoVars, connVars, foreground, workVars, activity>>

ExecStart(k, c) ==
    /\ fgLock = None /\ foreground = None
    /\ Fresh(c)
    /\ Begin(k, "exec", c, "conn")
    /\ fgLock' = k
    /\ UNCHANGED <<infoVars, connVars, foreground, workVars, activity>>

ExecBackground(k, c) ==
    /\ fgLock = None
    /\ Fresh(c)
    /\ Begin(k, "background", c, "conn")
    /\ fgLock' = k
    /\ UNCHANGED <<infoVars, connVars, foreground, workVars, activity>>

\* Mutant: no SESSION_BUSY.
ShellOpenUnchecked(k, p) ==
    /\ fgLock = None
    /\ Fresh(p)
    /\ Begin(k, "shell", p, "conn")
    /\ fgLock' = k
    /\ UNCHANGED <<infoVars, connVars, foreground, workVars, activity>>

ShellOpen(k, p) ==
    /\ fgLock = None /\ foreground = None
    /\ Fresh(p)
    /\ Begin(k, "shell", p, "conn")
    /\ fgLock' = k
    /\ UNCHANGED <<infoVars, connVars, foreground, workVars, activity>>

FileOperation(k) ==
    /\ Begin(k, "file", None, "conn")
    /\ UNCHANGED <<infoVars, connVars, slotVars, workVars, activity>>

\* connection_for: the installed handle is used as long as it is not closed.
ReuseConnection(k) ==
    /\ pc[k] = "conn" /\ slot \in alive
    /\ call' = [call EXCEPT ![k].conn = slot]
    /\ Goto(k, "open")
    /\ UNCHANGED <<infoVars, connVars, slotVars, workVars, activity>>

NeedConnection(k) ==
    /\ pc[k] = "conn" /\ slot \notin alive
    /\ Goto(k, "precheck")
    /\ UNCHANGED <<infoVars, connVars, slotVars, workVars, call, activity>>

\* connect_runtime reads the status once, before it dials.
AllowDial(k) ==
    /\ pc[k] = "precheck" /\ status # "closed"
    /\ Goto(k, "dial")
    /\ UNCHANGED <<infoVars, connVars, slotVars, workVars, call, activity>>

\* SESSION_CLOSED, or the target has left the configuration.
RefuseDial(k) ==
    /\ pc[k] = "precheck"
    /\ Leave(k)
    /\ UNCHANGED <<infoVars, connVars, foreground, workVars, activity>>

DialSucceeds(k, n) ==
    /\ pc[k] = "dial"
    /\ Connect(n)
    /\ status' = IF status \in {"connecting", "disconnected", "failed"}
                 THEN "ready" ELSE status
    /\ call' = [call EXCEPT ![k].conn = n]
    /\ Goto(k, "install")
    /\ UNCHANGED <<current, slot, slotVars, workVars, activity>>

\* Every one of the reconnect_attempts failed.
DialFails(k) ==
    /\ pc[k] = "dial"
    /\ status' = IF status = "closed" THEN status ELSE "disconnected"
    /\ current' = IF status = "closed" THEN current ELSE None
    /\ Leave(k)
    /\ UNCHANGED <<connVars, foreground, workVars, activity>>

\* Mutant: the slot is not looked at again after the dial.
InstallAlways(k) ==
    /\ pc[k] = "install"
    /\ slot' = call[k].conn
    /\ Goto(k, "open")
    /\ UNCHANGED <<infoVars, alive, dialed, slotVars, workVars, call,
                   activity>>

\* Back in connection_for: another caller may have reconnected meanwhile.
InstallConnection(k) ==
    /\ pc[k] = "install"
    /\ IF slot \in alive
       THEN call' = [call EXCEPT ![k].conn = slot] /\ UNCHANGED slot
       ELSE slot' = call[k].conn /\ UNCHANGED call
    /\ Goto(k, "open")
    /\ UNCHANGED <<infoVars, alive, dialed, slotVars, workVars, activity>>

\* open_exec / open_pty / open_sftp failed: discard_connection, give up.
OpenFails(k) ==
    /\ pc[k] = "open"
    /\ slot' = None
    /\ Leave(k)
    /\ UNCHANGED <<infoVars, alive, dialed, foreground, workVars, activity>>

\* open_sftp; the transfer that follows leaves the session alone.
OpenSftp(k) ==
    /\ pc[k] = "open" /\ call[k].op = "file" /\ call[k].conn \in alive
    /\ Return(k)
    /\ UNCHANGED <<infoVars, connVars, slotVars, workVars, activity>>

-----------------------------------------------------------------------------
(* The rest of start_exec and shell_open: the channel opens and, still     *)
(* under the mutex and with no other lock in between, is registered.       *)

Opens(k, op) == pc[k] = "open" /\ call[k].op = op /\ call[k].conn \in alive

RegisterBackground(k) ==
    LET c == call[k].work IN
    /\ Opens(k, "background")
    /\ cmd' = [cmd EXCEPT ![c] = "running"]
    /\ connOf' = [connOf EXCEPT ![c] = call[k].conn]
    /\ task' = [task EXCEPT ![c] = "running"]
    /\ background' = background \cup {c}
    /\ detached' = detached \cup {c}
    /\ Leave(k)
    /\ UNCHANGED <<infoVars, connVars, foreground, cancelled, hungUp, exit,
                   activity>>

RegisterForeground(k) ==
    LET w == call[k].work IN
    /\ Opens(k, "exec") \/ Opens(k, "shell")
    /\ cmd' = IF w \in Commands THEN [cmd EXCEPT ![w] = "running"] ELSE cmd
    /\ connOf' = [connOf EXCEPT ![w] = call[k].conn]
    /\ task' = [task EXCEPT ![w] = "opened"]
    /\ foreground' = w
    /\ fgLock' = None
    /\ call' = [call EXCEPT ![k].conn = None]
    /\ Goto(k, "info")
    /\ UNCHANGED <<infoVars, connVars, background, detached, cancelled, hungUp,
                   exit, activity>>

\* insert_command failed: INTERNAL, before anything was registered.
RegisterFails(k) ==
    /\ StorageFaults
    /\ Opens(k, "exec") \/ Opens(k, "background")
    /\ Leave(k)
    /\ UNCHANGED <<infoVars, connVars, foreground, workVars, activity>>

\* The status is overwritten without looking at it, and the task is spawned
\* only if the upsert that follows succeeds.
Publish(k, step) ==
    LET w == call[k].work IN
    /\ pc[k] = "info"
    /\ status' = IF w \in Commands THEN "exec_running" ELSE "pty_open"
    /\ current' = w
    /\ task' = [task EXCEPT ![w] = step]
    /\ Return(k)
    /\ UNCHANGED <<connVars, slotVars, background, detached, cancelled, hungUp,
                   cmd, exit, connOf, activity>>

PublishRunning(k) == Publish(k, "running")
PublishFails(k)   == StorageFaults /\ Publish(k, "orphaned")

-----------------------------------------------------------------------------
(* run_exec.                                                               *)

\* record() renews last_activity for execs and PTYs alike.
Output(w) ==
    /\ task[w] = "running" /\ connOf[w] \in alive
    /\ activity' = "recent"
    /\ UNCHANGED <<infoVars, connVars, slotVars, workVars, procVars>>

\* The remote side says how the process ended; ExecChannel::next drops the
\* message for a signal.
RemoteExit(c, e) ==
    /\ task[c] = "running" /\ connOf[c] \in alive /\ exit[c] = "none"
    /\ e # "none" /\ (e = "signal" => ExitSignals)
    /\ exit' = [exit EXCEPT ![c] = e]
    /\ UNCHANGED <<infoVars, connVars, slotVars, background, detached,
                   cancelled,
                   hungUp, cmd, connOf, task, procVars, activity>>

\* Mutant: the exit status that did arrive is not consulted.
EveryEndInterrupted(e) == "interrupted"

\* "exited" is Completed or Failed, by the code (command_status_from_exit).
channel_end_status(e) == IF e = "code" THEN "exited" ELSE "interrupted"

\* Leaving the loop writes the command row before any lock is awaited.
EndExec(c, s) ==
    /\ task[c] = "running"
    /\ cmd' = [cmd EXCEPT ![c] = s]
    /\ task' = [task EXCEPT ![c] =
                   IF s = "interrupted" THEN "discard" ELSE "clear"]
    /\ exit' = [exit EXCEPT ![c] = "none"]
    /\ activity' = "recent"
    /\ UNCHANGED <<infoVars, connVars, slotVars, background, detached,
                   cancelled,
                   hungUp, connOf, procVars>>

ExecCancelled(c)   == c \in cancelled /\ EndExec(c, "cancelled")
ExecDeadline(c)    == EndExec(c, "timed_out")
ExecChannelEnds(c) ==
    /\ exit[c] # "none" \/ connOf[c] \notin alive
    /\ EndExec(c, channel_end_status(exit[c]))

TaskGoto(w, step) ==
    /\ task' = [task EXCEPT ![w] = step]
    /\ UNCHANGED <<detached, cancelled, hungUp, cmd, exit, connOf>>

\* The task returns; its channel, token and writer go with it.
TaskDone(w) ==
    /\ task' = [task EXCEPT ![w] = "done"]
    /\ connOf' = [connOf EXCEPT ![w] = None]
    /\ cancelled' = cancelled \ {w} /\ hungUp' = hungUp \ {w}
    /\ UNCHANGED <<detached, cmd, exit>>

\* discard_connection: whatever handle is installed now.
DiscardAfterExec(c) ==
    /\ task[c] = "discard"
    /\ slot' = None
    /\ TaskGoto(c, "clear")
    /\ UNCHANGED <<infoVars, alive, dialed, slotVars, background, procVars,
                   activity>>

ClearBackground(c) ==
    /\ task[c] = "clear" /\ c \in detached
    /\ background' = background \ {c}
    /\ TaskDone(c)
    /\ UNCHANGED <<infoVars, connVars, slotVars, procVars, activity>>

\* Mutant: the slot is left to the next close.
ClearForegroundForgets(c) ==
    /\ task[c] = "clear" /\ c \notin detached
    /\ fgLock = None
    /\ TaskGoto(c, "info")
    /\ UNCHANGED <<infoVars, connVars, slotVars, background, procVars,
                   activity>>

\* The slot is emptied only if this command still owns it.
ClearForeground(c) ==
    /\ task[c] = "clear" /\ c \notin detached
    /\ fgLock = None
    /\ foreground' = IF foreground = c THEN None ELSE foreground
    /\ TaskGoto(c, "info")
    /\ UNCHANGED <<infoVars, connVars, fgLock, background, procVars, activity>>

\* Mutants: the final write without the check for Closed, and one that, like
\* connect_runtime, leaves the status of in-flight work alone.
SettleAlways(s) == status' = s /\ current' = None

SettleUnlessBusy(s) ==
    /\ status' = IF status \in {"closed", "exec_running", "pty_open"}
                 THEN status ELSE s
    /\ current' = IF status = "closed" THEN current ELSE None

\* The final write to info of both tasks: never over a closed session, but
\* with no look at who owns the slot by now.
Settle(s) ==
    /\ status' = IF status = "closed" THEN status ELSE s
    /\ current' = IF status = "closed" THEN current ELSE None

FinishExec(c) ==
    /\ task[c] = "info"
    /\ Settle(IF cmd[c] = "interrupted" THEN "disconnected" ELSE "idle")
    /\ TaskDone(c)
    /\ UNCHANGED <<connVars, slotVars, background, procVars, activity>>

-----------------------------------------------------------------------------
(* run_pty.                                                                *)

\* The reader ends: the shell exited, was hung up, or the transport is gone.
PtyEnds(p) ==
    /\ task[p] = "running"
    /\ TaskGoto(p, "clear")
    /\ UNCHANGED <<infoVars, connVars, slotVars, background, procVars,
                   activity>>

\* Mutant: a PTY that no longer owns the slot has nothing left to do.
ClearPtyReturns(p) ==
    /\ task[p] = "clear"
    /\ fgLock = None
    /\ IF foreground = p
       THEN foreground' = None /\ TaskGoto(p, "discard")
       ELSE UNCHANGED foreground /\ TaskDone(p)
    /\ UNCHANGED <<infoVars, connVars, fgLock, background, procVars, activity>>

ClearPty(p) ==
    /\ task[p] = "clear"
    /\ fgLock = None
    /\ foreground' = IF foreground = p THEN None ELSE foreground
    /\ TaskGoto(p, IF foreground = p THEN "discard" ELSE "info")
    /\ UNCHANGED <<infoVars, connVars, fgLock, background, procVars, activity>>

DiscardAfterPty(p) ==
    /\ task[p] = "discard"
    /\ slot' = None
    /\ TaskGoto(p, "lost")
    /\ UNCHANGED <<infoVars, alive, dialed, slotVars, background, procVars,
                   activity>>

FinishPty(p) ==
    /\ task[p] \in {"info", "lost"}
    /\ Settle(IF task[p] = "lost" THEN "disconnected" ELSE "idle")
    /\ TaskDone(p)
    /\ UNCHANGED <<connVars, slotVars, background, procVars, activity>>

-----------------------------------------------------------------------------
(* Requests on running work.                                               *)

\* shell_close takes the slot before it looks at what it took.
ShellClose(k) ==
    /\ pc[k] = "idle" /\ fgLock = None
    /\ foreground # None
    /\ foreground \in Ptys \/ ShellCloseAnytime
    /\ foreground' = None
    /\ hungUp' = hungUp \cup ({foreground} \cap Ptys)
    /\ UNCHANGED <<infoVars, connVars, fgLock, background, detached, cancelled,
                   cmd, exit, connOf, task, procVars, activity>>

\* shell_write keeps the mutex until the channel has taken the data.
ShellWrite(k) ==
    /\ fgLock = None /\ foreground \in Ptys
    /\ Begin(k, "write", None, "writing")
    /\ fgLock' = k
    /\ UNCHANGED <<infoVars, connVars, foreground, workVars, activity>>

ShellWritten(k) ==
    /\ pc[k] = "writing"
    /\ activity' = IF connOf[foreground] \in alive THEN "recent" ELSE activity
    /\ Leave(k)
    /\ UNCHANGED <<infoVars, connVars, foreground, workVars>>

Cancel(W) ==
    /\ cancelled' = cancelled \cup (W \cap Commands)
    /\ UNCHANGED <<detached, cmd, exit, connOf, task>>

\* command_cancel looks at the foreground first, then at the background.
CancelForeground(k, c) ==
    /\ pc[k] = "idle" /\ task[c] # "none"
    /\ fgLock = None
    /\ IF foreground = c
       THEN Cancel({c}) /\ UNCHANGED procVars
       ELSE Cancel({}) /\ Begin(k, "cancel", c, "cancelBg")
    /\ UNCHANGED <<infoVars, connVars, slotVars, background, hungUp, activity>>

\* Also the end of a request that found the command nowhere.
CancelBackground(k) ==
    /\ pc[k] = "cancelBg"
    /\ Cancel({call[k].work} \cap background)
    /\ Return(k)
    /\ UNCHANGED <<infoVars, connVars, slotVars, background, hungUp, activity>>

-----------------------------------------------------------------------------
(* close(), called by a client or by the reaper.  Each lock is taken and   *)
(* released in turn.                                                       *)

CloseRequest(k) ==
    /\ Begin(k, "close", None, "closeFg")
    /\ UNCHANGED <<infoVars, connVars, slotVars, workVars, activity>>

\* Mutant: for a PTY, close calls shell_close, which waits for the mutex whose
\* guard lives to the end of the if let that is calling it.
CloseForegroundNested(k) ==
    /\ pc[k] = "closeFg" /\ fgLock = None
    /\ foreground' = None
    /\ Cancel({foreground})
    /\ IF foreground \in Ptys
       THEN fgLock' = k /\ UNCHANGED <<pc, hungUp>>
       ELSE Goto(k, "drain") /\ UNCHANGED <<fgLock, hungUp>>
    /\ UNCHANGED <<infoVars, connVars, background, call, activity>>

CloseForeground(k) ==
    /\ pc[k] = "closeFg" /\ fgLock = None
    /\ foreground' = None
    /\ Cancel({foreground})
    /\ hungUp' = hungUp \cup ({foreground} \cap Ptys)
    /\ Goto(k, "drain")
    /\ UNCHANGED <<infoVars, connVars, fgLock, background, call, activity>>

\* Mutant: the registry is emptied, the tokens are not fired.
CloseBackgroundForgets(k) ==
    /\ pc[k] = "drain"
    /\ Cancel({})
    /\ background' = {}
    /\ Goto(k, "disconnect")
    /\ UNCHANGED <<infoVars, connVars, slotVars, hungUp, call, activity>>

CloseBackground(k) ==
    /\ pc[k] = "drain"
    /\ Cancel(background)
    /\ background' = {}
    /\ Goto(k, "disconnect")
    /\ UNCHANGED <<infoVars, connVars, slotVars, hungUp, call, activity>>

CloseConnection(k) ==
    /\ pc[k] = "disconnect"
    /\ slot' = None
    /\ alive' = alive \ {slot}
    /\ Goto(k, "closeInfo")
    /\ UNCHANGED <<infoVars, dialed, slotVars, workVars, call, activity>>

CloseInfo(k) ==
    /\ pc[k] = "closeInfo"
    /\ status' = "closed" /\ current' = None
    /\ Return(k)
    /\ UNCHANGED <<connVars, slotVars, workVars, activity>>

-----------------------------------------------------------------------------
(* reap_idle, once a minute: three checks under three locks, then close(). *)

ReapIdle ==
    /\ activity = "expired"
    /\ Begin(Reaper, "close", None, "reapFg")
    /\ UNCHANGED <<infoVars, connVars, slotVars, workVars, activity>>

ReapForeground ==
    /\ pc[Reaper] = "reapFg" /\ fgLock = None
    /\ IF foreground = None
       THEN Goto(Reaper, "reapBg") /\ UNCHANGED call
       ELSE Return(Reaper)
    /\ UNCHANGED <<infoVars, connVars, slotVars, workVars, activity>>

ReapBackground ==
    /\ pc[Reaper] = "reapBg"
    /\ IF background = {}
       THEN Goto(Reaper, "closeFg") /\ UNCHANGED call
       ELSE Return(Reaper)
    /\ UNCHANGED <<infoVars, connVars, slotVars, workVars, activity>>

-----------------------------------------------------------------------------
(* The environment: the clock and the network.                             *)

IdleTimeout ==
    /\ Quiet /\ activity = "recent"
    /\ activity' = "expired"
    /\ UNCHANGED <<infoVars, connVars, slotVars, workVars, procVars>>

TransportDrop(n) ==
    /\ n \in alive
    /\ alive' = alive \ {n}
    /\ UNCHANGED <<infoVars, slot, dialed, slotVars, workVars, procVars,
                   activity>>

-----------------------------------------------------------------------------

Request(k) ==
    \/ \E c \in Commands : ExecStart(k, c) \/ ExecBackground(k, c)
                           \/ CancelForeground(k, c)
    \/ \E p \in Ptys : ShellOpen(k, p)
    \/ FileOperation(k) \/ ShellClose(k) \/ ShellWrite(k) \/ CloseRequest(k)

\* connection_for and the channel open ...
Connecting(k) ==
    \/ ReuseConnection(k) \/ NeedConnection(k) \/ AllowDial(k) \/ RefuseDial(k)
    \/ \E n \in Conns : DialSucceeds(k, n)
    \/ DialFails(k) \/ InstallConnection(k) \/ OpenFails(k) \/ OpenSftp(k)

\* ... the end of start_exec and shell_open ...
Registering(k) ==
    \/ RegisterBackground(k) \/ RegisterForeground(k) \/ RegisterFails(k)
    \/ PublishRunning(k) \/ PublishFails(k)

\* ... shell_write, command_cancel and close ...
Stopping(k) ==
    \/ ShellWritten(k) \/ CancelBackground(k)
    \/ CloseForeground(k) \/ CloseBackground(k) \/ CloseConnection(k)
    \/ CloseInfo(k)

Handler(k) == Connecting(k) \/ Registering(k) \/ Stopping(k)

Create ==
    \/ \E n \in Conns : CreateConnects(n)
    \/ CreateFails \/ CreateInstalls \/ CreateReady

ExecTask(c) ==
    \/ ExecCancelled(c) \/ ExecDeadline(c) \/ ExecChannelEnds(c)
    \/ DiscardAfterExec(c) \/ ClearBackground(c) \/ FinishExec(c)

PtyTask(p) == DiscardAfterPty(p) \/ FinishPty(p)

Remote ==
    \/ \E w \in Work : Output(w)
    \/ \E c \in Commands, e \in Exits : RemoteExit(c, e)
    \/ \E p \in Ptys : PtyEnds(p)
    \/ \E n \in Conns : TransportDrop(n)

Next ==
    \/ \E k \in Callers : Request(k)
    \/ \E k \in Procs : Handler(k)
    \/ Create
    \/ \E c \in Commands : ExecTask(c) \/ ClearForeground(c)
    \/ \E p \in Ptys : PtyTask(p) \/ ClearPty(p)
    \/ ReapIdle \/ ReapForeground \/ ReapBackground
    \/ Remote \/ IdleTimeout

(***************************************************************************)
(* Waiting for the remote side.  Only the transport and the SFTP handshake *)
(* are bounded by timeouts: authentication, the opening of an exec or PTY  *)
(* channel and a write to a full channel window wait as long as it takes.  *)
(* Such a wait ends at the latest with the transport.                      *)
(***************************************************************************)
AwaitsRemote(k) ==
    \/ pc[k] = "dial"
    \/ pc[k] = "open" /\ call[k].conn \in alive
    \/ pc[k] = "writing" /\ connOf[foreground] \in alive

\* A PTY that was hung up, and whose remote end has yet to close the channel.
AwaitsHangUp(p) == task[p] = "running" /\ p \in hungUp /\ connOf[p] \in alive

(***************************************************************************)
(* Fairness.  The tokio scheduler runs every task that is ready, the       *)
(* reader of a PTY whose transport is gone ends, and run_exec carries a    *)
(* deadline: weak fairness.  Messages to a transport (a signal, the end of *)
(* a channel, a disconnect) are only queued.  tokio's mutex is FIFO, so    *)
(* whoever waits for a lock that is released again and again obtains it:   *)
(* strong fairness.  The clients, the clock of the reaper and the remote   *)
(* side, which steps that await it depend on, owe nothing.                 *)
(***************************************************************************)
LocalStep(k) == ~AwaitsRemote(k) /\ Handler(k)
LosesPty(p)  == connOf[p] \notin alive /\ PtyEnds(p)

Fairness ==
    /\ \A k \in Callers \cup {Reaper} :
          WF_vars(LocalStep(k)) /\ SF_vars(CloseForeground(k))
    /\ \A c \in Commands : WF_vars(ExecTask(c)) /\ SF_vars(ClearForeground(c))
    /\ \A p \in Ptys : /\ WF_vars(PtyTask(p)) /\ WF_vars(LosesPty(p))
                       /\ SF_vars(ClearPty(p))

Spec == Init /\ [][Next]_vars
FairSpec == Spec /\ Fairness

-----------------------------------------------------------------------------
(* Properties.                                                             *)

TypeOK ==
    /\ status \in Statuses /\ current \in Work \cup {None}
    /\ slot \in Conns \cup {None} /\ alive \subseteq dialed
    /\ dialed \subseteq Conns
    /\ foreground \in Work \cup {None} /\ fgLock \in Callers \cup {None}
    /\ background \subseteq detached /\ detached \subseteq Commands
    /\ cancelled \subseteq Commands /\ hungUp \subseteq Ptys
    /\ cmd \in [Commands -> {"unused", "running"} \cup Terminal]
    /\ exit \in [Commands -> Exits]
    /\ connOf \in [Work -> Conns \cup {None}]
    /\ task \in [Work -> TaskSteps]
    /\ pc \in [Procs -> Steps]
    /\ call \in [Procs -> [op : Ops, work : Work \cup {None},
                          conn : Conns \cup {None}]]
    /\ activity \in {"recent", "expired"}

\* Foreground work a client may still interact with: its channel is open and
\* nobody has told it to stop.
Live(w) ==
    /\ task[w] \in {"opened", "running"}
    /\ w \notin detached \cup cancelled \cup hungUp

(* One foreground exec or PTY at a time, whatever the interleaving of      *)
(* start_exec, shell_open, close, the reaper and the finishing tasks.      *)
ForegroundExclusive == \A v, w \in Work : Live(v) /\ Live(w) => v = w

(* A command that runs and was not cancelled can be found by               *)
(* command_cancel and by close: it owns the slot or has a background token.*)
RunningIsCancellable ==
    \A c \in Commands :
        task[c] \in {"opened", "running"} /\ c \notin cancelled
            => c \in background \cup {foreground}

(* The slot never outlives its work: whoever occupies it has a task that   *)
(* has yet to pass the step that empties the slot, so SESSION_BUSY always  *)
(* has a reason (or, after a failed upsert, the work that was orphaned).   *)
SlotHasTask ==
    foreground # None =>
        task[foreground] \in {"opened", "orphaned", "running", "discard",
                              "clear"}

(* A session reported as busy names work whose task has not finished, so   *)
(* some later step still corrects the report.                              *)
BusyHasTask ==
    status \in {"exec_running", "pty_open"} =>
        /\ current # None
        /\ task[current] \notin {"none", "opened", "done"}

(* Interrupted is reported only for a command whose transport is down.     *)
InterruptedMeansTransportLost ==
    \A c \in Commands : cmd[c] = "interrupted" => connOf[c] \notin alive

(* A closed session has no live SSH connection.                            *)
ClosedHasNoConnection == status = "closed" => slot \notin alive

(* Only a handler that was under way reopens a closed session (start_exec, *)
(* shell_open or create publishing its result); a finished task, a dial or *)
(* the reaper never does.                                                  *)
TasksNeverReopen ==
    [][status = "closed" /\ status' # "closed" =>
         \E k \in Procs : /\ pc[k] \in {"info", "cInfo", "cDial"}
                          /\ pc'[k] = "idle"]_vars

(* A reconnect that loses the race keeps the winner's handle: a live handle*)
(* is only ever replaced by the create() call that is still under way.     *)
ReconnectKeepsLiveHandle ==
    [][(slot \in alive /\ slot' \notin {slot, None})
          => pc[Creator] = "cInstall"]_vars

(* The session implements the abstract foreground slot.                    *)
Owner == IF \E w \in Work : Live(w) THEN CHOOSE w \in Work : Live(w) ELSE None

Used(w)  == w \notin detached /\ task[w] # "none"
Released == {w \in Work : Used(w) /\ ~Live(w)}

Slot == INSTANCE ForegroundSlot WITH owner <- Owner, done <- Released

ImplementsSlot == Slot!Spec

\* The remote side answers whoever holds the mutex ...
RemoteAnswers == \A k \in Callers : []<>~(fgLock = k /\ AwaitsRemote(k))

\* ... and closes the channels that were hung up, or their transport ends.
HangUpsAnswered == \A p \in Ptys : []<>~AwaitsHangUp(p)

(* Every command that was started ends and gives back the slot or the      *)
(* token it holds, though other requests take the mutex it waits for again *)
(* and again; unless one of them never gets an answer from the remote side *)
(* while it holds the mutex.                                               *)
CommandsEnd ==
    RemoteAnswers =>
        \A c \in Commands :
            task[c] = "running"
                ~> task[c] = "done" /\ c \notin background \cup {foreground}

(* close() goes through, whatever starts, writes and other closes compete  *)
(* with it for the mutex, under the same condition.                        *)
CloseCompletes ==
    RemoteAnswers => \A k \in Procs : pc[k] = "closeFg" ~> status = "closed"

(* The task of a PTY that was hung up by shell_close or close ends, and the*)
(* PTY is no longer reported as open, though other requests compete for    *)
(* the mutex the task needs; under the same condition, and unless the      *)
(* remote side never closes the channel.                                   *)
HungUpShellEnds ==
    RemoteAnswers /\ HangUpsAnswered =>
        \A p \in Ptys :
            p \in hungUp /\ task[p] = "running"
                ~> task[p] = "done" /\ (status = "pty_open" => current # p)

(* ssh_session_close: "Close a session and its SSH connection."  Called    *)
(* while shell_write has the mutex, it waits as long as the remote side    *)
(* does not take the data, for ever if need be, and closes nothing.        *)
CloseOutlastsWrites ==
    \A k \in Callers :
        pc[k] = "closeFg" /\ (\E j \in Callers : pc[j] = "writing")
            ~> status = "closed"

-----------------------------------------------------------------------------
(* The strengthening that makes the safety properties inductive            *)
(* (SessionRuntimeProofs proves it; TLC checks it first).                  *)

\* A start_exec or shell_open between taking the mutex and registering.
Starting(k) ==
    /\ pc[k] \in {"conn", "precheck", "dial", "install", "open"}
    /\ call[k].op \in {"exec", "background", "shell"}

\* It still holds the mutex, so the slot it found empty stays empty and its
\* id stays unused.
MutexInv ==
    \A k \in Procs : Starting(k) =>
        /\ fgLock = k
        /\ call[k].work \in Work /\ task[call[k].work] = "none"
        /\ IF call[k].op = "background" THEN call[k].work \in Commands
                                       ELSE foreground = None

\* A handler that registered foreground work and has yet to publish it.
PublishInv ==
    \A k \in Procs : pc[k] = "info" =>
        /\ call[k].work \in Work \ detached
        /\ task[call[k].work] = "opened"
        /\ \A j \in Procs :
             pc[j] = "info" /\ call[j].work = call[k].work => j = k

DetachedInv == \A c \in detached : task[c] \notin {"none", "opened", "orphaned"}

\* Only work that was started is ever told to stop.
StopInv == \A w \in cancelled \cup hungUp : task[w] # "none"

\* Unless an exec can be evicted, live foreground work owns the slot.
OwnerInv == ShellCloseAnytime \/ \A w \in Work : Live(w) => foreground = w

\* Live background work has its token in the registry.
TokenInv ==
    \A c \in detached :
        task[c] = "running" /\ c \notin cancelled => c \in background

SlotInv ==
    /\ SlotHasTask
    /\ foreground \notin detached
    /\ \A p \in Ptys : task[p] = "discard" => foreground # p

BusyInv ==
    /\ BusyHasTask
    /\ status \in {"exec_running", "pty_open"} => current \notin detached

\* Only transports that were dialled are in use, and a dead one stays dead.
TransportInv ==
    /\ slot \in dialed \cup {None}
    /\ \A w \in Work : connOf[w] \in dialed \cup {None}
    /\ \A k \in Procs : call[k].conn \in dialed \cup {None}
    /\ ExitSignals \/ \A c \in Commands : exit[c] # "signal"
    /\ ExitSignals \/ InterruptedMeansTransportLost

Inv == /\ TypeOK /\ MutexInv /\ PublishInv /\ DetachedInv /\ StopInv
       /\ OwnerInv /\ TokenInv /\ SlotInv /\ BusyInv /\ TransportInv

=============================================================================
