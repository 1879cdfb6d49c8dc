------------------------ MODULE SessionRuntimeProofs ------------------------
(***************************************************************************)
(* Proofs about SessionRuntime for every set of requests, commands, PTYs   *)
(* and transports.                                                         *)
(*                                                                         *)
(* Everything rests on the inductive invariant Inv of SessionRuntime.  One *)
(* lemma per kind of step shows that it is preserved, with one case per    *)
(* action; InvHolds combines them, and the properties follow from Inv.     *)
(***************************************************************************)
EXTENDS SessionRuntime, TLAPS

USE IdsAssumption, SwitchAssumption
    DEF Work, Procs, vars, infoVars, connVars, slotVars, workVars, procVars,
        Statuses, Terminal, Exits, TaskSteps, Ops, Steps, NoCall

-----------------------------------------------------------------------------
(* Inv is inductive.                                                       *)

(* The session that create() puts into the map satisfies the invariant.    *)
LEMMA InvInit == Init => Inv
  BY DEF Init, Inv, TypeOK, MutexInv, Starting, PublishInv, DetachedInv,
         StopInv, OwnerInv, Live, TokenInv, SlotInv, SlotHasTask, BusyInv,
         BusyHasTask, TransportInv, InterruptedMeansTransportLost

(* A client request that arrives keeps the invariant.                      *)
LEMMA RequestStep ==
  ASSUME Inv, NEW k \in Callers, Request(k)
  PROVE  Inv'
<1> USE DEF Inv, TypeOK, MutexInv, Starting, PublishInv, DetachedInv,
            StopInv, OwnerInv, Live, TokenInv, SlotInv, SlotHasTask, BusyInv,
            BusyHasTask, TransportInv, InterruptedMeansTransportLost,
            Begin, Goto, Fresh, Cancel
<1>1. ASSUME NEW c \in Commands, ExecStart(k, c) PROVE Inv'
  BY <1>1 DEF ExecStart
<1>2. ASSUME NEW c \in Commands, ExecBackground(k, c) PROVE Inv'
  BY <1>2 DEF ExecBackground
<1>3. ASSUME NEW c \in Commands, CancelForeground(k, c) PROVE Inv'
  BY <1>3 DEF CancelForeground
<1>4. ASSUME NEW p \in Ptys, ShellOpen(k, p) PROVE Inv'
  BY <1>4 DEF ShellOpen
<1>5. CASE FileOperation(k)
  BY <1>5 DEF FileOperation
<1>6. CASE ShellClose(k)
  BY <1>6 DEF ShellClose
<1>7. CASE ShellWrite(k)
  BY <1>7 DEF ShellWrite
<1>8. CASE CloseRequest(k)
  BY <1>8 DEF CloseRequest
<1> QED
  BY <1>1, <1>2, <1>3, <1>4, <1>5, <1>6, <1>7, <1>8 DEF Request

(* Every way connection_for and the opening of a channel can go keeps it.  *)
LEMMA ConnectionStep ==
  ASSUME Inv, NEW k \in Procs, Connecting(k)
  PROVE  Inv'
<1> USE DEF Inv, TypeOK, MutexInv, Starting, PublishInv, DetachedInv,
            StopInv, OwnerInv, Live, TokenInv, SlotInv, SlotHasTask, BusyInv,
            BusyHasTask, TransportInv, InterruptedMeansTransportLost,
            Goto, Return, Unlock, Leave
<1>1. CASE ReuseConnection(k)
  BY <1>1 DEF ReuseConnection
<1>2. CASE NeedConnection(k)
  BY <1>2 DEF NeedConnection
<1>3. CASE AllowDial(k)
  BY <1>3 DEF AllowDial
<1>4. CASE RefuseDial(k)
  BY <1>4 DEF RefuseDial
<1>5. ASSUME NEW n \in Conns, DialSucceeds(k, n) PROVE Inv'
  BY <1>5 DEF DialSucceeds, Connect
<1>6. CASE DialFails(k)
  BY <1>6 DEF DialFails
<1>7. CASE InstallConnection(k)
  BY <1>7 DEF InstallConnection
<1>8. CASE OpenFails(k)
  BY <1>8 DEF OpenFails
<1>9. CASE OpenSftp(k)
  BY <1>9 DEF OpenSftp
<1> QED
  BY <1>1, <1>2, <1>3, <1>4, <1>5, <1>6, <1>7, <1>8, <1>9 DEF Connecting

(* Registering and publishing new work keeps it: this is where the mutex   *)
(* and the slot that was found empty under it are needed.                  *)
LEMMA StartStep ==
  ASSUME Inv, NEW k \in Procs, Registering(k)
  PROVE  Inv'
<1> USE DEF Inv, TypeOK, MutexInv, Starting, PublishInv, DetachedInv,
            StopInv, OwnerInv, Live, TokenInv, SlotInv, SlotHasTask, BusyInv,
            BusyHasTask, TransportInv, InterruptedMeansTransportLost,
            Goto, Return, Unlock, Leave, Opens
<1>1. CASE RegisterBackground(k)
  BY <1>1 DEF RegisterBackground
<1>2. CASE RegisterForeground(k)
  BY <1>2 DEF RegisterForeground
<1>3. CASE RegisterFails(k)
  BY <1>3 DEF RegisterFails
<1>4. CASE PublishRunning(k)
  BY <1>4 DEF PublishRunning, Publish
<1>5. CASE PublishFails(k)
  BY <1>5 DEF PublishFails, Publish
<1> QED
  BY <1>1, <1>2, <1>3, <1>4, <1>5 DEF Registering

(* shell_write, command_cancel and every stage of close() keep it.         *)
LEMMA CloseStep ==
  ASSUME Inv, NEW k \in Procs, Stopping(k)
  PROVE  Inv'
<1> USE DEF Inv, TypeOK, MutexInv, Starting, PublishInv, DetachedInv,
            StopInv, OwnerInv, Live, TokenInv, SlotInv, SlotHasTask, BusyInv,
            BusyHasTask, TransportInv, InterruptedMeansTransportLost,
            Goto, Return, Unlock, Leave, Cancel
<1>1. CASE ShellWritten(k)
  BY <1>1 DEF ShellWritten
<1>2. CASE CancelBackground(k)
  BY <1>2 DEF CancelBackground
<1>3. CASE CloseForeground(k)
  BY <1>3 DEF CloseForeground
<1>4. CASE CloseBackground(k)
  BY <1>4 DEF CloseBackground
<1>5. CASE CloseConnection(k)
  BY <1>5 DEF CloseConnection
<1>6. CASE CloseInfo(k)
  BY <1>6 DEF CloseInfo
<1> QED
  BY <1>1, <1>2, <1>3, <1>4, <1>5, <1>6 DEF Stopping

(* create() keeps it, though it looks at nothing but its own dial.         *)
LEMMA CreateStep ==
  ASSUME Inv, Create
  PROVE  Inv'
<1> USE DEF Inv, TypeOK, MutexInv, Starting, PublishInv, DetachedInv,
            StopInv, OwnerInv, Live, TokenInv, SlotInv, SlotHasTask, BusyInv,
            BusyHasTask, TransportInv, InterruptedMeansTransportLost,
            Goto, Return
<1>1. ASSUME NEW n \in Conns, CreateConnects(n) PROVE Inv'
  BY <1>1 DEF CreateConnects, Connect
<1>2. CASE CreateFails
  BY <1>2 DEF CreateFails
<1>3. CASE CreateInstalls
  BY <1>3 DEF CreateInstalls
<1>4. CASE CreateReady
  BY <1>4 DEF CreateReady
<1> QED
  BY <1>1, <1>2, <1>3, <1>4 DEF Create

(* run_exec keeps it from its loop to its last write.                      *)
LEMMA ExecStep ==
  ASSUME Inv, NEW c \in Commands, ExecTask(c) \/ ClearForeground(c)
  PROVE  Inv'
<1> USE DEF Inv, TypeOK, MutexInv, Starting, PublishInv, DetachedInv,
            StopInv, OwnerInv, Live, TokenInv, SlotInv, SlotHasTask, BusyInv,
            BusyHasTask, TransportInv, InterruptedMeansTransportLost,
            TaskGoto, TaskDone, Settle
<1>1. CASE ExecCancelled(c)
  BY <1>1 DEF ExecCancelled, EndExec
<1>2. CASE ExecDeadline(c)
  BY <1>2 DEF ExecDeadline, EndExec
<1>3. CASE ExecChannelEnds(c)
  BY <1>3 DEF ExecChannelEnds, EndExec, channel_end_status
<1>4. CASE DiscardAfterExec(c)
  BY <1>4 DEF DiscardAfterExec
<1>5. CASE ClearBackground(c)
  BY <1>5 DEF ClearBackground
<1>6. CASE FinishExec(c)
  BY <1>6 DEF FinishExec
<1>7. CASE ClearForeground(c)
  BY <1>7 DEF ClearForeground
<1> QED
  BY <1>1, <1>2, <1>3, <1>4, <1>5, <1>6, <1>7 DEF ExecTask

(* So does run_pty.                                                        *)
LEMMA PtyStep ==
  ASSUME Inv, NEW p \in Ptys, PtyTask(p) \/ ClearPty(p)
  PROVE  Inv'
<1> USE DEF Inv, TypeOK, MutexInv, Starting, PublishInv, DetachedInv,
            StopInv, OwnerInv, Live, TokenInv, SlotInv, SlotHasTask, BusyInv,
            BusyHasTask, TransportInv, InterruptedMeansTransportLost,
            TaskGoto, TaskDone, Settle
<1>1. CASE DiscardAfterPty(p)
  BY <1>1 DEF DiscardAfterPty
<1>2. CASE FinishPty(p)
  BY <1>2 DEF FinishPty
<1>3. CASE ClearPty(p)
  BY <1>3 DEF ClearPty
<1> QED
  BY <1>1, <1>2, <1>3 DEF PtyTask

(* The checks of reap_idle keep it.                                        *)
LEMMA ReaperStep ==
  ASSUME Inv, ReapIdle \/ ReapForeground \/ ReapBackground
  PROVE  Inv'
<1> USE DEF Inv, TypeOK, MutexInv, Starting, PublishInv, DetachedInv,
            StopInv, OwnerInv, Live, TokenInv, SlotInv, SlotHasTask, BusyInv,
            BusyHasTask, TransportInv, InterruptedMeansTransportLost,
            Begin, Goto, Return
<1>1. CASE ReapIdle
  BY <1>1 DEF ReapIdle
<1>2. CASE ReapForeground
  BY <1>2 DEF ReapForeground
<1>3. CASE ReapBackground
  BY <1>3 DEF ReapBackground
<1> QED
  BY <1>1, <1>2, <1>3 DEF ReapIdle

(* The remote side, the network and the clock keep it.                     *)
LEMMA EnvironmentStep ==
  ASSUME Inv, Remote \/ IdleTimeout
  PROVE  Inv'
<1> USE DEF Inv, TypeOK, MutexInv, Starting, PublishInv, DetachedInv,
            StopInv, OwnerInv, Live, TokenInv, SlotInv, SlotHasTask, BusyInv,
            BusyHasTask, TransportInv, InterruptedMeansTransportLost,
            TaskGoto
<1>1. ASSUME NEW w \in Work, Output(w) PROVE Inv'
  BY <1>1 DEF Output
<1>2. ASSUME NEW c \in Commands, NEW e \in Exits, RemoteExit(c, e) PROVE Inv'
  BY <1>2 DEF RemoteExit
<1>3. ASSUME NEW p \in Ptys, PtyEnds(p) PROVE Inv'
  BY <1>3 DEF PtyEnds, TaskGoto
<1>4. ASSUME NEW n \in Conns, TransportDrop(n) PROVE Inv'
  BY <1>4 DEF TransportDrop
<1>5. CASE IdleTimeout
  BY <1>5 DEF IdleTimeout
<1> QED
  BY <1>1, <1>2, <1>3, <1>4, <1>5 DEF Remote

(* Inv is an invariant of the session, whatever the switches are set to.   *)
THEOREM InvHolds == Spec => []Inv
<1>1. Inv /\ [Next]_vars => Inv'
  <2> SUFFICES ASSUME Inv, [Next]_vars PROVE Inv'
    OBVIOUS
  <2>1. CASE UNCHANGED vars
    BY <2>1 DEF Inv, TypeOK, MutexInv, Starting, PublishInv, DetachedInv,
              StopInv, OwnerInv, Live, TokenInv, SlotInv, SlotHasTask, BusyInv,
              BusyHasTask, TransportInv, InterruptedMeansTransportLost
  <2>2. ASSUME NEW k \in Callers, Request(k) PROVE Inv'
    BY <2>2, RequestStep
  <2>3. ASSUME NEW k \in Procs, Handler(k) PROVE Inv'
    BY <2>3, ConnectionStep, StartStep, CloseStep DEF Handler
  <2>4. CASE Create
    BY <2>4, CreateStep
  <2>5. ASSUME NEW c \in Commands, ExecTask(c) \/ ClearForeground(c) PROVE Inv'
    BY <2>5, ExecStep
  <2>6. ASSUME NEW p \in Ptys, PtyTask(p) \/ ClearPty(p) PROVE Inv'
    BY <2>6, PtyStep
  <2>7. CASE ReapIdle \/ ReapForeground \/ ReapBackground
    BY <2>7, ReaperStep
  <2>8. CASE Remote \/ IdleTimeout
    BY <2>8, EnvironmentStep
  <2> QED
    BY <2>1, <2>2, <2>3, <2>4, <2>5, <2>6, <2>7, <2>8 DEF Next
<1> QED
  BY InvInit, <1>1, PTL DEF Spec

-----------------------------------------------------------------------------
(* What follows from Inv.                                                  *)

(* Every variable keeps its type: the states named in the code are the     *)
(* only ones a session, a command or a task gets into.                     *)
THEOREM TypeCorrect == Spec => []TypeOK
<1>1. Inv => TypeOK
  BY DEF Inv
<1> QED
  BY <1>1, InvHolds, PTL

(* One foreground exec or PTY at a time, for clients that call shell_close *)
(* only on an open PTY.                                                    *)
THEOREM ForegroundIsExclusive ==
  ASSUME ~ShellCloseAnytime
  PROVE  Spec => []ForegroundExclusive
<1>1. Inv => ForegroundExclusive
  BY DEF Inv, OwnerInv, ForegroundExclusive
<1> QED
  BY <1>1, InvHolds, PTL

(* Under the same discipline no running command is out of the reach of     *)
(* command_cancel and close.                                               *)
THEOREM CommandsStayCancellable ==
  ASSUME ~ShellCloseAnytime
  PROVE  Spec => []RunningIsCancellable
<1>1. Inv => RunningIsCancellable
  BY DEF Inv, TypeOK, OwnerInv, TokenInv, DetachedInv, Live,
         RunningIsCancellable
<1> QED
  BY <1>1, InvHolds, PTL

(* The slot is never occupied by finished work.                            *)
THEOREM SlotIsOwned == Spec => []SlotHasTask
<1>1. Inv => SlotHasTask
  BY DEF Inv, SlotInv
<1> QED
  BY <1>1, InvHolds, PTL

(* A busy status always names work that will still correct it.             *)
THEOREM BusyIsJustified == Spec => []BusyHasTask
<1>1. Inv => BusyHasTask
  BY DEF Inv, BusyInv
<1> QED
  BY <1>1, InvHolds, PTL

(* If remote processes do not die from signals, Interrupted means that the *)
(* transport is down.                                                      *)
THEOREM InterruptedIsHonest ==
  ASSUME ~ExitSignals
  PROVE  Spec => []InterruptedMeansTransportLost
<1>1. Inv => InterruptedMeansTransportLost
  BY DEF Inv, TransportInv
<1> QED
  BY <1>1, InvHolds, PTL

-----------------------------------------------------------------------------
(* What a step may do.                                                     *)

(* Who installs a handle and who takes a session out of Closed.            *)
LEMMA Writers ==
  ASSUME [Next]_vars
  PROVE  /\ \/ slot' \in {slot, None}
            \/ \E k \in Procs : InstallConnection(k)
            \/ CreateInstalls
         /\ \/ status = "closed" => status' = "closed"
            \/ \E k \in Procs : PublishRunning(k) \/ PublishFails(k)
            \/ CreateFails \/ CreateReady
<1> DEFINE SlotKept   == slot' \in {slot, None}
           ClosedKept == status = "closed" => status' = "closed"
<1>1. ASSUME NEW k \in Callers, Request(k) PROVE SlotKept /\ ClosedKept
  BY <1>1 DEF Request, ExecStart, ExecBackground, CancelForeground, ShellOpen,
              FileOperation, ShellClose, ShellWrite, CloseRequest, Cancel
<1>2. ASSUME NEW k \in Procs, Connecting(k)
      PROVE  (SlotKept \/ InstallConnection(k)) /\ ClosedKept
  BY <1>2 DEF Connecting, ReuseConnection, NeedConnection, AllowDial, RefuseDial,
              DialSucceeds, DialFails, InstallConnection, OpenFails, OpenSftp,
              Connect, Settle
<1>3. ASSUME NEW k \in Procs, Registering(k)
      PROVE  SlotKept /\ (ClosedKept \/ PublishRunning(k) \/ PublishFails(k))
  BY <1>3 DEF Registering, RegisterBackground, RegisterForeground, RegisterFails,
              PublishRunning, PublishFails, Publish, Settle
<1>4. ASSUME NEW k \in Procs, Stopping(k) PROVE SlotKept /\ ClosedKept
  BY <1>4 DEF Stopping, ShellWritten, CancelBackground, CloseForeground,
              CloseBackground, CloseConnection, CloseInfo, Cancel
<1>5. ASSUME Create
      PROVE  (SlotKept \/ CreateInstalls) /\ (ClosedKept \/ CreateFails \/ CreateReady)
  BY <1>5 DEF Create, CreateConnects, Connect, CreateFails, CreateInstalls, CreateReady
<1>6. ASSUME NEW c \in Commands, ExecTask(c) \/ ClearForeground(c)
      PROVE  SlotKept /\ ClosedKept
  BY <1>6 DEF ExecTask, ExecCancelled, ExecDeadline, ExecChannelEnds, EndExec,
              DiscardAfterExec, ClearBackground, FinishExec, ClearForeground,
              TaskGoto, TaskDone, Settle
<1>7. ASSUME NEW p \in Ptys, PtyTask(p) \/ ClearPty(p) PROVE SlotKept /\ ClosedKept
  BY <1>7 DEF PtyTask, DiscardAfterPty, FinishPty, ClearPty, TaskGoto, TaskDone, Settle
<1>8. ASSUME ReapIdle \/ ReapForeground \/ ReapBackground \/ IdleTimeout
      PROVE  SlotKept /\ ClosedKept
  BY <1>8 DEF ReapIdle, ReapForeground, ReapBackground, IdleTimeout
<1>9. ASSUME Remote PROVE SlotKept /\ ClosedKept
  BY <1>9 DEF Remote, Output, RemoteExit, PtyEnds, TransportDrop, TaskGoto
<1>10. ASSUME UNCHANGED vars PROVE SlotKept /\ ClosedKept
  BY <1>10 DEF vars
<1> HIDE DEF SlotKept, ClosedKept
<1> QED
  BY <1>1, <1>2, <1>3, <1>4, <1>5, <1>6, <1>7, <1>8, <1>9, <1>10
     DEF Next, Handler, SlotKept, ClosedKept

(* A live handle is replaced only by the create() call under way: of the   *)
(* steps that install a handle, connection_for looks at the slot again.    *)
THEOREM LiveHandleIsKept == Spec => ReconnectKeepsLiveHandle
<1>1. ASSUME NEW k \in Procs, InstallConnection(k), slot \in alive
      PROVE  slot' = slot
  BY <1>1 DEF InstallConnection
<1>2. CreateInstalls => pc[Creator] = "cInstall"
  BY DEF CreateInstalls
<1>3. [Next]_vars => [(slot \in alive /\ slot' \notin {slot, None})
                        => pc[Creator] = "cInstall"]_vars
  BY <1>1, <1>2, Writers
<1> QED
  BY <1>3, PTL DEF Spec, ReconnectKeepsLiveHandle

(* Only a handler that was under way reopens a closed session: run_exec,   *)
(* run_pty and connect_runtime look at the status before they write it.    *)
THEOREM TasksDoNotReopen == Spec => TasksNeverReopen
<1> DEFINE Reopens == \E k \in Procs : /\ pc[k] \in {"info", "cInfo", "cDial"}
                                       /\ pc'[k] = "idle"
<1>1. ASSUME Inv, NEW k \in Procs, PublishRunning(k) \/ PublishFails(k)
      PROVE  Reopens
  BY <1>1 DEF PublishRunning, PublishFails, Publish, Return, Goto, Inv, TypeOK
<1>2. ASSUME Inv, CreateFails \/ CreateReady
      PROVE  Reopens
  BY <1>2 DEF CreateFails, CreateReady, Return, Goto, Inv, TypeOK
<1>3. Inv /\ [Next]_vars =>
        [status = "closed" /\ status' # "closed" => Reopens]_vars
  BY <1>1, <1>2, Writers
<1> QED
  BY <1>3, InvHolds, PTL DEF Spec, TasksNeverReopen

-----------------------------------------------------------------------------
(* The session implements ForegroundSlot.                                  *)

(* Whatever is live is the owner.                                          *)
LEMMA OwnerIsLive ==
  ASSUME Inv, ~ShellCloseAnytime
  PROVE  /\ \A w \in Work : Live(w) => Owner = w
         /\ (\A w \in Work : ~Live(w)) => Owner = None
<1>1. \A v, w \in Work : Live(v) /\ Live(w) => v = w
  BY DEF Inv, OwnerInv
<1> QED
  BY <1>1 DEF Owner

(* The steps that touch what Live depends on.                              *)
LEMMA LiveWriters ==
  ASSUME [Next]_vars
  PROVE  \/ UNCHANGED <<task, detached, cancelled, hungUp>>
         \/ \E k \in Procs :
              \/ RegisterForeground(k) \/ RegisterBackground(k)
              \/ PublishRunning(k) \/ PublishFails(k) \/ CancelBackground(k)
              \/ CloseForeground(k) \/ CloseBackground(k)
         \/ \E k \in Callers : \/ ShellClose(k)
                             \/ \E c \in Commands : CancelForeground(k, c)
         \/ \E c \in Commands :
              \/ ExecCancelled(c) \/ ExecDeadline(c) \/ ExecChannelEnds(c)
              \/ DiscardAfterExec(c) \/ ClearBackground(c) \/ FinishExec(c)
              \/ ClearForeground(c)
         \/ \E p \in Ptys : \/ PtyEnds(p) \/ ClearPty(p)
                          \/ DiscardAfterPty(p) \/ FinishPty(p)
<1> DEFINE Same == UNCHANGED <<task, detached, cancelled, hungUp>>
<1>1. ASSUME NEW k \in Callers, Request(k)
      PROVE  Same \/ ShellClose(k) \/ \E c \in Commands : CancelForeground(k, c)
  BY <1>1 DEF Request, ExecStart, ExecBackground, ShellOpen, FileOperation,
              ShellWrite, CloseRequest
<1>2. ASSUME NEW k \in Procs, Connecting(k) PROVE Same
  BY <1>2 DEF Connecting, ReuseConnection, NeedConnection, AllowDial, RefuseDial,
              DialSucceeds, DialFails, InstallConnection, OpenFails, OpenSftp, Connect
<1>3. ASSUME NEW k \in Procs, RegisterFails(k) PROVE Same
  BY <1>3 DEF RegisterFails
<1>4. ASSUME NEW k \in Procs,
             ShellWritten(k) \/ CloseConnection(k) \/ CloseInfo(k)
      PROVE  Same
  BY <1>4 DEF ShellWritten, CloseConnection, CloseInfo
<1>5. ASSUME Create PROVE Same
  BY <1>5 DEF Create, CreateConnects, Connect, CreateFails, CreateInstalls, CreateReady
<1>6. ASSUME ReapIdle \/ ReapForeground \/ ReapBackground \/ IdleTimeout PROVE Same
  BY <1>6 DEF ReapIdle, ReapForeground, ReapBackground, IdleTimeout
<1>7. ASSUME Remote PROVE Same \/ \E p \in Ptys : PtyEnds(p)
  BY <1>7 DEF Remote, Output, RemoteExit, TransportDrop
<1>8. ASSUME UNCHANGED vars PROVE Same
  BY <1>8 DEF vars
<1> HIDE DEF Same
<1> QED
  BY <1>1, <1>2, <1>3, <1>4, <1>5, <1>6, <1>7, <1>8
     DEF Next, Handler, Registering, Stopping, ExecTask, PtyTask, Same

(* Except for the registration of foreground work, no step makes work live *)
(* or takes an id into use in the foreground.                              *)
LEMMA OnlyRegistrationAcquires ==
  ASSUME Inv, [Next]_vars, \A k \in Procs : ~RegisterForeground(k)
  PROVE  \A w \in Work : (Live(w)' => Live(w)) /\ (Used(w)' <=> Used(w))
<1> DEFINE Kept == \A w \in Work : (Live(w)' => Live(w)) /\ (Used(w)' <=> Used(w))
<1> USE DEF Live, Used, Inv, TypeOK, MutexInv, Starting, PublishInv, DetachedInv
<1>1. CASE UNCHANGED <<task, detached, cancelled, hungUp>>
  BY <1>1
<1>2. ASSUME NEW k \in Procs, RegisterBackground(k) PROVE Kept
  BY <1>2 DEF RegisterBackground, Opens
<1>3. ASSUME NEW k \in Procs, PublishRunning(k) PROVE Kept
  BY <1>3 DEF PublishRunning, Publish
<1>4. ASSUME NEW k \in Procs, PublishFails(k) PROVE Kept
  BY <1>4 DEF PublishFails, Publish
<1>5. ASSUME NEW k \in Procs, CancelBackground(k) PROVE Kept
  BY <1>5 DEF CancelBackground, Cancel
<1>6. ASSUME NEW k \in Procs, CloseForeground(k) PROVE Kept
  BY <1>6 DEF CloseForeground, Cancel
<1>7. ASSUME NEW k \in Procs, CloseBackground(k) PROVE Kept
  BY <1>7 DEF CloseBackground, Cancel
<1>8. ASSUME NEW k \in Callers, ShellClose(k) PROVE Kept
  BY <1>8 DEF ShellClose
<1>9. ASSUME NEW k \in Callers, NEW c \in Commands, CancelForeground(k, c) PROVE Kept
  BY <1>9 DEF CancelForeground, Cancel
<1>10. ASSUME NEW c \in Commands, ExecCancelled(c) PROVE Kept
  BY <1>10 DEF ExecCancelled, EndExec
<1>11. ASSUME NEW c \in Commands, ExecDeadline(c) PROVE Kept
  BY <1>11 DEF ExecDeadline, EndExec
<1>12. ASSUME NEW c \in Commands, ExecChannelEnds(c) PROVE Kept
  BY <1>12 DEF ExecChannelEnds, EndExec
<1>13. ASSUME NEW c \in Commands, DiscardAfterExec(c) PROVE Kept
  BY <1>13 DEF DiscardAfterExec, TaskGoto
<1>14. ASSUME NEW c \in Commands, ClearBackground(c) PROVE Kept
  BY <1>14 DEF ClearBackground, TaskDone
<1>15. ASSUME NEW c \in Commands, FinishExec(c) PROVE Kept
  BY <1>15 DEF FinishExec, TaskDone
<1>16. ASSUME NEW c \in Commands, ClearForeground(c) PROVE Kept
  BY <1>16 DEF ClearForeground, TaskGoto
<1>17. ASSUME NEW p \in Ptys, PtyEnds(p) PROVE Kept
  BY <1>17 DEF PtyEnds, TaskGoto
<1>18. ASSUME NEW p \in Ptys, ClearPty(p) PROVE Kept
  BY <1>18 DEF ClearPty, TaskGoto
<1>19. ASSUME NEW p \in Ptys, DiscardAfterPty(p) PROVE Kept
  BY <1>19 DEF DiscardAfterPty, TaskGoto
<1>20. ASSUME NEW p \in Ptys, FinishPty(p) PROVE Kept
  BY <1>20 DEF FinishPty, TaskDone
<1> QED
  BY <1>1, <1>2, <1>3, <1>4, <1>5, <1>6, <1>7, <1>8, <1>9, <1>10,
     <1>11, <1>12, <1>13, <1>14, <1>15, <1>16, <1>17, <1>18, <1>19,
     <1>20, LiveWriters

(* Every step of the session is a step of the slot or none at all.         *)
LEMMA SlotStep ==
  ASSUME Inv, Inv', ~ShellCloseAnytime, [Next]_vars
  PROVE  [Slot!Next]_<<Owner, Released>>
<1>1. (\A w \in Work : Live(w)' => Owner' = w)
      /\ ((\A w \in Work : ~Live(w)') => Owner' = None)
  <2>1. \A v, w \in Work : Live(v)' /\ Live(w)' => v = w
    BY DEF Inv, OwnerInv
  <2> QED
    BY <2>1 DEF Owner
<1>2. ASSUME NEW k \in Procs, RegisterForeground(k)
      PROVE  Slot!Acquire(call[k].work)
  <2> DEFINE w == call[k].work
  <2>1. /\ w \in Work /\ task[w] = "none" /\ foreground = None
        /\ w \notin detached \cup cancelled \cup hungUp
    BY <1>2 DEF RegisterForeground, Opens, Inv, MutexInv, Starting,
                DetachedInv, StopInv
  <2>2. /\ \A v \in Work \ {w} : task'[v] = task[v]
        /\ task'[w] = "opened"
        /\ UNCHANGED <<detached, cancelled, hungUp>>
    BY <1>2, <2>1 DEF RegisterForeground, Inv, TypeOK
  <2>3. \A v \in Work : ~Live(v)
    BY <2>1 DEF Inv, OwnerInv
  <2>4. Owner = None /\ Owner' = w
    BY <1>1, <2>1, <2>2, <2>3, OwnerIsLive DEF Live
  <2>5. w \notin Released
    BY <2>1 DEF Released, Used
  <2>6. Released' = Released
    BY <2>1, <2>2 DEF Released, Used, Live
  <2> QED
    BY <2>4, <2>5, <2>6 DEF Slot!Acquire
<1>3. CASE \A k \in Procs : ~RegisterForeground(k)
  <2>1. \A w \in Work : (Live(w)' => Live(w)) /\ (Used(w)' <=> Used(w))
    BY <1>3, OnlyRegistrationAcquires
  <2>2. CASE \A w \in Work : Live(w) <=> Live(w)'
    <3>1. Released' = Released
      BY <2>1, <2>2 DEF Released
    <3>2. Owner' = Owner
      BY <1>1, <2>2, OwnerIsLive
    <3> QED
      BY <3>1, <3>2
  <2>3. ASSUME NEW w \in Work, Live(w), ~Live(w)'
        PROVE  Slot!Release
    <3>1. \A v \in Work \ {w} : ~Live(v)
      BY <2>3 DEF Inv, OwnerInv
    <3>2. Owner = w /\ Owner' = None
      BY <1>1, <2>1, <2>3, <3>1, OwnerIsLive
    <3>3. Used(w)
      BY <2>3 DEF Used, Live
    <3>4. Released' = Released \cup {w}
      BY <2>1, <2>3, <3>1, <3>3 DEF Released
    <3> QED
      BY <3>2, <3>4 DEF Slot!Release
  <2> QED
    BY <2>1, <2>2, <2>3 DEF Slot!Next
<1> QED
  <2>1. ASSUME NEW k \in Procs, RegisterForeground(k)
        PROVE  call[k].work \in Work
    BY <2>1 DEF RegisterForeground, Opens, Inv, MutexInv, Starting
  <2> QED
    BY <1>2, <1>3, <2>1 DEF Slot!Next

(* "A logical session permits only one foreground exec or PTY at a time":  *)
(* the session implements the abstract slot, for clients that call         *)
(* shell_close only on an open PTY.                                        *)
THEOREM SessionImplementsSlot ==
  ASSUME ~ShellCloseAnytime
  PROVE  Spec => ImplementsSlot
<1>1. Init => Slot!Init
  BY DEF Init, Slot!Init, Owner, Released, Used, Live
<1>2. Inv /\ Inv' /\ [Next]_vars => [Slot!Next]_<<Owner, Released>>
  BY SlotStep
<1> QED
  BY <1>1, <1>2, InvHolds, PTL DEF Spec, ImplementsSlot, Slot!Spec

=============================================================================
