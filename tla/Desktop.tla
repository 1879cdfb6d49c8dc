------------------------------ MODULE Desktop -------------------------------
(***************************************************************************)
(* The desktop app beside the daemons: its start-up (configuration,        *)
(* autostart entry, helper programs, probe of the daemon, the question     *)
(* whether to start one), the two calls that save the configuration and    *)
(* have the daemon reload it, and its exit, which may take the daemon with *)
(* it.  Composes ConfigFile, whose savers are the app at start-up, each    *)
(* daemon at start-up and the app's calls, and Daemon.  The age of         *)
(* sessions, which nothing here depends on, stands still.                  *)
(***************************************************************************)
EXTENDS ConfigFile, Daemon

CONSTANTS App,          \* the app's main thread
          Calls,        \* config_save and set_retention_days under way
          Inputs,       \* the configurations the window may send to config_save
          MaxLaunches   \* bound: launches of the app

ASSUME DesktopAssumption ==
    /\ Savers = Daemons \cup Calls \cup {App}
    /\ Daemons \cap Calls = {} /\ App \notin Daemons \cup Calls
    /\ Inputs \subseteq Config
    /\ MaxLaunches \in Nat

VARIABLES
    app,        \* progress of the app: setup, then the event loop
    exiting,    \* AppState.exit_in_progress
    launches,
    autostart,  \* the operating system's login entry for the app
    trouble,    \* history: the login entry could not be written since the launch
    helper,     \* the aisshd in the bin directory: "absent", "old", "new" or a part
    staged,     \* its .installing copy
    boot,       \* main of each daemon before it binds
    dconf,      \* SessionManager.config of each daemon
    asked,      \* daemons with a DaemonShutdown in their socket
    call        \* each call: progress, configuration, previous one, daemon asked

appVars    == <<app, exiting, launches, autostart, trouble>>
helperVars == <<helper, staged>>
bootVars   == <<boot, dconf, asked>>
vars == <<configVars, daemonVars, appVars, helperVars, bootVars, call>>

NoCall == [pc |-> "idle", saves |-> FALSE, want |-> Absent, prev |-> Absent,
           server |-> Nobody]

Init ==
    /\ ConfigInit /\ DaemonInit
    /\ app = "off" /\ exiting = FALSE /\ launches = 0
    /\ autostart = FALSE /\ trouble = FALSE
    /\ helper \in {"absent", "old"} /\ staged = "absent"
    /\ boot = [d \in Daemons |-> "none"]
    /\ dconf = [d \in Daemons |-> Absent]
    /\ asked = {}
    /\ call = [k \in Calls |-> NoCall]

Runnable(h) == h \in {"old", "new"}

Exists == names.config # Absent

\* The daemon behind the endpoint answers.
Answers(d) == endpoint = d /\ Serving(d)

-----------------------------------------------------------------------------
(* The daemon's side: main before the endpoint, and its requests.          *)

BootTo(d, to) == boot' = [boot EXCEPT ![d] = to]

\* The process comes up, started by hand or by the app.
BootDaemon(d) ==
    /\ boot[d] = "none" /\ dpc[d] \in {"off", "refused"}
    /\ starts < MaxStarts /\ starts' = starts + 1
    /\ BootTo(d, "ensure")
    /\ UNCHANGED <<platform, endpoint, dpc, alone, crashes, historyVars, memoryVars>>

SpawnByHand(d) ==
    /\ Runnable(helper)
    /\ BootDaemon(d)
    /\ UNCHANGED <<configVars, appVars, helperVars, dconf, asked, call>>

\* Config::ensure_exists
BootEnsure(d) ==
    /\ boot[d] = "ensure"
    /\ IF Exists THEN BootTo(d, "load") /\ UNCHANGED configVars
       ELSE BootTo(d, "creating") /\ StartSave(d, default_config)
    /\ UNCHANGED <<daemonVars, appVars, helperVars, dconf, asked, call>>

BootCreated(d, result) ==
    /\ boot[d] = "creating"
    /\ SaveReturns(d, result)
    /\ BootTo(d, IF result = "saved" THEN "load" ELSE "none")
    /\ UNCHANGED <<daemonVars, appVars, helperVars, dconf, asked, call>>

\* Config::load
BootLoad(d) ==
    /\ boot[d] = "load" /\ Loadable
    /\ dconf' = [dconf EXCEPT ![d] = OnDisk]
    /\ BootTo(d, "none")
    /\ BeginMain(d)
    /\ UNCHANGED <<starts, historyVars, configVars, appVars, helperVars, asked, call>>

\* Any error so far, such as a configuration that cannot be read, ends main.
BootGivesUp(d) ==
    /\ boot[d] \in {"ensure", "load"}
    /\ BootTo(d, "none")
    /\ UNCHANGED <<configVars, daemonVars, appVars, helperVars, dconf, asked, call>>

\* The process is killed before it is at the endpoint.
BootDies(d) ==
    /\ boot[d] # "none" /\ crashes < MaxCrashes
    /\ crashes' = crashes + 1
    /\ SaverDies(d)
    /\ BootTo(d, "none")
    /\ UNCHANGED <<platform, endpoint, dpc, alone, starts, historyVars, memoryVars,
                   appVars, helperVars, dconf, asked, call>>

\* A process that has ended has no configuration and no clients: whoever waits
\* for its answer gets an error.
DropEnded ==
    LET ended == {d \in Daemons : dpc'[d] \in {"off", "refused"}}
    IN  /\ dconf' = [d \in Daemons |-> IF d \in ended THEN Absent ELSE dconf[d]]
        /\ asked' = asked \ ended
        /\ call' = [k \in Calls |-> IF call[k].server \in ended
                                     THEN NoCall ELSE call[k]]

DaemonSteps(d) ==
    /\ \/ StartUp(d) \/ Serve(d) \/ Stop(d) \/ StorageFails(d) \/ Crash(d)
       \/ d \in asked /\ Shutdown(d)
    /\ DropEnded
    /\ UNCHANGED <<configVars, appVars, helperVars, boot>>

-----------------------------------------------------------------------------
(* Start-up of the app.  Every failure is shown, and the app ends when the *)
(* user has seen it.                                                       *)

AppGo(from, to) == app = from /\ app' = to

Launch ==
    /\ AppGo("off", "ensure") /\ launches < MaxLaunches
    /\ launches' = launches + 1 /\ trouble' = FALSE
    /\ UNCHANGED <<configVars, daemonVars, exiting, autostart, helperVars, bootVars, call>>

AppEnsure ==
    /\ app = "ensure"
    /\ \/ Exists /\ app' = "load" /\ UNCHANGED configVars
       \/ ~Exists /\ app' = "creating" /\ StartSave(App, default_config)
       \/ app' = "error" /\ UNCHANGED configVars
    /\ UNCHANGED <<daemonVars, exiting, launches, autostart, trouble, helperVars,
                   bootVars, call>>

AppCreated(result) ==
    /\ AppGo("creating", IF result = "saved" THEN "load" ELSE "error")
    /\ SaveReturns(App, result)
    /\ UNCHANGED <<daemonVars, exiting, launches, autostart, trouble, helperVars,
                   bootVars, call>>

\* Mutant: the login entry is left to config_save.
LoadOnly ==
    /\ app = "load"
    /\ app' = IF Loadable THEN "install" ELSE "error"
    /\ UNCHANGED <<configVars, daemonVars, exiting, launches, autostart, trouble,
                   helperVars, bootVars, call>>

\* load, and set_autostart(launch_at_login), which the system may refuse.
AppLoad ==
    /\ app = "load"
    /\ \/ /\ Loadable
          /\ autostart' = OnDisk.login
          /\ app' = "install"
       \/ app' = "error" /\ UNCHANGED autostart
    /\ UNCHANGED <<configVars, daemonVars, exiting, launches, trouble, helperVars,
                   bootVars, call>>

\* The helper is that of the bundle, or the bundle has none.
KeepHelper == helper # "absent" /\ app' = "probe" /\ UNCHANGED staged

\* install_helper: nothing to do, or a copy, or an error.
InstallHelper ==
    /\ app = "install"
    /\ \/ KeepHelper
       \/ helper # "new" /\ app' = "copy" /\ staged' = "part"
       \/ app' = "error" /\ UNCHANGED staged
    /\ UNCHANGED <<configVars, daemonVars, exiting, launches, autostart, trouble,
                   helper, bootVars, call>>

\* Mutant: the bundle is copied onto the helper itself.
CopyInPlace ==
    /\ app = "copy"
    /\ app' = "place"
    /\ staged' = "new" /\ helper' = "part"
    /\ UNCHANGED <<configVars, daemonVars, exiting, launches, autostart, trouble,
                   bootVars, call>>

\* fs::copy to the .installing name, and restrict_helper.
CopyHelper ==
    /\ app = "copy"
    /\ \/ app' = "place" /\ staged' = "new"
       \/ app' = "error" /\ UNCHANGED staged
    /\ UNCHANGED <<configVars, daemonVars, exiting, launches, autostart, trouble,
                   helper, bootVars, call>>

\* replace_helper: one rename on Unix; on Windows the helper in the way, which
\* may be running, is renamed aside first.  Any rename may fail.
ReplaceHelper ==
    /\ app = "place"
    /\ \/ app' = "error" /\ UNCHANGED helperVars
       \/ /\ platform = "windows" /\ helper # "absent"
          /\ helper' = "absent" /\ UNCHANGED <<app, staged>>
       \/ /\ platform = "unix" \/ helper = "absent"
          /\ app' = "probe" /\ helper' = staged /\ staged' = "absent"
    /\ UNCHANGED <<configVars, daemonVars, exiting, launches, autostart, trouble,
                   bootVars, call>>

\* daemon_ready: an answer within a second, or none (yet).
Probe(from, yes, no) ==
    /\ app = from
    /\ \/ app' = yes /\ \E d \in Daemons : Answers(d)
       \/ app' = no
    /\ UNCHANGED <<configVars, daemonVars, exiting, launches, autostart, trouble,
                   helperVars, bootVars, call>>

\* request_daemon_start, and the probe after the user's approval.
Prompt ==
    /\ app = "prompt" /\ app' \in {"reprobe", "exit"}
    /\ UNCHANGED <<configVars, daemonVars, exiting, launches, autostart, trouble,
                   helperVars, bootVars, call>>

\* start_daemon
SpawnDaemon ==
    /\ app = "spawn"
    /\ \/ /\ Runnable(helper)
          /\ \E d \in Daemons : BootDaemon(d)
          /\ app' = "wait"
       \/ app' = "error" /\ UNCHANGED <<daemonVars, boot>>
    /\ UNCHANGED <<configVars, exiting, launches, autostart, trouble,
                   helperVars, dconf, asked, call>>

\* What an approval sets off; wait_for_daemon gives up after five seconds.
ApprovedStart ==
    \/ Probe("reprobe", "ready", "spawn") \/ SpawnDaemon \/ Probe("wait", "ready", "error")

AppStartUp ==
    \/ AppEnsure \/ AppLoad \/ InstallHelper \/ CopyHelper \/ ReplaceHelper
    \/ \E r \in {"saved", "failed"} : AppCreated(r)
    \/ Probe("probe", "ready", "prompt") \/ ApprovedStart

-----------------------------------------------------------------------------
(* Exit.                                                                   *)

\* A quit from the tray, or the OK of show_startup_error.
Quit ==
    /\ AppGo("ready", "exit") \/ AppGo("error", "exit")
    /\ UNCHANGED <<configVars, daemonVars, exiting, launches, autostart, trouble,
                   helperVars, bootVars, call>>

\* The app's process ends with everything in it; a request a daemon has read
\* is still carried out.
ProcessEnds ==
    /\ app' = "off" /\ exiting' = FALSE
    /\ call' = [k \in Calls |-> IF call[k].pc = "assign" THEN call[k] ELSE NoCall]
    /\ save' = [k \in Savers |-> IF k \in Daemons THEN save[k] ELSE NoSave]
    /\ \/ UNCHANGED content
       \/ \E k \in Calls \cup {App} :
             /\ save[k].pc = "write"
             /\ content' = [content EXCEPT ![save[k].file] = Torn]
    /\ UNCHANGED <<names, launches, autostart, trouble, helperVars, bootVars>>

\* Mutant: every ExitRequested is held back to stop the daemon.
ExitAlwaysAsks ==
    /\ app = "exit"
    /\ IF Loadable /\ OnDisk.quit
       THEN /\ app' = "ask" /\ exiting' = TRUE
            /\ UNCHANGED <<configVars, launches, autostart, trouble, helperVars,
                           bootVars, call>>
       ELSE ProcessEnds
    /\ UNCHANGED daemonVars

\* ExitRequested: held back once if the daemon is to be stopped first.
ExitRequested ==
    /\ app = "exit"
    /\ IF Loadable /\ OnDisk.quit /\ ~exiting
       THEN /\ app' = "ask" /\ exiting' = TRUE
            /\ UNCHANGED <<configVars, launches, autostart, trouble, helperVars,
                           bootVars, call>>
       ELSE ProcessEnds
    /\ UNCHANGED daemonVars

\* DaemonShutdown with two seconds for the answer; the request may be read
\* after they are over.  Then exit(0), which is an ExitRequested again.
AskDaemon ==
    /\ AppGo("ask", "exit")
    /\ \/ \E d \in Daemons : endpoint = d /\ dpc[d] \in Bound /\ asked' = asked \cup {d}
       \/ UNCHANGED asked
    /\ UNCHANGED <<configVars, daemonVars, exiting, launches, autostart, trouble,
                   helperVars, boot, dconf, call>>

\* A second quit during those two seconds is not held back.
QuitAgain ==
    /\ app = "ask"
    /\ ProcessEnds
    /\ UNCHANGED daemonVars

AppCrash ==
    /\ app # "off" /\ crashes < MaxCrashes
    /\ crashes' = crashes + 1
    /\ ProcessEnds
    /\ UNCHANGED <<platform, endpoint, dpc, alone, starts, historyVars, memoryVars>>

-----------------------------------------------------------------------------
(* config_save and set_retention_days.                                     *)

CallTo(k, to) == call' = [call EXCEPT ![k].pc = to]
CallEnds(k) == call' = [call EXCEPT ![k] = NoCall]
ToReload(k) == call' = [call EXCEPT ![k] = [NoCall EXCEPT !.pc = "reload"]]

\* The window is only there once the app is; previous is loaded first.
BeginCall(k, c, saves) ==
    /\ app = "ready" /\ call[k].pc = "idle"
    /\ OverlapSaves \/ \A j \in Calls : call[j].pc = "idle"
    /\ Loadable
    /\ call' = [call EXCEPT ![k] = [NoCall EXCEPT !.pc = "save", !.saves = saves,
                                                  !.want = c, !.prev = OnDisk]]
    /\ UNCHANGED <<configVars, daemonVars, appVars, helperVars, bootVars>>

ConfigSave(k, c) == BeginCall(k, c, TRUE)

SetRetentionDays(k, days) ==
    days \in 1 .. MaxDays /\ BeginCall(k, [OnDisk EXCEPT !.days = days], FALSE)

\* The reload_config command.
ReloadConfig(k) ==
    /\ app = "ready" /\ call[k].pc = "idle"
    /\ OverlapSaves \/ \A j \in Calls : call[j].pc = "idle"
    /\ ToReload(k)
    /\ UNCHANGED <<configVars, daemonVars, appVars, helperVars, bootVars>>

CallSave(k) ==
    /\ call[k].pc = "save" /\ CallTo(k, "saving")
    /\ StartSave(k, call[k].want)
    /\ UNCHANGED <<daemonVars, appVars, helperVars, bootVars>>

CallSaved(k, result) ==
    /\ call[k].pc = "saving" /\ SaveReturns(k, result)
    /\ CASE result = "failed" -> CallEnds(k)
         [] result = "saved" /\ call[k].saves -> CallTo(k, "autostart")
         [] OTHER -> ToReload(k)
    /\ UNCHANGED <<daemonVars, appVars, helperVars, bootVars>>

\* set_autostart, or its failure.
CallAutostart(k) ==
    /\ call[k].pc = "autostart"
    /\ \/ ToReload(k) /\ autostart' = call[k].want.login /\ UNCHANGED trouble
       \/ CallTo(k, "rollback") /\ trouble' = TRUE /\ UNCHANGED autostart
    /\ UNCHANGED <<configVars, daemonVars, app, exiting, launches, helperVars, bootVars>>

\* Mutant: the new configuration is saved again.
RollbackToNew(k) ==
    /\ call[k].pc = "rollback" /\ CallTo(k, "rolling")
    /\ StartSave(k, call[k].want)
    /\ UNCHANGED <<daemonVars, appVars, helperVars, bootVars>>

CallRollback(k) ==
    /\ call[k].pc = "rollback" /\ CallTo(k, "rolling")
    /\ StartSave(k, call[k].prev)
    /\ UNCHANGED <<daemonVars, appVars, helperVars, bootVars>>

CallRolledBack(k, result) ==
    /\ call[k].pc = "rolling" /\ SaveReturns(k, result)
    /\ CallEnds(k)
    /\ autostart' \in {autostart, call[k].prev.login}
    /\ UNCHANGED <<daemonVars, app, exiting, launches, trouble, helperVars, bootVars>>

\* Mutant: the daemon keeps the configuration it was started with.
ReloadCached(k) ==
    /\ call[k].pc = "reload"
    /\ \E d \in Daemons :
          /\ Answers(d)
          /\ call' = [call EXCEPT ![k].pc = "assign", ![k].server = d,
                                  ![k].want = dconf[d]]
    /\ UNCHANGED <<configVars, daemonVars, appVars, helperVars, bootVars>>

\* ReloadConfig: reload_config loads the file, then takes the lock.
CallReload(k) ==
    /\ call[k].pc = "reload"
    /\ \/ \E d \in Daemons :
             /\ Answers(d) /\ Loadable
             /\ call' = [call EXCEPT ![k].pc = "assign", ![k].server = d,
                                     ![k].want = OnDisk]
       \/ CallEnds(k)
    /\ UNCHANGED <<configVars, daemonVars, appVars, helperVars, bootVars>>

CallAssign(k) ==
    /\ call[k].pc = "assign"
    /\ dconf' = [dconf EXCEPT ![call[k].server] = call[k].want]
    /\ CallEnds(k)
    /\ UNCHANGED <<configVars, daemonVars, appVars, helperVars, boot, asked>>

CallSteps(k) ==
    \/ CallSave(k) \/ CallAutostart(k) \/ CallRollback(k) \/ CallReload(k) \/ CallAssign(k)
    \/ \E r \in {"saved", "failed"} : CallSaved(k, r) \/ CallRolledBack(k, r)

-----------------------------------------------------------------------------

SaveSteps ==
    /\ \E k \in Savers : SaveAtomic(k) \/ SaveFails(k)
    /\ UNCHANGED <<daemonVars, appVars, helperVars, bootVars, call>>

DaemonBoots(d) ==
    \/ BootEnsure(d) \/ BootLoad(d) \/ BootGivesUp(d) \/ BootDies(d)
    \/ \E r \in {"saved", "failed"} : BootCreated(d, r)

Next ==
    \/ Launch \/ AppStartUp \/ Prompt \/ Quit \/ ExitRequested \/ AskDaemon \/ QuitAgain
    \/ AppCrash
    \/ SaveSteps
    \/ \E d \in Daemons : SpawnByHand(d) \/ DaemonBoots(d) \/ DaemonSteps(d)
    \/ \E k \in Calls : \/ CallSteps(k) \/ ReloadConfig(k)
                        \/ \E c \in Inputs : ConfigSave(k, c)
                        \/ \E days \in 0 .. MaxDays + 1 : SetRetentionDays(k, days)

Spec == Init /\ [][Next]_vars

(***************************************************************************)
(* The app's main thread and its tasks run; saves go on; processes are     *)
(* scheduled.  Nobody owes a launch, an approval, an OK, a quit or a crash. *)
(***************************************************************************)
Fairness ==
    /\ WF_vars(AppStartUp) /\ WF_vars(ExitRequested) /\ WF_vars(AskDaemon)
    /\ WF_vars(\E k \in Savers : SaveAtomic(k)
               /\ UNCHANGED <<daemonVars, appVars, helperVars, bootVars, call>>)

FairSpec == Spec /\ Fairness

-----------------------------------------------------------------------------
(* Properties.                                                             *)

TypeOK ==
    /\ ConfigTypeOK /\ DaemonTypeOK
    /\ app \in {"off", "ensure", "creating", "load", "install", "copy", "place",
                "probe", "prompt", "reprobe", "spawn", "wait", "error", "ready", "exit", "ask"}
    /\ exiting \in BOOLEAN /\ launches \in Nat
    /\ autostart \in BOOLEAN /\ trouble \in BOOLEAN
    /\ helper \in {"absent", "old", "new"} /\ staged \in {"absent", "part", "new"}
    /\ boot \in [Daemons -> {"none", "ensure", "creating", "load"}]
    /\ dconf \in [Daemons -> Config \cup {Absent}]
    /\ asked \subseteq Daemons

(* A config_save or set_retention_days that is answered with success has   *)
(* reached the daemon: what that daemon uses from then on is what the file *)
(* says, even if daemons came and went during the call.                    *)
AckMeansLoaded ==
    [][\A k \in Calls :
          CallAssign(k) => dconf'[call[k].server] = OnDisk]_vars

(* config_save undoes itself when the login entry cannot be changed: after *)
(* a rollback that could be written the file is the one before the call.   *)
RollbackRestores ==
    [][\A k \in Calls :
          call[k].pc = "rolling" /\ save[k].pc = "saved" /\ call'[k].pc = "idle"
             /\ app' # "off"
          => OnDisk = call[k].prev]_vars

(* The login entry follows launch_at_login: whenever the app runs and no   *)
(* call is under way they agree, after crashes at any point too, unless    *)
(* the system refused to change the entry since the launch.                *)
LoginEntryFollows ==
    app \in {"install", "probe", "prompt", "ready"}
    /\ (\A k \in Calls : call[k].pc = "idle")
    => trouble \/ autostart = OnDisk.login

(* An installed helper is never missing or half-written where another      *)
(* process could start it; on Windows it may be missing between the two    *)
(* renames of a replacement.                                               *)
HelperStaysRunnable ==
    [][Runnable(helper) => \/ Runnable(helper')
                           \/ platform = "windows" /\ helper' = "absent"]_vars

(* The app never hangs: a launch and a start of a daemon that the user has *)
(* approved come to an end or to a message, and a quit, or the OK to that  *)
(* message, ends the app, also when the daemon that was started is refused *)
(* or killed, or the one asked to stop does not answer.                    *)
AppSettles ==
    app \notin {"off", "prompt", "error", "ready"}
    ~> app \in {"off", "prompt", "error", "ready"}

=============================================================================
