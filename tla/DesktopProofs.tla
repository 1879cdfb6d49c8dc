---------------------------- MODULE DesktopProofs ---------------------------
(***************************************************************************)
(* Proofs about Desktop: for any number of daemons, calls, launches and    *)
(* crashes.  What concerns config.toml assumes that saves do not overlap;  *)
(* what concerns the daemons assumes what DaemonProofs assumes.            *)
(*                                                                         *)
(* The composition is proved from the invariants of its parts: as far as   *)
(* config.toml goes, each step is one of ConfigFile, none, or the end of   *)
(* the app's process with all its savers (ConfigPart); as far as the       *)
(* daemons go, one of Daemon, none, or one of a process that is not at the *)
(* endpoint yet (DaemonPart).                                              *)
(*                                                                         *)
(* What holds the parts together is Core: where a call is determines what  *)
(* the file holds (DiskOK), the start-ups save only where there is no file *)
(* and calls begin only where there is one, so none of them meets the save *)
(* of another, and the login entry is what the file says except between a  *)
(* save and the change of the entry (LoginInv).                            *)
(***************************************************************************)
EXTENDS Desktop, ConfigFileProofs, DaemonProofs

\* The app has loaded a configuration since its launch.
AfterLoad == {"install", "copy", "place", "probe", "prompt", "reprobe", "spawn", "wait",
              "ready"}

\* The window is there, or the app is on its way out.
WithWindow == {"ready", "exit", "ask"}

Active(k) == call[k].pc # "idle"

\* A saver at rest has nothing open; the start-ups only save a missing file.
SaverInv ==
    \A k \in Savers :
        /\ save[k].pc = "idle" => save[k] = NoSave
        /\ Saving(k) /\ k \notin Calls => ~Exists

CallPcs == {"idle", "save", "saving", "autostart", "rollback", "rolling", "reload", "assign"}

CallRecord == [pc : CallPcs, saves : BOOLEAN, want : Config \cup {Absent},
               prev : Config \cup {Absent}, server : Daemons \cup {Nobody}]

CallTypeOK == call \in [Calls -> CallRecord]

OneCall == \A j, k \in Calls : Active(j) /\ Active(k) => j = k

\* What a call knows at each of its steps.
CallOK(k) ==
    /\ Active(k) => Exists
    /\ save[k].pc # "idle" <=> call[k].pc \in {"saving", "rolling"}
    /\ call[k].pc \notin {"idle", "assign"} => app \in WithWindow
    /\ call[k].server \in Daemons <=> call[k].pc = "assign"
    /\ call[k].pc \in {"save", "saving", "autostart", "rollback", "rolling"} =>
          call[k].want \in Config /\ call[k].prev \in ValidConfig
    /\ call[k].pc \in {"rollback", "rolling"} => trouble
    /\ call[k].pc \in {"save", "saving"} /\ ~call[k].saves =>
          call[k].want.login = call[k].prev.login
    /\ Saving(k) => save[k].want = IF call[k].pc = "rolling" THEN call[k].prev
                                                             ELSE call[k].want

\* What the file holds at each step of a call.
DiskOK(k) ==
    /\ \/ call[k].pc = "save"
       \/ call[k].pc = "saving" /\ save[k].pc # "saved"
       \/ call[k].pc = "rolling" /\ save[k].pc = "saved"
       => OnDisk = call[k].prev
    /\ \/ call[k].pc \in {"autostart", "assign"}
       \/ call[k].pc = "saving" /\ save[k].pc = "saved"
       => OnDisk = call[k].want

CallInv == CallTypeOK /\ OneCall /\ \A k \in Calls : CallOK(k) /\ DiskOK(k)

\* A call that has saved another flag, but has not told the system yet.
Ahead(k) == \/ call[k].pc = "autostart"
            \/ call[k].pc = "saving" /\ call[k].saves /\ save[k].pc = "saved"

LoginInv ==
    app \in AfterLoad /\ ~trouble /\ (\A k \in Calls : ~Ahead(k)) => autostart = OnDisk.login

\* What the configuration, the calls and the login entry have to do with each other.
Core == SaverInv /\ CallInv /\ (app \in AfterLoad => Exists) /\ LoginInv

-----------------------------------------------------------------------------

LEMMA DesktopConstants ==
  /\ Calls \subseteq Savers /\ Daemons \subseteq Savers /\ App \in Savers
  /\ \A d \in Daemons : d \notin Calls
  /\ App \notin Calls /\ App \notin Daemons /\ Nobody \notin Daemons
  /\ default_config \in Config
  BY DesktopAssumption, DaemonAssumption, ConfigAssumption DEF default_config, Config

(* What can be loaded is there.                                            *)
LEMMA LoadableExists ==
  ASSUME Loadable
  PROVE  Exists /\ OnDisk \in ValidConfig /\ OnDisk \in Config
  BY ConfigTypes DEF Exists, OnDisk, Loadable

(* A step of a saver changes nothing else; what a reader finds changes in  *)
(* the rename only, to what was saved.                                     *)
LEMMA SaveEffect ==
  ASSUME FileInv, NEW k \in Savers, SaveAtomic(k) \/ SaveFails(k)
  PROVE  /\ Saving(k) /\ \A j \in Savers \ {k} : save'[j] = save[j]
         /\ \/ /\ save'[k].pc \in {"write", "rename"} /\ save'[k].want = save[k].want
               /\ OnDisk' = OnDisk /\ names'.config = names.config
            \/ /\ save'[k] = [NoSave EXCEPT !.pc = "failed"]
               /\ OnDisk' = OnDisk /\ names'.config = names.config
            \/ /\ save[k].pc = "rename" /\ save'[k] = [NoSave EXCEPT !.pc = "saved"]
               /\ OnDisk' = save[k].want /\ names'.config # Absent
<1> USE ConfigTypes
    DEF FileInv, ConfigTypeOK, HandleIsTemp, NamesDiffer, OnDisk, Saving, Content
<1>1. CASE OpenTemp(k)
  <2> DEFINE f == IF names.temp # Absent THEN names.temp
                  ELSE CHOOSE g \in Files : g \notin Used
  <2>1. f # names.config
    <3>1. CASE names.temp # Absent BY <3>1
    <3>2. CASE names.temp = Absent
      <4>0. \A j \in Savers : save[j].file = Absent
        BY <1>1, <3>2 DEF OpenTemp
      <4>1. Used \subseteq {names.config, Absent} BY <3>2, <4>0 DEF Used
      <4>2. \E g \in Files : g \notin Used
        <5>1. PICK g \in Files, h \in Files : g # h BY ConfigAssumption
        <5> QED BY <4>1, <5>1
      <4> QED BY <3>2, <4>2 DEF Used
    <3> QED BY <3>1, <3>2
  <2>2. /\ save[k].pc = "open" /\ names' = [names EXCEPT !.temp = f]
        /\ content' = [content EXCEPT ![f] = Empty]
        /\ save' = [save EXCEPT ![k].pc = "write", ![k].file = f]
    BY <1>1 DEF OpenTemp
  <2> HIDE DEF f
  <2> QED BY <2>1, <2>2
<1>2. CASE WriteTemp(k)
  <2>1. /\ save[k].pc = "write" /\ names' = names
        /\ content' = [content EXCEPT ![names.temp] = save[k].want]
        /\ save' = [save EXCEPT ![k].pc = "rename"]
    BY <1>2 DEF WriteTemp
  <2> QED BY <2>1
<1>3. CASE RenameTemp(k)
  <2>1. /\ save[k].pc = "rename" /\ names.temp # Absent
        /\ save' = [save EXCEPT ![k] = [NoSave EXCEPT !.pc = "saved"]]
        /\ names' = [config |-> names.temp, temp |-> Absent]
        /\ content'[names.temp] = content[names.temp]
    BY <1>3 DEF RenameTemp, Reclaimed
  <2> QED BY <2>1
<1>4. CASE SaveFails(k)
  <2>1. /\ save' = [save EXCEPT ![k] = [NoSave EXCEPT !.pc = "failed"]] /\ names' = names
        /\ \/ content' = content
           \/ save[k].pc = "write" /\ content' = [content EXCEPT ![names.temp] = Torn]
    BY <1>4 DEF SaveFails
  <2> QED BY <1>4, <2>1 DEF SaveFails
<1> QED BY <1>1, <1>2, <1>3, <1>4 DEF SaveAtomic

(* The end of the app's process: its savers are gone, and so are its       *)
(* calls, except for one whose request the daemon is carrying out.         *)
LEMMA EndsFile ==
  ASSUME FileInv, ProcessEnds
  PROVE  FileInv' /\ OnDisk' = OnDisk
<1> USE ConfigTypes, DesktopConstants
    DEF FileInv, ConfigTypeOK, OneSaver, HandleIsTemp, WantsValid, NamesDiffer, ConfigIsWhole,
        OnDisk, Saving, Content
<1>1. /\ names' = names
      /\ save' = [k \in Savers |-> IF k \in Daemons THEN save[k] ELSE NoSave]
      /\ \/ content' = content
         \/ \E k \in Savers \ Daemons :
               save[k].pc = "write" /\ content' = [content EXCEPT ![names.temp] = Torn]
  BY DesktopAssumption DEF ProcessEnds
<1>2. content' \in [Files -> Content] BY <1>1
<1>3. save' \in [Savers -> [pc : {"idle", "open", "write", "rename", "saved", "failed"},
                           file : Files \cup {Absent}, want : Config \cup {Absent}]]
  <2> HIDE DEF Config
  <2> QED BY <1>1 DEF NoSave
<1>4. OneSaver' /\ WantsValid' BY <1>1 DEF NoSave
<1>5. HandleIsTemp' BY <1>1 DEF NoSave
<1>6. OnDisk' = OnDisk /\ NamesDiffer' BY <1>1
<1> QED BY <1>1, <1>2, <1>3, <1>4, <1>5, <1>6


-----------------------------------------------------------------------------
(* The configuration: each step is one of ConfigFile, none, or the end of  *)
(* the app's process.                                                      *)

LEMMA BootDeaths ==
  ASSUME FileInv, SaverInv, NEW k \in Savers, SaverDies(k) PROVE [ConfigNext]_configVars
<1>1. CASE save[k].pc # "idle" BY <1>1 DEF ConfigNext
<1>2. CASE save[k].pc = "idle"
  <2>1. save[k] = NoSave BY <1>2 DEF SaverInv
  <2>2. names' = names /\ content' = content /\ save' = [save EXCEPT ![k] = NoSave]
    BY <1>2 DEF SaverDies
  <2>3. save' = save BY <2>1, <2>2 DEF FileInv, ConfigTypeOK
  <2> QED BY <2>2, <2>3 DEF configVars
<1> QED BY <1>1, <1>2

LEMMA ConfigPart ==
  ASSUME FileInv, Core, Next PROVE [ConfigNext]_configVars \/ ProcessEnds
<1> DEFINE Goal == [ConfigNext]_configVars \/ ProcessEnds
<1> USE DesktopConstants
<1>1. ASSUME UNCHANGED configVars PROVE Goal BY <1>1
<1>2. ASSUME NEW k \in Savers, NEW c \in Config, StartSave(k, c) PROVE Goal
  BY <1>2 DEF ConfigNext
<1>3. ASSUME NEW k \in Savers, NEW r \in {"saved", "failed"}, SaveReturns(k, r) PROVE Goal
  BY <1>3 DEF ConfigNext
<1>4. ASSUME NEW k \in Savers, SaverDies(k) PROVE Goal
  BY <1>4, BootDeaths DEF Core
<1>5. ASSUME ProcessEnds PROVE Goal BY <1>5
<1> SUFFICES Goal OBVIOUS
<1> HIDE DEF Goal
<1>6. CASE Launch \/ AppStartUp
  <2>0. App \in Savers /\ default_config \in Config OBVIOUS
  <2>1. CASE AppEnsure
    <3>1. UNCHANGED configVars \/ StartSave(App, default_config) BY <2>1 DEF AppEnsure
    <3>2. CASE StartSave(App, default_config) BY ONLY <1>2, <2>0, <3>2
    <3> QED BY <1>1, <3>1, <3>2
  <2>2. ASSUME NEW r \in {"saved", "failed"}, AppCreated(r) PROVE Goal
    <3>1. SaveReturns(App, r) BY <2>2 DEF AppCreated
    <3> QED BY <1>3, <2>0, <3>1
  <2>3. CASE Launch \/ AppLoad \/ InstallHelper \/ CopyHelper \/ ReplaceHelper
    BY <1>1, <2>3 DEF Launch, AppLoad, InstallHelper, CopyHelper, ReplaceHelper
  <2>4. CASE Probe("probe", "ready", "prompt") \/ ApprovedStart
    BY <1>1, <2>4 DEF Probe, ApprovedStart, SpawnDaemon
  <2>5. CASE \E r \in {"saved", "failed"} : AppCreated(r) BY <2>2, <2>5
  <2> QED BY <1>6, <2>1, <2>3, <2>4, <2>5 DEF AppStartUp
<1>7. CASE Prompt \/ Quit \/ ExitRequested \/ AskDaemon \/ QuitAgain \/ AppCrash
  BY <1>1, <1>5, <1>7 DEF Prompt, Quit, ExitRequested, AskDaemon, QuitAgain, AppCrash
<1>8. CASE SaveSteps
  BY <1>8 DEF SaveSteps, ConfigNext, Goal
<1>9. ASSUME NEW d \in Daemons, SpawnByHand(d) \/ DaemonBoots(d) \/ DaemonSteps(d) PROVE Goal
  <2>1. CASE BootEnsure(d) BY <1>1, <1>2, <2>1 DEF BootEnsure
  <2>2. CASE \E r \in {"saved", "failed"} : BootCreated(d, r) BY <1>3, <2>2 DEF BootCreated
  <2>3. CASE BootDies(d) BY <1>4, <2>3 DEF BootDies
  <2>4. CASE SpawnByHand(d) \/ BootLoad(d) \/ BootGivesUp(d) \/ DaemonSteps(d)
    BY <1>1, <2>4 DEF SpawnByHand, BootLoad, BootGivesUp, DaemonSteps
  <2> QED BY <1>9, <2>1, <2>2, <2>3, <2>4 DEF DaemonBoots
<1>10. ASSUME NEW k \in Calls, CallSteps(k) PROVE Goal
  <2>0. CallOK(k) BY DEF Core, CallInv
  <2>1. CASE CallSave(k)
    <3>1. call[k].want \in Config BY <2>0, <2>1 DEF CallSave, CallOK
    <3> QED BY <1>2, <2>1, <3>1 DEF CallSave
  <2>2. CASE CallRollback(k)
    <3>1. call[k].prev \in Config BY <2>0, <2>2 DEF CallRollback, CallOK, ValidConfig
    <3> QED BY <1>2, <2>2, <3>1 DEF CallRollback
  <2>3. CASE \E r \in {"saved", "failed"} : CallSaved(k, r) \/ CallRolledBack(k, r)
    BY <1>3, <2>3 DEF CallSaved, CallRolledBack
  <2>4. CASE CallAutostart(k) \/ CallReload(k) \/ CallAssign(k)
    BY <1>1, <2>4 DEF CallAutostart, CallReload, CallAssign
  <2> QED BY <1>10, <2>1, <2>2, <2>3, <2>4 DEF CallSteps
<1>11. ASSUME NEW k \in Calls,
              \/ ReloadConfig(k) \/ \E c \in Inputs : ConfigSave(k, c)
              \/ \E days \in 0 .. MaxDays + 1 : SetRetentionDays(k, days)
       PROVE Goal
  BY <1>1, <1>11 DEF ReloadConfig, ConfigSave, SetRetentionDays, BeginCall
<1> QED BY <1>6, <1>7, <1>8, <1>9, <1>10, <1>11 DEF Next, Goal

LEMMA FileKept ==
  ASSUME ~OverlapSaves, FileInv, Core, [Next]_vars PROVE FileInv' /\ AbstractStep
<1>1. CASE UNCHANGED vars BY <1>1, FileStep DEF vars
<1>2. CASE [ConfigNext]_configVars BY <1>2, FileStep
<1>3. CASE ProcessEnds BY <1>3, EndsFile DEF AbstractStep
<1> QED BY <1>1, <1>2, <1>3, ConfigPart

-----------------------------------------------------------------------------
(* The calls and the login entry.                                          *)

LEMMA CoreInit == Init => Core
<1> SUFFICES ASSUME Init PROVE Core
  OBVIOUS
<1>1. /\ \A k \in Savers : save[k] = NoSave
      /\ call = [k \in Calls |-> NoCall] /\ app = "off"
  BY DEF Init, ConfigInit
<1>2. NoCall \in CallRecord BY DEF NoCall, CallRecord, CallPcs
<1>3. SaverInv BY <1>1 DEF SaverInv, Saving, NoSave
<1>4. CallTypeOK BY <1>1, <1>2 DEF CallTypeOK
<1>5. \A k \in Calls : call[k].pc = "idle" /\ call[k].server = Nobody BY <1>1 DEF NoCall
<1>6. OneCall BY <1>5 DEF OneCall, Active
<1>7. \A k \in Calls : CallOK(k) /\ DiskOK(k)
  BY <1>1, <1>5, DesktopConstants DEF CallOK, DiskOK, Active, Saving, NoSave
<1>8. LoginInv /\ app \notin AfterLoad BY <1>1 DEF LoginInv, AfterLoad
<1> QED BY <1>3, <1>4, <1>6, <1>7, <1>8 DEF Core, CallInv

(* A step of the app or of a daemon that is no concern of a call: the file *)
(* stays, and a start-up saves at most where there is none.                *)
LEMMA CallsStay ==
  ASSUME Core,
         \A j \in Calls : save'[j] = save[j],
         \A j \in Savers \ Calls :
            \/ save'[j] = save[j] \/ save'[j] = NoSave \/ save'[j].pc = "failed"
            \/ ~Exists /\ save'[j].pc # "idle",
         names'.config = names.config, OnDisk' = OnDisk,
         UNCHANGED <<call, autostart, trouble>>,
         app \in WithWindow => app' \in WithWindow,
         app' \in AfterLoad => app \in AfterLoad
  PROVE  Core'
<1>1. Exists' = Exists BY DEF Exists
<1>2. SaverInv'
  <2>1. \A j \in Savers \ Calls : (save'[j].pc = "idle" => save'[j] = NoSave)
                                  /\ (Saving(j)' => ~Exists)
    BY DEF Core, SaverInv, Saving, NoSave
  <2>2. \A j \in Calls : j \in Savers BY DesktopConstants
  <2> QED BY <1>1, <2>1, <2>2 DEF Core, SaverInv
<1>3. CallTypeOK' /\ OneCall' BY DEF Core, CallInv, CallTypeOK, OneCall, Active
<1>4. ASSUME NEW k \in Calls PROVE CallOK(k)' /\ DiskOK(k)'
  <2>1. save'[k] = save[k] /\ call'[k] = call[k] /\ CallOK(k) /\ DiskOK(k)
    BY DEF Core, CallInv
  <2>2. Saving(k)' = Saving(k) BY <2>1 DEF Saving
  <2>3. CallOK(k)' BY <1>1, <2>1, <2>2 DEF CallOK, Active
  <2>4. DiskOK(k)' BY <2>1 DEF DiskOK
  <2> QED BY <2>3, <2>4
<1>5. LoginInv' BY DEF Core, LoginInv, Ahead
<1> QED BY <1>1, <1>2, <1>3, <1>4, <1>5 DEF Core, CallInv

LEMMA QuietStep ==
  ASSUME Core, UNCHANGED <<configVars, call, autostart, trouble>>,
         app \in WithWindow => app' \in WithWindow,
         app' \in AfterLoad => app \in AfterLoad
  PROVE  Core'
<1>1. UNCHANGED <<names, content, save, call, autostart, trouble>> BY DEF configVars
<1>2. OnDisk' = OnDisk BY <1>1 DEF OnDisk
<1> QED BY ONLY <1>1, <1>2, Core, app \in WithWindow => app' \in WithWindow,
         app' \in AfterLoad => app \in AfterLoad, CallsStay

(* A step of start-up with its save: begun where there is no file, or over. *)
LEMMA StartUpSaves ==
  ASSUME FileInv, Core, NEW k \in Savers \ Calls,
         \/ ~Exists /\ StartSave(k, default_config)
         \/ \E r \in {"saved", "failed"} : SaveReturns(k, r)
         \/ SaverDies(k),
         UNCHANGED <<call, autostart, trouble>>,
         app \in WithWindow => app' \in WithWindow,
         app' \in AfterLoad => app \in AfterLoad
  PROVE  Core'
<1> DEFINE Effect ==
             /\ \A j \in Savers \ {k} : save'[j] = save[j]
             /\ save'[k] = NoSave \/ save'[k].pc = "failed" \/ (~Exists /\ save'[k].pc # "idle")
             /\ names' = names
             /\ \/ content' = content
                \/ save[k].pc = "write" /\ content' = [content EXCEPT ![names.temp] = Torn]
<1>a. \A r : save' = [save EXCEPT ![k] = r] =>
              save'[k] = r /\ \A j \in Savers \ {k} : save'[j] = save[j]
  BY DEF FileInv, ConfigTypeOK
<1>1. Effect
  <2>1. CASE ~Exists /\ StartSave(k, default_config)
    <3> DEFINE r == IF validate(default_config)
                    THEN [pc |-> "open", file |-> Absent, want |-> default_config]
                    ELSE [NoSave EXCEPT !.pc = "failed"]
    <3>1. r.pc # "idle" BY DEF NoSave
    <3>2. save' = [save EXCEPT ![k] = r] /\ names' = names /\ content' = content
      BY <2>1 DEF StartSave
    <3> HIDE DEF r
    <3> QED BY <1>a, <2>1, <3>1, <3>2
  <2>2. CASE \E r \in {"saved", "failed"} : SaveReturns(k, r)
    BY <1>a, <2>2 DEF SaveReturns
  <2>3. CASE SaverDies(k)
    <3>1. save[k].pc = "write" => save[k].file = names.temp BY DEF FileInv, HandleIsTemp
    <3> QED BY <1>a, <2>3, <3>1 DEF SaverDies
  <2> QED BY <2>1, <2>2, <2>3
<1>3. OnDisk' = OnDisk
  BY <1>1 DEF OnDisk, FileInv, NamesDiffer, ConfigTypeOK, HandleIsTemp
<1>4. \A j \in Calls : save'[j] = save[j] BY <1>1, DesktopConstants
<1>5. \A j \in Savers \ Calls :
            \/ save'[j] = save[j] \/ save'[j] = NoSave \/ save'[j].pc = "failed"
            \/ ~Exists /\ save'[j].pc # "idle"
  BY <1>1
<1> QED BY <1>1, <1>3, <1>4, <1>5, CallsStay

(* A call whose request ends is a call at rest.                            *)
LEMMA AtRest ==
  ASSUME NEW k \in Calls, call'[k] = NoCall, save'[k].pc = "idle"
  PROVE  CallOK(k)' /\ DiskOK(k)' /\ ~Active(k)' /\ ~Ahead(k)' /\ NoCall \in CallRecord
  BY DesktopConstants
     DEF CallOK, DiskOK, Active, Ahead, NoCall, Saving, CallRecord, CallPcs

(* The daemon that works on a reload has done it, or is gone.              *)
LEMMA ReloadEnds ==
  ASSUME Core, UNCHANGED <<configVars, app, autostart, trouble>>,
         call' = [k \in Calls |-> call'[k]],
         \A k \in Calls : call'[k] = call[k] \/ (call[k].pc = "assign" /\ call'[k] = NoCall)
  PROVE  Core'
<1>1. UNCHANGED <<names, content, save, app, autostart, trouble>> BY DEF configVars
<1>2. OnDisk' = OnDisk /\ Exists' = Exists BY <1>1 DEF OnDisk, Exists
<1>3. SaverInv' BY <1>1, <1>2 DEF Core, SaverInv, Saving
<1>4. CallTypeOK'
  <2>1. NoCall \in CallRecord BY DEF NoCall, CallRecord, CallPcs
  <2> QED BY <2>1 DEF Core, CallInv, CallTypeOK
<1>5. OneCall' BY DEF Core, CallInv, OneCall, Active, NoCall
<1>6. ASSUME NEW k \in Calls PROVE CallOK(k)' /\ DiskOK(k)' /\ (Ahead(k)' <=> Ahead(k))
  <2>0. CallOK(k) /\ DiskOK(k) BY DEF Core, CallInv
  <2>1. CASE call'[k] = call[k]
    <3>1. Saving(k)' = Saving(k) /\ Active(k)' = Active(k) BY <1>1, <2>1 DEF Saving, Active
    <3> QED BY <1>1, <1>2, <2>0, <2>1, <3>1 DEF CallOK, DiskOK, Ahead
  <2>2. CASE call[k].pc = "assign" /\ call'[k] = NoCall
    <3>1. save[k].pc = "idle" BY <2>0, <2>2, DesktopConstants DEF CallOK, Core, SaverInv
    <3> QED BY <1>1, <2>2, <3>1, AtRest DEF Ahead
  <2> QED BY <2>1, <2>2
<1>7. LoginInv' BY <1>1, <1>2, <1>6 DEF Core, LoginInv
<1> QED BY <1>1, <1>2, <1>3, <1>4, <1>5, <1>6, <1>7 DEF Core, CallInv

LEMMA ProcessEndsCore ==
  ASSUME FileInv, Core, ProcessEnds PROVE Core'
<1>1. /\ app' = "off" /\ names' = names /\ UNCHANGED <<autostart, trouble>>
      /\ \A k \in Savers : save'[k] = IF k \in Daemons THEN save[k] ELSE NoSave
      /\ call' = [k \in Calls |-> IF call[k].pc = "assign" THEN call[k] ELSE NoCall]
  BY DEF ProcessEnds
<1>2. OnDisk' = OnDisk BY EndsFile
<1>3. Exists' = Exists BY <1>1 DEF Exists
<1>4. SaverInv' BY <1>1, <1>3 DEF Core, SaverInv, Saving, NoSave
<1>5. CallTypeOK'
  <2>1. NoCall \in CallRecord BY DEF NoCall, CallRecord, CallPcs
  <2> QED BY <1>1, <2>1 DEF Core, CallInv, CallTypeOK
<1>6. OneCall' BY <1>1 DEF Core, CallInv, OneCall, Active, NoCall
<1>7. ASSUME NEW k \in Calls PROVE CallOK(k)' /\ DiskOK(k)'
  <2>0. CallOK(k) /\ DiskOK(k) BY DEF Core, CallInv
  <2>1. save'[k] = NoSave BY <1>1, DesktopConstants
  <2>2. CASE call[k].pc = "assign"
    <3>1. call'[k] = call[k] /\ save[k].pc = "idle" BY <1>1, <2>0, <2>2 DEF CallOK
    <3>2. CallOK(k)'
      BY <1>1, <1>3, <2>0, <2>1, <2>2, <3>1 DEF CallOK, Active, Saving, NoSave
    <3> QED BY <1>2, <2>0, <2>2, <3>1, <3>2 DEF DiskOK
  <2>3. CASE call[k].pc # "assign"
    BY <1>1, <2>1, <2>3, AtRest DEF NoSave
  <2> QED BY <2>2, <2>3
<1>8. LoginInv' /\ app' \notin AfterLoad BY <1>1 DEF LoginInv, AfterLoad
<1> QED BY <1>4, <1>5, <1>6, <1>7, <1>8 DEF Core, CallInv

(* Launch forgets the trouble of the launch before, and load puts the      *)
(* login entry right; no call is between its save and its rollback then.   *)
LEMMA LaunchAndLoad ==
  ASSUME FileInv, Core, Launch \/ AppLoad PROVE Core'
<1>1. /\ UNCHANGED <<configVars, call>> /\ app \notin WithWindow
      /\ \/ app' \notin AfterLoad
         \/ Loadable /\ autostart' = OnDisk.login /\ UNCHANGED trouble
  BY DEF Launch, AppLoad, AppGo, WithWindow, AfterLoad
<1>2. UNCHANGED <<names, content, save, call>> BY <1>1 DEF configVars
<1>3. OnDisk' = OnDisk /\ Exists' = Exists BY <1>2 DEF OnDisk, Exists
<1>4. SaverInv' BY <1>2, <1>3 DEF Core, SaverInv, Saving
<1>5. CallTypeOK' /\ OneCall' BY <1>2 DEF Core, CallInv, CallTypeOK, OneCall, Active
<1>6. ASSUME NEW k \in Calls PROVE CallOK(k)' /\ DiskOK(k)'
  <2>1. CallOK(k) /\ DiskOK(k) /\ save'[k] = save[k] /\ call'[k] = call[k]
    BY <1>2 DEF Core, CallInv
  <2>2. call[k].pc \in {"idle", "assign"} BY <1>1, <2>1 DEF CallOK
  <2>3. Saving(k)' = Saving(k) BY <2>1 DEF Saving
  <2>4. CallOK(k)' BY <1>3, <2>1, <2>2, <2>3 DEF CallOK, Active
  <2>5. DiskOK(k)' BY <1>3, <2>1 DEF DiskOK
  <2> QED BY <2>4, <2>5
<1>7. LoginInv' BY <1>1, <1>3 DEF LoginInv
<1>8. app' \in AfterLoad => Exists' BY <1>1, <1>3, LoadableExists
<1> QED BY <1>4, <1>5, <1>6, <1>7, <1>8 DEF Core, CallInv

(* A save goes on.                                                         *)
LEMMA SaveGoesOn ==
  ASSUME FileInv, Core, SaveSteps PROVE Core'
<1> PICK k \in Savers : SaveAtomic(k) \/ SaveFails(k) BY DEF SaveSteps
<1>1. UNCHANGED <<call, app, autostart, trouble>> BY DEF SaveSteps, appVars
<1>2. Saving(k) /\ \A j \in Savers \ {k} : save'[j] = save[j] BY SaveEffect
<1> DEFINE Kept == OnDisk' = OnDisk /\ Exists' = Exists
           Done == save'[k].pc = "saved" /\ OnDisk' = save[k].want /\ Exists'
<1>3. /\ save'[k].pc # "idle"
      /\ \/ Kept /\ Saving(k)' /\ save'[k].want = save[k].want
         \/ Kept /\ save'[k].pc = "failed"
         \/ Done
  <2>1. names'.config = names.config => Exists' = Exists BY DEF Exists
  <2>2. names'.config # Absent => Exists' BY DEF Exists
  <2> QED BY <2>1, <2>2, SaveEffect DEF Saving, NoSave
<1>4. Exists => Exists' BY <1>3
<1> HIDE DEF Kept, Done
<1>5. \A j \in Savers \ {k} : ~Saving(j) /\ ~Saving(j)' BY <1>2 DEF FileInv, OneSaver, Saving
<1>6. SaverInv'
  <2>1. \A j \in Savers : save'[j].pc = "idle" => save'[j] = NoSave
    BY <1>2, <1>3 DEF Core, SaverInv
  <2>2. Saving(k)' /\ k \notin Calls => ~Exists'
    BY <1>2, <1>3 DEF Core, SaverInv, Kept, Done, Saving
  <2> QED BY <1>5, <2>1, <2>2 DEF SaverInv
<1>7. CallTypeOK' /\ OneCall' BY <1>1 DEF Core, CallInv, CallTypeOK, OneCall, Active
<1>8. ASSUME NEW j \in Calls, j # k PROVE CallOK(j)' /\ DiskOK(j)' /\ (Ahead(j)' <=> Ahead(j))
  <2>1. CallOK(j) /\ DiskOK(j) /\ save'[j] = save[j] /\ call'[j] = call[j] /\ ~Saving(j)'
    BY <1>1, <1>2, <1>5, <1>8, DesktopConstants DEF Core, CallInv
  <2>2. CallOK(j)' BY <1>1, <1>4, <2>1 DEF CallOK, Active
  <2>3. CASE ~Active(j) BY <2>1, <2>2, <2>3 DEF DiskOK, Active, Ahead
  <2>4. CASE Active(j)
    <3>1. Exists BY <2>1, <2>4 DEF CallOK
    <3>2. k \in Calls BY <1>2, <3>1 DEF Core, SaverInv
    <3>3. Active(k) BY <1>2, <3>2 DEF Core, CallInv, CallOK, Active, Saving
    <3> QED BY <1>8, <2>4, <3>2, <3>3 DEF Core, CallInv, OneCall
  <2> QED BY <2>2, <2>3, <2>4
<1>9. CASE k \notin Calls
  <2>1. ~Exists BY <1>2, <1>9 DEF Core, SaverInv
  <2>2. app' \notin AfterLoad BY <1>1, <2>1 DEF Core
  <2> QED BY <1>6, <1>7, <1>8, <1>9, <2>2 DEF Core, CallInv, LoginInv
<1>10. CASE k \in Calls
  <2>1. CallOK(k) /\ DiskOK(k) /\ call'[k] = call[k] BY <1>1, <1>10 DEF Core, CallInv
  <2>2. call[k].pc \in {"saving", "rolling"} /\ save[k].pc # "saved"
    BY <1>2, <2>1 DEF CallOK, Saving
  <2>3. /\ Exists' /\ app \in WithWindow
        /\ save[k].want = IF call[k].pc = "rolling" THEN call[k].prev ELSE call[k].want
    BY <1>2, <1>4, <2>1, <2>2 DEF CallOK, Active
  <2>4. CallOK(k)'
    <3>1. Saving(k)' => save'[k].want = save[k].want BY <1>3 DEF Done, Saving
    <3> QED BY <1>1, <1>3, <2>1, <2>2, <2>3, <3>1 DEF CallOK, Active
  <2>5. DiskOK(k)'
    BY <1>3, <2>1, <2>2, <2>3 DEF DiskOK, Kept, Done, Saving
  <2>6. LoginInv'
    <3> SUFFICES ASSUME app' \in AfterLoad, ~trouble', \A j \in Calls : ~Ahead(j)'
                 PROVE  autostart' = OnDisk'.login
      BY DEF LoginInv
    <3>1. call[k].pc = "saving" BY <1>1, <2>1, <2>2 DEF CallOK
    <3>2. \A j \in Calls : ~Ahead(j)
      BY <1>8, <2>2, <3>1 DEF Ahead
    <3>3. autostart = OnDisk.login BY <1>1, <3>2 DEF Core, LoginInv
    <3>4. CASE Kept BY <1>1, <3>3, <3>4 DEF Kept
    <3>5. CASE Done
      <4>1. ~call[k].saves BY <1>10, <2>1, <3>1, <3>5 DEF Ahead, Done
      <4>2. call[k].want.login = call[k].prev.login BY <2>1, <3>1, <4>1 DEF CallOK
      <4>3. OnDisk = call[k].prev /\ OnDisk' = call[k].want
        BY <2>1, <2>2, <2>3, <3>1, <3>5 DEF DiskOK, Done
      <4> QED BY <1>1, <3>3, <4>2, <4>3
    <3> QED BY <1>3, <3>4, <3>5
  <2> QED BY <1>1, <1>6, <1>7, <1>8, <2>3, <2>4, <2>5, <2>6 DEF Core, CallInv
<1> QED BY <1>9, <1>10

(* A step of the one call under way that leaves the file alone.            *)
LEMMA CallMoves ==
  ASSUME FileInv, Core, NEW k \in Calls,
         \A j \in Calls \ {k} : call[j].pc = "idle",
         NEW r \in CallRecord, call' = [call EXCEPT ![k] = r],
         \A j \in Savers \ {k} : save'[j] = save[j],
         save'[k].pc = "idle" => save'[k] = NoSave,
         UNCHANGED <<names, content, app>>,
         CallOK(k)', DiskOK(k)', LoginInv'
  PROVE  Core'
<1>1. Exists' = Exists BY DEF Exists
<1>2. SaverInv' BY <1>1 DEF Core, SaverInv, Saving
<1>3. CallTypeOK' BY DEF Core, CallInv, CallTypeOK
<1>4. \A j \in Calls \ {k} : call'[j] = call[j]
  BY DEF Core, CallInv, CallTypeOK
<1>5. OneCall' BY <1>4 DEF OneCall, Active
<1>6. ASSUME NEW j \in Calls \ {k} PROVE CallOK(j)' /\ DiskOK(j)'
  <2>1. CallOK(j) /\ call'[j] = call[j] /\ save'[j] = save[j] /\ call[j].pc = "idle"
    BY <1>4, DesktopConstants DEF Core, CallInv
  <2> QED BY <2>1 DEF CallOK, DiskOK, Active, Saving
<1> QED BY <1>1, <1>2, <1>3, <1>5, <1>6 DEF Core, CallInv

(* The window starts a call.                                               *)
LEMMA CallBegins ==
  ASSUME ~OverlapSaves, FileInv, Core, NEW k \in Calls,
         \/ ReloadConfig(k) \/ \E c \in Inputs : ConfigSave(k, c)
         \/ \E days \in 0 .. MaxDays + 1 : SetRetentionDays(k, days)
  PROVE  Core'
<1>1. /\ app = "ready" /\ call[k].pc = "idle" /\ \A j \in Calls : call[j].pc = "idle"
      /\ UNCHANGED <<names, content, save, app, autostart, trouble>>
  BY DEF ReloadConfig, ConfigSave, SetRetentionDays, BeginCall, configVars, appVars
<1>2. /\ Exists /\ Exists' = Exists /\ OnDisk' = OnDisk
      /\ save'[k] = save[k] /\ save[k] = NoSave
  <2>1. Exists BY <1>1 DEF Core, AfterLoad
  <2>2. k \in Savers /\ save[k].pc = "idle" BY <1>1, DesktopConstants DEF Core, CallInv, CallOK
  <2> QED BY <1>1, <2>1, <2>2 DEF Exists, OnDisk, Core, SaverInv
<1>3. \A j \in Calls \ {k} : call'[j] = call[j] => ~Ahead(j)' /\ ~Ahead(j)
  BY <1>1 DEF Ahead
<1>4. ~Ahead(k) BY <1>1 DEF Ahead
<1>5. ASSUME NEW r \in CallRecord, call' = [call EXCEPT ![k] = r],
             r.pc \in {"reload", "save"}, r.server = Nobody,
             r.pc = "save" => /\ r.want \in Config /\ r.prev \in ValidConfig
                              /\ r.prev = OnDisk
                              /\ ~r.saves => r.want.login = r.prev.login
      PROVE  Core'
  <2>1. call'[k] = r /\ \A j \in Calls \ {k} : call'[j] = call[j]
    BY <1>5 DEF Core, CallInv, CallTypeOK
  <2>2. CallOK(k)'
    BY <1>1, <1>2, <1>5, <2>1, DesktopConstants
       DEF CallOK, Active, Saving, NoSave, WithWindow
  <2>3. DiskOK(k)' BY <1>2, <1>5, <2>1 DEF DiskOK
  <2>4. LoginInv'
    BY <1>1, <1>2, <1>3, <1>4, <2>1 DEF Core, LoginInv
  <2> QED BY <1>1, <1>2, <1>5, <2>2, <2>3, <2>4, CallMoves
<1>6. ASSUME NEW c \in Config, NEW s \in BOOLEAN, BeginCall(k, c, s),
             ~s => c.login = OnDisk.login
      PROVE  Core'
  <2> DEFINE r == [NoCall EXCEPT !.pc = "save", !.saves = s, !.want = c, !.prev = OnDisk]
  <2>1. OnDisk \in ValidConfig /\ OnDisk \in Config
    BY <1>6, LoadableExists DEF BeginCall
  <2>2. r \in CallRecord
    BY <2>1 DEF NoCall, CallRecord, CallPcs
  <2>3. call' = [call EXCEPT ![k] = r] BY <1>6 DEF BeginCall
  <2>4. r.pc = "save" /\ r.server = Nobody /\ r.want = c /\ r.prev = OnDisk /\ r.saves = s
    BY DEF NoCall
  <2> HIDE DEF r
  <2> QED BY <1>5, <1>6, <2>1, <2>2, <2>3, <2>4
<1>7. CASE ReloadConfig(k)
  <2> DEFINE r == [NoCall EXCEPT !.pc = "reload"]
  <2>1. r \in CallRecord /\ r.pc = "reload" /\ r.server = Nobody
    BY DEF NoCall, CallRecord, CallPcs
  <2>2. call' = [call EXCEPT ![k] = r] BY <1>7 DEF ReloadConfig, ToReload
  <2> HIDE DEF r
  <2> QED BY <1>5, <2>1, <2>2
<1>8. ASSUME NEW c \in Inputs, ConfigSave(k, c) PROVE Core'
  <2>1. c \in Config BY DesktopAssumption
  <2> QED BY <1>6, <1>8, <2>1 DEF ConfigSave
<1>9. ASSUME NEW days \in 0 .. MaxDays + 1, SetRetentionDays(k, days) PROVE Core'
  <2> DEFINE c == [OnDisk EXCEPT !.days = days]
  <2>1. OnDisk \in Config BY <1>9, LoadableExists DEF SetRetentionDays, BeginCall
  <2>2. c \in Config /\ c.login = OnDisk.login BY <2>1 DEF Config
  <2>3. BeginCall(k, c, FALSE) BY <1>9 DEF SetRetentionDays
  <2> HIDE DEF c
  <2> QED BY <1>6, <2>2, <2>3
<1> QED BY <1>7, <1>8, <1>9

(* A step of config_save, set_retention_days or reload_config.             *)
LEMMA CallGoesOn ==
  ASSUME FileInv, Core, NEW k \in Calls, CallSteps(k) PROVE Core'
<1>0. k \in Savers /\ CallOK(k) /\ DiskOK(k) BY DesktopConstants DEF Core, CallInv
<1>1. /\ call[k] \in CallRecord /\ call \in [Calls -> CallRecord]
      /\ save = [j \in Savers |-> save[j]]
  BY DEF Core, CallInv, CallTypeOK, FileInv, ConfigTypeOK
<1>2. UNCHANGED app
  BY DEF CallSteps, CallSave, CallSaved, CallAutostart, CallRollback, CallRolledBack,
         CallReload, CallAssign, appVars
<1>3. Active(k)
  BY DEF CallSteps, CallSave, CallSaved, CallAutostart, CallRollback, CallRolledBack,
         CallReload, CallAssign, Active
<1>4. \A j \in Calls \ {k} : call[j].pc = "idle"
  BY <1>3 DEF Core, CallInv, OneCall, Active
<1>5. UNCHANGED <<names, content>> /\ \A j \in Savers \ {k} : save'[j] = save[j]
  <2> DEFINE Quiet == UNCHANGED <<names, content>> /\ \A j \in Savers \ {k} : save'[j] = save[j]
  <2>1. UNCHANGED configVars => Quiet BY DEF configVars
  <2>2. ASSUME NEW c, StartSave(k, c) PROVE Quiet
    BY <1>1, <2>2 DEF StartSave
  <2>3. ASSUME NEW r, SaveReturns(k, r) PROVE Quiet
    BY <1>1, <2>3 DEF SaveReturns
  <2> SUFFICES Quiet OBVIOUS
  <2> HIDE DEF Quiet
  <2> QED
    BY <2>1, <2>2, <2>3
       DEF CallSteps, CallSave, CallSaved, CallAutostart, CallRollback, CallRolledBack,
           CallReload, CallAssign
<1>6. OnDisk' = OnDisk /\ Exists' = Exists /\ Exists
  BY <1>0, <1>3, <1>5 DEF OnDisk, Exists, CallOK
(* What is left to see of a step: its new record r, and the login entry.   *)
<1>7. ASSUME NEW r \in CallRecord, call' = [call EXCEPT ![k] = r],
             save'[k].pc = "idle" => save'[k] = NoSave,
             CallOK(k)', DiskOK(k)',
             app \in AfterLoad /\ ~trouble' /\ ~Ahead(k)' => autostart' = OnDisk.login
      PROVE  Core'
  <2>1. LoginInv' BY <1>2, <1>6, <1>7 DEF LoginInv
  <2> QED BY <1>2, <1>4, <1>5, <1>7, <2>1, CallMoves
<1>8. ~Ahead(k) /\ app \in AfterLoad /\ ~trouble => autostart = OnDisk.login
  BY <1>4 DEF Core, LoginInv, Ahead
(* Back to rest.                                                           *)
<1>9. ASSUME call' = [call EXCEPT ![k] = NoCall], save'[k] = NoSave,
             \/ trouble' \/ autostart' = OnDisk.login
             \/ ~Ahead(k) /\ UNCHANGED <<autostart, trouble>>
      PROVE  Core'
  <2>1. call'[k] = NoCall /\ save'[k].pc = "idle" BY <1>1, <1>9 DEF NoSave
  <2> QED BY <1>7, <1>8, <1>9, <2>1, AtRest
(* On to the reload, once the login entry is right or there is trouble.    *)
<1>10. ASSUME ToReload(k), save'[k] = NoSave, app \in WithWindow, call[k].pc # "assign",
              app \in AfterLoad /\ ~trouble' => autostart' = OnDisk.login
       PROVE  Core'
  <2> DEFINE r == [NoCall EXCEPT !.pc = "reload"]
  <2>1. r \in CallRecord /\ r.pc = "reload" /\ r.server = Nobody
    BY DEF NoCall, CallRecord, CallPcs
  <2>2. call' = [call EXCEPT ![k] = r] BY <1>10 DEF ToReload
  <2> HIDE DEF r
  <2>3. call'[k] = r BY <1>1, <2>2
  <2>4. CallOK(k)' /\ DiskOK(k)'
    BY <1>2, <1>6, <1>10, <2>1, <2>3, DesktopConstants
       DEF CallOK, DiskOK, Active, Saving, NoSave
  <2> QED BY <1>7, <1>10, <2>1, <2>2, <2>4
(* A save begins: of the new configuration, or of the one before.          *)
<1>11. ASSUME NEW to \in {"saving", "rolling"}, CallTo(k, to),
              call[k].pc = IF to = "saving" THEN "save" ELSE "rollback",
              StartSave(k, IF to = "saving" THEN call[k].want ELSE call[k].prev),
              UNCHANGED <<autostart, trouble>>
       PROVE  Core'
  <2> DEFINE r == [call[k] EXCEPT !.pc = to]
  <2>1. /\ r.pc = to /\ r.saves = call[k].saves /\ r.want = call[k].want
        /\ r.prev = call[k].prev /\ r.server = call[k].server
    BY <1>1 DEF CallRecord
  <2>2. r \in CallRecord BY <1>1 DEF CallRecord, CallPcs
  <2>3. call' = [call EXCEPT ![k] = r] BY <1>11 DEF CallTo
  <2> HIDE DEF r
  <2>4. call'[k] = r BY <1>1, <2>3
  <2>5. /\ save'[k].pc \in {"open", "failed"}
        /\ save'[k].pc = "open" => save'[k].want = IF to = "saving" THEN call[k].want
                                                                    ELSE call[k].prev
    BY <1>0, <1>1, <1>11 DEF StartSave, NoSave
  <2>6. CallOK(k)'
    BY <1>0, <1>2, <1>6, <1>11, <2>1, <2>4, <2>5 DEF CallOK, Active, Saving
  <2>7. DiskOK(k)' BY <1>0, <1>6, <1>11, <2>1, <2>4, <2>5 DEF DiskOK
  <2>8. ~Ahead(k) BY <1>11 DEF Ahead
  <2> QED BY <1>7, <1>8, <1>11, <2>2, <2>3, <2>5, <2>6, <2>7, <2>8
<1>12. CASE CallSave(k)
  BY <1>11, <1>12 DEF CallSave, appVars
<1>13. CASE CallRollback(k)
  BY <1>11, <1>13 DEF CallRollback, appVars
<1>14. ASSUME NEW result \in {"saved", "failed"}, CallSaved(k, result) PROVE Core'
  <2>1. /\ call[k].pc = "saving" /\ save[k].pc = result /\ save'[k] = NoSave
        /\ UNCHANGED <<autostart, trouble>> /\ app \in WithWindow
    BY <1>0, <1>1, <1>14 DEF CallSaved, SaveReturns, appVars, CallOK
  <2>2. CASE result = "failed"
    <3>1. ~Ahead(k) BY <2>1, <2>2 DEF Ahead
    <3> QED BY <1>9, <1>14, <2>1, <2>2, <3>1 DEF CallSaved, CallEnds
  <2>3. CASE result = "saved" /\ ~call[k].saves
    <3>1. ~Ahead(k) BY <2>1, <2>3 DEF Ahead
    <3> QED BY <1>8, <1>10, <1>14, <2>1, <2>3, <3>1 DEF CallSaved
  <2>4. CASE result = "saved" /\ call[k].saves
    <3> DEFINE r == [call[k] EXCEPT !.pc = "autostart"]
    <3>1. /\ r.pc = "autostart" /\ r.want = call[k].want /\ r.prev = call[k].prev
          /\ r.server = call[k].server /\ r \in CallRecord
      BY <1>1 DEF CallRecord, CallPcs
    <3>2. call' = [call EXCEPT ![k] = r] BY <1>14, <2>4 DEF CallSaved, CallTo
    <3> HIDE DEF r
    <3>3. call'[k] = r BY <1>1, <3>2
    <3>4. CallOK(k)'
      BY <1>0, <1>2, <1>6, <2>1, <3>1, <3>3 DEF CallOK, Active, Saving, NoSave
    <3>5. DiskOK(k)' BY <1>0, <1>6, <2>1, <2>4, <3>1, <3>3 DEF DiskOK
    <3>6. Ahead(k)' BY <3>1, <3>3 DEF Ahead
    <3> QED BY <1>7, <2>1, <3>1, <3>2, <3>4, <3>5, <3>6
  <2> QED BY <2>2, <2>3, <2>4
<1>15. CASE CallAutostart(k)
  <2>1. /\ call[k].pc = "autostart" /\ app \in WithWindow /\ OnDisk = call[k].want
        /\ save'[k] = save[k] /\ save[k] = NoSave
    BY <1>0, <1>15 DEF CallAutostart, CallOK, DiskOK, configVars, Core, SaverInv
  <2>2. CASE ToReload(k) /\ autostart' = call[k].want.login
    BY <1>10, <2>1, <2>2
  <2>3. CASE CallTo(k, "rollback") /\ trouble'
    <3> DEFINE r == [call[k] EXCEPT !.pc = "rollback"]
    <3>1. /\ r.pc = "rollback" /\ r.want = call[k].want /\ r.prev = call[k].prev
          /\ r.server = call[k].server /\ r \in CallRecord
      BY <1>1 DEF CallRecord, CallPcs
    <3>2. call' = [call EXCEPT ![k] = r] BY <2>3 DEF CallTo
    <3> HIDE DEF r
    <3>3. call'[k] = r BY <1>1, <3>2
    <3>4. CallOK(k)' /\ DiskOK(k)'
      BY <1>0, <1>2, <1>6, <2>1, <2>3, <3>1, <3>3
         DEF CallOK, DiskOK, Active, Saving, NoSave
    <3> QED BY <1>7, <2>1, <2>3, <3>1, <3>2, <3>4
  <2> QED BY <1>15, <2>2, <2>3 DEF CallAutostart
<1>16. ASSUME NEW result \in {"saved", "failed"}, CallRolledBack(k, result) PROVE Core'
  <2>1. trouble' /\ save'[k] = NoSave /\ call' = [call EXCEPT ![k] = NoCall]
    BY <1>0, <1>1, <1>16 DEF CallRolledBack, SaveReturns, CallOK, CallEnds
  <2> QED BY <1>9, <2>1
<1>17. CASE CallReload(k)
  <2>1. /\ call[k].pc = "reload" /\ UNCHANGED <<autostart, trouble>> /\ ~Ahead(k)
        /\ save'[k] = save[k] /\ save[k] = NoSave
    BY <1>0, <1>17 DEF CallReload, CallOK, configVars, appVars, Core, SaverInv, Ahead
  <2>2. CASE CallEnds(k) BY <1>9, <2>1, <2>2 DEF CallEnds
  <2>3. ASSUME NEW d \in Daemons, Loadable,
               call' = [call EXCEPT ![k].pc = "assign", ![k].server = d, ![k].want = OnDisk]
        PROVE  Core'
    <3> DEFINE r == [call[k] EXCEPT !.pc = "assign", !.server = d, !.want = OnDisk]
    <3>1. r.pc = "assign" /\ r.server = d /\ r.want = OnDisk /\ r \in CallRecord
      BY <1>1, <2>3, LoadableExists DEF CallRecord, CallPcs
    <3>2. call' = [call EXCEPT ![k] = r] BY <1>1, <2>3
    <3> HIDE DEF r
    <3>3. call'[k] = r BY <1>1, <3>2
    <3>4. CallOK(k)' /\ DiskOK(k)'
      BY <1>0, <1>6, <2>1, <3>1, <3>3 DEF CallOK, DiskOK, Active, Saving, NoSave
    <3> QED BY <1>7, <1>8, <2>1, <3>1, <3>2, <3>4
  <2> QED BY <1>17, <2>2, <2>3 DEF CallReload
<1>18. CASE CallAssign(k)
  <2>1. /\ call[k].pc = "assign" /\ UNCHANGED <<autostart, trouble>> /\ ~Ahead(k)
        /\ save'[k] = save[k] /\ save[k] = NoSave
    BY <1>0, <1>18 DEF CallAssign, CallOK, configVars, appVars, Core, SaverInv, Ahead
  <2> QED BY <1>9, <1>18, <2>1 DEF CallAssign, CallEnds
<1> QED BY <1>12, <1>13, <1>14, <1>15, <1>16, <1>17, <1>18 DEF CallSteps

LEMMA CoreStep ==
  ASSUME ~OverlapSaves, FileInv, Core, [Next]_vars PROVE Core'
<1>0. App \in Savers \ Calls /\ \A d \in Daemons : d \in Savers \ Calls
  BY DesktopConstants
<1>1. CASE UNCHANGED vars
  BY <1>1, QuietStep DEF vars, appVars
<1>2. CASE Launch \/ AppLoad BY <1>2, LaunchAndLoad
<1>3. CASE AppEnsure
  <2>1. /\ UNCHANGED <<call, autostart, trouble>>
        /\ app \notin WithWindow /\ app' \notin AfterLoad
    BY <1>3 DEF AppEnsure, WithWindow, AfterLoad
  <2>2. CASE UNCHANGED configVars BY <2>1, <2>2, QuietStep
  <2>3. CASE ~Exists /\ StartSave(App, default_config)
    BY <1>0, <2>1, <2>3, StartUpSaves
  <2> QED BY <1>3, <2>2, <2>3 DEF AppEnsure
<1>4. ASSUME NEW r \in {"saved", "failed"}, AppCreated(r) PROVE Core'
  <2>1. /\ UNCHANGED <<call, autostart, trouble>> /\ SaveReturns(App, r)
        /\ app \notin WithWindow /\ app' \notin AfterLoad
    BY <1>4 DEF AppCreated, AppGo, WithWindow, AfterLoad
  <2> QED BY <1>0, <2>1, StartUpSaves
<1>5. CASE InstallHelper \/ CopyHelper \/ ReplaceHelper \/ Prompt \/ Quit \/ AskDaemon
           \/ Probe("probe", "ready", "prompt") \/ ApprovedStart
  <2>1. /\ UNCHANGED <<configVars, call, autostart, trouble>>
        /\ app \in WithWindow => app' \in WithWindow
        /\ app' \in AfterLoad => app \in AfterLoad
    BY <1>5
       DEF InstallHelper, KeepHelper, CopyHelper, ReplaceHelper, Prompt, Quit, AskDaemon, Probe,
           ApprovedStart, SpawnDaemon, AppGo, WithWindow, AfterLoad, bootVars
  <2> QED BY <2>1, QuietStep
<1>6. CASE ExitRequested \/ QuitAgain \/ AppCrash
  <2>1. CASE ProcessEnds BY <2>1, ProcessEndsCore
  <2>2. CASE ~ProcessEnds
    <3>1. /\ UNCHANGED <<configVars, call, autostart, trouble>>
          /\ app' \in WithWindow /\ app' \notin AfterLoad
      BY <1>6, <2>2 DEF ExitRequested, QuitAgain, AppCrash, WithWindow, AfterLoad
    <3> QED BY <3>1, QuietStep
  <2> QED BY <2>1, <2>2
<1>7. CASE SaveSteps BY <1>7, SaveGoesOn
<1>8. ASSUME NEW d \in Daemons, SpawnByHand(d) \/ DaemonBoots(d) PROVE Core'
  <2>1. UNCHANGED <<app, call, autostart, trouble>>
    BY <1>8
       DEF SpawnByHand, DaemonBoots, BootEnsure, BootCreated, BootLoad, BootGivesUp, BootDies,
           appVars
  <2>2. CASE UNCHANGED configVars BY <2>1, <2>2, QuietStep
  <2>3. CASE \/ ~Exists /\ StartSave(d, default_config)
             \/ \E r \in {"saved", "failed"} : SaveReturns(d, r)
             \/ SaverDies(d)
    BY <1>0, <2>1, <2>3, StartUpSaves
  <2> QED
    BY <1>8, <2>2, <2>3
       DEF SpawnByHand, DaemonBoots, BootEnsure, BootCreated, BootLoad, BootGivesUp, BootDies
<1>9. ASSUME NEW d \in Daemons, DaemonSteps(d) PROVE Core'
  <2> DEFINE ended == {e \in Daemons : dpc'[e] \in {"off", "refused"}}
  <2>1. /\ UNCHANGED <<configVars, app, autostart, trouble>>
        /\ call' = [k \in Calls |-> IF call[k].server \in ended THEN NoCall ELSE call[k]]
    BY <1>9 DEF DaemonSteps, DropEnded, appVars
  <2>2. \A k \in Calls : call[k].server \in ended => call[k].pc = "assign"
    BY DEF Core, CallInv, CallOK
  <2> HIDE DEF ended
  <2>3. /\ call' = [k \in Calls |-> call'[k]]
        /\ \A k \in Calls : call'[k] = call[k] \/ (call[k].pc = "assign" /\ call'[k] = NoCall)
    BY <2>1, <2>2
  <2> QED BY <2>1, <2>3, ReloadEnds
<1>10. ASSUME NEW k \in Calls, CallSteps(k) PROVE Core' BY <1>10, CallGoesOn
<1>11. ASSUME NEW k \in Calls,
              \/ ReloadConfig(k) \/ \E c \in Inputs : ConfigSave(k, c)
              \/ \E days \in 0 .. MaxDays + 1 : SetRetentionDays(k, days)
       PROVE Core'
  BY <1>11, CallBegins
<1> QED
  BY <1>1, <1>2, <1>3, <1>4, <1>5, <1>6, <1>7, <1>8, <1>9, <1>10, <1>11
     DEF Next, AppStartUp

LEMMA CoreHolds == ~OverlapSaves => (Spec => [](FileInv /\ Core))
<1> SUFFICES ASSUME ~OverlapSaves PROVE Spec => [](FileInv /\ Core)
  OBVIOUS
<1>1. Init => FileInv /\ Core BY FileInit, CoreInit DEF Init
<1>2. FileInv /\ Core /\ [Next]_vars => (FileInv /\ Core)' BY FileKept, CoreStep
<1> QED BY <1>1, <1>2, PTL DEF Spec

-----------------------------------------------------------------------------
(* What follows from it.                                                   *)

(* Whenever the app runs and no call is under way, the login entry is what *)
(* the file says, unless the system refused to change it.                  *)
THEOREM LoginEntryIsKept == ~OverlapSaves => (Spec => []LoginEntryFollows)
<1>1. Core => LoginEntryFollows
  BY DEF Core, LoginInv, LoginEntryFollows, Ahead, AfterLoad
<1> QED BY <1>1, CoreHolds, PTL

-----------------------------------------------------------------------------
(* The daemons: each step is one of Daemon, none, or one of a process that *)
(* is not at the endpoint yet.                                             *)

Booting ==
    \/ /\ UNCHANGED <<platform, endpoint, dpc, alone, historyVars, memoryVars>>
       /\ starts' \in {starts, starts + 1} /\ crashes' \in {crashes, crashes + 1}
    \/ \E d \in Daemons : BeginMain(d) /\ UNCHANGED <<starts, historyVars>>

LEMMA DaemonPart ==
  ASSUME [Next]_vars PROVE [DaemonNext]_daemonVars \/ Booting
<1> DEFINE Goal == [DaemonNext]_daemonVars \/ Booting
<1> SUFFICES Goal OBVIOUS
<1>1. ASSUME UNCHANGED daemonVars PROVE Goal BY <1>1
<1>2. ASSUME NEW d \in Daemons, BootDaemon(d) \/ BootDies(d) \/ BootLoad(d) PROVE Goal
  BY <1>2 DEF BootDaemon, BootDies, BootLoad, Booting, BeginMain
<1>3. ASSUME NEW d \in Daemons, DaemonSteps(d) PROVE Goal
  BY <1>3 DEF DaemonSteps, DaemonNext
<1>4. CASE AppCrash BY <1>4 DEF AppCrash, Booting
<1> HIDE DEF Goal
<1>5. CASE UNCHANGED vars BY <1>1, <1>5 DEF vars
<1>6. CASE Launch \/ AppStartUp \/ Prompt \/ Quit \/ ExitRequested \/ AskDaemon \/ QuitAgain
           \/ SaveSteps
  <2>1. UNCHANGED daemonVars \/ \E d \in Daemons : BootDaemon(d)
    BY <1>6
       DEF Launch, AppStartUp, AppEnsure, AppLoad, InstallHelper, CopyHelper, ReplaceHelper,
           AppCreated, Probe, ApprovedStart, SpawnDaemon, Prompt, Quit, ExitRequested,
           AskDaemon, QuitAgain, SaveSteps
  <2> QED BY <1>1, <1>2, <2>1
<1>7. ASSUME NEW d \in Daemons, SpawnByHand(d) \/ DaemonBoots(d) PROVE Goal
  <2>1. UNCHANGED daemonVars \/ BootDaemon(d) \/ BootDies(d) \/ BootLoad(d)
    BY <1>7 DEF SpawnByHand, DaemonBoots, BootEnsure, BootCreated, BootGivesUp
  <2> QED BY <1>1, <1>2, <2>1
<1>8. ASSUME NEW k \in Calls,
             \/ CallSteps(k) \/ ReloadConfig(k) \/ \E c \in Inputs : ConfigSave(k, c)
             \/ \E days \in 0 .. MaxDays + 1 : SetRetentionDays(k, days)
      PROVE Goal
  <2>1. UNCHANGED daemonVars
    BY <1>8
       DEF CallSteps, CallSave, CallSaved, CallAutostart, CallRollback, CallRolledBack,
           CallReload, CallAssign, ReloadConfig, ConfigSave, SetRetentionDays, BeginCall
  <2> QED BY <1>1, <2>1
<1> QED BY <1>3, <1>4, <1>5, <1>6, <1>7, <1>8 DEF Next

LEMMA DaemonTypesStep ==
  ASSUME DaemonTypeOK, [Next]_vars PROVE DaemonTypeOK'
<1>1. CASE [DaemonNext]_daemonVars BY <1>1, TypeStep
<1>2. CASE Booting
  BY <1>2, DaemonAssumption
     DEF Booting, DaemonTypeOK, BeginMain, historyVars, memoryVars, Starting, Ended
<1> QED BY <1>1, <1>2, DaemonPart

(* A process comes to Listener::bind, started by hand or by the app.       *)
LEMMA BootingStep ==
  ASSUME Sequential, ProcessInv, AloneInv, DeadIsTakenOver, HistoryInv, Booting
  PROVE  ProcessInv' /\ AloneInv' /\ DeadIsTakenOver' /\ HistoryInv'
<1>0. DaemonTypeOK'
  BY DaemonAssumption
     DEF Booting, ProcessInv, DaemonTypeOK, BeginMain, historyVars, memoryVars, Starting, Ended
<1>1. CASE UNCHANGED <<platform, endpoint, dpc, alone, historyVars, memoryVars>>
  <2>1. ProcessInv'
    BY <1>0, <1>1 DEF ProcessInv, OneDaemon, OnlyOneStarts, RemovesTheDead
  <2>2. AloneInv' /\ DeadIsTakenOver' BY <1>1 DEF AloneInv, DeadIsTakenOver
  <2>3. HistoryInv'
    BY <1>1 DEF HistoryInv, NoGhostSessions, RecentCommandsAreKept, Running, Serving,
                historyVars, memoryVars
  <2> QED BY <2>1, <2>2, <2>3
<1>2. ASSUME NEW d \in Daemons, BeginMain(d), UNCHANGED historyVars
      PROVE  ProcessInv' /\ AloneInv' /\ DeadIsTakenOver' /\ HistoryInv'
  <2>1. ProcessInv'
    BY <1>0, <1>2, DaemonAssumption
       DEF BeginMain, Sequential, ProcessInv, DaemonTypeOK, OneDaemon, OnlyOneStarts,
           RemovesTheDead, Starting, Bound
  <2>2. AloneInv' /\ DeadIsTakenOver'
    BY <1>2, DaemonAssumption
       DEF BeginMain, ProcessInv, DaemonTypeOK, AloneInv, DeadIsTakenOver, OneDaemon,
           RemovesTheDead, Starting, Bound
  <2>3. HistoryInv'
    BY <1>2 DEF BeginMain, ProcessInv, DaemonTypeOK, HistoryInv, NoGhostSessions,
                RecentCommandsAreKept, Running, Serving, Starting, historyVars, memoryVars
  <2> QED BY <2>1, <2>2, <2>3
<1> QED BY <1>1, <1>2 DEF Booting

(* With the app that starts them, asks them to stop and is killed beside   *)
(* them, no two daemons are at the endpoint, a dead one is taken over, and *)
(* the history says what the one that serves holds.                        *)
THEOREM AppKeepsOneDaemon ==
  Sequential => (Spec => [](OneDaemon /\ DeadIsTakenOver /\ HistoryAgrees))
<1> SUFFICES ASSUME Sequential
             PROVE  Spec => [](OneDaemon /\ DeadIsTakenOver /\ HistoryAgrees)
  OBVIOUS
<1> DEFINE I == ProcessInv /\ AloneInv /\ DeadIsTakenOver /\ HistoryInv
<1>1. Init => I
  <2>1. DaemonInit => HistoryInv /\ DeadIsTakenOver
    BY DEF DaemonInit, HistoryInv, NoGhostSessions, RecentCommandsAreKept, NoSessions, Serving,
           DeadIsTakenOver
  <2> QED BY <2>1, ProcessInit DEF Init
<1>2. I /\ [Next]_vars => I'
  BY DaemonPart, BootingStep, ProcessStep, AloneStep, HistoryStep
<1>3. I => OneDaemon /\ DeadIsTakenOver /\ HistoryAgrees
  BY DEF ProcessInv, HistoryInv, HistoryAgrees, LiveRowsAreKept
<1> QED BY <1>1, <1>2, <1>3, PTL DEF Spec

-----------------------------------------------------------------------------
(* The app, the helper and what daemons hold of the configuration.         *)

\* Only a whole copy is put in place.
HelperInv ==
    /\ helper \in {"absent", "old", "new"} /\ staged \in {"absent", "part", "new"}
    /\ app = "place" => staged = "new"

LEMMA HelperStep ==
  ASSUME HelperInv, [Next]_vars
  PROVE  /\ HelperInv'
         /\ Runnable(helper) => \/ Runnable(helper')
                                \/ platform = "windows" /\ helper' = "absent"
<1> DEFINE Goal == /\ HelperInv'
                   /\ Runnable(helper) => \/ Runnable(helper')
                                          \/ platform = "windows" /\ helper' = "absent"
<1> SUFFICES Goal OBVIOUS
<1>1. ASSUME UNCHANGED helperVars, app' = "place" => app = "place" PROVE Goal
  BY <1>1 DEF helperVars, HelperInv
<1>2. ASSUME InstallHelper \/ CopyHelper \/ ReplaceHelper PROVE Goal
  BY <1>2 DEF InstallHelper, KeepHelper, CopyHelper, ReplaceHelper, helperVars, HelperInv,
              Runnable
<1> HIDE DEF Goal
<1>3. CASE UNCHANGED vars BY <1>1, <1>3 DEF vars, appVars
<1>4. CASE Launch \/ AppStartUp \/ Prompt \/ Quit \/ AskDaemon
  <2>1. \/ InstallHelper \/ CopyHelper \/ ReplaceHelper
        \/ UNCHANGED helperVars /\ app' # "place"
    BY <1>4
       DEF Launch, AppGo, AppStartUp, AppEnsure, AppLoad, AppCreated, Probe, ApprovedStart,
           SpawnDaemon, Prompt, Quit, AskDaemon
  <2> QED BY <1>1, <1>2, <2>1
<1>5. CASE ExitRequested \/ QuitAgain \/ AppCrash
  BY <1>1, <1>5 DEF ExitRequested, QuitAgain, AppCrash, ProcessEnds
<1>6. CASE SaveSteps BY <1>1, <1>6 DEF SaveSteps, appVars
<1>7. ASSUME NEW d \in Daemons, SpawnByHand(d) \/ DaemonBoots(d) \/ DaemonSteps(d) PROVE Goal
  BY <1>1, <1>7
     DEF SpawnByHand, DaemonBoots, BootEnsure, BootCreated, BootLoad, BootGivesUp, BootDies,
         DaemonSteps, appVars
<1>8. ASSUME NEW k \in Calls,
             \/ CallSteps(k) \/ ReloadConfig(k) \/ \E c \in Inputs : ConfigSave(k, c)
             \/ \E days \in 0 .. MaxDays + 1 : SetRetentionDays(k, days)
      PROVE Goal
  BY <1>1, <1>8
     DEF CallSteps, CallSave, CallSaved, CallAutostart, CallRollback, CallRolledBack,
         CallReload, CallAssign, ReloadConfig, ConfigSave, SetRetentionDays, BeginCall, appVars
<1> QED BY <1>3, <1>4, <1>5, <1>6, <1>7, <1>8 DEF Next

(* No step of any process takes the runnable helper away or replaces it by *)
(* a part of one, except for Windows between its two renames.              *)
THEOREM HelperIsKept == Spec => HelperStaysRunnable
<1>1. Init => HelperInv BY DEF Init, HelperInv
<1>2. HelperInv /\ [Next]_vars => HelperInv' BY HelperStep
<1>3. HelperInv /\ [Next]_vars =>
        [Runnable(helper) => \/ Runnable(helper')
                             \/ platform = "windows" /\ helper' = "absent"]_vars
  BY HelperStep
<1> QED BY <1>1, <1>2, <1>3, PTL DEF Spec, HelperStaysRunnable

AppTypes ==
    /\ app \in {"off", "ensure", "creating", "load", "install", "copy", "place",
                "probe", "prompt", "reprobe", "spawn", "wait", "error", "ready", "exit", "ask"}
    /\ exiting \in BOOLEAN /\ launches \in Nat
    /\ autostart \in BOOLEAN /\ trouble \in BOOLEAN

BootTypes ==
    /\ boot \in [Daemons -> {"none", "ensure", "creating", "load"}]
    /\ dconf \in [Daemons -> Config \cup {Absent}]
    /\ asked \subseteq Daemons

LEMMA Flags == \A c \in Config : c.login \in BOOLEAN
  BY DEF Config

LEMMA AppTypesStep ==
  ASSUME Core, AppTypes, [Next]_vars PROVE AppTypes'
<1>1. CASE UNCHANGED vars BY <1>1 DEF AppTypes, vars, appVars
<1>2. CASE Launch
  <2>1. launches' \in Nat
    <3>1. launches \in Nat /\ launches' = launches + 1 BY <1>2, Zenon DEF Launch, AppTypes
    <3> QED BY ONLY <3>1
  <2> QED BY <1>2, <2>1, Zenon DEF Launch, AppGo, AppTypes
<1>3. CASE AppLoad
  <2>1. Loadable => OnDisk.login \in BOOLEAN BY Flags, LoadableExists
  <2> QED BY <1>3, <2>1 DEF AppLoad, AppTypes
<1>4. CASE AppStartUp /\ ~AppLoad
  BY <1>4
     DEF AppStartUp, AppEnsure, AppCreated, AppGo, InstallHelper, KeepHelper, CopyHelper,
         ReplaceHelper, Probe, ApprovedStart, SpawnDaemon, AppTypes
<1>5. CASE Prompt \/ Quit \/ AskDaemon \/ ExitRequested \/ QuitAgain \/ AppCrash
  BY <1>5
     DEF Prompt, Quit, AskDaemon, AppGo, ExitRequested, QuitAgain, AppCrash, ProcessEnds,
         AppTypes
<1>6. CASE SaveSteps BY <1>6 DEF SaveSteps, appVars, AppTypes
<1>7. ASSUME NEW d \in Daemons, SpawnByHand(d) \/ DaemonBoots(d) \/ DaemonSteps(d)
      PROVE  AppTypes'
  BY <1>7
     DEF SpawnByHand, DaemonBoots, BootEnsure, BootCreated, BootLoad, BootGivesUp, BootDies,
         DaemonSteps, appVars, AppTypes
<1>8. ASSUME NEW k \in Calls,
             \/ CallSave(k) \/ CallRollback(k) \/ CallReload(k) \/ CallAssign(k)
             \/ \E r \in {"saved", "failed"} : CallSaved(k, r)
             \/ ReloadConfig(k) \/ \E c \in Inputs : ConfigSave(k, c)
             \/ \E days \in 0 .. MaxDays + 1 : SetRetentionDays(k, days)
      PROVE  AppTypes'
  BY <1>8
     DEF CallSave, CallSaved, CallRollback, CallReload, CallAssign, ReloadConfig, ConfigSave,
         SetRetentionDays, BeginCall, appVars, AppTypes
<1>9. ASSUME NEW k \in Calls,
             CallAutostart(k) \/ \E r \in {"saved", "failed"} : CallRolledBack(k, r)
      PROVE  AppTypes'
  <2>1. call[k].want.login \in BOOLEAN /\ call[k].prev.login \in BOOLEAN
    BY <1>9, Flags
       DEF CallAutostart, CallRolledBack, Core, CallInv, CallOK, ValidConfig
  <2> QED BY <1>9, <2>1 DEF CallAutostart, CallRolledBack, AppTypes
<1> QED BY <1>1, <1>2, <1>3, <1>4, <1>5, <1>6, <1>7, <1>8, <1>9 DEF Next, CallSteps

LEMMA BootTypesStep ==
  ASSUME Core, BootTypes, [Next]_vars PROVE BootTypes'
<1> HIDE DEF Config
<1>1. CASE UNCHANGED vars BY <1>1 DEF BootTypes, vars, bootVars
<1>2. CASE Launch \/ AppStartUp
  BY <1>2
     DEF Launch, AppStartUp, AppEnsure, AppLoad, AppCreated, InstallHelper, CopyHelper,
         ReplaceHelper, Probe, ApprovedStart, SpawnDaemon, BootDaemon, BootTo, bootVars,
         BootTypes
<1>3. CASE Prompt \/ Quit \/ AskDaemon \/ ExitRequested \/ QuitAgain \/ AppCrash
  BY <1>3
     DEF Prompt, Quit, AskDaemon, ExitRequested, QuitAgain, AppCrash, ProcessEnds, bootVars,
         BootTypes
<1>4. CASE SaveSteps BY <1>4 DEF SaveSteps, bootVars, BootTypes
<1>5. ASSUME NEW d \in Daemons, SpawnByHand(d) \/ DaemonBoots(d) PROVE BootTypes'
  <2>1. Loadable => OnDisk \in Config BY LoadableExists
  <2> QED
    BY <1>5, <2>1
       DEF SpawnByHand, BootDaemon, DaemonBoots, BootEnsure, BootCreated, BootLoad, BootGivesUp,
           BootDies, BootTo, BootTypes
<1>6. ASSUME NEW d \in Daemons, DaemonSteps(d) PROVE BootTypes'
  BY <1>6 DEF DaemonSteps, DropEnded, BootTypes
<1>7. ASSUME NEW k \in Calls, CallAssign(k) PROVE BootTypes'
  <2>1. call[k].want \in Config \cup {Absent}
    BY DEF Core, CallInv, CallTypeOK, CallRecord
  <2> QED BY <1>7, <2>1 DEF CallAssign, BootTypes
<1>8. ASSUME NEW k \in Calls,
             \/ CallSave(k) \/ CallAutostart(k) \/ CallRollback(k) \/ CallReload(k)
             \/ \E r \in {"saved", "failed"} : CallSaved(k, r) \/ CallRolledBack(k, r)
             \/ ReloadConfig(k) \/ \E c \in Inputs : ConfigSave(k, c)
             \/ \E days \in 0 .. MaxDays + 1 : SetRetentionDays(k, days)
      PROVE  BootTypes'
  BY <1>8
     DEF CallSave, CallSaved, CallAutostart, CallRollback, CallRolledBack, CallReload,
         ReloadConfig, ConfigSave, SetRetentionDays, BeginCall, bootVars, BootTypes
<1> QED BY <1>1, <1>2, <1>3, <1>4, <1>5, <1>6, <1>7, <1>8 DEF Next, CallSteps

DesktopInv == FileInv /\ Core /\ DaemonTypeOK /\ HelperInv /\ AppTypes /\ BootTypes

LEMMA DesktopHolds == ~OverlapSaves => (Spec => []DesktopInv)
<1> SUFFICES ASSUME ~OverlapSaves PROVE Spec => []DesktopInv
  OBVIOUS
<1>1. Init => DesktopInv
  <2>1. Init => DaemonTypeOK BY ProcessInit DEF Init, ProcessInv
  <2>0. 0 \in Nat OBVIOUS
  <2>2. Init => HelperInv BY DEF Init, HelperInv
  <2>4. Init => AppTypes BY <2>0, Zenon DEF Init, AppTypes
  <2>3. Init => BootTypes BY DEF Init, BootTypes
  <2> QED BY <2>1, <2>2, <2>3, <2>4, FileInit, CoreInit DEF DesktopInv, Init
<1>2. DesktopInv /\ [Next]_vars => DesktopInv'
  BY FileKept, CoreStep, DaemonTypesStep, HelperStep, AppTypesStep, BootTypesStep
     DEF DesktopInv
<1> QED BY <1>1, <1>2, PTL DEF Spec

(* The variables of the composition keep their types.                      *)
THEOREM DesktopTypeSafe == ~OverlapSaves => (Spec => []TypeOK)
<1>1. DesktopInv => TypeOK
  BY DEF DesktopInv, TypeOK, FileInv, HelperInv, AppTypes, BootTypes
<1> QED BY <1>1, DesktopHolds, PTL

(* A reload that is answered with success has left the daemon with what    *)
(* the file says at that moment.                                           *)
THEOREM AcksMeanLoaded == ~OverlapSaves => (Spec => AckMeansLoaded)
<1>1. DesktopInv /\ [Next]_vars =>
        [\A k \in Calls : CallAssign(k) => dconf'[call[k].server] = OnDisk]_vars
  <2> SUFFICES ASSUME DesktopInv, NEW k \in Calls, CallAssign(k)
               PROVE  dconf'[call[k].server] = OnDisk
    OBVIOUS
  <2>1. call[k].server \in Daemons /\ OnDisk = call[k].want
    BY DEF DesktopInv, Core, CallInv, CallOK, DiskOK, CallAssign
  <2>2. dconf' = [dconf EXCEPT ![call[k].server] = call[k].want] BY DEF CallAssign
  <2> QED BY <2>1, <2>2 DEF DesktopInv, BootTypes
<1> QED BY <1>1, DesktopHolds, PTL DEF Spec, AckMeansLoaded

(* Once a rollback is written the file is what it was before the call.     *)
THEOREM RollbackIsDone == ~OverlapSaves => (Spec => RollbackRestores)
<1>1. DesktopInv /\ [Next]_vars =>
        [\A k \in Calls :
            call[k].pc = "rolling" /\ save[k].pc = "saved" /\ call'[k].pc = "idle"
               /\ app' # "off"
            => OnDisk = call[k].prev]_vars
  BY DEF DesktopInv, Core, CallInv, DiskOK
<1> QED BY <1>1, DesktopHolds, PTL DEF Spec, RollbackRestores

(* All who save and whatever dies beside them, config.toml is the abstract *)
(* file.                                                                   *)
THEOREM AppKeepsAtomicFile == ~OverlapSaves => (Spec => ImplementsAtomicFile)
<1> SUFFICES ASSUME ~OverlapSaves PROVE Spec => ImplementsAtomicFile
  OBVIOUS
<1> DEFINE W == {save[k].want : k \in {j \in Savers : Saving(j)}}
<1>1. Init => Abstract!Init
  BY DEF Init, ConfigInit, Abstract!Init, OnDisk, Saving, NoSave
<1>2. FileInv /\ FileInv' /\ AbstractStep =>
        [Abstract!Replace \/ Abstract!Request \/ Abstract!ReplaceAndForget]_<<OnDisk, W>>
  BY AbstractFileStep
<1>3. DesktopInv /\ [Next]_vars => AbstractStep /\ FileInv /\ FileInv'
  BY FileKept DEF DesktopInv
<1> QED
  BY <1>1, <1>2, <1>3, DesktopHolds, PTL DEF Spec, ImplementsAtomicFile, Abstract!Spec

=============================================================================
