-------------------------- MODULE ConfigFileProofs --------------------------
(***************************************************************************)
(* Proofs about ConfigFile: for any number of savers, crashes and failed   *)
(* writes, as long as saves do not overlap (they share the temporary       *)
(* name), config.toml is always whole and the file implements AtomicFile.  *)
(*                                                                         *)
(* Why: the one saver under way writes to the file the temporary name      *)
(* stands for, which is never the file config.toml stands for, and before  *)
(* the rename that file holds all of a valid configuration.                *)
(***************************************************************************)
EXTENDS ConfigFile, TLAPS

OneSaver == \A j, k \in Savers : Saving(j) /\ Saving(k) => j = k

\* What a saver's handle stands for.
HandleIsTemp ==
    \A k \in Savers :
        /\ save[k].pc \notin {"write", "rename"} => save[k].file = Absent
        /\ save[k].pc \in {"write", "rename"} =>
              names.temp \in Files /\ save[k].file = names.temp
        /\ save[k].pc = "write" => content[names.temp] = Empty
        /\ save[k].pc = "rename" => content[names.temp] = save[k].want

WantsValid == \A k \in Savers : Saving(k) => save[k].want \in ValidConfig

NamesDiffer == names.temp \in Files => names.temp # names.config

FileInv == ConfigTypeOK /\ OneSaver /\ HandleIsTemp /\ WantsValid /\ NamesDiffer
           /\ ConfigIsWhole

\* A step of the abstract file.
AbstractStep ==
    \/ OnDisk' = OnDisk
    \/ \E k \in Savers : Saving(k) /\ OnDisk' = save[k].want

-----------------------------------------------------------------------------

LEMMA ConfigTypes ==
  /\ Absent \notin Config /\ Empty \notin Config /\ Torn \notin Config
  /\ Absent \notin Files
  /\ ValidConfig \subseteq Config
  BY ConfigAssumption DEF Config, ValidConfig

LEMMA FileInit == ConfigInit => FileInv
<1> SUFFICES ASSUME ConfigInit PROVE FileInv
  OBVIOUS
<1>1. \A k \in Savers : save[k] = [pc |-> "idle", file |-> Absent, want |-> Absent]
  BY DEF ConfigInit, NoSave
<1>2. names \in [config : Files \cup {Absent}, temp : Files \cup {Absent}]
  BY DEF ConfigInit
<1>3. content \in [Files -> Content]
  BY DEF ConfigInit, Content
<1>4. save \in [Savers -> [pc : {"idle", "open", "write", "rename", "saved", "failed"},
                          file : Files \cup {Absent}, want : Config \cup {Absent}]]
  <2> HIDE DEF Config
  <2> QED BY DEF ConfigInit, NoSave
<1>5. ConfigTypeOK BY <1>2, <1>3, <1>4 DEF ConfigTypeOK
<1>6. names.config = Absent /\ names.temp = Absent BY DEF ConfigInit
<1>7. OneSaver /\ HandleIsTemp /\ WantsValid
  BY <1>1 DEF OneSaver, HandleIsTemp, WantsValid, Saving
<1>8. NamesDiffer /\ ConfigIsWhole
  BY <1>6, ConfigTypes DEF NamesDiffer, ConfigIsWhole, OnDisk
<1> QED BY <1>5, <1>7, <1>8 DEF FileInv

(* Every step of the file keeps the invariant, and changes what a reader   *)
(* sees only to what the saver under way wants.                            *)
LEMMA FileStep ==
  ASSUME ~OverlapSaves, FileInv, [ConfigNext]_configVars
  PROVE  FileInv' /\ AbstractStep
<1> USE ConfigTypes
    DEF FileInv, ConfigTypeOK, OneSaver, HandleIsTemp, WantsValid, NamesDiffer, ConfigIsWhole,
        AbstractStep, OnDisk, Saving, Content
<1> DEFINE Goal == FileInv' /\ AbstractStep
<1>1. CASE UNCHANGED configVars
  BY <1>1 DEF configVars
<1>2. ASSUME NEW k \in Savers, OpenTemp(k) PROVE Goal
  <2> DEFINE f == IF names.temp # Absent THEN names.temp
                  ELSE CHOOSE g \in Files : g \notin Used
  <2>1. f \in Files /\ f # names.config
    <3>1. CASE names.temp # Absent BY <3>1
    <3>2. CASE names.temp = Absent
      <4>0. \A j \in Savers : save[j].file = Absent
        BY <1>2 DEF OpenTemp
      <4>1. Used \subseteq {names.config, Absent}
        BY <3>2, <4>0 DEF Used
      <4>2. \E g \in Files : g \notin Used
        <5>1. PICK g \in Files, h \in Files : g # h BY ConfigAssumption
        <5>2. g \notin Used \/ h \notin Used BY <4>1, <5>1
        <5> QED BY <5>2
      <4>3. names.config \in Used
        BY DEF Used
      <4> QED BY <3>2, <4>2, <4>3
    <3> QED BY <3>1, <3>2
  <2>2. /\ save[k].pc = "open"
        /\ names' = [names EXCEPT !.temp = f]
        /\ content' = [content EXCEPT ![f] = Empty]
        /\ save' = [save EXCEPT ![k].pc = "write", ![k].file = f]
    BY <1>2 DEF OpenTemp
  <2> HIDE DEF f
  <2>3. /\ save[k] \in [pc : {"idle", "open", "write", "rename", "saved", "failed"},
                         file : Files \cup {Absent}, want : Config \cup {Absent}]
        /\ \A j \in Savers : j # k => save'[j] = save[j]
        /\ save'[k].pc = "write" /\ save'[k].file = f /\ save'[k].want = save[k].want
    BY <2>2
  <2>5. names' \in [config : Files \cup {Absent}, temp : Files \cup {Absent}]
        /\ content' \in [Files -> Content]
    BY <2>1, <2>2
  <2>6. save' \in [Savers -> [pc : {"idle", "open", "write", "rename", "saved", "failed"},
                             file : Files \cup {Absent}, want : Config \cup {Absent}]]
    BY <2>1, <2>2
  <2>7. OneSaver' /\ WantsValid' BY <2>2, <2>3
  <2>8. HandleIsTemp' BY <2>1, <2>2, <2>3
  <2>9. OnDisk' = OnDisk /\ NamesDiffer' BY <2>1, <2>2
  <2> QED BY <2>5, <2>6, <2>7, <2>8, <2>9
<1>3. ASSUME NEW k \in Savers, WriteTemp(k) PROVE Goal
  <2>1. /\ save[k].pc = "write" /\ names' = names
        /\ content' = [content EXCEPT ![names.temp] = save[k].want]
        /\ save' = [save EXCEPT ![k].pc = "rename"]
    BY <1>3 DEF WriteTemp
  <2>2. names.temp \in Files /\ save[k].want \in Config
    BY <2>1
  <2>5. names' \in [config : Files \cup {Absent}, temp : Files \cup {Absent}]
        /\ content' \in [Files -> Content]
    BY <2>1, <2>2
  <2>6. save' \in [Savers -> [pc : {"idle", "open", "write", "rename", "saved", "failed"},
                             file : Files \cup {Absent}, want : Config \cup {Absent}]]
    BY <2>1
  <2>7. OneSaver' /\ WantsValid' BY <2>1
  <2>8. HandleIsTemp' BY <2>1
  <2>9. OnDisk' = OnDisk /\ NamesDiffer' BY <2>1
  <2> QED BY <2>5, <2>6, <2>7, <2>8, <2>9
<1>4. ASSUME NEW k \in Savers, RenameTemp(k) PROVE Goal
  <2>1. /\ save[k].pc = "rename"
        /\ save' = [save EXCEPT ![k] = [NoSave EXCEPT !.pc = "saved"]]
        /\ names' = [config |-> names.temp, temp |-> Absent]
    BY <1>4 DEF RenameTemp
  <2>2. content' \in [Files -> Content] /\ content'[names.temp] = content[names.temp]
    BY <1>4, <2>1 DEF RenameTemp, Reclaimed
  <2> QED BY <2>1, <2>2 DEF NoSave
<1>5. ASSUME NEW k \in Savers, SaveFails(k) PROVE Goal
  <2>1. /\ Saving(k) /\ names' = names
        /\ save' = [save EXCEPT ![k] = [NoSave EXCEPT !.pc = "failed"]]
    BY <1>5 DEF SaveFails
  <2>2. \/ content' = content
        \/ save[k].pc = "write" /\ content' = [content EXCEPT ![names.temp] = Torn]
    BY <1>5 DEF SaveFails
  <2>5. names' \in [config : Files \cup {Absent}, temp : Files \cup {Absent}]
        /\ content' \in [Files -> Content]
    BY <2>1, <2>2
  <2>6. save' \in [Savers -> [pc : {"idle", "open", "write", "rename", "saved", "failed"},
                             file : Files \cup {Absent}, want : Config \cup {Absent}]]
    BY <2>1, <2>2 DEF NoSave
  <2>7. OneSaver' /\ WantsValid' BY <2>1, <2>2 DEF NoSave
  <2>8. HandleIsTemp' BY <2>1, <2>2 DEF NoSave
  <2>9. OnDisk' = OnDisk /\ NamesDiffer' BY <2>1, <2>2
  <2> QED BY <2>5, <2>6, <2>7, <2>8, <2>9
<1>6. ASSUME NEW k \in Savers, SaverDies(k) PROVE Goal
  <2>1. names' = names /\ save' = [save EXCEPT ![k] = NoSave]
    BY <1>6 DEF SaverDies
  <2>2. \/ content' = content
        \/ save[k].pc = "write" /\ content' = [content EXCEPT ![names.temp] = Torn]
    BY <1>6 DEF SaverDies
  <2> QED BY <2>1, <2>2 DEF NoSave
<1>7. ASSUME NEW k \in Savers, NEW r \in {"saved", "failed"}, SaveReturns(k, r) PROVE Goal
  BY <1>7 DEF SaveReturns, NoSave
<1>8. ASSUME NEW k \in Savers, NEW c \in Config, StartSave(k, c) PROVE Goal
  <2>1. /\ names' = names /\ content' = content
        /\ \A j \in Savers : ~Saving(j)
    BY <1>8 DEF StartSave
  <2>2. CASE validate(c)
    <3>1. save' = [save EXCEPT ![k] = [pc |-> "open", file |-> Absent, want |-> c]]
      BY <1>8, <2>2 DEF StartSave
    <3>2. c \in ValidConfig BY <2>2 DEF ValidConfig
    <3> QED BY <2>1, <3>1, <3>2
  <2>3. CASE ~validate(c)
    <3>1. save' = [save EXCEPT ![k] = [NoSave EXCEPT !.pc = "failed"]]
      BY <1>8, <2>3 DEF StartSave
    <3> QED BY <2>1, <3>1 DEF NoSave
  <2> QED BY <2>2, <2>3
<1>9. ASSUME NEW k \in Savers,
             \/ SaveAtomic(k) \/ SaveFails(k)
             \/ save[k].pc # "idle" /\ SaverDies(k)
             \/ \E r \in {"saved", "failed"} : SaveReturns(k, r)
             \/ \E c \in Config : StartSave(k, c)
      PROVE  Goal
  <2> HIDE DEF Goal
  <2> QED BY <1>2, <1>3, <1>4, <1>5, <1>6, <1>7, <1>8, <1>9 DEF SaveAtomic
<1> HIDE DEF Goal
<1> QED BY <1>1, <1>9 DEF ConfigNext, Goal

-----------------------------------------------------------------------------

LEMMA FileHolds == ~OverlapSaves => (ConfigSpec => []FileInv)
<1> SUFFICES ASSUME ~OverlapSaves PROVE ConfigSpec => []FileInv
  OBVIOUS
<1>1. FileInv /\ [ConfigNext]_configVars => FileInv' BY FileStep
<1> QED BY <1>1, FileInit, PTL DEF ConfigSpec

(* Whoever loads config.toml finds one whole, valid configuration, at any  *)
(* moment of any sequence of saves, failures and deaths of savers.         *)
THEOREM ConfigStaysWhole == ~OverlapSaves => (ConfigSpec => []ConfigIsWhole)
<1>1. FileInv => ConfigIsWhole BY DEF FileInv
<1> QED BY <1>1, FileHolds, PTL

(* A change that AbstractStep allows is one of the abstract file.           *)
LEMMA AbstractFileStep ==
  ASSUME FileInv, FileInv', AbstractStep
  PROVE  [Abstract!Replace \/ Abstract!Request \/ Abstract!ReplaceAndForget]_
            <<OnDisk, {save[k].want : k \in {j \in Savers : Saving(j)}}>>
<1> SUFFICES Abstract!Request \/ Abstract!ReplaceAndForget
  OBVIOUS
<1>1. {save[k].want : k \in {j \in Savers : Saving(j)}}' \in SUBSET ValidConfig
  BY DEF FileInv, WantsValid
<1>2. CASE OnDisk' = OnDisk
  BY <1>1, <1>2 DEF Abstract!Request
<1>3. ASSUME NEW k \in Savers, Saving(k), OnDisk' = save[k].want
      PROVE  Abstract!ReplaceAndForget
  BY <1>1, <1>3 DEF Abstract!ReplaceAndForget
<1> QED BY <1>2, <1>3 DEF AbstractStep

(* save_atomic implements the abstract file.                               *)
THEOREM SaveImplementsAtomicFile == ~OverlapSaves => (ConfigSpec => ImplementsAtomicFile)
<1> SUFFICES ASSUME ~OverlapSaves PROVE ConfigSpec => ImplementsAtomicFile
  OBVIOUS
<1> DEFINE W == {save[k].want : k \in {j \in Savers : Saving(j)}}
<1>1. ConfigInit => Abstract!Init
  BY DEF ConfigInit, Abstract!Init, OnDisk, Saving, NoSave
<1>2. FileInv /\ FileInv' /\ AbstractStep =>
        [Abstract!Replace \/ Abstract!Request \/ Abstract!ReplaceAndForget]_<<OnDisk, W>>
  BY AbstractFileStep
<1>3. FileInv /\ [ConfigNext]_configVars => AbstractStep /\ FileInv'
  BY FileStep
<1> QED
  BY <1>1, <1>2, <1>3, FileHolds, PTL DEF ConfigSpec, ImplementsAtomicFile, Abstract!Spec

=============================================================================
