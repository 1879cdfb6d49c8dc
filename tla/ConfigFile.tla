----------------------------- MODULE ConfigFile -----------------------------
(***************************************************************************)
(* ~/.aissh/config.toml: Config::load, validate and save_atomic of         *)
(* crates/config, as the desktop app and aisshd use them.  A save truncates *)
(* the one temporary file config.toml.tmp, writes it and renames it over   *)
(* config.toml.  The file system keeps names apart from what they name: a  *)
(* saver writes through the file it opened, while the rename moves         *)
(* whatever the temporary name stands for by then.                         *)
(*                                                                         *)
(* A configuration is its retention_days, the two flags the app acts on,   *)
(* and whether its remaining settings and its targets are well formed.     *)
(***************************************************************************)
EXTENDS Naturals, FiniteSets

CONSTANTS Savers,        \* calls of save_atomic that may be under way
          Files,         \* inodes
          MaxDays,       \* 3650, the largest retention_days
          DefaultDays,   \* default_retention
          OverlapSaves,  \* whether two saves may be under way at once
          Absent,        \* no such file, no such value
          Empty,         \* the content of a truncated file
          Torn           \* a part of a text, or one text over a longer one

Config == [days : 0 .. MaxDays + 1, login : BOOLEAN, quit : BOOLEAN,
           wellFormed : BOOLEAN]

ASSUME ConfigAssumption ==
    /\ MaxDays \in Nat /\ DefaultDays \in 1 .. MaxDays
    /\ OverlapSaves \in BOOLEAN
    /\ Absent \notin Files /\ \E f, g \in Files : f # g
    /\ {Absent, Empty, Torn} \cap Config = {}

VARIABLES
    names,     \* the directory: what "config" and "temp" stand for
    content,   \* what each file holds
    save       \* each saver: its progress, the file it opened, what it saves

configVars == <<names, content, save>>

\* Config::validate; the range checks of the other settings, the target checks
\* and the key files are all in wellFormed.
validate(c) == c.days \in 1 .. MaxDays /\ c.wellFormed

ValidConfig == {c \in Config : validate(c)}

default_config == [days |-> DefaultDays, login |-> FALSE, quit |-> FALSE,
                   wellFormed |-> TRUE]

Content == Config \cup {Empty, Torn}

NoSave == [pc |-> "idle", file |-> Absent, want |-> Absent]

ConfigInit ==
    /\ names = [config |-> Absent, temp |-> Absent]
    /\ content = [f \in Files |-> Empty]
    /\ save = [k \in Savers |-> NoSave]

\* What a reader of config.toml gets.
OnDisk == IF names.config = Absent THEN Absent ELSE content[names.config]

\* Config::load: neither an empty nor a torn file parses.
Loadable == OnDisk \in ValidConfig

-----------------------------------------------------------------------------
(* save_atomic.                                                            *)

Saving(k) == save[k].pc \in {"open", "write", "rename"}

\* Files that a name or a handle refers to.
Used == {names.config, names.temp} \cup {save[k].file : k \in Savers}

\* A file that no name and no handle refers to any more is gone.
Reclaimed(used) == [f \in Files |-> IF f \in used THEN content[f] ELSE Empty]

\* The call.  An invalid configuration is refused before the file is opened.
StartSave(k, c) ==
    /\ save[k].pc = "idle"
    /\ OverlapSaves \/ \A j \in Savers : ~Saving(j)
    /\ save' = [save EXCEPT ![k] = IF validate(c)
                                   THEN [pc |-> "open", file |-> Absent, want |-> c]
                                   ELSE [NoSave EXCEPT !.pc = "failed"]]
    /\ UNCHANGED <<names, content>>

\* Mutant: the configuration itself is opened and truncated.
OpenConfig(k) ==
    /\ save[k].pc = "open"
    /\ LET f == IF names.config # Absent THEN names.config
                ELSE CHOOSE g \in Files : g \notin Used
       IN  /\ names' = [names EXCEPT !.temp = f, !.config = f]
           /\ content' = [content EXCEPT ![f] = Empty]
           /\ save' = [save EXCEPT ![k].pc = "write", ![k].file = f]

\* create(true).truncate(true), on the one temporary name; then restrict.
OpenTemp(k) ==
    /\ save[k].pc = "open"
    /\ LET f == IF names.temp # Absent THEN names.temp
                ELSE CHOOSE g \in Files : g \notin Used
       IN  /\ names' = [names EXCEPT !.temp = f]
           /\ content' = [content EXCEPT ![f] = Empty]
           /\ save' = [save EXCEPT ![k].pc = "write", ![k].file = f]

\* write_all from the start of the file, and sync_all.  Over another saver's
\* text, the rest of a longer text stays behind.
WriteTemp(k) ==
    LET f == save[k].file IN
    /\ save[k].pc = "write"
    /\ \E text \in {save[k].want}
                   \cup (IF content[f] \in {Empty, save[k].want} THEN {} ELSE {Torn}) :
         content' = [content EXCEPT ![f] = text]
    /\ save' = [save EXCEPT ![k].pc = "rename"]
    /\ UNCHANGED names

\* The rename takes the temporary name with it; without one it fails.
RenameTemp(k) ==
    /\ save[k].pc = "rename"
    /\ IF names.temp = Absent
       THEN /\ save' = [save EXCEPT ![k] = [NoSave EXCEPT !.pc = "failed"]]
            /\ UNCHANGED names
       ELSE /\ save' = [save EXCEPT ![k] = [NoSave EXCEPT !.pc = "saved"]]
            /\ names' = [config |-> names.temp, temp |-> Absent]
    /\ content' = Reclaimed({names'.config, names'.temp}
                            \cup {save'[j].file : j \in Savers})

\* An I/O error; one of the write leaves a part of the text behind.
SaveFails(k) ==
    /\ Saving(k)
    /\ save' = [save EXCEPT ![k] = [NoSave EXCEPT !.pc = "failed"]]
    /\ content' = IF save[k].pc = "write"
                  THEN [content EXCEPT ![save[k].file] = Torn] ELSE content
    /\ UNCHANGED names

SaveAtomic(k) == OpenTemp(k) \/ WriteTemp(k) \/ RenameTemp(k)

\* The process of a saver dies; what it has written so far stays.
SaverDies(k) ==
    /\ save' = [save EXCEPT ![k] = NoSave]
    /\ \/ UNCHANGED content
       \/ /\ save[k].pc = "write"
          /\ content' = [content EXCEPT ![save[k].file] = Torn]
    /\ UNCHANGED names

\* The caller goes on.
SaveReturns(k, result) ==
    /\ save[k].pc = result /\ result \in {"saved", "failed"}
    /\ save' = [save EXCEPT ![k] = NoSave]
    /\ UNCHANGED <<names, content>>

-----------------------------------------------------------------------------
(* The file on its own, with callers that save whatever they like.         *)

ConfigNext ==
    \E k \in Savers :
        \/ SaveAtomic(k) \/ SaveFails(k)
        \/ save[k].pc # "idle" /\ SaverDies(k)
        \/ \E r \in {"saved", "failed"} : SaveReturns(k, r)
        \/ \E c \in Config : StartSave(k, c)

ConfigSpec == ConfigInit /\ [][ConfigNext]_configVars

-----------------------------------------------------------------------------
(* Properties.                                                             *)

ConfigTypeOK ==
    /\ names \in [config : Files \cup {Absent}, temp : Files \cup {Absent}]
    /\ content \in [Files -> Content]
    /\ save \in [Savers -> [pc : {"idle", "open", "write", "rename", "saved", "failed"},
                            file : Files \cup {Absent}, want : Config \cup {Absent}]]

(* Config::load never meets a part of a save_atomic: whoever opens         *)
(* config.toml, at whatever moment of however many saves, failures and     *)
(* deaths of savers, finds one whole, valid configuration.                 *)
ConfigIsWhole == OnDisk = Absent \/ OnDisk \in ValidConfig

\* The abstract file: its value is what a reader sees.
Abstract == INSTANCE AtomicFile
    WITH Values <- ValidConfig, value <- OnDisk,
         wanted <- {save[k].want : k \in {j \in Savers : Saving(j)}}

(* save_atomic implements the abstract file: config.toml changes only in   *)
(* the rename, only to what a save under way was called with, and it never *)
(* disappears again.                                                       *)
ImplementsAtomicFile == Abstract!Spec

=============================================================================
