---------------------------- MODULE FileTransfer ----------------------------
(***************************************************************************)
(* File transfers between this machine and one remote host                 *)
(* (crates/ssh/src/transfer.rs and the file_* operations of                *)
(* crates/session): concurrent writes, appends, uploads and privileged     *)
(* writes of one remote path, reads of it, downloads of it to one local    *)
(* path, and the creation of the directories it lies in.                   *)
(*                                                                         *)
(* A file system maps names to inodes and inodes to contents, so that an   *)
(* open handle follows its file through a rename and outlives its removal. *)
(* Contents are sequences of blocks (the 64 KiB chunks), each marked with  *)
(* the transfer whose payload it is.  A step is a call that another        *)
(* transfer may notice; any of them may fail, the clean-up that follows a  *)
(* failure too, and the remote host may answer a request for a digest with *)
(* nothing (no tool, no channel left).                                     *)
(***************************************************************************)
EXTENDS Naturals, Sequences, FiniteSets

CONSTANTS Writes,      \* file_write and file_upload calls
          Appends,     \* file_write calls with append
          SudoWrites,  \* file_write calls with sudo
          SudoAppends, \* those of them that append
          Downloads,   \* file_download calls
          Reads,       \* file_read calls
          SudoReads,   \* those of them with sudo
          Mkdirs,      \* file_mkdir calls, for the parent directory of the path
          Chunks,      \* blocks of a payload
          AppendLimit, \* APPEND_READ_LIMIT, in blocks
          ReadLimit,   \* max_bytes of a file_read, in blocks
          Depth,       \* directories between the root and the remote file
          MaxCalls,    \* bound: calls that are made
          MaxBad,      \* bound: blocks on disk at a time that were mangled on their way
          Remote, Local, LocalStage,  \* names of files
          OldFile,                    \* the remote file that was there before
          Hole, Bad,                  \* block never written, block mangled
          None

Uploads   == Writes \cup Appends
Transfers == Uploads \cup SudoWrites \cup Downloads \cup Reads \cup Mkdirs
Makers    == Uploads \cup Mkdirs
Inodes    == Transfers \cup {OldFile}
Names     == Uploads \cup {Remote, Local, LocalStage}
Blocks    == Transfers \cup {OldFile, Hole, Bad}

ASSUME TransfersAssumption ==
    /\ Writes \cap Appends = {} /\ Uploads \cap SudoWrites = {}
    /\ (Uploads \cup SudoWrites) \cap Downloads = {}
    /\ (Uploads \cup SudoWrites \cup Downloads) \cap (Reads \cup Mkdirs) = {}
    /\ Reads \cap Mkdirs = {}
    /\ SudoAppends \subseteq SudoWrites /\ SudoReads \subseteq Reads
    /\ None \notin Inodes \cup Names /\ OldFile \notin Transfers
    /\ {Remote, Local, LocalStage} \cap Uploads = {}
    /\ Remote # Local /\ Remote # LocalStage /\ Local # LocalStage

ASSUME BlocksAssumption ==
    /\ Chunks \in Nat \ {0} /\ AppendLimit \in Nat
    /\ ReadLimit \in Nat \ {0} /\ Depth \in Nat \ {0} /\ MaxCalls \in Nat
    /\ MaxBad \in Nat /\ {Hole, Bad} \cap Inodes = {}

VARIABLES
    names,    \* directory: the inode a name stands for
    data,     \* contents of the inodes
    pc,       \* progress of each transfer
    plan,     \* the bytes sent, or read so far; what the digest is taken of
    pos,      \* blocks transferred
    handle,   \* the inode written to
    source,   \* the inode a download or read reads
    verified, \* TransferOutcome::verified
    dirs,     \* the directories that exist, numbered from the root
    level,    \* the directory a make_dir is at
    size      \* the size a file_read reports

fileVars == <<names, data>>
transferVars == <<fileVars, pc, plan, pos, handle, source, verified>>
vars == <<transferVars, dirs, level, size>>

Steps == {"idle", "look", "mkdir", "made", "create", "copy", "confirm", "stat", "remove",
          "rename", "done", "unchanged", "failed", "leaked", "stranded"}

Payload(t) == [i \in 1 .. Chunks |-> t]

\* There is no remote file yet, or one that may already hold a payload.
Init ==
    /\ \E b \in {None, OldFile} \cup Writes \cup SudoWrites :
         /\ names = [n \in Names |->
                       IF n = Remote /\ b # None THEN OldFile ELSE None]
         /\ data = [i \in Inodes |->
                      IF i = OldFile /\ b # None
                      THEN [j \in 1 .. Chunks |-> b] ELSE <<>>]
    /\ pc = [t \in Transfers |-> "idle"]
    /\ plan = [t \in Transfers |-> <<>>]
    /\ pos = [t \in Transfers |-> 0]
    /\ handle = [t \in Transfers |-> None]
    /\ source = [d \in Downloads \cup Reads |-> None]
    /\ verified = [t \in Transfers |-> FALSE]
    /\ \E k \in 0 .. Depth : dirs = 1 .. k /\ (names[Remote] # None => k = Depth)
    /\ level = [t \in Makers |-> Depth]
    /\ size = [t \in Reads |-> 0]

-----------------------------------------------------------------------------
(* Steps every transfer shares.                                            *)

Exists(n)  == names[n] # None
Content(n) == data[names[n]]

Step(t, from, to) == pc[t] = from /\ pc' = [pc EXCEPT ![t] = to]
Unlink(n) == names' = [names EXCEPT ![n] = None]

\* A call begins.
Call(t) == pc[t] = "idle" /\ Cardinality({u \in Transfers : pc[u] # "idle"}) < MaxCalls

\* A file can be created.
ParentExists == Depth \in dirs

\* staged_path is unique per call, local_staged_path per process only.
Stage(t) == IF t \in Downloads THEN LocalStage ELSE t

\* Create, or truncate what is there.
OpenTruncated(t, n) ==
    LET i == IF Exists(n) THEN names[n] ELSE t IN
    /\ names' = [names EXCEPT ![n] = i]
    /\ data' = [data EXCEPT ![i] = <<>>]
    /\ handle' = [handle EXCEPT ![t] = i]

WriteAt(s, k, b) ==
    [i \in 1 .. (IF k > Len(s) THEN k ELSE Len(s)) |->
       IF i = k THEN b ELSE IF i <= Len(s) THEN s[i] ELSE Hole]

BadBlocks == UNION {{<<i, k>> : k \in {j \in DOMAIN data[i] : data[i][j] = Bad}} : i \in Inodes}

\* The transport or the server may store or read other bytes.
Received(b) == {b} \cup (IF Cardinality(BadBlocks) < MaxBad THEN {Bad} ELSE {})

\* remote_sha256: the digest, represented by the content, or nothing.
Digest(n) == {None} \cup (IF Exists(n) THEN {Content(n)} ELSE {})

-----------------------------------------------------------------------------
(* file_write, file_upload: staged, verified, promoted.  Nobody else knows *)
(* the staged name, so the calls on it that leave its content alone (open, *)
(* flush, close, digest, mode) are part of the step before or after.  A    *)
(* call that fails before anything was created stays idle.                 *)

\* if_changed: an identical file is left alone.
SkipUnchanged(t) ==
    /\ t \notin SudoAppends
    /\ Call(t) /\ Exists(Remote) /\ Content(Remote) = Payload(t)
    /\ Step(t, "idle", "unchanged")
    /\ verified' = [verified EXCEPT ![t] = TRUE]
    /\ UNCHANGED <<fileVars, plan, pos, handle, source>>

StartWrite(t) ==
    /\ Call(t) \/ pc[t] = "made"
    /\ ParentExists
    /\ Step(t, pc[t], "copy")
    /\ plan' = [plan EXCEPT ![t] = Payload(t)]
    /\ OpenTruncated(t, Stage(t))
    /\ UNCHANGED <<pos, source, verified>>

\* read_capped, then the whole file again with the new bytes at its end.  A
\* file above the limit is refused, unless its size could not be read.  One
\* step: an open file is only ever changed by a privileged write.
StartAppend(t) ==
    LET n == Len(Content(Remote)) IN
    /\ Exists(Remote)
    /\ Call(t) \/ pc[t] = "made"
    /\ Step(t, pc[t], "copy")
    /\ \E sized \in BOOLEAN :
         /\ sized => n <= AppendLimit
         /\ plan' = [plan EXCEPT ![t] =
              SubSeq(Content(Remote), 1, IF n > AppendLimit THEN AppendLimit ELSE n)
                \o Payload(t)]
    /\ OpenTruncated(t, Stage(t))
    /\ UNCHANGED <<pos, source, verified>>

\* write_all, one chunk at a time.
SendChunk(t) ==
    /\ Step(t, "copy", "copy")
    /\ pos[t] < Len(plan[t])
    /\ \E b \in Received(plan[t][pos[t] + 1]) :
         data' = [data EXCEPT ![handle[t]] = WriteAt(@, pos[t] + 1, b)]
    /\ pos' = [pos EXCEPT ![t] = @ + 1]
    /\ UNCHANGED <<names, plan, handle, source, verified>>

\* Mutant: the answer of the remote host is not compared.
ConfirmAnything(t) ==
    /\ Step(t, "copy", "stat")
    /\ pos[t] = Len(plan[t])
    /\ \E d \in Digest(Stage(t)) : verified' = [verified EXCEPT ![t] = (d # None)]
    /\ UNCHANGED <<fileVars, plan, pos, handle, source>>

Confirm(t) ==
    /\ Step(t, "copy", "stat")
    /\ pos[t] = Len(plan[t])
    /\ \E d \in Digest(Stage(t)) \cap {None, plan[t]} :
         verified' = [verified EXCEPT ![t] = (d # None)]
    /\ UNCHANGED <<fileVars, plan, pos, handle, source>>

\* discard: the staged file goes, if that call goes through.
Discard(t, from) ==
    /\ \/ Step(t, from, "failed") /\ Unlink(Stage(t))
       \/ Step(t, from, "leaked") /\ UNCHANGED names
    /\ UNCHANGED <<data, plan, pos, handle, source, verified>>

\* Mutant: the mismatch is reported, the staged file stays.
MismatchUndiscarded(t) ==
    /\ pc[t] = "copy" /\ pos[t] = Len(plan[t]) /\ Content(Stage(t)) # plan[t]
    /\ pc' = [pc EXCEPT ![t] = "failed"]
    /\ UNCHANGED <<fileVars, plan, pos, handle, source, verified>>

\* TRANSFER_VERIFY_FAILED
Mismatch(t) ==
    /\ pc[t] = "copy" /\ pos[t] = Len(plan[t]) /\ Content(Stage(t)) # plan[t]
    /\ Discard(t, "copy")

\* A write, flush, close or set_metadata on the staged file has failed.
StagingFails(t) == Discard(t, "copy")

-----------------------------------------------------------------------------
(* promote: SFTP has no overwriting rename.                                *)

FindOld(t) ==
    /\ Step(t, "stat", IF Exists(Remote) THEN "remove" ELSE "rename")
    /\ UNCHANGED <<fileVars, plan, pos, handle, source, verified>>

RemoveOld(t) ==
    /\ Exists(Remote)
    /\ Step(t, "remove", "rename")
    /\ Unlink(Remote)
    /\ UNCHANGED <<data, plan, pos, handle, source, verified>>

MoveIntoPlace(t) ==
    /\ ~Exists(Remote)
    /\ Step(t, "rename", "done")
    /\ names' = [names EXCEPT ![Remote] = names[t], ![t] = None]
    /\ UNCHANGED <<data, plan, pos, handle, source, verified>>

\* Mutant: promote cleans up like every step before it.
PromoteFailsDiscarding(t) ==
    /\ pc[t] \in {"stat", "remove", "rename"}
    /\ Discard(t, pc[t])

\* No clean-up here: the staged file may be the only copy left.
PromoteFails(t) ==
    /\ pc[t] \in {"stat", "remove", "rename"}
    /\ Step(t, pc[t], "stranded")
    /\ UNCHANGED <<fileVars, plan, pos, handle, source, verified>>

-----------------------------------------------------------------------------
(* The privileged write: tee, in place.                                    *)

StartTee(t) ==
    /\ Call(t) /\ ParentExists
    /\ plan' = [plan EXCEPT ![t] = Payload(t)]
    /\ Step(t, "idle", "copy")
    /\ IF t \in SudoAppends /\ Exists(Remote)
       THEN handle' = [handle EXCEPT ![t] = names[Remote]] /\ UNCHANGED fileVars
       ELSE OpenTruncated(t, Remote)
    /\ UNCHANGED <<pos, source, verified>>

Tee(t) ==
    LET k == IF t \in SudoAppends THEN Len(data[handle[t]]) ELSE pos[t] IN
    /\ Step(t, "copy", "copy")
    /\ pos[t] < Len(plan[t])
    /\ \E b \in Received(plan[t][pos[t] + 1]) :
         data' = [data EXCEPT ![handle[t]] = WriteAt(@, k + 1, b)]
    /\ pos' = [pos EXCEPT ![t] = @ + 1]
    /\ UNCHANGED <<names, plan, handle, source, verified>>

\* The digest of the payload against that of the whole file; no digest is a
\* failure here.
VerifyTee(t) ==
    /\ pos[t] = Len(plan[t])
    /\ \E d \in Digest(Remote) :
         /\ Step(t, "copy", IF d = plan[t] THEN "done" ELSE "failed")
         /\ verified' = [verified EXCEPT ![t] = (d = plan[t])]
    /\ UNCHANGED <<fileVars, plan, pos, handle, source>>

\* tee fails or takes longer than SUDO_WRITE_TIMEOUT.
TeeFails(t) ==
    /\ Step(t, "copy", "failed")
    /\ UNCHANGED <<fileVars, plan, pos, handle, source, verified>>

-----------------------------------------------------------------------------
(* file_download.  With overwrite an existing local file is no obstacle,   *)
(* and without it the check is made before anything is opened.             *)

StartDownload(d) ==
    /\ Call(d) /\ Exists(Remote)
    /\ Step(d, "idle", "create")
    /\ source' = [source EXCEPT ![d] = names[Remote]]
    /\ UNCHANGED <<fileVars, plan, pos, handle, verified>>

\* local_staged_path: the same for every download to this path.
CreateLocal(d) ==
    /\ Step(d, "create", "copy")
    /\ OpenTruncated(d, Stage(d))
    /\ UNCHANGED <<plan, pos, source, verified>>

\* Mutant: a chunk is stored without being hashed.
ReceiveUnhashed(d) ==
    /\ Step(d, "copy", "copy")
    /\ pos[d] < Len(data[source[d]])
    /\ \E b \in Received(data[source[d]][pos[d] + 1]) :
         data' = [data EXCEPT ![handle[d]] = WriteAt(@, pos[d] + 1, b)]
    /\ pos' = [pos EXCEPT ![d] = @ + 1]
    /\ UNCHANGED <<names, plan, handle, source, verified>>

ReceiveChunk(d) ==
    /\ Step(d, "copy", "copy")
    /\ pos[d] < Len(data[source[d]])
    /\ \E b \in Received(data[source[d]][pos[d] + 1]) :
         /\ plan' = [plan EXCEPT ![d] = Append(@, b)]
         /\ data' = [data EXCEPT ![handle[d]] = WriteAt(@, pos[d] + 1, b)]
    /\ pos' = [pos EXCEPT ![d] = @ + 1]
    /\ UNCHANGED <<names, handle, source, verified>>

ReceivedAll(d) ==
    /\ Step(d, "copy", "confirm")
    /\ pos[d] >= Len(data[source[d]])
    /\ UNCHANGED <<fileVars, plan, pos, handle, source, verified>>

\* Mutant: the answer of the remote host is not compared.
ConfirmAnyDownload(d) ==
    /\ Step(d, "confirm", "rename")
    /\ \E x \in Digest(Remote) : verified' = [verified EXCEPT ![d] = (x # None)]
    /\ UNCHANGED <<fileVars, plan, pos, handle, source>>

\* The bytes that were read against the remote file as it is now.
ConfirmDownload(d) ==
    /\ Step(d, "confirm", "rename")
    /\ \E x \in Digest(Remote) \cap {None, plan[d]} :
         verified' = [verified EXCEPT ![d] = (x # None)]
    /\ UNCHANGED <<fileVars, plan, pos, handle, source>>

MismatchedDownload(d) ==
    Exists(Remote) /\ Content(Remote) # plan[d] /\ Discard(d, "confirm")

\* Mutant: a download that fails still shows what has arrived.
KeepsPartialDownload(d) ==
    /\ Step(d, "copy", "failed")
    /\ names' = [names EXCEPT ![Local] = names[LocalStage], ![LocalStage] = None]
    /\ UNCHANGED <<data, plan, pos, handle, source, verified>>

DownloadFails(d) == Discard(d, "copy")

\* A local rename replaces; it fails when the staged name is gone.
RenameDownload(d) ==
    /\ \/ /\ Exists(LocalStage)
          /\ Step(d, "rename", "done")
          /\ names' = [names EXCEPT ![Local] = names[LocalStage],
                                    ![LocalStage] = None]
       \/ /\ Step(d, "rename", IF Exists(LocalStage) THEN "leaked" ELSE "failed")
          /\ UNCHANGED names
    /\ UNCHANGED <<data, plan, pos, handle, source, verified>>

-----------------------------------------------------------------------------
(* file_read: through an open handle, or with two privileged commands.     *)

\* open, metadata (taken for 0 if it fails) and take(limit).
StartRead(t) ==
    /\ Call(t) /\ Exists(Remote)
    /\ Step(t, "idle", "copy")
    /\ source' = [source EXCEPT ![t] = names[Remote]]
    /\ size' \in {[size EXCEPT ![t] = n] : n \in {0, Len(Content(Remote))}}
    /\ UNCHANGED <<fileVars, plan, pos, handle, verified>>

More(t) == Len(plan[t]) < ReadLimit /\ Len(plan[t]) < Len(data[source[t]])

\* Mutant: the name is opened again for every block.
ReadByName(t) ==
    /\ Step(t, "copy", "copy") /\ Exists(Remote)
    /\ Len(plan[t]) < ReadLimit /\ Len(plan[t]) < Len(Content(Remote))
    /\ plan' = [plan EXCEPT ![t] = Append(@, Content(Remote)[Len(plan[t]) + 1])]
    /\ UNCHANGED <<fileVars, pos, handle, source, verified, size>>

\* read_to_end, a block at a time.
ReadBlock(t) ==
    /\ Step(t, "copy", "copy") /\ More(t)
    /\ \E b \in Received(data[source[t]][Len(plan[t]) + 1]) :
         plan' = [plan EXCEPT ![t] = Append(@, b)]
    /\ UNCHANGED <<fileVars, pos, handle, source, verified, size>>

ReadEnds(t) ==
    /\ \/ Step(t, "copy", "done") /\ ~More(t)
       \/ Step(t, "copy", "failed")
    /\ UNCHANGED <<fileVars, plan, pos, handle, source, verified, size>>

\* remote_sha256, which no later step looks at, and sudo_file_size: wc, whose
\* answer may not be a number.
SudoSize(t) ==
    /\ Call(t) /\ Exists(Remote)
    /\ Step(t, "idle", "stat")
    /\ size' \in {[size EXCEPT ![t] = n] : n \in {0, Len(Content(Remote))}}
    /\ UNCHANGED <<fileVars, plan, pos, handle, source, verified>>

\* sudo_read_chunk: head, of whatever is at the path by then.
SudoHead(t) ==
    /\ \/ /\ Exists(Remote)
          /\ Step(t, "stat", "done")
          /\ plan' = [plan EXCEPT ![t] =
                SubSeq(Content(Remote), 1,
                       IF Len(Content(Remote)) > ReadLimit THEN ReadLimit
                       ELSE Len(Content(Remote)))]
       \/ Step(t, "stat", "failed") /\ UNCHANGED plan
    /\ UNCHANGED <<fileVars, pos, handle, source, verified, size>>

-----------------------------------------------------------------------------
(* make_dir, for create_dirs and file_mkdir.                               *)

\* make_dir of the whole path.
StartMakeDir(t) ==
    /\ Call(t) /\ Step(t, "idle", "look")
    /\ UNCHANGED <<fileVars, plan, pos, handle, source, verified, dirs, level>>

\* make_dir has returned for the directory at this level.
DirIsThere(t) ==
    IF level[t] < Depth
    THEN /\ Step(t, pc[t], "mkdir") /\ level' = [level EXCEPT ![t] = @ + 1]
    ELSE /\ Step(t, pc[t], IF t \in Mkdirs THEN "done" ELSE "made") /\ UNCHANGED level

\* try_stat: there already, or the parent first; file_mkdir may be called
\* without parents.
LookForDir(t) ==
    /\ pc[t] = "look"
    /\ CASE level[t] \in dirs -> DirIsThere(t)
         [] level[t] \notin dirs /\ level[t] > 1 ->
              \/ pc' = pc /\ level' = [level EXCEPT ![t] = @ - 1]
              \/ t \in Mkdirs /\ level[t] = Depth /\ Step(t, "look", "mkdir") /\ UNCHANGED level
         [] OTHER -> Step(t, "look", "mkdir") /\ UNCHANGED level
    /\ UNCHANGED <<fileVars, plan, pos, handle, source, verified, dirs>>

\* Mutant: an error is taken for a concurrent creation without a look.
CreateDirAnyhow(t) ==
    /\ pc[t] = "mkdir"
    /\ dirs' \in {dirs, dirs \cup {level[t]}}
    /\ DirIsThere(t)
    /\ UNCHANGED <<fileVars, plan, pos, handle, source, verified>>

\* create_dir; what somebody else has created meanwhile is no failure.
CreateDir(t) ==
    /\ pc[t] = "mkdir"
    /\ level[t] \in dirs \/ level[t] = 1 \/ level[t] - 1 \in dirs
    /\ dirs' = dirs \cup {level[t]}
    /\ DirIsThere(t)
    /\ UNCHANGED <<fileVars, plan, pos, handle, source, verified>>

\* An error, of apply_mode or of what follows in file_write too.
MakeDirFails(t) ==
    /\ pc[t] \in {"look", "mkdir", "made"}
    /\ Step(t, pc[t], "failed")
    /\ UNCHANGED <<fileVars, plan, pos, handle, source, verified, dirs, level>>

\* sudo_make_dir: mkdir -p.  A call that goes no further leaves nothing else.
SudoMakeDir(t) ==
    /\ Call(t) /\ ~ParentExists
    /\ dirs' = 1 .. Depth
    /\ UNCHANGED <<transferVars, level>>

-----------------------------------------------------------------------------

Upload(t) ==
    \/ SendChunk(t) \/ StagingFails(t) \/ Confirm(t) \/ Mismatch(t)
    \/ FindOld(t) \/ RemoveOld(t) \/ MoveIntoPlace(t) \/ PromoteFails(t)

SudoWrite(t) == StartTee(t) \/ Tee(t) \/ VerifyTee(t) \/ TeeFails(t)

Download(d) ==
    \/ StartDownload(d) \/ CreateLocal(d)
    \/ ReceiveChunk(d) \/ ReceivedAll(d) \/ DownloadFails(d)
    \/ ConfirmDownload(d) \/ MismatchedDownload(d) \/ RenameDownload(d)

FileRead(t) ==
    IF t \in SudoReads THEN SudoSize(t) \/ SudoHead(t)
    ELSE StartRead(t) \/ ReadBlock(t) \/ ReadEnds(t)

MakeDir(t) == StartMakeDir(t) \/ LookForDir(t) \/ CreateDir(t) \/ MakeDirFails(t)

Transfer ==
    \/ \E t \in Writes \cup SudoWrites : SkipUnchanged(t)
    \/ \E t \in Writes : StartWrite(t)
    \/ \E t \in Appends : StartAppend(t)
    \/ \E t \in Uploads : Upload(t)
    \/ \E t \in SudoWrites : SudoWrite(t)
    \/ \E d \in Downloads : Download(d)

Next ==
    \/ Transfer /\ UNCHANGED <<dirs, level, size>>
    \/ \E t \in Reads : FileRead(t) /\ UNCHANGED <<dirs, level>>
    \/ \E t \in Makers : MakeDir(t) /\ UNCHANGED size
    \/ \E t \in SudoWrites : SudoMakeDir(t) /\ UNCHANGED size

Spec == Init /\ [][Next]_vars

-----------------------------------------------------------------------------
(* Properties.                                                             *)

TypeOK ==
    /\ names \in [Names -> Inodes \cup {None}]
    /\ data \in [Inodes -> Seq(Blocks)]
    /\ pc \in [Transfers -> Steps]
    /\ plan \in [Transfers -> Seq(Blocks)]
    /\ pos \in [Transfers -> Nat] /\ \A t \in Transfers : pos[t] <= Len(plan[t])
    /\ handle \in [Transfers -> Inodes \cup {None}]
    /\ source \in [Downloads \cup Reads -> Inodes \cup {None}]
    /\ verified \in [Transfers -> BOOLEAN]
    /\ dirs \subseteq 1 .. Depth
    /\ level \in [Makers -> 1 .. Depth] /\ size \in [Reads -> Nat]

\* What the file that transfer i made should hold.
Whole(i) == IF i = OldFile THEN data[OldFile] ELSE plan[i]

\* No privileged write has touched the remote file: they work in place.
NoTee == \A t \in SudoWrites : handle[t] = None

(* A partial transfer is never observed at the remote path, as the         *)
(* architecture notes have it.                                             *)
PartialNeverObserved ==
    Exists(Remote) =>
        LET i == names[Remote] IN
        \/ Content(Remote) = Whole(i)
        \/ i \in Uploads /\ ~verified[i]

(* Staged writes keep that promise whatever runs beside them, and a mangled*)
(* file appears only if the remote host gave no digest and the outcome     *)
(* says so.                                                                *)
RemoteIsWhole == NoTee => PartialNeverObserved

(* The local file is what a download that completed has read, never a part *)
(* of it or a mixture.                                                     *)
LocalIsWhole ==
    Exists(Local) => \E d \in Downloads :
                        pc[d] = "done" /\ Content(Local) = plan[d]

(* The swap at the end of a write removes the old file before it moves the *)
(* new one: whenever the remote file is missing although there was one, the*)
(* complete content of a write that got that far is still on the host.     *)
NothingIsLost ==
    \/ Exists(Remote)
    \/ \E t \in Uploads :
         /\ pc[t] \in {"rename", "stranded"} /\ Exists(t)
         /\ verified[t] => Content(t) = plan[t]
    \/ data[OldFile] = <<>> /\ \A t \in Uploads : pc[t] # "done"

(* Staged files are gone when their transfer is over, unless the clean-up  *)
(* itself or the swap has failed.                                          *)
NoLeftovers ==
    /\ \A t \in Uploads : pc[t] \in {"done", "unchanged", "failed"} => ~Exists(t)
    /\ (\A d \in Downloads : pc[d] \in {"idle", "done", "failed"})
          => ~Exists(LocalStage)

(* A verified download has the bytes of a version that the remote path     *)
(* really held, from the first block to the last, although the file may be *)
(* replaced while it is read.                                              *)
VerifiedIsAVersion ==
    \A d \in Downloads :
        NoTee /\ pc[d] = "done" /\ verified[d] =>
            \E i \in Uploads \cup {OldFile} :
                /\ i \in Uploads => pc[i] = "done"
                /\ plan[d] = data[i]

\* The versions of the file that were ever complete at the remote path.
Versions == {OldFile} \cup {i \in Uploads : pc[i] = "done"}

(* file_read returns the beginning of one version, never a mixture of two, *)
(* although the file may be replaced while it is read; and whoever gets as *)
(* many bytes as the reported size has all of that version.  (A privileged *)
(* read asks for size and bytes one after the other and promises less.)    *)
ReadIsHonest ==
    \A t \in Reads :
        NoTee /\ pc[t] = "done" =>
            \E i \in Versions :
                /\ Len(plan[t]) <= Len(data[i])
                /\ \A k \in DOMAIN plan[t] : plan[t][k] \in {data[i][k], Bad}
                /\ t \notin SudoReads /\ size[t] = Len(plan[t])
                      => Len(data[i]) = Len(plan[t])

(* A make_dir that has returned has left every directory of the path in    *)
(* place, also when several calls create them at the same time.            *)
DirectoriesReady ==
    /\ \A t \in Mkdirs : pc[t] = "done" => 1 .. Depth \subseteq dirs
    /\ \A t \in Uploads : pc[t] \notin {"idle", "look", "mkdir", "failed"}
                           => 1 .. Depth \subseteq dirs

=============================================================================
