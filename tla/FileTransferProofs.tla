------------------------- MODULE FileTransferProofs -------------------------
(***************************************************************************)
(* Proofs about FileTransfer: for any number of transfers of every kind,   *)
(* any file size and any order of their steps, failures and cancellations  *)
(* included, the destination is never half written by a staged transfer,   *)
(* an old version is not lost before a new one is in place, failed         *)
(* transfers clean up after themselves, and a checksum that is reported    *)
(* belongs to the bytes it was computed for.                               *)
(*                                                                         *)
(* Why: every upload has a staging name and a file of its own, so until    *)
(* its rename only it can change that file, and afterwards nobody can      *)
(* (a privileged write excepted, which writes into the destination).  The  *)
(* layers below say this in turn: what is typed (TypeInv), which file a    *)
(* name or a handle stands for (NamesInv), who may change which file       *)
(* (WhoWrites), and then what the files hold (ContentInv and the rest).    *)
(* Downloads share one staging name: what they leave behind is proved for  *)
(* downloads that do not overlap.                                          *)
(***************************************************************************)
EXTENDS FileTransfer, TLAPS

BeforeStart == {"idle", "look", "mkdir", "made"}

\* What a call has not reached yet is untouched; a file is read once it is open.
Progress ==
    /\ \A t \in Transfers : pc[t] \in BeforeStart => pos[t] = 0 /\ plan[t] = <<>>
    /\ \A t \in Downloads \cup (Reads \ SudoReads) : pc[t] # "idle" => source[t] # None
    /\ \A t \in Reads : pos[t] = 0

TypeInv == TypeOK /\ Progress

-----------------------------------------------------------------------------
(* The constants and the operators.                                        *)

LEMMA Kinds ==
  /\ Uploads \cap SudoWrites = {} /\ Uploads \cap Downloads = {} /\ Uploads \cap Reads = {}
  /\ Uploads \cap Mkdirs = {} /\ SudoWrites \cap Downloads = {} /\ SudoWrites \cap Reads = {}
  /\ SudoWrites \cap Mkdirs = {} /\ Downloads \cap Reads = {} /\ Downloads \cap Mkdirs = {}
  /\ Reads \cap Mkdirs = {}
  /\ Uploads \subseteq Transfers /\ SudoWrites \subseteq Transfers
  /\ Downloads \subseteq Transfers /\ Reads \subseteq Transfers /\ Mkdirs \subseteq Transfers
  /\ Transfers \subseteq Inodes /\ OldFile \in Inodes /\ Inodes \subseteq Blocks
  /\ OldFile \notin Transfers /\ None \notin Inodes /\ None \notin Names
  /\ Uploads \subseteq Names /\ {Remote, Local, LocalStage} \subseteq Names
  /\ {Remote, Local, LocalStage} \cap Uploads = {}
  /\ Remote # Local /\ Remote # LocalStage /\ Local # LocalStage
  /\ Hole \in Blocks /\ Bad \in Blocks
  /\ Writes \subseteq Uploads /\ Appends \subseteq Uploads
  /\ Makers = Uploads \cup Mkdirs
  BY TransfersAssumption DEF Transfers, Inodes, Names, Blocks, Uploads, Makers

LEMMA ReceivedType == ASSUME NEW b, NEW c \in Received(b) PROVE c \in {b, Bad}
  BY DEF Received

LEMMA PayloadType ==
  ASSUME NEW t \in Transfers PROVE Payload(t) \in Seq(Blocks) /\ Len(Payload(t)) = Chunks
<1>1. \A i \in 1 .. Chunks : t \in Blocks BY Kinds
<1> QED BY <1>1, BlocksAssumption DEF Payload

LEMMA WriteAtType ==
  ASSUME NEW s \in Seq(Blocks), NEW k \in Nat, k >= 1, NEW b \in Blocks
  PROVE  /\ WriteAt(s, k, b) \in Seq(Blocks)
         /\ Len(WriteAt(s, k, b)) = (IF k > Len(s) THEN k ELSE Len(s))
         /\ WriteAt(s, k, b)[k] = b
         /\ \A i \in 1 .. Len(s) : i # k => WriteAt(s, k, b)[i] = s[i]
<1> DEFINE n == IF k > Len(s) THEN k ELSE Len(s)
<1>1. n \in Nat OBVIOUS
<1>2. \A i \in 1 .. n : (IF i = k THEN b ELSE IF i <= Len(s) THEN s[i] ELSE Hole) \in Blocks
  BY Kinds
<1>3. WriteAt(s, k, b) = [i \in 1 .. n |-> IF i = k THEN b ELSE IF i <= Len(s) THEN s[i] ELSE Hole]
  BY DEF WriteAt
<1> HIDE DEF n
<1>4. WriteAt(s, k, b) \in Seq(Blocks) /\ Len(WriteAt(s, k, b)) = n
  BY <1>1, <1>2, <1>3
<1>5. k \in 1 .. n /\ Len(s) <= n BY DEF n
<1> QED BY <1>1, <1>3, <1>4, <1>5 DEF n

LEMMA PrefixType ==
  ASSUME NEW s \in Seq(Blocks), NEW n \in Nat, n <= Len(s)
  PROVE  /\ SubSeq(s, 1, n) \in Seq(Blocks) /\ Len(SubSeq(s, 1, n)) = n
         /\ \A k \in 1 .. n : SubSeq(s, 1, n)[k] = s[k]
  OBVIOUS

\* The steps of a call, by its kind.
StagedStep(t)   == \/ SendChunk(t) \/ Confirm(t) \/ Discard(t, "copy") \/ FindOld(t)
                   \/ RemoveOld(t) \/ MoveIntoPlace(t) \/ PromoteFails(t)
TeeStep(t)      == StartTee(t) \/ Tee(t) \/ VerifyTee(t) \/ TeeFails(t)
DownloadStep(t) == \/ StartDownload(t) \/ CreateLocal(t) \/ ReceiveChunk(t) \/ ReceivedAll(t)
                   \/ ConfirmDownload(t) \/ Discard(t, "copy") \/ Discard(t, "confirm")
                   \/ RenameDownload(t)
SudoReadStep(t) == SudoSize(t) \/ SudoHead(t)
ReadStep(t)     == StartRead(t) \/ ReadBlock(t) \/ ReadEnds(t)

DirsQuiet == UNCHANGED <<dirs, level>>
AllQuiet  == UNCHANGED <<dirs, level, size>>

(* Everything that a step may be.                                          *)
LEMMA StepCases ==
  ASSUME [Next]_vars
  PROVE  \/ UNCHANGED vars
         \/ \E t \in Writes \cup SudoWrites : SkipUnchanged(t) /\ AllQuiet
         \/ \E t \in Writes : StartWrite(t) /\ AllQuiet
         \/ \E t \in Appends : StartAppend(t) /\ AllQuiet
         \/ \E t \in Uploads : StagedStep(t) /\ AllQuiet
         \/ \E t \in SudoWrites : TeeStep(t) /\ AllQuiet
         \/ \E t \in Downloads : DownloadStep(t) /\ AllQuiet
         \/ \E t \in SudoReads : SudoReadStep(t) /\ DirsQuiet
         \/ \E t \in Reads \ SudoReads : ReadStep(t) /\ DirsQuiet
         \/ \E t \in Makers : MakeDir(t) /\ UNCHANGED size
         \/ \E t \in SudoWrites : SudoMakeDir(t) /\ UNCHANGED size
<1>1. CASE Transfer /\ AllQuiet
  BY <1>1 DEF Transfer, Upload, SudoWrite, Download, StagingFails, Mismatch, DownloadFails,
              MismatchedDownload, StagedStep, TeeStep, DownloadStep
<1>2. CASE \E t \in Reads : FileRead(t) /\ DirsQuiet
  BY <1>2 DEF FileRead, SudoReadStep, ReadStep
<1> QED BY <1>1, <1>2 DEF Next, AllQuiet, DirsQuiet

-----------------------------------------------------------------------------
(* Types.                                                                  *)

LEMMA TypeInit == Init => TypeInv
<1> SUFFICES ASSUME Init PROVE TypeInv OBVIOUS
<1> USE Kinds, BlocksAssumption
<1>1. names \in [Names -> Inodes \cup {None}] BY DEF Init
<1>2. data \in [Inodes -> Seq(Blocks)]
  <2>1. PICK b \in {None, OldFile} \cup Writes \cup SudoWrites :
          data = [i \in Inodes |-> IF i = OldFile /\ b # None THEN [j \in 1 .. Chunks |-> b] ELSE <<>>]
    BY DEF Init
  <2>2. b # None => b \in Blocks OBVIOUS
  <2>3. b # None => [j \in 1 .. Chunks |-> b] \in Seq(Blocks) BY <2>2
  <2>4. <<>> \in Seq(Blocks) OBVIOUS
  <2> QED BY <2>1, <2>3, <2>4
<1>3. /\ pc \in [Transfers -> Steps] /\ plan \in [Transfers -> Seq(Blocks)]
      /\ pos \in [Transfers -> Nat] /\ \A t \in Transfers : pos[t] <= Len(plan[t])
  BY DEF Init, Steps
<1>4. /\ handle \in [Transfers -> Inodes \cup {None}]
      /\ source \in [Downloads \cup Reads -> Inodes \cup {None}]
      /\ verified \in [Transfers -> BOOLEAN]
  BY DEF Init
<1>5. dirs \subseteq 1 .. Depth
  <2>1. PICK k \in 0 .. Depth : dirs = 1 .. k BY DEF Init
  <2> QED BY <2>1
<1>6. level \in [Makers -> 1 .. Depth] /\ size \in [Reads -> Nat] BY DEF Init
<1>7. Progress BY DEF Init, Progress, Transfers
<1> QED BY <1>1, <1>2, <1>3, <1>4, <1>5, <1>6, <1>7 DEF TypeInv, TypeOK

\* The types of the variables that belong to the file systems.
FileTypes ==
    /\ names \in [Names -> Inodes \cup {None}] /\ data \in [Inodes -> Seq(Blocks)]
    /\ handle \in [Transfers -> Inodes \cup {None}]

\* The types of the variables a transfer has to itself, its step aside.
OtherTypes ==
    /\ source \in [Downloads \cup Reads -> Inodes \cup {None}]
    /\ verified \in [Transfers -> BOOLEAN] /\ dirs \subseteq 1 .. Depth
    /\ level \in [Makers -> 1 .. Depth] /\ size \in [Reads -> Nat]

(* One transfer makes a step: what has to be known of it.                  *)
LEMMA TypeFrame ==
  ASSUME TypeInv, FileTypes', OtherTypes',
         NEW t \in Transfers, NEW x \in Steps, pc' = [pc EXCEPT ![t] = x],
         NEW p \in Seq(Blocks), plan' = [plan EXCEPT ![t] = p],
         NEW k \in Nat, pos' = [pos EXCEPT ![t] = k], k <= Len(p),
         x \in BeforeStart => k = 0 /\ p = <<>>, t \in Reads => k = 0,
         \A u \in Downloads \cup Reads : u # t => source'[u] = source[u],
         (x # "idle" /\ t \in Downloads \cup (Reads \ SudoReads)) => source'[t] # None
  PROVE  TypeInv'
<1>1. pc' \in [Transfers -> Steps] BY DEF TypeInv, TypeOK
<1>2. plan' \in [Transfers -> Seq(Blocks)] BY DEF TypeInv, TypeOK
<1>3. pos' \in [Transfers -> Nat] BY DEF TypeInv, TypeOK
<1>4. \A u \in Transfers : pos'[u] <= Len(plan'[u]) BY DEF TypeInv, TypeOK
<1>5. Downloads \cup Reads \subseteq Transfers BY DEF Transfers
<1>6. Progress' BY <1>5 DEF TypeInv, TypeOK, Progress
<1> QED BY <1>1, <1>2, <1>3, <1>4, <1>6 DEF TypeInv, TypeOK, FileTypes, OtherTypes

(* The same where nothing is transferred in the step.                      *)
LEMMA QuietFrame ==
  ASSUME TypeInv, FileTypes', OtherTypes',
         NEW t \in Transfers, NEW x \in Steps, pc' = [pc EXCEPT ![t] = x],
         plan' = plan, pos' = pos, x \in BeforeStart => pc[t] \in BeforeStart,
         \A u \in Downloads \cup Reads : u # t => source'[u] = source[u],
         (x # "idle" /\ t \in Downloads \cup (Reads \ SudoReads)) => source'[t] # None
  PROVE  TypeInv'
<1>1. plan[t] \in Seq(Blocks) /\ plan' = [plan EXCEPT ![t] = plan[t]] BY DEF TypeInv, TypeOK
<1>2. pos[t] \in Nat /\ pos' = [pos EXCEPT ![t] = pos[t]] BY DEF TypeInv, TypeOK
<1>3. pos[t] <= Len(plan[t]) BY DEF TypeInv, TypeOK
<1>4. x \in BeforeStart => pos[t] = 0 /\ plan[t] = <<>> BY DEF TypeInv, Progress
<1>5. t \in Reads => pos[t] = 0 BY DEF TypeInv, Progress
<1> QED BY <1>1, <1>2, <1>3, <1>4, <1>5, TypeFrame

LEMMA TypesNow ==
  TypeInv => FileTypes /\ OtherTypes
  BY DEF TypeInv, TypeOK, FileTypes, OtherTypes

LEMMA SomeSteps ==
  \A x \in {"idle", "look", "mkdir", "made", "create", "copy", "confirm", "stat", "remove", "rename",
            "done", "unchanged", "failed", "leaked", "stranded"} : x \in Steps
  BY DEF Steps

LEMMA OpenTypes ==
  ASSUME FileTypes, NEW t \in Transfers, NEW n \in Names, OpenTruncated(t, n)
  PROVE  FileTypes'
<1> DEFINE i == IF Exists(n) THEN names[n] ELSE t
<1>1. i \in Inodes BY DEF FileTypes, Exists, Inodes
<1>2. /\ names' = [names EXCEPT ![n] = i] /\ data' = [data EXCEPT ![i] = <<>>]
      /\ handle' = [handle EXCEPT ![t] = i]
  BY DEF OpenTruncated
<1> HIDE DEF i
<1> QED BY <1>1, <1>2 DEF FileTypes

LEMMA WriteTypes ==
  ASSUME data \in [Inodes -> Seq(Blocks)], NEW i, NEW k \in Nat, NEW b \in Blocks,
         data' = [data EXCEPT ![i] = WriteAt(@, k + 1, b)]
  PROVE  data' \in [Inodes -> Seq(Blocks)]
<1>1. CASE i \in Inodes
  <2>1. WriteAt(data[i], k + 1, b) \in Seq(Blocks) BY <1>1, WriteAtType
  <2> QED BY <2>1
<1>2. CASE i \notin Inodes BY <1>2
<1> QED BY <1>1, <1>2

LEMMA RemoteContent ==
  ASSUME FileTypes, Exists(Remote)
  PROVE  names[Remote] \in Inodes /\ Content(Remote) \in Seq(Blocks)
  BY Kinds DEF FileTypes, Exists, Content

LEMMA TypeStep == TypeInv /\ [Next]_vars => TypeInv'
<1> SUFFICES ASSUME TypeInv, [Next]_vars PROVE TypeInv' OBVIOUS
<1> USE TypesNow, SomeSteps DEF Step, AllQuiet, DirsQuiet
<1> DEFINE Goal == TypeInv'
<1>1. CASE UNCHANGED vars
  BY <1>1 DEF TypeInv, TypeOK, Progress, vars, transferVars, fileVars
<1>2. ASSUME NEW t \in Writes \cup SudoWrites, SkipUnchanged(t), AllQuiet PROVE Goal
  <2>1. /\ pc' = [pc EXCEPT ![t] = "unchanged"] /\ verified' = [verified EXCEPT ![t] = TRUE]
        /\ UNCHANGED <<names, data, plan, pos, handle, source>>
    BY <1>2 DEF SkipUnchanged, fileVars
  <2>2. FileTypes' /\ OtherTypes' BY <1>2, <2>1 DEF FileTypes, OtherTypes
  <2>3. t \in Transfers /\ t \notin Downloads \cup Reads BY Kinds
  <2> QED BY <2>1, <2>2, <2>3, QuietFrame DEF BeforeStart
<1>3. ASSUME NEW t \in Writes, StartWrite(t), AllQuiet PROVE Goal
  <2>1. /\ pc[t] \in BeforeStart /\ pc' = [pc EXCEPT ![t] = "copy"]
        /\ plan' = [plan EXCEPT ![t] = Payload(t)] /\ UNCHANGED <<pos, source, verified>>
        /\ OpenTruncated(t, Stage(t))
    BY <1>3 DEF StartWrite, Call, BeforeStart
  <2>2. t \in Transfers /\ t \notin Downloads \cup Reads /\ Stage(t) \in Names BY Kinds DEF Stage
  <2>3. FileTypes' /\ OtherTypes' BY <1>3, <2>1, <2>2, OpenTypes DEF OtherTypes
  <2>4. Payload(t) \in Seq(Blocks) /\ pos' = [pos EXCEPT ![t] = 0] /\ 0 <= Len(Payload(t))
    BY <2>1, <2>2, PayloadType DEF TypeInv, TypeOK, Progress
  <2>5. "copy" \notin BeforeStart BY DEF BeforeStart
  <2> QED BY <2>1, <2>2, <2>3, <2>4, <2>5, TypeFrame
<1>4. ASSUME NEW t \in Appends, StartAppend(t), AllQuiet PROVE Goal
  <2> DEFINE m == Len(Content(Remote))
             n == IF m > AppendLimit THEN AppendLimit ELSE m
             p == SubSeq(Content(Remote), 1, n) \o Payload(t)
  <2>1. /\ pc[t] \in BeforeStart /\ pc' = [pc EXCEPT ![t] = "copy"] /\ Exists(Remote)
        /\ plan' = [plan EXCEPT ![t] = p] /\ UNCHANGED <<pos, source, verified>>
        /\ OpenTruncated(t, Stage(t))
    BY <1>4 DEF StartAppend, Call, BeforeStart
  <2>2. t \in Transfers /\ t \notin Downloads \cup Reads /\ Stage(t) \in Names BY Kinds DEF Stage
  <2>3. FileTypes' /\ OtherTypes' BY <1>4, <2>1, <2>2, OpenTypes DEF OtherTypes
  <2>4. p \in Seq(Blocks) /\ 0 <= Len(p)
    <3>1. Payload(t) \in Seq(Blocks) BY <2>2, PayloadType
    <3>2. Content(Remote) \in Seq(Blocks) BY <2>1, RemoteContent
    <3>3. n \in Nat /\ n <= Len(Content(Remote)) BY <3>2, BlocksAssumption
    <3>4. SubSeq(Content(Remote), 1, n) \in Seq(Blocks) BY <3>2, <3>3, PrefixType
    <3> QED BY <3>1, <3>4
  <2> HIDE DEF p
  <2>5. pos' = [pos EXCEPT ![t] = 0]
    BY <2>1, <2>2 DEF TypeInv, TypeOK, Progress
  <2> QED BY <2>1, <2>2, <2>3, <2>4, <2>5, TypeFrame DEF BeforeStart
<1>5. ASSUME NEW t \in Uploads \cup SudoWrites, SendChunk(t) \/ Tee(t), AllQuiet PROVE Goal
  <2>1. /\ pc' = [pc EXCEPT ![t] = "copy"] /\ pos[t] < Len(plan[t])
        /\ pos' = [pos EXCEPT ![t] = @ + 1] /\ UNCHANGED <<names, plan, handle, source, verified>>
    BY <1>5 DEF SendChunk, Tee
  <2>2. PICK k \in {pos[t], Len(data[handle[t]])}, b \in Received(plan[t][pos[t] + 1]) :
          data' = [data EXCEPT ![handle[t]] = WriteAt(@, k + 1, b)]
    <3>1. CASE SendChunk(t) BY <3>1 DEF SendChunk
    <3>2. CASE Tee(t)
      <4> DEFINE k == IF t \in SudoAppends THEN Len(data[handle[t]]) ELSE pos[t]
      <4>1. \E b \in Received(plan[t][pos[t] + 1]) :
              data' = [data EXCEPT ![handle[t]] = WriteAt(@, k + 1, b)]
        BY <3>2 DEF Tee
      <4>2. k \in {pos[t], Len(data[handle[t]])} OBVIOUS
      <4> HIDE DEF k
      <4> QED BY <4>1, <4>2
    <3> QED BY <1>5, <3>1, <3>2
  <2>3. t \in Transfers /\ t \notin Downloads \cup Reads BY Kinds
  <2>4. plan[t] \in Seq(Blocks) /\ pos[t] \in Nat BY <2>3 DEF TypeInv, TypeOK
  <2>5. b \in Blocks BY <2>1, <2>2, <2>4, ReceivedType, Kinds
  <2>6. data' \in [Inodes -> Seq(Blocks)]
    <3>1. CASE handle[t] \in Inodes
      <4>1. k \in Nat BY <2>2, <2>4, <3>1 DEF FileTypes
      <4> QED BY <2>2, <2>5, <4>1, WriteTypes DEF FileTypes
    <3>2. CASE handle[t] \notin Inodes
      BY <2>2, <3>2 DEF FileTypes
    <3> QED BY <3>1, <3>2
  <2>7. FileTypes' /\ OtherTypes' BY <1>5, <2>1, <2>6 DEF FileTypes, OtherTypes
  <2>8. plan' = [plan EXCEPT ![t] = plan[t]] BY <2>1, <2>3 DEF TypeInv, TypeOK
  <2>9. pos[t] + 1 \in Nat /\ pos[t] + 1 <= Len(plan[t]) /\ pos' = [pos EXCEPT ![t] = pos[t] + 1]
    BY <2>1, <2>4
  <2> QED BY <2>1, <2>3, <2>4, <2>7, <2>8, <2>9, TypeFrame DEF BeforeStart
<1>6. ASSUME NEW t \in Uploads, Confirm(t), AllQuiet PROVE Goal
  <2>1. /\ pc' = [pc EXCEPT ![t] = "stat"] /\ UNCHANGED <<names, data, plan, pos, handle, source>>
        /\ \E b \in BOOLEAN : verified' = [verified EXCEPT ![t] = b]
    BY <1>6 DEF Confirm, fileVars
  <2>2. FileTypes' /\ OtherTypes' BY <1>6, <2>1 DEF FileTypes, OtherTypes
  <2>3. t \in Transfers /\ t \notin Downloads \cup Reads BY Kinds
  <2> QED BY <2>1, <2>2, <2>3, QuietFrame DEF BeforeStart
<1>7. ASSUME NEW t \in Uploads \cup Downloads, NEW from \in {"copy", "confirm"}, Discard(t, from), AllQuiet
      PROVE  Goal
  <2>1. PICK x \in {"failed", "leaked"} :
          /\ pc[t] = from /\ pc' = [pc EXCEPT ![t] = x]
          /\ names' = names \/ names' = [names EXCEPT ![Stage(t)] = None]
          /\ UNCHANGED <<data, plan, pos, handle, source, verified>>
    BY <1>7 DEF Discard, Unlink
  <2>2. FileTypes' /\ OtherTypes' BY <1>7, <2>1 DEF FileTypes, OtherTypes
  <2>3. t \in Transfers /\ t \notin Reads BY Kinds
  <2>4. t \in Downloads => source'[t] # None BY <2>1, <2>3 DEF TypeInv, Progress
  <2> QED BY <2>1, <2>2, <2>3, <2>4, QuietFrame DEF BeforeStart
<1>8. ASSUME NEW t \in Uploads, FindOld(t) \/ RemoveOld(t) \/ MoveIntoPlace(t) \/ PromoteFails(t), AllQuiet
      PROVE  Goal
  <2>1. PICK x \in {"remove", "rename", "done", "stranded"} : pc' = [pc EXCEPT ![t] = x]
    BY <1>8 DEF FindOld, RemoveOld, MoveIntoPlace, PromoteFails
  <2>2. UNCHANGED <<data, plan, pos, handle, source, verified>>
    BY <1>8 DEF FindOld, RemoveOld, MoveIntoPlace, PromoteFails, fileVars
  <2>3. t \in Transfers /\ t \notin Downloads \cup Reads /\ t \in Names BY Kinds
  <2>4. \/ names' = names \/ names' = [names EXCEPT ![Remote] = None]
        \/ names' = [names EXCEPT ![Remote] = names[t], ![t] = None]
    BY <1>8 DEF FindOld, RemoveOld, MoveIntoPlace, PromoteFails, fileVars, Unlink
  <2>5. FileTypes' /\ OtherTypes' BY <1>8, <2>2, <2>3, <2>4 DEF FileTypes, OtherTypes
  <2> QED BY <2>1, <2>2, <2>3, <2>5, QuietFrame DEF BeforeStart
<1>9. ASSUME NEW t \in SudoWrites, StartTee(t), AllQuiet PROVE Goal
  <2>1. /\ pc[t] = "idle" /\ pc' = [pc EXCEPT ![t] = "copy"]
        /\ plan' = [plan EXCEPT ![t] = Payload(t)] /\ UNCHANGED <<pos, source, verified>>
    BY <1>9 DEF StartTee
  <2>2. t \in Transfers /\ t \notin Downloads \cup Reads /\ Remote \in Names BY Kinds
  <2>3. FileTypes'
    <3>1. CASE OpenTruncated(t, Remote) BY <2>2, <3>1, OpenTypes
    <3>2. CASE handle' = [handle EXCEPT ![t] = names[Remote]] /\ UNCHANGED fileVars
      BY <2>2, <3>2 DEF FileTypes, fileVars
    <3> QED BY <1>9, <3>1, <3>2 DEF StartTee
  <2>4. OtherTypes' BY <1>9, <2>1 DEF OtherTypes
  <2>5. Payload(t) \in Seq(Blocks) /\ pos' = [pos EXCEPT ![t] = 0] /\ 0 <= Len(Payload(t))
    BY <2>1, <2>2, PayloadType DEF TypeInv, TypeOK, Progress, BeforeStart
  <2> QED BY <2>1, <2>2, <2>3, <2>4, <2>5, TypeFrame DEF BeforeStart
<1>10. ASSUME NEW t \in SudoWrites, VerifyTee(t) \/ TeeFails(t), AllQuiet PROVE Goal
  <2>1. PICK x \in {"done", "failed"} : pc' = [pc EXCEPT ![t] = x]
    BY <1>10 DEF VerifyTee, TeeFails
  <2>2. UNCHANGED <<names, data, plan, pos, handle, source>>
    BY <1>10 DEF VerifyTee, TeeFails, fileVars
  <2>3. verified' = verified \/ \E b \in BOOLEAN : verified' = [verified EXCEPT ![t] = b]
    BY <1>10 DEF VerifyTee, TeeFails
  <2>4. FileTypes' /\ OtherTypes' BY <1>10, <2>2, <2>3 DEF FileTypes, OtherTypes
  <2>5. t \in Transfers /\ t \notin Downloads \cup Reads BY Kinds
  <2> QED BY <2>1, <2>2, <2>4, <2>5, QuietFrame DEF BeforeStart
<1>11. ASSUME NEW t \in Downloads, StartDownload(t), AllQuiet PROVE Goal
  <2>1. /\ pc' = [pc EXCEPT ![t] = "create"] /\ source' = [source EXCEPT ![t] = names[Remote]]
        /\ UNCHANGED <<names, data, plan, pos, handle, verified>> /\ Exists(Remote)
    BY <1>11 DEF StartDownload, fileVars
  <2>2. t \in Transfers /\ names[Remote] \in Inodes /\ None \notin Inodes BY <2>1, RemoteContent, Kinds
  <2>3. FileTypes' /\ OtherTypes' BY <1>11, <2>1, <2>2 DEF FileTypes, OtherTypes
  <2>4. source'[t] # None BY <2>1, <2>2 DEF OtherTypes
  <2>5. \A u \in Downloads \cup Reads : u # t => source'[u] = source[u] BY <2>1 DEF OtherTypes
  <2> QED BY <2>1, <2>2, <2>3, <2>4, <2>5, QuietFrame DEF BeforeStart
<1>12. ASSUME NEW t \in Downloads, CreateLocal(t), AllQuiet PROVE Goal
  <2>1. /\ pc[t] = "create" /\ pc' = [pc EXCEPT ![t] = "copy"] /\ OpenTruncated(t, Stage(t))
        /\ UNCHANGED <<plan, pos, source, verified>>
    BY <1>12 DEF CreateLocal
  <2>2. t \in Transfers /\ Stage(t) \in Names BY Kinds DEF Stage
  <2>3. FileTypes' /\ OtherTypes' BY <1>12, <2>1, <2>2, OpenTypes DEF OtherTypes
  <2>4. source[t] # None BY <2>1 DEF TypeInv, Progress
  <2> QED BY <2>1, <2>2, <2>3, <2>4, QuietFrame DEF BeforeStart
<1>13. ASSUME NEW t \in Downloads, ReceiveChunk(t), AllQuiet PROVE Goal
  <2>1. /\ pc[t] = "copy" /\ pc' = [pc EXCEPT ![t] = "copy"]
        /\ pos' = [pos EXCEPT ![t] = @ + 1] /\ UNCHANGED <<names, handle, source, verified>>
        /\ pos[t] < Len(data[source[t]])
    BY <1>13 DEF ReceiveChunk
  <2>2. PICK b \in Received(data[source[t]][pos[t] + 1]) :
          /\ plan' = [plan EXCEPT ![t] = Append(@, b)]
          /\ data' = [data EXCEPT ![handle[t]] = WriteAt(@, pos[t] + 1, b)]
    BY <1>13 DEF ReceiveChunk
  <2>3. t \in Transfers /\ t \notin Reads BY Kinds
  <2>4. source[t] \in Inodes /\ source[t] # None
    BY <2>1 DEF TypeInv, Progress, OtherTypes
  <2>5. pos[t] \in Nat /\ plan[t] \in Seq(Blocks) /\ pos[t] <= Len(plan[t])
    BY <2>3 DEF TypeInv, TypeOK
  <2>6. b \in Blocks
    <3>1. data[source[t]] \in Seq(Blocks) BY <2>4 DEF FileTypes
    <3> QED BY <2>1, <2>2, <2>5, <3>1, ReceivedType, Kinds
  <2>7. data' \in [Inodes -> Seq(Blocks)] BY <2>2, <2>5, <2>6, WriteTypes DEF FileTypes
  <2>8. FileTypes' /\ OtherTypes' BY <1>13, <2>1, <2>7 DEF FileTypes, OtherTypes
  <2>9. Append(plan[t], b) \in Seq(Blocks) /\ pos[t] + 1 \in Nat /\ pos[t] + 1 <= Len(Append(plan[t], b))
    BY <2>5, <2>6
  <2>10. plan' = [plan EXCEPT ![t] = Append(plan[t], b)] /\ pos' = [pos EXCEPT ![t] = pos[t] + 1]
    BY <2>1, <2>2
  <2> QED BY <2>1, <2>3, <2>4, <2>8, <2>9, <2>10, TypeFrame DEF BeforeStart
<1>14. ASSUME NEW t \in Downloads, ReceivedAll(t) \/ ConfirmDownload(t) \/ RenameDownload(t), AllQuiet PROVE Goal
  <2>1. pc[t] # "idle" /\ \E x \in {"confirm", "rename", "done", "failed", "leaked"} : pc' = [pc EXCEPT ![t] = x]
    BY <1>14 DEF ReceivedAll, ConfirmDownload, RenameDownload
  <2>2. UNCHANGED <<data, plan, pos, handle, source>>
    BY <1>14 DEF ReceivedAll, ConfirmDownload, RenameDownload, fileVars
  <2>3. verified' = verified \/ \E b \in BOOLEAN : verified' = [verified EXCEPT ![t] = b]
    BY <1>14 DEF ReceivedAll, ConfirmDownload, RenameDownload
  <2>4. names' = names \/ names' = [names EXCEPT ![Local] = names[LocalStage], ![LocalStage] = None]
    BY <1>14 DEF ReceivedAll, ConfirmDownload, RenameDownload, fileVars
  <2>5. t \in Transfers /\ Local \in Names /\ LocalStage \in Names BY Kinds
  <2>6. FileTypes' /\ OtherTypes' BY <1>14, <2>2, <2>3, <2>4, <2>5 DEF FileTypes, OtherTypes
  <2>7. source'[t] # None BY <2>1, <2>2 DEF TypeInv, Progress
  <2> QED BY <2>1, <2>2, <2>5, <2>6, <2>7, QuietFrame DEF BeforeStart
<1>15. ASSUME NEW t \in SudoReads, SudoSize(t), DirsQuiet PROVE Goal
  <2>1. /\ pc' = [pc EXCEPT ![t] = "stat"] /\ UNCHANGED <<names, data, plan, pos, handle, source, verified>>
        /\ \E n \in {0, Len(Content(Remote))} : size' = [size EXCEPT ![t] = n]
        /\ Exists(Remote)
    BY <1>15 DEF SudoSize, fileVars
  <2>2. t \in Transfers /\ t \in Reads /\ t \notin Downloads BY TransfersAssumption, Kinds
  <2>3. FileTypes' /\ OtherTypes' BY <1>15, <2>1, <2>2, RemoteContent DEF FileTypes, OtherTypes
  <2> QED BY <2>1, <2>2, <2>3, QuietFrame DEF BeforeStart
<1>16. ASSUME NEW t \in SudoReads, SudoHead(t), DirsQuiet PROVE Goal
  <2> DEFINE n == IF Len(Content(Remote)) > ReadLimit THEN ReadLimit ELSE Len(Content(Remote))
             p == SubSeq(Content(Remote), 1, n)
  <2>1. UNCHANGED <<names, data, pos, handle, source, verified, size>>
    BY <1>16 DEF SudoHead, fileVars
  <2>2. t \in Transfers /\ t \in Reads /\ t \notin Downloads BY TransfersAssumption, Kinds
  <2>3. FileTypes' /\ OtherTypes' BY <1>16, <2>1 DEF FileTypes, OtherTypes
  <2>4. CASE pc' = [pc EXCEPT ![t] = "failed"] /\ plan' = plan
    BY <2>1, <2>2, <2>3, <2>4, QuietFrame DEF BeforeStart
  <2>5. CASE Exists(Remote) /\ pc[t] = "stat" /\ pc' = [pc EXCEPT ![t] = "done"] /\ plan' = [plan EXCEPT ![t] = p]
    <3>1. Content(Remote) \in Seq(Blocks) BY <2>5, RemoteContent
    <3>2. n \in Nat /\ n <= Len(Content(Remote)) BY <3>1, BlocksAssumption
    <3>3. p \in Seq(Blocks) BY <3>1, <3>2, PrefixType
    <3>4. pos[t] = 0 BY <2>2 DEF TypeInv, Progress
    <3> HIDE DEF p
    <3>5. pos' = [pos EXCEPT ![t] = 0] /\ 0 <= Len(p) BY <2>1, <2>2, <3>3, <3>4 DEF TypeInv, TypeOK
    <3> QED BY <2>1, <2>2, <2>3, <2>5, <3>3, <3>5, TypeFrame DEF BeforeStart
  <2> QED BY <1>16, <2>4, <2>5 DEF SudoHead
<1>17. ASSUME NEW t \in Reads \ SudoReads, StartRead(t), DirsQuiet PROVE Goal
  <2>1. /\ pc' = [pc EXCEPT ![t] = "copy"] /\ source' = [source EXCEPT ![t] = names[Remote]]
        /\ UNCHANGED <<names, data, plan, pos, handle, verified>> /\ Exists(Remote)
        /\ \E n \in {0, Len(Content(Remote))} : size' = [size EXCEPT ![t] = n]
    BY <1>17 DEF StartRead, fileVars
  <2>2. t \in Transfers /\ names[Remote] \in Inodes /\ None \notin Inodes BY <2>1, RemoteContent, Kinds
  <2>3. FileTypes' /\ OtherTypes' BY <1>17, <2>1, <2>2, RemoteContent DEF FileTypes, OtherTypes
  <2>4. source'[t] # None BY <2>1, <2>2 DEF OtherTypes
  <2>5. \A u \in Downloads \cup Reads : u # t => source'[u] = source[u] BY <2>1 DEF OtherTypes
  <2> QED BY <2>1, <2>2, <2>3, <2>4, <2>5, QuietFrame DEF BeforeStart
<1>18. ASSUME NEW t \in Reads \ SudoReads, ReadBlock(t), DirsQuiet PROVE Goal
  <2>1. /\ pc[t] = "copy" /\ pc' = [pc EXCEPT ![t] = "copy"]
        /\ UNCHANGED <<names, data, pos, handle, source, verified, size>>
        /\ Len(plan[t]) < Len(data[source[t]])
    BY <1>18 DEF ReadBlock, More, fileVars
  <2>2. PICK b \in Received(data[source[t]][Len(plan[t]) + 1]) : plan' = [plan EXCEPT ![t] = Append(@, b)]
    BY <1>18 DEF ReadBlock
  <2>3. t \in Transfers BY Kinds
  <2>4. source[t] \in Inodes /\ source[t] # None
    BY <2>1 DEF TypeInv, Progress, OtherTypes
  <2>5. pos[t] \in Nat /\ plan[t] \in Seq(Blocks) /\ pos[t] <= Len(plan[t])
    BY <2>3 DEF TypeInv, TypeOK
  <2>6. b \in Blocks
    <3>1. data[source[t]] \in Seq(Blocks) BY <2>4 DEF FileTypes
    <3> QED BY <2>1, <2>2, <2>5, <3>1, ReceivedType, Kinds
  <2>7. FileTypes' /\ OtherTypes' BY <1>18, <2>1 DEF FileTypes, OtherTypes
  <2>8. Append(plan[t], b) \in Seq(Blocks) /\ pos[t] <= Len(Append(plan[t], b)) BY <2>5, <2>6
  <2>9. /\ plan' = [plan EXCEPT ![t] = Append(plan[t], b)] /\ pos' = [pos EXCEPT ![t] = pos[t]]
        /\ pos[t] = 0
    BY <2>1, <2>2, <2>3 DEF TypeInv, TypeOK, Progress
  <2> QED BY <2>1, <2>3, <2>4, <2>5, <2>7, <2>8, <2>9, TypeFrame DEF BeforeStart
<1>19. ASSUME NEW t \in Reads \ SudoReads, ReadEnds(t), DirsQuiet PROVE Goal
  <2>1. pc[t] = "copy" /\ \E x \in {"done", "failed"} : pc' = [pc EXCEPT ![t] = x]
    BY <1>19 DEF ReadEnds
  <2>2. UNCHANGED <<names, data, plan, pos, handle, source, verified, size>>
    BY <1>19 DEF ReadEnds, fileVars
  <2>3. FileTypes' /\ OtherTypes' BY <1>19, <2>2 DEF FileTypes, OtherTypes
  <2>4. t \in Transfers /\ source'[t] # None BY <2>1, <2>2, Kinds DEF TypeInv, Progress
  <2> QED BY <2>1, <2>2, <2>3, <2>4, QuietFrame DEF BeforeStart
<1>20. ASSUME NEW t \in Makers, StartMakeDir(t) \/ LookForDir(t) \/ CreateDir(t) \/ MakeDirFails(t), UNCHANGED size
       PROVE  Goal
  <2>1. UNCHANGED <<names, data, plan, pos, handle, source, verified>>
    BY <1>20 DEF StartMakeDir, LookForDir, CreateDir, MakeDirFails, fileVars
  <2>2. t \in Transfers /\ t \notin Downloads \cup Reads BY Kinds
  <2>3. pc[t] \in BeforeStart /\ \E x \in BeforeStart \cup {"done", "failed"} : pc' = [pc EXCEPT ![t] = x]
    <3>1. pc' = pc => pc' = [pc EXCEPT ![t] = pc[t]] BY <2>2 DEF TypeInv, TypeOK
    <3> QED BY <1>20, <3>1 DEF StartMakeDir, LookForDir, DirIsThere, CreateDir, MakeDirFails, BeforeStart
  <2>4. level[t] \in 1 .. Depth /\ dirs \subseteq 1 .. Depth BY DEF OtherTypes
  <2>5. level' = level \/ \E n \in 1 .. Depth : level' = [level EXCEPT ![t] = n]
    <3>1. CASE level[t] < Depth /\ level' = [level EXCEPT ![t] = @ + 1]
      <4>1. level[t] + 1 \in 1 .. Depth BY <2>4, <3>1, BlocksAssumption
      <4> QED BY <3>1, <4>1
    <3>2. CASE level[t] > 1 /\ level' = [level EXCEPT ![t] = @ - 1]
      <4>1. level[t] - 1 \in 1 .. Depth BY <2>4, <3>2, BlocksAssumption
      <4> QED BY <3>2, <4>1
    <3>3. CASE level' = level BY <3>3
    <3> QED BY <1>20, <3>1, <3>2, <3>3 DEF StartMakeDir, LookForDir, DirIsThere, CreateDir, MakeDirFails
  <2>6. dirs' \subseteq 1 .. Depth
    BY <1>20, <2>4 DEF StartMakeDir, LookForDir, CreateDir, MakeDirFails
  <2>7. FileTypes' /\ OtherTypes' BY <1>20, <2>1, <2>5, <2>6 DEF FileTypes, OtherTypes
  <2>8. \A x \in BeforeStart : x \in Steps BY DEF BeforeStart
  <2> QED BY <2>1, <2>2, <2>3, <2>7, <2>8, QuietFrame
<1>21. ASSUME NEW t \in SudoWrites, SudoMakeDir(t), UNCHANGED size PROVE Goal
  BY <1>21 DEF SudoMakeDir, TypeInv, TypeOK, Progress, transferVars, fileVars
<1> HIDE DEF Goal, Step, AllQuiet, DirsQuiet
<1>22. ASSUME NEW t \in Uploads, StagedStep(t), AllQuiet PROVE Goal
  BY <1>22, <1>5, <1>6, <1>7, <1>8 DEF StagedStep
<1>23. ASSUME NEW t \in SudoWrites, TeeStep(t), AllQuiet PROVE Goal
  BY <1>23, <1>5, <1>9, <1>10 DEF TeeStep
<1>24. ASSUME NEW t \in Downloads, DownloadStep(t), AllQuiet PROVE Goal
  BY <1>24, <1>7, <1>11, <1>12, <1>13, <1>14 DEF DownloadStep
<1>25. ASSUME NEW t \in SudoReads, SudoReadStep(t), DirsQuiet PROVE Goal
  BY <1>25, <1>15, <1>16 DEF SudoReadStep
<1>26. ASSUME NEW t \in Reads \ SudoReads, ReadStep(t), DirsQuiet PROVE Goal
  BY <1>26, <1>17, <1>18, <1>19 DEF ReadStep
<1>27. ASSUME NEW t \in Makers, MakeDir(t), UNCHANGED size PROVE Goal
  BY <1>27, <1>20 DEF MakeDir
<1> QED BY StepCases, <1>1, <1>2, <1>3, <1>4, <1>21, <1>22, <1>23, <1>24, <1>25, <1>26, <1>27 DEF Goal

-----------------------------------------------------------------------------
(* Which file a name and a handle stand for.                               *)

Staged == {"copy", "stat", "remove", "rename", "stranded", "leaked"}

\* A staged name is the upload's own file while the upload is under way (or
\* has left it behind), and nothing before and after.
StageInv ==
    \A t \in Uploads :
        /\ names[t] = IF pc[t] \in Staged THEN t ELSE None
        /\ pc[t] \in Staged => handle[t] = t

TeeFiles == {s \in SudoWrites : handle[s] # None}

\* The files that have been at the remote path.
Seen == Versions \cup TeeFiles

\* Only they are ever read or written in place; local files are the
\* downloads' own.
PathInv ==
    /\ names[Remote] \in Seen \cup {None}
    /\ \A s \in SudoWrites : handle[s] \in Seen \cup {None}
    /\ \A s \in SudoWrites : pc[s] = "copy" => handle[s] # None
    /\ \A t \in Downloads \cup Reads : source[t] \in Seen \cup {None}
    /\ names[Local] \in Downloads \cup {None} /\ names[LocalStage] \in Downloads \cup {None}
    /\ \A d \in Downloads : handle[d] \in Downloads \cup {None}

NamesInv == TypeInv /\ StageInv /\ PathInv

\* What a step leaves alone, seen from everybody but the transfer t.
OthersKeep(t) ==
    \A u \in Transfers : u # t => pc'[u] = pc[u] /\ handle'[u] = handle[u]

LEMMA SeenGrows ==
  ASSUME TypeInv, NEW t \in Transfers, OthersKeep(t), t \in Uploads => pc[t] # "done",
         handle[t] # None => handle'[t] # None
  PROVE  Versions \subseteq Versions' /\ Seen \subseteq Seen'
  BY Kinds DEF OthersKeep, Versions, TeeFiles, Seen

(* A step of t that leaves the names and the open files alone.             *)
LEMMA NamesFrame ==
  ASSUME NamesInv, TypeInv', NEW t \in Transfers, NEW x \in Steps, pc' = [pc EXCEPT ![t] = x],
         UNCHANGED <<names, handle>>,
         t \in Uploads => pc[t] # "done" /\ (pc[t] \in Staged <=> x \in Staged),
         t \in SudoWrites => (x = "copy" => pc[t] = "copy"),
         \A u \in Downloads \cup Reads : source'[u] = source[u] \/ source'[u] \in Seen
  PROVE  NamesInv'
<1>1. OthersKeep(t) BY DEF OthersKeep, NamesInv, TypeInv, TypeOK
<1>2. Seen \subseteq Seen' BY <1>1, SeenGrows DEF NamesInv
<1>3. StageInv' BY Kinds DEF NamesInv, StageInv, TypeInv, TypeOK
<1>4. \A s \in SudoWrites : pc'[s] = "copy" => handle'[s] # None
  BY Kinds DEF NamesInv, PathInv, TypeInv, TypeOK
<1>5. PathInv' BY <1>2, <1>4 DEF NamesInv, PathInv
<1> QED BY <1>3, <1>5 DEF NamesInv

LEMMA NamesInit == Init => NamesInv
<1> SUFFICES ASSUME Init PROVE NamesInv OBVIOUS
<1>1. TypeInv BY TypeInit
<1>2. names = [n \in Names |-> IF n = Remote /\ names[Remote] # None THEN OldFile ELSE None]
  BY Kinds DEF Init
<1>3. StageInv BY <1>2, Kinds DEF Init, StageInv, Staged
<1>4. PathInv BY <1>2, Kinds DEF Init, PathInv, Seen, Versions
<1> QED BY <1>1, <1>3, <1>4 DEF NamesInv

(* A transfer that opens its staged file.                                  *)
LEMMA NamesStaged ==
  ASSUME NamesInv, TypeInv', NEW t \in Uploads, pc[t] \in BeforeStart,
         pc' = [pc EXCEPT ![t] = "copy"], OpenTruncated(t, t), UNCHANGED source
  PROVE  NamesInv' /\ names' = [names EXCEPT ![t] = t] /\ data' = [data EXCEPT ![t] = <<>>]
<1>1. names[t] = None BY DEF NamesInv, StageInv, BeforeStart, Staged
<1>2. /\ names' = [names EXCEPT ![t] = t] /\ data' = [data EXCEPT ![t] = <<>>]
      /\ handle' = [handle EXCEPT ![t] = t]
  BY <1>1 DEF OpenTruncated, Exists
<1>3. t \in Transfers /\ t # None /\ t \in Names BY Kinds
<1>4. OthersKeep(t) BY <1>2 DEF OthersKeep, NamesInv, TypeInv, TypeOK
<1>5. Seen \subseteq Seen' BY <1>2, <1>3, <1>4, SeenGrows DEF NamesInv, BeforeStart, TypeInv, TypeOK
<1>6. StageInv' BY <1>2, <1>3, Kinds DEF NamesInv, StageInv, Staged, TypeInv, TypeOK
<1>7. \A n \in {Remote, Local, LocalStage} : names'[n] = names[n]
  BY <1>2, Kinds DEF NamesInv, TypeInv, TypeOK
<1>8. \A u \in SudoWrites \cup Downloads : handle'[u] = handle[u] /\ pc'[u] = pc[u]
  BY <1>2, Kinds DEF NamesInv, TypeInv, TypeOK
<1>9. PathInv' BY <1>5, <1>7, <1>8 DEF NamesInv, PathInv
<1> QED BY <1>2, <1>6, <1>9 DEF NamesInv

LEMMA NamesStep == NamesInv /\ [Next]_vars => NamesInv'
<1> SUFFICES ASSUME NamesInv, [Next]_vars PROVE NamesInv' OBVIOUS
<1>0. TypeInv /\ TypeInv' BY TypeStep DEF NamesInv
<1> USE <1>0, SomeSteps DEF Step
<1>t. /\ names \in [Names -> Inodes \cup {None}] /\ handle \in [Transfers -> Inodes \cup {None}]
      /\ pc \in [Transfers -> Steps] /\ source \in [Downloads \cup Reads -> Inodes \cup {None}]
  BY DEF TypeInv, TypeOK
<1> DEFINE Goal == NamesInv'
<1>1. ASSUME UNCHANGED vars PROVE Goal
  BY <1>1 DEF NamesInv, StageInv, PathInv, Seen, Versions, TeeFiles, vars, transferVars, fileVars
<1>2. ASSUME NEW t \in Writes \cup SudoWrites, SkipUnchanged(t) PROVE Goal
  <2>1. /\ pc[t] = "idle" /\ pc' = [pc EXCEPT ![t] = "unchanged"] /\ UNCHANGED <<names, handle, source>>
    BY <1>2 DEF SkipUnchanged, fileVars
  <2> QED BY <2>1, NamesFrame, Kinds DEF Staged
<1>3. ASSUME NEW t \in Uploads, StartWrite(t) \/ StartAppend(t) PROVE Goal
  <2>1. /\ pc[t] \in BeforeStart /\ pc' = [pc EXCEPT ![t] = "copy"] /\ OpenTruncated(t, Stage(t))
        /\ UNCHANGED source
    BY <1>3 DEF StartWrite, StartAppend, Call, BeforeStart
  <2>2. Stage(t) = t BY Kinds DEF Stage
  <2> QED BY <2>1, <2>2, NamesStaged
<1>4. ASSUME NEW t \in Uploads, SendChunk(t) \/ Confirm(t) \/ FindOld(t) \/ PromoteFails(t) PROVE Goal
  <2>1. /\ pc[t] \in Staged /\ pc[t] # "leaked"
        /\ \E x \in {"copy", "stat", "remove", "rename", "stranded"} : pc' = [pc EXCEPT ![t] = x]
        /\ UNCHANGED <<names, handle, source>>
    BY <1>4 DEF SendChunk, Confirm, FindOld, PromoteFails, fileVars, Staged
  <2>2. t \in Transfers BY Kinds
  <2> QED BY <2>1, <2>2, NamesFrame, Kinds DEF Staged
<1>5. ASSUME NEW t \in Uploads, Discard(t, "copy") PROVE Goal
  <2>1. Stage(t) = t /\ t \in Transfers /\ t \in Names BY Kinds DEF Stage
  <2>2. CASE pc[t] = "copy" /\ pc' = [pc EXCEPT ![t] = "leaked"] /\ names' = names
    BY <1>5, <2>1, <2>2, NamesFrame, Kinds DEF Discard, Staged
  <2>3. CASE pc[t] = "copy" /\ pc' = [pc EXCEPT ![t] = "failed"] /\ names' = [names EXCEPT ![t] = None]
    <3>1. UNCHANGED <<handle, source>> BY <1>5 DEF Discard
    <3>2. OthersKeep(t) BY <1>t, <2>3, <3>1 DEF OthersKeep
    <3>3. Seen \subseteq Seen' BY <2>1, <2>3, <3>1, <3>2, SeenGrows
    <3>4. StageInv' BY <1>t, <2>1, <2>3, <3>1, Kinds DEF NamesInv, StageInv, Staged
    <3>5. \A n \in {Remote, Local, LocalStage} : names'[n] = names[n] BY <1>t, <2>3, Kinds
    <3>6. \A s \in SudoWrites : pc'[s] = pc[s] BY <1>t, <2>3, Kinds
    <3>7. PathInv' BY <3>1, <3>3, <3>5, <3>6 DEF NamesInv, PathInv
    <3> QED BY <3>4, <3>7 DEF NamesInv
  <2> QED BY <1>5, <2>1, <2>2, <2>3 DEF Discard, Unlink
<1>6. ASSUME NEW t \in Uploads, RemoveOld(t) PROVE Goal
  <2>1. /\ pc[t] = "remove" /\ pc' = [pc EXCEPT ![t] = "rename"]
        /\ names' = [names EXCEPT ![Remote] = None] /\ UNCHANGED <<handle, source>>
    BY <1>6 DEF RemoveOld, Unlink
  <2>2. t \in Transfers BY Kinds
  <2>3. OthersKeep(t) BY <1>t, <2>1 DEF OthersKeep
  <2>4. Seen \subseteq Seen' BY <2>1, <2>2, <2>3, SeenGrows
  <2>5. StageInv' BY <1>t, <2>1, Kinds DEF NamesInv, StageInv, Staged
  <2>6. names'[Remote] = None /\ names'[Local] = names[Local] /\ names'[LocalStage] = names[LocalStage]
    BY <1>t, <2>1, Kinds
  <2>7. \A s \in SudoWrites : pc'[s] = pc[s] BY <1>t, <2>1, Kinds
  <2>8. PathInv' BY <2>1, <2>4, <2>6, <2>7 DEF NamesInv, PathInv
  <2> QED BY <2>5, <2>8 DEF NamesInv
<1>7. ASSUME NEW t \in Uploads, MoveIntoPlace(t) PROVE Goal
  <2>1. /\ pc[t] = "rename" /\ pc' = [pc EXCEPT ![t] = "done"]
        /\ names' = [names EXCEPT ![Remote] = names[t], ![t] = None] /\ UNCHANGED <<handle, source>>
    BY <1>7 DEF MoveIntoPlace
  <2>2. t \in Transfers /\ t \in Names /\ t # Remote BY Kinds
  <2>3. names[t] = t BY <2>1 DEF NamesInv, StageInv, Staged
  <2>4. OthersKeep(t) BY <1>t, <2>1 DEF OthersKeep
  <2>5. Seen \subseteq Seen' BY <2>1, <2>2, <2>4, SeenGrows
  <2>6. StageInv' BY <1>t, <2>1, <2>2, Kinds DEF NamesInv, StageInv, Staged
  <2>7. t \in Versions' BY <1>t, <2>1, <2>2 DEF Versions
  <2>8. names'[Remote] = t /\ names'[Local] = names[Local] /\ names'[LocalStage] = names[LocalStage]
    BY <1>t, <2>1, <2>2, <2>3, Kinds
  <2>9. \A s \in SudoWrites : pc'[s] = pc[s] BY <1>t, <2>1, Kinds
  <2>10. PathInv' BY <2>1, <2>5, <2>7, <2>8, <2>9 DEF NamesInv, PathInv, Seen
  <2> QED BY <2>6, <2>10 DEF NamesInv
<1>8. ASSUME NEW t \in SudoWrites, StartTee(t) PROVE Goal
  <2>1. pc' = [pc EXCEPT ![t] = "copy"] /\ UNCHANGED source BY <1>8 DEF StartTee
  <2>2. t \in Transfers /\ t \notin Uploads /\ t # None /\ t \notin Downloads BY Kinds
  <2>3. PICK i \in Inodes :
          /\ i = names[Remote] \/ (i = t /\ names[Remote] = None)
          /\ handle' = [handle EXCEPT ![t] = i] /\ names' = [names EXCEPT ![Remote] = i]
    <3>1. Exists(Remote) => names[Remote] \in Inodes BY <1>t, Kinds DEF Exists
    <3>2. names = [names EXCEPT ![Remote] = names[Remote]] BY <1>t
    <3>3. CASE Exists(Remote)
      BY <1>8, <3>1, <3>2, <3>3 DEF StartTee, OpenTruncated, fileVars
    <3>4. CASE ~Exists(Remote)
      BY <1>8, <3>4, <2>2, Kinds DEF StartTee, OpenTruncated, fileVars, Exists
    <3> QED BY <3>3, <3>4
  <2>4. OthersKeep(t) BY <1>t, <2>1, <2>3 DEF OthersKeep
  <2>5. handle'[t] = i /\ i # None BY <1>t, <2>2, <2>3, Kinds
  <2>6. Seen \subseteq Seen' BY <2>2, <2>4, <2>5, SeenGrows
  <2>7. i \in Seen' BY <2>2, <2>3, <2>5, <2>6 DEF NamesInv, PathInv, Seen, TeeFiles
  <2>8. StageInv' BY <1>t, <2>1, <2>2, <2>3, Kinds DEF NamesInv, StageInv
  <2>9. names'[Remote] = i /\ names'[Local] = names[Local] /\ names'[LocalStage] = names[LocalStage]
    BY <1>t, <2>3, Kinds
  <2>10. \A s \in SudoWrites : s # t => pc'[s] = pc[s] /\ handle'[s] = handle[s]
    BY <2>4, Kinds DEF OthersKeep
  <2>11. \A d \in Downloads : handle'[d] = handle[d] BY <2>2, <2>4, Kinds DEF OthersKeep
  <2>12. PathInv' BY <2>1, <2>5, <2>6, <2>7, <2>9, <2>10, <2>11 DEF NamesInv, PathInv
  <2> QED BY <2>8, <2>12 DEF NamesInv
<1>9. ASSUME NEW t \in SudoWrites, Tee(t) \/ VerifyTee(t) \/ TeeFails(t) PROVE Goal
  <2>1. /\ pc[t] = "copy" /\ \E x \in {"copy", "done", "failed"} : pc' = [pc EXCEPT ![t] = x]
        /\ UNCHANGED <<names, handle, source>>
    BY <1>9 DEF Tee, VerifyTee, TeeFails, fileVars
  <2> QED BY <2>1, NamesFrame, Kinds
<1>10. ASSUME NEW t \in Downloads, StartDownload(t) \/ ReceiveChunk(t) \/ ReceivedAll(t) \/ ConfirmDownload(t)
       PROVE Goal
  <2>1. /\ \E x \in {"create", "copy", "confirm", "rename"} : pc' = [pc EXCEPT ![t] = x]
        /\ UNCHANGED <<names, handle>>
        /\ source' = source \/ (source' = [source EXCEPT ![t] = names[Remote]] /\ names[Remote] # None)
    BY <1>10 DEF StartDownload, ReceiveChunk, ReceivedAll, ConfirmDownload, fileVars, Exists
  <2>2. \A u \in Downloads \cup Reads : source'[u] = source[u] \/ source'[u] \in Seen
    BY <1>t, <2>1 DEF NamesInv, PathInv
  <2>3. t \in Transfers /\ t \notin Uploads /\ t \notin SudoWrites BY Kinds
  <2> QED BY <2>1, <2>2, <2>3, NamesFrame
<1>11. ASSUME NEW t \in Downloads, NEW from \in {"copy", "confirm"}, Discard(t, from) PROVE Goal
  <2>1. /\ \E x \in {"failed", "leaked"} : pc' = [pc EXCEPT ![t] = x]
        /\ names' = names \/ names' = [names EXCEPT ![LocalStage] = None]
        /\ UNCHANGED <<handle, source>>
    BY <1>11 DEF Discard, Unlink, Stage
  <2>2. t \in Transfers /\ t \notin Uploads /\ t \notin SudoWrites BY Kinds
  <2>3. OthersKeep(t) BY <1>t, <2>1 DEF OthersKeep
  <2>4. Seen \subseteq Seen' BY <2>1, <2>2, <2>3, SeenGrows
  <2>5. StageInv' BY <1>t, <2>1, <2>2, Kinds DEF NamesInv, StageInv
  <2>6. names'[Remote] = names[Remote] /\ names'[Local] = names[Local]
        /\ names'[LocalStage] \in {None, names[LocalStage]}
    BY <1>t, <2>1, Kinds
  <2>7. \A s \in SudoWrites : pc'[s] = pc[s] BY <2>2, <2>3, Kinds DEF OthersKeep
  <2>8. PathInv' BY <2>1, <2>4, <2>6, <2>7 DEF NamesInv, PathInv
  <2> QED BY <2>5, <2>8 DEF NamesInv
<1>12. ASSUME NEW t \in Downloads, CreateLocal(t) PROVE Goal
  <2>1. pc' = [pc EXCEPT ![t] = "copy"] /\ UNCHANGED source BY <1>12 DEF CreateLocal
  <2>2. t \in Transfers /\ t \notin Uploads /\ t \notin SudoWrites /\ t # None BY Kinds
  <2>3. PICK i \in Downloads : handle' = [handle EXCEPT ![t] = i] /\ names' = [names EXCEPT ![LocalStage] = i]
    BY <1>12 DEF CreateLocal, OpenTruncated, Stage, Exists, NamesInv, PathInv
  <2>4. OthersKeep(t) BY <1>t, <2>1, <2>3 DEF OthersKeep
  <2>5. handle'[t] = i /\ i # None BY <1>t, <2>2, <2>3, Kinds
  <2>6. Seen \subseteq Seen' BY <2>2, <2>4, <2>5, SeenGrows
  <2>7. StageInv' BY <1>t, <2>1, <2>2, <2>3, Kinds DEF NamesInv, StageInv
  <2>8. names'[Remote] = names[Remote] /\ names'[Local] = names[Local] /\ names'[LocalStage] = i
    BY <1>t, <2>3, Kinds
  <2>9. \A s \in SudoWrites : pc'[s] = pc[s] /\ handle'[s] = handle[s] BY <2>2, <2>4, Kinds DEF OthersKeep
  <2>10. \A d \in Downloads : d # t => handle'[d] = handle[d] BY <2>4, Kinds DEF OthersKeep
  <2>11. PathInv' BY <2>1, <2>5, <2>6, <2>8, <2>9, <2>10 DEF NamesInv, PathInv
  <2> QED BY <2>7, <2>11 DEF NamesInv
<1>13. ASSUME NEW t \in Downloads, RenameDownload(t) PROVE Goal
  <2>1. /\ \E x \in {"done", "failed", "leaked"} : pc' = [pc EXCEPT ![t] = x]
        /\ names' = names \/ names' = [names EXCEPT ![Local] = names[LocalStage], ![LocalStage] = None]
        /\ UNCHANGED <<handle, source>>
    BY <1>13 DEF RenameDownload
  <2>2. t \in Transfers /\ t \notin Uploads /\ t \notin SudoWrites BY Kinds
  <2>3. OthersKeep(t) BY <1>t, <2>1 DEF OthersKeep
  <2>4. Seen \subseteq Seen' BY <2>1, <2>2, <2>3, SeenGrows
  <2>5. StageInv' BY <1>t, <2>1, <2>2, Kinds DEF NamesInv, StageInv
  <2>6. /\ names'[Remote] = names[Remote] /\ names'[Local] \in {names[Local], names[LocalStage]}
        /\ names'[LocalStage] \in {None, names[LocalStage]}
    BY <1>t, <2>1, Kinds
  <2>7. \A s \in SudoWrites : pc'[s] = pc[s] BY <2>2, <2>3, Kinds DEF OthersKeep
  <2>8. PathInv' BY <2>1, <2>4, <2>6, <2>7 DEF NamesInv, PathInv
  <2> QED BY <2>5, <2>8 DEF NamesInv
<1>14. ASSUME NEW t \in Reads, SudoReadStep(t) \/ ReadStep(t) PROVE Goal
  <2>1. /\ \E x \in {"stat", "copy", "done", "failed"} : pc' = [pc EXCEPT ![t] = x]
        /\ UNCHANGED <<names, handle>>
        /\ source' = source \/ (source' = [source EXCEPT ![t] = names[Remote]] /\ names[Remote] # None)
    BY <1>14 DEF SudoReadStep, SudoSize, SudoHead, ReadStep, StartRead, ReadBlock, ReadEnds, fileVars, Exists
  <2>2. \A u \in Downloads \cup Reads : source'[u] = source[u] \/ source'[u] \in Seen
    BY <1>t, <2>1 DEF NamesInv, PathInv
  <2>3. t \in Transfers /\ t \notin Uploads /\ t \notin SudoWrites BY Kinds
  <2> QED BY <2>1, <2>2, <2>3, NamesFrame
<1>15. ASSUME NEW t \in Makers, MakeDir(t) PROVE Goal
  <2>1. UNCHANGED <<names, handle, source>>
    BY <1>15 DEF MakeDir, StartMakeDir, LookForDir, CreateDir, MakeDirFails, fileVars
  <2>2. t \in Transfers /\ t \notin SudoWrites /\ (t \in Uploads => t \notin Mkdirs) BY Kinds
  <2>3. /\ pc[t] \in BeforeStart
        /\ \E x \in BeforeStart \cup {"done", "failed"} :
             pc' = [pc EXCEPT ![t] = x] /\ (x = "done" => t \in Mkdirs)
    <3>1. pc' = pc => pc' = [pc EXCEPT ![t] = pc[t]] BY <1>t, <2>2
    <3> QED BY <1>15, <3>1 DEF MakeDir, StartMakeDir, LookForDir, DirIsThere, CreateDir, MakeDirFails, BeforeStart
  <2>4. \A x \in BeforeStart : x \in Steps /\ x \notin Staged /\ x # "done" BY DEF BeforeStart, Staged
  <2>5. "done" \notin Staged /\ "failed" \notin Staged BY DEF Staged
  <2> QED BY <2>1, <2>2, <2>3, <2>4, <2>5, NamesFrame
<1>16. ASSUME NEW t \in SudoWrites, SudoMakeDir(t) PROVE Goal
  BY <1>16 DEF SudoMakeDir, NamesInv, StageInv, PathInv, Seen, Versions, TeeFiles, transferVars, fileVars
<1> HIDE DEF Goal, Step
<1>17. ASSUME NEW t \in Uploads, StagedStep(t) PROVE Goal
  BY <1>17, <1>4, <1>5, <1>6, <1>7 DEF StagedStep
<1>18. ASSUME NEW t \in SudoWrites, TeeStep(t) PROVE Goal
  BY <1>18, <1>8, <1>9 DEF TeeStep
<1>19. ASSUME NEW t \in Downloads, DownloadStep(t) PROVE Goal
  BY <1>19, <1>10, <1>11, <1>12, <1>13 DEF DownloadStep
<1>20. Writes \subseteq Uploads /\ Appends \subseteq Uploads /\ SudoReads \subseteq Reads
  BY TransfersAssumption, Kinds
<1> QED BY StepCases, <1>1, <1>2, <1>3, <1>14, <1>15, <1>16, <1>17, <1>18, <1>19, <1>20 DEF Goal

-----------------------------------------------------------------------------
(* Which contents a step may change.                                       *)

\* The transfer t makes a step, everybody else is where it was.
Alone(t) ==
    \A u \in Transfers : u # t =>
        /\ pc'[u] = pc[u] /\ plan'[u] = plan[u] /\ pos'[u] = pos[u]
        /\ handle'[u] = handle[u] /\ verified'[u] = verified[u]

OnlyIn(S) == \A i \in Inodes : i \notin S => data'[i] = data[i]

UploadStep(t) == \/ SkipUnchanged(t) \/ StartWrite(t) \/ StartAppend(t)
                 \/ StagedStep(t) \/ MakeDir(t)

\* An upload writes its own file, a privileged write one that was at the
\* remote path, a download one of the downloads' files.
ActorStep ==
    \/ UNCHANGED transferVars /\ UNCHANGED size
    \/ \E t \in Uploads : UploadStep(t) /\ Alone(t) /\ OnlyIn({t}) /\ UNCHANGED <<source, size>>
    \/ \E t \in SudoWrites :
         /\ SkipUnchanged(t) \/ TeeStep(t)
         /\ Alone(t) /\ UNCHANGED <<source, size>>
         /\ data' = data \/ (handle'[t] # None /\ OnlyIn({handle'[t]}))
    \/ \E t \in Downloads : DownloadStep(t) /\ Alone(t) /\ OnlyIn(Downloads) /\ UNCHANGED size
    \/ \E t \in Reads :
         /\ (t \in SudoReads /\ SudoReadStep(t)) \/ (t \notin SudoReads /\ ReadStep(t))
         /\ Alone(t) /\ data' = data
    \/ \E t \in Mkdirs : MakeDir(t) /\ Alone(t) /\ data' = data /\ UNCHANGED <<source, size>>

(* Every step has one actor, who changes nothing that belongs to another.  *)
LEMMA WhoWrites ==
  ASSUME NamesInv, [Next]_vars
  PROVE  ActorStep
<1> DEFINE Goal == ActorStep
<1> USE DEF ActorStep
<1>0. TypeInv BY DEF NamesInv
<1>t. /\ names \in [Names -> Inodes \cup {None}] /\ handle \in [Transfers -> Inodes \cup {None}]
      /\ pc \in [Transfers -> Steps] /\ plan \in [Transfers -> Seq(Blocks)]
      /\ pos \in [Transfers -> Nat] /\ verified \in [Transfers -> BOOLEAN]
      /\ data \in [Inodes -> Seq(Blocks)]
  BY <1>0 DEF TypeInv, TypeOK
<1>1. ASSUME UNCHANGED vars PROVE Goal
  BY <1>1 DEF vars, transferVars
<1>2. ASSUME NEW t \in Uploads \cup SudoWrites, SkipUnchanged(t), AllQuiet PROVE Goal
  <2>1. Alone(t) /\ data' = data /\ UNCHANGED <<source, size>>
    BY <1>t, <1>2 DEF SkipUnchanged, Alone, fileVars, AllQuiet, Step
  <2> QED BY <1>2, <2>1 DEF UploadStep, OnlyIn
<1>3. ASSUME NEW t \in Uploads, StartWrite(t) \/ StartAppend(t), AllQuiet PROVE Goal
  <2>1. /\ pc[t] \in BeforeStart /\ pc' = [pc EXCEPT ![t] = "copy"] /\ OpenTruncated(t, Stage(t))
        /\ UNCHANGED <<pos, verified, source>> /\ \E p : plan' = [plan EXCEPT ![t] = p]
    BY <1>3 DEF StartWrite, StartAppend, Call, BeforeStart, Step
  <2>2. Stage(t) = t BY Kinds DEF Stage
  <2>3. names[t] = None BY <2>1 DEF NamesInv, StageInv, BeforeStart, Staged
  <2>4. data' = [data EXCEPT ![t] = <<>>] /\ handle' = [handle EXCEPT ![t] = t]
    BY <2>1, <2>2, <2>3 DEF OpenTruncated, Exists
  <2>5. Alone(t) BY <1>t, <2>1, <2>4 DEF Alone
  <2>6. OnlyIn({t}) BY <1>t, <2>4 DEF OnlyIn
  <2> QED BY <1>3, <2>1, <2>5, <2>6 DEF UploadStep, AllQuiet
<1>4. ASSUME NEW t \in Uploads, StagedStep(t), AllQuiet PROVE Goal
  <2>1. pc[t] \in Staged
    BY <1>4 DEF StagedStep, SendChunk, Confirm, Discard, FindOld, RemoveOld, MoveIntoPlace, PromoteFails,
                Step, Staged
  <2>2. handle[t] = t BY <2>1 DEF NamesInv, StageInv
  <2>3. OnlyIn({t})
    <3>1. CASE SendChunk(t) BY <1>t, <2>2, <3>1 DEF SendChunk, OnlyIn
    <3>2. CASE ~SendChunk(t)
      BY <1>4, <3>2 DEF StagedStep, Confirm, Discard, FindOld, RemoveOld, MoveIntoPlace, PromoteFails,
                        fileVars, OnlyIn
    <3> QED BY <3>1, <3>2
  <2>4. UNCHANGED <<source, plan, handle>>
    BY <1>4 DEF StagedStep, SendChunk, Confirm, Discard, FindOld, RemoveOld, MoveIntoPlace, PromoteFails
  <2>5. /\ \E x : pc' = [pc EXCEPT ![t] = x] 
        /\ pos' = pos \/ \E k : pos' = [pos EXCEPT ![t] = k]
        /\ verified' = verified \/ \E b : verified' = [verified EXCEPT ![t] = b]
    BY <1>4 DEF StagedStep, SendChunk, Confirm, Discard, FindOld, RemoveOld, MoveIntoPlace, PromoteFails, Step
  <2>6. Alone(t) BY <1>t, <2>4, <2>5 DEF Alone
  <2> QED BY <1>4, <2>3, <2>4, <2>6 DEF UploadStep, AllQuiet
<1>5. ASSUME NEW t \in SudoWrites, TeeStep(t), AllQuiet PROVE Goal
  <2>1. t \in Transfers /\ None \notin Inodes /\ t \in Inodes BY Kinds
  <2>2. CASE StartTee(t)
    <3>1. /\ pc' = [pc EXCEPT ![t] = "copy"] /\ plan' = [plan EXCEPT ![t] = Payload(t)]
          /\ UNCHANGED <<pos, verified, source>>
      BY <2>2 DEF StartTee, Step
    <3>2. CASE handle' = [handle EXCEPT ![t] = names[Remote]] /\ UNCHANGED fileVars
      <4>1. Alone(t) BY <1>t, <3>1, <3>2 DEF Alone
      <4> QED BY <1>5, <3>1, <3>2, <4>1 DEF fileVars, AllQuiet
    <3>3. CASE OpenTruncated(t, Remote)
      <4> DEFINE i == IF Exists(Remote) THEN names[Remote] ELSE t
      <4>1. i \in Inodes /\ i # None BY <1>t, <2>1, Kinds DEF Exists
      <4>2. data' = [data EXCEPT ![i] = <<>>] /\ handle' = [handle EXCEPT ![t] = i]
        BY <3>3 DEF OpenTruncated
      <4> HIDE DEF i
      <4>3. Alone(t) BY <1>t, <3>1, <4>2 DEF Alone
      <4>4. handle'[t] = i /\ OnlyIn({i}) BY <1>t, <2>1, <4>2 DEF OnlyIn
      <4> QED BY <1>5, <3>1, <4>1, <4>3, <4>4 DEF AllQuiet
    <3> QED BY <2>2, <3>2, <3>3 DEF StartTee
  <2>3. CASE Tee(t)
    <3>1. /\ pc[t] = "copy" /\ pc' = [pc EXCEPT ![t] = "copy"] /\ pos' = [pos EXCEPT ![t] = @ + 1]
          /\ UNCHANGED <<plan, handle, source, verified>>
          /\ \E x : data' = [data EXCEPT ![handle[t]] = x]
      BY <2>3 DEF Tee, Step
    <3>2. handle[t] # None BY <3>1 DEF NamesInv, PathInv
    <3>3. Alone(t) BY <1>t, <3>1 DEF Alone
    <3>4. OnlyIn({handle[t]}) BY <1>t, <3>1 DEF OnlyIn
    <3> QED BY <1>5, <3>1, <3>2, <3>3, <3>4 DEF AllQuiet
  <2>4. CASE VerifyTee(t) \/ TeeFails(t)
    <3>1. /\ \E x : pc' = [pc EXCEPT ![t] = x] 
          /\ verified' = verified \/ \E b : verified' = [verified EXCEPT ![t] = b]
          /\ UNCHANGED <<data, plan, pos, handle, source>>
      BY <2>4 DEF VerifyTee, TeeFails, Step, fileVars
    <3>2. Alone(t) BY <1>t, <3>1 DEF Alone
    <3> QED BY <1>5, <3>1, <3>2 DEF AllQuiet
  <2> QED BY <1>5, <2>2, <2>3, <2>4 DEF TeeStep
<1>6. ASSUME NEW t \in Downloads, DownloadStep(t), AllQuiet PROVE Goal
  <2>1. t \in Transfers BY Kinds
  <2>2. CASE CreateLocal(t)
    <3>1. PICK i \in Downloads : handle' = [handle EXCEPT ![t] = i] /\ data' = [data EXCEPT ![i] = <<>>]
      BY <2>2 DEF CreateLocal, OpenTruncated, Stage, Exists, NamesInv, PathInv
    <3>2. pc' = [pc EXCEPT ![t] = "copy"] /\ UNCHANGED <<plan, pos, verified>>
      BY <2>2 DEF CreateLocal, Step
    <3>3. Alone(t) BY <1>t, <3>1, <3>2 DEF Alone
    <3>4. OnlyIn(Downloads) BY <1>t, <3>1 DEF OnlyIn
    <3> QED BY <1>6, <3>3, <3>4 DEF AllQuiet
  <2>3. CASE ReceiveChunk(t)
    <3>1. /\ pc' = [pc EXCEPT ![t] = "copy"] /\ pos' = [pos EXCEPT ![t] = @ + 1]
          /\ UNCHANGED <<handle, verified>>
          /\ \E x : data' = [data EXCEPT ![handle[t]] = x]
          /\ \E p : plan' = [plan EXCEPT ![t] = p]
      BY <2>3 DEF ReceiveChunk, Step
    <3>2. handle[t] \in Downloads \cup {None} BY DEF NamesInv, PathInv
    <3>3. Alone(t) BY <1>t, <3>1 DEF Alone
    <3>4. OnlyIn(Downloads) BY <1>t, <3>1, <3>2, Kinds DEF OnlyIn
    <3> QED BY <1>6, <3>3, <3>4 DEF AllQuiet
  <2>4. CASE ~CreateLocal(t) /\ ~ReceiveChunk(t)
    <3>1. UNCHANGED <<data, plan, pos, handle>>
      BY <1>6, <2>4 DEF DownloadStep, StartDownload, ReceivedAll, ConfirmDownload, Discard, RenameDownload, fileVars
    <3>2. /\ \E x : pc' = [pc EXCEPT ![t] = x] 
          /\ verified' = verified \/ \E b : verified' = [verified EXCEPT ![t] = b]
      BY <1>6, <2>4 DEF DownloadStep, StartDownload, ReceivedAll, ConfirmDownload, Discard, RenameDownload, Step
    <3>3. Alone(t) BY <1>t, <3>1, <3>2 DEF Alone
    <3> QED BY <1>6, <3>1, <3>3 DEF OnlyIn, AllQuiet
  <2> QED BY <2>2, <2>3, <2>4
<1>7. ASSUME NEW t \in Reads, (t \in SudoReads /\ SudoReadStep(t)) \/ (t \notin SudoReads /\ ReadStep(t)) PROVE Goal
  <2>1. /\ \E x : pc' = [pc EXCEPT ![t] = x] 
        /\ plan' = plan \/ \E p : plan' = [plan EXCEPT ![t] = p]
        /\ UNCHANGED <<data, pos, handle, verified>>
    BY <1>7 DEF SudoReadStep, SudoSize, SudoHead, ReadStep, StartRead, ReadBlock, ReadEnds, fileVars, Step
  <2>2. Alone(t) BY <1>t, <2>1 DEF Alone
  <2> QED BY <1>7, <2>1, <2>2
<1>8. ASSUME NEW t \in Makers, MakeDir(t), UNCHANGED size PROVE Goal
  <2>1. UNCHANGED <<data, plan, pos, handle, verified, source>>
    BY <1>8 DEF MakeDir, StartMakeDir, LookForDir, CreateDir, MakeDirFails, fileVars
  <2>2. pc' = pc \/ \E x : pc' = [pc EXCEPT ![t] = x] 
    BY <1>8 DEF MakeDir, StartMakeDir, LookForDir, DirIsThere, CreateDir, MakeDirFails, Step
  <2>3. Alone(t) BY <1>t, <2>1, <2>2 DEF Alone
  <2>4. t \in Uploads \/ t \in Mkdirs BY Kinds
  <2> QED BY <1>8, <2>1, <2>3, <2>4 DEF UploadStep, OnlyIn
<1>9. ASSUME NEW t \in SudoWrites, SudoMakeDir(t), UNCHANGED size PROVE Goal
  BY <1>9 DEF SudoMakeDir
<1> HIDE DEF Goal, ActorStep
<1>10. Writes \subseteq Uploads /\ Appends \subseteq Uploads /\ SudoReads \subseteq Reads
  BY TransfersAssumption, Kinds
<1>11. Goal BY StepCases, <1>1, <1>2, <1>3, <1>4, <1>5, <1>6, <1>7, <1>8, <1>9, <1>10
<1> QED BY <1>11 DEF Goal

(* Privileged writes aside, what has been at the remote path stays as it   *)
(* is: nobody writes to it any more.                                       *)
LEMMA VersionsStay ==
  ASSUME NamesInv, NamesInv', [Next]_vars
  PROVE  /\ NoTee' => NoTee
         /\ Versions \subseteq Versions'
         /\ NoTee' => \A i \in Versions : data'[i] = data[i]
<1> DEFINE Goal == /\ NoTee' => NoTee
                   /\ Versions \subseteq Versions'
                   /\ NoTee' => \A i \in Versions : data'[i] = data[i]
<1>1. \A i \in Versions : i \in Inodes /\ i \notin Downloads /\ i \notin SudoWrites
  BY Kinds DEF Versions
<1>2. CASE UNCHANGED transferVars
  BY <1>2 DEF transferVars, fileVars, NoTee, Versions
<1>3. ASSUME NEW t \in Uploads, UploadStep(t), Alone(t), OnlyIn({t}) PROVE Goal
  <2>1. pc[t] # "done"
    BY <1>3 DEF UploadStep, SkipUnchanged, StartWrite, StartAppend, Call, Step, StagedStep, SendChunk, Confirm,
                Discard, FindOld, RemoveOld, MoveIntoPlace, PromoteFails, MakeDir, StartMakeDir, LookForDir,
                CreateDir, MakeDirFails
  <2>2. t \notin Versions /\ t \notin SudoWrites BY <2>1, Kinds DEF Versions
  <2>3. Versions \subseteq Versions' BY <1>3, <2>1, Kinds DEF Versions, Alone
  <2>4. NoTee' => NoTee BY <1>3, <2>2, Kinds DEF Alone, NoTee
  <2>5. \A i \in Versions : data'[i] = data[i] BY <1>1, <1>3, <2>2 DEF OnlyIn
  <2> QED BY <2>3, <2>4, <2>5
<1>4. ASSUME NEW t \in SudoWrites, Alone(t), data' = data \/ handle'[t] # None,
             handle[t] # None => handle'[t] # None PROVE Goal
  <2>1. Versions \subseteq Versions' BY <1>4, Kinds DEF Versions, Alone
  <2>2. NoTee' => NoTee BY <1>4, Kinds DEF Alone, NoTee
  <2>3. NoTee' => data' = data BY <1>4 DEF NoTee
  <2> QED BY <2>1, <2>2, <2>3
<1>5. ASSUME NEW t \in Downloads \cup Reads \cup Mkdirs, Alone(t), OnlyIn(Downloads) PROVE Goal
  <2>1. Versions \subseteq Versions' BY <1>5, Kinds DEF Versions, Alone
  <2>2. NoTee' => NoTee BY <1>5, Kinds DEF Alone, NoTee
  <2>3. \A i \in Versions : data'[i] = data[i] BY <1>1, <1>5 DEF OnlyIn
  <2> QED BY <2>1, <2>2, <2>3
<1>6. ASSUME NEW t \in SudoWrites, SkipUnchanged(t) \/ TeeStep(t) PROVE handle[t] # None => handle'[t] # None
  <2>1. CASE StartTee(t)
    <3>1. pc'[t] = "copy"
      BY <2>1, Kinds DEF StartTee, Step, NamesInv, TypeInv, TypeOK
    <3> QED BY <3>1 DEF NamesInv, PathInv
  <2>2. CASE ~StartTee(t)
    BY <1>6, <2>2 DEF SkipUnchanged, TeeStep, Tee, VerifyTee, TeeFails
  <2> QED BY <2>1, <2>2
<1>7. data' = data => OnlyIn(Downloads) BY DEF OnlyIn
<1> HIDE DEF Goal
<1>8. ActorStep BY WhoWrites
<1>9. Goal BY <1>2, <1>3, <1>4, <1>5, <1>6, <1>7, <1>8 DEF ActorStep, Goal
<1> QED BY <1>9 DEF Goal

-----------------------------------------------------------------------------
(* The contents of the uploads' files.                                     *)

Promoting == {"stat", "remove", "rename", "stranded"}

\* What has been sent so far has arrived, up to mangled blocks.
Arrived(t) ==
    /\ Len(data[t]) = pos[t]
    /\ \A k \in 1 .. pos[t] : data[t][k] \in {plan[t][k], Bad}

\* A file that is about to be promoted, or was, has all of it, and without
\* a mangled block if the digest was confirmed.
Complete(t) ==
    /\ Arrived(t) /\ pos[t] = Len(plan[t])
    /\ verified[t] => data[t] = plan[t]

ContentInv ==
    \A t \in Uploads :
        /\ pc[t] = "copy" => Arrived(t)
        /\ pc[t] \in Promoting => Complete(t)
        /\ pc[t] = "done" /\ NoTee => Complete(t)

LEMMA ContentStep ==
  ASSUME NamesInv, NamesInv', ContentInv, [Next]_vars
  PROVE  ContentInv'
<1> DEFINE Good(u) == /\ pc[u] = "copy" => Arrived(u)
                      /\ pc[u] \in Promoting => Complete(u)
                      /\ pc[u] = "done" /\ NoTee => Complete(u)
<1> SUFFICES ASSUME NEW u \in Uploads PROVE Good(u)'
  BY DEF ContentInv
<1>0. Good(u) BY DEF ContentInv
<1>u. u \in Transfers /\ u \in Inodes /\ u \notin Downloads /\ u \notin SudoWrites BY Kinds
<1>t. /\ names \in [Names -> Inodes \cup {None}] /\ handle \in [Transfers -> Inodes \cup {None}]
      /\ pc \in [Transfers -> Steps] /\ plan \in [Transfers -> Seq(Blocks)]
      /\ pos \in [Transfers -> Nat] /\ verified \in [Transfers -> BOOLEAN]
      /\ data \in [Inodes -> Seq(Blocks)]
  BY DEF NamesInv, TypeInv, TypeOK
<1>v. NoTee' => NoTee BY VersionsStay
<1>1. ASSUME pc'[u] = pc[u], plan'[u] = plan[u], pos'[u] = pos[u], verified'[u] = verified[u],
             data'[u] = data[u] \/ (pc[u] \notin Staged /\ ~NoTee')
      PROVE  Good(u)'
  BY <1>0, <1>1, <1>v DEF Arrived, Complete, Promoting, Staged
<1>2. CASE UNCHANGED transferVars
  BY <1>1, <1>2 DEF transferVars, fileVars
<1>3. ASSUME NEW t \in Transfers, t # u, Alone(t), OnlyIn({t}) \/ OnlyIn(Downloads) \/ data' = data
      PROVE  Good(u)'
  BY <1>1, <1>3, <1>u DEF Alone, OnlyIn
<1>4. ASSUME NEW t \in SudoWrites, Alone(t), data' = data \/ (handle'[t] # None /\ OnlyIn({handle'[t]}))
      PROVE  Good(u)'
  <2>1. t # u /\ t \in Transfers BY <1>u, Kinds
  <2>2. handle'[t] = u => pc'[u] = "done"
    BY <1>u, Kinds DEF NamesInv, PathInv, Seen, Versions, TeeFiles
  <2>3. handle'[t] # None => ~NoTee' BY DEF NoTee
  <2>4. data'[u] = data[u] \/ (pc[u] \notin Staged /\ ~NoTee')
    BY <1>4, <1>u, <2>1, <2>2, <2>3 DEF OnlyIn, Alone, Staged
  <2> QED BY <1>1, <1>4, <1>u, <2>1, <2>4 DEF Alone
<1>5. ASSUME UploadStep(u) PROVE Good(u)'
  <2>1. CASE SkipUnchanged(u) \/ MakeDir(u)
    <3>1. pc'[u] \in BeforeStart \cup {"unchanged", "failed"}
      <4>1. u \notin Mkdirs BY Kinds
      <4> QED BY <1>t, <1>u, <2>1, <4>1 DEF SkipUnchanged, MakeDir, StartMakeDir, LookForDir, DirIsThere, CreateDir, MakeDirFails,
             Step, BeforeStart
    <3> QED BY <3>1 DEF BeforeStart, Promoting
  <2>2. CASE StartWrite(u) \/ StartAppend(u)
    <3>1. /\ pc[u] \in BeforeStart /\ pc' = [pc EXCEPT ![u] = "copy"] /\ OpenTruncated(u, Stage(u)) /\ pos' = pos
      BY <2>2 DEF StartWrite, StartAppend, Call, BeforeStart, Step
    <3>2. names[u] = None /\ Stage(u) = u
      BY <1>u, <3>1 DEF NamesInv, StageInv, BeforeStart, Staged, Stage
    <3>3. data' = [data EXCEPT ![u] = <<>>] BY <3>1, <3>2 DEF OpenTruncated, Exists
    <3>4. pc'[u] = "copy" /\ data'[u] = <<>> BY <1>t, <1>u, <3>1, <3>3
    <3>5. pos'[u] = 0 BY <1>u, <3>1 DEF NamesInv, TypeInv, Progress
    <3> QED BY <3>4, <3>5 DEF Arrived, Promoting
  <2>3. CASE SendChunk(u)
    <3>1. /\ pc[u] = "copy" /\ pc' = [pc EXCEPT ![u] = "copy"] /\ pos' = [pos EXCEPT ![u] = @ + 1]
          /\ plan' = plan /\ pos[u] < Len(plan[u])
      BY <2>3 DEF SendChunk, Step
    <3>2. handle[u] = u BY <3>1 DEF NamesInv, StageInv, Staged
    <3>3. PICK b \in Received(plan[u][pos[u] + 1]) : data' = [data EXCEPT ![u] = WriteAt(@, pos[u] + 1, b)]
      BY <2>3, <3>2 DEF SendChunk
    <3>4. b \in {plan[u][pos[u] + 1], Bad} /\ b \in Blocks
      BY <1>t, <1>u, <3>1, <3>3, ReceivedType, Kinds
    <3> DEFINE s == data[u]
               k == pos[u] + 1
    <3>5. s \in Seq(Blocks) /\ k \in Nat /\ k >= 1 /\ Len(s) = k - 1
      BY <1>0, <1>t, <1>u, <3>1 DEF Arrived
    <3>6. data'[u] = WriteAt(s, k, b) /\ pos'[u] = k /\ pc'[u] = "copy" /\ plan'[u] = plan[u]
      BY <1>t, <1>u, <3>1, <3>3
    <3>7. \A i \in 1 .. (k - 1) : s[i] \in {plan[u][i], Bad}
      BY <1>0, <1>t, <1>u, <3>1 DEF Arrived
    <3> HIDE DEF s, k
    <3>8. /\ Len(WriteAt(s, k, b)) = k /\ WriteAt(s, k, b)[k] = b
          /\ \A i \in 1 .. Len(s) : i # k => WriteAt(s, k, b)[i] = s[i]
      <4>1. /\ Len(WriteAt(s, k, b)) = (IF k > Len(s) THEN k ELSE Len(s)) /\ WriteAt(s, k, b)[k] = b
            /\ \A i \in 1 .. Len(s) : i # k => WriteAt(s, k, b)[i] = s[i]
        BY <3>4, <3>5, WriteAtType
      <4>2. k > Len(s) BY <3>5
      <4> QED BY <4>1, <4>2
    <3>9. \A i \in 1 .. k : data'[u][i] \in {plan[u][i], Bad}
      <4> TAKE i \in 1 .. k
      <4>1. CASE i = k BY <3>4, <3>6, <3>8, <4>1 DEF k
      <4>2. CASE i # k
        <5>1. i \in 1 .. (k - 1) /\ i \in 1 .. Len(s) BY <3>5, <4>2
        <5>2. data'[u][i] = s[i] BY <3>6, <3>8, <4>2, <5>1
        <5> QED BY <3>7, <5>1, <5>2
      <4> QED BY <4>1, <4>2
    <3>10. Arrived(u)' BY <3>6, <3>8, <3>9 DEF Arrived
    <3> QED BY <3>6, <3>10 DEF Promoting
  <2>4. CASE Confirm(u)
    <3>1. /\ pc[u] = "copy" /\ pc' = [pc EXCEPT ![u] = "stat"] /\ pos[u] = Len(plan[u])
          /\ UNCHANGED <<names, data, plan, pos>>
      BY <2>4 DEF Confirm, Step, fileVars
    <3>2. Stage(u) = u /\ names[u] = u BY <1>u, <3>1 DEF Stage, NamesInv, StageInv, Staged
    <3>3. PICK d \in Digest(u) \cap {None, plan[u]} : verified' = [verified EXCEPT ![u] = (d # None)]
      BY <2>4, <3>2 DEF Confirm
    <3>4. d # None => d = data[u] /\ d = plan[u] BY <3>2, <3>3 DEF Digest, Content
    <3>5. verified'[u] = (d # None) /\ pc'[u] = "stat" BY <1>t, <1>u, <3>1, <3>3
    <3>6. Complete(u)' BY <1>0, <3>1, <3>4, <3>5 DEF Arrived, Complete
    <3> QED BY <3>5, <3>6
  <2>5. CASE Discard(u, "copy")
    <3>1. pc'[u] \in {"failed", "leaked"} BY <1>t, <1>u, <2>5 DEF Discard, Step
    <3> QED BY <3>1 DEF Promoting
  <2>6. CASE FindOld(u) \/ RemoveOld(u) \/ MoveIntoPlace(u) \/ PromoteFails(u)
    <3>1. pc[u] \in Promoting /\ UNCHANGED <<data, plan, pos, verified>>
      BY <2>6 DEF FindOld, RemoveOld, MoveIntoPlace, PromoteFails, Step, fileVars, Promoting
    <3>2. pc'[u] \in Promoting \cup {"done"}
      BY <1>t, <1>u, <2>6 DEF FindOld, RemoveOld, MoveIntoPlace, PromoteFails, Step, Promoting
    <3>3. Complete(u)' BY <1>0, <3>1 DEF Complete, Arrived
    <3> QED BY <3>2, <3>3 DEF Promoting
  <2> QED BY <1>5, <2>1, <2>2, <2>3, <2>4, <2>5, <2>6 DEF UploadStep, StagedStep
<1> HIDE DEF Good
<1>6. Uploads \cup SudoWrites \cup Downloads \cup Reads \cup Mkdirs \subseteq Transfers BY DEF Transfers
<1>7. u \notin Reads /\ u \notin Mkdirs BY Kinds
<1>8. ActorStep BY WhoWrites
<1> QED BY <1>2, <1>3, <1>4, <1>5, <1>6, <1>7, <1>8, <1>u DEF ActorStep

(* Who moves the names.                                                    *)
LEMMA UploadNames ==
  ASSUME NamesInv, NEW t \in Uploads, UploadStep(t)
  PROVE  /\ names'[LocalStage] = names[LocalStage] /\ names'[Local] = names[Local]
         /\ RemoveOld(t) \/ MoveIntoPlace(t) \/ names'[Remote] = names[Remote]
<1>1. names \in [Names -> Inodes \cup {None}] BY DEF NamesInv, TypeInv, TypeOK
<1>2. t \notin {Remote, Local, LocalStage} /\ {Remote, Local, LocalStage} \subseteq Names
      /\ Remote # Local /\ Remote # LocalStage /\ Stage(t) = t
  BY Kinds DEF Stage
<1>3. CASE SkipUnchanged(t) \/ MakeDir(t) \/ SendChunk(t) \/ Confirm(t) \/ FindOld(t) \/ PromoteFails(t)
  BY <1>3 DEF SkipUnchanged, MakeDir, StartMakeDir, LookForDir, CreateDir, MakeDirFails, SendChunk, Confirm,
              FindOld, PromoteFails, fileVars
<1>4. CASE StartWrite(t) \/ StartAppend(t)
  BY <1>1, <1>2, <1>4 DEF StartWrite, StartAppend, OpenTruncated
<1>5. CASE Discard(t, "copy") BY <1>1, <1>2, <1>5 DEF Discard, Unlink
<1>6. CASE RemoveOld(t) BY <1>1, <1>2, <1>6 DEF RemoveOld, Unlink
<1>7. CASE MoveIntoPlace(t) BY <1>1, <1>2, <1>7 DEF MoveIntoPlace
<1> QED BY <1>3, <1>4, <1>5, <1>6, <1>7 DEF UploadStep, StagedStep

LEMMA TeeNames ==
  ASSUME NamesInv, NEW t \in SudoWrites, SkipUnchanged(t) \/ TeeStep(t)
  PROVE  /\ names'[LocalStage] = names[LocalStage] /\ names'[Local] = names[Local]
         /\ (StartTee(t) /\ Exists(Remote)') \/ (~StartTee(t) /\ names' = names)
<1>1. names \in [Names -> Inodes \cup {None}] BY DEF NamesInv, TypeInv, TypeOK
<1>2. Remote # Local /\ Remote # LocalStage /\ Remote \in Names /\ t # None BY Kinds
<1>3. CASE StartTee(t)
  <2>1. CASE Exists(Remote) /\ UNCHANGED fileVars BY <1>3, <2>1 DEF fileVars, Exists
  <2>2. CASE OpenTruncated(t, Remote) BY <1>1, <1>2, <1>3, <2>2 DEF OpenTruncated, Exists
  <2> QED BY <1>3, <2>1, <2>2 DEF StartTee
<1>4. CASE ~StartTee(t)
  BY <1>4 DEF SkipUnchanged, TeeStep, Tee, VerifyTee, TeeFails, fileVars
<1> QED BY <1>3, <1>4

LEMMA DownloadNames ==
  ASSUME NamesInv, NEW t \in Downloads, DownloadStep(t)
  PROVE  names'[Remote] = names[Remote]
<1>1. names \in [Names -> Inodes \cup {None}] BY DEF NamesInv, TypeInv, TypeOK
<1>2. Remote # Local /\ Remote # LocalStage /\ Remote \in Names /\ Stage(t) = LocalStage BY Kinds DEF Stage
<1>3. CASE CreateLocal(t) BY <1>1, <1>2, <1>3 DEF CreateLocal, OpenTruncated
<1>4. CASE Discard(t, "copy") \/ Discard(t, "confirm") BY <1>1, <1>2, <1>4 DEF Discard, Unlink
<1>5. CASE RenameDownload(t) BY <1>1, <1>2, <1>5 DEF RenameDownload
<1>6. CASE StartDownload(t) \/ ReceiveChunk(t) \/ ReceivedAll(t) \/ ConfirmDownload(t)
  BY <1>6 DEF StartDownload, ReceiveChunk, ReceivedAll, ConfirmDownload, fileVars
<1> QED BY <1>3, <1>4, <1>5, <1>6 DEF DownloadStep

LEMMA ReaderNames ==
  ASSUME NEW t, SudoReadStep(t) \/ ReadStep(t) \/ MakeDir(t)
  PROVE  names' = names
  BY DEF SudoReadStep, SudoSize, SudoHead, ReadStep, StartRead, ReadBlock, ReadEnds, MakeDir, StartMakeDir,
         LookForDir, CreateDir, MakeDirFails, fileVars

-----------------------------------------------------------------------------
(* Whenever the remote file is missing although there was one, an upload   *)
(* that has its whole file on the host is about to move it into place, or  *)
(* has been stranded in front of that.                                     *)

Untouched ==
    /\ data[OldFile] = <<>>
    /\ \A t \in Uploads : pc[t] # "done"
    /\ \A s \in SudoWrites : handle[s] = None

Kept ==
    \/ Exists(Remote)
    \/ \E t \in Uploads : pc[t] \in {"rename", "stranded"}
    \/ Untouched

LEMMA KeptStep == ASSUME NamesInv, NamesInv', Kept, [Next]_vars PROVE Kept'
<1>t. pc \in [Transfers -> Steps] /\ names \in [Names -> Inodes \cup {None}]
  BY DEF NamesInv, TypeInv, TypeOK
<1>o. OldFile \in Inodes /\ OldFile \notin Transfers BY Kinds
<1>1. CASE UNCHANGED transferVars
  BY <1>1 DEF transferVars, fileVars, Kept, Untouched, Exists
<1>2. ASSUME NEW t \in Uploads, UploadStep(t), Alone(t), OnlyIn({t}) PROVE Kept'
  <2>0. t \in Transfers /\ t \in Names /\ Remote \in Names /\ t # Remote /\ None # t /\ t \notin SudoWrites BY Kinds
  <2>1. CASE RemoveOld(t)
    <3>1. pc'[t] = "rename" BY <1>t, <2>0, <2>1 DEF RemoveOld, Step
    <3> QED BY <3>1 DEF Kept
  <2>2. CASE MoveIntoPlace(t)
    <3>1. names[t] = t BY <2>2 DEF MoveIntoPlace, Step, NamesInv, StageInv, Staged
    <3>2. names'[Remote] = t BY <1>t, <2>0, <2>2, <3>1 DEF MoveIntoPlace
    <3> QED BY <2>0, <3>2 DEF Kept, Exists
  <2>3. CASE ~RemoveOld(t) /\ ~MoveIntoPlace(t)
    <3>1. names'[Remote] = names[Remote] BY <1>2, <2>3, UploadNames
    <3>2. pc[t] \in {"rename", "stranded"} => pc'[t] \in {"rename", "stranded"}
      BY <1>2, <1>t, <2>0, <2>3 DEF UploadStep, SkipUnchanged, StartWrite, StartAppend, Call, Step, StagedStep,
           SendChunk, Confirm, Discard, FindOld, PromoteFails, MakeDir, StartMakeDir, LookForDir, DirIsThere,
           CreateDir, MakeDirFails
    <3>3. pc'[t] # "done"
      <4>1. t \notin Mkdirs BY Kinds
      <4>2. CASE MakeDir(t) \/ SkipUnchanged(t)
        BY <1>t, <2>0, <4>1, <4>2 DEF SkipUnchanged, Step, MakeDir, StartMakeDir, LookForDir, DirIsThere,
             CreateDir, MakeDirFails
      <4>3. CASE StartWrite(t) \/ StartAppend(t) \/ StagedStep(t)
        BY <1>t, <2>0, <2>3, <4>3 DEF StartWrite, StartAppend, Step, StagedStep,
             SendChunk, Confirm, Discard, FindOld, PromoteFails
      <4> QED BY <1>2, <4>2, <4>3 DEF UploadStep
    <3>4. \A u \in Uploads : u # t => pc'[u] = pc[u] BY <1>2, Kinds DEF Alone
    <3>5. data'[OldFile] = data[OldFile] BY <1>2, <1>o, <2>0 DEF OnlyIn
    <3>6. \A s \in SudoWrites : handle'[s] = handle[s] BY <1>2, <2>0, Kinds DEF Alone
    <3> QED BY <3>1, <3>2, <3>3, <3>4, <3>5, <3>6 DEF Kept, Untouched, Exists
  <2> QED BY <2>1, <2>2, <2>3
<1>3. ASSUME NEW t \in SudoWrites, SkipUnchanged(t) \/ TeeStep(t), Alone(t),
             data' = data \/ (handle'[t] # None /\ OnlyIn({handle'[t]})) PROVE Kept'
  <2>1. CASE StartTee(t) BY <1>3, <2>1, TeeNames DEF Kept
  <2>2. CASE ~StartTee(t)
    <3>1. names' = names BY <1>3, <2>2, TeeNames
    <3>2. handle' = handle BY <1>3, <2>2 DEF SkipUnchanged, TeeStep, Tee, VerifyTee, TeeFails
    <3>3. \A u \in Uploads : pc'[u] = pc[u] BY <1>3, Kinds DEF Alone
    <3>4. Untouched => data' = data BY <1>3, <3>2 DEF Untouched
    <3> QED BY <3>1, <3>2, <3>3, <3>4 DEF Kept, Untouched, Exists
  <2> QED BY <2>1, <2>2
<1>4. ASSUME NEW t \in Downloads \cup Reads \cup Mkdirs, Alone(t), OnlyIn(Downloads), names'[Remote] = names[Remote]
      PROVE  Kept'
  <2>1. data'[OldFile] = data[OldFile] BY <1>4, <1>o, Kinds DEF OnlyIn
  <2>2. \A u \in Uploads : pc'[u] = pc[u] BY <1>4, Kinds DEF Alone
  <2>3. \A s \in SudoWrites : handle'[s] = handle[s] BY <1>4, Kinds DEF Alone
  <2> QED BY <1>4, <2>1, <2>2, <2>3 DEF Kept, Untouched, Exists
<1>5. data' = data => OnlyIn(Downloads) BY DEF OnlyIn
<1>6. ActorStep BY WhoWrites
<1> QED BY <1>1, <1>2, <1>3, <1>4, <1>5, <1>6, DownloadNames, ReaderNames DEF ActorStep

-----------------------------------------------------------------------------
(* A staged local file belongs to a download under way, or was left.       *)

StageHeld ==
    Exists(LocalStage) =>
        \E d \in Downloads : pc[d] \in {"copy", "confirm", "rename", "leaked"}

LEMMA StageHeldStep == ASSUME NamesInv, StageHeld, [Next]_vars PROVE StageHeld'
<1>t. pc \in [Transfers -> Steps] /\ names \in [Names -> Inodes \cup {None}]
  BY DEF NamesInv, TypeInv, TypeOK
<1>1. CASE UNCHANGED transferVars
  BY <1>1 DEF transferVars, fileVars, StageHeld, Exists
<1>2. ASSUME NEW t \in Transfers, t \notin Downloads, Alone(t), names'[LocalStage] = names[LocalStage]
      PROVE  StageHeld'
  <2>1. \A d \in Downloads : pc'[d] = pc[d] BY <1>2, Kinds DEF Alone
  <2> QED BY <1>2, <2>1 DEF StageHeld, Exists
<1>3. ASSUME NEW t \in Downloads, DownloadStep(t), Alone(t) PROVE StageHeld'
  <2>0. t \in Transfers /\ LocalStage \in Names /\ Local # LocalStage /\ Stage(t) = LocalStage BY Kinds DEF Stage
  <2>1. CASE pc'[t] \in {"copy", "confirm", "rename", "leaked"} BY <2>1 DEF StageHeld
  <2>2. CASE names'[LocalStage] = None BY <2>2 DEF StageHeld, Exists
  <2>3. CASE StartDownload(t)
    <3>1. pc[t] = "idle" /\ names' = names BY <2>3 DEF StartDownload, Step, fileVars
    <3>2. \A d \in Downloads : d # t => pc'[d] = pc[d] BY <1>3, Kinds DEF Alone
    <3> QED BY <3>1, <3>2 DEF StageHeld, Exists
  <2>4. CASE CreateLocal(t) \/ ReceiveChunk(t) \/ ReceivedAll(t) \/ ConfirmDownload(t)
    BY <1>t, <2>0, <2>1, <2>4 DEF CreateLocal, ReceiveChunk, ReceivedAll, ConfirmDownload, Step
  <2>5. CASE Discard(t, "copy") \/ Discard(t, "confirm")
    BY <1>t, <2>0, <2>1, <2>2, <2>5 DEF Discard, Step, Unlink
  <2>6. CASE RenameDownload(t)
    BY <1>t, <2>0, <2>1, <2>2, <2>6 DEF RenameDownload, Step, Exists
  <2> QED BY <1>3, <2>3, <2>4, <2>5, <2>6 DEF DownloadStep
<1>4. Uploads \cup SudoWrites \cup Downloads \cup Reads \cup Mkdirs \subseteq Transfers BY DEF Transfers
<1>5. \A t \in Uploads \cup SudoWrites \cup Reads \cup Mkdirs : t \notin Downloads BY Kinds
<1>6. ActorStep BY WhoWrites
<1> QED BY <1>1, <1>2, <1>3, <1>4, <1>5, <1>6, UploadNames, TeeNames, ReaderNames DEF ActorStep

-----------------------------------------------------------------------------
(* What downloads and reads have got.                                      *)

DownloadInv ==
    \A d \in Downloads :
        NoTee /\ pc[d] \in {"rename", "done"} /\ verified[d] => \E i \in Versions : plan[d] = data[i]

\* The beginning of the file i.
BeginningOf(t, i) ==
    /\ Len(plan[t]) <= Len(data[i])
    /\ \A k \in DOMAIN plan[t] : plan[t][k] \in {data[i][k], Bad}

\* What ReadIsHonest promises of one read.
HonestAbout(t, i) ==
    /\ BeginningOf(t, i)
    /\ t \notin SudoReads /\ size[t] = Len(plan[t]) => Len(data[i]) = Len(plan[t])

ReadInv ==
    \A t \in Reads : NoTee =>
        /\ pc[t] = "copy" /\ t \notin SudoReads =>
              /\ source[t] \in Versions /\ BeginningOf(t, source[t])
              /\ size[t] \in {0, Len(data[source[t]])}
        /\ pc[t] = "done" => \E i \in Versions : HonestAbout(t, i)

LEMMA RemoteVersion ==
  ASSUME NamesInv, NoTee, Exists(Remote)
  PROVE  names[Remote] \in Versions
  BY DEF NamesInv, PathInv, Seen, TeeFiles, NoTee, Exists

LEMMA DownloadInvStep ==
  ASSUME NamesInv, NamesInv', DownloadInv, [Next]_vars PROVE DownloadInv'
<1> SUFFICES ASSUME NEW u \in Downloads, NoTee', (pc[u] \in {"rename", "done"})', verified'[u]
             PROVE  \E i \in Versions' : plan'[u] = data'[i]
  BY DEF DownloadInv
<1>v. NoTee /\ Versions \subseteq Versions' /\ \A i \in Versions : data'[i] = data[i] BY VersionsStay
<1>t. /\ pc \in [Transfers -> Steps] /\ plan \in [Transfers -> Seq(Blocks)]
      /\ verified \in [Transfers -> BOOLEAN]
  BY DEF NamesInv, TypeInv, TypeOK
<1>u. u \in Transfers BY Kinds
<1>1. CASE pc[u] \in {"rename", "done"} /\ verified[u] /\ plan'[u] = plan[u]
  BY <1>1, <1>v DEF DownloadInv
<1>2. CASE UNCHANGED transferVars BY <1>1, <1>2 DEF transferVars
<1>3. ASSUME NEW t \in Transfers, t # u, Alone(t) PROVE \E i \in Versions' : plan'[u] = data'[i]
  BY <1>1, <1>3, <1>u DEF Alone
<1>4. CASE DownloadStep(u)
  <2>1. CASE ConfirmDownload(u)
    <3>1. plan' = plan /\ data' = data BY <2>1 DEF ConfirmDownload, fileVars
    <3>2. PICK x \in Digest(Remote) \cap {None, plan[u]} : verified' = [verified EXCEPT ![u] = (x # None)]
      BY <2>1 DEF ConfirmDownload
    <3>3. x # None BY <1>t, <1>u, <3>2
    <3>4. Exists(Remote) /\ plan[u] = data[names[Remote]] BY <3>2, <3>3 DEF Digest, Content
    <3> QED BY <1>v, <3>1, <3>4, RemoteVersion
  <2>2. CASE RenameDownload(u)
    BY <1>1, <1>t, <1>u, <2>2 DEF RenameDownload, Step
  <2>3. CASE ~ConfirmDownload(u) /\ ~RenameDownload(u)
    <3>1. pc'[u] \in {"create", "copy", "confirm", "failed", "leaked"}
      BY <1>4, <1>t, <1>u, <2>3 DEF DownloadStep, StartDownload, CreateLocal, ReceiveChunk, ReceivedAll, Discard, Step
    <3> QED BY <3>1
  <2> QED BY <2>1, <2>2, <2>3
<1>5. Uploads \cup SudoWrites \cup Downloads \cup Reads \cup Mkdirs \subseteq Transfers BY DEF Transfers
<1>6. u \notin Uploads /\ u \notin SudoWrites /\ u \notin Reads /\ u \notin Mkdirs BY Kinds
<1>7. ActorStep BY WhoWrites
<1> QED BY <1>2, <1>3, <1>4, <1>5, <1>6, <1>7 DEF ActorStep

LEMMA ReadInvStep ==
  ASSUME NamesInv, NamesInv', ReadInv, [Next]_vars PROVE ReadInv'
<1> DEFINE Copying(u) == pc[u] = "copy" /\ u \notin SudoReads =>
              /\ source[u] \in Versions /\ BeginningOf(u, source[u])
              /\ size[u] \in {0, Len(data[source[u]])}
           Ended(u) == pc[u] = "done" => \E i \in Versions : HonestAbout(u, i)
<1> SUFFICES ASSUME NEW u \in Reads, NoTee' PROVE Copying(u)' /\ Ended(u)'
  BY DEF ReadInv
<1>v. NoTee /\ Versions \subseteq Versions' /\ \A i \in Versions : data'[i] = data[i] BY VersionsStay
<1>0. Copying(u) /\ Ended(u) BY <1>v DEF ReadInv
<1>t. /\ pc \in [Transfers -> Steps] /\ plan \in [Transfers -> Seq(Blocks)]
      /\ data \in [Inodes -> Seq(Blocks)] /\ size \in [Reads -> Nat]
      /\ source \in [Downloads \cup Reads -> Inodes \cup {None}]
  BY DEF NamesInv, TypeInv, TypeOK
<1>u. u \in Transfers /\ u \notin Downloads BY Kinds
<1>i. \A i \in Versions : i \in Inodes BY Kinds DEF Versions
<1>1. ASSUME pc'[u] = pc[u], plan'[u] = plan[u], size'[u] = size[u], source'[u] = source[u]
      PROVE  Copying(u)' /\ Ended(u)'
  <2>1. Copying(u)' BY <1>0, <1>1, <1>v DEF BeginningOf
  <2>2. Ended(u)' BY <1>0, <1>1, <1>v DEF HonestAbout, BeginningOf
  <2> QED BY <2>1, <2>2
<1>2. CASE UNCHANGED transferVars /\ UNCHANGED size BY <1>1, <1>2 DEF transferVars
<1>3. ASSUME NEW t \in Transfers, t # u, Alone(t), size'[u] = size[u], source'[u] = source[u]
      PROVE  Copying(u)' /\ Ended(u)'
  BY <1>1, <1>3, <1>u DEF Alone
<1>4. ASSUME NEW t \in Downloads, DownloadStep(t) PROVE source'[u] = source[u]
  BY <1>4, <1>t, <1>u DEF DownloadStep, StartDownload, CreateLocal, ReceiveChunk, ReceivedAll, ConfirmDownload,
       Discard, RenameDownload
<1>5. ASSUME NEW t \in Reads, t # u, SudoReadStep(t) \/ ReadStep(t) PROVE size'[u] = size[u] /\ source'[u] = source[u]
  BY <1>5, <1>t DEF SudoReadStep, SudoSize, SudoHead, ReadStep, StartRead, ReadBlock, ReadEnds
<1>6. ASSUME u \notin SudoReads, ReadStep(u) PROVE Copying(u)' /\ Ended(u)'
  <2>1. CASE StartRead(u)
    <3>1. /\ pc[u] = "idle" /\ pc' = [pc EXCEPT ![u] = "copy"] /\ Exists(Remote)
          /\ source' = [source EXCEPT ![u] = names[Remote]] /\ plan' = plan /\ data' = data
          /\ \E n \in {0, Len(Content(Remote))} : size' = [size EXCEPT ![u] = n]
      BY <2>1 DEF StartRead, Step, fileVars
    <3>2. names[Remote] \in Versions BY <1>v, <3>1, RemoteVersion
    <3>3. plan[u] = <<>> BY <1>u, <3>1 DEF NamesInv, TypeInv, Progress, BeforeStart
    <3>4. /\ pc'[u] = "copy" /\ source'[u] = names[Remote] /\ plan'[u] = <<>>
          /\ size'[u] \in {0, Len(data[names[Remote]])}
      BY <1>t, <1>u, <3>1, <3>3 DEF Content
    <3>5. data[names[Remote]] \in Seq(Blocks) BY <1>t, <1>i, <3>2
    <3>6. BeginningOf(u, source[u])' BY <3>1, <3>4, <3>5 DEF BeginningOf
    <3> QED BY <1>v, <3>1, <3>2, <3>4, <3>6
  <2>2. CASE ReadBlock(u)
    <3>1. /\ pc[u] = "copy" /\ pc' = [pc EXCEPT ![u] = "copy"] /\ More(u)
          /\ UNCHANGED <<data, source, size>>
      BY <2>2 DEF ReadBlock, Step, fileVars
    <3> DEFINE s == data[source[u]]
    <3>2. source[u] \in Versions /\ BeginningOf(u, source[u]) /\ size[u] \in {0, Len(s)}
      BY <1>0, <1>6, <3>1
    <3>3. PICK b \in Received(s[Len(plan[u]) + 1]) : plan' = [plan EXCEPT ![u] = Append(@, b)]
      BY <2>2 DEF ReadBlock
    <3>4. b \in {s[Len(plan[u]) + 1], Bad} BY <3>3, ReceivedType
    <3>5. s \in Seq(Blocks) /\ plan[u] \in Seq(Blocks) BY <1>t, <1>i, <1>u, <3>2
    <3>6. Len(plan[u]) < Len(s) BY <3>1 DEF More
    <3>7. b \in Blocks BY <3>4, <3>5, <3>6, Kinds
    <3>8. plan'[u] = Append(plan[u], b) /\ pc'[u] = "copy" BY <1>t, <1>u, <3>1, <3>3
    <3> DEFINE p == Append(plan[u], b)
    <3>9. Len(p) <= Len(s) /\ \A k \in DOMAIN p : p[k] \in {s[k], Bad}
      BY <3>2, <3>4, <3>5, <3>6, <3>7 DEF BeginningOf
    <3> HIDE DEF p
    <3>10. plan'[u] = p BY <3>8 DEF p
    <3>11. BeginningOf(u, source[u])' BY <3>1, <3>9, <3>10 DEF BeginningOf
    <3> QED BY <1>v, <3>1, <3>2, <3>8, <3>11
  <2>3. CASE ReadEnds(u)
    <3>1. pc[u] = "copy" /\ UNCHANGED <<data, plan, source, size>>
      BY <2>3 DEF ReadEnds, Step, fileVars
    <3>2. pc'[u] = "failed" \/ (pc'[u] = "done" /\ ~More(u))
      BY <1>t, <1>u, <2>3 DEF ReadEnds, Step
    <3> DEFINE s == data[source[u]]
    <3>3. source[u] \in Versions /\ BeginningOf(u, source[u]) /\ size[u] \in {0, Len(s)}
      BY <1>0, <1>6, <3>1
    <3>4. Len(s) \in Nat /\ Len(plan[u]) \in Nat BY <1>t, <1>i, <1>u, <3>3
    <3>5. Len(plan[u]) <= Len(s) BY <3>3 DEF BeginningOf
    <3>6. ~More(u) => (size[u] = Len(plan[u]) => Len(s) = Len(plan[u]))
      BY <3>3, <3>4, <3>5, BlocksAssumption DEF More
    <3>7. ~More(u) => HonestAbout(u, source[u])' BY <3>1, <3>3, <3>6 DEF HonestAbout, BeginningOf
    <3> QED BY <1>v, <3>1, <3>2, <3>3, <3>7
  <2> QED BY <1>6, <2>1, <2>2, <2>3 DEF ReadStep
<1>7. ASSUME u \in SudoReads, SudoReadStep(u) PROVE Copying(u)' /\ Ended(u)'
  <2>1. CASE SudoSize(u)
    <3>1. pc'[u] = "stat" BY <1>t, <1>u, <2>1 DEF SudoSize, Step
    <3> QED BY <3>1
  <2>2. CASE SudoHead(u)
    <3> DEFINE s == Content(Remote)
               n == IF Len(s) > ReadLimit THEN ReadLimit ELSE Len(s)
    <3>1. CASE pc'[u] = "failed" BY <3>1
    <3>2. CASE Exists(Remote) /\ pc'[u] = "done" /\ plan' = [plan EXCEPT ![u] = SubSeq(s, 1, n)]
      <4>1. names[Remote] \in Versions BY <1>v, <3>2, RemoteVersion
      <4>2. s \in Seq(Blocks) BY <1>t, <1>i, <4>1 DEF Content
      <4>3. n \in Nat /\ n <= Len(s) BY <4>2, BlocksAssumption
      <4> HIDE DEF n
      <4>4. /\ SubSeq(s, 1, n) \in Seq(Blocks) /\ Len(SubSeq(s, 1, n)) = n
            /\ \A k \in 1 .. n : SubSeq(s, 1, n)[k] = s[k]
        BY <4>2, <4>3, PrefixType
      <4>5. plan'[u] = SubSeq(s, 1, n) /\ data' = data
        BY <1>t, <1>u, <2>2, <3>2 DEF SudoHead, fileVars
      <4>6. \A k \in DOMAIN plan'[u] : plan'[u][k] = s[k] BY <4>4, <4>5
      <4>7. HonestAbout(u, names[Remote])' 
        <5>1. names' = names BY <2>2 DEF SudoHead, fileVars
        <5> QED BY <1>7, <4>3, <4>4, <4>5, <4>6, <5>1 DEF HonestAbout, BeginningOf, Content
      <4>8. names'[Remote] \in Versions' BY <1>v, <2>2, <4>1 DEF SudoHead, fileVars
      <4> QED BY <1>7, <4>7, <4>8
    <3> QED BY <1>t, <1>u, <2>2, <3>1, <3>2 DEF SudoHead, Step
  <2> QED BY <1>7, <2>1, <2>2 DEF SudoReadStep
<1> HIDE DEF Copying, Ended
<1>8. Uploads \cup SudoWrites \cup Downloads \cup Reads \cup Mkdirs \subseteq Transfers BY DEF Transfers
<1>9. u \notin Uploads /\ u \notin SudoWrites /\ u \notin Mkdirs BY Kinds
<1>10. ActorStep BY WhoWrites
<1> QED BY <1>2, <1>3, <1>4, <1>5, <1>6, <1>7, <1>8, <1>9, <1>10, <1>u DEF ActorStep

-----------------------------------------------------------------------------
(* Directories.                                                            *)

\* A directory is there only with all those above it, and with everything a
\* call relies on.
DirInv ==
    /\ \A k \in dirs : 1 .. k \subseteq dirs
    /\ \A t \in Makers : pc[t] = "made" => Depth \in dirs
    /\ Exists(Remote) => Depth \in dirs
    /\ DirectoriesReady

LEMMA WholePath ==
  ASSUME TypeInv, \A k \in dirs : 1 .. k \subseteq dirs
  PROVE  Depth \in dirs <=> 1 .. Depth \subseteq dirs
  BY BlocksAssumption DEF TypeInv, TypeOK

\* What is still there although something else has changed.
LEMMA DirFrame ==
  ASSUME NamesInv, NamesInv', DirInv, dirs \subseteq dirs',
         \A k \in dirs' : 1 .. k \subseteq dirs',
         \A t \in Makers : \/ pc'[t] = pc[t]
                           \/ pc'[t] \in {"idle", "look", "mkdir", "failed"}
                           \/ Depth \in dirs'
                           \/ pc[t] \notin {"idle", "look", "mkdir", "failed"} /\ t \in Uploads,
         Exists(Remote)' => Exists(Remote) \/ Depth \in dirs'
  PROVE  DirInv'
<1>1. Depth \in dirs' <=> 1 .. Depth \subseteq dirs'
  BY BlocksAssumption DEF NamesInv, TypeInv, TypeOK
<1>2. Depth \in dirs => Depth \in dirs' OBVIOUS
<1>3. Depth \in dirs <=> 1 .. Depth \subseteq dirs BY WholePath DEF NamesInv, DirInv
<1>4. \A t \in Makers : pc'[t] = "made" => Depth \in dirs'
  BY <1>1, <1>2, <1>3, Kinds DEF DirInv, DirectoriesReady
<1>5. \A t \in Mkdirs : pc'[t] = "done" => 1 .. Depth \subseteq dirs'
  BY <1>1, <1>2, <1>3, Kinds DEF DirInv, DirectoriesReady
<1>6. \A t \in Uploads : pc'[t] \notin {"idle", "look", "mkdir", "failed"} => 1 .. Depth \subseteq dirs'
  BY <1>1, <1>2, <1>3, Kinds DEF DirInv, DirectoriesReady
<1>7. Exists(Remote)' => Depth \in dirs' BY <1>2 DEF DirInv
<1> QED BY <1>4, <1>5, <1>6, <1>7 DEF DirInv, DirectoriesReady

LEMMA DirStep ==
  ASSUME NamesInv, NamesInv', DirInv, [Next]_vars PROVE DirInv'
<1>t. /\ pc \in [Transfers -> Steps] /\ names \in [Names -> Inodes \cup {None}]
      /\ dirs \subseteq 1 .. Depth /\ level \in [Makers -> 1 .. Depth]
  BY DEF NamesInv, TypeInv, TypeOK
<1>d. \A k \in dirs : 1 .. k \subseteq dirs BY DEF DirInv
<1>w. Depth \in dirs <=> 1 .. Depth \subseteq dirs BY WholePath, <1>d DEF NamesInv
<1> DEFINE Early == {"idle", "look", "mkdir", "failed"}
<1>1. CASE UNCHANGED vars
  BY <1>1 DEF vars, transferVars, fileVars, DirInv, DirectoriesReady, Exists
<1>2. ASSUME NEW t \in Transfers, dirs' = dirs, \A u \in Transfers : u # t => pc'[u] = pc[u],
             t \in Makers => pc'[t] \in Early \/ Depth \in dirs \/ (pc[t] \notin Early /\ t \in Uploads),
             Exists(Remote)' => Exists(Remote) \/ Depth \in dirs
      PROVE  DirInv'
  <2>1. Makers \subseteq Transfers BY Kinds
  <2> QED BY <1>2, <1>d, <2>1, DirFrame
<1>3. ASSUME NEW t \in Uploads \cup SudoWrites, SkipUnchanged(t), AllQuiet PROVE DirInv'
  <2>1. Exists(Remote) /\ names' = names /\ pc' = [pc EXCEPT ![t] = "unchanged"] /\ dirs' = dirs
    BY <1>3 DEF SkipUnchanged, Step, fileVars, AllQuiet
  <2>2. Depth \in dirs BY <2>1 DEF DirInv
  <2>3. t \in Transfers /\ \A u \in Transfers : u # t => pc'[u] = pc[u] BY <1>t, <2>1, Kinds
  <2> QED BY <1>2, <2>1, <2>2, <2>3
<1>4. ASSUME NEW t \in Uploads, StartWrite(t) \/ StartAppend(t), AllQuiet PROVE DirInv'
  <2>1. pc' = [pc EXCEPT ![t] = "copy"] /\ dirs' = dirs BY <1>4 DEF StartWrite, StartAppend, Step, AllQuiet
  <2>2. Depth \in dirs BY <1>4 DEF StartWrite, StartAppend, ParentExists, DirInv
  <2>3. t \in Transfers /\ \A u \in Transfers : u # t => pc'[u] = pc[u] BY <1>t, <2>1, Kinds
  <2> QED BY <1>2, <2>1, <2>2, <2>3
<1>5. ASSUME NEW t \in Uploads, StagedStep(t), AllQuiet PROVE DirInv'
  <2>1. pc[t] \notin Early /\ \E x : pc' = [pc EXCEPT ![t] = x]
    BY <1>5 DEF StagedStep, SendChunk, Confirm, Discard, FindOld, RemoveOld, MoveIntoPlace, PromoteFails, Step
  <2>2. 1 .. Depth \subseteq dirs BY <2>1 DEF DirInv, DirectoriesReady
  <2>3. t \in Transfers /\ \A u \in Transfers : u # t => pc'[u] = pc[u] BY <1>t, <2>1, Kinds
  <2> QED BY <1>2, <1>5, <1>w, <2>2, <2>3 DEF AllQuiet
<1>6. ASSUME NEW t \in SudoWrites, TeeStep(t), AllQuiet PROVE DirInv'
  <2>1. \E x : pc' = [pc EXCEPT ![t] = x]
    BY <1>6 DEF TeeStep, StartTee, Tee, VerifyTee, TeeFails, Step
  <2>2. Exists(Remote)' => Exists(Remote) \/ Depth \in dirs
    <3>1. CASE StartTee(t) BY <3>1 DEF StartTee, ParentExists
    <3>2. CASE ~StartTee(t) BY <1>6, <3>2, TeeNames DEF Exists
    <3> QED BY <3>1, <3>2
  <2>3. t \in Transfers /\ t \notin Makers /\ \A u \in Transfers : u # t => pc'[u] = pc[u] BY <1>t, <2>1, Kinds
  <2> QED BY <1>2, <1>6, <2>2, <2>3 DEF AllQuiet
<1>7. ASSUME NEW t \in Downloads, DownloadStep(t), AllQuiet PROVE DirInv'
  <2>1. \E x : pc' = [pc EXCEPT ![t] = x]
    BY <1>7 DEF DownloadStep, StartDownload, CreateLocal, ReceiveChunk, ReceivedAll, ConfirmDownload, Discard,
         RenameDownload, Step
  <2>2. Exists(Remote)' => Exists(Remote) BY <1>7, DownloadNames DEF Exists
  <2>3. t \in Transfers /\ t \notin Makers /\ \A u \in Transfers : u # t => pc'[u] = pc[u] BY <1>t, <2>1, Kinds
  <2> QED BY <1>2, <1>7, <2>2, <2>3 DEF AllQuiet
<1>8. ASSUME NEW t \in Reads, SudoReadStep(t) \/ ReadStep(t), DirsQuiet PROVE DirInv'
  <2>1. \E x : pc' = [pc EXCEPT ![t] = x]
    BY <1>8 DEF SudoReadStep, SudoSize, SudoHead, ReadStep, StartRead, ReadBlock, ReadEnds, Step
  <2>2. Exists(Remote)' => Exists(Remote) BY <1>8, ReaderNames DEF Exists
  <2>3. t \in Transfers /\ t \notin Makers /\ \A u \in Transfers : u # t => pc'[u] = pc[u] BY <1>t, <2>1, Kinds
  <2> QED BY <1>2, <1>8, <2>2, <2>3 DEF DirsQuiet
<1>9. ASSUME NEW t \in Makers, MakeDir(t) PROVE DirInv'
  <2>0. t \in Transfers /\ level[t] \in 1 .. Depth BY <1>t, Kinds
  <2>1. names' = names BY <1>9, ReaderNames
  <2>2. Exists(Remote)' => Exists(Remote) BY <2>1 DEF Exists
  <2>3. \A u \in Transfers : u # t => pc'[u] = pc[u]
    BY <1>9, <1>t DEF MakeDir, StartMakeDir, LookForDir, DirIsThere, CreateDir, MakeDirFails, Step
  <2>4. CASE StartMakeDir(t) \/ MakeDirFails(t)
    <3>1. dirs' = dirs /\ pc'[t] \in Early
      BY <1>t, <2>0, <2>4 DEF StartMakeDir, MakeDirFails, Step
    <3> QED BY <1>2, <2>0, <2>2, <2>3, <3>1
  <2>5. CASE LookForDir(t)
    <3>1. dirs' = dirs /\ pc[t] = "look" BY <2>5 DEF LookForDir
    <3>2. pc'[t] \in Early \/ Depth \in dirs
      <4>1. CASE level[t] \in dirs /\ DirIsThere(t)
        BY <1>t, <2>0, <4>1, BlocksAssumption DEF DirIsThere, Step
      <4>2. CASE pc' = pc BY <3>1, <4>2
      <4>3. CASE Step(t, "look", "mkdir") BY <1>t, <2>0, <4>3 DEF Step
      <4> QED BY <2>5, <4>1, <4>2, <4>3 DEF LookForDir
    <3> QED BY <1>2, <2>0, <2>2, <2>3, <3>1, <3>2
  <2>6. CASE CreateDir(t)
    <3>1. /\ dirs' = dirs \cup {level[t]} /\ DirIsThere(t)
          /\ level[t] \in dirs \/ level[t] = 1 \/ level[t] - 1 \in dirs
      BY <2>6 DEF CreateDir
    <3>2. \A k \in dirs' : 1 .. k \subseteq dirs'
      <4> SUFFICES ASSUME NEW k \in dirs', NEW j \in 1 .. k PROVE j \in dirs' OBVIOUS
      <4>1. CASE k \in dirs BY <1>d, <3>1, <4>1
      <4>2. CASE k = level[t] /\ j = k BY <3>1, <4>2
      <4>3. CASE k = level[t] /\ j # k
        <5>1. CASE level[t] \in dirs BY <1>d, <3>1, <4>3, <5>1
        <5>2. CASE level[t] = 1 BY <4>3, <5>2
        <5>3. CASE level[t] - 1 \in dirs
          <6>1. j \in 1 .. (level[t] - 1) BY <2>0, <4>3, BlocksAssumption
          <6> QED BY <1>d, <3>1, <5>3, <6>1
        <5> QED BY <3>1, <5>1, <5>2, <5>3
      <4> QED BY <3>1, <4>1, <4>2, <4>3
    <3>3. pc'[t] \in Early \/ Depth \in dirs'
      BY <1>t, <2>0, <3>1, BlocksAssumption DEF DirIsThere, Step
    <3>4. Makers \subseteq Transfers BY Kinds
    <3> QED BY <2>2, <2>3, <3>1, <3>2, <3>3, <3>4, DirFrame
  <2> QED BY <1>9, <2>4, <2>5, <2>6 DEF MakeDir
<1>10. ASSUME NEW t \in SudoWrites, SudoMakeDir(t) PROVE DirInv'
  <2>1. dirs' = 1 .. Depth /\ pc' = pc /\ names' = names BY <1>10 DEF SudoMakeDir, transferVars, fileVars
  <2>2. \A k \in dirs' : 1 .. k \subseteq dirs' BY <2>1, BlocksAssumption
  <2>3. dirs \subseteq dirs' BY <1>t, <2>1
  <2> QED BY <2>1, <2>2, <2>3, DirFrame DEF Exists
<1>11. Writes \subseteq Uploads /\ Appends \subseteq Uploads /\ SudoReads \subseteq Reads
  BY TransfersAssumption, Kinds
<1> QED BY StepCases, <1>1, <1>3, <1>4, <1>5, <1>6, <1>7, <1>8, <1>9, <1>10, <1>11

-----------------------------------------------------------------------------
(* The theorems.                                                           *)

FileInv == NamesInv /\ ContentInv /\ Kept /\ StageHeld /\ DownloadInv /\ ReadInv /\ DirInv

LEMMA FileInit == Init => FileInv
<1> SUFFICES ASSUME Init PROVE FileInv OBVIOUS
<1>1. NamesInv BY NamesInit
<1>2. /\ \A t \in Transfers : pc[t] = "idle" /\ handle[t] = None
      /\ names = [n \in Names |-> IF n = Remote /\ names[Remote] # None THEN OldFile ELSE None]
  BY Kinds DEF Init
<1>3. Uploads \subseteq Transfers /\ SudoWrites \subseteq Transfers /\ Downloads \subseteq Transfers
      /\ Reads \subseteq Transfers /\ Makers \subseteq Transfers
  BY Kinds
<1>4. ContentInv BY <1>2, <1>3 DEF ContentInv, Promoting
<1>5. Kept
  <2>1. ~Exists(Remote) => data[OldFile] = <<>>
    <3>1. PICK b \in {None, OldFile} \cup Writes \cup SudoWrites :
         /\ names = [n \in Names |-> IF n = Remote /\ b # None THEN OldFile ELSE None]
         /\ data = [i \in Inodes |-> IF i = OldFile /\ b # None THEN [j \in 1 .. Chunks |-> b] ELSE <<>>]
      BY DEF Init
    <3>2. Remote \in Names /\ OldFile \in Inodes /\ OldFile # None BY Kinds
    <3> QED BY <3>1, <3>2 DEF Exists
  <2> QED BY <1>2, <1>3, <2>1 DEF Kept, Untouched
<1>6. StageHeld BY <1>2, Kinds DEF StageHeld, Exists
<1>7. DownloadInv /\ ReadInv BY <1>2, <1>3 DEF DownloadInv, ReadInv
<1>8. DirInv
  <2>1. PICK k \in 0 .. Depth : dirs = 1 .. k /\ (names[Remote] # None => k = Depth) BY DEF Init
  <2>2. \A j \in dirs : 1 .. j \subseteq dirs BY <2>1, BlocksAssumption
  <2>3. Exists(Remote) => Depth \in dirs BY <2>1, BlocksAssumption DEF Exists
  <2>4. DirectoriesReady BY <1>2, <1>3, Kinds DEF DirectoriesReady
  <2> QED BY <1>2, <1>3, <2>2, <2>3, <2>4 DEF DirInv
<1> QED BY <1>1, <1>4, <1>5, <1>6, <1>7, <1>8 DEF FileInv

LEMMA FileStep == FileInv /\ [Next]_vars => FileInv'
<1> SUFFICES ASSUME FileInv, [Next]_vars PROVE FileInv' OBVIOUS
<1>1. NamesInv /\ NamesInv' BY NamesStep DEF FileInv
<1> QED BY <1>1, ContentStep, KeptStep, StageHeldStep, DownloadInvStep, ReadInvStep, DirStep DEF FileInv

LEMMA FileAlways == Spec => []FileInv
  BY FileInit, FileStep, PTL DEF Spec

(* Every variable keeps its type, and no transfer has sent or received     *)
(* more than there is.                                                     *)
THEOREM FileTypeSafe == Spec => []TypeOK
<1>1. FileInv => TypeOK BY DEF FileInv, NamesInv, TypeInv
<1> QED BY <1>1, FileAlways, PTL

(* However many writes, appends, uploads, downloads, reads and failures    *)
(* there are: as long as no privileged write works on the remote file in   *)
(* place, it is whole, or the outcome of its upload says that nobody has   *)
(* confirmed its digest.                                                   *)
THEOREM RemoteWhole == Spec => []RemoteIsWhole
<1>1. FileInv => RemoteIsWhole
  <2> SUFFICES ASSUME FileInv, NoTee, Exists(Remote)
               PROVE  \/ Content(Remote) = Whole(names[Remote])
                      \/ names[Remote] \in Uploads /\ ~verified[names[Remote]]
    BY DEF RemoteIsWhole, PartialNeverObserved
  <2>1. names[Remote] \in Versions BY RemoteVersion DEF FileInv
  <2> QED BY <2>1, Kinds DEF Versions, FileInv, ContentInv, Complete, Content, Whole
<1> QED BY <1>1, FileAlways, PTL

\* The file at the remote path has every block of what was sent, or a
\* mangled one in its place.
RemoteIsComplete ==
    NoTee /\ Exists(Remote) /\ names[Remote] # OldFile =>
        LET i == names[Remote] IN
        /\ Len(data[i]) = Len(plan[i])
        /\ \A k \in 1 .. Len(plan[i]) : data[i][k] \in {plan[i][k], Bad}

(* Also an unverified upload that was promoted is complete: what may be    *)
(* wrong with it are blocks that the transport mangled, never its length.  *)
THEOREM RemoteComplete == Spec => []RemoteIsComplete
<1>1. FileInv => RemoteIsComplete
  <2> SUFFICES ASSUME FileInv, NoTee, Exists(Remote), names[Remote] # OldFile, NEW i, i = names[Remote]
               PROVE  /\ Len(data[i]) = Len(plan[i])
                      /\ \A k \in 1 .. Len(plan[i]) : data[i][k] \in {plan[i][k], Bad}
    BY DEF RemoteIsComplete
  <2>1. i \in Uploads /\ pc[i] = "done" BY RemoteVersion DEF FileInv, Versions
  <2>2. Complete(i) BY <2>1 DEF FileInv, ContentInv
  <2> QED BY <2>2 DEF Complete, Arrived
<1> QED BY <1>1, FileAlways, PTL

(* Privileged writes aside, a file that has been at the remote path is     *)
(* never written to again: it is replaced, not overwritten.                *)
THEOREM VersionsAreFinal == Spec => [][NoTee' => \A i \in Versions : data'[i] = data[i]]_vars
<1>1. FileInv /\ [Next]_vars => [NoTee' => \A i \in Versions : data'[i] = data[i]]_vars
  <2> SUFFICES ASSUME FileInv, [Next]_vars PROVE NoTee' => \A i \in Versions : data'[i] = data[i] OBVIOUS
  <2>1. NamesInv /\ NamesInv' BY NamesStep DEF FileInv
  <2> QED BY <2>1, VersionsStay
<1> QED BY <1>1, FileAlways, PTL DEF Spec

(* The swap of promote removes before it renames, and still the content of *)
(* the remote file is never lost: while nothing is at the path, a complete *)
(* upload is on the host.                                                  *)
THEOREM NothingLost == Spec => []NothingIsLost
<1>1. FileInv => NothingIsLost
  <2> SUFFICES ASSUME FileInv, ~Exists(Remote), ~(data[OldFile] = <<>> /\ \A t \in Uploads : pc[t] # "done")
               PROVE  \E t \in Uploads : /\ pc[t] \in {"rename", "stranded"} /\ Exists(t)
                                         /\ verified[t] => Content(t) = plan[t]
    BY DEF NothingIsLost
  <2>1. PICK t \in Uploads : pc[t] \in {"rename", "stranded"} BY DEF FileInv, Kept, Untouched
  <2>2. names[t] = t /\ t # None BY <2>1, Kinds DEF FileInv, NamesInv, StageInv, Staged
  <2>3. Complete(t) BY <2>1 DEF FileInv, ContentInv, Promoting
  <2> QED BY <2>1, <2>2, <2>3 DEF Complete, Exists, Content
<1> QED BY <1>1, FileAlways, PTL

(* No staged file is left by a transfer that is over, unless removing it   *)
(* or the swap has failed.                                                 *)
THEOREM NothingLeftOver == Spec => []NoLeftovers
<1>1. FileInv => NoLeftovers
  <2> SUFFICES ASSUME FileInv PROVE NoLeftovers OBVIOUS
  <2>1. \A t \in Uploads : pc[t] \in {"done", "unchanged", "failed"} => ~Exists(t)
    BY DEF FileInv, NamesInv, StageInv, Staged, Exists
  <2>2. (\A d \in Downloads : pc[d] \in {"idle", "done", "failed"}) => ~Exists(LocalStage)
    BY DEF FileInv, StageHeld
  <2> QED BY <2>1, <2>2 DEF NoLeftovers
<1> QED BY <1>1, FileAlways, PTL

(* A verified download has the bytes of one version of the remote file.    *)
THEOREM DownloadsAreVersions == Spec => []VerifiedIsAVersion
<1>1. FileInv => VerifiedIsAVersion
  <2> SUFFICES ASSUME FileInv, NEW d \in Downloads, NoTee, pc[d] = "done", verified[d]
               PROVE  \E i \in Uploads \cup {OldFile} : (i \in Uploads => pc[i] = "done") /\ plan[d] = data[i]
    BY DEF VerifiedIsAVersion
  <2>1. PICK i \in Versions : plan[d] = data[i] BY DEF FileInv, DownloadInv
  <2> QED BY <2>1, Kinds DEF Versions
<1> QED BY <1>1, FileAlways, PTL

(* A read returns the beginning of one version, and all of it if it has as *)
(* many bytes as the reported size.                                        *)
THEOREM ReadsAreHonest == Spec => []ReadIsHonest
<1>1. FileInv => ReadIsHonest
  BY DEF FileInv, ReadInv, HonestAbout, BeginningOf, ReadIsHonest
<1> QED BY <1>1, FileAlways, PTL

(* Concurrent make_dir calls: whoever returns finds the whole path.        *)
THEOREM DirectoriesAreReady == Spec => []DirectoriesReady
<1>1. FileInv => DirectoriesReady BY DEF FileInv, DirInv
<1> QED BY <1>1, FileAlways, PTL

-----------------------------------------------------------------------------
(* The local file.  local_staged_path is the same for every download to a  *)
(* path, so that the promise needs downloads that do not overlap.          *)

Working(d) == pc[d] \in {"copy", "confirm", "rename"}

\* No two downloads to the path have their staged file open at a time.
DownloadsAreSerial == \A d, e \in Downloads : Working(d) /\ Working(e) => d = e

LocalInv ==
    /\ names[Local] # None => names[Local] # names[LocalStage]
    /\ \A d \in Downloads : pc[d] \in {"idle", "create"} =>
          names[Local] # d /\ names[LocalStage] # d /\ pos[d] = 0 /\ plan[d] = <<>>
    /\ \A d \in Downloads : Working(d) =>
          /\ names[LocalStage] # None /\ handle[d] = names[LocalStage]
          /\ data[handle[d]] = plan[d] /\ pos[d] = Len(plan[d])
    /\ LocalIsWhole

LEMMA SeqEqual ==
  ASSUME NEW S, NEW s \in Seq(S), NEW u \in Seq(S), Len(s) = Len(u), \A i \in 1 .. Len(s) : s[i] = u[i]
  PROVE  s = u
  OBVIOUS

LEMMA WriteAtEnd ==
  ASSUME NEW s \in Seq(Blocks), NEW b \in Blocks
  PROVE  WriteAt(s, Len(s) + 1, b) = Append(s, b)
<1>1. Len(s) + 1 > Len(s) /\ Len(s) \in Nat OBVIOUS
<1>2. WriteAt(s, Len(s) + 1, b) = [i \in 1 .. (Len(s) + 1) |->
                                     IF i = Len(s) + 1 THEN b ELSE IF i <= Len(s) THEN s[i] ELSE Hole]
  BY <1>1 DEF WriteAt
<1>3. /\ Append(s, b) \in Seq(Blocks) /\ Len(Append(s, b)) = Len(s) + 1
      /\ Append(s, b)[Len(s) + 1] = b /\ \A i \in 1 .. Len(s) : Append(s, b)[i] = s[i]
  OBVIOUS
<1>4. WriteAt(s, Len(s) + 1, b) \in Seq(Blocks) /\ Len(WriteAt(s, Len(s) + 1, b)) = Len(s) + 1
  <2>1. Len(s) + 1 \in Nat /\ Len(s) + 1 >= 1 BY <1>1
  <2>2. /\ WriteAt(s, Len(s) + 1, b) \in Seq(Blocks)
        /\ Len(WriteAt(s, Len(s) + 1, b)) = (IF Len(s) + 1 > Len(s) THEN Len(s) + 1 ELSE Len(s))
    BY <2>1, WriteAtType
  <2> QED BY <1>1, <2>2
<1>5. \A i \in 1 .. (Len(s) + 1) : WriteAt(s, Len(s) + 1, b)[i] = Append(s, b)[i]
  <2> TAKE i \in 1 .. (Len(s) + 1)
  <2>1. CASE i = Len(s) + 1 BY <1>1, <1>2, <1>3, <2>1
  <2>2. CASE i # Len(s) + 1
    <3>1. i \in 1 .. Len(s) BY <1>1, <2>2
    <3> QED BY <1>2, <1>3, <2>2, <3>1
  <2> QED BY <2>1, <2>2
<1> HIDE DEF WriteAt
<1> QED BY <1>3, <1>4, <1>5, SeqEqual

LEMMA LocalStep ==
  ASSUME NamesInv, NamesInv', LocalInv, DownloadsAreSerial, DownloadsAreSerial', [Next]_vars
  PROVE  LocalInv'
<1>t. /\ names \in [Names -> Inodes \cup {None}] /\ handle \in [Transfers -> Inodes \cup {None}]
      /\ pc \in [Transfers -> Steps] /\ plan \in [Transfers -> Seq(Blocks)]
      /\ pos \in [Transfers -> Nat] /\ data \in [Inodes -> Seq(Blocks)]
  BY DEF NamesInv, TypeInv, TypeOK
<1>p. /\ names[Local] \in Downloads \cup {None} /\ names[LocalStage] \in Downloads \cup {None}
      /\ \A d \in Downloads : handle[d] \in Downloads \cup {None}
  BY DEF NamesInv, PathInv
<1>k. /\ Downloads \subseteq Transfers /\ Downloads \subseteq Inodes /\ None \notin Downloads
      /\ Local \in Names /\ LocalStage \in Names /\ Local # LocalStage
  BY Kinds
<1>1. CASE UNCHANGED transferVars
  BY <1>1 DEF transferVars, fileVars, LocalInv, LocalIsWhole, Working, Exists, Content
<1>2. ASSUME NEW t \in Transfers \ Downloads, Alone(t), \A i \in Downloads : data'[i] = data[i],
             names'[Local] = names[Local], names'[LocalStage] = names[LocalStage]
      PROVE  LocalInv'
  <2>1. \A d \in Downloads : /\ pc'[d] = pc[d] /\ plan'[d] = plan[d] /\ pos'[d] = pos[d]
                             /\ handle'[d] = handle[d]
    BY <1>2, <1>k DEF Alone
  <2>2. \A d \in Downloads : Working(d) => handle[d] \in Downloads
    BY <1>p DEF LocalInv
  <2>3. LocalIsWhole' BY <1>2, <1>p, <2>1 DEF LocalInv, LocalIsWhole, Exists, Content
  <2> QED BY <1>2, <2>1, <2>2, <2>3 DEF LocalInv, Working
<1>3. ASSUME NEW t \in Downloads, DownloadStep(t), Alone(t) PROVE LocalInv'
  <2>0. t \in Transfers /\ Stage(t) = LocalStage BY <1>k DEF Stage
  <2>a. \A d \in Downloads : d # t => /\ pc'[d] = pc[d] /\ plan'[d] = plan[d] /\ pos'[d] = pos[d]
                                      /\ handle'[d] = handle[d]
    BY <1>3, <1>k DEF Alone
  <2>d. pc[t] # "done"
    BY <1>3 DEF DownloadStep, StartDownload, CreateLocal, ReceiveChunk, ReceivedAll, ConfirmDownload, Discard,
         RenameDownload, Step
  <2>l. ASSUME names'[Local] = names[Local], names[Local] # None => data'[names[Local]] = data[names[Local]]
        PROVE  LocalIsWhole'
    BY <2>a, <2>d, <2>l DEF LocalInv, LocalIsWhole, Exists, Content
  <2>1. CASE StartDownload(t) \/ ReceivedAll(t) \/ ConfirmDownload(t)
    <3>1. UNCHANGED <<names, data, plan, pos, handle>>
      BY <2>1 DEF StartDownload, ReceivedAll, ConfirmDownload, fileVars
    <3>2. \/ pc[t] = "idle" /\ pc'[t] = "create"
          \/ Working(t) /\ Working(t)'
      BY <1>t, <2>0, <2>1 DEF StartDownload, ReceivedAll, ConfirmDownload, Step, Working
    <3>3. LocalIsWhole' BY <2>l, <3>1
    <3> QED BY <2>a, <3>1, <3>2, <3>3 DEF LocalInv, Working
  <2>2. CASE CreateLocal(t)
    <3>1. pc[t] = "create" /\ pc' = [pc EXCEPT ![t] = "copy"] /\ UNCHANGED <<plan, pos>>
      BY <2>2 DEF CreateLocal, Step
    <3>2. PICK i \in Downloads : /\ i = names[LocalStage] \/ (i = t /\ names[LocalStage] = None)
                                 /\ names' = [names EXCEPT ![LocalStage] = i]
                                 /\ data' = [data EXCEPT ![i] = <<>>]
                                 /\ handle' = [handle EXCEPT ![t] = i]
      BY <1>p, <2>0, <2>2 DEF CreateLocal, OpenTruncated, Exists
    <3>3. /\ names'[Local] = names[Local] /\ names'[LocalStage] = i /\ handle'[t] = i /\ data'[i] = <<>>
          /\ pc'[t] = "copy"
      BY <1>t, <1>k, <2>0, <3>1, <3>2
    <3>4. i # names[Local] BY <1>k, <3>1, <3>2 DEF LocalInv
    <3>5. LocalIsWhole' BY <1>t, <2>l, <3>2, <3>3, <3>4
    <3>6. \A d \in Downloads : pc'[d] \in {"idle", "create"} =>
            names'[Local] # d /\ names'[LocalStage] # d /\ pos'[d] = 0 /\ plan'[d] = <<>>
      BY <2>a, <3>1, <3>2, <3>3 DEF LocalInv
    <3>7. plan'[t] = <<>> /\ pos'[t] = 0 BY <3>1 DEF LocalInv
    <3>8. \A d \in Downloads : Working(d)' => d = t
      BY <3>3 DEF DownloadsAreSerial, Working
    <3>9. \A d \in Downloads : Working(d)' =>
            /\ names'[LocalStage] # None /\ handle'[d] = names'[LocalStage]
            /\ data'[handle'[d]] = plan'[d] /\ pos'[d] = Len(plan'[d])
      BY <1>k, <3>3, <3>7, <3>8
    <3> QED BY <3>3, <3>4, <3>5, <3>6, <3>9 DEF LocalInv
  <2>3. CASE ReceiveChunk(t)
    <3>1. /\ pc[t] = "copy" /\ pc' = [pc EXCEPT ![t] = "copy"] /\ pos' = [pos EXCEPT ![t] = @ + 1]
          /\ UNCHANGED <<names, handle>>
      BY <2>3 DEF ReceiveChunk, Step
    <3>2. PICK b \in Received(data[source[t]][pos[t] + 1]) :
            /\ plan' = [plan EXCEPT ![t] = Append(@, b)]
            /\ data' = [data EXCEPT ![handle[t]] = WriteAt(@, pos[t] + 1, b)]
      BY <2>3 DEF ReceiveChunk
    <3> DEFINE i == handle[t]
    <3>3. i \in Downloads /\ i = names[LocalStage] /\ data[i] = plan[t] /\ pos[t] = Len(plan[t])
      BY <1>p, <3>1 DEF LocalInv, Working
    <3>4. b \in Blocks
      <4>1. source[t] \in Inodes BY <3>1, <2>0 DEF NamesInv, TypeInv, TypeOK, Progress
      <4>2. data[source[t]] \in Seq(Blocks) BY <1>t, <4>1
      <4>3. pos[t] < Len(data[source[t]]) BY <2>3 DEF ReceiveChunk
      <4>4. pos[t] \in Nat BY <1>t, <2>0
      <4>5. data[source[t]][pos[t] + 1] \in Blocks BY <4>2, <4>3, <4>4
      <4> QED BY <3>2, <4>5, ReceivedType, Kinds
    <3>5. plan[t] \in Seq(Blocks) BY <1>t, <2>0
    <3>6. WriteAt(data[i], pos[t] + 1, b) = Append(plan[t], b) BY <3>3, <3>4, <3>5, WriteAtEnd
    <3> HIDE DEF i
    <3>7. data'[i] = Append(plan[t], b) /\ \A j \in Downloads : j # i => data'[j] = data[j]
      BY <1>t, <1>k, <3>2, <3>3, <3>6 DEF i
    <3>8. plan'[t] = Append(plan[t], b) /\ pos'[t] = Len(plan[t]) + 1 /\ pc'[t] = "copy" /\ handle'[t] = i
      BY <1>t, <2>0, <3>1, <3>2, <3>3 DEF i
    <3>9. Len(Append(plan[t], b)) = Len(plan[t]) + 1 BY <3>4, <3>5
    <3>10. names[Local] # i BY <1>k, <3>3 DEF LocalInv
    <3>11. LocalIsWhole' BY <1>p, <2>l, <3>1, <3>7, <3>10
    <3>12. \A d \in Downloads : Working(d)' => d = t BY <3>8 DEF DownloadsAreSerial, Working
    <3>13. \A d \in Downloads : Working(d)' =>
            /\ names'[LocalStage] # None /\ handle'[d] = names'[LocalStage]
            /\ data'[handle'[d]] = plan'[d] /\ pos'[d] = Len(plan'[d])
      BY <1>k, <3>1, <3>3, <3>7, <3>8, <3>9, <3>12
    <3>14. \A d \in Downloads : pc'[d] \in {"idle", "create"} =>
            names'[Local] # d /\ names'[LocalStage] # d /\ pos'[d] = 0 /\ plan'[d] = <<>>
      BY <2>a, <3>1, <3>8 DEF LocalInv
    <3> QED BY <3>1, <3>11, <3>13, <3>14 DEF LocalInv
  <2>4. CASE Discard(t, "copy") \/ Discard(t, "confirm") \/ RenameDownload(t)
    <3>1. UNCHANGED <<data, plan, pos, handle>> /\ Working(t)
      BY <2>4 DEF Discard, RenameDownload, Step, Working
    <3>2. pc'[t] \in {"failed", "leaked", "done"} BY <1>t, <2>0, <2>4 DEF Discard, RenameDownload, Step
    <3>3. \A d \in Downloads : ~Working(d)'
      BY <2>a, <3>1, <3>2 DEF DownloadsAreSerial, Working
    <3>4. \/ names'[Local] = names[Local] /\ names'[LocalStage] \in {None, names[LocalStage]}
          \/ /\ names'[Local] = names[LocalStage] /\ names'[LocalStage] = None
             /\ pc'[t] = "done" /\ names[LocalStage] # None
      BY <1>t, <1>k, <2>0, <2>4 DEF Discard, RenameDownload, Unlink, Exists, Step
    <3>5. LocalIsWhole'
      <4>1. CASE names'[Local] = names[Local] BY <2>l, <3>1, <4>1
      <4>2. CASE names'[Local] = names[LocalStage] /\ pc'[t] = "done"
        <5>1. data'[names'[Local]] = plan'[t] BY <3>1, <4>2 DEF LocalInv
        <5> QED BY <4>2, <5>1 DEF LocalIsWhole, Content
      <4> QED BY <3>4, <4>1, <4>2
    <3>6. \A d \in Downloads : pc'[d] \in {"idle", "create"} =>
            names'[Local] # d /\ names'[LocalStage] # d /\ pos'[d] = 0 /\ plan'[d] = <<>>
      BY <1>k, <2>a, <3>1, <3>2, <3>4 DEF LocalInv
    <3>7. names'[Local] # None => names'[Local] # names'[LocalStage]
      BY <3>4 DEF LocalInv
    <3> QED BY <3>3, <3>5, <3>6, <3>7 DEF LocalInv
  <2> QED BY <1>3, <2>1, <2>2, <2>3, <2>4 DEF DownloadStep
<1>4. Uploads \cup SudoWrites \cup Reads \cup Mkdirs \subseteq Transfers \ Downloads BY Kinds
<1>5. ASSUME NEW t \in Uploads, OnlyIn({t}) PROVE \A i \in Downloads : data'[i] = data[i]
  BY <1>5, Kinds DEF OnlyIn
<1>6. ASSUME NEW t \in SudoWrites, data' = data \/ (handle'[t] # None /\ OnlyIn({handle'[t]}))
      PROVE  \A i \in Downloads : data'[i] = data[i]
  <2>1. handle'[t] \notin Downloads
    BY Kinds DEF NamesInv, PathInv, Seen, Versions, TeeFiles
  <2> QED BY <1>6, <2>1, Kinds DEF OnlyIn
<1>7. ActorStep BY WhoWrites
<1> QED BY <1>1, <1>2, <1>3, <1>4, <1>5, <1>6, <1>7, UploadNames, TeeNames, ReaderNames DEF ActorStep

LEMMA LocalInit == Init => LocalInv
<1> SUFFICES ASSUME Init PROVE LocalInv OBVIOUS
<1>1. /\ \A t \in Transfers : pc[t] = "idle" /\ pos[t] = 0 /\ plan[t] = <<>>
      /\ names = [n \in Names |-> IF n = Remote /\ names[Remote] # None THEN OldFile ELSE None]
  BY Kinds DEF Init
<1>2. names[Local] = None /\ names[LocalStage] = None BY <1>1, Kinds
<1>3. \A d \in Downloads : pc[d] = "idle" /\ pos[d] = 0 /\ plan[d] = <<>> /\ d # None
  BY <1>1, Kinds
<1> QED BY <1>2, <1>3 DEF LocalInv, LocalIsWhole, Working, Exists

(* As long as downloads to the path do not overlap, the local file is      *)
(* always all of what a completed download has read, whatever happens to   *)
(* the remote file and wherever a download fails.                          *)
THEOREM LocalWhole == Spec /\ []DownloadsAreSerial => []LocalIsWhole
<1>1. FileInv /\ LocalInv /\ DownloadsAreSerial /\ DownloadsAreSerial' /\ [Next]_vars => LocalInv'
  <2> SUFFICES ASSUME FileInv, LocalInv, DownloadsAreSerial, DownloadsAreSerial', [Next]_vars PROVE LocalInv'
    OBVIOUS
  <2>1. NamesInv /\ NamesInv' BY NamesStep DEF FileInv
  <2> QED BY <2>1, LocalStep
<1>2. LocalInv => LocalIsWhole BY DEF LocalInv
<1> QED BY <1>1, <1>2, LocalInit, FileAlways, PTL DEF Spec

=============================================================================
