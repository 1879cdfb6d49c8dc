--------------------------- MODULE RecordingProofs ---------------------------
(***************************************************************************)
(* Proofs about Recording: for any number of commands and readers, any     *)
(* sizes and limits, record() never loses output silently, a poller never  *)
(* sleeps while there is output for it, what poll_complete does not cover  *)
(* was announced as missing, and has_more comes with a cursor that moves.  *)
(*                                                                         *)
(* Why: an event has a number of its own and is in one place at a time, on *)
(* the way from its writer's hands (WriterInv, Placed, RowInv).  A reader  *)
(* subscribes before it reads, so until the version moves what it found    *)
(* still holds, or a writer is about to announce the change (WakeInv).     *)
(* The row a reader loaded as ended is final (ReaderInv).  As long as all  *)
(* of a command's events were stored, they were stored in order, so that   *)
(* its cursor separates what was delivered from what was not (CursorInv).  *)
(* A page is of what comes after the cursor, and takes at least the first  *)
(* of it (ReadInv).                                                        *)
(***************************************************************************)
EXTENDS Recording, DataLemmas

-----------------------------------------------------------------------------
(* Operators.                                                              *)

\* Nothing has no bytes.
LEMMA NoBytes == Bytes({}) = 0
  BY DEF Bytes, MapThenSumSet, MapThenFoldSet

\* The size of a set of events is that of its members, in any order.
LEMMA BytesSums ==
  ASSUME NEW S, IsFiniteSet(S), \A e \in S : e.size \in Nat
  PROVE  \E t : SumsOf(t, [e \in S |-> e.size], S) /\ Bytes(S) = t[S]
<1> DEFINE f == [e \in S |-> e.size]
           Sums(t) == t = [s \in SUBSET S |->
                             IF s = {} THEN 0
                             ELSE (CHOOSE x \in s : TRUE).size
                                    + t[s \ {CHOOSE x \in s : TRUE}]]
           w == CHOOSE t : Sums(t)
<1>1. f \in [S -> Nat] OBVIOUS
<1>2. \A s \in SUBSET S : s # {} => f[Pick(s)] = (CHOOSE x \in s : TRUE).size BY DEF Pick
<1>3. ASSUME NEW t PROVE Sums(t) <=> SumsOf(t, f, S)
  <2>1. [s \in SUBSET S |-> IF s = {} THEN 0 ELSE f[Pick(s)] + t[s \ {Pick(s)}]]
        = [s \in SUBSET S |-> IF s = {} THEN 0
                              ELSE (CHOOSE x \in s : TRUE).size
                                     + t[s \ {CHOOSE x \in s : TRUE}]]
    <3> HIDE DEF f
    <3> QED BY <1>2 DEF Pick
  <2> HIDE DEF f
  <2> QED BY <2>1 DEF SumsOf
<1>4. \E t : Sums(t)
  <2> HIDE DEF f, Sums
  <2> QED BY <1>1, <1>3, SumsExist
<1>5. Sums(w)
  <2> HIDE DEF Sums
  <2> QED BY <1>4
<1>6. SumsOf(w, f, S) BY <1>3, <1>5, Zenon
<1>7. Bytes(S) = w[S] BY DEF Bytes, MapThenSumSet, MapThenFoldSet
<1> QED BY <1>6, <1>7

\* A sum of sizes is a number.
LEMMA BytesType ==
  ASSUME NEW S, IsFiniteSet(S), \A e \in S : e.size \in Nat
  PROVE  Bytes(S) \in Nat
<1> DEFINE f == [e \in S |-> e.size]
<1>1. PICK t : SumsOf(t, f, S) /\ Bytes(S) = t[S] BY BytesSums
<1>2. f \in [S -> Nat] OBVIOUS
<1> HIDE DEF f
<1>3. Additive(t, f, S) BY <1>1, <1>2, SumsCommute
<1> QED BY <1>1, <1>3 DEF Additive

\* An event more is its size more.
LEMMA BytesAdd ==
  ASSUME NEW S, IsFiniteSet(S), \A e \in S : e.size \in Nat,
         NEW x, x \notin S, x.size \in Nat
  PROVE  Bytes(S \cup {x}) = Bytes(S) + x.size
<1> DEFINE U == S \cup {x}
           f == [e \in U |-> e.size]
           g == [e \in S |-> e.size]
<1>1. IsFiniteSet(U) /\ (\A e \in U : e.size \in Nat) /\ U \ {x} = S BY FS_AddElement
<1> HIDE DEF U
<1>2. PICK t : SumsOf(t, f, U) /\ Bytes(U) = t[U] BY <1>1, BytesSums
<1>3. PICK u : SumsOf(u, g, S) /\ Bytes(S) = u[S] BY BytesSums
<1>4. f \in [U -> Nat] /\ g \in [S -> Nat] /\ x \in U BY <1>1 DEF U
<1>5. (\A y \in S : f[y] = g[y]) /\ f[x] = x.size BY <1>4 DEF U
<1> HIDE DEF f, g
<1>6. t[U] = u[S] + f[x]
  <2>1. U = S \cup {x} BY DEF U
  <2> QED BY <1>2, <1>3, <1>4, <1>5, <2>1, SumsStep
<1>7. Bytes(S) \in Nat BY BytesType
<1>8. Bytes(U) = Bytes(S) + x.size BY <1>2, <1>3, <1>5, <1>6, <1>7
<1> QED BY <1>8 DEF U

\* The tail, a page and a cursor are made of what they are taken from.
LEMMA TrimType ==
  ASSUME NEW s \in Seq(Event)
  PROVE  /\ Trim(s) \in Seq(Event)
         /\ Range(Trim(s)) \subseteq Range(s)
<1> DEFINE Rest(n) == SubSeq(s, n + 1, Len(s))
           T == {n \in 0 .. Len(s) : SeqBytes(Rest(n)) <= LiveLimit}
<1>1. Len(s) \in T
  <2>1. Rest(Len(s)) = <<>> OBVIOUS
  <2>2. SeqBytes(<<>>) = 0
    <3>1. {<<>>[i] : i \in DOMAIN <<>>} = {} OBVIOUS
    <3> QED BY <3>1, NoBytes DEF SeqBytes
  <2> HIDE DEF Rest
  <2>3. SeqBytes(Rest(Len(s))) = 0 BY <2>1, <2>2, Zenon
  <2> QED BY <2>3, BoundsAssumption
<1>2. T \subseteq Nat /\ T # {} BY <1>1
<1>3. Min(T) \in T BY <1>2, NatMin
<1>4. PICK n \in 0 .. Len(s) : Trim(s) = Rest(n) BY <1>3 DEF Trim
<1>5. Rest(n) \in Seq(Event) /\ Len(Rest(n)) = Len(s) - n
      /\ \A i \in 1 .. Len(s) - n : Rest(n)[i] = s[n + i]
  OBVIOUS
<1> HIDE DEF Rest
<1>6. \A i \in 1 .. Len(s) - n : n + i \in DOMAIN s OBVIOUS
<1> QED BY <1>4, <1>5, <1>6, SMTT(30) DEF Range

LEMMA PageType ==
  ASSUME NEW S, S \subseteq Event
  PROVE  /\ DatabasePage(S) \subseteq S
         /\ \A p \in DatabasePage(S), e \in S : e.seq <= p.seq => e \in DatabasePage(S)
<1> DEFINE UpTo(n) == {e \in S : e.seq <= n}
           T == {n \in {0} \cup {e.seq : e \in S} :
                   /\ Cardinality(UpTo(n)) <= PageEvents
                   /\ Cardinality(UpTo(n)) > 1 => Bytes(UpTo(n)) <= ReadLimit}
<1>1. \A e \in S : e.seq \in 1 .. MaxEvents BY DEF Event
<1>2. 0 \in T
  <2>1. UpTo(0) = {} BY <1>1
  <2>2. Cardinality(UpTo(0)) = 0 BY <2>1, FS_EmptySet
  <2> QED BY <2>2, BoundsAssumption
<1>3. T \subseteq 0 .. MaxEvents /\ T # {}
  <2>1. T \subseteq {0} \cup {e.seq : e \in S} OBVIOUS
  <2>2. {0} \cup {e.seq : e \in S} \subseteq 0 .. MaxEvents BY <1>1, BoundsAssumption
  <2> HIDE DEF T
  <2> QED BY <1>2, <2>1, <2>2
<1>4. Max(T) \in 0 .. MaxEvents BY <1>3, NatMax, BoundsAssumption
<1>5. PICK n \in 0 .. MaxEvents : DatabasePage(S) = UpTo(n) BY <1>4 DEF DatabasePage
<1> QED BY <1>1, <1>5

LEMMA LastSeqType ==
  ASSUME NEW S, S \subseteq Event, NEW k \in 0 .. MaxEvents
  PROVE  /\ LastSeq(S, k) \in 0 .. MaxEvents
         /\ S = {} => LastSeq(S, k) = k
         /\ S # {} => /\ \E e \in S : LastSeq(S, k) = e.seq
                      /\ \A e \in S : e.seq <= LastSeq(S, k)
<1> DEFINE T == {e.seq : e \in S}
<1>1. T \subseteq 0 .. MaxEvents BY DEF Event
<1>2. CASE S = {} BY <1>2 DEF LastSeq
<1>3. CASE S # {}
  <2>1. T # {} BY <1>3
  <2>2. Max(T) \in T /\ \A y \in T : y <= Max(T) BY <1>1, <2>1, NatMax, BoundsAssumption
  <2> QED BY <1>1, <1>3, <2>2 DEF LastSeq
<1> QED BY <1>2, <1>3

-----------------------------------------------------------------------------
(* Types, and the events on their way.                                     *)

Holding(w)  == wpc[w] \in {"assigned", "rejected", "readable"}
Unplaced(w) == wpc[w] \in {"assigned", "rejected"}
Over(w)     == wpc[w] \in {"ended", "done"}

\* Events have numbers of their own, each is in at most one place, and the one
\* in a writer's hands is its latest.
WriterInv ==
    /\ \A e \in sent : e.seq <= sequence
    /\ \A e, f \in sent : e.seq = f.seq => e = f
    /\ events \cup Range(live) \cup vanished \subseteq sent
    /\ events \cap Range(live) = {}
    /\ vanished \cap (events \cup Range(live)) = {}
    /\ \A w \in Writers :
         /\ Holding(w) => /\ wev[w] \in sent /\ wev[w].from = w
                          /\ \A e \in sent : e.from = w => e.seq <= wev[w].seq
         /\ ~Holding(w) => wev[w] = NoEvent
         /\ Unplaced(w) => wev[w] \notin events \cup Range(live) \cup vanished

BaseInv == TypeOK /\ WriterInv

WriterStep(w) ==
    \/ \E size \in Sizes : Assign(w, size)
    \/ Store(w) \/ StoreUncounted(w) \/ AppendFails(w) \/ Reject(w) \/ RejectUnflagged(w)
    \/ PushLive(w) \/ Announce(w) \/ End(w) \/ EndFails(w) \/ AnnounceEnd(w)

ReaderStep(r) ==
    \/ \E b \in BOOLEAN : Poll(r, b)
    \/ Load(r) \/ ReadDatabase(r) \/ Reply(r) \/ Wait(r) \/ Wake(r) \/ Expire(r)

LEMMA StepCases ==
  ASSUME [Next]_vars
  PROVE  \/ UNCHANGED vars
         \/ \E w \in Writers : WriterStep(w)
         \/ \E r \in Readers : ReaderStep(r)
  BY DEF Next, Writer, Faults, Reader, WriterStep, ReaderStep

\* What a step of the reader r leaves alone.
ReaderFrame(r) ==
    /\ UNCHANGED <<sequence, storeVars, liveVars, version, writerVars>>
    /\ \A q \in Readers \ {r} : rpc'[q] = rpc[q] /\ rd'[q] = rd[q] /\ client'[q] = client[q]

LEMMA ReaderAlone ==
  ASSUME TypeOK, NEW r \in Readers, ReaderStep(r)
  PROVE  ReaderFrame(r)
<1>1. UNCHANGED <<sequence, storeVars, liveVars, version, writerVars>>
  BY DEF ReaderStep, Poll, Load, ReadDatabase, Reply, Wait, Wake, Expire
<1>2. /\ rpc \in [Readers -> {"idle", "load", "page", "live", "wait"}]
      /\ DOMAIN rd = Readers /\ DOMAIN client = Readers
  BY DEF TypeOK
<1>3. \A q \in Readers \ {r} : rpc'[q] = rpc[q]
  BY <1>2 DEF ReaderStep, Poll, Load, ReadDatabase, Reply, Wait, Wake, Expire, Read
<1>4. \A q \in Readers \ {r} : rd'[q] = rd[q]
  BY <1>2 DEF ReaderStep, Poll, Load, ReadDatabase, Reply, Wait, Wake, Expire
<1>5. \A q \in Readers \ {r} : client'[q] = client[q]
  BY <1>2 DEF ReaderStep, Poll, Load, ReadDatabase, Reply, Wait, Wake, Expire
<1> QED BY <1>1, <1>3, <1>4, <1>5 DEF ReaderFrame

LEMMA WithLiveType ==
  ASSUME TypeOK, NEW r \in Readers
  PROVE  WithLive(r) \subseteq Event
<1>1. rd[r].page \subseteq Event BY DEF TypeOK
<1>2. Range(live) \subseteq Event BY DEF TypeOK, Range
<1>3. LivePage(rd[r].page, LiveScope(r)) \subseteq LiveScope(r) BY DEF LivePage
<1> QED BY <1>1, <1>2, <1>3 DEF WithLive, LiveScope

LEMMA ReaderTypes ==
  ASSUME TypeOK, NEW r \in Readers, ReaderStep(r)
  PROVE  TypeOK'
<1> DEFINE Local == [seen : Nat, block : BOOLEAN, running : BOOLEAN,
                     truncated : BOOLEAN, page : SUBSET Event, more : BOOLEAN]
           Known == [cursor : 0 .. MaxEvents, got : SUBSET (1 .. MaxEvents),
                     complete : BOOLEAN, warned : BOOLEAN]
           Places == {"idle", "load", "page", "live", "wait"}
<1>1. /\ rpc \in [Readers -> Places] /\ rd \in [Readers -> Local] 
      /\ client \in [Readers -> Known] /\ version \in Nat
  BY DEF TypeOK
<1>2. UNCHANGED <<sequence, storeVars, liveVars, version, writerVars>>
  BY ReaderAlone DEF ReaderFrame
<1>3. SUFFICES rpc' \in [Readers -> Places] /\ rd' \in [Readers -> Local]
               /\ client' \in [Readers -> Known]
  BY <1>2 DEF TypeOK, storeVars, liveVars, writerVars
<1> HIDE DEF Local, Known, Places
<1>4. rpc' \in [Readers -> Places]
  BY <1>1 DEF ReaderStep, Poll, Load, ReadDatabase, Reply, Wait, Wake, Expire, Read, Places
<1>5. CASE \E b \in BOOLEAN : Poll(r, b)
  <2>1. PICK b \in BOOLEAN : Poll(r, b) BY <1>5
  <2>2. rd' \in [Readers -> Local] BY <1>1, <2>1, ZenonT(40) DEF Poll, Local
  <2> QED BY <1>1, <1>4, <2>1, <2>2 DEF Poll
<1>6. CASE Load(r)
  <2>1. r \in Commands => row[r] \in [running : BOOLEAN, truncated : BOOLEAN] BY DEF TypeOK
  <2>2. CASE r \in Commands
    <3>1. rd' = [rd EXCEPT ![r].running = row[r].running, ![r].truncated = row[r].truncated]
      BY <1>6, <2>2 DEF Load
    <3>2. row[r].running \in BOOLEAN /\ row[r].truncated \in BOOLEAN BY <2>1, <2>2
    <3>3. rd' \in [Readers -> Local] BY <1>1, <3>1, <3>2, ZenonT(40) DEF Local
    <3> QED BY <1>1, <1>4, <1>6, <3>3 DEF Load
  <2>3. CASE r \notin Commands BY <1>1, <1>4, <1>6, <2>3 DEF Load
  <2> QED BY <2>2, <2>3
<1>7. CASE ReadDatabase(r)
  <2> DEFINE S == {e \in events : InScope(r, e)}
  <2>1. S \subseteq Event BY DEF TypeOK
  <2>2. DatabasePage(S) \subseteq Event BY <2>1, PageType
  <2>3. rd' = [rd EXCEPT ![r].page = DatabasePage(S), ![r].more = DatabasePage(S) # S]
    BY <1>7 DEF ReadDatabase
  <2> HIDE DEF S
  <2>4. rd' \in [Readers -> Local] BY <1>1, <2>2, <2>3, ZenonT(40) DEF Local
  <2> QED BY <1>1, <1>4, <1>7, <2>4 DEF ReadDatabase
<1>8. CASE Reply(r)
  <2>1. rd' \in [Readers -> Local] BY <1>1, <1>8, ZenonT(40) DEF Reply, Local
  <2>2. NextCursor(r) \in 0 .. MaxEvents
    <3>1. client[r].cursor \in 0 .. MaxEvents BY <1>1 DEF Known
    <3> QED BY <3>1, WithLiveType, LastSeqType DEF NextCursor
  <2>3. client[r].got \cup {e.seq : e \in WithLive(r)} \subseteq 1 .. MaxEvents
    <3>1. client[r].got \subseteq 1 .. MaxEvents BY <1>1 DEF Known
    <3> QED BY <3>1, WithLiveType DEF Event
  <2>4. (Finished(r) /\ ~HasMore(r)) \in BOOLEAN /\ (rd[r].truncated \/ dropped) \in BOOLEAN
    OBVIOUS
  <2>5. client' \in [Readers -> Known]
    <3>1. [cursor   |-> NextCursor(r),
           got      |-> client[r].got \cup {e.seq : e \in WithLive(r)},
           complete |-> Finished(r) /\ ~HasMore(r),
           warned   |-> rd[r].truncated \/ dropped] \in Known
      BY <2>2, <2>3, <2>4 DEF Known
    <3> QED BY <1>1, <1>8, <3>1 DEF Reply
  <2> QED BY <1>4, <2>1, <2>5
<1>9. CASE Wait(r)
  <2>1. rd' \in [Readers -> Local] BY <1>1, <1>9 DEF Wait, Local
  <2> QED BY <1>1, <1>4, <1>9, <2>1 DEF Wait
<1>10. CASE Wake(r)
  <2>1. rd' \in [Readers -> Local] BY <1>1, <1>10 DEF Wake, Local
  <2> QED BY <1>1, <1>4, <1>10, <2>1 DEF Wake
<1>11. CASE Expire(r)
  <2>1. rd' \in [Readers -> Local] BY <1>1, <1>11 DEF Expire, Local
  <2> QED BY <1>1, <1>4, <1>11, <2>1 DEF Expire
<1> QED BY <1>5, <1>6, <1>7, <1>8, <1>9, <1>10, <1>11 DEF ReaderStep

LEMMA ReaderBase ==
  ASSUME BaseInv, NEW r \in Readers, ReaderStep(r) PROVE BaseInv'
<1>1. TypeOK' BY ReaderTypes DEF BaseInv
<1>2. UNCHANGED <<sequence, storeVars, liveVars, version, writerVars>>
  BY ReaderAlone DEF ReaderFrame, BaseInv
<1> QED BY <1>1, <1>2 DEF BaseInv, WriterInv, Holding, Unplaced, storeVars, liveVars, writerVars

\* The places of a writer's statements.
Statements == {"idle", "assigned", "rejected", "readable", "ended", "done"}

\* What a step of the writer w leaves alone.
WriterFrame(w) ==
    /\ UNCHANGED readerVars
    /\ \A v \in Writers \ {w} : wpc'[v] = wpc[v] /\ wev'[v] = wev[v]

LEMMA WriterAlone ==
  ASSUME TypeOK, NEW w \in Writers, WriterStep(w)
  PROVE  WriterFrame(w)
<1>1. DOMAIN wpc = Writers /\ DOMAIN wev = Writers BY DEF TypeOK
<1>2. UNCHANGED readerVars
  BY DEF WriterStep, Assign, Store, StoreUncounted, AppendFails, Reject, RejectUnflagged,
     PushLive, Announce, End, EndFails, AnnounceEnd
<1>3. \A v \in Writers \ {w} : wpc'[v] = wpc[v]
  BY <1>1 DEF WriterStep, Assign, Store, StoreUncounted, AppendFails, Reject, RejectUnflagged,
     PushLive, Announce, End, EndFails, AnnounceEnd, Write
<1>4. \A v \in Writers \ {w} : wev'[v] = wev[v]
  BY <1>1 DEF WriterStep, Assign, Store, StoreUncounted, AppendFails, Reject, RejectUnflagged,
     PushLive, Announce, End, EndFails, AnnounceEnd
<1> QED BY <1>2, <1>3, <1>4 DEF WriterFrame

LEMMA HandType ==
  ASSUME BaseInv, NEW w \in Writers, Holding(w)
  PROVE  wev[w] \in Event /\ wev[w] \in sent /\ wev[w].from = w /\ wev[w].size \in Nat
<1>1. wev[w] \in Event /\ wev[w] \in sent /\ wev[w].from = w BY DEF BaseInv, WriterInv, TypeOK
<1> QED BY <1>1, BoundsAssumption DEF Event

LEMMA WriterBase ==
  ASSUME BaseInv, NEW w \in Writers, WriterStep(w) PROVE BaseInv'
<1> USE DEF BaseInv
<1>1. TypeOK /\ WriterInv OBVIOUS
<1>2. /\ UNCHANGED readerVars
      /\ \A v \in Writers \ {w} : wpc'[v] = wpc[v] /\ wev'[v] = wev[v]
  BY WriterAlone DEF WriterFrame
<1>3. /\ wpc \in [Writers -> Statements] /\ wev \in [Writers -> Event \cup {NoEvent}]
      /\ live \in Seq(Event) /\ events \subseteq Event /\ sent \subseteq Event
      /\ sequence \in 0 .. MaxEvents /\ recorded \in Nat /\ version \in Nat
      /\ row \in [Commands -> [running : BOOLEAN, truncated : BOOLEAN]]
      /\ dropped \in BOOLEAN /\ vanished \subseteq Event /\ unflagged \subseteq Event
  BY DEF TypeOK, Statements
<1>4. SUFFICES
      /\ wpc' \in [Writers -> Statements] /\ wev' \in [Writers -> Event \cup {NoEvent}]
      /\ live' \in Seq(Event) /\ events' \subseteq Event /\ sent' \subseteq Event
      /\ sequence' \in 0 .. MaxEvents /\ recorded' \in Nat /\ version' \in Nat
      /\ row' \in [Commands -> [running : BOOLEAN, truncated : BOOLEAN]]
      /\ dropped' \in BOOLEAN /\ vanished' \subseteq Event /\ unflagged' \subseteq Event
      /\ WriterInv'
  BY <1>1, <1>2 DEF TypeOK, Statements, readerVars
<1>5. wpc' \in [Writers -> Statements]
  BY <1>3 DEF WriterStep, Assign, Store, StoreUncounted, AppendFails, Reject, RejectUnflagged,
     PushLive, Announce, End, EndFails, AnnounceEnd, Write, Statements
<1>6. CASE \E size \in Sizes : Assign(w, size)
  <2>1. PICK size \in Sizes : Assign(w, size) BY <1>6
  <2> DEFINE e == [seq |-> sequence + 1, from |-> w, size |-> size]
  <2>2. /\ sequence < MaxEvents /\ sequence' = sequence + 1
        /\ wpc[w] = "idle" /\ wpc'[w] = "assigned"
        /\ wev' = [wev EXCEPT ![w] = e] /\ sent' = sent \cup {e}
        /\ UNCHANGED <<storeVars, liveVars, version>>
    BY <1>3, <2>1 DEF Assign, Write
  <2>3. sequence + 1 \in 1 .. MaxEvents BY <1>3, <2>2, BoundsAssumption
  <2>4. e \in Event BY <2>3 DEF Event
  <2>5. e.seq = sequence + 1 /\ e.from = w OBVIOUS
  <2> HIDE DEF e
  <2>6. wev'[w] = e /\ wev' \in [Writers -> Event \cup {NoEvent}] BY <1>3, <2>2, <2>4
  <2>7. \A f \in sent : f.seq \in Nat /\ f.seq <= sequence BY <1>1, <1>3 DEF WriterInv, Event
  <2>8. WriterInv'
    <3>1. \A f \in sent' : f.seq <= sequence' BY <1>3, <2>2, <2>5, <2>7
    <3>2. \A f, g \in sent' : f.seq = g.seq => f = g
      BY <1>1, <1>3, <2>2, <2>5, <2>7 DEF WriterInv
    <3>3. e \notin sent BY <1>3, <2>5, <2>7
    <3>4. /\ events' \cup Range(live') \cup vanished' \subseteq sent'
          /\ events' \cap Range(live') = {}
          /\ vanished' \cap (events' \cup Range(live')) = {}
          /\ e \notin events' \cup Range(live') \cup vanished'
      BY <1>1, <2>2, <3>3 DEF WriterInv, storeVars, liveVars
    <3>5. ASSUME NEW v \in Writers
          PROVE  /\ Holding(v)' => /\ wev'[v] \in sent' /\ wev'[v].from = v
                                   /\ \A f \in sent' : f.from = v => f.seq <= wev'[v].seq
                 /\ ~Holding(v)' => wev'[v] = NoEvent
                 /\ Unplaced(v)' => wev'[v] \notin events' \cup Range(live') \cup vanished'
      <4>1. CASE v = w
        <5>1. \A f \in sent' : f.seq <= e.seq BY <1>3, <2>2, <2>5, <2>7
        <5> QED BY <2>2, <2>5, <2>6, <3>4, <4>1, <5>1 DEF Holding
      <4>2. CASE v # w
        <5>1. wpc'[v] = wpc[v] /\ wev'[v] = wev[v] BY <1>2, <4>2
        <5> QED BY <1>1, <2>2, <2>5, <4>2, <5>1
                DEF Holding, Unplaced, WriterInv, storeVars, liveVars
      <4> QED BY <4>1, <4>2
    <3> QED BY <3>1, <3>2, <3>4, <3>5 DEF WriterInv
  <2> QED BY <1>3, <1>5, <2>2, <2>3, <2>4, <2>6, <2>8 DEF storeVars, liveVars
<1>7. CASE Store(w) \/ StoreUncounted(w)
  <2>1. /\ wpc[w] = "assigned" /\ wpc'[w] = "readable"
        /\ events' = events \cup {wev[w]} /\ recorded' \in {recorded, recorded + wev[w].size}
        /\ UNCHANGED <<sequence, row, vanished, unflagged, liveVars, version, wev, sent>>
    BY <1>3, <1>7 DEF Store, StoreUncounted, Write
  <2>2. wev[w] \in Event /\ wev[w] \in sent /\ wev[w].size \in Nat
    BY <2>1, HandType DEF Holding
  <2>3. wev[w] \notin Range(live) \cup vanished BY <1>1, <2>1 DEF WriterInv, Unplaced
  <2>4. ASSUME NEW v \in Writers
        PROVE  /\ Holding(v)' => /\ wev'[v] \in sent' /\ wev'[v].from = v
                                 /\ \A f \in sent' : f.from = v => f.seq <= wev'[v].seq
               /\ ~Holding(v)' => wev'[v] = NoEvent
               /\ Unplaced(v)' => wev'[v] \notin events' \cup Range(live') \cup vanished'
    <3>1. CASE v = w BY <1>1, <2>1, <3>1 DEF Holding, Unplaced, WriterInv
    <3>2. CASE v # w
      <4>1. wpc'[v] = wpc[v] /\ wev'[v] = wev[v] BY <1>2, <3>2
      <4>2. Holding(v) => wev[v] # wev[w]
        BY <2>1, <3>2, HandType DEF Holding
      <4> QED BY <1>1, <2>1, <4>1, <4>2 DEF Holding, Unplaced, WriterInv, liveVars
    <3> QED BY <3>1, <3>2
  <2>5. WriterInv' BY <1>1, <2>1, <2>2, <2>3, <2>4 DEF WriterInv, liveVars
  <2> QED BY <1>3, <1>5, <2>1, <2>2, <2>5 DEF liveVars
<1>8. CASE Reject(w) \/ RejectUnflagged(w)
  <2>1. /\ wpc[w] = "assigned" /\ wpc'[w] = "rejected"
        /\ unflagged' \in {unflagged, unflagged \cup {wev[w]}}
        /\ UNCHANGED <<sequence, events, recorded, vanished, liveVars, version, wev, sent>>
    BY <1>3, <1>8 DEF Reject, RejectUnflagged, Write
  <2>2. row' \in [Commands -> [running : BOOLEAN, truncated : BOOLEAN]]
    <3>1. CASE Reject(w) BY <1>3, <3>1 DEF Reject
    <3>2. CASE RejectUnflagged(w) BY <1>3, <3>2 DEF RejectUnflagged
    <3> QED BY <1>8, <3>1, <3>2
  <2>3. \A v \in Writers : /\ Holding(v)' <=> Holding(v)
                           /\ Unplaced(v)' <=> Unplaced(v)
    BY <1>2, <2>1 DEF Holding, Unplaced
  <2>4. WriterInv' BY <1>1, <2>1, <2>3 DEF WriterInv, liveVars
  <2>5. wev[w] \in Event BY <2>1, HandType DEF Holding
  <2> QED BY <1>3, <1>5, <2>1, <2>2, <2>4, <2>5 DEF liveVars
<1>9. CASE PushLive(w)
  <2> DEFINE s == Append(live, wev[w])
  <2>1. /\ wpc[w] = "rejected" /\ wpc'[w] = "readable"
        /\ live' = Trim(s) /\ dropped' = (dropped \/ Trim(s) # s)
        /\ UNCHANGED <<sequence, storeVars, version, wev, sent>>
    BY <1>3, <1>9 DEF PushLive, Write
  <2>2. wev[w] \in Event /\ wev[w] \in sent BY <2>1, HandType DEF Holding
  <2>3. s \in Seq(Event) /\ Range(s) = Range(live) \cup {wev[w]} BY <1>3, <2>2, RangeAppend
  <2> HIDE DEF s
  <2>4. live' \in Seq(Event) /\ Range(live') \subseteq Range(live) \cup {wev[w]}
    BY <2>1, <2>3, TrimType
  <2>5. wev[w] \notin events \cup vanished BY <1>1, <2>1 DEF WriterInv, Unplaced
  <2>6. ASSUME NEW v \in Writers
        PROVE  /\ Holding(v)' => /\ wev'[v] \in sent' /\ wev'[v].from = v
                                 /\ \A f \in sent' : f.from = v => f.seq <= wev'[v].seq
               /\ ~Holding(v)' => wev'[v] = NoEvent
               /\ Unplaced(v)' => wev'[v] \notin events' \cup Range(live') \cup vanished'
    <3>1. CASE v = w BY <1>1, <2>1, <3>1 DEF Holding, Unplaced, WriterInv
    <3>2. CASE v # w
      <4>1. wpc'[v] = wpc[v] /\ wev'[v] = wev[v] BY <1>2, <3>2
      <4>2. Holding(v) => wev[v] # wev[w]
        BY <2>1, <3>2, HandType DEF Holding
      <4> QED BY <1>1, <2>1, <2>4, <4>1, <4>2 DEF Holding, Unplaced, WriterInv, storeVars
    <3> QED BY <3>1, <3>2
  <2>7. WriterInv' BY <1>1, <2>1, <2>2, <2>4, <2>5, <2>6 DEF WriterInv, storeVars
  <2> QED BY <1>3, <1>5, <2>1, <2>4, <2>7 DEF storeVars
<1>10. CASE Announce(w)
  <2>1. /\ wpc[w] = "readable" /\ wpc'[w] = "idle"
        /\ wev' = [wev EXCEPT ![w] = NoEvent] /\ version' = version + 1
        /\ UNCHANGED <<sequence, storeVars, liveVars, sent>>
    BY <1>3, <1>10 DEF Announce, Write
  <2>2. wev'[w] = NoEvent /\ wev' \in [Writers -> Event \cup {NoEvent}] BY <1>3, <2>1
  <2>3. ASSUME NEW v \in Writers
        PROVE  /\ Holding(v)' => /\ wev'[v] \in sent' /\ wev'[v].from = v
                                 /\ \A f \in sent' : f.from = v => f.seq <= wev'[v].seq
               /\ ~Holding(v)' => wev'[v] = NoEvent
               /\ Unplaced(v)' => wev'[v] \notin events' \cup Range(live') \cup vanished'
    <3>1. CASE v = w BY <2>1, <2>2, <3>1 DEF Holding, Unplaced
    <3>2. CASE v # w
      <4>1. wpc'[v] = wpc[v] /\ wev'[v] = wev[v] BY <1>2, <3>2
      <4> QED BY <1>1, <2>1, <4>1 DEF Holding, Unplaced, WriterInv, liveVars, storeVars
    <3> QED BY <3>1, <3>2
  <2>4. WriterInv' BY <1>1, <2>1, <2>3 DEF WriterInv, liveVars, storeVars
  <2> QED BY <1>3, <1>5, <2>1, <2>2, <2>4 DEF liveVars, storeVars
<1>11. CASE End(w) \/ EndFails(w) \/ AnnounceEnd(w)
  <2>1. /\ wpc[w] \in {"idle", "ended"} /\ wpc'[w] \in {"ended", "done"}
        /\ version' \in {version, version + 1}
        /\ UNCHANGED <<sequence, events, recorded, vanished, unflagged, liveVars, wev, sent>>
    BY <1>3, <1>11 DEF End, EndFails, AnnounceEnd, Write, storeVars
  <2>2. row' \in [Commands -> [running : BOOLEAN, truncated : BOOLEAN]]
    <3>1. CASE End(w) BY <1>3, <3>1 DEF End
    <3>2. CASE EndFails(w) \/ AnnounceEnd(w) BY <1>3, <3>2 DEF EndFails, AnnounceEnd, storeVars
    <3> QED BY <1>11, <3>1, <3>2
  <2>3. \A v \in Writers : /\ Holding(v)' <=> Holding(v)
                           /\ Unplaced(v)' <=> Unplaced(v)
    BY <1>2, <2>1 DEF Holding, Unplaced
  <2>4. WriterInv' BY <1>1, <2>1, <2>3 DEF WriterInv, liveVars
  <2> QED BY <1>3, <1>5, <2>1, <2>2, <2>4 DEF liveVars
<1>12. CASE AppendFails(w)
  <2>1. /\ wpc[w] = "assigned" /\ wpc'[w] = "readable" /\ vanished' = vanished \cup {wev[w]}
        /\ UNCHANGED <<sequence, events, recorded, row, unflagged, liveVars, version, wev, sent>>
    BY <1>3, <1>12 DEF AppendFails, Write
  <2>2. wev[w] \in Event /\ wev[w] \in sent BY <2>1, HandType DEF Holding
  <2>3. wev[w] \notin events \cup Range(live) BY <1>1, <2>1 DEF WriterInv, Unplaced
  <2>4. ASSUME NEW v \in Writers
        PROVE  /\ Holding(v)' => /\ wev'[v] \in sent' /\ wev'[v].from = v
                                 /\ \A f \in sent' : f.from = v => f.seq <= wev'[v].seq
               /\ ~Holding(v)' => wev'[v] = NoEvent
               /\ Unplaced(v)' => wev'[v] \notin events' \cup Range(live') \cup vanished'
    <3>1. CASE v = w BY <1>1, <2>1, <3>1 DEF Holding, Unplaced, WriterInv
    <3>2. CASE v # w
      <4>1. wpc'[v] = wpc[v] /\ wev'[v] = wev[v] BY <1>2, <3>2
      <4>2. Holding(v) => wev[v] # wev[w] BY <2>1, <3>2, HandType DEF Holding
      <4> QED BY <1>1, <2>1, <4>1, <4>2 DEF Holding, Unplaced, WriterInv, liveVars
    <3> QED BY <3>1, <3>2
  <2>5. WriterInv' BY <1>1, <2>1, <2>2, <2>3, <2>4 DEF WriterInv, liveVars
  <2> QED BY <1>3, <1>5, <2>1, <2>2, <2>5 DEF liveVars
<1> QED BY <1>6, <1>7, <1>8, <1>9, <1>10, <1>11, <1>12 DEF WriterStep

LEMMA BaseInit == Init => BaseInv
<1> SUFFICES ASSUME Init PROVE BaseInv OBVIOUS
<1>1. /\ sequence = 0 /\ events = {} /\ live = <<>> /\ sent = {}
      /\ vanished = {} /\ unflagged = {}
  BY DEF Init
<1>2. Range(live) = {} BY <1>1 DEF Range
<1>3. WriterInv BY <1>1, <1>2 DEF WriterInv, Init, Holding, Unplaced
<1>4. rd \in [Readers -> [seen : Nat, block : BOOLEAN, running : BOOLEAN,
                          truncated : BOOLEAN, page : SUBSET Event, more : BOOLEAN]]
  BY DEF Init
<1>5. client \in [Readers -> [cursor : 0 .. MaxEvents, got : SUBSET (1 .. MaxEvents),
                              complete : BOOLEAN, warned : BOOLEAN]]
  BY BoundsAssumption DEF Init
<1>6. /\ row \in [Commands -> [running : BOOLEAN, truncated : BOOLEAN]]
      /\ wpc \in [Writers -> {"idle", "assigned", "rejected", "readable", "ended", "done"}]
      /\ wev \in [Writers -> Event \cup {NoEvent}]
      /\ rpc \in [Readers -> {"idle", "load", "page", "live", "wait"}]
  BY DEF Init
<1>7. recorded = 0 /\ dropped = FALSE /\ version = 0 BY DEF Init
<1>8. /\ live \in Seq(Event) /\ sequence \in 0 .. MaxEvents /\ recorded \in Nat
      /\ version \in Nat /\ events \subseteq Event /\ sent \subseteq Event
      /\ vanished \subseteq Event /\ unflagged \subseteq Event
  BY <1>1, <1>7, BoundsAssumption
<1>9. TypeOK BY <1>4, <1>5, <1>6, <1>7, <1>8, Zenon DEF TypeOK
<1> QED BY <1>3, <1>9 DEF BaseInv

LEMMA BaseStep == BaseInv /\ [Next]_vars => BaseInv'
<1> SUFFICES ASSUME BaseInv, [Next]_vars PROVE BaseInv' OBVIOUS
<1>1. CASE UNCHANGED vars
  BY <1>1 DEF BaseInv, TypeOK, WriterInv, Holding, Unplaced, vars, storeVars, liveVars,
     writerVars, readerVars
<1> QED BY <1>1, StepCases, WriterBase, ReaderBase
-----------------------------------------------------------------------------
(* Where output ends up.                                                   *)

\* An event is stored, in the live tail or still in its writer's hands, unless
\* append_event has failed on it or live_tail_dropped is set.
Placed ==
    \A e \in sent : \/ e \in events \cup Range(live) \cup vanished \/ dropped
                    \/ \E w \in Writers : Unplaced(w) /\ wev[w] = e

\* A command that has no truncation flag has all of its output in the database,
\* but for what failed to get there and what failed to be flagged.
RowInv ==
    \A c \in Commands :
      /\ ~row[c].running => c \in Writers /\ Over(c)
      /\ ~row[c].truncated => \A e \in sent : e.from = c =>
           \/ e \in events \cup vanished \cup unflagged
           \/ c \in Writers /\ wpc[c] = "assigned" /\ wev[c] = e

LEMMA PlacedStep ==
  ASSUME BaseInv, Placed, NEW w \in Writers, WriterStep(w) PROVE Placed'
<1>1. /\ wpc \in [Writers -> Statements] /\ wev \in [Writers -> Event \cup {NoEvent}]
      /\ live \in Seq(Event)
  BY DEF BaseInv, TypeOK, Statements
<1>2. \A v \in Writers \ {w} : /\ wpc'[v] = wpc[v] /\ wev'[v] = wev[v]
                               /\ Unplaced(v)' <=> Unplaced(v)
  BY WriterAlone DEF WriterFrame, BaseInv, Unplaced
<1>3. SUFFICES ASSUME NEW e \in sent', ~dropped'
               PROVE  \/ e \in events' \cup Range(live') \cup vanished'
                      \/ \E v \in Writers : Unplaced(v)' /\ wev'[v] = e
  BY DEF Placed
<1>4. CASE \E size \in Sizes : Assign(w, size)
  <2>1. PICK size \in Sizes : Assign(w, size) BY <1>4
  <2>2. /\ wpc[w] = "idle" /\ wpc'[w] = "assigned" /\ sent' = sent \cup {wev'[w]}
        /\ UNCHANGED <<storeVars, liveVars>>
    BY <1>1, <2>1 DEF Assign, Write
  <2>3. CASE e = wev'[w] BY <2>2, <2>3 DEF Unplaced
  <2>4. CASE e \in sent
    <3>1. e \in events \cup Range(live) \cup vanished
        \/ \E v \in Writers : Unplaced(v) /\ wev[v] = e
      BY <1>3, <2>2, <2>4 DEF Placed, liveVars
    <3> QED BY <1>2, <2>2, <3>1 DEF Unplaced, storeVars, liveVars
  <2> QED BY <2>2, <2>3, <2>4
<1>5. CASE Store(w) \/ StoreUncounted(w) \/ AppendFails(w)
  <2>1. /\ events \cup vanished \cup {wev[w]} = events' \cup vanished'
        /\ UNCHANGED <<liveVars, sent>>
    BY <1>5 DEF Store, StoreUncounted, AppendFails
  <2>2. e \in events \cup Range(live) \cup vanished
        \/ \E v \in Writers : Unplaced(v) /\ wev[v] = e
    BY <1>3, <2>1 DEF Placed, liveVars
  <2> QED BY <1>2, <2>1, <2>2 DEF liveVars
<1>6. CASE PushLive(w)
  <2>1. /\ live' = Trim(Append(live, wev[w])) /\ UNCHANGED <<events, vanished, sent>>
        /\ dropped' = (dropped \/ Trim(Append(live, wev[w])) # Append(live, wev[w]))
        /\ wpc[w] = "rejected"
    BY <1>6 DEF PushLive, storeVars, Write
  <2>2. live' = Append(live, wev[w]) /\ ~dropped BY <1>3, <2>1
  <2>3. wev[w] \in Event BY <2>1, HandType DEF Holding
  <2>4. Range(live') = Range(live) \cup {wev[w]} BY <1>1, <2>2, <2>3, RangeAppend
  <2>5. e \in events \cup Range(live) \cup vanished
        \/ \E v \in Writers : Unplaced(v) /\ wev[v] = e
    BY <2>1, <2>2 DEF Placed
  <2> QED BY <1>2, <2>1, <2>4, <2>5
<1>7. CASE Reject(w) \/ RejectUnflagged(w)
  <2>1. /\ UNCHANGED <<events, vanished, liveVars, sent, wev>>
        /\ wpc[w] = "assigned" /\ wpc'[w] = "rejected"
    BY <1>1, <1>7 DEF Reject, RejectUnflagged, Write
  <2>2. e \in events \cup Range(live) \cup vanished
        \/ \E v \in Writers : Unplaced(v) /\ wev[v] = e
    BY <1>3, <2>1 DEF Placed, liveVars
  <2>3. \A v \in Writers : Unplaced(v)' <=> Unplaced(v) BY <1>2, <2>1 DEF Unplaced
  <2> QED BY <2>1, <2>2, <2>3 DEF liveVars
<1>8. CASE Announce(w) \/ End(w) \/ EndFails(w) \/ AnnounceEnd(w)
  <2>1. /\ UNCHANGED <<events, vanished, liveVars, sent>> /\ ~Unplaced(w)
    BY <1>8 DEF Announce, End, EndFails, AnnounceEnd, Write, storeVars, Unplaced
  <2>2. e \in events \cup Range(live) \cup vanished
        \/ \E v \in Writers : Unplaced(v) /\ wev[v] = e
    BY <1>3, <2>1 DEF Placed, liveVars
  <2> QED BY <1>2, <2>1, <2>2 DEF liveVars
<1> QED BY <1>4, <1>5, <1>6, <1>7, <1>8 DEF WriterStep

LEMMA RowStep ==
  ASSUME BaseInv, RowInv, NEW w \in Writers, WriterStep(w) PROVE RowInv'
<1>1. /\ wpc \in [Writers -> Statements] /\ wev \in [Writers -> Event \cup {NoEvent}]
      /\ row \in [Commands -> [running : BOOLEAN, truncated : BOOLEAN]]
  BY DEF BaseInv, TypeOK, Statements
<1>2. \A v \in Writers \ {w} : /\ wpc'[v] = wpc[v] /\ wev'[v] = wev[v]
                               /\ Over(v)' <=> Over(v)
  BY WriterAlone DEF WriterFrame, BaseInv, Over
<1>3. SUFFICES ASSUME NEW c \in Commands
               PROVE  /\ ~row'[c].running => c \in Writers /\ Over(c)'
                      /\ ~row'[c].truncated => \A e \in sent' : e.from = c =>
                           \/ e \in events' \cup vanished' \cup unflagged'
                           \/ c \in Writers /\ wpc'[c] = "assigned" /\ wev'[c] = e
  BY DEF RowInv
<1>4. /\ ~row[c].running => c \in Writers /\ Over(c)
      /\ ~row[c].truncated => \A e \in sent : e.from = c =>
           \/ e \in events \cup vanished \cup unflagged
           \/ c \in Writers /\ wpc[c] = "assigned" /\ wev[c] = e
  BY DEF RowInv
<1>5. CASE \E size \in Sizes : Assign(w, size)
  <2>1. PICK size \in Sizes : Assign(w, size) BY <1>5
  <2>2. /\ wpc[w] = "idle" /\ wpc'[w] = "assigned" /\ sent' = sent \cup {wev'[w]}
        /\ wev'[w].from = w /\ UNCHANGED storeVars
    BY <1>1, <2>1 DEF Assign, Write
  <2> QED BY <1>2, <1>4, <2>2 DEF Over, storeVars
<1>6. CASE Store(w) \/ StoreUncounted(w) \/ AppendFails(w)
  <2>1. /\ wpc[w] = "assigned" /\ UNCHANGED <<row, unflagged, sent, wev>>
        /\ events \cup vanished \cup {wev[w]} = events' \cup vanished'
    BY <1>6 DEF Store, StoreUncounted, AppendFails, Write
  <2> QED BY <1>2, <1>4, <2>1 DEF Over
<1>7. CASE Reject(w)
  <2>1. /\ wpc[w] = "assigned" /\ UNCHANGED <<events, vanished, unflagged, sent, wev>>
        /\ row'[c] = IF c = w THEN [row[c] EXCEPT !.truncated = TRUE] ELSE row[c]
    BY <1>7 DEF Reject, Write
  <2>2. CASE c = w
    <3>1. row'[c].truncated /\ row'[c].running = row[c].running BY <1>1, <2>1, <2>2
    <3> QED BY <1>4, <2>1, <2>2, <3>1 DEF Over
  <2>3. CASE c # w BY <1>2, <1>4, <2>1, <2>3
  <2> QED BY <2>2, <2>3
<1>8. CASE PushLive(w) \/ Announce(w) \/ AnnounceEnd(w)
  <2>1. /\ UNCHANGED <<events, vanished, unflagged, row, sent>> /\ wpc[w] # "assigned"
        /\ Over(w) => wpc'[w] = "done"
    BY <1>1, <1>8 DEF PushLive, Announce, AnnounceEnd, Write, storeVars, Over
  <2> QED BY <1>2, <1>4, <2>1 DEF Over
<1>9. CASE End(w)
  <2>1. /\ UNCHANGED <<events, vanished, unflagged, sent, wev>>
        /\ wpc[w] = "idle" /\ wpc'[w] = "ended"
        /\ row'[c] = IF c = w THEN [row[c] EXCEPT !.running = FALSE] ELSE row[c]
    BY <1>1, <1>9 DEF End, Write
  <2>2. CASE c = w
    <3>1. row'[c].truncated = row[c].truncated BY <1>1, <2>1, <2>2
    <3> QED BY <1>4, <2>1, <2>2, <3>1 DEF Over
  <2>3. CASE c # w BY <1>2, <1>4, <2>1, <2>3
  <2> QED BY <2>2, <2>3
<1>10. CASE RejectUnflagged(w)
  <2>1. /\ wpc[w] = "assigned" /\ UNCHANGED <<events, vanished, row, sent, wev>>
        /\ unflagged' = unflagged \cup {wev[w]}
    BY <1>10 DEF RejectUnflagged, Write
  <2> QED BY <1>2, <1>4, <2>1 DEF Over
<1>11. CASE EndFails(w)
  <2>1. /\ wpc[w] = "idle" /\ wpc'[w] = "ended" /\ UNCHANGED <<storeVars, sent, wev>>
    BY <1>1, <1>11 DEF EndFails, Write
  <2> QED BY <1>2, <1>4, <2>1 DEF Over, storeVars
<1> QED BY <1>5, <1>6, <1>7, <1>8, <1>9, <1>10, <1>11 DEF WriterStep

-----------------------------------------------------------------------------
(* Waking up.                                                              *)

Pending == \E w \in Writers : wpc[w] \in {"readable", "ended"}

\* Nothing was announced since r has subscribed, and nothing is about to be.
Asleep(r) == version = rd[r].seen /\ ~Pending

\* As long as that is so, what r has found (that its command runs, that there
\* are no rows, that there is nothing at all) still holds.
WakeInv ==
    \A r \in Readers :
      /\ rd[r].seen <= version
      /\ rpc[r] \in {"page", "live"} /\ Asleep(r) /\ r \in Commands /\ rd[r].running =>
            row[r].running
      /\ rpc[r] = "live" /\ Asleep(r) /\ rd[r].page = {} /\ ~rd[r].more =>
            \A e \in events : ~InScope(r, e)
      /\ rpc[r] = "wait" /\ Asleep(r) =>
            /\ \A e \in events \cup Range(live) : ~InScope(r, e)
            /\ r \in Commands => row[r].running

(* A writer that changes what can be read either is about to announce it,  *)
(* or has just done so.                                                    *)
LEMMA StillAsleep ==
  ASSUME BaseInv, NEW w \in Writers, WriterStep(w), NEW r \in Readers,
         rd[r].seen <= version, Asleep(r)'
  PROVE  /\ Asleep(r) /\ UNCHANGED <<events, live>>
         /\ \A c \in Commands : row'[c].running = row[c].running
<1>1. /\ wpc \in [Writers -> Statements] /\ version \in Nat /\ rd[r].seen \in Nat
      /\ row \in [Commands -> [running : BOOLEAN, truncated : BOOLEAN]]
  BY DEF BaseInv, TypeOK, Statements
<1>2. rd' = rd /\ \A v \in Writers \ {w} : wpc'[v] = wpc[v]
  BY WriterAlone DEF WriterFrame, BaseInv, readerVars
<1>3. wpc'[w] \notin {"readable", "ended"} /\ version' = rd[r].seen
  BY <1>2 DEF Asleep, Pending
<1>4. ~(Store(w) \/ StoreUncounted(w) \/ AppendFails(w) \/ PushLive(w) \/ End(w) \/ EndFails(w))
  BY <1>1, <1>3 DEF Store, StoreUncounted, AppendFails, PushLive, End, EndFails, Write
<1>5. ~(Announce(w) \/ AnnounceEnd(w))
  BY <1>1, <1>3 DEF Announce, AnnounceEnd
<1>6. (\E size \in Sizes : Assign(w, size)) \/ Reject(w) \/ RejectUnflagged(w)
  BY <1>4, <1>5 DEF WriterStep
<1>7. UNCHANGED <<events, live, version>> /\ wpc[w] \in {"idle", "assigned"}
  BY <1>6 DEF Assign, Reject, RejectUnflagged, Write, storeVars, liveVars
<1>8. \A c \in Commands : row'[c].running = row[c].running
  BY <1>1, <1>6 DEF Assign, Reject, RejectUnflagged, storeVars
<1>9. Asleep(r) BY <1>2, <1>7 DEF Asleep, Pending
<1> QED BY <1>7, <1>8, <1>9

LEMMA WakeWriter ==
  ASSUME BaseInv, WakeInv, NEW w \in Writers, WriterStep(w) PROVE WakeInv'
<1>1. UNCHANGED readerVars BY WriterAlone DEF WriterFrame, BaseInv
<1>2. version \in Nat /\ version' \in {version, version + 1}
  BY DEF WriterStep, Assign, Store, StoreUncounted, AppendFails, Reject, RejectUnflagged,
     PushLive, Announce, End, EndFails, AnnounceEnd, BaseInv, TypeOK
<1>3. SUFFICES ASSUME NEW r \in Readers
      PROVE
      /\ rd'[r].seen <= version'
      /\ rpc'[r] \in {"page", "live"} /\ Asleep(r)' /\ r \in Commands /\ rd'[r].running =>
            row'[r].running
      /\ rpc'[r] = "live" /\ Asleep(r)' /\ rd'[r].page = {} /\ ~rd'[r].more =>
            \A e \in events' : ~InScope(r, e)'
      /\ rpc'[r] = "wait" /\ Asleep(r)' =>
            /\ \A e \in events' \cup Range(live') : ~InScope(r, e)'
            /\ r \in Commands => row'[r].running
  BY DEF WakeInv
<1>4. rd[r].seen <= version /\ rd[r].seen \in Nat BY DEF WakeInv, BaseInv, TypeOK
<1>5. rd'[r].seen <= version' BY <1>1, <1>2, <1>4 DEF readerVars
<1>6. CASE Asleep(r)'
  <2>1. /\ Asleep(r) /\ UNCHANGED <<events, live>>
        /\ \A c \in Commands : row'[c].running = row[c].running
    BY <1>4, <1>6, StillAsleep
  <2> QED BY <1>1, <1>5, <2>1 DEF WakeInv, InScope, readerVars
<1> QED BY <1>5, <1>6

LEMMA WakeReader ==
  ASSUME BaseInv, WakeInv, NEW r \in Readers, ReaderStep(r) PROVE WakeInv'
<1>1. /\ UNCHANGED <<sequence, storeVars, liveVars, version, writerVars>>
      /\ \A q \in Readers \ {r} : rpc'[q] = rpc[q] /\ rd'[q] = rd[q] /\ client'[q] = client[q]
  BY ReaderAlone DEF ReaderFrame, BaseInv
<1>2. /\ rpc \in [Readers -> {"idle", "load", "page", "live", "wait"}]
      /\ DOMAIN rd = Readers /\ version \in Nat
      /\ rd \in [Readers -> [seen : Nat, block : BOOLEAN, running : BOOLEAN,
                           truncated : BOOLEAN, page : SUBSET Event,
                           more : BOOLEAN]]
  BY DEF BaseInv, TypeOK
<1>3. SUFFICES ASSUME NEW q \in Readers
      PROVE
      /\ rd'[q].seen <= version'
      /\ rpc'[q] \in {"page", "live"} /\ Asleep(q)' /\ q \in Commands /\ rd'[q].running =>
            row'[q].running
      /\ rpc'[q] = "live" /\ Asleep(q)' /\ rd'[q].page = {} /\ ~rd'[q].more =>
            \A e \in events' : ~InScope(q, e)'
      /\ rpc'[q] = "wait" /\ Asleep(q)' =>
            /\ \A e \in events' \cup Range(live') : ~InScope(q, e)'
            /\ q \in Commands => row'[q].running
  BY DEF WakeInv
<1>4. CASE q # r
  BY <1>1, <1>4 DEF WakeInv, Asleep, Pending, InScope, storeVars, liveVars, writerVars
<1>5. CASE q = r
  <2>1. rd[r].seen <= version BY DEF WakeInv
  <2>2. CASE (\E b \in BOOLEAN : Poll(r, b)) \/ Wake(r) \/ Expire(r)
    <3>1. rpc'[r] = "load" BY <1>2, <2>2 DEF Poll, Wake, Expire, Read
    <3>2. rd'[r].seen \in {rd[r].seen, version} BY <1>2, <2>2 DEF Poll, Wake, Expire
    <3> QED BY <1>1, <1>2, <1>5, <2>1, <3>1, <3>2
  <2>3. CASE Load(r)
    <3>1. rpc'[r] = "page" BY <1>2, <2>3 DEF Load, Read
    <3>2. rd'[r].seen = rd[r].seen /\ (r \in Commands => rd'[r].running = row[r].running)
      BY <1>2, <2>3 DEF Load
    <3> QED BY <1>1, <1>5, <2>1, <3>1, <3>2 DEF storeVars
  <2>4. CASE ReadDatabase(r)
    <3> DEFINE S == {e \in events : InScope(r, e)}
    <3>1. rpc[r] = "page" /\ rpc'[r] = "live" /\ client' = client
      BY <1>2, <2>4 DEF ReadDatabase, Read
    <3>2. rd' = [rd EXCEPT ![r].page = DatabasePage(S), ![r].more = DatabasePage(S) # S]
      BY <2>4 DEF ReadDatabase
    <3> HIDE DEF S
    <3>3. /\ rd'[r].seen = rd[r].seen /\ rd'[r].running = rd[r].running
          /\ rd'[r].page = {} /\ ~rd'[r].more => S = {}
      BY <1>2, <3>2
    <3>4. Asleep(r)' => Asleep(r) BY <1>1, <3>3 DEF Asleep, Pending, writerVars
    <3>5. Asleep(r)' /\ r \in Commands /\ rd'[r].running => row'[r].running
      BY <1>1, <3>1, <3>3, <3>4 DEF WakeInv, storeVars
    <3>6. S = {} => \A e \in events' : ~InScope(r, e)'
      BY <1>1, <3>1 DEF S, InScope, storeVars
    <3> QED BY <1>1, <1>5, <2>1, <3>1, <3>3, <3>5, <3>6
  <2>5. CASE Reply(r)
    <3>1. rpc'[r] = "idle" BY <1>2, <2>5 DEF Reply, Read
    <3>2. rd'[r].seen = rd[r].seen BY <1>2, <2>5 DEF Reply
    <3> QED BY <1>1, <1>5, <2>1, <3>1, <3>2
  <2>6. CASE Wait(r)
    <3>1. rpc[r] = "live" /\ rpc'[r] = "wait" /\ Quiet(r) /\ client' = client
      BY <1>2, <2>6 DEF Wait, Read
    <3>2. rd'[r].seen = rd[r].seen BY <1>2, <2>6 DEF Wait
    <3>3. Asleep(r)' => Asleep(r) BY <1>1, <3>2 DEF Asleep, Pending, writerVars
    <3>4. ~rd[r].more /\ WithLive(r) = {} /\ LiveScope(r) \subseteq WithLive(r)
      BY <3>1 DEF Quiet, HasMore
    <3>5. rd[r].page = {} /\ LiveScope(r) = {} BY <3>4 DEF WithLive
    <3>6. r \in Commands => rd[r].running BY <3>1 DEF Quiet, Finished
    <3>7. Asleep(r) => \A e \in events : ~InScope(r, e) BY <3>1, <3>4, <3>5 DEF WakeInv
    <3>8. \A e \in Range(live) : ~InScope(r, e) BY <3>5 DEF LiveScope
    <3>9. Asleep(r) => (r \in Commands => row[r].running) BY <3>1, <3>6 DEF WakeInv
    <3> QED BY <1>1, <1>5, <2>1, <3>1, <3>2, <3>3, <3>7, <3>8, <3>9
            DEF InScope, storeVars, liveVars
  <2> QED BY <2>2, <2>3, <2>4, <2>5, <2>6 DEF ReaderStep
<1> QED BY <1>4, <1>5
-----------------------------------------------------------------------------
(* What a client is told.                                                  *)

\* A reader that has seen the end of its command has seen all of its row, and
\* its client does not poll again once it knows.
ReaderInv ==
    \A r \in Readers :
      /\ client[r].complete => rpc[r] = "idle" /\ r \in Commands /\ ~rd[r].running
      /\ r \in Commands =>
           /\ ~rd[r].running => ~row[r].running /\ rd[r].truncated = row[r].truncated
           /\ client[r].complete /\ ~client[r].warned => ~row[r].truncated

LEMMA ReaderInvWriter ==
  ASSUME BaseInv, RowInv, ReaderInv, NEW w \in Writers, WriterStep(w) PROVE ReaderInv'
<1>1. UNCHANGED readerVars BY WriterAlone DEF WriterFrame, BaseInv
<1>2. row \in [Commands -> [running : BOOLEAN, truncated : BOOLEAN]] BY DEF BaseInv, TypeOK
<1>3. ASSUME NEW c \in Commands, ~row[c].running PROVE row'[c] = row[c]
  <2>1. c \in Writers /\ Over(c) BY <1>3 DEF RowInv
  <2>2. CASE Reject(w) \/ End(w)
    <3>1. c # w BY <2>1, <2>2 DEF Over, Reject, End, Write
    <3> QED BY <1>2, <2>2, <3>1 DEF Reject, End
  <2>3. CASE ~(Reject(w) \/ End(w))
    BY <2>3 DEF WriterStep, Assign, Store, StoreUncounted, AppendFails, RejectUnflagged,
       PushLive, Announce, EndFails, AnnounceEnd, storeVars
  <2> QED BY <2>2, <2>3
<1> QED BY <1>1, <1>3 DEF ReaderInv, readerVars

LEMMA ReaderInvReader ==
  ASSUME BaseInv, ReaderInv, NEW r \in Readers, ReaderStep(r) PROVE ReaderInv'
<1>1. /\ row' = row
      /\ \A q \in Readers \ {r} : rpc'[q] = rpc[q] /\ rd'[q] = rd[q] /\ client'[q] = client[q]
  BY ReaderAlone DEF ReaderFrame, BaseInv, storeVars
<1>2. /\ rpc \in [Readers -> {"idle", "load", "page", "live", "wait"}]
      /\ rd \in [Readers -> [seen : Nat, block : BOOLEAN, running : BOOLEAN,
                             truncated : BOOLEAN, page : SUBSET Event, more : BOOLEAN]]
      /\ client \in [Readers -> [cursor : 0 .. MaxEvents, got : SUBSET (1 .. MaxEvents),
                                 complete : BOOLEAN, warned : BOOLEAN]]
  BY DEF BaseInv, TypeOK
<1>3. SUFFICES /\ client'[r].complete => rpc'[r] = "idle" /\ r \in Commands /\ ~rd'[r].running
               /\ r \in Commands =>
                    /\ ~rd'[r].running => ~row[r].running /\ rd'[r].truncated = row[r].truncated
                    /\ client'[r].complete /\ ~client'[r].warned => ~row[r].truncated
  BY <1>1 DEF ReaderInv
<1>4. /\ client[r].complete => rpc[r] = "idle" /\ r \in Commands /\ ~rd[r].running
      /\ r \in Commands =>
           /\ ~rd[r].running => ~row[r].running /\ rd[r].truncated = row[r].truncated
           /\ client[r].complete /\ ~client[r].warned => ~row[r].truncated
  BY DEF ReaderInv
<1>5. CASE Reply(r)
  <2>1. rpc'[r] = "idle" BY <1>2, <1>5 DEF Reply, Read
  <2>2. rd'[r].running = rd[r].running /\ rd'[r].truncated = rd[r].truncated
    BY <1>2, <1>5 DEF Reply
  <2>3. /\ client'[r].complete = (Finished(r) /\ ~HasMore(r))
        /\ client'[r].warned = (rd[r].truncated \/ dropped)
    BY <1>2, <1>5 DEF Reply
  <2> QED BY <1>4, <2>1, <2>2, <2>3 DEF Finished
<1>6. CASE ~Reply(r)
  <2>1. client' = client
    BY <1>6 DEF ReaderStep, Poll, Load, ReadDatabase, Wait, Wake, Expire
  <2>2. ~client[r].complete
    BY <1>4, <1>6 DEF ReaderStep, Poll, Load, ReadDatabase, Wait, Wake, Expire, Read
  <2>3. CASE Load(r)
    <3>1. r \in Commands => /\ rd'[r].running = row[r].running
                            /\ rd'[r].truncated = row[r].truncated
      BY <1>2, <2>3 DEF Load
    <3> QED BY <2>1, <2>2, <3>1
  <2>4. CASE ~Load(r)
    <3>1. rd'[r].running = rd[r].running /\ rd'[r].truncated = rd[r].truncated
      BY <1>2, <1>6, <2>4 DEF ReaderStep, Poll, ReadDatabase, Wait, Wake, Expire
    <3> QED BY <1>4, <2>1, <2>2, <3>1
  <2> QED BY <2>3, <2>4
<1> QED BY <1>5, <1>6

-----------------------------------------------------------------------------
(* Cursors.                                                                *)

Mine(r, e) == r = Shell \/ e.from = r
Stored(r) == {e \in events : Mine(r, e)}

\* All output that r may read is in the database, about to be put there, or
\* failed to be.
Clean(r) ==
    \A e \in sent : Mine(r, e) =>
       e \in events \cup vanished \/ \E w \in Writers : wpc[w] = "assigned" /\ wev[w] = e

\* What r reads is written by one writer.
OneSource(r) == r \in Commands \/ \A v, w \in Writers : v = w

\* Then the cursor separates what the client has been given from what it has
\* not, and a page is the beginning of the rest.
CursorOf(r) ==
    /\ client[r].cursor = 0 \/ \E e \in Stored(r) : e.seq = client[r].cursor
    /\ client[r].got = {e.seq : e \in {x \in Stored(r) : x.seq <= client[r].cursor}}
    /\ rd[r].page \subseteq {e \in Stored(r) : e.seq > client[r].cursor}
    /\ \A e \in Stored(r), p \in rd[r].page :
          e.seq > client[r].cursor /\ e.seq <= p.seq => e \in rd[r].page
    /\ rpc[r] = "live" /\ ~rd[r].more /\ r \in Commands /\ ~rd[r].running =>
          rd[r].page = {e \in Stored(r) : e.seq > client[r].cursor}
    /\ client[r].complete => \A e \in Stored(r) : e.seq <= client[r].cursor

CursorInv == \A r \in Readers : Clean(r) /\ OneSource(r) => CursorOf(r)

LEMMA CleanStays ==
  ASSUME BaseInv, NEW w \in Writers, WriterStep(w), NEW r \in Readers, Clean(r)'
  PROVE  Clean(r)
<1>1. /\ wpc \in [Writers -> Statements] /\ wev \in [Writers -> Event \cup {NoEvent}]
  BY DEF BaseInv, TypeOK, Statements
<1>2. \A v \in Writers \ {w} : wpc'[v] = wpc[v] /\ wev'[v] = wev[v]
  BY WriterAlone DEF WriterFrame, BaseInv
<1>3. sent \subseteq sent'
  BY DEF WriterStep, Assign, Store, StoreUncounted, AppendFails, Reject, RejectUnflagged,
     PushLive, Announce, End, EndFails, AnnounceEnd
<1>4. SUFFICES ASSUME NEW e \in sent, Mine(r, e)
               PROVE  \/ e \in events \cup vanished
                      \/ \E v \in Writers : wpc[v] = "assigned" /\ wev[v] = e
  BY DEF Clean
<1>5. e \in events' \cup vanished' \/ \E v \in Writers : wpc'[v] = "assigned" /\ wev'[v] = e
  BY <1>3, <1>4 DEF Clean, Mine
<1>6. CASE e \in events' \cup vanished'
  <2>1. \/ events' \cup vanished' = events \cup vanished
        \/ /\ wpc[w] = "assigned"
           /\ events' \cup vanished' = events \cup vanished \cup {wev[w]}
    BY DEF WriterStep, Assign, Store, StoreUncounted, AppendFails, Reject, RejectUnflagged,
       PushLive, Announce, End, EndFails, AnnounceEnd, Write, storeVars
  <2> QED BY <1>6, <2>1
<1>7. ASSUME NEW v \in Writers, wpc'[v] = "assigned", wev'[v] = e
      PROVE  e \in events \cup vanished \/ \E u \in Writers : wpc[u] = "assigned" /\ wev[u] = e
  <2>1. CASE v # w BY <1>2, <1>7, <2>1
  <2>2. CASE v = w
    <3>1. PICK size \in Sizes : Assign(w, size)
      BY <1>1, <1>7, <2>2 DEF WriterStep, Store, StoreUncounted, AppendFails, Reject,
         RejectUnflagged, PushLive, Announce, End, EndFails, AnnounceEnd, Write
    <3>2. wev'[w].seq = sequence + 1 BY <1>1, <3>1 DEF Assign
    <3>3. e.seq <= sequence /\ e.seq \in Nat /\ sequence \in Nat
      BY DEF BaseInv, WriterInv, TypeOK, Event
    <3> QED BY <1>7, <2>2, <3>2, <3>3
  <2> QED BY <2>1, <2>2
<1> QED BY <1>5, <1>6, <1>7

(* With one writer behind it, the output of a reader is stored in order.   *)
LEMMA StoredInOrder ==
  ASSUME BaseInv, NEW w \in Writers, WriterStep(w), NEW r \in Readers, OneSource(r)
  PROVE  \/ Stored(r)' = Stored(r)
         \/ /\ Stored(r)' = Stored(r) \cup {wev[w]} /\ wev[w] \in Event
            /\ \A e \in Stored(r) : e.seq < wev[w].seq
            /\ r \in Commands => r = w /\ wpc[w] = "assigned"
<1>1. CASE ~(Store(w) \/ StoreUncounted(w)) \/ ~Mine(r, wev[w])
  BY <1>1 DEF WriterStep, Assign, Store, StoreUncounted, AppendFails, Reject, RejectUnflagged,
     PushLive, Announce, End, EndFails, AnnounceEnd, storeVars, Stored, Mine
<1>2. CASE (Store(w) \/ StoreUncounted(w)) /\ Mine(r, wev[w])
  <2>1. wpc[w] = "assigned" /\ events' = events \cup {wev[w]}
    BY <1>2 DEF Store, StoreUncounted, Write
  <2>2. wev[w] \in Event /\ wev[w] \in sent /\ wev[w].from = w BY <2>1, HandType DEF Holding
  <2>3. Stored(r)' = Stored(r) \cup {wev[w]} BY <1>2, <2>1 DEF Stored, Mine
  <2>4. r \in Commands => r = w BY <1>2, <2>2, WritersAssumption DEF Mine
  <2>5. ASSUME NEW e \in Stored(r) PROVE e.seq < wev[w].seq
    <3>1. e \in events /\ e \in sent /\ e \in Event /\ Mine(r, e)
      BY DEF Stored, BaseInv, WriterInv, TypeOK
    <3>2. e.from = w
      <4>1. CASE r \in Commands BY <2>4, <3>1, <4>1, WritersAssumption DEF Mine
      <4>2. CASE \A u, v \in Writers : u = v BY <3>1, <4>2 DEF Event
      <4> QED BY <4>1, <4>2 DEF OneSource
    <3>3. e.seq <= wev[w].seq BY <2>1, <3>1, <3>2 DEF BaseInv, WriterInv, Holding
    <3>4. e # wev[w] BY <2>1, <3>1 DEF BaseInv, WriterInv, Unplaced
    <3>5. e.seq # wev[w].seq BY <2>2, <3>1, <3>4 DEF BaseInv, WriterInv
    <3>6. e.seq \in Nat /\ wev[w].seq \in Nat BY <2>2, <3>1 DEF Event
    <3> QED BY <3>3, <3>5, <3>6
  <2> QED BY <2>1, <2>2, <2>3, <2>4, <2>5
<1> QED BY <1>1, <1>2

LEMMA CursorWriter ==
  ASSUME BaseInv, RowInv, ReaderInv, CursorInv, NEW w \in Writers, WriterStep(w)
  PROVE  CursorInv'
<1>1. SUFFICES ASSUME NEW r \in Readers, Clean(r)', OneSource(r) PROVE CursorOf(r)'
  BY DEF CursorInv, OneSource
<1>2. CursorOf(r) BY <1>1, CleanStays DEF CursorInv
<1>3. UNCHANGED <<rpc, rd, client>> BY WriterAlone DEF WriterFrame, BaseInv, readerVars
<1>4. CASE Stored(r)' = Stored(r) BY <1>2, <1>3, <1>4 DEF CursorOf
<1>5. CASE /\ Stored(r)' = Stored(r) \cup {wev[w]} /\ wev[w] \in Event
           /\ \A e \in Stored(r) : e.seq < wev[w].seq
           /\ r \in Commands => r = w /\ wpc[w] = "assigned"
  <2>1. /\ client[r].cursor \in Nat /\ wev[w].seq \in Nat /\ wev[w].seq > 0
        /\ \A e \in Stored(r) : e.seq \in Nat
    BY <1>5 DEF BaseInv, TypeOK, Event, Stored
  <2>2. wev[w].seq > client[r].cursor BY <1>2, <1>5, <2>1 DEF CursorOf
  <2>3. {x \in Stored(r)' : x.seq <= client[r].cursor}
        = {x \in Stored(r) : x.seq <= client[r].cursor}
    BY <1>5, <2>1, <2>2
  <2>4. \A p \in rd[r].page : p \in Stored(r) BY <1>2 DEF CursorOf
  <2>5. \A p \in rd[r].page : ~(wev[w].seq <= p.seq) BY <1>5, <2>1, <2>4
  <2>6. r \in Commands => rd[r].running
    <3>1. r \in Commands => ~Over(r) BY <1>5 DEF Over
    <3> QED BY <3>1 DEF RowInv, ReaderInv
  <2>7. ~client[r].complete BY <2>6 DEF ReaderInv
  <2>8. client'[r].cursor = 0 \/ \E e \in Stored(r)' : e.seq = client'[r].cursor
    BY <1>2, <1>3, <1>5 DEF CursorOf
  <2>9. client'[r].got = {e.seq : e \in {x \in Stored(r)' : x.seq <= client'[r].cursor}}
    BY <1>2, <1>3, <2>3 DEF CursorOf
  <2>10. rd'[r].page \subseteq {e \in Stored(r)' : e.seq > client'[r].cursor}
    BY <1>2, <1>3, <1>5 DEF CursorOf
  <2>11. \A e \in Stored(r)', p \in rd'[r].page :
          e.seq > client'[r].cursor /\ e.seq <= p.seq => e \in rd'[r].page
    BY <1>2, <1>3, <1>5, <2>5 DEF CursorOf
  <2> QED BY <1>3, <2>6, <2>7, <2>8, <2>9, <2>10, <2>11 DEF CursorOf
<1> QED BY <1>1, <1>4, <1>5, StoredInOrder

LEMMA NoneInTail ==
  ASSUME BaseInv, NEW r \in Readers, Clean(r)
  PROVE  LiveScope(r) = {} /\ WithLive(r) = rd[r].page /\ (HasMore(r) <=> rd[r].more)
<1>1. ASSUME NEW e \in Range(live), Mine(r, e) PROVE FALSE
  <2>1. e \in sent /\ e \notin events \cup vanished BY DEF BaseInv, WriterInv
  <2>2. PICK v \in Writers : wpc[v] = "assigned" /\ wev[v] = e BY <1>1, <2>1 DEF Clean
  <2> QED BY <2>2 DEF BaseInv, WriterInv, Unplaced
<1>2. LiveScope(r) = {} BY <1>1 DEF LiveScope, InScope, Mine
<1>3. LivePage(rd[r].page, LiveScope(r)) \subseteq LiveScope(r) BY DEF LivePage
<1>4. WithLive(r) = rd[r].page BY <1>2, <1>3 DEF WithLive
<1> QED BY <1>2, <1>4 DEF HasMore

LEMMA CursorReader ==
  ASSUME BaseInv, ReaderInv, CursorInv, NEW r \in Readers, ReaderStep(r)
  PROVE  CursorInv'
<1>1. /\ UNCHANGED <<sequence, storeVars, liveVars, version, writerVars>>
      /\ \A q \in Readers \ {r} : rpc'[q] = rpc[q] /\ rd'[q] = rd[q] /\ client'[q] = client[q]
  BY ReaderAlone DEF ReaderFrame, BaseInv
<1>2. \A q \in Readers : Stored(q)' = Stored(q) /\ (Clean(q)' <=> Clean(q))
  BY <1>1 DEF Stored, Mine, Clean, storeVars, writerVars
<1>3. ASSUME NEW q \in Readers \ {r} PROVE CursorOf(q)' <=> CursorOf(q)
  <2>1. rpc'[q] = rpc[q] /\ rd'[q] = rd[q] /\ client'[q] = client[q] /\ Stored(q)' = Stored(q)
    BY <1>1, <1>2
  <2> QED BY <2>1 DEF CursorOf
<1>4. SUFFICES ASSUME Clean(r), OneSource(r) PROVE CursorOf(r)'
  BY <1>2, <1>3 DEF CursorInv, OneSource
<1>5. CursorOf(r) /\ Stored(r)' = Stored(r) BY <1>2, <1>4 DEF CursorInv
<1>6. /\ rpc \in [Readers -> {"idle", "load", "page", "live", "wait"}]
      /\ rd \in [Readers -> [seen : Nat, block : BOOLEAN, running : BOOLEAN,
                             truncated : BOOLEAN, page : SUBSET Event, more : BOOLEAN]]
      /\ client \in [Readers -> [cursor : 0 .. MaxEvents, got : SUBSET (1 .. MaxEvents),
                                 complete : BOOLEAN, warned : BOOLEAN]]
      /\ client[r].cursor \in Nat /\ \A e \in Stored(r) : e.seq \in Nat
  BY DEF BaseInv, TypeOK, Event, Stored
<1> DEFINE Rest == {e \in Stored(r) : e.seq > client[r].cursor}
<1>7. CASE (\E b \in BOOLEAN : Poll(r, b)) \/ Load(r) \/ Wake(r) \/ Expire(r)
  <2>1. client' = client /\ rpc'[r] # "live" /\ rd'[r].page = rd[r].page
    BY <1>6, <1>7 DEF Poll, Load, Wake, Expire, Read
  <2> QED BY <1>5, <2>1 DEF CursorOf
<1>8. CASE Wait(r)
  <2>1. client' = client /\ rpc'[r] = "wait" /\ rd'[r].page = {}
    BY <1>6, <1>8 DEF Wait, Read
  <2> QED BY <1>5, <2>1 DEF CursorOf
<1>9. CASE ReadDatabase(r)
  <2>1. {e \in events : InScope(r, e)} = Rest BY DEF InScope, Stored, Mine
  <2>2. /\ client' = client
        /\ rd' = [rd EXCEPT ![r].page = DatabasePage(Rest), ![r].more = DatabasePage(Rest) # Rest]
    BY <1>9, <2>1 DEF ReadDatabase
  <2>3. Rest \subseteq Event BY DEF Stored, BaseInv, TypeOK
  <2>4. \A e \in Rest : e \in Stored(r) /\ e.seq > client[r].cursor OBVIOUS
  <2>5. \A e \in Stored(r) : e.seq > client[r].cursor => e \in Rest OBVIOUS
  <2> HIDE DEF Rest
  <2>6. /\ DatabasePage(Rest) \subseteq Rest
        /\ \A p \in DatabasePage(Rest), e \in Rest : e.seq <= p.seq => e \in DatabasePage(Rest)
    BY <2>3, PageType
  <2>7. rd'[r].page = DatabasePage(Rest) /\ (~rd'[r].more => rd'[r].page = Rest)
    BY <1>6, <2>2
  <2>8. rd'[r].page \subseteq {e \in Stored(r) : e.seq > client[r].cursor} BY <2>4, <2>6, <2>7
  <2>9. \A e \in Stored(r), p \in rd'[r].page :
          e.seq > client[r].cursor /\ e.seq <= p.seq => e \in rd'[r].page
    BY <2>5, <2>6, <2>7
  <2>10. ~rd'[r].more => rd'[r].page = {e \in Stored(r) : e.seq > client[r].cursor}
    BY <2>7 DEF Rest
  <2> QED BY <1>5, <2>2, <2>8, <2>9, <2>10 DEF CursorOf
<1>10. CASE Reply(r)
  <2> DEFINE P == rd[r].page
             k == client[r].cursor
             n == LastSeq(P, k)
  <2>1. WithLive(r) = P /\ (HasMore(r) <=> rd[r].more) BY <1>4, NoneInTail
  <2>2. /\ client'[r].cursor = n /\ client'[r].got = client[r].got \cup {e.seq : e \in P}
        /\ client'[r].complete = (Finished(r) /\ ~rd[r].more) /\ rd'[r].page = {}
        /\ rpc[r] = "live" /\ rpc'[r] = "idle"
    BY <1>6, <1>10, <2>1 DEF Reply, NextCursor, Read
  <2>3. /\ P \subseteq Event /\ k \in 0 .. MaxEvents /\ P \subseteq Rest
        /\ \A e \in Rest, p \in P : e.seq <= p.seq => e \in P
    BY <1>5, <1>6 DEF CursorOf
  <2>4. /\ n \in 0 .. MaxEvents
        /\ P = {} => n = k
        /\ P # {} => /\ \E e \in P : n = e.seq
                     /\ \A e \in P : e.seq <= n
    BY <2>3, LastSeqType
  <2> HIDE DEF n, P
  <2>5. k <= n
    <3>1. CASE P = {} BY <1>6, <2>4, <3>1
    <3>2. CASE P # {}
      <4>1. PICK p \in P : n = p.seq BY <2>4, <3>2
      <4>2. p.seq > k /\ p.seq \in Nat BY <1>6, <2>3
      <4> QED BY <1>6, <4>1, <4>2
    <3> QED BY <3>1, <3>2
  <2>6. ASSUME NEW e \in Stored(r) PROVE e.seq <= n <=> e.seq <= k \/ e \in P
    <3>1. e.seq \in Nat /\ k \in Nat /\ n \in Nat BY <1>6, <2>4
    <3>2. e \in P => e.seq <= n BY <2>4
    <3>3. ASSUME e.seq <= n, ~(e.seq <= k) PROVE e \in P
      <4>1. P # {} BY <2>4, <3>3
      <4>2. PICK p \in P : n = p.seq BY <2>4, <4>1
      <4>3. e \in Rest BY <3>1, <3>3
      <4> QED BY <2>3, <3>3, <4>2, <4>3
    <3> QED BY <2>5, <3>1, <3>2, <3>3
  <2>7. n = 0 \/ \E e \in Stored(r) : e.seq = n
    BY <1>5, <2>3, <2>4 DEF CursorOf
  <2>8. client'[r].got = {e.seq : e \in {x \in Stored(r) : x.seq <= n}}
    <3>1. {x \in Stored(r) : x.seq <= n} = {x \in Stored(r) : x.seq <= k} \cup P
      BY <2>3, <2>6
    <3>2. client[r].got = {e.seq : e \in {x \in Stored(r) : x.seq <= k}} BY <1>5 DEF CursorOf
    <3> HIDE DEF k
    <3> QED BY <2>2, <3>1, <3>2
  <2>9. client'[r].complete => \A e \in Stored(r) : e.seq <= n
    <3>1. SUFFICES ASSUME Finished(r), ~rd[r].more, NEW e \in Stored(r) PROVE e.seq <= n
      BY <2>2
    <3>2. P = Rest BY <1>5, <2>2, <3>1 DEF CursorOf, Finished, P
    <3>3. e.seq <= k \/ e \in P BY <1>6, <3>2
    <3> QED BY <2>6, <3>3
  <2> QED BY <1>5, <2>2, <2>7, <2>8, <2>9, SMTT(30) DEF CursorOf
<1> QED BY <1>7, <1>8, <1>9, <1>10 DEF ReaderStep
-----------------------------------------------------------------------------
(* Pages.                                                                  *)

\* Events have numbers of their own.
Numbered(S) ==
    /\ IsFiniteSet(S) /\ \A e \in S : e.seq \in Nat
    /\ \A d, e \in S : d.seq = e.seq => d = e

LEMMA SentNumbered ==
  ASSUME BaseInv
  PROVE  Numbered(sent) /\ sent \subseteq Event /\ \A e \in sent : e.size \in Nat
<1>1. sent \subseteq Event /\ \A d, e \in sent : d.seq = e.seq => d = e
  BY DEF BaseInv, TypeOK, WriterInv
<1>2. \A e \in sent : e.seq \in 1 .. MaxEvents /\ e.size \in Nat
  BY <1>1, BoundsAssumption DEF Event
<1> DEFINE f == [e \in sent |-> e.seq]
<1>3. f \in Injection(sent, 1 .. MaxEvents) BY <1>1, <1>2 DEF Injection, IsInjective
<1>4. IsFiniteSet(1 .. MaxEvents) BY FS_Interval, BoundsAssumption
<1>5. IsFiniteSet(sent)
  <2> HIDE DEF f
  <2> QED BY <1>3, <1>4, FS_Injection
<1> QED BY <1>1, <1>2, <1>5 DEF Numbered

LEMMA NumberedPart ==
  ASSUME NEW S, Numbered(S), NEW T, T \subseteq S
  PROVE  Numbered(T)
  BY FS_Subset DEF Numbered

\* More than one event only within the limit.
Bounded(P) == Cardinality(P) > 1 => Bytes(P) <= ReadLimit

\* A first row is returned whatever its size.
LEMMA PageFits ==
  ASSUME NEW S, S \subseteq Event, Numbered(S)
  PROVE  /\ S # {} => DatabasePage(S) # {}
         /\ Bounded(DatabasePage(S))
<1> DEFINE UpTo(n) == {e \in S : e.seq <= n}
           Seqs == {e.seq : e \in S}
           T == {n \in {0} \cup Seqs :
                   /\ Cardinality(UpTo(n)) <= PageEvents
                   /\ Cardinality(UpTo(n)) > 1 => Bytes(UpTo(n)) <= ReadLimit}
<1>1. \A e \in S : e.seq \in 1 .. MaxEvents BY DEF Event
<1>2. T \subseteq 0 .. MaxEvents
  <2>1. T \subseteq {0} \cup Seqs OBVIOUS
  <2>2. {0} \cup Seqs \subseteq 0 .. MaxEvents BY <1>1, BoundsAssumption
  <2> HIDE DEF T, Seqs
  <2> QED BY <2>1, <2>2
<1>3. 0 \in T
  <2>1. UpTo(0) = {} BY <1>1
  <2>2. Cardinality(UpTo(0)) = 0 BY <2>1, FS_EmptySet
  <2> QED BY <2>2, BoundsAssumption
<1>4. Max(T) \in T /\ \A y \in T : y <= Max(T)
  <2> HIDE DEF T
  <2> QED BY <1>2, <1>3, NatMax, BoundsAssumption
<1>5. DatabasePage(S) = UpTo(Max(T)) BY DEF DatabasePage
<1>6. Bounded(DatabasePage(S))
  <2> DEFINE m == Max(T)
  <2>1. Cardinality(UpTo(m)) > 1 => Bytes(UpTo(m)) <= ReadLimit
    <3>1. m \in T BY <1>4
    <3> HIDE DEF m
    <3> QED BY <3>1
  <2> HIDE DEF UpTo, m, T
  <2> QED BY <1>5, <2>1 DEF Bounded, m
<1>7. ASSUME S # {} PROVE DatabasePage(S) # {}
  <2>1. Seqs \subseteq Nat /\ Seqs # {} BY <1>1, <1>7, BoundsAssumption
  <2>2. Min(Seqs) \in Seqs /\ \A y \in Seqs : Min(Seqs) <= y
    <3> HIDE DEF Seqs
    <3> QED BY <2>1, NatMin
  <2>3. PICK e \in S : e.seq = Min(Seqs) BY <2>2
  <2>4. e.seq \in Nat /\ \A d \in S : d.seq \in Nat /\ e.seq <= d.seq BY <1>1, <2>2, <2>3
  <2>5. UpTo(e.seq) = {e} BY <2>4 DEF Numbered
  <2>6. Cardinality(UpTo(e.seq)) = 1 BY <2>5, FS_Singleton
  <2>7. 1 <= PageEvents BY BoundsAssumption
  <2>8. e.seq \in T
    <3> HIDE DEF UpTo
    <3> QED BY <2>6, <2>7
  <2>9. Max(T) \in Nat /\ e.seq <= Max(T)
    <3>1. Max(T) \in 0 .. MaxEvents
      <4> HIDE DEF T
      <4> QED BY <1>2, <1>4
    <3> HIDE DEF T
    <3> QED BY <1>4, <2>8, <3>1, BoundsAssumption
  <2> DEFINE m == Max(T)
  <2>10. e \in UpTo(m)
    <3>1. e.seq <= m BY <2>9
    <3> HIDE DEF m
    <3> QED BY <3>1
  <2> HIDE DEF T
  <2> QED BY <1>5, <2>10
<1> QED BY <1>6, <1>7

\* What is taken of the live tail, and that something is.
LEMMA LiveFits ==
  ASSUME NEW P, NEW S, S \subseteq Range(live), live \in Seq(Event)
  PROVE  /\ LivePage(P, S) \subseteq S
         /\ S # {} /\ P = {} => LivePage(P, S) # {}
         /\ \/ Cardinality(LivePage(P, S)) <= (IF P = {} THEN 1 ELSE 0)
            \/ Bytes(P \cup LivePage(P, S)) <= ReadLimit
<1> DEFINE n == Len(live)
           Taken(k) == {live[i] : i \in 1 .. k} \cap S
           Few(k) == Cardinality(Taken(k)) <= (IF P = {} THEN 1 ELSE 0)
           T == {k \in 0 .. n : Few(k) \/ Bytes(P \cup Taken(k)) <= ReadLimit}
           m == Max(T)
<1>1. n \in Nat OBVIOUS
<1>2. 0 \in T
  <2>1. Taken(0) = {} OBVIOUS
  <2>2. Cardinality(Taken(0)) = 0 BY <2>1, FS_EmptySet
  <2>3. Few(0)
    <3> HIDE DEF Taken
    <3> QED BY <2>2
  <2> HIDE DEF Few, n
  <2> QED BY <1>1, <2>3
<1>3. T \subseteq 0 .. n OBVIOUS
<1>4. m \in T /\ \A y \in T : y <= m
  <2> HIDE DEF T, n
  <2> QED BY <1>1, <1>2, <1>3, NatMax
<1>5. LivePage(P, S) = Taken(m) BY DEF LivePage
<1> HIDE DEF m
<1>6. Few(m) \/ Bytes(P \cup Taken(m)) <= ReadLimit
  <2> HIDE DEF Few, Taken
  <2> QED BY <1>4
<1>7. m \in Nat /\ m <= n
  <2> HIDE DEF T, n
  <2> QED BY <1>1, <1>3, <1>4
<1>8. ASSUME S # {}, P = {} PROVE Taken(m) # {}
  <2> DEFINE I == {i \in 1 .. n : live[i] \in S}
  <2>1. I \subseteq Nat /\ I # {} BY <1>1, <1>8 DEF Range
  <2>2. Min(I) \in I /\ \A y \in I : Min(I) <= y
    <3> HIDE DEF I
    <3> QED BY <2>1, NatMin
  <2> DEFINE i == Min(I)
  <2>3. i \in 1 .. n /\ live[i] \in S /\ \A y \in I : i <= y BY <2>2
  <2> HIDE DEF i
  <2>4. Taken(i) = {live[i]}
    <3>1. ASSUME NEW k \in 1 .. i, live[k] \in S PROVE k = i
      <4>1. k \in I BY <1>1, <2>3, <3>1
      <4> QED BY <2>3, <4>1
    <3>2. i \in 1 .. i BY <2>3
    <3> QED BY <2>3, <3>1, <3>2
  <2>5. Few(i)
    <3>1. Cardinality(Taken(i)) = 1 BY <2>4, FS_Singleton
    <3> HIDE DEF Taken
    <3> QED BY <1>8, <3>1
  <2>6. i \in T
    <3> HIDE DEF Few, Taken
    <3> QED BY <1>1, <2>3, <2>5
  <2>7. i <= m
    <3> HIDE DEF T
    <3> QED BY <1>4, <2>6
  <2>8. i \in 1 .. m BY <1>7, <2>3, <2>7
  <2> QED BY <2>3, <2>8
<1>9. Taken(m) \subseteq S OBVIOUS
<1> HIDE DEF Taken
<1> QED BY <1>5, <1>6, <1>8, <1>9

\* A cursor is behind the numbers given out and ahead of what was delivered.  A
\* page is of what comes after it, and is not empty if there is more.
ReadInv ==
    \A r \in Readers :
        /\ client[r].cursor <= sequence /\ \A k \in client[r].got : k <= client[r].cursor
        /\ rd[r].page \subseteq {e \in sent : InScope(r, e)}
        /\ rpc[r] = "live" => (rd[r].more => rd[r].page # {}) /\ Bounded(rd[r].page)

LEMMA PageInScope ==
  ASSUME BaseInv, ReadInv, NEW r \in Readers
  PROVE  WithLive(r) \subseteq {e \in sent : InScope(r, e)}
<1>1. rd[r].page \subseteq {e \in sent : InScope(r, e)} BY DEF ReadInv
<1>2. Range(live) \subseteq sent BY DEF BaseInv, WriterInv
<1>3. LivePage(rd[r].page, LiveScope(r)) \subseteq LiveScope(r) BY DEF LivePage
<1>4. LiveScope(r) \subseteq {e \in sent : InScope(r, e)} BY <1>2 DEF LiveScope
<1> QED BY <1>1, <1>3, <1>4 DEF WithLive

\* Where the last event of the page is, there the cursor goes.
LEMMA NextCursorIs ==
  ASSUME BaseInv, ReadInv, NEW r \in Readers
  PROVE  /\ NextCursor(r) \in Nat /\ client[r].cursor \in Nat
         /\ client[r].cursor <= NextCursor(r) /\ NextCursor(r) <= sequence
         /\ WithLive(r) # {} => client[r].cursor < NextCursor(r)
         /\ \A e \in WithLive(r) : e.seq \in Nat /\ e.seq <= NextCursor(r)
<1> DEFINE S == WithLive(r)
           k == client[r].cursor
           m == LastSeq(S, k)
<1>1. S \subseteq {e \in sent : InScope(r, e)} BY PageInScope
<1>2. k \in 0 .. MaxEvents /\ k \in Nat /\ sequence \in Nat /\ sent \subseteq Event
  BY DEF BaseInv, TypeOK
<1>3. \A e \in sent : e.seq \in Nat /\ e.seq <= sequence
  BY SentNumbered DEF Numbered, BaseInv, WriterInv
<1>4. k <= sequence BY DEF ReadInv
<1>5. S \subseteq Event /\ S \subseteq sent /\ \A e \in S : e.seq > k
  <2> HIDE DEF S
  <2> QED BY <1>1, <1>2 DEF InScope
<1> HIDE DEF S, k
<1>6. /\ m \in 0 .. MaxEvents /\ (S = {} => m = k)
      /\ S # {} => (\E e \in S : m = e.seq) /\ \A e \in S : e.seq <= m
  BY <1>2, <1>5, LastSeqType
<1>7. NextCursor(r) = m BY DEF NextCursor, S, k
<1> HIDE DEF m
<1>8. CASE S = {} BY <1>2, <1>4, <1>6, <1>7, <1>8 DEF S, k
<1>9. CASE S # {}
  <2>1. PICK e \in S : m = e.seq BY <1>6, <1>9
  <2>2. m \in Nat /\ m <= sequence /\ k < m BY <1>2, <1>3, <1>5, <2>1
  <2>3. \A d \in S : d.seq \in Nat /\ d.seq <= m BY <1>3, <1>5, <1>6
  <2> QED BY <1>2, <1>7, <2>2, <2>3 DEF S, k
<1> QED BY <1>8, <1>9

LEMMA ReadWriter ==
  ASSUME BaseInv, BaseInv', ReadInv, NEW w \in Writers, WriterStep(w)
  PROVE  ReadInv'
<1>1. UNCHANGED <<rpc, rd, client>> BY WriterAlone DEF WriterFrame, readerVars, BaseInv
<1>2. sequence \in Nat /\ sequence' \in Nat /\ \A r \in Readers : client[r].cursor \in Nat
  BY DEF BaseInv, TypeOK
<1>3. sequence <= sequence' /\ sent \subseteq sent'
  <2>1. CASE \E size \in Sizes : Assign(w, size) BY <1>2, <2>1 DEF Assign
  <2>2. CASE ~\E size \in Sizes : Assign(w, size)
    <3>1. sequence' = sequence /\ sent' = sent
      BY <2>2 DEF WriterStep, Store, StoreUncounted, AppendFails, Reject, RejectUnflagged,
         PushLive, Announce, End, EndFails, AnnounceEnd
    <3> QED BY <1>2, <3>1
  <2> QED BY <2>1, <2>2
<1>4. \A r \in Readers : client[r].cursor <= sequence => client[r].cursor <= sequence'
  BY <1>2, <1>3
<1>5. \A r \in Readers : \A e : InScope(r, e)' <=> InScope(r, e) BY <1>1 DEF InScope
<1> QED BY <1>1, <1>3, <1>4, <1>5 DEF ReadInv, Bounded

LEMMA ReadReader ==
  ASSUME BaseInv, ReadInv, NEW r \in Readers, ReaderStep(r)
  PROVE  ReadInv'
<1> DEFINE Local == [seen : Nat, block : BOOLEAN, running : BOOLEAN,
                     truncated : BOOLEAN, page : SUBSET Event, more : BOOLEAN]
<1>1. /\ sequence' = sequence /\ sent' = sent /\ events' = events
      /\ \A q \in Readers \ {r} : rpc'[q] = rpc[q] /\ rd'[q] = rd[q] /\ client'[q] = client[q]
  BY ReaderAlone DEF ReaderFrame, BaseInv, writerVars, storeVars
<1>2. /\ rd \in [Readers -> Local] /\ DOMAIN client = Readers
      /\ rpc \in [Readers -> {"idle", "load", "page", "live", "wait"}]
      /\ client[r].got \subseteq Nat /\ client[r].cursor \in Nat /\ sequence \in Nat
  BY DEF BaseInv, TypeOK
<1>3. SUFFICES /\ client'[r].cursor <= sequence
               /\ \A k \in client'[r].got : k <= client'[r].cursor
               /\ rd'[r].page \subseteq {e \in sent : InScope(r, e)'}
               /\ rpc'[r] = "live" => (rd'[r].more => rd'[r].page # {}) /\ Bounded(rd'[r].page)
  <2>1. ASSUME NEW q \in Readers \ {r}, NEW e PROVE InScope(q, e)' <=> InScope(q, e)
    BY <1>1 DEF InScope
  <2>2. Bounded(rd[r].page)' <=> Bounded(rd'[r].page) BY DEF Bounded
  <2> QED BY <1>1, <2>1, <2>2 DEF ReadInv, Bounded
<1>4. /\ client[r].cursor <= sequence /\ \A k \in client[r].got : k <= client[r].cursor
      /\ rd[r].page \subseteq {e \in sent : InScope(r, e)}
  BY DEF ReadInv
<1>5. CASE Reply(r)
  <2>1. rd'[r].page = {} /\ rpc'[r] = "idle" BY <1>2, <1>5 DEF Reply, Read
  <2>2. /\ client'[r].cursor = NextCursor(r)
        /\ client'[r].got = client[r].got \cup {e.seq : e \in WithLive(r)}
    BY <1>2, <1>5 DEF Reply
  <2>3. /\ NextCursor(r) \in Nat /\ client[r].cursor <= NextCursor(r) /\ NextCursor(r) <= sequence
        /\ \A e \in WithLive(r) : e.seq \in Nat /\ e.seq <= NextCursor(r)
    BY NextCursorIs
  <2>4. \A k \in client[r].got : k <= NextCursor(r) BY <1>2, <1>4, <2>3
  <2> QED BY <2>1, <2>2, <2>3, <2>4
<1>6. CASE ~Reply(r)
  <2>1. client' = client
    BY <1>6 DEF ReaderStep, Poll, Load, ReadDatabase, Wait, Wake, Expire
  <2>2. \A e : InScope(r, e)' <=> InScope(r, e) BY <2>1 DEF InScope
  <2>3. CASE ReadDatabase(r)
    <3> DEFINE S == {e \in events : InScope(r, e)}
    <3>1. S \subseteq sent /\ S \subseteq Event BY DEF BaseInv, TypeOK, WriterInv
    <3>2. rd'[r].page = DatabasePage(S) /\ rd'[r].more = (DatabasePage(S) # S)
      BY <1>2, <2>3 DEF ReadDatabase
    <3>3. \A e \in S : InScope(r, e)' BY <2>2
    <3> HIDE DEF S
    <3>4. Numbered(S) BY <3>1, SentNumbered, NumberedPart
    <3>5. /\ DatabasePage(S) \subseteq S /\ Bounded(DatabasePage(S))
          /\ S # {} => DatabasePage(S) # {}
      BY <3>1, <3>4, PageType, PageFits
    <3> QED BY <1>4, <2>1, <3>1, <3>2, <3>3, <3>5
  <2>4. CASE ~ReadDatabase(r)
    <3>1. rd'[r].page \subseteq rd[r].page
      BY <1>2, <1>6, <2>4 DEF ReaderStep, Poll, Load, Wait, Wake, Expire
    <3>2. rpc'[r] # "live"
      BY <1>2, <1>6, <2>4 DEF ReaderStep, Poll, Load, Wait, Wake, Expire, Read
    <3> QED BY <1>4, <2>1, <2>2, <3>1, <3>2
  <2> QED BY <2>3, <2>4
<1> QED BY <1>5, <1>6

\* has_more: something of the page, or of the tail, is there to move on to.
LEMMA InvProgress == BaseInv /\ ReadInv => MoreMeansProgress
<1>1. SUFFICES ASSUME BaseInv, ReadInv, NEW r \in Readers, rpc[r] = "live", HasMore(r)
               PROVE  NextCursor(r) > client[r].cursor
  BY DEF MoreMeansProgress
<1>2. WithLive(r) # {}
  <2> DEFINE P == rd[r].page
             S == LiveScope(r)
  <2>1. CASE rd[r].more BY <1>1, <2>1 DEF ReadInv, WithLive
  <2>2. CASE ~rd[r].more
    <3>1. WithLive(r) = P \cup LivePage(P, S) BY <2>2 DEF WithLive
    <3>2. ~(S \subseteq WithLive(r)) BY <1>1, <2>2 DEF HasMore
    <3>3. S \subseteq Range(live) BY DEF LiveScope
    <3>4. live \in Seq(Event) BY <1>1 DEF BaseInv, TypeOK
    <3> HIDE DEF P, S
    <3>5. S # {} /\ P = {} => LivePage(P, S) # {} BY <3>3, <3>4, LiveFits
    <3> QED BY <3>1, <3>2, <3>5
  <2> QED BY <2>1, <2>2
<1> QED BY <1>1, <1>2, NextCursorIs

LEMMA InvBounded == BaseInv /\ ReadInv => PageIsBounded
<1>1. SUFFICES ASSUME BaseInv, ReadInv, NEW r \in Readers, rpc[r] = "live"
               PROVE  Bounded(WithLive(r))
  BY DEF PageIsBounded, Bounded
<1> DEFINE P == rd[r].page
           S == LiveScope(r)
           L == LivePage(P, S)
<1>2. Bounded(P) BY <1>1 DEF ReadInv
<1>3. CASE rd[r].more BY <1>2, <1>3 DEF WithLive
<1>4. CASE ~rd[r].more
  <2>1. WithLive(r) = P \cup L BY <1>4 DEF WithLive
  <2>2. S \subseteq Range(live) BY DEF LiveScope
  <2>3. live \in Seq(Event) BY <1>1 DEF BaseInv, TypeOK
  <2>4. IsFiniteSet(L)
    <3>1. Range(live) \subseteq sent BY <1>1 DEF BaseInv, WriterInv
    <3>2. L \subseteq S BY DEF LivePage
    <3> HIDE DEF L, S
    <3> QED BY <1>1, <2>2, <3>1, <3>2, SentNumbered, FS_Subset DEF Numbered
  <2>5. Cardinality(L) <= (IF P = {} THEN 1 ELSE 0) \/ Bytes(P \cup L) <= ReadLimit
    <3> HIDE DEF P, S
    <3> QED BY <2>2, <2>3, LiveFits
  <2> HIDE DEF P, L
  <2>6. CASE Bytes(P \cup L) <= ReadLimit BY <2>1, <2>6 DEF Bounded
  <2>7. CASE P = {} /\ Cardinality(L) <= 1
    <3>1. P \cup L = L /\ Cardinality(L) \in Nat BY <2>4, <2>7, FS_CardinalityType
    <3> QED BY <2>1, <2>7, <3>1 DEF Bounded
  <2>8. CASE P # {} /\ Cardinality(L) <= 0
    <3>1. L = {} BY <2>4, <2>8, FS_CardinalityType, FS_EmptySet
    <3>2. P \cup L = P BY <3>1
    <3> QED BY <1>2, <2>1, <3>2 DEF Bounded, P
  <2> QED BY <2>5, <2>6, <2>7, <2>8
<1> QED BY <1>3, <1>4
-----------------------------------------------------------------------------
(* The theorems.                                                           *)

RecordingInv == BaseInv /\ Placed /\ RowInv /\ WakeInv /\ ReaderInv /\ CursorInv /\ ReadInv

LEMMA RecordingInit == Init => RecordingInv
<1> SUFFICES ASSUME Init PROVE RecordingInv OBVIOUS
<1>1. BaseInv BY BaseInit
<1>2. Placed BY DEF Init, Placed
<1>3. /\ \A c \in Commands : row[c].running /\ ~row[c].truncated
      /\ \A r \in Readers : /\ rd[r].seen = 0 /\ rd[r].running /\ rd[r].page = {}
                            /\ rpc[r] = "idle" /\ client[r].cursor = 0
                            /\ client[r].got = {} /\ ~client[r].complete
      /\ sent = {} /\ events = {} /\ version = 0 /\ sequence = 0
  BY DEF Init
<1>4. RowInv BY <1>3 DEF RowInv
<1>5. WakeInv BY <1>3 DEF WakeInv
<1>6. ReaderInv BY <1>3 DEF ReaderInv
<1>7. \A r \in Readers : Stored(r) = {} BY <1>3 DEF Stored
<1>8. CursorInv BY <1>3, <1>7 DEF CursorInv, CursorOf
<1>9. ReadInv BY <1>3 DEF ReadInv
<1> QED BY <1>1, <1>2, <1>4, <1>5, <1>6, <1>8, <1>9 DEF RecordingInv

LEMMA RecordingStep == RecordingInv /\ [Next]_vars => RecordingInv'
<1> SUFFICES ASSUME RecordingInv, [Next]_vars PROVE RecordingInv' OBVIOUS
<1>1. BaseInv /\ Placed /\ RowInv /\ WakeInv /\ ReaderInv /\ CursorInv /\ ReadInv
  BY DEF RecordingInv
<1>2. CASE UNCHANGED vars
  <2>1. BaseInv' BY <1>1, <1>2, BaseStep
  <2>2. UNCHANGED <<sequence, events, row, vanished, unflagged, live, dropped, version, wpc,
                  wev, sent, rpc, rd, client>>
    BY <1>2 DEF vars, storeVars, liveVars, writerVars, readerVars
  <2>3. Placed' BY <1>1, <2>2 DEF Placed, Unplaced
  <2>4. RowInv' BY <1>1, <2>2 DEF RowInv, Over
  <2>5. WakeInv' BY <1>1, <2>2 DEF WakeInv, Asleep, Pending, InScope
  <2>6. ReaderInv' BY <1>1, <2>2 DEF ReaderInv
  <2>7. \A r \in Readers : /\ Stored(r)' = Stored(r) /\ (Clean(r)' <=> Clean(r))
                           /\ OneSource(r)' <=> OneSource(r)
    BY <2>2 DEF Stored, Mine, Clean, OneSource
  <2>8. CursorInv' BY <1>1, <2>2, <2>7 DEF CursorInv, CursorOf
  <2>9. ReadInv' BY <1>1, <2>2 DEF ReadInv, InScope
  <2> QED BY <2>1, <2>3, <2>4, <2>5, <2>6, <2>8, <2>9 DEF RecordingInv
<1>3. ASSUME NEW w \in Writers, WriterStep(w) PROVE RecordingInv'
  <2>1. BaseInv' BY <1>1, <1>3, WriterBase
  <2>2. ReadInv' BY <1>1, <1>3, <2>1, ReadWriter
  <2> QED BY <1>1, <1>3, <2>1, <2>2, PlacedStep, RowStep, WakeWriter, ReaderInvWriter,
             CursorWriter
          DEF RecordingInv
<1>4. ASSUME NEW r \in Readers, ReaderStep(r) PROVE RecordingInv'
  <2>1. UNCHANGED <<storeVars, liveVars, writerVars>>
    BY <1>1, <1>4, ReaderAlone DEF ReaderFrame, BaseInv
  <2>2. Placed' BY <1>1, <2>1 DEF Placed, Unplaced, storeVars, liveVars, writerVars
  <2>3. RowInv' BY <1>1, <2>1 DEF RowInv, Over, storeVars, writerVars
  <2>4. ReadInv' BY <1>1, <1>4, ReadReader
  <2> QED BY <1>1, <1>4, <2>2, <2>3, <2>4, ReaderBase, WakeReader, ReaderInvReader, CursorReader
          DEF RecordingInv
<1> QED BY <1>2, <1>3, <1>4, StepCases

LEMMA RecordingAlways == Spec => []RecordingInv
  BY RecordingInit, RecordingStep, PTL DEF Spec

(* What the invariant says about the properties.                           *)
LEMMA InvPlaces == RecordingInv => NoSilentLoss
<1> SUFFICES ASSUME RecordingInv, ~dropped, NEW e \in Settled \ vanished
             PROVE  e \in events \cup Range(live)
  BY DEF NoSilentLoss
<1> QED BY DEF RecordingInv, Placed, Settled

LEMMA InvWakes == RecordingInv => NoLostWakeup
  BY DEF RecordingInv, WakeInv, Asleep, Pending, NoLostWakeup

(* The client of a command without a truncation flag, and none missing,    *)
(* has all that the database accepted when it is told so.                  *)
LEMMA CompleteHasAll ==
  ASSUME RecordingInv, NEW r \in Readers \cap Commands, Clean(r), client[r].complete
  PROVE  {e.seq : e \in Accepted(r)} = client[r].got
<1>1. BaseInv /\ RowInv /\ ReaderInv /\ CursorOf(r)
  BY DEF RecordingInv, CursorInv, OneSource
<1>2. r \in Writers /\ Over(r) BY <1>1 DEF ReaderInv, RowInv
<1>3. r # Shell BY WritersAssumption
<1>4. \A e \in sent : e.from = r => e \in events \cup vanished
  <2>1. SUFFICES ASSUME NEW e \in sent, e.from = r, NEW w \in Writers,
                        wpc[w] = "assigned", wev[w] = e
                 PROVE  FALSE
    BY DEF Clean, Mine
  <2>2. w = r BY <1>1, <2>1, HandType DEF Holding
  <2> QED BY <1>2, <2>1, <2>2 DEF Over
<1>5. Accepted(r) = Stored(r) BY <1>1, <1>3, <1>4 DEF Accepted, Stored, Mine, BaseInv, WriterInv
<1>6. {x \in Stored(r) : x.seq <= client[r].cursor} = Stored(r) BY <1>1 DEF CursorOf
<1> QED BY <1>1, <1>5, <1>6 DEF CursorOf

LEMMA CleanRow ==
  ASSUME RecordingInv, NEW c \in Commands, ~row[c].truncated, AllFlagged(c) PROVE Clean(c)
  BY WritersAssumption DEF RecordingInv, RowInv, Clean, Mine, AllFlagged

LEMMA InvWarns == RecordingInv => LossIsWarned
<1> SUFFICES ASSUME RecordingInv, NEW r \in Readers \cap Commands, client[r].complete,
                    AllFlagged(r), ~client[r].warned, NEW e \in Accepted(r)
             PROVE  e.seq \in client[r].got
  BY DEF LossIsWarned
<1>1. ~row[r].truncated BY DEF RecordingInv, ReaderInv
<1> QED BY <1>1, CleanRow, CompleteHasAll

(* Every variable keeps its type; cursors stay within the numbers given    *)
(* out.                                                                    *)
THEOREM RecordingTypeSafe == Spec => []TypeOK
<1>1. RecordingInv => TypeOK BY DEF RecordingInv, BaseInv
<1> QED BY <1>1, RecordingAlways, PTL

(* Output that append_event has accepted is never lost silently, with any  *)
(* number of writers that cross at any statement, any sizes and limits, and*)
(* any writes of the database that fail.  The events it fails on are lost  *)
(* without a flag.                                                         *)
THEOREM OutputIsKept == Spec => []NoSilentLoss
  BY InvPlaces, RecordingAlways, PTL

(* No poller sleeps while there is something for it, however writers and   *)
(* readers interleave: subscribing before reading is enough.               *)
THEOREM PollersWake == Spec => []NoLostWakeup
  BY InvWakes, RecordingAlways, PTL

(* Accepted output that is missing when poll_complete is reported was      *)
(* announced as missing in that reply, also if the limit was passed at the *)
(* last moment; unless an update of the command's flag has failed.         *)
THEOREM LossWarned == Spec => []LossIsWarned
  BY InvWarns, RecordingAlways, PTL

(* A client that is told has_more and polls on with the cursor of the      *)
(* reply moves forward, whatever it asks for and whatever the sizes.       *)
THEOREM PollsProgress == Spec => []MoreMeansProgress
<1>1. RecordingInv => MoreMeansProgress BY InvProgress DEF RecordingInv
<1> QED BY <1>1, RecordingAlways, PTL

(* No page of rows and live tail together exceeds max_bytes by more than a *)
(* single event.                                                           *)
THEOREM PagesBounded == Spec => []PageIsBounded
<1>1. RecordingInv => PageIsBounded BY InvBounded DEF RecordingInv
<1> QED BY <1>1, RecordingAlways, PTL

\* What was accepted of a command without a truncation flag, of which no update
\* has failed, is all there when poll_complete is reported.
UntruncatedIsAll ==
    \A r \in Readers \cap Commands :
        client[r].complete /\ ~row[r].truncated /\ AllFlagged(r) =>
            {e.seq : e \in Accepted(r)} = client[r].got

\* The cursor of such a command passes nothing that was accepted, or may still be.
UntruncatedIsInOrder ==
    \A r \in Readers \cap Commands : ~row[r].truncated /\ AllFlagged(r) =>
        \A e \in Accepted(r) : e.seq <= client[r].cursor => e.seq \in client[r].got

LEMMA InOrder ==
  ASSUME RecordingInv, NEW r \in Readers, Clean(r), OneSource(r), NEW e \in events, Mine(r, e),
         e.seq <= client[r].cursor
  PROVE  e.seq \in client[r].got
<1>1. CursorOf(r) /\ e \in Stored(r) BY DEF RecordingInv, CursorInv, Stored
<1> QED BY <1>1 DEF CursorOf

(* Whatever other commands and the shell do to the recording limit, what the*)
(* database accepted of a command without a truncation flag, of which no   *)
(* update has failed, is delivered completely.                             *)
THEOREM UntruncatedComplete == Spec => []UntruncatedIsAll
<1>1. RecordingInv => UntruncatedIsAll BY CleanRow, CompleteHasAll DEF UntruncatedIsAll
<1> QED BY <1>1, RecordingAlways, PTL

(* And its cursor never passes an event that was not given to the client,  *)
(* one that is still on its way to the database included, but for those that*)
(* failed to get there.                                                    *)
THEOREM UntruncatedInOrder == Spec => []UntruncatedIsInOrder
<1>1. ASSUME RecordingInv, NEW r \in Readers \cap Commands, ~row[r].truncated, AllFlagged(r),
             NEW e \in Accepted(r), e.seq <= client[r].cursor
      PROVE  e.seq \in client[r].got
  <2>1. /\ Clean(r) /\ OneSource(r)
        /\ e \in sent /\ e.from = r /\ e \notin vanished /\ e \notin unflagged
    BY <1>1, CleanRow DEF OneSource, Accepted, AllFlagged
  <2>2. CASE e \in events BY <1>1, <2>1, <2>2, InOrder DEF Mine
  <2>3. CASE e \notin events
    <3>1. r \in Writers /\ wpc[r] = "assigned" /\ wev[r] = e
      BY <1>1, <2>1, <2>3 DEF RecordingInv, RowInv
    <3>2. CursorOf(r) BY <1>1, <2>1 DEF RecordingInv, CursorInv
    <3>3. \A x \in Stored(r) : x.seq < e.seq
      <4>1. TAKE x \in Stored(r)
      <4>2. x \in events /\ x \in sent /\ x.from = r
        BY <1>1, <2>1, WritersAssumption DEF Stored, Mine, RecordingInv, BaseInv, WriterInv
      <4>3. x.seq <= e.seq /\ x # e
        BY <1>1, <2>1, <2>3, <3>1, <4>2 DEF RecordingInv, BaseInv, WriterInv, Holding
      <4>4. x.seq # e.seq BY <1>1, <2>1, <4>2, <4>3 DEF RecordingInv, BaseInv, WriterInv
      <4>5. x.seq \in Nat /\ e.seq \in Nat
        BY <1>1, <2>1, <4>2 DEF RecordingInv, BaseInv, TypeOK, Event
      <4> QED BY <4>3, <4>4, <4>5
    <3>4. e.seq \in Nat /\ e.seq > 0 BY <1>1, <2>1 DEF RecordingInv, BaseInv, TypeOK, Event
    <3>5. \A x \in Stored(r) : x.seq \in Nat
      BY <1>1, <2>1 DEF RecordingInv, BaseInv, TypeOK, Event, Stored
    <3> QED BY <1>1, <2>1, <3>2, <3>3, <3>4, <3>5 DEF CursorOf
  <2> QED BY <2>2, <2>3
<1>2. RecordingInv => UntruncatedIsInOrder BY <1>1 DEF UntruncatedIsInOrder
<1> QED BY <1>2, RecordingAlways, PTL

-----------------------------------------------------------------------------
(* As long as the recording limit of the session is not passed.            *)

NothingRejected == \A w \in Writers : wpc[w] # "rejected"

AllClean == \A e \in sent : \/ e \in events \cup vanished
                            \/ \E w \in Writers : wpc[w] = "assigned" /\ wev[w] = e

LEMMA AllCleanStep ==
  ASSUME BaseInv, AllClean, NothingRejected, NothingRejected', [Next]_vars PROVE AllClean'
<1>1. CASE UNCHANGED vars
  BY <1>1 DEF AllClean, vars, storeVars, writerVars
<1>2. ASSUME NEW r \in Readers, ReaderStep(r) PROVE AllClean'
  BY <1>2, ReaderAlone DEF ReaderFrame, BaseInv, AllClean, storeVars, writerVars
<1>3. ASSUME NEW w \in Writers, WriterStep(w) PROVE AllClean'
  <2>1. wpc \in [Writers -> Statements] /\ wev \in [Writers -> Event \cup {NoEvent}]
    BY DEF BaseInv, TypeOK, Statements
  <2>2. \A v \in Writers \ {w} : wpc'[v] = wpc[v] /\ wev'[v] = wev[v]
    BY <1>3, WriterAlone DEF WriterFrame, BaseInv
  <2>3. ~Reject(w) /\ ~RejectUnflagged(w) /\ ~PushLive(w)
    BY <2>1 DEF Reject, RejectUnflagged, PushLive, Write, NothingRejected
  <2>4. CASE \E size \in Sizes : Assign(w, size)
    <3>1. /\ wpc[w] = "idle" /\ wpc'[w] = "assigned" /\ sent' = sent \cup {wev'[w]}
          /\ events' = events /\ vanished' = vanished
      BY <2>1, <2>4 DEF Assign, Write, storeVars
    <3> QED BY <2>2, <3>1 DEF AllClean
  <2>5. CASE Store(w) \/ StoreUncounted(w) \/ AppendFails(w)
    <3>1. events \cup vanished \cup {wev[w]} = events' \cup vanished' /\ sent' = sent
      BY <2>5 DEF Store, StoreUncounted, AppendFails
    <3> QED BY <2>2, <3>1 DEF AllClean
  <2>6. CASE Announce(w) \/ End(w) \/ EndFails(w) \/ AnnounceEnd(w)
    <3>1. wpc[w] # "assigned" /\ UNCHANGED <<events, vanished, sent>>
      BY <2>6 DEF Announce, End, EndFails, AnnounceEnd, Write, storeVars
    <3> QED BY <2>2, <3>1 DEF AllClean
  <2> QED BY <1>3, <2>3, <2>4, <2>5, <2>6 DEF WriterStep
<1> QED BY <1>1, <1>2, <1>3, StepCases

LEMMA AllCleanAlways == Spec /\ []NothingRejected => []AllClean
<1>1. Init => AllClean BY DEF Init, AllClean
<1>2. RecordingInv => BaseInv BY DEF RecordingInv
<1>3. BaseInv /\ AllClean /\ NothingRejected /\ NothingRejected' /\ [Next]_vars => AllClean'
  BY AllCleanStep
<1> QED BY <1>1, <1>2, <1>3, RecordingAlways, PTL DEF Spec

(* A session that stays below its recording limit: poll_complete means that*)
(* the client has everything of the command that append_event did not fail *)
(* to store, whichever other writes fail.                                  *)
THEOREM BelowLimitComplete == Spec /\ []NothingRejected => []CompleteMeansAll
<1>1. RecordingInv /\ AllClean => CompleteMeansAll
  BY CompleteHasAll DEF AllClean, Clean, CompleteMeansAll
<1> QED BY <1>1, RecordingAlways, AllCleanAlways, PTL

(* And no cursor passes output that was not delivered, for the shell too   *)
(* as long as it is the only one to write.  Two writers may store their    *)
(* events in the other order than they took their numbers, so that a       *)
(* reader of the whole session can miss the earlier one.                   *)
THEOREM BelowLimitInOrder ==
  ASSUME \A v, w \in Writers : v = w
  PROVE  Spec /\ []NothingRejected => []CursorSkipsNothing
<1>1. ASSUME RecordingInv, AllClean PROVE CursorSkipsNothing
  <2>1. SUFFICES ASSUME NEW r \in Readers, NEW e \in events \cup Range(live), Mine(r, e),
                        e.seq <= client[r].cursor
                 PROVE  e.seq \in client[r].got
    BY DEF CursorSkipsNothing, Mine
  <2>2. Clean(r) /\ OneSource(r) BY <1>1 DEF AllClean, Clean, OneSource
  <2>3. e \notin Range(live)
    <3>1. LiveScope(r) = {} /\ BaseInv BY <1>1, <2>2, NoneInTail DEF RecordingInv
    <3>2. e \in Range(live) => e \in sent /\ e \notin events \cup vanished
      BY <3>1 DEF BaseInv, WriterInv
    <3>3. \A w \in Writers : wpc[w] = "assigned" => wev[w] \notin Range(live)
      BY <3>1 DEF BaseInv, WriterInv, Unplaced
    <3> QED BY <1>1, <3>2, <3>3 DEF AllClean
  <2> QED BY <1>1, <2>1, <2>2, <2>3, InOrder
<1>2. RecordingInv /\ AllClean => CursorSkipsNothing BY <1>1
<1> QED BY <1>2, RecordingAlways, AllCleanAlways, PTL
=============================================================================
