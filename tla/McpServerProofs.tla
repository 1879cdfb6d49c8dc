--------------------------- MODULE McpServerProofs ---------------------------
(***************************************************************************)
(* What RecordingProofs shows of the daemon's pages holds behind the MCP   *)
(* server too: calls that break down at any moment, and replies that are   *)
(* lost, lose nothing when they are repeated.  And what the MCP server     *)
(* makes of the pages is exact, unless a reply is lost in the middle of a  *)
(* character: the text of a command's client is that of its bytes, chunks  *)
(* hold every event, and a text that was cut says so.                      *)
(*                                                                         *)
(* Why: a step of the MCP server is one of Recording's, or drops a page    *)
(* that was read for a call nobody waits for any more (CallBreaks,         *)
(* ReplyLost), which leaves the cursor and everything the daemon has where *)
(* they were.  A decoder is given the events of a page in the order of     *)
(* their sequences (SortedIsList).  If no event before the cursor is       *)
(* missing, the page is what comes next (CallGrowsSeen), so that the byte  *)
(* the decoder keeps is the first byte of the character that the page      *)
(* continues (DecodesExactly): twice the characters and that byte are all  *)
(* the bytes, from the first event on (ExactText).  After a lost reply the *)
(* decoder is ahead of the cursor and drops the byte it keeps, event by    *)
(* event, until the client has caught up; that is right where none of      *)
(* these events starts inside a character (InStep).                        *)
(***************************************************************************)
EXTENDS McpServer, RecordingProofs

-----------------------------------------------------------------------------
(* A page in order.                                                        *)

\* A page is a list of its events, each in it, in the order of their numbers.
LEMMA SortedIsList ==
  ASSUME NEW S, Numbered(S)
  PROVE  /\ Sorted(S) \in Seq(S) /\ Len(Sorted(S)) = Cardinality(S)
         /\ \A e \in S : \E i \in 1 .. Cardinality(S) : Sorted(S)[i] = e
         /\ \A i, j \in 1 .. Cardinality(S) : i < j => Sorted(S)[i].seq < Sorted(S)[j].seq
<1> DEFINE n == Cardinality(S)
           UpTo(e) == {d \in S : d.seq <= e.seq}
           rank == [e \in S |-> Cardinality(UpTo(e))]
<1>1. IsFiniteSet(S) /\ n \in Nat BY FS_CardinalityType DEF Numbered
<1>2. \A e \in S : IsFiniteSet(UpTo(e)) /\ Cardinality(UpTo(e)) \in Nat /\ Cardinality(UpTo(e)) <= n
  <2>1. SUFFICES ASSUME NEW e \in S
                 PROVE  /\ IsFiniteSet(UpTo(e))
                        /\ Cardinality(UpTo(e)) \in Nat /\ Cardinality(UpTo(e)) <= n
    OBVIOUS
  <2>2. UpTo(e) \in SUBSET S OBVIOUS
  <2> HIDE DEF UpTo
  <2> QED BY <1>1, <2>2, FS_Subset, FS_CardinalityType
<1>3. \A e \in S : Cardinality(UpTo(e)) # 0
  <2>1. SUFFICES ASSUME NEW e \in S PROVE Cardinality(UpTo(e)) # 0 OBVIOUS
  <2>2. e \in UpTo(e) BY DEF Numbered
  <2> HIDE DEF UpTo
  <2> QED BY <1>2, <2>2, FS_EmptySet
<1>4. \A d, e \in S : d.seq < e.seq => Cardinality(UpTo(d)) < Cardinality(UpTo(e))
  <2>1. SUFFICES ASSUME NEW d \in S, NEW e \in S, d.seq < e.seq
                 PROVE  Cardinality(UpTo(d)) < Cardinality(UpTo(e))
    OBVIOUS
  <2>2. UpTo(d) \in SUBSET UpTo(e) BY <2>1 DEF Numbered
  <2>3. e \in UpTo(e) /\ e \notin UpTo(d) BY <2>1 DEF Numbered
  <2>4. UpTo(e) # UpTo(d) BY <2>3, Zenon
  <2> HIDE DEF UpTo
  <2>5. /\ Cardinality(UpTo(d)) <= Cardinality(UpTo(e))
        /\ Cardinality(UpTo(e)) = Cardinality(UpTo(d)) => UpTo(e) = UpTo(d)
    BY <1>2, <2>2, FS_Subset
  <2> QED BY <1>2, <2>4, <2>5
<1>5. rank \in [S -> 1 .. n]
  <2> HIDE DEF UpTo, n
  <2>1. \A e \in S : Cardinality(UpTo(e)) \in 1 .. n BY <1>1, <1>2, <1>3
  <2> QED BY <2>1
<1>6. \A d, e \in S : rank[d] = rank[e] => d = e
  <2>1. SUFFICES ASSUME NEW d \in S, NEW e \in S, rank[d] = rank[e] PROVE d = e OBVIOUS
  <2>2. Cardinality(UpTo(d)) = Cardinality(UpTo(e)) BY <2>1
  <2>3. ~(d.seq < e.seq) /\ ~(e.seq < d.seq)
    <3> HIDE DEF UpTo
    <3> QED BY <1>2, <1>4, <2>2
  <2> QED BY <2>3 DEF Numbered
<1>7. \A i \in 1 .. n : \E e \in S : rank[e] = i
  <2> HIDE DEF rank, n
  <2>1. rank \in Injection(S, 1 .. n) BY <1>5, <1>6 DEF Injection, IsInjective
  <2>2. IsFiniteSet(1 .. n) /\ Cardinality(1 .. n) = n BY <1>1, FS_Interval
  <2>3. Cardinality(S) = Cardinality(1 .. n) BY <2>2 DEF n
  <2>4. rank \in Surjection(S, 1 .. n) BY <2>1, <2>2, <2>3, FS_Injection
  <2> QED BY <2>4 DEF Surjection
<1> DEFINE s == Sorted(S)
<1>8. s = [i \in 1 .. n |-> CHOOSE e \in S : Cardinality(UpTo(e)) = i] BY DEF Sorted
<1>9. \A i \in 1 .. n : s[i] \in S /\ rank[s[i]] = i
  <2>1. SUFFICES ASSUME NEW i \in 1 .. n PROVE s[i] \in S /\ rank[s[i]] = i OBVIOUS
  <2>2. s[i] = CHOOSE e \in S : Cardinality(UpTo(e)) = i BY <1>8
  <2>3. \E e \in S : Cardinality(UpTo(e)) = i BY <1>7
  <2> HIDE DEF UpTo, s, n
  <2>4. s[i] \in S /\ Cardinality(UpTo(s[i])) = i BY <2>2, <2>3
  <2> QED BY <2>4
<1> HIDE DEF s, n, rank
<1>10. s \in [1 .. n -> S] BY <1>8, <1>9
<1>11. s \in Seq(S) /\ Len(s) = n BY <1>1, <1>10
<1>12. \A e \in S : \E i \in 1 .. n : s[i] = e
  <2>1. SUFFICES ASSUME NEW e \in S PROVE \E i \in 1 .. n : s[i] = e OBVIOUS
  <2>2. rank[e] \in 1 .. n BY <1>5
  <2>3. s[rank[e]] = e BY <1>6, <1>9, <2>2
  <2> QED BY <2>2, <2>3
<1>13. \A i, j \in 1 .. n : i < j => s[i].seq < s[j].seq
  <2>1. SUFFICES ASSUME NEW i \in 1 .. n, NEW j \in 1 .. n, i < j
                 PROVE  s[i].seq < s[j].seq
    OBVIOUS
  <2>2. s[i] \in S /\ s[j] \in S /\ rank[s[i]] = i /\ rank[s[j]] = j BY <1>9
  <2>3. s[i].seq \in Nat /\ s[j].seq \in Nat BY <2>2 DEF Numbered
  <2>4. s[i].seq # s[j].seq BY <2>1, <2>2 DEF Numbered
  <2>5. ~(s[j].seq < s[i].seq)
    <3>1. s[j].seq < s[i].seq => Cardinality(UpTo(s[j])) < Cardinality(UpTo(s[i])) BY <1>4, <2>2
    <3>2. Cardinality(UpTo(s[j])) = j /\ Cardinality(UpTo(s[i])) = i BY <2>2 DEF rank
    <3> HIDE DEF UpTo
    <3> QED BY <2>1, <3>1, <3>2
  <2> QED BY <2>3, <2>4, <2>5
<1> QED BY <1>11, <1>12, <1>13 DEF s, n

-----------------------------------------------------------------------------
(* Decoding a page.                                                        *)

DecoderState == [last : Nat, pending : {0, 1}]
DecodedEvent == [seq : Nat, from : Writers, chars : Nat, bad : BOOLEAN, persisted : BOOLEAN]

\* A character has two bytes.
LEMMA PhaseType ==
  ASSUME BaseInv, NEW e
  PROVE  Phase(e) \in {0, 1}
<1> DEFINE S == {x \in sent : x.from = e.from /\ x.seq < e.seq}
<1>1. S \in SUBSET sent OBVIOUS
<1>2. IsFiniteSet(S) /\ \A x \in S : x.size \in Nat
  <2> HIDE DEF S
  <2> QED BY <1>1, SentNumbered, FS_Subset DEF Numbered
<1>3. Bytes(S) \in Nat
  <2> HIDE DEF S
  <2> QED BY <1>2, BytesType
<1>4. Phase(e) = Bytes(S) % 2 BY DEF Phase
<1> HIDE DEF S
<1> QED BY <1>3, <1>4

\* The maximum that decode_event_text keeps.
LEMMA LaterOf ==
  ASSUME NEW a \in Nat, NEW b \in Nat
  PROVE  Max({a, b}) = IF a < b THEN b ELSE a
<1> DEFINE T == {a, b}
<1>1. T \subseteq 0 .. a + b /\ T # {} /\ a + b \in Nat OBVIOUS
<1>2. Max(T) \in T /\ \A y \in T : y <= Max(T)
  <2> HIDE DEF T
  <2> QED BY <1>1, NatMax
<1> QED BY <1>2

\* A decoder in step with the stream returns whole characters and keeps the rest.
LEMMA DecodesEvent ==
  ASSUME BaseInv, NEW state \in DecoderState, NEW e \in Event
  PROVE  /\ decode_event_text(state, e).state \in DecoderState
         /\ decode_event_text(state, e).chars \in Nat
         /\ decode_event_text(state, e).bad \in BOOLEAN
         /\ decode_event_text(state, e).state.last
              = IF state.last < e.seq THEN e.seq ELSE state.last
         /\ (IF e.seq <= state.last THEN 0 ELSE state.pending) = Phase(e) =>
              /\ ~decode_event_text(state, e).bad
              /\ 2 * decode_event_text(state, e).chars
                   + decode_event_text(state, e).state.pending = Phase(e) + e.size
<1> DEFINE p == IF e.seq <= state.last THEN 0 ELSE state.pending
           b == p + e.size
           l == Max({state.last, e.seq})
<1>1. e.seq \in Nat /\ e.size \in Nat
  <2>1. e.seq \in 1 .. MaxEvents /\ e.size \in Sizes BY DEF Event
  <2>2. Sizes \subseteq Nat BY BoundsAssumption
  <2>3. e.seq \in Nat BY <2>1, BoundsAssumption
  <2>4. e.size \in Nat BY <2>1, <2>2, Zenon
  <2> QED BY <2>3, <2>4
<1>2. state.last \in Nat /\ state.pending \in {0, 1} BY DEF DecoderState
<1>3. l = (IF state.last < e.seq THEN e.seq ELSE state.last) /\ l \in Nat
  BY <1>1, <1>2, LaterOf
<1>4. p \in {0, 1} /\ b \in Nat BY <1>1, <1>2
<1>5. b % 2 \in {0, 1} /\ b \div 2 \in Nat /\ 2 * (b \div 2) + (b % 2) = b
  <2> HIDE DEF b
  <2> QED BY <1>4
<1>6. decode_event_text(state, e) =
        IF p = Phase(e)
        THEN [state |-> [last |-> l, pending |-> b % 2], chars |-> b \div 2, bad |-> FALSE]
        ELSE [state |-> [last |-> l, pending |-> 0], chars |-> 1 + b \div 2, bad |-> TRUE]
  BY DEF decode_event_text
<1>7. p = IF e.seq <= state.last THEN 0 ELSE state.pending OBVIOUS
<1>8. b = p + e.size OBVIOUS
<1> HIDE DEF p, l, b
<1>9. CASE p = Phase(e)
  <2>1. decode_event_text(state, e)
          = [state |-> [last |-> l, pending |-> b % 2], chars |-> b \div 2, bad |-> FALSE]
    BY <1>6, <1>9
  <2>2. [last |-> l, pending |-> b % 2] \in DecoderState BY <1>3, <1>5 DEF DecoderState
  <2>3. /\ decode_event_text(state, e).state = [last |-> l, pending |-> b % 2]
        /\ decode_event_text(state, e).chars = b \div 2
        /\ decode_event_text(state, e).bad = FALSE
        /\ decode_event_text(state, e).state.last = l
        /\ decode_event_text(state, e).state.pending = b % 2
    BY <2>1
  <2>4. 2 * decode_event_text(state, e).chars
          + decode_event_text(state, e).state.pending = Phase(e) + e.size
    BY <1>5, <1>8, <1>9, <2>3
  <2> QED BY <1>3, <1>5, <2>2, <2>3, <2>4
<1>10. CASE p # Phase(e)
  <2>1. decode_event_text(state, e)
          = [state |-> [last |-> l, pending |-> 0], chars |-> 1 + b \div 2, bad |-> TRUE]
    BY <1>6, <1>10
  <2>2. [last |-> l, pending |-> 0] \in DecoderState BY <1>3 DEF DecoderState
  <2>3. /\ decode_event_text(state, e).state = [last |-> l, pending |-> 0]
        /\ decode_event_text(state, e).chars = 1 + b \div 2
        /\ decode_event_text(state, e).bad = TRUE
        /\ decode_event_text(state, e).state.last = l
    BY <2>1
  <2>4. 1 + b \div 2 \in Nat BY <1>5
  <2>5. (IF e.seq <= state.last THEN 0 ELSE state.pending) # Phase(e) BY <1>7, <1>10
  <2> QED BY <1>3, <2>2, <2>3, <2>4, <2>5
<1> QED BY <1>9, <1>10

DecodeState == [state : [Writers -> DecoderState], decoded : Seq(DecodedEvent)]

\* decode_event leads from one state of the decoding to another.
LEMMA DecodesOne ==
  ASSUME BaseInv, NEW acc \in DecodeState, NEW e \in Event
  PROVE  decode_event(acc, e) \in DecodeState
<1> DEFINE d == decode_event_text(acc.state[e.from], e)
           rec == [seq |-> e.seq, from |-> e.from, chars |-> d.chars, bad |-> d.bad,
                   persisted |-> e \in events]
<1>1. e.from \in Writers /\ e.seq \in Nat BY DEF Event
<1>2. acc.state \in [Writers -> DecoderState] /\ acc.decoded \in Seq(DecodedEvent)
  BY DEF DecodeState
<1>3. d.state \in DecoderState /\ d.chars \in Nat /\ d.bad \in BOOLEAN
  <2>1. acc.state[e.from] \in DecoderState BY <1>1, <1>2
  <2> QED BY <2>1, DecodesEvent
<1>4. decode_event(acc, e) = [state |-> [acc.state EXCEPT ![e.from] = d.state],
                              decoded |-> Append(acc.decoded, rec)]
  BY DEF decode_event
<1> HIDE DEF d
<1>5. rec \in DecodedEvent BY <1>1, <1>3 DEF DecodedEvent
<1> HIDE DEF rec
<1>6. /\ [acc.state EXCEPT ![e.from] = d.state] \in [Writers -> DecoderState]
      /\ Append(acc.decoded, rec) \in Seq(DecodedEvent)
  <2>1. Append(acc.decoded, rec) \in Seq(DecodedEvent) BY <1>2, <1>5
  <2>2. [acc.state EXCEPT ![e.from] = d.state] \in [Writers -> DecoderState] BY <1>2, <1>3
  <2> QED BY <2>1, <2>2
<1> QED BY <1>4, <1>6 DEF DecodeState

\* The decoders and the texts after each event of a page.
DecodeSteps(f, state, page) ==
    /\ f \in [0 .. Len(page) -> DecodeState]
    /\ f[0] = [state |-> state, decoded |-> <<>>]
    /\ \A i \in 1 .. Len(page) : f[i] = decode_event(f[i - 1], page[i])
    /\ Decode(state, page) = f[Len(page)]

\* Decode is the last of these steps, which are well defined for every page.
LEMMA DecodesPage ==
  ASSUME BaseInv, NEW state \in [Writers -> DecoderState], NEW page \in Seq(Event)
  PROVE  \E f : DecodeSteps(f, state, page)
<1> DEFINE n == Len(page)
           base == [state |-> state, decoded |-> <<>>]
           step == [i \in 1 .. n |-> [acc \in DecodeState |-> decode_event(acc, page[i])]]
           After(f) == f = [i \in 0 .. Len(page) |->
                              IF i = 0 THEN [state |-> state, decoded |-> <<>>]
                              ELSE decode_event(f[i - 1], page[i])]
           w == CHOOSE f : After(f)
<1>1. n \in Nat /\ \A i \in 1 .. n : page[i] \in Event OBVIOUS
<1>2. base \in DecodeState BY DEF DecodeState
<1>3. step \in [1 .. n -> [DecodeState -> DecodeState]]
  <2> HIDE DEF n
  <2> QED BY <1>1, DecodesOne
<1>4. PICK f \in [0 .. n -> DecodeState] : Iteration(f, n, base, step)
  <2> HIDE DEF n, base, step
  <2> QED BY <1>1, <1>2, <1>3, Iterates
<1>5. f[0] = base /\ \A i \in 1 .. n : f[i] = decode_event(f[i - 1], page[i])
  <2>1. f[0] = base /\ \A i \in 1 .. n : f[i] = step[i][f[i - 1]]
    <3> HIDE DEF n, base, step
    <3> QED BY <1>4 DEF Iteration
  <2>2. \A i \in 1 .. n : f[i - 1] \in DecodeState
    <3> HIDE DEF n
    <3> QED BY <1>1, <1>4
  <2> HIDE DEF base, n
  <2> QED BY <2>1, <2>2
<1>6. After(f) BY <1>4, <1>5
<1>7. After(w)
  <2> HIDE DEF After
  <2> QED BY <1>6
<1>8. Decode(state, page) = w[n] BY DEF Decode
<1> HIDE DEF w
<1>9. w[0] = base /\ \A i \in 1 .. n : w[i] = decode_event(w[i - 1], page[i])
  <2>1. n \in Nat /\ w = [i \in 0 .. n |-> IF i = 0 THEN base ELSE decode_event(w[i - 1], page[i])]
    BY <1>1, <1>7
  <2> HIDE DEF n, base
  <2> QED BY <2>1
<1> DEFINE T == {i \in Nat : i <= n => w[i] = f[i]}
<1>10. 0 \in T BY <1>5, <1>9
<1>11. ASSUME NEW i \in Nat, i \in T PROVE i + 1 \in T
  <2>1. SUFFICES ASSUME i + 1 <= n PROVE w[i + 1] = f[i + 1] OBVIOUS
  <2>2. i + 1 \in 1 .. n /\ (i + 1) - 1 = i /\ w[i] = f[i] BY <1>1, <1>11, <2>1
  <2> QED BY <1>5, <1>9, <2>2
<1>12. \A i \in 0 .. n : w[i] = f[i]
  <2>1. Nat \subseteq T
    <3> HIDE DEF T
    <3> QED BY <1>10, <1>11, SetInduction
  <2> QED BY <2>1
<1>13. w[n] = f[n]
  <2> HIDE DEF n
  <2> QED BY <1>1, <1>12
<1>14. DecodeSteps(f, state, page)
  <2>1. Decode(state, page) = f[n] BY <1>8, <1>13
  <2> QED BY <1>4, <1>5, <2>1 DEF DecodeSteps
<1> QED BY <1>14

\* Characters add up as bytes do.
LEMMA NoChars == Chars({}) = 0
  BY DEF Chars, MapThenSumSet, MapThenFoldSet

LEMMA CharsSums ==
  ASSUME NEW S, IsFiniteSet(S), \A e \in S : e.chars \in Nat
  PROVE  \E t : SumsOf(t, [e \in S |-> e.chars], S) /\ Chars(S) = t[S]
<1> DEFINE f == [e \in S |-> e.chars]
           Sums(t) == t = [s \in SUBSET S |->
                             IF s = {} THEN 0
                             ELSE (CHOOSE x \in s : TRUE).chars
                                    + t[s \ {CHOOSE x \in s : TRUE}]]
           w == CHOOSE t : Sums(t)
<1>1. f \in [S -> Nat] OBVIOUS
<1>2. \A s \in SUBSET S : s # {} => f[Pick(s)] = (CHOOSE x \in s : TRUE).chars BY DEF Pick
<1>3. ASSUME NEW t PROVE Sums(t) <=> SumsOf(t, f, S)
  <2>1. [s \in SUBSET S |-> IF s = {} THEN 0 ELSE f[Pick(s)] + t[s \ {Pick(s)}]]
        = [s \in SUBSET S |-> IF s = {} THEN 0
                              ELSE (CHOOSE x \in s : TRUE).chars
                                     + t[s \ {CHOOSE x \in s : TRUE}]]
    <3> HIDE DEF f
    <3> QED BY <1>2 DEF Pick
  <2> HIDE DEF f
  <2> QED BY <2>1 DEF SumsOf
<1>4. \E t : Sums(t)
  <2> HIDE DEF f, Sums
  <2> QED BY <1>1, <1>3, SumsExist
<1>5. Sums(w)
  <2> HIDE DEF Sums
  <2> QED BY <1>4
<1>6. SumsOf(w, f, S) BY <1>3, <1>5, Zenon
<1>7. Chars(S) = w[S] BY DEF Chars, MapThenSumSet, MapThenFoldSet
<1> QED BY <1>6, <1>7

LEMMA CharsType ==
  ASSUME NEW S, IsFiniteSet(S), \A e \in S : e.chars \in Nat
  PROVE  Chars(S) \in Nat
<1> DEFINE f == [e \in S |-> e.chars]
<1>1. PICK t : SumsOf(t, f, S) /\ Chars(S) = t[S] BY CharsSums
<1>2. f \in [S -> Nat] OBVIOUS
<1> HIDE DEF f
<1>3. Additive(t, f, S) BY <1>1, <1>2, SumsCommute
<1> QED BY <1>1, <1>3 DEF Additive

LEMMA CharsAdd ==
  ASSUME NEW S, IsFiniteSet(S), \A e \in S : e.chars \in Nat,
         NEW x, x \notin S, x.chars \in Nat
  PROVE  Chars(S \cup {x}) = Chars(S) + x.chars
<1> DEFINE U == S \cup {x}
           f == [e \in U |-> e.chars]
           g == [e \in S |-> e.chars]
<1>1. IsFiniteSet(U) /\ (\A e \in U : e.chars \in Nat) /\ U \ {x} = S BY FS_AddElement
<1> HIDE DEF U
<1>2. PICK t : SumsOf(t, f, U) /\ Chars(U) = t[U] BY <1>1, CharsSums
<1>3. PICK u : SumsOf(u, g, S) /\ Chars(S) = u[S] BY CharsSums
<1>4. f \in [U -> Nat] /\ g \in [S -> Nat] /\ x \in U BY <1>1 DEF U
<1>5. (\A y \in S : f[y] = g[y]) /\ f[x] = x.chars BY <1>4 DEF U
<1> HIDE DEF f, g
<1>6. t[U] = u[S] + f[x]
  <2>1. U = S \cup {x} BY DEF U
  <2> QED BY <1>2, <1>3, <1>4, <1>5, <2>1, SumsStep
<1>7. Chars(S) \in Nat BY CharsType
<1>8. Chars(U) = Chars(S) + x.chars BY <1>2, <1>3, <1>5, <1>6, <1>7
<1> QED BY <1>8 DEF U


\* What decode_event makes of e.
DecoderOf(acc, e) == decode_event_text(acc.state[e.from], e)
TextOf(acc, e) == [seq |-> e.seq, from |-> e.from, chars |-> DecoderOf(acc, e).chars,
                   bad |-> DecoderOf(acc, e).bad, persisted |-> e \in events]

OneDecoded(acc, next, e) ==
    /\ acc \in DecodeState /\ next \in DecodeState
    /\ e \in Event /\ TextOf(acc, e) \in DecodedEvent
    /\ next.decoded = Append(acc.decoded, TextOf(acc, e))
    /\ next.state = [acc.state EXCEPT ![e.from] = DecoderOf(acc, e).state]

\* The event after the i-th is decoded with what the first i have left.
LEMMA DecodedInOrder ==
  ASSUME BaseInv, NEW state, NEW page \in Seq(Event),
         NEW f, DecodeSteps(f, state, page), NEW i \in Nat, i + 1 <= Len(page)
  PROVE  OneDecoded(f[i], f[i + 1], page[i + 1])
<1> DEFINE e == page[i + 1]
<1>1. /\ Len(page) \in Nat /\ e \in Event /\ i \in 0 .. Len(page) /\ i + 1 \in 1 .. Len(page)
      /\ i + 1 \in 0 .. Len(page) /\ (i + 1) - 1 = i
  OBVIOUS
<1>2. f[i] \in DecodeState /\ f[i + 1] \in DecodeState BY <1>1 DEF DecodeSteps
<1>3. f[i + 1] = decode_event(f[i], e) BY <1>1 DEF DecodeSteps
<1>4. f[i + 1] = [state |-> [f[i].state EXCEPT ![e.from] = DecoderOf(f[i], e).state],
                  decoded |-> Append(f[i].decoded, TextOf(f[i], e))]
  BY <1>3 DEF decode_event, TextOf, DecoderOf
<1>5. TextOf(f[i], e) \in DecodedEvent
  <2>1. e.from \in Writers /\ e.seq \in Nat BY <1>1 DEF Event
  <2>2. f[i].state[e.from] \in DecoderState BY <1>2, <2>1 DEF DecodeState
  <2>3. DecoderOf(f[i], e).chars \in Nat /\ DecoderOf(f[i], e).bad \in BOOLEAN
    BY <1>1, <2>2, DecodesEvent DEF DecoderOf
  <2> QED BY <2>1, <2>3 DEF DecodedEvent, TextOf
<1>6. /\ f[i + 1].decoded = Append(f[i].decoded, TextOf(f[i], e))
      /\ f[i + 1].state = [f[i].state EXCEPT ![e.from] = DecoderOf(f[i], e).state]
  BY <1>4
<1> QED BY <1>1, <1>2, <1>5, <1>6 DEF OneDecoded

\* The first i texts are those of the first i events.
DecodedUpTo(f, page, i) ==
    /\ Len(f[i].decoded) = i
    /\ \A k \in 1 .. i : /\ f[i].decoded[k].seq = page[k].seq
                         /\ f[i].decoded[k].from = page[k].from

\* Every event of the page has its text, in the same order.
LEMMA DecodedPageIs ==
  ASSUME BaseInv, NEW state \in [Writers -> DecoderState], NEW page \in Seq(Event),
         NEW f, DecodeSteps(f, state, page)
  PROVE  \A i \in 0 .. Len(page) : DecodedUpTo(f, page, i)
<1> USE DEF DecodedUpTo
<1> DEFINE Is(i) == DecodedUpTo(f, page, i)
           T == {i \in Nat : i <= Len(page) => Is(i)}
<1>1. Len(page) \in Nat OBVIOUS
<1>2. 0 \in T
  <2>1. f[0].decoded = <<>> BY DEF DecodeSteps
  <2> QED BY <2>1
<1>3. ASSUME NEW i \in Nat, i \in T PROVE i + 1 \in T
  <2>1. SUFFICES ASSUME i + 1 <= Len(page) PROVE Is(i + 1) OBVIOUS
  <2>2. i + 1 \in 1 .. Len(page) /\ (i + 1) - 1 = i /\ Is(i) BY <1>1, <1>3, <2>1
  <2> DEFINE e == page[i + 1]
  <2>3. PICK rec \in DecodedEvent :
          /\ rec.seq = e.seq /\ rec.from = e.from
          /\ f[i].decoded \in Seq(DecodedEvent)
          /\ f[i + 1].decoded = Append(f[i].decoded, rec)
    <3>1. /\ TextOf(f[i], e) \in DecodedEvent /\ f[i] \in DecodeState
          /\ f[i + 1].decoded = Append(f[i].decoded, TextOf(f[i], e))
      <4>1. OneDecoded(f[i], f[i + 1], e) BY <2>1, DecodedInOrder
      <4> QED BY <4>1 DEF OneDecoded
    <3>2. TextOf(f[i], e).seq = e.seq /\ TextOf(f[i], e).from = e.from BY DEF TextOf
    <3>3. f[i].decoded \in Seq(DecodedEvent) BY <3>1 DEF DecodeState
    <3> QED BY <3>1, <3>2, <3>3
  <2>4. /\ Len(f[i + 1].decoded) = i + 1 /\ f[i + 1].decoded[i + 1] = rec
        /\ \A k \in 1 .. i : f[i + 1].decoded[k] = f[i].decoded[k]
    BY <2>2, <2>3
  <2>5. ASSUME NEW k \in 1 .. i + 1
        PROVE  f[i + 1].decoded[k].seq = page[k].seq /\ f[i + 1].decoded[k].from = page[k].from
    <3>1. CASE k = i + 1 BY <2>3, <2>4, <3>1
    <3>2. CASE k \in 1 .. i BY <2>2, <2>4, <3>2
    <3> QED BY <3>1, <3>2
  <2> QED BY <2>4, <2>5
<1>4. Nat \subseteq T
  <2> HIDE DEF T
  <2> QED BY <1>2, <1>3, SetInduction
<1> QED BY <1>1, <1>4

-----------------------------------------------------------------------------
(* The text of a command.                                                  *)

\* The client was given everything up to its cursor.
Gapless(r) == {e.seq : e \in Seen(r, r)} \subseteq client[r].got

DecoderInv ==
    /\ decoders \in [Readers -> [Writers -> DecoderState]]
    /\ text \in [Readers -> [Writers -> [chars : Nat, bad : BOOLEAN]]]

\* The decoder s of r's command keeps the last byte p of what the client has, or
\* is ahead of it by events that start with a character.
InStep(r, s, p) ==
    /\ s.last <= client[r].cursor => s.pending = p
    /\ s.last > client[r].cursor =>
         /\ \E e \in sent : e.from = r /\ e.seq = s.last
         /\ \A e \in sent :
               e.from = r /\ e.seq > client[r].cursor /\ e.seq <= s.last => Phase(e) = 0

\* The text, and the byte of a character that has begun, are all that was delivered.
ExactText(r) ==
    Gapless(r) /\ r \notin torn =>
        /\ ~text[r][r].bad
        /\ \E p \in {0, 1} :
             /\ 2 * text[r][r].chars + p = Bytes(Seen(r, r))
             /\ ~client[r].complete => InStep(r, decoders[r][r], p)

\* What a step preserves.
TextInv == /\ DecoderInv
           /\ \A r \in TextReaders : ExactText(r)

\* The last event the decoder of r knows of, after i events of a page.
LastIs(r, state, page, f, i) ==
    /\ \/ f[i].state[r].last = state[r].last
       \/ \E k \in 1 .. i : f[i].state[r].last = page[k].seq
    /\ state[r].last <= f[i].state[r].last
    /\ \A k \in 1 .. i : page[k].seq <= f[i].state[r].last

\* It is the latest of those it was given.
LEMMA LastDecoded ==
  ASSUME BaseInv, NEW state \in [Writers -> DecoderState], NEW page \in Seq(Event),
         NEW f, DecodeSteps(f, state, page), NEW r \in Writers,
         \A k \in 1 .. Len(page) : page[k].from = r
  PROVE  \A i \in 0 .. Len(page) : LastIs(r, state, page, f, i)
<1> DEFINE Is(i) == LastIs(r, state, page, f, i)
           T == {i \in Nat : i <= Len(page) => Is(i)}
<1>1. Len(page) \in Nat OBVIOUS
<1>2. 0 \in T
  <2>1. f[0].state = state BY DEF DecodeSteps
  <2>2. state[r].last \in Nat BY DEF DecoderState
  <2> QED BY <2>1, <2>2 DEF LastIs
<1>3. ASSUME NEW i \in Nat, i \in T PROVE i + 1 \in T
  <2>1. SUFFICES ASSUME i + 1 <= Len(page) PROVE Is(i + 1) OBVIOUS
  <2> DEFINE e == page[i + 1]
             s == f[i].state[r]
             t == f[i + 1].state[r]
  <2>2. Is(i) /\ i + 1 \in 1 .. Len(page) BY <1>1, <1>3, <2>1
  <2>3. OneDecoded(f[i], f[i + 1], e) BY <2>1, DecodedInOrder
  <2>4. /\ f[i].state \in [Writers -> DecoderState] /\ e \in Event /\ e.from = r
        /\ f[i + 1].state = [f[i].state EXCEPT ![e.from] = DecoderOf(f[i], e).state]
    BY <2>2, <2>3 DEF OneDecoded, DecodeState
  <2>5. s \in DecoderState /\ t = DecoderOf(f[i], e).state BY <2>4
  <2>6. t.last = IF s.last < e.seq THEN e.seq ELSE s.last
    BY <2>4, <2>5, DecodesEvent DEF DecoderOf
  <2>7. /\ s.last \in Nat /\ e.seq \in Nat /\ state[r].last \in Nat
        /\ \A k \in 1 .. i : page[k].seq \in Nat
    <3>1. \A k \in 1 .. i : k \in 1 .. Len(page) BY <1>1, <2>1
    <3>2. \A k \in 1 .. i + 1 : page[k] \in Event BY <2>1
    <3>3. \A x \in Event : x.seq \in Nat BY BoundsAssumption DEF Event
    <3> QED BY <2>4, <2>5, <3>2, <3>3 DEF DecoderState
  <2>8. \A k \in 1 .. i + 1 : k \in 1 .. i \/ k = i + 1 OBVIOUS
  <2>9. i + 1 \in 1 .. i + 1 /\ \A k \in 1 .. i : k \in 1 .. i + 1 OBVIOUS
  <2> DEFINE a == state[r].last
  <2>10. /\ s.last = a \/ \E k \in 1 .. i : s.last = page[k].seq
         /\ a <= s.last /\ \A k \in 1 .. i : page[k].seq <= s.last
    BY <2>2 DEF LastIs
  <2>11. /\ t.last = a \/ \E k \in 1 .. i + 1 : t.last = page[k].seq
         /\ a <= t.last /\ \A k \in 1 .. i + 1 : page[k].seq <= t.last
    <3> HIDE DEF s, t, a
    <3>1. CASE s.last < e.seq BY <2>6, <2>7, <2>8, <2>9, <2>10, <3>1 DEF a
    <3>2. CASE ~(s.last < e.seq) BY <2>6, <2>7, <2>8, <2>9, <2>10, <3>2 DEF a
    <3> QED BY <3>1, <3>2
  <2> QED BY <2>11 DEF LastIs
<1>4. Nat \subseteq T
  <2> HIDE DEF T
  <2> QED BY <1>2, <1>3, SetInduction
<1> QED BY <1>1, <1>4

\* S is all that r's command wrote after the cursor, up to the end of S.
NextOutput(r, S) ==
    /\ S \subseteq {e \in sent : e.from = r /\ e.seq > client[r].cursor}
    /\ \A x \in sent, e \in S :
          x.from = r /\ x.seq > client[r].cursor /\ x.seq <= e.seq => x \in S

\* The characters and the byte kept are those of all bytes, from the first on.
WholeText(r, S, f, c, p) ==
    LET D == Range(f[Cardinality(S)].decoded)
    IN  /\ \A d \in D : ~d.bad /\ d.from = r
        /\ Chars(D) \in Nat
        /\ \E q \in {0, 1} :
             /\ 2 * (c + Chars(D)) + q = Bytes(Seen(r, r) \cup S)
             /\ IF S = {} THEN q = p ELSE f[Cardinality(S)].state[r].pending = q

\* Decoding it gives exactly its text, and what is left of a character.
LEMMA DecodesExactly ==
  ASSUME BaseInv, NEW r \in Readers, r \in Commands, r \in Writers,
         NEW S, NextOutput(r, S),
         NEW state \in [Writers -> DecoderState],
         NEW f, DecodeSteps(f, state, Sorted(S)),
         NEW c \in Nat, NEW p \in {0, 1}, 2 * c + p = Bytes(Seen(r, r)),
         InStep(r, state[r], p)
  PROVE  WholeText(r, S, f, c, p)
<1> DEFINE n == Cardinality(S)
           page == Sorted(S)
           K(i) == Seen(r, r) \cup {page[k] : k \in 1 .. i}
           D(i) == Range(f[i].decoded)
           Exact(i) ==
             /\ IsFiniteSet(D(i)) /\ \A d \in D(i) : ~d.bad /\ d.from = r /\ d.chars \in Nat
             /\ \E q \in {0, 1} : /\ 2 * (c + Chars(D(i))) + q = Bytes(K(i))
                                  /\ IF i = 0 THEN q = p ELSE f[i].state[r].pending = q
           T == {i \in Nat : i <= n => Exact(i)}
<1>1. /\ Numbered(sent) /\ sent \subseteq Event
      /\ \A e \in sent : e.size \in Nat /\ e.seq \in Nat
  BY SentNumbered DEF Numbered
<1>2. S \subseteq sent /\ Numbered(S)
  <2>1. S \subseteq sent BY DEF NextOutput
  <2> QED BY <1>1, <2>1, NumberedPart
<1>3. /\ n \in Nat /\ page \in Seq(S) /\ Len(page) = n
      /\ \A e \in S : \E i \in 1 .. n : page[i] = e
      /\ \A i, j \in 1 .. n : i < j => page[i].seq < page[j].seq
  BY <1>2, SortedIsList, FS_CardinalityType DEF Numbered
<1> HIDE DEF n, page
<1>4. page \in Seq(Event) /\ \A i \in 1 .. n : page[i] \in S
  BY <1>1, <1>2, <1>3
<1>5. client[r].cursor \in Nat BY DEF BaseInv, TypeOK
<1>6. \A i \in Nat : i <= n =>
        /\ K(i) \subseteq sent /\ IsFiniteSet(K(i)) /\ \A e \in K(i) : e.size \in Nat
  <2>1. SUFFICES ASSUME NEW i \in Nat, i <= n PROVE K(i) \subseteq sent
    <3> HIDE DEF K
    <3> QED BY <1>1, <2>1, FS_Subset DEF Numbered
  <2>2. \A k \in 1 .. i : page[k] \in sent BY <1>2, <1>3, <1>4, <2>1
  <2> QED BY <2>2 DEF Seen
<1>7. 0 \in T
  <2>1. f[0].state = state /\ f[0].decoded = <<>> BY DEF DecodeSteps
  <2>2. D(0) = {} BY <2>1 DEF Range
  <2>3. IsFiniteSet(D(0)) /\ Chars(D(0)) = 0 BY <2>2, FS_EmptySet, NoChars
  <2>4. K(0) = Seen(r, r) OBVIOUS
  <2> HIDE DEF D, K
  <2>5. 2 * (c + Chars(D(0))) + p = Bytes(K(0)) BY <2>3, <2>4
  <2> QED BY <2>2, <2>3, <2>5
<1>8. ASSUME NEW i \in Nat, i \in T PROVE i + 1 \in T
  <2>1. SUFFICES ASSUME i + 1 <= n PROVE Exact(i + 1) OBVIOUS
  <2> DEFINE e == page[i + 1]
             x == TextOf(f[i], e)
  <2>2. Exact(i) /\ i <= n /\ i + 1 \in 1 .. n /\ i + 1 # 0 BY <1>3, <1>8, <2>1
  <2>3. e \in S /\ e \in sent /\ e.from = r /\ e.seq > client[r].cursor /\ e.seq \in Nat
    BY <1>1, <1>4, <2>2 DEF NextOutput
  <2>4. OneDecoded(f[i], f[i + 1], e) BY <1>3, <1>4, <2>1, DecodedInOrder DEF page
  <2>5. /\ f[i].state \in [Writers -> DecoderState] /\ e \in Event
        /\ f[i].decoded \in Seq(DecodedEvent) /\ x \in DecodedEvent
        /\ f[i + 1].decoded = Append(f[i].decoded, x)
        /\ f[i + 1].state = [f[i].state EXCEPT ![r] = DecoderOf(f[i], e).state]
    BY <2>3, <2>4 DEF OneDecoded, DecodeState
  <2>6. f[i + 1].state[r] = DecoderOf(f[i], e).state /\ f[i].state[r] \in DecoderState
    BY <2>5
  \* What came before e is what has been decoded.
  <2>7. {y \in sent : y.from = r /\ y.seq < e.seq} = K(i)
    <3>1. ASSUME NEW y \in sent, y.from = r, y.seq < e.seq PROVE y \in K(i)
      <4>1. CASE y.seq <= client[r].cursor BY <3>1, <4>1 DEF Seen
      <4>2. CASE y.seq > client[r].cursor
        <5>1. y \in S BY <1>1, <2>3, <3>1, <4>2 DEF NextOutput
        <5>2. PICK k \in 1 .. n : page[k] = y BY <1>3, <5>1
        <5>3. k < i + 1
          <6>1. k # i + 1 BY <2>3, <3>1, <5>2
          <6>2. ~(i + 1 < k) BY <1>1, <1>3, <2>2, <2>3, <3>1, <5>2, SMTT(30)
          <6> QED BY <2>2, <6>1, <6>2
        <5> QED BY <5>2, <5>3
      <4> QED BY <1>1, <1>5, <4>1, <4>2
    <3>2. ASSUME NEW y \in Seen(r, r) PROVE y \in sent /\ y.from = r /\ y.seq < e.seq
      <4>1. y \in sent /\ y.from = r /\ y.seq <= client[r].cursor BY <3>2 DEF Seen
      <4> QED BY <1>1, <1>5, <2>3, <4>1
    <3>3. ASSUME NEW k \in 1 .. i PROVE page[k] \in sent /\ page[k].from = r /\ page[k].seq < e.seq
      <4>1. k \in 1 .. n /\ k < i + 1 BY <1>3, <2>2
      <4>2. page[k].seq < e.seq BY <1>3, <2>2, <4>1
      <4>3. page[k] \in S BY <1>4, <4>1
      <4> QED BY <4>2, <4>3 DEF NextOutput
    <3> QED BY <3>1, <3>2, <3>3
  <2>8. K(i + 1) = K(i) \cup {e} /\ e \notin K(i)
    <3>1. e \notin K(i)
      <4> HIDE DEF K
      <4> QED BY <2>3, <2>7
    <3>2. \A k : k \in 1 .. i + 1 <=> k \in 1 .. i \/ k = i + 1 BY <1>8
    <3>3. {page[k] : k \in 1 .. i + 1} = {page[k] : k \in 1 .. i} \cup {e} BY <3>2
    <3> QED BY <3>1, <3>3
  <2>9. /\ IsFiniteSet(K(i)) /\ (\A y \in K(i) : y.size \in Nat)
        /\ e.size \in Nat /\ Bytes(K(i)) \in Nat
    <3> HIDE DEF K
    <3> QED BY <1>1, <1>6, <2>2, <2>3, BytesType
  <2>10. Bytes(K(i + 1)) = Bytes(K(i)) + e.size
    <3> HIDE DEF K
    <3> QED BY <2>8, <2>9, BytesAdd
  <2>11. Chars(D(i)) \in Nat
    <3> HIDE DEF D
    <3> QED BY <2>2, CharsType
  <2>12. PICK q \in {0, 1} : /\ 2 * (c + Chars(D(i))) + q = Bytes(K(i))
                             /\ IF i = 0 THEN q = p ELSE f[i].state[r].pending = q
    BY <2>2
  <2>13. q = Phase(e)
    <3>1. Phase(e) = Bytes(K(i)) % 2 BY <2>3, <2>7 DEF Phase
    <3> HIDE DEF D, K
    <3> QED BY <2>9, <2>11, <2>12, <3>1
  \* So the decoder is in step with the stream.
  <2> DEFINE s == f[i].state[r]
             o == DecoderOf(f[i], e)
  <2>14. /\ o.state \in DecoderState /\ o.chars \in Nat /\ ~o.bad
         /\ 2 * o.chars + o.state.pending = q + e.size
    <3>1. (IF e.seq <= s.last THEN 0 ELSE s.pending) = Phase(e)
      <4>1. LastIs(r, state, page, f, i)
        <5>1. i \in 0 .. Len(page) /\ \A k \in 1 .. Len(page) : page[k].from = r
          BY <1>3, <1>4, <2>2 DEF NextOutput
        <5> QED BY <1>4, <5>1, LastDecoded DEF page
      <4>2. s.last \in Nat /\ state[r] \in DecoderState /\ state[r].last \in Nat
        BY <2>6 DEF DecoderState
      <4>3. ASSUME NEW k \in 1 .. i PROVE page[k].seq < e.seq /\ page[k].seq \in Nat
        <5>1. k \in 1 .. n /\ k < i + 1 BY <1>3, <2>2
        <5> QED BY <1>1, <1>2, <1>3, <1>4, <2>2, <5>1
      <4>4. CASE e.seq <= s.last
        <5>1. s.last = state[r].last BY <2>3, <4>1, <4>2, <4>3, <4>4 DEF LastIs
        <5>2. state[r].last > client[r].cursor BY <1>5, <2>3, <4>2, <4>4, <5>1
        <5>3. Phase(e) = 0 BY <2>3, <4>4, <5>1, <5>2 DEF InStep
        <5> QED BY <4>4, <5>3
      <4>5. CASE ~(e.seq <= s.last)
        <5>1. CASE i # 0 BY <2>12, <2>13, <4>5, <5>1
        <5>2. CASE i = 0
          <6>1. s = state[r] BY <5>2 DEF DecodeSteps
          <6>2. state[r].last <= client[r].cursor
            <7>1. SUFFICES ASSUME state[r].last > client[r].cursor PROVE FALSE
              BY <1>5, <4>2
            <7>2. PICK z \in sent : z.from = r /\ z.seq = state[r].last BY <7>1 DEF InStep
            <7>3. z.seq < e.seq BY <2>3, <4>2, <4>5, <6>1, <7>2
            <7>4. z \in K(i)
              <8> HIDE DEF K
              <8> QED BY <2>7, <7>2, <7>3
            <7>5. K(i) = Seen(r, r) BY <5>2
            <7>6. z.seq <= client[r].cursor BY <7>4, <7>5 DEF Seen
            <7> QED BY <1>5, <4>2, <7>1, <7>2, <7>6
          <6>3. s.pending = q BY <2>12, <5>2, <6>1, <6>2 DEF InStep
          <6> QED BY <2>13, <4>5, <6>3
        <5> QED BY <5>1, <5>2
      <4> QED BY <4>4, <4>5
    <3>2. s \in DecoderState /\ e \in Event /\ o = decode_event_text(s, e)
      BY <2>3, <2>5, <2>6 DEF DecoderOf
    <3> HIDE DEF s, o
    <3>3. 2 * o.chars + o.state.pending = Phase(e) + e.size BY <3>1, <3>2, DecodesEvent
    <3> QED BY <2>13, <3>1, <3>2, <3>3, DecodesEvent
  <2>15. x.bad = o.bad /\ x.chars = o.chars /\ x.from = r /\ x.seq = e.seq
    BY <2>3 DEF TextOf
  <2> HIDE DEF o, x
  <2>16. D(i + 1) = D(i) \cup {x} BY <2>5, RangeAppend
  <2>17. x \notin D(i)
    <3>1. ASSUME x \in D(i) PROVE FALSE
      <4>1. PICK k \in DOMAIN f[i].decoded : x = f[i].decoded[k] BY <3>1 DEF Range
      <4>2. Len(f[i].decoded) = i /\ \A j \in 1 .. i : f[i].decoded[j].seq = page[j].seq
        <5>1. i \in 0 .. Len(page) BY <1>3, <2>2
        <5>2. DecodedUpTo(f, page, i) BY <1>4, <5>1, DecodedPageIs DEF page
        <5> QED BY <5>2 DEF DecodedUpTo
      <4>3. k \in 1 .. i BY <2>5, <4>1, <4>2
      <4>4. x.seq = page[k].seq BY <4>1, <4>2, <4>3
      <4>5. k \in 1 .. n /\ k < i + 1 BY <1>3, <2>2, <4>3
      <4>6. page[k].seq < e.seq BY <1>3, <2>2, <4>5
      <4> QED BY <2>3, <2>15, <4>4, <4>6
    <3> QED BY <3>1
  <2>18. Chars(D(i + 1)) = Chars(D(i)) + o.chars
    <3> HIDE DEF D
    <3> QED BY <2>2, <2>14, <2>15, <2>16, <2>17, CharsAdd
  <2>19. IsFiniteSet(D(i + 1)) /\ \A d \in D(i + 1) : ~d.bad /\ d.from = r /\ d.chars \in Nat
    <3> HIDE DEF D
    <3> QED BY <2>2, <2>14, <2>15, <2>16, FS_AddElement
  <2>20. \E q2 \in {0, 1} : /\ 2 * (c + Chars(D(i + 1))) + q2 = Bytes(K(i + 1))
                            /\ f[i + 1].state[r].pending = q2
    <3>1. f[i + 1].state[r].pending = o.state.pending BY <2>6 DEF o
    <3>2. o.state.pending \in {0, 1} BY <2>14 DEF DecoderState
    <3>3. 2 * (c + Chars(D(i))) + q = Bytes(K(i)) BY <2>12
    <3> HIDE DEF D, K
    <3>4. 2 * (c + Chars(D(i + 1))) + o.state.pending = Bytes(K(i + 1))
      BY <2>9, <2>10, <2>11, <2>14, <2>18, <3>2, <3>3
    <3> QED BY <3>1, <3>2, <3>4
  <2> HIDE DEF D, K
  <2> QED BY <2>2, <2>19, <2>20
<1>9. Exact(n)
  <2>1. n \in T
    <3> HIDE DEF T
    <3> QED BY <1>3, <1>7, <1>8, SetInduction
  <2> HIDE DEF Exact
  <2> QED BY <1>3, <2>1
<1>10. K(n) = Seen(r, r) \cup S
  <2>1. {page[k] : k \in 1 .. n} = S BY <1>3, <1>4
  <2> QED BY <2>1
<1>11. Chars(D(n)) \in Nat
  <2> HIDE DEF D
  <2> QED BY <1>9, CharsType
<1>12. n = 0 <=> S = {}
  <2>1. IsFiniteSet(S) BY <1>2 DEF Numbered
  <2> QED BY <2>1, FS_EmptySet DEF n
<1>13. /\ \A d \in D(n) : ~d.bad /\ d.from = r
       /\ \E q \in {0, 1} : /\ 2 * (c + Chars(D(n))) + q = Bytes(Seen(r, r) \cup S)
                            /\ IF S = {} THEN q = p ELSE f[n].state[r].pending = q
  <2> HIDE DEF D, K
  <2> QED BY <1>9, <1>10, <1>12
<1> QED BY <1>11, <1>13 DEF n, WholeText

\* A step that gives no client anything: what is new comes after every cursor, and
\* after every event that a decoder knows of.
LEMMA TextKept ==
  ASSUME BaseInv, ReadInv, TextInv, UNCHANGED <<client, decoders, text, torn>>,
         sent \subseteq sent', \A e \in sent' : e \in sent \/ e.seq = sequence + 1
  PROVE  TextInv'
<1>1. /\ sequence \in Nat /\ \A r \in Readers : client[r].cursor \in Nat
      /\ \A e \in sent : e.seq \in Nat /\ e.seq <= sequence
  BY SentNumbered DEF BaseInv, TypeOK, WriterInv, Numbered
<1>2. DecoderInv' BY DEF TextInv, DecoderInv
<1>3. ASSUME NEW r \in Readers PROVE Seen(r, r)' = Seen(r, r)
  <2>1. client[r].cursor <= sequence BY DEF ReadInv
  <2>2. ASSUME NEW e \in sent', e.seq <= client[r].cursor PROVE e \in sent
    <3>1. ~(sequence + 1 <= client[r].cursor) BY <1>1, <2>1
    <3> QED BY <2>2, <3>1
  <2> QED BY <2>2 DEF Seen
<1>4. ASSUME NEW e \in sent PROVE Phase(e)' = Phase(e)
  <2>1. {x \in sent' : x.from = e.from /\ x.seq < e.seq}
          = {x \in sent : x.from = e.from /\ x.seq < e.seq}
    BY <1>1
  <2> QED BY <2>1 DEF Phase
<1>5. ASSUME NEW r \in TextReaders, NEW q \in {0, 1}, InStep(r, decoders[r][r], q)
      PROVE  InStep(r, decoders[r][r], q)'
  <2> DEFINE s == decoders[r][r]
  <2>1. s.last \in Nat /\ r \in Readers
    BY DEF TextInv, DecoderInv, DecoderState, TextReaders
  <2>2. CASE s.last > client[r].cursor
    <3>1. PICK z \in sent : z.from = r /\ z.seq = s.last BY <1>5, <2>2 DEF InStep
    <3>2. s.last <= sequence BY <1>1, <3>1
    <3>3. \A e \in sent' : e.seq <= s.last => e \in sent BY <1>1, <2>1, <3>2
    <3>4. \A e \in sent : e.from = r /\ e.seq > client[r].cursor /\ e.seq <= s.last
                           => Phase(e) = 0
      BY <1>5, <2>2 DEF InStep
    <3>5. \A e \in sent' : e.from = r /\ e.seq > client[r].cursor /\ e.seq <= s.last
                            => Phase(e)' = 0
      BY <1>4, <3>3, <3>4
    <3>6. ~(s.last <= client[r].cursor) BY <1>1, <2>1, <2>2
    <3> QED BY <3>1, <3>5, <3>6 DEF InStep
  <2>3. CASE ~(s.last > client[r].cursor) BY <1>5, <2>3 DEF InStep
  <2> QED BY <2>2, <2>3
<1>6. \A r \in TextReaders : ExactText(r) => ExactText(r)'
  <2>1. SUFFICES ASSUME NEW r \in TextReaders, ExactText(r), Gapless(r)', (r \notin torn)'
                 PROVE  /\ ~text[r][r].bad
                        /\ \E q \in {0, 1} :
                             /\ 2 * text[r][r].chars + q = Bytes(Seen(r, r))
                             /\ ~client[r].complete => InStep(r, decoders[r][r], q)'
    BY <1>3 DEF ExactText, TextReaders
  <2>2. Gapless(r) /\ r \notin torn BY <1>3, <2>1 DEF Gapless, TextReaders
  <2> QED BY <1>5, <2>1, <2>2 DEF ExactText
<1> QED BY <1>2, <1>6 DEF TextInv, TextReaders

\* What public_json makes of the page.
PageDecoded(r, f) ==
    LET n == Cardinality(WithLive(r))
        Of(w) == {e \in Range(f[n].decoded) : e.from = w}
    IN  /\ DecodeSteps(f, decoders[r], Sorted(WithLive(r)))
        /\ decoders' = [decoders EXCEPT ![r] =
                          clear_decoders_for_command(f[n].state, Delivered(r))]
        /\ text' = [text EXCEPT ![r] = [w \in Writers |->
                      [chars |-> text[r][w].chars + Chars(Of(w)),
                       bad   |-> text[r][w].bad \/ \E e \in Of(w) : e.bad]]]

\* The page of a reply is a list of events with numbers of their own.
LEMMA PageOf ==
  ASSUME BaseInv, ReadInv, NEW r \in Readers
  PROVE  /\ Numbered(WithLive(r)) /\ WithLive(r) \subseteq Event
         /\ Sorted(WithLive(r)) \in Seq(Event)
         /\ Len(Sorted(WithLive(r))) = Cardinality(WithLive(r))
         /\ Cardinality(WithLive(r)) \in Nat
         /\ \A k \in 1 .. Cardinality(WithLive(r)) : Sorted(WithLive(r))[k] \in WithLive(r)
<1> DEFINE S == WithLive(r)
<1>1. S \subseteq sent BY PageInScope
<1>2. Numbered(S) /\ S \subseteq Event BY <1>1, SentNumbered, NumberedPart
<1> HIDE DEF S
<1>3. Sorted(S) \in Seq(S) /\ Len(Sorted(S)) = Cardinality(S) BY <1>2, SortedIsList
<1>4. Cardinality(S) \in Nat BY <1>2, FS_CardinalityType DEF Numbered
<1>5. Sorted(S) \in Seq(Event) /\ \A k \in 1 .. Cardinality(S) : Sorted(S)[k] \in S
  BY <1>2, <1>3
<1> QED BY <1>2, <1>3, <1>4, <1>5 DEF S

\* A reply is decoded with the decoders of its reader.
LEMMA CallDecodes ==
  ASSUME BaseInv, ReadInv, TextInv, NEW r \in Readers, ToolsCall(r)
  PROVE  \E f : PageDecoded(r, f)
<1> DEFINE page == Sorted(WithLive(r))
           n == Cardinality(WithLive(r))
<1>1. page \in Seq(Event) /\ Len(page) = n BY PageOf
<1>2. decoders[r] \in [Writers -> DecoderState] BY DEF TextInv, DecoderInv
<1> HIDE DEF page, n
<1>3. PICK f : DecodeSteps(f, decoders[r], page) BY <1>1, <1>2, DecodesPage
<1>4. Decode(decoders[r], page) = f[n] BY <1>1, <1>3 DEF DecodeSteps
<1>5. PageEventsOf(r) = page BY DEF PageEventsOf, page
<1>6. \E result \in {Decode(decoders[r], page)} :
          LET Of(w) == {e \in Range(result.decoded) : e.from = w} IN
          /\ decoders' = [decoders EXCEPT ![r] =
                            clear_decoders_for_command(result.state, Delivered(r))]
          /\ text' = [text EXCEPT ![r] = [w \in Writers |->
                        [chars |-> text[r][w].chars + Chars(Of(w)),
                         bad   |-> text[r][w].bad \/ \E e \in Of(w) : e.bad]]]
  BY <1>5, Zenon DEF ToolsCall
<1>7. PageDecoded(r, f) BY <1>3, <1>4, <1>6, Zenon DEF PageDecoded, page, n
<1> QED BY <1>7

\* The cursor moves to the end of the page.
Advanced(r) ==
    /\ sent' = sent /\ \A q \in Readers \ {r} : client'[q] = client[q]
    /\ client[r].cursor \in Nat /\ client'[r].cursor \in Nat
    /\ client[r].cursor <= client'[r].cursor
    /\ WithLive(r) = {} => client'[r].cursor = client[r].cursor
    /\ \A e \in WithLive(r) : e.seq <= client'[r].cursor
    /\ client'[r].got = client[r].got \cup {e.seq : e \in WithLive(r)}
    /\ client'[r].complete <=> (Finished(r) /\ ~HasMore(r))

\* So it does with every reply.
LEMMA CallAdvancesCursor ==
  ASSUME BaseInv, ReadInv, NEW r \in Readers, ToolsCall(r)
  PROVE  Advanced(r)
<1>1. Reply(r) /\ ReaderStep(r) BY DEF ToolsCall, ReaderStep
<1>2. sent' = sent /\ \A q \in Readers \ {r} : client'[q] = client[q]
  BY <1>1, ReaderAlone DEF ReaderFrame, BaseInv, writerVars
<1>3. /\ client'[r].cursor = NextCursor(r)
      /\ client'[r].got = client[r].got \cup {e.seq : e \in WithLive(r)}
      /\ client'[r].complete <=> (Finished(r) /\ ~HasMore(r))
  <2>1. DOMAIN client = Readers BY DEF BaseInv, TypeOK
  <2>2. client'[r] = [cursor   |-> NextCursor(r),
                      got      |-> client[r].got \cup {e.seq : e \in WithLive(r)},
                      complete |-> Finished(r) /\ ~HasMore(r),
                      warned   |-> rd[r].truncated \/ dropped]
    BY <1>1, <2>1 DEF Reply
  <2>3. /\ client'[r].cursor = NextCursor(r)
        /\ client'[r].got = client[r].got \cup {e.seq : e \in WithLive(r)}
    BY <2>2
  <2>4. client'[r].complete = (Finished(r) /\ ~HasMore(r)) BY <2>2
  <2> QED BY <2>3, <2>4
<1>4. /\ NextCursor(r) \in Nat /\ client[r].cursor \in Nat /\ client[r].cursor <= NextCursor(r)
      /\ \A e \in WithLive(r) : e.seq <= NextCursor(r)
  BY NextCursorIs
<1>5. WithLive(r) = {} => NextCursor(r) = client[r].cursor BY DEF NextCursor, LastSeq
<1> QED BY <1>2, <1>3, <1>4, <1>5 DEF Advanced

\* A decoder that is dropped is a new one.
LEMMA ClearedType ==
  ASSUME NEW state \in [Writers -> DecoderState], NEW finished
  PROVE  clear_decoders_for_command(state, finished) \in [Writers -> DecoderState]
<1>1. NoDecoder \in DecoderState BY DEF NoDecoder, DecoderState
<1> QED BY <1>1 DEF clear_decoders_for_command

\* Decoders and texts keep their types.
LEMMA CallKeepsDecoders ==
  ASSUME BaseInv, ReadInv, TextInv, NEW r \in Readers, Advanced(r), NEW f, PageDecoded(r, f)
  PROVE  DecoderInv'
<1> DEFINE S == WithLive(r)
           page == Sorted(S)
           n == Cardinality(S)
           Of(w) == {e \in Range(f[n].decoded) : e.from = w}
<1>1. /\ page \in Seq(Event) /\ Len(page) = n /\ n \in Nat
      /\ \A k \in 1 .. n : page[k] \in S
  BY PageOf
<1>2. /\ decoders \in [Readers -> [Writers -> DecoderState]]
      /\ text \in [Readers -> [Writers -> [chars : Nat, bad : BOOLEAN]]]
  BY DEF TextInv, DecoderInv
<1>3. DecodeSteps(f, decoders[r], page) BY DEF PageDecoded
<1>4. f[n] \in DecodeState
  <2> HIDE DEF page, n
  <2> QED BY <1>1, <1>3 DEF DecodeSteps
<1>5. f[n].state \in [Writers -> DecoderState] /\ f[n].decoded \in Seq(DecodedEvent)
  BY <1>4 DEF DecodeState
<1> DEFINE cleared == clear_decoders_for_command(f[n].state, Delivered(r))
<1>6. cleared \in [Writers -> DecoderState]
  <2> HIDE DEF n
  <2> QED BY <1>5, ClearedType
<1>7. decoders' = [decoders EXCEPT ![r] = cleared] BY DEF PageDecoded
<1> HIDE DEF cleared
<1>8. decoders' \in [Readers -> [Writers -> DecoderState]] BY <1>2, <1>6, <1>7
<1>9. text' \in [Readers -> [Writers -> [chars : Nat, bad : BOOLEAN]]]
  <2> DEFINE new == [w \in Writers |-> [chars |-> text[r][w].chars + Chars(Of(w)),
                                        bad   |-> text[r][w].bad \/ \E e \in Of(w) : e.bad]]
  <2>1. ASSUME NEW w \in Writers PROVE Chars(Of(w)) \in Nat
    <3>1. IsFiniteSet(Range(f[n].decoded)) /\ \A e \in Range(f[n].decoded) : e.chars \in Nat
      <4> DEFINE d == f[n].decoded
      <4>1. d \in Seq(DecodedEvent) BY <1>5
      <4> HIDE DEF d
      <4>2. IsFiniteSet(Range(d)) BY <4>1, RangeFinite
      <4>3. Range(d) \subseteq DecodedEvent BY <4>1 DEF Range
      <4>4. \A e \in DecodedEvent : e.chars \in Nat BY DEF DecodedEvent
      <4> QED BY <4>2, <4>3, <4>4 DEF d
    <3>2. Of(w) \in SUBSET Range(f[n].decoded) OBVIOUS
    <3> HIDE DEF Of, n
    <3>3. IsFiniteSet(Of(w)) BY <3>1, <3>2, FS_Subset
    <3> QED BY <3>1, <3>2, <3>3, CharsType
  <2>2. \A w \in Writers : text[r][w].chars \in Nat BY <1>2
  <2>3. \A w \in Writers : text[r][w].chars + Chars(Of(w)) \in Nat
    <3> HIDE DEF Of
    <3> QED BY <2>1, <2>2
  <2>4. \A w \in Writers : (text[r][w].bad \/ \E e \in Of(w) : e.bad) \in BOOLEAN OBVIOUS
  <2>5. new \in [Writers -> [chars : Nat, bad : BOOLEAN]]
    <3> HIDE DEF Of
    <3> QED BY <2>3, <2>4
  <2>6. text' = [text EXCEPT ![r] = new] BY DEF PageDecoded
  <2> HIDE DEF new
  <2> QED BY <1>2, <2>5, <2>6
<1> QED BY <1>8, <1>9 DEF DecoderInv

\* What a command's client has without a gap grows by the page.
LEMMA CallGrowsSeen ==
  ASSUME BaseInv, ReadInv, TextInv, NEW r \in Readers, r \in Commands, Advanced(r), Gapless(r)'
  PROVE  /\ Gapless(r) /\ NextOutput(r, WithLive(r))
         /\ Seen(r, r)' = Seen(r, r) \cup WithLive(r)
<1> DEFINE S == WithLive(r)
           k == client[r].cursor
           m == client'[r].cursor
<1>1. /\ \A e \in sent : e.seq \in Nat
      /\ \A d, e \in sent : d.seq = e.seq => d = e
  BY SentNumbered DEF Numbered
<1>2. r # Shell BY WritersAssumption
<1>3. S \subseteq sent /\ \A e \in S : e.from = r /\ e.seq > k
  <2>1. S \subseteq {e \in sent : InScope(r, e)} BY PageInScope
  <2> HIDE DEF S
  <2> QED BY <1>2, <2>1 DEF InScope
<1>4. /\ sent' = sent /\ k \in Nat /\ m \in Nat /\ k <= m
      /\ \A e \in S : e.seq <= m
      /\ client'[r].got = client[r].got \cup {e.seq : e \in S}
  BY DEF Advanced
<1>5. \A x \in client[r].got : x <= k BY DEF ReadInv
<1>6. ASSUME NEW e \in sent, e.from = r, e.seq <= m PROVE e.seq \in client[r].got \/ e \in S
  <2>1. e \in Seen(r, r)' BY <1>4, <1>6 DEF Seen
  <2>2. e.seq \in client'[r].got BY <2>1 DEF Gapless
  <2> HIDE DEF S
  <2>3. CASE e.seq \in client[r].got BY <2>3
  <2>4. CASE e.seq \in {d.seq : d \in S}
    <3>1. PICK d \in S : d.seq = e.seq BY <2>4
    <3> QED BY <1>1, <1>3, <3>1
  <2> QED BY <1>4, <2>2, <2>3, <2>4
<1> HIDE DEF S, m
<1>7. ASSUME NEW e \in sent, e.from = r, e.seq > k, e.seq <= m PROVE e \in S
  <2>1. ~(e.seq <= k) BY <1>1, <1>4, <1>7
  <2> QED BY <1>5, <1>6, <1>7, <2>1
<1>8. Seen(r, r)' = Seen(r, r) \cup S
  <2>1. Seen(r, r)' = {e \in sent : e.from = r /\ e.seq <= m} BY <1>4 DEF Seen, m
  <2>2. ASSUME NEW e \in sent, e.from = r, e.seq <= m PROVE e.seq <= k \/ e \in S
    <3>1. e.seq <= k \/ e.seq > k BY <1>1, <1>4
    <3> QED BY <1>7, <2>2, <3>1
  <2>3. ASSUME NEW e \in sent, e.seq <= k PROVE e.seq <= m BY <1>1, <1>4, <2>3
  <2> QED BY <1>3, <1>4, <2>1, <2>2, <2>3 DEF Seen
<1>9. Gapless(r)
  <2>1. ASSUME NEW e \in Seen(r, r) PROVE e.seq \in client[r].got
    <3>1. e \in sent /\ e.from = r /\ e.seq <= k BY DEF Seen
    <3>2. e.seq <= m BY <1>1, <1>4, <3>1
    <3>3. e \notin S BY <1>1, <1>3, <1>4, <3>1
    <3> QED BY <1>6, <3>1, <3>2, <3>3
  <2> QED BY <2>1 DEF Gapless
<1>10. NextOutput(r, S)
  <2>1. ASSUME NEW x \in sent, NEW e \in S, x.from = r, x.seq > k, x.seq <= e.seq PROVE x \in S
    <3>1. x.seq <= m BY <1>1, <1>3, <1>4, <2>1
    <3> QED BY <1>7, <2>1, <3>1
  <2> QED BY <1>3, <2>1 DEF NextOutput
<1> QED BY <1>8, <1>9, <1>10 DEF S

\* A reply without a gap keeps the text exact: the heart of the argument.
LEMMA CallExact ==
  ASSUME BaseInv, ReadInv, ReaderInv, TextInv, NEW r \in Readers, r \in Commands, r \in Writers,
         ToolsCall(r), Advanced(r), NEW f, PageDecoded(r, f)
  PROVE  ExactText(r)'
<1>1. SUFFICES ASSUME Gapless(r)', r \notin torn'
               PROVE  /\ ~text'[r][r].bad
                      /\ \E q \in {0, 1} :
                           /\ 2 * text'[r][r].chars + q = Bytes(Seen(r, r)')
                           /\ ~client'[r].complete => InStep(r, decoders[r][r], q)'
  BY DEF ExactText
<1> DEFINE S == WithLive(r)
           n == Cardinality(S)
           c == text[r][r].chars
           D == Range(f[n].decoded)
<1>2. Gapless(r) /\ NextOutput(r, S) /\ Seen(r, r)' = Seen(r, r) \cup S BY <1>1, CallGrowsSeen
<1>3. ~client[r].complete BY DEF ReaderInv, ToolsCall, Reply, Read
<1>4. PICK p \in {0, 1} : /\ ~text[r][r].bad /\ 2 * c + p = Bytes(Seen(r, r))
                          /\ InStep(r, decoders[r][r], p)
  <2>1. r \notin torn BY <1>1 DEF ToolsCall
  <2> QED BY <1>2, <1>3, <2>1 DEF TextInv, ExactText, TextReaders
<1>5. /\ decoders \in [Readers -> [Writers -> DecoderState]]
      /\ text \in [Readers -> [Writers -> [chars : Nat, bad : BOOLEAN]]]
      /\ decoders[r] \in [Writers -> DecoderState] /\ c \in Nat
  BY DEF TextInv, DecoderInv
<1>6. DecodeSteps(f, decoders[r], Sorted(S)) BY DEF PageDecoded
<1> HIDE DEF S, c
<1>7. /\ \A d \in D : ~d.bad /\ d.from = r
      /\ Chars(D) \in Nat
      /\ \E q \in {0, 1} : /\ 2 * (c + Chars(D)) + q = Bytes(Seen(r, r) \cup S)
                           /\ IF S = {} THEN q = p ELSE f[n].state[r].pending = q
  <2>1. WholeText(r, S, f, c, p) BY <1>2, <1>4, <1>5, <1>6, DecodesExactly
  <2> QED BY <2>1 DEF WholeText
<1>8. {e \in D : e.from = r} = D BY <1>7
<1>9. text'[r][r].chars = c + Chars(D) /\ ~text'[r][r].bad
  <2> DEFINE Of(w) == {e \in D : e.from = w}
             new == [w \in Writers |-> [chars |-> text[r][w].chars + Chars(Of(w)),
                                        bad   |-> text[r][w].bad \/ \E e \in Of(w) : e.bad]]
  <2>1. text' = [text EXCEPT ![r] = new] BY DEF PageDecoded, S
  <2>2. text'[r] = new
    <3> HIDE DEF new
    <3> QED BY <1>5, <2>1
  <2>3. new[r] = [chars |-> text[r][r].chars + Chars(Of(r)),
                  bad   |-> text[r][r].bad \/ \E e \in Of(r) : e.bad]
    <3> HIDE DEF Of
    <3> QED OBVIOUS
  <2>4. Of(r) = D BY <1>8
  <2> HIDE DEF Of, new
  <2>5. ~(text[r][r].bad \/ \E e \in Of(r) : e.bad) BY <1>4, <1>7, <2>4
  <2>6. text'[r][r].chars = c + Chars(D) BY <2>2, <2>3, <2>4 DEF c
  <2>7. text'[r][r].bad = (text[r][r].bad \/ \E e \in Of(r) : e.bad) BY <2>2, <2>3
  <2> QED BY <2>5, <2>6, <2>7
<1>10. f[n].state \in [Writers -> DecoderState]
  <2>1. Len(Sorted(S)) = n /\ n \in Nat BY PageOf DEF S
  <2> HIDE DEF n
  <2>2. f[n] \in DecodeState BY <1>6, <2>1 DEF DecodeSteps
  <2> QED BY <2>2 DEF DecodeState
<1>11. PICK q \in {0, 1} : /\ 2 * (c + Chars(D)) + q = Bytes(Seen(r, r) \cup S)
                           /\ IF S = {} THEN q = p ELSE f[n].state[r].pending = q
  BY <1>7
<1>12. ASSUME ~client'[r].complete PROVE InStep(r, decoders[r][r], q)'
  <2> DEFINE s == decoders[r][r]
             t == f[n].state[r]
  <2>1. decoders'[r][r] = t
    <3>1. r \notin Delivered(r)
      <4>1. ~(Finished(r) /\ ~HasMore(r)) BY <1>12 DEF Advanced
      <4>2. r # Shell BY WritersAssumption
      <4> QED BY <4>1, <4>2 DEF Delivered
    <3>2. decoders'[r] = clear_decoders_for_command(f[n].state, Delivered(r))
      BY <1>5 DEF PageDecoded, S
    <3> QED BY <3>1, <3>2 DEF clear_decoders_for_command
  <2>2. /\ sent' = sent /\ client[r].cursor \in Nat /\ client'[r].cursor \in Nat
        /\ client[r].cursor <= client'[r].cursor
        /\ S = {} => client'[r].cursor = client[r].cursor
        /\ \A e \in S : e.seq <= client'[r].cursor
    BY DEF Advanced, S
  <2>3. LastIs(r, decoders[r], Sorted(S), f, n) /\ Len(Sorted(S)) = n /\ n \in Nat
        /\ \A k \in 1 .. n : Sorted(S)[k] \in S
    <3>1. /\ Sorted(S) \in Seq(Event) /\ Len(Sorted(S)) = n /\ n \in Nat
          /\ \A k \in 1 .. n : Sorted(S)[k] \in S
      BY PageOf DEF S
    <3>2. \A k \in 1 .. Len(Sorted(S)) : Sorted(S)[k].from = r
      <4>1. \A e \in S : e.from = r BY <1>2 DEF NextOutput
      <4> HIDE DEF n
      <4> QED BY <3>1, <4>1
    <3> HIDE DEF n
    <3>3. n \in 0 .. Len(Sorted(S)) BY <3>1
    <3> QED BY <1>5, <1>6, <3>1, <3>2, <3>3, LastDecoded
  <2>4. S = {} => t = s
    <3>1. SUFFICES ASSUME S = {} PROVE t = s OBVIOUS
    <3>2. n = 0 BY <3>1, FS_EmptySet
    <3> HIDE DEF n
    <3> QED BY <1>6, <3>2 DEF DecodeSteps
  <2>5. t.last \in Nat /\ s.last \in Nat BY <1>5, <1>10 DEF DecoderState
  <2>6. t.last > client'[r].cursor => t.last = s.last
    <3> HIDE DEF n
    <3>1. t.last = s.last \/ \E k \in 1 .. n : t.last = Sorted(S)[k].seq BY <2>3 DEF LastIs
    <3>2. \A k \in 1 .. n : Sorted(S)[k].seq <= client'[r].cursor BY <2>2, <2>3
    <3> QED BY <2>2, <2>5, <3>1, <3>2
  <2> HIDE DEF t, s, n
  <2>7. t.last <= client'[r].cursor => t.pending = q
    <3>1. CASE S = {} BY <1>4, <1>11, <2>2, <2>4, <3>1 DEF InStep, s
    <3>2. CASE S # {} BY <1>11, <3>2 DEF t
    <3> QED BY <3>1, <3>2
  <2>8. ASSUME t.last > client'[r].cursor
        PROVE  /\ \E e \in sent : e.from = r /\ e.seq = t.last
               /\ \A e \in sent : e.from = r /\ e.seq > client'[r].cursor /\ e.seq <= t.last
                                   => Phase(e) = 0
    <3>1. t.last = s.last /\ s.last > client[r].cursor BY <2>2, <2>5, <2>6, <2>8
    <3>2. /\ \E e \in sent : e.from = r /\ e.seq = s.last
          /\ \A e \in sent : e.from = r /\ e.seq > client[r].cursor /\ e.seq <= s.last
                              => Phase(e) = 0
      BY <1>4, <3>1 DEF InStep, s
    <3>3. \A e \in sent : e.seq > client'[r].cursor => e.seq > client[r].cursor
      <4>1. \A e \in sent : e.seq \in Nat BY SentNumbered DEF Numbered
      <4> QED BY <2>2, <4>1
    <3> QED BY <3>1, <3>2, <3>3
  <2>9. \A e : Phase(e)' = Phase(e) BY <2>2 DEF Phase
  <2> QED BY <2>1, <2>2, <2>7, <2>8, <2>9 DEF InStep
<1> HIDE DEF n, D
<1>13. 2 * text'[r][r].chars + q = Bytes(Seen(r, r)') BY <1>2, <1>9, <1>11
<1> QED BY <1>9, <1>12, <1>13

\* What a client was not given does not change its text.
OthersKeep(r) ==
    /\ sent' = sent
    /\ \A q \in Readers \ {r} : /\ client'[q] = client[q] /\ decoders'[q] = decoders[q]
                                /\ text'[q] = text[q]
                                /\ q \notin torn' => q \notin torn

LEMMA TextOfOthers ==
  ASSUME TextInv, NEW r, OthersKeep(r), NEW q \in TextReaders, q # r
  PROVE  ExactText(q)'
<1>1. /\ client'[q] = client[q] /\ decoders'[q] = decoders[q] /\ text'[q] = text[q]
      /\ sent' = sent /\ (q \notin torn' => q \notin torn)
  <2>1. q \in Readers \ {r} BY DEF TextReaders
  <2>2. sent' = sent /\ (q \notin torn' => q \notin torn) BY <2>1 DEF OthersKeep
  <2>3. client'[q] = client[q] /\ decoders'[q] = decoders[q] /\ text'[q] = text[q]
    BY <2>1 DEF OthersKeep
  <2> QED BY <2>2, <2>3
<1>2. Seen(q, q)' = Seen(q, q) /\ \A e : Phase(e)' = Phase(e) BY <1>1 DEF Seen, Phase
<1>3. \A p : InStep(q, decoders[q][q], p) => InStep(q, decoders[q][q], p)'
  BY <1>1, <1>2 DEF InStep
<1>4. ExactText(q) BY DEF TextInv
<1> QED BY <1>1, <1>2, <1>3, <1>4 DEF ExactText, Gapless

\* A reply changes nothing for the other clients.
LEMMA TextReply ==
  ASSUME BaseInv, ReadInv, ReaderInv, TextInv, NEW r \in Readers, ToolsCall(r)
  PROVE  TextInv'
<1>1. Advanced(r) BY CallAdvancesCursor
<1>2. PICK f : PageDecoded(r, f) BY CallDecodes
<1>4. DecoderInv' BY <1>1, <1>2, CallKeepsDecoders
<1>5. OthersKeep(r)
  <2>1. DOMAIN decoders = Readers /\ DOMAIN text = Readers BY DEF TextInv, DecoderInv
  <2>2. \A q \in Readers \ {r} : decoders'[q] = decoders[q] /\ text'[q] = text[q]
    BY <1>2, <2>1 DEF PageDecoded
  <2>3. torn' = torn BY DEF ToolsCall
  <2> QED BY <1>1, <2>2, <2>3 DEF OthersKeep, Advanced
<1>6. ASSUME NEW q \in TextReaders PROVE ExactText(q)'
  <2>1. CASE q = r BY <1>1, <1>2, <2>1, CallExact DEF TextReaders
  <2>2. CASE q # r BY <1>5, <2>2, TextOfOthers
  <2> QED BY <2>1, <2>2
<1> QED BY <1>4, <1>6 DEF TextInv, TextReaders

\* A reply that is lost moves the decoders and nothing else; where it starts inside
\* a character, or gives an event that does, its reader is torn.
LEMMA TextLost ==
  ASSUME BaseInv, ReadInv, ReaderInv, TextInv, NEW r \in Readers, ReplyLost(r)
  PROVE  TextInv'
<1> DEFINE S == WithLive(r)
           page == Sorted(S)
           n == Cardinality(S)
<1>1. UNCHANGED <<sent, client, text>> /\ torn \subseteq torn'
  BY DEF ReplyLost, writerVars
<1>2. /\ page \in Seq(Event) /\ Len(page) = n /\ n \in Nat
      /\ \A k \in 1 .. n : page[k] \in S
  BY PageOf
<1>3. /\ decoders \in [Readers -> [Writers -> DecoderState]]
      /\ decoders[r] \in [Writers -> DecoderState]
      /\ text \in [Readers -> [Writers -> [chars : Nat, bad : BOOLEAN]]]
  BY DEF TextInv, DecoderInv
<1>4. n = 0 <=> S = {}
  <2>1. IsFiniteSet(S) BY PageOf DEF Numbered
  <2> QED BY <2>1, FS_EmptySet
<1>5. PageEventsOf(r) = page BY DEF PageEventsOf
<1>6. decoders' = [decoders EXCEPT ![r] =
                     clear_decoders_for_command(Decode(decoders[r], page).state, Delivered(r))]
  <2> HIDE DEF page
  <2> QED BY <1>5, Zenon DEF ReplyLost
<1>7. S \subseteq {e \in sent : InScope(r, e)} BY PageInScope
<1>8. \A e \in S : e.seq <= NextCursor(r) BY NextCursorIs
<1> HIDE DEF S, page, n
<1>9. PICK f : DecodeSteps(f, decoders[r], page) BY <1>2, <1>3, DecodesPage
<1>10. Decode(decoders[r], page) = f[n] /\ f[n] \in DecodeState
  BY <1>2, <1>9 DEF DecodeSteps
<1>11. f[n].state \in [Writers -> DecoderState] BY <1>10 DEF DecodeState
<1> DEFINE cleared == clear_decoders_for_command(f[n].state, Delivered(r))
<1>12. cleared \in [Writers -> DecoderState] BY <1>11, ClearedType
<1>13. decoders'[r] = cleared /\ \A q \in Readers \ {r} : decoders'[q] = decoders[q]
  BY <1>3, <1>6, <1>10
<1>14. DecoderInv'
  <2> HIDE DEF cleared
  <2>1. decoders' = [decoders EXCEPT ![r] = cleared] BY <1>6, <1>10 DEF cleared
  <2>2. decoders' \in [Readers -> [Writers -> DecoderState]] BY <1>3, <1>12, <2>1
  <2> QED BY <1>1, <1>3, <2>2 DEF DecoderInv
<1>15. OthersKeep(r) BY <1>1, <1>13 DEF OthersKeep
<1>16. ASSUME r \in TextReaders PROVE ExactText(r)'
  <2>1. SUFFICES ASSUME Gapless(r), r \notin torn, r \notin torn'
                 PROVE  /\ ~text[r][r].bad
                        /\ \E p \in {0, 1} :
                             /\ 2 * text[r][r].chars + p = Bytes(Seen(r, r))
                             /\ InStep(r, decoders[r][r], p)'
    <3>1. Seen(r, r)' = Seen(r, r) BY <1>1 DEF Seen
    <3> QED BY <1>1, <3>1 DEF ExactText, Gapless
  <2>2. ~client[r].complete BY DEF ReaderInv, ReplyLost, Read
  <2>3. PICK p \in {0, 1} : /\ ~text[r][r].bad
                            /\ 2 * text[r][r].chars + p = Bytes(Seen(r, r))
                            /\ InStep(r, decoders[r][r], p)
    BY <1>16, <2>1, <2>2 DEF TextInv, ExactText
  <2>4. \A e : Phase(e)' = Phase(e) BY <1>1 DEF Phase
  <2>5. CASE decoders' = decoders
    <3>1. InStep(r, decoders[r][r], p)' BY <1>1, <2>3, <2>4, <2>5 DEF InStep
    <3> QED BY <2>3, <3>1
  <2>6. CASE decoders' # decoders
    <3>1. ~Cut(r) BY <2>1, <2>6 DEF ReplyLost
    <3>2. p = 0
      <4>1. Bytes(Seen(r, r)) % 2 # 1 BY <3>1 DEF Cut
      <4>2. text[r][r].chars \in Nat BY <1>3, <1>16 DEF TextReaders
      <4>3. p = 1 => (2 * text[r][r].chars + p) % 2 = 1 BY <4>2
      <4> QED BY <2>3, <4>1, <4>3
    <3>3. r \in Writers /\ r \in Commands /\ r # Shell
      BY <1>16, WritersAssumption DEF TextReaders
    <3> DEFINE s == decoders[r][r]
               t == f[n].state[r]
    <3>4. client[r].cursor \in Nat BY DEF BaseInv, TypeOK
    <3>5. CASE r \in Delivered(r)
      <4>1. decoders'[r][r] = NoDecoder BY <1>13, <3>3, <3>5 DEF clear_decoders_for_command
      <4>2. NoDecoder.last = 0 /\ NoDecoder.pending = 0 /\ ~(0 > client[r].cursor)
        BY <3>4 DEF NoDecoder
      <4>3. InStep(r, decoders[r][r], p)' BY <1>1, <3>2, <4>1, <4>2 DEF InStep
      <4> QED BY <2>3, <4>3
    <3>6. CASE r \notin Delivered(r)
      <4>1. decoders'[r][r] = t BY <1>13, <3>3, <3>6 DEF clear_decoders_for_command
      <4>2. CASE S = {}
        <5>1. t = s BY <1>4, <1>9, <4>2 DEF DecodeSteps
        <5>2. InStep(r, decoders[r][r], p)' BY <1>1, <2>3, <2>4, <4>1, <5>1 DEF InStep
        <5> QED BY <2>3, <5>2
      <4>3. CASE S # {}
        <5>1. \A e \in S : e \in sent /\ e.from = r /\ e.seq > client[r].cursor /\ e.seq \in Nat
          <6>1. \A e \in sent : e.seq \in Nat BY SentNumbered DEF Numbered
          <6> QED BY <1>7, <3>3, <6>1 DEF InScope
        <5>2. LastIs(r, decoders[r], page, f, n)
          <6>1. \A k \in 1 .. Len(page) : page[k].from = r BY <1>2, <5>1
          <6>2. n \in 0 .. Len(page) BY <1>2
          <6> QED BY <1>2, <1>3, <1>9, <3>3, <6>1, <6>2, LastDecoded
        <5>3. s.last \in Nat /\ t.last \in Nat BY <1>3, <1>11, <3>3 DEF DecoderState
        <5> HIDE DEF s, t
        <5>4. /\ t.last = s.last \/ \E k \in 1 .. n : t.last = page[k].seq
              /\ \A k \in 1 .. n : page[k].seq <= t.last
          BY <5>2 DEF LastIs, s, t
        <5>5. t.last > client[r].cursor
          <6>1. 1 \in 1 .. n BY <1>2, <1>4, <4>3
          <6>2. page[1] \in S /\ page[1].seq <= t.last BY <1>2, <5>4, <6>1
          <6> QED BY <3>4, <5>1, <5>3, <6>2
        <5>6. \E e \in sent : e.from = r /\ e.seq = t.last
          <6>1. CASE t.last = s.last BY <2>3, <5>5, <6>1 DEF InStep, s
          <6>2. CASE \E k \in 1 .. n : t.last = page[k].seq BY <1>2, <5>1, <6>2
          <6> QED BY <5>4, <6>1, <6>2
        <5>7. ASSUME NEW e \in sent, e.from = r, e.seq > client[r].cursor, e.seq <= t.last
              PROVE  Phase(e) = 0
          <6>1. CASE t.last = s.last BY <2>3, <5>5, <5>7, <6>1 DEF InStep, s
          <6>2. CASE \E k \in 1 .. n : t.last = page[k].seq
            <7>1. t.last <= NextCursor(r) BY <1>2, <1>8, <6>2
            <7>2. NextCursor(r) \in Nat /\ e.seq \in Nat
              BY NextCursorIs, SentNumbered DEF Numbered
            <7>3. e.seq <= NextCursor(r) BY <5>3, <5>7, <7>1, <7>2
            <7>4. Phase(e) # 1 BY <3>1, <5>7, <7>3 DEF Cut
            <7> QED BY <7>4, PhaseType
          <6> QED BY <5>4, <6>1, <6>2
        <5>8. ~(t.last <= client[r].cursor) BY <3>4, <5>3, <5>5
        <5>9. InStep(r, decoders[r][r], p)'
          BY <1>1, <2>4, <4>1, <5>5, <5>6, <5>7, <5>8 DEF InStep
        <5> QED BY <2>3, <5>9
      <4> QED BY <4>2, <4>3
    <3> QED BY <3>5, <3>6
  <2> QED BY <2>5, <2>6
<1>17. ASSUME NEW q \in TextReaders PROVE ExactText(q)'
  <2>1. CASE q = r BY <1>16, <1>17, <2>1
  <2>2. CASE q # r BY <1>15, <2>2, TextOfOthers
  <2> QED BY <2>1, <2>2
<1> QED BY <1>14, <1>17 DEF TextInv, TextReaders

-----------------------------------------------------------------------------
(* Chunks, and the text that is shown.                                     *)

\* Chunks of a page.
Chunk == [stream : {"pty", "stdout"}, persisted : BOOLEAN, first : Nat, last : Nat,
          count : Nat, chars : Nat]

\* What one event makes of the chunks: the last one grows, or there is one more.
Grows(old, new, e) ==
    /\ Len(old) \in Nat /\ Len(old) # 0 /\ Len(new) = Len(old)
    /\ \A k \in 1 .. Len(old) - 1 : new[k] = old[k]
    /\ old[Len(old)].stream = stream_name(e.from)
    /\ new[Len(old)] = grown_chunk(old[Len(old)], e)
Adds(old, new, e) ==
    /\ Len(new) = Len(old) + 1
    /\ \A k \in 1 .. Len(old) : new[k] = old[k]
    /\ new[Len(old) + 1] = NewChunk(e)

\* A chunk that is new, and one that has grown, is a chunk.
LEMMA ChunkTypes ==
  ASSUME NEW e \in DecodedEvent
  PROVE  /\ NewChunk(e) \in Chunk
         /\ \A c \in Chunk : grown_chunk(c, e) \in Chunk
<1>1. /\ e.seq \in Nat /\ e.chars \in Nat /\ e.persisted \in BOOLEAN
      /\ stream_name(e.from) \in {"pty", "stdout"}
  BY DEF DecodedEvent, stream_name
<1>2. NewChunk(e) \in Chunk BY <1>1 DEF NewChunk, Chunk
<1>3. ASSUME NEW c \in Chunk PROVE grown_chunk(c, e) \in Chunk
  <2>1. c.chars + e.chars \in Nat /\ c.count + 1 \in Nat BY <1>1 DEF Chunk
  <2>2. grown_chunk(c, e) = [c EXCEPT !.chars = c.chars + e.chars, !.count = c.count + 1,
                                      !.last = e.seq]
    BY DEF grown_chunk
  <2> QED BY <1>1, <2>1, <2>2 DEF Chunk
<1> QED BY <1>2, <1>3

\* with_event does one or the other.
LEMMA ChunksOne ==
  ASSUME NEW chunks \in Seq(Chunk), NEW e \in DecodedEvent
  PROVE  /\ with_event(chunks, e) \in Seq(Chunk)
         /\ \/ Grows(chunks, with_event(chunks, e), e)
            \/ Adds(chunks, with_event(chunks, e), e)
<1> DEFINE m == Len(chunks)
           front == SubSeq(chunks, 1, m - 1)
<1>1. m \in Nat OBVIOUS
<1>2. NewChunk(e) \in Chunk /\ \A c \in Chunk : grown_chunk(c, e) \in Chunk BY ChunkTypes
<1>3. CASE chunks # <<>> /\ Joins(Last(chunks), e)
  <2>1. m # 0 /\ chunks[m] \in Chunk BY <1>3
  <2>2. front \in Seq(Chunk) /\ Len(front) = m - 1 /\ \A k \in 1 .. m - 1 : front[k] = chunks[k]
    <3>1. m - 1 \in 0 .. Len(chunks) BY <1>1, <2>1
    <3> DEFINE q == m - 1
    <3> HIDE DEF q, m
    <3>2. q \in 0 .. Len(chunks) BY <3>1 DEF q
    <3>3. SubSeq(chunks, 1, q) \in Seq(Chunk) /\ Len(SubSeq(chunks, 1, q)) = q BY <3>2
    <3>4. \A k \in 1 .. q : SubSeq(chunks, 1, q)[k] = chunks[k] BY <3>2
    <3> QED BY <3>3, <3>4 DEF q
  <2>3. with_event(chunks, e) = Append(front, grown_chunk(chunks[m], e))
    BY <1>3 DEF with_event, Front, Last
  <2>4. chunks[m].stream = stream_name(e.from) BY <1>3 DEF Joins, Last
  <2>5. grown_chunk(chunks[m], e) \in Chunk BY <1>2, <2>1
  <2> HIDE DEF front, m
  <2>6. /\ with_event(chunks, e) \in Seq(Chunk) /\ Len(with_event(chunks, e)) = m
        /\ \A k \in 1 .. m - 1 : with_event(chunks, e)[k] = chunks[k]
        /\ with_event(chunks, e)[m] = grown_chunk(chunks[m], e)
    BY <1>1, <2>1, <2>2, <2>3, <2>5
  <2> QED BY <1>1, <2>1, <2>4, <2>6 DEF Grows, m
<1>4. CASE ~(chunks # <<>> /\ Joins(Last(chunks), e))
  <2>1. with_event(chunks, e) = Append(chunks, NewChunk(e)) BY <1>4, Zenon DEF with_event
  <2> QED BY <1>2, <2>1 DEF Adds
<1> QED BY <1>3, <1>4

\* The chunks after each event of a page.
ChunkSteps(g, decoded) ==
    /\ g \in [0 .. Len(decoded) -> Seq(Chunk)]
    /\ g[0] = <<>>
    /\ \A i \in 1 .. Len(decoded) : g[i] = with_event(g[i - 1], decoded[i])
    /\ chunks_from(decoded) = g[Len(decoded)]

\* chunks_from is the last of these steps.
LEMMA ChunksPage ==
  ASSUME NEW decoded \in Seq(DecodedEvent)
  PROVE  \E g : ChunkSteps(g, decoded)
<1> DEFINE n == Len(decoded)
           V == Seq(Chunk)
           step == [i \in 1 .. n |-> [acc \in V |-> with_event(acc, decoded[i])]]
           After(f) == f = [i \in 0 .. Len(decoded) |->
                              IF i = 0 THEN <<>> ELSE with_event(f[i - 1], decoded[i])]
           w == CHOOSE f : After(f)
<1>1. n \in Nat /\ \A i \in 1 .. n : decoded[i] \in DecodedEvent OBVIOUS
<1>2. <<>> \in V OBVIOUS
<1>3. step \in [1 .. n -> [V -> V]]
  <2>1. \A i \in 1 .. n : \A acc \in V : with_event(acc, decoded[i]) \in V
    <3> HIDE DEF n
    <3> QED BY <1>1, ChunksOne
  <2> HIDE DEF n, V
  <2> QED BY <2>1
<1> HIDE DEF V
<1>4. PICK f \in [0 .. n -> V] : Iteration(f, n, <<>>, step)
  <2> HIDE DEF n, step
  <2> QED BY <1>1, <1>2, <1>3, Iterates
<1>5. f[0] = <<>> /\ \A i \in 1 .. n : f[i] = with_event(f[i - 1], decoded[i])
  <2>1. f[0] = <<>> /\ \A i \in 1 .. n : f[i] = step[i][f[i - 1]]
    <3> HIDE DEF n, step
    <3> QED BY <1>4 DEF Iteration
  <2>2. \A i \in 1 .. n : f[i - 1] \in V
    <3> HIDE DEF n
    <3> QED BY <1>1, <1>4
  <2> HIDE DEF n
  <2> QED BY <2>1, <2>2
<1>6. After(f) BY <1>4, <1>5
<1>7. After(w)
  <2> HIDE DEF After
  <2> QED BY <1>6
<1>8. chunks_from(decoded) = w[n] BY DEF chunks_from
<1> HIDE DEF w
<1>9. w[0] = <<>> /\ \A i \in 1 .. n : w[i] = with_event(w[i - 1], decoded[i])
  <2>1. n \in Nat /\ w = [i \in 0 .. n |-> IF i = 0 THEN <<>> ELSE with_event(w[i - 1], decoded[i])]
    BY <1>1, <1>7
  <2> HIDE DEF n
  <2> QED BY <2>1
<1> DEFINE T == {i \in Nat : i <= n => w[i] = f[i]}
<1>10. 0 \in T BY <1>5, <1>9
<1>11. ASSUME NEW i \in Nat, i \in T PROVE i + 1 \in T
  <2>1. SUFFICES ASSUME i + 1 <= n PROVE w[i + 1] = f[i + 1] OBVIOUS
  <2>2. i + 1 \in 1 .. n /\ (i + 1) - 1 = i /\ w[i] = f[i] BY <1>1, <1>11, <2>1
  <2> QED BY <1>5, <1>9, <2>2
<1>12. n \in T
  <2> HIDE DEF T
  <2> QED BY <1>1, <1>10, <1>11, SetInduction
<1>13. w[n] = f[n]
  <2> HIDE DEF n
  <2> QED BY <1>1, <1>12
<1>14. ChunkSteps(f, decoded) BY <1>4, <1>5, <1>8, <1>13 DEF ChunkSteps, V
<1> QED BY <1>14

\* The characters of the chunks of s, one after the other.
RunningTotal(h, s) ==
    /\ h \in [0 .. Len(s) -> Nat] /\ h[0] = 0
    /\ \A k \in 1 .. Len(s) : h[k] = h[k - 1] + s[k].chars

Totals(s, total) == \E h : RunningTotal(h, s) /\ h[Len(s)] = total

\* Either way the characters of the event are counted once.
LEMMA GrowsTotal ==
  ASSUME NEW old \in Seq(Chunk), NEW new \in Seq(Chunk), NEW e \in DecodedEvent,
         Grows(old, new, e), NEW total \in Nat, Totals(old, total)
  PROVE  Totals(new, total + e.chars)
<1> DEFINE m == Len(old)
<1>1. PICK h : RunningTotal(h, old) /\ h[m] = total BY DEF Totals
<1>2. e.chars \in Nat /\ \A c \in Chunk : c.chars \in Nat BY DEF DecodedEvent, Chunk
<1>3. /\ m \in Nat /\ m # 0 /\ Len(new) = m /\ m \in 1 .. m /\ m - 1 \in 0 .. m
      /\ \A k \in 1 .. m - 1 : new[k] = old[k]
      /\ new[m].chars = old[m].chars + e.chars
  <2>1. m \in Nat /\ m # 0 /\ Len(new) = m /\ \A k \in 1 .. m - 1 : new[k] = old[k]
    BY DEF Grows
  <2>2. new[m] = grown_chunk(old[m], e) BY DEF Grows
  <2>3. old[m] \in Chunk BY <2>1
  <2>4. new[m].chars = old[m].chars + e.chars BY <2>2, <2>3 DEF grown_chunk, Chunk
  <2> QED BY <2>1, <2>4
<1>4. old[m].chars \in Nat BY <1>2, <1>3
<1> DEFINE g == [k \in 0 .. m |-> IF k = m THEN total + e.chars ELSE h[k]]
<1>5. h \in [0 .. m -> Nat] /\ h[0] = 0 /\ \A k \in 1 .. m : h[k] = h[k - 1] + old[k].chars
  BY <1>1 DEF RunningTotal
<1> HIDE DEF m
<1>6. g \in [0 .. m -> Nat] BY <1>2, <1>3, <1>5, SMTT(30)
<1>7. g[0] = 0 BY <1>3, <1>5
<1>8. g[m] = g[m - 1] + new[m].chars
  <2>1. g[m] = total + e.chars /\ g[m - 1] = h[m - 1] BY <1>3
  <2>2. total = h[m - 1] + old[m].chars /\ h[m - 1] \in Nat BY <1>1, <1>3, <1>5
  <2> HIDE DEF g
  <2> QED BY <1>2, <1>3, <1>4, <2>1, <2>2
<1>9. ASSUME NEW k \in 1 .. m PROVE g[k] = g[k - 1] + new[k].chars
  <2>1. CASE k = m BY <1>8, <2>1
  <2>2. CASE k # m
    <3>1. k \in 1 .. m - 1 /\ k \in 0 .. m /\ k - 1 \in 0 .. m /\ k - 1 # m BY <1>3, <2>2
    <3>2. g[k] = h[k] /\ g[k - 1] = h[k - 1] BY <2>2, <3>1
    <3>3. new[k] = old[k] BY <1>3, <3>1
    <3> QED BY <1>5, <3>2, <3>3
  <2> QED BY <2>1, <2>2
<1>10. g[m] = total + e.chars BY <1>3
<1> HIDE DEF g
<1>11. RunningTotal(g, new) BY <1>3, <1>6, <1>7, <1>9 DEF RunningTotal
<1> QED BY <1>3, <1>10, <1>11 DEF Totals

LEMMA AddsTotal ==
  ASSUME NEW old \in Seq(Chunk), NEW new \in Seq(Chunk), NEW e \in DecodedEvent,
         Adds(old, new, e), NEW total \in Nat, Totals(old, total)
  PROVE  Totals(new, total + e.chars)
<1> DEFINE m == Len(old)
<1>1. PICK h : RunningTotal(h, old) /\ h[m] = total BY DEF Totals
<1>2. e.chars \in Nat BY DEF DecodedEvent
<1>3. /\ m \in Nat /\ Len(new) = m + 1
      /\ \A k \in 1 .. m : new[k] = old[k]
      /\ new[m + 1].chars = e.chars
  BY DEF Adds, NewChunk
<1> DEFINE g == [k \in 0 .. m + 1 |-> IF k = m + 1 THEN total + e.chars ELSE h[k]]
<1>5. h \in [0 .. m -> Nat] /\ h[0] = 0 /\ \A k \in 1 .. m : h[k] = h[k - 1] + old[k].chars
  BY <1>1 DEF RunningTotal
<1> HIDE DEF m
<1>6. g \in [0 .. m + 1 -> Nat] BY <1>2, <1>3, <1>5
<1>7. g[0] = 0 BY <1>3, <1>5
<1>8. g[m + 1] = g[m] + new[m + 1].chars BY <1>1, <1>3
<1>9. ASSUME NEW k \in 1 .. m + 1 PROVE g[k] = g[k - 1] + new[k].chars
  <2>1. CASE k = m + 1 BY <1>3, <1>8, <2>1
  <2>2. CASE k # m + 1
    <3>1. k \in 1 .. m /\ k \in 0 .. m + 1 /\ k - 1 \in 0 .. m + 1 /\ k - 1 # m + 1 BY <1>3, <2>2
    <3>2. g[k] = h[k] /\ g[k - 1] = h[k - 1] BY <2>2, <3>1
    <3>3. new[k] = old[k] BY <1>3, <3>1
    <3> QED BY <1>5, <3>1, <3>2, <3>3
  <2> QED BY <2>1, <2>2
<1>10. g[m + 1] = total + e.chars BY <1>3
<1> HIDE DEF g
<1>11. RunningTotal(g, new) BY <1>3, <1>6, <1>7, <1>9 DEF RunningTotal
<1> QED BY <1>3, <1>10, <1>11 DEF Totals

\* The event is in the range of the chunk.
Holds(c, e) == c.stream = stream_name(e.from) /\ e.seq \in c.first .. c.last

\* Every event of D is in the range of a chunk of s.
Covers(s, D) == \A e \in D : \E j \in 1 .. Len(s) : Holds(s[j], e)

\* The chunks of s end before the sequence b.
EndBefore(s, b) == \A j \in 1 .. Len(s) : s[j].first <= s[j].last /\ s[j].last < b

\* A chunk that grows keeps the events it had, since it ends before the next.
LEMMA CoversMore ==
  ASSUME NEW old \in Seq(Chunk), NEW new \in Seq(Chunk), NEW e \in DecodedEvent,
         Grows(old, new, e) \/ Adds(old, new, e),
         NEW D \in SUBSET DecodedEvent, Covers(old, D), EndBefore(old, e.seq)
  PROVE  Covers(new, D \cup {e}) /\ \A b \in Nat : e.seq < b => EndBefore(new, b)
<1> DEFINE m == Len(old)
<1>1. m \in Nat /\ e.seq \in Nat BY DEF DecodedEvent
<1>2. \A j \in 1 .. m : /\ old[j] \in Chunk /\ old[j].first \in Nat /\ old[j].last \in Nat
                        /\ old[j].first <= old[j].last /\ old[j].last < e.seq
  <2>1. \A j \in 1 .. m : old[j] \in Chunk OBVIOUS
  <2>2. \A c \in Chunk : c.first \in Nat /\ c.last \in Nat BY DEF Chunk
  <2> QED BY <2>1, <2>2 DEF EndBefore
<1>3. \A x \in D : x.seq \in Nat BY DEF DecodedEvent
<1>4. CASE Grows(old, new, e)
  <2>1. /\ m # 0 /\ m \in 1 .. m /\ Len(new) = m
        /\ \A k \in 1 .. m - 1 : new[k] = old[k]
        /\ old[m].stream = stream_name(e.from) /\ new[m] = grown_chunk(old[m], e)
    BY <1>1, <1>4 DEF Grows
  <2>2. /\ new[m].stream = old[m].stream /\ new[m].first = old[m].first /\ new[m].last = e.seq
    <3>1. old[m] \in Chunk BY <1>2, <2>1
    <3> QED BY <2>1, <3>1 DEF grown_chunk, Chunk
  <2> HIDE DEF m
  <2>3. ASSUME NEW x \in D PROVE \E j \in 1 .. m : Holds(new[j], x)
    <3>1. PICK j \in 1 .. m : Holds(old[j], x) BY DEF Covers, m
    <3>2. CASE j = m
      <4>1. x.seq \in old[m].first .. old[m].last /\ old[m].stream = stream_name(x.from)
        BY <3>1, <3>2 DEF Holds
      <4>2. x.seq \in new[m].first .. new[m].last BY <1>1, <1>2, <2>1, <2>2, <4>1
      <4> QED BY <2>1, <2>2, <4>1, <4>2 DEF Holds
    <3>3. CASE j # m
      <4>1. j \in 1 .. m - 1 BY <1>1, <3>3
      <4> QED BY <2>1, <3>1, <4>1
    <3> QED BY <3>2, <3>3
  <2>4. Holds(new[m], e) BY <1>1, <1>2, <2>1, <2>2 DEF Holds
  <2>5. Covers(new, D \cup {e}) BY <2>1, <2>3, <2>4 DEF Covers
  <2>6. ASSUME NEW b \in Nat, e.seq < b, NEW j \in 1 .. m
        PROVE  new[j].first <= new[j].last /\ new[j].last < b
    <3>1. CASE j = m BY <1>1, <1>2, <2>1, <2>2, <2>6, <3>1, SMTT(30)
    <3>2. CASE j # m
      <4>1. j \in 1 .. m - 1 BY <1>1, <3>2
      <4>2. new[j] = old[j] BY <2>1, <4>1
      <4> QED BY <1>1, <1>2, <2>6, <4>2
    <3> QED BY <3>1, <3>2
  <2> QED BY <2>1, <2>5, <2>6 DEF EndBefore
<1>5. CASE Adds(old, new, e)
  <2>1. /\ Len(new) = m + 1 /\ m + 1 \in 1 .. m + 1
        /\ \A k \in 1 .. m : new[k] = old[k] /\ k \in 1 .. m + 1
        /\ new[m + 1] = NewChunk(e)
    BY <1>1, <1>5 DEF Adds
  <2>2. /\ new[m + 1].stream = stream_name(e.from)
        /\ new[m + 1].first = e.seq /\ new[m + 1].last = e.seq
    BY <2>1 DEF NewChunk
  <2> HIDE DEF m
  <2>3. ASSUME NEW x \in D PROVE \E j \in 1 .. m + 1 : Holds(new[j], x)
    <3>1. PICK j \in 1 .. m : Holds(old[j], x) BY DEF Covers, m
    <3> QED BY <2>1, <3>1
  <2>4. Holds(new[m + 1], e) BY <1>1, <2>2 DEF Holds
  <2>5. Covers(new, D \cup {e}) BY <2>1, <2>3, <2>4 DEF Covers
  <2>6. ASSUME NEW b \in Nat, e.seq < b, NEW j \in 1 .. m + 1
        PROVE  new[j].first <= new[j].last /\ new[j].last < b
    <3>1. CASE j = m + 1 BY <1>1, <2>2, <2>6, <3>1
    <3>2. CASE j # m + 1
      <4>1. j \in 1 .. m BY <1>1, <3>2
      <4>2. new[j] = old[j] BY <2>1, <4>1
      <4> QED BY <1>1, <1>2, <2>6, <4>1, <4>2
    <3> QED BY <3>1, <3>2
  <2> QED BY <2>1, <2>5, <2>6 DEF EndBefore
<1> QED BY <1>4, <1>5

\* In the order of their sequences.
InOrderOfSeq(decoded) ==
    \A i, j \in 1 .. Len(decoded) : i < j => decoded[i].seq < decoded[j].seq

\* Merging loses no event and no character.
LEMMA ChunksHold ==
  ASSUME NEW decoded \in Seq(DecodedEvent), InOrderOfSeq(decoded), NEW g, ChunkSteps(g, decoded)
  PROVE  /\ Covers(g[Len(decoded)], Range(decoded))
         /\ Totals(g[Len(decoded)], Chars(Range(decoded)))
<1> DEFINE n == Len(decoded)
           D(i) == {decoded[k] : k \in 1 .. i}
           Held(i) == /\ Covers(g[i], D(i)) /\ IsFiniteSet(D(i))
                      /\ \A k \in 1 .. n : i < k => EndBefore(g[i], decoded[k].seq)
                      /\ Totals(g[i], Chars(D(i)))
           T == {i \in Nat : i <= n => Held(i)}
<1>1. n \in Nat /\ \A k \in 1 .. n : decoded[k] \in DecodedEvent /\ decoded[k].seq \in Nat
                                     /\ decoded[k].chars \in Nat
  <2>1. n \in Nat /\ \A k \in 1 .. n : decoded[k] \in DecodedEvent OBVIOUS
  <2>2. \A x \in DecodedEvent : x.seq \in Nat /\ x.chars \in Nat BY DEF DecodedEvent
  <2> QED BY <2>1, <2>2
<1> HIDE DEF n
<1>2. 0 \in T
  <2>1. g[0] = <<>> /\ Len(<<>>) = 0 /\ D(0) = {} BY DEF ChunkSteps
  <2>2. IsFiniteSet(D(0)) /\ Chars(D(0)) = 0 BY <2>1, FS_EmptySet, NoChars
  <2>3. Covers(g[0], D(0)) /\ \A b : EndBefore(g[0], b) BY <2>1 DEF Covers, EndBefore
  <2>4. Totals(g[0], 0)
    <3> DEFINE h == [k \in 0 .. 0 |-> 0]
    <3>1. RunningTotal(h, <<>>) /\ h[0] = 0 BY <2>1 DEF RunningTotal
    <3> HIDE DEF h
    <3> QED BY <2>1, <3>1 DEF Totals
  <2> HIDE DEF D
  <2> QED BY <2>2, <2>3, <2>4
<1>3. ASSUME NEW i \in Nat, i \in T PROVE i + 1 \in T
  <2>1. SUFFICES ASSUME i + 1 <= n PROVE Held(i + 1) OBVIOUS
  <2> DEFINE e == decoded[i + 1]
  <2>2. /\ Held(i) /\ i + 1 \in 1 .. n /\ (i + 1) - 1 = i /\ i \in 0 .. n /\ i + 1 \in 0 .. n
        /\ i < i + 1
    BY <1>1, <1>3, <2>1
  <2>3. e \in DecodedEvent /\ e.seq \in Nat /\ e.chars \in Nat BY <1>1, <2>2
  <2>4. g[i] \in Seq(Chunk) /\ g[i + 1] \in Seq(Chunk) /\ g[i + 1] = with_event(g[i], e)
    BY <2>2 DEF ChunkSteps, n
  <2>5. Grows(g[i], g[i + 1], e) \/ Adds(g[i], g[i + 1], e) BY <2>3, <2>4, ChunksOne
  <2>6. D(i + 1) = D(i) \cup {e} /\ D(i) \in SUBSET DecodedEvent /\ e \notin D(i)
    <3>1. \A k : k \in 1 .. i + 1 <=> k \in 1 .. i \/ k = i + 1 BY <1>3
    <3>2. \A k \in 1 .. i : k \in 1 .. n /\ k < i + 1 BY <1>1, <2>2
    <3>3. \A k \in 1 .. i : decoded[k].seq < e.seq BY <2>2, <3>2 DEF InOrderOfSeq, n
    <3>4. \A k \in 1 .. i : decoded[k] # e BY <2>3, <3>3
    <3>5. D(i + 1) = D(i) \cup {e} BY <3>1
    <3>6. D(i) \in SUBSET DecodedEvent BY <1>1, <3>2
    <3> QED BY <3>4, <3>5, <3>6
  <2>7. EndBefore(g[i], e.seq) BY <2>2
  <2> HIDE DEF D, e
  <2>8. /\ Covers(g[i + 1], D(i + 1))
        /\ \A b \in Nat : e.seq < b => EndBefore(g[i + 1], b)
    BY <2>2, <2>3, <2>4, <2>5, <2>6, <2>7, CoversMore, ZenonT(40)
  <2>9. ASSUME NEW k \in 1 .. n, i + 1 < k PROVE EndBefore(g[i + 1], decoded[k].seq)
    <3>1. e.seq < decoded[k].seq BY <2>2, <2>9 DEF InOrderOfSeq, n, e
    <3> QED BY <1>1, <2>8, <3>1
  <2>10. \A x \in D(i) : x.chars \in Nat BY <2>6 DEF DecodedEvent
  <2>11. /\ Chars(D(i)) \in Nat /\ Chars(D(i + 1)) = Chars(D(i)) + e.chars
         /\ IsFiniteSet(D(i + 1))
    BY <2>2, <2>3, <2>6, <2>10, CharsType, CharsAdd, FS_AddElement
  <2>12. Totals(g[i + 1], Chars(D(i + 1)))
    <3>1. Totals(g[i], Chars(D(i))) BY <2>2
    <3>2. Totals(g[i + 1], Chars(D(i)) + e.chars)
      BY <2>3, <2>4, <2>5, <2>11, <3>1, GrowsTotal, AddsTotal
    <3> QED BY <2>11, <3>2
  <2> QED BY <2>8, <2>9, <2>11, <2>12
<1>4. Held(n)
  <2>1. n \in T
    <3> HIDE DEF T
    <3> QED BY <1>1, <1>2, <1>3, SetInduction
  <2> HIDE DEF Held
  <2> QED BY <1>1, <2>1
<1>5. D(n) = Range(decoded) BY DEF Range, n
<1> HIDE DEF D
<1> QED BY <1>4, <1>5 DEF n

\* The state of render_output_text.
Shown == [out : Nat, budget : Nat, capped : BOOLEAN]

\* The text of a chunk within the budget, or all that starts in it.
LEMMA CappedText ==
  ASSUME NEW chars \in Nat, NEW budget \in Nat
  PROVE  /\ append_capped(chars, budget).taken \in Nat
         /\ append_capped(chars, budget).budget \in Nat
         /\ append_capped(chars, budget).whole \in BOOLEAN
         /\ append_capped(chars, budget).whole =>
              /\ append_capped(chars, budget).taken = chars
              /\ append_capped(chars, budget).budget = budget - 2 * chars
         /\ ~append_capped(chars, budget).whole =>
              2 * append_capped(chars, budget).taken <= budget + 1
<1>1. CASE 2 * chars <= budget
  <2>1. append_capped(chars, budget)
          = [taken |-> chars, budget |-> budget - 2 * chars, whole |-> TRUE]
    BY <1>1 DEF append_capped
  <2>2. budget - 2 * chars \in Nat BY <1>1
  <2> QED BY <2>1, <2>2
<1>2. CASE ~(2 * chars <= budget)
  <2> DEFINE I == {i \in 0 .. (chars - 1) : 2 * i < budget}
             q == (budget + 1) \div 2
  <2>1. append_capped(chars, budget) = [taken |-> Cardinality(I), budget |-> 0, whole |-> FALSE]
    BY <1>2 DEF append_capped
  <2>2. q \in Nat /\ 2 * q <= budget + 1 /\ budget <= 2 * q OBVIOUS
  <2>3. I \in SUBSET (0 .. q - 1)
    <3>1. ASSUME NEW i \in I PROVE i \in 0 .. q - 1
      <4>1. i \in Nat /\ 2 * i < budget BY <1>2
      <4> HIDE DEF q, I
      <4> QED BY <2>2, <4>1
    <3> QED BY <3>1
  <2> HIDE DEF I, q
  <2>4. IsFiniteSet(0 .. q - 1) /\ Cardinality(0 .. q - 1) = q
    <3>1. 0 \in Int /\ q - 1 \in Int BY <2>2
    <3>2. IsFiniteSet(0 .. q - 1)
          /\ Cardinality(0 .. q - 1) = IF 0 > q - 1 THEN 0 ELSE (q - 1) - 0 + 1
      BY <3>1, FS_Interval
    <3> QED BY <2>2, <3>2
  <2>5. Cardinality(I) \in Nat /\ Cardinality(I) <= q
    <3>1. IsFiniteSet(I) /\ Cardinality(I) <= Cardinality(0 .. q - 1) BY <2>3, <2>4, FS_Subset
    <3> QED BY <2>4, <3>1, FS_CardinalityType
  <2>6. 2 * Cardinality(I) <= budget + 1 BY <2>2, <2>5
  <2> QED BY <2>1, <2>5, <2>6
<1> QED BY <1>1, <1>2

\* The whole of what came so far, within the budget; or a part, with the notice.
Fair(shown, total) ==
    /\ shown \in Shown
    /\ ~shown.capped => /\ shown.out = total /\ shown.budget + 2 * shown.out = RenderBytes
    /\ shown.capped => 2 * shown.out <= RenderBytes + 1

\* render_item keeps it that way, with one chunk more.
LEMMA RendersOne ==
  ASSUME NEW acc \in Shown, NEW c \in Chunk
  PROVE  /\ render_item(acc, c) \in Shown
         /\ \A total \in Nat : Fair(acc, total) => Fair(render_item(acc, c), total + c.chars)
<1> DEFINE a == append_capped(c.chars, acc.budget)
<1>1. acc.out \in Nat /\ acc.budget \in Nat /\ acc.capped \in BOOLEAN BY DEF Shown
<1>2. c.chars \in Nat BY DEF Chunk
<1>3. /\ a.taken \in Nat /\ a.budget \in Nat /\ a.whole \in BOOLEAN
      /\ a.whole => a.taken = c.chars /\ a.budget = acc.budget - 2 * c.chars
      /\ ~a.whole => 2 * a.taken <= acc.budget + 1
  BY <1>1, <1>2, CappedText
<1>4. render_item(acc, c) =
        IF acc.capped THEN acc
        ELSE [out |-> acc.out + a.taken, budget |-> a.budget, capped |-> ~a.whole]
  BY DEF render_item
<1> HIDE DEF a
<1>5. CASE acc.capped
  <2>1. render_item(acc, c) = acc BY <1>4, <1>5
  <2> QED BY <1>5, <2>1 DEF Fair
<1>6. CASE ~acc.capped
  <2> DEFINE new == [out |-> acc.out + a.taken, budget |-> a.budget, capped |-> ~a.whole]
  <2>1. render_item(acc, c) = new BY <1>4, <1>6
  <2>2. /\ new.out = acc.out + a.taken /\ new.budget = a.budget
        /\ new.capped <=> ~a.whole
    OBVIOUS
  <2>3. new \in Shown BY <1>1, <1>3 DEF Shown
  <2> HIDE DEF new
  <2>4. ASSUME NEW total \in Nat, Fair(acc, total) PROVE Fair(new, total + c.chars)
    <3>1. acc.out = total /\ acc.budget + 2 * acc.out = RenderBytes BY <1>6, <2>4 DEF Fair
    <3>2. CASE a.whole
      <4>1. new.out = total + c.chars BY <1>3, <2>2, <3>1, <3>2
      <4>2. new.budget + 2 * new.out = RenderBytes
        <5>1. new.budget = acc.budget - 2 * c.chars BY <1>3, <2>2, <3>2
        <5> QED BY <1>1, <1>2, <3>1, <4>1, <5>1
      <4> QED BY <2>2, <2>3, <3>2, <4>1, <4>2 DEF Fair
    <3>3. CASE ~a.whole
      <4>1. 2 * a.taken <= acc.budget + 1 BY <1>3, <3>3
      <4>2. 2 * (acc.out + a.taken) <= RenderBytes + 1 BY <1>1, <1>3, <3>1, <4>1
      <4> QED BY <2>2, <2>3, <3>3, <4>2 DEF Fair
    <3> QED BY <3>2, <3>3
  <2> QED BY <2>1, <2>3, <2>4
<1> QED BY <1>5, <1>6

\* And so does the whole of render_output_text.
LEMMA RendersPage ==
  ASSUME NEW chunks \in Seq(Chunk), NEW total, Totals(chunks, total)
  PROVE  Fair(render_output_text(chunks), total)
<1> DEFINE n == Len(chunks)
           base == [out |-> 0, budget |-> RenderBytes, capped |-> FALSE]
           step == [i \in 1 .. n |-> [acc \in Shown |-> render_item(acc, chunks[i])]]
           After(f) == f = [i \in 0 .. Len(chunks) |->
                              IF i = 0 THEN [out |-> 0, budget |-> RenderBytes, capped |-> FALSE]
                              ELSE render_item(f[i - 1], chunks[i])]
           w == CHOOSE f : After(f)
<1>1. n \in Nat /\ \A i \in 1 .. n : chunks[i] \in Chunk OBVIOUS
<1>2. base \in Shown BY McpAssumption DEF Shown
<1>3. step \in [1 .. n -> [Shown -> Shown]]
  <2> HIDE DEF n
  <2> QED BY <1>1, RendersOne
<1>4. PICK f \in [0 .. n -> Shown] : Iteration(f, n, base, step)
  <2> HIDE DEF n, base, step
  <2> QED BY <1>1, <1>2, <1>3, Iterates
<1>5. f[0] = base /\ \A i \in 1 .. n : f[i] = render_item(f[i - 1], chunks[i])
  <2>1. f[0] = base /\ \A i \in 1 .. n : f[i] = step[i][f[i - 1]]
    <3> HIDE DEF n, base, step
    <3> QED BY <1>4 DEF Iteration
  <2>2. \A i \in 1 .. n : f[i - 1] \in Shown
    <3> HIDE DEF n
    <3> QED BY <1>1, <1>4
  <2> HIDE DEF base, n
  <2> QED BY <2>1, <2>2
<1>6. After(f) BY <1>4, <1>5
<1>7. After(w)
  <2> HIDE DEF After
  <2> QED BY <1>6
<1>8. render_output_text(chunks) = w[n] BY DEF render_output_text
<1> HIDE DEF w
<1>9. w[0] = base /\ \A i \in 1 .. n : w[i] = render_item(w[i - 1], chunks[i])
  <2>1. n \in Nat /\ w = [i \in 0 .. n |-> IF i = 0 THEN base ELSE render_item(w[i - 1], chunks[i])]
    BY <1>1, <1>7
  <2> HIDE DEF n, base
  <2> QED BY <2>1
<1>10. PICK h : RunningTotal(h, chunks) /\ h[n] = total BY DEF Totals
<1>11. h \in [0 .. n -> Nat] /\ h[0] = 0 /\ \A k \in 1 .. n : h[k] = h[k - 1] + chunks[k].chars
  BY <1>10 DEF RunningTotal
<1> DEFINE T == {i \in Nat : i <= n => Fair(w[i], h[i])}
<1>12. 0 \in T
  <2>1. Fair(base, 0) BY <1>2, McpAssumption DEF Fair
  <2> HIDE DEF base
  <2> QED BY <1>9, <1>11, <2>1
<1> HIDE DEF base, n
<1>13. ASSUME NEW i \in Nat, i \in T PROVE i + 1 \in T
  <2>1. SUFFICES ASSUME i + 1 <= n PROVE Fair(w[i + 1], h[i + 1]) OBVIOUS
  <2>2. i + 1 \in 1 .. n /\ (i + 1) - 1 = i /\ i \in 0 .. n /\ Fair(w[i], h[i])
    BY <1>1, <1>13, <2>1
  <2>3. w[i + 1] = render_item(w[i], chunks[i + 1]) /\ h[i + 1] = h[i] + chunks[i + 1].chars
    BY <1>9, <1>11, <2>2
  <2>4. w[i] \in Shown BY <2>2 DEF Fair
  <2>5. h[i] \in Nat /\ chunks[i + 1] \in Chunk BY <1>1, <1>11, <2>2
  <2> QED BY <2>2, <2>3, <2>4, <2>5, RendersOne
<1>14. Fair(w[n], h[n])
  <2>1. n \in T
    <3> HIDE DEF T
    <3> QED BY <1>1, <1>12, <1>13, SetInduction
  <2> QED BY <1>1, <2>1
<1> QED BY <1>8, <1>10, <1>14

\* The page that public_json renders is in the order of its sequences.
LEMMA PageHonest ==
  ASSUME BaseInv, ReadInv, DecoderInv, NEW r \in Readers
  PROVE  /\ DecodedPage(r) \in Seq(DecodedEvent)
         /\ InOrderOfSeq(DecodedPage(r))
<1> DEFINE S == WithLive(r)
           page == Sorted(S)
           n == Cardinality(S)
<1>1. page \in Seq(Event) /\ Len(page) = n /\ n \in Nat BY PageOf
<1>2. \A i, j \in 1 .. n : i < j => page[i].seq < page[j].seq
  <2>1. Numbered(S) BY PageOf
  <2> HIDE DEF S
  <2> QED BY <2>1, SortedIsList
<1>3. decoders[r] \in [Writers -> DecoderState] BY DEF DecoderInv
<1>4. PageEventsOf(r) = page BY DEF PageEventsOf
<1>5. DecodedPage(r) = Decode(decoders[r], page).decoded
  <2> HIDE DEF page
  <2> QED BY <1>4 DEF DecodedPage
<1> HIDE DEF S, page, n
<1>6. PICK f : DecodeSteps(f, decoders[r], page) BY <1>1, <1>3, DecodesPage
<1>7. n \in 0 .. Len(page) BY <1>1
<1>8. DecodedPage(r) = f[n].decoded /\ f[n] \in DecodeState
  BY <1>1, <1>5, <1>6, <1>7 DEF DecodeSteps
<1>9. DecodedUpTo(f, page, n) BY <1>1, <1>3, <1>6, <1>7, DecodedPageIs
<1>10. f[n].decoded \in Seq(DecodedEvent) BY <1>8 DEF DecodeState
<1>11. InOrderOfSeq(f[n].decoded) BY <1>2, <1>9 DEF InOrderOfSeq, DecodedUpTo
<1> QED BY <1>8, <1>10, <1>11

\* Chunks and text of any page that may be read now.
LEMMA InvRenders == RecordingInv /\ TextInv => RenderedTextIsHonest
<1>1. SUFFICES ASSUME RecordingInv, TextInv, NEW r \in Readers
               PROVE  \A page \in {DecodedPage(r)} : \A chunks \in {chunks_from(page)} :
                      \A shown \in {render_output_text(chunks)} :
                        /\ \A e \in Range(page) : \E c \in Range(chunks) :
                              c.stream = stream_name(e.from) /\ e.seq \in c.first .. c.last
                        /\ 2 * shown.out <= RenderBytes + 1
                        /\ shown.capped \/ shown.out = Chars(Range(page))
  BY DEF RenderedTextIsHonest
<1> DEFINE page == DecodedPage(r)
<1>2. page \in Seq(DecodedEvent) /\ InOrderOfSeq(page)
  BY <1>1, PageHonest DEF RecordingInv, TextInv
<1> HIDE DEF page
<1>3. PICK g : ChunkSteps(g, page) BY <1>2, ChunksPage
<1> DEFINE chunks == chunks_from(page)
<1>4. chunks = g[Len(page)] /\ chunks \in Seq(Chunk)
  <2>1. Len(page) \in 0 .. Len(page) BY <1>2
  <2> QED BY <1>3, <2>1 DEF ChunkSteps
<1>5. Covers(chunks, Range(page)) /\ Totals(chunks, Chars(Range(page)))
  BY <1>2, <1>3, <1>4, ChunksHold
<1> HIDE DEF chunks
<1> DEFINE shown == render_output_text(chunks)
<1>6. Fair(shown, Chars(Range(page))) BY <1>4, <1>5, RendersPage
<1> HIDE DEF shown
<1>7. \A e \in Range(page) : \E c \in Range(chunks) :
        c.stream = stream_name(e.from) /\ e.seq \in c.first .. c.last
  <2>1. \A j \in 1 .. Len(chunks) : chunks[j] \in Range(chunks) BY <1>4 DEF Range
  <2> QED BY <1>5, <2>1 DEF Covers, Holds
<1>8. 2 * shown.out <= RenderBytes + 1
  <2>1. shown.out \in Nat /\ shown.budget \in Nat BY <1>6 DEF Fair, Shown
  <2>2. RenderBytes \in Nat BY McpAssumption
  <2>3. CASE shown.capped BY <1>6, <2>3 DEF Fair
  <2>4. CASE ~shown.capped
    <3>1. shown.budget + 2 * shown.out = RenderBytes BY <1>6, <2>4 DEF Fair
    <3> QED BY <2>1, <2>2, <3>1
  <2> QED BY <2>3, <2>4
<1>9. shown.capped \/ shown.out = Chars(Range(page)) BY <1>6 DEF Fair
<1> QED BY <1>7, <1>8, <1>9 DEF shown, chunks, page

-----------------------------------------------------------------------------
(* Calls that break down.                                                  *)

LEMMA McpStepCases ==
  ASSUME [McpNext]_allVars
  PROVE  [Next]_vars \/ \E r \in Readers : CallBreaks(r) \/ ReplyLost(r)
<1>1. CASE UNCHANGED allVars BY <1>1 DEF allVars
<1>2. ASSUME NEW w \in Writers,
             \/ McpWriter(w)
             \/ (Faults(w) \/ End(w) \/ \E size \in Sizes : Assign(w, size)) /\ UNCHANGED mcpVars
      PROVE  Next
  BY <1>2 DEF McpWriter, Next
<1>3. ASSUME NEW r \in Readers,
             \/ McpReader(r)
             \/ (Expire(r) \/ \E b \in BOOLEAN : Poll(r, b)) /\ UNCHANGED mcpVars
      PROVE  Next
  BY <1>3 DEF McpReader, ToolsCall, Reader, Next
<1> QED BY <1>1, <1>2, <1>3 DEF McpNext

LEMMA BreaksKeeps ==
  ASSUME RecordingInv, NEW r \in Readers, CallBreaks(r) \/ ReplyLost(r)
  PROVE  RecordingInv'
<1>1. BaseInv /\ Placed /\ RowInv /\ WakeInv /\ ReaderInv /\ CursorInv /\ ReadInv
  BY DEF RecordingInv
<1> DEFINE Local == [seen : Nat, block : BOOLEAN, running : BOOLEAN,
                     truncated : BOOLEAN, page : SUBSET Event, more : BOOLEAN]
<1>2. /\ rpc \in [Readers -> {"idle", "load", "page", "live", "wait"}]
      /\ rd \in [Readers -> Local]
  BY <1>1 DEF BaseInv, TypeOK
<1>3. /\ UNCHANGED <<sequence, storeVars, liveVars, version, wpc, wev, sent, client>>
      /\ UNCHANGED <<events, recorded, row, vanished, unflagged, live, dropped>>
      /\ rpc[r] = "live" /\ rpc' = [rpc EXCEPT ![r] = "idle"]
      /\ rd' = [rd EXCEPT ![r].page = {}, ![r].more = FALSE]
  BY DEF CallBreaks, ReplyLost, Read, storeVars, liveVars, writerVars
<1>4. /\ rpc' \in [Readers -> {"idle", "load", "page", "live", "wait"}]
      /\ rd' \in [Readers -> Local]
  BY <1>2, <1>3, ZenonT(40)
<1>5. /\ rpc'[r] = "idle" /\ rd'[r].page = {}
      /\ rd'[r].seen = rd[r].seen /\ rd'[r].running = rd[r].running
      /\ rd'[r].truncated = rd[r].truncated
  BY <1>2, <1>3
<1>6. \A q \in Readers \ {r} : rpc'[q] = rpc[q] /\ rd'[q] = rd[q] BY <1>2, <1>3
<1>7. BaseInv' BY <1>1, <1>3, <1>4 DEF BaseInv, TypeOK, WriterInv, Holding, Unplaced
<1>8. Placed' /\ RowInv' BY <1>1, <1>3 DEF Placed, Unplaced, RowInv, Over
<1>9. WakeInv'
  BY <1>1, <1>3, <1>5, <1>6, ZenonT(40) DEF WakeInv, Asleep, Pending, InScope
<1>10. ReaderInv' BY <1>1, <1>3, <1>5, <1>6, ZenonT(40) DEF ReaderInv
<1>11. CursorInv'
  <2>1. \A q \in Readers : Stored(q)' = Stored(q) /\ (Clean(q)' <=> Clean(q))
    BY <1>3 DEF Stored, Mine, Clean
  <2>2. SUFFICES ASSUME NEW q \in Readers, CursorOf(q) PROVE CursorOf(q)'
    BY <1>1, <2>1 DEF CursorInv, OneSource
  <2>3. CASE q = r
    <3>1. /\ Stored(q)' = Stored(q) /\ client' = client
          /\ rpc'[q] = "idle" /\ rd'[q].page = {}
      BY <1>3, <1>5, <2>1, <2>3
    <3> QED BY <2>2, <3>1 DEF CursorOf
  <2>4. CASE q # r BY <1>3, <1>6, <2>1, <2>2, <2>4, ZenonT(40) DEF CursorOf
  <2> QED BY <2>3, <2>4
<1>12. ReadInv' BY <1>1, <1>3, <1>5, <1>6 DEF ReadInv, InScope
<1> QED BY <1>7, <1>8, <1>9, <1>10, <1>11, <1>12 DEF RecordingInv

LEMMA McpAlways == McpSpec => []RecordingInv
<1>1. McpInit => RecordingInv BY RecordingInit DEF McpInit
<1>2. RecordingInv /\ [McpNext]_allVars => RecordingInv'
  BY McpStepCases, RecordingStep, BreaksKeeps
<1> QED BY <1>1, <1>2, PTL DEF McpSpec

LEMMA McpAllClean == McpSpec /\ []NothingRejected => []AllClean
<1>1. McpInit => AllClean BY DEF McpInit, Init, AllClean
<1>2. RecordingInv /\ AllClean /\ NothingRejected /\ NothingRejected' /\ [McpNext]_allVars
        => AllClean'
  <2>1. SUFFICES ASSUME RecordingInv, AllClean, NothingRejected, NothingRejected',
                        [McpNext]_allVars
                 PROVE  AllClean'
    OBVIOUS
  <2>2. CASE [Next]_vars BY <2>1, <2>2, AllCleanStep DEF RecordingInv
  <2>3. CASE \E r \in Readers : CallBreaks(r) \/ ReplyLost(r)
    BY <2>1, <2>3 DEF CallBreaks, ReplyLost, AllClean, storeVars, writerVars
  <2> QED BY <2>1, <2>2, <2>3, McpStepCases
<1> QED BY <1>1, <1>2, McpAlways, PTL DEF McpSpec

(* What the daemon promises of the output that append_event has accepted   *)
(* reaches a client through calls that break down and replies that are     *)
(* lost: no silent loss of it, no poll that sleeps on output, no end of a  *)
(* command with a gap nobody mentioned.                                    *)
THEOREM BrokenCallsLoseNothing ==
  McpSpec => [](TypeOK /\ NoSilentLoss /\ NoLostWakeup /\ LossIsWarned)
<1>1. RecordingInv => TypeOK /\ NoSilentLoss /\ NoLostWakeup /\ LossIsWarned
  BY InvPlaces, InvWakes, InvWarns DEF RecordingInv, BaseInv
<1> QED BY <1>1, McpAlways, PTL

(* Below the recording limit a client that repeats a call with the cursor  *)
(* it has is given everything that append_event accepted, once it is told  *)
(* that this is all.                                                       *)
THEOREM RepeatedCallsComplete == McpSpec /\ []NothingRejected => []CompleteMeansAll
<1>1. RecordingInv /\ AllClean => CompleteMeansAll
  BY CompleteHasAll DEF AllClean, Clean, CompleteMeansAll
<1> QED BY <1>1, McpAlways, McpAllClean, PTL

-----------------------------------------------------------------------------
(* The text along a behaviour.                                             *)

\* Nothing was written, nothing is known.
LEMMA TextInit == McpInit => TextInv
<1>1. SUFFICES ASSUME McpInit PROVE TextInv OBVIOUS
<1>2. sent = {} /\ \A r \in Readers : client[r].cursor = 0 BY <1>1 DEF McpInit, Init
<1>3. /\ decoders = [r \in Readers |-> [w \in Writers |-> NoDecoder]]
      /\ text = [r \in Readers |-> [w \in Writers |-> [chars |-> 0, bad |-> FALSE]]]
  BY <1>1 DEF McpInit
<1>4. NoDecoder \in DecoderState /\ NoDecoder.last = 0 /\ NoDecoder.pending = 0
  BY DEF NoDecoder, DecoderState
<1>5. DecoderInv BY <1>2, <1>3, <1>4 DEF DecoderInv
<1>6. ASSUME NEW r \in TextReaders PROVE ExactText(r)
  <2>1. Seen(r, r) = {} BY <1>2 DEF Seen
  <2>2. Bytes(Seen(r, r)) = 0 BY <2>1, NoBytes
  <2>3. r \in Readers /\ r \in Writers /\ client[r].cursor = 0 BY <1>2, <1>6 DEF TextReaders
  <2>4. /\ decoders[r] = [w \in Writers |-> NoDecoder]
        /\ text[r] = [w \in Writers |-> [chars |-> 0, bad |-> FALSE]]
    BY <1>3, <2>3
  <2>5. decoders[r][r] = NoDecoder /\ text[r][r].chars = 0 /\ ~text[r][r].bad
    BY <2>3, <2>4
  <2>6. InStep(r, decoders[r][r], 0) BY <1>4, <2>3, <2>5 DEF InStep
  <2>7. 2 * 0 + 0 = 0 OBVIOUS
  <2> QED BY <2>2, <2>5, <2>6, <2>7 DEF ExactText
<1> QED BY <1>5, <1>6 DEF TextInv

\* Only a reply gives a client text.
LEMMA TextStep ==
  ASSUME RecordingInv, TextInv, [McpNext]_allVars
  PROVE  TextInv'
<1>1. BaseInv /\ ReadInv /\ ReaderInv BY DEF RecordingInv
<1>2. CASE UNCHANGED allVars
  <2>1. UNCHANGED <<client, decoders, text, torn, sent>>
    BY <1>2 DEF allVars, vars, mcpVars, writerVars, readerVars
  <2> QED BY <1>1, <2>1, TextKept
<1>3. ASSUME NEW w \in Writers, WriterStep(w), UNCHANGED mcpVars PROVE TextInv'
  <2>1. UNCHANGED <<client, decoders, text, torn>>
    BY <1>1, <1>3, WriterAlone DEF WriterFrame, readerVars, BaseInv, mcpVars
  <2>2. sent \subseteq sent' /\ \A e \in sent' : e \in sent \/ e.seq = sequence + 1
    <3>1. CASE \E size \in Sizes : Assign(w, size) BY <3>1 DEF Assign
    <3>2. CASE ~\E size \in Sizes : Assign(w, size)
      <4>1. sent' = sent
        BY <1>3, <3>2 DEF WriterStep, Store, StoreUncounted, AppendFails, Reject,
           RejectUnflagged, PushLive, Announce, End, EndFails, AnnounceEnd
      <4> QED BY <4>1
    <3> QED BY <3>1, <3>2
  <2> QED BY <1>1, <2>1, <2>2, TextKept
<1>4. ASSUME NEW r \in Readers,
             \/ Load(r) \/ ReadDatabase(r) \/ Wait(r) \/ Wake(r) \/ Expire(r)
             \/ \E b \in BOOLEAN : Poll(r, b),
             UNCHANGED mcpVars
      PROVE  TextInv'
  <2>1. UNCHANGED <<client, decoders, text, torn, sent>>
    BY <1>4 DEF Load, ReadDatabase, Wait, Wake, Expire, Poll, writerVars, mcpVars
  <2> QED BY <1>1, <2>1, TextKept
<1>5. ASSUME NEW r \in Readers, CallBreaks(r) PROVE TextInv'
  <2>1. UNCHANGED <<client, decoders, text, torn, sent>> BY <1>5 DEF CallBreaks, writerVars
  <2> QED BY <1>1, <2>1, TextKept
<1>6. ASSUME NEW r \in Readers, ToolsCall(r) PROVE TextInv'
  BY <1>1, <1>6, TextReply
<1>7. ASSUME NEW r \in Readers, ReplyLost(r) PROVE TextInv' BY <1>1, <1>7, TextLost
<1>8. CASE McpNext
  BY <1>3, <1>4, <1>5, <1>6, <1>7, <1>8
     DEF McpNext, McpWriter, McpReader, Writer, Faults, WriterStep
<1> QED BY <1>2, <1>8

LEMMA TextAlways == McpSpec => []TextInv
  BY TextInit, TextStep, McpAlways, PTL DEF McpSpec

(* Half of the bytes, rounded down, is the number of whole characters.     *)
LEMMA InvText == RecordingInv /\ TextInv => TextIsExact
<1>1. SUFFICES ASSUME RecordingInv, TextInv, NEW r \in TextReaders, r \notin torn, Gapless(r)
               PROVE  ~text[r][r].bad /\ text[r][r].chars = Bytes(Seen(r, r)) \div 2
  BY DEF TextIsExact, ExactFor, Gapless
<1>2. ~text[r][r].bad /\ \E p \in {0, 1} : 2 * text[r][r].chars + p = Bytes(Seen(r, r))
  BY <1>1 DEF TextInv, ExactText
<1>3. text[r][r].chars \in Nat BY <1>1 DEF TextInv, DecoderInv, TextReaders
<1>4. PICK p \in {0, 1} : 2 * text[r][r].chars + p = Bytes(Seen(r, r)) BY <1>2
<1>5. (2 * text[r][r].chars + p) \div 2 = text[r][r].chars BY <1>3
<1> QED BY <1>2, <1>4, <1>5

(* The text of a command's client is that of the bytes up to its cursor,   *)
(* for any cut of the characters by events and pages, any order of the     *)
(* writers, any calls that broke down, and any lost replies that neither   *)
(* start inside a character nor give an event that does: nothing lost,     *)
(* nothing doubled, no replacement character.                              *)
THEOREM TextStaysExact == McpSpec => []TextIsExact
  BY InvText, McpAlways, TextAlways, PTL

(* Whatever the page and the budget, chunks hold every event and every     *)
(* character, and a text that was cut carries the notice.                  *)
THEOREM RenderingIsHonest == McpSpec => []RenderedTextIsHonest
  BY InvRenders, McpAlways, TextAlways, PTL

(* Behind calls that break down, has_more still promises progress, and     *)
(* pages keep to max_bytes.                                                *)
THEOREM RepeatedCallsProgress == McpSpec => [](MoreMeansProgress /\ PageIsBounded)
<1>1. RecordingInv => MoreMeansProgress /\ PageIsBounded BY InvProgress, InvBounded DEF RecordingInv
<1> QED BY <1>1, McpAlways, PTL
=============================================================================
