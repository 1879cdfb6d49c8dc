----------------------------- MODULE McpServer ------------------------------
(***************************************************************************)
(* apps/mcp-server between a client and the daemon's pages of output.      *)
(* Every reader of Recording is a client of its own aissh-mcp process,     *)
(* which works through its requests one by one: daemon_call, then          *)
(* public_json, which turns the bytes of the page into text with one       *)
(* decoder per command and stream, merges events into chunks and renders a *)
(* bounded copy of the text.  A call may break down at any moment, or its  *)
(* reply get lost behind the MCP server, which has decoded it by then; the *)
(* client repeats either with the cursor it has.                           *)
(*                                                                         *)
(* What a writer writes is UTF-8 text of two-byte characters, cut into     *)
(* events anywhere.  A text is abstracted to its number of characters and  *)
(* to whether a replacement character is among them.                       *)
(***************************************************************************)
EXTENDS Recording, SequencesExt

CONSTANTS RenderBytes,  \* TEXT_RENDER_BYTES
          MaxLost       \* bound: calls that break down, or whose reply is lost

ASSUME McpAssumption == RenderBytes \in Nat /\ MaxLost \in Nat

VARIABLES
    decoders,  \* TEXT_DECODERS of each reader's process, by writer
    text,      \* history: the text each client was given, by writer
    torn,      \* history: readers that repeat a call inside a character
    lost

mcpVars == <<decoders, text, torn, lost>>
allVars == <<vars, mcpVars>>

\* An entry that is not in the map, and one that is but new, are the same
\* until an event, whose sequence is positive, has been decoded.
NoDecoder == [last |-> 0, pending |-> 0]

McpInit ==
    /\ Init
    /\ decoders = [r \in Readers |-> [w \in Writers |-> NoDecoder]]
    /\ text = [r \in Readers |-> [w \in Writers |-> [chars |-> 0, bad |-> FALSE]]]
    /\ torn = {} /\ lost = 0

-----------------------------------------------------------------------------
(* Text.                                                                   *)

\* The first byte of e continues a character: 1, or starts one: 0.
Phase(e) == Bytes({x \in sent : x.from = e.from /\ x.seq < e.seq}) % 2

\* Mutant: every event is decoded on its own.
decode_alone(state, e) ==
    [state |-> [last |-> e.seq, pending |-> 0],
     chars |-> (e.size + 1) \div 2,
     bad   |-> Phase(e) = 1 \/ e.size % 2 = 1]

\* A replayed event drops the pending bytes.  Bytes that are valid so far give
\* their whole characters and leave the rest pending; invalid ones are decoded
\* with a replacement for every stray byte.
decode_event_text(state, e) ==
    LET pending == IF e.seq <= state.last THEN 0 ELSE state.pending
        bytes   == pending + e.size
        last    == Max({state.last, e.seq})
    IN  IF pending = Phase(e)
        THEN [state |-> [last |-> last, pending |-> bytes % 2],
              chars |-> bytes \div 2, bad |-> FALSE]
        ELSE [state |-> [last |-> last, pending |-> 0],
              chars |-> 1 + bytes \div 2, bad |-> TRUE]

\* A set of events as the list sort_by_key makes of it: the i-th event has i
\* sequences up to its own.
Sorted(S) ==
    [i \in 1 .. Cardinality(S) |->
        CHOOSE e \in S : Cardinality({d \in S : d.seq <= e.seq}) = i]

\* The page as append_live leaves it: sorted, the live tail between the rows.
PageEventsOf(r) == Sorted(WithLive(r))

\* decode_event: the decoders, and the texts so far.
decode_event(acc, e) ==
    LET d == decode_event_text(acc.state[e.from], e)
    IN  [state   |-> [acc.state EXCEPT ![e.from] = d.state],
         decoded |-> Append(acc.decoded,
                            [seq |-> e.seq, from |-> e.from, chars |-> d.chars,
                             bad |-> d.bad, persisted |-> e \in events])]

\* decode_event on every event of a page.
Decode(state, page) ==
    LET After[i \in 0 .. Len(page)] ==
            IF i = 0 THEN [state |-> state, decoded |-> <<>>]
            ELSE decode_event(After[i - 1], page[i])
    IN  After[Len(page)]

\* The PTY is a stream, and so are all commands together.
stream_name(w) == IF w = Shell THEN "pty" ELSE "stdout"

\* An event of the same stream, stored like it or not, joins the last chunk.
Joins(chunk, e) == chunk.stream = stream_name(e.from) /\ chunk.persisted = e.persisted

NewChunk(e) == [stream |-> stream_name(e.from), persisted |-> e.persisted,
                first |-> e.seq, last |-> e.seq, count |-> 1, chars |-> e.chars]

grown_chunk(chunk, e) ==
    [chunk EXCEPT !.chars = @ + e.chars, !.count = @ + 1, !.last = e.seq]

with_event(chunks, e) ==
    IF chunks # <<>> /\ Joins(Last(chunks), e)
    THEN Append(Front(chunks), grown_chunk(Last(chunks), e))
    ELSE Append(chunks, NewChunk(e))

chunks_from(decoded) ==
    LET After[i \in 0 .. Len(decoded)] ==
            IF i = 0 THEN <<>> ELSE with_event(After[i - 1], decoded[i])
    IN  After[Len(decoded)]

\* Mutant: what was cut passes for the whole.
append_silently(chars, budget) ==
    IF 2 * chars <= budget
    THEN [taken |-> chars, budget |-> budget - 2 * chars, whole |-> TRUE]
    ELSE [taken |-> Cardinality({i \in 0 .. (chars - 1) : 2 * i < budget}),
          budget |-> 0, whole |-> TRUE]

\* The characters that start within the budget, if not all fit.
append_capped(chars, budget) ==
    IF 2 * chars <= budget
    THEN [taken |-> chars, budget |-> budget - 2 * chars, whole |-> TRUE]
    ELSE [taken |-> Cardinality({i \in 0 .. (chars - 1) : 2 * i < budget}),
          budget |-> 0, whole |-> FALSE]

render_item(acc, chunk) ==
    LET a == append_capped(chunk.chars, acc.budget)
    IN  IF acc.capped THEN acc
        ELSE [out |-> acc.out + a.taken, budget |-> a.budget, capped |-> ~a.whole]

\* The chunks until one does not fit, then the notice.
render_output_text(chunks) ==
    LET After[i \in 0 .. Len(chunks)] ==
            IF i = 0 THEN [out |-> 0, budget |-> RenderBytes, capped |-> FALSE]
            ELSE render_item(After[i - 1], chunks[i])
    IN  After[Len(chunks)]

\* The characters of events together.
Chars(S) == MapThenSumSet(LAMBDA e : e.chars, S)

-----------------------------------------------------------------------------
(* tools/call.                                                             *)

clear_decoders_for_command(state, finished) ==
    [w \in Writers |-> IF w \in finished THEN NoDecoder ELSE state[w]]

\* The commands whose decoders public_json drops: the one polled, with its last
\* page; those a shell_read found finished, whose rows it reads after the page.
Delivered(r) ==
    IF r = Shell
    THEN {c \in Commands : ~HasMore(r) /\ ~row[c].running}
    ELSE {c \in {r} : Finished(r) /\ ~HasMore(r)}

\* The reply arrives: public_json.
ToolsCall(r) ==
    /\ Reply(r)
    /\ \E page \in {PageEventsOf(r)} : \E result \in {Decode(decoders[r], page)} :
          LET Of(w) == {e \in Range(result.decoded) : e.from = w} IN
          /\ decoders' = [decoders EXCEPT ![r] =
                            clear_decoders_for_command(result.state, Delivered(r))]
          /\ text' = [text EXCEPT ![r] = [w \in Writers |->
                        [chars |-> text[r][w].chars + Chars(Of(w)),
                         bad   |-> text[r][w].bad \/ \E e \in Of(w) : e.bad]]]
    /\ UNCHANGED <<torn, lost>>

\* CallError::Transport: the client is told that the daemon is unavailable and
\* retryable, and knows no more than before.  The daemon only reads during the
\* call, so a call that breaks earlier differs in nothing.
CallBreaks(r) ==
    /\ Read(r, "live", "idle")
    /\ lost < MaxLost /\ lost' = lost + 1
    /\ rd' = [rd EXCEPT ![r].page = {}, ![r].more = FALSE]
    /\ UNCHANGED <<sequence, storeVars, liveVars, version, writerVars, client,
                   decoders, text, torn>>

\* What reader r has been given of writer w, up to its cursor, without a gap.
Seen(r, w) == {e \in sent : e.from = w /\ e.seq <= client[r].cursor}

\* The page of r's command starts inside a character, or one of the events up to
\* its end does.
Cut(r) ==
    \/ Bytes(Seen(r, r)) % 2 = 1
    \/ \E e \in sent : /\ e.from = r /\ e.seq > client[r].cursor /\ e.seq <= NextCursor(r)
                       /\ Phase(e) = 1

\* The client gives up on a reply that public_json has made: the decoders have
\* moved, its cursor has not.
ReplyLost(r) ==
    /\ Read(r, "live", "idle")
    /\ ~Quiet(r) \/ ~rd[r].block
    /\ lost < MaxLost /\ lost' = lost + 1
    /\ \E page \in {PageEventsOf(r)} :
          decoders' = [decoders EXCEPT ![r] =
              clear_decoders_for_command(Decode(decoders[r], page).state, Delivered(r))]
    /\ torn' = IF decoders' # decoders /\ Cut(r) THEN torn \cup {r} ELSE torn
    /\ rd' = [rd EXCEPT ![r].page = {}, ![r].more = FALSE]
    /\ UNCHANGED <<sequence, storeVars, liveVars, version, writerVars, client, text>>

-----------------------------------------------------------------------------

McpReader(r) ==
    \/ (Load(r) \/ ReadDatabase(r) \/ Wait(r) \/ Wake(r)) /\ UNCHANGED mcpVars
    \/ ToolsCall(r)

McpWriter(w) == Writer(w) /\ UNCHANGED mcpVars

McpNext ==
    \/ \E w \in Writers :
          \/ McpWriter(w)
          \/ (Faults(w) \/ End(w) \/ \E size \in Sizes : Assign(w, size)) /\ UNCHANGED mcpVars
    \/ \E r \in Readers :
          \/ McpReader(r) \/ CallBreaks(r) \/ ReplyLost(r)
          \/ (Expire(r) \/ \E b \in BOOLEAN : Poll(r, b)) /\ UNCHANGED mcpVars

(***************************************************************************)
(* As in Recording; a call that breaks down is repeated.                   *)
(***************************************************************************)
McpFairness ==
    /\ \A w \in Writers : /\ WF_allVars(McpWriter(w))
                          /\ WF_allVars(End(w) /\ UNCHANGED mcpVars)
    /\ \A r \in Readers : /\ WF_allVars(McpReader(r))
                          /\ WF_allVars(Poll(r, TRUE) /\ UNCHANGED mcpVars)

McpSpec == McpInit /\ [][McpNext]_allVars /\ McpFairness

-----------------------------------------------------------------------------
(* Properties.                                                             *)

\* The text of r's client is that of the bytes of its command up to the cursor,
\* if none of them is missing.
ExactFor(r) ==
    {e.seq : e \in Seen(r, r)} \subseteq client[r].got =>
        /\ ~text[r][r].bad
        /\ text[r][r].chars = Bytes(Seen(r, r)) \div 2

TextReaders == Readers \cap Commands \cap Writers

(* The text a client of ssh_command_poll has is the text of the bytes up   *)
(* to its cursor, without a replacement character and without a character  *)
(* lost or doubled: wherever events and pages cut a character, whichever   *)
(* calls broke down, and whichever replies were lost, if those were at the *)
(* boundaries of characters and events.                                    *)
TextIsExact == \A r \in TextReaders \ torn : ExactFor(r)

(* An incomplete character is kept until the rest of it arrives: no client *)
(* has a damaged one, also if it repeats a poll whose reply it did not get.*)
NoCharacterIsTorn == \A r \in TextReaders : ExactFor(r)

DecodedPage(r) ==
    CHOOSE d \in {Decode(decoders[r], page).decoded : page \in {PageEventsOf(r)}} : TRUE

(* The compact form and the text channel are honest: every event of the   *)
(* page is in the range of a chunk of its stream, the text exceeds its     *)
(* budget by less than one character, and anything of the page is missing  *)
(* from it only with the notice that says so.                              *)
RenderedTextIsHonest ==
    \A r \in Readers : rpc[r] = "live" =>
        \A page \in {DecodedPage(r)} : \A chunks \in {chunks_from(page)} :
        \A shown \in {render_output_text(chunks)} :
            /\ \A e \in Range(page) : \E c \in Range(chunks) :
                  c.stream = stream_name(e.from) /\ e.seq \in c.first .. c.last
            /\ 2 * shown.out <= RenderBytes + 1
            /\ shown.capped \/ shown.out = Chars(Range(page))

=============================================================================
