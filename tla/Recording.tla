----------------------------- MODULE Recording ------------------------------
(***************************************************************************)
(* The output of one session: record() in crates/session writes terminal   *)
(* events to SQLite or, past the recording limit, to a bounded live tail;  *)
(* command_poll and shell_read page them out to clients that follow the    *)
(* documented protocol (pass next_sequence back until poll_complete).      *)
(*                                                                         *)
(* Every run_exec and run_pty task is a writer, on its own worker thread:  *)
(* record() has no await, but two writers and any reader interleave        *)
(* between the statements of record that touch shared state.  SQLite calls *)
(* and critical sections of the live tail are atomic (one connection under *)
(* a mutex).  Payloads are abstracted to their sizes.                      *)
(***************************************************************************)
EXTENDS Naturals, Sequences, FiniteSets, FiniteSetsExt

CONSTANTS Commands,       \* running commands, each written by its run_exec
          Shell,          \* the PTY, whose events carry no command id
          Writers,        \* the commands, and the PTY if one is open
          Readers,        \* commands polled, and Shell if shell_read is used
          Sizes,          \* payload sizes
          MaxEvents,      \* bound: events the session records
          RecordingLimit, \* recording_limit_mib
          LiveLimit,      \* the 4 MiB of the live tail
          PageEvents,     \* PAGE_EVENTS of a database page
          ReadLimit,      \* max_bytes of a read
          StorageFaults   \* whether writes to the database may fail

ASSUME WritersAssumption ==
    /\ Shell \notin Commands
    /\ Writers \subseteq Commands \cup {Shell}
    /\ Readers \subseteq Commands \cup {Shell}

ASSUME BoundsAssumption ==
    /\ Sizes \subseteq Nat \ {0}
    /\ MaxEvents \in Nat /\ RecordingLimit \in Nat /\ LiveLimit \in Nat
    /\ PageEvents \in Nat \ {0} /\ ReadLimit \in Nat \ {0}
    /\ StorageFaults \in BOOLEAN

VARIABLES
    sequence,  \* runtime.sequence
    events,    \* rows of the events table
    recorded,  \* sessions.recorded_bytes
    row,       \* commands row: status and recording_truncated
    vanished,  \* history: events append_event has failed to store
    unflagged, \* history: events past the limit whose row it failed to flag
    live,      \* runtime.live_events
    dropped,   \* runtime.live_tail_dropped
    version,   \* the value of the events_tx watch channel
    wpc, wev,  \* progress of each writer, and the event in its hands
    sent,      \* history: every event a writer was given
    rpc, rd,   \* progress and locals of each reader's current call
    client     \* what each reading client knows

writerVars == <<wpc, wev, sent>>
storeVars  == <<events, recorded, row, vanished, unflagged>>
liveVars   == <<live, dropped>>
readerVars == <<rpc, rd, client>>
vars == <<sequence, storeVars, liveVars, version, writerVars, readerVars>>

Event == [seq : 1 .. MaxEvents, from : Writers, size : Sizes]

NoEvent == [seq |-> 0]

Bytes(S)    == MapThenSumSet(LAMBDA e : e.size, S)
LastSeq(S, default) == IF S = {} THEN default ELSE Max({e.seq : e \in S})

Init ==
    /\ sequence = 0
    /\ events = {} /\ recorded = 0
    /\ row = [c \in Commands |-> [running |-> TRUE, truncated |-> FALSE]]
    /\ vanished = {} /\ unflagged = {}
    /\ live = <<>> /\ dropped = FALSE
    /\ version = 0
    /\ wpc = [w \in Writers |-> "idle"] /\ wev = [w \in Writers |-> NoEvent]
    /\ sent = {}
    /\ rpc = [r \in Readers |-> "idle"]
    /\ rd = [r \in Readers |-> [seen |-> 0, block |-> FALSE, running |-> TRUE,
                                truncated |-> FALSE, page |-> {}, more |-> FALSE]]
    /\ client = [r \in Readers |-> [cursor |-> 0, got |-> {}, complete |-> FALSE,
                                    warned |-> FALSE]]

-----------------------------------------------------------------------------
(* record().                                                               *)

Write(w, from, to) == wpc[w] = from /\ wpc' = [wpc EXCEPT ![w] = to]

\* sequence.fetch_add
Assign(w, size) ==
    LET e == [seq |-> sequence + 1, from |-> w, size |-> size] IN
    /\ sequence < MaxEvents
    /\ Write(w, "idle", "assigned")
    /\ sequence' = sequence + 1
    /\ wev' = [wev EXCEPT ![w] = e]
    /\ sent' = sent \cup {e}
    /\ UNCHANGED <<storeVars, liveVars, version, readerVars>>

Fits(e) == recorded + e.size <= RecordingLimit

Store(w) ==
    /\ Write(w, "assigned", "readable")
    /\ Fits(wev[w])
    /\ events' = events \cup {wev[w]}
    /\ recorded' = recorded + wev[w].size
    /\ UNCHANGED <<sequence, row, vanished, unflagged, liveVars, version, wev, sent,
                   readerVars>>

\* append_event fails after the INSERT: nothing is counted.
StoreUncounted(w) ==
    /\ StorageFaults
    /\ Write(w, "assigned", "readable")
    /\ Fits(wev[w])
    /\ events' = events \cup {wev[w]}
    /\ UNCHANGED <<sequence, recorded, row, vanished, unflagged, liveVars, version, wev,
                   sent, readerVars>>

\* The size of the session cannot be read, its row is gone, or the INSERT fails.
\* The error is ignored, and the event passes for persisted.
AppendFails(w) ==
    /\ StorageFaults
    /\ Write(w, "assigned", "readable")
    /\ vanished' = vanished \cup {wev[w]}
    /\ UNCHANGED <<sequence, events, recorded, row, unflagged, liveVars, version, wev,
                   sent, readerVars>>

\* append_event past the limit: only the truncation flags are written.
Reject(w) ==
    /\ Write(w, "assigned", "rejected")
    /\ ~Fits(wev[w])
    /\ row' = [c \in Commands |->
                 IF c = w THEN [row[c] EXCEPT !.truncated = TRUE] ELSE row[c]]
    /\ UNCHANGED <<sequence, events, recorded, vanished, unflagged, liveVars, version,
                   wev, sent, readerVars>>

\* One of the two updates fails, and with it the flag of the command: the event
\* goes to the live tail all the same.
RejectUnflagged(w) ==
    /\ StorageFaults
    /\ Write(w, "assigned", "rejected")
    /\ ~Fits(wev[w])
    /\ unflagged' = unflagged \cup {wev[w]}
    /\ UNCHANGED <<sequence, events, recorded, row, vanished, liveVars, version, wev,
                   sent, readerVars>>

SeqBytes(s) == Bytes({s[i] : i \in DOMAIN s})

\* The oldest events go, one by one, until the rest fits.
Trim(s) ==
    LET Rest(n) == SubSeq(s, n + 1, Len(s))
    IN  Rest(Min({n \in 0 .. Len(s) : SeqBytes(Rest(n)) <= LiveLimit}))

\* Mutant: the loss is silent.
PushLiveSilently(w) ==
    /\ Write(w, "rejected", "readable")
    /\ live' = Trim(Append(live, wev[w]))
    /\ UNCHANGED <<sequence, storeVars, dropped, version, wev, sent, readerVars>>

PushLive(w) ==
    LET s == Append(live, wev[w]) IN
    /\ Write(w, "rejected", "readable")
    /\ live' = Trim(s)
    /\ dropped' = (dropped \/ Trim(s) # s)
    /\ UNCHANGED <<sequence, storeVars, version, wev, sent, readerVars>>

\* events_tx.send_modify
Announce(w) ==
    /\ Write(w, "readable", "idle")
    /\ wev' = [wev EXCEPT ![w] = NoEvent]
    /\ version' = version + 1
    /\ UNCHANGED <<sequence, storeVars, liveVars, sent, readerVars>>

\* Mutant: update_command overwrites the flag with run_exec's stale copy.
EndOverwrites(w) ==
    /\ Write(w, "idle", "ended")
    /\ row' = [c \in Commands |->
                 IF c = w THEN [running |-> FALSE, truncated |-> FALSE] ELSE row[c]]
    /\ UNCHANGED <<sequence, events, recorded, vanished, unflagged, liveVars, version,
                   wev, sent, readerVars>>

\* The end of run_exec: the row is updated long before the last announcement,
\* keeping a truncation flag that is already set.  A PTY has no row.
End(w) ==
    /\ Write(w, "idle", "ended")
    /\ row' = [c \in Commands |->
                 IF c = w THEN [row[c] EXCEPT !.running = FALSE] ELSE row[c]]
    /\ UNCHANGED <<sequence, events, recorded, vanished, unflagged, liveVars, version,
                   wev, sent, readerVars>>

\* update_command fails, which run_exec ignores: the row says running for good.
EndFails(w) ==
    /\ StorageFaults
    /\ Write(w, "idle", "ended")
    /\ UNCHANGED <<sequence, storeVars, liveVars, version, wev, sent, readerVars>>

\* Mutant: nobody is woken by the end of a command.
AnnounceEndSilently(w) ==
    /\ Write(w, "ended", "done")
    /\ UNCHANGED <<sequence, storeVars, liveVars, version, wev, sent, readerVars>>

AnnounceEnd(w) ==
    /\ Write(w, "ended", "done")
    /\ version' = version + 1
    /\ UNCHANGED <<sequence, storeVars, liveVars, wev, sent, readerVars>>

-----------------------------------------------------------------------------
(* Reading a page.                                                         *)

InScope(r, e) == (r = Shell \/ e.from = r) /\ e.seq > client[r].cursor

\* Mutant: a row that is larger than the limit never fits.
DatabasePageStrict(S) ==
    LET UpTo(n) == {e \in S : e.seq <= n}
    IN  UpTo(Max({n \in {0} \cup {e.seq : e \in S} :
                    /\ Cardinality(UpTo(n)) <= PageEvents
                    /\ Bytes(UpTo(n)) <= ReadLimit}))

\* Storage::events: the longest run of the oldest rows within both limits; a
\* first row is returned whatever its size.
DatabasePage(S) ==
    LET UpTo(n) == {e \in S : e.seq <= n}
        Fitting == {n \in {0} \cup {e.seq : e \in S} :
                      /\ Cardinality(UpTo(n)) <= PageEvents
                      /\ Cardinality(UpTo(n)) > 1 => Bytes(UpTo(n)) <= ReadLimit}
    IN  UpTo(Max(Fitting))

LiveScope(r) == {e \in Range(live) : InScope(r, e)}

\* Mutant: the size of the rows is not counted.
LivePageAlone(P, S) ==
    LET Taken(n) == {live[i] : i \in 1 .. n} \cap S
    IN  Taken(Max({n \in 0 .. Len(live) : \/ Cardinality(Taken(n)) <= 1
                                         \/ Bytes(Taken(n)) <= ReadLimit}))

\* append_live: the longest run of the tail, in queue order, that fits; its
\* first event also on its own.
LivePage(P, S) ==
    LET Taken(n) == {live[i] : i \in 1 .. n} \cap S
        Fitting  == {n \in 0 .. Len(live) :
                       \/ Cardinality(Taken(n)) <= (IF P = {} THEN 1 ELSE 0)
                       \/ Bytes(P \cup Taken(n)) <= ReadLimit}
    IN  Taken(Max(Fitting))

-----------------------------------------------------------------------------
(* command_poll and shell_read.                                            *)

Read(r, from, to) == rpc[r] = from /\ rpc' = [rpc EXCEPT ![r] = to]

\* Subscribe, then read.  wait_seconds may be 0.
Poll(r, block) ==
    /\ ~client[r].complete
    /\ Read(r, "idle", "load")
    /\ rd' = [rd EXCEPT ![r].seen = version, ![r].block = block]
    /\ UNCHANGED <<sequence, storeVars, liveVars, version, writerVars, client>>

\* load_command; shell_read has no row to look at.
Load(r) ==
    /\ Read(r, "load", "page")
    /\ rd' = IF r \in Commands
             THEN [rd EXCEPT ![r].running = row[r].running,
                             ![r].truncated = row[r].truncated]
             ELSE rd
    /\ UNCHANGED <<sequence, storeVars, liveVars, version, writerVars, client>>

ReadDatabase(r) ==
    LET S == {e \in events : InScope(r, e)} IN
    /\ Read(r, "page", "live")
    /\ rd' = [rd EXCEPT ![r].page = DatabasePage(S), ![r].more = DatabasePage(S) # S]
    /\ UNCHANGED <<sequence, storeVars, liveVars, version, writerVars, client>>

\* append_live leaves a page with more rows behind it alone.
WithLive(r) == IF rd[r].more THEN rd[r].page
               ELSE rd[r].page \cup LivePage(rd[r].page, LiveScope(r))
HasMore(r)  == \/ rd[r].more
               \/ ~(LiveScope(r) \subseteq WithLive(r))

\* Mutant: the row is looked at after the page was read.
FinishedByNow(r) == r \in Commands /\ ~row[r].running

Finished(r) == r \in Commands /\ ~rd[r].running

\* CommandPage::quiet
Quiet(r) == WithLive(r) = {} /\ ~HasMore(r) /\ ~Finished(r)

\* Mutant: the cursor goes to whatever was numbered last.
NextCursorNow(r) == sequence

NextCursor(r) == LastSeq(WithLive(r), client[r].cursor)

\* finish_poll and events_response.
Reply(r) ==
    /\ Read(r, "live", "idle")
    /\ ~Quiet(r) \/ ~rd[r].block
    /\ client' = [client EXCEPT ![r] =
         [cursor   |-> NextCursor(r),
          got      |-> client[r].got \cup {e.seq : e \in WithLive(r)},
          complete |-> Finished(r) /\ ~HasMore(r),
          warned   |-> rd[r].truncated \/ dropped]]
    /\ rd' = [rd EXCEPT ![r].page = {}, ![r].more = FALSE]
    /\ UNCHANGED <<sequence, storeVars, liveVars, version, writerVars>>

\* Mutant: the poller subscribes when it starts to wait.
WaitSubscribes(r) ==
    /\ Read(r, "live", "wait")
    /\ Quiet(r) /\ rd[r].block
    /\ rd' = [rd EXCEPT ![r].page = {}, ![r].seen = version]
    /\ UNCHANGED <<sequence, storeVars, liveVars, version, writerVars, client>>

Wait(r) ==
    /\ Read(r, "live", "wait")
    /\ Quiet(r) /\ rd[r].block
    /\ rd' = [rd EXCEPT ![r].page = {}]
    /\ UNCHANGED <<sequence, storeVars, liveVars, version, writerVars, client>>

\* receiver.changed() marks the version it reports as seen.
Wake(r) ==
    /\ version # rd[r].seen
    /\ Read(r, "wait", "load")
    /\ rd' = [rd EXCEPT ![r].seen = version]
    /\ UNCHANGED <<sequence, storeVars, liveVars, version, writerVars, client>>

\* The budget is used up: one last page, returned as it is.
Expire(r) ==
    /\ Read(r, "wait", "load")
    /\ rd' = [rd EXCEPT ![r].block = FALSE]
    /\ UNCHANGED <<sequence, storeVars, liveVars, version, writerVars, client>>

-----------------------------------------------------------------------------

Writer(w) == Store(w) \/ Reject(w) \/ PushLive(w) \/ Announce(w) \/ AnnounceEnd(w)

\* The writes of the database that fail.
Faults(w) == StoreUncounted(w) \/ AppendFails(w) \/ RejectUnflagged(w) \/ EndFails(w)

Reader(r) == Load(r) \/ ReadDatabase(r) \/ Reply(r) \/ Wait(r) \/ Wake(r)

Next ==
    \/ \E w \in Writers : Writer(w) \/ Faults(w) \/ End(w) \/ \E size \in Sizes : Assign(w, size)
    \/ \E r \in Readers : Reader(r) \/ Expire(r) \/ \E b \in BOOLEAN : Poll(r, b)

Spec == Init /\ [][Next]_vars

(***************************************************************************)
(* Writers and readers are tasks that the scheduler keeps running; every   *)
(* command ends (run_exec has a deadline); the client polls until          *)
(* poll_complete.  Nothing is owed by Expire: a poll must not depend on    *)
(* its budget to notice output.                                            *)
(***************************************************************************)
Fairness ==
    /\ \A w \in Writers : WF_vars(Writer(w)) /\ WF_vars(End(w))
    /\ \A r \in Readers : WF_vars(Reader(r)) /\ WF_vars(Poll(r, TRUE))

FairSpec == Spec /\ Fairness

-----------------------------------------------------------------------------
(* Properties.                                                             *)

TypeOK ==
    /\ sequence \in 0 .. MaxEvents
    /\ events \subseteq Event /\ sent \subseteq Event
    /\ vanished \subseteq Event /\ unflagged \subseteq Event
    /\ recorded \in Nat
    /\ row \in [Commands -> [running : BOOLEAN, truncated : BOOLEAN]]
    /\ live \in Seq(Event) /\ dropped \in BOOLEAN
    /\ version \in Nat
    /\ wpc \in [Writers -> {"idle", "assigned", "rejected", "readable", "ended",
                            "done"}]
    /\ wev \in [Writers -> Event \cup {NoEvent}]
    /\ rpc \in [Readers -> {"idle", "load", "page", "live", "wait"}]
    /\ rd \in [Readers -> [seen : Nat, block : BOOLEAN, running : BOOLEAN,
                           truncated : BOOLEAN, page : SUBSET Event,
                           more : BOOLEAN]]
    /\ client \in [Readers -> [cursor : 0 .. MaxEvents, got : SUBSET (1 .. MaxEvents),
                               complete : BOOLEAN, warned : BOOLEAN]]

Settled == {e \in sent : \A w \in Writers : wev[w] # e}

(* Output that append_event has accepted is never lost silently: it is in  *)
(* the database, in the live tail, or live_tail_dropped is set.  What a    *)
(* failing append_event lost is left out; NoOutputDisappears counts it.    *)
NoSilentLoss == Settled \ vanished \subseteq events \cup Range(live) \/ dropped

(* No output is lost without a flag, whatever the database does.           *)
NoOutputDisappears == Settled \subseteq events \cup Range(live) \/ dropped

(* A poller that sleeps has nothing to read: as long as the version it     *)
(* waits on has not moved, no output is readable and the command runs,     *)
(* except for what a writer is just about to announce.                     *)
NoLostWakeup ==
    \A r \in Readers :
        /\ rpc[r] = "wait" /\ version = rd[r].seen
        /\ \A w \in Writers : wpc[w] \notin {"readable", "ended"}
        => /\ \A e \in events \cup Range(live) : ~InScope(r, e)
           /\ r \in Commands => row[r].running

(* The output of a command, but for what append_event failed to store.     *)
Accepted(r) == {e \in sent : e.from = r} \ vanished

\* No update of r's truncation flag has failed.
AllFlagged(r) == \A e \in unflagged : e.from # r

(* poll_complete means that the client has every byte of the command that  *)
(* append_event did not fail to store, and none that it has not written.   *)
CompleteMeansAll ==
    \A r \in Readers \cap Commands :
        client[r].complete => {e.seq : e \in Accepted(r)} = client[r].got

(* Output that is missing once poll_complete is reported was announced as  *)
(* missing in that very reply, unless a write of the database failed: of   *)
(* the event itself, or of the flag that goes with an event of its command *)
(* past the limit.                                                         *)
LossIsWarned ==
    \A r \in Readers \cap Commands :
        /\ client[r].complete /\ AllFlagged(r)
        /\ \E e \in Accepted(r) : e.seq \notin client[r].got
        => client[r].warned

(* A cursor never passes output that the client has not been given.        *)
CursorSkipsNothing ==
    \A r \in Readers : \A e \in events \cup Range(live) :
        /\ r = Shell \/ e.from = r
        /\ e.seq <= client[r].cursor
        => e.seq \in client[r].got

(* has_more is a promise: a client that polls on with the cursor it is     *)
(* given moves forward, also when it asks for less than the next event,    *)
(* and whatever reaches the live tail while the page is put together.      *)
MoreMeansProgress ==
    \A r \in Readers :
        rpc[r] = "live" /\ HasMore(r) => NextCursor(r) > client[r].cursor

(* A page of rows and of the live tail together keeps to max_bytes, unless *)
(* it is a single event.                                                   *)
PageIsBounded ==
    \A r \in Readers :
        rpc[r] = "live" /\ Cardinality(WithLive(r)) > 1 => Bytes(WithLive(r)) <= ReadLimit

(* A client that keeps polling with a budget that never expires is told of *)
(* the end of its command: wakeups alone are enough.  A row whose last     *)
(* update failed says running for good.                                    *)
PollCompletes ==
    \A r \in Readers \cap Commands :
        <>(client[r].complete \/ (wpc[r] = "done" /\ row[r].running))

=============================================================================
