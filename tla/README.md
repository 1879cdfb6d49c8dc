# Verification of AI SSH

AI SSH is a daemon (`aisshd`) that keeps SSH sessions open on behalf of an MCP
server and a desktop application. Clients talk to the daemon over a local
socket; the daemon owns the SSH connections, runs commands and PTYs on them,
records their output in SQLite and moves files over SFTP. This directory holds
TLA+ models of the parts in which requests, background tasks, processes, the
network and the file system meet, the TLC runs that check them, and TLAPS proofs
of all their safety properties for every size of the system.

Paths below are relative to the repository.

## 1. Inventory

| Component | State | Operations | Talks to | Module |
|---|---|---|---|---|
| Session runtime (`crates/session`) | per session: `info` (status, current command), `connection`, `foreground` slot, `background` registry, `last_activity` | create, exec_start, exec_background, shell_open/write/resize/close, command_cancel, close, reap_idle, and one `run_exec`/`run_pty` task per piece of work | SSH connection, storage, pollers | `SessionRuntime` |
| Recording and polling (`crates/session`, `crates/storage`) | `sequence`, events table, `recorded_bytes`, live tail, `live_tail_dropped`, `events_tx` watch | record, append_event, events, command_poll, shell_read | run_exec/run_pty tasks write, clients read | `Recording` |
| File operations (`crates/session`, `crates/ssh/src/transfer.rs`) | remote and local files, staged files, directories | file_write (append, sudo, if_changed), file_upload, file_download, file_read, file_stat, file_mkdir | SFTP channel, exec channels for digests and sudo | `FileTransfer` |
| Storage (`crates/storage`) | tables profiles, sessions, commands, events | upserts, append_event, events, cleanup (retention), interrupt_unfinished (restart) | session, daemon | `Recording`, `Daemon` |
| SSH connection (`crates/ssh`) | russh handle, channels | connect, open_exec, open_pty, open_sftp, `ExecChannel::next`, `PtyReader::next` | remote host | `SessionRuntime` |
| Daemon (`apps/daemon`) | listener, reaper and retention tasks, shutdown | start-up, dispatch of every request on its own task, shutdown | all of the above | `Daemon`, `SessionRuntime` |
| IPC (`crates/ipc`) | socket or named pipe | bind with take-over of a stale socket, connect, cleanup | daemon, clients | `Daemon` |
| Protocol (`crates/protocol`) | none | message types, length-prefixed frames | IPC | - |
| Configuration (`crates/config`) | `config.toml`, `config.toml.tmp` | ensure_exists, load, validate, save_atomic, permissions | daemon, desktop | `ConfigFile` |
| MCP server (`apps/mcp-server`) | per-stream UTF-8 decoders | tool calls to daemon requests and back, chunks, bounded text | daemon | `McpServer` |
| Desktop backend (`apps/desktop/src-tauri`) | `exit_in_progress`, helper programs, login entry, tray | start-up, install helpers, start daemon, config_save, set_retention_days, reload, quit, updates | daemon, configuration | `Desktop` |
| Desktop front end, scripts | views | UI, packaging | desktop backend | - |

**What is hard here.** Every request runs on its own task, and the session is
four independently locked fields rather than one: each operation is a chain of
critical sections with awaits (a dial, a channel open, an SQLite write) in
between, and `close`, `command_cancel`, the reaper, finishing tasks and other
requests run in the gaps. The transport may vanish at any time, and several
requests may then reconnect at once. Output is written by one task per command
to two stores (database and live tail), read by pollers that sleep on a watch
channel, and decoded by a server that keeps half characters between calls. File
transfers of one path share the remote name, and SFTP has no overwriting rename.
Several daemon processes may start at once, be killed at any system call, and
share the endpoint's name and the database; the app and starting daemons save one
configuration through one temporary name. `PROJECT.json` lists each hazard with
its line.

**What makes the components correct.** One foreground exec or PTY at a time;
every running command can be cancelled; the slot, the registry and the reported
status are given back whatever the order of ends; a lost transport is reported
as such and nothing else is; a poll neither skips nor silently loses output, makes
progress whenever it says that there is more, a sleeping poll is woken, and text is
exact wherever it was cut; a transfer never
shows or loses half a file, and a read is of one version; one daemon owns the
endpoint, and the history agrees with what it holds after any crash; the
configuration file is always whole; the app never hangs.

## 2. Modules

### `SessionRuntime` — one session and every task on it

State is one variable per field of `SessionRuntime` (`status`, `current`,
`slot` = the `connection` field, `foreground`, `background`, `activity`), the
foreground mutex (`fgLock`), the transports (`alive`, `dialed`), per piece of
work the persisted command status (`cmd`), the channel end (`exit`), its
transport (`connOf`) and the progress of its task (`task`), and per request its
program counter and locals (`pc`, `call`).

The foreground mutex is explicit because `start_exec` and `shell_open` hold it
across a whole reconnect. The `info`, `connection` and `background` locks are
never held across an await that waits for something else, so a stretch under one
of them is one action. Every operation that changes the session is there:

| Code | Actions |
|---|---|
| `create` | `CreateConnects`, `CreateFails`, `CreateInstalls`, `CreateReady` |
| `connection_for`, `connect_runtime` | `ReuseConnection`, `NeedConnection`, `AllowDial`, `RefuseDial`, `DialSucceeds`, `DialFails`, `InstallConnection` |
| `exec_start`, `exec_background`, `shell_open` | `ExecStart`, `ExecBackground`, `ShellOpen`, then the connection steps, `OpenFails`, `RegisterForeground`, `RegisterBackground`, `RegisterFails`, `PublishRunning`, `PublishFails` |
| file operations (their use of the connection) | `FileOperation`, `OpenSftp` |
| `run_exec` | `Output`, `ExecCancelled`, `ExecDeadline`, `ExecChannelEnds`, `DiscardAfterExec`, `ClearBackground`, `ClearForeground`, `FinishExec` |
| `run_pty` | `PtyEnds`, `ClearPty`, `DiscardAfterPty`, `FinishPty` |
| `shell_write`, `shell_close`, `command_cancel` | `ShellWrite`, `ShellWritten`, `ShellClose`, `CancelForeground`, `CancelBackground` |
| `close` | `CloseRequest`, `CloseForeground`, `CloseBackground`, `CloseConnection`, `CloseInfo` |
| `reap_idle` | `ReapIdle`, `ReapForeground`, `ReapBackground` and then close |
| remote side | `RemoteExit`, `TransportDrop` |

A handler that waits for the remote side while it has the foreground mutex
(`AwaitsRemote`) may wait for ever: only `client::connect` and the SFTP handshake
have timeouts, not authentication, `open_exec`, `open_pty` and `PtyWriter::write`.

A request that is refused without touching the session (SESSION_BUSY, an argument
error, an unknown id) is a stuttering step. `shell_resize` and the status queries
change nothing.

Four switches say what the environment may do: `ShellCloseAnytime` (a client
calls `shell_close` while no PTY is open), `ExitSignals` (remote processes die
from signals), `StorageFaults` (SQLite writes of a starting request fail) and
`Quiet` (the session may become idle for the reaper).

`ForegroundSlot` is the abstract specification: work acquires an empty
foreground, releases it, and never gets it back. `SessionRuntime` implements it
with `owner` mapped to the live foreground work and `done` to the work that has
stopped being live. `MCSessionRuntime` adds the symmetry and the initial states
after `create()` has returned, connected or failed.

### `Recording` — output, live tail, polling

A writer per command and one for the PTY; `record` is `Assign` (the sequence
number), `Store` or `Reject` (`append_event` below and past the limit),
`PushLive` (with the trim to the limit) and `Announce`; `End` and `AnnounceEnd`
are the end of `run_exec`. With `StorageFaults` any of the writes may fail, and
`record` and `run_exec` go on as the code does: `AppendFails` (the event is lost;
`vanished` keeps it as history), `StoreUncounted` (stored, not counted),
`RejectUnflagged` (past the limit, but the command's flag is not written; `unflagged`
keeps the event) and `EndFails` (the row says running for good). A reader's call
is `Poll` (subscribe), `Load` (the command row), `ReadDatabase`, `WithLive`,
`Reply`, or `Wait` followed by `Wake` or `Expire`; a `shell_read` is the same
without a command row. The client is part of the model: it passes `next_sequence`
back until `poll_complete`, as the tool descriptions ask.
Payloads are sizes; a page is a set of events: what follows is decided by its
largest sequence number and its size, and the order of the reply by the sequence
numbers (`append_live` sorts, `Sorted` in `McpServer`). `ReadLimit` is `max_bytes`,
which a client may set below the size of the next event: `DatabasePage` and
`LivePage` take the first event whatever its size, and `MoreMeansProgress` and
`PageIsBounded` say why that is enough and harmless.

### `McpServer` — the MCP server over `Recording`

Extends `Recording`: every reader is the client of an `aissh-mcp` process.
`ToolsCall` is the reply together with `public_json`: the events of the page go
through `decode_event_text` with one decoder per command and stream, are merged
by `chunks_from` and rendered by `render_output_text` within a budget, and
`clear_decoders_for_command` drops what is no longer needed. `CallBreaks` is
`CallError::Transport`, before anything was decoded; `ReplyLost` is a reply that
was decoded but that the client gave up on: the decoders have moved. Either way the
client repeats the call with its old cursor. `torn` keeps, as history, the clients
whose lost page began, or had an event that began, inside a character. Written
text consists of two-byte characters that events cut anywhere; a text is its
number of characters and whether one of them is a replacement. `decode_event`,
`with_event` and `render_item` are the bodies of the loops over events and chunks;
`Decode`, `chunks_from` and `render_output_text` iterate them. Commands share the
stream name "stdout" and the PTY has "pty" (`stream_name`), so the output of two
commands in a `shell_read` may be one chunk.

### `FileTransfer` — writes, reads, downloads and directories of one path

A file system maps names to inodes and inodes to sequences of blocks, so an open
handle follows its file through rename and removal, as on a POSIX server. Each
block carries the transfer whose payload it is, so a mixture or a part of a file
is visible.

| Code | Actions |
|---|---|
| `file_write`, `file_upload` | `SkipUnchanged`, `StartWrite`/`StartAppend`, `SendChunk`, `Confirm` or `Mismatch`, `StagingFails` |
| `promote` | `FindOld`, `RemoveOld`, `MoveIntoPlace`, `PromoteFails` |
| `file_write` with sudo | `StartTee`, `Tee`, `VerifyTee`, `TeeFails`, `SudoMakeDir` |
| `file_download` | `StartDownload`, `CreateLocal`, `ReceiveChunk`, `ReceivedAll`, `ConfirmDownload` or `MismatchedDownload`, `RenameDownload`, `DownloadFails` |
| `file_read` | `StartRead`, `ReadBlock`, `ReadEnds`; with sudo `SudoSize`, `SudoHead` |
| `make_dir` (create_dirs, `file_mkdir`) | `StartMakeDir`, `LookForDir`, `CreateDir`, `MakeDirFails` |

Every step may fail, and so may the clean-up after it (`Discard`). The transport
or the server may store or read other bytes (`Received`). A digest is represented
by the content it is taken of (SHA-256 is assumed collision free), and asking for
one may yield nothing, which the code treats as "unverified". `make_dir` recurses
over the parents; the model keeps the level it is at instead of a stack, because
the recursion only ever goes up to the first directory that exists and down again.

### `Daemon` — daemon processes, the endpoint and the history

Start-ups of several processes interleave at each system call on the endpoint: on
Unix `LookAtEndpoint`, `ConnectToEndpoint`, `RemoveStale`, `BindEndpoint`, on
Windows `CreatePipe`; then `OpenStorage`, `InterruptUnfinished`, the first
`Cleanup` and `StartServing`. A daemon ends by `Shutdown` and `Stop`, by
`StorageFails` or by `Crash` at any point, which leaves a Unix socket behind.
While it serves it writes session and command rows (`CreateSession`, `BecomeLive`,
`StartCommand`, `EndCommand`, `LoseConnection`, `CloseSession`). Memory is changed
first and the write may fail (`Upsert`): `unwritten` keeps, as history, the sessions
whose row is out of date for that reason. `StartFails` is the return of `start_exec`
after it inserted the running row, `EndFails` the ignored `update_command`; `stuck`
keeps their sessions. The reaper deletes what is past its retention (`Reap`, `Age`). A session is reduced to the
statuses the history tells apart; its inner life is in `SessionRuntime`.
`OverlapStarts` says whether Unix daemons may start at the same time.

### `ConfigFile`, `AtomicFile` — the configuration file

`save_atomic` is `StartSave` (validation), `OpenTemp`, `WriteTemp`, `RenameTemp`,
with `SaveFails` and `SaverDies` anywhere; names are kept apart from inodes, so a
saver writes through the file it opened while the rename moves whatever the
temporary name stands for. `AtomicFile` is what readers are promised: the file is
absent until it was saved once and then holds exactly one of the values somebody
asked to save. `ConfigFile` implements it with `value` mapped to what a reader
finds (`OverlapSaves` = FALSE).

### `Desktop`, `MCDesktop` — the app, composed with `ConfigFile` and `Daemon`

The savers of `ConfigFile` are the app's start-up, each daemon's start-up
(`BootEnsure`) and the app's calls; the daemons of `Daemon` are started by hand or
by the app; the age of sessions (`Age`), which nothing here depends on, stands
still. Start-up is `AppEnsure`, `AppLoad` (with the login entry),
`InstallHelper`, `CopyHelper`, `ReplaceHelper` (any of its renames may fail),
`Probe`, `Prompt`, `SpawnDaemon` and the wait; a step that fails shows a message
(`error`), and the app ends with its OK (`Quit`); `ConfigSave`, `SetRetentionDays` and `ReloadConfig` run through save,
login entry, rollback and the daemon's `reload_config` (load, then assign); exit is
`ExitRequested`, held back once to ask the daemon to stop (`AskDaemon`). The app may
be killed anywhere (`AppCrash`). `MCDesktop` names the configurations the window
sends: the default, one with both flags, and one that validation refuses.

## 3. Runs

| Run | Instance | Shows |
|---|---|---|
| `SessionForeground` | 2 clients, 1 command, 1 PTY, 2 transports, after create | exclusivity, cancellability, owned busy status, honest `interrupted`, reconnect races, refinement of `ForegroundSlot` |
| `SessionFaults` | 1 client plus create, 1 command (foreground or background), 1 PTY, 1 transport, all fault switches on, fair | from the first step of create on: the inductive invariant (types and the owner of the slot included), `TasksNeverReopen`; commands end and give back slot and token, a hung-up PTY ends, though the other takes the slot and the mutex in between |
| `SessionCloses` | 2 clients, 1 PTY, 1 transport, reaper active, fair | every close goes through, among writes, starts and other closes |
| `RecordingPoll` (`McpServer`) | 1 writer, its poller and a session-wide reader, 2 events of size 3, `max_bytes` 2, failing writes, limit out of reach, fair | `poll_complete` means all that was accepted arrived, cursors skip nothing, `has_more` moves the cursor, wakeups suffice |
| `RecordingOverflow` (`McpServer`) | a command and the PTY write, 3 events of size 1 (half a character), recording limit and tail of 1, `max_bytes` 2, failing writes, 1 broken call or lost reply | no silent loss of accepted output, warning, no lost wakeup, exact text, honest chunks and rendering, pages of rows and live tail keep to `max_bytes` |
| `FileTransfers` | any 3 of a write, an append, a privileged append, a download, a read, a privileged read and a mkdir; one mangled block, failures anywhere | whole files only, nothing lost in the swap, no leftovers, verified downloads and reads are real versions, directories are there |
| `DaemonRestarts` | 3 daemon processes, 1 session, 4 starts, 2 crashes, both platforms, any write of the history may fail | one daemon, dead sockets are taken over, the history agrees with what is held |
| `DesktopApp` (`MCDesktop`) | the app, 1 daemon, 1 call at a time, 2 launches, 1 crash, both platforms, fair | the file implements `AtomicFile`, acknowledged saves are in use, rollback, login entry, helper stays runnable, the app settles |

Four runs show a disagreement between the code and what the repository says of
it; each checks one property and TLC finds it violated:

- `ShellCloseEvictsExec`: `shell_close` takes the slot before it looks at its
  kind; called while an exec runs it frees the slot, and a second foreground exec
  starts beside the first.
- `CursorSkipsAtLimit`: a poll reads the database page, then the live tail; output
  stored in between is passed by the cursor when the tail already has later output.
- `TwoDaemons`: two Unix daemons that start together over a dead socket both get
  past `bind`: one finds the old socket dead, the other removes it and binds, and
  the first then removes the new one.
- `CloseWaitsForWrite`: `shell_write` holds the foreground mutex until the channel
  has taken the data; if the remote program never reads, `close` waits for ever and
  the session stays open. (`CloseCompletes` says what does hold.)

Further disagreements were met while modelling and are in the models, but have no
run of their own. Some are invariants that fail when they are added to a run:

- `record` ignores the error of `append_event` with `persisted` already set, so the
  event is in neither store and no truncation field says so (`NoOutputDisappears` in
  `RecordingPoll` or `RecordingOverflow`; `crates/session/src/lib.rs:1111` against
  "`truncation` names each one", `README.md:98`);
- a poll repeated inside a character, after its reply was decoded but lost, drops
  the pending half, and the other half becomes a replacement character
  (`NoCharacterIsTorn` in `RecordingOverflow`; `apps/mcp-server/src/main.rs:691`
  against `AI/CODEBASE_ANALYSIS.md:36`);
- a session closed while a request dials gets the new connection installed after
  it was closed (`ClosedHasNoConnection` in `SessionForeground`;
  `crates/session/src/lib.rs:309` against the tool description "Close a session
  and its SSH connection.", `apps/mcp-server/src/main.rs:1050`);
- a write with `sudo=true` streams into `tee` on the destination, so a part of it
  is visible, and stays there on failure (`PartialNeverObserved` in
  `FileTransfers`; `AI/ARCHITECTURE.md:69`);
- two downloads to one local path share the staged file and may rename a mixture
  into place (`LocalIsWhole` with two downloads; `crates/ssh/src/transfer.rs:374`);
- two saves of the configuration at once share `config.toml.tmp` and may install a
  torn file (`ConfigIsWhole` with `OverlapSaves` = TRUE; `AI/ARCHITECTURE.md:70`).

Others are visible in the actions only: a finishing `run_exec` empties the slot
before it writes `idle`, and so may overwrite the status of a command started in
between; a process killed by a signal is reported as `interrupted` although the
transport is up, because `ExecChannel::next` drops `ExitSignal` (`ExitSignals` =
TRUE shows it on `InterruptedMeansTransportLost`); the task of a command that lost
its transport may discard the fresh connection another request has just
installed; a failed reconnect leaves the closed handle in the slot of a
`disconnected` session (`README.md:110` says it is not kept around), which is
harmless because `connection_for` tests it; a small event may still be persisted
after a larger one went to the live tail; two writers may store in the opposite
order of their sequence numbers, so a session-wide `shell_read` may pass the late
one; a privileged append compares the digest of the appended bytes with that of
the whole file; two appends to one file, or an append and a write, may lose one
of the updates; an append whose size request fails cuts a file above the limit,
and a `file_read` whose size request fails reports size 0 and `truncated` = false
for a capped read (`README.md:78`: "a capped read is never mistaken for a complete
file"; `ReadIsHonest` is about clients that compare the sizes);
`append_capped` may exceed its budget by a part of a character; a `shell_read`
drops the decoders of a command that ended between its page and its look at the
command rows, so half a character may be lost; a command whose final `update_command` fails
stays `running` and is polled for ever, and one whose session row cannot be written
at its start stays `running` without a task; command rows of a killed daemon
stay `running` (as `AI/CODEBASE_ANALYSIS.md:86` says), which is why
`RunningIsHonest` is about sessions the daemon holds; retention deletes the rows
of an old disconnected session that the daemon still holds, with those of a
command still running on it; a daemon loads its configuration before it binds and
may miss a save in between.

### Bounds

Two clients and one command and PTY are enough for each pair of a starting and a
finishing piece of work, with a close or a second request between them; two
transports allow one loss and one reconnect, and two requests that dial at once.
The runs with liveness properties are small but have the contention they are about: each of
these properties fails when the step that waits for the mutex is given weak instead of
strong fairness, because other requests take the mutex again and again. Ids, clients
and transports are interchangeable, hence the symmetry in `SessionForeground`; the
runs with liveness properties use none. In `RecordingPoll` every event is above
`max_bytes` (`ReadLimit` = 2), so each page is the single event the limit must not
hold back, and two events (`MaxEvents`) put a page end between them; in
`RecordingOverflow` three events are the fewest that let one stored, one rejected and
one dropped event meet, two of them fill a page from rows and live tail together,
and each ends or begins inside a character; one call that breaks or whose reply is
lost (`MaxLost`) repeats a page. In
`FileTransfers` payloads are two blocks, so a part differs from nothing and from
the whole; the append limit is two and the read limit three blocks, so a file that
an append has made longer (four) is above both; three concurrent calls
(`MaxCalls`) are two that disturb each other and one that observes; one block at a
time may be mangled (`MaxBad`); two directories (`Depth`) are a parent and a child.
Three daemons with four starts (`MaxStarts`) and two crashes (`MaxCrashes`) let a
successor of a killed daemon be killed too while a third one tries.
`DesktopApp` has one daemon, which may be the one running or the one the app
starts, two launches (`MaxLaunches`) so that the second finds what the first left,
and no sessions: what a daemon does with them does not touch the app. Its two
inodes are the file and its successor.
Deadlock is not checked: ids, transports, events and start-ups are bounded, and a
session may be closed, a transfer over or the app gone for good.

### Fairness

`SessionRuntime!Fairness` is weak fairness of the steps of handlers and tasks that
wait for nothing but the scheduler (`LocalStep`, `ExecTask`, `PtyTask`: tokio runs
what is ready; `run_exec` has a deadline, the reader of a PTY whose transport is
gone ends) and strong fairness of the steps that wait for the foreground mutex
(tokio's mutex is FIFO, so a waiter gets a lock that is released again and again).
Nothing is owed by the remote side, by clients or by the clock of the reaper: dials,
channel opens and PTY writes may take for ever. What then still holds is stated
under the condition that they do not: `RemoteAnswers` (nobody who has the mutex
waits for the remote side for ever) and, for a hung-up PTY, `HangUpsAnswered` (the
remote side closes its channel, or the transport ends). `CloseWaitsForWrite` shows
that `close` does need the condition.
`McpServer!McpFairness` lets writers finish and lets the client poll again with a
budget that never expires, so that only wakeups can help it; failing writes, broken
calls and lost replies owe nothing.
`Desktop!Fairness` is weak fairness of the app's own steps (its thread runs; its
waits for a daemon have timeouts) and of saves; launches, the user's approval, the OK
to an error message, quits, crashes and everything the daemon does owe nothing.

## 4. Proofs

All theorems hold for every size of the sets and every bound. `DataLemmas` has the
facts about data that several of them need: least and greatest elements, induction
over numbers and over the subsets of a finite set (with the property as a set, from
the well-foundedness of the numbers), functions defined by recursion on an interval,
and that the sum over a set (`MapThenSumSet`) does not depend on the order in which
its elements are taken.

`SessionRuntimeProofs`, from the assumptions `IdsAssumption` (ids are distinct)
and `SwitchAssumption`, for every setting of the switches:

| Theorem | States |
|---|---|
| `InvHolds` | `Spec => []Inv` |
| `TypeCorrect` | type correctness |
| `ForegroundIsExclusive`, `CommandsStayCancellable` | if `shell_close` is only called on a PTY (`~ShellCloseAnytime`) |
| `SlotIsOwned`, `BusyIsJustified` | slot and busy status belong to a task that has yet to correct them |
| `InterruptedIsHonest` | if remote processes always report a status (`~ExitSignals`) |
| `LiveHandleIsKept`, `TasksDoNotReopen` | the two action properties |
| `SessionImplementsSlot` | the session implements `ForegroundSlot` (`~ShellCloseAnytime`) |

The two conditions are exactly the disagreements `ShellCloseEvictsExec` and the
`ExitSignal` one above: with the switch on, TLC has a counterexample.

The inductive invariant. `ForegroundExclusive` says nothing of who owns the slot,
so it is not inductive: a second exec could start if the first were live without
owning the slot. `OwnerInv` (live foreground work owns the slot) closes that, and
itself needs `MutexInv` (a starting request holds the mutex, so the slot it found
empty is still empty when it registers and its id is unused) and `PublishInv`
(what was registered but not yet published is still there, and is published by
one request only). `TokenInv` is the counterpart for background commands and
gives `RunningIsCancellable` together with `OwnerInv`. `SlotInv` and `BusyInv`
strengthen `SlotHasTask` and `BusyHasTask` by keeping background commands out of
both; `DetachedInv` and `StopInv` tie the sets of work to the tasks' progress.
`TransportInv` keeps every transport in use among the dialled ones, so a dead one
never comes back, which is what makes `InterruptedMeansTransportLost` stable.
`SessionFaults` checks `Inv` with TLC. The proof that a step preserves `Inv` has a
lemma per group of actions and a step per action. The refinement rests on `Inv`
and on one lemma per kind of step: a step of `RegisterForeground` is an `Acquire`,
a step that makes live work no longer live is a `Release`, all others stutter.

`DaemonProofs`, from `DaemonAssumption` and `Sequential` (Windows, or Unix without
overlapping start-ups, which `TwoDaemons` shows to be necessary):

| Theorem | States |
|---|---|
| `OneDaemonAtATime` | at most one daemon is past `bind`, and the endpoint is its own |
| `TakesOverTheDead` | a daemon that starts alone is never refused |
| `HistoryStaysHonest` | what the history calls live is what the serving daemon holds, but for sessions whose status it failed to write (`unwritten`) |
| `RunningMeansRunning`, `RunningRowsAreKept` | a held session's `running` command has a task, unless the write of its end or of its start failed (`stuck`); retention keeps the rows of running commands of younger sessions |
| `DaemonTypeCorrect` | type correctness, without `Sequential` |

`OneDaemon` needs to know why a removed socket is dead: `ProcessInv` adds that on
Unix only one daemon is starting (`OnlyOneStarts`) and that nobody is bound while
one is about to remove the name (`RemovesTheDead`). `AloneInv` adds that a daemon
alone since its start finds the name free when it binds. `HistoryInv` adds what
memory holds at each point of `main` (nothing before it serves), that recovery
leaves no live row until it serves, that a row is out of date only if its write failed, and that a command row has its session row.

`ConfigFileProofs`, from `ConfigAssumption` and `~OverlapSaves`, about
`ConfigSpec`, in which callers save whatever they like:

| Theorem | States |
|---|---|
| `ConfigStaysWhole` | `config.toml` is absent or one whole valid configuration |
| `SaveImplementsAtomicFile` | `ConfigFile` implements `AtomicFile` |

`FileInv`: one saver is under way (`OneSaver`), its handle is what the temporary
name stands for and holds nothing before the write and the whole text before the
rename (`HandleIsTemp`), the two names never stand for one file (`NamesDiffer`),
and what is being saved is valid (`WantsValid`).

`RecordingProofs`, for any number of writers and readers, any sizes and limits, and with any writes of the database failing:

| Theorem | States |
|---|---|
| `RecordingTypeSafe` | type correctness |
| `OutputIsKept` | `NoSilentLoss`: every event that `append_event` accepted is stored, in the live tail, in its writer's hands, or `live_tail_dropped` is set |
| `PollersWake` | `NoLostWakeup` |
| `LossWarned` | `LossIsWarned`, of accepted output, unless an update of the command's flag failed |
| `UntruncatedComplete`, `UntruncatedInOrder` | of a command whose row is not truncated and no update of whose flag failed, `poll_complete` means all of the accepted output, and the cursor passes none of it that was not given |
| `BelowLimitComplete` | `CompleteMeansAll`, of accepted output, while nothing was rejected for the recording limit (`[]NothingRejected`) |
| `BelowLimitInOrder` | `CursorSkipsNothing`, also of the shell, under the same condition and with one writer |
| `PollsProgress` | `MoreMeansProgress`: `has_more` comes with a cursor beyond the one asked for |
| `PagesBounded` | `PageIsBounded`: a page of more than one event is within `max_bytes` |

"Accepted" is what `append_event` did not fail to store: the rest is lost without a
flag, which `NoOutputDisappears` would deny, and no property here claims otherwise. The
conditions of `BelowLimitComplete` and `BelowLimitInOrder` are those of the disagreements. Past the limit the cursor
may skip (`CursorSkipsAtLimit`); with two writers a session-wide `shell_read` may
skip even below it, because the number of an event is taken in one step and its
row stored in another. A command's own poll needs neither condition as long as its
row is not truncated, since a command is written by one task.

`RecordingInv` has seven layers. `WriterInv`: numbers are unique, an event is in one
place, and the one in a writer's hands is its latest. `Placed` is `NoSilentLoss`
with the writer's hands made precise. `RowInv`: a row says "ended" only when its
writer is past its last event, and, unless an update of its flag failed, "not
truncated" only if everything accepted of it is in the database or about to be. `WakeInv` is the reason why subscribing first is
enough: while the version a poller saw is current and no writer is between a
change and its announcement, what the poller found so far still holds; it has one
clause for each step of a poll. `ReaderInv` ties what a reader was told of a
command's row to the row. `CursorInv`: the cursor separates what was given from
what was not, and a page is the beginning of the rest; the last page of an ended
command is all of the rest. `ReadInv` is about a page between its two reads: its
rows are after the cursor and in scope, within `max_bytes` or a single one
(`PageFits`, by the order independence of sums), and they are not empty when the
database said that there is more; `LiveFits` carries this over the live tail,
whatever it is at the second read.

`McpServerProofs`, about `McpSpec`, for any events, sizes, page limits, failing writes, broken calls and lost replies:

| Theorem | States |
|---|---|
| `BrokenCallsLoseNothing` | `TypeOK`, `NoSilentLoss`, `NoLostWakeup`, `LossIsWarned` |
| `RepeatedCallsComplete` | `CompleteMeansAll` for clients that repeat broken calls and lost replies (`[]NothingRejected`) |
| `RepeatedCallsProgress` | `MoreMeansProgress` and `PageIsBounded` |
| `TextStaysExact` | `TextIsExact`: the text of a command's client is that of the bytes up to its cursor, for clients that never repeated a lost page that began, or had an event that began, inside a character (`torn`) |
| `RenderingIsHonest` | `RenderedTextIsHonest`: chunks hold every event, and text that was cut says so |

Every step of `McpServer` is one of `Recording`, or a call that breaks or whose reply
is lost, which leaves the cursor and everything the daemon has alone, so `RecordingInv` holds here too. For
the text, `TextInv` relates three things: the bytes before the cursor, the decoder's
last sequence and pending byte, and the text (`ExactText`: twice the characters plus
the pending byte are all the bytes). It holds of a client as long as its cursor
passed nothing undelivered; the page of a call is then exactly the next events of
the writer (`CallGrowsSeen`), and a decoder that is given them in order, as `Sorted`
lists them (`SortedIsList`), finds its pending byte where the first event continues
(`DecodesExactly`, by induction over the page). A broken call changes neither cursor
nor decoder; a lost reply moves the decoder, and as long as everything in it is at
the boundaries of characters nothing is pending, so that the replay starts afresh.
Decoders are dropped only with the last page. For the rendering,
`chunks_from` and `render_output_text` are followed event by event and chunk by
chunk: the chunks so far cover the events so far and have their characters, and what
is shown, together with the budget left, is the whole budget until the first cut.

`FileTransferProofs`, for any number of transfers of each kind, any payloads and
limits, a failure at any step and mangled blocks:

| Theorem | States |
|---|---|
| `FileTypeSafe` | type correctness |
| `RemoteWhole`, `RemoteComplete` | `RemoteIsWhole`; and also an unverified upload that was promoted has its full length |
| `VersionsAreFinal` | without a privileged write, a file that was ever complete at the path never changes again (an action property) |
| `NothingLost`, `NothingLeftOver` | `NothingIsLost`, `NoLeftovers` |
| `DownloadsAreVersions`, `ReadsAreHonest` | `VerifiedIsAVersion`, `ReadIsHonest` |
| `DirectoriesAreReady` | `DirectoriesReady` |
| `LocalWhole` | `LocalIsWhole`, if downloads to the path do not overlap (`[]DownloadsAreSerial`) |

The condition of `LocalWhole` is on the behaviour, since the staged name of a
download depends on its path alone; with two downloads at once TLC has a
counterexample (section 3). The argument goes by ownership. `NamesInv`: a staged
name is its upload's own file, the remote path and every open source are files
that were promoted (or written by `tee`), and local files belong to downloads.
Then each step has one actor, who writes only files of his own (`ActorStep`), and
a promoted file is final (`VersionsAreFinal`): all that a read or a download has
collected stays a part of that version, which is `DownloadInv` and `ReadInv`.
`ContentInv` says what an upload has sent at each step; `Kept` and `StageHeld` say
who holds the content while the remote path is empty; `DirInv` keeps the
directories closed under parents. `FileInv` is their conjunction.

`DesktopProofs`, about the app composed with `ConfigFile` and `Daemon`:

| Theorem | States | If |
|---|---|---|
| `AppKeepsAtomicFile` | `ImplementsAtomicFile`: with the app, its calls and all daemons saving and dying, `config.toml` is an `AtomicFile` | `~OverlapSaves` |
| `LoginEntryIsKept`, `RollbackIsDone`, `AcksMeanLoaded` | `LoginEntryFollows`, `RollbackRestores`, `AckMeansLoaded` | `~OverlapSaves` |
| `DesktopTypeSafe` | type correctness | `~OverlapSaves` |
| `AppKeepsOneDaemon` | `OneDaemon`, `DeadIsTakenOver`, `HistoryAgrees` (as above) beside an app that starts, stops and outlives daemons | `Sequential` |
| `HelperIsKept` | `HelperStaysRunnable` | |

The invariants of the parts are used again as they are: `ConfigPart` shows that
each step is a step of `ConfigFile`, none, or the end of the app's process with
all its savers; `DaemonPart` that it is a step of `Daemon`, none, or one of a
process that has not reached the endpoint. What the parts do not know of each
other is `Core`: the start-ups save only where there is no file, and calls begin
only where there is one, so the file a call found stays until its own rename
(`SaverInv`); where a call is determines what the file holds (`DiskOK`); and the
login entry is what the file says except between the save of another flag and the
change of the entry (`LoginInv`). `DesktopAssumption` says that the app, its calls
and the daemons are different savers.

Every safety property of a passing run is stated by a theorem, under the conditions
named in the tables where it has one. Type correctness of `Recording`, `McpServer`, `Daemon`
and `Desktop` is proved and has no run of its own. Only model-checked are the liveness properties
(`CommandsEnd`, `CloseCompletes`, `HungUpShellEnds`, `PollCompletes`, `AppSettles`):
fairness is out of the prover's reach.

## 5. Not modelled, and the plan

Left out for good: authentication, host keys and command quoting (platform and
library I/O); the message types and length-prefixed frames of the protocol and the
JSON of tool arguments (stateless translations); file permissions and path
discovery; peer credentials; the updater, the tray and the windows of the app, the
front end, packaging; wording of errors. `file_stat`, `shell_resize` and the
listings change nothing.

Left for later: the framing of the protocol as operators checked against a
reference definition.
