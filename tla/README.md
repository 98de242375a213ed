# Verification of context-clipboard

TLA+ specifications of the context-clipboard daemon, the TLC configurations that
check them on small instances, and TLAPS proofs of their main properties for any
instance. Source references are relative to the repository; `core/` stands for
`crates/clipboard-core/src/`, `daemon/` for `crates/clipboard-daemon/src/`, `ui/` for
`crates/clipboard-ui/src/`.

## 1. The system

One process, `context-clipboardd`, watches the clipboard and owns the history.

- A **capture thread** (`daemon/capture.rs`) polls the clipboard, skips secrets and
  the text it dealt with last, and stores the rest.
- A tokio **IPC server** (`daemon/server.rs`) accepts connections on a Unix socket,
  one task per connection; each request is a synchronous **handler**
  (`daemon/handlers.rs`).
- Both work on one `AppState` (`daemon/state.rs`): a SQLite connection behind a mutex,
  the config behind a read-write lock, and an atomic pause flag.
- The **clip store** (`daemon/db.rs` over `core/schema.rs`) is four tables and a
  contentless FTS5 index. Only `clear_clips` and `migrate` open a transaction.
- `daemon/lib.rs` starts and ends all this, under a **single-instance lock**
  (`daemon/lock.rs`). The command-line client (`ui/`) sends one request per connection.

### Inventory

| Component | State | Operations | What is hard | What makes it correct |
|---|---|---|---|---|
| Clip store | `clips`, `clips_fts_map`, FTS5 postings and rowids | `store_capture`, `delete`, `clear_clips`, `search` | several statements without a transaction; an index that must be reversed with the very text it was given; rowids that are reused | searches return matching clips and all of them; one row per content; no residue of deleted clips; each operation happens once or not at all |
| Capture thread | `last_hash`, the text in hand | poll, read, skip, store, stop | pause, delete and clear in the middle of a poll; failing reads and stores | nothing copied is lost, nothing deleted returns, pause is obeyed, shutdown is noticed |
| Shared state, pause | flag, config copy, `settings` row | `set_paused` and the row | three writes, concurrent handlers | the flag the thread obeys is the last one set |
| Life cycle, lock, server | lock file (inode, flock), socket file, thread, tasks | start, bind, serve, signal, join, drop, crash | several processes; a lock on an inode and an unlink by name; detached tasks | one daemon, the only writer, reachable; leftovers block nobody; shutdown ends |
| IPC framing, protocol | frames in flight on a connection, the step of each end | connect, `write_frame`, `read_frame`, dispatch, shutdown | either end closing or dying in mid-frame, the size limit at four places, no timeout and no retry | a request is carried out at most once and only when whole, its outcome tells the truth, every call ends, no task is left behind |
| Search filters, limits | `last_seen_at` of the rows | `search`, `recent`, `insert_or_touch` | filtering after a capped fetch, text comparison of times, a wall clock that may be set back | the newest or best matches, up to the limit and all of them below it |
| Retention | `clips`, `is_favorite` | `set_favorite`, `evict` (no request reaches them) | two transactions; touches and a clock set back change who is old | favourites stay, the oldest go first |
| Denylist, settings | `apps_excluded`, `settings` | add, remove, list, match, update | ids of removed rules are handed out again; updates that stop half-way or meet others | a listed application is not captured; a listing means what it said; an acknowledged setting holds (`SetPaused` excepted, whose Ok does not say that its row was written) |
| Migration, configuration, key file | `schema_migrations` and the tables, `config.toml`, `db.key` | `migrate`, `load_config`, `load_or_create_dev_key` | each is created by whoever finds it missing, in several steps; starts killed anywhere, overlapping, or racing a user's editor | seeded once and whole, one key, no edit lost, a start after any death works |
| Intake: categorizer, normalization | none | `categorize`, `normalize`, `mime_for`, `preview` | tests that overlap and are tried in an order; conversions that must be stable | the documented category; a MIME type that fits it; a clip copied back is the same clip |
| Encryption, paths, errors | none | pure functions | none | unit tests in the repository |
| Command-line client | none | one request per run, print | waits without a timeout | (with the protocol) |
| Frontend, extension | none | mock-ups | none | none |

`PROJECT.json` gives the status of each component, the hazards of the code at the
lines where they bite, and the properties about them.

## 2. Modules

| Module | Models | Extends / instantiates |
|---|---|---|
| `History` | the abstract clip history: requests with at most one effect each | |
| `ClipStore` | `daemon/db.rs`, `core/schema.rs`, one action per SQL statement | instantiates `History` |
| `ClipStoreMC` | instances for TLC | `ClipStore` |
| `ClipStoreProofs` | invariants of the store and that it implements `History`, proved | `ClipStore` |
| `CaptureLoop` | `daemon/capture.rs`, `SetPaused`/`Delete`/`Clear`, shutdown, restart | |
| `CaptureLoopMC`, `CaptureLoopProofs` | instances; proofs | `CaptureLoop` |
| `InstanceLife` | `daemon/lib.rs`, `lock.rs`, `server.rs`, several processes | |
| `InstanceLifeMC`, `InstanceLifeProofs` | instances; proofs | `InstanceLife` |
| `IpcCalls` | what a request over the socket promises its caller | |
| `IpcChannel` | `ui/client.rs`, `daemon/server.rs`, `daemon/frame.rs`: one connection per call | instantiates `IpcCalls` |
| `IpcChannelMC`, `IpcChannelProofs` | instances; proofs, the refinement included | `IpcChannel` |
| `SearchQuery` | `Recent` and `Search` of `daemon/handlers.rs` and `db.rs`, over rows that change | |
| `Retention` | `set_favorite` and `evict` of `core/schema.rs`, over the same rows | `SearchQuery` |
| `SearchQueryMC`, `RetentionMC`, `SearchQueryProofs` | instances; proofs about both | `SearchQuery`, `Retention` |
| `StartUp` | `load_config` of `daemon/lib.rs`, `core/config.rs`, `migrate` of `core/schema.rs`, the key file of `core/crypto.rs` | |
| `StartUpMC`, `StartUpProofs` | instances; proofs | `StartUp` |
| `Denylist` | `apps_excluded` and `settings`: their handlers, statements, and the capture thread's look-up | |
| `DenylistMC`, `DenylistProofs` | instances; proofs | `Denylist` |
| `Categorizer` | `core/categorize.rs`, as operators | |
| `Intake` | `process_text` of `daemon/capture.rs` as a function of the text | `Categorizer` |
| `IntakeMC`, `IntakeProofs` | instances; proofs about both | `Intake`, `Categorizer` |

Each module takes the others at a coarser grain: a store is one step of `CaptureLoop`
and several of `ClipStore`; a connection is one bit in `InstanceLife` and a protocol in
`IpcChannel`; a search is one step of `SearchQuery`, over a whole index, and of `ClipStore`,
which spoils it; the join of the capture thread is one step of `InstanceLife` and
`ShutdownEnds` of `CaptureLoop`; a start is a few steps of `InstanceLife`, which shows
how two may overlap, and a dozen of `StartUp`, which lets them; a poll is three steps of
`CaptureLoop`, one of `Intake`, which looks at the text, and two of `Denylist`, which
looks at its source.

In each module some operators stand just before a definition of the code and differ
from it by one plausible mistake (`FtsDeleteDocumentOnly`, `StoreWithoutHash`,
`HangUpRetrying`, ...). They are not part of the specification; `PROJECT.json` says
which property each of them breaks.

Some variables are history variables: they guard nothing and change nothing, and let a
property speak about the past; but for `foreign`, whose size bounds `Intake`. They are named
as such where they are declared.

### ClipStore

State: `clips` maps an id to its row (the content, whether the body is stored or only
its preview, the source application) or to `NoClip`; `ftsMap` is `clips_fts_map`;
`postings` and `docs` are the FTS5 index: which rowid a term finds, and which rowids
it counts. `pc` is the next statement of the operation that holds the mutex.

A request takes the mutex (`Acquire`), runs statement by statement, and returns
(`Finish`). `store_capture` is `LookUp`, then `Touch` or `Insert`, then for a new
content `FtsInsert` and `MapInsert`. `delete` is `FetchRow`, `FtsDelete`, `MapDelete`,
`RowDelete`, which cascades to the map. `Clear` is one transaction. `Fail` is a
statement that returns an error through `?`; `Crash` is the death of the process and
the start of the next one. Both leave what was committed, and both may strike any
request before any statement.

The history variable `upsets` collects what befell the tables since the last clear: the
statements before which a request stopped, and `"enrich"` for a touch that changed an
indexed column. Several properties hold up to certain upsets and name them; the others
hold in spite of all of them.

Data: a content is its hash; a text is the set of its terms (`BodyTokens`, or
`PreviewTokens` when the body was over the size cap). The 'delete' command of a
contentless FTS5 table removes exactly the terms it is given under the rowid and stops
counting the document; a new document gets the rowid after the largest one counted.
That is external behaviour, modelled from what the code relies on.

### CaptureLoop

State: the OS clipboard, the set of stored texts, the three copies of the pause
setting, the shutdown flag, the thread's step with the text it read and `last_hash`,
and the step of each client's `SetPaused` handler. A poll is three steps (`Poll`:
shutdown and pause are tested; `Read`: the clipboard is read and the text skipped or
taken up; `Store`/`StoreFails`), between which users copy and handlers run. A store, a
delete and a clear hold the database mutex throughout and are one step; a failed store
may have left the row or not. `Crash` and `Restart` keep the history and the settings
row, and lose the rest.

History variables: `owed` (the clipboard's text is a copy the daemon has not dealt
with), `gone` (texts deleted once dealt with, not copied since), `copied` (the copy the
user expects to find), `late` (stores since the pause flag was raised).

### InstanceLife

State per process: how far `run()` is, the inode its lock file is open on, its capture
thread, its connection tasks; shared: the inode the lock path leads to, the process the
socket path leads to. `acquire()` is `Open`, then `TryLock` or `Refused`; `Server::bind`
is `RemoveStaleSocket`, then `Bind`, `BindRefused` or `BindFails`; the drop of
`SingleInstance` is `Unlink` (by name), then `Close` (which releases the lock). `Exit`
is the drop of the runtime, which ends the connection tasks; `Crash` can happen at any
step. The history variable `ended` says that some daemon ended otherwise than by dying
(by a signal or a failed start): only such an end unlinks a file.

### IpcChannel

State per call: the step of the client's `send()` or its result, the request, the step
of the connection's task in the daemon, how many pieces of the request and of the
response were written and read, how often the handler ran. A frame has three pieces (a
part of the length, the length, the body), so that an end can go away inside the
length, before the body, or after it; a socket buffer holds `Capacity` of them. A
request is its length, whether the daemon can parse it, and the length of its response.

`Connect`, `Withhold`, `Write`, `Receive`, `HangUp` are `IpcClient::send`, with
`write_frame` and `read_frame` of `ui/client.rs`; `Accept` is the accept loop,
`TurnAway`, `Read`, `ReadEnds`, `Dispatch`, `Respond`, `RespondFails` are `handle_conn`
with `daemon/frame.rs`. `StopAccepting` drops the listener and its backlog, `Exit` the
runtime and its tasks, `Crash` everything. `Interrupt` is the death of a client.
`ReadEnds` covers both ends of `read_frame`: the code takes the end of stream inside the
length prefix for a clean one (`daemon/frame.rs:19`, whose comment says "at a frame
boundary") and inside the body for an error; the task is over either way.

`IpcCalls` is the abstract view: an answer means that the request was carried out, a
refusal that it was not and never will be, an error leaves open whether it was but not
whether it still will be. The mapping takes the outcome from the client's step, and the
number of runs from `executed`.

### SearchQuery

State: per id the content of its row and `last_seen_at`, the wall clock at the last
capture, and the answer to the last query, which is forgotten when the rows change: a
property of an answer is about the rows it was made from. `Capture` is `store_capture` at
any time but that of the capture before, earlier ones included, with the touch or the
insert of `insert_or_touch`; `Delete` and `Clear` are the handlers' effects; `Query` is
`db::search`, of which `Recent` is the case without terms and filters.

`ORDER BY` with `LIMIT` is stated by what it leaves (`First`): nothing comes before
something that is kept, and the limit is used up unless everything is kept. The order is
`Newer` (last_seen_at, then id) or, with terms, any order at all for FTS5's rank. Terms
are and-ed; a filtered query fetches `FetchCap` rows, filters, and takes `limit`.

Times count half seconds, so that a time may have a fraction or none, and a bound has one
of three forms: as the daemon writes times (+00:00), with Z, or with another offset.
`TextAtLeast` says how their texts compare: after equal digits, + sorts before the point
of a fraction and both before Z. Ids are UUID v7, which begin with the time: a new id is
the greatest unless the clock was set back.

History variables: `setBack` (the wall clock was set back), `after` (which row was
captured after which).

### Retention

`Retention` adds `favorite` to these rows, with `SetFavorite` and `Evict`. `evict` runs
two statements, each a transaction: clips last seen before a cutoff, and non-favourites
beyond the newest `max_items`. Either is optional, and the second may not be reached;
`Evict` covers all of these. `RSpec` is `SearchQuery`'s specification with these actions,
except that an answer is read before the rows change.

### StartUp

State in the data directory: which tables there are and the version in
`schema_migrations`, the rules, `config.toml`, `db.key`, and the keys that clips were
sealed with. Per process: the next step of its start, and the configuration and the key
it has. `OpenDatabase` reads the version, `Migrate` is the transaction, `MigrateFails`
finds the tables another start made in between. `LoadConfig`, `TestConfig`,
`TruncateConfig` and `WriteConfig` are `load_config`, whose `exists` and `save` are apart
in time and whose `fs::write` truncates before it writes. `LoadKey`, `CreateKey`
(`create_new`) and `WriteKey` are `load_or_create_dev_key`. `StartFails` is any failing
system call, `Crash` the death of a process; `EditConfig` is a user's editor.

A file is an edit of the user's, the defaults, empty, or cut: what is left when a text was
written in part or over another one. Starts overlap in this model without condition: two
get past the lock as `LifeTwoDaemons` shows, and also because the lock is in the runtime
directory and the database in the data directory (`core/paths.rs:62`, `40`): a daemon
started without `XDG_RUNTIME_DIR` takes another lock over the same data.

History variables: `wanted` (the seeded rules as users changed them), `racers` (who had
looked for the file when a user last wrote it), `upsets` (what may make a start fail).

### Denylist

State: the rule at each id, the value of each setting, who holds the database mutex, the
rows an `UpdateSettings` has still to write, the source the capture thread is about to
store a clip from. A handler with one statement is one step; `UpdateSettings` is
`BeginUpdate`, a `WriteRow` per row in the order of the keys, and `AnswerOk` or
`AnswerError`; the capture thread's look-up and its store are `CheckSource` and
`StoreClip`, under one guard. `NextId` is how SQLite numbers rows of a table without
AUTOINCREMENT: one more than the largest. `Restart` is the death of the process.

History variables: `listed` (a client's last listing), `sunk` (ids that were above every
rule since then), `promised` (per key, what the last request about it was told, also when
that is not so), `unsaved` (the keys whose last request was answered Ok although its row was
not written). Only `SetPausedRow` adds to `unsaved`: the handler drops the error of
`set_setting` and answers Ok (`daemon/handlers.rs:120`). The end of the next request about the
key takes it out again, written or reported as an error.

### Categorizer and Intake

A text is a sequence of lexemes: white space, the parts of URLs and paths, and one mark of
code for each kind of test in `looks_like_code`. The lexemes have weights (characters, and
symbols among them), so that the density test compares the numbers the code compares; the
sum of the weights is the number of characters, each told by its lexeme and its place in it. The
operators have the names of the functions and the order of their tests.

`Intake` is what the capture thread makes of a text: `Normalize`, `Categorize`, `MimeFor`,
`Preview` and the size cap, a row per normalized text, and a user who copies a stored clip
back. `DocumentedAs` says what the head comment of `core/categorize.rs` promises of texts of
each form, without reference to the cascade.

## 3. Runs

Passing runs. The type invariants are proved (section 5); a run checks them only where they
say more than types (`Capture`: no secret is stored; `Intake`: no stored text ends in white
space or is there twice).

| Run | Instance | States | Shows |
|---|---|---|---|
| `Store` | 2 contents, 2 ids, 3 rowids, any request cut at any statement | 474,113 | deduplication (`OneRowPerContent`), rows that outlive their index entries, `ImplementsHistory`, whatever fails; and up to the upsets they name: searches right (`SearchSoundIfKept`), complete (`SearchComplete`), entries that can be reversed, no residue |
| `Capture` | 2 texts and a secret, 1 client, fairness | 107,892 | `NoResurrection`, `AtMostOneAfterPause`, `SkippedOnlyWhenStored`, `EventuallyStored`, `ShutdownEnds` |
| `Life` | 3 processes, 3 inodes, fairness | 289,193 | until a daemon ends otherwise than by dying: one at a time, the only writer, reachable, blocked by nothing dead; `ShutdownCompletes` |
| `Search` | 3 contents, ids and times, limit and cap 2, 15 queries, 1 favourite, evictions with any cutoff and limit 0 to 2 | 132,335 | `ShortMeansAll`, `NothingBetterLeftOut`, `RecentIsNewest`, `FavoritesStay`, `OldestGoFirst` |
| `Ipc` | 2 calls, limit 2, 1 piece per buffer, fairness | 77,541 | `OnlyWholeRequests`, `LimitsAgree`, `CallReturns`, `TaskReturns`, `ImplementsCalls` |
| `Start` | 2 processes, 2 keys, a seeded rule and another, 1 edit, fairness | 380,602 | `OneKey`, `RulesAreTheUsers`, `EditsLostOnlyToRacers`, however starts overlap, fail and die; `FailsOnlyIfUpset`, `StartSucceeds` |
| `Rules` | 3 ids, 3 kinds of rule, 2 handlers, 2 settings of 2 values | 4,903,948 | `ListingHolds`, `NeverStoredWhileExcluded`; `SettingsKept`, with `SetPaused` as its exception |
| `Intake` | 21,043 texts, 2 size caps | 183,156 | `CategoryAsDocumented`, `CategorizedAgain`, `CopyOfClipIsTheClip` |

Runs that end in a violation, each of something a document or a comment says:

| Run | Property | What happens |
|---|---|---|
| `StoreCrash` | `CapturedIsFound` | a capture stops after the row was inserted; every later capture of the text finds the row, is reported a duplicate and is never indexed (SPEC.md:177, README.md:52) |
| `CaptureRecopy` | `CopiedIsStored` | a text captured, deleted and copied again is not captured: `last_hash` still names it (README.md:52) |
| `LifeTwoDaemons` | `SingleDaemon` | the lock file is unlinked before the lock is released: a waiting process locks the old file, a later one a new file (`daemon/lock.rs:17`) |
| `SearchSince` | `SinceIsALowerBound` | a bound with Z leaves out the clips of the very second it names (`ui/main.rs:50`) |

`CaptureRecopy` runs under the fairness of section 4, so the text is not lost by an
idle thread.

The properties named `...IfKept` and `...UntilEnd` in the passing runs name the upset that
breaks them. The modules also define them without it (`SearchSound`, `NoResidue`,
`LockCoversWrites`), and TLC refutes each in the instance of `Store` or `Life`:

- a delete that stops after the index 'delete' (`core/schema.rs:444`) and before the map
  row goes leaves that row to a rowid which the next capture gets, and a search for the
  new clip's words returns the old one too;
- a capture that stops after its document was indexed and before the map row leaves terms
  that its delete cannot reverse, since it finds no map row (`core/schema.rs:440`);
- when binding fails, `run()` drops the lock while the capture thread is alive
  (`daemon/lib.rs:107`), and after a signal connection tasks outlive the lock.

`SettingsKept` has an exception in the same way: without its second disjunct TLC refutes it
in one step of `Rules`. A `SetPaused` whose row was not written is answered Ok
(`daemon/handlers.rs:120`), so `capture.paused` keeps its former value after an acknowledged
request. No other request, and no other key, is excepted. It is no finding, since no document
says that the row follows the flag, and nothing reads the row back.

Other things seen while modelling, of which no run makes a finding: a text copied during a
pause is stored by the first poll after it; a pause does not survive a restart, though a
settings row records it; a touch that fills in the source application would leave the index
entry behind (`core/schema.rs:308`), which cannot happen before captures pass one; a text
with a doubled carriage return before a line feed changes under each normalization, so that
a clip copied back is stored again; an id from a listing may name another rule by the time
it is removed; rules about paths are accepted and match nothing (`daemon/db.rs:211`); a
start killed while it writes the key leaves a file that no later start accepts.

### Bounds

- `MaxRowid` bounds the rowids; `Acquire` accepts no capture while the largest is in
  use. One more than the number of ids leaves room for a document that no map row
  refers to next to a full table, and rowids are reused well below it. Two rowids with
  two ids are enough for every violation.
- Two contents over two ids, each the other's "other clip"; an id is used for either.
  Every content has a term of its own that is in the preview, and one that is only in
  the body and shared: enough to tell apart the right clip, another clip, and a
  truncated text. `Apps` is empty because `capture.rs` passes no source application yet.
- Two texts are one on the clipboard and another in hand; a third behaves as either. One
  client meets the capture thread; the proofs cover any number.
- Three processes: one that holds or ends, one that waits, one that comes later. A
  shutdown needs a new file while the old one is open, hence as many inodes.
- Two calls show that one connection does not disturb another; a limit of 2 has lengths
  below, at and above it. A buffer of one piece makes both ends wait for each other.
- Three rows over a cap and a largest limit of 2 are more matches than are fetched, and a
  fetch that the filters leave short of the limit. Contents differ in category and are
  captured at three times, again at the same time after the clock was set back; limits
  are asked from 0 to 3, below and above what the clamp allows. No row has an
  application, as today.
- One favourite among three rows; an eviction limit of 0, 1 and 2 removes all, some or
  none of the others, and cutoffs lie before, between and after the times.
- Two processes overlap at any step; a third would find what the second finds. Two keys:
  one in use and one fresh. A seeded rule that users may remove, another that they may add.
- Three ids: one below, one above and one in the middle of a rule that is removed; the
  largest is handed out again. Two handlers meet on two keys, one of them the key that
  `SetPaused` writes.
- Every text of three lexemes has each lexeme first, last, and next to any other; URLs of
  four have user, host, port and path. Five pieces of white space around words have a
  doubled carriage return. Two size caps: below and above.
- `late` and `gone` are bounded by the properties themselves; `executed` by the protocol.

`Store` and `Search` use symmetry; what they check is safety. Deadlock is checked in every run.

## 4. Fairness

- `CaptureLoop`: weak fairness of the thread's steps (an OS thread in a loop with a
  bounded sleep), strong fairness of a successful read and of a successful store: the
  clipboard is not unreadable, nor the store failing, at every poll for ever. Both are
  retried by the code at each poll. No fairness for users, handlers, signals or
  crashes.
- `InstanceLife`: weak fairness of a process's own steps after a signal or a failed
  start (join, unlink, close, exit). That the join returns rests on `ShutdownEnds`.
  Nothing is assumed about clients: they may stay connected for ever.
- `IpcChannel`: weak fairness of each client's steps and of each task's steps: both are
  polled by a runtime when their socket is ready, `accept()` does not fail for ever (the
  loop goes on after an error, `daemon/server.rs:66`), and a handler returns, since it
  does not await. Nobody has to interrupt, stop, kill or restart anything.
- `StartUp`: weak fairness of the steps of a start, which run in one thread and wait for
  nobody; failing system calls are among them, so that a start may always fail. No
  fairness for beginnings, ends, deaths and users.

## 5. Proofs

All theorems are of the form `Spec => []P` or `Spec => P`, without further conditions,
for any values of the constants that satisfy the named assumptions (disjoint sentinels,
terms of texts are terms, secrets are texts, seeds are rules, limits, ids and capacities
that are numbers).

| Theorem | Module | Argument |
|---|---|---|
| `TypeCorrect` | each `*Proofs` | inductive by itself, or a part of the invariant below |
| `Deduplicated` | `ClipStoreProofs` | a row is only inserted when no row has the content, in the statement that looks |
| `RowsOutliveEntries` | `ClipStoreProofs` | strengthened with what the operation in flight knows: the row being indexed or removed is there |
| `IndexStaysReversible`, `RowidsNeverShared`, `SearchIsSound` | `ClipStoreProofs` | one inductive invariant, conditional on `EntriesKept`: mapped rowids are counted documents, are distinct, and hold exactly the row's terms; the fresh document's rowid is nobody's; rowids above the largest counted document hold no posting |
| `SearchIsComplete`, `NoResidueLeft` | `ClipStoreProofs` | on top of it: without the upset, every stored row but the one in hand is mapped, and every counted document but the one in hand belongs to a mapped row |
| `StoreImplementsHistory` | `ClipStoreProofs` | the effect is the `Insert`, `Touch`, `RowDelete` or `Clear` statement, the others stutter or answer; the invariant says that a request past its effect is a store |
| `PauseStopsCapture` | `CaptureLoopProofs` | after one late store the thread is outside a poll, and a poll does not begin while paused |
| `DeletedStaysDeleted` | `CaptureLoopProofs` | when nothing is owed to the clipboard, `last_hash` names its text; a thread about to store owes something |
| `NothingGivenUp` | `CaptureLoopProofs` | of the steps that move `last_hash`, one stores the text it moves to, one ignores a secret, and a new daemon has none; no failing step is among them |
| `FileLockExclusive` | `InstanceLifeProofs` | the only step that gains a lock finds nobody on the inode, and a holder keeps its inode |
| `OneDaemonAtATime`, `OneWriter`, `DaemonReachable`, `LeftoversDoNotBlock` | `InstanceLifeProofs` | until `ended`, nobody unlinks, so all open lock files are the one at the path and exclusive on a file is exclusive; whoever removes the socket or binds is alone |
| `CutRequestsHaveNoEffect` | `IpcChannelProofs` | `ClientInv` and `TaskInv` tie each end's step to the pieces it wrote and read; a piece is read after it was written, so a handler that runs has the whole frame |
| `FramesAreRead` | `IpcChannelProofs` | whoever wrote a piece had a frame within the limit, and the limit of the reader is the same |
| `ChannelImplementsCalls` | `IpcChannelProofs` | a handler runs only when its client waits or went away, and once; there is a piece of a response only after it ran; the remaining steps stutter |
| `NobodyIsStuck`, `CallsRunOut` | `IpcChannelProofs` | what `CallReturns` and `TaskReturns` rest on, see below |
| `ShortAnswersAreComplete`, `NothingBetterIsLeftOut` | `SearchQueryProofs` | the invariant keeps, of an answer, the fetch it was made from; both cuts are closed towards the front of one order, so is the filtered one; a cut below its limit took everything |
| `RecentIsLastCaptured` | `SearchQueryProofs` | until the clock is set back, every capture is later than all rows, so the order of captures is the order of last_seen_at |
| `FavoritesSurvive`, `EvictionTakesOldest` | `SearchQueryProofs` | step by step: what either statement removes is no favourite; the first takes a set closed towards the old, the second the complement of one closed towards the new |
| `RulesStayTheUsers` | `StartUpProofs` | the tables are there exactly when the version is 1, since one transaction makes both and fails when it finds them |
| `KeyIsOne` | `StartUpProofs` | `create_new` lets one process write, while the file is empty; until it has, nobody runs and nothing is sealed |
| `StartsFailOnlyIfUpset` | `StartUpProofs` | three invariants: starts that meet are recorded as an overlap; without one, what a start looked at is still so when it acts; the configuration is cut, and the key file empty without its writer, only after the upset that says so |
| `EditsSurviveStarts` | `StartUpProofs` | while a user's text is in the file, whoever is about to save was so when it was written |
| `ListingsHold` | `DenylistProofs` | a listed id has its rule, or was above every rule since, or is free below another rule, where no new id is given out |
| `ExcludedNeverStored` | `DenylistProofs` | who has a clip in hand holds the mutex, and rules change only when it is free |
| `SettingsStayAsPromised` | `DenylistProofs` | but for a key that is `unsaved`, which only `SetPaused` makes so: the rows of a request that are written have its values; only one request writes at a time |
| `TypeCorrect` (`TypeOK`), `CopiesMakeNoRows` | `IntakeProofs` | normalizing a normalized text that has no CRLF changes nothing, since CRLF to LF keeps the order of what it keeps and the end is trimmed; so a clip copied back finds its own row. Strengthened with where the text on the clipboard is from |
| `StoredTypeFits` | `IntakeProofs` | a row's category and type are what `Categorize` and `MimeFor` made of its text, and the type `text/uri-list` is given for "file" only |
| `CategoriesAreDocumented` | `IntakeProofs` | test by test: a URL built from its parts is no path, and its authority is found between its own marks; what passes a test for code has a mark of code, and a dense text has a lexeme with symbols |

Theorems about `SearchQuery` are theorems of `RSpec`: they hold with favourites and
evictions among the steps.

The conditions inside the properties (`EntriesKept`, `~ended`, `InDaemonForm`, `sunk`,
`unsaved`, `upsets`) are needed: section 3 names what happens without them. Beyond the cap of 1000 candidates
a filtered search does miss matches; `ShortMeansAll` says so in its condition, and
`NothingBetterLeftOut` holds there too.

Only model-checked: the liveness properties (`EventuallyStored`, `ShutdownEnds`,
`ShutdownCompletes`, `CallReturns`, `TaskReturns`, `StartSucceeds`; the prover has no ENABLED
or fairness reasoning). Of the two about connections the part that is about states and steps
is proved, for any number of calls and any buffers: while a call is open its client or its
task has a step whose guard holds (`SomeEndCan`: neither waits for the other while that one
waits for it, and a task without a client waits for nobody); a guard that holds does so until
there is less to do for the call; and each step of an end leaves less of what is never more
than 18 (`CallsRunDown`, `Work`). With weak fairness of both ends a call then returns; that
the guards, written out in `ClientCan` and `TaskCan`, are the ENABLED of the steps is not
proved. Every safety property of a passing run is a theorem.

## 6. Not modelled, and why

- SQLite and FTS5 themselves: statements are atomic and durable. What FTS5 does when a
  'delete' is repeated after a crash (it may report corruption) is its own affair; the
  model takes it as a no-op or, by `Fail`, as an error.
- Ciphers and hashes: a content is its hash, a key is itself, and a body that does not
  decrypt is a `Fail`.
- The characters of texts: `Categorizer` has one lexeme for tests that are alike, and leaves
  out a host that ends in points, a `?` in a URL, and the 200 characters within which an
  HTML fragment is tiny. The patterns of `looks_secret` are the set of secrets in
  `CaptureLoop`.
- A poisoned mutex: no code between lock and unlock panics on a value it can meet.
- A clipboard that cannot be opened at start: the thread returns and only IPC remains.
- Several requests on one connection, which the server allows and no client sends; the
  synchronous frame helpers of `core/ipc.rs`, which only its tests call.
- TOML and JSON: a configuration is what a user wrote, the defaults or garbled, and a
  setting a value. Nothing reads the settings table back.
- Sources of clips: `capture.rs` passes none yet. `Denylist` has the look-up with any source,
  as its comment announces; the store of `ClipStore` has no applications.
- Platforms without Unix permissions, on which the key file is written by `fs::write`.
- The order of starts within one process, such as directories and logging; paths, printing,
  the front-end mock-up and the extension stub.

## 7. What is left

1. Eviction composed with the index: `evict` leaves the documents of what it deletes. It
   needs the statements of `Retention` in `ClipStore`, once a request or a timer calls it.
2. Several requests on one connection, once a client sends them.
