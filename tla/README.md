# eventsdb, in TLA+

eventsdb is an append-only event log over one SQLite file: streams of numbered
events, a global order across them, subscriptions that tail it, projections
that fold it into tables of the same file, and retention that may remove
history once a sink is known to hold it.  This directory holds TLA+ models of
that code, the TLC configurations that check them and proofs that the TLA+
proof system checks.  Source paths below are relative to
`src/crates/eventsdb-sqlite/src/` unless they name another crate.

## The system

| part | state it keeps | operations | hard because |
|---|---|---|---|
| write path: `store.rs`, `shared.rs`, `txn.rs` | tables `events`, `stream_seq`; the writer's queue; the watch channel | append, append_many, append_at, append_if, append_expecting, detach_append, with_transaction (append, import), shutdown | several processes and one write lock; retries that queue again; futures dropped between commit and publish; closures that go on after an error |
| subscriptions: `log.rs` (`paged`) | a cursor, the receiver's mark | subscribe, replay, read_all | two reads with commits between them; wake-ups that may be missed, or never sent by another process |
| projection runner: `project.rs` | the read model, a row of `checkpoints`, the names with a live runner | run_once, catch_up, follow, rebuild | the batch outlives its caller; the registry is per process and the checkpoint is not; retention between two batches |
| retention: `retention.rs` | the ledger `retention`, receipts in `exports` | retain under a guard, export_recorded, confirm_export, archive_then_retain, completeness_from | decided in one call and removed in another; pages that land late, twice or out of order; sinks that fail; a power loss that takes back what was answered |
| transfer: `transfer.rs`, core `transfer.rs` | what a sink holds | export, import, JsonLinesSink, LogSink | the sink and the receipt are two systems; a page that lands after its caller gave up |
| opening: `schema.rs`, `log.rs` | `user_version`, WAL mode, the schema | pragmas, readers, the ladder, the seed of the channel | concurrent first opens by older and newer builds, a crash between two steps, tables nobody here created |
| backup: `backup.rs` | the destination | claim, copy, clean-up | backups racing for a path, a source that is written and trimmed meanwhile, a copy that fails, a dropped caller |
| raw SQL: `hatch.rs` | the authorizer and the trust flag of a connection | query, query_timeout, query_with, with_transaction | caller code that fails, panics or swallows on a connection that outlives the call; statements of every class; values SQLite would read as NULL |
| catalog: `catalog.rs` | none | list_streams, kinds, checkpoints, retention ledger, export receipts | each page a read of its own while the tables are written; prefixes of names up to the last character |
| one stream: `store.rs`, `row.rs`, core `mem.rs` | rows, or a vector in memory | read, read_kinds, read_last, head, len, append_if | two implementations of one trait; u64 for a caller, i64 in a column |
| upcasting: core `upcast.rs` | the chain of steps | every read of a typed stream | one event that fails fails the read |
| errors, tracing, facade | none | pure functions, re-exports | little |

How they interact.  Every write of a log is a job on the queue of one thread
(the *isle*) that owns the writing connection; reads go to reader connections
and see what has committed.  A job takes the write lock of the file with
`BEGIN IMMEDIATE`, so the processes on one file exclude each other there and
nowhere else.  After a job has committed, its *caller* publishes the highest
position on the log's watch channel.  Subscriptions and follows wait on that
channel or for the poll interval, which covers everything nobody publishes:
other processes, detached appends, dropped callers.  Projections are jobs of
the same queue.  Retention is a job as well, and asks the checkpoints, the
receipts or nobody, according to its guard.

What makes each part correct: the write path numbers the history without a gap
or a repeat, makes rows visible in the order of their positions, and every
call takes effect once and atomically; a subscription hands out everything it
asks for, once, in order, and does not sleep on news; a read model agrees with
its checkpoint at every moment and is never folded over a hole; nothing leaves
the log under `Guard::Exported` that no sink took; the version of a file says
what is in it, whoever opened, migrated, copied or crashed on it.  `PROJECT.json` lists the
hazards one by one with the properties that would catch them.

## The modules

    LogTables ---------------- the five tables and what each statement does
      |-- LogTables_proofs
      |-- WritePath ---------- calls, queues, lock, transactions, publish
      |     |-- WritePathLinear  WritePath seen through LinearLog
      |     |-- WritePath_proofs
      |-- ReceiptWalk -------- the walk over the export receipts
      |-- LogWriters --------- committed appends and removals, one step each
            |-- LogWakes ----- ... and the wake-ups that follow them, or do not
            |     |-- Subscription    Subscription_proofs
            |     |-- Projection      Projection_proofs
            |-- Archive (with ReceiptWalk)    Archive_proofs
            |-- StreamStore -- a stream on the file beside one in memory
                  |-- Catalog  the five listings, paged    Catalog_proofs
    LinearLog ---------------- what one file promises (abstract)
    Hatch -------------------- caller code on the log's connections
      |-- Hatch_proofs
    Opening ------------------ opens of files by older and newer builds
      |-- Backup ------------- ... and the backups of open logs
            |-- Backup_proofs

**LogTables** is the data: one record for the tables, and one operator for
each statement or query the crate writes (`NextSeq`, `RunRows`, `SelectStored`,
`RetainAnswer`, `Remove`, `RecordReceipt`, ...).  A payload is left out; an
event is its kind and its time coordinate, a filter the kinds and the streams
it selects.  `ExportedThrough` states what the walk of `exported_through` is
for, the end of the chain of vouching receipts; `ReceiptWalk` is the loop as
written, and the run `archive` holds the two together.

**WritePath** has a task per client (`idle`, `waiting`, `answered`, `backoff`),
a queue and at most one open transaction per handle, the write lock, the
committed tables and the channel.  `Call` queues a request; `Begin` is
`BEGIN IMMEDIATE` and `Contend` its refusal; `ExecAppend`, `ExecExpect`,
`ExecDecide`, `ExecRetain` are the bodies of the jobs; `TxnAppend`,
`ImportItem`, `ImportFlush`, `BodyOk`, `BodyErr` walk a transaction closure
call by call; `Commit` and `Rollback` end it; `BackOff` and `Resubmit` are the
loop of `write_retrying`; `Return` resumes the caller, which publishes.
`Cancel` drops a caller's future at any point, `Detach` never had one, `Crash`
kills a process, `Shutdown` and `Drained` are `close`.

**LinearLog** is the promise: calls take effect at most once, at one instant
between being made and returning, with a sequential meaning that knows only
the history.  **WritePathLinear** instantiates it over WritePath; the instant
is the answer of the transaction, and a call that will be retried has not
answered.

**LogWriters** and **LogWakes** are what the rest of the system sees of the
write path: an append is one step that lands above everything before it, and a
publish is another step, later, in any order, or never.  That an append may be
taken as one step is proved of WritePath: its committed log changes only by runs
that LogWriters' `Write` writes, one after another, or by one `Trim`
(`WrittenForReaders`).  That a channel never goes back, and has what a call that
returned landed, is `ReturnedIsPublished`.

**Subscription** is `paged` statement by statement: `ReadHead`, `ReadPage`,
`Hand` (one event to the consumer and the cursor behind it), `ReadOn`, `End`,
`Park`, `Woken`, `Interval`, `Fail`; the consumer opens, drops and reopens.
A published value only grows, so a receiver's mark is the value it saw.

**Projection** has the runner's side (`Make`, `Begin`, `GoOn`, `Park`,
`Finish`, `NextRound`, `Abandon`, `Drop`) and the writer's (`RunBatch`,
`RunReset`, `RollsBack`, `Crash`) with the queue between them.  A job whose
caller is gone belongs to nobody and still runs.  The model is the sequence of
positions `apply` was given.

**Archive** is `archive_then_retain` and a caller's own export loop, one action
per call they make on the log or the sink: `Reach`, `Through`, `ReadPage`,
`Record`, `WriteSink`, `Confirm`, `Apply`.  `Stops`, `SinkFails` and `Dies` end
either after any of them.  A sink of lines may take half a page; a sink in
`LogSinks` imports each page into another log as one transaction, at the next
place there, and keeps that log's reports; a page already on its way when its
caller is dropped lands later, or never (`late`, `Lands`).  `disk` is what would
survive a power loss: `Sync` brings it up to date, as a checkpoint of the WAL
does, and `PowerLoss` returns to it.  A sink has a disk of its own (`synced`).
`JsonLinesSink` only flushes, and its text leaves the rest to the writer it
wraps; a log that imports commits with `synchronous = NORMAL`.  So only the
sinks in `SyncSinks`, lines into a writer that syncs, have a page on their disk
when `write` returns; of the others `SinkSyncs` writes out what there is at some
time or never, and `PowerLoss` takes the rest, the receipts and the removals that
rested on it left standing.  `lost` keeps count of what a loss took from them.
What a sink holds of events the log has forgotten counts as none of its events.

**Hatch** is one connection per isle thread with its authorizer, its trust flag
and its transaction, and the jobs that hand it to caller code: `Transact`
(`with_transaction`), `Fold` (a projection's batch) and `Ask` (`query`), beside
`StoreWrite`, an append of the crate's own that runs on whatever the jobs before
have left.  `Run` is any statement the authorizer lets through; `Raise` and
`Inserts` are the transaction's appends, which may fail or panic, with the rows
before the one that failed in the transaction or none, and be caught;
`Callback` and `CallbackReturns` lower and restore trust around a projection's
code; `Returns`, `Commit`, `CommitFails`, `GivesUp` end the body, and `Remove`
or `RemoveFails` the call.  `Authorize`, `Binds` and `ToJson` are the three
decisions, over the classes of statement, binding and cell that they tell
apart.  A write is who made it and what it reached.  The authorizer looks at the
old name of an `ALTER TABLE` (`hatch.rs:170`) and has no arm for a virtual table
(214), so a caller's TEMP object may come to bear a name of the log's: `Writes`
calls that an alias, and a write of the crate's may from then on go astray to it
(`Reaches`).

**StreamStore** gives the same calls to `EventStore` on the file and to
`MemEventStore`.  Integers are a small u64, stored as an i64 that wraps; reads go
through the chain of upcasters.  **Catalog** adds a caller that pages through a
listing with an exclusive cursor, names that are sequences of characters, and
the bound of a prefix, with the gap of the surrogates and the last character.

**Opening** starts where the others assume a migrated file.  `Open`,
`ApplyPragmas`, `OpenReaders`, `BeginStep`, `Step`, `Seed` are an open, one
`Step` a transaction of the ladder with everything it may find: a newer file, a
step already applied, a foreign table at version 0, a table in its way.  The
two waits (`ApplyPragmas`, `BeginStep`) end by the lock or by `busy_timeout`.
A file is its version, its tables, its events with their counter, and the
steps that ran on it.  Open logs append (`AppendEvent`) and remove events
(`Retain`), the newest included, so that the `MAX(position)` the channel is
seeded with may fall behind the counter; their callers create and drop tables of
their own (`CreateTable`, `DropTable`).  Nobody drops the tables of a newer
build's ladder through an older build's log, whose authorizer reserves only the
names it knows.  `OutsideLocks` is any other connection.  **Backup** adds
`backup_to`: `Claim`, `StartCopy`, `FinishCopy`, `CopyFails`, with `Abandon`
and `Dies`.  It assumes that nobody opens a path while a backup to it is going
on; the code has no lock that says so between the claim and the copy.

## The runs

| run | states | shows |
|---|---|---|
| `write_path` | 211 000 | every shape of call on two handles, two calls in flight: types, wakes after commits, publish on return, linearizability; every call ends and a shutdown completes |
| `write_path_deep` | 939 000 | a call more and fewer shapes: numbers stay dense and rows appear at the end, after a removal too |
| `subscription` | 484 000 | nothing twice, out of order or skipped; no lost wake-up; a replay is whole; everything arrives |
| `projection` | 2 517 000 | one name run by two processes: the model agrees with its checkpoint, a parked follow is current, only a forced removal strands a projection |
| `projection_live` | 144 000 | a strict and a tolerant projection on a log nobody wakes: both fold whatever stays |
| `archive` | 391 000 | two tasks, or one and a power loss: what is gone, and what receipts vouch for, is in a sink unless a power loss took it from one that does not sync; the walk is right, a sink's report is true, archives end |
| `hatch` | 326 000 | callers write only tables of their own and the crate the log until an alias of it is made, a job leaves nothing on its connection, a call is whole or nothing, queries only read |
| `catalog` | 269 000 | listings are ordered and whole while everything is written, with heads, removals and confirmations that were true; file and memory answer alike from any start a column holds |
| `open` | 620 000 | two builds open, append to, retain and back up one file: version and schema agree, opens are refused for cause and end, a channel starts where no next commit is missed, a backup is one state of the source, and only a log's own statement takes anything out of a file |
| `swallowed_import` | violation | `CounterIsTruth` fails when a closure goes on after a refused import |
| `raw_commit` | violation | `AllOrNothing` fails when a closure runs COMMIT |
| `wrapped_time` | violation | `OlderIsOlder` fails for a time above `i64::MAX` |

Bounds, and why they are enough.  `MaxEvents` (and in WritePath the number of
calls) bounds the history: three events make a full page and what follows it,
an event before and one after a removal, a chain of two pages with a gap.
`Batch` and `PageSize` stand for 256 and the caller's page: with one or two,
full, short and empty pages all occur.  `MaxBusyRetries` stands for 4 (`shared.rs`):
what matters is that there is a first, a further and a last attempt.  `MaxQueue`
bounds the jobs waiting at a writer when a call is made; two let the batch of
a dropped runner wait before that of its successor.  `Bounds` of Archive says
which tasks there are, how many archives and hand exports are made and how often
power is lost: two tasks with two calls and no loss (`Together`); one call into
another log and a loss (`Alone`), which is enough for a page to be confirmed,
removed and lost; or two calls into a writer that syncs and a loss (`Syncing`),
so that the second goes on from what the loss left.  `MaxJobs` and `MaxSteps` of
Hatch are a job that spoils a connection and one that would suffer from it, and
four statements between them: one before and one after an append, and an alias
made, written behind and taken back.
`MaxStored` is 7 for `i64::MAX`, so that u64 is 0..15: below, at and above the
bound.  `LastScalar` is 3 and the surrogates are what lies between 1 and 3.
`MaxWrites` bounds what happens around one listing.  Two streams and two kinds
make a filter narrow and keep global and per-stream order apart.  Two handles are
two processes, since all they share is the file.  The ladder of `open` has two
steps for five: one that is taken at version 0, one that is not, and a build that
stops between them.  One position is given out there: the file then has an event, or a counter
ahead of an empty table, which is what a seed or a copy could get wrong.

Fairness.  In WritePath the isle threads (`IsleStep`, `Drained`) and callers
that are polled (`CallerStep`) are weakly fair: a thread blocked in
`busy_timeout` is refused when the timeout ends, so it always has a step.  In
Subscription the stream is polled and its timer fires; in Projection the same
holds of runners, and writers serve their queues; in Archive the caller polls
its call and sink and log answer.  Nobody has to make a call, to write, to
publish, to fail or to crash: liveness never rests on a wake-up.  Hatch and Catalog state no
liveness: their jobs and pages end by themselves.  In Backup an
open that is polled goes on or times out; nobody has to release a lock.
`CHECK_DEADLOCK FALSE` appears where a system that has used its bounds and
finished its calls may rest.

## What the code and its text disagree on

* `swallowed_import`: `TxnContext::import_many` writes the stream counters
  after its loop.  If `restamp` refuses an event in the middle and the closure
  returns `Ok` all the same, the rows before it commit without a counter.  The
  catalog, which reads the counters, does not list such a stream, although `head`
  answers for it from the rows, and its next append fails on `UNIQUE`.
* `raw_commit`: the authorizer has no arm for transaction control, so a
  closure of `with_transaction` may run `COMMIT` as a statement.  What it wrote
  so far is then committed, appended events included, and the call answers an
  error; the text says that everything commits or rolls back together.
* `wrapped_time`: `append_at` and `import` take any u64 as a time and store it
  as an i64.  A time above `i64::MAX` is stored as a negative one, which readers
  are told correctly and `Plan::OlderThan` takes as the oldest of all.

Observations that no run is about.

* Comments say that a cursor *at or below* the watermark is refused; the code
  refuses below it, and that is right: everything at the watermark was folded.
* Foreign tables are looked for at version 0 only, since "from version 1 on,
  those tables are the ladder's own work".  A name that joined the ladder later
  (`exports`, with step 5) may have been a caller's before: the step fails with
  SQLite's "table already exists" and the file stays at its version.
  `RefusedForCause` holds all the same: no *race* does this.
* The text says that `Plan::Before` cannot grow; above the head it can, and an
  archive of it ends as `NotExported` after its pages went out.
* `read` binds `from_seq as i64` (`store.rs:182`): a start above `i64::MAX` is
  negative there and returns the whole stream, where the store in memory returns
  nothing.  `MemAgrees` is a statement about the starts that a column holds: the
  `Reads` of the `catalog` run, and those of `StoresAgree`, stay below that bound.
* `query("BEGIN")` passes the authorizer and leaves a transaction open on a
  pooled reader, whose later reads then see one moment.  The `Queries` of the
  `hatch` run hold no transaction control, and what is proved of connections that
  come back (`ConnectionsComeBack`) assumes none.
* A caller's TEMP table may take a name of the log's by `ALTER TABLE mine RENAME TO
  events`, and `CREATE VIRTUAL TABLE temp.events` is looked at by no arm of the
  authorizer (`hatch.rs:170`, 214); the text (57-60, 145-153) says that a TEMP
  object of such a name is refused.  Later statements of the crate's on that
  connection, in later calls too, find it first.  `OnlyTheCrateWritesTheLog` says
  what is left: until there is such an object, every write of the crate's is in
  the log, and the caller's own writes reach no more than it in any case.
* A closure may take an append back with `ROLLBACK TO` a savepoint of its own.
  The position stays in the list to publish, so that subscribers are woken for
  one that is not there.  WritePath's closures append and import; they have no
  savepoints.
* `guarded` answers the error of removing the authorizer in place of the
  body's own answer: a transaction that committed is reported as failed, and its
  positions are not published (`RemoveFails`).
* A receipt confirmed for a page that was flushed, or imported into another log,
  outlives the page if the machine loses power before the page reaches the disk:
  the events may be removed by then.  The text of `JsonLinesSink` says so of
  lines (core `transfer.rs:206-207`); nothing says it of `LogSink`.  `GoneIsArchived`
  and `ChainIsHeld` count such events as lost.
* After a power loss a receipt's id may be given again; a
  caller that had written the old id down would confirm the new page with it.
  No such caller is in the model: calls in flight die with the machine.
* `LogSink::reproduced_coordinates` does not know of a page that landed after
  its call was dropped.  `ReportIsTruth` therefore speaks of sinks whose reports
  account for all that the other log holds.
* A process that dies between the claim of a backup's destination and the end of
  its copy leaves a file without pages there, which opens as a fresh, empty log.
* Two processes may run one projection, since the registry of names is per open
  log: the read model and the checkpoint still agree (`ExactlyOnce`), because
  each batch reads the checkpoint in its own transaction.
* A rebuild by one of them rewinds the checkpoint without waking a follow of the
  other, which finds out at its poll interval: `FollowIsCurrent` excludes that
  case and `EventuallyFolded` does not need it.

## The proofs

`WritePath_proofs` proves, for any sets of handles, clients, streams, kinds and
requests and any number of calls, under the one assumption `SwallowErrors =
FALSE` (no closure returns `Ok` after `import_many` failed: with it, the first
disagreement above falsifies density):

* `TypeCorrect`, `HistoryIsDense`, `WakesAreCommitted`: the invariants
  `TypeOK`, `HistoryDense`, `WakeAfterCommit`;
* `VisibleInOrder`, `ReturnsPublish`: the action properties `AppendsAtTheEnd`,
  `ReturnedIsPublished`;
* `Linearizes`: the refinement, `Linearizable`, that is `Linear!Spec` under the
  mapping of `WritePathLinear`;
* `WrittenForReaders`: the committed log changes only by whole runs, written one
  after another at its end, or by one removal its guard let through on the tables
  it is made of;
* `CountersAreTrue`: `CounterIsTruth`, which the run `swallowed_import` refutes
  for closures that go on after a refused import, holds without them.

All rest on `Invariance`, `Spec => []IInv`.  `HistoryDense` alone is not
inductive: what commits was computed earlier, in an open transaction.  `IInv`
adds that the holder of the write lock, and no other, has a transaction open
(`LockHeld`), that the tables of an open transaction extend the committed ones
soundly - dense but for the counters an import has cached - and that every
position promised in an answer is committed or belongs to that transaction
(`WorkSound`, `AnswersWithin`).  `NextInv` has a lemma per kind of step, and
`LogTables_proofs` the facts about the operators: what a run of rows does to a
dense history, that the counters only grow, that a removal keeps both.

`Linearizes` carries `LInv` as well (`InitLinear`, `NextLinear`): a caller that
is idle remembers nothing (`Rests`); what an open transaction has built is its
sequential meaning so far (`AllMeant`); and callers and jobs know each other
(`Tracked`).  `Meant` is the heart of it.  An import inserts row by row and
writes its counters last, a closure's calls answer one by one, and LinearLog
appends one list of items at once: `Placed` says where in that list the closure
stands, `Built` that its tables are the committed ones with the items before
that point (`Done`) appended, the counters an import holds back included, and
`Lands` and `Removes` what a transaction that is ready will commit and answer.
LinearLog numbers by counting the *history* where the code reads stored
counters over what retention left; density (`HistoryCounts`) makes them one.
`Tracked` is a matching.  The running job and the
queue of each handle form its line (`Lines`); no job stands in two places, a job
that is somebody's is the call its client waits for, and no other job has the
number of a call in flight.  So the end of a job is the effect and the answer of
one call, or an orphan's, and a caller that is dropped, a process that dies and
a retry that queues the call again change nothing else (`Follows`).  Then each
step of WritePath is a step of LinearLog or one that it does not see, with one
lemma per kind of step (`ExecFollows`, `BodyFollows`, `CommitFollows`,
`ContendFollows`, `CancelFollows`, `CrashFollows`, ...).  Two assumptions name
what `None` is not: a transaction (`NoTxnAssumption`) and a call
(`NoCallAssumption`).

`WrittenForReaders` is for the other modules, which write to the log by
LogWriters' `Write` and `Trim`.  What an open transaction will commit is the
committed tables with its items appended one by one (`ItemsAreWrites`): every
prefix of them is a run that could have been written next.  `AllAside` says so of
every transaction, or that it is ready to remove what its guard allows.

`Backup_proofs` proves every property of the `open` run but `OpensEnd`, for any
ladder whose steps create tables of different names, any builds, processes and
paths, and any files to begin with that some build left behind or that are not
this crate's:

* `TypeCorrect`, `FilesStayWhole`, `OpenLogsAreReady`: the invariants;
* `RefusalsHaveCause`, `BackupsAreWhole`, `NothingIsLost`, `NewerStaysRefused`: the
  action properties `RefusedForCause`, `BackupIsWhole`, `NothingLost`,
  `NewerIsRefused`.

They rest on `Invariant`, `Spec => []IInv`.  A finished copy replaces a file, so
that `FilesAreWhole` and `NothingLost` need to know what the copy was made of
and that the destination was empty and nobody else's: `BackupOK`.  `OpenerOK`
says where each open is on the ladder, which is what makes a step that finds
itself applied safe to skip, and that no event a log had at the call lies above
its seed: events of that time only go, and the seed is the highest of those left
(`HeadBounds`).  Files do not only grow, since open logs remove events and drop
tables.  What `FilesStep` shows is that each gives way to a `Later` one
(`FilesMove`): its ladder goes on, no position is given out twice, and what is
gone does not come back; and to one that `Holds` all it held but where a log
removes (`Follows`, `Shrinks`).  `Later` is transitive, so what a backup saw lies
between its source at the call and its source now (`Between`).  The lemmas on
opens, locks and backups need no more of a file than that.  The model's
restrictions stay assumptions here: nobody opens a path while a backup to it is
going on, no file is removed by hand, and callers drop only tables that callers
created.

`Archive_proofs` proves all its invariants, `TypeCorrect`, `ChainStaysHeld`,
`NothingGoneUnarchived`, `WalkFindsEnd` and `ReportsAreTrue`, for any
archivers, plans, page sizes and power losses, and any sinks, whether they sync
or not.
A removal under `Guard::Exported` is safe because the rows below the chain's end
were delivered; the end is safe because each receipt that vouches covers a range
whose rows were; and that is safe because a receipt is confirmed only after its
page was.  What stays true of a delivered position depends on the sink: it is on
the disk of one that syncs, and held or lost by one that does not (`Trusted`).
That set only grows, but for what a loss makes the log forget (`TrustGrows`,
`KnownHolds`), and is within what the properties speak of (`TrustedIsKept`).  So
`IInv` (`Sound`, `DiskOK`, `CallsOK`, `SinksOK`) says it of the tables *and* of
the tables a power loss would return to, of every receipt and not only of the
chain, and of every page a call has in hand.
`ThroughIsLeast` is the fact about the chain: its end is the least one that no
vouching receipt extends.  `WalkIsEnd` is the loop of `exported_through`: over
any finite set of receipts, taken by their start and then their id, it ends
where the chain does.  Its induction is on the number of receipts, by a least
counterexample: the receipt walked last is
taken away, and `LastExtends` says what it adds.  `ReportIsTruth` compares what
a sink reported with what the other log holds, and neither says how they are
related; `PlacesOK` does.  Places are taken one after another, one event each
(`Filled`), and as many events as were counted in reports are where they were
if the reports say so (`Accounted`); when that is as many as there are places,
it is all of them.

`Subscription_proofs` proves all its invariants for any readers, filters and
page sizes: `TypeCorrect`, `HandedInOrder`, `SkipsNothing`, `WakesAreNotLost`,
`ReplaysAreWhole`.  What a reader holds when it reads its page was computed from
an earlier head; `ReaderOK` keeps the relation between the head, the mark, the
cursor and the log (`MarksOK`, `SeenOK`, `PageOK`, `HandedOK`) while commits and
removals cross.

`Projection_proofs` proves `TypeCorrect`, `FoldedExactlyOnce`,
`FollowsAreCurrent` and the action property `OnlyForceStrandsThem` for any
runners, logs, batch sizes and projections.  A batch folds what is *left* in the log, and `ExactlyOnce` speaks
of the whole history: the link is `LedgerOK`, that whatever is gone lies at or
below an entry of the ledger, so that a strict projection that is let through
has all of it behind.  `FedOK` relates model, cursor and history; `QueueOK` says
that a job that is somebody's is its owner's only one, whatever was dropped.
`Listed` shows that the order in which a page is applied is the order of its
positions.  `FInv` is what a follow needs besides: a name has one live runner on
a log (`OneName`), so that no rewind of the name stands behind a follow's job in
its queue, and a batch that answers "ok" left nothing at or below what was
marked before it was asked for (`NothingLeft`); what commits later is numbered
above the mark (`FollowKeepsUp`).  Both modules rest on the facts of `LogTables_proofs`
about commits, removals, wake-ups, pages and the watermark.

`Catalog_proofs` proves both properties of the `catalog` run, for any streams,
kinds, consumers, upcasters and calls, under `ColumnsHold`: there are no times
and no places that an i64 would wrap.  A third theorem is about the run
`wrapped_time`.

* `StoresAgree` (`MemAgrees`).  A stream in memory mirrors the file's history of
  it (`Mirrors`): the place of an event is its number, as long as retention has
  not touched the stream.  A read then selects the same places of both
  (`ReadsPlaces`).  It assumes besides that no history outgrows a column, where
  AUTOINCREMENT stops, and that no read starts above `i64::MAX`, where the two
  stores do differ (above).
* `ListingsAreTrue` (`ListingIsTrue`).  The order of names is total and strict
  (`BelowIsStrict`, `BelowGoesOn`, `BelowIsTotal`), and the half-open range up to
  the bound of a prefix is exactly the names that begin with it, over the gap of
  the surrogates and past the last character (`RangeIsPrefix`).  A page is the
  least rows ahead of the cursor (`PageIsFrom`).  Between two pages the log has
  `Grown`: no row of a listing goes, but for kinds, no value goes back, and what
  is new among events lies above what was there.  So what was listed stays true,
  what stayed was there to be listed, and `ListsTruly` is invariant.  A whole
  listing has every receipt that there was when it began, each no later than it
  is now; and more vouching receipts only lengthen the chain (`MoreVouches`), as
  more entries only raise the watermark (`MoreIsNoLower`).
* `AgesAreTrue` (`OlderIsOlder`).  A removal by age takes nothing that is not
  older, as long as no event was given a time above `i64::MAX` (`TimesFit`): every
  write keeps the column non-negative (`InTime`), and there the comparison in SQL
  is the one of the times given.

`ORDER BY` is a function of how many rows come before (`OrderBy`), not a
recursive sort, so that both are within reach of the provers.

`Hatch_proofs` proves every property of the `hatch` run, for any statements,
queries and number of jobs.

* `TypeCorrect` and `TheLogIsTheCrates` (`OnlyTheCrateWritesTheLog`) hold of any
  caller code, its own `COMMIT`, `ROLLBACK` and `ROLLBACK TO` included.  They rest
  on `TrustIsKept`: where a job stands fixes whether trust is up on its connection
  and what the guards of trust will put back (`Allowed`), so that a statement of
  the caller's meets the authorizer with trust down and reaches its own tables, or
  makes an alias.  A write of the crate's that went astray did so behind an alias
  made before it, which is committed if the write is, and which no `ROLLBACK TO`
  takes back without it (`Missed`, `Proper`): so there is an alias as long as there
  is such a write.
* `ConnectionsComeBack`, `WholeOrNotAtAll` and `QueriesAreReads` (`QueriesOnlyRead`)
  assume `Tame`: neither closures nor queries use `BEGIN`, `SAVEPOINT`, `COMMIT` or
  `ROLLBACK`.  Without it the disagreement `raw_commit` falsifies the second, and
  `query("BEGIN")` the others.  `IInv` (`ConnsOK`, `DataFine`) says besides that
  where a job stands fixes whether its connection is in a transaction.
  `QueriesAreReads` also needs that a statement names finitely many placeholders.

Only model-checked is what is temporal under fairness: `CallsEnd`,
`ShutdownCompletes`, `EventuallyHanded`, `EventuallyFolded`, `ArchiveEnds`,
`OpensEnd`.

## Not modelled

`reclaim` (free pages of the file) and the pages of a backup (SQLite's own copy);
the encoding of rows, envelopes and lines, meta filters and the validation of
an envelope, which are pure functions on data the models abstract; error classes
beyond the answers the models give, their wording, spans and logging; the
facade, examples and benches.  None of them changes the state above.  Two of the
listed hazards have no property, each with its reason in `PROJECT.json`: a claim
whose process died (the code keeps no mark of it) and a migration under an open
log of an older build (the code promises no more than its check at open).

## Plan

`WritePath` and `Hatch` in one: the queue and the lock around caller code.
