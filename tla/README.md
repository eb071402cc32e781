# wiki-graph: a verification project

TLA+ modules of the parts of wiki-graph where processes, failures and stored
state meet, TLC configurations that model-check them on small instances, and
theorems about them that TLAPS checks for every instance.

wiki-graph keeps knowledge bases in `.wikg` archives (a ZIP file or a
directory) that several processes read and write at the same time, collects them
in libraries, and generates content for them from a durable queue of jobs that
call language models. Its hard part is not the text processing but that an
archive must survive concurrent sessions, rollbacks, crashes and late workers, and
that requests to a provider end whatever the provider does. That part is what the
modules here are about.

Contents: [system](#1-the-system), [modules](#2-modules-and-code),
[runs](#3-runs), [fairness](#4-fairness), [proofs](#5-proofs),
[findings](#6-findings), [limits](#7-what-is-not-modelled),
[plan](#8-plan), [how to run](#9-how-to-run).

## 1. The system

Paths are below `src/packages/core/src` unless they say otherwise.

### Archive coordinator — `storage/wikg/wikg-coordinator`

*State.* One SQLite database per host (`coordinator`): `archive_owners` (who has
the archive open), `archive_settlements` (reading, drained, completed),
`archive_commit_locks` and `archive_replacement_locks` (the two fences),
`entry_locks`, `entry_overlays` (the newest published version of an entry that
is not in the archive yet). On disk: one workspace snapshot per overlay, and the
archive. In memory: a session's changes, each with the overlay it replaced, and
its native reader, pinned to the file it has opened.

*Operations.* Open (register, settle what earlier sessions left, open the
reader), read and write entries, abort (roll changes back), close (drop the
reader, settle, final reap), replace and export (exclusive).

*Interaction.* Transactions on the shared database; polling every 100 ms;
whoever runs a transaction removes the rows of dead processes first.

*Hard.* Admission against settlement; settlement against foreign readers, who
may never leave; two sessions closing at once; crash between the rename of the
archive and the removal of what it settled; rollback over other sessions'
overlays; shared snapshot files.

*Correct when* a reader never sees its file rewritten, a settlement never loses
another one, the last publication survives deferral, adoption and crashes, a
rollback removes exactly the failed session's work, and closing never waits for
a foreign callback.

### Build queue — `runtime/jobs`, `packages/sdk/src/default-worker.ts`, `api/chapter-build`

*State.* SQLite rows `build_jobs` (state, target, owner, rank, progress) and one
`build_worker_lease`; the chapter's stage, revision and artifacts in the archive.

*Operations.* Clients add (or merge into) a job, pause, resume, cancel, boost,
retarget, clean. A worker process takes the lease, runs slots that claim and
execute jobs step by step, applies artifacts and marks the outcome. Every
operation first fails or cancels jobs of dead owners.

*Interaction.* Rows are the only channel: an execution notices a pause, a
cancellation or the loss of its job by reading its row. Archive mutations look
at the queue before they start.

*Hard.* Late workers, lease theft, a cancellation that meets a success, two
executions of one row, changes of a job under its execution, edits of the
chapter between check and use.

*Correct when* a chapter has one active job per lane, outcomes are final, a
cancellation ends as one, a success has delivered its artifact, and nothing
stays queued or running for ever.

### State locks — `state-lock.ts`

*State.* SQLite rows `state_locks`: scope, resource, mode, owner, heartbeat.
*Operations.* Acquire by polling (read or write), heartbeat, release, cleanup of
rows without a heartbeat for five minutes, `isStateLocked`.
*Used by* the library, job replacement and conversion, directory archives.
*Hard.* Holders that stall and are reaped while they go on; cleanup outside a
transaction; a release that throws. *Correct when* holders with heartbeats
exclude each other and abandoned rows do not block for ever.

### Directory archive — `storage/wikg/archive/directory-backend.ts`

*State.* The archive's files and the directory `.wikg-transaction`: `before/`
with copies, `pending.json`, `committed`. *Operations.* Publish a set of changes,
recover. *Interaction.* Clients hold the state lock of scope `wikg-directory`;
sessions recover first, a library replacement publishes directly. *Hard.* A
crash or an error between any two file operations, recovery of a recovery, a
journal whose removal is not atomic. *Correct when* a session always sees
exactly the last committed publication.

### Library — `library`

*State.* A folder of archives, a row for each in `core.sqlite` (path, mutation
token, missing or not), `index.db` with a status (missing, dirty, current), and
per membership operation a transaction directory in staging: `transaction.json`,
a backup or a staged copy, `published`.

*Operations.* Add, remove, move and migrate an archive, scan the folder, write or
replace an archive in place, rebuild and clean the index, query it. Those that
change membership recover what an earlier one has left before they start.

*Interaction.* The state lock of scope `library`, write or read. Folder, rows and
index are three stores that no transaction spans. Other programs may rename and
write archives in the folder.

*Hard.* A crash or an error between any two steps on three stores; recovery of a
recovery; an index that counts as current although an archive has changed; rows
that a scan must match with files it finds renamed and changed.

*Correct when* no interruption loses an archive or leaves a second copy, a scan
makes rows and folder agree, and a query that finds the index current sees what
the archives contain.

### Provider runtime — `packages/runtime/src`

*State.* Per provider a pool (slots in use, callers waiting), a cooldown; per
request its attempts, its waiting budget, its deadline and its signal; per
executor a window of tasks, their results, the first failure.

*Operations.* Run a request (cooldown, slot, attempt, delay, retry), end it by
deadline or abort, retain and release what an operation has left behind; map a
source of items over tasks, with ordered results, and close.

*Interaction.* One event loop: promise reactions before timers. The operation is
the host's and may hang, ignore its signal, or retain a connection.

*Hard.* A slot that is released twice or never; a rate limit met by one request
while others are asleep, waiting or about to start; abort of siblings while a
task is about to be called; a source that fails while tasks run.

*Correct when* operations never exceed the slots, the pool's count is the truth,
a cooldown holds for everybody, results come in order, the first failure is the
one reported, and everything ends.

### Components that are not modelled yet, or not at all

| component | state and operations | why, and what would be worth checking |
|---|---|---|
| ZIP backend (`storage/wikg/archive`, `wiki-graph-archive-file.ts`) | reads and rewrites a ZIP through a temporary file | pure I/O; the coordinator relies on the atomic rename |
| Garbage collection (`runtime/gc`) | runner with a lock like the state lock, removal of workspaces, caches, jobs | `CleanBuildJob` has the queue's part; the rest is planned |
| Document store (`document`) | tables and streams of one archive | single-process; the chapter's stage and revision are in `BuildWorker` |
| Schema upgrade (`maintenance`, `storage/schema-upgrade`) | version changes under an exclusive replacement | planned, on top of `ReplaceArchive` |
| Retrieval, graph, text | pure computation | candidates for reference definitions |
| Job executor (`packages/job`) | prompts, parsing, text pipelines | its concurrency is that of `mapConcurrent`, in `ConcurrentRequests` |
| SDK facade, CLI, Wikimedia connector | forwarding, parsing, formatting, HTTP | no shared state of their own, except the edit checks in `BuildWorker` |

`PROJECT.json` lists all components, and every hazard at its line with the
properties that watch it, or the reason why none does.

## 2. Modules and code

| module | is about |
|---|---|
| `ArchiveCoordinator` | the coordinator's protocol for one file archive |
| `BuildQueue` | the queue's rows and every client operation on them |
| `BuildWorker` (extends `BuildQueue`) | workers, executions, the chapter, a writer that edits it |
| `StateLock` | the lock table for one scope and resource |
| `AtomicArchive` | what a directory archive promises: atomic publication, sessions that read one state |
| `DirectoryArchive` (extends `StateLock`) | journalled publication by clients of the lock; implements `AtomicArchive` |
| `AtomicLibrary` | what a library promises of its archives: one client at a time, operations that take effect in one step |
| `LibraryMembership` (extends `StateLock`) | a library: folder, rows, transactions, index; implements `AtomicLibrary` |
| `ProviderRuntime` | requests to one provider: pool, cooldown, retries, deadlines |
| `ConcurrentRequests` (extends `ProviderRuntime`) | `mapConcurrent` over such requests |
| `MCArchiveCoordinator`, `MCBuildWorker`, `MCStateLock`, `MCDirectoryArchive`, `MCLibraryMembership`, `MCConcurrentRequests` | constants for TLC |
| `ArchiveCoordinatorProofs`, `ArchiveHistoryProofs`, `ArchiveRollbackProofs`, `BuildWorkerProofs`, `StateLockProofs`, `DirectoryArchiveProofs`, `LibraryMembershipProofs`, `ConcurrentRequestsProofs` | theorems |

An action is one database transaction or one file operation, with the local code
up to the next one. Definitions keep the names of the functions they come from
where there is one; `PROJECT.json` maps each to its lines. Definitions whose
name starts with `Mutant` are wrong variants, used to show that a property
notices the fault; nothing else refers to them.

**ArchiveCoordinator.** A session's `pc` is where its code waits: `idle`
(`open` polls for admission), `openReap`, `openReader`, `active` (the callback),
`rollback`, `close`, `drained`, then the flush (`fence`, `lock`, `commit`,
`rename`, `unlink`, `release`), `tidy`, `complete`, `finalReap`, `leave`,
`done`. `then` is where a flush returns to, as the same function serves opening,
closing and replacing. `owners`, `settlement`, `commitLock`, `replaceLock`,
`entryLock`, `overlay` are the tables; `snapshots`, `archive`, `generation` the
files. Contents are versions `[owner, n]`: nothing the properties say depends on
bytes. `history`, `withdrawn` and `overlapped` are auxiliary: what was published
since the last replacement, what of it was rolled back, and which entries were
written over a write that could still be rolled back. An operation that keeps an entry lock from start to end is one
action. A death is seen exactly: `pc = "dead"` stands for a process that the
host reports dead.

**BuildQueue and BuildWorker.** `job[j]` is a row, `order` the queue rank,
`lease` the lease row with a flag for a recent heartbeat. Every client
operation starts from `Recovered`, the rows after `recoverStaleBuildJobs`; the
code runs recovery as a transaction of its own just before, and recovery alone
(`RecoverStaleBuildJobs`) is an action too. `slot[s]` is one execution: the job and target
it has claimed, the current step, the revision its input was read at. A worker's loop
over a slot ends with a claim that finds nothing (`LeaveQueue`, slot `left`); when all
have, the worker gives its lease back (`ReleaseBuildWorkerLease`), and jobs may be added
in between. `chapter` says whether there is a source, the revision, and which artifacts
are built, from which `Stage` follows. `editor` is an edit between its checks for active
jobs and the change: the three kinds of reset (`ResetChapter`) check for different targets,
and only the one to planned changes the revision. `artifact` in a slot is auxiliary: a
reset has come after this execution had found or written its artifact. All jobs
are about one chapter: jobs of different chapters meet only in the queue order.

**StateLock.** A client's acquisition has one row, `none`, `fresh` or `stale`;
time is the action `GoStale`, possible for rows nobody keeps alive and for
clients listed in `Stallers`. `seen` is what an `isStateLocked` call has read and not
yet acted on.

**DirectoryArchive.** `live` maps paths to the publication that wrote them,
`journal` has the parts of the directory, `change` and `todo` are the local
variables of the running publication or recovery. A new file exists empty
before its content is renamed into it (`CreateFile`, then `PublishFile`), and so does
`pending.json` (`CreatePending`, then `WritePending`; `blank` in between). `RemovePart`
removes the journal piece by piece in any order. `torn` and `cut` are auxiliary: what
`pending.json` stands without at this moment (its content, a copy, the marker), and what
it stood without when the client that was writing or removing it was interrupted. The refinement mapping to
`AtomicArchive`: the abstract contents are `Recovered`, the files as whoever comes
next will find them; a session's view is `live` while it runs; a request is the
change of a publication that has been called and is not committed.

**LibraryMembership.** `folder` maps paths to entries, files or directories, each
with a content `<<archive, version>>`, or `Partial` while a directory is copied or
removed. `txn` is the transaction directory; its parts appear one after the other
(`record` is absent, empty, written; the backup is absent, partial, complete;
`published`), and `torn` says that its removal has begun. `rows`, `index` and `op`
are what `core.sqlite`, `index.db` and the running operations hold. Recovery is
written once for both of its callers, the start of the next operation and the
failure of its own (`Decide`, `Restore`, `Untie`). Clients may be interrupted anywhere.
`harm` is auxiliary: it gets "archives" at a step that costs an archive and "index" at
one that leaves an index that is not what it counts as, see
[what the code does not survive](#7-what-is-not-modelled).
The refinement mapping to `AtomicLibrary`: the abstract contents are `Recovered`, the
folder as the recovery that would run now will leave it; a client's request
(`Requested`) is its transaction until `published` appears, or the change it is about
to make, or undo, in the place of an archive; a client without the write lock is out.

**ProviderRuntime and ConcurrentRequests.** An action is one callback of the event
loop. A request's `pc` is where `run` awaits: the cooldown before and after the
slot (`cool`, `slot`), a sleep, the queue, the operation, the delay before a retry.
`work`, `result` and `resource` are the host's side; `slot` says whether the
caller or something left behind keeps the slot; a `resource` that is retained when its
caller has gone is `lost`, as nothing in the pool knows of it. Time is a clock that stops at
`MaxTime`; it moves, and timers fire, only when no promise reaction is due
(`Quiet`), as in the event loop. Item `r` of the executor is request `r`.

## 3. Runs

Every property of a passing run has a mutant in `PROJECT.json` that breaks it
under the same configuration.

| run | question | size |
|---|---|---|
| `arch_settle` | do settlement, deferral, adoption and crash recovery lose or resurrect anything? | 2 writers, 2 entries, 1 publication each; 448 000 states |
| `arch_rollback` | is a rollback exact, whatever fails? | 2 writers, 1 entry, 2 publications each, failures in callback, commit and reader close, crashes; 164 000 |
| `arch_replace` | do readers, writers and a replacement or export stay apart, and does closing end? | writer, reader, probe (a reader without settlement), replacer; failures and crashes; liveness; 75 000 |
| `arch_failed_writes` | violation, see findings | 1 writer, 1 entry, 2 publications |
| `queue_rows` | are rows sound under all client operations? | 2 jobs (symmetric), 1 worker that may die, all targets, retargeting, 1 reset to planned; 1 379 000 |
| `queue_workers` | do workers pass jobs on soundly, and do jobs progress? | 1 job, 2 workers (one stalls, one crashes or is stopped), resets to sourced and graphed; liveness; 314 000 |
| `state_lock` | do locks exclude, and do abandoned rows go? | 2 readers, 1 writer, 2 acquisitions each, crashes, stalls, failed releases; liveness; 27 000 |
| `dir_archive` | is publication all or nothing, that is, is `AtomicArchive` implemented? | 2 sessions (one crashes, one has failing file operations), 1 replacement that crashes, 1 acquisition each, 2 paths, 2 publications; 727 000 |
| `dir_removal` | violation, see findings | 2 sessions, 1 publication |
| `library` | do folder, rows and index survive each other's interruptions, and is `AtomicLibrary` implemented? | 1 client that adds, moves, removes and may crash, 1 that scans, writes, replaces, rebuilds, cleans and whose steps fail, 1 reader; 2 paths, 2 archives, renames and changes by other programs; behaviours are followed until an archive is lost (`CONSTRAINT Safe`); 1 066 000 |
| `library_backup` | violation, see findings | the same clients, the first one's steps fail |
| `provider` | do requests stay within slots, budgets and order, and does everything end? | 3 requests (one with 2 retries), 1 slot, 1 place in the queue, a window of 3, clock to 2; liveness; 614 000 |

What the properties say:

* `LastWriteWins`, `RollbackExact`, `FailedWritesUndone`: what an entry shows,
  against the publications that were made and not rolled back.

* `OverlayHasSnapshot`: no row points at a deleted snapshot.
* `ReaderPinned`, `CommitExcludesReaders`, `ImageCurrent`: no rewriting under a
  reader; settlers are alone; no settlement or replacement is lost.
* `NothingLeftBehind`, `ExclusiveIsSettled`: the deferred is settled in the end,
  and before exclusive work.
* `CloseTerminates`: closing ends although foreign callbacks may not.
* `OneActivePerLane`, `TerminalIsFinal`, `CancellationHolds`: the rows.
* `RunningIsExecuted`, `SuccessDelivers`, `JobsProgress`: rows against executions
  and the chapter. A success has the artifact it was claimed for, unless a reset came
  after the execution had found or written it. Under the lease of a worker whose loops
  run no job stays queued or running, and the worker does not end before such a job,
  unless it dies, is stopped or loses the lease.
* `HoldersExclude`, `FreshRowKept`, `AbandonedRowsGo`: the lock. The first is
  exact: two conflicting holders imply that one of them has already lost its row.
* `SessionSeesCommitted`, `Undoable`, `Recoverable`, `ImplementsAtomic`: the
  directory archive. The last is a refinement: every step of the files and the
  journal is a step of `AtomicArchive` or none. Each holds unless a client has been
  interrupted at one precise place, which `cut` records: between the marker and
  `pending.json` of a journal it removes; for `Recoverable` also between a copy and
  `pending.json`, and between creating and writing `pending.json`, and it says nothing
  while a live client is at such a place (`Busy`). `CommittedStays` is
  the claim without an exception, which `dir_removal` refutes.
* `ArchivesSurvive`, `NoRemains`: a library's archives, against the auxiliary
  `truth` of what each must contain. `QueryCurrent`: a query against the archives.
  `ScanAgrees`: rows against the folder. `ImplementsAtomicLibrary`, a refinement: of
  the archives a client sees every operation in full or not at all, never while its
  client is gone, and recovery changes nothing. Each holds until the step that `harm`
  records. `NothingLost` is the claim without an exception, which `library_backup`
  refutes.
* `WorkBounded`, `SlotsAccounted`, `CooldownKept`: the pool against operations that
  still run and resources that were kept in time, after whatever ended their callers.
* `ClosesDrained`, `OutcomeFaithful`, `EverythingEnds`: the executor.

*Why the bounds are enough.* Two sessions suffice for each pairwise race of the
coordinator (settler and opener, two closers, aborter and publisher); more are
needed only to put a reader, a writer and a replacement together. Two
publications per entry distinguish "before my first write" from "before my
last". Two entries make a settlement partial. One job and two workers show each
handover; two jobs show the lanes and the order. Two acquisitions per client
give a crashed or reaped client a successor. Two publications and two paths
give a directory publication something to destroy and an interruption in the
middle; the clients of `dir_archive` make one acquisition each, as three clients
are already three generations of recovery. Two paths and two archives let a
library move, swap and confuse; 2 acquisitions per client give each interruption
a successor. Three requests are one that holds the slot, one that waits, one that
finds the queue full; a clock of 2 separates a deadline from a delay.

*Deadlock* is checked everywhere. A state in which all sessions or clients have
ended, or have used up their bound, has an explicit stuttering step
(`Terminated`, `Spent`); in the queue a client can always do something.

## 4. Fairness

* `ArchiveCoordinator`: weak fairness of each session's `Protocol`, that is of
  everything but the callback and the process's death. The code polls every
  100 ms and the protocol steps are its own calls. Callbacks are user code and
  may take for ever, which is why `CloseTerminates` says something. No fairness
  between sessions is assumed.
* `BuildWorker`: processes make steps (weak fairness of each worker's lease
  handling, of each slot's execution, of the release at the end), and a dead worker's
  lease expires. Clients, the editor and the stop signal owe nothing, and nobody has to
  start a worker: the CLI starts one when a command adds a job, once, and it may find
  another's lease and end.
* `StateLock`: waiting clients poll, and time passes for abandoned rows. Nothing
  is assumed of the operation under the lock, and nothing of the order in which
  waiting clients succeed: the code has no queue.
* `ConcurrentRequests`: weak fairness of `EventLoop` alone, what the event loop runs
  when it is due. Nothing is assumed of operations, the source, the consumer or
  the caller: `iterator.return` is the host's code, so it is a step of the environment
  (`SourceReturns`) that may never come. `EverythingEnds` rests on deadlines and aborts
  only, and is about the tasks and the close up to that call.
* `DirectoryArchive` and `LibraryMembership` state no fairness: their properties
  are about what is never lost.

## 5. Proofs

All proofs are checked by TLAPS, with the named assumptions on the constants
(`ConstantsAssumption`, `QueueAssumption`, `WorkerAssumption`,
`LockAssumption`, `DirectoryAssumption`, `LibraryAssumption`), which TLC evaluates in the runs.

**ArchiveCoordinatorProofs.** `Invariance` proves the invariant `IInv`, from
which `ReaderPinnedTheorem` and `CommitExcludesReadersTheorem` follow, for any
number of sessions and entries, any mix of kinds, any failures. `ReaderPinned`
alone is not inductive: a rename would break it in a state where a settler runs
beside a reader. The invariant adds why that state is unreachable. Who holds
a reader is a registered owner in phase `reading` (`ReadersRegistered`), who is
about to open one is registered already (`OpenersRegistered`), a settler holds
the commit fence and everybody else has drained (`CommitExcludesReaders`), a
replacement in its exclusive part is the only live owner (`ReplacerAlone`), and
control comes back where it was called from (`RollbackReturns`).
`SettlementInvariance` adds `SInv`, from which `ImageCurrentTheorem` and
`ExclusiveIsSettledTheorem` follow: every overlay and everything a rollback may restore is
an ordinary writer's (`OverlaysOfWriters`), a new image is the settler's batch over
the archive as it still is (`Images`), and an exclusive session is the only owner and
its flush takes every overlay (`ExclusiveFlushes`). The steps rest on `IInv` through
three lemmas: what a session keeps in memory nobody else touches, an exclusive
writer is alone, and so is who renames. `OverlayHasSnapshotTheorem` follows from
`RInv`: each version is written once and kept in one place, the row or one
session's `previous` (`KeptOnce`), so that giving up an overlay's file cannot take
another's.

**ArchiveHistoryProofs.** What an archive shows in the long run, on top of those
two invariants. `ArchiveTypesTheorem` is the type invariant. `BatchLocked`: a
settler's batch is what the overlays still are, under its entry locks, until it has
cleaned up. `NothingLeftBehindTheorem` needs to know who will settle what is
deferred: while nobody has failed, an overlay that is not in the archive yet has a
session before its final reap, or one whose final reap takes it (`Reaped`); that the
last of two closers sees the other's overlay rests on `Phases`, for a session is
completed before its final reap begins. `LastWriteWinsTheorem` assumes `FailureFree`:
no callback, commit or reader close fails, and no replacement fails to clean up; sessions may die at any time, and
other cleanups may fail. Under it nothing is rolled back, an exclusive flush leaves no
overlay (`ExclusiveEmpties`), no version is published twice (`PublishedOnce`), and
what is seen is the newest publication (`NewestSeen`).

**ArchiveRollbackProofs.** `RollbackExactTheorem`: what a session that fails undoes,
for any sessions, entries, failures and deaths. It assumes `UnlinkFailers = {}`, for
the reason given under [limits](#7-what-is-not-modelled). `RollbackExact` speaks of what
an entry shows now; inductive is only a statement of what each possible rollback would
show. So the invariant `Exact` says of an entry, besides that it shows its last
publication that was not undone: for every session with something to undo here,
undoing it would show the last one that is not its own (`RestoresExactly`); what it
would restore belongs to a session that is past all failing (`PreviousFinal`); and the
overlay, if it is the session's, is the one it published last (`OwnIsCurrent`). Around
it stand facts that name no entry's contents: who has something to undo still runs its
callback or its close (`ChangesLive`), a completed session is past all failing
(`CompletedIsFinal`), version numbers are not used twice (`RecordsUsed`), and a batch
holds the settler's own overlays and those of the completed and the gone
(`BatchOwners`). `EntryEffects` names the five actions that touch an entry; each has its
lemma, and `UntouchedIsExact` is the rest.

**BuildWorkerProofs.** The rows' types and `OneActivePerLane` are inductive
together, because each operation that activates a row or moves it to another lane
looks at the lane in the same transaction. The two action properties
(`TerminalIsFinalTheorem`, `CancellationHoldsTheorem`) hold of every step by the
same case analysis. `Settles` says what most operations have in common, so
their cases are one lemma.
`WorkerTypesTheorem` adds to the rows' types that a slot which works has claimed a
job. `RunningIsExecutedTheorem` follows from `RunInv`: a running row of a live worker
has an execution that has not given up (`RowExecuted`), and a worker that has only
just started owns no row (`NewcomersOwnNothing`), because its start put the rows of
its predecessors back. `SuccessDeliversTheorem` is about any retargeting, any resets and
any edits. Its invariant `DeliverInv` says that what an execution knows to be built
(`Knows`) is there until a reset comes after it; what makes it inductive is that a
summary never stands without its graph (`SummaryNeedsGraph`), so that building a graph
removes no artifact that another execution relies on.

**StateLockProofs.** The table never has conflicting rows (`RowsCompatible`), so
conflicting holders cannot both have theirs: `HoldersExcludeTheorem`.
`FreshRowKeptTheorem` is the corresponding fact about steps. `WriterAlone` and
`LockStepKeeps` are what the users of the lock build on: a writer whose heartbeats
arrive is alone, whatever steps the lock itself makes.

**DirectoryArchiveProofs.** `DirectoryIsAtomic`: for any clients, paths and
publications, whatever crashes and fails, `DirectoryArchive` implements
`AtomicArchive`. One assumption (`Assumed`): no live holder misses its heartbeats
(`Stallers = {}`), without which the lock is lost and two clients publish at once.
Clients may be interrupted anywhere and the host removes a journal in any order; from
the interruption on that leaves `pending.json` without the marker (`"marker" \in cut`)
nothing is claimed, as `dir_removal` shows that nothing can be. The invariant
`DirInv`: whatever was interrupted, types and the lock (`Base`), where a holder has its
row (`HoldersFresh`), so with `LockInv` it is alone; and until that interruption,
`Recovered = good` and the copies a rollback needs exist, but for those the removal has
taken (`Core`, `Recorded`), and each
client knows how far it is (`Phase`: what a rollback has visited is as before, what a
publication has visited is as changed, what a backup has visited is copied). None
of the run's invariants is inductive by itself: `SessionSeesCommitted` depends on
what recovery did before, that on what the journal says, and that on the other
clients being outside. One lemma per action preserves `DirInv`; `HolderStep` has
what they share. `SessionTheorem`, `UndoableTheorem` and `DirTypes` are consequences.
`RecoverableTheorem` needs one fact more, `TornOwned`: what `pending.json` stands
without is a live client's or was left by an interrupted one. For the refinement, `FinishRecovery` and
`RemoveJournal` open a session, `CreateCommitted` is the publication,
`CallCommit` and `StartReplacement` request it, failures and crashes abandon it or
close a session, and everything else stutters.

**LibraryMembershipProofs.** Every property of the run `library`, for any clients,
paths, archives, rows and operations, whatever crashes, fails, or is renamed and
written by other programs. `Assumed`: no live holder misses its heartbeats. No
interruption is assumed away: the files' and rows' theorems hold until the step that
costs an archive (`Safe`), what is said of the index also until a step that spoils it,
and `Interrupted`, `Unrecovered` and `Arrives` say which steps those are. Three
invariants, each on top of the one before.

* `LibInv`, the files, for `ArchivesSurviveTheorem` and `NoRemainsTheorem`.
  `ArchivesSurvive` is not inductive: whether what the folder holds in the middle of a
  removal is enough depends on what a recovery will make of it, and that on what the
  transaction directory says. `LibInv` says it of every state: `Recovered`, the contents
  after the recovery that would run now, has every archive exactly once (`Good`); a
  directory that no longer tells what to do (`Torn`) has an owner, whose interruption
  would be such a step (`TornIsOwned`); and each client knows how far it is with its transaction,
  its recovery or its write (`Phase`). One lemma per action preserves it. Most steps
  leave `Recovered` alone, recovery's own in particular, which is why a recovery may be
  interrupted and repeated; the one that changes it is `MarkPublished` (`GoodAdd`,
  `GoodRemove`, `GoodMove`), and a change in place (`GoodChange`).
  The refinement, `LibraryIsAtomic`, rests on `LibInv` alone: operations and rebuilds
  start as their client gets to work; writing `transaction.json`, beginning a change in
  place and preparing to revert one ask for it; `MarkPublished`, `ChangeContent` and
  `Revert` commit; failures, crashes and releases abandon; `OutsideRename` and
  `OutsideWrite` are `Others`; everything else stutters, a migration throughout.
* `RowInv`, the rows, for `LibraryTypesTheorem` and `ScanAgreesTheorem`. A scan is a
  recursive function over the paths. The library's induction rules cannot be used here,
  but its fact that `<` on the numbers is well-founded can: `Smallest`, `Inductive` and
  `ScanVisits` derive induction for this function from it. The hypothesis, `Visited`,
  says what a scan knows after n paths: the rows it has written are right and have
  different ids, those it has matched are gone from the ones left, new ids are above all
  old ones. What the rows hold after the scan is `Agreed`.
* `IndexInv`, the index, for `QueryCurrentTheorem`. `IndexTrue` says that a current index
  has the token of every row that is found now, or would be after a recovery puts its
  entry back (`Found`); without the second half a crash in the middle of a removal would
  break the induction. It is preserved because a content that is new is in no row
  (`Aged`, `NewIsUnknown`), because whoever changes the row of an archive has marked the
  index first (`IndexPhase`), and because what a build writes is what it reads under the
  lock (`BuildIndexKeeps`). A query is never beside a writer (`Queried`). The harm is
  over when the index is marked, cleaned or prepared for a build (`Stale`).

**ConcurrentRequestsProofs.** Every property of the run `provider` but liveness, for
any number of requests, slots, places in the queue, retries, delays and windows.
The invariant has two halves. `ProviderInv`: a request holds a slot exactly where
its `pc` says so, and without one nothing of it is at work (`SlotUse`); the queue
has waiting callers only, each once (`Queueing`); the pool counts its holders, and
somebody waits only when they are as many as the slots (`Counting`); who is about to
start knows every operation that may still set a cooldown (`Looked`).
`ReleaseKeepsPool` is the heart: giving a slot back frees it or hands it over, and
the count is right in both cases. `ExecutorInv`: the first failure stays
(`Failures`), the pending tasks are the next ones in the source's order (`Order`),
and who is no longer pending has settled (`Closing`). The halves meet in one fact,
`EndedStay`: no step changes a request that has ended. Nothing is assumed of late
retention: `WorkBoundedTheorem` counts what the pool was told of in time.
*Only model-checked:* the liveness properties (`CloseTerminates`, `JobsProgress`,
`AbandonedRowsGo`, `EverythingEnds`), which are out of the prover's reach. Every safety
property of a passing run is a theorem.

## 6. Findings

Runs that are expected to fail, each against a sentence of the repository.

1. `arch_failed_writes`. A session that writes an entry without overlay twice and
   then fails leaves its first write behind: `#recordChange`
   (`host-session.ts:898`) takes the session's own first overlay for the version
   before it.
2. `dir_removal`. The journal of a committed publication is removed file by file;
   if `committed` goes before `pending.json` and the process dies, the next
   recovery rolls committed data back (`directory-backend.ts:134`), or throws for
   ever when a copy in `before/` is gone. `dir_archive` shows that no other
   interruption costs a publication: removing `pending.json` first would be enough.
3. `library_backup`. A removal writes `transaction.json` before it has a backup; if
   creating the backup then fails, its own recovery takes the removal back, deletes
   the archive to make room, and has nothing to restore.

Weaknesses seen while modelling, which no run of their own shows, are hazards with a
note, or limits below: a rollback after somebody wrote over the failed session's
overlay, or after its committed overlay could not be deleted; a job that stays
`canceling` while its worker lives; an empty `pending.json` or `transaction.json` that
stops every later recovery (`storage/wikg/archive/directory-backend.ts:145`,
`library/membership-transaction.ts:134`); a running job retargeted from graph to
summary that succeeds without a summary (`runtime/jobs/jobs.ts:272`); a
destructive edit between the check for active jobs and the edit, and a reset to sourced
that does not look for knowledge jobs (`packages/sdk/src/archive/archive.ts:842`); a job
added while the last loop of a worker ends, which waits for another command
(`runtime/jobs/worker.ts:67`); a connection retained after its caller has gone, whose
slot is given on although `packages/runtime/README.md:21` promises it is kept
(`packages/runtime/src/capacity.ts:46`).

## 7. What is not modelled

What the code does not survive is in the models, not outside them. An auxiliary variable
records the step and the properties and theorems hold until then. TLC breaks the
properties named with each exception as soon as it is dropped:

* `cut` (`DirectoryArchive`), what `pending.json` stood without when the client that was
  writing or removing it was interrupted. `marker`: the removal of a committed journal
  took `committed` first (breaks `SessionSeesCommitted`, `Undoable`, `ImplementsAtomic`;
  `dir_removal`). `content`: it was created and not written, and recovery will throw for
  ever (breaks `Recoverable`). `copy`: the removal took a copy first (breaks
  `Recoverable`, as `marker` does).
* `harm` (`LibraryMembership`), "archives" (breaks `ArchivesSurvive`, `NoRemains`,
  `ImplementsAtomicLibrary`; `library` follows a behaviour up to this step, as what the
  code does with a library that has lost an archive says little; `ScanAgrees` holds
  beyond it in the instance, but its proof rests on what is lost there, so its theorem
  stops there too). A
  removal or a migration is interrupted before its backup is complete (`BackupWindow`;
  `library_backup`). The removal of the transaction
  directory is interrupted after `published` or the backup has gone and before
  `transaction.json` (`RemovalWindow`). An archive is
  written or replaced while an interrupted transaction is still there, which writing
  does not recover first: recovery then takes the write for its own doing
  (`Unrecovered`).
* `harm`, "index" (breaks `QueryCurrent`). An addition, a move or a scan is interrupted between
  its rows and the mark on the index (`DirtyWindow`). An index is built over a transaction
  that a recovery will still undo (`Unrecovered`). An archive comes back to a path where
  a row with its token has stayed, which the index left out, by another program's rename or by
  a move that is then interrupted (`Arrives`).
* `artifact` (`BuildWorker`), "reset": a reset came after an execution had found or
  written its artifact (breaks `SuccessDelivers`).
* `resource` "lost" (`ProviderRuntime`): an operation retains a resource after its caller
  has gone and nobody counts it. `WorkBounded` does not either; a count of these too
  would be broken.

Four parameters leave something out:

* `UnlinkFailers` (`ArchiveCoordinator`): sessions whose cleanup of a committed
  overlay fails, an error the code swallows. Alone, it is harmless for sessions
  (`arch_settle`). A replacement whose own flush leaves an overlay so is hidden by
  it afterwards (breaks `LastWriteWins`), and a session that fails after such a
  cleanup restores what was before the committed version (breaks `RollbackExact`);
  hence `FailureFree`, and `UnlinkFailers = {}`, in the theorems.
* `Retargeting` (`BuildWorker`): clients change the target of active jobs. TRUE in
  `queue_rows`, FALSE in `queue_workers` for its size; the theorems do not depend on it.
* `Edits` (`BuildWorker`): the kinds of resets. All to planned in `queue_rows`, the other
  two in `queue_workers`; the theorems are about any.
* `Stallers` (`StateLock`): live holders that miss their heartbeats. Allowed in
  `state_lock`, where the lock is the question; empty in `dir_archive` and
  `library`, where a reaped holder would work beside its successor.

Left out of the modelled parts:

* Coordinator: SQLite entries (leases, in-place edits with write-back policies),
  clean overlays, the search cache; the heartbeat path for owners whose process
  state is unknown; several sessions per process. The validating reader in `open` is part
  of the opening step.
* Queue: index targets and their artifacts, the events log, workspaces,
  `input_revision`; database errors inside a worker; a stopped or dead worker's
  id is not used again.
* State lock: a client has one acquisition at a time, all with one `staleMs`.
* Directory archive: reads; a file is
  restored in one step (an interrupted restore is restored again); the membership
  refresh after a replacement is in `LibraryMembership`.
* Library: creating and removing whole libraries, which also deletes staging with
  what it backs up (`runLibraryIndexGc`, `removeWikiGraphLibrary`); metadata; what a
  query computes; other programs that write in the folder while an operation runs.
  An interrupted move leaves its row at the old path, and a later addition there
  takes over its id: the properties are about contents, not ids.
* The longest way for the code to break an exception-free `QueryCurrent` needs three paths, two
  archives and three rows, more than `library` has: a move of row 1 from path 1 to 2
  is interrupted after it is published, before its row is updated; the archive of row 2
  is moved to path 1 and a scan finds the first archive at 2 in conflict with row 1, which
  keeps its id and its token; row 2 is moved away and the index rebuilt, so that row 1 has
  no entry; a move of the archive back to path 1 is then interrupted before its row is
  updated. Until the next operation that recovers, a query finds the index current and
  misses that archive. `Arrives` is in the actions for it, and the theorem covers it.
* Provider: guaranteed requests, usage and quality accounting; the protocols of
  `openai.ts` and `json.ts`, which are an operation that may succeed, fail, hang or
  retain; a failure of `iterator.return` surfaces as that of the consumer.
* Liveness of lock acquisition under contention: the code does not provide it, and
  nested read locks of the library rely on a waiting writer having no priority.

Not modelled at all, and why: retrieval, graph and text algorithms are pure
functions over text and scores; the ZIP backend, the SDK facade, the command line
and the Wikimedia connector are input, output and forwarding; the document store
serves one process.

## 8. Plan

Done: `ArchiveCoordinator` with the proof of all its safety properties; `BuildQueue`, `BuildWorker`; `StateLock`;
`DirectoryArchive` with its abstract specification and the proof of the
refinement; `LibraryMembership` with its abstract specification, the proof of the refinement and
of its safety;
`ProviderRuntime` and `ConcurrentRequests` with the
proofs of their safety.

Left, in this order:

1. SQLite entries in the coordinator: leases, in-place edits, write-back, clean
   overlays.
2. An abstract archive (a map of entries with publish, abort and settle as
   atomic steps), and `ArchiveCoordinator` shown to implement it.
3. The serialized connection of `document/database.ts`: nested transactions in one
   asynchronous context. Garbage collection beside live sessions. Schema upgrade.

## 9. How to run

    tlc -workers 2 -config ArchSettle.cfg MCArchiveCoordinator.tla
    tlc -workers 2 -config DirArchive.cfg MCDirectoryArchive.tla
    tlapm ArchiveCoordinatorProofs.tla

The pairs of module and configuration are in `PROJECT.json`.
