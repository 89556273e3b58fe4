# Formal models of OpenCodeRAG

TLA+ models of the parts of OpenCodeRAG that keep state and act concurrently, with the TLC runs
that model-check them on small instances and theorems that TLAPS proves for every instance.
File references are to the repository (`src/src/...` is its source tree).

## 1. The system

OpenCodeRAG keeps a semantic index of a workspace and answers searches from it. Its parts:

| Part | State it keeps | Operations | Made correct by |
|---|---|---|---|
| Index pass (`indexer/pipeline.ts`, `worker.ts`) | manifest (path -> hash, mtime, size, descriptionFailed), the pass's windows, checkpoints, what it wrote | scan, diff, prepare / embed / store windows, sweep, promote, save | every file ends up indexed with its content, nothing is recorded before it is stored, a failure never costs rows that were good |
| Workspace scan (`content/reader.ts`) | none of its own | fast path by fingerprint, read, stat, extract | the hash and the fingerprint it reports belong together |
| LanceDB store (`vectorstore/lancedb.ts`) | a table of rows, a write lock, a temporary store during a rebuild | add, delete by path, count, swap, repair, optimize | adds and deletes keep one revision per path, a swap loses nothing |
| ClickHouse store (`vectorstore/clickhouse.ts`) | rows with versions and tombstones, epochs, leases | upsert, delete, promote epoch, lease | one machine rebuilds at a time, searches see one epoch |
| Index lock (`runIndexPass`) | `index.lock` with a pid | check, write, unlink | one pass per store |
| Watch scheduler (`indexer/watch.ts`) | timer, pending paths, running and rerun flags, waiters | schedule, run, rerun, close | no event is lost, one pass at a time, close waits |
| Background watcher (`watcher.ts`) | `watcher.lock`, health, the initial pass | start, stop, dormancy | one watcher per workspace |
| Keyword index (`retriever/keyword-index.ts`) | postings, per-file chunks | add, remove, save, load, merge | agrees with the vector rows |
| Embedder (`embedder/factory.ts`) | retries, splits, circuit breaker | embedBatch | a vector or a reported failure for each text |
| Description cache (`core/desc-cache.ts`) | map and dirty flag | load, set, save | what was set is saved |
| Quirk memory (`quirks/quirk-store.ts`, `core/state-sync.ts`) | rows, `quirks.jsonl`, tombstones, the central bundle | add, update, remove, reconcile, flush, hydrate | rows, logs and bundle agree, removed quirks stay removed |
| HTTP pool (`embedder/http.ts`) | pooled connections, idle timers | send, answer, time out, abort | an answer reaches the request it answers |
| Configuration (`core/config.ts`, `core/runtime-overrides.ts`, `web/config-api.ts`, `cli/wizard/`) | two files, overrides, drafts | merge, save, override, repair, follow | no writer hides or destroys what another wrote |
| Plugin session (`plugin.ts`) | gotcha cache, cooldowns, the hotkey's flag | tool errors, prompts, messages | one gotcha per cause, no key press lost |
| Chunkers (`chunker/factory.ts`) | none | parse, fall back, split, overlap | every line is in a chunk, ranges are true |
| Retriever (`retriever/`, `reranker/`) | none | fuse, gate, rerank, merge, thin out | the best hit of each file is served, in order |
| Describers, decision provider, shell guard | none that outlives a call | pure functions and requests | results |
| MCP server, CLI, TUI, web UI, evaluation | rendering | glue | |

How they interact. The watcher feeds file events to the scheduler, which runs at most one index
pass at a time in its process; the CLI, the MCP server, the plugin and the web API start passes of
their own, in their own processes, against the same store directory, with `index.lock` between
them. A pass scans the workspace, compares it with the manifest, prepares windows of files
(chunk, describe), embeds them, and hands each window to a store phase that runs while the next
window is prepared. The store phase writes rows first, then manifest entries, then queues a
checkpoint of the manifest. A rebuild writes into a temporary store (LanceDB) or an epoch
(ClickHouse), which is promoted at the end. Searches read the store at any time.

What is hard: users edit while a pass scans; the front of the pipeline and its store phase
interleave on the same manifest; the process can die, be aborted or have a store call time out
between any two steps; some texts of a window are not embedded; and the manifest, the rows and
the keyword index are three stores without a transaction around them. `PROJECT.json` lists each
hazard at its line, with the properties that would catch it.

## 2. Plan

| Order | Module | What it covers | State |
|---|---|---|---|
| 1 | `IndexPass` | the pass, the scan, both stores as the pass uses them | written, checked, all safety properties proved |
| 2 | `ChangeRequests`, `WatchScheduler` | an abstract promise of request serving, and the scheduler that implements it | written, checked, refinement and invariants proved |
| 3 | `Watcher` (extends `WatchScheduler`) | initial pass, events, skipped and failed passes, status file | written, checked, its safety property proved |
| 4 | `StoreLocks` | `index.lock`, `watcher.lock`, take-over, crashes, races, loss in a swap | written, checked, all safety properties proved |
| 5 | `CentralStore` | ClickHouse leases and epochs, machines that rebuild at once | written, checked, both safety properties proved |
| 6 | `LanceStore`, `StoreSwap` | the transactions, retries and repairs of a LanceDB table; the renames of a swap | written, checked, all safety properties proved |
| 7 | `QuirkStore` | rows, `quirks.jsonl`, tombstones and the central bundle | written, checked, both safety properties proved |
| 8 | `InvertedIndex`, `KeywordIndex`, `HybridIndex` | a promise and the index that implements it; its entries next to the rows | written, checked, the refinement and `HalvesAgree` proved |
| 9 | `EmbedBatch`, `HttpPool`, `DescCache` | splitting and retries, connections, the dirty flag | written, checked, all safety properties proved |
| 10 | `ConfigLayers`, `PluginSession` | settings and their writers; a session of the plugin | written, checked, all safety properties proved |
| 11 | `Chunking`, `Retrieval` (both extend `Ordering`) | a file's chunks; a search | written, checked, both properties proved |
| 12 | later | the command line's watch mode, the git backend, the walk and its limits, the auto-update state, `deleteByFilePath` against concurrent writers | planned |

`Watcher` composes the scheduler with an abstract pass; `IndexPass` is that pass in detail, and
`StoreLocks` the lock that `Watcher` takes in one step. `LanceStore` and `StoreSwap` are the steps
inside the adds and the swap of `IndexPass`, `CentralStore` the lease and the promotion,
`HybridIndex` a pass as the keyword index sees it. `MCWatching` and `MCServices` run several modules
side by side: a behaviour is one of one of them, which keeps a run per question and not per module.

Abstract specifications worth stating: for the pass, "each path is indexed with one of its recent
contents, and finally with the last" (stated here as liveness); for the scheduler, a set of
requests that is served (`ChangeRequests`); for the store directory, an atomic replacement.

Every invariant and action property of the passing runs is a theorem now, and so are the refinements
but for their fairness. What needs fairness stays with TLC: `EventuallyIndexed`,
`LiveFilesEventuallyIndexed`, `WaitersResolve` and the fairness of `ImplementsChangeRequests`,
`CurrentOrStale`, `SomeoneWatches`, `ReadersCatchUp`, `SomeMachineIndexes`, `QuirksSettle` and
`PluginCatchesUp`.

## 3. `IndexPass`

One workspace, one store, one pass at a time. Time is cut where the code awaits: a step is what
runs between two awaits that other steps can observe.

**Data.** A content is the mtime of its first write, so equal hashes mean equal contents; `Blank`
stands for empty and too small files, `Chunkless` for content the chunker returns nothing for. The
rows of a path are a set of `<<content, part>>`. A manifest entry keeps hash, mtime and the
description flag. `mode` is the store a pass writes to: in place, a temporary store, or an epoch.

**Actions and code.**

| Actions | Code |
|---|---|
| `Write`, `Delete`, `LoseManifest`, `LoseRows`, `Crash`, `Abort` | users, the file system, process death, `options.abortSignal` |
| `StartPass`, `Begin` | `runIndexPassInner` up to the scan: manifest status, failed descriptions, resume check, data-loss test, rebuild decision |
| `SkipRead`, `ReadFile`, `StatFile`, `ExtractionFails` | `processFile` in `content/reader.ts` |
| `PreflightFails`, `PreflightPasses` | the probe of the embedding provider |
| `RemoveStale`, `StaleRemoved` | removal of entries whose path is gone |
| `PrepareWindow` (`Outcome`), `RemoveEarly`, `EmbedWindow` | the front of the window loop, `prepareFile` |
| `LaunchStore`, `BulkAdd`, `DedupFile`, `UpsertFile`, `RowsWritten`, `PurgeFile`, `Commit` | `storeWindow` and the bulk writes of the two stores |
| `CheckpointSave` | `enqueueManifestSave` |
| `EndWindows` (`Refingerprint`), `SweepFile`, `SweepDone` | the mtime refresh and the orphan sweep |
| `PromoteNothing`, `Promote`, `DiscardRebuild`, `SaveFinal` | promotion and the end of the pass |

**Environment.** `Edits` and `Faults` select what users and the environment do, so that a run can
ask one question. A fault is drawn at most `MaxFaults` times, a file is written at most `MaxMtime`
times. Faults: `crash`, `abort`, `embed` (some texts get no vector), `chunk`, `extract`,
`describe`, `provider` (down at the probe), `race` (an edit between read and stat), `loseManifest`,
`loseRows`, `promote`, and unusual starts: `force`, `corrupt` (failed integrity probe),
`countTimeout` (`count()` answers 0), `mismatch` (another vector dimension), `noDimension`. `force` is
`options.force`, kept in `forced` because the preflight asks for it again (`pipeline.ts:552`).

**Properties.**

- `TypeOK`: shapes of all variables (proved, `TypeCorrectness`).
- `SkippedFilesAreIndexed`: a file the next scan will skip by its fingerprint, with rows in the
  store, has exactly the rows of its current content. This is what makes incremental passes sound.
- `RecordedFilesAreComplete`: the in-memory manifest takes a file's new hash only after all its
  rows are in the store that manifest belongs to.
- `GoodFilesKeepTheirRows`: no step of an in-place pass touches the rows of a file that the saved
  manifest describes correctly.
- `RebuildLeavesIndexAlone`: before its promotion a rebuild changes neither visible rows nor the
  saved manifest.
- `EventuallyIndexed`, `LiveFilesEventuallyIndexed`: what stops changing is eventually, and from
  then on, indexed with its content.

**Fairness.** `FairSpec` assumes weak fairness of the pass's own steps (the event loop runs them)
and of starting a normal pass (every session, CLI call and burst of events starts one).
Nothing is assumed of users, of faults or of any single step: `PassStep` is one disjunction.

**Bounds.** Two files and two chunks each: one file can be in the store phase while the other is
prepared (`WindowSize = 1`), or share its window (`WindowSize = 2`), and a file can be embedded in
part. `MaxMtime = 2` gives an old and a new content and the case of an edit during a pass. Two
faults give a failure during the recovery from another.

### Runs

| Run | Configuration | What it shows |
|---|---|---|
| `IndexPass_faults` | LanceDB, two of every fault but `describe`, `loseManifest`, `corrupt` and `mismatch`, writes, touches and deletions (1.9M states) | `RecordedFilesAreComplete`, `GoodFilesKeepTheirRows`, `RebuildLeavesIndexAlone` |
| `IndexPass_clickhouse` | the same for upserts; crashes, aborts, failed extractions and chunkers, outages, lost rows | `GoodFilesKeepTheirRows` (`RecordedFilesAreComplete` by theorem) |
| `IndexPass_live` | `FairSpec`, one of outage, failed extraction, forced rebuild, failed swap | `EventuallyIndexed` |
| `IndexPass_recovery` | `FairSpec`, two of crash, lost manifest, lost rows, failed probe, other dimension, outage, failed description | `SkippedFilesAreIndexed`, `LiveFilesEventuallyIndexed` |
| `IndexPass_embed_retry`, `IndexPass_description_retry`, `IndexPass_epoch_rebuild` | one kind of fault each | violated, see below |

### Where the code does something else than it says

The runs with a violation show behaviours of the code that contradict its comments or
documentation (`findings` in `PROJECT.json` quotes both sides):

- `IndexPass_embed_retry`: embedding a modified file fails, its old entry stays, and the mtime
  refresh at the end of the same pass stamps that entry with the new fingerprint. The promised
  retry never happens. The same refresh also runs in aborted passes, with the same effect for
  files the pass never reached (`Faults = {"abort"}`, `SkippedFilesAreIndexed`), and after an
  exception in the chunker.
- `IndexPass_description_retry`: the entry of a file whose description failed is dropped before the
  scan; if its read fails in that pass, its rows look orphaned and are swept.
- `IndexPass_epoch_rebuild`: a ClickHouse rebuild saves checkpoints over the live manifest and
  sweeps rows of the live epoch.

Three more are in the sections of their modules: `StoreLocks_swap` (5), `KeywordIndex_readd` (9) and
`ConfigLayers_switch` (11).

The same model shows more when a configuration is changed (from `IndexPass_faults.cfg`, one
property at a time):

| Change | Property | What happens |
|---|---|---|
| `Faults = {"race"}` | `SkippedFilesAreIndexed` | an edit between read and stat is recorded with the old hash and the new mtime |
| `Edits = {"write", "revert"}`, `Faults = {"crash"}` | `SkippedFilesAreIndexed` | a crash between add and delete, then a revert: rows of both revisions stay |
| `Faults = {"countTimeout"}`, `FairSpec` | `EventuallyIndexed` | old revisions are not deleted and stay |
| `Edits = {"delete"}`, `Faults = {"loseManifest"}`, `FairSpec` | `EventuallyIndexed` | a rebuild of an empty workspace is discarded every time, rows of deleted files stay |
| `Edits = {"delete"}`, `Faults = {"describe"}`, `FairSpec` | `EventuallyIndexed` | a deleted file whose description had failed keeps its rows |

### Proofs (`IndexPass_proofs`, `IndexRows_proofs`)

`TypeOK` and `RecordedFilesAreComplete` are not inductive by themselves: that a file is complete
when it is recorded depends on what its store phase has done, and that on the file not being in
two windows at once. `Inductive` adds four parts:

- `Phases`: which variables are in use in which phase (outside `windows` no store phase runs);
- `Places`: a scanned file is still to be taken, in the front window, in the store phase or done,
  and in one of them only;
- `InFlight`: files on their way into the store have real content that differs from their entry;
- `StoreProgress`: from the insert to the commit, the new rows of every file in the store phase are
  in the target store.

`InductiveInit` and one lemma per part, with a step per action, give `InductiveInvariant`; the
theorems follow. They assume only the named assumptions of `IndexPass`. Proved: `TypeCorrectness`,
`RecordedIsComplete`, `LanceRebuildsAreInvisible`.

`IndexRows_proofs` proves the two properties that relate files, manifests and rows over many passes.
Both rest on `Past`, what is known of a file is never newer than the file: no entry and no scan
records a content newer than the file's (`NothingNewer`), no manifest knows one newer than the scan
found (`ScansAreLater`), and a file the walk missed has new content if it has any
(`MissedFilesAreNew`). So an entry with the file's content means that the scan found that content
too, and the pass has no reason to touch the rows. `Past` holds as long as no file gets an old
content back (`"revert"`).

- `GoodRowsStay` (`GoodFilesKeepTheirRows`, both backends). `Remembered`: an in-place pass knows of
  a file what the saved manifest knows, or it has no entry for it and writes its rows from nothing
  (the resume check dropped the entry because there were no rows). It assumes that no description
  fails (`IndexPass_description_retry` shows what happens then) and `EmptyMeansEmpty`: no start in
  which a `count()` that times out meets a failed integrity probe, or a forced rebuild without a
  dimension; such a pass takes a full store for empty.
- `SkippedAreIndexed` (`SkippedFilesAreIndexed`, LanceDB). `FingerprintsFit`: an entry or a scan with
  the file's mtime has the file's content. `TablesTell`: what a manifest (saved, in memory, or in the
  rebuild target) records as the file's content is stored completely in the table it belongs to, or
  not at all. `WholeFiles`, `Settled` and `Exact` carry this through the store phase: every text
  has its vector, a finished file has no entry or the entry of its scan, and what a file gets
  replaces what it had. `NothingMisleads` excludes what the violations and the table above refute it
  for (`"race"`, `"embed"`, `"chunk"`, `"abort"`, `"countTimeout"`, `"revert"`, and ClickHouse,
  whose rebuilds save a manifest before its rows are active). Every other fault is allowed: crashes,
  lost or corrupt state, failed descriptions and extractions, a provider outage, forced rebuilds and
  failed promotions.

The premises are conditions on the constants `Edits`, `Faults`, `Backend` and `MaxFaults`, and they
hold in the runs that check the same property (`IndexPass_faults` and `IndexPass_clickhouse` for the
first, `IndexPass_recovery` for the second). The liveness properties are model-checked only: the
prover has no `ENABLED`.

### Not in this model

The keyword index (updated while files are prepared), the description cache, the walk and its
limits, the git-incremental filter (its guard is never true), progress and statistics, and store
internals below add, delete and swap.

## 4. `ChangeRequests`, `WatchScheduler` and `Watcher`

`WatchScheduler` is `createWatchPassScheduler` (`indexer/watch.ts`), variable by variable: `timer`,
`running`, `rerun` (`rerunRequested`), `closed`, `full` (`fullPassRequested`), `paths`
(`pendingPaths`), `waiters`. JavaScript runs each function to its first `await`, so a step is one
call, one timer callback or one settled pass.

| Action | Code |
|---|---|
| `NotifyChange` | `notifyChange`, with paths or without (a full scan) |
| `TimerFires` | the timer's callback and `execute` up to `runPass` |
| `PassEnds` | `runPass` settles: the `finally` block, the rerun, `resolveWaiters` |
| `WaitForIdle`, `Close` | the methods of that name |

`Notified`, `Fires`, `Settles`, `Waits` and `Closes` add the bound on notifications.
`given` records what the running pass was asked to scan; it exists to state the refinement.

`ChangeRequests` is what the interface promises without timers and flags: paths are wanted, a pass
takes all that is wanted, passes do not overlap, and what is wanted is taken unless the scheduler is
closed. The refinement maps `wanted` to the pending paths (all of them for a full scan), `serving`
to `given`, `busy` to `running`.

- `NothingForgotten`: what is requested has a timer, or a pass that will be followed by another.
- `WaitersResolve`: `waitForIdle` always resolves, `close()` included. That it never outlives the
  last pass (`NobodyWaitsInVain`) is proved and in no run.
- `ImplementsChangeRequests`: the refinement, with its fairness.

Fairness: timers fire and passes settle. That a timer fires presupposes that events do not restart
it for ever, which the bound `MaxCalls` excludes and the code does not. Bounds: two paths
distinguish a full request from a partial one, two callers wait at different times, and four
notifications fall before, during and after a pass and its rerun.

`Watcher` extends the scheduler with the rest of `startActive` in `watcher.ts`. The workspace is
the number of its edits, the index the number of edits it reflects; a pass takes the lock, scans at
one instant, and succeeds or fails.

| Action | Code |
|---|---|
| `Ready`, `Edit`, `OtherStarts` | chokidar, users, other processes that run passes |
| `HandleChange`, `StartScheduled`, `RetryFires` | `handleChange`, the scheduler, the 30 s retry of a skipped pass |
| `TakeLock`, `Skip`, `Scan`, `Succeed`, `Fail` | a pass from `index.lock` to the status it leaves |

- `HealthIsHonest`: when nothing is running, pending or set to retry, and `deriveWatcherHealth` says
  healthy, the index reflects every edit.
- `CurrentOrStale`: in the end the index is current, or the status says it is not.

That the index becomes current by itself (`EventuallyCurrent`) holds without faults and fails with
`Faults = {"fail"}`: after a failed pass nothing runs until the next event, because the periodic
timer exists only for the git backend. With `Faults = {"early"}`, an edit before chokidar is ready
is missed by everything, and `HealthIsHonest` fails; the initial pass usually scans later than that.
Fairness: events are delivered, timers fire and passes go on; edits, failures and other processes
are not forced. Three edits and three faults cover a skip, a failure and a success in any order
around the initial pass. `CHECK_DEADLOCK FALSE`: a watcher without events rests.

`Watcher_proofs` proves of the scheduler, for any paths, callers and number of notifications, that `TypeOK`
and `Consistent` are invariant. `Consistent` adds to the two safety properties that a timer excludes
a running pass and a closed scheduler, and that a timer or a rerun implies that something is
requested; without the second, a step of the timer would be a pass of `ChangeRequests` that nobody
wanted. From it follow `NothingIsForgotten`, `NoVainWait` and `SchedulerImplementsRequests`, the
refinement without its fairness. The fairness part and `WaitersResolve` are model-checked.

Of the watcher it proves `HealthIsHonest` for any number of edits and faults (`HealthyMeansCurrent`),
assuming that `"early"` is not among the faults. The argument is in `NothingMissed`: when an edit
falls after the scan of a pass, something is `Pending` (an event, a timer, a rerun, a retry, or an
own pass that has yet to scan) until a later pass has scanned, so the success of the first pass may
call the index healthy only while the watcher is not at rest; `Orderly` ties the scheduler's flags
to its pass and the lock to the passes beyond it. `CurrentOrStale` is model-checked.

## 5. `StoreLocks`

Every process that works on a store directory, the two files they exclude each other with, and what
can happen between two operations on a file. `alive` are the living processes; a file is the id it
names or `Nobody`. `watcher.lock` exists empty between its creation and its write (`written`), and
an empty file reads like a missing one. `checked`, `seen` and `cleaner` are what a process read
before it decided.

| Actions | Code |
|---|---|
| `ReadIndexLock`, `WriteIndexLock`, `CannotWriteIndexLock`, `LeaseGranted`, `LeaseRefused`, `EndPass` | `runIndexPass` |
| `SwapStore` | `swapStoreDirectories` as it affects the locks |
| `StatusReads`, `StatusRemoves` | `checkStaleLock` of the status command |
| `ReadWatcherLock`, `UnlinkWatcherLock`, `CreateWatcherLock`, `LoseWatcherLock`, `StartActive` | `tryAcquireWatcherLock`; both attempts and the look every minute begin with the same read |
| `Close` | `close()` and `releaseWatcherLock` |
| `Crash`, `Restart` | a process disappears; a new one gets an id that was used before |

`disturbed` is a history of what has upset the locks: `raced` (a process removed or overwrote a file
that a living process had put there since the first one looked), `swapped` (a rebuild replaced the
directory), `unwritable` (the pass went on without its lock), `reused` (a new process has an id that
some file or some reader still names).

- `OnePass`, `OneWatcher`: until then, no two passes and no two watchers, in every interleaving of
  reads, unlinks, exclusive creates, writes and crashes.
- `LocksAreInUse`: after anything but `reused`, a lock that names a living process is in use by it.
  A lock left behind would stop all later passes, because a living owner is never overruled.
- `SomeoneWatches`: a process that waits for the workspace sees some process become its watcher,
  unless it ends or an id was reused.

What the premises exclude does happen in the code. With the premise dropped, TLC shows:

| Property without its premise | What happens |
|---|---|
| `OneWatcher`, no faults | B finds no lock; A finds none, creates its file; B unlinks that file and creates its own. Both watch. `O_EXCL` (comment at `watcher.ts:152`) protects the create, not the unlink before it; a reader also takes the still empty file for a missing one |
| `OnePass`, no faults | two processes read `index.lock` before either writes it |
| `LocksAreInUse`, `{"crash", "restart"}` | a process dies in a pass and its id comes back, as it does when a container restarts: the new process takes the old lock for a living one's, its own, and skips every pass |
| `SomeoneWatches`, `{"crash", "restart"}` | the same with `watcher.lock`: nobody ever watches |

The run `StoreLocks_swap` (a finding) keeps claims from racing and still gets two watchers: a rebuild
replaces the directory, `watcher.lock` is not among the entries that are carried over, and a dormant
process takes over from an owner that is alive and watching.

Bounds: two processes suffice for every pairwise exclusion; the theorems below cover any number.
Three faults allow a crash and a restart during the recovery from another disturbance. Fairness: a
living process goes on with its claim and looks again every minute; passes need not end.
`CHECK_DEADLOCK FALSE`: all processes may be dead or closed.

`Exclusion_proofs` proves `PassesExclude`, `WatchersExclude`, `NoLockLeftBehind` and type
correctness for any set of processes. The exclusions are not inductive: that a lock read as free is
still free when it is overwritten depends on what was read being dead since. `PassesOwnTheLock` and
`ClaimsOwnTheLock` say whose each file is and that `checked`, `seen` and `cleaner` name no living
process while nothing has upset the locks; `FilesAreInUse` does the same for `LocksAreInUse` and ties
`written` to the state of the claim; `TheDeadRest` says that crashed processes do nothing.
`SomeoneWatches` is model-checked.

Not in this model: the time limit of `close()` (it waits five seconds for a pass and releases
`watcher.lock` anyway), locks without a process id (nothing writes them any more), what happens to
the store when two passes run (`IndexPass` has one), and the states of the directory during a swap.

## 6. `CentralStore`

Machines that share a ClickHouse store. Every read and every write of the lease row and of the
`_meta` row is a step of its own (`ReadLease`, `WriteLease`, `Confirm`, `ReadRenewal`, ...,
`ReadForPromotion`, `Promote`), because `vectorstore/clickhouse.ts` has no compare-and-set: it
writes, waits and reads back. Time is modelled by what it decides: a lease that was read back sees
all writes that were on their way, unless a machine is `slow`; a lease in use is renewed in time,
unless a machine is suspended; a renewal ends before its pass, unless it is `late`. `upset` records
that one of these happened (`MeddlingKinds` and `MaxMeddling` bound them).

- `OneMachine`: no two machines are in a pass at once, until something was upset.
- `ActiveIsComplete`: what searches read stays a complete index once it is one.
- `ReadersCatchUp`, `SomeMachineIndexes`: a reader whose epoch was pruned finds the new one; in the
  end some machine gets the lease and indexes.

`Exclusion_proofs` also proves `CentralTypes`, `LeaseExcludes` and `CompleteStaysActive` for any
machines, epochs and faults. `HoldersHold` (while a machine is in a pass the lease names it, and
nobody who read it as free is still going to write it) makes the exclusion inductive; from it follows that
whoever rewrites `_meta` has read the row that is there, and so that only complete epochs are
promoted. The two liveness properties are model-checked.

A release that fails leaves the lease as it is until it expires (`WriteRelease`); it is logged and
nothing else (`clickhouse.ts:1112`). The command `clear` reads and rewrites `_meta` in one step here
(`Clear`; `clickhouse.ts:611-617`): a promotion that falls between the two is not in the model.

Nothing is claimed after an upset, and the code does lose then: a late renewal brings a released
lease back, `renewLease` that lost tells nobody, and `promoteRebuild` promotes whatever epoch is
pending, also another machine's. A discarded epoch's number is used again (`clickhouse.ts:648, 670`).

## 7. `LanceStore` and `StoreSwap`

`LanceStore`: two processes on one table. A write is up to three transactions (`Wipe`, `Insert`,
`Dedup`); an error is classified as by `isCorruptionError` and `isTransientConflictError`; a repair
(`ListVersions`, `Restore`) puts back an earlier version, and the operation runs again from its
beginning, by `addChunks` (`AfterRepair`) and by `withWriteLock` (`Unrepaired`, `Again`).
Of LanceDB itself the model takes what the code's comments say of it. Deletes compare paths without
their case (`lancedb.ts:396, 842, 887`); no two paths of the model differ by case only.

- `SettledFilesKeepRows`: a file with rows in every version there is never loses them, whatever
  fails, is run again or is repaired by others, unless a repair starts over with an empty table.
- `ReturnedIsStored`: when a write returns, the file's rows are those of that write.

The premises are there because of these behaviours: an "Incompatible transaction" counts as
corruption, so that a mere conflict restores an earlier version, without what was written since; a
reader whose version was cleaned restores the second-newest; with one version left the table is
dropped. Retries with the same ids can leave duplicates until the next write of the file.

Both are proved for any files, quirks and number of transactions (`StoredFilesKeepRows`,
`ReturnedWritesAreStored` in `Index_proofs`). Neither is inductive: `LanceInv` adds that every version,
also one a repair may go back to, has rows of every file as long as nothing started over; that a
write before its clean-up has its own rows in the newest version and a quirk's rows are wiped before
its insert (`Underway`), both only while the process can still commit: a restore by the other process
takes the rows and, with them, the right to commit; and that every retry starts from the beginning
(`JobFits`, `Untouched`). A retry that started at the clean-up, the mutant `AgainFromDedup`, would
break `Underway`. The proofs assume that no file has a quirk's path (`LanceAssumption`; quirk
paths carry a prefix).

`StoreSwap`: the exchange of directories at the end of a rebuild (`MoveAway`, `RenameBuilt`,
`RestoreBackup`, `Rescue`, `RemoveOld`), with crashes between any two steps, a busy or an occupied
directory, an abort, and outsiders that recreate the directory meanwhile. (Its proof: section 9.)

- `NothingIsLost`: a complete index stays in one of the three directories, and no quirk is lost
  unless it was noted during the exchange (`raced`).
- `IndexServed`: searches find it, except between the two renames, unless the process died there.

So "Original data stays untouched" (`pipeline.ts:422-424`) does not survive a crash between the
renames: the store is then at `_old`, and nothing reads that name; a leftover `_old` also makes
later promotions fail. A quirk noted between the second rename and the rescue makes
`preserveStoreArtifacts` skip the old `quirks.jsonl`. The run `Services` has one file, two
revisions and one quirk path in at most three versions with two mishaps; two quirks and three faults.

## 8. `QuirkStore`

A quirk is kept as a row of the store, as a record of `quirks.jsonl`, and with a central store in
the bundle that `StateSync` merges. Add, update, remove and reconcile are what they are in the code:
a read, an embedding, a write of the store, a write of the log and a flush, with an interleaving
possible between any two. `shared` tells one machine with LanceDB from one machine per process.

- `RecallMatchesList`: at rest and undisturbed, every row has the content that the log lists.
- `AddsAreNotOrphans`: reconcile's cleaning never takes rows of a quirk that its log lists by now.
- `QuirksSettle`: from some point on all logs list what was added and not removed (unless a write was
  based on stale data), each listed quirk has one row and the others none.

Fairness (`QuirksGoOn` of `MCServices`): operations end (weak fairness of `Continue`), now and then
all of them are over, every process starts again and runs passes now and then (a reconcile, and a
hydration where the bundle has something), and there are hours in which nobody does anything;
reconcile waits an hour before it takes a suspect row. In the run `Services`: one quirk, two
processes, two operations and one fault.

`DedupRows` is one step, in the code a scan and then a delete for each duplicated quirk
(`quirk-store.ts:509-520`): what another process writes to such a quirk in between is not in the
model.

`clashed` excepts what the code does lose: an update rewrites the log from a copy read before, a
flush and a hydration that overlap, a flush whose read failed and that overwrites the bundle, and a
crash between row and record, after which the row is an orphan. A machine whose log is behind takes
the new rows of others for orphans after an hour.

Both safety properties are proved for any quirks, processes, contents and operations
(`RecallAgreesWithTheList`, `OrphansAreNotListed` in `Plugin_proofs`), from `QuirkInv`. `Begun`: what
was never added is nowhere. `OrphansWait`: a quirk whose rows have waited for an hour is not being
added, and a scan's copy of the log lists it if the log does; every step that could list it is one
that holds up the hour, or rewrites a log that listed it. With a central store
`ScansAreFresh` is enough: nobody else writes a machine's log. For the contents, `RowsFit` says that
a row has the content of the record or that some process is between row and record, and needs
`Emptied` (rows are inserted where there are none), `Inserted` (nobody else has touched them until the
record is written, else `clashed`) and `Remembered` (no record vanishes). `QuirksSettle` needs
fairness and is model-checked.

## 9. `InvertedIndex`, `KeywordIndex`, `HybridIndex`

`KeywordIndex` models slots, folded postings (`csr`), pending additions (`added`) and deletions
(`dels`), lengths and their total. A save is three steps: the fold (`BeginSave`), the renumbered image
(`TakeImage`) and the write (`EndSave`); the index changes between them and saves overlap. The file is
written in place (`keyword-index.ts:584`), so a write may also leave what does not parse, which `Load`
takes for an empty index. A chunk has one of several texts each time it is added.

`InvertedIndex` is the promise: a chunk is found by the tokens of every text it was put with since its
file was last dropped, and a restart finds an image that some save took, or nothing. The promise is
the weaker one because `addChunks` of a chunk that is there keeps what was posted for it before.
`IndexKeepsPromise` is the refinement: slots, folding, tombstones and renumbering are invisible
through any sequence of adds, repeated adds, removals, overlapping saves and restarts. `settled` is
there because chunks put between fold and image are in the file without their tokens
(`keyword-index.ts:525-545`).

`AddOverwritesById` is what `quirk-store.ts:466-467` says of `addChunks`, that it overwrites by id, and
what `reconcileQuirks` relies on when it adds restored and deduplicated quirks again. It is violated
(run `KeywordIndex_readd`, a finding): the chunk stays findable by words of its old content until
its file is dropped, and its tokens count twice in `totalTokens`, which `RemoveByFilePath` takes back
once.

`HybridIndex` puts the entries next to the rows over two passes with whole, partial and failed
embeddings, restarts and rehydration. `HalvesAgree`: after a pass every file with rows is found by
keywords, and by those of the same revision except for files in the situations `agreed` leaves out
(embedded in part, or written by a pass that stopped): the entries of a file are updated when it is
prepared (`worker.ts:277`), its rows when they are stored.

`Index_proofs` holds the proofs about the table, the swap, the two halves and the index itself.
`RebuildLosesNothing` and `SearchesAreServed` cover any number of quirks, crashes and failed
renames. Neither property is inductive; `SwapInv` adds `DirectoriesTell` (how far the rebuild has
got shows in the three directories, and a store that was moved away is never renamed over),
`KeptSomewhere` (one of two names holds the complete index, and the other is removed only after
everything was carried over) and `ServedOrAway` (when nothing is served, the store's name is free
between the two renames).
`SearchHalvesAgree` covers any files and passes. `HybridInv` adds `EntriesAreDated` (no entry or row
bears the number of a pass to come, and no saved entry that of the pass under way),
`PreparedFilesHaveEntries`, `NoGaps` (during and after a pass no file with rows lacks entries) and
`HalvesInStep` (a file in `agreed` has the entry of its row, or is between the two writes).
`KeywordIndexKeepsPromise` is the refinement of `InvertedIndex`, for any chunks, files and tokens and
any number of slots. Its invariant `KeywordInv` says that a live chunk has a slot of its own which is
not deleted (`SlotsOK`), that a posting counts something (`PostingsOK`), and that no chunk is twice in
an image, being written or on disk (`FilesOK`). From it a
chunk is matched by a token just when its slot is posted, which is what each step has to keep: a fold
because it drops postings of deleted slots only, a save because `Renumbered` numbers the live slots one
to one (`LiveSlotsAreNumbered`), a load because the slot of a saved chunk is found by the chunk.

## 10. `EmbedBatch`, `HttpPool`, `DescCache`

`EmbedBatch`: batches under a limit of concurrency, attempts, the classification of errors,
splitting in halves, the breaker.

- `TextsGetTheirVectors`: a vector belongs to its text or is missing; an oversized text costs its
  neighbours nothing, and one answer gone wrong nobody.
- `DeadGatewayLeftAlone`: a gateway that is down is asked at most as often as the breaker allows.
  A server that *refuses connections* is not covered: with more than one text per batch such a batch
  is split, and the breaker never trips (`factory.ts:285-300`).

`HttpPool`: requests over pooled connections, with time-outs, aborts, idle timers and answers that
come late. `ConnectionsServeOne`: a connection serves one request at a time and an answer reaches the
request it answers.

`DescCache`: sub-batches that put descriptions while others save, with saves that queue up, crashes,
and renames that fail, with or without the loss of the old file. `DescriptionsAreSaved`: after a pass
every description in memory is on disk, however puts and saves overlap. Two exceptions are stated by
name: the last write failed (`unsaved`), or the description is `late`, that is, it came between the
snapshot and the rename of a save and no later save took it along. The rename takes away its mark
(`desc-cache.ts:86-107`), so the end of the pass finds a clean cache. Without `- late` TLC shows this
loss; a description put during any other save must be, and is, on disk in the end.

`Embedding_proofs` proves all four for any texts, batch sizes, retries, connections, requests and
descriptions:

| Theorem | Invariant behind it |
|---|---|
| `EveryTextIsEmbedded` | `WorkIsCut`: the parts a batch has left are disjoint, in order, and none of their texts has a vector; `VectorsBelong`; `MendedSoFar`: while the errors are few enough, no text was given up |
| `TheBreakerStopsTheRequests` | `OnlyFailures`: the requests sent are at most the failures in a row, plus the attempts of the batches that run (`Asked`) |
| `ConnectionsExclude` | `SocketsOweOne`: a usable connection owes one answer, to the request that uses it, or none, and what is in use is not in the pool; `AnswersFit` |
| `NothingDescribedIsLost` | `SavesAreWhole`: what is in memory is in the snapshot or came after it, a clean cache is on disk but for what is `late`, and at the end of a pass somebody waits to save a dirty one |

They need only the named assumptions of the modules. Proving them found two premises that the
instance had hidden, now part of the properties. With one text per batch (`BatchSize = 1`) an
oversized text is a failed batch like any other, so oversized texts can open the breaker and cost
their neighbours the vectors; and without retries (`RetryMax = 0`) one lost answer is one lost
vector. `MaxFailures = 0` switches the breaker off.

## 11. `ConfigLayers` and `PluginSession`

`ConfigLayers`: the machine's file, the project's file and the runtime overrides, with two settings
standing for all: the embedding model, which belongs to the machine, and an option of the project.
Writers are the terminal's dialog (`PickModel`, `PickOption`, `FinishPick`), the browser's view
(`OpenView`, `Type`, `ClickTheme`, `Save`, `FinishSave`), the wizard (`StartSetup`, `ApplySetup`,
`StripProject`), `Repair`, and the plugin's `Probe`; readers are the plugin (`Reload`, `TakeStamps`,
`LoadFiles`, `ReadOverrides`) and passes (`CommandLinePass`, `WatchPass`). Reading and rewriting one
file is one step: the code does it synchronously, though another process could come in between
(in `Save`, between the check at `config-api.ts:571` and the write at 610).

- `SavesAreNotShadowed`: when dialog and view have finished, the value in force is the file's.
- `NothingOverwrittenUnseen`: the view overwrites only what it showed (a theme click excepted: its
  answer refreshes the mtimes, and the check at `config-api.ts:571` passes with an old draft).
- `PluginCatchesUp`: under weak fairness of its look at the files and at the overrides (a call of
  the plugin every few seconds), the plugin comes to serve what is there.
- `SwitchesRebuild` is violated (run `ConfigLayers_switch`, a finding): the cached dimension outlives
  a switch of the model, and the next pass is refused.

Also visible in the model: the repair of a model in the project's file leaves the machine's
dimension showing through; the wizard clears no overrides, and keys it could not strip go on
shadowing; stripping writes back the project file as it was read before the question; the plugin's
dimension changes only with a reload.

`PluginSession`: two hooks at once in one session, with failures of two causes. `OneGotchaPerCause`:
one gotcha for each cause of a tool's failures, while errors of different causes are handled side by
side, lists are read during creations, and caches and cool-downs come and go. `mixed` is the set of
causes for which the code does make two, and each gets into it by one of three steps: two errors of
that cause are handled at once and both pass `shouldCreate`; a list whose read began before the
creation is cached after it (`plugin.ts:983-991`) and misses the gotcha; the gotcha arrives after its
budget, behind a cached list. All other causes stay covered, also while these happen.
`KeyPressesWait`: the hotkey waits for a message that can use it, unless it was pressed during the
count of `chat.message`, which then takes the later press with the earlier one (`pressed`).

`Plugin_proofs` proves, for any models, options, hooks, failures and causes,
`NoOverrideOutlivesASave`, `SavesReplaceWhatWasShown`, `CausesGetOneGotcha` and
`PressesAreAnswered`. For the settings, `ViewShowsFiles` says that the view shows what is in the files whose times it has (unless a theme
click brought it new ones), and `OverridesFollow` that an override is the file's value, or the
dialog or the view is about to make it so. The first gives the action property as well. For
the session, `CausesApart` says of each cause that is not in `mixed` that one hook handles its errors
at a time, that a cached list has its gotcha, and that a hook about to create one knows of none
because there is none (`KeptApart`); `PressesSeen` that a message which noted a key press
answers the latest. `PluginCatchesUp` needs fairness and is model-checked.

## 12. `Chunking` and `Retrieval`

Pure algorithms, checked over all inputs of bounded size against what they should preserve.

`Chunking`: a file is the lengths of its lines; the parser's nodes are any choice. All files of up to
five lines of four lengths, with `MaxLines = 2` and `MaxChars = 4`, meet every branch of
`splitOversized`: windows that are full by lines or by characters, lines that must be cut, lines
repeated. `ChunksTellTheFile`: every line is in a chunk, the range of a parsed file's chunk is true,
and without overlap no chunk is longer than it may be. With overlap one can be: `applyChunkOverlap`
adds lines after the splitting (two slices of a cut line give 16 001 characters), and splitting has
repeated lines already. Pieces of a window of the fallback chunker can have wrong line numbers,
because `trim` does not move `startLine`. `maxChunkSize: 0` is documented as no limit
(`config.ts:678`) and means 100 (`factory.ts:455`).

`ChunksAlwaysTellTheFile` (`Search_proofs`) proves it for any lengths of lines, any number of them, any
layout of a parser (`ChunkingAssumption`: nodes are ranges of the file's lines) and any limits and
overlap. `Windowed` is the invariant of the loop over a chunk's lines: the window is the lines between
the offset and the current one, every line before the offset is told by the pieces (`Told`: in one of
them, or all its slices are), each piece has the lines its range says (`OfChunk`), and without overlap
window and pieces are within the limits (`Short`). `FlushIs`, `PushIs` and `WrappedIs` keep it, one for
each thing `NextLine` can do. `SplitIs` adds that a blank piece tells nothing that is not blank, and
`SlicesIs` that no slice is blank, so the filter at the end of `splitOversized` loses no line;
`FallbackIs`, that the windows of the fallback chunker cover the file.

`Retrieval`: rankings of both legs over four chunks of two files, weights, gates, rerank scores.
Scores are integers with 480 for 1, K is small so that ranks weigh differently. `BestHitsServed`: no
file that was found loses its best hit to a weaker one, the answer is in the order of its scores, no
chunk is in two results, and a merged result has the range of its chunks if they are `Unnested`: none
begins no later than another and ends after it. Without that condition it is not so: a merge ends
where the last of its chunks ends (`context-optimizer.ts:121`), and of two chunks that begin on one
line, like the declarations in `const a = 1; function f() {`, the last is the lower ranked (91-93), so
the one of a single line, ranked second, ends the range there, though the content of the other is in
the result. What the property does not say either: `retrieve` cuts to `topK` before the
optimizer runs, which has nothing left to "backfill from reserve"; after reranking with a floor, hits
of the tail keep fused scores and can precede reranked ones.

`EveryAnswerServesTheBestHits` (`Search_proofs`) proves it for any index, rankings, weights, gates,
scores and limits. `RetrievalInv`: the hits are distinct passages with integer scores (`HitsOK`), no
more than `topK` once ranked, and what is answered serves them (`BestServed`). The steps of
`optimizeContext` are lemmas of one form, that what is left `Covers` what there was: for each row it
has one of the same file with as good a score. A merge covers because it takes the best score of the
run (`MergeKeeps`), a round of `dedupeSimilar` because the row it drops is similar to a better one of
the same file that stays (`ThinnedKeeps`, `DedupeKeeps`), the cap because it drops those with enough
better ones (`SelectedKeeps`). For the ranges (`RangeHolds`) it matters that a merge is of hits in the
order of their first lines (`InLines`, `Single`); nothing is assumed of how the chunks of a file lie.

What both algorithms compute in loops is defined by recursive functions, and the proofs go by induction
on numbers in the form the provers can use: a set of numbers has a least element (`LeastNat`, from the
library's theorem on well-founded sets), hence what holds at 0 and goes up holds upwards (`Upwards`),
and what is defined from the value before is defined (`RecursionExists`). Sorting and filtering are
`Arranged` of `Ordering`, which both modules extend: `ArrangedIs` says that any strict total order puts
the members of a finite set in a row, each once.

### The runs of sections 4 to 12

| Run | Configuration | What it shows |
|---|---|---|
| `Watching` | two paths, two callers, four notifications; three edits, three faults; two processes, three faults; two machines, three epochs, two faults (313k states) | the properties of sections 4 to 6 |
| `Services` | see sections 7 to 12; each part by itself (683k states) | their properties |
| `StoreLocks_swap`, `ConfigLayers_switch`, `KeywordIndex_readd` | one rebuild; one switch; one chunk with two texts | violated, sections 5, 11 and 9 |

`Watching` and `Services` start in any one of their parts and stay in it: parts that do not interact
are not multiplied with each other. Fairness in both is that of the part in question.
`CHECK_DEADLOCK FALSE` in both: a store, a session or a file that nobody uses rests.

### Not modelled

The tokenizer and the BM25 scores; SQL and filters; the git-incremental filter (dead code at this
commit: `loadManifest` never returns `lastGitCommit`); the in-memory store; prompts and payloads of
describers and the decision provider; the shell guard, a classification by regular expressions; the
MCP server and web handlers that only read; rendering; the evaluation scripts. The auto-update state
(`plugin.ts`, `core/auto-update-state.ts`) and the walk of the workspace are small enough to follow.
The map covers about a tenth of the implementation's lines: most of the rest is tables of settings
and parsers, text, layout, command lines and the browser's components, which keep no state that
outlives a call.

## 13. Reading and running

`tlc -config X.cfg M` for the runs of `PROJECT.json`, `tlapm M.tla` for the `_proofs` modules. The
definitions marked `(mutant)` are plausible bugs of the definition after them; `PROJECT.json` pairs
each with the property that detects it. `map` gives the source lines of each definition.
