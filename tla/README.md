# pi-mcp: a TLA+ verification project

pi-mcp is an MCP server that runs *workflows* by launching `pi` processes, one
per job, with a cap on how many run at once. Jobs survive client calls: a client
submits (`pi_workflow`), polls (`pi_status`), lists (`pi_list`) and cancels
(`pi_cancel`). Several servers share one SQLite registry, and a dashboard reads
it. This directory models the parts of that system whose correctness depends on
the order in which goroutines, processes and servers take their steps.

## Inventory

| part | state | operations | interacts with |
|---|---|---|---|
| job registry (`internal/jobs/registry.go`, `job.go`) | `jobs`, FIFO `queue`, `slots`, `closed`, `WaitGroup`; per job: record, launch context, `done`, `correlated` | Submit, start, runAttempts (wait, authoring retry), correlate, finish, Close | launcher, correlator, pruner, store; MCP handlers call it |
| cancel (`cancel.go`) | as above | Cancel | kills through the launch context, prunes |
| SQLite store (`store.go`) | table `jobs`, one row per job with its owner's pid | UpsertJobs, AllJobs, ClaimTerminal, SaveSnapshot, legacy import | shared by all servers and the dashboard |
| reconcile (`reconcile.go`, `app/app.go`) | none of its own | Reconcile at start-up and every 60 s | store, liveness, pruner |
| liveness (`liveness.go`) | none | pidAlive, effectiveStatus | process table |
| launcher (`app/launcher.go`) | pipe, session channel, `.authoring` file | Launch, observeAuthoring, authoringWriter, wait | runner, parser |
| runner (`internal/runner`) | the child process and its group | Spawn, kill on cancel, Wait | operating system |
| worktrees (`internal/worktree`) | git worktree and branch of a write job | Create, Diff, Prune | git |
| app adapters (`app/jobs_adapter.go`) | worktree handles | create-on-submit, snapshotRunFile, WriteInfoFor | registry, worktrees, run store |
| run store (`internal/runstore`) | run files on disk | RunIDForSession, ReadRun, ListRuns, authoring | written by pi, read by all |
| status (`mcpserver/handler_status.go`, `delta.go`, `livestatus`) | per-run delta marks | pi_status, long poll | registry, run store, watch |
| other handlers, validation (`mcpserver`) | none | pi_workflow, pi_list, pi_cancel | registry |
| file watcher (`internal/watch`) | fsnotify watches | Subscribe | wakes correlate and the long poll |
| dashboard (`internal/dashboard`) | clients, last state, run cache | Tick, broadcast, parse cache | store and run files, read-only |
| parser, config, model, mains, installer, web UI | none or presentation | | |

The behaviours that are hard to test: Submit, Cancel, finish, Close and
correlate interleave around one mutex that is released before every kill, launch
and prune; an authoring retry reuses a job whose earlier goroutines may still
run; a flush may fail; several servers sweep the same table from snapshots that
are already old; a server may die between any two steps while its `pi` children
go on; the goroutines behind a launch outlive the attempt they belong to; a
directory watch is armed while the directories are still being created; the
dashboard reads rows and files that change between its system calls.
`PROJECT.json` lists each of these hazards at its line, with the
properties that would catch it.

What makes the parts correct:

* registry: slots are neither lost nor freed twice, the queue is FIFO and moves,
  terminal states stay, `done` means done, a worktree is never removed under a
  live process, the expensive fleet is not run twice, Close returns and leaves
  nobody behind who writes to the store;
* store and reconcile: a living server's rows and worktrees are its own, a dead
  server's jobs are reaped once, what was delivered is kept;
* status: a call is always answered, a delta never skips a journal entry, a quiet
  stretch is warned about once per key, an answer tells what became of the job;
* launcher: the parser, its teed copy and the preview writer never block each
  other for good, the end of a workflow is not lost, no preview file is left;
* watcher: the watch follows the path as it appears, no change stays unreported;
* dashboard: a cached run is never older than its file, a client's stream has no
  gap and ends with the present state, a job with a run snapshot keeps its detail.

## Modules

| module | role |
|---|---|
| `Registry` | the job registry of one server with cancel, correlate and Close |
| `Admission` | abstract: capped admission with a FIFO line |
| `RegistryProofs` | types and control invariant of `Registry`, proved |
| `AdmissionProofs` | slots, queue discipline, life cycle and refinement, proved |
| `OutcomeProofs` | what a job leaves behind (`done`, ids, run files, row, worktree, snapshot), quiet store after Close, absence of deadlock; proved |
| `SharedStore` | several servers, one table: legacy import, ownership, sweeps, claims, death |
| `SharedProofs` | types, ownership of rows and worktrees, claims and import of `SharedStore`, proved |
| `StatusWait` | concurrent `pi_status` calls on one job: target, long poll, grace, delta tracker |
| `StatusProofs` | types, the mark and the warnings of `StatusWait`, proved |
| `LaunchPipe` | the goroutines behind a job's launches: parser, observer, preview writer, wait |
| `LaunchPipeProofs` | types, the workflow's end, the preview and absence of deadlock in `LaunchPipe`, proved |
| `Watch` | one subscription of the file watcher on a path that is being created |
| `WatchProofs` | types, arming and reporting of `Watch`, proved |
| `RunCache` | the dashboard's parse cache over a run file that is being rewritten |
| `Dashboard` | extends `RunCache`: poller, hub, SSE clients, detail requests |
| `DashboardProofs` | types and safety of `RunCache` and `Dashboard`, proved |
| `MCRegistry`, `MCSharedStore`, `MCStatusWait`, `MCLaunchPipe`, `MCWatch`, `MCDashboard` | instances for TLC |

### Registry

One action per critical section of `Registry.mu`, and one per step between two
of them. `pc[j]` is the position of the goroutine that drives job `j`:

| code | actions |
|---|---|
| `jobsAdapter.Submit`, `Submit`, `tryAdmitUnlocked`, rollback | `SubmitAdmitted`, `SubmitQueued`, `SubmitRejected` |
| `start` | `Launch`, `LaunchFails`, `SpawnAttempts`, `DropLaunched` |
| `runAttempts` | `WaitOK`, `WaitAborted`, `WaitErr`, `DecideRetry`, `DecideFail`, `RetryClear`, `Relaunch`, `LaunchFails`, `NextAttempt` |
| `correlate` | `CorrelateSession`, `CorrelatePoll`, `CorrelateStop` |
| `finish` | `FinishRecord` (the critical section), `FinishSnapshot`, `FinishPrune`, `FinishClose` |
| `Cancel` | `CancelQueued`, `CancelQueuedPrune`, `CancelRunning`, `CancelKill` |
| `Close` | `CloseBegin`, `CloseCancel`, `CloseStore` |
| the pi process | `PiSession`, `PiRunFile`, `PiExit`, `PiKilled`, `EscapedEnds` |

`host[j]` records on whose stack the driver runs, because `finish(j)` calls
`start(next)` on its own goroutine and that goroutine is what the WaitGroup
counts. `Flush` is part of every action whose critical section flushes; it may
fail when `StoreFaults` holds or the store is closed. Launch *n* of a job stands
for its pid, session and run id. Abstracted: times, error texts, prompts, the
contents of run files (they are taken to parse and to stay below
`maxSnapshotBytes`). `wait()` drains the standard output before it reaps the process
(`launcher.go:69-74`): `held` are the jobs whose output a process outside pi's group
keeps open after pi ended, and `Returned` the guard that both pi and that output
are gone. A rejected Submit goes through the admission and its rollback (`FreeSlot`,
`RemoveFromQueue`) under one lock, in one step. The two adjacent critical sections
that record a pid and install the correlate channel, which nobody else reads, are one
step. `Cancel` of a job in a terminal state and of an unknown job change nothing and
need no action.

### SharedStore

Each server is one process that starts once and may die at any time; death
loses its memory (`mem`, `pc`, its sweep) and keeps rows, children and
worktrees. A job's driver is reduced to what reaches the row, the child or the
worktree: `pc`, `launches`, the pid it recorded. `Upserted` and `Claims` are the
`WHERE` clauses of the two SQL statements. A sweep is `ReconcileRead` (the
snapshot of AllJobs), then per row `ReconcileSkip` or `ReconcileClaim`, then
`ReconcileWorktree` for a row it claimed; all but the claim use the snapshot.
The visit order of rows is left open. Process ids of servers may be reused.

A server that starts on an empty table next to a `registry.json` goes through
`migrateLegacyJSON` first: `Start` counts, then `MigrateRead`, `MigrateImport`
and `MigrateRename`, any of which may fail or be the last step before a death.
`Legacy` is the content of that file. What servers of the older program do
afterwards is not modelled, except that they may still use their worktrees.

### StatusWait

One job with one run file, read by a few concurrent calls. `Call` is
`resolveTarget`; a call then goes through rounds of `waitForChange`
(`RoundBlind`, `RoundFirst`, `RoundAgain`, and `WarnCheck` for the tracker's
`shouldWarn`, which locks on its own) and through `buildStatus` (`BuildAbsent`,
`BuildRetry`, `BuildError`, `BuildLoad`, and `BuildTake` for the tracker's
`take`). Loading and taking are separate steps, so two calls may load different
versions and take in either order. A call by runId is resolved also before the run id
is recorded (the client names the worktree as its cwd): it then reads the run file
under the run's own key, without the job. The target is kept from the call's beginning,
as in the code. The run file is rewritten in two steps, between which it does not
parse and `ReadRun` falls back to the `.bak`. File events and the ticker only
decide when a round happens; a round may happen at any time. The registry appears
as `Correlate`, `Cancel` (marks the job first) and `ProcessEnds` (`finish` and
its prune). `got` and `warns` record what clients received and which epochs were
warned about; no action of the code reads them. Of a run only the journal length,
the number of agents, the phase, the status and `updatedAt` are kept; `paused` is
`running`, as `mapDiskStatus` makes it. Every journal entry is taken to have its
agent, and modification times are not in the future.

### LaunchPipe

`Launch` starts three goroutines per attempt. The parser alternates
`ParserCheck` (the context), `ParserRead` and `ParserLine`; a line is in the
unbuffered pipe between the last two, until `ObserverRead` takes it. The observer
handles a line (`ObserverHandle`: session id, pending snapshot) and at the end of
the pipe waits for the writer (`ObserverFlush`) and removes the preview
(`ObserverRemove`). The writer takes a snapshot, writes `.tmp` and renames it.
`WaitParse` and `WaitReap` are `wait()`, which does not wait for the observer: the
next attempt may be launched beside it, and both use the same two file names. pi
prints a session event, text, a session event again and the end, and may stop after any line; a
process outside its group may keep the output open (`escaped`). One read of the
output is one line. Disk errors of the preview are not modelled, since nobody
looks at them, and a workflow that ends with `isError` is like one without an end.

### Watch

The path to the target has the levels `0..Depth`. `addNearest` is `AddUp` and
`AddDown`, one `w.Add` per step, called by `Subscribe` and again by `run` for every
create (`RunEvent`, `RunAdd`, then `RunStat` for the immediate hint and `RunFilter`
for `within` and the debounce timer). `Mkdir`, `WriteFile` and `Elsewhere` act
between any two of these steps and leave an event only in a directory that is
watched by then. `Overflow` drops the queue. Directories are not removed. The
consumer reads the version of the files when `Subscribe` returns and at each hint.

### RunCache and Dashboard

A reader of `RunCache` takes one step per system call or critical section: stat,
lookup with the lazy sweep, parse, parse of `.bak`, store, and the recovery read
after a failure. pi rewrites the file in two steps, may keep a `.bak`, and the file
may vanish. The stat key (mtime, size) is taken to differ between two writes.

`Dashboard` adds one job's row and its process. The server writes the row (`Submit`,
`Promote`, `Cancel`, `Correlate`, `Finish`, `Capture`); `Cancel` flushes "aborted"
before it kills pi, so pi writes its file, and the server records the run id, under a
terminal row until `Finish`. Another server may claim the row of a dead one (`Reap`),
whose pi may live on; only the server that drove the job to `Finish` captures its
file. The registry's own reads are taken to succeed in a detail request. Then there
are the poller (`TickStart` with the registry read
and `refreshWatches`, the read, `TickPublish` under the lock, `TickBroadcast`),
SSE handlers (`ClientSubscribe`, `ClientPaint`, `ClientRecv`, `ClientLeave`,
`ClientClose`) and the detail request (`DetailStart` to `DetailAnswer`, whose
summary and body each load the run). Wakes only decide when a tick happens; a tick
may happen at any time. A snapshot of the state is the job's displayed status, its
blind window and the version of its run; counts, order and agents are functions of
those, and fields copied from the row change with them. The wall clock is reduced
to which versions are older than `StaleThreshold` and whether the worktree is
active.

## Runs

| run | instance | shows |
|---|---|---|
| `RegistryRetry` | 1 write and 1 read job, cap 1, 1 retry, escaped processes | `done`, prune, correlation, fleet, snapshot, close and life cycle under every interleaving |
| `RegistryQueue` | 3 read jobs, cap 1, symmetric, every write may fail | slots and queue exact, no idle slot, refinement of `Admission` (first come first served); rollback of Submit, rows only lag |
| `RegistryLive` | 1 write and 1 read job, cap 1, 1 retry, escaped processes, fair | a cancel takes effect, Close returns, the queue moves, if the outputs close in the end |
| `SharedSweep` | 4 servers (one reused pid), 1 write job, 1 retry, writes and claims may fail | ownership of rows and worktrees, delivered work kept, single pruner, terminal rows |
| `SharedReap` | 3 servers, a legacy file with 1 job, fair, no write of a live job fails | the import loses nothing and exposes no worktree, dead owners are reaped |
| `SharedOrphan` | 2 servers | *violation*: a worktree is pruned under a live orphan |
| `StatusDelta` | 2 calls on a write job, 1 journal entry, 3 time units | the mark never passes what was received; one warning per key and activity epoch |
| `StatusReturns` | 1 call, abandoned or not, fair | types; every call is answered |
| `StatusBlind` | 1 call, fair | *violation*: a wait by jobId does not see the run file appear |
| `WatchLate` | target 3 levels down, 2 writes, 1 unrelated event, overflows, fair | the watch follows the path, every change is reported, cancel ends the goroutine |
| `DashPoll` | 1 write job that is canceled or fails, 2 versions of its run file, 1 client with a buffer of 1, 1 detail request, 1 fault, fair | cache, stream and detail are right; the poller converges |
| `PipeRetry` | 2 attempts, a cancel, escaped processes, fair | the end is not lost, no preview is left, every attempt ends |

**Bounds.** Two jobs on one slot are enough for every pair of drivers to meet:
one holds the slot while the other waits, is promoted, canceled or dropped, and
one retry separates a first, a middle and a last attempt. FIFO order needs a
third job. `RegistryQueue` and `RegistryLive` leave out the session events
(`NoSessions`), so that correlate waits until it is canceled; what it finds feeds
back into neither admission, the kill nor the WaitGroup, and `RegistryRetry` explores
it in full. In `SharedStore` one job
suffices since rows do not interact, and four servers give an owner, two
competing sweepers and a newcomer with the owner's pid. In `StatusWait` two calls
give every order of two loads and two takes, with one of them behind the mark
through the `.bak`, and three instants let an older epoch be checked after a
newer one; thresholds and the cap are one unit or none. The constraint `Scope` keeps
writes out of the last instant and edits of the worktree in the first, lets the job
end by a cancel only and one call at a time ask for a replay. `StatusDelta` has no
abandoned calls, `StatusReturns` has. In `Watch` three levels give a
directory that appears behind the walk, under it and ahead of it, and two writes
one before and one after the precise watch. In `Dashboard` two versions are enough
for a key and a content of different age, a buffer of one for a full channel, and
"aborted" and "failed" are the ends by Cancel, by finish and by another server; the
constraint `OneVisitor` explores the client and the detail request one at a time
(they share only what both read), keeps ageing, faults, orphans and the second
version out of the client's behaviours, and lets a detail request meet the poller in its
first tick only (they share only the cache). `OneTrouble` gives the poller faults, a
busy worktree and an orphan one at a time. The theorems need none of this. In `LaunchPipe` two
attempts are the overlap. Symmetry is used only in runs without temporal liveness
properties. Deadlock checking is off in all
runs: jobs and servers are finite in number and the system may stop for good
once they are used up; that nobody waits for ever is stated as liveness.

**Fairness.** `Registry`: weak fairness for the steps of a job's driver, its
correlate goroutine, the kill that follows a called `cancel()`, and the rest of a
Cancel or Close already begun, since the Go scheduler runs every runnable
goroutine and `exec.CommandContext` kills the process group once the context
ends. Nothing obliges clients to call, an unkilled process to exit, or a process that
left pi's group to give up the output (`EscapedEnds` has no fairness). The properties
state what they need of that as a hypothesis: `OutputCloses`, that the output of the
job (`CancelTakesEffect`) or of every job (`CloseReturns`, `QueueMoves`) is not held
open for ever, and `QueueMoves` besides that no process runs for ever. `SharedStore`: the reconcile
loop of a live server ticks (`app.go`, ticker) and a pi process ends eventually;
nothing obliges servers to start or die. `StatusWait`: time passes up to the
bound (a wait is only begun when its cap fits below it) and a call in progress
goes on, since the ticker wakes every wait; nothing obliges clients to call, pi to
write or correlate to succeed. `Watch`: the goroutine and the consumer run; strong
fairness for the debounce timer and the closed `done`, because Go's select picks
among ready cases at random. `Dashboard`: the ticker makes ticks go on, and a
connected client is written what its channel holds; writers and connections are
free. `LaunchPipe`: goroutines run and a canceled context kills pi; pi and who
escaped its group need not end.

## Findings

1. **Orphan without a recorded pid.** A server that dies after `Launch` and
   before the flush of the pid leaves a child that no row names; the next sweep
   prunes its worktree while it runs (`SharedOrphan`).
2. **The blind window of a jobId.** The target is resolved once. A wait by jobId
   that begins before `correlate` recorded the run id reads `<runsDir>/.json` in
   every round, so the run file appearing never ends it; it runs into the cap
   (`StatusBlind`). The next call sees the run.

### Observations

Comments of the code that TLC refutes. The properties are stated in the modules and
can be checked by naming them as the `PROPERTY` of a configuration with the
constants given; no run repeats them.

* **"A failure with NO run file is an authoring failure"** (`registry.go:57`):
  `runFileExists` looks for any `*.json` in the runs directory, which read jobs of
  one directory share, so an authoring failure is not retried once another run left
  a file there. `Registry!AuthoringFailuresRetried`: `FairSpec`, two read jobs,
  `RunsDir <- SharedDir`, `Cap = 2`, one retry. The safe direction, `NoFleetRerun`,
  holds.
* **"A later reconcile ... prunes it"** (`reconcile.go:41`): the sweep claims the
  row as failed before it looks at the orphan, and later sweeps skip terminal rows;
  the worktree stays. `SharedStore!LaterReconcilePrunes`: `FairSpec`, two servers,
  one write job.
* **"A non-terminal status whose process is confirmed dead becomes failed"**
  (`livestatus.go:38`): the server's `pidAlive` always answers true, so a job
  recorded as failed whose file says running is answered as running.
  `StatusWait!EndedJobAnswered`: `FairSpec`, one call, `MaxNow = 2`.
* **"So Wait() never blocks forever"** (`runner.go:94`): `wait()` drains the output
  before it calls `proc.Wait`, so when a process outside the group keeps the output
  open, the wait of a canceled job does not return and the job keeps its slot; Close
  waits for it too. This is why the liveness properties of `Registry` need
  `OutputCloses`.
  `LaunchPipe!WaitNeverBlocks`: `FairSpec`, `MaxAttempts = 1`, `Escapes = TRUE`.
* **"It will catch up on the next snapshot"** (`hub.go:6`): a client whose channel
  was full loses the frame, and the next one is sent only when the state changes
  again. `Dashboard!SlowClientCatchesUp`: the constants of `DashPoll`.

* **"Each quiet stretch warns exactly once"** (`delta.go:42-43`): the tracker counts
  per key. A wait by runId that began before the run id was recorded warns under the
  run's key, a wait by jobId under the job's, about the same stretch.
  `StatusWait!WarnOncePerStretch`: the constants of `StatusDelta`.

And four that no comment contradicts: a detail request that reads an aborted row
between Cancel's flush and the capture may find no run id, or a torn file that keeps
it from looking for a snapshot, and is answered without a body
(`Dashboard!AbortedJobHasDetail`, the constants of `DashPoll`; the next request has
one); what was written between two calls is in the
base of the next wait, which is not woken by it and delivers it at the cap
(`handler_status.go:388`); `loadWithGrace` does not retry for a terminal job since
"nothing is mid-write", but a canceled job is terminal before its process is dead
(`cancel.go:50`); and a call whose context was canceled still takes the new entries,
which the next call then skips (`handler_status.go:208`), so `MarkMeansDelivered`
holds only for calls that are not abandoned.

## Proofs

The theorems about `Registry` hold for any finite set of jobs, any cap >= 1, any
retry bound, any assignment of directories, with or without store faults; those
about `StatusWait` for any set of calls, thresholds and bounds; those about
`SharedStore` for any servers, pids, jobs and legacy file; those about `Watch`
for any depth, about `Dashboard` for any set of clients, buffer and number of
versions, about `LaunchPipe` for any number of attempts (the `ASSUME`s of the
modules; TLC evaluates them in every run).

* `TypeCorrect`: types, and the launch bound inside them. The bound needs to
  know that a driver at `relaunch` has launches left, which `LaunchBound` adds.
* `RollbackExact` (a lemma): the rollback of a rejected Submit restores slots and queue.
* `QueueCorrect`: `QueueExact`. Not inductive alone: that `finish` promotes a job
  nobody else drives needs the correspondence of status and driver position
  (`StatusPC`), of queue and driver position (`QueuePC`), and that a promoted job
  is owned by exactly the one finish that promoted it (`PromotionOwned`). Together
  with the types they form `IInv`, proved action by action in `TypeNext` and
  `ControlNext`.
* `SlotsCorrect`, `NoIdleSlot`: `SlotAccounting` and `WorkConserving` are
  inductive relative to `IInv` (`SlotsNext`): the token count follows
  `Cardinality(Holders)` through each action that adds or removes a holder.
* `TerminalStays`, `FirstComeFirstServed` (`NoOvertaking`): from `StatusSteps`, which
  lists every way a status can change and what holds then.
* `Implements`: `Registry` implements `Admission` under `waiting <- queue`,
  `holding <- Holders`, `left <- Left`, `shutdown <- closed`. Submit,
  CancelQueued, FinishRecord and CloseBegin are abstract steps, all others
  stutter (`AdmissionStep`).
* `DoneCorrect`, `PruneIsSafe`, `CorrelationIsFresh`, `FleetRunsOnce`,
  `RowsNeverAhead`, `StoreIsQuiet`, `SnapshotFirst`: all from `OutcomeProofs!OInv`,
  which adds to `IInv` what holds at each position of a driver.
  * `Effects`: a process is alive only between a launch and the return of `wait()`
    (`ProcPC`); an admitted job has a context, also while a kill of it is pending
    (`Contexts`), so Cancel of a running job never prunes on its own; `done` counts
    exactly the drivers that went past their last step (`Doneness`); only those at
    the very end are pruned (`Pruned`). Gives `DoneSignal` and `PruneSafe`.
  * `Identity`: correlate is active only inside an attempt, and the ids are cleared
    at `relaunch` (`Correlating`); there is no run file wherever a launch may follow,
    and a recorded run id names a file as long as the worktree is there
    (`RunFiles`); rows are copies of earlier values of a record whose pid only grows
    (`Rows`, with `StatusSteps` for the status). Gives `CorrelationFresh`,
    `NoFleetRerun` and `StoreNeverAhead`.
  * `Shutdown`: no two drivers share a goroutine, a goroutine that drives a job not
    its own is that of an ended job, and inside an attempt a job is on its own one
    (`Hosts`); the store is closed only after the WaitGroup drained, and then start
    drops what it launched (`Closing`); `Snaps`, which needs all of the above: the
    run id is final when finish takes the snapshot, its file is still there, and the
    store is open because a job with a run id is on a tracked goroutine. Gives
    `StoreQuiet` and `SnapshotBeforePrune`.
* `CancelMakesProgress`, `CloseMakesProgress`, `QueueMakesProgress`: the safety half of
  the three liveness properties of `Registry`. `Moves(j)` lists the guards of the
  fair steps of job `j`; whoever is waited for by `<-done`, by `wg.Wait()` or by the
  queue satisfies it, or has a promoter that does, or (queue) a pi process that runs,
  or is `Blocked`: in `wait()` with pi dead and its output held by an escaped process,
  the one wait that no fair step ends.
  They need `Kills` (a kill that is due is still pending in Cancel or in Close; a
  driver that waits for its correlate has canceled it) and `Tracked` (every WaitGroup
  entry has a driver, every promoted job its promoter). From there fairness takes
  the system on, which is what `RegistryLive` checks.
* `StatusProofs!TypeCorrect`: types of `StatusWait`, inductive as they stand.
* `DeltaCorrect`: `MarkMeansDelivered` under `~Abandons`, inductive together with
  the types and "no call is gone" (`NoneGone`): `take` either delivers from the
  mark, so the new positions join the old ones, or from the start.
* `WarnedOncePerKey`: `WarnOncePerKey` follows from `WarnBound`, which adds that every epoch
  warned about is at most the tracker's; a new warning is then for a fresh epoch.

* `RowsOfLivingOwners`, `WorktreesStay`, `OnePruner`, `LegacyImportSafe`,
  `TerminalRowsStay` and the types of `SharedStore`: all from one inductive invariant,
  `SharedProofs!IInv`. `Owned` says that whoever drives a job lives and that only
  drivers have a record; `SweepRows` that the stale copy a sweep holds of a driven job
  names its living owner, so that a sweep which finds the owner dead looks at a job
  nobody drives any more; `SweepClaims` and `SweepPrunes` that a claimed job is one
  sweep's alone and stays failed; `Legacies` that the imported rows are there before
  the file can be moved; `Kept` which worktrees must exist. The six steps that set a
  record and flush it are first shown to be instances of one (`Recorded`). Neither
  distinct pids nor successful writes are assumed.
* `WatchArmed`: `DeepestWatched` needs `Arming`: while the deepest directory is not
  watched a create is queued or `addNearest` is on its way, and going down it stands
  on a directory that exists and is watched.
* `WatchReports`: `HintCoversWrite` needs `Reporting`: an unread change is on its way
  as an event, a timer or a hint, or was missed by a watch that is being armed and
  will be answered by the stat after it.
* `CacheIsCoherent`: `CacheCoherent` needs `KeysCoherent`: a reader about to store
  under the file's own key holds the file's content, and one that found the primary
  unreadable holds a key that never matches again (`Past`).
* `HubMissesNothing`, `HubNeverSendsOnClosed`: from `Streams`: who is in the hub, and
  that a handler which has subscribed and not yet painted has nothing older than the
  latest snapshot in its channel.
* `DetailSurvivesCleanup`: `EndedJobHasDetail` needs `DetailServed`: a captured job is
  over, so neither pi nor the row's writers act any more and its file, while it is
  there, can be read; and past its look at the disk a request that found the capture
  has the snapshot or reads such a file.
* `PipeKeepsEnd`: `EndNotLost` needs `ReadToEnd`: the order of `wait()`, and that a
  parser which ended on a live context has read all that was printed.
* `PipeLeavesNothing`: `NoPreviewLeft` needs `PreviewOwned`: while there is a file
  some observer has still to remove it, while there is a `.tmp` some writer has still
  to rename it.
* `PipeMakesProgress`: once the process is gone and no one holds its output, the
  unbuffered pipe, the snapshot channel and the two waits form no cycle
  (`PipeNotStuck`). It needs `ReadToEnd` and `PipeOrder`: the observer leaves the
  pipe only after the parser closed it and is never ahead of it.

TLC found the inductive invariants of `OutcomeProofs` and `PipeOrder` to hold before
they were proved: a module that extends the proof module, with the constants of the
run on the same component (for `OutcomeProofs`: `RegistryRetry`, and `RegistryQueue`
with a write job), and the parts as `INVARIANT`s. In the same way TLC found `Moves(j)` to imply
`ENABLED (Drive(j) \/ Correlate(j) \/ PiKilled(j))` and `PipeMoves(a)` to imply
`ENABLED (Parse(a) \/ Wait(a) \/ Observe(a) \/ Write(a))`; the prover has no rules
for ENABLED.

Only model-checked: the liveness properties (`CancelTakesEffect`, `CloseReturns`,
`QueueMoves`, `DeadOwnerReaped`, `CallReturns`, `CancelEndsWatch`,
`WritesReachConsumer`, `PollerConverges`, `AttemptEnds`), whose fairness and ENABLED
are out of the prover's reach. Every invariant and action property that a passing
run checks is a theorem.

## Not modelled, and the plan

Left out for good: rendering of prompts and argv, argument coercion, static pages
and web UI, tailscale discovery, the installer and the mains (I/O and text); the
workflow, list and cancel handlers, which only call the registry; the pure
functions over one run file (list and event joins, histograms, truncation), whose
inputs are data; the git commands inside Create, Diff and Prune. Not modelled
either: removal of watched directories, errors of the disk, two writes with the
same mtime and size, servers of the older program after the import.

Next:

1. Theorems: the safety half of the remaining liveness properties
   (`DeadOwnerReaped`, `CancelEndsWatch`, `PollerConverges`), as done for `Registry`
   and `LaunchPipe`.
2. Worktree steps inside Create and Prune; `effectiveStatus`.
