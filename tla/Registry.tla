------------------------------ MODULE Registry ------------------------------
(***************************************************************************)
(* The concurrency-capped job registry of one pi-mcp server                *)
(* (internal/jobs/registry.go, cancel.go, job.go), with the parts of the   *)
(* launcher, the pi process, the run files, the worktrees and the SQLite   *)
(* store that its goroutines observe.                                      *)
(*                                                                         *)
(* Every critical section of Registry.mu is one action; what happens       *)
(* between two of them (Launch, wait, cancel, Prune, close(done)) is a     *)
(* step of its own.  A job's driver is the goroutine that executes start,  *)
(* runAttempts and finish for it; host[j] is the goroutine whose stack     *)
(* that code runs on, because finish(j) calls start(next) synchronously.   *)
(*                                                                         *)
(* Launches of a job are numbered 1, 2, ...; the pid, the session id and   *)
(* the run id produced by launch n are all represented by n, and 0 stands  *)
(* for "not set".                                                          *)
(***************************************************************************)
EXTENDS Naturals, Sequences, FiniteSets

CONSTANTS
  Jobs,                 \* job ids, each submitted at most once (uuid)
  WriteJobs,            \* the jobs submitted in write mode
  RunsDir,              \* [Jobs -> directory]: where a job's run files go
  UsedDirs,             \* directories holding a run file of an earlier run
  Cap,                  \* config.DefaultConcurrencyCap
  MaxAuthoringRetries,  \* config.MaxAuthoringRetries
  StoreFaults,          \* whether a write to the store may fail
  Escapes,              \* whether pi may leave a process outside its group
  NoJob                 \* "no job" / "the Submit caller's goroutine"

ASSUME JobsAssumption  == IsFiniteSet(Jobs) /\ WriteJobs \subseteq Jobs
ASSUME CapAssumption   == Cap \in Nat \ {0}
ASSUME RetryAssumption == MaxAuthoringRetries \in Nat
ASSUME NoJobAssumption == NoJob \notin Jobs
ASSUME FaultAssumption == StoreFaults \in BOOLEAN /\ Escapes \in BOOLEAN

VARIABLES
  \* guarded by Registry.mu
  rec,        \* the JobRecords; status "none" = not in r.jobs
  queue,      \* FIFO of queued jobs
  slots,      \* tokens in the slots channel
  closed,     \* Close has begun
  wg,         \* jobs whose runAttempts goroutine has not returned
  \* the drivers
  pc,         \* where each job's driver is
  attempt,    \* launches so far
  host,       \* the goroutine the driver runs on (NoJob: Submit's caller)
  next,       \* the queued job that finish promoted and must start
  outcome,    \* the status finish was called with
  ctx,        \* launch context: "none", "live" or "canceled"
  done,       \* how often close(j.done) was executed
  cor,        \* the correlate goroutine of the current attempt
  corCanceled,\* attemptCancel was called
  \* callers
  killing,    \* Cancel marked the job aborted, cancel() still to be called
  closer,     \* progress of Close
  closeList,  \* cancels Close still has to call
  \* the environment
  proc,       \* pi and its group: "none", "alive", or how they ended
  held,       \* jobs whose standard output an escaped process holds open
  sessionCh,  \* the session channel: "empty", "full" or "used"
  runFiles,   \* launches of the job that left a run file on disk
  wt,         \* the worktree of a write job: "none", "present", "pruned"
  db,         \* the rows of this server in the jobs table
  storeOpen,  \* store.Close has not been called
  snap        \* jobs whose run file was snapshotted into the store

schedVars == <<queue, slots, closed, wg>>
driveVars == <<attempt, host, next, outcome, done>>
ctxVars   == <<ctx, cor, corCanceled>>
callVars  == <<killing, closer, closeList>>
piVars    == <<proc, held, sessionCh, runFiles>>
diskVars  == <<wt, storeOpen, snap>>
vars == <<rec, pc, db, schedVars, driveVars, ctxVars, callVars, piVars, diskVars>>

-----------------------------------------------------------------------------
Terminal == {"completed", "failed", "aborted"}      \* isTerminal
Status   == {"none", "queued", "running"} \cup Terminal
Launches == 0 .. (MaxAuthoringRetries + 1)
JobRecord == [status: Status, session: Launches, run: Launches, pid: Launches]
NoRecord  == [status |-> "none", session |-> 0, run |-> 0, pid |-> 0]

\* Where a driver may be.  "launch" .. "finish" hold a slot.
HoldingPCs == {"promoted", "launch", "launched", "dropped", "wait", "decide",
               "retry", "relaunch", "relaunched", "finish"}
PCs == {"idle", "rejected", "queued", "unqueued", "snap", "prune", "closing",
        "end"} \cup HoldingPCs

Registered == {j \in Jobs : rec[j].status # "none"}
Holders    == {j \in Jobs : pc[j] \in HoldingPCs}
Queued     == {queue[i] : i \in 1 .. Len(queue)}

-----------------------------------------------------------------------------
(***************************************************************************)
(* Helpers named after the code.  Each faulty variant (suffix _Bug) stands *)
(* directly above the operator it deviates from and is used by no action.  *)
(***************************************************************************)

\* removeFromQueueUnlocked, for a job that is in the queue.
RemoveFromQueue_Bug(q, j) == q
RemoveFromQueue(q, j) ==
  LET pos == CHOOSE i \in 1 .. Len(q) : q[i] = j
  IN [i \in 1 .. (Len(q) - 1) |-> IF i < pos THEN q[i] ELSE q[i + 1]]

\* select { case <-r.slots: default: }: take one of n tokens out.
FreeSlot_Bug(n) == n
FreeSlot(n) == IF n > 0 THEN n - 1 ELSE n

\* startingUnlocked: the launch context is installed with status running.
WithContext(j) == [ctx EXCEPT ![j] = "live"]

\* recordsUnlocked / flushUnlocked: upsert every job of this server.  All
\* flushes but the one in Submit are best effort: their error is dropped.
FlushedRows(r) ==
  [j \in Jobs |-> IF r[j].status # "none" THEN r[j] ELSE db[j]]

Flush(r) ==
  \/ storeOpen /\ db' = FlushedRows(r)
  \/ (StoreFaults \/ ~storeOpen) /\ db' = db

\* runFileExists: ANY run file in the directory counts.
HasRunFile_Bug(j) == rec[j].run # 0
HasRunFile(j) ==
  \/ RunsDir[j] \in UsedDirs
  \/ \E k \in Jobs : RunsDir[k] = RunsDir[j] /\ runFiles[k] # {}

\* The authoring-retry decision of runAttempts.
ShouldRetry_Bug(j) == ctx[j] = "live" /\ ~HasRunFile(j)
ShouldRetry(j) ==
  attempt[j] <= MaxAuthoringRetries /\ ctx[j] = "live" /\ ~HasRunFile(j)

\* <-correlated: the correlate goroutine of this attempt has exited.
CorrelateExited_Bug(j) == TRUE
CorrelateExited(j) == cor[j] \in {"off", "done"}

\* finish: the status read before the compare-and-set decides whether a slot
\* is released, and the compare-and-set itself.
WasRunningSlot_Bug(s) == s = "running"
WasRunningSlot(s) == s \in {"running", "aborted"}

FinalStatus_Bug(j) == outcome[j]
FinalStatus(j) ==
  IF rec[j].status \in Terminal THEN rec[j].status ELSE outcome[j]

\* finish: may the freed slot be handed to the head of the queue?
MayPromote_Bug == ~closed /\ Len(queue) > 1
MayPromote == ~closed /\ Len(queue) > 0

\* finish: prune the worktree of an aborted write job.
PrunesAtFinish_Bug(j) == FALSE
PrunesAtFinish(j) == j \in WriteJobs /\ rec[j].status = "aborted"

\* Cancel of a running job prunes at once only if there is no launch context.
PrunesInCancel_Bug(j) == j \in WriteJobs
PrunesInCancel(j) == j \in WriteJobs /\ ctx[j] = "none"

\* Cancel of a running job goes on to call its cancel function.
WillKill_Bug(j) == killing
WillKill(j) == killing \cup {j}

\* Close: the jobs whose cancel function is collected.
CloseCollects_Bug == {}
CloseCollects == {j \in Registered : ctx[j] = "live"}

\* start: Close raced ahead of the launch.
CloseRaced_Bug == FALSE
CloseRaced == closed

AttemptCtxDone(j) == ctx[j] = "canceled" \/ corCanceled[j]

-----------------------------------------------------------------------------
Init ==
  /\ rec = [j \in Jobs |-> NoRecord]
  /\ queue = <<>> /\ slots = 0 /\ closed = FALSE /\ wg = {}
  /\ pc = [j \in Jobs |-> "idle"]
  /\ attempt = [j \in Jobs |-> 0]
  /\ host = [j \in Jobs |-> NoJob]
  /\ next = [j \in Jobs |-> NoJob]
  /\ outcome = [j \in Jobs |-> "failed"]
  /\ ctx = [j \in Jobs |-> "none"]
  /\ done = [j \in Jobs |-> 0]
  /\ cor = [j \in Jobs |-> "off"]
  /\ corCanceled = [j \in Jobs |-> FALSE]
  /\ killing = {} /\ closer = "open" /\ closeList = {}
  /\ proc = [j \in Jobs |-> "none"] /\ held = {}
  /\ sessionCh = [j \in Jobs |-> "empty"]
  /\ runFiles = [j \in Jobs |-> {}]
  /\ wt = [j \in Jobs |-> "none"]
  /\ db = [j \in Jobs |-> NoRecord]
  /\ storeOpen = TRUE /\ snap = {}

-----------------------------------------------------------------------------
(***************************************************************************)
(* Submit.  The adapter creates the worktree of a write job first.  The    *)
(* initial flush is mandatory: when it fails, the admission is undone      *)
(* under the same lock and the caller gets PERSISTENCE_ERROR.              *)
(***************************************************************************)
CreateWorktree(j) ==
  wt' = IF j \in WriteJobs THEN [wt EXCEPT ![j] = "present"] ELSE wt

SubmitAdmitted(j) ==
  /\ pc[j] = "idle" /\ slots < Cap /\ storeOpen
  /\ CreateWorktree(j)
  /\ slots' = slots + 1
  /\ rec' = [rec EXCEPT ![j].status = "running"]
  /\ ctx' = WithContext(j)
  /\ pc' = [pc EXCEPT ![j] = "launch"]
  /\ db' = FlushedRows(rec')
  /\ UNCHANGED <<queue, closed, wg, driveVars, cor, corCanceled, callVars,
                 piVars, storeOpen, snap>>

SubmitQueued(j) ==
  /\ pc[j] = "idle" /\ slots >= Cap /\ storeOpen
  /\ CreateWorktree(j)
  /\ queue' = Append(queue, j)
  /\ rec' = [rec EXCEPT ![j].status = "queued"]
  /\ pc' = [pc EXCEPT ![j] = "queued"]
  /\ db' = FlushedRows(rec')
  /\ UNCHANGED <<slots, closed, wg, driveVars, ctxVars, callVars, piVars,
                 storeOpen, snap>>

\* The flush failed: what tryAdmitUnlocked did is rolled back.  An admitted
\* job gives a token back, a queued one is taken out of the queue again, and
\* the job leaves r.jobs with its record and context.  The worktree stays.
SubmitRejected(j) ==
  /\ pc[j] = "idle" /\ (StoreFaults \/ ~storeOpen)
  /\ CreateWorktree(j)
  /\ IF slots < Cap
     THEN slots' = FreeSlot(slots + 1) /\ queue' = queue
     ELSE slots' = slots /\ queue' = RemoveFromQueue(Append(queue, j), j)
  /\ pc' = [pc EXCEPT ![j] = "rejected"]
  /\ UNCHANGED <<rec, db, closed, wg, driveVars, ctxVars, callVars, piVars,
                 storeOpen, snap>>

-----------------------------------------------------------------------------
(***************************************************************************)
(* start and runAttempts.                                                  *)
(***************************************************************************)

\* Launch succeeded.  exec.Cmd.Start refuses a context that is canceled.
LaunchOK(j, from, to) ==
  /\ pc[j] = from /\ ctx[j] = "live"
  /\ pc' = [pc EXCEPT ![j] = to]
  /\ attempt' = [attempt EXCEPT ![j] = @ + 1]
  /\ proc' = [proc EXCEPT ![j] = "alive"]
  /\ sessionCh' = [sessionCh EXCEPT ![j] = "empty"]
  /\ UNCHANGED <<rec, db, schedVars, host, next, outcome, done, ctxVars,
                 callVars, held, runFiles, diskVars>>

LaunchFails(j) ==
  /\ pc[j] \in {"launch", "relaunch"}
  /\ pc' = [pc EXCEPT ![j] = "finish"]
  /\ outcome' = [outcome EXCEPT ![j] = "failed"]
  /\ ctx' = [ctx EXCEPT ![j] = "canceled"]
  /\ UNCHANGED <<rec, db, schedVars, attempt, host, next, done, cor,
                 corCanceled, callVars, piVars, diskVars>>

Launch(j) == LaunchOK(j, "launch", "launched")
Relaunch(j) == LaunchOK(j, "relaunch", "relaunched")

\* The goroutine start ran on is released: its runAttempts returns.
Release(j) == wg \ {host[j]}

\* Record the PID, then the top of runAttempts' loop: a fresh attempt context
\* and a correlate goroutine.  The two critical sections follow each other on
\* one goroutine and nobody else reads what the second one installs.
BeginAttempt(j) ==
  /\ rec' = [rec EXCEPT ![j].pid = attempt[j]]
  /\ Flush(rec')
  /\ cor' = [cor EXCEPT ![j] = "session"]
  /\ corCanceled' = [corCanceled EXCEPT ![j] = FALSE]
  /\ pc' = [pc EXCEPT ![j] = "wait"]
  /\ UNCHANGED <<queue, slots, closed, attempt, next, outcome, done, ctx,
                 callVars, piVars, diskVars>>

\* start, second critical section: spawn the runAttempts goroutine ...
SpawnAttempts(j) ==
  /\ pc[j] = "launched" /\ ~CloseRaced
  /\ BeginAttempt(j)
  /\ wg' = Release(j) \cup {j}
  /\ host' = [host EXCEPT ![j] = j]

\* ... or, when Close raced ahead, kill the process and forget the job.
DropLaunched(j) ==
  /\ pc[j] = "launched" /\ CloseRaced
  /\ ctx' = [ctx EXCEPT ![j] = "canceled"]
  /\ wg' = Release(j)
  /\ pc' = [pc EXCEPT ![j] = "dropped"]
  /\ UNCHANGED <<rec, db, queue, slots, closed, driveVars, cor, corCanceled,
                 callVars, piVars, diskVars>>

\* attemptCancel(); cancel(); finish(j, s)
CallFinish(j, s) ==
  /\ corCanceled' = [corCanceled EXCEPT ![j] = TRUE]
  /\ ctx' = [ctx EXCEPT ![j] = "canceled"]
  /\ outcome' = [outcome EXCEPT ![j] = s]
  /\ pc' = [pc EXCEPT ![j] = "finish"]
  /\ UNCHANGED <<rec, db, schedVars, attempt, host, next, done, cor, callVars,
                 piVars, diskVars>>

\* wait() returns once the parser reached the end of the standard output, and
\* only then reaps the process: an escaped process that holds the output open
\* keeps wait() blocked, canceled or not.
Returned(j, r) == proc[j] = r /\ j \notin held

\* wait() returned nil.
WaitOK(j) == pc[j] = "wait" /\ Returned(j, "ok") /\ CallFinish(j, "completed")

\* wait() returned an error: the status is read under the lock ...
WaitAborted(j) ==
  /\ pc[j] = "wait" /\ Returned(j, "err") /\ rec[j].status = "aborted"
  /\ CallFinish(j, "aborted")

WaitErr(j) ==
  /\ pc[j] = "wait" /\ Returned(j, "err") /\ rec[j].status # "aborted"
  /\ pc' = [pc EXCEPT ![j] = "decide"]
  /\ UNCHANGED <<rec, db, schedVars, driveVars, ctxVars, callVars, piVars,
                 diskVars>>

\* ... and the retry decision is taken after it was released.
DecideRetry(j) ==
  /\ pc[j] = "decide" /\ ShouldRetry(j)
  /\ corCanceled' = [corCanceled EXCEPT ![j] = TRUE]
  /\ pc' = [pc EXCEPT ![j] = "retry"]
  /\ UNCHANGED <<rec, db, schedVars, driveVars, ctx, cor, callVars, piVars,
                 diskVars>>

DecideFail(j) == pc[j] = "decide" /\ ~ShouldRetry(j) /\ CallFinish(j, "failed")

RetryClear(j) ==
  /\ pc[j] = "retry" /\ CorrelateExited(j)
  /\ rec' = [rec EXCEPT ![j].run = 0, ![j].session = 0]
  /\ Flush(rec')
  /\ pc' = [pc EXCEPT ![j] = "relaunch"]
  /\ UNCHANGED <<schedVars, driveVars, ctxVars, callVars, piVars, diskVars>>

NextAttempt(j) ==
  pc[j] = "relaunched" /\ BeginAttempt(j) /\ UNCHANGED <<wg, host>>

-----------------------------------------------------------------------------
(***************************************************************************)
(* correlate: session id first, then poll for the run file.  The session   *)
(* id of launch n is n, and RunIDForSession finds the run file carrying    *)
(* it.                                                                     *)
(***************************************************************************)
Resolved(j) == rec[j].run # 0 \/ attempt[j] \in runFiles[j]

WithRun(j) ==   \* tryResolveRunUnlocked
  IF rec[j].run = 0 /\ attempt[j] \in runFiles[j] THEN attempt[j]
                                                  ELSE rec[j].run

CorrelateSession(j) ==
  /\ cor[j] = "session" /\ sessionCh[j] = "full"
  /\ rec' = [rec EXCEPT ![j].session = attempt[j], ![j].run = WithRun(j)]
  /\ Flush(rec')
  /\ sessionCh' = [sessionCh EXCEPT ![j] = "used"]
  /\ cor' = [cor EXCEPT ![j] = IF Resolved(j) THEN "done" ELSE "poll"]
  /\ UNCHANGED <<pc, schedVars, driveVars, ctx, corCanceled, callVars, proc,
                 held, runFiles, diskVars>>

CorrelatePoll(j) ==   \* a tick or an fsnotify wake that finds the run file
  /\ cor[j] = "poll" /\ Resolved(j)
  /\ rec' = [rec EXCEPT ![j].run = WithRun(j)]
  /\ Flush(rec')
  /\ cor' = [cor EXCEPT ![j] = "done"]
  /\ UNCHANGED <<pc, schedVars, driveVars, ctx, corCanceled, callVars, piVars,
                 diskVars>>

CorrelateStop(j) ==   \* <-ctx.Done()
  /\ cor[j] \in {"session", "poll"} /\ AttemptCtxDone(j)
  /\ cor' = [cor EXCEPT ![j] = "done"]
  /\ UNCHANGED <<rec, pc, db, schedVars, driveVars, ctx, corCanceled,
                 callVars, piVars, diskVars>>

-----------------------------------------------------------------------------
(***************************************************************************)
(* finish: one critical section that makes the record terminal, frees the  *)
(* slot and hands it to the head of the queue; then, outside the lock, the *)
(* run snapshot, the prune, close(done), and start of the promoted job.    *)
(***************************************************************************)
FinishRecord(j) ==
  /\ pc[j] = "finish" /\ CorrelateExited(j)
  /\ LET final    == [rec EXCEPT ![j].status = FinalStatus(j)]
         frees    == WasRunningSlot(rec[j].status)
         promotes == frees /\ MayPromote
     IN /\ rec' = IF promotes
                  THEN [final EXCEPT ![Head(queue)].status = "running"]
                  ELSE final
        /\ slots' = IF frees /\ ~promotes THEN FreeSlot(slots) ELSE slots
        /\ queue' = IF promotes THEN Tail(queue) ELSE queue
        /\ next' = [next EXCEPT ![j] = IF promotes THEN Head(queue) ELSE NoJob]
        /\ ctx' = IF promotes THEN WithContext(Head(queue)) ELSE ctx
        /\ pc' = IF promotes
                 THEN [pc EXCEPT ![j] = "snap", ![Head(queue)] = "promoted"]
                 ELSE [pc EXCEPT ![j] = "snap"]
  /\ Flush(rec')
  /\ UNCHANGED <<closed, wg, attempt, host, outcome, done, cor, corCanceled,
                 callVars, piVars, diskVars>>

\* snapshotRunFile: the run files still readable when the snapshot is taken,
\* which is before the worktree can disappear (the bug: after its prune).  Run
\* files are taken to parse and to stay below maxSnapshotBytes.
SnapshotRun_Bug(j) == IF PrunesAtFinish(j) THEN {0} ELSE runFiles[j]
SnapshotRun(j) == runFiles[j]

FinishSnapshot(j) ==
  /\ pc[j] = "snap"
  /\ \/ rec[j].run \in SnapshotRun(j) /\ storeOpen /\ snap' = snap \cup {j}
     \/ /\ rec[j].run \notin SnapshotRun(j) \/ ~storeOpen \/ StoreFaults
        /\ snap' = snap
  /\ pc' = [pc EXCEPT ![j] = IF PrunesAtFinish(j) THEN "prune" ELSE "closing"]
  /\ UNCHANGED <<rec, db, schedVars, driveVars, ctxVars, callVars, piVars, wt,
                 storeOpen>>

PruneWorktree(j) ==
  /\ wt' = [wt EXCEPT ![j] = "pruned"]
  /\ runFiles' = [runFiles EXCEPT ![j] = {}]

FinishPrune(j) ==
  /\ pc[j] = "prune"
  /\ PruneWorktree(j)
  /\ pc' = [pc EXCEPT ![j] = "closing"]
  /\ UNCHANGED <<rec, db, schedVars, driveVars, ctxVars, callVars, proc,
                 held, sessionCh, storeOpen, snap>>

\* close(j.done); then start(next) on the same goroutine, or return.  The
\* locals of finish and runAttempts are gone afterwards.
FinishClose(j) ==
  /\ pc[j] = "closing"
  /\ done' = [done EXCEPT ![j] = @ + 1]
  /\ IF next[j] # NoJob
     THEN /\ pc' = [pc EXCEPT ![j] = "end", ![next[j]] = "launch"]
          /\ host' = [host EXCEPT ![j] = NoJob, ![next[j]] = host[j]]
          /\ wg' = wg
     ELSE /\ pc' = [pc EXCEPT ![j] = "end"]
          /\ host' = [host EXCEPT ![j] = NoJob]
          /\ wg' = Release(j)
  /\ next' = [next EXCEPT ![j] = NoJob]
  /\ outcome' = [outcome EXCEPT ![j] = "failed"]
  /\ cor' = [cor EXCEPT ![j] = "off"]
  /\ corCanceled' = [corCanceled EXCEPT ![j] = FALSE]
  /\ UNCHANGED <<rec, db, queue, slots, closed, attempt, ctx, callVars, piVars,
                 diskVars>>

-----------------------------------------------------------------------------
(***************************************************************************)
(* Cancel.  Terminal and unknown jobs: no effect.                          *)
(***************************************************************************)
CancelQueued(j) ==
  /\ rec[j].status = "queued"
  /\ queue' = RemoveFromQueue(queue, j)
  /\ rec' = [rec EXCEPT ![j].status = "aborted"]
  /\ Flush(rec')
  /\ done' = [done EXCEPT ![j] = @ + 1]
  /\ pc' = [pc EXCEPT ![j] = IF j \in WriteJobs THEN "unqueued" ELSE "end"]
  /\ UNCHANGED <<slots, closed, wg, attempt, host, next, outcome, ctxVars,
                 callVars, piVars, diskVars>>

\* The prune of a job canceled in the queue, after the lock was released.
CancelQueuedPrune(j) ==
  /\ pc[j] = "unqueued"
  /\ PruneWorktree(j)
  /\ pc' = [pc EXCEPT ![j] = "end"]
  /\ UNCHANGED <<rec, db, schedVars, driveVars, ctxVars, callVars, proc,
                 held, sessionCh, storeOpen, snap>>

CancelRunning(j) ==
  /\ rec[j].status = "running"
  /\ rec' = [rec EXCEPT ![j].status = "aborted"]
  /\ Flush(rec')
  /\ killing' = WillKill(j)
  /\ wt' = IF PrunesInCancel(j) THEN [wt EXCEPT ![j] = "pruned"] ELSE wt
  /\ UNCHANGED <<pc, schedVars, driveVars, ctxVars, closer, closeList, piVars,
                 storeOpen, snap>>

\* cancel(), called by Cancel after it released the lock.
CancelKill(j) ==
  /\ j \in killing
  /\ killing' = killing \ {j}
  /\ ctx' = [ctx EXCEPT ![j] = "canceled"]
  /\ UNCHANGED <<rec, pc, db, schedVars, driveVars, cor, corCanceled, closer,
                 closeList, piVars, diskVars>>

-----------------------------------------------------------------------------
(***************************************************************************)
(* Close: flag and flush under the lock, then call the collected cancels,  *)
(* wait for the WaitGroup, close the store.                                *)
(***************************************************************************)
CloseBegin ==
  /\ ~closed
  /\ closed' = TRUE /\ closer' = "canceling"
  /\ closeList' = CloseCollects
  /\ Flush(rec)
  /\ UNCHANGED <<rec, pc, queue, slots, wg, driveVars, ctxVars, killing,
                 piVars, diskVars>>

CloseCancel(j) ==
  /\ closer = "canceling" /\ j \in closeList
  /\ closeList' = closeList \ {j}
  /\ ctx' = [ctx EXCEPT ![j] = "canceled"]
  /\ UNCHANGED <<rec, pc, db, schedVars, driveVars, cor, corCanceled, killing,
                 closer, piVars, diskVars>>

WaitGroupZero == wg = {}

CloseStore ==
  /\ closer = "canceling" /\ closeList = {} /\ WaitGroupZero
  /\ closer' = "returned" /\ storeOpen' = FALSE
  /\ UNCHANGED <<rec, pc, db, schedVars, driveVars, ctxVars, killing,
                 closeList, piVars, wt, snap>>

-----------------------------------------------------------------------------
(***************************************************************************)
(* The pi process (external): emits its session event, later writes its    *)
(* run file, and ends with its group; a canceled context SIGKILLs the      *)
(* group.  A process that left the group survives, and while it holds the  *)
(* standard output open the parser does not see its end.                   *)
(***************************************************************************)
PiSession(j) ==
  /\ proc[j] = "alive" /\ sessionCh[j] = "empty"
  /\ sessionCh' = [sessionCh EXCEPT ![j] = "full"]
  /\ UNCHANGED <<rec, pc, db, schedVars, driveVars, ctxVars, callVars, proc,
                 held, runFiles, diskVars>>

PiRunFile(j) ==
  /\ proc[j] = "alive" /\ sessionCh[j] # "empty"
  /\ attempt[j] \notin runFiles[j]
  /\ runFiles' = [runFiles EXCEPT ![j] = @ \cup {attempt[j]}]
  /\ UNCHANGED <<rec, pc, db, schedVars, driveVars, ctxVars, callVars, proc,
                 held, sessionCh, diskVars>>

MayEscape(j) == held' = held \/ (Escapes /\ held' = held \cup {j})

PiExit(j) ==
  /\ proc[j] = "alive"
  /\ \E r \in {"ok", "err"} : proc' = [proc EXCEPT ![j] = r]
  /\ MayEscape(j)
  /\ UNCHANGED <<rec, pc, db, schedVars, driveVars, ctxVars, callVars,
                 sessionCh, runFiles, diskVars>>

PiKilled(j) ==
  /\ proc[j] = "alive" /\ ctx[j] = "canceled"
  /\ proc' = [proc EXCEPT ![j] = "err"]
  /\ MayEscape(j)
  /\ UNCHANGED <<rec, pc, db, schedVars, driveVars, ctxVars, callVars,
                 sessionCh, runFiles, diskVars>>

\* The escaped process closes the output, or writes a line to it that brings
\* the parser back to look at its context: a cancel makes the result an error.
EscapedEnds(j) ==
  /\ j \in held
  /\ held' = held \ {j}
  /\ \/ proc' = proc
     \/ ctx[j] = "canceled" /\ proc' = [proc EXCEPT ![j] = "err"]
  /\ UNCHANGED <<rec, pc, db, schedVars, driveVars, ctxVars, callVars,
                 sessionCh, runFiles, diskVars>>

-----------------------------------------------------------------------------
Submit(j) == SubmitAdmitted(j) \/ SubmitQueued(j) \/ SubmitRejected(j)
Cancel(j) == CancelQueued(j) \/ CancelRunning(j)

\* What the goroutines of job j do on their own once the job is submitted.
Drive(j) ==
  \/ Launch(j) \/ LaunchFails(j) \/ SpawnAttempts(j) \/ DropLaunched(j)
  \/ WaitOK(j) \/ WaitAborted(j) \/ WaitErr(j)
  \/ DecideRetry(j) \/ DecideFail(j) \/ RetryClear(j)
  \/ Relaunch(j) \/ NextAttempt(j)
  \/ FinishRecord(j) \/ FinishSnapshot(j) \/ FinishPrune(j) \/ FinishClose(j)
  \/ CancelQueuedPrune(j)

Correlate(j) == CorrelateSession(j) \/ CorrelatePoll(j) \/ CorrelateStop(j)

Pi(j) ==
  PiSession(j) \/ PiRunFile(j) \/ PiExit(j) \/ PiKilled(j) \/ EscapedEnds(j)

Next ==
  \/ \E j \in Jobs : Submit(j) \/ Cancel(j) \/ CancelKill(j) \/ CloseCancel(j)
                     \/ Drive(j) \/ Correlate(j) \/ Pi(j)
  \/ CloseBegin \/ CloseStore

Spec == Init /\ [][Next]_vars

(***************************************************************************)
(* Fairness.  The Go scheduler runs every runnable goroutine, a called     *)
(* cancel() reaches the process group as SIGKILL, and Cancel and Close,    *)
(* once called, run on.  Nothing makes a client submit, cancel or close,   *)
(* nothing makes a pi process exit that is not killed, and nothing makes a *)
(* process end that left pi's group: what depends on that says so in its   *)
(* hypothesis (OutputCloses).                                              *)
(***************************************************************************)
Fairness ==
  /\ \A j \in Jobs : /\ WF_vars(Drive(j))
                     /\ WF_vars(Correlate(j))
                     /\ WF_vars(PiKilled(j))
                     /\ WF_vars(CancelKill(j))
                     /\ WF_vars(CloseCancel(j))
  /\ WF_vars(CloseStore)

FairSpec == Spec /\ Fairness
-----------------------------------------------------------------------------
(***************************************************************************)
(* Properties.                                                             *)
(***************************************************************************)

\* The type of every variable; in particular no job is launched more than
\* MaxAuthoringRetries + 1 times (runAttempts' loop bound).
TypeOK ==
  /\ rec \in [Jobs -> JobRecord]
  /\ queue \in Seq(Jobs)
  /\ slots \in Nat
  /\ closed \in BOOLEAN
  /\ wg \subseteq Jobs
  /\ pc \in [Jobs -> PCs]
  /\ attempt \in [Jobs -> Launches]
  /\ host \in [Jobs -> Jobs \cup {NoJob}]
  /\ next \in [Jobs -> Jobs \cup {NoJob}]
  /\ outcome \in [Jobs -> Terminal]
  /\ ctx \in [Jobs -> {"none", "live", "canceled"}]
  /\ done \in [Jobs -> Nat]
  /\ cor \in [Jobs -> {"off", "session", "poll", "done"}]
  /\ corCanceled \in [Jobs -> BOOLEAN]
  /\ killing \subseteq Jobs
  /\ closer \in {"open", "canceling", "returned"}
  /\ closeList \subseteq Jobs
  /\ proc \in [Jobs -> {"none", "alive", "ok", "err"}]
  /\ held \subseteq Jobs
  /\ sessionCh \in [Jobs -> {"empty", "full", "used"}]
  /\ runFiles \in [Jobs -> SUBSET Launches]
  /\ wt \in [Jobs -> {"none", "present", "pruned"}]
  /\ db \in [Jobs -> JobRecord]
  /\ storeOpen \in BOOLEAN
  /\ snap \subseteq Jobs

\* The slots channel holds exactly one token per job between its admission
\* and finish's critical section, never more than Cap: no path (abort, launch
\* failure, retry, promotion, rollback) leaks a token or frees one twice.
SlotAccounting == slots = Cardinality(Holders) /\ slots <= Cap

\* The FIFO queue and the records agree: a job is queued exactly when it is in
\* r.queue, and it is there once (Cancel racing a promotion in finish).
QueueExact ==
  /\ \A j \in Jobs : rec[j].status = "queued" <=> j \in Queued
  /\ \A a, b \in 1 .. Len(queue) : queue[a] = queue[b] => a = b

\* No lost wakeup: until Close begins, a job waits in the queue only while
\* every slot is taken (finish frees and hands over in one critical section).
WorkConserving == ~closed /\ queue # <<>> => slots = Cap

\* FIFO: until Close begins, a job becomes running only if nothing is queued
\* ahead of it (Submit never overtakes the queue, finish promotes its head).
NoOvertaking ==
  [][\A j \in Jobs :
       (rec[j].status # "running" /\ rec'[j].status = "running" /\ ~closed)
         => (queue = <<>> \/ j = Head(queue))]_vars

\* finish's compare-and-set: once a record is terminal its status never
\* changes, so a clean exit cannot turn an aborted job into a completed one.
TerminalIsFinal ==
  [][\A j \in Jobs : rec[j].status \in Terminal
                       => rec'[j].status = rec[j].status]_vars

\* j.done is closed at most once (a second close panics), and whoever sees it
\* closed sees a terminal record, no process, and for an admitted write job
\* that was aborted, no worktree any more.
DoneSignal ==
  \A j \in Jobs :
    /\ done[j] <= 1
    /\ (done[j] = 1) =>
         /\ rec[j].status \in Terminal
         /\ proc[j] # "alive"
         /\ \/ ctx[j] = "none" \/ j \notin WriteJobs \/ rec[j].status # "aborted"
            \/ wt[j] = "pruned"

\* A worktree is pruned only when no pi process of the job runs and none can
\* be launched any more (Cancel leaves the prune of a running job to finish).
PruneSafe ==
  \A j \in Jobs : wt[j] = "pruned" => proc[j] # "alive" /\ pc[j] \notin HoldingPCs

\* A row never claims an outcome the registry did not reach, whatever writes
\* fail: it is absent, or lags the record by some prefix of its life.
StoreNeverAhead ==
  \A j \in Jobs : /\ db[j].status \in Terminal => rec[j].status = db[j].status
                  /\ db[j].status # "none" => rec[j].status # "none"
                  /\ db[j].pid <= rec[j].pid

\* Session and run ids of an earlier attempt never survive into a later one,
\* and a run id belongs to the recorded session (correlate vs. retry).
CorrelationFresh ==
  \A j \in Jobs : /\ rec[j].session \in {0, attempt[j]}
                  /\ rec[j].run \in {0, rec[j].session}

\* The expensive fleet is never run twice: after a launch wrote its run file
\* no further launch of that job happens (the retry oracle).
NoFleetRerun == \A j \in Jobs : runFiles[j] \subseteq {attempt[j]}

\* After store.Close no WaitGroup-tracked goroutine is left that would still
\* flush: no correlate runs, and drivers only run on a Submit caller's stack.
StoreQuiet ==
  ~storeOpen => \A j \in Jobs :
    /\ cor[j] \notin {"session", "poll"}
    /\ \/ host[j] = NoJob
       \/ pc[j] \notin {"wait", "decide", "retry", "relaunch", "relaunched",
                       "finish", "snap", "prune", "closing"}

\* An aborted write job whose run was known keeps its run in the store after
\* its worktree is gone: the snapshot happens before the prune.
SnapshotBeforePrune ==
  \A j \in Jobs : (~StoreFaults /\ wt[j] = "pruned" /\ rec[j].run # 0) => j \in snap

\* Hypothesis of the liveness properties: a process that left pi's group does
\* not hold job j's standard output open for ever.  The code does not see to it.
OutputCloses(j) == []<>(j \notin held)

\* A canceled job's waiters are released eventually, through the kill, the end
\* of wait(), a retry decided meanwhile and finish, unless the server closes
\* or an escaped process holds this job's output for ever.
CancelTakesEffect ==
  \A j \in Jobs :
    OutputCloses(j) => ((rec[j].status = "aborted") ~> (done[j] = 1 \/ closed))

\* Close returns: the kill reaches every process, every driver and correlate
\* ends, the WaitGroup drains, unless an escaped process holds a job's output
\* for ever.
CloseReturns ==
  (\A j \in Jobs : OutputCloses(j)) => (closed ~> (closer = "returned"))

\* If no pi process runs and no output is held open forever, no job stays
\* queued, unless the server closes or the job is canceled.
QueueMoves ==
  (\A j \in Jobs : []<>(proc[j] # "alive") /\ OutputCloses(j))
    => \A j \in Jobs : (rec[j].status = "queued")
                           ~> (rec[j].status # "queued" \/ closed)

\* What the comment on Registry.hasRunFile says: a failure with no run file of
\* that job is an authoring failure and is retried while retries are left.
AuthoringFailuresRetried ==
  [][\A j \in Jobs :
       (pc[j] = "decide" /\ ctx[j] = "live" /\ runFiles[j] = {}
          /\ attempt[j] <= MaxAuthoringRetries) => pc'[j] # "finish"]_vars
-----------------------------------------------------------------------------
(***************************************************************************)
(* The registry implements the abstract admission discipline.              *)
(***************************************************************************)
Left == {j \in Jobs : pc[j] \in {"unqueued", "snap", "prune", "closing", "end"}}

Adm == INSTANCE Admission WITH waiting <- queue, holding <- Holders,
                               left <- Left, shutdown <- closed

\* Submit, Cancel, finish and Close, with everything the drivers do between
\* them, are steps of the abstract admission discipline or leave it alone.
ImplementsAdmission == Adm!ASpec

=============================================================================
