--------------------------- MODULE OutcomeProofs ---------------------------
(***************************************************************************)
(* Proofs about what a job leaves behind: its done channel, its process,   *)
(* its session and run ids, its run files, its worktree, its row and its   *)
(* snapshot in the store, and the goroutine its driver runs on.            *)
(***************************************************************************)
EXTENDS AdmissionProofs

-----------------------------------------------------------------------------
(* The inductive invariant, on top of IInv.  Each part says what holds of  *)
(* one piece of state at each place of the driver.                         *)

\* A process runs only while a driver holds it: finish is called after wait.
ProcPC ==
  \A j \in Jobs :
    proc[j] = "alive" => pc[j] \in {"launched", "dropped", "wait", "relaunched"}

\* A job has a launch context from its admission on, and only then can a
\* cancel function of it be pending in Cancel or in Close.
Contexts ==
  \A j \in Jobs :
    /\ pc[j] \in HoldingPCs => ctx[j] # "none"
    /\ pc[j] \in {"idle", "rejected", "queued", "unqueued"} => ctx[j] = "none"
    /\ j \in killing \cup closeList => ctx[j] # "none"

\* close(j.done) is the last thing finish does, and the last thing Cancel does
\* under the lock for a queued job.
Doneness ==
  \A j \in Jobs : done[j] = IF pc[j] \in {"unqueued", "end"} THEN 1 ELSE 0

\* Only finish and the cancel of a queued job prune, after everything else.
Pruned ==
  \A j \in Jobs :
    /\ wt[j] = "pruned" => pc[j] \in {"closing", "end"}
    /\ (/\ pc[j] \in {"closing", "end"} /\ j \in WriteJobs
        /\ rec[j].status = "aborted" /\ ctx[j] # "none") => wt[j] = "pruned"

\* correlate runs inside an attempt, which waits for it before it ends; a
\* retry starts from cleared ids.
Correlating ==
  \A j \in Jobs :
    /\ rec[j].session \in {0, attempt[j]} /\ rec[j].run \in {0, rec[j].session}
    /\ cor[j] \in {"session", "poll"} => pc[j] \in {"wait", "decide", "retry", "finish"}
    /\ cor[j] = "poll" => rec[j].session = attempt[j]
    /\ pc[j] = "relaunch" => rec[j].session = 0
    /\ pc[j] \in {"rejected", "unqueued"} => attempt[j] = 0

\* No launch happens while a run file is there, and the run id of a record
\* names a run file until the worktree is gone.
RunFiles ==
  \A j \in Jobs :
    /\ runFiles[j] \subseteq {attempt[j]}
    /\ pc[j] \in {"idle", "queued", "promoted", "launch", "retry", "relaunch"}
         => runFiles[j] = {}
    /\ rec[j].run # 0 /\ wt[j] # "pruned" => rec[j].run \in runFiles[j]

\* A row lags its record; a recorded pid is that of a launch that happened.
Rows ==
  \A j \in Jobs :
    /\ db[j].status \in Terminal => rec[j].status = db[j].status
    /\ db[j].status # "none" => rec[j].status # "none"
    /\ db[j].pid <= rec[j].pid
    /\ rec[j].pid <= attempt[j]

\* Drivers share no goroutine; a goroutine that drives a job not its own is
\* that of a job that has ended; inside an attempt a job is on its own one;
\* and a job that finishes on a Submit caller's stack was never launched.
Hosts ==
  /\ \A j \in Jobs :
       host[j] # NoJob =>
         /\ pc[j] \notin {"idle", "rejected", "queued", "unqueued", "promoted", "end"}
         /\ pc[j] # "dropped" => host[j] \in wg
         /\ host[j] # j => pc[host[j]] = "end"
  /\ \A j, k \in Jobs : host[j] = host[k] /\ host[j] # NoJob => j = k
  /\ \A j \in Jobs :
       /\ pc[j] \in {"wait", "decide", "retry", "relaunch", "relaunched"} => host[j] = j
       /\ cor[j] \in {"session", "poll"} => host[j] = j
       /\ pc[j] \in {"finish", "snap", "prune"} /\ host[j] = NoJob => attempt[j] = 0

\* The store is closed after the WaitGroup drained, and then nothing starts.
Closing ==
  /\ ~storeOpen => wg = {} /\ closed
  /\ closer # "open" => closed

\* finish writes the snapshot before it prunes.
Snaps ==
  \A j \in Jobs :
    (~StoreFaults /\ rec[j].run # 0 /\ (pc[j] = "prune" \/ wt[j] = "pruned"))
      => j \in snap

Effects == ProcPC /\ Contexts /\ Doneness /\ Pruned
Identity == Correlating /\ RunFiles /\ Rows
Shutdown == Hosts /\ Closing /\ Snaps

OInv == IInv /\ Effects /\ Identity /\ Shutdown

\* Every step keeps Effects: a driver leaves wait only when its process has
\* exited, and prunes and closes done on its way out.
LEMMA EffectsNext == IInv /\ Effects /\ [Next]_vars => Effects'
<1> SUFFICES ASSUME IInv, Effects, [Next]_vars PROVE Effects'
  OBVIOUS
<1>0. /\ rec \in [Jobs -> JobRecord] /\ pc \in [Jobs -> PCs]
      /\ ctx \in [Jobs -> {"none", "live", "canceled"}]
      /\ proc \in [Jobs -> {"none", "alive", "ok", "err"}]
      /\ wt \in [Jobs -> {"none", "present", "pruned"}]
      /\ done \in [Jobs -> Nat]
      /\ StatusPC
  BY DEF IInv, TypeInv, TypeOK, Control
<1> USE <1>0 DEF Effects, ProcPC, Contexts, Doneness, Pruned, StatusPC, HoldingPCs,
        schedVars, driveVars, ctxVars, callVars, piVars, diskVars
<1>1. ASSUME NEW j \in Jobs, SubmitAdmitted(j) PROVE Effects'
  BY <1>1 DEF SubmitAdmitted, CreateWorktree, WithContext, JobRecord
<1>2. ASSUME NEW j \in Jobs, SubmitQueued(j) PROVE Effects'
  BY <1>2 DEF SubmitQueued, CreateWorktree, JobRecord
<1>3. ASSUME NEW j \in Jobs, SubmitRejected(j) PROVE Effects'
  BY <1>3 DEF SubmitRejected, CreateWorktree
<1>4. ASSUME NEW j \in Jobs, Launch(j) PROVE Effects'
  BY <1>4 DEF Launch, LaunchOK
<1>5. ASSUME NEW j \in Jobs, LaunchFails(j) PROVE Effects'
  BY <1>5 DEF LaunchFails
<1>6. ASSUME NEW j \in Jobs, SpawnAttempts(j) PROVE Effects'
  BY <1>6 DEF SpawnAttempts, BeginAttempt, JobRecord
<1>7. ASSUME NEW j \in Jobs, DropLaunched(j) PROVE Effects'
  BY <1>7 DEF DropLaunched
<1>8. ASSUME NEW j \in Jobs, WaitOK(j) PROVE Effects'
  BY <1>8 DEF WaitOK, CallFinish, Returned
<1>9. ASSUME NEW j \in Jobs, WaitAborted(j) PROVE Effects'
  BY <1>9 DEF WaitAborted, CallFinish, Returned
<1>10. ASSUME NEW j \in Jobs, WaitErr(j) PROVE Effects'
  BY <1>10 DEF WaitErr, Returned
<1>11. ASSUME NEW j \in Jobs, DecideRetry(j) PROVE Effects'
  BY <1>11 DEF DecideRetry
<1>12. ASSUME NEW j \in Jobs, DecideFail(j) PROVE Effects'
  BY <1>12 DEF DecideFail, CallFinish
<1>13. ASSUME NEW j \in Jobs, RetryClear(j) PROVE Effects'
  BY <1>13 DEF RetryClear, JobRecord
<1>14. ASSUME NEW j \in Jobs, Relaunch(j) PROVE Effects'
  BY <1>14 DEF Relaunch, LaunchOK
<1>15. ASSUME NEW j \in Jobs, NextAttempt(j) PROVE Effects'
  BY <1>15 DEF NextAttempt, BeginAttempt, JobRecord
<1>16. ASSUME NEW j \in Jobs, FinishRecord(j) PROVE Effects'
  <2> DEFINE n == Head(queue)
             promotes == WasRunningSlot(rec[j].status) /\ MayPromote
  <2>1. /\ pc[j] = "finish"
        /\ UNCHANGED <<proc, done, wt, killing, closeList>>
    BY <1>16 DEF FinishRecord
  <2>2. CASE promotes
    <3>1. n \in Jobs /\ pc[n] = "queued"
      BY <2>2 DEF MayPromote, IInv, TypeInv, TypeOK, Control, QueuePC
    <3>2. /\ ctx' = [ctx EXCEPT ![n] = "live"]
          /\ pc' = [pc EXCEPT ![j] = "snap", ![n] = "promoted"]
      BY <1>16, <2>2 DEF FinishRecord, WithContext
    <3> HIDE DEF n, promotes
    <3>3. \A k \in Jobs :
            pc'[k] = IF k = n THEN "promoted" ELSE IF k = j THEN "snap" ELSE pc[k]
      BY <3>1, <3>2
    <3>4. \A k \in Jobs : k # n /\ k # j => rec'[k].status = rec[k].status
      BY <1>16 DEF FinishRecord, JobRecord, n
    <3> QED
      BY <2>1, <3>1, <3>2, <3>3, <3>4
  <2>3. CASE ~promotes
    <3>1. ctx' = ctx /\ pc' = [pc EXCEPT ![j] = "snap"]
      BY <1>16, <2>3 DEF FinishRecord
    <3>2. \A k \in Jobs : k # j => rec'[k].status = rec[k].status
      BY <1>16, <2>3 DEF FinishRecord, JobRecord
    <3> QED
      BY <2>1, <3>1, <3>2
  <2> QED
    BY <2>2, <2>3
<1>17. ASSUME NEW j \in Jobs, FinishSnapshot(j) PROVE Effects'
  BY <1>17 DEF FinishSnapshot, PrunesAtFinish
<1>18. ASSUME NEW j \in Jobs, FinishPrune(j) PROVE Effects'
  BY <1>18 DEF FinishPrune, PruneWorktree
<1>19. ASSUME NEW j \in Jobs, FinishClose(j) PROVE Effects'
  <2>1. /\ pc[j] = "closing" /\ done' = [done EXCEPT ![j] = @ + 1]
        /\ UNCHANGED <<rec, ctx, proc, wt, killing, closeList>>
    BY <1>19 DEF FinishClose
  <2>2. next[j] # NoJob => next[j] \in Jobs /\ pc[next[j]] = "promoted"
    BY DEF IInv, TypeInv, TypeOK, Control, PromotionOwned
  <2>3. CASE next[j] # NoJob
    <3>1. pc' = [pc EXCEPT ![j] = "end", ![next[j]] = "launch"]
      BY <1>19, <2>3 DEF FinishClose
    <3>2. \A k \in Jobs : pc'[k] = IF k = next[j] THEN "launch"
                                  ELSE IF k = j THEN "end" ELSE pc[k]
      BY <2>1, <2>2, <2>3, <3>1
    <3> QED
      BY <2>1, <2>2, <2>3, <3>2
  <2>4. CASE next[j] = NoJob
    <3>1. pc' = [pc EXCEPT ![j] = "end"]
      BY <1>19, <2>4 DEF FinishClose
    <3> QED
      BY <2>1, <3>1
  <2> QED
    BY <2>3, <2>4
<1>20. ASSUME NEW j \in Jobs, CancelQueued(j) PROVE Effects'
  BY <1>20 DEF CancelQueued, JobRecord
<1>21. ASSUME NEW j \in Jobs, CancelQueuedPrune(j) PROVE Effects'
  BY <1>21 DEF CancelQueuedPrune, PruneWorktree
<1>22. ASSUME NEW j \in Jobs, CancelRunning(j) PROVE Effects'
  BY <1>22 DEF CancelRunning, WillKill, PrunesInCancel, JobRecord
<1>23. ASSUME NEW j \in Jobs, CancelKill(j) PROVE Effects'
  BY <1>23 DEF CancelKill
<1>24. ASSUME NEW j \in Jobs, CloseCancel(j) PROVE Effects'
  BY <1>24 DEF CloseCancel
<1>25. ASSUME NEW j \in Jobs, CorrelateSession(j) PROVE Effects'
  BY <1>25 DEF CorrelateSession, JobRecord
<1>26. ASSUME NEW j \in Jobs, CorrelatePoll(j) PROVE Effects'
  BY <1>26 DEF CorrelatePoll, JobRecord
<1>27. ASSUME NEW j \in Jobs, CorrelateStop(j) PROVE Effects'
  BY <1>27 DEF CorrelateStop
<1>28. ASSUME NEW j \in Jobs, PiSession(j) PROVE Effects'
  BY <1>28 DEF PiSession
<1>29. ASSUME NEW j \in Jobs, PiRunFile(j) PROVE Effects'
  BY <1>29 DEF PiRunFile
<1>30. ASSUME NEW j \in Jobs, PiExit(j) PROVE Effects'
  BY <1>30 DEF PiExit
<1>31. ASSUME NEW j \in Jobs, PiKilled(j) PROVE Effects'
  BY <1>31 DEF PiKilled
<1>32. CASE CloseBegin
  BY <1>32 DEF CloseBegin, CloseCollects, Registered
<1>33. CASE CloseStore
  BY <1>33 DEF CloseStore
<1>34. CASE UNCHANGED vars
  BY <1>34 DEF vars
<1>35. ASSUME NEW j \in Jobs, EscapedEnds(j) PROVE Effects'
  BY <1>35 DEF EscapedEnds
<1> QED
  BY <1>1, <1>2, <1>3, <1>4, <1>5, <1>6, <1>7, <1>8, <1>9, <1>10, <1>11,
     <1>12, <1>13, <1>14, <1>15, <1>16, <1>17, <1>18, <1>19, <1>20, <1>21,
     <1>22, <1>23, <1>24, <1>25, <1>26, <1>27, <1>28, <1>29, <1>30, <1>31,
     <1>32, <1>33, <1>34, <1>35
     DEF Next, Submit, Cancel, Drive, Correlate, Pi

\* Every step keeps Correlating and RunFiles: clearing the ids waits for
\* correlate, and the retry oracle looks before the next launch.
LEMMA IdentityNext == IInv /\ Effects /\ Correlating /\ RunFiles /\ [Next]_vars
                        => Correlating' /\ RunFiles'
<1> SUFFICES ASSUME IInv, Effects, Correlating, RunFiles, [Next]_vars
             PROVE  Correlating' /\ RunFiles'
  OBVIOUS
<1>0. /\ rec \in [Jobs -> JobRecord] /\ pc \in [Jobs -> PCs]
      /\ attempt \in [Jobs -> Launches]
      /\ proc \in [Jobs -> {"none", "alive", "ok", "err"}]
      /\ wt \in [Jobs -> {"none", "present", "pruned"}]
      /\ runFiles \in [Jobs -> SUBSET Launches]
      /\ cor \in [Jobs -> {"off", "session", "poll", "done"}]
      /\ LaunchBound /\ ProcPC
      /\ \A j \in Jobs : wt[j] = "pruned" => pc[j] \in {"closing", "end"}
  BY DEF IInv, TypeInv, TypeOK, Effects, Pruned
<1> USE <1>0 DEF Correlating, RunFiles, LaunchBound, ProcPC, Launches,
        schedVars, driveVars, ctxVars, callVars, piVars, diskVars
<1>1. ASSUME NEW j \in Jobs, SubmitAdmitted(j) PROVE Correlating' /\ RunFiles'
  BY <1>1 DEF SubmitAdmitted, CreateWorktree, JobRecord
<1>2. ASSUME NEW j \in Jobs, SubmitQueued(j) PROVE Correlating' /\ RunFiles'
  BY <1>2 DEF SubmitQueued, CreateWorktree, JobRecord
<1>3. ASSUME NEW j \in Jobs, SubmitRejected(j) PROVE Correlating' /\ RunFiles'
  BY <1>3 DEF SubmitRejected, CreateWorktree
<1>4. ASSUME NEW j \in Jobs, Launch(j) PROVE Correlating' /\ RunFiles'
  BY <1>4 DEF Launch, LaunchOK
<1>5. ASSUME NEW j \in Jobs, LaunchFails(j) PROVE Correlating' /\ RunFiles'
  BY <1>5 DEF LaunchFails
<1>6. ASSUME NEW j \in Jobs, SpawnAttempts(j) PROVE Correlating' /\ RunFiles'
  BY <1>6 DEF SpawnAttempts, BeginAttempt, JobRecord
<1>7. ASSUME NEW j \in Jobs, DropLaunched(j) PROVE Correlating' /\ RunFiles'
  BY <1>7 DEF DropLaunched
<1>8. ASSUME NEW j \in Jobs, WaitOK(j) PROVE Correlating' /\ RunFiles'
  BY <1>8 DEF WaitOK, CallFinish
<1>9. ASSUME NEW j \in Jobs, WaitAborted(j) PROVE Correlating' /\ RunFiles'
  BY <1>9 DEF WaitAborted, CallFinish
<1>10. ASSUME NEW j \in Jobs, WaitErr(j) PROVE Correlating' /\ RunFiles'
  BY <1>10 DEF WaitErr
<1>11. ASSUME NEW j \in Jobs, DecideRetry(j) PROVE Correlating' /\ RunFiles'
  BY <1>11 DEF DecideRetry, ShouldRetry, HasRunFile
<1>12. ASSUME NEW j \in Jobs, DecideFail(j) PROVE Correlating' /\ RunFiles'
  BY <1>12 DEF DecideFail, CallFinish
<1>13. ASSUME NEW j \in Jobs, RetryClear(j) PROVE Correlating' /\ RunFiles'
  BY <1>13 DEF RetryClear, CorrelateExited, JobRecord
<1>14. ASSUME NEW j \in Jobs, Relaunch(j) PROVE Correlating' /\ RunFiles'
  BY <1>14 DEF Relaunch, LaunchOK
<1>15. ASSUME NEW j \in Jobs, NextAttempt(j) PROVE Correlating' /\ RunFiles'
  BY <1>15 DEF NextAttempt, BeginAttempt, JobRecord
<1>16. ASSUME NEW j \in Jobs, FinishRecord(j) PROVE Correlating' /\ RunFiles'
  <2> DEFINE n == Head(queue)
             promotes == WasRunningSlot(rec[j].status) /\ MayPromote
  <2>1. /\ pc[j] = "finish" /\ cor[j] \notin {"session", "poll"}
        /\ UNCHANGED <<attempt, runFiles, cor, wt>>
    BY <1>16 DEF FinishRecord, CorrelateExited
  <2>2. \A k \in Jobs : rec'[k].session = rec[k].session /\ rec'[k].run = rec[k].run
    BY <1>16 DEF FinishRecord, JobRecord
  <2>3. CASE promotes
    <3>1. n \in Jobs /\ pc[n] = "queued"
      BY <2>3 DEF MayPromote, IInv, TypeInv, TypeOK, Control, QueuePC
    <3>2. pc' = [pc EXCEPT ![j] = "snap", ![n] = "promoted"]
      BY <1>16, <2>3 DEF FinishRecord
    <3> HIDE DEF n, promotes
    <3>3. \A k \in Jobs :
            pc'[k] = IF k = n THEN "promoted" ELSE IF k = j THEN "snap" ELSE pc[k]
      BY <3>1, <3>2
    <3> QED
      BY <2>1, <2>2, <3>1, <3>3
  <2>4. CASE ~promotes
    <3>1. pc' = [pc EXCEPT ![j] = "snap"]
      BY <1>16, <2>4 DEF FinishRecord
    <3> QED
      BY <2>1, <2>2, <3>1
  <2> QED
    BY <2>3, <2>4
<1>17. ASSUME NEW j \in Jobs, FinishSnapshot(j) PROVE Correlating' /\ RunFiles'
  BY <1>17 DEF FinishSnapshot
<1>18. ASSUME NEW j \in Jobs, FinishPrune(j) PROVE Correlating' /\ RunFiles'
  BY <1>18 DEF FinishPrune, PruneWorktree
<1>19. ASSUME NEW j \in Jobs, FinishClose(j) PROVE Correlating' /\ RunFiles'
  <2>1. /\ pc[j] = "closing" /\ cor' = [cor EXCEPT ![j] = "off"]
        /\ UNCHANGED <<rec, attempt, runFiles, wt>>
    BY <1>19 DEF FinishClose
  <2>2. next[j] # NoJob => next[j] \in Jobs /\ pc[next[j]] = "promoted"
    BY DEF IInv, TypeInv, TypeOK, Control, PromotionOwned
  <2>3. CASE next[j] # NoJob
    <3>1. pc' = [pc EXCEPT ![j] = "end", ![next[j]] = "launch"]
      BY <1>19, <2>3 DEF FinishClose
    <3>2. \A k \in Jobs : pc'[k] = IF k = next[j] THEN "launch"
                                  ELSE IF k = j THEN "end" ELSE pc[k]
      BY <2>1, <2>2, <2>3, <3>1
    <3> QED
      BY <2>1, <2>2, <2>3, <3>2
  <2>4. CASE next[j] = NoJob
    <3>1. pc' = [pc EXCEPT ![j] = "end"]
      BY <1>19, <2>4 DEF FinishClose
    <3> QED
      BY <2>1, <3>1
  <2> QED
    BY <2>3, <2>4
<1>20. ASSUME NEW j \in Jobs, CancelQueued(j) PROVE Correlating' /\ RunFiles'
  <2>1. pc[j] = "queued"
    BY <1>20 DEF CancelQueued, IInv, Control, StatusPC
  <2>2. /\ pc' = [pc EXCEPT ![j] = IF j \in WriteJobs THEN "unqueued" ELSE "end"]
        /\ UNCHANGED <<attempt, runFiles, cor, wt>>
    BY <1>20 DEF CancelQueued
  <2>3. \A k \in Jobs : rec'[k].session = rec[k].session /\ rec'[k].run = rec[k].run
    BY <1>20 DEF CancelQueued, JobRecord
  <2> QED
    BY <2>1, <2>2, <2>3
<1>21. ASSUME NEW j \in Jobs, CancelQueuedPrune(j) PROVE Correlating' /\ RunFiles'
  BY <1>21 DEF CancelQueuedPrune, PruneWorktree
<1>22. ASSUME NEW j \in Jobs, CancelRunning(j) PROVE Correlating' /\ RunFiles'
  BY <1>22 DEF CancelRunning, JobRecord
<1>23. ASSUME NEW j \in Jobs, CancelKill(j) PROVE Correlating' /\ RunFiles'
  BY <1>23 DEF CancelKill
<1>24. ASSUME NEW j \in Jobs, CloseCancel(j) PROVE Correlating' /\ RunFiles'
  BY <1>24 DEF CloseCancel
<1>25. ASSUME NEW j \in Jobs, CorrelateSession(j) PROVE Correlating' /\ RunFiles'
  BY <1>25 DEF CorrelateSession, WithRun, Resolved, JobRecord
<1>26. ASSUME NEW j \in Jobs, CorrelatePoll(j) PROVE Correlating' /\ RunFiles'
  BY <1>26 DEF CorrelatePoll, WithRun, Resolved, JobRecord
<1>27. ASSUME NEW j \in Jobs, CorrelateStop(j) PROVE Correlating' /\ RunFiles'
  BY <1>27 DEF CorrelateStop
<1>28. ASSUME NEW j \in Jobs, PiSession(j) PROVE Correlating' /\ RunFiles'
  BY <1>28 DEF PiSession
<1>29. ASSUME NEW j \in Jobs, PiRunFile(j) PROVE Correlating' /\ RunFiles'
  BY <1>29 DEF PiRunFile
<1>30. ASSUME NEW j \in Jobs, PiExit(j) PROVE Correlating' /\ RunFiles'
  BY <1>30 DEF PiExit
<1>31. ASSUME NEW j \in Jobs, PiKilled(j) PROVE Correlating' /\ RunFiles'
  BY <1>31 DEF PiKilled
<1>32. CASE CloseBegin
  BY <1>32 DEF CloseBegin
<1>33. CASE CloseStore
  BY <1>33 DEF CloseStore
<1>34. CASE UNCHANGED vars
  BY <1>34 DEF vars
<1>35. ASSUME NEW j \in Jobs, EscapedEnds(j) PROVE Correlating' /\ RunFiles'
  BY <1>35 DEF EscapedEnds
<1> QED
  BY <1>1, <1>2, <1>3, <1>4, <1>5, <1>6, <1>7, <1>8, <1>9, <1>10, <1>11,
     <1>12, <1>13, <1>14, <1>15, <1>16, <1>17, <1>18, <1>19, <1>20, <1>21,
     <1>22, <1>23, <1>24, <1>25, <1>26, <1>27, <1>28, <1>29, <1>30, <1>31,
     <1>32, <1>33, <1>34, <1>35
     DEF Next, Submit, Cancel, Drive, Correlate, Pi

\* What a step may do to a row and to a recorded pid: a row is left alone or
\* becomes the record's new value, and pids only grow, up to the last launch.
RowStep(k) ==
  /\ db'[k] = db[k] \/ db'[k] = rec'[k]
  /\ rec[k].pid <= rec'[k].pid
  /\ rec'[k].pid <= attempt'[k]

\* A flush writes each row as the record it upserts, or not at all.
LEMMA FlushRow ==
  ASSUME Flush(rec'), NEW k \in Jobs
  PROVE  db'[k] = db[k] \/ db'[k] = rec'[k]
BY DEF Flush, FlushedRows

\* Every step is a RowStep of every job.
LEMMA RowSteps == IInv /\ Rows /\ [Next]_vars => \A k \in Jobs : RowStep(k)
<1> SUFFICES ASSUME IInv, Rows, [Next]_vars, NEW k \in Jobs PROVE RowStep(k)
  OBVIOUS
<1>0. /\ rec \in [Jobs -> JobRecord] /\ attempt \in [Jobs -> Launches]
      /\ rec[k].pid \in Nat /\ attempt[k] \in Nat /\ rec[k].pid <= attempt[k]
  BY DEF IInv, TypeInv, TypeOK, Rows, JobRecord, Launches
<1> USE <1>0 DEF RowStep,
        schedVars, driveVars, ctxVars, callVars, piVars, diskVars
<1>1. ASSUME NEW j \in Jobs, SubmitAdmitted(j) PROVE RowStep(k)
  BY <1>1 DEF SubmitAdmitted, FlushedRows, JobRecord
<1>2. ASSUME NEW j \in Jobs, SubmitQueued(j) PROVE RowStep(k)
  BY <1>2 DEF SubmitQueued, FlushedRows, JobRecord
<1>3. ASSUME NEW j \in Jobs, SubmitRejected(j) PROVE RowStep(k)
  BY <1>3 DEF SubmitRejected
<1>4. ASSUME NEW j \in Jobs, Launch(j) PROVE RowStep(k)
  BY <1>4 DEF Launch, LaunchOK
<1>5. ASSUME NEW j \in Jobs, LaunchFails(j) PROVE RowStep(k)
  BY <1>5 DEF LaunchFails
<1>6. ASSUME NEW j \in Jobs, SpawnAttempts(j) PROVE RowStep(k)
  BY <1>6, FlushRow DEF SpawnAttempts, BeginAttempt, JobRecord
<1>7. ASSUME NEW j \in Jobs, DropLaunched(j) PROVE RowStep(k)
  BY <1>7 DEF DropLaunched
<1>8. ASSUME NEW j \in Jobs, WaitOK(j) PROVE RowStep(k)
  BY <1>8 DEF WaitOK, CallFinish
<1>9. ASSUME NEW j \in Jobs, WaitAborted(j) PROVE RowStep(k)
  BY <1>9 DEF WaitAborted, CallFinish
<1>10. ASSUME NEW j \in Jobs, WaitErr(j) PROVE RowStep(k)
  BY <1>10 DEF WaitErr
<1>11. ASSUME NEW j \in Jobs, DecideRetry(j) PROVE RowStep(k)
  BY <1>11 DEF DecideRetry
<1>12. ASSUME NEW j \in Jobs, DecideFail(j) PROVE RowStep(k)
  BY <1>12 DEF DecideFail, CallFinish
<1>13. ASSUME NEW j \in Jobs, RetryClear(j) PROVE RowStep(k)
  BY <1>13, FlushRow DEF RetryClear, JobRecord
<1>14. ASSUME NEW j \in Jobs, Relaunch(j) PROVE RowStep(k)
  BY <1>14 DEF Relaunch, LaunchOK
<1>15. ASSUME NEW j \in Jobs, NextAttempt(j) PROVE RowStep(k)
  BY <1>15, FlushRow DEF NextAttempt, BeginAttempt, JobRecord
<1>16. ASSUME NEW j \in Jobs, FinishRecord(j) PROVE RowStep(k)
  <2>1. rec'[k].pid = rec[k].pid /\ attempt' = attempt
    BY <1>16 DEF FinishRecord, JobRecord
  <2>2. db'[k] = db[k] \/ db'[k] = rec'[k]
    <3>1. Flush(rec')
      BY <1>16 DEF FinishRecord
    <3> QED
      BY <3>1, FlushRow
  <2> QED
    BY <2>1, <2>2
<1>17. ASSUME NEW j \in Jobs, FinishSnapshot(j) PROVE RowStep(k)
  BY <1>17 DEF FinishSnapshot
<1>18. ASSUME NEW j \in Jobs, FinishPrune(j) PROVE RowStep(k)
  BY <1>18 DEF FinishPrune, PruneWorktree
<1>19. ASSUME NEW j \in Jobs, FinishClose(j) PROVE RowStep(k)
  BY <1>19 DEF FinishClose
<1>20. ASSUME NEW j \in Jobs, CancelQueued(j) PROVE RowStep(k)
  BY <1>20, FlushRow DEF CancelQueued, JobRecord
<1>21. ASSUME NEW j \in Jobs, CancelQueuedPrune(j) PROVE RowStep(k)
  BY <1>21 DEF CancelQueuedPrune, PruneWorktree
<1>22. ASSUME NEW j \in Jobs, CancelRunning(j) PROVE RowStep(k)
  BY <1>22, FlushRow DEF CancelRunning, JobRecord
<1>23. ASSUME NEW j \in Jobs, CancelKill(j) PROVE RowStep(k)
  BY <1>23 DEF CancelKill
<1>24. ASSUME NEW j \in Jobs, CloseCancel(j) PROVE RowStep(k)
  BY <1>24 DEF CloseCancel
<1>25. ASSUME NEW j \in Jobs, CorrelateSession(j) PROVE RowStep(k)
  BY <1>25, FlushRow DEF CorrelateSession, JobRecord
<1>26. ASSUME NEW j \in Jobs, CorrelatePoll(j) PROVE RowStep(k)
  BY <1>26, FlushRow DEF CorrelatePoll, JobRecord
<1>27. ASSUME NEW j \in Jobs, CorrelateStop(j) PROVE RowStep(k)
  BY <1>27 DEF CorrelateStop
<1>28. ASSUME NEW j \in Jobs, PiSession(j) PROVE RowStep(k)
  BY <1>28 DEF PiSession
<1>29. ASSUME NEW j \in Jobs, PiRunFile(j) PROVE RowStep(k)
  BY <1>29 DEF PiRunFile
<1>30. ASSUME NEW j \in Jobs, PiExit(j) PROVE RowStep(k)
  BY <1>30 DEF PiExit
<1>31. ASSUME NEW j \in Jobs, PiKilled(j) PROVE RowStep(k)
  BY <1>31 DEF PiKilled
<1>32. CASE CloseBegin
  BY <1>32 DEF CloseBegin, Flush, FlushedRows
<1>33. CASE CloseStore
  BY <1>33 DEF CloseStore
<1>34. CASE UNCHANGED vars
  BY <1>34 DEF vars
<1>35. ASSUME NEW j \in Jobs, EscapedEnds(j) PROVE RowStep(k)
  BY <1>35 DEF EscapedEnds
<1> QED
  BY <1>1, <1>2, <1>3, <1>4, <1>5, <1>6, <1>7, <1>8, <1>9, <1>10, <1>11,
     <1>12, <1>13, <1>14, <1>15, <1>16, <1>17, <1>18, <1>19, <1>20, <1>21,
     <1>22, <1>23, <1>24, <1>25, <1>26, <1>27, <1>28, <1>29, <1>30, <1>31,
     <1>32, <1>33, <1>34, <1>35
     DEF Next, Submit, Cancel, Drive, Correlate, Pi

\* Every step keeps the rows behind their records: a terminal status stays,
\* a registered job stays registered, and a flush copies the record.
LEMMA RowsNext == IInv /\ Rows /\ [Next]_vars => Rows'
<1> SUFFICES ASSUME IInv, Rows, [Next]_vars, NEW k \in Jobs
             PROVE  /\ db'[k].status \in Terminal => rec'[k].status = db'[k].status
                    /\ db'[k].status # "none" => rec'[k].status # "none"
                    /\ db'[k].pid <= rec'[k].pid
                    /\ rec'[k].pid <= attempt'[k]
  BY DEF Rows
<1>1. RowStep(k) /\ StatusStep(k)
  BY RowSteps, StatusSteps
<1>2. /\ rec \in [Jobs -> JobRecord] /\ rec' \in [Jobs -> JobRecord]
      /\ db \in [Jobs -> JobRecord]
  BY TypeNext DEF IInv, TypeInv, TypeOK
<1>3. rec[k].pid \in Nat /\ db[k].pid \in Nat /\ rec'[k].pid \in Nat
  BY <1>2 DEF JobRecord, Launches
<1>4. CASE db'[k] = db[k]
  BY <1>1, <1>3, <1>4 DEF RowStep, StatusStep, Rows, Terminal
<1>5. CASE db'[k] = rec'[k]
  BY <1>1, <1>3, <1>5 DEF RowStep
<1> QED
  BY <1>1, <1>4, <1>5 DEF RowStep

\* Every step keeps Hosts: start hands over to a fresh goroutine, finish hands
\* its own one to the job it promoted.
LEMMA HostsNext == IInv /\ Correlating /\ Hosts /\ [Next]_vars => Hosts'
<1> SUFFICES ASSUME IInv, Correlating, Hosts, [Next]_vars PROVE Hosts'
  OBVIOUS
<1>0. /\ pc \in [Jobs -> PCs] /\ host \in [Jobs -> Jobs \cup {NoJob}]
      /\ wg \subseteq Jobs /\ attempt \in [Jobs -> Launches]
      /\ cor \in [Jobs -> {"off", "session", "poll", "done"}]
      /\ LaunchBound
      /\ \A j \in Jobs : cor[j] \in {"session", "poll"}
                           => pc[j] \in {"wait", "decide", "retry", "finish"}
  BY DEF IInv, TypeInv, TypeOK, Correlating
<1> USE <1>0, NoJobAssumption DEF Hosts, LaunchBound,
        schedVars, driveVars, ctxVars, callVars, piVars, diskVars
<1>1. ASSUME NEW j \in Jobs, SubmitAdmitted(j) PROVE Hosts'
  BY <1>1 DEF SubmitAdmitted
<1>2. ASSUME NEW j \in Jobs, SubmitQueued(j) PROVE Hosts'
  BY <1>2 DEF SubmitQueued
<1>3. ASSUME NEW j \in Jobs, SubmitRejected(j) PROVE Hosts'
  BY <1>3 DEF SubmitRejected
<1>4. ASSUME NEW j \in Jobs, Launch(j) PROVE Hosts'
  BY <1>4 DEF Launch, LaunchOK
<1>5. ASSUME NEW j \in Jobs, LaunchFails(j) PROVE Hosts'
  BY <1>5 DEF LaunchFails
<1>6. ASSUME NEW j \in Jobs, SpawnAttempts(j) PROVE Hosts'
  BY <1>6 DEF SpawnAttempts, BeginAttempt, Release
<1>7. ASSUME NEW j \in Jobs, DropLaunched(j) PROVE Hosts'
  BY <1>7 DEF DropLaunched, Release
<1>8. ASSUME NEW j \in Jobs, WaitOK(j) PROVE Hosts'
  BY <1>8 DEF WaitOK, CallFinish
<1>9. ASSUME NEW j \in Jobs, WaitAborted(j) PROVE Hosts'
  BY <1>9 DEF WaitAborted, CallFinish
<1>10. ASSUME NEW j \in Jobs, WaitErr(j) PROVE Hosts'
  BY <1>10 DEF WaitErr
<1>11. ASSUME NEW j \in Jobs, DecideRetry(j) PROVE Hosts'
  BY <1>11 DEF DecideRetry
<1>12. ASSUME NEW j \in Jobs, DecideFail(j) PROVE Hosts'
  BY <1>12 DEF DecideFail, CallFinish
<1>13. ASSUME NEW j \in Jobs, RetryClear(j) PROVE Hosts'
  BY <1>13 DEF RetryClear
<1>14. ASSUME NEW j \in Jobs, Relaunch(j) PROVE Hosts'
  BY <1>14 DEF Relaunch, LaunchOK
<1>15. ASSUME NEW j \in Jobs, NextAttempt(j) PROVE Hosts'
  BY <1>15 DEF NextAttempt, BeginAttempt
<1>16. ASSUME NEW j \in Jobs, FinishRecord(j) PROVE Hosts'
  <2> DEFINE n == Head(queue)
             promotes == WasRunningSlot(rec[j].status) /\ MayPromote
  <2>1. /\ pc[j] = "finish"
        /\ UNCHANGED <<attempt, host, cor, wg>>
    BY <1>16 DEF FinishRecord
  <2>2. \A k \in Jobs : pc[k] = "queued" => host[k] = NoJob
    OBVIOUS
  <2>3. CASE promotes
    <3>1. n \in Jobs /\ pc[n] = "queued"
      BY <2>3 DEF MayPromote, IInv, TypeInv, TypeOK, Control, QueuePC
    <3>2. pc' = [pc EXCEPT ![j] = "snap", ![n] = "promoted"]
      BY <1>16, <2>3 DEF FinishRecord
    <3> HIDE DEF n, promotes
    <3>3. \A k \in Jobs :
            pc'[k] = IF k = n THEN "promoted" ELSE IF k = j THEN "snap" ELSE pc[k]
      BY <3>1, <3>2
    <3> QED
      BY <2>1, <2>2, <3>1, <3>3
  <2>4. CASE ~promotes
    <3>1. pc' = [pc EXCEPT ![j] = "snap"]
      BY <1>16, <2>4 DEF FinishRecord
    <3> QED
      BY <2>1, <3>1
  <2> QED
    BY <2>3, <2>4
<1>17. ASSUME NEW j \in Jobs, FinishSnapshot(j) PROVE Hosts'
  BY <1>17 DEF FinishSnapshot
<1>18. ASSUME NEW j \in Jobs, FinishPrune(j) PROVE Hosts'
  BY <1>18 DEF FinishPrune, PruneWorktree
<1>19. ASSUME NEW j \in Jobs, FinishClose(j) PROVE Hosts'
  <2>1. /\ pc[j] = "closing" /\ cor' = [cor EXCEPT ![j] = "off"]
        /\ attempt' = attempt
    BY <1>19 DEF FinishClose
  <2>2. next[j] # NoJob => next[j] \in Jobs /\ pc[next[j]] = "promoted"
    BY DEF IInv, TypeInv, TypeOK, Control, PromotionOwned
  <2>3. CASE next[j] # NoJob
    <3> DEFINE n == next[j]
    <3>1. n \in Jobs /\ n # j /\ n # NoJob /\ pc[n] = "promoted" /\ host[n] = NoJob
      BY <2>1, <2>2, <2>3
    <3>2. /\ pc' = [pc EXCEPT ![j] = "end", ![n] = "launch"]
          /\ host' = [host EXCEPT ![j] = NoJob, ![n] = host[j]]
          /\ wg' = wg
      BY <1>19, <2>3 DEF FinishClose
    <3> HIDE DEF n
    <3>3. \A k \in Jobs : pc'[k] = IF k = n THEN "launch"
                                  ELSE IF k = j THEN "end" ELSE pc[k]
      BY <3>1, <3>2
    <3>4. \A k \in Jobs : host'[k] = IF k = n THEN host[j]
                                    ELSE IF k = j THEN NoJob ELSE host[k]
      BY <3>1, <3>2
    <3>5. host[j] # n
      BY <2>1, <3>1
    <3> QED
      BY <2>1, <3>1, <3>2, <3>3, <3>4, <3>5
  <2>4. CASE next[j] = NoJob
    <3>1. /\ pc' = [pc EXCEPT ![j] = "end"]
          /\ host' = [host EXCEPT ![j] = NoJob]
          /\ wg' = wg \ {host[j]}
      BY <1>19, <2>4 DEF FinishClose, Release
    <3> QED
      BY <2>1, <3>1
  <2> QED
    BY <2>3, <2>4
<1>20. ASSUME NEW j \in Jobs, CancelQueued(j) PROVE Hosts'
  <2>1. pc[j] = "queued"
    BY <1>20 DEF CancelQueued, IInv, Control, StatusPC
  <2>2. /\ pc' = [pc EXCEPT ![j] = IF j \in WriteJobs THEN "unqueued" ELSE "end"]
        /\ UNCHANGED <<attempt, host, cor, wg>>
    BY <1>20 DEF CancelQueued
  <2> QED
    BY <2>1, <2>2
<1>21. ASSUME NEW j \in Jobs, CancelQueuedPrune(j) PROVE Hosts'
  BY <1>21 DEF CancelQueuedPrune, PruneWorktree
<1>22. ASSUME NEW j \in Jobs, CancelRunning(j) PROVE Hosts'
  BY <1>22 DEF CancelRunning
<1>23. ASSUME NEW j \in Jobs, CancelKill(j) PROVE Hosts'
  BY <1>23 DEF CancelKill
<1>24. ASSUME NEW j \in Jobs, CloseCancel(j) PROVE Hosts'
  BY <1>24 DEF CloseCancel
<1>25. ASSUME NEW j \in Jobs, CorrelateSession(j) PROVE Hosts'
  BY <1>25 DEF CorrelateSession
<1>26. ASSUME NEW j \in Jobs, CorrelatePoll(j) PROVE Hosts'
  BY <1>26 DEF CorrelatePoll
<1>27. ASSUME NEW j \in Jobs, CorrelateStop(j) PROVE Hosts'
  BY <1>27 DEF CorrelateStop
<1>28. ASSUME NEW j \in Jobs, PiSession(j) PROVE Hosts'
  BY <1>28 DEF PiSession
<1>29. ASSUME NEW j \in Jobs, PiRunFile(j) PROVE Hosts'
  BY <1>29 DEF PiRunFile
<1>30. ASSUME NEW j \in Jobs, PiExit(j) PROVE Hosts'
  BY <1>30 DEF PiExit
<1>31. ASSUME NEW j \in Jobs, PiKilled(j) PROVE Hosts'
  BY <1>31 DEF PiKilled
<1>32. CASE CloseBegin
  BY <1>32 DEF CloseBegin
<1>33. CASE CloseStore
  BY <1>33 DEF CloseStore
<1>34. CASE UNCHANGED vars
  BY <1>34 DEF vars
<1>35. ASSUME NEW j \in Jobs, EscapedEnds(j) PROVE Hosts'
  BY <1>35 DEF EscapedEnds
<1> QED
  BY <1>1, <1>2, <1>3, <1>4, <1>5, <1>6, <1>7, <1>8, <1>9, <1>10, <1>11,
     <1>12, <1>13, <1>14, <1>15, <1>16, <1>17, <1>18, <1>19, <1>20, <1>21,
     <1>22, <1>23, <1>24, <1>25, <1>26, <1>27, <1>28, <1>29, <1>30, <1>31,
     <1>32, <1>33, <1>34, <1>35
     DEF Next, Submit, Cancel, Drive, Correlate, Pi

\* Every step keeps Closing: once the store is closed no attempt is spawned,
\* because start finds the registry closed under the lock.
LEMMA ClosingNext == Closing /\ [Next]_vars => Closing'
<1> SUFFICES ASSUME Closing, [Next]_vars PROVE Closing'
  OBVIOUS
<1> USE DEF Closing, schedVars, driveVars, ctxVars, callVars, piVars, diskVars
<1>1. CASE UNCHANGED <<wg, closed, closer, storeOpen>>
  BY <1>1
<1>2. ASSUME NEW j \in Jobs, SpawnAttempts(j) PROVE Closing'
  BY <1>2 DEF SpawnAttempts, BeginAttempt, CloseRaced
<1>3. ASSUME NEW j \in Jobs, DropLaunched(j) PROVE Closing'
  BY <1>3 DEF DropLaunched, Release
<1>4. ASSUME NEW j \in Jobs, FinishClose(j) PROVE Closing'
  BY <1>4 DEF FinishClose, Release
<1>5. CASE CloseBegin
  BY <1>5 DEF CloseBegin
<1>6. CASE CloseStore
  BY <1>6 DEF CloseStore, WaitGroupZero
<1>7. ASSUME NEW j \in Jobs, Submit(j) \/ Cancel(j) \/ CancelKill(j) \/ CloseCancel(j)
                             \/ Correlate(j) \/ Pi(j)
      PROVE  Closing'
  BY <1>1, <1>7 DEF Submit, SubmitAdmitted, SubmitQueued, SubmitRejected, Cancel,
     CancelQueued, CancelRunning, CancelKill, CloseCancel, Correlate, CorrelateSession,
     CorrelatePoll, CorrelateStop, Pi, PiSession, PiRunFile, PiExit, PiKilled,
     EscapedEnds
<1>8. ASSUME NEW j \in Jobs, Drive(j) PROVE Closing'
  <2>1. CASE Launch(j) \/ LaunchFails(j) \/ Relaunch(j) \/ NextAttempt(j)
    BY <1>1, <2>1 DEF Launch, LaunchFails, Relaunch, LaunchOK, NextAttempt, BeginAttempt
  <2>2. CASE WaitOK(j) \/ WaitAborted(j) \/ WaitErr(j)
    BY <1>1, <2>2 DEF WaitOK, WaitAborted, WaitErr, CallFinish
  <2>3. CASE DecideRetry(j) \/ DecideFail(j) \/ RetryClear(j)
    BY <1>1, <2>3 DEF DecideRetry, DecideFail, CallFinish, RetryClear
  <2>4. CASE FinishRecord(j) \/ FinishSnapshot(j) \/ FinishPrune(j)
             \/ CancelQueuedPrune(j)
    BY <1>1, <2>4 DEF FinishRecord, FinishSnapshot, FinishPrune, CancelQueuedPrune
  <2> QED
    BY <1>2, <1>3, <1>4, <1>8, <2>1, <2>2, <2>3, <2>4 DEF Drive
<1> QED
  BY <1>1, <1>5, <1>6, <1>7, <1>8 DEF Next, vars

\* What most steps leave alone: the run ids (or they clear them), the snapshots,
\* and which jobs are pruned or about to be.
SnapSame ==
  \A k \in Jobs : /\ rec'[k].run \in {0, rec[k].run}
                  /\ k \in snap => k \in snap'
                  /\ pc'[k] = "prune" => pc[k] = "prune"
                  /\ wt'[k] = "pruned" => wt[k] = "pruned"

\* Every step keeps Snaps.  The run id of a job is resolved only while its
\* attempt runs, so it is final when finish takes the snapshot; the run file is
\* still there; and on a tracked goroutine the store is still open.
LEMMA SnapsNext == OInv /\ [Next]_vars => Snaps'
<1> SUFFICES ASSUME OInv, [Next]_vars PROVE Snaps'
  OBVIOUS
<1>0. /\ rec \in [Jobs -> JobRecord] /\ pc \in [Jobs -> PCs] /\ snap \subseteq Jobs
      /\ wt \in [Jobs -> {"none", "present", "pruned"}]
      /\ \A j \in Jobs : wt[j] = "pruned" => pc[j] \in {"closing", "end"}
      /\ \A j \in Jobs : cor[j] \in {"session", "poll"}
                           => pc[j] \in {"wait", "decide", "retry", "finish"}
      /\ \A j \in Jobs : attempt[j] = 0 => rec[j].run = 0
      /\ StatusPC /\ Snaps
  BY DEF OInv, IInv, TypeInv, TypeOK, Control, Effects, Pruned, Identity, Correlating,
     Shutdown
<1> USE <1>0 DEF schedVars, driveVars, ctxVars, callVars, piVars, diskVars
<1>1. CASE SnapSame
  BY <1>1 DEF SnapSame, Snaps
<1>2. ASSUME NEW j \in Jobs, FinishSnapshot(j) PROVE Snaps'
  <2>1. /\ pc[j] = "snap" /\ rec' = rec /\ wt' = wt
        /\ \A k \in Jobs : k # j => pc'[k] = pc[k]
        /\ snap \subseteq snap'
    BY <1>2 DEF FinishSnapshot
  <2>2. ASSUME rec[j].run # 0, ~StoreFaults PROVE j \in snap'
    <3>1. rec[j].run \in runFiles[j]
      BY <2>1, <2>2 DEF OInv, Identity, RunFiles
    <3>2. storeOpen
      BY <2>1, <2>2 DEF OInv, Shutdown, Hosts, Closing
    <3> QED
      BY <1>2, <2>2, <3>1, <3>2 DEF FinishSnapshot, SnapshotRun
  <2> QED
    BY <2>1, <2>2 DEF Snaps
<1>3. ASSUME NEW j \in Jobs, FinishPrune(j) PROVE Snaps'
  BY <1>3 DEF FinishPrune, PruneWorktree, Snaps
<1>4. ASSUME NEW j \in Jobs, CancelQueuedPrune(j) PROVE Snaps'
  <2>1. pc[j] = "unqueued" /\ rec[j].run = 0
    BY <1>4 DEF CancelQueuedPrune, OInv, Identity, Correlating
  <2> QED
    BY <1>4, <2>1 DEF CancelQueuedPrune, PruneWorktree, Snaps
<1>5. ASSUME NEW j \in Jobs, CorrelateSession(j) PROVE Snaps'
  BY <1>5 DEF CorrelateSession, JobRecord, Snaps
<1>6. ASSUME NEW j \in Jobs, CorrelatePoll(j) PROVE Snaps'
  BY <1>6 DEF CorrelatePoll, JobRecord, Snaps
<1>7. ASSUME NEW j \in Jobs, CancelRunning(j) PROVE Snaps'
  <2>1. ~PrunesInCancel(j)
    BY <1>7 DEF CancelRunning, PrunesInCancel, StatusPC, OInv, Effects, Contexts
  <2> QED
    BY <1>1, <1>7, <2>1 DEF CancelRunning, JobRecord, SnapSame
<1>8. ASSUME NEW j \in Jobs, FinishRecord(j) PROVE Snaps'
  <2>1. \A k \in Jobs : rec'[k].run = rec[k].run
    BY <1>8 DEF FinishRecord, JobRecord
  <2>2. \A k \in Jobs : pc'[k] = "prune" => pc[k] = "prune"
    BY <1>8 DEF FinishRecord
  <2>3. snap' = snap /\ wt' = wt
    BY <1>8 DEF FinishRecord
  <2> QED
    BY <1>1, <2>1, <2>2, <2>3 DEF SnapSame
<1>9. ASSUME NEW j \in Jobs, FinishClose(j) PROVE Snaps'
  <2>1. \A k \in Jobs : pc'[k] = "prune" => pc[k] = "prune"
    BY <1>9 DEF FinishClose
  <2> QED
    BY <1>1, <1>9, <2>1 DEF FinishClose, SnapSame
<1>10. ASSUME NEW j \in Jobs,
              Submit(j) \/ CancelQueued(j) \/ CancelKill(j) \/ CloseCancel(j)
       PROVE  Snaps'
  <2>1. CASE SubmitAdmitted(j)
    BY <1>1, <2>1 DEF SubmitAdmitted, CreateWorktree, JobRecord, SnapSame
  <2>2. CASE SubmitQueued(j)
    BY <1>1, <2>2 DEF SubmitQueued, CreateWorktree, JobRecord, SnapSame
  <2>3. CASE SubmitRejected(j)
    BY <1>1, <2>3 DEF SubmitRejected, CreateWorktree, SnapSame
  <2>4. CASE CancelQueued(j)
    BY <1>1, <2>4 DEF CancelQueued, JobRecord, SnapSame
  <2>5. CASE CancelKill(j) \/ CloseCancel(j)
    BY <1>1, <2>5 DEF CancelKill, CloseCancel, SnapSame
  <2> QED
    BY <1>10, <2>1, <2>2, <2>3, <2>4, <2>5 DEF Submit
<1>11. ASSUME NEW j \in Jobs, CorrelateStop(j) \/ Pi(j) PROVE Snaps'
  BY <1>1, <1>11
     DEF CorrelateStop, Pi, PiSession, PiRunFile, PiExit, PiKilled, EscapedEnds, SnapSame
<1>12. ASSUME NEW j \in Jobs, Drive(j) PROVE Snaps'
  <2>1. CASE Launch(j) \/ LaunchFails(j) \/ Relaunch(j) \/ DropLaunched(j)
    BY <1>1, <2>1 DEF Launch, LaunchFails, Relaunch, LaunchOK, DropLaunched, SnapSame
  <2>2. CASE SpawnAttempts(j) \/ NextAttempt(j)
    BY <1>1, <2>2 DEF SpawnAttempts, NextAttempt, BeginAttempt, JobRecord, SnapSame
  <2>3. CASE WaitOK(j) \/ WaitAborted(j) \/ WaitErr(j)
    BY <1>1, <2>3 DEF WaitOK, WaitAborted, WaitErr, CallFinish, SnapSame
  <2>4. CASE DecideRetry(j) \/ DecideFail(j)
    BY <1>1, <2>4 DEF DecideRetry, DecideFail, CallFinish, SnapSame
  <2>5. CASE RetryClear(j)
    BY <1>1, <2>5 DEF RetryClear, JobRecord, SnapSame
  <2> QED
    BY <1>2, <1>3, <1>4, <1>8, <1>9, <1>12, <2>1, <2>2, <2>3, <2>4, <2>5 DEF Drive
<1>13. CASE CloseBegin \/ CloseStore \/ UNCHANGED vars
  BY <1>1, <1>13 DEF CloseBegin, CloseStore, vars, SnapSame
<1> QED
  BY <1>5, <1>6, <1>7, <1>10, <1>11, <1>12, <1>13
     DEF Next, Submit, Cancel, Correlate

\* A registry just built (NewRegistry) satisfies the invariant.
LEMMA InitOInv == Init => OInv
<1> SUFFICES ASSUME Init PROVE OInv
  OBVIOUS
<1>1. Effects
  BY DEF Init, Effects, ProcPC, Contexts, Doneness, Pruned, HoldingPCs
<1>2. Identity
  BY DEF Init, Identity, Correlating, RunFiles, Rows, NoRecord, Terminal
<1>3. Shutdown
  BY NoJobAssumption DEF Init, Shutdown, Hosts, Closing, Snaps, NoRecord
<1> QED
  BY InitIInv, <1>1, <1>2, <1>3 DEF OInv

\* The invariant holds in every reachable state.
LEMMA OInvAlways == Spec => []OInv
<1>1. OInv /\ [Next]_vars => OInv'
  <2> SUFFICES ASSUME OInv, [Next]_vars PROVE OInv'
    OBVIOUS
  <2>1. IInv'
    BY TypeNext, ControlNext DEF OInv, IInv
  <2>2. Effects'
    BY EffectsNext DEF OInv
  <2>3. Identity'
    BY IdentityNext, RowsNext DEF OInv, Identity
  <2>4. Shutdown'
    BY HostsNext, ClosingNext, SnapsNext DEF OInv, Identity, Shutdown
  <2> QED
    BY <2>1, <2>2, <2>3, <2>4 DEF OInv
<1> QED
  BY InitOInv, <1>1, PTL DEF Spec

-----------------------------------------------------------------------------
\* j.done is closed at most once, by finish or by the Cancel of a queued job,
\* and whoever is woken by it finds a terminal record, no running process and,
\* for an admitted write job that was aborted, no worktree.
THEOREM DoneCorrect == Spec => []DoneSignal
<1>1. OInv => DoneSignal
  <2> SUFFICES ASSUME OInv, NEW j \in Jobs
               PROVE  /\ done[j] <= 1
                      /\ (done[j] = 1) =>
                           /\ rec[j].status \in Terminal
                           /\ proc[j] # "alive"
                           /\ \/ ctx[j] = "none" \/ j \notin WriteJobs
                              \/ rec[j].status # "aborted" \/ wt[j] = "pruned"
    BY DEF DoneSignal
  <2>1. done[j] = IF pc[j] \in {"unqueued", "end"} THEN 1 ELSE 0
    BY DEF OInv, Effects, Doneness
  <2>2. ASSUME pc[j] \in {"unqueued", "end"} PROVE rec[j].status \in Terminal
    <3>1. rec[j].status \in Status
      BY DEF OInv, IInv, TypeInv, TypeOK, JobRecord
    <3> QED
      BY <2>2, <3>1 DEF OInv, IInv, Control, StatusPC, HoldingPCs, Status
  <2>3. ASSUME pc[j] \in {"unqueued", "end"} PROVE proc[j] # "alive"
    BY <2>3 DEF OInv, Effects, ProcPC
  <2>4. ASSUME pc[j] \in {"unqueued", "end"}
        PROVE  \/ ctx[j] = "none" \/ j \notin WriteJobs
               \/ rec[j].status # "aborted" \/ wt[j] = "pruned"
    BY <2>4 DEF OInv, Effects, Contexts, Pruned
  <2> QED
    BY <2>1, <2>2, <2>3, <2>4
<1> QED
  BY OInvAlways, <1>1, PTL

\* Prune never pulls a worktree from under a pi process, nor from under a
\* driver that may still launch one: Cancel leaves a running job to finish.
THEOREM PruneIsSafe == Spec => []PruneSafe
<1>1. OInv => PruneSafe
  BY DEF OInv, Effects, ProcPC, Pruned, PruneSafe, HoldingPCs
<1> QED
  BY OInvAlways, <1>1, PTL

\* correlate of one attempt never writes into the next: runAttempts waits for
\* it before it clears the ids, and a run id belongs to the recorded session.
THEOREM CorrelationIsFresh == Spec => []CorrelationFresh
<1>1. OInv => CorrelationFresh
  BY DEF OInv, Identity, Correlating, CorrelationFresh
<1> QED
  BY OInvAlways, <1>1, PTL

\* The authoring retry of runAttempts never repeats a fleet: once a launch has
\* written its run file, no further launch of that job happens.
THEOREM FleetRunsOnce == Spec => []NoFleetRerun
<1>1. OInv => NoFleetRerun
  BY DEF OInv, Identity, RunFiles, NoFleetRerun
<1> QED
  BY OInvAlways, <1>1, PTL

\* Whatever flush fails, a row never claims an outcome, a job or a pid that the
\* registry does not have: rows lag behind their records.
THEOREM RowsNeverAhead == Spec => []StoreNeverAhead
<1>1. OInv => StoreNeverAhead
  BY DEF OInv, Identity, Rows, StoreNeverAhead
<1> QED
  BY OInvAlways, <1>1, PTL

\* When Close has closed the store, no correlate and no driver on a goroutine
\* of the WaitGroup is left that would still write to it.
THEOREM StoreIsQuiet == Spec => []StoreQuiet
<1>1. OInv => StoreQuiet
  <2> SUFFICES ASSUME OInv, ~storeOpen, NEW j \in Jobs
               PROVE  /\ cor[j] \notin {"session", "poll"}
                      /\ host[j] = NoJob \/ pc[j] = "dropped"
    BY DEF StoreQuiet
  <2>1. host[j] = NoJob \/ pc[j] = "dropped"
    BY DEF OInv, Shutdown, Hosts, Closing
  <2>2. cor[j] \notin {"session", "poll"}
    BY <2>1, NoJobAssumption DEF OInv, Identity, Correlating, Shutdown, Hosts
  <2> QED
    BY <2>1, <2>2
<1> QED
  BY OInvAlways, <1>1, PTL

\* finish writes the run of an aborted write job into the store before it
\* removes the worktree that holds the run file, unless that write fails.
THEOREM SnapshotFirst == Spec => []SnapshotBeforePrune
<1>1. OInv => SnapshotBeforePrune
  BY DEF OInv, Shutdown, Snaps, SnapshotBeforePrune
<1> QED
  BY OInvAlways, <1>1, PTL

-----------------------------------------------------------------------------
(* What the liveness of Cancel, Close and the queue rests on: in no        *)
(* reachable state does someone wait for a step that nobody will take.     *)
(* Moves(j) spells out when a fair step of job j is possible: one of its   *)
(* driver, the exit of its correlate, or the kill of its process.  The     *)
(* one wait no fair step ends is that of Blocked(j): wait() reads the      *)
(* output of a dead pi that a process outside its group holds open.        *)
Moves(j) ==
  \/ pc[j] \in {"launch", "launched", "decide", "relaunch", "relaunched",
                "snap", "prune", "closing"}
  \/ pc[j] = "wait" /\ \/ proc[j] \in {"ok", "err"} /\ j \notin held
                       \/ proc[j] = "alive" /\ ctx[j] = "canceled"
  \/ pc[j] \in {"retry", "finish"} /\ (CorrelateExited(j) \/ AttemptCtxDone(j))

Blocked(j) == pc[j] = "wait" /\ proc[j] \in {"ok", "err"} /\ j \in held

\* A job is promoted by a driver that moves (finish, between its critical
\* section and start(next)).
PromoterMoves(j) == \E i \in Jobs : next[i] = j /\ Moves(i)

\* Whoever waits for a canceled job (<-j.done) waits for something that
\* moves, once Cancel has called the job's cancel function, or for an escaped
\* process; only a job that Close dropped at its launch is never finished.
CancelNotStuck ==
  \A j \in Jobs :
    (rec[j].status = "aborted" /\ done[j] = 0 /\ j \notin killing)
      => Moves(j) \/ PromoterMoves(j) \/ Blocked(j) \/ (pc[j] = "dropped" /\ closed)

\* Close waits on the WaitGroup only for goroutines that move or that an escaped
\* process blocks, once it has called the cancel functions it collected.
CloseNotStuck ==
  closer = "canceling" /\ closeList = {}
    => \A g \in wg : \E j \in Jobs : host[j] = g /\ (Moves(j) \/ Blocked(j))

\* While a job is queued and the server is open, some job that holds a slot
\* moves, has a pi process running, or is blocked by an escaped process.
QueueNotStuck ==
  ~closed /\ queue # <<>>
    => \E j \in Jobs :
         Moves(j) \/ Blocked(j) \/ (pc[j] = "wait" /\ proc[j] = "alive")

\* Their inductive part.  A kill that is due is still pending: Cancel's in
\* killing, Close's in closeList; finish runs with its contexts canceled.
Kills ==
  \A j \in Jobs :
    /\ rec[j].status = "aborted" /\ ctx[j] = "live" => j \in killing
    /\ (/\ closed /\ ctx[j] = "live"
        /\ pc[j] \in {"wait", "decide", "retry", "relaunch", "relaunched"})
         => j \in closeList
    /\ pc[j] = "finish" => ctx[j] = "canceled"
    /\ pc[j] \in {"retry", "finish"} /\ cor[j] \in {"session", "poll"} => corCanceled[j]
    /\ pc[j] = "dropped" => closed
    /\ pc[j] \in {"launched", "relaunched", "wait"} => proc[j] # "none"

\* Every entry of the WaitGroup belongs to a driver, and every promoted job to
\* the driver that promoted it.
Tracked ==
  /\ \A g \in wg : \E j \in Jobs : host[j] = g /\ pc[j] # "dropped"
  /\ \A j \in Jobs : pc[j] = "promoted" => \E i \in Jobs : next[i] = j

\* Every step keeps Kills: Cancel and Close register their kills under the
\* lock, and no context comes to life for a job that is marked aborted.
LEMMA KillsNext == OInv /\ Kills /\ [Next]_vars => Kills'
<1> SUFFICES ASSUME OInv, Kills, [Next]_vars PROVE Kills'
  OBVIOUS
<1>0. /\ rec \in [Jobs -> JobRecord] /\ pc \in [Jobs -> PCs]
      /\ ctx \in [Jobs -> {"none", "live", "canceled"}]
      /\ proc \in [Jobs -> {"none", "alive", "ok", "err"}]
      /\ cor \in [Jobs -> {"off", "session", "poll", "done"}]
      /\ corCanceled \in [Jobs -> BOOLEAN]
      /\ killing \subseteq Jobs /\ closeList \subseteq Jobs
      /\ StatusPC
      /\ \A j \in Jobs : pc[j] = "queued" => ctx[j] = "none"
      /\ \A j \in Jobs : cor[j] \in {"session", "poll"}
                           => pc[j] \in {"wait", "decide", "retry", "finish"}
  BY DEF OInv, IInv, TypeInv, TypeOK, Control, Effects, Contexts, Identity, Correlating
<1> USE <1>0 DEF Kills, StatusPC, HoldingPCs,
        schedVars, driveVars, ctxVars, callVars, piVars, diskVars
<1>1. ASSUME NEW j \in Jobs, SubmitAdmitted(j) PROVE Kills'
  BY <1>1 DEF SubmitAdmitted, WithContext, JobRecord
<1>2. ASSUME NEW j \in Jobs, SubmitQueued(j) PROVE Kills'
  BY <1>2 DEF SubmitQueued, JobRecord
<1>3. ASSUME NEW j \in Jobs, SubmitRejected(j) PROVE Kills'
  BY <1>3 DEF SubmitRejected
<1>4. ASSUME NEW j \in Jobs, Launch(j) PROVE Kills'
  BY <1>4 DEF Launch, LaunchOK
<1>5. ASSUME NEW j \in Jobs, LaunchFails(j) PROVE Kills'
  BY <1>5 DEF LaunchFails
<1>6. ASSUME NEW j \in Jobs, SpawnAttempts(j) PROVE Kills'
  BY <1>6 DEF SpawnAttempts, BeginAttempt, CloseRaced, JobRecord
<1>7. ASSUME NEW j \in Jobs, DropLaunched(j) PROVE Kills'
  BY <1>7 DEF DropLaunched, CloseRaced
<1>8. ASSUME NEW j \in Jobs, WaitOK(j) PROVE Kills'
  BY <1>8 DEF WaitOK, CallFinish
<1>9. ASSUME NEW j \in Jobs, WaitAborted(j) PROVE Kills'
  BY <1>9 DEF WaitAborted, CallFinish
<1>10. ASSUME NEW j \in Jobs, WaitErr(j) PROVE Kills'
  BY <1>10 DEF WaitErr
<1>11. ASSUME NEW j \in Jobs, DecideRetry(j) PROVE Kills'
  BY <1>11 DEF DecideRetry
<1>12. ASSUME NEW j \in Jobs, DecideFail(j) PROVE Kills'
  BY <1>12 DEF DecideFail, CallFinish
<1>13. ASSUME NEW j \in Jobs, RetryClear(j) PROVE Kills'
  BY <1>13 DEF RetryClear, JobRecord
<1>14. ASSUME NEW j \in Jobs, Relaunch(j) PROVE Kills'
  BY <1>14 DEF Relaunch, LaunchOK
<1>15. ASSUME NEW j \in Jobs, NextAttempt(j) PROVE Kills'
  BY <1>15 DEF NextAttempt, BeginAttempt, JobRecord
<1>16. ASSUME NEW j \in Jobs, FinishRecord(j) PROVE Kills'
  <2> DEFINE n == Head(queue)
             promotes == WasRunningSlot(rec[j].status) /\ MayPromote
  <2>1. /\ pc[j] = "finish" /\ cor[j] \notin {"session", "poll"}
        /\ UNCHANGED <<proc, cor, corCanceled, killing, closeList, closed>>
    BY <1>16 DEF FinishRecord, CorrelateExited
  <2>2. CASE promotes
    <3>1. n \in Jobs /\ pc[n] = "queued" /\ n # j
      BY <2>1, <2>2 DEF MayPromote, OInv, IInv, TypeInv, TypeOK, Control, QueuePC
    <3>2. /\ ctx' = [ctx EXCEPT ![n] = "live"]
          /\ pc' = [pc EXCEPT ![j] = "snap", ![n] = "promoted"]
          /\ rec' = [[rec EXCEPT ![j].status = FinalStatus(j)]
                      EXCEPT ![n].status = "running"]
      BY <1>16, <2>2 DEF FinishRecord, WithContext
    <3> HIDE DEF n, promotes
    <3>3. \A k \in Jobs :
            pc'[k] = IF k = n THEN "promoted" ELSE IF k = j THEN "snap" ELSE pc[k]
      BY <3>1, <3>2
    <3>4. /\ rec'[n].status = "running"
          /\ \A k \in Jobs : k # n /\ k # j => rec'[k].status = rec[k].status
      BY <3>1, <3>2 DEF JobRecord
    <3> QED
      BY <2>1, <3>1, <3>2, <3>3, <3>4
  <2>3. CASE ~promotes
    <3>1. ctx' = ctx /\ pc' = [pc EXCEPT ![j] = "snap"]
      BY <1>16, <2>3 DEF FinishRecord
    <3>2. \A k \in Jobs : k # j => rec'[k].status = rec[k].status
      BY <1>16, <2>3 DEF FinishRecord, JobRecord
    <3> QED
      BY <2>1, <3>1, <3>2
  <2> QED
    BY <2>2, <2>3
<1>17. ASSUME NEW j \in Jobs, FinishSnapshot(j) PROVE Kills'
  BY <1>17 DEF FinishSnapshot
<1>18. ASSUME NEW j \in Jobs, FinishPrune(j) PROVE Kills'
  BY <1>18 DEF FinishPrune, PruneWorktree
<1>19. ASSUME NEW j \in Jobs, FinishClose(j) PROVE Kills'
  <2>1. /\ pc[j] = "closing" /\ cor' = [cor EXCEPT ![j] = "off"]
        /\ corCanceled' = [corCanceled EXCEPT ![j] = FALSE]
        /\ UNCHANGED <<rec, ctx, proc, killing, closeList, closed>>
    BY <1>19 DEF FinishClose
  <2>2. next[j] # NoJob => next[j] \in Jobs /\ pc[next[j]] = "promoted"
    BY DEF OInv, IInv, TypeInv, TypeOK, Control, PromotionOwned
  <2>3. \A k \in Jobs : \/ pc'[k] = pc[k] /\ k # j
                        \/ pc'[k] \in {"launch", "end"}
    BY <1>19, <2>1, <2>2 DEF FinishClose
  <2> QED
    BY <2>1, <2>3
<1>20. ASSUME NEW j \in Jobs, CancelQueued(j) PROVE Kills'
  BY <1>20 DEF CancelQueued, JobRecord
<1>21. ASSUME NEW j \in Jobs, CancelQueuedPrune(j) PROVE Kills'
  BY <1>21 DEF CancelQueuedPrune, PruneWorktree
<1>22. ASSUME NEW j \in Jobs, CancelRunning(j) PROVE Kills'
  BY <1>22 DEF CancelRunning, WillKill, JobRecord
<1>23. ASSUME NEW j \in Jobs, CancelKill(j) PROVE Kills'
  BY <1>23 DEF CancelKill
<1>24. ASSUME NEW j \in Jobs, CloseCancel(j) PROVE Kills'
  BY <1>24 DEF CloseCancel
<1>25. ASSUME NEW j \in Jobs, CorrelateSession(j) PROVE Kills'
  BY <1>25 DEF CorrelateSession, JobRecord
<1>26. ASSUME NEW j \in Jobs, CorrelatePoll(j) PROVE Kills'
  BY <1>26 DEF CorrelatePoll, JobRecord
<1>27. ASSUME NEW j \in Jobs, CorrelateStop(j) PROVE Kills'
  BY <1>27 DEF CorrelateStop
<1>28. ASSUME NEW j \in Jobs, PiSession(j) PROVE Kills'
  BY <1>28 DEF PiSession
<1>29. ASSUME NEW j \in Jobs, PiRunFile(j) PROVE Kills'
  BY <1>29 DEF PiRunFile
<1>30. ASSUME NEW j \in Jobs, PiExit(j) PROVE Kills'
  BY <1>30 DEF PiExit
<1>31. ASSUME NEW j \in Jobs, PiKilled(j) PROVE Kills'
  BY <1>31 DEF PiKilled
<1>32. CASE CloseBegin
  BY <1>32 DEF CloseBegin, CloseCollects, Registered
<1>33. CASE CloseStore
  BY <1>33 DEF CloseStore
<1>34. CASE UNCHANGED vars
  BY <1>34 DEF vars
<1>35. ASSUME NEW j \in Jobs, EscapedEnds(j) PROVE Kills'
  BY <1>35 DEF EscapedEnds
<1> QED
  BY <1>1, <1>2, <1>3, <1>4, <1>5, <1>6, <1>7, <1>8, <1>9, <1>10, <1>11,
     <1>12, <1>13, <1>14, <1>15, <1>16, <1>17, <1>18, <1>19, <1>20, <1>21,
     <1>22, <1>23, <1>24, <1>25, <1>26, <1>27, <1>28, <1>29, <1>30, <1>31,
     <1>32, <1>33, <1>34, <1>35
     DEF Next, Submit, Cancel, Drive, Correlate, Pi

\* A step after which every WaitGroup entry and every promoted job has an owner
\* it had before.
TrackedSame ==
  /\ wg' \subseteq wg /\ next' = next
  /\ \A k \in Jobs : /\ host'[k] = host[k]
                     /\ pc'[k] = "promoted" => pc[k] = "promoted"
                     /\ pc'[k] = "dropped" => pc[k] = "dropped"

\* Every step keeps Tracked: the WaitGroup entry of a goroutine is taken over
\* with the goroutine, or given back when the goroutine returns.
LEMMA TrackedNext == OInv /\ Tracked /\ [Next]_vars => Tracked'
<1> SUFFICES ASSUME OInv, Tracked, [Next]_vars PROVE Tracked'
  OBVIOUS
<1>0. /\ pc \in [Jobs -> PCs] /\ host \in [Jobs -> Jobs \cup {NoJob}]
      /\ next \in [Jobs -> Jobs \cup {NoJob}] /\ wg \subseteq Jobs
      /\ PromotionOwned /\ Hosts
  BY DEF OInv, IInv, TypeInv, TypeOK, Control, Shutdown
<1> USE <1>0, NoJobAssumption
    DEF schedVars, driveVars, ctxVars, callVars, piVars, diskVars
<1>1. CASE TrackedSame
  BY <1>1 DEF TrackedSame, Tracked
<1>2. ASSUME NEW j \in Jobs, SpawnAttempts(j) PROVE Tracked'
  <2>1. /\ pc[j] = "launched" /\ wg' = (wg \ {host[j]}) \cup {j} /\ next' = next
        /\ host' = [host EXCEPT ![j] = j] /\ pc' = [pc EXCEPT ![j] = "wait"]
    BY <1>2 DEF SpawnAttempts, BeginAttempt, Release
  <2>2. \A g \in wg' : \E k \in Jobs : host'[k] = g /\ pc'[k] # "dropped"
    BY <2>1 DEF Tracked
  <2> QED
    BY <2>1, <2>2 DEF Tracked
<1>3. ASSUME NEW j \in Jobs, DropLaunched(j) PROVE Tracked'
  <2>1. /\ wg' = wg \ {host[j]} /\ next' = next /\ host' = host
        /\ pc' = [pc EXCEPT ![j] = "dropped"]
    BY <1>3 DEF DropLaunched, Release
  <2> QED
    BY <2>1 DEF Tracked
<1>4. ASSUME NEW j \in Jobs, FinishRecord(j) PROVE Tracked'
  <2> DEFINE n == Head(queue)
             promotes == WasRunningSlot(rec[j].status) /\ MayPromote
  <2>1. pc[j] = "finish" /\ next[j] = NoJob /\ wg' = wg /\ host' = host
    BY <1>4 DEF FinishRecord, PromotionOwned
  <2>2. CASE promotes
    <3>1. n \in Jobs /\ n # NoJob
      BY <2>2 DEF MayPromote, OInv, IInv, TypeInv, TypeOK
    <3>2. /\ next' = [next EXCEPT ![j] = n]
          /\ pc' = [pc EXCEPT ![j] = "snap", ![n] = "promoted"]
      BY <1>4, <2>2 DEF FinishRecord
    <3> HIDE DEF n, promotes
    <3>3. \A k \in Jobs : k # n => pc'[k] = pc[k] \/ pc'[k] = "snap"
      BY <3>1, <3>2
    <3>4. pc'[n] # "dropped"
      BY <3>1, <3>2
    <3>5. \A k \in Jobs : pc'[k] = "promoted" => \E i \in Jobs : next'[i] = k
      BY <2>1, <3>1, <3>2, <3>3 DEF Tracked
    <3>6. \A g \in wg' : \E k \in Jobs : host'[k] = g /\ pc'[k] # "dropped"
      BY <2>1, <3>3, <3>4 DEF Tracked
    <3> QED
      BY <3>5, <3>6 DEF Tracked
  <2>3. CASE ~promotes
    <3>1. next' = [next EXCEPT ![j] = NoJob] /\ pc' = [pc EXCEPT ![j] = "snap"]
      BY <1>4, <2>3 DEF FinishRecord
    <3> QED
      BY <2>1, <3>1 DEF Tracked
  <2> QED
    BY <2>2, <2>3
<1>5. ASSUME NEW j \in Jobs, FinishClose(j) PROVE Tracked'
  <2>1. pc[j] = "closing" /\ next' = [next EXCEPT ![j] = NoJob]
    BY <1>5 DEF FinishClose
  <2>2. CASE next[j] # NoJob
    <3> DEFINE n == next[j]
    <3>1. n \in Jobs /\ n # j /\ pc[n] = "promoted" /\ host[n] = NoJob
      BY <2>1, <2>2 DEF PromotionOwned, Hosts
    <3>2. /\ pc' = [pc EXCEPT ![j] = "end", ![n] = "launch"]
          /\ host' = [host EXCEPT ![j] = NoJob, ![n] = host[j]]
          /\ wg' = wg
      BY <1>5, <2>2 DEF FinishClose
    <3>3. \A i \in Jobs : i # j => next'[i] = next[i]
      BY <2>1
    <3>4. \A k \in Jobs : next[j] = k => k = n
      OBVIOUS
    <3> HIDE DEF n
    <3>5. \A k \in Jobs : /\ k \notin {j, n} => pc'[k] = pc[k] /\ host'[k] = host[k]
                          /\ k \in {j, n} => pc'[k] \in {"end", "launch"}
      BY <3>1, <3>2
    <3>6. host'[n] = host[j]
      BY <3>1, <3>2
    <3>7. \A k \in Jobs : pc'[k] = "promoted" => \E i \in Jobs : next'[i] = k
      BY <3>3, <3>4, <3>5 DEF Tracked
    <3>8. \A g \in wg' : \E k \in Jobs : host'[k] = g /\ pc'[k] # "dropped"
      BY <3>1, <3>2, <3>5, <3>6 DEF Tracked
    <3> QED
      BY <3>7, <3>8 DEF Tracked
  <2>3. CASE next[j] = NoJob
    <3>1. /\ pc' = [pc EXCEPT ![j] = "end"]
          /\ host' = [host EXCEPT ![j] = NoJob]
          /\ wg' = wg \ {host[j]}
      BY <1>5, <2>3 DEF FinishClose, Release
    <3>2. next' = next
      BY <2>1, <2>3
    <3> QED
      BY <3>1, <3>2 DEF Tracked
  <2> QED
    BY <2>2, <2>3
<1>6. ASSUME NEW j \in Jobs, Submit(j) \/ Cancel(j) \/ CancelKill(j) \/ CloseCancel(j)
                             \/ Correlate(j) \/ Pi(j)
      PROVE  Tracked'
  <2>1. CASE Submit(j)
    BY <1>1, <2>1
       DEF Submit, SubmitAdmitted, SubmitQueued, SubmitRejected, TrackedSame
  <2>2. CASE Cancel(j) \/ CancelKill(j) \/ CloseCancel(j)
    BY <1>1, <2>2
       DEF Cancel, CancelQueued, CancelRunning, CancelKill, CloseCancel, TrackedSame
  <2>3. CASE Correlate(j)
    BY <1>1, <2>3
       DEF Correlate, CorrelateSession, CorrelatePoll, CorrelateStop, TrackedSame
  <2>4. CASE Pi(j)
    BY <1>1, <2>4 DEF Pi, PiSession, PiRunFile, PiExit, PiKilled, EscapedEnds, TrackedSame
  <2> QED
    BY <1>6, <2>1, <2>2, <2>3, <2>4
<1>7. ASSUME NEW j \in Jobs, Drive(j) PROVE Tracked'
  <2>1. CASE Launch(j) \/ LaunchFails(j) \/ Relaunch(j)
    BY <1>1, <2>1 DEF Launch, LaunchFails, Relaunch, LaunchOK, TrackedSame
  <2>2. CASE NextAttempt(j)
    BY <1>1, <2>2 DEF NextAttempt, BeginAttempt, TrackedSame
  <2>3. CASE WaitOK(j) \/ WaitAborted(j) \/ WaitErr(j)
    BY <1>1, <2>3 DEF WaitOK, WaitAborted, WaitErr, CallFinish, TrackedSame
  <2>4. CASE DecideRetry(j) \/ DecideFail(j) \/ RetryClear(j)
    BY <1>1, <2>4 DEF DecideRetry, DecideFail, CallFinish, RetryClear, TrackedSame
  <2>5. CASE FinishSnapshot(j) \/ FinishPrune(j) \/ CancelQueuedPrune(j)
    BY <1>1, <2>5 DEF FinishSnapshot, FinishPrune, CancelQueuedPrune, TrackedSame
  <2> QED
    BY <1>2, <1>3, <1>4, <1>5, <1>7, <2>1, <2>2, <2>3, <2>4, <2>5 DEF Drive
<1>8. CASE CloseBegin \/ CloseStore \/ UNCHANGED vars
  BY <1>1, <1>8 DEF CloseBegin, CloseStore, vars, TrackedSame
<1> QED
  BY <1>6, <1>7, <1>8 DEF Next

PInv == OInv /\ SlotInv /\ Kills /\ Tracked

\* What the progress theorems rest on holds in every reachable state.
LEMMA PInvAlways == Spec => []PInv
<1>1. Init => Kills /\ Tracked
  BY DEF Init, Kills, Tracked, NoRecord
<1>2. OInv /\ Kills /\ Tracked /\ [Next]_vars => Kills' /\ Tracked'
  BY KillsNext, TrackedNext
<1>3. Spec => [](OInv /\ Kills /\ Tracked)
  BY OInvAlways, <1>1, <1>2, PTL DEF Spec
<1> QED
  BY SlotInvAlways, <1>3, PTL DEF PInv

\* A promoted job is waited for by a driver between finish's critical section
\* and start(next), and that driver moves.
LEMMA PromotedMoves ==
  ASSUME PInv, NEW j \in Jobs, pc[j] = "promoted"
  PROVE  PromoterMoves(j)
<1>1. PICK i \in Jobs : next[i] = j
  BY DEF PInv, Tracked
<1>2. pc[i] \in {"snap", "prune", "closing"}
  BY <1>1, NoJobAssumption DEF PInv, OInv, IInv, Control, PromotionOwned
<1>3. Moves(i)
  BY <1>2 DEF Moves
<1> QED
  BY <1>1, <1>3 DEF PromoterMoves

\* A driver that waits for its correlate goroutine has canceled it.
LEMMA CorrelateWaitMoves ==
  ASSUME PInv, NEW j \in Jobs, pc[j] \in {"retry", "finish"}
  PROVE  Moves(j)
<1>1. cor[j] \in {"off", "session", "poll", "done"}
  BY DEF PInv, OInv, IInv, TypeInv, TypeOK
<1>2. cor[j] \in {"session", "poll"} => corCanceled[j]
  BY DEF PInv, Kills
<1> QED
  BY <1>1, <1>2 DEF Moves, CorrelateExited, AttemptCtxDone

\* Every driver that holds a slot moves, but for one whose process runs with a
\* live context, one that an escaped process blocks, one that waits to be
\* started, and one that Close dropped.
LEMMA HolderMoves ==
  ASSUME PInv, NEW j \in Jobs, pc[j] \in HoldingPCs
  PROVE  \/ Moves(j)
         \/ Blocked(j)
         \/ pc[j] = "wait" /\ proc[j] = "alive" /\ ctx[j] = "live"
         \/ pc[j] \in {"promoted", "dropped"}
<1>1. CASE pc[j] = "wait"
  <2>1. proc[j] \in {"alive", "ok", "err"} /\ ctx[j] \in {"live", "canceled"}
    BY <1>1 DEF PInv, Kills, OInv, Effects, Contexts, HoldingPCs,
       IInv, TypeInv, TypeOK
  <2>2. CASE proc[j] = "alive"
    <3>1. ctx[j] = "canceled" => Moves(j)
      BY <1>1, <2>2 DEF Moves
    <3> QED
      BY <1>1, <2>1, <2>2, <3>1
  <2>3. CASE proc[j] \in {"ok", "err"}
    <3>1. j \in held => Blocked(j)
      BY <1>1, <2>3 DEF Blocked
    <3>2. j \notin held => Moves(j)
      BY <1>1, <2>3 DEF Moves
    <3> QED
      BY <3>1, <3>2
  <2> QED
    BY <2>1, <2>2, <2>3
<1>2. CASE pc[j] \in {"retry", "finish"}
  BY <1>2, CorrelateWaitMoves
<1>3. CASE pc[j] \notin {"wait", "retry", "finish", "promoted", "dropped"}
  BY <1>3 DEF HoldingPCs, Moves
<1> QED
  BY <1>1, <1>2, <1>3

\* A canceled job is never stuck: once Cancel has called its cancel function,
\* its driver, its correlate, the kill of its process or the driver that
\* promoted it can go on, until j.done is closed; the one exception is a
\* driver whose wait() reads an output an escaped process holds open.
THEOREM CancelMakesProgress == Spec => []CancelNotStuck
<1>1. PInv => CancelNotStuck
  <2> SUFFICES ASSUME PInv, NEW j \in Jobs, rec[j].status = "aborted",
                      done[j] = 0, j \notin killing
               PROVE  \/ Moves(j) \/ PromoterMoves(j) \/ Blocked(j)
                      \/ pc[j] = "dropped" /\ closed
    BY DEF CancelNotStuck
  <2>1. pc[j] \in HoldingPCs \cup {"snap", "prune", "closing"}
    <3>1. pc[j] \in PCs /\ pc[j] \notin {"idle", "rejected", "queued"}
      BY DEF PInv, OInv, IInv, TypeInv, TypeOK, Control, StatusPC
    <3>2. pc[j] \notin {"unqueued", "end"}
      BY DEF PInv, OInv, Effects, Doneness
    <3> QED
      BY <3>1, <3>2 DEF PCs
  <2>2. ctx[j] # "live" /\ (pc[j] = "dropped" => closed)
    BY DEF PInv, Kills
  <2>3. CASE pc[j] \in HoldingPCs
    BY <2>2, <2>3, HolderMoves, PromotedMoves
  <2>4. CASE pc[j] \in {"snap", "prune", "closing"}
    BY <2>4 DEF Moves
  <2> QED
    BY <2>1, <2>3, <2>4
<1> QED
  BY PInvAlways, <1>1, PTL

\* Close is never stuck in wg.Wait(): once it has called the cancel functions
\* it collected, each goroutine it waits for has a driver that can go on, or
\* one whose wait() reads an output an escaped process holds open.
THEOREM CloseMakesProgress == Spec => []CloseNotStuck
<1>1. PInv => CloseNotStuck
  <2> SUFFICES ASSUME PInv, closer = "canceling", closeList = {}, NEW g \in wg
               PROVE  \E j \in Jobs : host[j] = g /\ (Moves(j) \/ Blocked(j))
    BY DEF CloseNotStuck
  <2>1. PICK j \in Jobs : host[j] = g /\ pc[j] # "dropped"
    BY DEF PInv, Tracked
  <2>2. host[j] # NoJob
    BY <2>1, NoJobAssumption DEF PInv, OInv, IInv, TypeInv, TypeOK
  <2>3. /\ pc[j] \in PCs
        /\ pc[j] \notin {"idle", "rejected", "queued", "unqueued", "promoted", "end"}
    BY <2>2 DEF PInv, OInv, IInv, TypeInv, TypeOK, Shutdown, Hosts
  <2>4. pc[j] = "wait" => ctx[j] # "live"
    BY DEF PInv, Kills, OInv, Shutdown, Closing
  <2>5. CASE pc[j] \in HoldingPCs
    BY <2>1, <2>3, <2>4, <2>5, HolderMoves
  <2>6. CASE pc[j] \in {"snap", "prune", "closing"}
    BY <2>1, <2>6 DEF Moves
  <2> QED
    BY <2>3, <2>5, <2>6 DEF PCs
<1> QED
  BY PInvAlways, <1>1, PTL

\* The queue is never stuck: while a job is queued all slots are taken, and a
\* job that holds one can go on, has a pi process running or is blocked by an
\* escaped process.
THEOREM QueueMakesProgress == Spec => []QueueNotStuck
<1>1. PInv => QueueNotStuck
  <2> SUFFICES ASSUME PInv, ~closed, queue # <<>>
               PROVE  \E j \in Jobs :
                        Moves(j) \/ Blocked(j) \/ (pc[j] = "wait" /\ proc[j] = "alive")
    BY DEF QueueNotStuck
  <2>1. slots = Cap /\ slots = Cardinality(Holders)
    BY DEF PInv, SlotInv, SlotAccounting, WorkConserving
  <2>2. Holders # {}
    BY <2>1, CapAssumption, FS_EmptySet
  <2>3. PICK j \in Jobs : pc[j] \in HoldingPCs
    BY <2>2 DEF Holders
  <2>4. pc[j] # "dropped"
    BY DEF PInv, Kills
  <2>5. CASE pc[j] = "promoted"
    BY <2>5, PromotedMoves DEF PromoterMoves
  <2>6. CASE pc[j] # "promoted"
    BY <2>3, <2>4, <2>6, HolderMoves
  <2> QED
    BY <2>5, <2>6
<1> QED
  BY PInvAlways, <1>1, PTL

=============================================================================
