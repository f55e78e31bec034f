--------------------------- MODULE RegistryProofs ---------------------------
(***************************************************************************)
(* Proofs about Registry for every finite set of jobs, every cap and every *)
(* number of retries.                                                      *)
(***************************************************************************)
EXTENDS Registry, FiniteSetTheorems, TLAPS

-----------------------------------------------------------------------------
(* The inductive invariant.  LaunchBound keeps attempt within Launches;    *)
(* StatusPC ties a record's status to the place of its driver; QueuePC     *)
(* does so for the queue, and PromotionOwned for the hand-over in finish.  *)
LaunchBound ==
  \A j \in Jobs :
    /\ pc[j] \in {"idle", "queued", "promoted", "launch"} => attempt[j] = 0
    /\ pc[j] \in {"retry", "relaunch"} => attempt[j] <= MaxAuthoringRetries

StatusPC ==
  \A j \in Jobs :
    /\ rec[j].status = "queued" <=> pc[j] = "queued"
    /\ rec[j].status = "none" <=> pc[j] \in {"idle", "rejected"}
    /\ pc[j] \in HoldingPCs => rec[j].status \in {"running", "aborted"}
    /\ rec[j].status = "running" => pc[j] \in HoldingPCs

QueuePC ==
  /\ \A j \in Jobs : pc[j] = "queued" => \E i \in 1 .. Len(queue) : queue[i] = j
  /\ \A i \in 1 .. Len(queue) : pc[queue[i]] = "queued"
  /\ \A a, b \in 1 .. Len(queue) : queue[a] = queue[b] => a = b

PromotionOwned ==
  /\ \A j \in Jobs : next[j] # NoJob => /\ pc[j] \in {"snap", "prune", "closing"}
                                        /\ pc[next[j]] = "promoted"
  /\ \A j, k \in Jobs : next[j] = next[k] /\ next[j] # NoJob => j = k

Control == StatusPC /\ QueuePC /\ PromotionOwned

TypeInv == TypeOK /\ LaunchBound

IInv == TypeInv /\ Control

\* A flush of well-typed records leaves well-typed rows (flushUnlocked).
LEMMA FlushType ==
  ASSUME TypeOK, rec' \in [Jobs -> JobRecord], Flush(rec')
  PROVE  db' \in [Jobs -> JobRecord]
<1>1. CASE db' = db
  BY <1>1 DEF TypeOK
<1>2. CASE db' = FlushedRows(rec')
  <2>1. \A j \in Jobs : rec'[j] \in JobRecord /\ db[j] \in JobRecord
    BY DEF TypeOK
  <2> QED
    BY <1>2, <2>1 DEF FlushedRows
<1> QED
  BY <1>1, <1>2 DEF Flush

\* Setting the status of a record keeps its type (markUnlocked).
LEMMA StatusUpdate ==
  ASSUME NEW r \in [Jobs -> JobRecord], NEW j \in Jobs, NEW s \in Status
  PROVE  [r EXCEPT ![j].status = s] \in [Jobs -> JobRecord]
BY DEF JobRecord

\* Recording the pid of a launch keeps the type of a record.
LEMMA PidUpdate ==
  ASSUME NEW r \in [Jobs -> JobRecord], NEW j \in Jobs, NEW n \in Launches
  PROVE  [r EXCEPT ![j].pid = n] \in [Jobs -> JobRecord]
BY DEF JobRecord

\* Recording or clearing a run id keeps the type of a record.
LEMMA RunUpdate ==
  ASSUME NEW r \in [Jobs -> JobRecord], NEW j \in Jobs, NEW n \in Launches
  PROVE  [r EXCEPT ![j].run = n] \in [Jobs -> JobRecord]
BY DEF JobRecord

\* Recording or clearing a session id keeps the type of a record.
LEMMA SessionUpdate ==
  ASSUME NEW r \in [Jobs -> JobRecord], NEW j \in Jobs,
         NEW m \in Launches, NEW n \in Launches
  PROVE  /\ [r EXCEPT ![j].session = m, ![j].run = n] \in [Jobs -> JobRecord]
         /\ [r EXCEPT ![j].run = n, ![j].session = m] \in [Jobs -> JobRecord]
BY DEF JobRecord

\* Cancel of a queued job: what removeFromQueueUnlocked leaves.
LEMMA RemoveFacts ==
  ASSUME TypeOK, QueuePC, NEW j \in Jobs, pc[j] = "queued"
  PROVE  /\ RemoveFromQueue(queue, j) \in Seq(Jobs)
         /\ Len(RemoveFromQueue(queue, j)) = Len(queue) - 1
         /\ \E p \in 1 .. Len(queue) :
              /\ queue[p] = j
              /\ \A i \in 1 .. (Len(queue) - 1) :
                   RemoveFromQueue(queue, j)[i] = IF i < p THEN queue[i] ELSE queue[i + 1]
<1> DEFINE p == CHOOSE i \in 1 .. Len(queue) : queue[i] = j
           m == Len(queue) - 1
           f == [i \in 1 .. m |-> IF i < p THEN queue[i] ELSE queue[i + 1]]
<1>1. p \in 1 .. Len(queue) /\ queue[p] = j
  BY DEF QueuePC
<1>2. Len(queue) \in Nat /\ m \in Nat
  BY <1>1 DEF TypeOK
<1>3. \A i \in 1 .. m : (IF i < p THEN queue[i] ELSE queue[i + 1]) \in Jobs
  BY <1>1, <1>2 DEF TypeOK
<1>4. RemoveFromQueue(queue, j) = f
  BY DEF RemoveFromQueue
<1>5. f \in [1 .. m -> Jobs]
  BY <1>3
<1>6. f \in Seq(Jobs) /\ Len(f) = m
  <2> HIDE DEF f, m
  <2> QED
    BY <1>2, <1>5
<1> QED
  BY <1>1, <1>4, <1>6

\* A Submit that cannot persist its job leaves no trace: the token that was
\* taken is given back, or the entry that was appended is removed again.
LEMMA RollbackExact ==
  ASSUME TypeOK, QueuePC, NEW j \in Jobs, SubmitRejected(j)
  PROVE  slots' = slots /\ queue' = queue
<1>1. queue \in Seq(Jobs) /\ slots \in Nat /\ Len(queue) \in Nat
  BY DEF TypeOK
<1>2. CASE slots < Cap
  BY <1>1, <1>2 DEF SubmitRejected, FreeSlot
<1>3. CASE ~(slots < Cap)
  <2> DEFINE q == Append(queue, j)
             p == CHOOSE i \in 1 .. Len(q) : q[i] = j
  <2>1. /\ Len(q) = Len(queue) + 1 /\ q[Len(q)] = j
        /\ \A i \in 1 .. Len(queue) : q[i] = queue[i]
    BY <1>1
  <2>2. \A i \in 1 .. Len(queue) : queue[i] # j
    BY DEF SubmitRejected, QueuePC
  <2>3. p = Len(q)
    <3>1. \E i \in 1 .. Len(q) : q[i] = j
      BY <1>1, <2>1
    <3>2. p \in 1 .. Len(q) /\ q[p] = j
      BY <3>1
    <3> HIDE DEF p, q
    <3> QED
      BY <1>1, <2>1, <2>2, <3>2
  <2>4. /\ queue' = [i \in 1 .. (Len(q) - 1) |-> IF i < p THEN q[i] ELSE q[i + 1]]
        /\ slots' = slots
    BY <1>3 DEF SubmitRejected, RemoveFromQueue
  <2> HIDE DEF p, q
  <2>5. queue' = [i \in 1 .. Len(queue) |-> queue[i]]
    BY <1>1, <2>1, <2>3, <2>4
  <2>6. queue = [i \in 1 .. Len(queue) |-> queue[i]]
    BY <1>1
  <2> QED
    BY <2>4, <2>5, <2>6
<1> QED
  BY <1>2, <1>3

\* The inductive invariant holds in a registry just built (NewRegistry).
LEMMA InitIInv == Init => IInv
<1> SUFFICES ASSUME Init PROVE IInv
  OBVIOUS
<1>1. NoRecord \in JobRecord /\ 0 \in Launches
  BY RetryAssumption DEF NoRecord, JobRecord, Status, Terminal, Launches
<1>2. TypeOK
  <2>1. rec \in [Jobs -> JobRecord] /\ db \in [Jobs -> JobRecord]
    BY <1>1 DEF Init
  <2>2. queue \in Seq(Jobs) /\ slots \in Nat /\ wg \subseteq Jobs
    BY DEF Init
  <2>3. closed \in BOOLEAN /\ storeOpen \in BOOLEAN
    BY DEF Init
  <2>4. pc \in [Jobs -> PCs] /\ attempt \in [Jobs -> Launches]
    BY <1>1 DEF Init, PCs
  <2>5. host \in [Jobs -> Jobs \cup {NoJob}] /\ next \in [Jobs -> Jobs \cup {NoJob}]
    BY DEF Init
  <2>6. outcome \in [Jobs -> Terminal] /\ done \in [Jobs -> Nat]
    BY DEF Init, Terminal
  <2> QED
    BY <2>1, <2>2, <2>3, <2>4, <2>5, <2>6 DEF Init, TypeOK
<1>3. LaunchBound
  BY DEF Init, LaunchBound
<1>4. Control
  BY NoJobAssumption
     DEF Init, Control, StatusPC, QueuePC, PromotionOwned, NoRecord, HoldingPCs
<1> QED
  BY <1>2, <1>3, <1>4 DEF IInv, TypeInv

\* Every step of the registry keeps the types and the bound on launches.
LEMMA TypeNext == IInv /\ [Next]_vars => TypeInv'
<1> SUFFICES ASSUME TypeInv, Control, [Next]_vars PROVE TypeInv'
  BY DEF IInv, TypeInv
<1> USE RetryAssumption
    DEF TypeInv, TypeOK, LaunchBound, Launches, Terminal, PCs, HoldingPCs,
             schedVars, driveVars, ctxVars, callVars, piVars, diskVars
<1>1. ASSUME NEW j \in Jobs, SubmitAdmitted(j) PROVE TypeInv'
  <2>1. rec' \in [Jobs -> JobRecord]
    BY <1>1, StatusUpdate DEF SubmitAdmitted, Status
  <2>2. db' \in [Jobs -> JobRecord]
    BY <1>1, <2>1 DEF SubmitAdmitted, FlushedRows
  <2>3. wt' \in [Jobs -> {"none", "present", "pruned"}]
    BY <1>1 DEF SubmitAdmitted, CreateWorktree
  <2>4. slots' \in Nat /\ ctx' \in [Jobs -> {"none", "live", "canceled"}]
    BY <1>1 DEF SubmitAdmitted, WithContext
  <2>5. LaunchBound'
    BY <1>1 DEF SubmitAdmitted
  <2>6. pc' \in [Jobs -> PCs]
    BY <1>1 DEF SubmitAdmitted
  <2> QED
    BY <1>1, <2>1, <2>2, <2>3, <2>4, <2>5, <2>6 DEF SubmitAdmitted
<1>2. ASSUME NEW j \in Jobs, SubmitQueued(j) PROVE TypeInv'
  <2>1. rec' \in [Jobs -> JobRecord]
    BY <1>2, StatusUpdate DEF SubmitQueued, Status
  <2>2. db' \in [Jobs -> JobRecord]
    BY <1>2, <2>1 DEF SubmitQueued, FlushedRows
  <2>3. wt' \in [Jobs -> {"none", "present", "pruned"}]
    BY <1>2 DEF SubmitQueued, CreateWorktree
  <2>4. queue' \in Seq(Jobs)
    BY <1>2 DEF SubmitQueued
  <2> QED
    BY <1>2, <2>1, <2>2, <2>3, <2>4 DEF SubmitQueued
<1>3. ASSUME NEW j \in Jobs, SubmitRejected(j) PROVE TypeInv'
  <2>1. slots' = slots /\ queue' = queue
    BY <1>3, RollbackExact DEF Control
  <2> QED
    BY <1>3, <2>1 DEF SubmitRejected, CreateWorktree
<1>4. ASSUME NEW j \in Jobs, Launch(j) PROVE TypeInv'
  BY <1>4 DEF Launch, LaunchOK
<1>5. ASSUME NEW j \in Jobs, LaunchFails(j) PROVE TypeInv'
  BY <1>5 DEF LaunchFails
<1>6. ASSUME NEW j \in Jobs, SpawnAttempts(j) PROVE TypeInv'
  <2>1. rec' \in [Jobs -> JobRecord]
    BY <1>6, PidUpdate DEF SpawnAttempts, BeginAttempt
  <2>2. db' \in [Jobs -> JobRecord]
    BY <1>6, <2>1, FlushType DEF SpawnAttempts, BeginAttempt
  <2> QED
    BY <1>6, <2>1, <2>2 DEF SpawnAttempts, BeginAttempt, Release
<1>7. ASSUME NEW j \in Jobs, DropLaunched(j) PROVE TypeInv'
  BY <1>7 DEF DropLaunched, Release
<1>8. ASSUME NEW j \in Jobs, WaitOK(j) PROVE TypeInv'
  BY <1>8 DEF WaitOK, CallFinish
<1>9. ASSUME NEW j \in Jobs, WaitAborted(j) PROVE TypeInv'
  BY <1>9 DEF WaitAborted, CallFinish
<1>10. ASSUME NEW j \in Jobs, WaitErr(j) PROVE TypeInv'
  BY <1>10 DEF WaitErr
<1>11. ASSUME NEW j \in Jobs, DecideRetry(j) PROVE TypeInv'
  BY <1>11 DEF DecideRetry, ShouldRetry
<1>12. ASSUME NEW j \in Jobs, DecideFail(j) PROVE TypeInv'
  BY <1>12 DEF DecideFail, CallFinish
<1>13. ASSUME NEW j \in Jobs, RetryClear(j) PROVE TypeInv'
  <2>1. rec' \in [Jobs -> JobRecord]
    <3>1. 0 \in Launches
      OBVIOUS
    <3> HIDE DEF Launches
    <3> QED
      BY <1>13, <3>1, SessionUpdate DEF RetryClear
  <2>2. db' \in [Jobs -> JobRecord]
    BY <1>13, <2>1, FlushType DEF RetryClear
  <2> QED
    BY <1>13, <2>1, <2>2 DEF RetryClear
<1>14. ASSUME NEW j \in Jobs, Relaunch(j) PROVE TypeInv'
  BY <1>14 DEF Relaunch, LaunchOK
<1>15. ASSUME NEW j \in Jobs, NextAttempt(j) PROVE TypeInv'
  <2>1. rec' \in [Jobs -> JobRecord]
    BY <1>15, PidUpdate DEF NextAttempt, BeginAttempt
  <2>2. db' \in [Jobs -> JobRecord]
    BY <1>15, <2>1, FlushType DEF NextAttempt, BeginAttempt
  <2> QED
    BY <1>15, <2>1, <2>2 DEF NextAttempt, BeginAttempt
<1>16. ASSUME NEW j \in Jobs, FinishRecord(j) PROVE TypeInv'
  <2> DEFINE n == Head(queue)
             final == [rec EXCEPT ![j].status = FinalStatus(j)]
             promotes == WasRunningSlot(rec[j].status) /\ MayPromote
  <2>0. MayPromote => pc[n] = "queued"
    BY DEF MayPromote, Control, QueuePC
  <2>1. MayPromote => n \in Jobs /\ Tail(queue) \in Seq(Jobs)
    BY DEF MayPromote
  <2>2. final \in [Jobs -> JobRecord]
    <3>1. FinalStatus(j) \in Status
      BY DEF FinalStatus, Status, JobRecord
    <3> QED
      BY <3>1, StatusUpdate
  <2>3. rec' \in [Jobs -> JobRecord]
    <3>1. promotes => [final EXCEPT ![n].status = "running"] \in [Jobs -> JobRecord]
      BY <2>1, <2>2, StatusUpdate DEF Status
    <3>2. rec' = IF promotes THEN [final EXCEPT ![n].status = "running"] ELSE final
      BY <1>16 DEF FinishRecord
    <3> QED
      BY <2>2, <3>1, <3>2
  <2>4. db' \in [Jobs -> JobRecord]
    BY <1>16, <2>3, FlushType DEF FinishRecord
  <2>5. UNCHANGED <<closed, wg, attempt, host, outcome, done, cor, corCanceled,
                    callVars, piVars, diskVars>>
    BY <1>16 DEF FinishRecord
  <2>6. CASE promotes
    <3>1. /\ slots' = slots /\ queue' = Tail(queue)
          /\ next' = [next EXCEPT ![j] = n] /\ ctx' = WithContext(n)
          /\ pc' = [pc EXCEPT ![j] = "snap", ![n] = "promoted"]
      BY <1>16, <2>6 DEF FinishRecord
    <3>2. LaunchBound'
      BY <1>16, <2>0, <2>1, <2>6, <3>1 DEF FinishRecord
    <3>3. next' \in [Jobs -> Jobs \cup {NoJob}]
      BY <2>1, <2>6, <3>1
    <3>4. ctx' \in [Jobs -> {"none", "live", "canceled"}]
      BY <2>1, <2>6, <3>1 DEF WithContext
    <3>5. pc' \in [Jobs -> PCs]
      BY <2>1, <2>6, <3>1
    <3>6. slots' \in Nat /\ queue' \in Seq(Jobs)
      BY <2>1, <2>6, <3>1
    <3> QED
      BY <2>3, <2>4, <2>5, <3>2, <3>3, <3>4, <3>5, <3>6
  <2>7. CASE ~promotes
    <3>1. /\ slots' = slots \/ (slots > 0 /\ slots' = slots - 1)
          /\ queue' = queue /\ next' = [next EXCEPT ![j] = NoJob]
          /\ ctx' = ctx /\ pc' = [pc EXCEPT ![j] = "snap"]
      BY <1>16, <2>7 DEF FinishRecord, FreeSlot
    <3>2. LaunchBound'
      BY <1>16, <3>1 DEF FinishRecord
    <3>3. next' \in [Jobs -> Jobs \cup {NoJob}]
      BY <3>1
    <3>4. pc' \in [Jobs -> PCs]
      BY <3>1
    <3>5. slots' \in Nat
      BY <3>1
    <3> QED
      BY <2>3, <2>4, <2>5, <3>1, <3>2, <3>3, <3>4, <3>5
  <2> QED
    BY <2>6, <2>7
<1>17. ASSUME NEW j \in Jobs, FinishSnapshot(j) PROVE TypeInv'
  BY <1>17 DEF FinishSnapshot
<1>18. ASSUME NEW j \in Jobs, FinishPrune(j) PROVE TypeInv'
  BY <1>18 DEF FinishPrune, PruneWorktree
<1>19. ASSUME NEW j \in Jobs, FinishClose(j) PROVE TypeInv'
  <2>1. next[j] # NoJob => next[j] \in Jobs /\ pc[next[j]] = "promoted"
    BY DEF Control, PromotionOwned
  <2>2. pc' = IF next[j] # NoJob
              THEN [pc EXCEPT ![j] = "end", ![next[j]] = "launch"]
              ELSE [pc EXCEPT ![j] = "end"]
    BY <1>19 DEF FinishClose
  <2>3. pc' \in [Jobs -> PCs]
    BY <2>1, <2>2
  <2>4. LaunchBound'
    <3>1. attempt' = attempt
      BY <1>19 DEF FinishClose
    <3> QED
      BY <2>1, <2>2, <3>1
  <2>5. host' \in [Jobs -> Jobs \cup {NoJob}]
    <3>1. host[j] \in Jobs \cup {NoJob}
      OBVIOUS
    <3>2. [host EXCEPT ![j] = NoJob] \in [Jobs -> Jobs \cup {NoJob}]
      OBVIOUS
    <3>3. CASE next[j] # NoJob
      <4>1. host' = [host EXCEPT ![j] = NoJob, ![next[j]] = host[j]]
        BY <1>19, <3>3 DEF FinishClose
      <4> QED
        BY <2>1, <3>1, <3>3, <4>1
    <3>4. CASE next[j] = NoJob
      BY <1>19, <3>2, <3>4 DEF FinishClose
    <3> QED
      BY <3>3, <3>4
  <2>6. wg' \subseteq Jobs
    BY <1>19 DEF FinishClose, Release
  <2>7. /\ next' \in [Jobs -> Jobs \cup {NoJob}]
        /\ outcome' \in [Jobs -> Terminal]
        /\ done' \in [Jobs -> Nat]
    BY <1>19 DEF FinishClose
  <2>8. /\ cor' \in [Jobs -> {"off", "session", "poll", "done"}]
        /\ corCanceled' \in [Jobs -> BOOLEAN]
    BY <1>19 DEF FinishClose
  <2> QED
    BY <1>19, <2>3, <2>4, <2>5, <2>6, <2>7, <2>8 DEF FinishClose
<1>20. ASSUME NEW j \in Jobs, CancelQueued(j) PROVE TypeInv'
  <2>1. rec' \in [Jobs -> JobRecord]
    BY <1>20, StatusUpdate DEF CancelQueued, Status, Terminal
  <2>2. db' \in [Jobs -> JobRecord]
    BY <1>20, <2>1, FlushType DEF CancelQueued
  <2>3. queue' \in Seq(Jobs)
    <3>1. pc[j] = "queued"
      BY <1>20 DEF CancelQueued, Control, StatusPC
    <3> QED
      BY <1>20, <3>1, RemoveFacts DEF CancelQueued, Control
  <2> QED
    BY <1>20, <2>1, <2>2, <2>3 DEF CancelQueued
<1>21. ASSUME NEW j \in Jobs, CancelQueuedPrune(j) PROVE TypeInv'
  BY <1>21 DEF CancelQueuedPrune, PruneWorktree
<1>22. ASSUME NEW j \in Jobs, CancelRunning(j) PROVE TypeInv'
  <2>1. rec' \in [Jobs -> JobRecord]
    BY <1>22, StatusUpdate DEF CancelRunning, Status, Terminal
  <2>2. db' \in [Jobs -> JobRecord]
    BY <1>22, <2>1, FlushType DEF CancelRunning
  <2> QED
    BY <1>22, <2>1, <2>2 DEF CancelRunning, WillKill
<1>23. ASSUME NEW j \in Jobs, CancelKill(j) PROVE TypeInv'
  BY <1>23 DEF CancelKill
<1>24. ASSUME NEW j \in Jobs, CloseCancel(j) PROVE TypeInv'
  BY <1>24 DEF CloseCancel
<1>25. ASSUME NEW j \in Jobs, CorrelateSession(j) PROVE TypeInv'
  <2>0. WithRun(j) \in Launches
    BY DEF WithRun, JobRecord
  <2>1. rec' \in [Jobs -> JobRecord]
    BY <1>25, SessionUpdate, <2>0 DEF CorrelateSession
  <2>2. db' \in [Jobs -> JobRecord]
    BY <1>25, <2>1, FlushType DEF CorrelateSession
  <2> QED
    BY <1>25, <2>1, <2>2 DEF CorrelateSession
<1>26. ASSUME NEW j \in Jobs, CorrelatePoll(j) PROVE TypeInv'
  <2>0. WithRun(j) \in Launches
    BY DEF WithRun, JobRecord
  <2>1. rec' \in [Jobs -> JobRecord]
    BY <1>26, RunUpdate, <2>0 DEF CorrelatePoll
  <2>2. db' \in [Jobs -> JobRecord]
    BY <1>26, <2>1, FlushType DEF CorrelatePoll
  <2> QED
    BY <1>26, <2>1, <2>2 DEF CorrelatePoll
<1>27. ASSUME NEW j \in Jobs, CorrelateStop(j) PROVE TypeInv'
  BY <1>27 DEF CorrelateStop
<1>28. ASSUME NEW j \in Jobs, PiSession(j) PROVE TypeInv'
  BY <1>28 DEF PiSession
<1>29. ASSUME NEW j \in Jobs, PiRunFile(j) PROVE TypeInv'
  BY <1>29 DEF PiRunFile
<1>30. ASSUME NEW j \in Jobs, PiExit(j) PROVE TypeInv'
  <2>1. held' \subseteq Jobs
    BY <1>30 DEF PiExit, MayEscape
  <2> QED
    BY <1>30, <2>1 DEF PiExit
<1>31. ASSUME NEW j \in Jobs, PiKilled(j) PROVE TypeInv'
  BY <1>31 DEF PiKilled, MayEscape
<1>32. CASE CloseBegin
  <2>1. db' \in [Jobs -> JobRecord]
    <3>1. rec' \in [Jobs -> JobRecord] /\ Flush(rec')
      BY <1>32 DEF CloseBegin, Flush, FlushedRows
    <3> QED
      BY <3>1, FlushType
  <2> QED
    BY <1>32, <2>1 DEF CloseBegin, CloseCollects, Registered
<1>33. CASE CloseStore
  BY <1>33 DEF CloseStore
<1>34. CASE UNCHANGED vars
  BY <1>34 DEF vars
<1>35. ASSUME NEW j \in Jobs, EscapedEnds(j) PROVE TypeInv'
  BY <1>35 DEF EscapedEnds
<1> QED
  BY <1>1, <1>2, <1>3, <1>4, <1>5, <1>6, <1>7, <1>8, <1>9, <1>10, <1>11,
     <1>12, <1>13, <1>14, <1>15, <1>16, <1>17, <1>18, <1>19, <1>20,
     <1>21, <1>22, <1>23, <1>24, <1>25, <1>26, <1>27, <1>28, <1>29,
     <1>30, <1>31, <1>32, <1>33, <1>34, <1>35
     DEF Next, Submit, Cancel, Drive, Correlate, Pi

\* Every step keeps records, queue and promotions in line with the drivers.
LEMMA ControlNext == IInv /\ [Next]_vars => Control'
<1> SUFFICES ASSUME TypeOK, Control, [Next]_vars PROVE Control'
  BY DEF IInv, TypeInv
<1>0. /\ rec \in [Jobs -> JobRecord] /\ queue \in Seq(Jobs)
      /\ pc \in [Jobs -> PCs] /\ next \in [Jobs -> Jobs \cup {NoJob}]
      /\ outcome \in [Jobs -> Terminal]
  BY DEF TypeOK
<1> USE <1>0, NoJobAssumption
    DEF Control, StatusPC, QueuePC, PromotionOwned, HoldingPCs,
        schedVars, driveVars, ctxVars, callVars, piVars, diskVars
<1>1. ASSUME NEW j \in Jobs, SubmitAdmitted(j) PROVE Control'
  <2>1. StatusPC'
    BY <1>1 DEF SubmitAdmitted, JobRecord
  <2>2. QueuePC' /\ PromotionOwned'
    BY <1>1 DEF SubmitAdmitted
  <2> QED
    BY <2>1, <2>2
<1>2. ASSUME NEW j \in Jobs, SubmitQueued(j) PROVE Control'
  <2>1. StatusPC'
    BY <1>2 DEF SubmitQueued, JobRecord
  <2>2. QueuePC'
    <3>1. /\ Len(queue') = Len(queue) + 1
          /\ \A i \in 1 .. Len(queue) : queue'[i] = queue[i]
          /\ queue'[Len(queue) + 1] = j
      BY <1>2 DEF SubmitQueued
    <3>2. Len(queue) \in Nat
      OBVIOUS
    <3>3. pc[j] = "idle" /\ pc' = [pc EXCEPT ![j] = "queued"]
      BY <1>2 DEF SubmitQueued
    <3>4. \A k \in Jobs : pc'[k] = "queued" => \E i \in 1 .. Len(queue') : queue'[i] = k
      BY <3>1, <3>2, <3>3
    <3>5. \A i \in 1 .. Len(queue') : pc'[queue'[i]] = "queued"
      BY <3>1, <3>2, <3>3
    <3>6. \A a, b \in 1 .. Len(queue') : queue'[a] = queue'[b] => a = b
      BY <3>1, <3>2, <3>3
    <3> QED
      BY <3>4, <3>5, <3>6
  <2>3. PromotionOwned'
    BY <1>2 DEF SubmitQueued
  <2> QED
    BY <2>1, <2>2, <2>3
<1>3. ASSUME NEW j \in Jobs, SubmitRejected(j) PROVE Control'
  <2>1. slots' = slots /\ queue' = queue
    BY <1>3, RollbackExact
  <2> QED
    BY <1>3, <2>1 DEF SubmitRejected
<1>4. ASSUME NEW j \in Jobs, Launch(j) PROVE Control'
  <2>1. StatusPC'
    BY <1>4 DEF Launch, LaunchOK
  <2>2. QueuePC' /\ PromotionOwned'
    BY <1>4 DEF Launch, LaunchOK
  <2> QED
    BY <2>1, <2>2
<1>5. ASSUME NEW j \in Jobs, LaunchFails(j) PROVE Control'
  BY <1>5 DEF LaunchFails
<1>6. ASSUME NEW j \in Jobs, SpawnAttempts(j) PROVE Control'
  <2>1. StatusPC'
    BY <1>6 DEF SpawnAttempts, BeginAttempt, JobRecord
  <2>2. QueuePC' /\ PromotionOwned'
    BY <1>6 DEF SpawnAttempts, BeginAttempt
  <2> QED
    BY <2>1, <2>2
<1>7. ASSUME NEW j \in Jobs, DropLaunched(j) PROVE Control'
  BY <1>7 DEF DropLaunched
<1>8. ASSUME NEW j \in Jobs, WaitOK(j) PROVE Control'
  BY <1>8 DEF WaitOK, CallFinish
<1>9. ASSUME NEW j \in Jobs, WaitAborted(j) PROVE Control'
  BY <1>9 DEF WaitAborted, CallFinish
<1>10. ASSUME NEW j \in Jobs, WaitErr(j) PROVE Control'
  BY <1>10 DEF WaitErr
<1>11. ASSUME NEW j \in Jobs, DecideRetry(j) PROVE Control'
  BY <1>11 DEF DecideRetry
<1>12. ASSUME NEW j \in Jobs, DecideFail(j) PROVE Control'
  BY <1>12 DEF DecideFail, CallFinish
<1>13. ASSUME NEW j \in Jobs, RetryClear(j) PROVE Control'
  <2>1. StatusPC'
    BY <1>13 DEF RetryClear, JobRecord
  <2>2. QueuePC' /\ PromotionOwned'
    BY <1>13 DEF RetryClear
  <2> QED
    BY <2>1, <2>2
<1>14. ASSUME NEW j \in Jobs, Relaunch(j) PROVE Control'
  BY <1>14 DEF Relaunch, LaunchOK
<1>15. ASSUME NEW j \in Jobs, NextAttempt(j) PROVE Control'
  <2>1. StatusPC'
    BY <1>15 DEF NextAttempt, BeginAttempt, JobRecord
  <2>2. QueuePC' /\ PromotionOwned'
    BY <1>15 DEF NextAttempt, BeginAttempt
  <2> QED
    BY <2>1, <2>2
<1>16. ASSUME NEW j \in Jobs, FinishRecord(j) PROVE Control'
  <2> DEFINE n == Head(queue)
             promotes == WasRunningSlot(rec[j].status) /\ MayPromote
  <2>1. /\ pc[j] = "finish" /\ next[j] = NoJob
        /\ FinalStatus(j) \in Terminal
    BY <1>16 DEF FinishRecord, FinalStatus, Terminal
  <2>2. CASE promotes
    <3>1. /\ rec' = [[rec EXCEPT ![j].status = FinalStatus(j)]
                      EXCEPT ![n].status = "running"]
          /\ queue' = Tail(queue)
          /\ next' = [next EXCEPT ![j] = n]
          /\ pc' = [pc EXCEPT ![j] = "snap", ![n] = "promoted"]
      BY <1>16, <2>2 DEF FinishRecord
    <3>2. /\ n = queue[1] /\ n \in Jobs /\ pc[n] = "queued" /\ n # j
          /\ Len(queue) \in Nat /\ Len(queue') = Len(queue) - 1
          /\ \A i \in 1 .. Len(queue') : queue'[i] = queue[i + 1]
      BY <2>1, <2>2, <3>1 DEF MayPromote
    <3> HIDE DEF n
    <3>3. StatusPC'
      <4>1. \A k \in Jobs : rec'[k].status = IF k = n THEN "running"
                                            ELSE IF k = j THEN FinalStatus(j)
                                            ELSE rec[k].status
        BY <3>1, <3>2 DEF JobRecord
      <4>2. \A k \in Jobs : pc'[k] = IF k = n THEN "promoted"
                                    ELSE IF k = j THEN "snap" ELSE pc[k]
        BY <3>1, <3>2
      <4> QED
        BY <2>1, <3>2, <4>1, <4>2 DEF Terminal
    <3>4. QueuePC'
      <4>1. /\ pc'[n] # "queued" /\ pc'[j] # "queued"
            /\ \A k \in Jobs \ {j, n} : pc'[k] = pc[k]
        BY <3>1, <3>2
      <4>2. \A k \in Jobs : pc'[k] = "queued" => \E i \in 1 .. Len(queue') : queue'[i] = k
        <5> SUFFICES ASSUME NEW k \in Jobs, pc'[k] = "queued"
                     PROVE  \E i \in 1 .. Len(queue') : queue'[i] = k
          OBVIOUS
        <5>1. PICK i \in 1 .. Len(queue) : queue[i] = k /\ i # 1
          BY <3>2, <4>1
        <5>2. i - 1 \in 1 .. Len(queue') /\ queue'[i - 1] = k
          BY <3>2, <5>1
        <5> QED
          BY <5>2
      <4>3. \A i \in 1 .. Len(queue') : pc'[queue'[i]] = "queued"
        BY <2>1, <3>2, <4>1
      <4>4. \A a, b \in 1 .. Len(queue') : queue'[a] = queue'[b] => a = b
        BY <3>2
      <4> QED
        BY <4>2, <4>3, <4>4
    <3>5. PromotionOwned'
      BY <2>1, <3>1, <3>2
    <3> QED
      BY <3>3, <3>4, <3>5
  <2>3. CASE ~promotes
    <3>1. /\ rec' = [rec EXCEPT ![j].status = FinalStatus(j)]
          /\ queue' = queue
          /\ next' = [next EXCEPT ![j] = NoJob]
          /\ pc' = [pc EXCEPT ![j] = "snap"]
      BY <1>16, <2>3 DEF FinishRecord
    <3>2. StatusPC'
      BY <2>1, <3>1 DEF JobRecord, Terminal
    <3>3. QueuePC'
      BY <2>1, <3>1
    <3>4. PromotionOwned'
      BY <2>1, <3>1
    <3> QED
      BY <3>2, <3>3, <3>4
  <2> QED
    BY <2>2, <2>3
<1>17. ASSUME NEW j \in Jobs, FinishSnapshot(j) PROVE Control'
  BY <1>17 DEF FinishSnapshot
<1>18. ASSUME NEW j \in Jobs, FinishPrune(j) PROVE Control'
  BY <1>18 DEF FinishPrune
<1>19. ASSUME NEW j \in Jobs, FinishClose(j) PROVE Control'
  <2>1. /\ pc[j] = "closing" /\ rec' = rec /\ queue' = queue
        /\ next' = [next EXCEPT ![j] = NoJob]
        /\ pc' = IF next[j] # NoJob
                 THEN [pc EXCEPT ![j] = "end", ![next[j]] = "launch"]
                 ELSE [pc EXCEPT ![j] = "end"]
    BY <1>19 DEF FinishClose
  <2>2. next[j] # NoJob => next[j] \in Jobs /\ pc[next[j]] = "promoted"
    OBVIOUS
  <2>3. StatusPC'
    BY <2>1, <2>2
  <2>4. QueuePC'
    BY <2>1, <2>2
  <2>5. PromotionOwned'
    BY <2>1, <2>2
  <2> QED
    BY <2>3, <2>4, <2>5
<1>20. ASSUME NEW j \in Jobs, CancelQueued(j) PROVE Control'
  <2>0. pc[j] = "queued"
    BY <1>20 DEF CancelQueued
  <2>1. StatusPC'
    BY <1>20, <2>0 DEF CancelQueued, JobRecord
  <2>2. QueuePC'
    <3> DEFINE q == RemoveFromQueue(queue, j)
    <3>1. PICK p \in 1 .. Len(queue) :
             /\ queue[p] = j
             /\ \A i \in 1 .. (Len(queue) - 1) :
                  q[i] = IF i < p THEN queue[i] ELSE queue[i + 1]
      BY <2>0, RemoveFacts
    <3>2. Len(queue) \in Nat /\ Len(q) = Len(queue) - 1 /\ queue' = q
      BY <1>20, <2>0, RemoveFacts DEF CancelQueued
    <3>3. /\ pc'[j] # "queued"
          /\ \A k \in Jobs \ {j} : pc'[k] = pc[k]
      BY <1>20 DEF CancelQueued
    <3> HIDE DEF q
    <3>4. \A k \in Jobs : pc'[k] = "queued" => \E i \in 1 .. Len(queue') : queue'[i] = k
      <4> SUFFICES ASSUME NEW k \in Jobs, pc'[k] = "queued"
                   PROVE  \E i \in 1 .. Len(queue') : queue'[i] = k
        OBVIOUS
      <4>1. PICK i \in 1 .. Len(queue) : queue[i] = k /\ i # p
        BY <3>1, <3>3
      <4>2. CASE i < p
        BY <3>1, <3>2, <4>1, <4>2
      <4>3. CASE i > p
        <5>1. i - 1 \in 1 .. Len(queue') /\ queue'[i - 1] = k
          BY <3>1, <3>2, <4>1, <4>3
        <5> QED
          BY <5>1
      <4> QED
        BY <4>1, <4>2, <4>3
    <3>5. \A i \in 1 .. Len(queue') : pc'[queue'[i]] = "queued"
      BY <3>1, <3>2, <3>3
    <3>6. \A a, b \in 1 .. Len(queue') : queue'[a] = queue'[b] => a = b
      <4>1. \A a, b \in 1 .. Len(queue) : queue[a] = queue[b] => a = b
        OBVIOUS
      <4> HIDE <1>0 DEF Control, QueuePC
      <4> QED
        BY <3>1, <3>2, <4>1
    <3> QED
      BY <3>4, <3>5, <3>6
  <2>3. PromotionOwned'
    BY <1>20, <2>0 DEF CancelQueued
  <2> QED
    BY <2>1, <2>2, <2>3
<1>21. ASSUME NEW j \in Jobs, CancelQueuedPrune(j) PROVE Control'
  BY <1>21 DEF CancelQueuedPrune
<1>22. ASSUME NEW j \in Jobs, CancelRunning(j) PROVE Control'
  <2>1. StatusPC'
    BY <1>22 DEF CancelRunning, JobRecord
  <2>2. QueuePC' /\ PromotionOwned'
    BY <1>22 DEF CancelRunning
  <2> QED
    BY <2>1, <2>2
<1>23. ASSUME NEW j \in Jobs, CancelKill(j) PROVE Control'
  BY <1>23 DEF CancelKill
<1>24. ASSUME NEW j \in Jobs, CloseCancel(j) PROVE Control'
  BY <1>24 DEF CloseCancel
<1>25. ASSUME NEW j \in Jobs, CorrelateSession(j) PROVE Control'
  <2>1. StatusPC'
    BY <1>25 DEF CorrelateSession, JobRecord
  <2>2. QueuePC' /\ PromotionOwned'
    BY <1>25 DEF CorrelateSession
  <2> QED
    BY <2>1, <2>2
<1>26. ASSUME NEW j \in Jobs, CorrelatePoll(j) PROVE Control'
  <2>1. StatusPC'
    BY <1>26 DEF CorrelatePoll, JobRecord
  <2>2. QueuePC' /\ PromotionOwned'
    BY <1>26 DEF CorrelatePoll
  <2> QED
    BY <2>1, <2>2
<1>27. ASSUME NEW j \in Jobs, CorrelateStop(j) PROVE Control'
  BY <1>27 DEF CorrelateStop
<1>28. ASSUME NEW j \in Jobs, PiSession(j) PROVE Control'
  BY <1>28 DEF PiSession
<1>29. ASSUME NEW j \in Jobs, PiRunFile(j) PROVE Control'
  BY <1>29 DEF PiRunFile
<1>30. ASSUME NEW j \in Jobs, PiExit(j) PROVE Control'
  BY <1>30 DEF PiExit
<1>31. ASSUME NEW j \in Jobs, PiKilled(j) PROVE Control'
  BY <1>31 DEF PiKilled
<1>32. CASE CloseBegin
  BY <1>32 DEF CloseBegin
<1>33. CASE CloseStore
  BY <1>33 DEF CloseStore
<1>34. CASE UNCHANGED vars
  BY <1>34 DEF vars
<1>35. ASSUME NEW j \in Jobs, EscapedEnds(j) PROVE Control'
  BY <1>35 DEF EscapedEnds
<1> QED
  BY <1>1, <1>2, <1>3, <1>4, <1>5, <1>6, <1>7, <1>8, <1>9, <1>10, <1>11,
     <1>12, <1>13, <1>14, <1>15, <1>16, <1>17, <1>18, <1>19, <1>20,
     <1>21, <1>22, <1>23, <1>24, <1>25, <1>26, <1>27, <1>28, <1>29,
     <1>30, <1>31, <1>32, <1>33, <1>34, <1>35
     DEF Next, Submit, Cancel, Drive, Correlate, Pi

\* The inductive invariant holds in every reachable state.
LEMMA IInvAlways == Spec => []IInv
<1>1. IInv /\ [Next]_vars => IInv'
  BY TypeNext, ControlNext DEF IInv
<1> QED
  BY InitIInv, <1>1, PTL DEF Spec

-----------------------------------------------------------------------------
\* Every variable keeps its type in every reachable state; in particular
\* runAttempts never launches a job more than MaxAuthoringRetries + 1 times.
THEOREM TypeCorrect == Spec => []TypeOK
<1>1. IInv => TypeOK
  BY DEF IInv, TypeInv
<1> QED
  BY IInvAlways, <1>1, PTL

\* The queue and the records agree, whatever Submit, Cancel and finish do:
\* a job is queued exactly when it is in r.queue, and it is there once.
THEOREM QueueCorrect == Spec => []QueueExact
<1>1. IInv => QueueExact
  <2> SUFFICES ASSUME IInv PROVE QueueExact
    OBVIOUS
  <2>1. \A j \in Jobs : pc[j] = "queued" <=> j \in Queued
    BY DEF IInv, Control, QueuePC, Queued
  <2> QED
    BY <2>1 DEF IInv, Control, QueuePC, StatusPC, QueueExact
<1> QED
  BY IInvAlways, <1>1, PTL

=============================================================================
