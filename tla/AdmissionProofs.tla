------------------------- MODULE AdmissionProofs -------------------------
(***************************************************************************)
(* Slots and admission order, for every finite set of jobs and every cap:  *)
(* no slot is leaked or freed twice, none is idle while a job waits, jobs  *)
(* are admitted in arrival order, and Registry implements Admission.       *)
(***************************************************************************)
EXTENDS RegistryProofs

\* Inductive together with IInv: FinishRecord needs StatusPC to know that
\* the job it ends holds a slot, and QueuePC that the one it starts does not.
SlotInv == IInv /\ SlotAccounting /\ WorkConserving

\* The slot holders depend on the positions of the drivers alone.
LEMMA HoldersKept ==
  ASSUME \A k \in Jobs : pc'[k] \in HoldingPCs <=> pc[k] \in HoldingPCs
  PROVE  Holders' = Holders
BY DEF Holders

\* Only finitely many jobs hold a slot.
LEMMA HoldersFinite == IsFiniteSet(Holders) /\ Cardinality(Holders) \in Nat
BY JobsAssumption, FS_Subset, FS_CardinalityType DEF Holders

\* A registry just built has every slot free and an empty queue.
LEMMA InitSlots == Init => SlotAccounting /\ WorkConserving
<1> SUFFICES ASSUME Init PROVE SlotAccounting /\ WorkConserving
  OBVIOUS
<1>1. Holders = {}
  BY DEF Init, Holders, HoldingPCs
<1> QED
  BY <1>1, FS_EmptySet, CapAssumption DEF Init, SlotAccounting, WorkConserving

\* No step leaks a slot, frees one twice or leaves one idle.
LEMMA SlotsNext == SlotInv /\ [Next]_vars => SlotAccounting' /\ WorkConserving'
<1> SUFFICES ASSUME SlotInv, [Next]_vars PROVE SlotAccounting' /\ WorkConserving'
  OBVIOUS
<1>0. /\ queue \in Seq(Jobs) /\ slots \in Nat /\ closed \in BOOLEAN
      /\ pc \in [Jobs -> PCs] /\ next \in [Jobs -> Jobs \cup {NoJob}]
      /\ StatusPC /\ QueuePC /\ PromotionOwned
      /\ SlotAccounting /\ WorkConserving
  BY DEF SlotInv, IInv, TypeInv, TypeOK, Control
<1> USE <1>0, HoldersFinite, CapAssumption
    DEF SlotAccounting, WorkConserving, schedVars
<1>1. ASSUME NEW j \in Jobs, SubmitAdmitted(j) PROVE SlotAccounting' /\ WorkConserving'
  <2>1. j \notin Holders /\ Holders' = Holders \cup {j}
    BY <1>1 DEF SubmitAdmitted, Holders, HoldingPCs
  <2>2. Cardinality(Holders') = Cardinality(Holders) + 1
    BY <2>1, FS_AddElement
  <2>3. slots' = slots + 1 /\ slots < Cap /\ queue' = queue /\ closed' = closed
    BY <1>1 DEF SubmitAdmitted
  <2> QED
    BY <2>2, <2>3
<1>2. ASSUME NEW j \in Jobs, SubmitQueued(j) PROVE SlotAccounting' /\ WorkConserving'
  <2>1. Holders' = Holders
    BY <1>2, HoldersKept DEF SubmitQueued, HoldingPCs
  <2>2. slots' = slots /\ slots >= Cap
    BY <1>2 DEF SubmitQueued
  <2> QED
    BY <2>1, <2>2
<1>3. ASSUME NEW j \in Jobs, SubmitRejected(j) PROVE SlotAccounting' /\ WorkConserving'
  <2>1. Holders' = Holders
    BY <1>3, HoldersKept DEF SubmitRejected, HoldingPCs
  <2>2. slots' = slots /\ queue' = queue
    BY <1>3, RollbackExact DEF SlotInv, IInv, TypeInv
  <2> QED
    BY <1>3, <2>1, <2>2 DEF SubmitRejected
<1>4. ASSUME NEW j \in Jobs, Launch(j) PROVE SlotAccounting' /\ WorkConserving'
  <2>1. Holders' = Holders
    BY <1>4, HoldersKept DEF Launch, LaunchOK, HoldingPCs
  <2> QED
    BY <1>4, <2>1 DEF Launch, LaunchOK
<1>5. ASSUME NEW j \in Jobs, LaunchFails(j) PROVE SlotAccounting' /\ WorkConserving'
  <2>1. Holders' = Holders
    BY <1>5, HoldersKept DEF LaunchFails, HoldingPCs
  <2> QED
    BY <1>5, <2>1 DEF LaunchFails
<1>6. ASSUME NEW j \in Jobs, SpawnAttempts(j) PROVE SlotAccounting' /\ WorkConserving'
  <2>1. Holders' = Holders
    BY <1>6, HoldersKept DEF SpawnAttempts, BeginAttempt, HoldingPCs
  <2> QED
    BY <1>6, <2>1 DEF SpawnAttempts, BeginAttempt
<1>7. ASSUME NEW j \in Jobs, DropLaunched(j) PROVE SlotAccounting' /\ WorkConserving'
  <2>1. Holders' = Holders
    BY <1>7, HoldersKept DEF DropLaunched, HoldingPCs
  <2> QED
    BY <1>7, <2>1 DEF DropLaunched
<1>8. ASSUME NEW j \in Jobs, WaitOK(j) PROVE SlotAccounting' /\ WorkConserving'
  <2>1. Holders' = Holders
    BY <1>8, HoldersKept DEF WaitOK, CallFinish, HoldingPCs
  <2> QED
    BY <1>8, <2>1 DEF WaitOK, CallFinish
<1>9. ASSUME NEW j \in Jobs, WaitAborted(j) PROVE SlotAccounting' /\ WorkConserving'
  <2>1. Holders' = Holders
    BY <1>9, HoldersKept DEF WaitAborted, CallFinish, HoldingPCs
  <2> QED
    BY <1>9, <2>1 DEF WaitAborted, CallFinish
<1>10. ASSUME NEW j \in Jobs, WaitErr(j) PROVE SlotAccounting' /\ WorkConserving'
  <2>1. Holders' = Holders
    BY <1>10, HoldersKept DEF WaitErr, HoldingPCs
  <2> QED
    BY <1>10, <2>1 DEF WaitErr
<1>11. ASSUME NEW j \in Jobs, DecideRetry(j) PROVE SlotAccounting' /\ WorkConserving'
  <2>1. Holders' = Holders
    BY <1>11, HoldersKept DEF DecideRetry, HoldingPCs
  <2> QED
    BY <1>11, <2>1 DEF DecideRetry
<1>12. ASSUME NEW j \in Jobs, DecideFail(j) PROVE SlotAccounting' /\ WorkConserving'
  <2>1. Holders' = Holders
    BY <1>12, HoldersKept DEF DecideFail, CallFinish, HoldingPCs
  <2> QED
    BY <1>12, <2>1 DEF DecideFail, CallFinish
<1>13. ASSUME NEW j \in Jobs, RetryClear(j) PROVE SlotAccounting' /\ WorkConserving'
  <2>1. Holders' = Holders
    BY <1>13, HoldersKept DEF RetryClear, HoldingPCs
  <2> QED
    BY <1>13, <2>1 DEF RetryClear
<1>14. ASSUME NEW j \in Jobs, Relaunch(j) PROVE SlotAccounting' /\ WorkConserving'
  <2>1. Holders' = Holders
    BY <1>14, HoldersKept DEF Relaunch, LaunchOK, HoldingPCs
  <2> QED
    BY <1>14, <2>1 DEF Relaunch, LaunchOK
<1>15. ASSUME NEW j \in Jobs, NextAttempt(j) PROVE SlotAccounting' /\ WorkConserving'
  <2>1. Holders' = Holders
    BY <1>15, HoldersKept DEF NextAttempt, BeginAttempt, HoldingPCs
  <2> QED
    BY <1>15, <2>1 DEF NextAttempt, BeginAttempt
<1>16. ASSUME NEW j \in Jobs, FinishRecord(j) PROVE SlotAccounting' /\ WorkConserving'
  <2> DEFINE n == Head(queue)
  <2>1. pc[j] = "finish" /\ WasRunningSlot(rec[j].status)
    BY <1>16 DEF FinishRecord, WasRunningSlot, StatusPC, HoldingPCs
  <2>2. CASE MayPromote
    <3>1. /\ slots' = slots /\ closed' = closed
          /\ pc' = [pc EXCEPT ![j] = "snap", ![n] = "promoted"]
      BY <1>16, <2>1, <2>2 DEF FinishRecord
    <3>2. n \in Jobs /\ pc[n] = "queued" /\ queue # <<>>
      BY <2>2 DEF MayPromote, QueuePC
    <3> HIDE DEF n
    <3>3. j \in Holders /\ n \notin Holders /\ Holders' = (Holders \ {j}) \cup {n}
      BY <2>1, <3>1, <3>2 DEF Holders, HoldingPCs
    <3>4. /\ IsFiniteSet(Holders \ {j})
          /\ Cardinality(Holders \ {j}) = Cardinality(Holders) - 1
      BY <3>3, FS_RemoveElement
    <3>5. Cardinality(Holders') = Cardinality(Holders \ {j}) + 1
      BY <3>3, <3>4, FS_AddElement
    <3> QED
      BY <3>1, <3>2, <3>4, <3>5
  <2>3. CASE ~MayPromote
    <3>1. /\ slots' = IF slots > 0 THEN slots - 1 ELSE slots
          /\ queue' = queue /\ closed' = closed
          /\ pc' = [pc EXCEPT ![j] = "snap"]
      BY <1>16, <2>1, <2>3 DEF FinishRecord, FreeSlot
    <3>2. j \in Holders /\ Holders' = Holders \ {j}
      BY <2>1, <3>1 DEF Holders, HoldingPCs
    <3>3. Cardinality(Holders') = Cardinality(Holders) - 1 /\ Cardinality(Holders) # 0
      BY <3>2, FS_RemoveElement, FS_EmptySet
    <3>4. closed \/ queue = <<>>
      BY <2>3 DEF MayPromote
    <3> QED
      BY <3>1, <3>3, <3>4
  <2> QED
    BY <2>2, <2>3
<1>17. ASSUME NEW j \in Jobs, FinishSnapshot(j) PROVE SlotAccounting' /\ WorkConserving'
  <2>1. Holders' = Holders
    BY <1>17, HoldersKept DEF FinishSnapshot, HoldingPCs
  <2> QED
    BY <1>17, <2>1 DEF FinishSnapshot
<1>18. ASSUME NEW j \in Jobs, FinishPrune(j) PROVE SlotAccounting' /\ WorkConserving'
  <2>1. Holders' = Holders
    BY <1>18, HoldersKept DEF FinishPrune, HoldingPCs
  <2> QED
    BY <1>18, <2>1 DEF FinishPrune
<1>19. ASSUME NEW j \in Jobs, FinishClose(j) PROVE SlotAccounting' /\ WorkConserving'
  <2>1. next[j] # NoJob => next[j] \in Jobs /\ pc[next[j]] = "promoted"
    BY DEF PromotionOwned
  <2>2. Holders' = Holders
    BY <1>19, <2>1, HoldersKept DEF FinishClose, HoldingPCs
  <2> QED
    BY <1>19, <2>2 DEF FinishClose
<1>20. ASSUME NEW j \in Jobs, CancelQueued(j) PROVE SlotAccounting' /\ WorkConserving'
  <2>1. pc[j] = "queued"
    BY <1>20 DEF CancelQueued, StatusPC
  <2>2. Holders' = Holders
    BY <1>20, <2>1, HoldersKept DEF CancelQueued, HoldingPCs
  <2>3. queue # <<>>
    BY <2>1 DEF QueuePC
  <2> QED
    BY <1>20, <2>2, <2>3 DEF CancelQueued
<1>21. ASSUME NEW j \in Jobs, CancelQueuedPrune(j) PROVE SlotAccounting' /\ WorkConserving'
  <2>1. Holders' = Holders
    BY <1>21, HoldersKept DEF CancelQueuedPrune, HoldingPCs
  <2> QED
    BY <1>21, <2>1 DEF CancelQueuedPrune
<1>22. ASSUME NEW j \in Jobs, CancelRunning(j) PROVE SlotAccounting' /\ WorkConserving'
  <2>1. Holders' = Holders
    BY <1>22, HoldersKept DEF CancelRunning
  <2> QED
    BY <1>22, <2>1 DEF CancelRunning
<1>23. ASSUME NEW j \in Jobs, CancelKill(j) PROVE SlotAccounting' /\ WorkConserving'
  <2>1. Holders' = Holders
    BY <1>23, HoldersKept DEF CancelKill
  <2> QED
    BY <1>23, <2>1 DEF CancelKill
<1>24. ASSUME NEW j \in Jobs, CloseCancel(j) PROVE SlotAccounting' /\ WorkConserving'
  <2>1. Holders' = Holders
    BY <1>24, HoldersKept DEF CloseCancel
  <2> QED
    BY <1>24, <2>1 DEF CloseCancel
<1>25. ASSUME NEW j \in Jobs, CorrelateSession(j) PROVE SlotAccounting' /\ WorkConserving'
  <2>1. Holders' = Holders
    BY <1>25, HoldersKept DEF CorrelateSession
  <2> QED
    BY <1>25, <2>1 DEF CorrelateSession
<1>26. ASSUME NEW j \in Jobs, CorrelatePoll(j) PROVE SlotAccounting' /\ WorkConserving'
  <2>1. Holders' = Holders
    BY <1>26, HoldersKept DEF CorrelatePoll
  <2> QED
    BY <1>26, <2>1 DEF CorrelatePoll
<1>27. ASSUME NEW j \in Jobs, CorrelateStop(j) PROVE SlotAccounting' /\ WorkConserving'
  <2>1. Holders' = Holders
    BY <1>27, HoldersKept DEF CorrelateStop
  <2> QED
    BY <1>27, <2>1 DEF CorrelateStop
<1>28. ASSUME NEW j \in Jobs, PiSession(j) PROVE SlotAccounting' /\ WorkConserving'
  <2>1. Holders' = Holders
    BY <1>28, HoldersKept DEF PiSession
  <2> QED
    BY <1>28, <2>1 DEF PiSession
<1>29. ASSUME NEW j \in Jobs, PiRunFile(j) PROVE SlotAccounting' /\ WorkConserving'
  <2>1. Holders' = Holders
    BY <1>29, HoldersKept DEF PiRunFile
  <2> QED
    BY <1>29, <2>1 DEF PiRunFile
<1>30. ASSUME NEW j \in Jobs, PiExit(j) PROVE SlotAccounting' /\ WorkConserving'
  <2>1. Holders' = Holders
    BY <1>30, HoldersKept DEF PiExit
  <2> QED
    BY <1>30, <2>1 DEF PiExit
<1>31. ASSUME NEW j \in Jobs, PiKilled(j) PROVE SlotAccounting' /\ WorkConserving'
  <2>1. Holders' = Holders
    BY <1>31, HoldersKept DEF PiKilled
  <2> QED
    BY <1>31, <2>1 DEF PiKilled
<1>32. CASE CloseBegin
  <2>1. Holders' = Holders
    BY <1>32, HoldersKept DEF CloseBegin
  <2> QED
    BY <1>32, <2>1 DEF CloseBegin
<1>33. CASE CloseStore
  <2>1. Holders' = Holders
    BY <1>33, HoldersKept DEF CloseStore
  <2> QED
    BY <1>33, <2>1 DEF CloseStore
<1>34. CASE UNCHANGED vars
  <2>1. Holders' = Holders
    BY <1>34, HoldersKept DEF vars
  <2> QED
    BY <1>34, <2>1 DEF vars
<1>35. ASSUME NEW j \in Jobs, EscapedEnds(j) PROVE SlotAccounting' /\ WorkConserving'
  <2>1. Holders' = Holders
    BY <1>35, HoldersKept DEF EscapedEnds
  <2> QED
    BY <1>35, <2>1 DEF EscapedEnds
<1> QED
  BY <1>1, <1>2, <1>3, <1>4, <1>5, <1>6, <1>7, <1>8, <1>9, <1>10, <1>11,
     <1>12, <1>13, <1>14, <1>15, <1>16, <1>17, <1>18, <1>19, <1>20,
     <1>21, <1>22, <1>23, <1>24, <1>25, <1>26, <1>27, <1>28, <1>29,
     <1>30, <1>31, <1>32, <1>33, <1>34, <1>35
     DEF Next, Submit, Cancel, Drive, Correlate, Pi

\* The slot accounting holds in every reachable state.
LEMMA SlotInvAlways == Spec => []SlotInv
<1>1. Init => SlotInv
  BY InitIInv, InitSlots DEF SlotInv
<1>2. SlotInv /\ [Next]_vars => SlotInv'
  BY TypeNext, ControlNext, SlotsNext DEF SlotInv, IInv
<1> QED
  BY <1>1, <1>2, PTL DEF Spec

-----------------------------------------------------------------------------
\* The slots channel holds one token per admitted job and never more than
\* Cap, through every abort, launch failure, retry, promotion and rollback.
THEOREM SlotsCorrect == Spec => []SlotAccounting
<1>1. SlotInv => SlotAccounting
  BY DEF SlotInv
<1> QED
  BY SlotInvAlways, <1>1, PTL

\* No lost wakeup: until Close begins, no slot is free while a job waits.
THEOREM NoIdleSlot == Spec => []WorkConserving
<1>1. SlotInv => WorkConserving
  BY DEF SlotInv
<1> QED
  BY SlotInvAlways, <1>1, PTL

-----------------------------------------------------------------------------
(* The life of a record.  Every way a status can change, with what holds   *)
(* at that moment.                                                         *)
StatusStep(k) ==
  LET old == rec[k].status
      new == rec'[k].status
  IN \/ new = old
     \/ old = "none" /\ new = "queued"
     \/ old = "none" /\ new = "running" /\ slots < Cap
     \/ old = "queued" /\ new = "running" /\ ~closed /\ k = Head(queue)
     \/ old = "queued" /\ new = "aborted"
     \/ old = "running" /\ new \in Terminal

\* Every step takes a record's status along the life cycle or leaves it.
LEMMA StatusSteps == IInv /\ [Next]_vars => \A k \in Jobs : StatusStep(k)
<1> SUFFICES ASSUME IInv, [Next]_vars, NEW k \in Jobs PROVE StatusStep(k)
  OBVIOUS
<1>0. /\ rec \in [Jobs -> JobRecord] /\ queue \in Seq(Jobs)
      /\ pc \in [Jobs -> PCs] /\ outcome \in [Jobs -> Terminal]
      /\ StatusPC /\ QueuePC
  BY DEF IInv, TypeInv, TypeOK, Control
<1> USE <1>0 DEF StatusStep
<1>1. ASSUME NEW j \in Jobs, SubmitAdmitted(j) PROVE StatusStep(k)
  BY <1>1 DEF SubmitAdmitted, JobRecord, StatusPC
<1>2. ASSUME NEW j \in Jobs, SubmitQueued(j) PROVE StatusStep(k)
  BY <1>2 DEF SubmitQueued, JobRecord, StatusPC
<1>3. ASSUME NEW j \in Jobs, SubmitRejected(j) PROVE StatusStep(k)
  BY <1>3 DEF SubmitRejected
<1>4. ASSUME NEW j \in Jobs, Launch(j) PROVE StatusStep(k)
  BY <1>4 DEF Launch, LaunchOK
<1>5. ASSUME NEW j \in Jobs, LaunchFails(j) PROVE StatusStep(k)
  BY <1>5 DEF LaunchFails
<1>6. ASSUME NEW j \in Jobs, SpawnAttempts(j) PROVE StatusStep(k)
  BY <1>6 DEF SpawnAttempts, BeginAttempt, JobRecord
<1>7. ASSUME NEW j \in Jobs, DropLaunched(j) PROVE StatusStep(k)
  BY <1>7 DEF DropLaunched
<1>8. ASSUME NEW j \in Jobs, WaitOK(j) PROVE StatusStep(k)
  BY <1>8 DEF WaitOK, CallFinish
<1>9. ASSUME NEW j \in Jobs, WaitAborted(j) PROVE StatusStep(k)
  BY <1>9 DEF WaitAborted, CallFinish
<1>10. ASSUME NEW j \in Jobs, WaitErr(j) PROVE StatusStep(k)
  BY <1>10 DEF WaitErr
<1>11. ASSUME NEW j \in Jobs, DecideRetry(j) PROVE StatusStep(k)
  BY <1>11 DEF DecideRetry
<1>12. ASSUME NEW j \in Jobs, DecideFail(j) PROVE StatusStep(k)
  BY <1>12 DEF DecideFail, CallFinish
<1>13. ASSUME NEW j \in Jobs, RetryClear(j) PROVE StatusStep(k)
  BY <1>13 DEF RetryClear, JobRecord
<1>14. ASSUME NEW j \in Jobs, Relaunch(j) PROVE StatusStep(k)
  BY <1>14 DEF Relaunch, LaunchOK
<1>15. ASSUME NEW j \in Jobs, NextAttempt(j) PROVE StatusStep(k)
  BY <1>15 DEF NextAttempt, BeginAttempt, JobRecord
<1>16. ASSUME NEW j \in Jobs, FinishRecord(j) PROVE StatusStep(k)
  <2> DEFINE n == Head(queue)
             final == [rec EXCEPT ![j].status = FinalStatus(j)]
  <2>1. final[k].status = IF k = j THEN FinalStatus(j) ELSE rec[k].status
    BY DEF JobRecord
  <2>2. /\ rec[j].status \in {"running", "aborted"} /\ FinalStatus(j) \in Terminal
        /\ rec[j].status = "aborted" => FinalStatus(j) = "aborted"
        /\ pc[j] = "finish"
    BY <1>16 DEF FinishRecord, StatusPC, HoldingPCs, FinalStatus, Terminal
  <2>3. CASE rec' = final
    BY <2>1, <2>2, <2>3
  <2>4. CASE MayPromote /\ rec' = [final EXCEPT ![n].status = "running"]
    <3>1. n \in Jobs /\ pc[n] = "queued" /\ ~closed
      BY <2>4 DEF MayPromote, QueuePC
    <3>2. n # j /\ rec[n].status = "queued"
      BY <2>2, <3>1 DEF StatusPC
    <3>3. final \in [Jobs -> JobRecord]
      BY <2>2, StatusUpdate DEF Status
    <3> HIDE DEF final, n
    <3>4. rec'[k].status = IF k = n THEN "running" ELSE final[k].status
      BY <2>4, <3>1, <3>3 DEF JobRecord
    <3> QED
      BY <2>1, <2>2, <3>1, <3>2, <3>4 DEF n
  <2> QED
    BY <1>16, <2>3, <2>4 DEF FinishRecord
<1>17. ASSUME NEW j \in Jobs, FinishSnapshot(j) PROVE StatusStep(k)
  BY <1>17 DEF FinishSnapshot
<1>18. ASSUME NEW j \in Jobs, FinishPrune(j) PROVE StatusStep(k)
  BY <1>18 DEF FinishPrune
<1>19. ASSUME NEW j \in Jobs, FinishClose(j) PROVE StatusStep(k)
  BY <1>19 DEF FinishClose
<1>20. ASSUME NEW j \in Jobs, CancelQueued(j) PROVE StatusStep(k)
  BY <1>20 DEF CancelQueued, JobRecord
<1>21. ASSUME NEW j \in Jobs, CancelQueuedPrune(j) PROVE StatusStep(k)
  BY <1>21 DEF CancelQueuedPrune
<1>22. ASSUME NEW j \in Jobs, CancelRunning(j) PROVE StatusStep(k)
  BY <1>22 DEF CancelRunning, JobRecord, Terminal
<1>23. ASSUME NEW j \in Jobs, CancelKill(j) PROVE StatusStep(k)
  BY <1>23 DEF CancelKill
<1>24. ASSUME NEW j \in Jobs, CloseCancel(j) PROVE StatusStep(k)
  BY <1>24 DEF CloseCancel
<1>25. ASSUME NEW j \in Jobs, CorrelateSession(j) PROVE StatusStep(k)
  BY <1>25 DEF CorrelateSession, JobRecord
<1>26. ASSUME NEW j \in Jobs, CorrelatePoll(j) PROVE StatusStep(k)
  BY <1>26 DEF CorrelatePoll, JobRecord
<1>27. ASSUME NEW j \in Jobs, CorrelateStop(j) PROVE StatusStep(k)
  BY <1>27 DEF CorrelateStop
<1>28. ASSUME NEW j \in Jobs, PiSession(j) PROVE StatusStep(k)
  BY <1>28 DEF PiSession
<1>29. ASSUME NEW j \in Jobs, PiRunFile(j) PROVE StatusStep(k)
  BY <1>29 DEF PiRunFile
<1>30. ASSUME NEW j \in Jobs, PiExit(j) PROVE StatusStep(k)
  BY <1>30 DEF PiExit
<1>31. ASSUME NEW j \in Jobs, PiKilled(j) PROVE StatusStep(k)
  BY <1>31 DEF PiKilled
<1>32. CASE CloseBegin
  BY <1>32 DEF CloseBegin
<1>33. CASE CloseStore
  BY <1>33 DEF CloseStore
<1>34. CASE UNCHANGED vars
  BY <1>34 DEF vars
<1>35. ASSUME NEW j \in Jobs, EscapedEnds(j) PROVE StatusStep(k)
  BY <1>35 DEF EscapedEnds
<1> QED
  BY <1>1, <1>2, <1>3, <1>4, <1>5, <1>6, <1>7, <1>8, <1>9, <1>10, <1>11,
     <1>12, <1>13, <1>14, <1>15, <1>16, <1>17, <1>18, <1>19, <1>20,
     <1>21, <1>22, <1>23, <1>24, <1>25, <1>26, <1>27, <1>28, <1>29,
     <1>30, <1>31, <1>32, <1>33, <1>34, <1>35
     DEF Next, Submit, Cancel, Drive, Correlate, Pi

\* A terminal status is never overwritten: neither a clean exit of the process
\* after Cancel nor a second Cancel changes it.
THEOREM TerminalStays == Spec => TerminalIsFinal
<1>1. IInv /\ [Next]_vars =>
        [\A j \in Jobs : rec[j].status \in Terminal
                            => rec'[j].status = rec[j].status]_vars
  BY StatusSteps DEF StatusStep, Terminal
<1> QED
  BY IInvAlways, <1>1, PTL DEF Spec, TerminalIsFinal

\* Jobs become running in arrival order until Close begins: a Submit finds no
\* free slot while others wait, and finish promotes the head of the queue.
THEOREM FirstComeFirstServed == Spec => NoOvertaking
<1>1. SlotInv /\ [Next]_vars =>
        [\A j \in Jobs :
           (rec[j].status # "running" /\ rec'[j].status = "running" /\ ~closed)
             => (queue = <<>> \/ j = Head(queue))]_vars
  <2> SUFFICES ASSUME SlotInv, [Next]_vars, NEW j \in Jobs,
                      rec[j].status # "running", rec'[j].status = "running", ~closed
               PROVE  queue = <<>> \/ j = Head(queue)
    OBVIOUS
  <2>1. StatusStep(j)
    BY StatusSteps DEF SlotInv
  <2>2. CASE slots < Cap
    BY <2>2, CapAssumption DEF SlotInv, WorkConserving, SlotAccounting, IInv, TypeInv, TypeOK
  <2> QED
    BY <2>1, <2>2 DEF StatusStep, Terminal
<1> QED
  BY SlotInvAlways, <1>1, PTL DEF Spec, NoOvertaking

-----------------------------------------------------------------------------
(* Refinement.  The steps that change what Admission sees are Submit,      *)
(* CancelQueued, FinishRecord and CloseBegin; all others are stutters.     *)
AdmissionSame == UNCHANGED <<queue, Holders, Left, closed>>

\* A step that moves drivers only within a side of Admission is invisible.
LEMMA SidesKept ==
  ASSUME queue' = queue, closed' = closed,
         \A k \in Jobs : /\ pc'[k] \in HoldingPCs <=> pc[k] \in HoldingPCs
                         /\ pc'[k] \in {"unqueued", "snap", "prune", "closing", "end"}
                            <=> pc[k] \in {"unqueued", "snap", "prune", "closing", "end"}
  PROVE  AdmissionSame
BY DEF Holders, Left, AdmissionSame

\* Each step of the registry is a step of Admission or leaves it alone.
LEMMA AdmissionStep ==
  SlotInv /\ [Next]_vars => Adm!ANext \/ AdmissionSame
<1> SUFFICES ASSUME SlotInv, [Next]_vars PROVE Adm!ANext \/ AdmissionSame
  OBVIOUS
<1>0. /\ queue \in Seq(Jobs) /\ slots \in Nat /\ closed \in BOOLEAN
      /\ pc \in [Jobs -> PCs] /\ next \in [Jobs -> Jobs \cup {NoJob}]
      /\ StatusPC /\ QueuePC /\ PromotionOwned
      /\ SlotAccounting /\ WorkConserving
  BY DEF SlotInv, IInv, TypeInv, TypeOK, Control
<1>card. Adm!Cardinality(Holders) = Cardinality(Holders)
  BY DEF Adm!Cardinality, Adm!IsFiniteSet, Cardinality, IsFiniteSet
<1> USE <1>0 DEF schedVars
<1>1. ASSUME NEW j \in Jobs, SubmitAdmitted(j) PROVE Adm!ANext \/ AdmissionSame
  <2>1. Adm!Fresh(j)
    BY <1>1 DEF SubmitAdmitted, Adm!Fresh, Holders, Left, HoldingPCs, QueuePC
  <2>2. Holders' = Holders \cup {j} /\ Left' = Left
    BY <1>1 DEF SubmitAdmitted, Holders, Left, HoldingPCs
  <2>3. Cardinality(Holders) < Cap /\ (closed \/ queue = <<>>)
    BY <1>1, CapAssumption DEF SubmitAdmitted, SlotAccounting, WorkConserving
  <2>4. queue' = queue /\ closed' = closed
    BY <1>1 DEF SubmitAdmitted
  <2>5. Adm!Admit(j)
    BY <1>card, <2>1, <2>2, <2>3, <2>4 DEF Adm!Admit
  <2> QED
    BY <2>5 DEF Adm!ANext
<1>2. ASSUME NEW j \in Jobs, SubmitQueued(j) PROVE Adm!ANext \/ AdmissionSame
  <2>1. Adm!Fresh(j)
    BY <1>2 DEF SubmitQueued, Adm!Fresh, Holders, Left, HoldingPCs, QueuePC
  <2>2. Holders' = Holders /\ Left' = Left
    BY <1>2 DEF SubmitQueued, Holders, Left, HoldingPCs
  <2>3. Cardinality(Holders) = Cap
    BY <1>2, CapAssumption DEF SubmitQueued, SlotAccounting
  <2>4. queue' = Append(queue, j) /\ closed' = closed
    BY <1>2 DEF SubmitQueued
  <2>5. Adm!Enqueue(j)
    BY <1>card, <2>1, <2>2, <2>3, <2>4 DEF Adm!Enqueue
  <2> QED
    BY <2>5 DEF Adm!ANext
<1>3. ASSUME NEW j \in Jobs, SubmitRejected(j) PROVE Adm!ANext \/ AdmissionSame
  <2>1. queue' = queue
    BY <1>3, RollbackExact DEF SlotInv, IInv, TypeInv
  <2> QED
    BY <1>3, <2>1, SidesKept DEF SubmitRejected, HoldingPCs
<1>4. ASSUME NEW j \in Jobs, Launch(j) PROVE Adm!ANext \/ AdmissionSame
  BY <1>4, SidesKept DEF Launch, LaunchOK, HoldingPCs
<1>5. ASSUME NEW j \in Jobs, LaunchFails(j) PROVE Adm!ANext \/ AdmissionSame
  BY <1>5, SidesKept DEF LaunchFails, HoldingPCs
<1>6. ASSUME NEW j \in Jobs, SpawnAttempts(j) PROVE Adm!ANext \/ AdmissionSame
  BY <1>6, SidesKept DEF SpawnAttempts, BeginAttempt, HoldingPCs
<1>7. ASSUME NEW j \in Jobs, DropLaunched(j) PROVE Adm!ANext \/ AdmissionSame
  BY <1>7, SidesKept DEF DropLaunched, HoldingPCs
<1>8. ASSUME NEW j \in Jobs, WaitOK(j) PROVE Adm!ANext \/ AdmissionSame
  BY <1>8, SidesKept DEF WaitOK, CallFinish, HoldingPCs
<1>9. ASSUME NEW j \in Jobs, WaitAborted(j) PROVE Adm!ANext \/ AdmissionSame
  BY <1>9, SidesKept DEF WaitAborted, CallFinish, HoldingPCs
<1>10. ASSUME NEW j \in Jobs, WaitErr(j) PROVE Adm!ANext \/ AdmissionSame
  BY <1>10, SidesKept DEF WaitErr, HoldingPCs
<1>11. ASSUME NEW j \in Jobs, DecideRetry(j) PROVE Adm!ANext \/ AdmissionSame
  BY <1>11, SidesKept DEF DecideRetry, HoldingPCs
<1>12. ASSUME NEW j \in Jobs, DecideFail(j) PROVE Adm!ANext \/ AdmissionSame
  BY <1>12, SidesKept DEF DecideFail, CallFinish, HoldingPCs
<1>13. ASSUME NEW j \in Jobs, RetryClear(j) PROVE Adm!ANext \/ AdmissionSame
  BY <1>13, SidesKept DEF RetryClear, HoldingPCs
<1>14. ASSUME NEW j \in Jobs, Relaunch(j) PROVE Adm!ANext \/ AdmissionSame
  BY <1>14, SidesKept DEF Relaunch, LaunchOK, HoldingPCs
<1>15. ASSUME NEW j \in Jobs, NextAttempt(j) PROVE Adm!ANext \/ AdmissionSame
  BY <1>15, SidesKept DEF NextAttempt, BeginAttempt, HoldingPCs
<1>16. ASSUME NEW j \in Jobs, FinishRecord(j) PROVE Adm!ANext \/ AdmissionSame
  <2> DEFINE n == Head(queue)
  <2>1. pc[j] = "finish" /\ WasRunningSlot(rec[j].status) /\ j \in Holders
    BY <1>16 DEF FinishRecord, WasRunningSlot, StatusPC, HoldingPCs, Holders
  <2>2. CASE MayPromote
    <3>1. /\ queue' = Tail(queue) /\ closed' = closed
          /\ pc' = [pc EXCEPT ![j] = "snap", ![n] = "promoted"]
      BY <1>16, <2>1, <2>2 DEF FinishRecord
    <3>2. n \in Jobs /\ pc[n] = "queued" /\ queue # <<>> /\ ~closed
      BY <2>2 DEF MayPromote, QueuePC
    <3> HIDE DEF n
    <3>3. Holders' = (Holders \ {j}) \cup {n} /\ Left' = Left \cup {j}
      BY <2>1, <3>1, <3>2 DEF Holders, Left, HoldingPCs
    <3>4. Adm!HandOver(j)
      BY <2>1, <3>1, <3>2, <3>3 DEF Adm!HandOver, n
    <3> QED
      BY <3>4 DEF Adm!ANext
  <2>3. CASE ~MayPromote
    <3>1. /\ queue' = queue /\ closed' = closed
          /\ pc' = [pc EXCEPT ![j] = "snap"]
      BY <1>16, <2>1, <2>3 DEF FinishRecord
    <3>2. Holders' = Holders \ {j} /\ Left' = Left \cup {j}
      BY <2>1, <3>1 DEF Holders, Left, HoldingPCs
    <3>3. closed \/ queue = <<>>
      BY <2>3 DEF MayPromote
    <3>4. Adm!GiveUp(j)
      BY <2>1, <3>1, <3>2, <3>3 DEF Adm!GiveUp
    <3> QED
      BY <3>4 DEF Adm!ANext
  <2> QED
    BY <2>2, <2>3
<1>17. ASSUME NEW j \in Jobs, FinishSnapshot(j) PROVE Adm!ANext \/ AdmissionSame
  BY <1>17, SidesKept DEF FinishSnapshot, HoldingPCs
<1>18. ASSUME NEW j \in Jobs, FinishPrune(j) PROVE Adm!ANext \/ AdmissionSame
  BY <1>18, SidesKept DEF FinishPrune, HoldingPCs
<1>19. ASSUME NEW j \in Jobs, FinishClose(j) PROVE Adm!ANext \/ AdmissionSame
  <2>1. next[j] # NoJob => next[j] \in Jobs /\ pc[next[j]] = "promoted"
    BY DEF PromotionOwned
  <2>2. AdmissionSame
    BY <1>19, <2>1, SidesKept DEF FinishClose, HoldingPCs
  <2> QED
    BY <2>2
<1>20. ASSUME NEW j \in Jobs, CancelQueued(j) PROVE Adm!ANext \/ AdmissionSame
  <2>1. pc[j] = "queued"
    BY <1>20 DEF CancelQueued, StatusPC
  <2>2. Holders' = Holders /\ Left' = Left \cup {j}
    BY <1>20, <2>1 DEF CancelQueued, Holders, Left, HoldingPCs
  <2> DEFINE p == CHOOSE i \in 1 .. Len(queue) : queue[i] = j
  <2>3. p \in 1 .. Len(queue) /\ queue[p] = j
    BY <2>1 DEF QueuePC
  <2>4. /\ queue' = [i \in 1 .. (Len(queue) - 1) |->
                       IF i < p THEN queue[i] ELSE queue[i + 1]]
        /\ closed' = closed
    BY <1>20 DEF CancelQueued, RemoveFromQueue
  <2> HIDE DEF p
  <2>5. Adm!Withdraw(j)
    BY <2>2, <2>3, <2>4 DEF Adm!Withdraw
  <2> QED
    BY <2>5 DEF Adm!ANext
<1>21. ASSUME NEW j \in Jobs, CancelQueuedPrune(j) PROVE Adm!ANext \/ AdmissionSame
  BY <1>21, SidesKept DEF CancelQueuedPrune, HoldingPCs
<1>22. ASSUME NEW j \in Jobs, CancelRunning(j) PROVE Adm!ANext \/ AdmissionSame
  BY <1>22, SidesKept DEF CancelRunning
<1>23. ASSUME NEW j \in Jobs, CancelKill(j) PROVE Adm!ANext \/ AdmissionSame
  BY <1>23, SidesKept DEF CancelKill
<1>24. ASSUME NEW j \in Jobs, CloseCancel(j) PROVE Adm!ANext \/ AdmissionSame
  BY <1>24, SidesKept DEF CloseCancel
<1>25. ASSUME NEW j \in Jobs, CorrelateSession(j) PROVE Adm!ANext \/ AdmissionSame
  BY <1>25, SidesKept DEF CorrelateSession
<1>26. ASSUME NEW j \in Jobs, CorrelatePoll(j) PROVE Adm!ANext \/ AdmissionSame
  BY <1>26, SidesKept DEF CorrelatePoll
<1>27. ASSUME NEW j \in Jobs, CorrelateStop(j) PROVE Adm!ANext \/ AdmissionSame
  BY <1>27, SidesKept DEF CorrelateStop
<1>28. ASSUME NEW j \in Jobs, PiSession(j) PROVE Adm!ANext \/ AdmissionSame
  BY <1>28, SidesKept DEF PiSession
<1>29. ASSUME NEW j \in Jobs, PiRunFile(j) PROVE Adm!ANext \/ AdmissionSame
  BY <1>29, SidesKept DEF PiRunFile
<1>30. ASSUME NEW j \in Jobs, PiExit(j) PROVE Adm!ANext \/ AdmissionSame
  BY <1>30, SidesKept DEF PiExit
<1>31. ASSUME NEW j \in Jobs, PiKilled(j) PROVE Adm!ANext \/ AdmissionSame
  BY <1>31, SidesKept DEF PiKilled
<1>32. CASE CloseBegin
  <2>1. Holders' = Holders /\ Left' = Left
    BY <1>32 DEF CloseBegin, Holders, Left
  <2>2. Adm!Shutdown
    BY <1>32, <2>1 DEF CloseBegin, Adm!Shutdown
  <2> QED
    BY <2>2 DEF Adm!ANext
<1>33. CASE CloseStore
  BY <1>33, SidesKept DEF CloseStore
<1>34. CASE UNCHANGED vars
  BY <1>34, SidesKept DEF vars
<1>35. ASSUME NEW j \in Jobs, EscapedEnds(j) PROVE Adm!ANext \/ AdmissionSame
  BY <1>35, SidesKept DEF EscapedEnds
<1> QED
  BY <1>1, <1>2, <1>3, <1>4, <1>5, <1>6, <1>7, <1>8, <1>9, <1>10, <1>11,
     <1>12, <1>13, <1>14, <1>15, <1>16, <1>17, <1>18, <1>19, <1>20,
     <1>21, <1>22, <1>23, <1>24, <1>25, <1>26, <1>27, <1>28, <1>29,
     <1>30, <1>31, <1>32, <1>33, <1>34, <1>35
     DEF Next, Submit, Cancel, Drive, Correlate, Pi

\* The registry implements the admission discipline: Submit, Cancel, finish
\* and Close are its steps, everything else the goroutines do is invisible.
THEOREM Implements == Spec => ImplementsAdmission
<1>1. Init => Adm!AInit
  BY DEF Init, Adm!AInit, Holders, Left, HoldingPCs
<1>2. SlotInv /\ [Next]_vars => [Adm!ANext]_(Adm!aVars)
  BY AdmissionStep DEF Adm!aVars, AdmissionSame
<1> QED
  BY SlotInvAlways, <1>1, <1>2, PTL DEF Spec, ImplementsAdmission, Adm!ASpec

=============================================================================
