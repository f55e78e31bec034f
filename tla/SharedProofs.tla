---------------------------- MODULE SharedProofs ----------------------------
(***************************************************************************)
(* Proofs about SharedStore, for any servers, pids, jobs and legacy file.  *)
(***************************************************************************)
EXTENDS SharedStore, FiniteSetTheorems, TLAPS

\* Whoever drives a job lives; only drivers have a record; and what was not yet
\* submitted, or was rejected, has left nothing in the table.
Owned ==
  \A j \in Jobs :
    /\ pc[j] \in Driving \cup {"created"} => owner[j] \in Servers /\ srv[owner[j]] = "up"
    /\ mem[j].status # "none" <=> pc[j] \in Driving
    /\ pc[j] \notin Driving \cup {"lost"} => row[j] = NoRow /\ mem[j] = NoRecord /\ launches[j] = 0

\* What a driver's record says at each place.
Driven ==
  \A j \in Jobs :
    /\ mem[j].pid <= launches[j]
    /\ pc[j] = "queued" => mem[j].status = "queued" /\ launches[j] = 0
    /\ pc[j] = "launch" => launches[j] <= MaxRetries
    /\ pc[j] = "prune" => mem[j].status = "aborted"
    /\ pc[j] = "end" => mem[j].status \in Terminal

\* What a sweep holds: of a job that is still driven its stale row names the living
\* owner, a job it has claimed is nobody else's, and one it has pruned is over.
SweepRows ==
  \A s \in Servers : \A j \in scan[s] :
    /\ pc[j] \in Driving \cup {"lost"} /\ j \notin LegacyJobs
    /\ pc[j] \in Driving => seen[s][j].owner = Pid[owner[j]]
SweepClaims ==
  \A s \in Servers : \A j \in Jobs : claim[s] = j =>
    /\ pc[j] = "lost" /\ row[j].status = "failed" /\ pruners[j] = {} /\ j \notin LegacyJobs
    /\ \A t \in Servers : claim[t] = j => t = s
SweepPrunes ==
  \A j \in Jobs : pruners[j] # {} =>
    /\ pc[j] = "lost" /\ row[j].status = "failed"
    /\ \E s \in Servers : pruners[j] = {s}
Sweeps == SweepRows /\ SweepClaims /\ SweepPrunes

\* Legacy jobs are absent or imported, and imported before the file is moved.
ImportedRow(j) == [status |-> Imported(j), pid |-> 0, owner |-> 0]
Legacies ==
  \A j \in LegacyJobs :
    /\ pc[j] = "lost" /\ owner[j] = None /\ pruners[j] = {}
    /\ j \in WriteJobs => wt[j] = "present"
    /\ row[j] \in {NoRow, ImportedRow(j)}
    /\ file = "moved" \/ (\E s \in Servers : srv[s] = "rename") => row[j] = ImportedRow(j)

\* The worktrees that must be there.
Kept ==
  \A j \in WriteJobs :
    /\ pc[j] \in {"created"} \cup (Driving \ {"end"}) => wt[j] = "present"
    /\ mem[j].status = "completed" \/ row[j].status = "completed" => wt[j] = "present"

IInv == TypeOK /\ Owned /\ Driven /\ LiveOwnerRows /\ Sweeps /\ Legacies /\ Kept

-----------------------------------------------------------------------------
\* IInv holds initially.
LEMMA InvInit == Init => IInv
<1>. SUFFICES ASSUME Init PROVE IInv
  OBVIOUS
<1>. USE SetsAssumption, PidAssumption, BoundAssumption, LegacyAssumption
<1>1. NoRow \in Row /\ NoRecord \in Record
  BY DEF NoRow, NoRecord, Row, Record
<1>2. TypeOK
  BY <1>1 DEF Init, TypeOK, PCs, Driving
<1>3. \A j \in Jobs : pc[j] \in {"idle", "lost"} /\ mem[j] = NoRecord /\ row[j] = NoRow
                      /\ mem[j].status = "none" /\ mem[j].pid = 0 /\ row[j].status = "none"
  BY DEF Init, NoRecord, NoRow
<1>4. Owned /\ Driven /\ LiveOwnerRows
  BY <1>3 DEF Init, Owned, Driven, LiveOwnerRows, Driving
<1>5. Sweeps
  BY DEF Init, Sweeps, SweepRows, SweepClaims, SweepPrunes
<1>6. Legacies
  BY <1>3 DEF Init, Legacies
<1>7. Kept
  BY <1>3 DEF Init, Kept, Driving
<1>. QED BY <1>2, <1>4, <1>5, <1>6, <1>7 DEF IInv

-----------------------------------------------------------------------------
(***************************************************************************)
(* What Submit, Promote, RecordPid, Retry, Finish and Cancel have in       *)
(* common: the owner sets its record of j to r, goes to place "to" and     *)
(* flushes, which writes rows of its own jobs only.                        *)
(***************************************************************************)
Written(s, m, k) ==
  /\ owner[k] = s /\ m[k].status # "none"
  /\ row'[k] = [status |-> m[k].status, pid |-> m[k].pid, owner |-> Pid[s]]

Recorded(s, j, r, to) ==
  /\ srv[s] = "up" /\ owner[j] = s
  /\ pc[j] \in {"created"} \cup (Driving \ {"prune", "end"})
  /\ r \in Record /\ r.status # "none" /\ to \in Driving
  /\ mem[j].status \in Terminal => r.status = mem[j].status
  /\ mem[j].pid <= r.pid /\ r.pid <= launches[j]
  /\ to = "queued" => r.status = "queued" /\ launches[j] = 0
  /\ to = "launch" => launches[j] <= MaxRetries
  /\ to = "prune" => r.status = "aborted"
  /\ to = "end" => r.status \in Terminal
  /\ mem' = [mem EXCEPT ![j] = r] /\ pc' = [pc EXCEPT ![j] = to]
  /\ row' \in [Jobs -> Row]
  /\ \A k \in Jobs : row'[k] = row[k] \/ Written(s, mem', k)
  /\ pc[j] = "created" => Written(s, mem', j)
  /\ UNCHANGED <<srv, file, owner, launches, child, wt, sweep, pruners>>

\* What an upsert and a flush do to the table.
LEMMA UpsertFact ==
  ASSUME TypeOK, NEW s \in Servers, NEW m \in [Jobs -> Record], row' = Upserted(s, m)
  PROVE  /\ row' \in [Jobs -> Row]
         /\ \A k \in Jobs : row'[k] = row[k] \/ Written(s, m, k)
<1>1. ASSUME NEW k \in Jobs PROVE [status |-> m[k].status, pid |-> m[k].pid, owner |-> Pid[s]] \in Row
  BY DEF Record, Row
<1>2. \A k \in Jobs : row[k] \in Row
  BY DEF TypeOK
<1>. QED BY <1>1, <1>2 DEF Upserted, Written

LEMMA FlushFact ==
  ASSUME TypeOK, NEW s \in Servers, NEW m \in [Jobs -> Record], Flush(s, m)
  PROVE  /\ row' \in [Jobs -> Row]
         /\ \A k \in Jobs : row'[k] = row[k] \/ Written(s, m, k)
<1>1. CASE row' = Upserted(s, m)
  BY <1>1, UpsertFact
<1>2. CASE row' = row
  BY <1>2 DEF TypeOK
<1>. QED BY <1>1, <1>2 DEF Flush

\* WriteRecord of a record that keeps to the rules is Recorded.
LEMMA WriteFact ==
  ASSUME TypeOK, NEW s \in Servers, NEW j \in Jobs, NEW r \in Record, NEW to \in Driving,
         srv[s] = "up", owner[j] = s, pc[j] \in Driving \ {"prune", "end"},
         r.status # "none", mem[j].status \in Terminal => r.status = mem[j].status,
         mem[j].pid <= r.pid, r.pid <= launches[j], to # "queued",
         to = "launch" => launches[j] <= MaxRetries,
         to = "prune" => r.status = "aborted", to = "end" => r.status \in Terminal,
         WriteRecord(s, j, r, to)
  PROVE  Recorded(s, j, r, to)
<1>1. mem' = [mem EXCEPT ![j] = r] /\ mem' \in [Jobs -> Record]
  BY DEF WriteRecord, TypeOK
<1>2. /\ row' \in [Jobs -> Row]
      /\ \A k \in Jobs : row'[k] = row[k] \/ Written(s, mem', k)
  BY <1>1, FlushFact DEF WriteRecord
<1>3. pc[j] # "created"
  BY DEF Driving
<1>. QED BY <1>1, <1>2, <1>3 DEF WriteRecord, Recorded

LEMMA RecordSteps ==
  ASSUME IInv, NEW s \in Servers, NEW j \in Jobs,
         \/ Submit(s, j) \/ Promote(s, j) \/ RecordPid(s, j) \/ Retry(s, j)
         \/ Finish(s, j) \/ Cancel(s, j)
  PROVE  \E r \in Record, to \in Driving : Recorded(s, j, r, to)
<1>. USE PidAssumption, BoundAssumption DEF IInv
<1>0. /\ mem[j] \in Record /\ mem[j].status \in Active \cup Terminal \cup {"none"}
      /\ mem[j].pid \in 0 .. (MaxRetries + 1) /\ launches[j] \in 0 .. (MaxRetries + 1)
      /\ mem[j].pid <= launches[j]
      /\ pc[j] \in PCs
  BY DEF TypeOK, Record, Driven
<1>r. \A st \in Active \cup Terminal : /\ [mem[j] EXCEPT !.status = st] \in Record
                                       /\ [mem[j] EXCEPT !.status = st].status = st
                                       /\ [mem[j] EXCEPT !.status = st].pid = mem[j].pid
  BY <1>0 DEF Record
<1>1. CASE Submit(s, j)
  <2>1. PICK st \in Active : /\ mem' = [mem EXCEPT ![j].status = st]
                             /\ pc' = [pc EXCEPT ![j] = IF st = "queued" THEN "queued" ELSE "launch"]
    BY <1>1 DEF Submit
  <2>. DEFINE r == [mem[j] EXCEPT !.status = st]
              to == IF st = "queued" THEN "queued" ELSE "launch"
  <2>2. /\ r \in Record /\ r.status = st /\ r.pid = mem[j].pid /\ to \in Driving
        /\ st # "none" /\ st \notin Terminal
        /\ to \in {"queued", "launch"} /\ (to = "queued" => st = "queued")
        /\ to # "prune" /\ to # "end"
    BY <1>r DEF Active, Terminal, Driving
  <2>3. mem' = [mem EXCEPT ![j] = r] /\ mem' \in [Jobs -> Record]
    BY <2>1, <2>2 DEF TypeOK
  <2>4. /\ srv[s] = "up" /\ owner[j] = s /\ pc[j] = "created" /\ row' = Upserted(s, mem')
        /\ UNCHANGED <<srv, file, owner, launches, child, wt, sweep, pruners>>
    BY <1>1 DEF Submit, At
  <2>5. /\ row' \in [Jobs -> Row]
        /\ \A k \in Jobs : row'[k] = row[k] \/ Written(s, mem', k)
    BY <2>3, <2>4, UpsertFact
  <2>6. row[j].status = "none" /\ launches[j] = 0 /\ mem[j].status = "none"
    BY <2>4 DEF Owned, Driving, NoRow, NoRecord
  <2>7. mem'[j] = r
    BY <2>3 DEF TypeOK
  <2>8. Written(s, mem', j)
    BY <2>2, <2>4, <2>6, <2>7 DEF Upserted, Written
  <2>9. Recorded(s, j, r, to)
    <3>1. pc' = [pc EXCEPT ![j] = to]
      BY <2>1
    <3>2. mem[j].status \notin Terminal /\ pc[j] \in {"created"} \cup (Driving \ {"prune", "end"})
      BY <2>4, <2>6 DEF Terminal
    <3>3. mem[j].pid <= r.pid /\ r.pid <= launches[j] /\ launches[j] <= MaxRetries
      BY <1>0, <2>2, <2>6
    <3>. HIDE DEF r, to
    <3>. QED
      BY <2>2, <2>3, <2>4, <2>5, <2>6, <2>8, <3>1, <3>2, <3>3 DEF Recorded
  <2>. QED BY <2>2, <2>9
<1>2. CASE Promote(s, j)
  <2>. DEFINE r == [mem[j] EXCEPT !.status = "running"]
  <2>1. r \in Record /\ r.status = "running" /\ r.pid = mem[j].pid /\ "launch" \in Driving
    BY <1>r DEF Active, Driving
  <2>2. /\ srv[s] = "up" /\ owner[j] = s /\ pc[j] = "queued" /\ WriteRecord(s, j, r, "launch")
        /\ mem[j].status = "queued" /\ launches[j] = 0
    BY <1>2 DEF Promote, At, Driven
  <2>3. Recorded(s, j, r, "launch")
    <3>. HIDE DEF r
    <3>1. pc[j] \in Driving \ {"prune", "end"}
      BY <2>2 DEF Driving
    <3>2. "queued" \notin Terminal
      BY DEF Terminal
    <3>. QED BY <1>0, <2>1, <2>2, <3>1, <3>2, WriteFact
  <2>. QED BY <2>1, <2>3
<1>3. CASE RecordPid(s, j)
  <2>. DEFINE r == [mem[j] EXCEPT !.pid = launches[j]]
  <2>1. r \in Record /\ r.status = mem[j].status /\ r.pid = launches[j] /\ "wait" \in Driving
    BY <1>0 DEF Record, Driving
  <2>2. /\ srv[s] = "up" /\ owner[j] = s /\ pc[j] = "launched" /\ WriteRecord(s, j, r, "wait")
    BY <1>3 DEF RecordPid, At
  <2>3. mem[j].status # "none" /\ pc[j] \in Driving \ {"prune", "end"}
    BY <2>2 DEF Owned, Driving
  <2>4. Recorded(s, j, r, "wait")
    <3>. HIDE DEF r
    <3>. QED BY <1>0, <2>1, <2>2, <2>3, WriteFact
  <2>. QED BY <2>1, <2>4
<1>4. CASE Retry(s, j)
  <2>1. /\ srv[s] = "up" /\ owner[j] = s /\ pc[j] = "wait" /\ WriteRecord(s, j, mem[j], "launch")
        /\ mem[j].status = "running" /\ launches[j] <= MaxRetries /\ "launch" \in Driving
    BY <1>4 DEF Retry, At, MayRetry, Driving
  <2>2. pc[j] \in Driving \ {"prune", "end"}
    BY <2>1 DEF Driving
  <2>3. Recorded(s, j, mem[j], "launch")
    BY <1>0, <2>1, <2>2, WriteFact
  <2>. QED BY <1>0, <2>1, <2>3
<1>5. CASE Finish(s, j)
  <2>1. PICK st \in Terminal :
               /\ mem[j].status \in Terminal => st = mem[j].status
               /\ WriteRecord(s, j, [mem[j] EXCEPT !.status = st], AfterFinish(j, st))
    BY <1>5 DEF Finish, Terminal
  <2>. DEFINE r == [mem[j] EXCEPT !.status = st]
              to == AfterFinish(j, st)
  <2>2. /\ srv[s] = "up" /\ owner[j] = s /\ pc[j] \in {"finish", "wait"}
        /\ pc[j] \in Driving \ {"prune", "end"}
    BY <1>5 DEF Finish, At, Driving
  <2>4. /\ r \in Record /\ r.status = st /\ r.pid = mem[j].pid /\ st # "none"
        /\ to \in {"prune", "end"} /\ to \in Driving /\ (to = "prune" => st = "aborted")
    BY <1>r DEF AfterFinish, Driving, Terminal
  <2>3. WriteRecord(s, j, r, to) /\ (mem[j].status \in Terminal => r.status = mem[j].status)
    BY <2>1, <2>4
  <2>5. Recorded(s, j, r, to)
    <3>. HIDE DEF r, to
    <3>1. to # "queued" /\ to # "launch"
      BY <2>4
    <3>. QED BY <1>0, <2>2, <2>3, <2>4, <3>1, WriteFact
  <2>. QED BY <2>4, <2>5
<1>6. CASE Cancel(s, j)
  <2>. DEFINE r == [mem[j] EXCEPT !.status = "aborted"]
              to == IF pc[j] = "queued" THEN AfterFinish(j, "aborted") ELSE pc[j]
  <2>1. /\ srv[s] = "up" /\ owner[j] = s /\ mem[j].status \in Active
        /\ WriteRecord(s, j, r, to)
    BY <1>6 DEF Cancel
  <2>2. /\ r \in Record /\ r.status = "aborted" /\ r.pid = mem[j].pid
        /\ "aborted" \in Terminal /\ mem[j].status \notin Terminal /\ mem[j].status # "none"
        /\ mem[j].status # "aborted"
    BY <1>r, <2>1 DEF Active, Terminal
  <2>3. pc[j] \in Driving \ {"prune", "end"}
    BY <2>2 DEF Owned, Driven
  <2>4. /\ to \in Driving /\ to # "queued" /\ (to = "launch" => launches[j] <= MaxRetries)
    BY <2>3 DEF AfterFinish, Driving, Driven
  <2>5. Recorded(s, j, r, to)
    <3>. HIDE DEF r, to
    <3>. QED BY <1>0, <2>1, <2>2, <2>3, <2>4, WriteFact
  <2>. QED BY <2>2, <2>4, <2>5
<1>. QED BY <1>1, <1>2, <1>3, <1>4, <1>5, <1>6

-----------------------------------------------------------------------------
\* IInv is kept by the steps that set a record and flush it.
LEMMA RecordKeeps ==
  ASSUME IInv, NEW s \in Servers, NEW j \in Jobs, NEW r \in Record, NEW to \in Driving,
         Recorded(s, j, r, to)
  PROVE  IInv'
<1>. USE SetsAssumption, PidAssumption, BoundAssumption, LegacyAssumption DEF IInv
<1>1. /\ mem' \in [Jobs -> Record] /\ pc' \in [Jobs -> PCs]
      /\ mem'[j] = r /\ pc'[j] = to
      /\ \A k \in Jobs : k # j => mem'[k] = mem[k] /\ pc'[k] = pc[k]
  BY DEF TypeOK, Recorded, PCs
<1>2. UNCHANGED <<srv, file, owner, launches, child, wt, seen, scan, claim, pruners>>
  BY DEF Recorded, sweep
<1>3. /\ row' \in [Jobs -> Row]
      /\ \A k \in Jobs : row'[k] = row[k] \/ Written(s, mem', k)
      /\ pc[j] = "created" => Written(s, mem', j)
  BY DEF Recorded
<1>4. /\ srv[s] = "up" /\ owner[j] = s /\ r.status # "none"
      /\ pc[j] \in {"created"} \cup (Driving \ {"prune", "end"})
      /\ mem[j].status \in Terminal => r.status = mem[j].status
      /\ mem[j].pid <= r.pid /\ r.pid <= launches[j]
      /\ to = "queued" => r.status = "queued" /\ launches[j] = 0
      /\ to = "launch" => launches[j] <= MaxRetries
      /\ to = "prune" => r.status = "aborted"
      /\ to = "end" => r.status \in Terminal
  BY DEF Recorded
<1>5. \A k \in Jobs : Written(s, mem', k) => /\ pc'[k] \in Driving /\ owner[k] = s
                                             /\ row'[k].status = mem'[k].status
                                             /\ row'[k].pid = mem'[k].pid
                                             /\ row'[k].owner = Pid[s]
  BY <1>1 DEF Written, Owned
<1>6. \A k \in Jobs : pc'[k] \notin Driving => row'[k] = row[k] /\ k # j /\ pc'[k] = pc[k]
  BY <1>1, <1>3, <1>5
<1>7. j \notin LegacyJobs /\ pc[j] # "lost"
  BY <1>4 DEF Legacies, Driving
<1>a. TypeOK'
  BY <1>1, <1>2, <1>3 DEF TypeOK
<1>b. Owned'
  BY <1>1, <1>2, <1>4, <1>6 DEF Owned
<1>c. Driven'
  BY <1>1, <1>2, <1>4 DEF Driven
<1>d. LiveOwnerRows'
  <2>. SUFFICES ASSUME NEW k \in Jobs, pc'[k] \in Driving
                PROVE  /\ row'[k].owner = Pid[owner[k]] /\ row'[k].pid <= mem'[k].pid
                       /\ row'[k].status \in Terminal => row'[k].status = mem'[k].status
    BY <1>2 DEF LiveOwnerRows
  <2>1. CASE Written(s, mem', k)
    <3>1. mem'[k].pid \in Nat
      BY <1>1 DEF Record
    <3>. QED BY <1>5, <2>1, <3>1
  <2>2. CASE row'[k] = row[k] /\ k # j
    BY <1>1, <2>2 DEF LiveOwnerRows
  <2>3. CASE row'[k] = row[k] /\ k = j /\ pc[j] \in Driving
    <3>1. row[j].pid <= mem[j].pid /\ row[j].owner = Pid[owner[j]]
          /\ (row[j].status \in Terminal => row[j].status = mem[j].status)
      BY <2>3 DEF LiveOwnerRows
    <3>2. row[j].pid \in Nat /\ mem[j].pid \in Nat /\ r.pid \in Nat
      BY DEF TypeOK, Row, Record
    <3>. QED BY <1>1, <1>4, <2>3, <3>1, <3>2
  <2>. QED BY <1>3, <1>4, <2>1, <2>2, <2>3
<1>e. Sweeps'
  <2>1. \A t \in Servers : \A k \in scan[t] :
          /\ pc'[k] \in Driving \cup {"lost"} /\ k \notin LegacyJobs
          /\ pc'[k] \in Driving => seen[t][k].owner = Pid[owner[k]]
    <3>1. \A t \in Servers : \A k \in scan[t] : k = j => pc[j] \in Driving
      BY <1>7 DEF Sweeps, SweepRows
    <3>. QED BY <1>1, <3>1 DEF Sweeps, SweepRows, TypeOK
  <2>2. \A k \in Jobs : pc[k] = "lost" => pc'[k] = "lost" /\ row'[k] = row[k]
    BY <1>1, <1>6, <1>7 DEF Driving
  <2>3. SweepRows'
    BY <1>2, <2>1 DEF SweepRows
  <2>4. SweepClaims'
    BY <1>2, <2>2 DEF Sweeps, SweepClaims
  <2>5. SweepPrunes'
    BY <1>2, <2>2 DEF Sweeps, SweepPrunes
  <2>. QED BY <2>3, <2>4, <2>5 DEF Sweeps
<1>f. Legacies'
  <2>1. \A k \in LegacyJobs : k # j /\ pc'[k] = "lost" /\ row'[k] = row[k]
    BY <1>1, <1>6, <1>7 DEF Legacies, Driving
  <2>. QED BY <1>2, <2>1 DEF Legacies, ImportedRow, Imported
<1>g. Kept'
  <2>. SUFFICES ASSUME NEW k \in WriteJobs,
                       \/ pc'[k] \in {"created"} \cup (Driving \ {"end"})
                       \/ mem'[k].status = "completed" \/ row'[k].status = "completed"
                PROVE  wt[k] = "present"
    BY <1>2 DEF Kept
  <2>1. CASE k = j
    <3>1. pc[j] \in {"created"} \cup (Driving \ {"end"})
      BY <1>4
    <3>. QED BY <2>1, <3>1 DEF Kept
  <2>2. CASE k # j
    <3>1. row'[k] = row[k] \/ row'[k].status = mem[k].status
      BY <1>1, <1>3, <1>5, <2>2
    <3>2. pc'[k] = pc[k] /\ mem'[k] = mem[k]
      BY <1>1, <2>2
    <3>3. row[k].status = "completed" \/ mem[k].status = "completed"
          \/ pc[k] \in {"created"} \cup (Driving \ {"end"})
      BY <3>1, <3>2
    <3>. QED BY <3>3 DEF Kept
  <2>. QED BY <2>1, <2>2
<1>. QED BY <1>a, <1>b, <1>c, <1>d, <1>e, <1>f, <1>g

\* IInv is kept by the driver's other steps.
LEMMA DriverKeeps ==
  ASSUME IInv, NEW s \in Servers, NEW j \in Jobs,
         \/ CreateWorktree(s, j) \/ SubmitRejected(s, j) \/ Launch(s, j)
         \/ LaunchFails(s, j) \/ PruneOwn(s, j)
  PROVE  IInv'
<1>. USE SetsAssumption, PidAssumption, BoundAssumption, LegacyAssumption DEF IInv
<1>1. CASE CreateWorktree(s, j)
  <2>0. /\ srv[s] = "up" /\ pc[j] = "idle" /\ j \notin LegacyJobs
        /\ owner' = [owner EXCEPT ![j] = s] /\ pc' = [pc EXCEPT ![j] = "created"]
        /\ wt' = IF j \in WriteJobs THEN [wt EXCEPT ![j] = "present"] ELSE wt
        /\ UNCHANGED <<srv, file, mem, launches, row, child, seen, scan, claim, pruners>>
    BY <1>1 DEF CreateWorktree, Legacies, sweep
  <2>1. TypeOK'
    BY <2>0 DEF TypeOK, PCs
  <2>2. Owned'
    BY <2>0 DEF Owned, TypeOK, Driving
  <2>3. Driven'
    BY <2>0 DEF Driven, TypeOK
  <2>4. LiveOwnerRows'
    BY <2>0 DEF LiveOwnerRows, TypeOK, Driving
  <2>5. Sweeps'
    BY <2>0 DEF Sweeps, SweepRows, SweepClaims, SweepPrunes, TypeOK, Driving
  <2>6. Legacies'
    BY <2>0 DEF Legacies, TypeOK, ImportedRow, Imported
  <2>7. Kept'
    BY <2>0 DEF Kept, TypeOK
  <2>. QED BY <2>1, <2>2, <2>3, <2>4, <2>5, <2>6, <2>7
<1>2. CASE SubmitRejected(s, j)
  <2>0. /\ pc[j] = "created" /\ j \notin LegacyJobs
        /\ pc' = [pc EXCEPT ![j] = "rejected"]
        /\ UNCHANGED <<srv, file, owner, mem, launches, row, child, wt, seen, scan, claim, pruners>>
    BY <1>2 DEF SubmitRejected, At, Legacies, sweep
  <2>1. TypeOK'
    BY <2>0 DEF TypeOK, PCs
  <2>2. Owned'
    BY <2>0 DEF Owned, TypeOK, Driving
  <2>3. Driven' /\ LiveOwnerRows'
    BY <2>0 DEF Driven, LiveOwnerRows, TypeOK, Driving
  <2>4. Sweeps'
    BY <2>0 DEF Sweeps, SweepRows, SweepClaims, SweepPrunes, TypeOK, Driving
  <2>5. Legacies'
    BY <2>0 DEF Legacies, TypeOK, ImportedRow, Imported
  <2>6. Kept'
    BY <2>0 DEF Kept, TypeOK
  <2>. QED BY <2>1, <2>2, <2>3, <2>4, <2>5, <2>6
<1>3. CASE Launch(s, j) \/ LaunchFails(s, j)
  <2>. DEFINE to == IF Launch(s, j) THEN "launched" ELSE "finish"
  <2>0. /\ pc[j] = "launch" /\ j \notin LegacyJobs /\ launches[j] \in 0 .. MaxRetries
        /\ mem[j].status # "none"
        /\ to \in {"launched", "finish"} /\ pc' = [pc EXCEPT ![j] = to]
        /\ launches' \in {launches, [launches EXCEPT ![j] = @ + 1]}
        /\ child' \in {child, [child EXCEPT ![j] = "alive"]}
        /\ UNCHANGED <<srv, file, owner, mem, row, wt, seen, scan, claim, pruners>>
    BY <1>3 DEF Launch, LaunchFails, At, Legacies, Driven, Owned, Driving, TypeOK, sweep
  <2>. HIDE DEF to
  <2>a. /\ launches' \in [Jobs -> 0 .. (MaxRetries + 1)]
        /\ child' \in [Jobs -> {"none", "alive", "gone"}]
        /\ \A k \in Jobs : k # j => launches'[k] = launches[k]
        /\ launches[j] <= launches'[j]
    <3>1. CASE launches' = launches
      BY <2>0, <3>1 DEF TypeOK
    <3>2. CASE launches' = [launches EXCEPT ![j] = @ + 1]
      <4>1. launches[j] + 1 \in 0 .. (MaxRetries + 1)
        BY <2>0
      <4>. QED BY <2>0, <3>2, <4>1 DEF TypeOK
    <3>. QED BY <2>0, <3>1, <3>2
  <2>1. TypeOK'
    BY <2>0, <2>a DEF TypeOK, PCs, Driving
  <2>2. Owned'
    BY <2>0, <2>a DEF Owned, TypeOK, Driving
  <2>3. Driven'
    <3>1. mem[j].pid \in Nat /\ launches[j] \in Nat /\ launches'[j] \in Nat
      BY <2>a DEF TypeOK, Record
    <3>2. mem[j].pid <= launches'[j]
      BY <2>a, <3>1 DEF Driven
    <3>3. pc'[j] \in {"launched", "finish"} /\ \A k \in Jobs : k # j => pc'[k] = pc[k]
      BY <2>0 DEF TypeOK
    <3>. QED BY <2>0, <2>a, <3>2, <3>3 DEF Driven
  <2>4. LiveOwnerRows'
    BY <2>0 DEF LiveOwnerRows, TypeOK, Driving
  <2>5. Sweeps'
    BY <2>0 DEF Sweeps, SweepRows, SweepClaims, SweepPrunes, TypeOK, Driving
  <2>6. Legacies'
    BY <2>0 DEF Legacies, TypeOK, ImportedRow, Imported
  <2>7. Kept'
    BY <2>0 DEF Kept, TypeOK, Driving
  <2>. QED BY <2>1, <2>2, <2>3, <2>4, <2>5, <2>6, <2>7
<1>4. CASE PruneOwn(s, j)
  <2>0. /\ pc[j] = "prune" /\ j \notin LegacyJobs
        /\ mem[j].status = "aborted" /\ row[j].status # "completed"
        /\ wt' = [wt EXCEPT ![j] = "pruned"] /\ pc' = [pc EXCEPT ![j] = "end"]
        /\ UNCHANGED <<srv, file, owner, mem, launches, row, child, seen, scan, claim, pruners>>
    BY <1>4 DEF PruneOwn, At, Legacies, Driven, LiveOwnerRows, Driving, Terminal, sweep
  <2>1. TypeOK'
    BY <2>0 DEF TypeOK, PCs, Driving
  <2>2. Owned'
    BY <2>0 DEF Owned, TypeOK, Driving
  <2>3. Driven'
    BY <2>0 DEF Driven, TypeOK, Terminal
  <2>4. LiveOwnerRows'
    BY <2>0 DEF LiveOwnerRows, TypeOK, Driving
  <2>5. Sweeps'
    BY <2>0 DEF Sweeps, SweepRows, SweepClaims, SweepPrunes, TypeOK, Driving
  <2>6. Legacies'
    BY <2>0 DEF Legacies, TypeOK, ImportedRow, Imported
  <2>7. Kept'
    BY <2>0 DEF Kept, TypeOK
  <2>. QED BY <2>1, <2>2, <2>3, <2>4, <2>5, <2>6, <2>7
<1>. QED BY <1>1, <1>2, <1>3, <1>4

\* IInv is kept when a child ends.
LEMMA ChildKeeps ==
  ASSUME IInv, NEW j \in Jobs, ChildExit(j)
  PROVE  IInv'
<1>. USE DEF IInv
<1>0. /\ child' = [child EXCEPT ![j] = "gone"]
      /\ UNCHANGED <<srv, file, owner, pc, mem, launches, row, wt, seen, scan, claim, pruners>>
  BY DEF ChildExit, driver, sweep
<1>1. TypeOK'
  BY <1>0 DEF TypeOK
<1>2. Owned' /\ Driven' /\ LiveOwnerRows'
  BY <1>0 DEF Owned, Driven, LiveOwnerRows
<1>3. Sweeps'
  <2>1. SweepRows'
    BY <1>0 DEF Sweeps, SweepRows
  <2>2. SweepClaims'
    BY <1>0 DEF Sweeps, SweepClaims
  <2>3. SweepPrunes'
    BY <1>0 DEF Sweeps, SweepPrunes
  <2>. QED BY <2>1, <2>2, <2>3 DEF Sweeps
<1>4. Legacies' /\ Kept'
  BY <1>0 DEF Legacies, Kept, ImportedRow, Imported
<1>. QED BY <1>1, <1>2, <1>3, <1>4

\* IInv is kept when a server starts, migrates or dies.
LEMMA ServerKeeps ==
  ASSUME IInv, NEW s \in Servers, Start(s) \/ Migrate(s) \/ Die(s)
  PROVE  IInv'
<1>. USE SetsAssumption, PidAssumption, BoundAssumption, LegacyAssumption DEF IInv
<1>1. CASE Start(s) \/ MigrateRead(s) \/ MigrateRename(s)
  <2>0. /\ \E to \in {"read", "import", "up"} : srv' = [srv EXCEPT ![s] = to]
        /\ srv[s] # "up"
        /\ file' \in {file, "quarantined", "moved"}
        /\ file' = "moved" => file = "moved" \/ srv[s] = "rename"
        /\ UNCHANGED <<owner, pc, mem, launches, row, child, wt, seen, scan, claim, pruners>>
    <3>1. CASE Start(s)
      BY <3>1 DEF Start, driver, sweep
    <3>2. CASE MigrateRead(s)
      BY <3>2 DEF MigrateRead, MigrateTo, driver, sweep
    <3>3. CASE MigrateRename(s)
      BY <3>3 DEF MigrateRename, MigrateTo, driver, sweep
    <3>. QED BY <1>1, <3>1, <3>2, <3>3
  <2>1. PICK to \in {"read", "import", "up"} : srv' = [srv EXCEPT ![s] = to]
    BY <2>0
  <2>2. TypeOK'
    BY <2>0, <2>1 DEF TypeOK
  <2>3. Owned'
    BY <2>0, <2>1 DEF Owned, TypeOK
  <2>4. Driven' /\ LiveOwnerRows' /\ Kept'
    BY <2>0 DEF Driven, LiveOwnerRows, Kept
  <2>5. Sweeps'
    <3>1. SweepRows'
      BY <2>0 DEF Sweeps, SweepRows
    <3>2. SweepClaims'
      BY <2>0 DEF Sweeps, SweepClaims
    <3>3. SweepPrunes'
      BY <2>0 DEF Sweeps, SweepPrunes
    <3>. QED BY <3>1, <3>2, <3>3 DEF Sweeps
  <2>6. Legacies'
    <3>1. (\E t \in Servers : srv'[t] = "rename") => \E t \in Servers : srv[t] = "rename"
      BY <2>1 DEF TypeOK
    <3>2. \A j \in LegacyJobs : file' = "moved" \/ (\E t \in Servers : srv'[t] = "rename")
                                  => row[j] = ImportedRow(j)
      BY <2>0, <3>1 DEF Legacies
    <3>. QED BY <2>0, <3>2 DEF Legacies, ImportedRow, Imported
  <2>. QED BY <2>2, <2>3, <2>4, <2>5, <2>6
<1>2. CASE MigrateImport(s)
  <2>0. /\ srv[s] = "import" /\ srv' \in [Servers -> {"off", "read", "import", "rename", "up", "dead"}]
        /\ \A t \in Servers : t # s => srv'[t] = srv[t]
        /\ srv'[s] \in {"rename", "up"}
        /\ UNCHANGED <<file, owner, pc, mem, launches, child, wt, seen, scan, claim, pruners>>
    BY <1>2 DEF MigrateImport, MigrateTo, driver, sweep, TypeOK
  <2>a. \A j \in LegacyJobs : ImportedRow(j) \in Row /\ ImportedRow(j).owner = 0
                              /\ ImportedRow(j).status \in Terminal
    BY DEF ImportedRow, Imported, Row, Terminal
  <2>b. /\ row' \in [Jobs -> Row]
        /\ \A j \in Jobs : j \notin LegacyJobs => row'[j] = row[j]
        /\ \A j \in LegacyJobs : row'[j] \in {row[j], ImportedRow(j)}
        /\ srv'[s] = "rename" => \A j \in LegacyJobs : row'[j] = ImportedRow(j)
    <3>1. CASE row' = row /\ srv' = [srv EXCEPT ![s] = "up"]
      BY <3>1 DEF TypeOK
    <3>2. CASE row' = [j \in Jobs |-> IF j \in LegacyJobs /\ (row[j].status = "none" \/ row[j].owner = 0)
                                      THEN ImportedRow(j) ELSE row[j]]
      <4>1. \A j \in LegacyJobs : row[j].status = "none" \/ row[j].owner = 0
        BY <2>a DEF Legacies, NoRow
      <4>. QED BY <3>2, <4>1, <2>a DEF TypeOK
    <3>. QED BY <1>2, <3>1, <3>2 DEF MigrateImport, MigrateTo, ImportedRow
  <2>1. TypeOK'
    BY <2>0, <2>b DEF TypeOK
  <2>2. Owned'
    <3>1. \A j \in Jobs : pc[j] # "lost" => row'[j] = row[j]
      BY <2>b DEF Legacies
    <3>. QED BY <2>0, <3>1 DEF Owned
  <2>3. Driven'
    BY <2>0 DEF Driven
  <2>4. LiveOwnerRows'
    BY <2>0, <2>b DEF LiveOwnerRows, Legacies, Driving
  <2>5. Sweeps'
    <3>1. SweepRows'
      BY <2>0 DEF Sweeps, SweepRows
    <3>2. SweepClaims'
      BY <2>0, <2>b DEF Sweeps, SweepClaims
    <3>3. SweepPrunes'
      BY <2>0, <2>b DEF Sweeps, SweepPrunes, Legacies
    <3>. QED BY <3>1, <3>2, <3>3 DEF Sweeps
  <2>6. Legacies'
    <3>1. \A j \in LegacyJobs : row'[j] \in {NoRow, ImportedRow(j)}
      BY <2>b DEF Legacies
    <3>2. \A j \in LegacyJobs : file = "moved" \/ (\E t \in Servers : srv'[t] = "rename")
                                  => row'[j] = ImportedRow(j)
      BY <2>0, <2>b DEF Legacies
    <3>. QED BY <2>0, <3>1, <3>2 DEF Legacies, ImportedRow, Imported
  <2>7. Kept'
    BY <2>0, <2>b DEF Kept, Legacies
  <2>. QED BY <2>1, <2>2, <2>3, <2>4, <2>5, <2>6, <2>7
<1>3. CASE Die(s)
  <2>0. /\ srv' = [srv EXCEPT ![s] = "dead"]
        /\ pc' = [j \in Jobs |-> IF owner[j] = s THEN "lost" ELSE pc[j]]
        /\ mem' = [j \in Jobs |-> IF owner[j] = s THEN NoRecord ELSE mem[j]]
        /\ seen' = [seen EXCEPT ![s] = [j \in Jobs |-> NoRow]]
        /\ scan' = [scan EXCEPT ![s] = {}]
        /\ claim' = [claim EXCEPT ![s] = None]
        /\ UNCHANGED <<file, owner, launches, row, child, wt, pruners>>
    BY <1>3 DEF Die
  <2>a. NoRecord \in Record /\ NoRow \in Row /\ NoRecord.status = "none" /\ NoRecord.pid = 0
    BY DEF NoRecord, NoRow, Record, Row
  <2>b. \A j \in Jobs : \/ owner[j] = s /\ pc'[j] = "lost" /\ mem'[j] = NoRecord
                        \/ owner[j] # s /\ pc'[j] = pc[j] /\ mem'[j] = mem[j]
    BY <2>0
  <2>c. \A t \in Servers : \/ t = s /\ srv'[t] = "dead" /\ scan'[t] = {} /\ claim'[t] = None
                           \/ t # s /\ UNCHANGED <<srv[t], scan[t], claim[t], seen[t]>>
    BY <2>0 DEF TypeOK
  <2>1. TypeOK'
    <3>1. pc' \in [Jobs -> PCs] /\ mem' \in [Jobs -> Record]
      BY <2>0, <2>a DEF TypeOK, PCs
    <3>2. seen' \in [Servers -> [Jobs -> Row]] /\ scan' \in [Servers -> SUBSET Jobs]
      BY <2>0, <2>a DEF TypeOK
    <3>. QED BY <2>0, <3>1, <3>2 DEF TypeOK
  <2>2. Owned'
    BY <2>0, <2>a, <2>b, <2>c DEF Owned, Driving
  <2>3. Driven'
    <3>1. \A j \in Jobs : launches[j] \in Nat
      BY DEF TypeOK
    <3>. QED BY <2>0, <2>a, <2>b, <3>1 DEF Driven
  <2>4. LiveOwnerRows'
    BY <2>0, <2>b DEF LiveOwnerRows, Driving
  <2>5. Sweeps'
    <3>1. SweepRows'
      BY <2>0, <2>b, <2>c DEF Sweeps, SweepRows, Driving, TypeOK
    <3>2. SweepClaims'
      <4>1. \A t \in Servers : \A j \in Jobs : claim'[t] = j => claim[t] = j
        BY <2>c
      <4>2. \A j \in Jobs : pc[j] = "lost" => pc'[j] = "lost"
        BY <2>b
      <4>3. UNCHANGED <<row, pruners>>
        BY <2>0
      <4>. QED BY <4>1, <4>2, <4>3 DEF Sweeps, SweepClaims
    <3>3. SweepPrunes'
      BY <2>0, <2>b DEF Sweeps, SweepPrunes
    <3>. QED BY <3>1, <3>2, <3>3 DEF Sweeps
  <2>6. Legacies'
    <3>1. (\E t \in Servers : srv'[t] = "rename") => \E t \in Servers : srv[t] = "rename"
      BY <2>c
    <3>2. \A j \in LegacyJobs : file = "moved" \/ (\E t \in Servers : srv'[t] = "rename")
                                  => row[j] = ImportedRow(j)
      BY <3>1 DEF Legacies
    <3>3. \A j \in LegacyJobs : pc'[j] = "lost"
      BY <2>b DEF Legacies
    <3>. QED BY <2>0, <3>2, <3>3 DEF Legacies, ImportedRow, Imported
  <2>7. Kept'
    <3>1. "lost" \notin {"created"} \cup (Driving \ {"end"})
      BY DEF Driving
    <3>. QED BY <2>0, <2>a, <2>b, <3>1 DEF Kept
  <2>. QED BY <2>1, <2>2, <2>3, <2>4, <2>5, <2>6, <2>7
<1>. QED BY <1>1, <1>2, <1>3 DEF Migrate

\* IInv is kept by a sweep: a row it finds owned by a dead server belongs to a job
\* nobody drives any more, however old the copy it works on.
LEMMA SweepKeeps ==
  ASSUME IInv, NEW s \in Servers, Reconcile(s)
  PROVE  IInv'
<1>. USE SetsAssumption, PidAssumption, BoundAssumption, LegacyAssumption DEF IInv
<1>1. CASE ReconcileRead(s)
  <2>0. /\ seen' = [seen EXCEPT ![s] = row] /\ scan' = [scan EXCEPT ![s] = Unfinished]
        /\ UNCHANGED <<srv, file, owner, pc, mem, launches, row, child, wt, claim, pruners>>
    BY <1>1 DEF ReconcileRead, driver
  <2>a. \A t \in Servers : \/ t = s /\ seen'[t] = row /\ scan'[t] = Unfinished
                           \/ t # s /\ seen'[t] = seen[t] /\ scan'[t] = scan[t]
    BY <2>0 DEF TypeOK
  <2>b. \A j \in Unfinished : j \in Jobs /\ pc[j] \in Driving \cup {"lost"} /\ j \notin LegacyJobs
    <3>1. \A j \in Jobs : row[j] = NoRow => j \notin Unfinished
      BY DEF Unfinished, NoRow, Active
    <3>2. \A j \in LegacyJobs : row[j] = ImportedRow(j) => j \notin Unfinished
      BY DEF Unfinished, ImportedRow, Imported, Active, Terminal
    <3>3. \A j \in Unfinished : j \in Jobs
      BY DEF Unfinished
    <3>. QED BY <3>1, <3>2, <3>3 DEF Owned, Legacies
  <2>1. TypeOK'
    <3>1. seen' \in [Servers -> [Jobs -> Row]] /\ scan' \in [Servers -> SUBSET Jobs]
      BY <2>0, <2>b DEF TypeOK
    <3>. QED BY <2>0, <3>1 DEF TypeOK
  <2>2. Owned' /\ Driven' /\ LiveOwnerRows' /\ Kept'
    BY <2>0 DEF Owned, Driven, LiveOwnerRows, Kept
  <2>3. Sweeps'
    <3>1. SweepRows'
      BY <2>0, <2>a, <2>b DEF Sweeps, SweepRows, LiveOwnerRows
    <3>2. SweepClaims'
      BY <2>0 DEF Sweeps, SweepClaims
    <3>3. SweepPrunes'
      BY <2>0 DEF Sweeps, SweepPrunes
    <3>. QED BY <3>1, <3>2, <3>3 DEF Sweeps
  <2>4. Legacies'
    BY <2>0 DEF Legacies, ImportedRow, Imported
  <2>. QED BY <2>1, <2>2, <2>3, <2>4
<1>2. ASSUME NEW j \in Jobs, ReconcileSkip(s, j) PROVE IInv'
  <2>0. /\ scan' = [scan EXCEPT ![s] = @ \ {j}]
        /\ UNCHANGED <<srv, file, owner, pc, mem, launches, row, child, wt, seen, claim, pruners>>
    BY <1>2 DEF ReconcileSkip, Visit, driver
  <2>a. \A t \in Servers : scan'[t] \subseteq scan[t]
    BY <2>0 DEF TypeOK
  <2>1. TypeOK'
    BY <2>0 DEF TypeOK
  <2>2. Owned' /\ Driven' /\ LiveOwnerRows' /\ Kept'
    BY <2>0 DEF Owned, Driven, LiveOwnerRows, Kept
  <2>3. Sweeps'
    <3>1. SweepRows'
      BY <2>0, <2>a DEF Sweeps, SweepRows
    <3>2. SweepClaims'
      BY <2>0 DEF Sweeps, SweepClaims
    <3>3. SweepPrunes'
      BY <2>0 DEF Sweeps, SweepPrunes
    <3>. QED BY <3>1, <3>2, <3>3 DEF Sweeps
  <2>4. Legacies'
    BY <2>0 DEF Legacies, ImportedRow, Imported
  <2>. QED BY <2>1, <2>2, <2>3, <2>4
<1>3. ASSUME NEW j \in Jobs, ReconcileClaim(s, j) PROVE IInv'
  <2>0. /\ j \in scan[s] /\ claim[s] = None
        /\ ~ServerAlive(seen[s][j].owner)
        /\ row' = IF Claims(j)
                  THEN [row EXCEPT ![j].status = "failed", ![j].owner = Pid[s]] ELSE row
        /\ claim' = [claim EXCEPT ![s] = IF ActsOn(j) THEN j ELSE None]
        /\ scan' = [scan EXCEPT ![s] = @ \ {j}]
        /\ UNCHANGED <<srv, file, owner, pc, mem, launches, child, wt, seen, pruners>>
    BY <1>3 DEF ReconcileClaim, Visit, driver
  <2>a. pc[j] = "lost" /\ j \notin LegacyJobs
    <3>1. ASSUME pc[j] \in Driving PROVE FALSE
      <4>1. /\ owner[j] \in Servers /\ srv[owner[j]] = "up"
            /\ seen[s][j].owner = Pid[owner[j]]
        BY <2>0, <3>1 DEF Sweeps, SweepRows, Owned
      <4>. QED BY <2>0, <4>1 DEF ServerAlive
    <3>. QED BY <2>0, <3>1 DEF Sweeps, SweepRows
  <2>b. /\ row' \in [Jobs -> Row]
        /\ \A k \in Jobs : k # j => row'[k] = row[k]
        /\ Claims(j) => row'[j].status = "failed"
        /\ ~Claims(j) => row'[j] = row[j]
    <3>1. CASE Claims(j)
      <4>1. row[j] \in Row
        BY DEF TypeOK
      <4>2. row' = [row EXCEPT ![j] = [row[j] EXCEPT !.status = "failed", !.owner = Pid[s]]]
        BY <2>0, <3>1 DEF TypeOK
      <4>3. /\ [row[j] EXCEPT !.status = "failed", !.owner = Pid[s]] \in Row
            /\ [row[j] EXCEPT !.status = "failed", !.owner = Pid[s]].status = "failed"
        BY <4>1 DEF Row, Terminal
      <4>. QED BY <3>1, <4>2, <4>3 DEF TypeOK
    <3>2. CASE ~Claims(j)
      BY <2>0, <3>2 DEF TypeOK
    <3>. QED BY <3>1, <3>2
  <2>c. \A t \in Servers : scan'[t] \subseteq scan[t]
    BY <2>0 DEF TypeOK
  <2>d. row[j].status = "failed" => row'[j] = row[j] /\ ~ActsOn(j)
    BY <2>b DEF Claims, ActsOn, Terminal
  <2>1. TypeOK'
    <3>1. claim' \in [Servers -> Jobs \cup {None}] /\ scan' \in [Servers -> SUBSET Jobs]
      BY <2>0 DEF TypeOK
    <3>. QED BY <2>0, <2>b, <3>1 DEF TypeOK
  <2>2. Owned'
    BY <2>0, <2>a, <2>b DEF Owned
  <2>3. Driven'
    BY <2>0 DEF Driven
  <2>4. LiveOwnerRows'
    BY <2>0, <2>a, <2>b DEF LiveOwnerRows, Driving
  <2>5. SweepRows'
    BY <2>0, <2>c DEF Sweeps, SweepRows
  <2>6. SweepPrunes'
    <3>1. \A k \in Jobs : row[k].status = "failed" => row'[k].status = "failed"
      BY <2>b, <2>d
    <3>. QED BY <2>0, <3>1 DEF Sweeps, SweepPrunes
  <2>7. SweepClaims'
    <3>1. \A k \in Jobs : row[k].status = "failed" => row'[k].status = "failed"
      BY <2>b, <2>d
    <3>2. \A t \in Servers : t # s => claim'[t] = claim[t]
      BY <2>0 DEF TypeOK
    <3>3. CASE ActsOn(j)
      <4>1. /\ claim'[s] = j /\ row'[j].status = "failed" /\ row[j].status # "failed"
        BY <2>0, <2>b, <2>d, <3>3 DEF ActsOn, TypeOK
      <4>2. pruners[j] = {} /\ \A t \in Servers : claim[t] # j
        BY <4>1 DEF Sweeps, SweepClaims, SweepPrunes
      <4>3. UNCHANGED <<pc, pruners>>
        BY <2>0
      <4>. QED BY <2>a, <3>1, <3>2, <4>1, <4>2, <4>3 DEF Sweeps, SweepClaims
    <3>4. CASE ~ActsOn(j)
      <4>1. claim' = claim /\ UNCHANGED <<pc, pruners>>
        BY <2>0, <3>4 DEF TypeOK
      <4>. QED BY <3>1, <4>1 DEF Sweeps, SweepClaims
    <3>. QED BY <3>3, <3>4
  <2>8. Legacies'
    <3>1. \A k \in LegacyJobs : row'[k] = row[k]
      BY <2>a, <2>b
    <3>. QED BY <2>0, <3>1 DEF Legacies, ImportedRow, Imported
  <2>9. Kept'
    <3>1. \A k \in Jobs : row'[k].status = "completed" => row[k].status = "completed"
      BY <2>b
    <3>. QED BY <2>0, <3>1 DEF Kept
  <2>. QED BY <2>1, <2>2, <2>3, <2>4, <2>5, <2>6, <2>7, <2>8, <2>9 DEF Sweeps
<1>4. CASE ReconcileWorktree(s)
  <2>. DEFINE j == claim[s]
  <2>0. /\ j \in Jobs
        /\ \/ UNCHANGED <<wt, pruners>>
           \/ wt' = [wt EXCEPT ![j] = "pruned"] /\ pruners' = [pruners EXCEPT ![j] = @ \cup {s}]
        /\ claim' = [claim EXCEPT ![s] = None]
        /\ UNCHANGED <<srv, file, owner, pc, mem, launches, row, child, seen, scan>>
    BY <1>4 DEF ReconcileWorktree, driver, TypeOK
  <2>a. /\ pc[j] = "lost" /\ row[j].status = "failed" /\ pruners[j] = {} /\ j \notin LegacyJobs
        /\ \A t \in Servers : claim[t] = j => t = s
    BY <2>0 DEF Sweeps, SweepClaims
  <2>b. /\ wt' \in [Jobs -> {"none", "present", "pruned"}] /\ pruners' \in [Jobs -> SUBSET Servers]
        /\ \A k \in Jobs : k # j => wt'[k] = wt[k] /\ pruners'[k] = pruners[k]
        /\ pruners'[j] \in {{}, {s}}
    <3>. HIDE DEF j
    <3>1. CASE UNCHANGED <<wt, pruners>>
      BY <2>a, <3>1 DEF TypeOK
    <3>2. CASE wt' = [wt EXCEPT ![j] = "pruned"] /\ pruners' = [pruners EXCEPT ![j] = @ \cup {s}]
      <4>1. pruners[j] \cup {s} = {s} /\ {s} \in SUBSET Servers
        BY <2>a
      <4>. QED BY <2>0, <3>2, <4>1 DEF TypeOK
    <3>. QED BY <2>0, <3>1, <3>2
  <2>c. \A t \in Servers : \A k \in Jobs : claim'[t] = k => claim[t] = k /\ k # j
    BY <2>0, <2>a DEF TypeOK
  <2>. HIDE DEF j
  <2>1. TypeOK'
    BY <2>0, <2>b DEF TypeOK
  <2>2. Owned' /\ Driven' /\ LiveOwnerRows'
    BY <2>0 DEF Owned, Driven, LiveOwnerRows
  <2>3. SweepRows'
    BY <2>0 DEF Sweeps, SweepRows
  <2>4. SweepClaims'
    <3>1. UNCHANGED <<pc, row>>
      BY <2>0
    <3>. QED BY <2>b, <2>c, <3>1 DEF Sweeps, SweepClaims
  <2>5. SweepPrunes'
    <3>1. UNCHANGED <<pc, row>>
      BY <2>0
    <3>. QED BY <2>0, <2>a, <2>b, <3>1 DEF Sweeps, SweepPrunes
  <2>6. Legacies'
    <3>1. \A k \in LegacyJobs : wt'[k] = wt[k] /\ pruners'[k] = pruners[k]
      BY <2>a, <2>b
    <3>. QED BY <2>0, <3>1 DEF Legacies, ImportedRow, Imported
  <2>7. Kept'
    <3>1. mem[j].status = "none" /\ pc[j] \notin {"created"} \cup (Driving \ {"end"})
      BY <2>0, <2>a DEF Owned, Driving
    <3>. QED BY <2>0, <2>a, <2>b, <3>1 DEF Kept
  <2>. QED BY <2>1, <2>2, <2>3, <2>4, <2>5, <2>6, <2>7 DEF Sweeps
<1>. QED BY <1>1, <1>2, <1>3, <1>4 DEF Reconcile

-----------------------------------------------------------------------------
\* Every step keeps IInv.
LEMMA InvNext == IInv /\ [Next]_vars => IInv'
<1>. SUFFICES ASSUME IInv, [Next]_vars PROVE IInv'
  OBVIOUS
<1>1. ASSUME NEW s \in Servers, Start(s) \/ Migrate(s) \/ Die(s) PROVE IInv'
  BY <1>1, ServerKeeps
<1>2. ASSUME NEW s \in Servers, Reconcile(s) PROVE IInv'
  BY <1>2, SweepKeeps
<1>3. ASSUME NEW s \in Servers, NEW j \in Jobs,
             CreateWorktree(s, j) \/ Cancel(s, j) \/ Drive(s, j)
      PROVE  IInv'
  <2>1. CASE \/ Submit(s, j) \/ Promote(s, j) \/ RecordPid(s, j) \/ Retry(s, j)
             \/ Finish(s, j) \/ Cancel(s, j)
    <3>1. PICK r \in Record, to \in Driving : Recorded(s, j, r, to)
      BY <2>1, RecordSteps
    <3>. QED BY <3>1, RecordKeeps
  <2>2. CASE \/ CreateWorktree(s, j) \/ SubmitRejected(s, j) \/ Launch(s, j)
             \/ LaunchFails(s, j) \/ PruneOwn(s, j)
    BY <2>2, DriverKeeps
  <2>. QED BY <1>3, <2>1, <2>2 DEF Drive
<1>4. ASSUME NEW j \in Jobs, ChildExit(j) PROVE IInv'
  BY <1>4, ChildKeeps
<1>5. CASE UNCHANGED vars
  <2>1. UNCHANGED <<srv, file, owner, pc, mem, launches, row, child, wt, seen, scan, claim, pruners>>
    BY <1>5 DEF vars, driver, sweep
  <2>2. TypeOK' /\ Owned' /\ Driven' /\ LiveOwnerRows' /\ Kept'
    BY <2>1 DEF IInv, TypeOK, Owned, Driven, LiveOwnerRows, Kept
  <2>3. SweepRows' /\ SweepClaims'
    BY <2>1 DEF IInv, Sweeps, SweepRows, SweepClaims
  <2>4. SweepPrunes'
    BY <2>1 DEF IInv, Sweeps, SweepPrunes
  <2>5. Legacies'
    BY <2>1 DEF IInv, Legacies, ImportedRow, Imported
  <2>. QED BY <2>2, <2>3, <2>4, <2>5 DEF IInv, Sweeps
<1>. QED BY <1>1, <1>2, <1>3, <1>4, <1>5 DEF Next

LEMMA InvAlways == Spec => []IInv
  BY InvInit, InvNext, PTL DEF Spec

\* Every variable keeps its type; in particular a job is launched at most
\* MaxRetries + 1 times.
THEOREM SharedTyped == Spec => []TypeOK
<1>1. IInv => TypeOK
  BY DEF IInv
<1>. QED BY <1>1, InvAlways, PTL

\* "hands off" (reconcile.go:29): no sweep, however stale, and no other server's
\* upsert touches the row of a job whose owner lives.
THEOREM RowsOfLivingOwners == Spec => []LiveOwnerRows
<1>1. IInv => LiveOwnerRows
  BY DEF IInv
<1>. QED BY <1>1, InvAlways, PTL

\* No sweep prunes the worktree of a job that is driven, or of a delivered one.
THEOREM WorktreesStay == Spec => []WorktreesKept
<1>1. IInv => WorktreesKept
  BY DEF IInv, Kept, WorktreesKept
<1>. QED BY <1>1, InvAlways, PTL

\* ClaimTerminal lets at most one sweep prune a worktree.
THEOREM OnePruner == Spec => []SinglePruner
<1>1. IInv => SinglePruner
  <2>. SUFFICES ASSUME IInv, NEW j \in Jobs PROVE Cardinality(pruners[j]) <= 1
    BY DEF SinglePruner
  <2>1. CASE pruners[j] = {}
    BY <2>1, FS_EmptySet
  <2>2. CASE pruners[j] # {}
    <3>1. PICK s \in Servers : pruners[j] = {s}
      BY <2>2 DEF IInv, Sweeps, SweepPrunes
    <3>2. Cardinality({s}) = 1
      BY FS_Singleton
    <3>. QED BY <3>1, <3>2
  <2>. QED BY <2>1, <2>2
<1>. QED BY <1>1, InvAlways, PTL

\* migrateLegacyJSON, run by any number of servers that die anywhere in it, loses
\* no job and hands no worktree to a sweep.
THEOREM LegacyImportSafe == Spec => []LegacySafe
<1>1. IInv => LegacySafe
  <2>1. \A j \in LegacyJobs : ImportedRow(j).status = Imported(j)
    BY DEF ImportedRow
  <2>. QED BY <2>1 DEF IInv, Legacies, LegacySafe
<1>. QED BY <1>1, InvAlways, PTL

\* upsertSQL and claimSQL: the status of a terminal row never changes.
THEOREM TerminalRowsStay == Spec => TerminalRowFinal
<1>. DEFINE Same == \A j \in Jobs : row[j].status \in Terminal => row'[j].status = row[j].status
<1>1. IInv /\ [Next]_vars => Same
  <2>. SUFFICES ASSUME IInv, [Next]_vars PROVE Same
    OBVIOUS
  <2>. USE DEF IInv
  <2>1. ASSUME NEW s \in Servers, Migrate(s) PROVE Same
    <3>1. CASE MigrateImport(s)
      <4>1. \A j \in LegacyJobs : row[j] \in {NoRow, ImportedRow(j)}
        BY DEF Legacies
      <4>2. \A j \in Jobs : \/ row'[j] = row[j]
                            \/ j \in LegacyJobs /\ row'[j] = ImportedRow(j)
        BY <3>1 DEF MigrateImport, ImportedRow
      <4>3. NoRow.status \notin Terminal
        BY DEF NoRow, Terminal
      <4>. QED BY <4>1, <4>2, <4>3
    <3>2. CASE MigrateRead(s) \/ MigrateRename(s)
      BY <3>2 DEF MigrateRead, MigrateRename
    <3>. QED BY <2>1, <3>1, <3>2 DEF Migrate
  <2>2. ASSUME NEW s \in Servers, Reconcile(s) PROVE Same
    <3>1. ASSUME NEW j \in Jobs, ReconcileClaim(s, j) PROVE Same
      BY <3>1 DEF ReconcileClaim, Claims, TypeOK
    <3>. QED BY <2>2, <3>1 DEF Reconcile, ReconcileRead, ReconcileSkip, ReconcileWorktree
  <2>3. ASSUME NEW s \in Servers, NEW j \in Jobs,
               \/ Submit(s, j) \/ Promote(s, j) \/ RecordPid(s, j) \/ Retry(s, j)
               \/ Finish(s, j) \/ Cancel(s, j)
        PROVE  Same
    <3>1. PICK r \in Record, to \in Driving : Recorded(s, j, r, to)
      BY <2>3, RecordSteps
    <3>2. SUFFICES ASSUME NEW k \in Jobs, row[k].status \in Terminal, Written(s, mem', k)
                   PROVE  row'[k].status = row[k].status
      BY <3>1 DEF Recorded
    <3>3. row'[k].status = mem'[k].status /\ mem'[k].status # "none"
      BY <3>2 DEF Written
    <3>4. CASE k # j
      <4>1. mem'[k] = mem[k]
        BY <3>1, <3>4 DEF Recorded, TypeOK
      <4>. QED BY <3>2, <3>3, <4>1 DEF Owned, LiveOwnerRows
    <3>5. CASE k = j
      <4>1. /\ mem'[j] = r /\ (mem[j].status \in Terminal => r.status = mem[j].status)
            /\ pc[j] \in {"created"} \cup (Driving \ {"prune", "end"})
        BY <3>1 DEF Recorded, TypeOK
      <4>2. pc[j] # "created"
        BY <3>2, <3>5 DEF Owned, Driving, NoRow, Terminal
      <4>. QED BY <3>2, <3>3, <3>5, <4>1, <4>2 DEF LiveOwnerRows
    <3>. QED BY <3>4, <3>5
  <2>4. ASSUME NEW s \in Servers, NEW j \in Jobs,
               \/ CreateWorktree(s, j) \/ SubmitRejected(s, j) \/ Launch(s, j)
               \/ LaunchFails(s, j) \/ PruneOwn(s, j)
        PROVE  Same
    BY <2>4 DEF CreateWorktree, SubmitRejected, Launch, LaunchFails, PruneOwn
  <2>5. CASE UNCHANGED vars
    BY <2>5 DEF vars
  <2>6. ASSUME NEW s \in Servers, Start(s) \/ Die(s) PROVE Same
    BY <2>6 DEF Start, Die
  <2>7. ASSUME NEW j \in Jobs, ChildExit(j) PROVE Same
    BY <2>7 DEF ChildExit
  <2>. QED BY <2>1, <2>2, <2>3, <2>4, <2>5, <2>6, <2>7 DEF Next, Drive
<1>. QED BY <1>1, InvAlways, PTL DEF Spec, TerminalRowFinal

=============================================================================
