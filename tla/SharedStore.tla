---------------------------- MODULE SharedStore ----------------------------
(***************************************************************************)
(* Several pi-mcp servers over one SQLite registry: each writes the rows   *)
(* of its own jobs (internal/jobs/store.go), each reconciles the rows of   *)
(* dead servers at startup and every minute (internal/jobs/reconcile.go,   *)
(* internal/app/app.go), and each may die at any moment.  Its pi children  *)
(* run in process groups of their own and survive it.  The first servers   *)
(* to open the store import the registry.json of the older program, whose  *)
(* servers may still be running.                                           *)
(*                                                                         *)
(* A server is one process: it is started once and dies once.  Of a job's  *)
(* driver (module Registry) only what reaches the row, the child or the    *)
(* worktree is kept.  Launches are numbered, and launch n has pid n.       *)
(***************************************************************************)
EXTENDS Naturals, FiniteSets

CONSTANTS
  Servers,      \* server processes
  Jobs,         \* job ids; each is submitted to one server
  WriteJobs,    \* the jobs with a worktree
  Pid,          \* [Servers -> Nat \ {0}]: process ids, which may be reused
  MaxRetries,   \* config.MaxAuthoringRetries
  StoreFaults,  \* whether a best-effort write may fail
  Legacy,       \* registry.json: a function from its jobs to their status
  None          \* no job / no server

ASSUME SetsAssumption  == WriteJobs \subseteq Jobs /\ None \notin Jobs \cup Servers
ASSUME PidAssumption   == Pid \in [Servers -> Nat \ {0}]
ASSUME BoundAssumption == MaxRetries \in Nat /\ StoreFaults \in BOOLEAN

LegacyJobs == DOMAIN Legacy

VARIABLES
  srv,      \* "off", in migrateLegacyJSON ("read", "import", "rename"), "up" or "dead"
  file,     \* registry.json: "none", "present", "corrupt", "moved" or "quarantined"
  owner,    \* the server a job was submitted to
  pc,       \* where that server's driver of the job is
  mem,      \* that server's record of the job
  row,      \* the shared table
  launches, \* launches of the job so far
  child,    \* its latest pi process: "none", "alive", "gone"
  wt,       \* its worktree: "none", "present", "pruned"
  seen,     \* Reconcile: the rows AllJobs returned
  scan,     \* Reconcile: the non-terminal ones still to visit
  claim,    \* Reconcile: the job just claimed, its worktree not yet handled
  pruners   \* servers whose Reconcile pruned the job's worktree

driver  == <<owner, pc, mem, launches>>
sweep   == <<seen, scan, claim>>
vars == <<srv, file, driver, row, child, wt, sweep, pruners>>

Terminal == {"completed", "failed", "aborted"}
Active   == {"queued", "running"}
Record   == [status: Active \cup Terminal \cup {"none"}, pid: 0 .. (MaxRetries + 1)]
Row      == [status: Active \cup Terminal \cup {"none"}, pid: 0 .. (MaxRetries + 1),
             owner: {0} \cup {Pid[s] : s \in Servers}]
ASSUME LegacyAssumption ==
  /\ LegacyJobs \subseteq Jobs
  /\ \A j \in LegacyJobs : Legacy[j] \in Active \cup Terminal

NoRecord == [status |-> "none", pid |-> 0]
NoRow    == [status |-> "none", pid |-> 0, owner |-> 0]

\* Drivers that have registered their job and run on a live server.
Driving == {"queued", "launch", "launched", "wait", "finish", "prune", "end"}
PCs == {"idle", "created", "rejected", "lost"} \cup Driving

-----------------------------------------------------------------------------
\* pidAlive, for the pid of a server ...
ServerAlive_Bug(p) == FALSE
ServerAlive(p) == \E s \in Servers : srv[s] \notin {"off", "dead"} /\ Pid[s] = p

\* ... and for the recorded pid of a pi process (0 is never alive).
ChildAlive(j, n) == n # 0 /\ n = launches[j] /\ child[j] = "alive"

\* upsertSQL: insert, or update where the row is ours or nobody's.
Upserted(s, m) ==
  [j \in Jobs |->
     IF /\ owner[j] = s /\ m[j].status # "none"
        /\ row[j].status = "none" \/ row[j].owner \in {Pid[s], 0}
     THEN [status |-> m[j].status, pid |-> m[j].pid, owner |-> Pid[s]]
     ELSE row[j]]

\* flushUnlocked, whose error only Submit looks at.
Flush(s, m) == row' = Upserted(s, m) \/ (StoreFaults /\ row' = row)

\* The rows Reconcile visits: isTerminal(rec.Status) -> continue.
Unfinished_Bug == {j \in Jobs : row[j].status = "running"}
Unfinished == {j \in Jobs : row[j].status \in Active}

\* claimSQL: ... WHERE status NOT IN (terminal).
Claims_Bug(j) == TRUE
Claims(j) == row[j].status \notin Terminal

\* The legacy jobs belong to a server of the older program: they have a worktree that
\* may be in use, and their pi processes are not followed (recorded pid 0).
Init ==
  /\ srv = [s \in Servers |-> "off"]
  /\ file \in IF LegacyJobs = {} THEN {"none"} ELSE {"present", "corrupt"}
  /\ owner = [j \in Jobs |-> None]
  /\ pc = [j \in Jobs |-> IF j \in LegacyJobs THEN "lost" ELSE "idle"]
  /\ mem = [j \in Jobs |-> NoRecord] /\ row = [j \in Jobs |-> NoRow]
  /\ launches = [j \in Jobs |-> 0] /\ child = [j \in Jobs |-> "none"]
  /\ wt = [j \in Jobs |-> IF j \in LegacyJobs \cap WriteJobs THEN "present" ELSE "none"]
  /\ seen = [s \in Servers |-> [j \in Jobs |-> NoRow]]
  /\ scan = [s \in Servers |-> {}] /\ claim = [s \in Servers |-> None]
  /\ pruners = [j \in Jobs |-> {}]

-----------------------------------------------------------------------------
(***************************************************************************)
(* Server processes.                                                       *)
(***************************************************************************)
\* OpenStore: a table that is not empty, or cannot be counted, is not migrated.
Start(s) ==
  /\ srv[s] = "off" /\ ~ServerAlive(Pid[s])
  /\ LET empty == \A j \in Jobs : row[j].status = "none"
     IN \E to \in IF empty /\ file \in {"present", "corrupt"} THEN {"read", "up"} ELSE {"up"} :
          srv' = [srv EXCEPT ![s] = to]
  /\ UNCHANGED <<file, driver, row, child, wt, sweep, pruners>>

(***************************************************************************)
(* migrateLegacyJSON: count, read, import and rename are steps of their    *)
(* own; each may fail, which does not keep the server from starting.       *)
(***************************************************************************)
MigrateTo(s, at, to) == srv[s] = at /\ srv' = [srv EXCEPT ![s] = to]

\* A file that does not parse is quarantined.
MigrateRead(s) ==
  /\ MigrateTo(s, "read", IF file = "present" THEN "import" ELSE "up")
  /\ file' = IF file = "corrupt" THEN "quarantined" ELSE file
  /\ UNCHANGED <<driver, row, child, wt, sweep, pruners>>

Imported_Bug(j) == Legacy[j]
\* What is not terminal is imported as failed, so that no sweep visits it.
Imported(j) == IF Legacy[j] \in Terminal THEN Legacy[j] ELSE "failed"

\* UpsertJobs with owner 0, over what is missing or nobody's; or its error.
MigrateImport(s) ==
  /\ \/ /\ MigrateTo(s, "import", "rename")
        /\ row' = [j \in Jobs |->
                     IF j \in LegacyJobs /\ (row[j].status = "none" \/ row[j].owner = 0)
                     THEN [status |-> Imported(j), pid |-> 0, owner |-> 0]
                     ELSE row[j]]
     \/ MigrateTo(s, "import", "up") /\ UNCHANGED row
  /\ UNCHANGED <<file, driver, child, wt, sweep, pruners>>

\* The rename may fail, and another server may have moved the file already.
MigrateRename(s) ==
  /\ MigrateTo(s, "rename", "up")
  /\ file' \in {"moved", file}
  /\ UNCHANGED <<driver, row, child, wt, sweep, pruners>>

Migrate(s) == MigrateRead(s) \/ MigrateImport(s) \/ MigrateRename(s)

\* Killed, or exited after Close: what is in memory is gone, rows, children
\* and worktrees stay.
Die(s) ==
  /\ srv[s] \notin {"off", "dead"}
  /\ srv' = [srv EXCEPT ![s] = "dead"]
  /\ pc' = [j \in Jobs |-> IF owner[j] = s THEN "lost" ELSE pc[j]]
  /\ mem' = [j \in Jobs |-> IF owner[j] = s THEN NoRecord ELSE mem[j]]
  /\ seen' = [seen EXCEPT ![s] = [j \in Jobs |-> NoRow]]
  /\ scan' = [scan EXCEPT ![s] = {}]
  /\ claim' = [claim EXCEPT ![s] = None]
  /\ UNCHANGED <<file, owner, launches, row, child, wt, pruners>>

-----------------------------------------------------------------------------
(***************************************************************************)
(* The driver of a job on the server that owns it.                         *)
(***************************************************************************)
At(s, j, place) == srv[s] = "up" /\ owner[j] = s /\ pc[j] = place

\* jobsAdapter.Submit creates the worktree before there is a row.
CreateWorktree(s, j) ==
  /\ srv[s] = "up" /\ pc[j] = "idle"
  /\ owner' = [owner EXCEPT ![j] = s]
  /\ pc' = [pc EXCEPT ![j] = "created"]
  /\ wt' = IF j \in WriteJobs THEN [wt EXCEPT ![j] = "present"] ELSE wt
  /\ UNCHANGED <<srv, file, mem, launches, row, child, sweep, pruners>>

Submit(s, j) ==
  /\ At(s, j, "created")
  /\ \E st \in Active :
       /\ mem' = [mem EXCEPT ![j].status = st]
       /\ pc' = [pc EXCEPT ![j] = IF st = "queued" THEN "queued" ELSE "launch"]
  /\ row' = Upserted(s, mem')
  /\ UNCHANGED <<srv, file, owner, launches, child, wt, sweep, pruners>>

SubmitRejected(s, j) ==
  /\ At(s, j, "created") /\ StoreFaults
  /\ pc' = [pc EXCEPT ![j] = "rejected"]
  /\ UNCHANGED <<srv, file, owner, mem, launches, row, child, wt, sweep, pruners>>

\* The steps that set the record and flush it.
WriteRecord(s, j, r, to) ==
  /\ mem' = [mem EXCEPT ![j] = r]
  /\ pc' = [pc EXCEPT ![j] = to]
  /\ Flush(s, mem')
  /\ UNCHANGED <<srv, file, owner, launches, child, wt, sweep, pruners>>

Promote(s, j) ==
  At(s, j, "queued") /\ WriteRecord(s, j, [mem[j] EXCEPT !.status = "running"], "launch")

Launch(s, j) ==
  /\ At(s, j, "launch")
  /\ launches' = [launches EXCEPT ![j] = @ + 1]
  /\ child' = [child EXCEPT ![j] = "alive"]
  /\ pc' = [pc EXCEPT ![j] = "launched"]
  /\ UNCHANGED <<srv, file, owner, mem, row, wt, sweep, pruners>>

LaunchFails(s, j) ==
  /\ At(s, j, "launch")
  /\ pc' = [pc EXCEPT ![j] = "finish"]
  /\ UNCHANGED <<srv, file, owner, mem, launches, row, child, wt, sweep, pruners>>

RecordPid(s, j) ==
  At(s, j, "launched") /\ WriteRecord(s, j, [mem[j] EXCEPT !.pid = launches[j]], "wait")

\* wait() returned an authoring failure: relaunch.
MayRetry_Bug(j) == mem[j].status = "running"
MayRetry(j) == mem[j].status = "running" /\ launches[j] <= MaxRetries

Retry(s, j) ==
  /\ At(s, j, "wait") /\ child[j] = "gone" /\ MayRetry(j)
  /\ WriteRecord(s, j, mem[j], "launch")

\* finish: the record becomes terminal, an aborted write job is pruned next.
AfterFinish(j, st) == IF st = "aborted" /\ j \in WriteJobs THEN "prune" ELSE "end"

Finish(s, j) ==
  /\ At(s, j, "finish") \/ (At(s, j, "wait") /\ child[j] = "gone")
  /\ \E st \in IF mem[j].status \in Terminal THEN {mem[j].status}
               ELSE IF pc[j] = "wait" THEN {"completed", "failed"} ELSE {"failed"} :
       WriteRecord(s, j, [mem[j] EXCEPT !.status = st], AfterFinish(j, st))

PruneOwn(s, j) ==
  /\ At(s, j, "prune")
  /\ wt' = [wt EXCEPT ![j] = "pruned"]
  /\ pc' = [pc EXCEPT ![j] = "end"]
  /\ UNCHANGED <<srv, file, owner, mem, launches, row, child, sweep, pruners>>

\* Cancel; its SIGKILL is one of the ways a child exits.
Cancel(s, j) ==
  /\ srv[s] = "up" /\ owner[j] = s /\ mem[j].status \in Active
  /\ WriteRecord(s, j, [mem[j] EXCEPT !.status = "aborted"],
             IF pc[j] = "queued" THEN AfterFinish(j, "aborted") ELSE pc[j])

ChildExit(j) ==   \* external
  /\ child[j] = "alive"
  /\ child' = [child EXCEPT ![j] = "gone"]
  /\ UNCHANGED <<srv, file, driver, row, wt, sweep, pruners>>

-----------------------------------------------------------------------------
(***************************************************************************)
(* Reconcile: read all rows, then visit them one by one.  Everything but   *)
(* the claim works on the rows as they were read.                          *)
(***************************************************************************)
ReconcileRead(s) ==
  /\ srv[s] = "up" /\ scan[s] = {} /\ claim[s] = None
  /\ Unfinished # {}
  /\ seen' = [seen EXCEPT ![s] = row]
  /\ scan' = [scan EXCEPT ![s] = Unfinished]
  /\ UNCHANGED <<srv, file, driver, row, child, wt, claim, pruners>>

Visit(s, j) ==
  /\ srv[s] = "up" /\ claim[s] = None /\ j \in scan[s]
  /\ scan' = [scan EXCEPT ![s] = @ \ {j}]

\* A live server owns the job, or the claim failed with an error.
ReconcileSkip(s, j) ==
  /\ Visit(s, j)
  /\ ServerAlive(seen[s][j].owner) \/ StoreFaults
  /\ UNCHANGED <<srv, file, driver, row, child, wt, seen, claim, pruners>>

\* Only the sweep whose claim changed the row goes on to the worktree.
ActsOn_Bug(j) == j \in WriteJobs
ActsOn(j) == Claims(j) /\ j \in WriteJobs

ReconcileClaim(s, j) ==
  /\ Visit(s, j)
  /\ ~ServerAlive(seen[s][j].owner)
  /\ row' = IF Claims(j)
            THEN [row EXCEPT ![j].status = "failed", ![j].owner = Pid[s]]
            ELSE row
  /\ claim' = [claim EXCEPT ![s] = IF ActsOn(j) THEN j ELSE None]
  /\ UNCHANGED <<srv, file, driver, child, wt, seen, pruners>>

\* The worktree of the job just claimed: left alone while the recorded child
\* lives, pruned otherwise.
ReconcileWorktree(s) ==
  /\ srv[s] = "up" /\ claim[s] # None
  /\ LET j == claim[s]
     IN IF ChildAlive(j, seen[s][j].pid)
        THEN UNCHANGED <<wt, pruners>>
        ELSE /\ wt' = [wt EXCEPT ![j] = "pruned"]
             /\ pruners' = [pruners EXCEPT ![j] = @ \cup {s}]
  /\ claim' = [claim EXCEPT ![s] = None]
  /\ UNCHANGED <<srv, file, driver, row, child, seen, scan>>

-----------------------------------------------------------------------------
Drive(s, j) ==
  \/ Submit(s, j) \/ SubmitRejected(s, j) \/ Promote(s, j)
  \/ Launch(s, j) \/ LaunchFails(s, j) \/ RecordPid(s, j)
  \/ Retry(s, j) \/ Finish(s, j) \/ PruneOwn(s, j)

Reconcile(s) ==
  \/ ReconcileRead(s) \/ ReconcileWorktree(s)
  \/ \E j \in Jobs : ReconcileSkip(s, j) \/ ReconcileClaim(s, j)

Next ==
  \/ \E s \in Servers : \/ Start(s) \/ Migrate(s) \/ Die(s) \/ Reconcile(s)
                        \/ \E j \in Jobs : \/ CreateWorktree(s, j) \/ Cancel(s, j)
                                           \/ Drive(s, j)
  \/ \E j \in Jobs : ChildExit(j)

Spec == Init /\ [][Next]_vars

(***************************************************************************)
(* Fairness: the reconcile loop of a live server ticks for ever and each   *)
(* sweep runs on; a pi process ends eventually.  Nothing makes a server    *)
(* start or die.                                                           *)
(***************************************************************************)
Fairness == /\ \A s \in Servers : WF_vars(Reconcile(s))
            /\ \A j \in Jobs : WF_vars(ChildExit(j))

FairSpec == Spec /\ Fairness
-----------------------------------------------------------------------------
(***************************************************************************)
(* Properties.                                                             *)
(***************************************************************************)
\* The type of every variable.
TypeOK ==
  /\ srv \in [Servers -> {"off", "read", "import", "rename", "up", "dead"}]
  /\ file \in {"none", "present", "corrupt", "moved", "quarantined"}
  /\ owner \in [Jobs -> Servers \cup {None}]
  /\ pc \in [Jobs -> PCs]
  /\ mem \in [Jobs -> Record]
  /\ row \in [Jobs -> Row]
  /\ launches \in [Jobs -> 0 .. (MaxRetries + 1)]
  /\ child \in [Jobs -> {"none", "alive", "gone"}]
  /\ wt \in [Jobs -> {"none", "present", "pruned"}]
  /\ seen \in [Servers -> [Jobs -> Row]]
  /\ scan \in [Servers -> SUBSET Jobs]
  /\ claim \in [Servers -> Jobs \cup {None}]
  /\ pruners \in [Jobs -> SUBSET Servers]

\* "hands off": while the owner lives, the row is what the owner wrote last, or,
\* when writes fail, something it wrote earlier; no other server's upsert or claim
\* touches it, however stale its sweep is.
LiveOwnerRows ==
  \A j \in Jobs : pc[j] \in Driving =>
    /\ row[j].owner = Pid[owner[j]] /\ row[j].pid <= mem[j].pid
    /\ row[j].status \in Terminal => row[j].status = mem[j].status

\* No sweep prunes the worktree of a job another, living server still drives, nor
\* that of a job recorded as completed, which is the delivery, although it may hold
\* a row that was read before the job ended.
WorktreesKept ==
  \A j \in WriteJobs :
    pc[j] \in Driving \ {"end"} \/ row[j].status = "completed" => wt[j] = "present"

\* The atomic claim: two sweeps never both prune the worktree of a job.
SinglePruner == \A j \in Jobs : Cardinality(pruners[j]) <= 1

\* A row that is terminal keeps its status, whoever owns it.
TerminalRowFinal ==
  [][\A j \in Jobs : row[j].status \in Terminal => row'[j].status = row[j].status]_vars

\* A job left behind by a dead server is recorded as ended eventually, as long
\* as some server lives to sweep.
DeadOwnerReaped ==
  \A j \in Jobs : (row[j].status \in Active /\ ~ServerAlive(row[j].owner))
                    ~> (row[j].status \in Terminal \/ \A s \in Servers : srv[s] # "up")

\* registry.json is out of the way only when its jobs are in the table, although
\* servers count, read, import and rename independently and may die in between; and
\* "migration must never destroy live work" (store.go:234): no sweep ever prunes the
\* worktree of an imported job, which may belong to a server of the older program.
LegacySafe ==
  \A j \in LegacyJobs :
    /\ file = "moved" => row[j].status = Imported(j)
    /\ j \in WriteJobs => wt[j] = "present"

\* What reconcile.go says of an orphaned pi child: its worktree is not pruned
\* while it may still write there.
NoPruneUnderOrphan ==
  \A j \in Jobs : pruners[j] # {} => child[j] # "alive"

\* What reconcile.go says happens next: once the orphan of a claimed job has
\* exited, a later reconcile prunes the worktree, as long as a server lives.
ClaimedByOther(j) == row[j].status = "failed" /\ row[j].owner # Pid[owner[j]]
LaterReconcilePrunes ==
  \A j \in WriteJobs :
    (owner[j] # None /\ ClaimedByOther(j) /\ child[j] = "gone")
      ~> (wt[j] = "pruned" \/ \A s \in Servers : srv[s] # "up")

=============================================================================
