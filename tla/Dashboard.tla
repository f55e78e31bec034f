------------------------------ MODULE Dashboard ------------------------------
(***************************************************************************)
(* pi-dashboard: the poller that rebuilds the state from the registry and  *)
(* the run files (poller.go, state.go), the hub that fans its snapshots    *)
(* out to the SSE clients (hub.go, server.go), and the detail request of   *)
(* one job (handleJob).  The registry row of one job and its run file are  *)
(* written by other processes: a pi-mcp server and pi.  RunCache is the    *)
(* loader that the poller and the request share.                           *)
(*                                                                         *)
(* A snapshot of the state is the job's summary, without the wall clock:   *)
(* what the poller hashes.                                                 *)
(***************************************************************************)
EXTENDS RunCache, Sequences, FiniteSets

CONSTANTS
  Clients,    \* SSE connections
  HubBuffer,  \* frames a client's channel holds
  Ends,       \* terminal statuses a job of this instance may end in
  WriteJob,   \* TRUE: the job is a write job, with a worktree
  MaxFaults   \* bound: registry reads and subscriptions that fail

Terminal == {"completed", "failed", "aborted"}

ASSUME DashboardAssumption ==
  /\ Readers = {"poller", "detail"}
  /\ HubBuffer \in Nat \ {0}
  /\ Ends \subseteq Terminal
  /\ WriteJob \in BOOLEAN /\ MaxFaults \in Nat

VARIABLES
  row,      \* the job's row: status, whether its run id is recorded, its run snapshot
  proc,     \* the job's pi: not launched, driven by its server, orphaned, or over
  stale,    \* versions below this one were stamped longer ago than StaleThreshold (0: StartedAt)
  wtActive, \* the job's worktree changed within StaleThreshold
  pl,       \* the poller: where Tick is, and its locals
  subs,     \* the directories the poller watches
  latest,   \* the last snapshot; its hash is lastHash
  primed,   \* there is one
  hub,      \* the hub's subscribers
  buf,      \* their channels
  cl,       \* the SSE handlers: where they are, and what the client shows
  closed,   \* channels that were closed
  dropped,  \* clients that lost a frame to a full channel
  dt,       \* the detail request
  faults    \* faults so far

rowVars    == <<row, proc, stale, wtActive>>
pollVars   == <<pl, subs, latest, primed>>
hubVars    == <<hub, buf, cl, closed, dropped>>
vars == <<cacheVars, rowVars, pollVars, hubVars, dt, faults>>

Statuses == {"none", "queued", "running"} \cup Terminal
Active   == {"queued", "running"}
Row      == [status : Statuses, runId : BOOLEAN, snap : 0..MaxVer]
NoRow    == [status |-> "none", runId |-> FALSE, snap |-> 0]

\* JobSummary, as far as snapshots differ: the status shown, BlindWindow, and the
\* version of the run that the phase, the agents and the tokens are taken from.  The
\* fields copied from the row are left out: they change with one of these.
Summary   == [status : Statuses \cup {"stalled"}, blind : BOOLEAN, ver : 0..MaxVer]
ZeroState == [status |-> "none", blind |-> FALSE, ver |-> 0]

\* What BuildState takes from the clock and the worktree: p.now() and WorktreeActive.
Moment == [stale : 0..(MaxVer + 1), wt : BOOLEAN]
Now    == [stale |-> stale, wt |-> wtActive]

PollPc   == {"idle", "build", "broadcast", "stopped"}
ClientPc == {"off", "paint", "loop", "closing", "gone"}
DetailPc == {"idle", "exists", "snapshot", "first", "second", "answered"}

\* handleJob's locals; two ghosts say whether the row had its run snapshot when the
\* request read it, and whether the run file was removed while it was answered.
Request  == [pc : DetailPc, rec : Row, body : 0..MaxVer, captured : BOOLEAN, raced : BOOLEAN]
NoDetail == [pc |-> "idle", rec |-> NoRow, body |-> 0, captured |-> FALSE, raced |-> FALSE]

ProcStates == {"none", "driven", "orphan", "over"}

TypeOK ==
  /\ CacheTypeOK
  /\ row \in Row /\ proc \in ProcStates
  /\ stale \in 0..(MaxVer + 1) /\ wtActive \in BOOLEAN
  /\ pl \in [pc : PollPc, rec : Row, at : Moment]
  /\ subs \subseteq {"registry", "runs"}
  /\ latest \in Summary /\ primed \in BOOLEAN
  /\ hub \subseteq Clients /\ closed \subseteq Clients /\ dropped \subseteq Clients
  /\ buf \in [Clients -> Seq(Summary)] /\ \A c \in Clients : Len(buf[c]) <= HubBuffer
  /\ cl \in [Clients -> [pc : ClientPc, shown : Summary]]
  /\ dt \in Request
  /\ faults \in 0..MaxFaults

Init ==
  /\ CacheInit
  /\ row = NoRow /\ proc = "none" /\ stale = 0 /\ wtActive = FALSE
  /\ pl = [pc |-> "idle", rec |-> NoRow, at |-> Now]
  /\ subs = {} /\ latest = ZeroState /\ primed = FALSE
  /\ hub = {} /\ closed = {} /\ dropped = {}
  /\ buf = [c \in Clients |-> <<>>]
  /\ cl = [c \in Clients |-> [pc |-> "off", shown |-> ZeroState]]
  /\ dt = NoDetail
  /\ faults = 0

(***************************************************************************)
(* The writers: a pi-mcp server (the row) and pi (the run file).           *)
(***************************************************************************)
Submit ==
  /\ row.status = "none"
  /\ \E s \in Active :
       /\ row' = [row EXCEPT !.status = s]
       /\ proc' = IF s = "running" THEN "driven" ELSE "none"
  /\ UNCHANGED <<cacheVars, stale, wtActive, pollVars, hubVars, dt, faults>>

Promote ==
  /\ row.status = "queued"
  /\ row' = [row EXCEPT !.status = "running"] /\ proc' = "driven"
  /\ UNCHANGED <<cacheVars, stale, wtActive, pollVars, hubVars, dt, faults>>

\* Cancel flushes the status before it kills pi: the run goes on under a row that is
\* already aborted.  A queued job has no process.
Cancel ==
  /\ row.status \in Active /\ "aborted" \in Ends
  /\ row' = [row EXCEPT !.status = "aborted"]
  /\ UNCHANGED <<cacheVars, proc, stale, wtActive, pollVars, hubVars, dt, faults>>

\* The run id is flushed whatever the row's status is.
Correlate ==
  /\ proc = "driven" /\ ~row.runId /\ Readable # 0
  /\ row' = [row EXCEPT !.runId = TRUE]
  /\ UNCHANGED <<cacheVars, proc, stale, wtActive, pollVars, hubVars, dt, faults>>

\* pi has exited: finish flushes the outcome, or keeps the aborted that Cancel set.
Finish ==
  /\ proc = "driven" /\ proc' = "over"
  /\ IF row.status \in Terminal
     THEN UNCHANGED row
     ELSE \E s \in Ends \ {"aborted"} : row' = [row EXCEPT !.status = s]
  /\ UNCHANGED <<cacheVars, stale, wtActive, pollVars, hubVars, dt, faults>>

\* After finish's flush, and outside the lock, the run file is captured into the row
\* (snapshotRunFile, SaveSnapshot).
Capture ==
  /\ proc = "over" /\ row.runId /\ row.snap = 0 /\ Readable # 0
  /\ row' = [row EXCEPT !.snap = Readable]
  /\ UNCHANGED <<cacheVars, proc, stale, wtActive, pollVars, hubVars, dt, faults>>

\* The server died and another one claims the row; nobody drives the job any more,
\* but its pi may live on.
Reap ==
  /\ row.status \in Active /\ "failed" \in Ends
  /\ row' = [row EXCEPT !.status = "failed"]
  /\ proc' = IF proc = "driven" THEN "orphan" ELSE proc
  /\ UNCHANGED <<cacheVars, stale, wtActive, pollVars, hubVars, dt, faults>>

PiWrite ==
  /\ proc \in {"driven", "orphan"}
  /\ BeginWrite \/ EndWrite
  /\ UNCHANGED <<rowVars, pollVars, hubVars, dt, faults>>

WorktreeWrite ==
  /\ WriteJob /\ proc \in {"driven", "orphan"} /\ ~wtActive
  /\ wtActive' = TRUE
  /\ UNCHANGED <<cacheVars, row, proc, stale, pollVars, hubVars, dt, faults>>

\* The worktree or the temporary directory of an ended job is removed.
Remove ==
  /\ row.status \in Terminal /\ proc # "driven"
  /\ RemoveFile
  /\ dt' = [dt EXCEPT !.raced = @ \/ dt.pc \notin {"idle", "answered"}]
  /\ UNCHANGED <<rowVars, pollVars, hubVars, faults>>

\* StaleThreshold passes without a sign of life.
Age ==
  /\ row.status # "none" /\ (stale <= written \/ wtActive)
  /\ stale' = written + 1 /\ wtActive' = FALSE
  /\ UNCHANGED <<cacheVars, row, proc, pollVars, hubVars, dt, faults>>

(***************************************************************************)
(* state.go                                                                *)
(***************************************************************************)
\* livestatus.Derive of the run's own status, which the last version ends.
Derive(v, at) ==
  IF v = MaxVer THEN "completed"
  ELSE IF ~at.wt /\ v < at.stale THEN "stalled"
  ELSE "running"

\* summarize, given the version readRun returned.
Summarize(rec, v, at) ==
  IF v # 0
  THEN [status |-> IF rec.status \in Terminal THEN rec.status ELSE Derive(v, at),
        blind |-> FALSE, ver |-> v]
  ELSE LET dead == rec.status = "running" /\ ~at.wt /\ at.stale > 0
       IN [status |-> IF dead THEN "failed" ELSE rec.status,
           blind |-> rec.status = "running" /\ ~dead, ver |-> 0]

(***************************************************************************)
(* poller.go: Run and Tick.                                                *)
(***************************************************************************)
\* refreshWatches: exactly what is wanted, less a subscription that failed.
Want(rec) == {"registry"} \cup IF rec.status \in Active THEN {"runs"} ELSE {}

RefreshWatches(want) ==
  \/ subs' = want /\ UNCHANGED faults
  \/ /\ faults < MaxFaults /\ faults' = faults + 1
     /\ subs' \in {s \in SUBSET want : subs \cap want \subseteq s /\ s # want}

\* The ticker or a wake: Tick reads the registry, reconciles the watches and
\* starts BuildState, which takes the time and loads the run.
TickStart ==
  /\ pl.pc = "idle"
  /\ pl' = [pc |-> "build", rec |-> row, at |-> Now]
  /\ RefreshWatches(Want(row))
  /\ CallRead("poller", row.runId)
  /\ UNCHANGED <<diskVars, entry, rowVars, latest, primed, hubVars, dt>>

\* The registry cannot be read: the last good state is kept.
TickFails ==
  /\ pl.pc = "idle" /\ faults < MaxFaults
  /\ faults' = faults + 1
  /\ UNCHANGED <<cacheVars, rowVars, pollVars, hubVars, dt>>

PollRead == pl.pc = "build" /\ ReadStep("poller")
  /\ UNCHANGED <<rowVars, pollVars, hubVars, dt, faults>>

TickPublish_Bug ==
  /\ pl.pc = "build" /\ rd["poller"].pc = "done"
  /\ latest' = Summarize(pl.rec, rd["poller"].ver, pl.at)
  /\ pl' = [pl EXCEPT !.pc = IF ~primed THEN "broadcast" ELSE "idle",
                      !.at = [stale |-> 0, wt |-> FALSE]]
  /\ primed' = TRUE
  /\ rd' = [rd EXCEPT !["poller"] = Idle]
  /\ UNCHANGED <<diskVars, entry, rowVars, subs, hubVars, dt, faults>>

\* The snapshot is published under the lock; it is broadcast only if it changed.
TickPublish ==
  /\ pl.pc = "build" /\ rd["poller"].pc = "done"
  /\ LET view == Summarize(pl.rec, rd["poller"].ver, pl.at)
         changed == ~primed \/ view # latest
     IN /\ latest' = view
        /\ pl' = [pl EXCEPT !.pc = IF changed THEN "broadcast" ELSE "idle",
                            !.at = [stale |-> 0, wt |-> FALSE]]
  /\ primed' = TRUE
  /\ rd' = [rd EXCEPT !["poller"] = Idle]
  /\ UNCHANGED <<diskVars, entry, rowVars, subs, hubVars, dt, faults>>

TickBroadcast_Bug ==
  /\ pl.pc = "broadcast"
  /\ buf' = [c \in Clients |-> IF c \in hub /\ Len(buf[c]) <= HubBuffer
                               THEN Append(buf[c], latest) ELSE buf[c]]
  /\ dropped' = dropped \cup {c \in hub : Len(buf[c]) > HubBuffer}
  /\ pl' = [pl EXCEPT !.pc = "idle"]
  /\ UNCHANGED <<cacheVars, rowVars, subs, latest, primed, hub, cl, closed, dt, faults>>

\* Broadcast: never blocks; a full channel loses the frame.
TickBroadcast ==
  /\ pl.pc = "broadcast"
  /\ buf' = [c \in Clients |-> IF c \in hub /\ Len(buf[c]) < HubBuffer
                               THEN Append(buf[c], latest) ELSE buf[c]]
  /\ dropped' = dropped \cup {c \in hub : Len(buf[c]) >= HubBuffer}
  /\ pl' = [pl EXCEPT !.pc = "idle"]
  /\ UNCHANGED <<cacheVars, rowVars, subs, latest, primed, hub, cl, closed, dt, faults>>

\* ctx is done: every watch is canceled.
PollStop ==
  /\ pl.pc = "idle"
  /\ pl' = [pl EXCEPT !.pc = "stopped"] /\ subs' = {}
  /\ UNCHANGED <<cacheVars, rowVars, latest, primed, hubVars, dt, faults>>

(***************************************************************************)
(* server.go: handleEvents.                                                *)
(***************************************************************************)
\* The handler subscribes before it reads the snapshot it sends first.
ClientSubscribe(c) ==
  /\ cl[c].pc = "off"
  /\ hub' = hub \cup {c}
  /\ cl' = [cl EXCEPT ![c].pc = "paint"]
  /\ UNCHANGED <<cacheVars, rowVars, pollVars, buf, closed, dropped, dt, faults>>

ClientPaint(c) ==
  /\ cl[c].pc = "paint"
  /\ cl' = [cl EXCEPT ![c] = [pc |-> "loop", shown |-> latest]]
  /\ UNCHANGED <<cacheVars, rowVars, pollVars, hub, buf, closed, dropped, dt, faults>>

ClientRecv(c) ==
  /\ cl[c].pc = "loop" /\ buf[c] # <<>>
  /\ cl' = [cl EXCEPT ![c].shown = Head(buf[c])]
  /\ buf' = [buf EXCEPT ![c] = Tail(@)]
  /\ UNCHANGED <<cacheVars, rowVars, pollVars, hub, closed, dropped, dt, faults>>

\* The request's context is done: the deferred cancel removes the subscription
\* under the lock, and then closes the channel.
ClientLeave(c) ==
  /\ cl[c].pc = "loop"
  /\ hub' = hub \ {c}
  /\ cl' = [cl EXCEPT ![c].pc = "closing"]
  /\ UNCHANGED <<cacheVars, rowVars, pollVars, buf, closed, dropped, dt, faults>>

ClientClose(c) ==
  /\ cl[c].pc = "closing"
  /\ closed' = closed \cup {c}
  /\ cl' = [cl EXCEPT ![c].pc = "gone"]
  /\ UNCHANGED <<cacheVars, rowVars, pollVars, hub, buf, dropped, dt, faults>>

(***************************************************************************)
(* server.go: handleJob.  The summary and the body each load the run.      *)
(***************************************************************************)
DetailStart ==
  /\ dt.pc = "idle" /\ row.status # "none"
  /\ dt' = [pc |-> "exists", rec |-> [row EXCEPT !.snap = 0], body |-> 0,
             captured |-> row.snap # 0, raced |-> FALSE]
  /\ UNCHANGED <<cacheVars, rowVars, pollVars, hubVars, faults>>

DetailExists_Bug ==
  /\ dt.pc = "exists"
  /\ dt' = [dt EXCEPT !.pc = "first"]
  /\ CallRead("detail", dt.rec.runId)
  /\ UNCHANGED <<diskVars, entry, rowVars, pollVars, hubVars, faults>>

OnDisk == state # "absent" \/ bak # 0

\* runFileExists: the snapshot is read only when the file and its .bak are gone.
DetailExists ==
  /\ dt.pc = "exists"
  /\ IF dt.rec.runId /\ OnDisk
     THEN /\ dt' = [dt EXCEPT !.pc = "first"]
          /\ CallRead("detail", dt.rec.runId)
     ELSE dt' = [dt EXCEPT !.pc = "snapshot"] /\ UNCHANGED rd
  /\ UNCHANGED <<diskVars, entry, rowVars, pollVars, hubVars, faults>>

DetailSnapshot ==
  /\ dt.pc = "snapshot"
  /\ dt' = [dt EXCEPT !.pc = "first", !.rec.snap = row.snap]
  /\ CallRead("detail", dt.rec.runId)
  /\ UNCHANGED <<diskVars, entry, rowVars, pollVars, hubVars, faults>>

DetailRead == dt.pc \in {"first", "second"} /\ ReadStep("detail")
  /\ UNCHANGED <<rowVars, pollVars, hubVars, dt, faults>>

\* What a read returned, or the run decoded from the snapshot.
Loaded == IF rd["detail"].ver # 0 THEN rd["detail"].ver ELSE dt.rec.snap

\* summarize has its run (Summarize(dt.rec, Loaded, Now) heads the answer);
\* BuildDetail loads the run again for the agents and the result.
DetailSummary ==
  /\ dt.pc = "first" /\ rd["detail"].pc = "done"
  /\ dt' = [dt EXCEPT !.pc = "second"]
  /\ CallRead("detail", dt.rec.runId)
  /\ UNCHANGED <<diskVars, entry, rowVars, pollVars, hubVars, faults>>

DetailAnswer ==
  /\ dt.pc = "second" /\ rd["detail"].pc = "done"
  /\ dt' = [dt EXCEPT !.pc = "answered", !.body = Loaded]
  /\ rd' = [rd EXCEPT !["detail"] = Idle]
  /\ UNCHANGED <<diskVars, entry, rowVars, pollVars, hubVars, faults>>

-----------------------------------------------------------------------------
Writers ==
  \/ Submit \/ Promote \/ Cancel \/ Correlate \/ Finish \/ Capture \/ Reap
  \/ PiWrite \/ WorktreeWrite \/ Remove \/ Age
Tick    == TickStart \/ PollRead \/ TickPublish \/ TickBroadcast
Client(c) ==
  ClientSubscribe(c) \/ ClientPaint(c) \/ ClientRecv(c) \/ ClientLeave(c) \/ ClientClose(c)
Detail  ==
  \/ DetailStart \/ DetailExists \/ DetailSnapshot \/ DetailRead
  \/ DetailSummary \/ DetailAnswer

Next ==
  \/ Writers
  \/ Tick \/ TickFails \/ PollStop
  \/ \E c \in Clients : Client(c)
  \/ Detail

Spec == Init /\ [][Next]_vars

\* The ticker fires every interval and Tick runs to its end; a connected client
\* is written its first snapshot and what its channel holds.  Nothing is assumed
\* of the writers, and no client has to connect.
Fairness ==
  /\ WF_vars(Tick)
  /\ \A c \in Clients : WF_vars(ClientPaint(c)) /\ WF_vars(ClientRecv(c))
FairSpec == Spec /\ Fairness

(***************************************************************************)
(* Properties                                                              *)
(***************************************************************************)

\* The snapshot a client will show once it has read its channel.
Ahead(c) == IF buf[c] = <<>> THEN cl[c].shown ELSE buf[c][Len(buf[c])]

\* No snapshot is missed between the first one and the stream: whenever no
\* broadcast is under way, a client that lost no frame shows the latest snapshot
\* or will when its channel is empty, however Subscribe, the first snapshot and
\* the ticks interleave.
NoMissedSnapshot ==
  \A c \in Clients :
    cl[c].pc = "loop" /\ c \notin dropped /\ pl.pc # "broadcast" => Ahead(c) = latest

\* The inductive strengthening of NoMissedSnapshot and NoSendOnClosed: who is in the
\* hub, and that a handler which has subscribed and not yet sent its first snapshot
\* holds nothing older than the latest one.
Streams ==
  /\ \A c \in Clients :
       /\ c \in hub <=> cl[c].pc \in {"paint", "loop"}
       /\ cl[c].pc = "off" => buf[c] = <<>>
       /\ c \notin dropped /\ pl.pc # "broadcast" =>
            /\ cl[c].pc = "loop" => Ahead(c) = latest
            /\ cl[c].pc = "paint" => buf[c] = <<>> \/ Ahead(c) = latest
  /\ \A c \in closed : cl[c].pc = "gone"

\* Broadcast never sends on a closed channel: cancel takes the subscriber out of
\* the hub before it closes its channel.
NoSendOnClosed == closed \cap hub = {}

\* A request that finds the run snapshot in the row has a body, although the run file
\* may be gone, unless the file was removed while the request was answered.
EndedJobHasDetail == dt.pc = "answered" /\ dt.captured /\ ~dt.raced => dt.body # 0

\* The inductive strengthening of EndedJobHasDetail: a captured job is over and its
\* file, if it is still there, can be read; and a request that is past its look at
\* the disk has the snapshot or is reading such a file.
DetailServed ==
  /\ row.snap # 0 => proc = "over" /\ row.status \in Terminal /\ row.runId
  /\ row.snap # 0 /\ OnDisk => Readable # 0
  /\ proc = "over" => row.status \in Terminal
  /\ row.status \in {"none", "queued"} => proc = "none"
  /\ dt.captured => row.snap # 0 /\ dt.rec.runId
  /\ dt.captured /\ ~dt.raced =>
       /\ dt.pc = "snapshot" => ~OnDisk
       /\ dt.pc \in {"first", "second"} =>
            \/ dt.rec.snap # 0
            \/ /\ Readable # 0
               /\ rd["detail"].pc \in {"parseBak", "recoverBak"} => bak # 0
               /\ rd["detail"].pc = "done" => rd["detail"].ver # 0
       /\ dt.pc = "answered" => dt.body # 0

\* A request that finds the job ended has a body if a snapshot is ever taken.  It need
\* not: between Cancel's flush and the kill it may read a row without its run id, or
\* find a torn file and not look for a snapshot (server.go:90-97).
AbortedJobHasDetail ==
  dt.pc = "answered" /\ dt.rec.status \in Terminal /\ row.snap # 0 /\ ~dt.raced
    => dt.body # 0

\* What the dashboard should show of the present rows and files.
Truth == Summarize(row, IF row.runId THEN Readable ELSE 0, Now)

\* "A dropped/missed event costs one fallback interval of latency, never a wrong
\* answer": once the writers rest, the poller's snapshot becomes what the registry
\* and the run file say, whatever the cache held and whichever reads failed.
PollerConverges == []<>(pl.pc = "stopped" \/ latest = Truth)

\* "It will catch up on the next snapshot" (hub.go:6): so does one that lost a frame.
SlowClientCatchesUp ==
  \A c \in Clients :
    []<>(cl[c].pc # "loop" \/ pl.pc = "stopped" \/ cl[c].shown = Truth)

=============================================================================
