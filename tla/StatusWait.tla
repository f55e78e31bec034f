----------------------------- MODULE StatusWait -----------------------------
(***************************************************************************)
(* pi_status for one job of one server (internal/mcpserver/                *)
(* handler_status.go, delta.go; internal/livestatus): concurrent calls     *)
(* resolve their target once, optionally wait for a change, and answer     *)
(* with the journal entries not yet delivered, while pi rewrites the run   *)
(* file, the registry records the run id and the end of the job, and time  *)
(* passes.                                                                 *)
(*                                                                         *)
(* File events and the ticker only decide when a wait looks again; here it *)
(* may look at any time.  Times are whole units starting at 1.  A job that *)
(* is still queued is answered like a running one and is not told apart.   *)
(***************************************************************************)
EXTENDS Integers, FiniteSets

CONSTANTS
  Calls,         \* slots for concurrent pi_status calls
  WriteMode,     \* the job has a worktree, in which its run files live too
  Warn,          \* config.EarlyInactivityWarn
  Stale,         \* config.StaleThreshold
  WaitCap,       \* config.WaitCap
  GraceRetries,  \* graceRetries
  Abandons,      \* whether clients give up on calls
  MaxJournal,    \* bound: agents, and journal entries, of the run
  MaxPhase,      \* bound: phase changes of the run
  MaxNow         \* bound: the clock

ASSUME ModeAssumption  == WriteMode \in BOOLEAN /\ Abandons \in BOOLEAN
ASSUME TimeAssumption  == /\ Warn \in Nat /\ Stale \in Nat /\ Warn <= Stale
                          /\ WaitCap \in Nat /\ GraceRetries \in Nat
ASSUME BoundAssumption == MaxJournal \in Nat /\ MaxPhase \in Nat /\ MaxNow \in Nat \ {0}

VARIABLES
  now,      \* the clock
  job,      \* the registry's record: its status, and whether RunID is set
  alive,    \* the pi process is running
  file,     \* the run file as last written, NoRun when there is none
  bak,      \* its .bak sibling, the version before that
  torn,     \* the run file is being rewritten and does not parse
  wtLast,   \* the newest modification in the worktree
  pc,       \* where each call is
  tgt,      \* what resolveTarget returned to it
  replay,   \* from_start
  wait,     \* waitForChange: deadline, base, sawBlind, baseStalled
  at,       \* the time a round or buildStatus works with
  la,       \* lastActivity, when it is old enough for a warning
  seen,     \* the run buildStatus loaded
  tries,    \* loads repeated by loadWithGrace
  gone,     \* the client has given up on the call
  mark,     \* deltaTracker.delivered
  warned,   \* deltaTracker.warned, 0 for no entry
  got,      \* the journal positions a client has received
  warns     \* how often each activity epoch was warned about under a key

runVars   == <<job, alive, file, bak, torn, wtLast>>
callVars  == <<tgt, replay>>
deltaVars == <<mark, warned, got, warns>>
localVars == <<at, la, seen>>
vars == <<now, runVars, pc, callVars, wait, localVars, tries, gone, deltaVars>>

-----------------------------------------------------------------------------
Terminal == {"completed", "failed", "aborted"}       \* livestatus.IsTerminal
Disk     == {"running"} \cup Terminal   \* mapDiskStatus: paused is running too
Keys     == {"job", "run"}                           \* the two forms of deltaKey
Times    == 0 .. MaxNow

Run   == [journal: 0 .. MaxJournal, agents: 0 .. MaxJournal, phase: 0 .. MaxPhase,
          disk: Disk \cup {"none"}, updated: Times]
NoRun == [journal |-> 0, agents |-> 0, phase |-> 0, disk |-> "none", updated |-> 0]
Target == [known: BOOLEAN, owned: BOOLEAN, status: {"none", "running"} \cup Terminal]
Snapshot == [journal: 0 .. MaxJournal, agents: 0 .. MaxJournal, phase: 0 .. MaxPhase]
NoBase == [journal |-> 0, agents |-> 0, phase |-> 0]
NoWait == [deadline |-> 0, base |-> NoBase, have |-> FALSE, blind |-> FALSE,
           stalled |-> FALSE]
NoTarget == [known |-> FALSE, owned |-> FALSE, status |-> "none"]

-----------------------------------------------------------------------------
\* resolveTarget, by jobId or by runId and cwd.  A jobId names no run before
\* correlate recorded its id.  A runId belongs to a job from then on; until then
\* nobody owns it and it is looked for under the directory the caller passes:
\* the cwd of a read job, the worktree of a write job.
Resolved(k) ==
  IF k = "job"
  THEN [known |-> job.run, owned |-> TRUE, status |-> job.status]
  ELSE [known |-> TRUE, owned |-> job.run,
        status |-> IF job.run THEN job.status ELSE "none"]

Key(t) == IF t.owned THEN "job" ELSE "run"

\* ReadRun: a run file that does not parse is replaced by its .bak, and is an
\* error without one.
ReadRun ==
  IF ~torn THEN [kind |-> "run", run |-> file]
  ELSE IF bak # NoRun THEN [kind |-> "run", run |-> bak]
  ELSE [kind |-> "error", run |-> NoRun]

\* Load: a missing file is ErrRunNotFound.
Load(t) ==
  IF t.known /\ file # NoRun THEN ReadRun ELSE [kind |-> "absent", run |-> NoRun]

\* pidIsAlive: production wires a function that always answers true.
PidAlive == TRUE

\* livestatus.Derive
Derive(r, time, worktreeActive) ==
  IF r.disk \in Terminal THEN r.disk
  ELSE IF ~PidAlive THEN "failed"
  ELSE IF ~worktreeActive /\ time - r.updated > Stale THEN "stalled"
  ELSE "running"

\* WorktreeActivity: the worktree of an aborted job is pruned at its end.
WorktreeOK(t) == WriteMode /\ t.owned /\ (alive \/ job.status # "aborted")
WorktreeActive(t, time) == WorktreeOK(t) /\ time - wtLast <= Stale
LastActivity(t, r) == IF WorktreeOK(t) /\ wtLast > r.updated THEN wtLast ELSE r.updated

\* snapshotOf; a terminal run never becomes a base.
SnapshotOf(r) == [journal |-> r.journal, agents |-> r.agents, phase |-> r.phase]

WakeChanged(prev, cur) ==
  \/ cur.disk \in Terminal
  \/ cur.journal > prev.journal
  \/ cur.agents > prev.agents
  \/ cur.phase # prev.phase

\* deltaTracker.take: where to deliver from, and the new mark.
TakeFrom_Bug(m, r, fromStart) == IF fromStart \/ m > r.journal THEN 0 ELSE m + 1
TakeFrom(m, r, fromStart) == IF fromStart \/ m > r.journal THEN 0 ELSE m

TakeTo(r) == r.journal

\* deltaTracker.shouldWarn
ShouldWarn_Bug(k, epoch) == epoch # warned[k]
ShouldWarn(k, epoch) == epoch > warned[k]

\* EventsSince: the journal positions of an answer.
EventsSince(r, from) == (from + 1) .. r.journal

Expired_Bug(c, time) == FALSE
Expired(c, time) == time >= wait[c].deadline

-----------------------------------------------------------------------------
Init ==
  /\ now = 1
  /\ job = [status |-> "running", run |-> FALSE] /\ alive = TRUE
  /\ file = NoRun /\ bak = NoRun /\ torn = FALSE /\ wtLast = 1
  /\ pc = [c \in Calls |-> "idle"]
  /\ tgt = [c \in Calls |-> NoTarget]
  /\ replay = [c \in Calls |-> FALSE]
  /\ wait = [c \in Calls |-> NoWait]
  /\ at = [c \in Calls |-> 0] /\ la = [c \in Calls |-> 0]
  /\ seen = [c \in Calls |-> NoRun]
  /\ tries = [c \in Calls |-> 0]
  /\ gone = [c \in Calls |-> FALSE]
  /\ mark = [k \in Keys |-> 0] /\ warned = [k \in Keys |-> 0]
  /\ got = [k \in Keys |-> {}]
  /\ warns = [k \in Keys |-> [t \in Times |-> 0]]

-----------------------------------------------------------------------------
(***************************************************************************)
(* The clock and the pi process (external), and what the registry does to  *)
(* the job, as far as pi_status can tell.                                  *)
(***************************************************************************)
callState == <<pc, callVars, wait, localVars, tries, gone, deltaVars>>

Tick ==
  /\ now < MaxNow
  /\ now' = now + 1
  /\ UNCHANGED <<runVars, callState>>

\* The next contents of the run file: an agent starts, one ends with a journal
\* entry, the phase changes, or the run is over.  A run that fails is treated
\* like one that completes.
Written ==
  IF file = NoRun THEN {[NoRun EXCEPT !.disk = "running", !.updated = now]}
  ELSE LET f == [file EXCEPT !.updated = now]
       IN {r \in {[f EXCEPT !.agents = @ + 1], [f EXCEPT !.journal = @ + 1],
                  [f EXCEPT !.phase = @ + 1], [f EXCEPT !.disk = "completed"]} :
             r.journal <= r.agents /\ r.agents <= MaxJournal /\ r.phase <= MaxPhase}

\* A rewrite begins; the version it replaces is the .bak.
PiWrite ==
  /\ alive /\ ~torn /\ file.disk \notin Terminal
  /\ file' \in Written
  /\ bak' = file
  /\ torn' = TRUE
  /\ UNCHANGED <<now, job, alive, wtLast, callState>>

PiWritten ==
  /\ alive /\ torn
  /\ torn' = FALSE
  /\ UNCHANGED <<now, job, alive, file, bak, wtLast, callState>>

WorktreeWrite ==
  /\ WriteMode /\ alive /\ wtLast < now
  /\ wtLast' = now
  /\ UNCHANGED <<now, job, alive, file, bak, torn, callState>>

\* correlate finds the run file of the session and records the run id.
Correlate ==
  /\ alive /\ ~job.run
  /\ file # NoRun /\ ReadRun.kind = "run"
  /\ job' = [job EXCEPT !.run = TRUE]
  /\ UNCHANGED <<now, alive, file, bak, torn, wtLast, callState>>

\* Registry.Cancel marks the job first; its process dies later.
Cancel ==
  /\ job.status = "running"
  /\ job' = [job EXCEPT !.status = "aborted"]
  /\ UNCHANGED <<now, alive, file, bak, torn, wtLast, callState>>

\* The process ends, cleanly only after its last write, and finish records it,
\* unless the job is aborted already.  An aborted write job loses its worktree,
\* with the run files in it.
ProcessEnds ==
  /\ alive
  /\ alive' = FALSE
  /\ \E s \in {"completed", "failed"} :
       /\ s = "completed" => ~torn /\ file.disk # "running"
       /\ job' = IF job.status \in Terminal THEN job ELSE [job EXCEPT !.status = s]
  /\ IF job.status = "aborted" /\ WriteMode
     THEN file' = NoRun /\ bak' = NoRun /\ torn' = FALSE
     ELSE UNCHANGED <<file, bak, torn>>
  /\ UNCHANGED <<now, wtLast, callState>>

-----------------------------------------------------------------------------
(***************************************************************************)
(* handleStatus: resolve the target once; wait unless the caller asked for *)
(* a replay; build the answer.                                             *)
(***************************************************************************)
Call(c, k, waits, fromStart) ==
  /\ pc[c] = "idle"
  /\ tgt' = [tgt EXCEPT ![c] = Resolved(k)]
  /\ replay' = [replay EXCEPT ![c] = fromStart]
  /\ IF waits /\ ~fromStart
     THEN /\ now + WaitCap <= MaxNow
          /\ pc' = [pc EXCEPT ![c] = "wait"]
          /\ wait' = [wait EXCEPT ![c] = [NoWait EXCEPT !.deadline = now + WaitCap]]
     ELSE pc' = [pc EXCEPT ![c] = "build"] /\ wait' = wait
  /\ UNCHANGED <<now, runVars, localVars, tries, gone, deltaVars>>

\* The client cancels the request: its context is done and nobody will read
\* the answer.
Abandon(c) ==
  /\ Abandons /\ pc[c] # "idle" /\ ~gone[c]
  /\ gone' = [gone EXCEPT ![c] = TRUE]
  /\ UNCHANGED <<now, runVars, pc, callVars, wait, localVars, tries, deltaVars>>

\* waitForChange returns; its locals are gone.
Return(c) ==
  /\ pc' = [pc EXCEPT ![c] = "build"]
  /\ wait' = [wait EXCEPT ![c] = NoWait]

\* The end of a round begun at that time, with these locals: give up at the
\* deadline, or sleep until woken.
RoundEnds(c, time, locals) ==
  IF Expired(c, time) THEN Return(c)
  ELSE /\ pc' = [pc EXCEPT ![c] = "wait"]
       /\ wait' = [wait EXCEPT ![c] = locals]

\* The rest of a round with a loaded run: after a long inactivity the delta
\* tracker is asked, in a step of its own, whether to warn.
RoundGoesOn(c, r, locals) ==
  LET epoch == LastActivity(tgt[c], r)
  IN IF now - epoch > Warn
     THEN /\ pc' = [pc EXCEPT ![c] = "warn"]
          /\ wait' = [wait EXCEPT ![c] = locals]
          /\ la' = [la EXCEPT ![c] = epoch] /\ at' = [at EXCEPT ![c] = now]
     ELSE RoundEnds(c, now, locals) /\ UNCHANGED <<la, at>>

Round(c) ==
  /\ pc[c] = "wait"
  /\ UNCHANGED <<now, runVars, callVars, seen, tries, gone, deltaVars>>

StalledNow(c, r) == Derive(r, now, WorktreeActive(tgt[c], now)) = "stalled"

\* No run file, or one that cannot be read: the wait is in the blind window.
RoundBlind(c) ==
  /\ Round(c) /\ Load(tgt[c]).kind # "run"
  /\ RoundEnds(c, now, [wait[c] EXCEPT !.blind = TRUE])
  /\ UNCHANGED <<la, at>>

\* The first run read: the end of the blind window, or the base to compare to.
RoundFirst(c) ==
  /\ Round(c) /\ Load(tgt[c]).kind = "run" /\ ~wait[c].have
  /\ LET r == Load(tgt[c]).run
     IN IF wait[c].blind \/ r.disk \in Terminal
        THEN Return(c) /\ UNCHANGED <<la, at>>
        ELSE RoundGoesOn(c, r, [wait[c] EXCEPT !.base = SnapshotOf(r), !.have = TRUE,
                                               !.stalled = StalledNow(c, r)])

RoundAgain(c) ==
  /\ Round(c) /\ Load(tgt[c]).kind = "run" /\ wait[c].have
  /\ LET r == Load(tgt[c]).run
     IN IF \/ WakeChanged(wait[c].base, r)
           \/ StalledNow(c, r) /\ ~wait[c].stalled
        THEN Return(c) /\ UNCHANGED <<la, at>>
        ELSE RoundGoesOn(c, r, wait[c])

\* shouldWarn, once per delta key and activity epoch.
WarnCheck(c) ==
  /\ pc[c] = "warn"
  /\ LET k == Key(tgt[c])
     IN IF ShouldWarn(k, la[c])
        THEN /\ warned' = [warned EXCEPT ![k] = la[c]]
             /\ warns' = [warns EXCEPT ![k][la[c]] = @ + 1]
             /\ Return(c)
        ELSE RoundEnds(c, at[c], wait[c]) /\ UNCHANGED <<warned, warns>>
  /\ la' = [la EXCEPT ![c] = 0] /\ at' = [at EXCEPT ![c] = 0]
  /\ UNCHANGED <<now, runVars, callVars, seen, tries, gone, mark, got>>

\* <-ctx.Done()
WaitGone(c) ==
  /\ pc[c] = "wait" /\ gone[c]
  /\ Return(c)
  /\ UNCHANGED <<now, runVars, callVars, localVars, tries, gone, deltaVars>>

-----------------------------------------------------------------------------
(***************************************************************************)
(* buildStatus.                                                            *)
(***************************************************************************)
\* The call is over; its locals are gone.
Done(c) ==
  /\ pc' = [pc EXCEPT ![c] = "idle"]
  /\ tgt' = [tgt EXCEPT ![c] = NoTarget] /\ replay' = [replay EXCEPT ![c] = FALSE]
  /\ seen' = [seen EXCEPT ![c] = NoRun] /\ at' = [at EXCEPT ![c] = 0]
  /\ tries' = [tries EXCEPT ![c] = 0] /\ gone' = [gone EXCEPT ![c] = FALSE]
  /\ UNCHANGED <<now, runVars, wait, la>>

\* No run file: a terminal job's status, else the blind window; a run nobody
\* owns is pending.
AnswerAbsent(t) ==
  IF ~t.owned THEN "queued" ELSE IF t.status \in Terminal THEN t.status ELSE "blind"

BuildAbsent(c) ==
  /\ pc[c] = "build" /\ Load(tgt[c]).kind = "absent"
  /\ Done(c)
  /\ UNCHANGED deltaVars

\* loadWithGrace: a run file that does not parse is read again for a while,
\* unless the job is over.
MayRetryLoad_Bug(c) == tgt[c].status \notin Terminal
MayRetryLoad(c) == tries[c] < GraceRetries /\ tgt[c].status \notin Terminal

\* buildStatus reads the clock once, before the first load.
BuildTime(c) == IF tries[c] = 0 THEN now ELSE at[c]

BuildRetry(c) ==
  /\ pc[c] = "build" /\ Load(tgt[c]).kind = "error" /\ MayRetryLoad(c)
  /\ tries' = [tries EXCEPT ![c] = @ + 1]
  /\ at' = [at EXCEPT ![c] = BuildTime(c)]
  /\ UNCHANGED <<now, runVars, pc, callVars, wait, la, seen, gone, deltaVars>>

BuildError(c) ==
  /\ pc[c] = "build" /\ Load(tgt[c]).kind = "error" /\ ~MayRetryLoad(c)
  /\ Done(c)
  /\ UNCHANGED deltaVars

BuildLoad(c) ==
  /\ pc[c] = "build" /\ Load(tgt[c]).kind = "run"
  /\ seen' = [seen EXCEPT ![c] = Load(tgt[c]).run]
  /\ at' = [at EXCEPT ![c] = BuildTime(c)]
  /\ pc' = [pc EXCEPT ![c] = "take"]
  /\ UNCHANGED <<now, runVars, callVars, wait, la, tries, gone, deltaVars>>

\* take and EventsSince: the entries since the mark, to whoever still listens.
BuildTake(c) ==
  /\ pc[c] = "take"
  /\ LET k    == Key(tgt[c])
         from == TakeFrom(mark[k], seen[c], replay[c])
     IN /\ mark' = [mark EXCEPT ![k] = TakeTo(seen[c])]
        /\ got' = IF gone[c] THEN got
                  ELSE [got EXCEPT ![k] = @ \cup EventsSince(seen[c], from)]
  /\ Done(c)
  /\ UNCHANGED <<warned, warns>>

\* The status of the answer that ends the call in this state.
Answer(c) ==
  IF pc[c] = "take" THEN Derive(seen[c], at[c], WorktreeActive(tgt[c], at[c]))
  ELSE IF Load(tgt[c]).kind = "absent" THEN AnswerAbsent(tgt[c])
  ELSE "failed"

-----------------------------------------------------------------------------
Handle(c) ==
  \/ RoundBlind(c) \/ RoundFirst(c) \/ RoundAgain(c) \/ WarnCheck(c) \/ WaitGone(c)
  \/ BuildAbsent(c) \/ BuildRetry(c) \/ BuildError(c) \/ BuildLoad(c) \/ BuildTake(c)

Environment ==
  Tick \/ PiWrite \/ PiWritten \/ WorktreeWrite \/ Correlate \/ Cancel \/ ProcessEnds

Next ==
  \/ Environment
  \/ \E c \in Calls : \/ \E k \in Keys, w, f \in BOOLEAN : Call(c, k, w, f)
                      \/ Abandon(c) \/ Handle(c)

Spec == Init /\ [][Next]_vars

(***************************************************************************)
(* Fairness: time passes, and a call that runs goes on (its ticker wakes   *)
(* it).  Nothing makes clients call or pi write.                           *)
(***************************************************************************)
FairSpec == Spec /\ WF_vars(Tick) /\ \A c \in Calls : WF_vars(Handle(c))
-----------------------------------------------------------------------------
(***************************************************************************)
(* Properties.                                                             *)
(***************************************************************************)
\* The type of every variable.
TypeOK ==
  /\ now \in 1 .. MaxNow
  /\ job \in [status: {"running"} \cup Terminal, run: BOOLEAN]
  /\ alive \in BOOLEAN
  /\ file \in Run /\ bak \in Run /\ torn \in BOOLEAN /\ wtLast \in Times
  /\ pc \in [Calls -> {"idle", "wait", "warn", "build", "take"}]
  /\ tgt \in [Calls -> Target]
  /\ replay \in [Calls -> BOOLEAN]
  /\ wait \in [Calls -> [deadline: Times, base: Snapshot, have: BOOLEAN,
                         blind: BOOLEAN, stalled: BOOLEAN]]
  /\ at \in [Calls -> Times] /\ la \in [Calls -> Times]
  /\ seen \in [Calls -> Run]
  /\ tries \in [Calls -> 0 .. GraceRetries]
  /\ gone \in [Calls -> BOOLEAN]
  /\ mark \in [Keys -> 0 .. MaxJournal]
  /\ warned \in [Keys -> Times]
  /\ got \in [Keys -> SUBSET (1 .. MaxJournal)]
  /\ warns \in [Keys -> [Times -> Nat]]

\* The delta tracker counts "how many journal positions have already been
\* delivered to a pi_status caller": whatever lies below the mark was received,
\* through concurrent calls, replays and stale reads of a .bak.
MarkMeansDelivered == \A k \in Keys : (1 .. mark[k]) \subseteq got[k]

\* Under one delta key no activity epoch is warned about twice, by whichever
\* waits see it and in whatever order they ask: a wait that comes late with an
\* older epoch does not arm the warning again (shouldWarn).
WarnOncePerKey == \A k \in Keys, t \in Times : warns[k][t] <= 1

\* What the comment on shouldWarn says: "each quiet stretch warns exactly once".
\* The code keeps it per key only: a runId wait that resolved its target before
\* correlate warns under the run's key, a jobId wait under the job's.
WarnOncePerStretch == \A t \in Times : warns["job"][t] + warns["run"][t] <= 1

\* Every call is answered: no wait outlives its cap, whatever is (not) written.
CallReturns == \A c \in Calls : (pc[c] # "idle") ~> (pc[c] = "idle")

\* What waitForChange says of the blind window: the run file appearing is the
\* change a wait is waiting for, so no wait gives up on a run file that is there.
BlindWindowEnds ==
  [][\A c \in Calls :
       (pc[c] = "wait" /\ pc'[c] = "build" /\ ~gone[c] /\ Load(tgt[c]).kind # "run")
         => file = NoRun \/ torn]_vars

\* What livestatus and the design say of liveness: the status of a job whose
\* process has ended is terminal, for a call that starts after that.
EndedJobAnswered ==
  [][\A c \in Calls :
       (pc[c] # "idle" /\ pc'[c] = "idle" /\ tgt[c].status \in {"completed", "failed"})
         => Answer(c) \in Terminal]_vars

=============================================================================
