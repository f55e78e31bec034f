-------------------------------- MODULE Watch --------------------------------
(***************************************************************************)
(* One subscription of the fsnotify wrapper (internal/watch/watch.go): a   *)
(* directory that may not exist yet is watched through its nearest         *)
(* existing ancestor, and the precise watch is armed as the directories on *)
(* the path appear.  The path to the target is the levels 0..Depth; level  *)
(* 0 always exists (it stands for the nearest ancestor that no one         *)
(* creates) and level Depth is the target.  Directories are created by     *)
(* another process one level at a time, between any two system calls of    *)
(* the subscription.                                                       *)
(*                                                                         *)
(* Every w.Add is a step of its own: fsnotify does not report what         *)
(* happened in a directory before it was watched.                          *)
(***************************************************************************)
EXTENDS Naturals, Sequences

CONSTANTS
  Depth,      \* level of the target directory
  MaxWrites,  \* bound: changes of the files in the target
  MaxNoise,   \* bound: directory creations next to the path
  Overflows   \* TRUE: the kernel's event queue may overflow

ASSUME WatchAssumption ==
  /\ Depth \in Nat \ {0}
  /\ MaxWrites \in Nat
  /\ MaxNoise \in Nat
  /\ Overflows \in BOOLEAN

VARIABLES
  exists,    \* the deepest level of the path that exists
  watched,   \* the levels the fsnotify watcher was given
  events,    \* w.Events: what an event carries (its Op has Create, its name is in the target)
  error,     \* w.Errors holds an overflow
  lost,      \* an overflow dropped events
  pc,        \* the subscription's goroutine
  p,         \* addNearest's p
  ev,        \* the event run is handling
  timer,     \* the debounce timer is set
  hint,      \* ch holds a notification
  done,      \* cancel was called: done is closed, and so is the watcher
  noise,     \* directories created next to the path
  written,   \* version of the files in the target
  seen       \* version the consumer last read

world == <<exists, noise, written>>
vars  == <<exists, watched, events, error, lost, pc, p, ev, timer, hint, done,
           noise, written, seen>>

\* Operations an event may have, as the run loop tells them apart.
Event == SUBSET {"create", "within"}

\* The program counter says whether addNearest was called by Subscribe or by run.
SubPc == {"subUp", "subDown"}
RunPc == {"up", "down"}

TypeOK ==
  /\ exists \in 0..Depth /\ watched \subseteq 0..Depth /\ p \in 0..Depth
  /\ events \in Seq(Event) /\ ev \in Event
  /\ pc \in SubPc \cup RunPc \cup {"select", "stat", "filter", "ended"}
  /\ error \in BOOLEAN /\ lost \in BOOLEAN /\ timer \in BOOLEAN /\ hint \in BOOLEAN
  /\ done \in BOOLEAN
  /\ noise \in Nat /\ written \in Nat /\ seen \in Nat

Init ==
  /\ exists \in 0..Depth
  /\ watched = {} /\ events = <<>> /\ error = FALSE /\ lost = FALSE
  /\ pc = "subUp" /\ p = Depth /\ ev = {}
  /\ timer = FALSE /\ hint = FALSE /\ done = FALSE
  /\ noise = 0 /\ written = 0 /\ seen = 0

(***************************************************************************)
(* The file system: an event is queued when the directory it happens in is *)
(* watched.                                                                *)
(***************************************************************************)
Notice(dir, e) ==
  events' = IF dir \in watched /\ ~done THEN Append(events, e) ELSE events

Mkdir ==
  /\ exists < Depth
  /\ exists' = exists + 1
  /\ Notice(exists, IF exists + 1 = Depth THEN {"create", "within"} ELSE {"create"})
  /\ UNCHANGED <<watched, error, lost, pc, p, ev, timer, hint, done, noise, written, seen>>

\* pi writes a file of the target, creating it or not.
WriteFile ==
  /\ exists = Depth /\ written < MaxWrites
  /\ written' = written + 1
  /\ \E op \in {{"within"}, {"create", "within"}} : Notice(Depth, op)
  /\ UNCHANGED <<exists, watched, error, lost, pc, p, ev, timer, hint, done, noise, seen>>

\* Something else happens in a watched ancestor.
Elsewhere ==
  /\ noise < MaxNoise
  /\ noise' = noise + 1
  /\ \E dir \in 0..exists, op \in {{}, {"create"}} :
       /\ dir < Depth
       /\ Notice(dir, op)
  /\ UNCHANGED <<exists, watched, error, lost, pc, p, ev, timer, hint, done, written, seen>>

\* The queue overflows: what it holds is dropped and an error is reported.
Overflow ==
  /\ Overflows /\ ~done /\ events # <<>>
  /\ events' = <<>> /\ error' = TRUE /\ lost' = TRUE
  /\ UNCHANGED <<exists, watched, pc, p, ev, timer, hint, done, noise, written, seen>>

(***************************************************************************)
(* addNearest: up from the target to the first directory that can be       *)
(* watched, then down again over what exists by now.  A watcher that was   *)
(* closed accepts nothing.                                                 *)
(***************************************************************************)
CanAdd(level) == level <= exists /\ ~done

AddUp_Bug(from, to, ret) ==
  /\ pc = from
  /\ IF CanAdd(p)
     THEN watched' = watched \cup {p} /\ pc' = to /\ UNCHANGED p
     ELSE p > 0 /\ p' = p - 1 /\ UNCHANGED <<watched, pc>>

AddUp(from, to, ret) ==
  /\ pc = from
  /\ IF CanAdd(p)
     THEN watched' = watched \cup {p} /\ pc' = to /\ UNCHANGED p
     ELSE IF p = 0
          THEN pc' = ret /\ UNCHANGED <<watched, p>>
          ELSE p' = p - 1 /\ UNCHANGED <<watched, pc>>

AddDown_Bug(from, ret) ==
  /\ pc = from
  /\ pc' = ret /\ UNCHANGED <<watched, p>>

AddDown(from, ret) ==
  /\ pc = from
  /\ IF p < Depth /\ CanAdd(p + 1)
     THEN watched' = watched \cup {p + 1} /\ p' = p + 1 /\ UNCHANGED pc
     ELSE pc' = ret /\ UNCHANGED <<watched, p>>

(***************************************************************************)
(* Subscribe.  The caller gets the channel when addNearest is done; the    *)
(* poller and the status handler read the state after it returns.          *)
(***************************************************************************)
Subscribe ==
  /\ \/ AddUp("subUp", "subDown", "ended")
     \/ AddDown("subDown", "select")
  /\ seen' = IF pc' = "select" THEN written ELSE seen
  /\ UNCHANGED <<exists, events, error, lost, ev, timer, hint, done, noise, written>>

\* cancel: closes done and the watcher, whose channels are closed with it.
Cancel ==
  /\ pc \notin SubPc /\ ~done
  /\ done' = TRUE /\ events' = <<>> /\ error' = FALSE
  /\ UNCHANGED <<exists, watched, lost, pc, p, ev, timer, hint, noise, written, seen>>

(***************************************************************************)
(* The goroutine of run.                                                   *)
(***************************************************************************)
RunDone ==
  /\ pc = "select" /\ done
  /\ pc' = "ended" /\ timer' = FALSE
  /\ UNCHANGED <<exists, watched, events, error, lost, p, ev, hint, done, noise, written, seen>>

\* An event; a create leads to addNearest from the target upwards.
RunEvent ==
  /\ pc = "select" /\ events # <<>>
  /\ ev' = Head(events) /\ events' = Tail(events)
  /\ IF "create" \in Head(events)
     THEN pc' = "up" /\ p' = Depth
     ELSE pc' = "filter" /\ UNCHANGED p
  /\ UNCHANGED <<exists, watched, error, lost, timer, hint, done, noise, written, seen>>

RunAdd ==
  /\ AddUp("up", "down", "stat") \/ AddDown("down", "stat")
  /\ UNCHANGED <<exists, events, error, lost, ev, timer, hint, done, noise, written, seen>>

RunStat_Bug ==
  /\ pc = "stat"
  /\ pc' = "filter"
  /\ UNCHANGED <<exists, watched, events, error, lost, p, ev, timer, hint, done, noise,
                 written, seen>>

\* The target exists by now: a hint at once, for what was written unseen.
RunStat ==
  /\ pc = "stat"
  /\ pc' = "filter"
  /\ hint' = (hint \/ exists = Depth)
  /\ UNCHANGED <<exists, watched, events, error, lost, p, ev, timer, done, noise, written, seen>>

\* Only what is in the target sets the debounce timer.
RunFilter ==
  /\ pc = "filter"
  /\ pc' = "select" /\ ev' = {}
  /\ timer' = (timer \/ "within" \in ev)
  /\ UNCHANGED <<exists, watched, events, error, lost, p, hint, done, noise, written, seen>>

RunTimer_Bug ==
  /\ pc = "select" /\ timer
  /\ timer' = FALSE
  /\ UNCHANGED <<exists, watched, events, error, lost, pc, p, ev, hint, done, noise, written, seen>>

RunTimer ==
  /\ pc = "select" /\ timer
  /\ timer' = FALSE /\ hint' = TRUE
  /\ UNCHANGED <<exists, watched, events, error, lost, pc, p, ev, done, noise, written, seen>>

RunError ==
  /\ pc = "select" /\ error
  /\ error' = FALSE /\ hint' = TRUE
  /\ UNCHANGED <<exists, watched, events, lost, pc, p, ev, timer, done, noise, written, seen>>

(***************************************************************************)
(* The consumer re-reads the state when it takes a hint.                   *)
(***************************************************************************)
Consume ==
  /\ hint
  /\ hint' = FALSE /\ seen' = written
  /\ UNCHANGED <<exists, watched, events, error, lost, pc, p, ev, timer, done, noise, written>>

Run == RunDone \/ RunEvent \/ RunAdd \/ RunStat \/ RunFilter \/ RunTimer \/ RunError

Next ==
  \/ Mkdir \/ WriteFile \/ Elsewhere \/ Overflow
  \/ Subscribe \/ Cancel
  \/ RunDone \/ RunEvent \/ RunAdd \/ RunStat \/ RunFilter \/ RunTimer \/ RunError
  \/ Consume

Spec == Init /\ [][Next]_vars

\* The goroutine is scheduled, the debounce timer of 50 ms fires even while
\* events keep coming (select is fair to a channel that stays ready), done is
\* taken once it is closed, and the consumer waits on the channel.
Fairness ==
  /\ WF_vars(Subscribe) /\ WF_vars(Run) /\ WF_vars(Consume)
  /\ SF_vars(RunTimer) /\ SF_vars(RunDone)
FairSpec == Spec /\ Fairness

(***************************************************************************)
(* Properties                                                              *)
(***************************************************************************)
Queued(op) == \E i \in 1..Len(events) : op \in events[i]

\* The subscription is at rest: nothing queued, nothing being handled.
AtRest == pc = "select" /\ events = <<>> /\ ~error

\* A path that appears level by level never outruns the watch: whenever the
\* subscription is at rest the deepest existing directory of the path is
\* watched, so the next creation is reported (addNearest's walk back down; the
\* re-arming on every create).  Only an overflow, which run answers with a hint
\* alone, can break it.
DeepestWatched == AtRest /\ ~lost /\ ~done => exists \in watched

\* A change of the target's files is never left unreported: once the
\* subscription is at rest, with no debounce timer set and no hint in the
\* channel, the consumer has read the last version, also when the files were
\* written before the target was watched (the stat after addNearest).
HintCoversWrite ==
  AtRest /\ ~timer /\ ~hint /\ ~lost /\ ~done => seen = written

\* The inductive strengthening of DeepestWatched: while the deepest directory is
\* not watched, a create is queued or addNearest is on its way; going down it
\* stands on a directory that exists and is watched.
Arming ==
  /\ \/ lost \/ done \/ exists \in watched \/ Queued("create")
     \/ pc \in SubPc \cup RunPc
  /\ pc \in {"subDown", "down"} => p \in watched /\ p <= exists

\* The inductive strengthening of HintCoversWrite: a change the consumer has not
\* read is on its way as an event, a timer or a hint, or was missed by a watch that
\* is being armed and will be answered by the stat after it.
Reporting ==
  \/ written = seen \/ lost \/ done \/ hint \/ timer \/ Queued("within")
  \/ pc \in RunPc \cup {"stat", "filter"} /\ "within" \in ev
  \/ exists = Depth /\ (Queued("create") \/ pc \in RunPc \cup {"stat"})
  \/ pc \in SubPc

\* cancel ends the goroutine, whatever it was doing: addNearest on the closed
\* watcher, a pending timer, queued events.
CancelEndsWatch == done ~> (pc = "ended")

\* Every change of the target's files reaches the consumer through hints alone,
\* unless the subscription is canceled or lost events to an overflow.
WritesReachConsumer == (written # seen) ~> (written = seen \/ lost \/ done)

=============================================================================
