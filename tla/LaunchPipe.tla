----------------------------- MODULE LaunchPipe -----------------------------
(***************************************************************************)
(* The goroutines behind one job's pi processes (internal/app/launcher.go, *)
(* internal/parser/parser.go, internal/runner/runner.go).  Every Launch    *)
(* starts a parser that reads pi's standard output through a tee, an       *)
(* observer that drains the teed copy, and a writer that persists the      *)
(* authoring preview.  wait() returns when the parser is done and the      *)
(* process is reaped; the observer and the writer are not waited for, so   *)
(* those of one attempt may still run when the next attempt is launched,   *)
(* and both use the same <jobID>.authoring file and the same .tmp.         *)
(*                                                                         *)
(* pi prints the lines of Output in order, and may end before any of them. *)
(* The end is that of a successful workflow; one with isError leads to an  *)
(* error of wait() as a missing end does.                                  *)
(* A process that left pi's group may hold the standard output open.       *)
(***************************************************************************)
EXTENDS Naturals, Sequences

CONSTANTS
  MaxAttempts, \* launches of the job, config.MaxAuthoringRetries + 1
  Escapes      \* TRUE: pi may leave a process outside its group

ASSUME LaunchPipeAssumption ==
  /\ MaxAttempts \in Nat \ {0}
  /\ Escapes \in BOOLEAN

Attempts == 1..MaxAttempts

\* A session event, what the preview is made of (authoring text or the script), a
\* session event again, the workflow's end.
Output == <<"session", "text", "session", "end">>
Lines  == 0..Len(Output)

VARIABLES
  ctx,       \* the job's context: "live" or "canceled"
  proc,      \* the process: "none", "running", "exited", "reaped"
  escaped,   \* attempts whose standard output someone else still holds
  printed,   \* lines pi wrote
  read,      \* lines the parser took from the standard output
  parser,    \* the parser's goroutine
  found,     \* Result.WorkflowFound
  failed,    \* ParseStream returned the context's error
  observer,  \* the observer's goroutine
  got,       \* lines the observer took from the pipe
  sessionCh, \* session ids pushed
  snap,      \* snapCh: a pending snapshot
  writer,    \* the writer's goroutine
  waiter,    \* wait(): "none", "parse", "reap", "ok" or "error"
  tmp, file  \* the attempt whose snapshot <jobID>.authoring(.tmp) holds, 0 for none

procVars == <<ctx, proc, escaped, printed>>
vars == <<ctx, proc, escaped, printed, read, parser, found, failed, observer, got, sessionCh,
          snap, writer, waiter, tmp, file>>

TypeOK ==
  /\ ctx \in {"live", "canceled"}
  /\ proc \in [Attempts -> {"none", "running", "exited", "reaped"}]
  /\ escaped \subseteq Attempts
  /\ printed \in [Attempts -> Lines] /\ read \in [Attempts -> Lines]
  /\ got \in [Attempts -> Lines]
  /\ parser \in [Attempts -> {"none", "check", "read", "tee", "close", "done"}]
  /\ found \in [Attempts -> BOOLEAN] /\ failed \in [Attempts -> BOOLEAN]
  /\ observer \in [Attempts -> {"none", "read", "handle", "flush", "remove", "gone"}]
  /\ sessionCh \in [Attempts -> 0..1]
  /\ snap \in [Attempts -> BOOLEAN]
  /\ writer \in [Attempts -> {"none", "idle", "write", "rename", "gone"}]
  /\ waiter \in [Attempts -> {"none", "parse", "reap", "ok", "error"}]
  /\ tmp \in {0} \cup Attempts /\ file \in {0} \cup Attempts

Init ==
  /\ ctx = "live" /\ escaped = {}
  /\ proc = [a \in Attempts |-> "none"]
  /\ printed = [a \in Attempts |-> 0] /\ read = printed /\ got = printed
  /\ parser = proc /\ observer = proc /\ writer = proc /\ waiter = proc
  /\ found = [a \in Attempts |-> FALSE] /\ failed = found
  /\ sessionCh = [a \in Attempts |-> 0]
  /\ snap = [a \in Attempts |-> FALSE]
  /\ tmp = 0 /\ file = 0

(***************************************************************************)
(* Launch: the first one by start, the next by runAttempts, when wait()    *)
(* returned an error, the context is live and no run file was found.       *)
(***************************************************************************)
Launch(a) ==
  /\ proc[a] = "none"
  /\ a > 1 => waiter[a - 1] = "error" /\ ctx = "live"
  /\ proc' = [proc EXCEPT ![a] = "running"]
  /\ parser' = [parser EXCEPT ![a] = "check"]
  /\ observer' = [observer EXCEPT ![a] = "read"]
  /\ writer' = [writer EXCEPT ![a] = "idle"]
  /\ waiter' = [waiter EXCEPT ![a] = "parse"]
  /\ UNCHANGED <<ctx, escaped, printed, read, found, failed, got, sessionCh, snap, tmp, file>>

(***************************************************************************)
(* pi and its group.                                                       *)
(***************************************************************************)
PiPrints(a) ==
  /\ proc[a] = "running" /\ printed[a] < Len(Output)
  /\ printed' = [printed EXCEPT ![a] = @ + 1]
  /\ UNCHANGED <<ctx, proc, escaped, read, parser, found, failed, observer, got, sessionCh, snap,
                 writer, waiter, tmp, file>>

\* pi ends, by itself or killed with its group; someone may keep the output open.
PiExits(a) ==
  /\ proc[a] = "running"
  /\ proc' = [proc EXCEPT ![a] = "exited"]
  /\ \E stays \in IF Escapes THEN BOOLEAN ELSE {FALSE} :
       escaped' = IF stays THEN escaped \cup {a} ELSE escaped
  /\ UNCHANGED <<ctx, printed, read, parser, found, failed, observer, got, sessionCh, snap,
                 writer, waiter, tmp, file>>

EscapedEnds(a) ==
  /\ a \in escaped
  /\ escaped' = escaped \ {a}
  /\ UNCHANGED <<ctx, proc, printed, read, parser, found, failed, observer, got, sessionCh, snap,
                 writer, waiter, tmp, file>>

\* pi_cancel, or the shutdown of the server.
Cancel ==
  /\ ctx = "live"
  /\ ctx' = "canceled"
  /\ UNCHANGED <<proc, escaped, printed, read, parser, found, failed, observer, got, sessionCh,
                 snap, writer, waiter, tmp, file>>

(***************************************************************************)
(* ParseStream and the goroutine around it.                                *)
(***************************************************************************)
Parsed == UNCHANGED <<ctx, proc, escaped, printed, observer, got, sessionCh, snap, writer,
                      waiter, tmp, file>>

\* The context is looked at between two lines, and a canceled one ends the parse.
ParserCheck(a) ==
  /\ parser[a] = "check"
  /\ failed' = [failed EXCEPT ![a] = ctx = "canceled"]
  /\ parser' = [parser EXCEPT ![a] = IF ctx = "canceled" THEN "close" ELSE "read"]
  /\ Parsed /\ UNCHANGED <<read, found>>

\* End of the standard output: no one holds it, or Wait closed our end of it.
Eof(a) ==
  \/ proc[a] = "exited" /\ a \notin escaped /\ read[a] = printed[a]
  \/ proc[a] = "reaped"

\* A read of the standard output; what was read is then written to the pipe.
ParserRead(a) ==
  /\ parser[a] = "read"
  /\ \/ /\ Eof(a)
        /\ parser' = [parser EXCEPT ![a] = "close"] /\ UNCHANGED read
     \/ /\ ~Eof(a) /\ read[a] < printed[a]
        /\ parser' = [parser EXCEPT ![a] = "tee"]
        /\ read' = [read EXCEPT ![a] = @ + 1]
  /\ Parsed /\ UNCHANGED <<found, failed>>

\* The pipe's Write returned: the observer has the line, and the parser handles it.
ParserLine(a) ==
  /\ parser[a] = "tee" /\ got[a] = read[a]
  /\ found' = [found EXCEPT ![a] = @ \/ Output[read[a]] = "end"]
  /\ parser' = [parser EXCEPT ![a] = "check"]
  /\ Parsed /\ UNCHANGED <<read, failed>>

\* pw.Close, and the outcome is handed to wait().
ParserClose(a) ==
  /\ parser[a] = "close"
  /\ parser' = [parser EXCEPT ![a] = "done"]
  /\ Parsed /\ UNCHANGED <<read, found, failed>>

(***************************************************************************)
(* wait(): the parser's outcome first, then the process.                   *)
(***************************************************************************)
WaitParse_Bug(a) ==
  /\ waiter[a] = "parse"
  /\ waiter' = [waiter EXCEPT ![a] = "reap"]
  /\ UNCHANGED <<procVars, read, parser, found, failed, observer, got, sessionCh, snap,
                 writer, tmp, file>>

WaitParse(a) ==
  /\ waiter[a] = "parse" /\ parser[a] = "done"
  /\ waiter' = [waiter EXCEPT ![a] = "reap"]
  /\ UNCHANGED <<procVars, read, parser, found, failed, observer, got, sessionCh, snap, writer,
                 tmp, file>>

\* proc.Wait returns once pi ended (WaitDelay covers who holds its output) and
\* closes our end of the output; composeWaitError.
WaitReap(a) ==
  /\ waiter[a] = "reap" /\ proc[a] = "exited"
  /\ proc' = [proc EXCEPT ![a] = "reaped"]
  /\ waiter' = [waiter EXCEPT ![a] = IF found[a] /\ ~failed[a] THEN "ok" ELSE "error"]
  /\ UNCHANGED <<ctx, escaped, printed, read, parser, found, failed, observer, got, sessionCh,
                 snap, writer, tmp, file>>

(***************************************************************************)
(* observeAuthoring: reads the pipe to its end, whatever the lines are.    *)
(***************************************************************************)
Observed == UNCHANGED <<procVars, read, parser, found, failed, writer, waiter, tmp>>

ObserverRead_Bug(a) ==
  /\ observer[a] = "read"
  /\ \/ /\ parser[a] = "tee" /\ got[a] < read[a]
        /\ got' = [got EXCEPT ![a] = @ + 1]
        /\ observer' = [observer EXCEPT ![a] = IF Output[got[a] + 1] = "text"
                                              THEN "flush" ELSE "handle"]
     \/ /\ parser[a] = "done"
        /\ observer' = [observer EXCEPT ![a] = "flush"] /\ UNCHANGED got
  /\ Observed /\ UNCHANGED <<sessionCh, snap, file>>

ObserverRead(a) ==
  /\ observer[a] = "read"
  /\ \/ /\ parser[a] = "tee" /\ got[a] < read[a]
        /\ got' = [got EXCEPT ![a] = @ + 1]
        /\ observer' = [observer EXCEPT ![a] = "handle"]
     \/ /\ parser[a] = "done"
        /\ observer' = [observer EXCEPT ![a] = "flush"] /\ UNCHANGED got
  /\ Observed /\ UNCHANGED <<sessionCh, snap, file>>

ObserverHandle_Bug(a) ==
  /\ observer[a] = "handle"
  /\ sessionCh' = [sessionCh EXCEPT ![a] = IF Output[got[a]] = "session" THEN @ + 1 ELSE @]
  /\ snap' = [snap EXCEPT ![a] = @ \/ Output[got[a]] = "text"]
  /\ observer' = [observer EXCEPT ![a] = "read"]
  /\ Observed /\ UNCHANGED <<got, file>>

\* The first session id is pushed, and no other: the channel holds one.  Text and the
\* script replace the pending snapshot.
ObserverHandle(a) ==
  /\ observer[a] = "handle"
  /\ LET line   == Output[got[a]]
         pushed == sessionCh[a] > 0
     IN /\ sessionCh' = [sessionCh EXCEPT ![a] =
                           IF line = "session" /\ ~pushed THEN @ + 1 ELSE @]
        /\ snap' = [snap EXCEPT ![a] = @ \/ line = "text"]
  /\ observer' = [observer EXCEPT ![a] = "read"]
  /\ Observed /\ UNCHANGED <<got, file>>

ObserverFlush_Bug(a) ==
  /\ observer[a] = "flush"
  /\ observer' = [observer EXCEPT ![a] = "remove"]
  /\ Observed /\ UNCHANGED <<got, sessionCh, snap, file>>

\* The deferred function: snapCh is closed, the writer is waited for ...
ObserverFlush(a) ==
  /\ observer[a] = "flush" /\ writer[a] = "gone"
  /\ observer' = [observer EXCEPT ![a] = "remove"]
  /\ Observed /\ UNCHANGED <<got, sessionCh, snap, file>>

\* ... and the file is removed, whoever wrote it.
ObserverRemove(a) ==
  /\ observer[a] = "remove"
  /\ file' = 0
  /\ observer' = [observer EXCEPT ![a] = "gone"]
  /\ Observed /\ UNCHANGED <<got, sessionCh, snap>>

(***************************************************************************)
(* authoringWriter: a temporary file, then a rename.                       *)
(***************************************************************************)
Wrote == UNCHANGED <<procVars, read, parser, found, failed, observer, got, sessionCh, waiter>>

\* The next snapshot, or the end when the channel is closed and empty.
WriterTake(a) ==
  /\ writer[a] = "idle"
  /\ \/ /\ snap[a]
        /\ snap' = [snap EXCEPT ![a] = FALSE]
        /\ writer' = [writer EXCEPT ![a] = "write"]
     \/ /\ ~snap[a] /\ observer[a] = "flush"
        /\ writer' = [writer EXCEPT ![a] = "gone"] /\ UNCHANGED snap
  /\ Wrote /\ UNCHANGED <<tmp, file>>

WriterTmp(a) ==
  /\ writer[a] = "write"
  /\ tmp' = a
  /\ writer' = [writer EXCEPT ![a] = "rename"]
  /\ Wrote /\ UNCHANGED <<snap, file>>

\* The rename fails, without notice, when there is no .tmp any more.
WriterRename(a) ==
  /\ writer[a] = "rename"
  /\ file' = (IF tmp = 0 THEN file ELSE tmp) /\ tmp' = 0
  /\ writer' = [writer EXCEPT ![a] = "idle"]
  /\ Wrote /\ UNCHANGED snap

-----------------------------------------------------------------------------
Parse(a)   == ParserCheck(a) \/ ParserRead(a) \/ ParserLine(a) \/ ParserClose(a)
Wait(a)    == WaitParse(a) \/ WaitReap(a)
Observe(a) == ObserverRead(a) \/ ObserverHandle(a) \/ ObserverFlush(a) \/ ObserverRemove(a)
Write(a)   == WriterTake(a) \/ WriterTmp(a) \/ WriterRename(a)

Next ==
  \/ Cancel
  \/ \E a \in Attempts :
       \/ Launch(a) \/ PiPrints(a) \/ PiExits(a) \/ EscapedEnds(a)
       \/ Parse(a) \/ Wait(a) \/ Observe(a) \/ Write(a)

Spec == Init /\ [][Next]_vars

\* Goroutines are scheduled; a canceled context kills pi's group.  pi need not
\* end by itself, nor does a process that left its group.
Fairness ==
  /\ \A a \in Attempts :
       /\ WF_vars(Parse(a)) /\ WF_vars(Wait(a)) /\ WF_vars(Observe(a)) /\ WF_vars(Write(a))
       /\ WF_vars(ctx = "canceled" /\ PiExits(a))
FairSpec == Spec /\ Fairness

(***************************************************************************)
(* Properties                                                              *)
(***************************************************************************)
Over(a) == proc[a] = "none" \/ (observer[a] = "gone" /\ waiter[a] \in {"ok", "error"})

\* An attempt ends with its process: once pi exited and no one holds its output,
\* wait() returns and the observer reaches its end, removing the preview.  The tee,
\* the pipe and the slow writer behind it never block the parser for good, and no
\* goroutine is left behind.
AttemptEnds ==
  \A a \in Attempts :
    (proc[a] \in {"exited", "reaped"} /\ a \notin escaped)
      ~> (waiter[a] \in {"ok", "error"} /\ observer[a] = "gone")

\* wait() answers with success whenever pi printed the end of the workflow and the
\* job was not canceled: the output is read to its end before Wait closes it.
EndNotLost ==
  \A a \in Attempts :
    waiter[a] = "error" /\ ctx = "live" => printed[a] < Len(Output)

\* The inductive strengthening of EndNotLost: the order of wait(), and that a parser
\* that ended on a live context has read all that pi, then gone, had printed.
ReadToEnd ==
  \A a \in Attempts :
    /\ proc[a] = "none" <=> waiter[a] = "none"
    /\ proc[a] = "none" => parser[a] = "none"
    /\ proc[a] = "reaped" <=> waiter[a] \in {"ok", "error"}
    /\ waiter[a] \in {"reap", "ok", "error"} => parser[a] = "done"
    /\ waiter[a] = "error" => ~found[a] \/ failed[a]
    /\ failed[a] => ctx = "canceled"
    /\ parser[a] # "tee" /\ read[a] = Len(Output) => found[a]
    /\ parser[a] \in {"close", "done"} /\ ctx = "live" =>
         proc[a] \in {"exited", "reaped"} /\ read[a] = printed[a]

\* The preview never outlives the job: when every launched attempt is over neither
\* the file nor its .tmp is left, although the attempts share both names and the
\* removal of one may fall between the writes of the other.
NoPreviewLeft == (\A a \in Attempts : Over(a)) => file = 0 /\ tmp = 0

\* The inductive strengthening of NoPreviewLeft: whoever's the file is, an observer
\* that will remove it is still there, and so is the writer that renames a .tmp.
PreviewOwned ==
  /\ file # 0 => \E a \in Attempts : observer[a] \notin {"none", "gone"}
  /\ tmp # 0 => \E a \in Attempts : writer[a] = "rename"
  /\ \A a \in Attempts :
       /\ writer[a] \notin {"none", "gone"} => observer[a] \in {"read", "handle", "flush"}
       /\ proc[a] = "none" => observer[a] = "none"

\* "So Wait() never blocks forever" (runner.go:94-95): a canceled job's wait() returns.
WaitNeverBlocks ==
  \A a \in Attempts :
    (ctx = "canceled" /\ proc[a] # "none") ~> waiter[a] \in {"ok", "error"}

=============================================================================
