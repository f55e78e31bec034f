-------------------------- MODULE LaunchPipeProofs --------------------------
(***************************************************************************)
(* Proofs about LaunchPipe, for any number of attempts.                    *)
(***************************************************************************)
EXTENDS LaunchPipe, TLAPS

\* The lines of Output.
LEMMA OutputFact ==
  /\ Len(Output) = 4 /\ Lines = 0..4
  /\ Output[4] = "end"
  BY DEF Output, Lines

\* TypeOK holds initially and is kept by every step.
LEMMA TypeInit == Init => TypeOK
  BY OutputFact DEF Init, TypeOK

LEMMA TypeStep == TypeOK /\ [Next]_vars => TypeOK'
<1>. SUFFICES ASSUME TypeOK, [Next]_vars PROVE TypeOK'
  OBVIOUS
<1>. USE OutputFact
<1>1. CASE Cancel
  BY <1>1 DEF Cancel, TypeOK
<1>2. ASSUME NEW a \in Attempts, Launch(a) PROVE TypeOK'
  BY <1>2 DEF Launch, TypeOK
<1>3. ASSUME NEW a \in Attempts, PiPrints(a) PROVE TypeOK'
  BY <1>3 DEF PiPrints, TypeOK
<1>4. ASSUME NEW a \in Attempts, PiExits(a) \/ EscapedEnds(a) PROVE TypeOK'
  <2>1. escaped \cup {a} \subseteq Attempts /\ escaped \ {a} \subseteq Attempts
    BY DEF TypeOK
  <2>2. CASE PiExits(a)
    <3>1. escaped' \subseteq Attempts
      BY <2>1, <2>2 DEF PiExits, TypeOK
    <3>. QED BY <2>2, <3>1 DEF PiExits, TypeOK
  <2>3. CASE EscapedEnds(a)
    BY <2>1, <2>3 DEF EscapedEnds, TypeOK
  <2>. QED BY <1>4, <2>2, <2>3
<1>5. ASSUME NEW a \in Attempts, ParserCheck(a) PROVE TypeOK'
  BY <1>5 DEF ParserCheck, Parsed, TypeOK
<1>6. ASSUME NEW a \in Attempts, ParserRead(a) PROVE TypeOK'
  BY <1>6 DEF ParserRead, Parsed, TypeOK
<1>7. ASSUME NEW a \in Attempts, ParserLine(a) PROVE TypeOK'
  BY <1>7 DEF ParserLine, Parsed, TypeOK
<1>8. ASSUME NEW a \in Attempts, ParserClose(a) PROVE TypeOK'
  BY <1>8 DEF ParserClose, Parsed, TypeOK
<1>9. ASSUME NEW a \in Attempts, WaitParse(a) PROVE TypeOK'
  BY <1>9 DEF WaitParse, procVars, TypeOK
<1>10. ASSUME NEW a \in Attempts, WaitReap(a) PROVE TypeOK'
  BY <1>10 DEF WaitReap, TypeOK
<1>11. ASSUME NEW a \in Attempts, ObserverRead(a) PROVE TypeOK'
  BY <1>11 DEF ObserverRead, Observed, procVars, TypeOK
<1>12. ASSUME NEW a \in Attempts, ObserverHandle(a) PROVE TypeOK'
  <2>1. snap' \in [Attempts -> BOOLEAN]
    <3>. DEFINE new == snap[a] \/ Output[got[a]] = "text"
    <3>1. new \in BOOLEAN
      BY Zenon
    <3>2. snap' = [snap EXCEPT ![a] = new]
      BY <1>12, Zenon DEF ObserverHandle
    <3>. QED BY <3>1, <3>2 DEF TypeOK
  <2>. QED BY <1>12, <2>1 DEF ObserverHandle, Observed, procVars, TypeOK
<1>13. ASSUME NEW a \in Attempts, ObserverFlush(a) \/ ObserverRemove(a) PROVE TypeOK'
  BY <1>13 DEF ObserverFlush, ObserverRemove, Observed, procVars, TypeOK
<1>14. ASSUME NEW a \in Attempts, WriterTake(a) PROVE TypeOK'
  <2>1. snap' \in [Attempts -> BOOLEAN]
    BY <1>14 DEF WriterTake, TypeOK
  <2>2. writer' \in [Attempts -> {"none", "idle", "write", "rename", "gone"}]
    BY <1>14 DEF WriterTake, TypeOK
  <2>. QED BY <1>14, <2>1, <2>2 DEF WriterTake, Wrote, procVars, TypeOK
<1>15. ASSUME NEW a \in Attempts, WriterTmp(a) \/ WriterRename(a) PROVE TypeOK'
  BY <1>15 DEF WriterTmp, WriterRename, Wrote, procVars, TypeOK
<1>16. CASE UNCHANGED vars
  BY <1>16 DEF vars, TypeOK
<1>. QED
  BY <1>1, <1>2, <1>3, <1>4, <1>5, <1>6, <1>7, <1>8, <1>9, <1>10, <1>11, <1>12, <1>13,
     <1>14, <1>15, <1>16
  DEF Next, Parse, Wait, Observe, Write

\* Every variable keeps its type; in particular the session id is pushed at most
\* once, so the push never blocks on the channel of one (launcher.go:47, 148-150).
THEOREM PipeTyped == Spec => []TypeOK
  BY TypeInit, TypeStep, PTL DEF Spec

-----------------------------------------------------------------------------
\* Every step keeps ReadToEnd.  A step of attempt a changes what ReadToEnd says of
\* a alone; Cancel changes the context for all.
LEMMA ReadStep == TypeOK /\ ReadToEnd /\ [Next]_vars => ReadToEnd'
<1>. SUFFICES ASSUME TypeOK, ReadToEnd, [Next]_vars PROVE ReadToEnd'
  OBVIOUS
<1>. USE OutputFact
<1>1. CASE Cancel
  BY <1>1 DEF Cancel, ReadToEnd
<1>2. ASSUME NEW a \in Attempts, Launch(a) PROVE ReadToEnd'
  BY <1>2 DEF Launch, ReadToEnd, TypeOK
<1>3. ASSUME NEW a \in Attempts, PiPrints(a) PROVE ReadToEnd'
  BY <1>3 DEF PiPrints, ReadToEnd, TypeOK
<1>4. ASSUME NEW a \in Attempts, PiExits(a) PROVE ReadToEnd'
  BY <1>4 DEF PiExits, ReadToEnd, TypeOK
<1>5. ASSUME NEW a \in Attempts, ParserCheck(a) PROVE ReadToEnd'
  BY <1>5 DEF ParserCheck, Parsed, ReadToEnd, TypeOK
<1>6. ASSUME NEW a \in Attempts, ParserRead(a) PROVE ReadToEnd'
  BY <1>6 DEF ParserRead, Eof, Parsed, ReadToEnd, TypeOK
<1>7. ASSUME NEW a \in Attempts, ParserLine(a) PROVE ReadToEnd'
  <2>1. found'[a] <=> found[a] \/ Output[read[a]] = "end"
    BY <1>7 DEF ParserLine, TypeOK
  <2>2. \A b \in Attempts \ {a} : found'[b] = found[b] /\ parser'[b] = parser[b]
    BY <1>7 DEF ParserLine, TypeOK
  <2>3. parser'[a] = "check" /\ parser[a] = "tee"
    BY <1>7 DEF ParserLine, TypeOK
  <2>4. UNCHANGED <<ctx, proc, printed, read, failed, waiter>>
    BY <1>7 DEF ParserLine, Parsed
  <2>. QED BY <2>1, <2>2, <2>3, <2>4 DEF ReadToEnd
<1>8. ASSUME NEW a \in Attempts, ParserClose(a) PROVE ReadToEnd'
  BY <1>8 DEF ParserClose, Parsed, ReadToEnd, TypeOK
<1>9. ASSUME NEW a \in Attempts, WaitParse(a) PROVE ReadToEnd'
  BY <1>9 DEF WaitParse, procVars, ReadToEnd, TypeOK
<1>10. ASSUME NEW a \in Attempts, WaitReap(a) PROVE ReadToEnd'
  BY <1>10 DEF WaitReap, ReadToEnd, TypeOK
<1>11. ASSUME UNCHANGED <<ctx, proc, printed, read, parser, found, failed, waiter>>
       PROVE  ReadToEnd'
  BY <1>11 DEF ReadToEnd
<1>12. ASSUME NEW a \in Attempts, EscapedEnds(a) \/ Observe(a) \/ Write(a) PROVE ReadToEnd'
  BY <1>11, <1>12 DEF EscapedEnds, Observe, ObserverRead, ObserverHandle, ObserverFlush,
     ObserverRemove, Observed, Write, WriterTake, WriterTmp, WriterRename, Wrote, procVars
<1>13. CASE UNCHANGED vars
  BY <1>11, <1>13 DEF vars
<1>. QED
  BY <1>1, <1>2, <1>3, <1>4, <1>5, <1>6, <1>7, <1>8, <1>9, <1>10, <1>12, <1>13
  DEF Next, Parse, Wait

\* wait() reports no failure on a live context when pi printed the workflow's end:
\* the parser reads to the end of the output before Wait closes it
\* (launcher.go:69-75, parser.go:61-106).
THEOREM PipeKeepsEnd == Spec => []EndNotLost
<1>1. Init => ReadToEnd
  BY OutputFact DEF Init, ReadToEnd
<1>2. TypeOK /\ ReadToEnd => EndNotLost
  BY OutputFact DEF TypeOK, ReadToEnd, EndNotLost
<1>. QED BY <1>1, <1>2, TypeInit, TypeStep, ReadStep, PTL DEF Spec

-----------------------------------------------------------------------------
\* Every step keeps an owner for what is on disk.
LEMMA PreviewStep == TypeOK /\ PreviewOwned /\ [Next]_vars => PreviewOwned'
<1>. SUFFICES ASSUME TypeOK, PreviewOwned, [Next]_vars PROVE PreviewOwned'
  OBVIOUS
<1>1. ASSUME NEW a \in Attempts, Launch(a) PROVE PreviewOwned'
  BY <1>1 DEF Launch, PreviewOwned, TypeOK
<1>2. ASSUME NEW a \in Attempts, ObserverRead(a) PROVE PreviewOwned'
  BY <1>2 DEF ObserverRead, Observed, procVars, PreviewOwned, TypeOK
<1>3. ASSUME NEW a \in Attempts, ObserverHandle(a) PROVE PreviewOwned'
  BY <1>3 DEF ObserverHandle, Observed, procVars, PreviewOwned, TypeOK
<1>4. ASSUME NEW a \in Attempts, ObserverFlush(a) PROVE PreviewOwned'
  BY <1>4 DEF ObserverFlush, Observed, procVars, PreviewOwned, TypeOK
<1>5. ASSUME NEW a \in Attempts, ObserverRemove(a) PROVE PreviewOwned'
  BY <1>5 DEF ObserverRemove, Observed, procVars, PreviewOwned, TypeOK
<1>6. ASSUME NEW a \in Attempts, WriterTake(a) PROVE PreviewOwned'
  BY <1>6 DEF WriterTake, Wrote, procVars, PreviewOwned, TypeOK
<1>7. ASSUME NEW a \in Attempts, WriterTmp(a) PROVE PreviewOwned'
  BY <1>7 DEF WriterTmp, Wrote, procVars, PreviewOwned, TypeOK
<1>8. ASSUME NEW a \in Attempts, WriterRename(a) PROVE PreviewOwned'
  BY <1>8 DEF WriterRename, Wrote, procVars, PreviewOwned, TypeOK
<1>9. ASSUME UNCHANGED <<file, tmp, observer, writer>>,
             \A b \in Attempts : proc'[b] = "none" => proc[b] = "none"
      PROVE  PreviewOwned'
  BY <1>9 DEF PreviewOwned
<1>10. ASSUME NEW a \in Attempts, PiExits(a) \/ WaitReap(a) PROVE PreviewOwned'
  BY <1>9, <1>10 DEF PiExits, WaitReap, TypeOK
<1>11. ASSUME NEW a \in Attempts, PiPrints(a) \/ EscapedEnds(a) \/ Parse(a) \/ WaitParse(a)
       PROVE  PreviewOwned'
  BY <1>9, <1>11 DEF PiPrints, EscapedEnds, Parse, ParserCheck, ParserRead, ParserLine,
     ParserClose, Parsed, WaitParse, procVars
<1>12. CASE Cancel \/ UNCHANGED vars
  BY <1>9, <1>12 DEF Cancel, vars
<1>. QED
  BY <1>1, <1>2, <1>3, <1>4, <1>5, <1>6, <1>7, <1>8, <1>10, <1>11, <1>12
  DEF Next, Wait, Observe, Write

\* No preview and no .tmp is left once every launched attempt is over, however the
\* attempts overlap on the shared names (launcher.go:112-118, 173-188).
THEOREM PipeLeavesNothing == Spec => []NoPreviewLeft
<1>1. Init => PreviewOwned
  BY DEF Init, PreviewOwned
<1>2. TypeOK /\ PreviewOwned => NoPreviewLeft
  BY DEF TypeOK, PreviewOwned, NoPreviewLeft, Over
<1>. QED BY <1>1, <1>2, TypeInit, TypeStep, PreviewStep, PTL DEF Spec

-----------------------------------------------------------------------------
(* What AttemptEnds rests on: the parser, the observer, the writer and     *)
(* wait() never all wait for each other.  PipeMoves(a) spells out when one *)
(* of the four can go on.                                                  *)
PipeMoves(a) ==
  \/ parser[a] \in {"check", "close"}
  \/ parser[a] = "read" /\ (Eof(a) \/ read[a] < printed[a])
  \/ parser[a] = "tee" /\ got[a] = read[a]
  \/ waiter[a] = "parse" /\ parser[a] = "done"
  \/ waiter[a] = "reap" /\ proc[a] = "exited"
  \/ observer[a] \in {"handle", "remove"}
  \/ observer[a] = "read" /\ (parser[a] = "done" \/ (parser[a] = "tee" /\ got[a] < read[a]))
  \/ observer[a] = "flush" /\ writer[a] = "gone"
  \/ writer[a] \in {"write", "rename"}
  \/ writer[a] = "idle" /\ (snap[a] \/ observer[a] = "flush")

\* Once pi exited and no one holds its output, an attempt whose wait() has not
\* returned or whose observer is still there can go on: the unbuffered pipe, the
\* snapshot channel and the two Waits form no cycle (launcher.go:44-75, 112-118).
PipeNotStuck ==
  \A a \in Attempts :
    (proc[a] \in {"exited", "reaped"} /\ a \notin escaped /\ ~Over(a)) => PipeMoves(a)

\* Its inductive part: the observer leaves the pipe only when the parser has closed
\* it, is never ahead of the parser, nor the parser of pi, and an attempt's
\* goroutines are there from its launch on.
PipeOrder ==
  \A a \in Attempts :
    /\ observer[a] \in {"flush", "remove", "gone"} => parser[a] = "done"
    /\ read[a] <= printed[a] /\ got[a] <= read[a]
    /\ "none" \in {parser[a], observer[a], writer[a]} => proc[a] = "none"

\* Every step keeps PipeOrder.
LEMMA OrderStep == TypeOK /\ PipeOrder /\ [Next]_vars => PipeOrder'
<1>. SUFFICES ASSUME TypeOK, PipeOrder, [Next]_vars PROVE PipeOrder'
  OBVIOUS
<1>. USE OutputFact DEF TypeOK, PipeOrder
<1>1. ASSUME NEW a \in Attempts, Launch(a) PROVE PipeOrder'
  BY <1>1 DEF Launch
<1>2. ASSUME NEW a \in Attempts, PiPrints(a) PROVE PipeOrder'
  BY <1>2 DEF PiPrints
<1>3. ASSUME NEW a \in Attempts, PiExits(a) \/ EscapedEnds(a) \/ WaitReap(a)
      PROVE  PipeOrder'
  <2>1. \A b \in Attempts : proc[b] = "none" => proc'[b] = "none"
    BY <1>3 DEF PiExits, EscapedEnds, WaitReap
  <2>2. UNCHANGED <<printed, read, parser, observer, got, writer>>
    BY <1>3 DEF PiExits, EscapedEnds, WaitReap
  <2>. QED BY <2>1, <2>2
<1>4. ASSUME NEW a \in Attempts, ParserCheck(a) PROVE PipeOrder'
  BY <1>4 DEF ParserCheck, Parsed
<1>5. ASSUME NEW a \in Attempts, ParserRead(a) PROVE PipeOrder'
  BY <1>5 DEF ParserRead, Parsed
<1>6. ASSUME NEW a \in Attempts, ParserLine(a) \/ ParserClose(a) PROVE PipeOrder'
  BY <1>6 DEF ParserLine, ParserClose, Parsed
<1>7. ASSUME NEW a \in Attempts, WaitParse(a) PROVE PipeOrder'
  BY <1>7 DEF WaitParse, procVars
<1>8. ASSUME NEW a \in Attempts, ObserverRead(a) PROVE PipeOrder'
  BY <1>8 DEF ObserverRead, Observed, procVars
<1>9. ASSUME NEW a \in Attempts, ObserverHandle(a) PROVE PipeOrder'
  BY <1>9 DEF ObserverHandle, Observed, procVars
<1>10. ASSUME NEW a \in Attempts, ObserverFlush(a) \/ ObserverRemove(a) PROVE PipeOrder'
  BY <1>10 DEF ObserverFlush, ObserverRemove, Observed, procVars
<1>11. ASSUME NEW a \in Attempts, Write(a) PROVE PipeOrder'
  BY <1>11 DEF Write, WriterTake, WriterTmp, WriterRename, Wrote, procVars
<1>12. CASE Cancel \/ UNCHANGED vars
  BY <1>12 DEF Cancel, vars
<1>. QED
  BY <1>1, <1>2, <1>3, <1>4, <1>5, <1>6, <1>7, <1>8, <1>9, <1>10, <1>11, <1>12
  DEF Next, Parse, Wait, Observe

\* No attempt is stuck once its process is gone: some goroutine of it can go on until
\* wait() has returned and the observer has removed the preview.
THEOREM PipeMakesProgress == Spec => []PipeNotStuck
<1>1. Init => PipeOrder /\ ReadToEnd
  BY OutputFact DEF Init, PipeOrder, ReadToEnd
<1>2. TypeOK /\ PipeOrder /\ ReadToEnd => PipeNotStuck
  <2>. SUFFICES ASSUME TypeOK, PipeOrder, ReadToEnd, NEW a \in Attempts,
                       proc[a] \in {"exited", "reaped"}, a \notin escaped, ~Over(a)
                PROVE  PipeMoves(a)
    BY DEF PipeNotStuck
  <2>1. /\ parser[a] \in {"check", "read", "tee", "close", "done"}
        /\ observer[a] \in {"read", "handle", "flush", "remove", "gone"}
        /\ writer[a] \in {"idle", "write", "rename", "gone"}
        /\ read[a] \in Nat /\ printed[a] \in Nat /\ got[a] \in Nat
    BY OutputFact DEF TypeOK, PipeOrder
  <2>2. CASE parser[a] = "read"
    <3>1. read[a] = printed[a] \/ read[a] < printed[a]
      BY <2>1 DEF PipeOrder
    <3>. QED BY <2>2, <3>1 DEF PipeMoves, Eof
  <2>3. CASE parser[a] = "tee"
    <3>1. observer[a] \in {"read", "handle"}
      BY <2>1, <2>3 DEF PipeOrder
    <3>2. got[a] = read[a] \/ got[a] < read[a]
      BY <2>1 DEF PipeOrder
    <3>. QED BY <2>3, <3>1, <3>2 DEF PipeMoves
  <2>4. CASE parser[a] = "done"
    <3>1. waiter[a] \in {"parse", "reap"} \/ observer[a] # "gone"
      BY DEF Over, ReadToEnd, TypeOK
    <3>2. waiter[a] = "reap" => proc[a] = "exited"
      BY DEF ReadToEnd
    <3>. QED BY <2>1, <2>4, <3>1, <3>2 DEF PipeMoves
  <2>. QED BY <2>1, <2>2, <2>3, <2>4 DEF PipeMoves
<1>. QED BY <1>1, <1>2, TypeInit, TypeStep, ReadStep, OrderStep, PTL DEF Spec

=============================================================================
