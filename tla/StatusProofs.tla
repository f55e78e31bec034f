---------------------------- MODULE StatusProofs ----------------------------
(***************************************************************************)
(* Theorems about pi_status: the types, what the delta tracker's mark      *)
(* means, and that a quiet stretch is warned about once, for any number of *)
(* calls, entries and instants.                                            *)
(***************************************************************************)
EXTENDS StatusWait, TLAPS

USE DEF Keys, Times, Terminal

\* The clock and the times derived from it are instants.
LEMMA NowType ==
  ASSUME TypeOK
  PROVE  now \in Times /\ now \in Nat /\ 0 \in Times /\ MaxNow \in Nat
  <1>1. now \in 1 .. MaxNow BY DEF TypeOK
  <1>2. MaxNow \in Nat BY BoundAssumption
  <1> QED BY <1>1, <1>2

\* The empty values are of their types.
LEMMA EmptyTypes ==
  /\ NoRun \in Run /\ NoTarget \in Target
  /\ NoWait \in [deadline: Times, base: Snapshot, have: BOOLEAN, blind: BOOLEAN,
                 stalled: BOOLEAN]
  <1>1. NoRun \in Run
    BY BoundAssumption DEF NoRun, Run, Disk
  <1>2. NoTarget \in Target
    BY DEF NoTarget, Target
  <1>3. NoBase \in Snapshot
    BY BoundAssumption DEF NoBase, Snapshot
  <1>4. NoWait \in [deadline: Times, base: Snapshot, have: BOOLEAN, blind: BOOLEAN,
                    stalled: BOOLEAN]
    BY <1>3, BoundAssumption DEF NoWait
  <1> QED BY <1>1, <1>2, <1>4

\* What Load and ReadRun return is a version of the run file.
LEMMA LoadType ==
  ASSUME TypeOK, NEW t
  PROVE  /\ Load(t).run \in Run /\ ReadRun.run \in Run
         /\ Load(t).kind \in {"absent", "error", "run"}
  <1>1. NoRun \in Run
    BY BoundAssumption DEF NoRun, Run, Disk
  <1>2. ReadRun.run \in Run /\ ReadRun.kind \in {"error", "run"}
    BY <1>1 DEF ReadRun, TypeOK
  <1> QED BY <1>1, <1>2 DEF Load

\* lastActivity is an instant that has passed.
LEMMA ActivityType ==
  ASSUME TypeOK, NEW t, NEW r \in Run
  PROVE  LastActivity(t, r) \in Times
  BY DEF TypeOK, LastActivity, Run

\* resolveTarget returns a target.
LEMMA ResolvedType ==
  ASSUME TypeOK, NEW k
  PROVE  Resolved(k) \in Target
  BY ModeAssumption DEF TypeOK, Resolved, Target

\* What pi writes is a run.
LEMMA WrittenType ==
  ASSUME TypeOK
  PROVE  Written \subseteq Run
  <1>1. now \in Times
    BY BoundAssumption DEF TypeOK
  <1>2. CASE file = NoRun
    <2>1. NoRun \in Run
      BY BoundAssumption DEF NoRun, Run, Disk
    <2>2. [NoRun EXCEPT !.disk = "running", !.updated = now] \in Run
      BY <1>1, <2>1 DEF Run, Disk
    <2> QED BY <1>2, <2>2 DEF Written
  <1>3. CASE file # NoRun
    <2> DEFINE f == [file EXCEPT !.updated = now]
    <2>1. f \in Run
      BY <1>1 DEF TypeOK, Run
    <2> HIDE DEF f
    <2> SUFFICES ASSUME NEW r \in Written PROVE r \in Run
      OBVIOUS
    <2>2. /\ r \in {[f EXCEPT !.agents = @ + 1], [f EXCEPT !.journal = @ + 1],
                    [f EXCEPT !.phase = @ + 1], [f EXCEPT !.disk = "completed"]}
          /\ r.journal <= r.agents /\ r.agents <= MaxJournal /\ r.phase <= MaxPhase
      BY <1>3 DEF Written, f
    <2>3. CASE r = [f EXCEPT !.agents = @ + 1]
      BY <2>1, <2>2, <2>3, BoundAssumption DEF Run
    <2>4. CASE r = [f EXCEPT !.journal = @ + 1]
      BY <2>1, <2>2, <2>4, BoundAssumption DEF Run
    <2>5. CASE r = [f EXCEPT !.phase = @ + 1]
      BY <2>1, <2>2, <2>5, BoundAssumption DEF Run
    <2>6. CASE r = [f EXCEPT !.disk = "completed"]
      BY <2>1, <2>6 DEF Run, Disk
    <2> QED BY <2>2, <2>3, <2>4, <2>5, <2>6
  <1> QED BY <1>2, <1>3

\* The types hold initially.
LEMMA TypeInit == Init => TypeOK
  <1> SUFFICES ASSUME Init PROVE TypeOK
    OBVIOUS
  <1>1. now \in 1 .. MaxNow /\ wtLast \in Times /\ 0 \in Times
    BY BoundAssumption DEF Init
  <1>2. 0 \in 0 .. GraceRetries /\ 0 \in 0 .. MaxJournal
    BY BoundAssumption, TimeAssumption
  <1>3. job \in [status: {"running"} \cup Terminal, run: BOOLEAN]
    BY DEF Init
  <1>4. /\ mark \in [Keys -> 0 .. MaxJournal] /\ warned \in [Keys -> Times]
        /\ got \in [Keys -> SUBSET (1 .. MaxJournal)]
        /\ warns \in [Keys -> [Times -> Nat]]
    BY <1>1, <1>2 DEF Init
  <1> QED BY <1>1, <1>2, <1>3, <1>4, EmptyTypes DEF Init, TypeOK

\* The type of the locals of waitForChange.
WaitLocals == [deadline: Times, base: Snapshot, have: BOOLEAN, blind: BOOLEAN,
               stalled: BOOLEAN]

\* The positions of a call.
PCs == {"idle", "wait", "warn", "build", "take"}

\* A wait begins with typed locals.
LEMMA NoWaitType == NoWait \in WaitLocals
  BY EmptyTypes DEF WaitLocals

\* The end of a round leaves typed locals.
LEMMA RoundEndsType ==
  ASSUME TypeOK, NEW c \in Calls, NEW time, NEW locals \in WaitLocals
  PROVE  /\ Return(c) => pc' \in [Calls -> PCs] /\ wait' \in [Calls -> WaitLocals]
         /\ RoundEnds(c, time, locals)
              => pc' \in [Calls -> PCs] /\ wait' \in [Calls -> WaitLocals]
  <1>1. pc \in [Calls -> PCs] /\ wait \in [Calls -> WaitLocals]
    BY DEF TypeOK, PCs, WaitLocals
  <1>2. {"wait", "build"} \subseteq PCs
    BY DEF PCs
  <1>3. Return(c) => pc' \in [Calls -> PCs] /\ wait' \in [Calls -> WaitLocals]
    BY <1>1, <1>2, NoWaitType DEF Return
  <1>4. ASSUME pc' = [pc EXCEPT ![c] = "wait"], wait' = [wait EXCEPT ![c] = locals]
        PROVE  pc' \in [Calls -> PCs] /\ wait' \in [Calls -> WaitLocals]
    BY <1>1, <1>2, <1>4
  <1> QED BY <1>3, <1>4 DEF RoundEnds

\* So does the rest of a round with a loaded run.
LEMMA RoundGoesOnType ==
  ASSUME TypeOK, NEW c \in Calls, NEW r \in Run, NEW locals \in WaitLocals,
         RoundGoesOn(c, r, locals)
  PROVE  /\ pc' \in [Calls -> PCs] /\ wait' \in [Calls -> WaitLocals]
         /\ la' \in [Calls -> Times] /\ at' \in [Calls -> Times]
  <1> DEFINE epoch == LastActivity(tgt[c], r)
  <1>1. epoch \in Times /\ now \in Times
    BY ActivityType, NowType
  <1> HIDE DEF epoch
  <1>2. CASE now - epoch > Warn
    <2>1. /\ pc' = [pc EXCEPT ![c] = "warn"]
          /\ wait' = [wait EXCEPT ![c] = locals]
          /\ la' = [la EXCEPT ![c] = epoch] /\ at' = [at EXCEPT ![c] = now]
      BY <1>2 DEF RoundGoesOn, epoch
    <2> QED BY <1>1, <2>1 DEF TypeOK, PCs, WaitLocals
  <1>3. CASE ~(now - epoch > Warn)
    <2>1. RoundEnds(c, now, locals) /\ UNCHANGED <<la, at>>
      BY <1>3 DEF RoundGoesOn, epoch
    <2> QED BY <2>1, RoundEndsType DEF TypeOK
  <1> QED BY <1>2, <1>3

\* The end of a call leaves typed variables.
LEMMA DoneType ==
  ASSUME TypeOK, NEW c \in Calls, Done(c),
         mark' \in [Keys -> 0 .. MaxJournal], warned' = warned, warns' = warns,
         got' \in [Keys -> SUBSET (1 .. MaxJournal)]
  PROVE  TypeOK'
  <1>1. NoRun \in Run /\ NoTarget \in Target
    BY BoundAssumption DEF NoRun, Run, Disk, NoTarget, Target
  <1>2. 0 \in Times /\ 0 \in 0 .. GraceRetries
    BY BoundAssumption, TimeAssumption
  <1> QED BY <1>1, <1>2 DEF Done, TypeOK, runVars

\* Every step keeps the types.
LEMMA TypeNext == TypeOK /\ [Next]_vars => TypeOK'
  <1> SUFFICES ASSUME TypeOK, [Next]_vars PROVE TypeOK'
    OBVIOUS
  <1> USE BoundAssumption, TimeAssumption
  <1>1. CASE Tick
    <2>1. now' \in 1 .. MaxNow
      BY <1>1, NowType DEF Tick
    <2> QED BY <1>1, <2>1 DEF Tick, TypeOK, runVars, callState, callVars, localVars, deltaVars
  <1>2. CASE PiWrite
    BY <1>2, WrittenType DEF PiWrite, TypeOK, callState, callVars, localVars, deltaVars
  <1>3. CASE PiWritten
    BY <1>3 DEF PiWritten, TypeOK, callState, callVars, localVars, deltaVars
  <1>4. CASE WorktreeWrite
    BY <1>4, NowType DEF WorktreeWrite, TypeOK, callState, callVars, localVars, deltaVars
  <1>5. CASE Correlate
    BY <1>5 DEF Correlate, TypeOK, callState, callVars, localVars, deltaVars
  <1>6. CASE Cancel
    BY <1>6 DEF Cancel, TypeOK, callState, callVars, localVars, deltaVars
  <1>7. CASE ProcessEnds
    <2>1. NoRun \in Run
      BY DEF NoRun, Run, Disk
    <2>2. job' \in [status: {"running"} \cup Terminal, run: BOOLEAN]
      BY <1>7 DEF ProcessEnds, TypeOK
    <2>3. file' \in Run /\ bak' \in Run /\ torn' \in BOOLEAN
      BY <1>7, <2>1 DEF ProcessEnds, TypeOK
    <2> QED
      BY <1>7, <2>2, <2>3 DEF ProcessEnds, TypeOK, callState, callVars, localVars, deltaVars
  <1>8. ASSUME NEW c \in Calls, NEW k \in Keys, NEW w \in BOOLEAN, NEW f \in BOOLEAN,
               Call(c, k, w, f)
        PROVE  TypeOK'
    <2>1. tgt' \in [Calls -> Target]
      BY <1>8, ResolvedType DEF Call, TypeOK
    <2>2. NoWait \in WaitLocals
      BY DEF NoWait, NoBase, WaitLocals, Snapshot
    <2>3. wait' \in [Calls -> WaitLocals]
      <3>1. CASE w /\ ~f
        <4>1. now + WaitCap \in Times
          BY <1>8, <3>1, NowType DEF Call
        <4>2. [NoWait EXCEPT !.deadline = now + WaitCap] \in WaitLocals
          BY <2>2, <4>1 DEF WaitLocals
        <4> QED BY <1>8, <3>1, <4>2 DEF Call, TypeOK, WaitLocals
      <3>2. CASE ~(w /\ ~f)
        BY <1>8, <3>2 DEF Call, TypeOK, WaitLocals
      <3> QED BY <3>1, <3>2
    <2>4. pc' \in [Calls -> PCs]
      <3>1. pc' = [pc EXCEPT ![c] = "wait"] \/ pc' = [pc EXCEPT ![c] = "build"]
        BY <1>8 DEF Call
      <3> QED BY <3>1 DEF TypeOK, PCs
    <2> QED
      BY <1>8, <2>1, <2>3, <2>4 DEF Call, TypeOK, PCs, WaitLocals, runVars, localVars, deltaVars
  <1>9. ASSUME NEW c \in Calls, Abandon(c) PROVE TypeOK'
    BY <1>9 DEF Abandon, TypeOK, runVars, callVars, localVars, deltaVars
  <1>10. ASSUME NEW c \in Calls, Round(c),
                pc' \in [Calls -> PCs], wait' \in [Calls -> WaitLocals],
                la' \in [Calls -> Times], at' \in [Calls -> Times]
         PROVE  TypeOK'
    BY <1>10 DEF Round, TypeOK, PCs, WaitLocals, runVars, callVars, deltaVars
  <1>11. ASSUME NEW c \in Calls PROVE wait[c] \in WaitLocals
    BY <1>11 DEF TypeOK, WaitLocals
  <1>12. ASSUME NEW c \in Calls, RoundBlind(c) PROVE TypeOK'
    <2>1. [wait[c] EXCEPT !.blind = TRUE] \in WaitLocals
      BY <1>11 DEF WaitLocals
    <2>2. pc' \in [Calls -> PCs] /\ wait' \in [Calls -> WaitLocals]
      BY <1>12, <2>1, RoundEndsType DEF RoundBlind
    <2>3. la' \in [Calls -> Times] /\ at' \in [Calls -> Times]
      BY <1>12 DEF RoundBlind, TypeOK
    <2> QED BY <1>10, <1>12, <2>2, <2>3 DEF RoundBlind
  <1>13. ASSUME NEW c \in Calls, RoundFirst(c) PROVE TypeOK'
    <2> DEFINE r == Load(tgt[c]).run
               locals == [wait[c] EXCEPT !.base = SnapshotOf(r), !.have = TRUE,
                                         !.stalled = StalledNow(c, r)]
    <2>1. r \in Run
      BY LoadType
    <2>2. SnapshotOf(r) \in Snapshot /\ StalledNow(c, r) \in BOOLEAN
      <3> HIDE DEF r
      <3> QED BY <2>1 DEF SnapshotOf, Snapshot, Run, StalledNow
    <2>3. locals \in WaitLocals
      <3> HIDE DEF r
      <3> QED BY <1>11, <2>2 DEF WaitLocals
    <2>4. CASE wait[c].blind \/ r.disk \in Terminal
      <3>1. Return(c) /\ UNCHANGED <<la, at>>
        BY <1>13, <2>4 DEF RoundFirst
      <3> QED BY <1>10, <1>11, <1>13, <3>1, RoundEndsType DEF RoundFirst, TypeOK
    <2>5. CASE ~(wait[c].blind \/ r.disk \in Terminal)
      <3>1. RoundGoesOn(c, r, locals)
        BY <1>13, <2>5 DEF RoundFirst
      <3> QED BY <1>10, <1>13, <2>1, <2>3, <3>1, RoundGoesOnType DEF RoundFirst
    <2> QED BY <2>4, <2>5
  <1>14. ASSUME NEW c \in Calls, RoundAgain(c) PROVE TypeOK'
    <2> DEFINE r == Load(tgt[c]).run
    <2>1. r \in Run
      BY LoadType
    <2>2. CASE Return(c) /\ UNCHANGED <<la, at>>
      BY <1>10, <1>11, <1>14, <2>2, RoundEndsType DEF RoundAgain, TypeOK
    <2>3. CASE RoundGoesOn(c, r, wait[c])
      BY <1>10, <1>11, <1>14, <2>1, <2>3, RoundGoesOnType DEF RoundAgain
    <2> QED BY <1>14, <2>2, <2>3 DEF RoundAgain
  <1>15. ASSUME NEW c \in Calls, WarnCheck(c) PROVE TypeOK'
    <2>1. pc' \in [Calls -> PCs] /\ wait' \in [Calls -> WaitLocals]
      BY <1>11, <1>15, RoundEndsType DEF WarnCheck
    <2>2. warned' \in [Keys -> Times] /\ warns' \in [Keys -> [Times -> Nat]]
      <3>1. la[c] \in Times /\ Key(tgt[c]) \in Keys
        BY DEF TypeOK, Key
      <3>2. CASE UNCHANGED <<warned, warns>>
        BY <3>2 DEF TypeOK
      <3>3. CASE /\ warned' = [warned EXCEPT ![Key(tgt[c])] = la[c]]
                 /\ warns' = [warns EXCEPT ![Key(tgt[c])][la[c]] = @ + 1]
        <4>1. warns \in [Keys -> [Times -> Nat]] /\ warned \in [Keys -> Times]
          BY DEF TypeOK
        <4> DEFINE k == Key(tgt[c])
                   t == la[c]
                   count == [warns[k] EXCEPT ![t] = @ + 1]
        <4>2. /\ k \in Keys /\ t \in Times
              /\ warned' = [warned EXCEPT ![k] = t] /\ warns' = [warns EXCEPT ![k] = count]
          BY <3>1, <3>3
        <4> HIDE DEF k, t
        <4>3. count \in [Times -> Nat]
          <5>1. warns[k] \in [Times -> Nat]
            BY <4>1, <4>2
          <5>2. warns[k][t] + 1 \in Nat
            BY <4>2, <5>1
          <5> QED BY <4>2, <5>1, <5>2
        <4> HIDE DEF count
        <4> QED BY <4>1, <4>2, <4>3
      <3> QED BY <1>15, <3>2, <3>3 DEF WarnCheck
    <2>3. la' \in [Calls -> Times] /\ at' \in [Calls -> Times]
      BY <1>15, NowType DEF WarnCheck, TypeOK
    <2> QED
      BY <1>15, <2>1, <2>2, <2>3 DEF WarnCheck, TypeOK, PCs, WaitLocals, runVars, callVars
  <1>16. ASSUME NEW c \in Calls, WaitGone(c) PROVE TypeOK'
    <2>1. pc' \in [Calls -> PCs] /\ wait' \in [Calls -> WaitLocals]
      BY <1>11, <1>16, RoundEndsType DEF WaitGone
    <2> QED
      BY <1>16, <2>1
      DEF WaitGone, TypeOK, PCs, WaitLocals, runVars, callVars, localVars, deltaVars
  <1>17. ASSUME NEW c \in Calls, BuildAbsent(c) \/ BuildError(c) PROVE TypeOK'
    <2>1. Done(c) /\ UNCHANGED deltaVars
      BY <1>17 DEF BuildAbsent, BuildError
    <2> QED BY <2>1, DoneType DEF deltaVars, TypeOK
  <1>18. ASSUME NEW c \in Calls, BuildRetry(c) PROVE TypeOK'
    <2>1. BuildTime(c) \in Times
      BY NowType DEF BuildTime, TypeOK
    <2>2. tries' \in [Calls -> 0 .. GraceRetries]
      <3>1. tries[c] \in 0 .. GraceRetries /\ tries[c] < GraceRetries
        BY <1>18 DEF BuildRetry, MayRetryLoad, TypeOK
      <3>2. tries[c] + 1 \in 0 .. GraceRetries
        BY <3>1
      <3> QED BY <1>18, <3>2 DEF BuildRetry, TypeOK
    <2>3. at' \in [Calls -> Times]
      BY <1>18, <2>1 DEF BuildRetry, TypeOK
    <2> QED BY <1>18, <2>2, <2>3 DEF BuildRetry, TypeOK, runVars, callVars, deltaVars
  <1>19. ASSUME NEW c \in Calls, BuildLoad(c) PROVE TypeOK'
    <2>1. BuildTime(c) \in Times /\ Load(tgt[c]).run \in Run
      BY LoadType, NowType DEF BuildTime, TypeOK
    <2>2. seen' \in [Calls -> Run] /\ at' \in [Calls -> Times]
      BY <1>19, <2>1 DEF BuildLoad, TypeOK
    <2>3. pc' \in [Calls -> PCs]
      BY <1>19 DEF BuildLoad, TypeOK, PCs
    <2> QED BY <1>19, <2>2, <2>3 DEF BuildLoad, TypeOK, PCs, runVars, callVars, deltaVars
  <1>20. ASSUME NEW c \in Calls, BuildTake(c) PROVE TypeOK'
    <2> DEFINE k == Key(tgt[c])
               from == TakeFrom(mark[k], seen[c], replay[c])
    <2>1. k \in Keys /\ seen[c].journal \in 0 .. MaxJournal
      BY DEF Key, TypeOK, Run
    <2>2. from \in 0 .. MaxJournal
      <3>1. mark[k] \in 0 .. MaxJournal
        BY <2>1 DEF TypeOK
      <3> QED BY <3>1, BoundAssumption DEF TakeFrom
    <2>3. EventsSince(seen[c], from) \subseteq 1 .. MaxJournal
      <3> HIDE DEF from
      <3> QED BY <2>1, <2>2 DEF EventsSince
    <2>4. mark' \in [Keys -> 0 .. MaxJournal]
      BY <1>20, <2>1 DEF BuildTake, TakeTo, TypeOK
    <2>5. got' \in [Keys -> SUBSET (1 .. MaxJournal)]
      <3>1. \/ got' = got
            \/ got' = [got EXCEPT ![k] = got[k] \cup EventsSince(seen[c], from)]
        BY <1>20 DEF BuildTake
      <3>2. got \in [Keys -> SUBSET (1 .. MaxJournal)]
        BY DEF TypeOK
      <3> DEFINE new == EventsSince(seen[c], from)
      <3> HIDE DEF k, from, new
      <3>3. got[k] \cup new \in SUBSET (1 .. MaxJournal)
        BY <2>1, <2>3, <3>2 DEF new
      <3> QED BY <2>1, <3>1, <3>2, <3>3 DEF new
    <2> QED BY <1>20, <2>4, <2>5, DoneType DEF BuildTake
  <1>21. CASE UNCHANGED vars
    BY <1>21 DEF vars, TypeOK, runVars, callVars, localVars, deltaVars
  <1> QED
    BY <1>1, <1>2, <1>3, <1>4, <1>5, <1>6, <1>7, <1>8, <1>9, <1>12, <1>13, <1>14, <1>15,
       <1>16, <1>17, <1>18, <1>19, <1>20, <1>21
    DEF Next, Environment, Handle

\* Every variable of pi_status keeps its type; in particular a load is repeated
\* at most graceRetries times.
THEOREM TypeCorrect == Spec => []TypeOK
  BY TypeInit, TypeNext, PTL DEF Spec
-----------------------------------------------------------------------------
(***************************************************************************)
(* The delta tracker.                                                      *)
(***************************************************************************)
\* Nobody gives up on a call.
NoneGone == \A c \in Calls : ~gone[c]

\* A step of a call that is not abandoned keeps the meaning of the mark: take
\* delivers from the mark, or from the start when the journal is shorter.
LEMMA DeltaNext ==
  ASSUME ~Abandons, TypeOK, NoneGone, MarkMeansDelivered, [Next]_vars
  PROVE  NoneGone' /\ MarkMeansDelivered'
  <1>1. NoneGone'
    <2>1. gone' = gone \/ \E c \in Calls : gone' = [gone EXCEPT ![c] = FALSE]
      BY DEF Next, Environment, Handle, vars, runVars, callVars, localVars, deltaVars,
             callState, Tick, PiWrite, PiWritten, WorktreeWrite, Correlate, Cancel,
             ProcessEnds, Call, Abandon, Round, RoundBlind, RoundFirst, RoundAgain,
             WarnCheck, WaitGone, BuildAbsent, BuildRetry, BuildError, BuildLoad,
             BuildTake, Done
    <2> QED BY <2>1 DEF NoneGone, TypeOK
  <1>2. CASE UNCHANGED <<mark, got>>
    BY <1>1, <1>2 DEF MarkMeansDelivered
  <1>3. ASSUME NEW c \in Calls, BuildTake(c) PROVE MarkMeansDelivered'
    <2> DEFINE k == Key(tgt[c])
               n == seen[c].journal
               from == TakeFrom(mark[k], seen[c], replay[c])
    <2>1. k \in Keys /\ n \in Nat /\ mark[k] \in Nat
      BY BoundAssumption DEF Key, TypeOK, Run
    <2>2. /\ mark' = [mark EXCEPT ![k] = n]
          /\ got' = [got EXCEPT ![k] = got[k] \cup ((from + 1) .. n)]
      BY <1>3 DEF BuildTake, NoneGone, TakeTo, EventsSince
    <2>3. from = 0 \/ (from = mark[k] /\ from <= n)
      BY <2>1 DEF TakeFrom
    <2> HIDE DEF k, n, from
    <2>4. mark \in [Keys -> 0 .. MaxJournal] /\ got \in [Keys -> SUBSET (1 .. MaxJournal)]
      BY DEF TypeOK
    <2>5. (1 .. n) \subseteq (1 .. from) \cup ((from + 1) .. n)
      BY <2>1, <2>3
    <2>6. (1 .. from) \subseteq got[k]
      BY <2>1, <2>3 DEF MarkMeansDelivered
    <2>7. (1 .. n) \subseteq got[k] \cup ((from + 1) .. n)
      BY <2>5, <2>6
    <2> SUFFICES ASSUME NEW l \in Keys PROVE (1 .. mark'[l]) \subseteq got'[l]
      BY DEF MarkMeansDelivered
    <2>8. CASE l = k
      <3>1. mark'[l] = n /\ got'[l] = got[k] \cup ((from + 1) .. n)
        BY <2>1, <2>2, <2>4, <2>8
      <3> QED BY <2>7, <3>1
    <2>9. CASE l # k
      <3>1. mark'[l] = mark[l] /\ got'[l] = got[l]
        BY <2>2, <2>4, <2>9
      <3> QED BY <3>1 DEF MarkMeansDelivered
    <2> QED BY <2>8, <2>9
  <1>4. \/ UNCHANGED <<mark, got>>
        \/ \E c \in Calls : BuildTake(c)
    BY DEF Next, Environment, Handle, vars, runVars, callVars, localVars, deltaVars,
           callState, Tick, PiWrite, PiWritten, WorktreeWrite, Correlate, Cancel,
           ProcessEnds, Call, Abandon, Round, RoundBlind, RoundFirst, RoundAgain,
           WarnCheck, WaitGone, BuildAbsent, BuildRetry, BuildError, BuildLoad
  <1> QED BY <1>1, <1>2, <1>3, <1>4

\* While no client gives up on a call, every journal entry below the tracker's
\* mark has been received, whatever versions of the run concurrent calls load
\* and in whichever order they take.
THEOREM DeltaCorrect == ~Abandons /\ Spec => []MarkMeansDelivered
  <1>1. Init => NoneGone /\ MarkMeansDelivered
    BY DEF Init, NoneGone, MarkMeansDelivered
  <1>2. ~Abandons /\ TypeOK /\ NoneGone /\ MarkMeansDelivered /\ [Next]_vars
          => (NoneGone /\ MarkMeansDelivered)'
    BY DeltaNext
  <1>3. CASE ~Abandons
    <2>1. TypeOK /\ NoneGone /\ MarkMeansDelivered /\ [Next]_vars
            => (NoneGone /\ MarkMeansDelivered)'
      BY <1>2, <1>3
    <2> QED BY <1>1, <2>1, TypeCorrect, PTL DEF Spec
  <1>4. CASE Abandons
    BY <1>4
  <1> QED BY <1>3, <1>4

\* What was warned about is not later than the last epoch warned about.
WarnBound == \A k \in Keys, t \in Times : warns[k][t] = 0 \/ (warns[k][t] = 1 /\ t <= warned[k])

\* shouldWarn only moves forward.
LEMMA WarnNext == TypeOK /\ WarnBound /\ [Next]_vars => WarnBound'
  <1> SUFFICES ASSUME TypeOK, WarnBound, [Next]_vars PROVE WarnBound'
    OBVIOUS
  <1>1. CASE UNCHANGED <<warned, warns>>
    BY <1>1 DEF WarnBound
  <1>2. ASSUME NEW c \in Calls, WarnCheck(c) PROVE WarnBound'
    <2> DEFINE k == Key(tgt[c])
               e == la[c]
    <2>1. k \in Keys /\ e \in Times /\ MaxNow \in Nat
      BY BoundAssumption DEF Key, TypeOK
    <2>2. warned \in [Keys -> Times] /\ warns \in [Keys -> [Times -> Nat]]
      BY DEF TypeOK
    <2>3. CASE ShouldWarn(k, e)
      <3>1. /\ warned' = [warned EXCEPT ![k] = e]
            /\ warns' = [warns EXCEPT ![k] = [warns[k] EXCEPT ![e] = warns[k][e] + 1]]
            /\ e > warned[k]
        BY <1>2, <2>3 DEF WarnCheck, ShouldWarn
      <3> HIDE DEF k, e
      <3>2. warns[k][e] = 0
        BY <2>1, <2>2, <3>1 DEF WarnBound
      <3> SUFFICES ASSUME NEW l \in Keys, NEW t \in Times
                   PROVE  warns'[l][t] = 0 \/ (warns'[l][t] = 1 /\ t <= warned'[l])
        BY DEF WarnBound
      <3>3. CASE l # k
        <4>1. warns'[l] = warns[l] /\ warned'[l] = warned[l]
          BY <2>2, <3>1, <3>3
        <4> QED BY <4>1 DEF WarnBound
      <3>4. CASE l = k
        <4>1. /\ warned'[l] = e
              /\ warns'[l] = [warns[k] EXCEPT ![e] = warns[k][e] + 1]
          BY <2>1, <2>2, <3>1, <3>4
        <4>2. warns[k] \in [Times -> Nat] /\ warned[k] \in Times
          BY <2>1, <2>2
        <4>3. CASE t = e
          BY <2>1, <3>2, <4>1, <4>2, <4>3
        <4>4. CASE t # e
          <5>1. warns'[l][t] = warns[k][t]
            BY <4>1, <4>2, <4>4
          <5>2. warns[k][t] = 0 \/ (warns[k][t] = 1 /\ t <= warned[k])
            BY <2>1 DEF WarnBound
          <5> QED BY <2>1, <3>1, <4>1, <4>2, <5>1, <5>2
        <4> QED BY <4>3, <4>4
      <3> QED BY <3>3, <3>4
    <2>4. CASE ~ShouldWarn(k, e)
      BY <1>1, <1>2, <2>4 DEF WarnCheck
    <2> QED BY <2>3, <2>4
  <1>3. \/ UNCHANGED <<warned, warns>>
        \/ \E c \in Calls : WarnCheck(c)
    BY DEF Next, Environment, Handle, vars, runVars, callVars, localVars, deltaVars,
           callState, Tick, PiWrite, PiWritten, WorktreeWrite, Correlate, Cancel,
           ProcessEnds, Call, Abandon, Round, RoundBlind, RoundFirst, RoundAgain,
           WaitGone, BuildAbsent, BuildRetry, BuildError, BuildLoad, BuildTake
  <1> QED BY <1>1, <1>2, <1>3

\* Under one delta key no activity epoch is warned about twice, however many
\* waits see it and even when one of them asks about an older epoch.
THEOREM WarnedOncePerKey == Spec => []WarnOncePerKey
  <1>1. Init => WarnBound
    BY DEF Init, WarnBound
  <1>2. WarnBound => WarnOncePerKey
    BY DEF WarnBound, WarnOncePerKey
  <1> QED BY <1>1, <1>2, WarnNext, TypeCorrect, PTL DEF Spec

=============================================================================
