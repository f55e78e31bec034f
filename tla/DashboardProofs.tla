--------------------------- MODULE DashboardProofs ---------------------------
(***************************************************************************)
(* Proofs about RunCache and Dashboard, for any number of versions of the  *)
(* run file, of clients and of frames a client's channel holds.            *)
(***************************************************************************)
EXTENDS Dashboard, TLAPS

\* The disk changes by pi's writes and by removals: the types of what they leave.
LEMMA DiskStep ==
  ASSUME CacheTypeOK, BeginWrite \/ EndWrite \/ RemoveFile
  PROVE  CacheTypeOK'
<1>. USE RunCacheAssumption
<1>1. written \in 0..MaxVer /\ bak \in 0..MaxVer /\ MaxVer \in Nat
  BY DEF CacheTypeOK
<1>2. written' \in 0..MaxVer /\ bak' \in 0..MaxVer /\ state' \in {"absent", "torn", "whole"}
      /\ UNCHANGED <<entry, rd>>
  <2>1. CASE BeginWrite
    BY <1>1, <2>1 DEF BeginWrite
  <2>2. CASE EndWrite
    BY <1>1, <2>2 DEF EndWrite
  <2>3. CASE RemoveFile
    BY <1>1, <2>3 DEF RemoveFile
  <2>. QED BY <2>1, <2>2, <2>3
<1>. QED BY <1>2 DEF CacheTypeOK

\* A reader's locals.
Locals == [pc : ReadPc, key : Key, ver : 0..MaxVer]

LEMMA CallType ==
  ASSUME CacheTypeOK, NEW r \in Readers, NEW b \in BOOLEAN, CallRead(r, b)
  PROVE  rd' \in [Readers -> Locals]
<1>1. [pc |-> IF b THEN "stat" ELSE "done", key |-> <<0, "torn">>, ver |-> 0] \in Locals
  BY RunCacheAssumption DEF Locals, ReadPc, Key
<1>2. [Idle EXCEPT !.pc = IF b THEN "stat" ELSE "done"]
        = [pc |-> IF b THEN "stat" ELSE "done", key |-> <<0, "torn">>, ver |-> 0]
  BY DEF Idle, NoEntry
<1>. QED BY <1>1, <1>2 DEF CallRead, CacheTypeOK, Locals

LEMMA ReadType ==
  ASSUME CacheTypeOK, NEW r \in Readers, ReadStep(r), rd[r].pc = "store" => rd[r].ver # 0
  PROVE  CacheTypeOK' /\ UNCHANGED diskVars
<1>. USE RunCacheAssumption
<1>0. /\ rd \in [Readers -> Locals] /\ rd[r] \in Locals
      /\ Primary \in 0..MaxVer /\ bak \in 0..MaxVer
      /\ state # "absent" => StatKey \in Key
  BY DEF CacheTypeOK, Locals, Primary, StatKey, Key
<1>1. ASSUME UNCHANGED diskVars, entry' \in Entry \cup {NoEntry},
             NEW l \in Locals, rd' = [rd EXCEPT ![r] = l]
      PROVE  CacheTypeOK' /\ UNCHANGED diskVars
  BY <1>0, <1>1 DEF CacheTypeOK, diskVars, Locals
<1>2. /\ \A pc \in ReadPc : [rd[r] EXCEPT !.pc = pc] \in Locals
      /\ \A pc \in ReadPc, key \in Key : [rd[r] EXCEPT !.pc = pc, !.key = key] \in Locals
      /\ \A pc \in ReadPc, ver \in 0..MaxVer :
           [rd[r] EXCEPT !.pc = pc, !.ver = ver] \in Locals
  BY <1>0 DEF Locals
<1>3. entry \in Entry \cup {NoEntry} /\ NoEntry \in Entry \cup {NoEntry}
  BY DEF CacheTypeOK
<1>4. /\ "drop" \in ReadPc /\ "lookup" \in ReadPc /\ "recover" \in ReadPc /\ "done" \in ReadPc
      /\ "parse" \in ReadPc /\ "store" \in ReadPc /\ "parseBak" \in ReadPc
      /\ "recoverBak" \in ReadPc
  BY DEF ReadPc
<1>5. CASE ReadStat(r)
  <2>. DEFINE l == IF state = "absent" THEN [rd[r] EXCEPT !.pc = "drop"]
                    ELSE [rd[r] EXCEPT !.pc = "lookup", !.key = StatKey]
  <2>1. l \in Locals
    BY <1>0, <1>2, <1>4
  <2>2. rd' = [rd EXCEPT ![r] = l] /\ UNCHANGED diskVars
    BY <1>5 DEF ReadStat
  <2>3. entry' \in Entry \cup {NoEntry}
    BY <1>3, <1>5 DEF ReadStat
  <2>. QED BY <1>1, <2>1, <2>2, <2>3, Zenon
<1>6. CASE ReadDrop(r)
  <2>. DEFINE l == [rd[r] EXCEPT !.pc = "recover"]
  <2>1. l \in Locals
    BY <1>0, <1>2, <1>4
  <2>2. rd' = [rd EXCEPT ![r] = l] /\ UNCHANGED diskVars
    BY <1>6 DEF ReadDrop
  <2>3. entry' \in Entry \cup {NoEntry}
    BY <1>3, <1>6 DEF ReadDrop
  <2>. QED BY <1>1, <2>1, <2>2, <2>3, Zenon
<1>7. CASE ReadLookup(r)
  <2>1. PICK e \in Swept : entry' = e /\ rd' = [rd EXCEPT ![r] =
            IF Hit(e, rd[r].key)
            THEN [rd[r] EXCEPT !.pc = "done", !.ver = e.ver]
            ELSE [rd[r] EXCEPT !.pc = "parse"]]
    BY <1>7 DEF ReadLookup
  <2>. DEFINE l == IF Hit(e, rd[r].key) THEN [rd[r] EXCEPT !.pc = "done", !.ver = e.ver]
                   ELSE [rd[r] EXCEPT !.pc = "parse"]
  <2>2. entry' \in Entry \cup {NoEntry}
    BY <1>3, <2>1 DEF Swept
  <2>3. Hit(e, rd[r].key) => e.ver \in 0..MaxVer
    BY <1>3, <2>1 DEF Swept, Hit, Entry
  <2>4. l \in Locals
    BY <1>0, <1>2, <1>4, <2>3
  <2>5. UNCHANGED diskVars
    BY <1>7 DEF ReadLookup
  <2>. QED BY <1>1, <2>1, <2>2, <2>4, <2>5, Zenon
<1>8. CASE ReadParse(r)
  <2>. DEFINE l == IF Primary # 0 THEN [rd[r] EXCEPT !.pc = "store", !.ver = Primary]
                   ELSE [rd[r] EXCEPT !.pc = "parseBak"]
  <2>1. l \in Locals
    BY <1>0, <1>2, <1>4
  <2>2. rd' = [rd EXCEPT ![r] = l] /\ UNCHANGED diskVars
    BY <1>8 DEF ReadParse
  <2>3. entry' \in Entry \cup {NoEntry}
    BY <1>3, <1>8 DEF ReadParse
  <2>. QED BY <1>1, <2>1, <2>2, <2>3, Zenon
<1>9. CASE ReadParseBak(r)
  <2>. DEFINE l == IF bak # 0 THEN [rd[r] EXCEPT !.pc = "store", !.ver = bak]
                   ELSE [rd[r] EXCEPT !.pc = "recover"]
  <2>1. l \in Locals
    BY <1>0, <1>2, <1>4
  <2>2. rd' = [rd EXCEPT ![r] = l] /\ UNCHANGED diskVars
    BY <1>9 DEF ReadParseBak
  <2>3. entry' \in Entry \cup {NoEntry}
    BY <1>3, <1>9 DEF ReadParseBak
  <2>. QED BY <1>1, <2>1, <2>2, <2>3, Zenon
<1>10. CASE ReadStore(r)
  <2>. DEFINE l == [rd[r] EXCEPT !.pc = "done"]
  <2>1. l \in Locals
    BY <1>0, <1>2, <1>4
  <2>2. rd' = [rd EXCEPT ![r] = l] /\ UNCHANGED diskVars
    BY <1>10 DEF ReadStore
  <2>3. entry' \in Entry \cup {NoEntry}
    BY <1>0, <1>10 DEF ReadStore, Entry, Locals
  <2>. QED BY <1>1, <2>1, <2>2, <2>3, Zenon
<1>11. CASE ReadRecover(r)
  <2>. DEFINE l == IF Primary # 0 THEN [rd[r] EXCEPT !.pc = "done", !.ver = Primary]
                   ELSE [rd[r] EXCEPT !.pc = "recoverBak"]
  <2>1. l \in Locals
    BY <1>0, <1>2, <1>4
  <2>2. rd' = [rd EXCEPT ![r] = l] /\ UNCHANGED diskVars
    BY <1>11 DEF ReadRecover
  <2>3. entry' \in Entry \cup {NoEntry}
    BY <1>3, <1>11 DEF ReadRecover
  <2>. QED BY <1>1, <2>1, <2>2, <2>3, Zenon
<1>12. CASE ReadRecoverBak(r)
  <2>. DEFINE l == [rd[r] EXCEPT !.pc = "done", !.ver = bak]
  <2>1. l \in Locals
    BY <1>0, <1>2, <1>4
  <2>2. rd' = [rd EXCEPT ![r] = l] /\ UNCHANGED diskVars
    BY <1>12 DEF ReadRecoverBak
  <2>3. entry' \in Entry \cup {NoEntry}
    BY <1>3, <1>12 DEF ReadRecoverBak
  <2>. QED BY <1>1, <2>1, <2>2, <2>3, Zenon
<1>. QED BY <1>5, <1>6, <1>7, <1>8, <1>9, <1>10, <1>11, <1>12 DEF ReadStep

-----------------------------------------------------------------------------
\* What KeysCoherent says of one reader's locals.
Held(l) ==
  /\ Past(l.key)
  /\ l.pc = "store" => l.ver # 0
  /\ state = "whole" /\ l.key = StatKey =>
       /\ l.pc = "store" => l.ver = written
       /\ l.pc # "parseBak"

LEMMA KeysByReader ==
  /\ KeysCoherent <=>
       /\ CacheCoherent /\ Past(entry.key) /\ (state # "absent" => written # 0)
       /\ \A r \in Readers : Held(rd[r])
  /\ KeysCoherent' <=>
       /\ CacheCoherent' /\ Past(entry.key)' /\ (state' # "absent" => written' # 0)
       /\ \A r \in Readers : Held(rd[r])'
  BY DEF KeysCoherent, Held

\* pi's writes and removals keep the keys coherent.
LEMMA DiskCoherent ==
  ASSUME CacheTypeOK, KeysCoherent, BeginWrite \/ EndWrite \/ RemoveFile
  PROVE  KeysCoherent'
<1>. USE RunCacheAssumption
<1>1. /\ written \in 0..MaxVer /\ MaxVer \in Nat
      /\ entry.key \in Key /\ \A r \in Readers : rd[r] \in Locals /\ rd[r].key \in Key
  BY DEF CacheTypeOK, Entry, NoEntry, Key, Locals
<1>2. CASE BeginWrite
  <2>1. written' = written + 1 /\ state' = "torn" /\ UNCHANGED <<entry, rd>>
    BY <1>2 DEF BeginWrite
  <2>2. ASSUME NEW k \in Key, Past(k) PROVE Past(k)'
    BY <1>1, <2>1, <2>2 DEF Past, Key
  <2>. QED BY <1>1, <2>1, <2>2 DEF KeysCoherent, CacheCoherent
<1>3. CASE EndWrite
  <2>1. written' = written /\ state = "torn" /\ state' = "whole" /\ UNCHANGED <<entry, rd>>
    BY <1>3 DEF EndWrite
  <2>2. ASSUME NEW k \in Key, Past(k) PROVE Past(k)' /\ k # StatKey'
    BY <1>1, <2>1, <2>2 DEF Past, Key, StatKey
  <2>. QED BY <1>1, <2>1, <2>2 DEF KeysCoherent, CacheCoherent
<1>4. CASE RemoveFile
  <2>1. written' = written /\ state' = "absent" /\ UNCHANGED <<entry, rd>>
    BY <1>4 DEF RemoveFile
  <2>2. ASSUME NEW k \in Key, Past(k) PROVE Past(k)'
    BY <1>1, <2>1, <2>2 DEF Past, Key
  <2>. QED BY <1>1, <2>1, <2>2 DEF KeysCoherent, CacheCoherent
<1>. QED BY <1>2, <1>3, <1>4

\* A step of reader r that leaves the disk alone keeps them when its new locals and
\* the new entry do.
LEMMA ReaderCoherent ==
  ASSUME CacheTypeOK, KeysCoherent, NEW r \in Readers, UNCHANGED diskVars,
         NEW l, rd' = [rd EXCEPT ![r] = l], Held(l),
         Past(entry'.key),
         state = "whole" /\ entry' # NoEntry /\ entry'.key = StatKey => entry'.ver = written
  PROVE  KeysCoherent'
<1>1. UNCHANGED <<written, state, bak>>
  BY DEF diskVars
<1>2. CacheCoherent' /\ Past(entry.key)'
  BY <1>1 DEF CacheCoherent, Past, StatKey
<1>3. ASSUME NEW q \in Readers PROVE Held(rd[q])'
  <2>1. Held(rd'[q])
    BY KeysByReader DEF CacheTypeOK
  <2>. QED BY <1>1, <2>1 DEF Held, Past, StatKey
<1>. QED BY <1>1, <1>2, <1>3, KeysByReader

\* Every read keeps them.
LEMMA ReadCoherent ==
  ASSUME CacheTypeOK, KeysCoherent, NEW r \in Readers, ReadStep(r)
  PROVE  KeysCoherent'
<1>. USE RunCacheAssumption
<1>0. /\ rd[r] \in Locals /\ rd[r].key \in Key /\ Held(rd[r])
      /\ written \in 0..MaxVer /\ bak \in 0..MaxVer /\ MaxVer \in Nat
      /\ entry \in Entry \cup {NoEntry} /\ Past(entry.key) /\ CacheCoherent
      /\ state # "absent" => written # 0
  BY KeysByReader DEF CacheTypeOK, Locals
<1>1. /\ Past(StatKey) /\ Past(NoEntry.key)
      /\ state = "whole" /\ entry # NoEntry /\ entry.key = StatKey => entry.ver = written
  BY <1>0 DEF Past, StatKey, NoEntry, CacheCoherent
<1>2. CASE ReadStat(r)
  <2>. DEFINE l == IF state = "absent" THEN [rd[r] EXCEPT !.pc = "drop"]
                    ELSE [rd[r] EXCEPT !.pc = "lookup", !.key = StatKey]
  <2>1. Held(l)
    BY <1>0, <1>1 DEF Held, Locals
  <2>2. rd' = [rd EXCEPT ![r] = l] /\ UNCHANGED <<diskVars, entry>>
    BY <1>2 DEF ReadStat
  <2>. QED BY <1>0, <1>1, <2>1, <2>2, ReaderCoherent
<1>3. CASE ReadDrop(r)
  <2>. DEFINE l == [rd[r] EXCEPT !.pc = "recover"]
  <2>1. Held(l)
    BY <1>0 DEF Held, Locals
  <2>2. rd' = [rd EXCEPT ![r] = l] /\ UNCHANGED diskVars /\ entry' = NoEntry
    BY <1>3 DEF ReadDrop
  <2>. QED BY <1>1, <2>1, <2>2, ReaderCoherent
<1>4. CASE ReadLookup(r)
  <2>1. PICK e \in Swept : entry' = e /\ rd' = [rd EXCEPT ![r] =
            IF Hit(e, rd[r].key)
            THEN [rd[r] EXCEPT !.pc = "done", !.ver = e.ver]
            ELSE [rd[r] EXCEPT !.pc = "parse"]]
    BY <1>4 DEF ReadLookup
  <2>. DEFINE l == IF Hit(e, rd[r].key) THEN [rd[r] EXCEPT !.pc = "done", !.ver = e.ver]
                   ELSE [rd[r] EXCEPT !.pc = "parse"]
  <2>2. Held(l)
    BY <1>0 DEF Held, Locals
  <2>3. entry' = entry \/ entry' = NoEntry
    BY <2>1 DEF Swept
  <2>4. UNCHANGED diskVars
    BY <1>4 DEF ReadLookup
  <2>. QED BY <1>0, <1>1, <2>1, <2>2, <2>3, <2>4, ReaderCoherent
<1>5. CASE ReadParse(r)
  <2>. DEFINE l == IF Primary # 0 THEN [rd[r] EXCEPT !.pc = "store", !.ver = Primary]
                   ELSE [rd[r] EXCEPT !.pc = "parseBak"]
  <2>0. state = "whole" /\ rd[r].key = StatKey => Primary = written
    BY DEF Primary
  <2>a. state = "whole" /\ Primary = 0 => rd[r].key # StatKey
    BY <1>0 DEF Primary
  <2>1. Held(l)
    BY <1>0, <2>0, <2>a DEF Held, Locals
  <2>2. rd' = [rd EXCEPT ![r] = l] /\ UNCHANGED <<diskVars, entry>>
    BY <1>5 DEF ReadParse
  <2>. QED BY <1>0, <1>1, <2>1, <2>2, ReaderCoherent
<1>6. CASE ReadParseBak(r)
  <2>. DEFINE l == IF bak # 0 THEN [rd[r] EXCEPT !.pc = "store", !.ver = bak]
                   ELSE [rd[r] EXCEPT !.pc = "recover"]
  <2>1. Held(l)
    BY <1>0, <1>6 DEF Held, Locals, ReadParseBak
  <2>2. rd' = [rd EXCEPT ![r] = l] /\ UNCHANGED <<diskVars, entry>>
    BY <1>6 DEF ReadParseBak
  <2>. QED BY <1>0, <1>1, <2>1, <2>2, ReaderCoherent
<1>7. CASE ReadStore(r)
  <2>. DEFINE l == [rd[r] EXCEPT !.pc = "done"]
  <2>1. Held(l)
    BY <1>0 DEF Held, Locals
  <2>2. rd' = [rd EXCEPT ![r] = l] /\ UNCHANGED diskVars
        /\ entry' = [key |-> rd[r].key, ver |-> rd[r].ver] /\ rd[r].pc = "store"
    BY <1>7 DEF ReadStore
  <2>. QED BY <1>0, <2>1, <2>2, ReaderCoherent DEF Held
<1>8. CASE ReadRecover(r)
  <2>. DEFINE l == IF Primary # 0 THEN [rd[r] EXCEPT !.pc = "done", !.ver = Primary]
                   ELSE [rd[r] EXCEPT !.pc = "recoverBak"]
  <2>1. Held(l)
    BY <1>0 DEF Held, Locals
  <2>2. rd' = [rd EXCEPT ![r] = l] /\ UNCHANGED <<diskVars, entry>>
    BY <1>8 DEF ReadRecover
  <2>. QED BY <1>0, <1>1, <2>1, <2>2, ReaderCoherent
<1>9. CASE ReadRecoverBak(r)
  <2>. DEFINE l == [rd[r] EXCEPT !.pc = "done", !.ver = bak]
  <2>1. Held(l)
    BY <1>0 DEF Held, Locals
  <2>2. rd' = [rd EXCEPT ![r] = l] /\ UNCHANGED <<diskVars, entry>>
    BY <1>9 DEF ReadRecoverBak
  <2>. QED BY <1>0, <1>1, <2>1, <2>2, ReaderCoherent
<1>. QED BY <1>2, <1>3, <1>4, <1>5, <1>6, <1>7, <1>8, <1>9 DEF ReadStep

\* So does a call, and the return that forgets the locals.
LEMMA CallCoherent ==
  ASSUME CacheTypeOK, KeysCoherent, NEW r \in Readers, UNCHANGED <<diskVars, entry>>,
         (\E b \in BOOLEAN : CallRead(r, b)) \/ rd' = [rd EXCEPT ![r] = Idle]
  PROVE  KeysCoherent'
<1>1. written \in Nat /\ Past(entry.key) /\ CacheCoherent
  BY RunCacheAssumption DEF CacheTypeOK, KeysCoherent
<1>2. PICK pc \in {"stat", "done", "idle"} : rd' = [rd EXCEPT ![r] = [Idle EXCEPT !.pc = pc]]
  <2>1. [Idle EXCEPT !.pc = "idle"] = Idle
    BY DEF Idle
  <2>. QED BY <2>1 DEF CallRead
<1>3. Held([Idle EXCEPT !.pc = pc])
  BY <1>1 DEF Held, Idle, NoEntry, Past
<1>. QED BY <1>1, <1>2, <1>3, ReaderCoherent DEF CacheCoherent

-----------------------------------------------------------------------------
\* The conjuncts of TypeOK, component by component.
RowType ==
  /\ row \in Row /\ proc \in ProcStates
  /\ stale \in 0..(MaxVer + 1) /\ wtActive \in BOOLEAN
PollType ==
  /\ pl \in [pc : PollPc, rec : Row, at : Moment] /\ subs \subseteq {"registry", "runs"}
  /\ latest \in Summary /\ primed \in BOOLEAN
HubType ==
  /\ hub \subseteq Clients /\ closed \subseteq Clients /\ dropped \subseteq Clients
  /\ buf \in [Clients -> Seq(Summary)] /\ \A c \in Clients : Len(buf[c]) <= HubBuffer
  /\ cl \in [Clients -> [pc : ClientPc, shown : Summary]]
DetailType ==
  /\ dt \in Request
  /\ faults \in 0..MaxFaults

LEMMA TypeParts ==
  /\ TypeOK <=> CacheTypeOK /\ RowType /\ PollType /\ HubType /\ DetailType
  /\ TypeOK' <=> CacheTypeOK' /\ RowType' /\ PollType' /\ HubType' /\ DetailType'
  BY DEF TypeOK, RowType, PollType, HubType, DetailType

\* A step that leaves a component's variables alone keeps their types.
LEMMA TypeFrame ==
  /\ CacheTypeOK /\ UNCHANGED cacheVars => CacheTypeOK'
  /\ RowType /\ UNCHANGED rowVars => RowType'
  /\ PollType /\ UNCHANGED pollVars => PollType'
  /\ HubType /\ UNCHANGED hubVars => HubType'
  /\ DetailType /\ UNCHANGED <<dt, faults>> => DetailType'
<1>1. CacheTypeOK /\ UNCHANGED cacheVars => CacheTypeOK'
  BY DEF CacheTypeOK, cacheVars
<1>2. RowType /\ UNCHANGED rowVars => RowType'
  BY DEF RowType, rowVars
<1>3. PollType /\ UNCHANGED pollVars => PollType'
  BY DEF PollType, pollVars
<1>4. HubType /\ UNCHANGED hubVars => HubType'
  BY DEF HubType, hubVars
<1>5. DetailType /\ UNCHANGED <<dt, faults>> => DetailType'
  BY DEF DetailType
<1>. QED BY <1>1, <1>2, <1>3, <1>4, <1>5

LEMMA SummarizeType ==
  ASSUME NEW rec \in Row, NEW v \in 0..MaxVer, NEW at \in Moment
  PROVE  Summarize(rec, v, at) \in Summary
<1>1. rec.status \in Statuses
  BY DEF Row
<1>2. Derive(v, at) \in Statuses \cup {"stalled"}
  BY DEF Derive, Statuses, Terminal
<1>3. (rec.status = "running" /\ ~(rec.status = "running" /\ ~at.wt /\ at.stale > 0)) \in BOOLEAN
  BY Zenon
<1>4. "failed" \in Statuses /\ 0 \in 0..MaxVer
  BY RunCacheAssumption DEF Statuses, Terminal
<1>. QED BY <1>1, <1>2, <1>3, <1>4 DEF Summarize, Summary

\* Every variable has its type at the start.
LEMMA DashInit == Init => TypeOK /\ KeysCoherent
<1>. SUFFICES ASSUME Init PROVE TypeOK /\ KeysCoherent
  OBVIOUS
<1>. USE RunCacheAssumption, DashboardAssumption
<1>1. CacheTypeOK
  BY DEF Init, CacheInit, CacheTypeOK, Idle, NoEntry, Key, ReadPc
<1>a. 0 \in 0..(MaxVer + 1) /\ 0 \in 0..MaxVer
  OBVIOUS
<1>b. NoRow \in Row /\ ZeroState \in Summary
  BY <1>a DEF NoRow, Row, ZeroState, Summary, Statuses
<1>2. RowType
  BY <1>a, <1>b DEF Init, RowType, ProcStates
<1>3. PollType
  <2>1. Now \in Moment
    BY <1>a DEF Init, Now, Moment
  <2>. QED BY <1>b, <2>1 DEF Init, PollType, PollPc
<1>4. HubType
  <2>1. <<>> \in Seq(Summary) /\ Len(<<>>) = 0
    OBVIOUS
  <2>. QED BY <1>b, <2>1 DEF Init, HubType, ClientPc
<1>5. DetailType
  BY <1>a, <1>b DEF Init, DetailType, NoDetail, Request, DetailPc
<1>6. KeysCoherent
  BY DEF Init, CacheInit, KeysCoherent, CacheCoherent, Past, Idle, NoEntry
<1>. QED BY <1>1, <1>2, <1>3, <1>4, <1>5, <1>6, TypeParts

\* The steps of the other processes.
LEMMA WritersType ==
  ASSUME TypeOK, KeysCoherent, Writers
  PROVE  TypeOK' /\ KeysCoherent'
<1>. USE RunCacheAssumption
<1>0. CacheTypeOK /\ RowType /\ PollType /\ HubType /\ DetailType
  BY TypeParts
<1>1. CASE Submit \/ Promote \/ Cancel \/ Correlate \/ Finish \/ Capture \/ Reap
  <2>1. row' \in Row /\ proc' \in ProcStates
    <3>1. Readable \in 0..MaxVer
      BY <1>0 DEF CacheTypeOK, Readable, Primary
    <3>2. CASE Submit \/ Promote
      BY <1>0, <3>2 DEF Submit, Promote, RowType, Row, ProcStates, Statuses, Active
    <3>3. CASE Cancel \/ Reap
      BY <1>0, <3>3 DEF Cancel, Reap, RowType, Row, ProcStates, Statuses, Terminal
    <3>4. CASE Correlate
      BY <1>0, <3>4 DEF Correlate, RowType, Row
    <3>5. CASE Finish
      BY <1>0, <3>5, DashboardAssumption DEF Finish, RowType, Row, ProcStates, Statuses
    <3>6. CASE Capture
      BY <1>0, <3>1, <3>6 DEF Capture, RowType, Row
    <3>. QED BY <1>1, <3>2, <3>3, <3>4, <3>5, <3>6
  <2>2. UNCHANGED <<cacheVars, stale, wtActive, pollVars, hubVars, dt, faults>>
    BY <1>1 DEF Submit, Promote, Cancel, Correlate, Finish, Capture, Reap
  <2>3. RowType'
    BY <1>0, <2>1, <2>2 DEF RowType
  <2>4. KeysCoherent'
    BY <2>2 DEF KeysCoherent, CacheCoherent, Past, StatKey, cacheVars
  <2>. QED BY <1>0, <2>2, <2>3, <2>4, TypeFrame, TypeParts
<1>2. CASE PiWrite
  <2>1. UNCHANGED <<rowVars, pollVars, hubVars, dt, faults>> /\ (BeginWrite \/ EndWrite)
    BY <1>2 DEF PiWrite
  <2>. QED BY <1>0, <2>1, DiskStep, DiskCoherent, TypeFrame, TypeParts
<1>3. CASE WorktreeWrite \/ Age
  <2>1. UNCHANGED <<cacheVars, row, proc, pollVars, hubVars, dt, faults>>
    BY <1>3 DEF WorktreeWrite, Age
  <2>2. written + 1 \in 0..(MaxVer + 1)
    BY <1>0 DEF CacheTypeOK
  <2>3. RowType'
    <3>1. CASE WorktreeWrite
      BY <1>0, <3>1 DEF WorktreeWrite, RowType
    <3>2. CASE Age
      BY <1>0, <2>2, <3>2 DEF Age, RowType
    <3>. QED BY <1>3, <3>1, <3>2
  <2>4. KeysCoherent'
    BY <2>1 DEF KeysCoherent, CacheCoherent, Past, StatKey, cacheVars
  <2>. QED BY <1>0, <2>1, <2>3, <2>4, TypeFrame, TypeParts
<1>4. CASE Remove
  <2>1. UNCHANGED <<rowVars, pollVars, hubVars, faults>> /\ RemoveFile
    BY <1>4 DEF Remove
  <2>2. dt' = [dt EXCEPT !.raced = dt.raced \/ dt.pc \notin {"idle", "answered"}]
    BY <1>4 DEF Remove
  <2>3. (dt.raced \/ dt.pc \notin {"idle", "answered"}) \in BOOLEAN
    BY Zenon
  <2>4. DetailType'
    BY <1>0, <2>1, <2>2, <2>3 DEF DetailType, Request
  <2>. QED BY <1>0, <2>1, <2>4, DiskStep, DiskCoherent, TypeFrame, TypeParts
<1>. QED BY <1>1, <1>2, <1>3, <1>4 DEF Writers

\* The poller's steps.
LEMMA PollerType ==
  ASSUME TypeOK, KeysCoherent, Tick \/ TickFails \/ PollStop
  PROVE  TypeOK' /\ KeysCoherent'
<1>. USE RunCacheAssumption, DashboardAssumption
<1>0. CacheTypeOK /\ RowType /\ PollType /\ HubType /\ DetailType /\ "poller" \in Readers
  BY TypeParts
<1>1. CASE TickStart
  <2>1. /\ pl' = [pc |-> "build", rec |-> row, at |-> Now]
        /\ RefreshWatches(Want(row)) /\ CallRead("poller", row.runId)
        /\ UNCHANGED <<diskVars, entry, rowVars, latest, primed, hubVars, dt>>
    BY <1>1 DEF TickStart
  <2>2. row.runId \in BOOLEAN /\ row \in Row
    BY <1>0 DEF RowType, Row
  <2>3. CacheTypeOK'
    <3>1. rd' \in [Readers -> Locals]
      BY <1>0, <2>1, <2>2, CallType
    <3>. QED BY <1>0, <2>1, <3>1 DEF CacheTypeOK, diskVars, Locals
  <2>4. Want(row) \subseteq {"registry", "runs"}
    BY DEF Want
  <2>5. subs' \subseteq {"registry", "runs"} /\ faults' \in 0..MaxFaults
    BY <1>0, <2>1, <2>4 DEF RefreshWatches, PollType, DetailType
  <2>6. Now \in Moment
    BY <1>0 DEF RowType, Now, Moment
  <2>7. PollType'
    BY <1>0, <2>1, <2>2, <2>5, <2>6 DEF PollType, PollPc
  <2>8. DetailType'
    BY <1>0, <2>1, <2>5 DEF DetailType
  <2>9. KeysCoherent'
    BY <1>0, <2>1, <2>2, CallCoherent
  <2>. QED BY <1>0, <2>1, <2>3, <2>7, <2>8, <2>9, TypeFrame, TypeParts
<1>2. CASE TickFails
  <2>1. UNCHANGED <<cacheVars, rowVars, pollVars, hubVars, dt>> /\ faults' \in 0..MaxFaults
    BY <1>0, <1>2 DEF TickFails, DetailType
  <2>2. DetailType'
    BY <1>0, <2>1 DEF DetailType
  <2>3. KeysCoherent'
    BY <2>1 DEF KeysCoherent, CacheCoherent, Past, StatKey, cacheVars
  <2>. QED BY <1>0, <2>1, <2>2, <2>3, TypeFrame, TypeParts
<1>3. CASE PollRead
  <2>1. ReadStep("poller") /\ UNCHANGED <<rowVars, pollVars, hubVars, dt, faults>>
    BY <1>3 DEF PollRead
  <2>2. CacheTypeOK' /\ KeysCoherent'
    BY <1>0, <2>1, ReadType, ReadCoherent DEF KeysCoherent
  <2>. QED BY <1>0, <2>1, <2>2, TypeFrame, TypeParts
<1>4. CASE TickPublish
  <2>. DEFINE view == Summarize(pl.rec, rd["poller"].ver, pl.at)
  <2>1. /\ latest' = view /\ primed' = TRUE
        /\ rd' = [rd EXCEPT !["poller"] = Idle]
        /\ UNCHANGED <<diskVars, entry, rowVars, subs, hubVars, dt, faults>>
    BY <1>4 DEF TickPublish
  <2>2. pl' = [pl EXCEPT !.pc = IF ~primed \/ view # latest THEN "broadcast" ELSE "idle",
                        !.at = [stale |-> 0, wt |-> FALSE]]
    BY <1>4 DEF TickPublish
  <2>3. view \in Summary
    BY <1>0, SummarizeType DEF PollType, CacheTypeOK
  <2>4. [stale |-> 0, wt |-> FALSE] \in Moment /\ Idle \in Locals
    BY DEF Moment, Idle, NoEntry, Locals, Key, ReadPc
  <2>5. PollType'
    <3>1. pl' \in [pc : PollPc, rec : Row, at : Moment]
      BY <1>0, <2>2, <2>4 DEF PollType, PollPc
    <3>. QED BY <1>0, <2>1, <2>3, <3>1 DEF PollType
  <2>6. CacheTypeOK'
    BY <1>0, <2>1, <2>4 DEF CacheTypeOK, diskVars, Locals
  <2>7. KeysCoherent'
    BY <1>0, <2>1, CallCoherent
  <2>. QED BY <1>0, <2>1, <2>5, <2>6, <2>7, TypeFrame, TypeParts
<1>5. CASE TickBroadcast
  <2>1. /\ buf' = [c \in Clients |-> IF c \in hub /\ Len(buf[c]) < HubBuffer
                                     THEN Append(buf[c], latest) ELSE buf[c]]
        /\ dropped' = dropped \cup {c \in hub : Len(buf[c]) >= HubBuffer}
        /\ pl' = [pl EXCEPT !.pc = "idle"]
        /\ UNCHANGED <<cacheVars, rowVars, subs, latest, primed, hub, cl, closed, dt, faults>>
    BY <1>5 DEF TickBroadcast
  <2>2. ASSUME NEW c \in Clients
        PROVE  buf'[c] \in Seq(Summary) /\ Len(buf'[c]) <= HubBuffer
    <3>1. buf[c] \in Seq(Summary) /\ Len(buf[c]) <= HubBuffer /\ latest \in Summary
      BY <1>0 DEF HubType, PollType
    <3>2. Append(buf[c], latest) \in Seq(Summary) /\ Len(Append(buf[c], latest)) = Len(buf[c]) + 1
      BY <3>1
    <3>. QED BY <2>1, <3>1, <3>2
  <2>3. HubType'
    BY <1>0, <2>1, <2>2 DEF HubType
  <2>4. PollType'
    BY <1>0, <2>1 DEF PollType, PollPc
  <2>5. KeysCoherent'
    BY <2>1 DEF KeysCoherent, CacheCoherent, Past, StatKey, cacheVars
  <2>. QED BY <1>0, <2>1, <2>3, <2>4, <2>5, TypeFrame, TypeParts
<1>6. CASE PollStop
  <2>1. /\ pl' = [pl EXCEPT !.pc = "stopped"] /\ subs' = {}
        /\ UNCHANGED <<cacheVars, rowVars, latest, primed, hubVars, dt, faults>>
    BY <1>6 DEF PollStop
  <2>2. PollType'
    BY <1>0, <2>1 DEF PollType, PollPc
  <2>3. KeysCoherent'
    BY <2>1 DEF KeysCoherent, CacheCoherent, Past, StatKey, cacheVars
  <2>. QED BY <1>0, <2>1, <2>2, <2>3, TypeFrame, TypeParts
<1>. QED BY <1>1, <1>2, <1>3, <1>4, <1>5, <1>6 DEF Tick

\* The steps of the SSE handlers.
LEMMA ClientType ==
  ASSUME TypeOK, KeysCoherent, NEW c \in Clients, Client(c)
  PROVE  TypeOK' /\ KeysCoherent'
<1>0. CacheTypeOK /\ RowType /\ PollType /\ HubType /\ DetailType
  BY TypeParts
<1>1. UNCHANGED <<cacheVars, rowVars, pollVars, dt, faults>>
  BY DEF Client, ClientSubscribe, ClientPaint, ClientRecv, ClientLeave, ClientClose
<1>2. cl[c] \in [pc : ClientPc, shown : Summary] /\ latest \in Summary
  BY <1>0 DEF HubType, PollType
<1>3. HubType'
  <2>1. CASE ClientSubscribe(c)
    BY <1>0, <2>1 DEF ClientSubscribe, HubType, ClientPc
  <2>2. CASE ClientPaint(c)
    BY <1>0, <1>2, <2>2 DEF ClientPaint, HubType, ClientPc
  <2>3. CASE ClientRecv(c)
    <3>1. Head(buf[c]) \in Summary /\ Tail(buf[c]) \in Seq(Summary)
          /\ Len(Tail(buf[c])) <= HubBuffer
      <4>1. buf[c] \in Seq(Summary) /\ buf[c] # <<>> /\ Len(buf[c]) <= HubBuffer
        BY <1>0, <2>3 DEF ClientRecv, HubType
      <4>. QED BY <4>1, DashboardAssumption
    <3>2. cl' \in [Clients -> [pc : ClientPc, shown : Summary]]
      BY <1>0, <2>3, <3>1 DEF ClientRecv, HubType
    <3>3. buf' = [buf EXCEPT ![c] = Tail(buf[c])] /\ UNCHANGED <<hub, closed, dropped>>
      BY <2>3 DEF ClientRecv
    <3>4. buf' \in [Clients -> Seq(Summary)] /\ \A d \in Clients : Len(buf'[d]) <= HubBuffer
      BY <1>0, <3>1, <3>3 DEF HubType
    <3>. QED BY <1>0, <3>2, <3>3, <3>4 DEF HubType
  <2>4. CASE ClientLeave(c)
    BY <1>0, <2>4 DEF ClientLeave, HubType, ClientPc
  <2>5. CASE ClientClose(c)
    BY <1>0, <2>5 DEF ClientClose, HubType, ClientPc
  <2>. QED BY <2>1, <2>2, <2>3, <2>4, <2>5 DEF Client
<1>4. KeysCoherent'
  BY <1>1 DEF KeysCoherent, CacheCoherent, Past, StatKey, cacheVars
<1>. QED BY <1>0, <1>1, <1>3, <1>4, TypeFrame, TypeParts

\* The steps of the detail request.
LEMMA DetailStepType ==
  ASSUME TypeOK, KeysCoherent, Detail
  PROVE  TypeOK' /\ KeysCoherent'
<1>. USE RunCacheAssumption, DashboardAssumption
<1>0. CacheTypeOK /\ RowType /\ PollType /\ HubType /\ DetailType /\ "detail" \in Readers
  BY TypeParts
<1>a. /\ dt \in Request
      /\ dt.rec \in Row /\ dt.rec.runId \in BOOLEAN /\ dt.rec.snap \in 0..MaxVer
      /\ row \in Row /\ row.snap \in 0..MaxVer
  BY <1>0 DEF DetailType, RowType, Row, Request
<1>b. UNCHANGED <<rowVars, pollVars, hubVars, faults>>
  BY DEF Detail, DetailStart, DetailExists, DetailSnapshot, DetailRead, DetailSummary,
         DetailAnswer
<1>c. ASSUME CallRead("detail", dt.rec.runId), UNCHANGED <<diskVars, entry>>
      PROVE  CacheTypeOK' /\ KeysCoherent'
  <2>1. rd' \in [Readers -> Locals]
    BY <1>0, <1>a, <1>c, CallType
  <2>2. CacheTypeOK'
    BY <1>0, <1>c, <2>1 DEF CacheTypeOK, diskVars, Locals
  <2>. QED BY <1>0, <1>a, <1>c, <2>2, CallCoherent
<1>d. ASSUME UNCHANGED cacheVars PROVE CacheTypeOK' /\ KeysCoherent'
  BY <1>0, <1>d, TypeFrame DEF KeysCoherent, CacheCoherent, Past, StatKey, cacheVars
<1>e. ASSUME dt' \in Request
      PROVE  DetailType'
  BY <1>0, <1>b, <1>e DEF DetailType
<1>f. SUFFICES CacheTypeOK' /\ KeysCoherent' /\ DetailType'
  BY <1>0, <1>b, TypeFrame, TypeParts
<1>1. CASE DetailStart
  <2>1. [row EXCEPT !.snap = 0] \in Row
    BY <1>a DEF Row
  <2>a. (row.snap # 0) \in BOOLEAN
    BY Zenon
  <2>2. dt' \in Request
    BY <1>1, <2>1, <2>a, <1>a DEF DetailStart, Request, DetailPc
  <2>. QED BY <1>1, <1>d, <1>e, <2>2 DEF DetailStart
<1>2. CASE DetailExists
  <2>1. dt' \in Request
    BY <1>2, <1>a DEF DetailExists, Request, DetailPc
  <2>2. CASE CallRead("detail", dt.rec.runId)
    BY <1>2, <1>c, <1>e, <2>1, <2>2 DEF DetailExists
  <2>3. CASE UNCHANGED rd
    BY <1>2, <1>d, <1>e, <2>1, <2>3 DEF DetailExists, cacheVars, diskVars
  <2>. QED BY <1>2, <2>2, <2>3 DEF DetailExists
<1>3. CASE DetailSnapshot
  <2>1. [dt.rec EXCEPT !.snap = row.snap] \in Row
    BY <1>a DEF Row
  <2>2. dt' = [dt EXCEPT !.pc = "first", !.rec = [dt.rec EXCEPT !.snap = row.snap]]
    BY <1>3, <1>a DEF DetailSnapshot
  <2>3. dt' \in Request
    BY <1>a, <2>1, <2>2 DEF Request, DetailPc
  <2>. QED BY <1>3, <1>c, <1>e, <2>3 DEF DetailSnapshot
<1>4. CASE DetailRead
  BY <1>0, <1>4, ReadType, ReadCoherent DEF DetailRead, KeysCoherent, DetailType
<1>5. CASE DetailSummary
  <2>1. dt' \in Request
    BY <1>5, <1>a DEF DetailSummary, Request, DetailPc
  <2>. QED BY <1>5, <1>c, <1>e, <2>1 DEF DetailSummary
<1>6. CASE DetailAnswer
  <2>1. Loaded \in 0..MaxVer /\ Idle \in Locals
    BY <1>0, <1>a DEF Loaded, CacheTypeOK, Idle, NoEntry, Locals, Key, ReadPc
  <2>2. dt' \in Request
    BY <1>6, <1>a, <2>1 DEF DetailAnswer, Request, DetailPc
  <2>3. rd' = [rd EXCEPT !["detail"] = Idle] /\ UNCHANGED <<diskVars, entry>>
    BY <1>6 DEF DetailAnswer
  <2>4. CacheTypeOK'
    BY <1>0, <2>1, <2>3 DEF CacheTypeOK, diskVars, Locals
  <2>. QED BY <1>0, <1>e, <2>2, <2>3, <2>4, CallCoherent
<1>. QED BY <1>1, <1>2, <1>3, <1>4, <1>5, <1>6 DEF Detail

LEMMA DashStep == TypeOK /\ KeysCoherent /\ [Next]_vars => TypeOK' /\ KeysCoherent'
<1>1. ASSUME TypeOK, KeysCoherent, UNCHANGED vars PROVE TypeOK' /\ KeysCoherent'
  <2>1. UNCHANGED <<cacheVars, rowVars, pollVars, hubVars, dt, faults>>
    BY <1>1 DEF vars
  <2>2. KeysCoherent'
    BY <1>1, <2>1 DEF KeysCoherent, CacheCoherent, Past, StatKey, cacheVars
  <2>. QED BY <1>1, <2>1, <2>2, TypeFrame, TypeParts
<1>. QED BY <1>1, WritersType, PollerType, ClientType, DetailStepType DEF Next

\* Every variable of the dashboard keeps its type; in particular no channel ever
\* holds more frames than its buffer (hub.go:39-50).
THEOREM DashTyped == Spec => []TypeOK
  BY DashInit, DashStep, PTL DEF Spec

\* An entry of the run cache under the file's own key is the file's content,
\* whatever was written, removed and read between the stat of a reader, its parse
\* and its store (runcache.go:70-108).
THEOREM CacheIsCoherent == Spec => []CacheCoherent
<1>1. KeysCoherent => CacheCoherent
  BY DEF KeysCoherent
<1>. QED BY <1>1, DashInit, DashStep, PTL DEF Spec

-----------------------------------------------------------------------------
\* The last frame of a channel that gets one more, and of one that gives one up.
LEMMA LastFrame ==
  ASSUME NEW s \in Seq(Summary), NEW f \in Summary
  PROVE  /\ Append(s, f) # <<>> /\ Append(s, f)[Len(Append(s, f))] = f
         /\ s # <<>> => IF Tail(s) = <<>> THEN Head(s) = s[Len(s)]
                                          ELSE Tail(s)[Len(Tail(s))] = s[Len(s)]
<1>1. Append(s, f) # <<>> /\ Append(s, f)[Len(Append(s, f))] = f
  OBVIOUS
<1>2. ASSUME s # <<>>, Tail(s) = <<>> PROVE Head(s) = s[Len(s)]
  <2>1. Len(s) \in Nat /\ Len(Tail(s)) = Len(s) - 1
    BY <1>2
  <2>2. Len(Tail(s)) = 0
    <3>1. Len(<<>>) = 0
      OBVIOUS
    <3>. QED BY <1>2, <3>1, Zenon
  <2>3. Len(s) = 1
    BY <2>1, <2>2
  <2>. QED BY <2>3, <1>2
<1>3. ASSUME s # <<>>, Tail(s) # <<>> PROVE Tail(s)[Len(Tail(s))] = s[Len(s)]
  <2>1. Len(Tail(s)) = Len(s) - 1 /\ Len(Tail(s)) >= 1
    BY <1>3
  <2>. QED BY <2>1, <1>3
<1>. QED BY <1>1, <1>2, <1>3

\* What Streams says of one client.
Stream(c) ==
  /\ c \in hub <=> cl[c].pc \in {"paint", "loop"}
  /\ c \in closed => cl[c].pc = "gone"
  /\ cl[c].pc = "off" => buf[c] = <<>>
  /\ c \notin dropped /\ pl.pc # "broadcast" =>
       /\ cl[c].pc = "loop" => Ahead(c) = latest
       /\ cl[c].pc = "paint" => buf[c] = <<>> \/ Ahead(c) = latest

LEMMA StreamsByClient ==
  /\ HubType => (Streams <=> \A c \in Clients : Stream(c))
  /\ HubType' => (Streams' <=> \A c \in Clients : Stream(c)')
  BY DEF Streams, Stream, HubType

\* A step that leaves a client, the poller's place and the snapshot alone.
LEMMA StreamFrame ==
  ASSUME NEW c \in Clients, Stream(c),
         cl'[c] = cl[c], buf'[c] = buf[c], c \in hub' <=> c \in hub,
         c \in closed' <=> c \in closed, dropped' = dropped, latest' = latest,
         pl'.pc # "broadcast" => pl.pc # "broadcast"
  PROVE  Stream(c)'
  BY DEF Stream, Ahead

\* Every step keeps Streams.
LEMMA StreamsStep == TypeOK /\ TypeOK' /\ Streams /\ [Next]_vars => Streams'
<1>. SUFFICES ASSUME TypeOK, TypeOK', Streams, [Next]_vars PROVE Streams'
  OBVIOUS
<1>0. HubType /\ PollType /\ HubType' /\ PollType' /\ \A c \in Clients : Stream(c)
  BY TypeParts, StreamsByClient
<1>a. SUFFICES ASSUME NEW c \in Clients PROVE Stream(c)'
  BY <1>0, StreamsByClient
<1>b. buf[c] \in Seq(Summary) /\ latest \in Summary /\ Stream(c)
      /\ cl[c] \in [pc : ClientPc, shown : Summary]
  BY <1>0 DEF HubType, PollType
<1>1. ASSUME UNCHANGED hubVars, latest' = latest,
             pl'.pc # "broadcast" => pl.pc # "broadcast"
      PROVE  Stream(c)'
  BY <1>1, <1>b, StreamFrame DEF hubVars
<1>2. CASE Writers \/ Detail \/ TickFails \/ PollRead \/ UNCHANGED vars
  <2>1. UNCHANGED hubVars /\ UNCHANGED pollVars
    BY <1>2 DEF Writers, Submit, Promote, Cancel, Correlate, Finish, Capture, Reap, PiWrite,
       WorktreeWrite, Remove, Age, Detail, DetailStart, DetailExists, DetailSnapshot, DetailRead,
       DetailSummary, DetailAnswer, TickFails, PollRead, vars
  <2>2. latest' = latest /\ pl' = pl
    BY <2>1 DEF pollVars
  <2>. QED BY <1>1, <2>1, <2>2, Zenon
<1>3. CASE TickStart \/ PollStop
  <2>1. UNCHANGED hubVars /\ latest' = latest /\ pl.pc = "idle" /\ pl'.pc # "broadcast"
    BY <1>0, <1>3 DEF TickStart, PollStop, PollType
  <2>. QED BY <1>1, <2>1
<1>4. CASE TickPublish
  <2>1. UNCHANGED hubVars /\ pl.pc = "build"
    BY <1>4 DEF TickPublish
  <2>2. pl'.pc = "broadcast" \/ latest' = latest
    BY <1>0, <1>4 DEF TickPublish, PollType
  <2>3. CASE pl'.pc = "broadcast"
    BY <1>b, <2>1, <2>3 DEF Stream, hubVars
  <2>4. CASE pl'.pc # "broadcast"
    BY <1>1, <2>1, <2>2, <2>4
  <2>. QED BY <2>3, <2>4
<1>5. CASE TickBroadcast
  <2>1. /\ buf'[c] = IF c \in hub /\ Len(buf[c]) < HubBuffer
                     THEN Append(buf[c], latest) ELSE buf[c]
        /\ dropped' = dropped \cup {d \in hub : Len(buf[d]) >= HubBuffer}
        /\ UNCHANGED <<latest, hub, cl, closed>>
    BY <1>5 DEF TickBroadcast
  <2>2. CASE c \in hub /\ Len(buf[c]) < HubBuffer
    <3>1. buf'[c] # <<>> /\ buf'[c][Len(buf'[c])] = latest
      BY <1>b, <2>1, <2>2, LastFrame
    <3>2. Ahead(c)' = latest
      BY <3>1 DEF Ahead
    <3>. QED BY <1>b, <2>1, <2>2, <3>2 DEF Stream
  <2>3. CASE c \in hub /\ ~(Len(buf[c]) < HubBuffer)
    <3>1. Len(buf[c]) >= HubBuffer
      BY <1>b, <2>3, DashboardAssumption
    <3>2. c \in dropped'
      BY <2>1, <2>3, <3>1
    <3>. QED BY <1>b, <2>1, <2>3, <3>2 DEF Stream
  <2>4. CASE c \notin hub
    BY <1>b, <2>1, <2>4 DEF Stream
  <2>. QED BY <2>2, <2>3, <2>4
<1>6. ASSUME NEW d \in Clients, Client(d) PROVE Stream(c)'
  <2>1. UNCHANGED pollVars
    BY <1>6 DEF Client, ClientSubscribe, ClientPaint, ClientRecv, ClientLeave, ClientClose
  <2>2. CASE d # c
    <3>1. cl'[c] = cl[c] /\ buf'[c] = buf[c] /\ (c \in hub' <=> c \in hub)
          /\ (c \in closed' <=> c \in closed) /\ dropped' = dropped
      BY <1>0, <1>6, <2>2
      DEF Client, ClientSubscribe, ClientPaint, ClientRecv, ClientLeave, ClientClose, HubType
    <3>. QED BY <1>b, <2>1, <3>1, StreamFrame DEF pollVars
  <2>3. CASE d = c /\ ClientSubscribe(c)
    BY <1>0, <1>b, <2>1, <2>3 DEF ClientSubscribe, Stream, HubType, pollVars
  <2>4. CASE d = c /\ ClientPaint(c)
    <3>1. cl'[c] = [pc |-> "loop", shown |-> latest] /\ cl[c].pc = "paint"
          /\ UNCHANGED <<hub, buf, closed, dropped>>
      BY <1>0, <2>4 DEF ClientPaint, HubType
    <3>2. buf[c] = <<>> => Ahead(c)' = latest
      BY <3>1 DEF Ahead
    <3>3. buf[c] # <<>> => Ahead(c)' = Ahead(c)
      BY <3>1 DEF Ahead
    <3>. QED BY <1>b, <2>1, <3>1, <3>2, <3>3 DEF Stream, pollVars
  <2>5. CASE d = c /\ ClientRecv(c)
    <3>1. /\ cl'[c].shown = Head(buf[c]) /\ cl'[c].pc = cl[c].pc /\ cl[c].pc = "loop"
          /\ buf[c] # <<>> /\ buf'[c] = Tail(buf[c])
          /\ UNCHANGED <<hub, closed, dropped>>
      BY <1>0, <2>5 DEF ClientRecv, HubType
    <3>2. Ahead(c)' = Ahead(c)
      BY <1>b, <3>1, LastFrame DEF Ahead
    <3>. QED BY <1>b, <2>1, <3>1, <3>2 DEF Stream, pollVars
  <2>6. CASE d = c /\ (ClientLeave(c) \/ ClientClose(c))
    BY <1>0, <1>b, <2>1, <2>6 DEF ClientLeave, ClientClose, Stream, HubType, pollVars
  <2>. QED BY <1>6, <2>2, <2>3, <2>4, <2>5, <2>6 DEF Client
<1>. QED BY <1>2, <1>3, <1>4, <1>5, <1>6 DEF Next, Tick

LEMMA StreamsInit == Init => Streams
  BY DEF Init, Streams

\* A client that lost no frame is never behind the poller for good, however its
\* Subscribe, its first snapshot and the ticks interleave (server.go:119-144,
\* poller.go:148-186).
THEOREM HubMissesNothing == Spec => []NoMissedSnapshot
<1>1. Streams => NoMissedSnapshot
  BY DEF Streams, NoMissedSnapshot
<1>. QED BY <1>1, DashInit, DashStep, StreamsInit, StreamsStep, PTL DEF Spec

\* Broadcast never meets a closed channel (hub.go:21-50).
THEOREM HubNeverSendsOnClosed == Spec => []NoSendOnClosed
<1>1. TypeOK /\ Streams => NoSendOnClosed
  BY DEF TypeOK, Streams, NoSendOnClosed
<1>. QED BY <1>1, DashInit, DashStep, StreamsInit, StreamsStep, PTL DEF Spec

-----------------------------------------------------------------------------
\* What DetailServed says of the row, and of the request and its reader.
RowKept ==
  /\ row.snap # 0 => proc = "over" /\ row.status \in Terminal /\ row.runId
  /\ row.snap # 0 /\ OnDisk => Readable # 0
  /\ proc = "over" => row.status \in Terminal
  /\ row.status \in {"none", "queued"} => proc = "none"
  /\ dt.captured => row.snap # 0 /\ dt.rec.runId

Answerable ==
  \/ dt.rec.snap # 0
  \/ /\ Readable # 0
     /\ rd["detail"].pc \in {"parseBak", "recoverBak"} => bak # 0
     /\ rd["detail"].pc = "done" => rd["detail"].ver # 0

Served ==
  dt.captured /\ ~dt.raced =>
    /\ dt.pc = "snapshot" => ~OnDisk
    /\ dt.pc \in {"first", "second"} => Answerable
    /\ dt.pc = "answered" => dt.body # 0

LEMMA ServedParts ==
  /\ DetailServed <=> RowKept /\ Served
  /\ DetailServed' <=> RowKept' /\ Served'
  BY DEF DetailServed, RowKept, Served, Answerable

\* A read of the detail request that leaves the disk alone finds what is there.
LEMMA ReadFinds ==
  ASSUME CacheTypeOK, KeysCoherent, "detail" \in Readers, ReadStep("detail"), Readable # 0,
         rd["detail"].pc \in {"parseBak", "recoverBak"} => bak # 0,
         rd["detail"].pc = "done" => rd["detail"].ver # 0
  PROVE  /\ rd'["detail"].pc \in {"parseBak", "recoverBak"} => bak # 0
         /\ rd'["detail"].pc = "done" => rd'["detail"].ver # 0
<1>. DEFINE l == rd["detail"]
<1>0. l \in Locals /\ rd \in [Readers -> Locals] /\ (l.pc = "store" => l.ver # 0)
  BY DEF CacheTypeOK, Locals, KeysCoherent
<1>1. Primary = 0 => bak # 0
  BY DEF Readable
<1>2. CASE ReadStat("detail")
  BY <1>0, <1>2 DEF ReadStat, Locals
<1>3. CASE ReadDrop("detail")
  BY <1>0, <1>3 DEF ReadDrop, Locals
<1>4. CASE ReadLookup("detail")
  <2>1. PICK e \in Swept : rd' = [rd EXCEPT !["detail"] =
            IF Hit(e, rd["detail"].key)
            THEN [rd["detail"] EXCEPT !.pc = "done", !.ver = e.ver]
            ELSE [rd["detail"] EXCEPT !.pc = "parse"]]
    BY <1>4 DEF ReadLookup
  <2>2. Hit(e, l.key) => e.ver # 0
    BY DEF Swept, Hit, CacheTypeOK, Entry
  <2>. QED BY <1>0, <2>1, <2>2 DEF Locals
<1>5. CASE ReadParse("detail")
  BY <1>0, <1>1, <1>5 DEF ReadParse, Locals
<1>6. CASE ReadParseBak("detail")
  BY <1>0, <1>6 DEF ReadParseBak, Locals
<1>7. CASE ReadStore("detail")
  BY <1>0, <1>7 DEF ReadStore, Locals
<1>8. CASE ReadRecover("detail")
  BY <1>0, <1>1, <1>8 DEF ReadRecover, Locals
<1>9. CASE ReadRecoverBak("detail")
  BY <1>0, <1>9 DEF ReadRecoverBak, Locals
<1>. QED BY <1>2, <1>3, <1>4, <1>5, <1>6, <1>7, <1>8, <1>9 DEF ReadStep

\* Every step keeps DetailServed.
LEMMA ServedStep == TypeOK /\ KeysCoherent /\ DetailServed /\ [Next]_vars => DetailServed'
<1>. SUFFICES ASSUME TypeOK, KeysCoherent, DetailServed, [Next]_vars PROVE DetailServed'
  OBVIOUS
<1>. USE DashboardAssumption
<1>0. RowKept /\ Served /\ CacheTypeOK /\ "detail" \in Readers /\ "poller" \in Readers
  BY ServedParts, TypeParts
<1>t. /\ row \in Row /\ row.snap \in 0..MaxVer /\ dt.rec \in Row /\ dt \in Request
  BY DEF TypeOK, Row, Request
<1>s. SUFFICES RowKept' /\ Served'
  BY ServedParts
\* Steps that change neither the disk, the row, the process, the request nor its reader.
<1>1. ASSUME UNCHANGED <<written, state, bak, row, proc, dt>>, rd'["detail"] = rd["detail"]
      PROVE  RowKept' /\ Served'
  BY <1>0, <1>1 DEF RowKept, Served, Answerable, OnDisk, Readable, Primary
<1>2. CASE TickFails \/ PollStop \/ TickBroadcast \/ WorktreeWrite \/ Age \/ UNCHANGED vars
  BY <1>1, <1>2 DEF TickFails, PollStop, TickBroadcast, WorktreeWrite, Age, vars, cacheVars,
     rowVars
<1>3. ASSUME NEW c \in Clients, Client(c) PROVE RowKept' /\ Served'
  BY <1>1, <1>3 DEF Client, ClientSubscribe, ClientPaint, ClientRecv, ClientLeave, ClientClose,
     cacheVars, rowVars
<1>4. CASE TickStart \/ TickPublish
  <2>1. UNCHANGED <<written, state, bak, row, proc, dt>>
    BY <1>4 DEF TickStart, TickPublish, diskVars, rowVars
  <2>2. rd'["detail"] = rd["detail"]
    BY <1>0, <1>4 DEF TickStart, TickPublish, CallRead, CacheTypeOK
  <2>. QED BY <1>1, <2>1, <2>2
<1>5. CASE PollRead
  <2>1. UNCHANGED <<row, proc, dt>>
    BY <1>5 DEF PollRead, rowVars
  <2>2. UNCHANGED <<written, state, bak>>
    BY <1>5 DEF PollRead, ReadStep, ReadStat, ReadDrop, ReadLookup, ReadParse, ReadParseBak,
       ReadStore, ReadRecover, ReadRecoverBak, diskVars
  <2>3. rd'["detail"] = rd["detail"]
    BY <1>0, <1>5 DEF PollRead, ReadStep, ReadStat, ReadDrop, ReadLookup, ReadParse,
       ReadParseBak, ReadStore, ReadRecover, ReadRecoverBak, CacheTypeOK
  <2>. QED BY <1>1, <2>1, <2>2, <2>3
\* The row of a job that is not over has no snapshot, so no request was begun after one.
<1>6. ASSUME proc # "over" \/ row.status \notin Terminal
      PROVE  row.snap = 0 /\ ~dt.captured
  BY <1>0, <1>6 DEF RowKept
<1>7. CASE Submit \/ Promote \/ Cancel \/ Correlate \/ Finish \/ Reap
  <2>1. UNCHANGED dt /\ (proc # "over" \/ row.status \notin Terminal)
    BY <1>7 DEF Submit, Promote, Cancel, Correlate, Finish, Reap, Active, Terminal
  <2>2. row.snap = 0 /\ row'.snap = 0 /\ ~dt'.captured
    BY <1>t, <1>6, <1>7, <2>1 DEF Submit, Promote, Cancel, Correlate, Finish, Reap, Row
  <2>3. /\ proc' = "over" => row'.status \in Terminal
        /\ row'.status \in {"none", "queued"} => proc' = "none"
    <3>1. CASE Submit \/ Promote
      BY <1>t, <3>1 DEF Submit, Promote, Active, Row
    <3>2. CASE Cancel \/ Reap
      BY <1>0, <1>t, <3>2 DEF Cancel, Reap, RowKept, Active, Terminal, Row
    <3>3. CASE Correlate
      BY <1>0, <1>t, <3>3 DEF Correlate, RowKept, Row
    <3>4. CASE Finish
      BY <1>0, <1>t, <3>4 DEF Finish, RowKept, Terminal, Row
    <3>. QED BY <1>7, <3>1, <3>2, <3>3, <3>4
  <2>. QED BY <2>2, <2>3 DEF RowKept, Served
<1>8. CASE PiWrite
  <2>1. UNCHANGED <<row, proc, dt>> /\ proc # "over"
    BY <1>8 DEF PiWrite, rowVars
  <2>2. row.snap = 0 /\ ~dt.captured
    BY <1>6, <2>1
  <2>. QED BY <1>0, <2>1, <2>2 DEF RowKept, Served
\* The snapshot, and the removal of what it was taken from.
<1>9. CASE Capture
  <2>1. /\ proc = "over" /\ row.runId /\ Readable # 0 /\ row.snap = 0
        /\ row' = [row EXCEPT !.snap = Readable]
        /\ UNCHANGED <<written, state, bak, rd, proc, dt>>
    BY <1>9 DEF Capture, cacheVars
  <2>2. row'.status = row.status /\ row'.runId = row.runId
    BY <1>t, <2>1 DEF Row
  <2>3. Readable' = Readable /\ ~dt.captured
    BY <1>0, <2>1 DEF Readable, Primary, RowKept
  <2>. QED BY <1>0, <2>1, <2>2, <2>3 DEF RowKept, Served
<1>10. CASE Remove
  <2>1. /\ state' = "absent" /\ bak' \in {0, bak}
        /\ UNCHANGED <<written, row, proc, rd>>
        /\ dt' = [dt EXCEPT !.raced = dt.raced \/ dt.pc \notin {"idle", "answered"}]
    BY <1>10 DEF Remove, RemoveFile, rowVars
  <2>2. Readable' = bak' /\ (OnDisk' <=> bak' # 0)
    BY <2>1 DEF Readable, Primary, OnDisk
  <2>3. dt'.rec = dt.rec /\ dt'.pc = dt.pc /\ dt'.body = dt.body /\ dt'.captured = dt.captured
        /\ (~dt'.raced => ~dt.raced /\ dt.pc \in {"idle", "answered"})
    BY <1>t, <2>1 DEF Request
  <2>4. RowKept'
    BY <1>0, <2>1, <2>2, <2>3 DEF RowKept
  <2>5. Served'
    BY <1>0, <2>3 DEF Served
  <2>. QED BY <2>4, <2>5
\* The request.
<1>11. CASE Detail
  <2>1. UNCHANGED <<row, proc>>
    BY <1>11 DEF Detail, DetailStart, DetailExists, DetailSnapshot, DetailRead, DetailSummary,
       DetailAnswer, rowVars
  <2>2. UNCHANGED <<written, state, bak>>
    BY <1>11 DEF Detail, DetailStart, DetailExists, DetailSnapshot, DetailRead, DetailSummary,
       DetailAnswer, ReadStep, ReadStat, ReadDrop, ReadLookup, ReadParse, ReadParseBak,
       ReadStore, ReadRecover, ReadRecoverBak, diskVars, cacheVars
  <2>3. Readable' = Readable /\ (OnDisk' <=> OnDisk)
    BY <2>2 DEF Readable, Primary, OnDisk
  <2>4. ASSUME dt'.captured => dt'.rec.runId /\ row.snap # 0
        PROVE  RowKept'
    BY <1>0, <2>1, <2>3, <2>4 DEF RowKept
  <2>5. CASE DetailStart
    <3>1. dt' = [pc |-> "exists", rec |-> [row EXCEPT !.snap = 0], body |-> 0,
                 captured |-> row.snap # 0, raced |-> FALSE]
      BY <2>5 DEF DetailStart
    <3>2. dt'.rec.runId = row.runId /\ dt'.pc = "exists" /\ (dt'.captured <=> row.snap # 0)
      BY <1>t, <3>1 DEF Row
    <3>3. RowKept'
      BY <1>0, <2>4, <3>2 DEF RowKept
    <3>. QED BY <3>2, <3>3 DEF Served
  <2>6. CASE DetailExists
    <3>1. dt.pc = "exists" /\ dt'.rec = dt.rec /\ dt'.captured = dt.captured
      BY <1>t, <2>6 DEF DetailExists, Request
    <3>2. RowKept' /\ (dt.captured => dt.rec.runId /\ row.snap # 0)
      BY <1>0, <2>4, <3>1 DEF RowKept
    <3>3. CASE dt.rec.runId /\ OnDisk
      <4>1. dt'.pc = "first" /\ CallRead("detail", dt.rec.runId)
        BY <1>t, <2>6, <3>3 DEF DetailExists, Request
      <4>2. rd'["detail"].pc = "stat"
        BY <1>0, <3>3, <4>1 DEF CallRead, CacheTypeOK, Idle
      <4>3. dt.captured => Answerable'
        BY <1>0, <2>3, <3>2, <3>3, <4>2 DEF Answerable, RowKept
      <4>. QED BY <3>1, <3>2, <4>1, <4>3 DEF Served
    <3>4. CASE ~(dt.rec.runId /\ OnDisk)
      <4>1. dt'.pc = "snapshot"
        BY <1>t, <2>6, <3>4 DEF DetailExists, Request
      <4>. QED BY <2>3, <3>1, <3>2, <3>4, <4>1 DEF Served
    <3>. QED BY <3>3, <3>4
  <2>7. CASE DetailSnapshot
    <3>1. /\ dt.pc = "snapshot"
          /\ dt' = [dt EXCEPT !.pc = "first", !.rec = [dt.rec EXCEPT !.snap = row.snap]]
      BY <1>t, <2>7 DEF DetailSnapshot, Request
    <3>2. /\ dt'.pc = "first" /\ dt'.rec.snap = row.snap /\ dt'.captured = dt.captured
          /\ dt'.rec.runId = dt.rec.runId
      BY <1>t, <3>1 DEF Row, Request
    <3>3. RowKept' /\ (dt.captured => row.snap # 0)
      BY <1>0, <2>4, <3>2 DEF RowKept
    <3>. QED BY <3>2, <3>3 DEF Served, Answerable
  <2>8. CASE DetailRead
    <3>1. ReadStep("detail") /\ dt' = dt /\ dt.pc \in {"first", "second"}
      BY <2>8 DEF DetailRead
    <3>2. RowKept'
      BY <1>0, <2>4, <3>1 DEF RowKept
    <3>3. Answerable => Answerable'
      BY <1>0, <2>2, <2>3, <3>1, ReadFinds DEF Answerable
    <3>. QED BY <1>0, <3>1, <3>2, <3>3 DEF Served
  <2>9. CASE DetailSummary
    <3>1. dt.pc = "first" /\ dt' = [dt EXCEPT !.pc = "second"] /\ CallRead("detail", dt.rec.runId)
      BY <2>9 DEF DetailSummary
    <3>2. dt'.pc = "second" /\ dt'.rec = dt.rec /\ dt'.raced = dt.raced
          /\ dt'.captured = dt.captured
      BY <1>t, <3>1 DEF Request
    <3>3. RowKept' /\ (dt.captured => dt.rec.runId)
      BY <1>0, <2>4, <3>2 DEF RowKept
    <3>4. dt.rec.runId => rd'["detail"].pc = "stat"
      BY <1>0, <3>1 DEF CallRead, CacheTypeOK, Idle
    <3>5. dt.rec.runId /\ Answerable => Answerable'
      BY <2>2, <2>3, <3>2, <3>4 DEF Answerable
    <3>. QED BY <1>0, <3>1, <3>2, <3>3, <3>5 DEF Served
  <2>10. CASE DetailAnswer
    <3>1. dt.pc = "second" /\ rd["detail"].pc = "done"
          /\ dt' = [dt EXCEPT !.pc = "answered", !.body = Loaded]
      BY <2>10 DEF DetailAnswer
    <3>2. dt'.pc = "answered" /\ dt'.rec = dt.rec /\ dt'.raced = dt.raced /\ dt'.body = Loaded
          /\ dt'.captured = dt.captured
      BY <1>t, <3>1 DEF Request
    <3>3. RowKept'
      BY <1>0, <2>4, <3>2 DEF RowKept
    <3>4. Answerable => Loaded # 0
      BY <3>1 DEF Answerable, Loaded
    <3>. QED BY <1>0, <3>1, <3>2, <3>3, <3>4 DEF Served
  <2>. QED BY <1>11, <2>5, <2>6, <2>7, <2>8, <2>9, <2>10 DEF Detail
<1>. QED
  BY <1>2, <1>3, <1>4, <1>5, <1>7, <1>8, <1>9, <1>10, <1>11 DEF Next, Tick, Writers

\* A request begun after the run snapshot was taken has its body although the run file
\* is gone, wherever the removal falls before it, and whatever pi still wrote between
\* Cancel's flush and its end (server.go:76-107, state.go:17-30, cancel.go:57-66).
THEOREM DetailSurvivesCleanup == Spec => []EndedJobHasDetail
<1>1. Init => DetailServed
  BY DEF Init, DetailServed, NoRow, NoDetail, Terminal
<1>2. DetailServed => EndedJobHasDetail
  BY DEF DetailServed, EndedJobHasDetail
<1>. QED BY <1>1, <1>2, DashInit, DashStep, ServedStep, PTL DEF Spec

=============================================================================
