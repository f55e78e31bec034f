----------------------------- MODULE WatchProofs -----------------------------
(***************************************************************************)
(* Proofs about Watch, for a path of any depth and any number of changes.  *)
(***************************************************************************)
EXTENDS Watch, TLAPS

\* Two facts about the event queue, as run and the kernel change it.
Has(s, op) == \E i \in 1..Len(s) : op \in s[i]

\* An event that is appended adds what it carries and loses nothing.
LEMMA HasAppend ==
  ASSUME NEW s \in Seq(Event), NEW e \in Event, NEW op
  PROVE  /\ Has(s, op) => Has(Append(s, e), op)
         /\ op \in e => Has(Append(s, e), op)
<1>1. Append(s, e) \in Seq(Event) /\ Len(Append(s, e)) = Len(s) + 1 /\ Len(s) \in Nat
  OBVIOUS
<1>2. ASSUME NEW i \in 1..Len(s) PROVE Append(s, e)[i] = s[i]
  OBVIOUS
<1>3. Append(s, e)[Len(s) + 1] = e
  OBVIOUS
<1>4. Has(s, op) => Has(Append(s, e), op)
  <2>1. SUFFICES ASSUME NEW i \in 1..Len(s), op \in s[i] PROVE Has(Append(s, e), op)
    BY DEF Has
  <2>2. i \in 1..Len(Append(s, e)) /\ op \in Append(s, e)[i]
    BY <1>1, <1>2, <2>1
  <2>. QED BY <2>2 DEF Has
<1>5. op \in e => Has(Append(s, e), op)
  <2>1. Len(s) + 1 \in 1..Len(Append(s, e))
    BY <1>1
  <2>. QED BY <1>3, <2>1 DEF Has
<1>. QED BY <1>4, <1>5

\* What a queue carries is carried by its head or by the rest.
LEMMA HasTail ==
  ASSUME NEW s \in Seq(Event), s # <<>>, NEW op, Has(s, op)
  PROVE  op \in Head(s) \/ Has(Tail(s), op)
<1>1. PICK i \in 1..Len(s) : op \in s[i]
  BY DEF Has
<1>2. CASE i = 1
  BY <1>1, <1>2
<1>3. CASE i # 1
  <2>1. i - 1 \in 1..Len(Tail(s)) /\ Tail(s)[i - 1] = s[i]
    BY <1>1, <1>3
  <2>. QED BY <1>1, <2>1 DEF Has
<1>. QED BY <1>2, <1>3

\* The queue after a file system event is the old one or has the event appended.
LEMMA NoticeFact ==
  ASSUME TypeOK, NEW dir, NEW e \in Event, Notice(dir, e)
  PROVE  /\ events' \in Seq(Event)
         /\ \A op : Has(events, op) => Has(events', op)
         /\ dir \in watched /\ ~done => \A op \in e : Has(events', op)
<1>1. events \in Seq(Event)
  BY DEF TypeOK
<1>2. CASE dir \in watched /\ ~done
  <2>1. events' = Append(events, e)
    BY <1>2 DEF Notice
  <2>. QED BY <1>1, <2>1, HasAppend
<1>3. CASE ~(dir \in watched /\ ~done)
  BY <1>1, <1>3 DEF Notice
<1>. QED BY <1>2, <1>3

\* TypeOK holds initially and is kept by every step.
LEMMA TypeInit == Init => TypeOK
<1>. SUFFICES ASSUME Init PROVE TypeOK
  OBVIOUS
<1>1. ev \in Event /\ events \in Seq(Event)
  <2>1. <<>> \in Seq(Event)
    OBVIOUS
  <2>. QED BY <2>1 DEF Init, Event
<1>2. exists \in 0..Depth /\ watched \subseteq 0..Depth /\ p \in 0..Depth
  BY WatchAssumption DEF Init
<1>3. pc \in SubPc \cup RunPc \cup {"select", "stat", "filter", "ended"}
  BY DEF Init, SubPc
<1>4. error \in BOOLEAN /\ lost \in BOOLEAN /\ timer \in BOOLEAN /\ hint \in BOOLEAN
      /\ done \in BOOLEAN /\ noise \in Nat /\ written \in Nat /\ seen \in Nat
  BY DEF Init
<1>. QED BY <1>1, <1>2, <1>3, <1>4 DEF TypeOK

\* addNearest stays on the path.
LEMMA AddUpType ==
  ASSUME TypeOK, NEW from, NEW to, NEW ret, AddUp(from, to, ret)
  PROVE  watched' \subseteq 0..Depth /\ p' \in 0..Depth /\ pc' \in {from, to, ret}
<1>1. p \in 0..Depth /\ watched \subseteq 0..Depth /\ Depth \in Nat
  BY WatchAssumption DEF TypeOK
<1>2. CASE CanAdd(p)
  <2>1. watched' = watched \cup {p} /\ p' = p /\ pc' = to
    BY <1>2, Zenon DEF AddUp
  <2>2. watched' \subseteq 0..Depth
    BY <1>1, <2>1
  <2>. QED BY <1>1, <2>1, <2>2
<1>3. CASE ~CanAdd(p) /\ p = 0
  BY <1>1, <1>3 DEF AddUp
<1>4. CASE ~CanAdd(p) /\ p # 0
  <2>1. watched' = watched /\ p' = p - 1 /\ pc' = from
    BY <1>4, Zenon DEF AddUp
  <2>2. p - 1 \in 0..Depth
    BY <1>1, <1>4
  <2>. QED BY <1>1, <2>1, <2>2
<1>. QED BY <1>2, <1>3, <1>4

LEMMA AddDownType ==
  ASSUME TypeOK, NEW from, NEW ret, AddDown(from, ret)
  PROVE  watched' \subseteq 0..Depth /\ p' \in 0..Depth /\ pc' \in {from, ret}
<1>1. p \in 0..Depth /\ watched \subseteq 0..Depth /\ Depth \in Nat
  BY WatchAssumption DEF TypeOK
<1>2. CASE p < Depth /\ CanAdd(p + 1)
  <2>1. watched' = watched \cup {p + 1} /\ p' = p + 1 /\ pc' = from
    BY <1>2, Zenon DEF AddDown
  <2>2. p + 1 \in 0..Depth
    BY <1>1, <1>2
  <2>3. watched' \subseteq 0..Depth
    BY <1>1, <2>1, <2>2
  <2>. QED BY <2>1, <2>2, <2>3
<1>3. CASE ~(p < Depth /\ CanAdd(p + 1))
  BY <1>1, <1>3 DEF AddDown
<1>. QED BY <1>2, <1>3

LEMMA TypeStep == TypeOK /\ [Next]_vars => TypeOK'
<1>. SUFFICES ASSUME TypeOK, [Next]_vars PROVE TypeOK'
  OBVIOUS
<1>. USE WatchAssumption
<1>0. <<>> \in Seq(Event)
  OBVIOUS
<1>1. CASE Mkdir
  <2>1. events' \in Seq(Event)
    BY <1>1, NoticeFact DEF Mkdir, Event
  <2>. QED BY <1>1, <2>1 DEF Mkdir, TypeOK
<1>2. CASE WriteFile
  <2>1. events' \in Seq(Event)
    BY <1>2, NoticeFact DEF WriteFile, Event
  <2>. QED BY <1>2, <2>1 DEF WriteFile, TypeOK
<1>3. CASE Elsewhere
  <2>1. events' \in Seq(Event)
    BY <1>3, NoticeFact DEF Elsewhere, Event
  <2>. QED BY <1>3, <2>1 DEF Elsewhere, TypeOK
<1>4. CASE Overflow
  BY <1>0, <1>4 DEF Overflow, TypeOK
<1>5. CASE Subscribe
  <2>1. watched' \subseteq 0..Depth /\ p' \in 0..Depth
        /\ pc' \in {"subUp", "subDown", "ended", "select"}
    BY <1>5, AddUpType, AddDownType DEF Subscribe
  <2>2. seen' \in Nat
    BY <1>5 DEF Subscribe, TypeOK
  <2>. QED BY <1>5, <2>1, <2>2 DEF Subscribe, TypeOK, SubPc, RunPc
<1>6. CASE Cancel
  <2>1. done' = TRUE /\ error' = FALSE /\ events' \in Seq(Event)
    BY <1>0, <1>6 DEF Cancel
  <2>2. done' \in BOOLEAN /\ error' \in BOOLEAN
    BY <2>1
  <2>. QED BY <1>6, <2>1, <2>2 DEF Cancel, TypeOK
<1>7. CASE RunEvent
  <2>1. Head(events) \in Event /\ Tail(events) \in Seq(Event)
    BY <1>7 DEF RunEvent, TypeOK
  <2>. QED BY <1>7, <2>1 DEF RunEvent, TypeOK, RunPc
<1>8. CASE RunAdd
  <2>1. watched' \subseteq 0..Depth /\ p' \in 0..Depth
        /\ pc' \in {"up", "down", "stat"}
    BY <1>8, AddUpType, AddDownType DEF RunAdd
  <2>. QED BY <1>8, <2>1 DEF RunAdd, TypeOK, SubPc, RunPc
<1>9. CASE RunDone \/ RunStat \/ RunFilter \/ RunTimer \/ RunError \/ Consume
  BY <1>9 DEF RunDone, RunStat, RunFilter, RunTimer, RunError, Consume, TypeOK, Event
<1>10. CASE UNCHANGED vars
  BY <1>10 DEF vars, TypeOK
<1>. QED
  BY <1>1, <1>2, <1>3, <1>4, <1>5, <1>6, <1>7, <1>8, <1>9, <1>10 DEF Next

-----------------------------------------------------------------------------
\* The event queue of the model in the terms of the lemmas above.
LEMMA QueuedHas == \A op : Queued(op) <=> Has(events, op)
  BY DEF Queued, Has

\* What one step of addNearest does to the watch, once it goes up or down: it ends
\* standing on the deepest directory, unless the watcher was closed.
LEMMA AddUpArms ==
  ASSUME TypeOK, NEW from, NEW to, NEW ret, AddUp(from, to, ret)
  PROVE  /\ watched \subseteq watched'
         /\ \/ pc' = to /\ p' \in watched' /\ p' <= exists
            \/ pc' = ret /\ done
            \/ pc' = from /\ pc = from
<1>1. p \in 0..Depth /\ exists \in 0..Depth /\ Depth \in Nat
  BY WatchAssumption DEF TypeOK
<1>2. CASE CanAdd(p)
  <2>1. watched' = watched \cup {p} /\ p' = p /\ pc' = to
    BY <1>2, Zenon DEF AddUp
  <2>2. p <= exists
    BY <1>2 DEF CanAdd
  <2>. QED BY <2>1, <2>2
<1>3. CASE ~CanAdd(p) /\ p = 0
  <2>1. watched' = watched /\ pc' = ret
    BY <1>3, Zenon DEF AddUp
  <2>2. p <= exists
    BY <1>1, <1>3
  <2>3. done
    BY <1>3, <2>2, Zenon DEF CanAdd
  <2>. QED BY <2>1, <2>3, Zenon
<1>4. CASE ~CanAdd(p) /\ p # 0
  <2>1. watched' = watched /\ pc' = from /\ pc = from
    BY <1>4, Zenon DEF AddUp
  <2>. QED BY <2>1, Zenon
<1>. QED BY <1>2, <1>3, <1>4

LEMMA AddDownArms ==
  ASSUME TypeOK, NEW from, NEW ret, AddDown(from, ret), p \in watched, p <= exists
  PROVE  /\ watched \subseteq watched'
         /\ \/ pc' = from /\ pc = from /\ p' \in watched' /\ p' <= exists
            \/ pc' = ret /\ watched' = watched /\ (done \/ exists \in watched)
<1>1. p \in 0..Depth /\ exists \in 0..Depth /\ Depth \in Nat
  BY WatchAssumption DEF TypeOK
<1>2. CASE p < Depth /\ CanAdd(p + 1)
  <2>1. watched' = watched \cup {p + 1} /\ p' = p + 1 /\ pc' = from /\ pc = from
    BY <1>2, Zenon DEF AddDown
  <2>2. p + 1 <= exists
    BY <1>2 DEF CanAdd
  <2>. QED BY <2>1, <2>2
<1>3. CASE ~(p < Depth /\ CanAdd(p + 1))
  <2>1. watched' = watched /\ pc' = ret
    BY <1>3, Zenon DEF AddDown
  <2>2. done \/ ~(p < Depth /\ p + 1 <= exists)
    BY <1>3, Zenon DEF CanAdd
  <2>3. ~(p < Depth /\ p + 1 <= exists) => exists = p
    BY <1>1
  <2>. QED BY <2>1, <2>2, <2>3, Zenon
<1>. QED BY <1>2, <1>3

\* Every step keeps the watch armed, or on its way.
LEMMA ArmingStep == TypeOK /\ Arming /\ [Next]_vars => Arming'
<1>. SUFFICES ASSUME TypeOK, Arming, [Next]_vars PROVE Arming'
  OBVIOUS
<1>. DEFINE First == \/ lost \/ done \/ exists \in watched \/ Has(events, "create")
                     \/ pc \in SubPc \cup RunPc
            Second == pc \in {"subDown", "down"} => p \in watched /\ p <= exists
<1>a. First /\ Second
  BY QueuedHas DEF Arming
<1>b. SUFFICES First' /\ Second'
  <2>1. Queued("create")' <=> Has(events, "create")'
    BY DEF Queued, Has
  <2>. QED BY <2>1 DEF Arming
<1>t. exists \in 0..Depth /\ p \in 0..Depth /\ Depth \in Nat /\ events \in Seq(Event)
  BY WatchAssumption DEF TypeOK
<1>1. CASE Mkdir
  <2>. DEFINE e == IF exists + 1 = Depth THEN {"create", "within"} ELSE {"create"}
  <2>1. e \in Event /\ "create" \in e /\ Notice(exists, e)
    BY <1>1 DEF Mkdir, Event
  <2>2. /\ Has(events, "create") => Has(events', "create")
        /\ exists \in watched /\ ~done => Has(events', "create")
    BY <2>1, NoticeFact
  <2>3. exists' = exists + 1 /\ lost' = lost /\ done' = done /\ pc' = pc /\ p' = p
        /\ watched' = watched
    BY <1>1 DEF Mkdir
  <2>4. First'
    BY <1>a, <2>2, <2>3, Zenon DEF SubPc, RunPc
  <2>5. Second'
    BY <1>a, <1>t, <2>3
  <2>. QED BY <2>4, <2>5
<1>2. CASE WriteFile \/ Elsewhere
  <2>1. Has(events, "create") => Has(events', "create")
    BY <1>2, NoticeFact DEF WriteFile, Elsewhere, Event
  <2>2. UNCHANGED <<exists, watched, lost, done, pc, p>>
    BY <1>2 DEF WriteFile, Elsewhere
  <2>. QED BY <1>a, <2>1, <2>2, Zenon
<1>3. CASE Overflow
  BY <1>3, <1>a, Zenon DEF Overflow
<1>4. CASE Cancel
  BY <1>4, <1>a, Zenon DEF Cancel
<1>5. CASE Subscribe \/ RunAdd
  <2>0. UNCHANGED <<exists, events, lost, done>>
    BY <1>5 DEF Subscribe, RunAdd
  <2>1. CASE AddUp("subUp", "subDown", "ended")
    BY <2>0, <2>1, AddUpArms DEF SubPc
  <2>2. CASE AddUp("up", "down", "stat")
    BY <2>0, <2>2, AddUpArms DEF RunPc
  <2>3. CASE AddDown("subDown", "select")
    <3>1. p \in watched /\ p <= exists
      BY <1>a, <2>3 DEF AddDown
    <3>. QED BY <2>0, <2>3, <3>1, AddDownArms DEF SubPc
  <2>4. CASE AddDown("down", "stat")
    <3>1. p \in watched /\ p <= exists
      BY <1>a, <2>4 DEF AddDown
    <3>. QED BY <2>0, <2>4, <3>1, AddDownArms DEF RunPc
  <2>. QED BY <1>5, <2>1, <2>2, <2>3, <2>4 DEF Subscribe, RunAdd
<1>6. CASE RunEvent
  <2>1. UNCHANGED <<exists, watched, lost, done>> /\ pc = "select" /\ pc' \in {"up", "filter"}
    BY <1>6 DEF RunEvent
  <2>2. Has(events, "create") => Has(events', "create") \/ pc' = "up"
    BY <1>6, <1>t, HasTail DEF RunEvent
  <2>. QED BY <1>a, <2>1, <2>2 DEF SubPc, RunPc
<1>7. CASE RunDone \/ RunStat \/ RunFilter \/ RunTimer \/ RunError \/ Consume
  <2>1. UNCHANGED <<exists, watched, events, lost, done, p>>
    BY <1>7 DEF RunDone, RunStat, RunFilter, RunTimer, RunError, Consume
  <2>2. pc' = pc \/ (pc \in {"select", "stat", "filter"} /\ pc' \in {"ended", "filter", "select"})
    BY <1>7 DEF RunDone, RunStat, RunFilter, RunTimer, RunError, Consume
  <2>. QED BY <1>a, <2>1, <2>2 DEF SubPc, RunPc
<1>8. CASE UNCHANGED vars
  BY <1>8, <1>a DEF vars
<1>. QED BY <1>1, <1>2, <1>3, <1>4, <1>5, <1>6, <1>7, <1>8 DEF Next

\* The deepest existing directory of the path is watched whenever the subscription
\* is at rest and lost nothing: addNearest in Subscribe and after every create
\* (watch.go:69-77, 117-148).
THEOREM WatchArmed == Spec => []DeepestWatched
<1>1. Init => TypeOK /\ Arming
  BY TypeInit DEF Init, Arming, SubPc
<1>2. TypeOK /\ Arming /\ [Next]_vars => (TypeOK /\ Arming)'
  BY TypeStep, ArmingStep
<1>3. TypeOK /\ Arming => DeepestWatched
  BY DEF Arming, DeepestWatched, AtRest, Queued, SubPc, RunPc
<1>. QED BY <1>1, <1>2, <1>3, PTL DEF Spec

\* Every variable of the subscription keeps its type.
THEOREM WatchTyped == Spec => []TypeOK
  BY TypeInit, TypeStep, PTL DEF Spec

-----------------------------------------------------------------------------
\* Every step keeps an unread change on its way to the consumer.
LEMMA ReportingStep == TypeOK /\ Arming /\ Reporting /\ [Next]_vars => Reporting'
<1>. SUFFICES ASSUME TypeOK, Arming, Reporting, [Next]_vars PROVE Reporting'
  OBVIOUS
<1>. DEFINE
       Known   == written = seen \/ lost \/ done \/ hint \/ timer \/ Has(events, "within")
       InHand  == pc \in RunPc \cup {"stat", "filter"} /\ "within" \in ev
       Missed  == exists = Depth /\ (Has(events, "create") \/ pc \in RunPc \cup {"stat"})
       Opening == pc \in SubPc
<1>a. Known \/ InHand \/ Missed \/ Opening
  BY QueuedHas, Zenon DEF Reporting
<1>b. SUFFICES Known' \/ InHand' \/ Missed' \/ Opening'
  <2>1. \A op : Queued(op)' <=> Has(events, op)'
    BY DEF Queued, Has
  <2>. QED BY <2>1, Zenon DEF Reporting
<1>c. \/ lost \/ done \/ exists \in watched \/ Has(events, "create")
      \/ pc \in SubPc \cup RunPc
  BY QueuedHas DEF Arming
<1>t. exists \in 0..Depth /\ Depth \in Nat /\ events \in Seq(Event) /\ p \in 0..Depth
  BY WatchAssumption DEF TypeOK
<1>1. CASE Mkdir
  <2>. DEFINE e == IF exists + 1 = Depth THEN {"create", "within"} ELSE {"create"}
  <2>1. e \in Event /\ Notice(exists, e) /\ exists # Depth
    BY <1>1, <1>t DEF Mkdir, Event
  <2>2. Has(events, "within") => Has(events', "within")
    BY <2>1, NoticeFact
  <2>3. UNCHANGED <<lost, done, hint, timer, written, seen, pc, ev>>
    BY <1>1 DEF Mkdir
  <2>. QED BY <1>a, <2>1, <2>2, <2>3, Zenon
<1>2. CASE WriteFile
  <2>1. PICK e \in {{"within"}, {"create", "within"}} : Notice(Depth, e)
    BY <1>2 DEF WriteFile
  <2>2. e \in Event /\ "within" \in e
    BY DEF Event
  <2>3. /\ Has(events, "create") => Has(events', "create")
        /\ Depth \in watched /\ ~done => Has(events', "within")
    BY <2>1, <2>2, NoticeFact
  <2>4. exists = Depth /\ UNCHANGED <<exists, lost, done, pc>>
    BY <1>2 DEF WriteFile
  <2>. QED BY <1>c, <2>3, <2>4, Zenon
<1>3. CASE Elsewhere
  <2>1. \A op : Has(events, op) => Has(events', op)
    BY <1>3, NoticeFact DEF Elsewhere, Event
  <2>2. UNCHANGED <<exists, lost, done, hint, timer, written, seen, pc, ev>>
    BY <1>3 DEF Elsewhere
  <2>. QED BY <1>a, <2>1, <2>2, Zenon
<1>4. CASE Overflow \/ Cancel
  BY <1>4, Zenon DEF Overflow, Cancel
<1>5. CASE Subscribe
  <2>1. CASE AddUp("subUp", "subDown", "ended")
    <3>1. pc' \in {"subUp", "subDown"} \/ done
      BY <2>1, AddUpArms
    <3>2. done' = done
      BY <1>5 DEF Subscribe
    <3>. QED BY <3>1, <3>2, Zenon DEF SubPc
  <2>2. CASE AddDown("subDown", "select")
    <3>1. pc' = "subDown" \/ pc' = "select"
      BY <2>2, AddDownType
    <3>2. pc' = "select" => seen' = written /\ written' = written
      BY <1>5 DEF Subscribe
    <3>. QED BY <3>1, <3>2, Zenon DEF SubPc
  <2>. QED BY <1>5, <2>1, <2>2 DEF Subscribe
<1>6. CASE RunEvent
  <2>1. pc = "select" /\ UNCHANGED <<exists, lost, done, hint, timer, written, seen>>
    BY <1>6 DEF RunEvent
  <2>2. \A op : Has(events, op) => Has(events', op) \/ op \in ev'
    BY <1>6, <1>t, HasTail DEF RunEvent
  <2>3. pc' \in {"up", "filter"} /\ ("create" \in ev' => pc' = "up")
    BY <1>6 DEF RunEvent
  <2>. QED BY <1>a, <2>1, <2>2, <2>3 DEF SubPc, RunPc
<1>7. CASE RunAdd
  <2>1. UNCHANGED <<exists, events, ev, lost, done, hint, timer, written, seen>>
    BY <1>7 DEF RunAdd
  <2>2. pc \in {"up", "down"} /\ pc' \in {"up", "down", "stat"}
    <3>1. CASE AddUp("up", "down", "stat")
      BY <3>1, AddUpType DEF AddUp
    <3>2. CASE AddDown("down", "stat")
      BY <3>2, AddDownType DEF AddDown
    <3>. QED BY <1>7, <3>1, <3>2 DEF RunAdd
  <2>. QED BY <1>a, <2>1, <2>2 DEF SubPc, RunPc
<1>8. CASE RunStat
  <2>1. /\ pc = "stat" /\ pc' = "filter"
        /\ UNCHANGED <<exists, events, ev, lost, done, timer, written, seen>>
    BY <1>8, Zenon DEF RunStat
  <2>2. hint' = (hint \/ exists = Depth)
    BY <1>8, Zenon DEF RunStat
  <2>3. Missed => hint'
    BY <2>2, Zenon
  <2>4. hint => hint'
    BY <2>2, Zenon
  <2>5. InHand => InHand'
    BY <2>1, Zenon
  <2>6. Known => Known'
    BY <2>1, <2>4, Zenon
  <2>7. ~Opening
    BY <2>1 DEF SubPc
  <2>. QED BY <1>a, <2>3, <2>5, <2>6, <2>7, Zenon
<1>9. CASE RunFilter
  <2>1. /\ pc = "filter"
        /\ UNCHANGED <<exists, events, lost, done, hint, written, seen>>
    BY <1>9, Zenon DEF RunFilter
  <2>2. timer' = (timer \/ "within" \in ev)
    BY <1>9, Zenon DEF RunFilter
  <2>3. InHand => Known'
    BY <2>2, Zenon
  <2>4. Known => Known'
    BY <2>1, <2>2, Zenon
  <2>5. ~Opening /\ ~(pc \in RunPc \cup {"stat"})
    BY <2>1 DEF SubPc, RunPc
  <2>6. Missed => Missed'
    BY <2>1, <2>5, Zenon
  <2>. QED BY <1>a, <2>3, <2>4, <2>5, <2>6, Zenon
<1>10. CASE RunTimer \/ RunError
  BY <1>10, Zenon DEF RunTimer, RunError
<1>11. CASE RunDone
  BY <1>11, Zenon DEF RunDone
<1>12. CASE Consume
  BY <1>12 DEF Consume
<1>13. CASE UNCHANGED vars
  <2>1. UNCHANGED <<exists, events, ev, lost, done, hint, timer, written, seen, pc>>
    BY <1>13 DEF vars
  <2>. QED BY <1>a, <2>1, Zenon
<1>. QED
  BY <1>1, <1>2, <1>3, <1>4, <1>5, <1>6, <1>7, <1>8, <1>9, <1>10, <1>11, <1>12, <1>13
  DEF Next

\* No change of the target's files is left unreported by a subscription at rest
\* that lost nothing, however late the target is created: the stat after addNearest
\* answers for what was written before the watch (watch.go:76-84).
THEOREM WatchReports == Spec => []HintCoversWrite
<1>1. Init => TypeOK /\ Arming /\ Reporting
  BY TypeInit DEF Init, Arming, Reporting, SubPc
<1>2. TypeOK /\ Arming /\ Reporting /\ [Next]_vars => (TypeOK /\ Arming /\ Reporting)'
  BY TypeStep, ArmingStep, ReportingStep
<1>3. TypeOK /\ Reporting => HintCoversWrite
  BY DEF Reporting, HintCoversWrite, AtRest, Queued, SubPc, RunPc
<1>. QED BY <1>1, <1>2, <1>3, PTL DEF Spec

=============================================================================
