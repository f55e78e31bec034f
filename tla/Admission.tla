----------------------------- MODULE Admission -----------------------------
(***************************************************************************)
(* What the registry promises about admission, without its machinery: at   *)
(* most Cap jobs hold a slot, the others wait in arrival order, a slot     *)
(* that becomes free goes to the job that waits longest, and until         *)
(* shutdown no slot is free while a job waits.                             *)
(***************************************************************************)
EXTENDS Naturals, Sequences, FiniteSets

CONSTANTS Jobs, Cap

VARIABLES
  waiting,   \* the jobs waiting for a slot, in arrival order
  holding,   \* the jobs holding a slot
  left,      \* the jobs that gave up their slot or their place
  shutdown   \* no waiting job is promoted any more

aVars == <<waiting, holding, left, shutdown>>

Fresh(j) == /\ j \notin holding \cup left
            /\ \A i \in 1 .. Len(waiting) : waiting[i] # j

AInit == waiting = <<>> /\ holding = {} /\ left = {} /\ shutdown = FALSE

\* A newcomer takes a free slot; before shutdown only if nobody waits.
Admit(j) ==
  /\ Fresh(j) /\ Cardinality(holding) < Cap
  /\ shutdown \/ waiting = <<>>
  /\ holding' = holding \cup {j}
  /\ UNCHANGED <<waiting, left, shutdown>>

Enqueue(j) ==
  /\ Fresh(j) /\ Cardinality(holding) = Cap
  /\ waiting' = Append(waiting, j)
  /\ UNCHANGED <<holding, left, shutdown>>

\* A waiting job leaves; the order of the others is kept.
Withdraw(j) ==
  /\ \E i \in 1 .. Len(waiting) :
       /\ waiting[i] = j
       /\ waiting' = [n \in 1 .. (Len(waiting) - 1) |->
                        IF n < i THEN waiting[n] ELSE waiting[n + 1]]
  /\ left' = left \cup {j}
  /\ UNCHANGED <<holding, shutdown>>

\* A slot is given up and handed to the head of the line, in one step.
HandOver(j) ==
  /\ j \in holding /\ ~shutdown /\ waiting # <<>>
  /\ holding' = (holding \ {j}) \cup {Head(waiting)}
  /\ waiting' = Tail(waiting)
  /\ left' = left \cup {j}
  /\ UNCHANGED shutdown

GiveUp(j) ==
  /\ j \in holding /\ (shutdown \/ waiting = <<>>)
  /\ holding' = holding \ {j}
  /\ left' = left \cup {j}
  /\ UNCHANGED <<waiting, shutdown>>

Shutdown == ~shutdown /\ shutdown' = TRUE /\ UNCHANGED <<waiting, holding, left>>

ANext == \/ \E j \in Jobs : \/ Admit(j) \/ Enqueue(j) \/ Withdraw(j)
                           \/ HandOver(j) \/ GiveUp(j)
         \/ Shutdown

ASpec == AInit /\ [][ANext]_aVars
=============================================================================
