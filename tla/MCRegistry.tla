----------------------------- MODULE MCRegistry -----------------------------
(* Small instances of Registry for TLC. *)
EXTENDS Registry, TLC

CONSTANTS j1, j2, j3

OwnDirs    == [j \in Jobs |-> j]        \* write jobs: a worktree each
SharedDir  == [j \in Jobs |-> "cwd"]    \* read jobs started in one directory

\* Leaves out what correlate finds: no pi process emits its session event (a
\* step nothing obliges it to take), so correlate waits until it is canceled.
NoSessions == \A j \in Jobs : sessionCh[j] = "empty"

ReadSymmetry == Permutations(Jobs \ WriteJobs)

=============================================================================
