---------------------------- MODULE MCStatusWait ----------------------------
(* Small instances of StatusWait for TLC. *)
EXTENDS StatusWait, TLC

CONSTANTS c1, c2

\* Nothing is written in the last unit of time, which only ends the waits; the
\* worktree changes in the first one, the run file also after it; and
\* the job ends by a cancel or not at all: how it ends otherwise only shows in
\* the status of the answers, and Cancel takes the worktree away.  One call at
\* a time asks for a replay.
Scope ==
  /\ file.updated < MaxNow /\ wtLast <= 1
  /\ job.status \in {"running", "aborted"}
  /\ \A c, d \in Calls : replay[c] /\ replay[d] => c = d

CallSymmetry == Permutations(Calls)

=============================================================================
