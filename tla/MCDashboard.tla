---------------------------- MODULE MCDashboard ----------------------------
(* Small instances of Dashboard for TLC. *)
EXTENDS Dashboard

CONSTANTS c1, c2

\* An SSE client and a detail request share nothing but the poller's inputs: they
\* are explored one at a time, without faults, without ageing and without an orphan.
\* A detail request shares with the poller its run cache alone: it meets the poller's
\* first tick.  The run snapshot is read by the detail request alone; with a client
\* the run file is written once.
Connected == \E c \in Clients : cl[c].pc # "off"
OneVisitor ==
  /\ ~(Connected /\ (dt.pc # "idle" \/ row.snap # 0))
  /\ Connected \/ dt.pc # "idle" \/ row.snap # 0 =>
       stale = 0 /\ ~wtActive /\ faults = 0 /\ proc # "orphan"
  /\ dt.pc # "idle" => ~primed
  /\ Connected => written <= 1

\* The poller meets a fault, a busy worktree and an orphan one at a time.
OneTrouble ==
  /\ faults > 0 => ~wtActive
  /\ proc = "orphan" => faults = 0 /\ ~wtActive

=============================================================================
