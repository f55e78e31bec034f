--------------------------- MODULE MCSharedStore ---------------------------
(* Small instances of SharedStore for TLC. *)
EXTENDS SharedStore, TLC

CONSTANTS s1, s2, s3, s4, j1, l1

OwnPids    == [s \in Servers |-> IF s = s1 THEN 11 ELSE IF s = s2 THEN 12 ELSE 13]
\* s4 may be started with the pid that s1 had.
ReusedPids == [s \in Servers |-> IF s = s2 THEN 12 ELSE IF s = s3 THEN 13 ELSE 11]

\* registry.json, absent or with one job.
NoLegacy  == [j \in {} |-> "running"]
OneLegacy == [j \in {l1} |-> "running"]

=============================================================================
