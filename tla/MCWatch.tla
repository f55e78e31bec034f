------------------------------ MODULE MCWatch ------------------------------
(* The instance of Watch for TLC: its constants are numbers, given in the cfg. *)
EXTENDS Watch

=============================================================================
