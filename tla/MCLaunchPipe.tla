---------------------------- MODULE MCLaunchPipe ----------------------------
(* The instance of LaunchPipe for TLC: its constants are given in the cfg. *)
EXTENDS LaunchPipe

=============================================================================
