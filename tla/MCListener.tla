----------------------------- MODULE MCListener -----------------------------
(* Listener for TLC; its constants are numbers, set in the configurations. *)
EXTENDS Listener

=============================================================================
