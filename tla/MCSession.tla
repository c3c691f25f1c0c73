---------------------------- MODULE MCSession ----------------------------
(* Model values for the threads of Session. *)
EXTENDS Session

CONSTANTS c1, c2

=============================================================================
