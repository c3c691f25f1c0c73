---------------------------- MODULE MCService ----------------------------
(* Model values for the threads of Service. *)
EXTENDS Service

CONSTANTS c1, c2

=============================================================================
