------------------------------ MODULE MCTimers ------------------------------
(* Model values for the timers and threads of Timers. *)
EXTENDS Timers

CONSTANTS c1, t1, t2, t3

=============================================================================
