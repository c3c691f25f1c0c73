-------------------------- MODULE MCEventDispatch --------------------------
(* Model values for the threads and listeners of EventDispatch. *)
EXTENDS EventDispatch

CONSTANTS c1, l1, l2, l3

=============================================================================
