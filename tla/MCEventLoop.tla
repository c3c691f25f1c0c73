---------------------------- MODULE MCEventLoop ----------------------------
(* Model values for the threads of EventLoop. *)
EXTENDS EventLoop, TLC

CONSTANTS c1, c2

ClientSymmetry == Permutations(Clients)

=============================================================================
