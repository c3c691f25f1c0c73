---------------------------- MODULE MCTcpOstream ----------------------------
(* Model values for the clients of TcpOstream. *)
EXTENDS TcpOstream, TLC

CONSTANTS c1, c2

ClientSymmetry == Permutations(Clients)

=============================================================================
