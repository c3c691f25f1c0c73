---------------------------- MODULE MCTcpIstream ----------------------------
(* Model values for the clients of TcpIstream. *)
EXTENDS TcpIstream

CONSTANTS c1, c2

=============================================================================
