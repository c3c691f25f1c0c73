------------------------------- MODULE Listener -------------------------------
(***************************************************************************)
(* posix_listener::on_read(): how the handler of an edge-triggered         *)
(* listening socket accepts connections, under the limit of the process on *)
(* open descriptors.  The loop thread dispatches (EventDispatch models how)*)
(* and its handlers may close the listener; the peers connect and give up. *)
(*                                                                         *)
(* Assertions are enabled, as in the Debug build of CMakeLists.txt: where  *)
(* one fails, the program is at the label "aborted".  Connections are      *)
(* counted, not told apart.                                                *)
(***************************************************************************)
EXTENDS Naturals

CONSTANTS
  MaxFiles,   \* descriptors left to the process when the listener is open
  MaxPeers,   \* bound: connections in a behaviour
  MaxSignals  \* bound: calls of accept() that a signal, or an error that says
              \* nothing of a connection, ends

ASSUME ListenerAssumption ==
  /\ MaxFiles \in Nat
  /\ MaxPeers \in Nat
  /\ MaxSignals \in Nat

VARIABLES
  pc,        \* where the loop thread is
  isClosed,  \* flag_closed, and the listening socket is closed
  edge,      \* the epoll instance has an edge of the socket to report
  backlog,   \* connections that wait to be accepted
  sessions,  \* accepted connections whose socket is open
  lost,      \* descriptors of connections that accept() forgot to close
  idle,      \* idle_file_ is open
  peers,     \* connections so far
  signals    \* calls that ended so, so far

listenerVars == <<pc, isClosed, edge, backlog, sessions, lost, idle, peers, signals>>

(* The spare descriptor is opened by the constructor, before the others.   *)
Free == MaxFiles - sessions - lost + (IF idle THEN 0 ELSE 1)

ListenerTypeOK ==
  /\ pc \in {"wait", "on_read", "while", "accept", "spare", "spare_accept",
             "handler", "aborted"}
  /\ isClosed \in BOOLEAN
  /\ edge \in BOOLEAN
  /\ backlog \in 0 .. MaxPeers
  /\ sessions \in 0 .. MaxPeers
  /\ lost \in 0 .. MaxPeers
  /\ idle \in BOOLEAN
  /\ peers \in 0 .. MaxPeers
  /\ signals \in 0 .. MaxSignals
  /\ Free >= 0

ListenerInit ==
  /\ pc = "wait"
  /\ isClosed = FALSE
  /\ edge = FALSE
  /\ backlog = 0
  /\ sessions = 0
  /\ lost = 0
  /\ idle = TRUE
  /\ peers = 0
  /\ signals = 0

-----------------------------------------------------------------------------
(* The peers and the owners of the sessions.                               *)

PeerConnects ==
  /\ peers < MaxPeers
  /\ ~isClosed
  /\ peers' = peers + 1
  /\ backlog' = backlog + 1
  /\ edge' = TRUE
  /\ UNCHANGED <<pc, isClosed, sessions, lost, idle, signals>>

CloseSession ==
  /\ sessions > 0
  /\ sessions' = sessions - 1
  /\ UNCHANGED <<pc, isClosed, edge, backlog, lost, idle, peers, signals>>

-----------------------------------------------------------------------------
(* The loop thread.                                                        *)

(* The edge is reported and on_events() entered.                           *)
Dispatch ==
  /\ pc = "wait"
  /\ edge
  /\ ~isClosed
  /\ pc' = "on_read"
  /\ edge' = FALSE
  /\ UNCHANGED <<isClosed, backlog, sessions, lost, idle, peers, signals>>

(* on_read() asserts that the listener is open.                            *)
OnRead ==
  /\ pc = "on_read"
  /\ pc' = IF isClosed THEN "aborted" ELSE "while"
  /\ UNCHANGED <<isClosed, edge, backlog, sessions, lost, idle, peers, signals>>

(* Faulty variant: the loop is left after an accepted connection.          *)
WhileOnce ==
  /\ pc = "while"
  /\ pc' = IF isClosed \/ sessions > 0 THEN "wait" ELSE "accept"
  /\ UNCHANGED <<isClosed, edge, backlog, sessions, lost, idle, peers, signals>>

(* while (ev_.registed() and !closed()): both change in close() alone.     *)
While ==
  /\ pc = "while"
  /\ pc' = IF isClosed THEN "wait" ELSE "accept"
  /\ UNCHANGED <<isClosed, edge, backlog, sessions, lost, idle, peers, signals>>

(* The system takes a descriptor first, then a connection.                 *)
Accepted ==
  /\ pc = "accept"
  /\ Free > 0
  /\ backlog > 0
  /\ backlog' = backlog - 1
  /\ sessions' = sessions + 1
  /\ pc' = "handler"
  /\ UNCHANGED <<isClosed, edge, lost, idle, peers, signals>>

(* EAGAIN: on_read() returns.                                              *)
WouldBlock ==
  /\ pc = "accept"
  /\ Free > 0
  /\ backlog = 0
  /\ pc' = "wait"
  /\ UNCHANGED <<isClosed, edge, backlog, sessions, lost, idle, peers, signals>>

(* Faulty variant: an aborted connection ends on_read().                   *)
AbortedReturns ==
  /\ pc = "accept"
  /\ Free > 0
  /\ backlog > 0
  /\ backlog' = backlog - 1
  /\ pc' = "wait"
  /\ UNCHANGED <<isClosed, edge, sessions, lost, idle, peers, signals>>

(* ECONNABORTED, EPROTO of the system: the peer has given up; the loop     *)
(* goes on.                                                                *)
Aborted ==
  /\ pc = "accept"
  /\ Free > 0
  /\ backlog > 0
  /\ backlog' = backlog - 1
  /\ pc' = "while"
  /\ UNCHANGED <<isClosed, edge, sessions, lost, idle, peers, signals>>

(* A connection of a family that the library does not know: accept()       *)
(* returns EPROTO without closing the descriptor it was given.             *)
UnknownFamily ==
  /\ pc = "accept"
  /\ Free > 0
  /\ backlog > 0
  /\ backlog' = backlog - 1
  /\ lost' = lost + 1
  /\ pc' = "while"
  /\ UNCHANGED <<isClosed, edge, sessions, idle, peers, signals>>

(* EINTR, and any error without a case of its own: the loop goes on, and   *)
(* no connection has left the backlog.                                     *)
Interrupted ==
  /\ pc = "accept"
  /\ signals < MaxSignals
  /\ signals' = signals + 1
  /\ pc' = "while"
  /\ UNCHANGED <<isClosed, edge, backlog, sessions, lost, idle, peers>>

(* EMFILE, ENFILE: the spare descriptor is closed, descriptor::close()       *)
(* asserts that it is open.                                                *)
OutOfFiles ==
  /\ pc = "accept"
  /\ Free = 0
  /\ pc' = "spare"
  /\ UNCHANGED <<isClosed, edge, backlog, sessions, lost, idle, peers, signals>>

CloseSpare ==
  /\ pc = "spare"
  /\ idle' = FALSE
  /\ pc' = IF idle THEN "spare_accept" ELSE "aborted"
  /\ UNCHANGED <<isClosed, edge, backlog, sessions, lost, peers, signals>>

(* temp_sock.accept(addr, temp_sock, temp_ec): the call is made on the new *)
(* socket object, not on the listening one, and asserts that it is open.   *)
SpareAccept ==
  /\ pc = "spare_accept"
  /\ pc' = "aborted"
  /\ UNCHANGED <<isClosed, edge, backlog, sessions, lost, idle, peers, signals>>

(* The session handler returns or throws; it may close the listener, which *)
(* resets the connections that wait, and does not take the socket over if  *)
(* it throws.                                                              *)
HandlerReturns ==
  /\ pc = "handler"
  /\ pc' = "while"
  /\ \E keep \in BOOLEAN :
       sessions' = IF keep \/ sessions = 0 THEN sessions ELSE sessions - 1
  /\ UNCHANGED <<isClosed, edge, backlog, lost, idle, peers, signals>>

HandlerCloses ==
  /\ pc = "handler"
  /\ ~isClosed
  /\ isClosed' = TRUE
  /\ edge' = FALSE
  /\ backlog' = 0
  /\ UNCHANGED <<pc, sessions, lost, idle, peers, signals>>

LoopStep ==
  \/ Dispatch \/ OnRead \/ While
  \/ Accepted \/ WouldBlock \/ OutOfFiles \/ CloseSpare \/ SpareAccept
  \/ HandlerReturns

ListenerNext ==
  \/ PeerConnects \/ CloseSession
  \/ LoopStep \/ Aborted \/ UnknownFamily \/ Interrupted \/ HandlerCloses

ListenerSpec == ListenerInit /\ [][ListenerNext]_listenerVars

(* The loop thread runs and handlers return.                               *)
ListenerFairSpec == ListenerSpec /\ WF_listenerVars(LoopStep)

-----------------------------------------------------------------------------
(* When on_read() has returned, no connection is left in the backlog of an *)
(* open listener without an edge that is still to be reported: accept() is *)
(* called until it would block, and each error on the way goes on.         *)
NoStrandedConnection ==
  pc = "wait" /\ ~isClosed /\ backlog > 0 => edge

(* Every connection leaves the backlog: it is accepted, given up by its    *)
(* peer or reset when the listener is closed.                              *)
BacklogDrained == backlog > 0 ~> backlog = 0

(* No assertion of the accept path fails: on_read()'s own, that of         *)
(* descriptor::close() and that of socket::accept(), which is called on an *)
(* open socket only.                                                       *)
AssertionsHold == pc # "aborted"

=============================================================================
