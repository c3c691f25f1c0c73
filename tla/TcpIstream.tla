----------------------------- MODULE TcpIstream -----------------------------
(***************************************************************************)
(* The reading side of a TCP session: istream (posix_tcp_istream.cpp) with *)
(* the parts of posix_session (posix_session.cpp) that reach it, above an  *)
(* edge-triggered epoll.  Clients and the message handler post reads with  *)
(* async_read() and async_read_some(); on_read() runs on the loop thread,  *)
(* as a task that was posted together with a read or because epoll saw an  *)
(* edge.  close() may come from anywhere and takes effect in a task.       *)
(*                                                                         *)
(* complete_ says that the socket is known to be drained, so that the next *)
(* edge will call on_read(): a read posted then needs no task of its own.  *)
(* The data are abstracted to a number of bytes.                           *)
(***************************************************************************)
EXTENDS Naturals, Sequences

CONSTANTS
  Clients,     \* threads that use the session, besides the loop thread
  Sizes,       \* the sizes of the buffers that are posted
  MaxReads,    \* bound: reads posted in a behaviour
  MaxBytes,    \* bound: bytes the peer sends
  MayReset,    \* may the peer reset the connection?
  MaySendOob,  \* may the peer send a byte of urgent data?
  MayClose     \* may a client or the message handler call close()?

ASSUME IstreamAssumption ==
  /\ Sizes \subseteq Nat \ {0}
  /\ MaxReads \in Nat
  /\ MaxBytes \in Nat
  /\ {MayReset, MaySendOob, MayClose} \subseteq BOOLEAN

VARIABLES
  ctxq,       \* ctxq_, oldest read first (the code pushes at the front and
              \* pops at the back): room is what is left of the buffer, all
              \* is need_complete
  next_ctx,   \* next_ctx_: the read it points to, 0 for nullptr
  complete,   \* complete_
  flags,      \* the flags of the session that are set
  tasks,      \* what the loop's task queue holds for this session
  pc,         \* pc[c]: where client c is in async_read()
  at,         \* where the loop thread is
  after,      \* where it goes on when the running handler returns
  oob_event,  \* on_events() has on_oob() still to call
  ctx,        \* on_read()'s reference to *next_ctx_
  bytes,      \* bytes in the receive buffer of the socket
  oob,        \* the socket has an urgent byte
  peer,       \* "open", "eof", "reset", or "dead" for a reset that recv()
              \* has reported: what recv() says when bytes = 0
  edge,       \* the socket is on epoll's ready list
  sent,       \* history: bytes the peer has sent
  posted,     \* history: reads posted so far
  done        \* history: the reads whose buffer was filled, in that order

queueVars == <<ctxq, next_ctx, posted>>
loopVars == <<at, after, oob_event, ctx>>
socketVars == <<bytes, oob, peer, edge, sent>>
vars == <<queueVars, complete, flags, tasks, pc, loopVars, socketVars, done>>

Reads == 1 .. MaxReads

Contexts == [id : Reads, room : Nat, all : BOOLEAN]

Flags == {"closing", "closed", "eof", "error", "reset"}

TypeOK ==
  /\ ctxq \in Seq(Contexts)
  /\ next_ctx \in 0 .. MaxReads
  /\ complete \in BOOLEAN
  /\ flags \subseteq Flags
  /\ tasks \in Seq({"read", "close"})
  /\ pc \in [Clients -> {"idle", "accepted", "pushed"}]
  /\ at \in {"idle", "on_read", "loop", "recv", "drained", "filled", "handler",
             "on_oob", "oob_loop", "oob_recv", "aborted"}
  /\ after \in {"loop", "oob_loop", "oob_event", "idle"}
  /\ oob_event \in BOOLEAN
  /\ ctx \in 0 .. MaxReads
  /\ bytes \in 0 .. MaxBytes
  /\ oob \in BOOLEAN
  /\ peer \in {"open", "eof", "reset", "dead"}
  /\ edge \in BOOLEAN
  /\ sent \in 0 .. MaxBytes
  /\ posted \in 0 .. MaxReads
  /\ done \in Seq(Reads)

Init ==
  /\ ctxq = <<>>
  /\ next_ctx = 0
  /\ complete = FALSE
  /\ flags = {}
  /\ tasks = <<>>
  /\ pc = [c \in Clients |-> "idle"]
  /\ at = "idle"
  /\ after = "idle"
  /\ oob_event = FALSE
  /\ ctx = 0
  /\ bytes = 0
  /\ oob = FALSE
  /\ peer = "open"
  /\ edge = FALSE
  /\ sent = 0
  /\ posted = 0
  /\ done = <<>>

Closed == flags \cap {"closed", "closing"} # {}

Readable == bytes > 0 \/ peer # "open"

-----------------------------------------------------------------------------
(* The peer.  Whatever it does is an edge for epoll.                       *)

PeerSends ==
  /\ peer = "open"
  /\ sent < MaxBytes
  /\ sent' = sent + 1
  /\ bytes' = bytes + 1
  /\ edge' = TRUE
  /\ UNCHANGED <<queueVars, complete, flags, tasks, pc, loopVars, oob, peer,
                 done>>

PeerSendsOob ==
  /\ MaySendOob
  /\ peer = "open"
  /\ ~oob
  /\ oob' = TRUE
  /\ edge' = TRUE
  /\ UNCHANGED <<queueVars, complete, flags, tasks, pc, loopVars, bytes, peer,
                 sent, done>>

PeerShutsDown ==
  /\ peer = "open"
  /\ peer' = "eof"
  /\ edge' = TRUE
  /\ UNCHANGED <<queueVars, complete, flags, tasks, pc, loopVars, bytes, oob,
                 sent, done>>

(* A reset discards what has not been received.                            *)
PeerResets ==
  /\ MayReset
  /\ peer = "open"
  /\ peer' = "reset"
  /\ bytes' = 0
  /\ edge' = TRUE
  /\ UNCHANGED <<queueVars, complete, flags, tasks, pc, loopVars, oob, sent,
                 done>>

Peer == PeerSends \/ PeerSendsOob \/ PeerShutsDown \/ PeerResets

-----------------------------------------------------------------------------
(* async_read() (all = TRUE) and async_read_some() (all = FALSE).          *)

(* The part under ctxq_mutex_.                                             *)
PushContext ==
  /\ posted < MaxReads
  /\ posted' = posted + 1
  /\ \E size \in Sizes, all \in BOOLEAN :
       ctxq' = Append(ctxq, [id |-> posted', room |-> size, all |-> all])
  /\ next_ctx' = IF next_ctx = 0 THEN ctxq'[1].id ELSE next_ctx

(* posix_session::async_read() refuses a read once the session is closing; *)
(* a read that was let through may be overtaken by a close().              *)
AcceptRead(c) ==
  /\ pc[c] = "idle"
  /\ ~Closed
  /\ pc' = [pc EXCEPT ![c] = "accepted"]
  /\ UNCHANGED <<queueVars, complete, flags, tasks, loopVars, socketVars, done>>

PushRead(c) ==
  /\ pc[c] = "accepted"
  /\ PushContext
  /\ pc' = [pc EXCEPT ![c] = "pushed"]
  /\ UNCHANGED <<complete, flags, tasks, loopVars, socketVars, done>>

(* Faulty variant: no task is posted.                                      *)
PostReadNever(c) ==
  /\ pc[c] = "pushed"
  /\ pc' = [pc EXCEPT ![c] = "idle"]
  /\ UNCHANGED <<queueVars, complete, flags, tasks, loopVars, socketVars, done>>

(* if (!complete_) run_in_loop(on_read), without the mutex.                *)
PostRead(c) ==
  /\ pc[c] = "pushed"
  /\ tasks' = IF complete THEN tasks ELSE Append(tasks, "read")
  /\ pc' = [pc EXCEPT ![c] = "idle"]
  /\ UNCHANGED <<queueVars, complete, flags, loopVars, socketVars, done>>

(* Faulty variant: the session is closed in the caller's thread.           *)
CloseAtOnce ==
  /\ MayClose
  /\ ~Closed
  /\ flags' = flags \cup {"closed", "eof", "reset"}
  /\ ctxq' = <<>>
  /\ next_ctx' = 0
  /\ edge' = FALSE
  /\ UNCHANGED <<posted, complete, tasks, loopVars, bytes, oob, peer, sent, done>>

(* posix_session::close(), called at most once.                            *)
Close ==
  /\ MayClose
  /\ ~Closed
  /\ flags' = flags \cup {"closing"}
  /\ tasks' = Append(tasks, "close")
  /\ UNCHANGED <<queueVars, complete, loopVars, socketVars, done>>

ClientClose(c) ==
  /\ pc[c] = "idle"
  /\ Close
  /\ UNCHANGED pc

-----------------------------------------------------------------------------
(* The message handler and the oob handler.                                *)

(* async_read() on the loop thread is one step: complete_ is only written  *)
(* by this thread.                                                         *)
HandlerRead ==
  /\ at = "handler"
  /\ ~Closed
  /\ PushContext
  /\ tasks' = IF complete THEN tasks ELSE Append(tasks, "read")
  /\ UNCHANGED <<complete, flags, pc, loopVars, socketVars, done>>

HandlerClose ==
  /\ at = "handler"
  /\ Close
  /\ UNCHANGED pc

(* on_read() is left: on_events() calls on_oob() next if epoll said so.    *)
LeaveOnRead == at' = IF oob_event THEN "on_oob" ELSE "idle"

HandlerReturn ==
  /\ at = "handler"
  /\ IF after = "oob_event" THEN LeaveOnRead ELSE at' = after
  /\ UNCHANGED <<queueVars, complete, flags, tasks, pc, after, oob_event, ctx,
                 socketVars, done>>

CallHandler(then) ==
  /\ at' = "handler"
  /\ after' = then

-----------------------------------------------------------------------------
(* The loop thread.                                                        *)

(* A task is taken from the queue: on_read() or the body of close().       *)
RunTask ==
  /\ at = "idle"
  /\ tasks # <<>>
  /\ tasks' = Tail(tasks)
  /\ oob_event' = FALSE
  /\ IF Head(tasks) = "read"
     THEN /\ at' = "on_read"
          /\ UNCHANGED <<ctxq, next_ctx, flags, edge>>
     ELSE /\ flags' = flags \cup {"closed", "eof", "reset"}
          /\ edge' = FALSE
          /\ ctxq' = <<>>
          /\ next_ctx' = 0
          /\ UNCHANGED at
  /\ UNCHANGED <<posted, complete, pc, after, ctx, bytes, oob, peer, sent, done>>

(* on_events(): epoll reports an edge, with what is readable by then.  Of  *)
(* a reset connection it reports the error alone, which is for on_read().  *)
Dispatch ==
  /\ at = "idle"
  /\ "closed" \notin flags
  /\ edge
  /\ edge' = FALSE
  /\ at' = IF Readable THEN "on_read" ELSE IF oob THEN "on_oob" ELSE "idle"
  /\ oob_event' = (oob /\ peer \notin {"reset", "dead"})
  /\ UNCHANGED <<queueVars, complete, flags, tasks, pc, after, ctx, bytes, oob,
                 peer, sent, done>>

(* assert(!session_.is_eof()), in on_read() and in on_oob().               *)
AssertNotEof(here, go_on) ==
  /\ at = here
  /\ at' = IF "eof" \in flags THEN "aborted" ELSE go_on
  /\ UNCHANGED <<queueVars, complete, flags, tasks, pc, after, oob_event, ctx,
                 socketVars, done>>

(* Faulty variant: complete_ is set when there is no read to serve.        *)
ReadNothingCompletes ==
  /\ at = "loop"
  /\ Closed \/ (next_ctx = 0 /\ ~complete)
  /\ complete' = TRUE
  /\ LeaveOnRead
  /\ UNCHANGED <<queueVars, flags, tasks, pc, after, oob_event, ctx,
                 socketVars, done>>

(* The head of the loop in on_read().                                      *)
ReadNothing ==
  /\ at = "loop"
  /\ Closed \/ (next_ctx = 0 /\ ~complete)
  /\ LeaveOnRead
  /\ UNCHANGED <<queueVars, complete, flags, tasks, pc, after, oob_event, ctx,
                 socketVars, done>>

ReadNext ==
  /\ at = "loop"
  /\ ~Closed
  /\ next_ctx # 0 \/ complete
  /\ complete' = FALSE
  /\ ctx' = next_ctx
  /\ at' = "recv"
  /\ UNCHANGED <<queueVars, flags, tasks, pc, after, oob_event, socketVars, done>>

(* recv() gives n bytes.  A buffer that is full is done with; async_read() *)
(* waits for more, async_read_some() tells the handler.                    *)
RecvBytes ==
  /\ at = "recv"
  /\ \E n \in 1 .. bytes :
       /\ n <= ctxq[1].room
       /\ bytes' = bytes - n
       /\ ctxq' = [ctxq EXCEPT ![1].room = @ - n]
  /\ flags' = flags \ {"error"}
  /\ IF ctxq'[1].room = 0
     THEN at' = "filled" /\ UNCHANGED after
     ELSE IF ctxq'[1].all
          THEN at' = "loop" /\ UNCHANGED after
          ELSE CallHandler("loop")
  /\ UNCHANGED <<next_ctx, posted, complete, tasks, pc, oob_event, ctx, oob,
                 peer, edge, sent, done>>

RecvInterrupted ==
  /\ at = "recv"
  /\ at' = "loop"
  /\ UNCHANGED <<queueVars, complete, flags, tasks, pc, after, oob_event, ctx,
                 socketVars, done>>

(* recv() says EAGAIN ...                                                  *)
RecvAgain ==
  /\ at = "recv"
  /\ ~Readable
  /\ at' = "drained"
  /\ UNCHANGED <<queueVars, complete, flags, tasks, pc, after, oob_event, ctx,
                 socketVars, done>>

(* ... and complete_ is set.                                               *)
SetComplete ==
  /\ at = "drained"
  /\ complete' = TRUE
  /\ LeaveOnRead
  /\ UNCHANGED <<queueVars, flags, tasks, pc, after, oob_event, ctx,
                 socketVars, done>>

RecvEof ==
  /\ at = "recv"
  /\ bytes = 0
  /\ peer \in {"eof", "dead"}
  /\ complete' = TRUE
  /\ flags' = (flags \ {"error"}) \cup {"eof"}
  /\ CallHandler("oob_event")
  /\ UNCHANGED <<queueVars, tasks, pc, oob_event, ctx, socketVars, done>>

(* The socket reports an error once, then the end of the stream.           *)
RecvError ==
  /\ at = "recv"
  /\ peer = "reset"
  /\ peer' = "dead"
  /\ flags' = flags \cup {"error", "reset"}
  /\ CallHandler("oob_event")
  /\ UNCHANGED <<queueVars, complete, tasks, pc, oob_event, ctx, bytes, oob,
                 edge, sent, done>>

(* Faulty variant: the newest read is taken off the queue.                 *)
CompleteNewest ==
  /\ at = "filled"
  /\ done' = Append(done, ctxq[Len(ctxq)].id)
  /\ ctxq' = SubSeq(ctxq, 1, Len(ctxq) - 1)
  /\ next_ctx' = IF ctxq' = <<>> THEN 0 ELSE ctxq'[1].id
  /\ CallHandler("loop")
  /\ UNCHANGED <<posted, complete, flags, tasks, pc, oob_event, ctx,
                 socketVars>>

(* on_completion(true): the read is taken off the queue under the mutex,   *)
(* then the message handler is called.                                     *)
Complete ==
  /\ at = "filled"
  /\ done' = Append(done, ctxq[1].id)
  /\ ctxq' = Tail(ctxq)
  /\ next_ctx' = IF ctxq' = <<>> THEN 0 ELSE ctxq'[1].id
  /\ CallHandler("loop")
  /\ UNCHANGED <<posted, complete, flags, tasks, pc, oob_event, ctx,
                 socketVars>>

(* The head of the loop in on_oob().                                       *)
OobClosed ==
  /\ at = "oob_loop"
  /\ Closed
  /\ at' = "idle"
  /\ UNCHANGED <<queueVars, complete, flags, tasks, pc, after, oob_event, ctx,
                 socketVars, done>>

OobNext ==
  /\ at = "oob_loop"
  /\ ~Closed
  /\ complete' = FALSE
  /\ at' = "oob_recv"
  /\ UNCHANGED <<queueVars, flags, tasks, pc, after, oob_event, ctx,
                 socketVars, done>>

(* recv(MSG_OOB) gives the byte, which goes to the oob handler.            *)
OobByte ==
  /\ at = "oob_recv"
  /\ oob
  /\ oob' = FALSE
  /\ flags' = flags \ {"error"}
  /\ CallHandler("oob_loop")
  /\ UNCHANGED <<queueVars, complete, tasks, pc, oob_event, ctx, bytes, peer,
                 edge, sent, done>>

OobInterrupted ==
  /\ at = "oob_recv"
  /\ at' = "oob_loop"
  /\ UNCHANGED <<queueVars, complete, flags, tasks, pc, after, oob_event, ctx,
                 socketVars, done>>

(* The byte is announced and not yet there: EAGAIN leaves on_oob().        *)
OobAgain ==
  /\ at = "oob_recv"
  /\ ~oob
  /\ at' = "idle"
  /\ UNCHANGED <<queueVars, complete, flags, tasks, pc, after, oob_event, ctx,
                 socketVars, done>>

(* There is no byte (any more), which is EINVAL, or the connection is      *)
(* gone: both are reported as an error.                                    *)
OobError ==
  /\ at = "oob_recv"
  /\ ~oob
  /\ \/ flags' = flags \cup {"error"}
     \/ peer \in {"reset", "dead"} /\ flags' = flags \cup {"error", "reset"}
  /\ CallHandler("idle")
  /\ UNCHANGED <<queueVars, complete, tasks, pc, oob_event, ctx, socketVars,
                 done>>

OobEof ==
  /\ at = "oob_recv"
  /\ ~oob
  /\ peer # "open"
  /\ complete' = TRUE
  /\ flags' = (flags \ {"error"}) \cup {"eof"}
  /\ CallHandler("idle")
  /\ UNCHANGED <<queueVars, tasks, pc, oob_event, ctx, socketVars, done>>

LoopStep ==
  \/ RunTask \/ Dispatch
  \/ AssertNotEof("on_read", "loop") \/ AssertNotEof("on_oob", "oob_loop")
  \/ ReadNothing \/ ReadNext \/ SetComplete \/ Complete
  \/ OobClosed \/ OobNext
  \/ HandlerReturn

Recv ==
  \/ RecvBytes \/ RecvAgain \/ RecvEof \/ RecvError
  \/ OobByte \/ OobAgain \/ OobError \/ OobEof

Client(c) == PushRead(c) \/ PostRead(c)

Next ==
  \/ Peer
  \/ LoopStep \/ Recv \/ RecvInterrupted \/ OobInterrupted
  \/ HandlerRead \/ HandlerClose
  \/ \E c \in Clients : AcceptRead(c) \/ Client(c) \/ ClientClose(c)

Spec == Init /\ [][Next]_vars

(* The loop thread and the clients go on, handlers return, and recv() is   *)
(* not interrupted for ever.                                               *)
FairSpec ==
  /\ Spec
  /\ WF_vars(LoopStep)
  /\ SF_vars(Recv)
  /\ \A c \in Clients : WF_vars(Client(c))

-----------------------------------------------------------------------------
(* Safety.                                                                 *)

(* The reading protocol loses no wakeup: when nothing will call on_read()  *)
(* any more (no task, no edge, no async_read() under way), a read waits in *)
(* the queue only if the socket has nothing to read, the session closes or *)
(* has seen the end of the stream, or recv() has reported the reset.       *)
NothingCallsOnRead ==
  /\ at = "idle" /\ tasks = <<>> /\ ~edge
  /\ \A c \in Clients : pc[c] # "pushed"

NoStrandedRead ==
  NothingCallsOnRead /\ ctxq # <<>>
    => ~Readable \/ Closed \/ "eof" \in flags \/ peer = "dead"

(* on_read() never dereferences a null next_ctx_, and what it reads into   *)
(* is the oldest posted read.                                              *)
NextCtxValid ==
  at \in {"recv", "filled"} => ctxq # <<>> /\ ctx = ctxq[1].id /\ ctx # 0

(* Reads are completed in the order in which they were posted, each once   *)
(* and none left out.                                                      *)
CompletedInOrder == \A i \in DOMAIN done : done[i] = i

(* What a caller of async_read() relies on, from any thread.               *)
ReadsInOrder == NextCtxValid /\ CompletedInOrder

(* Once the session is closed the socket is not read any more and no       *)
(* handler is called.                                                      *)
QuietWhenClosed ==
  "closed" \in flags => at \in {"idle", "on_read", "on_oob", "aborted"}

-----------------------------------------------------------------------------
(* Liveness.                                                               *)

(* Data for a posted read are received, unless the session ends or the     *)
(* peer sends urgent bytes for ever, which on_oob() would not leave.       *)
DataIsRead ==
  <>[]~oob
    => ((ctxq # <<>> /\ bytes > 0)
          ~> (bytes = 0 \/ ctxq = <<>> \/ flags # {} \/ at = "aborted"))

=============================================================================
