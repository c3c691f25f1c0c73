----------------------------- MODULE TcpOstream -----------------------------
(***************************************************************************)
(* The writing side of a TCP session: ostream (posix_tcp_ostream.cpp) with *)
(* the parts of posix_session (posix_session.cpp) that reach it, above an  *)
(* edge-triggered epoll.  async_write() copies the bytes into a list of    *)
(* buffers of BufferSize bytes each; on_write() runs on the loop thread,   *)
(* as a task that was posted together with a write or because epoll saw    *)
(* that the socket has become writable, and sends from the first buffer.   *)
(*                                                                         *)
(* complete_ says that the socket is known to be full, so that the next    *)
(* edge will call on_write().  Bytes are numbered in the order in which    *)
(* they are written.                                                       *)
(***************************************************************************)
EXTENDS Naturals, Sequences

CONSTANTS
  Clients,        \* threads that use the session, besides the loop thread
  BufferSize,     \* KNGIN_OUT_BUFFER_SIZE
  Sizes,          \* the numbers of bytes that are written at once
  MaxBytes,       \* bound: bytes written in a behaviour
  MaxOob,         \* bound: bytes of urgent data written in a behaviour
  PartialSends,   \* may send() take a part of what it is given?
  MaxSwitches,    \* bound: calls of stop_read() and start_read()
  MayReset,       \* may the peer reset the connection?
  MayClose        \* may a client or a handler call close()?

ASSUME OstreamAssumption ==
  /\ BufferSize \in Nat \ {0}
  /\ Sizes \subseteq Nat \ {0}
  /\ MaxBytes \in Nat
  /\ MaxOob \in Nat
  /\ MaxSwitches \in Nat
  /\ {PartialSends, MayReset, MayClose} \subseteq BOOLEAN

VARIABLES
  cells,      \* buffers_, one after the other: the byte in each place, or 0
  rindex,     \* rindex_
  windex,     \* windex_
  next_buf,   \* next_buffer_ is not nullptr
  oobq,       \* the length of oobq_
  complete,   \* complete_
  flags,      \* the flags of the session that are set
  tasks,      \* what the loop's task queue holds for this session
  pc,         \* pc[c]: where client c is in async_write()
  at,         \* where the loop thread is
  after,      \* where it goes on when the running handler returns
  valid,      \* valid of on_write()
  empty,      \* empty of write_oob()
  writable,   \* the socket takes data
  nospace,    \* a send() found it full since, so that an edge will follow
  reset,      \* the peer has reset the connection
  edge,       \* the socket is on epoll's ready list
  out,        \* ev_.out(): epoll is asked for EPOLLOUT
  switches,   \* bound: the calls of stop_read() and start_read() so far
  written,    \* history: the last byte written
  urgent,     \* history: bytes of urgent data written
  received,   \* history: the last byte the socket took, in order
  intact,     \* history: every byte so far was taken in order, once
  disturbed   \* history: a client appended during a send, or one was partial

bufferVars == <<cells, rindex, windex, next_buf>>
writeVars == <<bufferVars, oobq, written, urgent>>
loopVars == <<at, after, valid, empty>>
socketVars == <<writable, nospace, reset, edge>>
interestVars == <<out, switches>>
streamVars == <<received, intact, disturbed>>
vars == <<writeVars, complete, flags, tasks, pc, loopVars, socketVars,
          interestVars, streamVars>>

Bytes == 1 .. MaxBytes

Tasks == {"write", "close", "stop_read", "start_read"}

Flags == {"closing", "closed", "error", "reset"}

TypeOK ==
  /\ cells \in Seq(Bytes \cup {0})
  /\ rindex \in 0 .. BufferSize
  /\ windex \in 0 .. MaxBytes
  /\ next_buf \in BOOLEAN
  /\ oobq \in 0 .. MaxOob
  /\ complete \in BOOLEAN
  /\ flags \subseteq Flags
  /\ tasks \in Seq(Tasks)
  /\ pc \in [Clients -> {"idle", "accepted", "pushed"}]
  /\ at \in {"idle", "loop", "next", "send", "full", "commit", "handler",
             "oob", "oob_send", "aborted", "unregistered"}
  /\ after \in {"loop", "idle"}
  /\ valid \in 0 .. BufferSize
  /\ empty \in BOOLEAN
  /\ writable \in BOOLEAN
  /\ nospace \in BOOLEAN
  /\ reset \in BOOLEAN
  /\ edge \in BOOLEAN
  /\ out \in BOOLEAN
  /\ switches \in 0 .. MaxSwitches
  /\ written \in 0 .. MaxBytes
  /\ urgent \in 0 .. MaxOob
  /\ received \in 0 .. MaxBytes
  /\ intact \in BOOLEAN
  /\ disturbed \in BOOLEAN

(* The event is registered for input, output and urgent data; a new socket *)
(* is writable, which is the first edge.                                   *)
Init ==
  /\ cells = [i \in 1 .. BufferSize |-> 0]
  /\ rindex = 0
  /\ windex = 0
  /\ next_buf = FALSE
  /\ oobq = 0
  /\ complete = FALSE
  /\ flags = {}
  /\ tasks = <<>>
  /\ pc = [c \in Clients |-> "idle"]
  /\ at = "idle"
  /\ after = "idle"
  /\ valid = 0
  /\ empty = TRUE
  /\ writable = TRUE
  /\ nospace = FALSE
  /\ reset = FALSE
  /\ edge = TRUE
  /\ out = TRUE
  /\ switches = 0
  /\ written = 0
  /\ urgent = 0
  /\ received = 0
  /\ intact = TRUE
  /\ disturbed = FALSE

Closed == flags \cap {"closed", "closing"} # {}

Minimum(m, n) == IF m < n THEN m ELSE n

-----------------------------------------------------------------------------
(* The peer and the socket.                                                *)

(* The peer has read: a socket that was found full is an edge, of which    *)
(* epoll takes notice when it is asked for EPOLLOUT.                       *)
Drain ==
  /\ ~writable
  /\ ~reset
  /\ writable' = TRUE
  /\ nospace' = FALSE
  /\ edge' = (edge \/ (nospace /\ out))
  /\ UNCHANGED <<writeVars, complete, flags, tasks, pc, loopVars, reset,
                 streamVars, interestVars>>

(* What the peer sends is an edge too, which reports all that is ready.    *)
PeerSends ==
  /\ ~reset
  /\ ~edge
  /\ "closed" \notin flags
  /\ edge' = TRUE
  /\ UNCHANGED <<writeVars, complete, flags, tasks, pc, loopVars, writable,
                 nospace, reset, streamVars, interestVars>>

PeerResets ==
  /\ MayReset
  /\ ~reset
  /\ reset' = TRUE
  /\ edge' = TRUE
  /\ UNCHANGED <<writeVars, complete, flags, tasks, pc, loopVars, writable,
                 nospace, streamVars, interestVars>>

-----------------------------------------------------------------------------
(* async_write().                                                          *)

(* append_buffer(): buffers are added until the bytes fit, which are then  *)
(* copied to windex_ and the places behind it.                             *)
AppendBuffer(size) ==
  LET full == ((windex + size + BufferSize - 1) \div BufferSize) * BufferSize
      room == IF full > Len(cells) THEN full ELSE Len(cells)
  IN  /\ written + size <= MaxBytes
      /\ written' = written + size
      /\ windex' = windex + size
      /\ cells' = [i \in 1 .. room |->
                     IF i \in windex + 1 .. windex + size
                     THEN written + i - windex
                     ELSE IF i <= Len(cells) THEN cells[i] ELSE 0]
      /\ next_buf' = TRUE

(* The part under buffers_mutex_.  Of a write with message_oob the last    *)
(* byte goes to oobq_.  The buffers of async_write(bufs) are appended one  *)
(* after the other under one lock, as one buffer would be.                 *)
PushOrdinary ==
  /\ \E size \in Sizes : AppendBuffer(size)
  /\ UNCHANGED <<rindex, oobq, urgent>>

PushOob ==
  /\ urgent < MaxOob
  /\ urgent' = urgent + 1
  /\ oobq' = oobq + 1
  /\ \E size \in Sizes :
       IF size > 1
       THEN AppendBuffer(size - 1) /\ UNCHANGED rindex
       ELSE UNCHANGED <<bufferVars, written>>

Push == PushOrdinary \/ PushOob

(* posix_session::async_write() refuses a write once the session closes.   *)
AcceptWrite(c) ==
  /\ pc[c] = "idle"
  /\ ~Closed
  /\ pc' = [pc EXCEPT ![c] = "accepted"]
  /\ UNCHANGED <<writeVars, complete, flags, tasks, loopVars, socketVars,
                 streamVars, interestVars>>

PushWrite(c) ==
  /\ pc[c] = "accepted"
  /\ Push
  /\ pc' = [pc EXCEPT ![c] = "pushed"]
  /\ disturbed' = (disturbed \/ at \in {"send", "commit"})
  /\ UNCHANGED <<complete, flags, tasks, loopVars, socketVars, received,
                 intact, interestVars>>

(* Faulty variant: the task is forgotten.                                  *)
PostWriteNever(c) ==
  /\ pc[c] = "pushed"
  /\ pc' = [pc EXCEPT ![c] = "idle"]
  /\ UNCHANGED <<writeVars, complete, flags, tasks, loopVars, socketVars,
                 streamVars, interestVars>>

(* if (!complete_) run_in_loop(on_write), without the mutex.               *)
PostWrite(c) ==
  /\ pc[c] = "pushed"
  /\ tasks' = IF complete THEN tasks ELSE Append(tasks, "write")
  /\ pc' = [pc EXCEPT ![c] = "idle"]
  /\ UNCHANGED <<writeVars, complete, flags, loopVars, socketVars,
                 streamVars, interestVars>>

(* posix_session::close(), called at most once.                            *)
Close ==
  /\ MayClose
  /\ ~Closed
  /\ flags' = flags \cup {"closing"}
  /\ tasks' = Append(tasks, "close")
  /\ UNCHANGED <<writeVars, complete, loopVars, socketVars, streamVars,
                 interestVars>>

ClientClose(c) ==
  /\ pc[c] = "idle"
  /\ Close
  /\ UNCHANGED pc

(* stop_read() and start_read(), which anyone may call at any time, post   *)
(* the task that switches EPOLLOUT.                                        *)
Switch ==
  /\ switches < MaxSwitches
  /\ switches' = switches + 1
  /\ \E task \in {"stop_read", "start_read"} : tasks' = Append(tasks, task)
  /\ UNCHANGED <<writeVars, complete, flags, loopVars, socketVars, out,
                 streamVars>>

ClientSwitch(c) ==
  /\ pc[c] = "idle"
  /\ Switch
  /\ UNCHANGED pc

-----------------------------------------------------------------------------
(* Handlers on the loop thread: the write handler, and at "idle" those of  *)
(* other events.                                                           *)

HandlerWrite ==
  /\ at \in {"handler", "idle"}
  /\ ~Closed
  /\ Push
  /\ tasks' = IF complete THEN tasks ELSE Append(tasks, "write")
  /\ UNCHANGED <<complete, flags, pc, loopVars, socketVars, streamVars,
                 interestVars>>

HandlerClose ==
  /\ at \in {"handler", "idle"}
  /\ Close
  /\ UNCHANGED pc

HandlerSwitch ==
  /\ at \in {"handler", "idle"}
  /\ Switch
  /\ UNCHANGED pc

HandlerReturn ==
  /\ at = "handler"
  /\ at' = after
  /\ UNCHANGED <<writeVars, complete, flags, tasks, pc, after, valid, empty,
                 socketVars, streamVars, interestVars>>

CallHandler(then) ==
  /\ at' = "handler"
  /\ after' = then

-----------------------------------------------------------------------------
(* The loop thread.                                                        *)

(* A task is taken from the queue: on_write(), or the body of close() with *)
(* clear(), which does not reset windex_.                                  *)
RunTask ==
  /\ at = "idle"
  /\ tasks # <<>>
  /\ Head(tasks) \in {"write", "close"}
  /\ tasks' = Tail(tasks)
  /\ IF Head(tasks) = "write"
     THEN /\ at' = "loop"
          /\ UNCHANGED <<bufferVars, oobq, flags, edge>>
     ELSE /\ flags' = flags \cup {"closed", "reset"}
          /\ edge' = FALSE
          /\ cells' = <<>>
          /\ oobq' = 0
          /\ next_buf' = FALSE
          /\ rindex' = 0
          /\ UNCHANGED <<windex, at>>
  /\ UNCHANGED <<written, urgent, complete, pc, after, valid, empty,
                 writable, nospace, reset, streamVars, interestVars>>

(* The task of stop_read() or start_read() switches EPOLLOUT, unless it is *)
(* as wanted, and updates the event: EPOLL_CTL_MOD looks at the socket     *)
(* again.  Of an event that close() has removed the update asserts that it *)
(* is registered.                                                          *)
RunSwitch ==
  /\ at = "idle"
  /\ tasks # <<>>
  /\ Head(tasks) \in {"stop_read", "start_read"}
  /\ tasks' = Tail(tasks)
  /\ out' = (Head(tasks) = "start_read")
  /\ IF out' = out \/ "closed" \in flags
     THEN UNCHANGED edge
     ELSE edge' = (edge \/ reset \/ (out' /\ writable))
  /\ at' = IF out' # out /\ "closed" \in flags THEN "unregistered" ELSE "idle"
  /\ UNCHANGED <<writeVars, complete, flags, pc, after, valid, empty, writable,
                 nospace, reset, switches, streamVars>>

(* on_events(): epoll reports what is ready of what it is asked for, and   *)
(* on_write() runs when the socket is writable.  Of a reset connection it  *)
(* reports the error alone, for which only on_read() is called.            *)
Dispatch ==
  /\ at = "idle"
  /\ "closed" \notin flags
  /\ edge
  /\ edge' = FALSE
  /\ at' = IF writable /\ out /\ ~reset THEN "loop" ELSE "idle"
  /\ UNCHANGED <<writeVars, complete, flags, tasks, pc, after, valid, empty,
                 writable, nospace, reset, streamVars, interestVars>>

(* on_read(), called for an event or as a task, finds the connection reset *)
(* if a read is posted; without one it does not look.                      *)
ReadError ==
  /\ at = "idle"
  /\ ~Closed
  /\ reset
  /\ flags' = flags \cup {"error", "reset"}
  /\ UNCHANGED <<writeVars, complete, tasks, pc, loopVars, socketVars,
                 streamVars, interestVars>>

(* The head of the loop in on_write().                                     *)
WriteStopped ==
  /\ at = "loop"
  /\ Closed
  /\ at' = "idle"
  /\ UNCHANGED <<writeVars, complete, flags, tasks, pc, after, valid, empty,
                 socketVars, streamVars, interestVars>>

WriteOob ==
  /\ at = "loop"
  /\ ~Closed
  /\ oobq > 0
  /\ empty' = TRUE
  /\ at' = "oob"
  /\ UNCHANGED <<writeVars, complete, flags, tasks, pc, after, valid,
                 socketVars, streamVars, interestVars>>

(* Faulty variant: complete_ is set when there is nothing to send.         *)
WriteNothingCompletes ==
  /\ at = "loop"
  /\ ~Closed
  /\ oobq = 0
  /\ ~next_buf
  /\ ~complete
  /\ complete' = TRUE
  /\ at' = "idle"
  /\ UNCHANGED <<writeVars, flags, tasks, pc, after, valid, empty,
                 socketVars, streamVars, interestVars>>

WriteNothing ==
  /\ at = "loop"
  /\ ~Closed
  /\ oobq = 0
  /\ ~next_buf
  /\ ~complete
  /\ at' = "idle"
  /\ UNCHANGED <<writeVars, complete, flags, tasks, pc, after, valid, empty,
                 socketVars, streamVars, interestVars>>

WriteNext ==
  /\ at = "loop"
  /\ ~Closed
  /\ oobq = 0
  /\ next_buf \/ complete
  /\ complete' = FALSE
  /\ at' = "next"
  /\ UNCHANGED <<writeVars, flags, tasks, pc, after, valid, empty,
                 socketVars, streamVars, interestVars>>

(* assert(valid > 0)                                                       *)
ComputeValid ==
  /\ at = "next"
  /\ valid' = Minimum(windex - rindex, BufferSize - rindex)
  /\ at' = IF valid' > 0 THEN "send" ELSE "aborted"
  /\ UNCHANGED <<writeVars, complete, flags, tasks, pc, after, empty,
                 socketVars, streamVars, interestVars>>

(* The socket takes the first n bytes from rindex_ on.                     *)
Take(n) ==
  /\ intact' = (intact /\ \A i \in 1 .. n : cells[rindex + i] = received + i)
  /\ received' = IF intact' THEN received + n ELSE received

(* send() takes everything; afterwards the socket may be full.  size is    *)
(* valid, and on_write() goes on to move the indices.                      *)
SendAll ==
  /\ at = "send"
  /\ writable
  /\ ~reset
  /\ writable' \in BOOLEAN
  /\ Take(valid)
  /\ flags' = flags \ {"error"}
  /\ at' = "commit"
  /\ UNCHANGED <<writeVars, complete, tasks, pc, after, valid, empty,
                 nospace, reset, edge, disturbed, interestVars>>

(* send() takes a part, which fills the socket: size < valid, the loop is  *)
(* continued and rindex_ stays where it is.                                *)
SendPart ==
  /\ at = "send"
  /\ PartialSends
  /\ writable
  /\ ~reset
  /\ \E n \in 1 .. valid - 1 : Take(n)
  /\ disturbed' = TRUE
  /\ writable' = FALSE
  /\ nospace' = TRUE
  /\ flags' = flags \ {"error"}
  /\ at' = "loop"
  /\ UNCHANGED <<writeVars, complete, tasks, pc, after, valid, empty, reset,
                 edge, interestVars>>

SendInterrupted ==
  /\ at = "send"
  /\ at' = "loop"
  /\ UNCHANGED <<writeVars, complete, flags, tasks, pc, after, valid, empty,
                 socketVars, streamVars, interestVars>>

(* send() says EAGAIN ...                                                  *)
SendAgain ==
  /\ at = "send"
  /\ ~writable
  /\ ~reset
  /\ nospace' = TRUE
  /\ at' = "full"
  /\ UNCHANGED <<writeVars, complete, flags, tasks, pc, after, valid, empty,
                 writable, reset, edge, streamVars, interestVars>>

(* ... and complete_ is set.                                               *)
SetComplete ==
  /\ at = "full"
  /\ complete' = TRUE
  /\ at' = "idle"
  /\ UNCHANGED <<writeVars, flags, tasks, pc, after, valid, empty,
                 socketVars, streamVars, interestVars>>

SendError ==
  /\ at = "send"
  /\ reset
  /\ flags' = flags \cup {"error", "reset"}
  /\ CallHandler("idle")
  /\ UNCHANGED <<writeVars, complete, tasks, pc, valid, empty, socketVars,
                 streamVars, interestVars>>

(* Faulty variant: the last buffer is given back too.                      *)
CommitErasesLast ==
  /\ at = "commit"
  /\ IF rindex + valid \in {BufferSize, windex}
     THEN /\ rindex' = 0
          /\ windex' = windex - valid
          /\ cells' = SubSeq(cells, BufferSize + 1, Len(cells))
          /\ next_buf' = (windex' > 0)
     ELSE /\ rindex' = rindex + valid
          /\ UNCHANGED <<windex, cells, next_buf>>
  /\ CallHandler("loop")
  /\ UNCHANGED <<oobq, written, urgent, complete, flags, tasks, pc, valid,
                 empty, socketVars, streamVars, interestVars>>

(* Faulty variant: the first buffer is not given back.                     *)
CommitKeepsBuffer ==
  /\ at = "commit"
  /\ IF rindex + valid \in {BufferSize, windex}
     THEN /\ rindex' = 0
          /\ windex' = windex - valid
          /\ next_buf' = (windex' > 0)
     ELSE /\ rindex' = rindex + valid
          /\ UNCHANGED <<windex, next_buf>>
  /\ CallHandler("loop")
  /\ UNCHANGED <<cells, oobq, written, urgent, complete, flags, tasks, pc,
                 valid, empty, socketVars, streamVars, interestVars>>

(* What was sent is taken out of the first buffer, under the mutex: a      *)
(* buffer that is used up is given back unless it is the only one.         *)
Commit ==
  /\ at = "commit"
  /\ IF rindex + valid \in {BufferSize, windex}
     THEN /\ rindex' = 0
          /\ windex' = windex - valid
          /\ cells' = IF Len(cells) > BufferSize
                      THEN SubSeq(cells, BufferSize + 1, Len(cells))
                      ELSE cells
          /\ next_buf' = (windex' > 0)
     ELSE /\ rindex' = rindex + valid
          /\ UNCHANGED <<windex, cells, next_buf>>
  /\ CallHandler("loop")
  /\ UNCHANGED <<oobq, written, urgent, complete, flags, tasks, pc, valid,
                 empty, socketVars, streamVars, interestVars>>

(* One round of write_oob(), under the mutex: the byte of the round before *)
(* is taken off the queue.                                                 *)
OobRound ==
  /\ at = "oob"
  /\ oobq' = IF empty \/ oobq = 0 THEN oobq ELSE oobq - 1
  /\ empty' = (oobq' = 0)
  /\ at' = IF empty' THEN "loop" ELSE "oob_send"
  /\ UNCHANGED <<bufferVars, written, urgent, complete, flags, tasks, pc,
                 after, valid, socketVars, streamVars, interestVars>>

OobSend ==
  /\ at = "oob_send"
  /\ writable
  /\ ~reset
  /\ writable' \in BOOLEAN
  /\ flags' = flags \ {"error"}
  /\ at' = "oob"
  /\ UNCHANGED <<writeVars, complete, tasks, pc, after, valid, empty,
                 nospace, reset, edge, streamVars, interestVars>>

OobInterrupted ==
  /\ at = "oob_send"
  /\ at' = "oob"
  /\ UNCHANGED <<writeVars, complete, flags, tasks, pc, after, valid, empty,
                 socketVars, streamVars, interestVars>>

OobAgain ==
  /\ at = "oob_send"
  /\ ~writable
  /\ ~reset
  /\ nospace' = TRUE
  /\ complete' = TRUE
  /\ at' = "loop"
  /\ UNCHANGED <<writeVars, flags, tasks, pc, after, valid, empty, writable,
                 reset, edge, streamVars, interestVars>>

OobError ==
  /\ at = "oob_send"
  /\ reset
  /\ flags' = flags \cup {"error", "reset"}
  /\ CallHandler("loop")
  /\ UNCHANGED <<writeVars, complete, tasks, pc, valid, empty, socketVars,
                 streamVars, interestVars>>

LoopStep ==
  \/ RunTask \/ RunSwitch \/ Dispatch
  \/ WriteStopped \/ WriteOob \/ WriteNothing \/ WriteNext \/ ComputeValid
  \/ SetComplete \/ Commit \/ OobRound
  \/ HandlerReturn

Send == SendAll \/ SendAgain \/ SendError \/ OobSend \/ OobAgain \/ OobError

Client(c) == PushWrite(c) \/ PostWrite(c)

Next ==
  \/ Drain \/ PeerSends \/ PeerResets
  \/ LoopStep \/ Send \/ SendPart \/ SendInterrupted \/ OobInterrupted
  \/ ReadError \/ HandlerWrite \/ HandlerClose \/ HandlerSwitch
  \/ \E c \in Clients :
       AcceptWrite(c) \/ Client(c) \/ ClientClose(c) \/ ClientSwitch(c)

Spec == Init /\ [][Next]_vars

(* The loop thread and the clients go on, handlers return, send() is not   *)
(* interrupted for ever and the peer goes on reading.                      *)
FairSpec ==
  /\ Spec
  /\ WF_vars(Drain)
  /\ WF_vars(LoopStep)
  /\ SF_vars(Send)
  /\ \A c \in Clients : WF_vars(Client(c))

-----------------------------------------------------------------------------
(* Safety.                                                                 *)

(* What on_write() sends lies inside the first buffer, which exists: the   *)
(* indices never pass each other, whatever clients append between the      *)
(* computation of valid and the update under the mutex; and without urgent *)
(* data on_write() has something to send where it asserts so.              *)
IndicesValid ==
  /\ rindex <= windex
  /\ at \in {"send", "commit"}
       => /\ Len(cells) >= BufferSize
          /\ rindex + valid <= Minimum(BufferSize, windex)
  /\ at = "aborted" => urgent > 0

(* The writing protocol loses no wakeup: when nothing will call on_write() *)
(* any more (no task, no edge, no async_write() under way), data wait only *)
(* with complete_ set, and only because the socket is still full, so that  *)
(* an edge will follow, because stop_read() has switched EPOLLOUT off, or  *)
(* because the connection was reset, of which only on_read() hears.        *)
NothingCallsOnWrite ==
  /\ at = "idle" /\ tasks = <<>> /\ ~edge
  /\ \A c \in Clients : pc[c] # "pushed"

NoStrandedWrite ==
  NothingCallsOnWrite /\ flags = {} /\ (next_buf \/ oobq > 0)
    => /\ complete
       /\ reset \/ ~out \/ (nospace /\ ~writable)

(* The socket takes the bytes in the order in which they were written,     *)
(* each once, across the boundaries of the buffers, as long as no client   *)
(* appends between the computation of valid and the move of the indices,   *)
(* and send() takes all it is given.                                       *)
StreamIntact == intact \/ disturbed

-----------------------------------------------------------------------------
(* Liveness.                                                               *)

(* As long as EPOLLOUT is not switched off for good, what is written is    *)
(* sent, unless the session ends, the connection is reset while the socket *)
(* is known to be full, or urgent data join it (write_oob() may then be    *)
(* called for ever).                                                       *)
DataIsSent ==
  []<>out => (next_buf /\ urgent = 0
                ~> \/ ~next_buf \/ flags # {} \/ urgent > 0
                   \/ reset /\ complete)

=============================================================================
