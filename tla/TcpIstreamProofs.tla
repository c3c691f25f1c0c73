--------------------------- MODULE TcpIstreamProofs ---------------------------
(***************************************************************************)
(* Theorems about TcpIstream, for any number of clients, reads and bytes,  *)
(* and whatever the peer does.                                             *)
(***************************************************************************)
EXTENDS TcpIstream, TLAPS

ReadStates == {"idle", "on_read", "loop", "recv", "drained", "filled",
               "handler", "on_oob", "oob_loop", "oob_recv", "aborted"}

(* What the proofs need to know of the types.                              *)
ReadType ==
  /\ ctxq \in Seq(Contexts)
  /\ flags \in SUBSET Flags
  /\ tasks \in Seq({"read", "close"})
  /\ pc \in [Clients -> {"idle", "accepted", "pushed"}]
  /\ at \in ReadStates
  /\ after \in {"loop", "oob_loop", "oob_event", "idle"}
  /\ bytes \in Nat
  /\ posted \in 0 .. MaxReads
  /\ done \in Seq(Nat)

(* The reads in the queue and those completed are the reads posted, in     *)
(* order; next_ctx_ is the head of the queue.                              *)
OrderInv ==
  /\ next_ctx = IF ctxq = <<>> THEN 0 ELSE ctxq[1].id
  /\ \A i \in 1 .. Len(done) : done[i] = i
  /\ "closed" \notin flags =>
       /\ \A i \in 1 .. Len(ctxq) : ctxq[i].id = Len(done) + i
       /\ Len(done) + Len(ctxq) = posted

(* While a read is served it is the head of the queue, and complete_ is    *)
(* set only while a read waits.                                            *)
ServeInv ==
  /\ at \in {"recv", "drained", "filled"} =>
       ctxq # <<>> /\ ctx = ctxq[1].id /\ ~complete
  /\ complete /\ "eof" \notin flags => ctxq # <<>>

(* After the end of the stream, which close() sets too, on_read() and      *)
(* on_oob() are left, and stop at their first assertion.                   *)
QuietInv ==
  /\ QuietWhenClosed
  /\ "closed" \in flags => "eof" \in flags
  /\ "eof" \in flags => \/ at \in {"idle", "on_read", "on_oob", "aborted"}
                        \/ at = "handler" /\ after \in {"idle", "oob_event"}

(* Nothing that makes on_read() give up has happened.                      *)
Live == ~Closed /\ "eof" \notin flags /\ peer # "dead"

(* The loop thread will call recv() for the next read before it is idle.   *)
Busy ==
  \/ at \in {"on_read", "loop", "recv", "filled", "aborted"}
  \/ at = "handler" /\ after = "loop"

Coming ==
  Busy \/ edge \/ (\E i \in DOMAIN tasks : tasks[i] = "read")
    \/ \E c \in Clients : pc[c] = "pushed"

(* Why no read is stranded: complete_ is set only when recv() found        *)
(* nothing, after which whatever arrives is an edge.                       *)
WakeInv ==
  /\ Live /\ ctxq # <<>> /\ Readable => Coming
  /\ Live /\ complete /\ Readable => Busy \/ edge
  /\ at = "drained" /\ Readable => edge

ReadInv == ReadType /\ OrderInv /\ ServeInv /\ QuietInv

(* RecvBytes leaves less room in the first read, and nothing else.         *)
LEMMA ShrinkHead ==
  ASSUME NEW q \in Seq(Contexts), q # <<>>, NEW n \in Nat, n <= q[1].room
  PROVE  LET s == [q EXCEPT ![1].room = @ - n]
         IN  /\ s \in Seq(Contexts) /\ Len(s) = Len(q) /\ s # <<>>
             /\ \A i \in 1 .. Len(q) : s[i].id = q[i].id
<1> DEFINE s == [q EXCEPT ![1].room = @ - n]
<1>1. 1 \in 1 .. Len(q) /\ Len(q) \in Nat
  OBVIOUS
<1>2. q[1] \in Contexts
  BY <1>1
<1>3. [q[1] EXCEPT !.room = @ - n] \in Contexts
      /\ [q[1] EXCEPT !.room = @ - n].id = q[1].id
  BY <1>2 DEF Contexts
<1>4. s = [i \in 1 .. Len(q) |-> IF i = 1 THEN [q[1] EXCEPT !.room = @ - n] ELSE q[i]]
  OBVIOUS
<1>5. s \in Seq(Contexts) /\ Len(s) = Len(q)
  BY <1>1, <1>3, <1>4
<1>6. \A i \in 1 .. Len(q) : s[i].id = q[i].id
  BY <1>3, <1>4
<1>7. s # <<>>
  BY <1>1, <1>5
<1> QED
  BY <1>5, <1>6, <1>7

(* What PushContext does to the queue.                                     *)
LEMMA PushQueue ==
  ASSUME ReadType, OrderInv, PushContext
  PROVE  /\ ctxq' \in Seq(Contexts) /\ ctxq' # <<>>
         /\ Len(ctxq') = Len(ctxq) + 1
         /\ \A i \in 1 .. Len(ctxq) : ctxq'[i] = ctxq[i]
         /\ ctxq'[Len(ctxq) + 1].id = posted + 1
         /\ posted' = posted + 1 /\ posted' \in 0 .. MaxReads
         /\ next_ctx' = ctxq'[1].id
         /\ ctxq # <<>> => ctxq'[1].id = ctxq[1].id
<1>1. PICK size \in Sizes, all \in BOOLEAN :
        ctxq' = Append(ctxq, [id |-> posted', room |-> size, all |-> all])
  BY DEF PushContext
<1>2. posted' = posted + 1 /\ posted' \in Reads
  BY IstreamAssumption DEF PushContext, ReadType, Reads, IstreamAssumption
<1>3. [id |-> posted', room |-> size, all |-> all] \in Contexts
  BY <1>2, IstreamAssumption DEF Contexts, IstreamAssumption
<1>4. /\ ctxq' \in Seq(Contexts) /\ ctxq' # <<>>
      /\ Len(ctxq') = Len(ctxq) + 1
      /\ \A i \in 1 .. Len(ctxq) : ctxq'[i] = ctxq[i]
      /\ ctxq'[Len(ctxq) + 1].id = posted + 1
  <2> DEFINE e == [id |-> posted', room |-> size, all |-> all]
  <2>1. e \in Contexts /\ e.id = posted + 1
    BY <1>2, <1>3
  <2>2. ctxq \in Seq(Contexts) /\ ctxq' = Append(ctxq, e)
    BY <1>1 DEF ReadType
  <2> HIDE DEF e
  <2>3. ctxq' \in Seq(Contexts) /\ Len(ctxq') = Len(ctxq) + 1 /\ Len(ctxq) \in Nat
    BY <2>1, <2>2
  <2>4. /\ \A i \in 1 .. Len(ctxq) : ctxq'[i] = ctxq[i]
        /\ ctxq'[Len(ctxq) + 1] = e
    BY <2>1, <2>2
  <2>5. ctxq' # <<>>
    BY <2>3
  <2> QED
    BY <2>1, <2>3, <2>4, <2>5
<1>5. ctxq # <<>> => ctxq'[1].id = ctxq[1].id /\ ctxq[1].id \in Reads
  <2> SUFFICES ASSUME ctxq # <<>> PROVE ctxq'[1].id = ctxq[1].id /\ ctxq[1].id \in Reads
    OBVIOUS
  <2>1. 1 \in 1 .. Len(ctxq) /\ ctxq[1] \in Contexts
    BY DEF ReadType
  <2> QED
    BY <2>1, <1>4 DEF Contexts
<1>6. next_ctx' = ctxq'[1].id
  BY <1>5 DEF PushContext, OrderInv, Reads
<1> QED
  BY <1>2, <1>4, <1>5, <1>6 DEF Reads

(* The head of the queue.                                                  *)
LEMMA HeadFacts ==
  ASSUME ReadType, ctxq # <<>>
  PROVE  /\ Len(ctxq) \in Nat /\ 1 \in 1 .. Len(ctxq) /\ ctxq[1] \in Contexts
         /\ ctxq[1].id \in Reads /\ ctxq[1].room \in Nat /\ ctxq[1].all \in BOOLEAN
<1>1. Len(ctxq) \in Nat /\ 1 \in 1 .. Len(ctxq) /\ ctxq[1] \in Contexts
  BY DEF ReadType
<1> QED
  BY <1>1 DEF Contexts

(* next_ctx_ is null when no read is posted, and only then.                *)
LEMMA NextCtxNull ==
  ASSUME ReadType, OrderInv
  PROVE  next_ctx = 0 <=> ctxq = <<>>
<1>1. ctxq # <<>> => ctxq[1].id # 0
  BY HeadFacts DEF Reads
<1> QED
  BY <1>1 DEF OrderInv

(* Every step preserves the types.                                         *)
LEMMA ReadTypeStep == ReadType /\ OrderInv /\ ServeInv /\ [Next]_vars => ReadType'
<1> SUFFICES ASSUME ReadType, OrderInv, ServeInv, [Next]_vars PROVE ReadType'
  OBVIOUS
<1> USE IstreamAssumption DEF IstreamAssumption
<1>1. CASE PeerSends
  BY <1>1 DEF ReadType, ReadStates, Flags, PeerSends, vars, queueVars,
     loopVars, socketVars
<1>2. CASE PeerSendsOob
  BY <1>2 DEF ReadType, ReadStates, Flags, PeerSendsOob, vars, queueVars,
     loopVars, socketVars
<1>3. CASE PeerShutsDown
  BY <1>3 DEF ReadType, ReadStates, Flags, PeerShutsDown, vars, queueVars,
     loopVars, socketVars
<1>4. CASE PeerResets
  BY <1>4 DEF ReadType, ReadStates, Flags, PeerResets, vars, queueVars,
     loopVars, socketVars
<1>5. CASE \E c \in Clients : AcceptRead(c)
  BY <1>5 DEF ReadType, ReadStates, Flags, AcceptRead, vars, queueVars,
     loopVars, socketVars
<1>6. CASE \E c \in Clients : PushRead(c)
  <2>1. ctxq' \in Seq(Contexts) /\ posted' \in 0 .. MaxReads
    BY <1>6, PushQueue DEF PushRead
  <2>2. tasks' \in Seq({"read", "close"})
    BY <1>6 DEF ReadType, PushRead, vars, queueVars, loopVars, socketVars
  <2> QED
    BY <1>6, <2>1, <2>2 DEF ReadType, ReadStates, Flags, PushRead, vars,
       queueVars, loopVars, socketVars
<1>7. CASE \E c \in Clients : PostRead(c)
  BY <1>7 DEF ReadType, ReadStates, Flags, PostRead, vars, queueVars,
     loopVars, socketVars
<1>8. CASE \E c \in Clients : ClientClose(c)
  BY <1>8 DEF ReadType, ReadStates, Flags, ClientClose, Close, vars,
     queueVars, loopVars, socketVars
<1>9. CASE HandlerRead
  <2>1. ctxq' \in Seq(Contexts) /\ posted' \in 0 .. MaxReads
    BY <1>9, PushQueue DEF HandlerRead
  <2>2. tasks' \in Seq({"read", "close"})
    BY <1>9 DEF ReadType, HandlerRead, vars, queueVars, loopVars, socketVars
  <2> QED
    BY <1>9, <2>1, <2>2 DEF ReadType, ReadStates, Flags, HandlerRead, vars,
       queueVars, loopVars, socketVars
<1>10. CASE HandlerClose
  BY <1>10 DEF ReadType, ReadStates, Flags, HandlerClose, Close, vars,
     queueVars, loopVars, socketVars
<1>11. CASE HandlerReturn
  <2>1. CASE after = "oob_event"
    <3>1. at' \in ReadStates
      BY <1>11, <2>1 DEF HandlerReturn, LeaveOnRead, ReadStates
    <3> QED
      BY <1>11, <3>1 DEF ReadType, HandlerReturn, vars, queueVars, loopVars,
         socketVars
  <2>2. CASE after # "oob_event"
    BY <1>11, <2>2 DEF ReadType, ReadStates, Flags, HandlerReturn,
       LeaveOnRead, vars, queueVars, loopVars, socketVars
  <2> QED
    BY <2>1, <2>2
<1>12. CASE RunTask
  <2>1. tasks' \in Seq({"read", "close"})
    BY <1>12 DEF ReadType, RunTask
  <2>2. ctxq' \in Seq(Contexts)
    <3>1. <<>> \in Seq(Contexts)
      OBVIOUS
    <3>2. ctxq' = ctxq \/ ctxq' = <<>>
      BY <1>12 DEF RunTask
    <3> QED
      BY <3>1, <3>2 DEF ReadType
  <2>3. at' \in ReadStates /\ flags' \in SUBSET Flags
    BY <1>12 DEF ReadType, RunTask, ReadStates, Flags
  <2> QED
    BY <1>12, <2>1, <2>2, <2>3 DEF ReadType, RunTask
<1>13. CASE Dispatch
  BY <1>13 DEF ReadType, ReadStates, Flags, Dispatch, vars, queueVars,
     loopVars, socketVars
<1>14. CASE AssertNotEof("on_read", "loop") \/ AssertNotEof("on_oob", "oob_loop")
  BY <1>14 DEF ReadType, ReadStates, Flags, AssertNotEof, vars, queueVars,
     loopVars, socketVars
<1>15. CASE ReadNothing
  BY <1>15 DEF ReadType, ReadStates, Flags, ReadNothing, LeaveOnRead, vars,
     queueVars, loopVars, socketVars
<1>16. CASE ReadNext
  BY <1>16 DEF ReadType, ReadStates, Flags, ReadNext, vars, queueVars,
     loopVars, socketVars
<1>17. CASE RecvBytes
  <2>1. PICK n \in 1 .. bytes :
          /\ n <= ctxq[1].room
          /\ bytes' = bytes - n
          /\ ctxq' = [ctxq EXCEPT ![1].room = @ - n]
    BY <1>17 DEF RecvBytes
  <2>2. ctxq # <<>>
    BY <1>17 DEF ServeInv, RecvBytes
  <2>3. ctxq' \in Seq(Contexts)
    BY <2>1, <2>2, ShrinkHead DEF ReadType
  <2>4. bytes' \in Nat
    BY <2>1 DEF ReadType
  <2> QED
    BY <1>17, <2>3, <2>4 DEF ReadType, ReadStates, Flags, RecvBytes,
       CallHandler, vars, queueVars, loopVars, socketVars
<1>18. CASE RecvInterrupted
  BY <1>18 DEF ReadType, ReadStates, Flags, RecvInterrupted, vars, queueVars,
     loopVars, socketVars
<1>19. CASE RecvAgain
  BY <1>19 DEF ReadType, ReadStates, Flags, RecvAgain, vars, queueVars,
     loopVars, socketVars
<1>20. CASE SetComplete
  BY <1>20 DEF ReadType, ReadStates, Flags, SetComplete, LeaveOnRead, vars,
     queueVars, loopVars, socketVars
<1>21. CASE RecvEof
  BY <1>21 DEF ReadType, ReadStates, Flags, RecvEof, CallHandler, vars,
     queueVars, loopVars, socketVars
<1>22. CASE RecvError
  BY <1>22 DEF ReadType, ReadStates, Flags, RecvError, CallHandler, vars,
     queueVars, loopVars, socketVars
<1>23. CASE Complete
  <2>1. ctxq # <<>>
    BY <1>23 DEF ServeInv, Complete
  <2>2. ctxq' \in Seq(Contexts)
    BY <1>23, <2>1 DEF ReadType, Complete
  <2>3. ctxq[1].id \in Nat
    BY <2>1, HeadFacts DEF Reads
  <2>4. done' \in Seq(Nat)
    BY <1>23, <2>3 DEF ReadType, Complete
  <2> QED
    BY <1>23, <2>2, <2>4 DEF ReadType, ReadStates, Flags, Complete,
       CallHandler, vars, queueVars, loopVars, socketVars
<1>24. CASE OobClosed
  BY <1>24 DEF ReadType, ReadStates, Flags, OobClosed, CallHandler, vars, queueVars, loopVars, socketVars
<1>26. CASE OobNext
  BY <1>26 DEF ReadType, ReadStates, Flags, OobNext, CallHandler, vars, queueVars, loopVars, socketVars
<1>27. CASE OobByte
  BY <1>27 DEF ReadType, ReadStates, Flags, OobByte, CallHandler, vars, queueVars, loopVars, socketVars
<1>28. CASE OobInterrupted
  BY <1>28 DEF ReadType, ReadStates, Flags, OobInterrupted, CallHandler, vars, queueVars, loopVars, socketVars
<1>29. CASE OobAgain
  BY <1>29 DEF ReadType, ReadStates, Flags, OobAgain, CallHandler, vars, queueVars, loopVars, socketVars
<1>30. CASE OobError
  BY <1>30 DEF ReadType, ReadStates, Flags, OobError, CallHandler, vars, queueVars, loopVars, socketVars
<1>31. CASE OobEof
  BY <1>31 DEF ReadType, ReadStates, Flags, OobEof, CallHandler, vars, queueVars, loopVars, socketVars
<1>25. CASE UNCHANGED vars
  BY <1>25 DEF ReadType, vars, queueVars, loopVars, socketVars
<1> QED
  BY <1>1, <1>2, <1>3, <1>4, <1>5, <1>6, <1>7, <1>8, <1>9, <1>10, <1>11,
     <1>12, <1>13, <1>14, <1>15, <1>16, <1>17, <1>18, <1>19, <1>20, <1>21,
     <1>22, <1>23, <1>24, <1>25, <1>26, <1>27, <1>28, <1>29,
     <1>30, <1>31 DEF Next, Peer, LoopStep, Recv, Client

(* Every step preserves the order of the reads, what is known of the read  *)
(* that is served, and the silence after close().                          *)
LEMMA OrderStep ==
  ReadInv /\ [Next]_vars => OrderInv' /\ ServeInv' /\ QuietInv'
<1> SUFFICES ASSUME ReadInv, [Next]_vars PROVE OrderInv' /\ ServeInv' /\ QuietInv'
  OBVIOUS
<1> USE DEF ReadInv
<1>1. CASE PeerSends
  BY <1>1 DEF OrderInv, ServeInv, QuietInv, QuietWhenClosed, PeerSends, vars,
     queueVars, loopVars, socketVars
<1>2. CASE PeerSendsOob
  BY <1>2 DEF OrderInv, ServeInv, QuietInv, QuietWhenClosed, PeerSendsOob,
     vars, queueVars, loopVars, socketVars
<1>3. CASE PeerShutsDown
  BY <1>3 DEF OrderInv, ServeInv, QuietInv, QuietWhenClosed, PeerShutsDown,
     vars, queueVars, loopVars, socketVars
<1>4. CASE PeerResets
  BY <1>4 DEF OrderInv, ServeInv, QuietInv, QuietWhenClosed, PeerResets, vars,
     queueVars, loopVars, socketVars
<1>5. CASE \E c \in Clients : AcceptRead(c)
  BY <1>5 DEF OrderInv, ServeInv, QuietInv, QuietWhenClosed, AcceptRead, vars,
     queueVars, loopVars, socketVars
<1>6. CASE \E c \in Clients : PushRead(c)
  <2>1. /\ ctxq' # <<>> /\ Len(ctxq') = Len(ctxq) + 1
        /\ \A i \in 1 .. Len(ctxq) : ctxq'[i] = ctxq[i]
        /\ ctxq'[Len(ctxq) + 1].id = posted + 1
        /\ posted' = posted + 1
        /\ next_ctx' = ctxq'[1].id
        /\ ctxq # <<>> => ctxq'[1].id = ctxq[1].id
    BY <1>6, PushQueue DEF PushRead
  <2>2. Len(ctxq) \in Nat /\ Len(done) \in Nat /\ posted \in Nat
    BY DEF ReadType
  <2>3. OrderInv'
    <3>1. next_ctx' = IF ctxq' = <<>> THEN 0 ELSE ctxq'[1].id
      BY <2>1
    <3>2. \A i \in 1 .. Len(done') : done'[i] = i
      BY <1>6 DEF OrderInv, PushRead
    <3>3. ASSUME "closed" \notin flags'
          PROVE  /\ \A i \in 1 .. Len(ctxq') : ctxq'[i].id = Len(done') + i
                 /\ Len(done') + Len(ctxq') = posted'
      <4>1. /\ \A i \in 1 .. Len(ctxq) : ctxq[i].id = Len(done) + i
            /\ Len(done) + Len(ctxq) = posted
            /\ done' = done
        BY <1>6, <3>3 DEF OrderInv, PushRead
      <4>2. ASSUME NEW i \in 1 .. Len(ctxq') PROVE ctxq'[i].id = Len(done) + i
        <5>1. CASE i = Len(ctxq) + 1
          <6>1. ctxq'[i].id = posted + 1
            BY <5>1, <2>1
          <6> QED
            BY <5>1, <6>1, <2>2, <4>1
        <5>2. CASE i \in 1 .. Len(ctxq)
          BY <5>2, <2>1, <4>1
        <5> QED
          BY <5>1, <5>2, <2>1, <2>2
      <4> QED
        BY <4>1, <4>2, <2>1, <2>2
    <3> QED
      BY <3>1, <3>2, <3>3 DEF OrderInv
  <2>4. ServeInv' /\ QuietInv'
    BY <1>6, <2>1 DEF OrderInv, ServeInv, QuietInv, QuietWhenClosed, PushRead,
       vars, queueVars, loopVars, socketVars
  <2> QED
    BY <2>3, <2>4
<1>7. CASE \E c \in Clients : PostRead(c)
  BY <1>7 DEF OrderInv, ServeInv, QuietInv, QuietWhenClosed, PostRead, vars,
     queueVars, loopVars, socketVars
<1>8. CASE \E c \in Clients : ClientClose(c)
  BY <1>8 DEF OrderInv, ServeInv, QuietInv, QuietWhenClosed, ClientClose,
     Close, vars, queueVars, loopVars, socketVars
<1>9. CASE HandlerRead
  <2>1. /\ ctxq' # <<>> /\ Len(ctxq') = Len(ctxq) + 1
        /\ \A i \in 1 .. Len(ctxq) : ctxq'[i] = ctxq[i]
        /\ ctxq'[Len(ctxq) + 1].id = posted + 1
        /\ posted' = posted + 1
        /\ next_ctx' = ctxq'[1].id
        /\ ctxq # <<>> => ctxq'[1].id = ctxq[1].id
    BY <1>9, PushQueue DEF HandlerRead
  <2>2. Len(ctxq) \in Nat /\ Len(done) \in Nat /\ posted \in Nat
    BY DEF ReadType
  <2>3. OrderInv'
    <3>1. next_ctx' = IF ctxq' = <<>> THEN 0 ELSE ctxq'[1].id
      BY <2>1
    <3>2. \A i \in 1 .. Len(done') : done'[i] = i
      BY <1>9 DEF OrderInv, HandlerRead
    <3>3. ASSUME "closed" \notin flags'
          PROVE  /\ \A i \in 1 .. Len(ctxq') : ctxq'[i].id = Len(done') + i
                 /\ Len(done') + Len(ctxq') = posted'
      <4>1. /\ \A i \in 1 .. Len(ctxq) : ctxq[i].id = Len(done) + i
            /\ Len(done) + Len(ctxq) = posted
            /\ done' = done
        BY <1>9, <3>3 DEF OrderInv, HandlerRead
      <4>2. ASSUME NEW i \in 1 .. Len(ctxq') PROVE ctxq'[i].id = Len(done) + i
        <5>1. CASE i = Len(ctxq) + 1
          <6>1. ctxq'[i].id = posted + 1
            BY <5>1, <2>1
          <6> QED
            BY <5>1, <6>1, <2>2, <4>1
        <5>2. CASE i \in 1 .. Len(ctxq)
          BY <5>2, <2>1, <4>1
        <5> QED
          BY <5>1, <5>2, <2>1, <2>2
      <4> QED
        BY <4>1, <4>2, <2>1, <2>2
    <3> QED
      BY <3>1, <3>2, <3>3 DEF OrderInv
  <2>4. ServeInv' /\ QuietInv'
    BY <1>9, <2>1 DEF OrderInv, ServeInv, QuietInv, QuietWhenClosed,
       HandlerRead, vars, queueVars, loopVars, socketVars
  <2> QED
    BY <2>3, <2>4
<1>10. CASE HandlerClose
  BY <1>10 DEF OrderInv, ServeInv, QuietInv, QuietWhenClosed, HandlerClose,
     Close, vars, queueVars, loopVars, socketVars
<1>11. CASE HandlerReturn
  <2>1. at' \in {"on_oob", "idle", "loop", "oob_loop"}
    <3>1. CASE after = "oob_event"
      BY <1>11, <3>1 DEF HandlerReturn, LeaveOnRead
    <3>2. CASE after \in {"loop", "oob_loop", "idle"}
      BY <1>11, <3>2 DEF HandlerReturn
    <3> QED
      BY <3>1, <3>2 DEF ReadType
  <2>2. /\ at = "handler"
        /\ UNCHANGED <<queueVars, complete, flags, ctx, done>>
    BY <1>11 DEF HandlerReturn
  <2>3. "closed" \notin flags
    BY <2>2 DEF QuietInv, QuietWhenClosed
  <2>4. "eof" \in flags => at' \in {"on_oob", "idle"}
    <3>1. "eof" \in flags => after = "idle" \/ after = "oob_event"
      BY <2>2 DEF QuietInv
    <3>2. after = "idle" \/ after = "oob_event" => at' \in {"on_oob", "idle"}
      BY <1>11 DEF HandlerReturn, LeaveOnRead
    <3> QED
      BY <3>1, <3>2
  <2> QED
    BY <2>1, <2>2, <2>3, <2>4 DEF OrderInv, ServeInv, QuietInv, QuietWhenClosed,
       queueVars
<1>12. CASE RunTask
  <2>1. CASE Head(tasks) = "read"
    BY <1>12, <2>1 DEF OrderInv, ServeInv, QuietInv, QuietWhenClosed, RunTask,
       vars, queueVars, loopVars, socketVars
  <2>2. CASE Head(tasks) # "read"
    BY <1>12, <2>2 DEF OrderInv, ServeInv, QuietInv, QuietWhenClosed, RunTask,
       vars, queueVars, loopVars, socketVars
  <2> QED
    BY <2>1, <2>2
<1>13. CASE Dispatch
  BY <1>13 DEF OrderInv, ServeInv, QuietInv, QuietWhenClosed, Dispatch, vars,
     queueVars, loopVars, socketVars
<1>14. CASE AssertNotEof("on_read", "loop") \/ AssertNotEof("on_oob", "oob_loop")
  <2>1. /\ at \in {"on_read", "on_oob"}
        /\ at' = "aborted" \/ ("eof" \notin flags /\ at' \in {"loop", "oob_loop"})
        /\ UNCHANGED <<queueVars, complete, flags, ctx, done>>
    BY <1>14 DEF AssertNotEof
  <2> QED
    BY <2>1 DEF OrderInv, ServeInv, QuietInv, QuietWhenClosed, queueVars
<1>15. CASE ReadNothing
  BY <1>15 DEF OrderInv, ServeInv, QuietInv, QuietWhenClosed, ReadNothing,
     LeaveOnRead, vars, queueVars, loopVars, socketVars
<1>16. CASE ReadNext
  <2>1. "eof" \notin flags
    BY <1>16 DEF ReadNext, QuietInv
  <2>2. ctxq # <<>>
    BY <1>16, <2>1, NextCtxNull DEF ReadNext, ServeInv
  <2> QED
    BY <1>16, <2>2 DEF OrderInv, ServeInv, QuietInv, QuietWhenClosed,
       ReadNext, vars, queueVars, loopVars, socketVars
<1>17. CASE RecvBytes
  <2>1. PICK n \in 1 .. bytes :
          /\ n <= ctxq[1].room
          /\ bytes' = bytes - n
          /\ ctxq' = [ctxq EXCEPT ![1].room = @ - n]
    BY <1>17 DEF RecvBytes
  <2>2. ctxq # <<>> /\ 1 \in 1 .. Len(ctxq)
    BY <1>17, HeadFacts DEF ServeInv, RecvBytes
  <2>3. /\ Len(ctxq') = Len(ctxq) /\ ctxq' # <<>>
        /\ \A i \in 1 .. Len(ctxq) : ctxq'[i].id = ctxq[i].id
    BY <2>1, <2>2, ShrinkHead DEF ReadType
  <2>4. UNCHANGED <<next_ctx, posted, done, ctx, complete>>
        /\ flags' = flags \ {"error"}
        /\ at' \in {"filled", "loop", "handler"}
    BY <1>17 DEF RecvBytes, CallHandler
  <2>5. OrderInv'
    BY <2>2, <2>3, <2>4 DEF OrderInv
  <2>6. ServeInv' /\ QuietInv'
    BY <1>17, <2>2, <2>3, <2>4 DEF ServeInv, QuietInv, QuietWhenClosed,
       RecvBytes
  <2> QED
    BY <2>5, <2>6
<1>18. CASE RecvInterrupted
  BY <1>18 DEF OrderInv, ServeInv, QuietInv, QuietWhenClosed, RecvInterrupted,
     vars, queueVars, loopVars, socketVars
<1>19. CASE RecvAgain
  BY <1>19 DEF OrderInv, ServeInv, QuietInv, QuietWhenClosed, RecvAgain, vars,
     queueVars, loopVars, socketVars
<1>20. CASE SetComplete
  BY <1>20 DEF OrderInv, ServeInv, QuietInv, QuietWhenClosed, SetComplete,
     LeaveOnRead, vars, queueVars, loopVars, socketVars
<1>21. CASE RecvEof
  BY <1>21 DEF OrderInv, ServeInv, QuietInv, QuietWhenClosed, RecvEof,
     CallHandler, vars, queueVars, loopVars, socketVars
<1>22. CASE RecvError
  BY <1>22 DEF OrderInv, ServeInv, QuietInv, QuietWhenClosed, RecvError,
     CallHandler, vars, queueVars, loopVars, socketVars
<1>23. CASE Complete
  <2>1. /\ ctxq # <<>> /\ "closed" \notin flags /\ "eof" \notin flags /\ ~complete
        /\ done' = Append(done, ctxq[1].id) /\ ctxq' = Tail(ctxq)
        /\ UNCHANGED <<posted, complete, flags>>
        /\ next_ctx' = IF ctxq' = <<>> THEN 0 ELSE ctxq'[1].id
        /\ at' = "handler"
    BY <1>23 DEF ServeInv, QuietInv, QuietWhenClosed, Complete, CallHandler
  <2>2. /\ \A i \in 1 .. Len(ctxq) : ctxq[i].id = Len(done) + i
        /\ Len(done) + Len(ctxq) = posted
        /\ \A i \in 1 .. Len(done) : done[i] = i
    BY <2>1 DEF OrderInv
  <2>3. Len(ctxq) \in Nat /\ Len(done) \in Nat /\ Len(ctxq) >= 1
    BY <2>1, HeadFacts DEF ReadType
  <2>4. ctxq[1].id = Len(done) + 1 /\ ctxq[1].id \in Nat
    BY <2>2, <2>3
  <2>5. done \in Seq(Nat) /\ ctxq \in Seq(Contexts)
    BY DEF ReadType
  <2>6. Len(done') = Len(done) + 1 /\ \A i \in 1 .. Len(done') : done'[i] = i
    <3> DEFINE e == ctxq[1].id
    <3>1. done' = Append(done, e) /\ e = Len(done) + 1 /\ e \in Nat
      BY <2>1, <2>4
    <3> HIDE DEF e
    <3>2. /\ Len(done') = Len(done) + 1
          /\ \A i \in 1 .. Len(done) : done'[i] = done[i]
          /\ done'[Len(done) + 1] = e
      BY <2>5, <3>1
    <3> QED
      BY <2>2, <2>3, <3>1, <3>2
  <2>7. /\ Len(ctxq') = Len(ctxq) - 1
        /\ \A i \in 1 .. Len(ctxq') : ctxq'[i] = ctxq[i + 1]
    BY <2>1, <2>5
  <2>8. \A i \in 1 .. Len(ctxq') : ctxq'[i].id = Len(done') + i
    BY <2>2, <2>3, <2>6, <2>7
  <2>9. OrderInv'
    BY <2>1, <2>2, <2>3, <2>6, <2>7, <2>8 DEF OrderInv
  <2>10. ServeInv' /\ QuietInv'
    BY <1>23, <2>1 DEF ServeInv, QuietInv, QuietWhenClosed
  <2> QED
    BY <2>9, <2>10
<1>24. CASE OobClosed
  BY <1>24 DEF OrderInv, ServeInv, QuietInv, QuietWhenClosed, OobClosed,
     CallHandler, Closed, vars, queueVars, loopVars, socketVars
<1>26. CASE OobNext
  BY <1>26 DEF OrderInv, ServeInv, QuietInv, QuietWhenClosed, OobNext,
     CallHandler, Closed, vars, queueVars, loopVars, socketVars
<1>27. CASE OobByte
  BY <1>27 DEF OrderInv, ServeInv, QuietInv, QuietWhenClosed, OobByte,
     CallHandler, Closed, vars, queueVars, loopVars, socketVars
<1>28. CASE OobInterrupted
  BY <1>28 DEF OrderInv, ServeInv, QuietInv, QuietWhenClosed, OobInterrupted,
     CallHandler, Closed, vars, queueVars, loopVars, socketVars
<1>29. CASE OobAgain
  BY <1>29 DEF OrderInv, ServeInv, QuietInv, QuietWhenClosed, OobAgain,
     CallHandler, Closed, vars, queueVars, loopVars, socketVars
<1>30. CASE OobError
  BY <1>30 DEF OrderInv, ServeInv, QuietInv, QuietWhenClosed, OobError,
     CallHandler, Closed, vars, queueVars, loopVars, socketVars
<1>31. CASE OobEof
  BY <1>31 DEF OrderInv, ServeInv, QuietInv, QuietWhenClosed, OobEof,
     CallHandler, Closed, vars, queueVars, loopVars, socketVars
<1>25. CASE UNCHANGED vars
  BY <1>25 DEF OrderInv, ServeInv, QuietInv, QuietWhenClosed, vars, queueVars,
     loopVars, socketVars
<1> QED
  BY <1>1, <1>2, <1>3, <1>4, <1>5, <1>6, <1>7, <1>8, <1>9, <1>10, <1>11,
     <1>12, <1>13, <1>14, <1>15, <1>16, <1>17, <1>18, <1>19, <1>20, <1>21,
     <1>22, <1>23, <1>24, <1>25, <1>26, <1>27, <1>28, <1>29,
     <1>30, <1>31 DEF Next, Peer, LoopStep, Recv, Client

(* Every step leaves somebody to call recv() for what can be received.     *)
LEMMA WakeStep == ReadInv /\ WakeInv /\ [Next]_vars => WakeInv'
<1> SUFFICES ASSUME ReadInv, WakeInv, [Next]_vars PROVE WakeInv'
  OBVIOUS
<1>1. CASE PeerSends
  BY <1>1 DEF WakeInv, Coming, Busy, Readable, Live, Closed, Flags, PeerSends, vars,
     queueVars, loopVars, socketVars
<1>2. CASE PeerSendsOob
  BY <1>2 DEF WakeInv, Coming, Busy, Readable, Live, Closed, Flags, PeerSendsOob,
     vars, queueVars, loopVars, socketVars
<1>3. CASE PeerShutsDown
  BY <1>3 DEF WakeInv, Coming, Busy, Readable, Live, Closed, Flags, PeerShutsDown,
     vars, queueVars, loopVars, socketVars
<1>4. CASE PeerResets
  BY <1>4 DEF WakeInv, Coming, Busy, Readable, Live, Closed, Flags, PeerResets, vars,
     queueVars, loopVars, socketVars
<1>5. CASE \E c \in Clients : AcceptRead(c)
  <2>1. \A c \in Clients : pc[c] = "pushed" => pc'[c] = "pushed"
    BY <1>5 DEF AcceptRead, ReadInv, ReadType
  <2> QED
    BY <1>5, <2>1 DEF WakeInv, Coming, Busy, Readable, Live, Closed, Flags,
       AcceptRead, vars, queueVars, loopVars, socketVars
<1>6. CASE \E c \in Clients : PushRead(c)
  <2>1. \E c \in Clients : pc'[c] = "pushed"
    BY <1>6 DEF PushRead, ReadInv, ReadType
  <2> QED
    BY <1>6, <2>1 DEF WakeInv, Coming, Busy, Readable, Live, Closed, Flags, PushRead,
       vars, queueVars, loopVars, socketVars
<1>7. CASE \E c \in Clients : PostRead(c)
  <2>1. CASE complete
    BY <1>7, <2>1 DEF WakeInv, Coming, Busy, Readable, Live, Closed, Flags, PostRead,
       vars, queueVars, loopVars, socketVars
  <2>2. CASE ~complete
    <3>1. tasks' = Append(tasks, "read") /\ tasks \in Seq({"read", "close"})
      BY <1>7, <2>2 DEF PostRead, ReadInv, ReadType
    <3>2. \E i \in DOMAIN tasks' : tasks'[i] = "read"
      BY <3>1
    <3> QED
      BY <1>7, <2>2, <3>2 DEF WakeInv, Coming, Busy, Readable, Live, Closed, Flags,
         PostRead, vars, queueVars, loopVars, socketVars
  <2> QED
    BY <2>1, <2>2
<1>8. CASE \E c \in Clients : ClientClose(c)
  <2>1. ~Live'
    BY <1>8 DEF ClientClose, Close, Live, Closed, Flags
  <2> QED
    BY <1>8, <2>1 DEF WakeInv, Readable, ClientClose, Close, vars, queueVars,
       loopVars, socketVars
<1>9. CASE HandlerRead
  BY <1>9 DEF WakeInv, Coming, Busy, Readable, Live, Closed, Flags, HandlerRead, vars,
     queueVars, loopVars, socketVars
<1>10. CASE HandlerClose
  <2>1. ~Live'
    BY <1>10 DEF HandlerClose, Close, Live, Closed, Flags
  <2> QED
    BY <1>10, <2>1 DEF WakeInv, Readable, HandlerClose, Close, vars,
       queueVars, loopVars, socketVars
<1>11. CASE HandlerReturn
  <2>1. CASE after \in {"idle", "oob_event"}
    BY <1>11, <2>1 DEF WakeInv, Coming, Busy, Readable, Live, Closed, Flags,
       HandlerReturn, LeaveOnRead, vars, queueVars, loopVars, socketVars
  <2>2. CASE after \in {"loop", "oob_loop"}
    BY <1>11, <2>2 DEF WakeInv, Coming, Busy, Readable, Live, Closed, Flags,
       HandlerReturn, LeaveOnRead, vars, queueVars, loopVars, socketVars
  <2> QED
    BY <2>1, <2>2 DEF ReadInv, ReadType
<1>12. CASE RunTask
  <2>1. CASE Head(tasks) = "read"
    BY <1>12, <2>1 DEF WakeInv, Coming, Busy, Readable, Live, Closed, Flags, RunTask,
       vars, queueVars, loopVars, socketVars
  <2>2. CASE Head(tasks) # "read"
    BY <1>12, <2>2 DEF WakeInv, Coming, Busy, Readable, Live, Closed, Flags, RunTask,
       vars, queueVars, loopVars, socketVars
  <2> QED
    BY <2>1, <2>2
<1>13. CASE Dispatch
  BY <1>13 DEF WakeInv, Coming, Busy, Readable, Live, Closed, Flags, Dispatch, vars,
     queueVars, loopVars, socketVars
<1>14. CASE AssertNotEof("on_read", "loop") \/ AssertNotEof("on_oob", "oob_loop")
  BY <1>14 DEF WakeInv, Coming, Busy, Readable, Live, Closed, Flags, AssertNotEof,
     vars, queueVars, loopVars, socketVars
<1>15. CASE ReadNothing
  <2>1. CASE Closed
    BY <1>15, <2>1 DEF WakeInv, Coming, Busy, Readable, Live, Closed, Flags,
       ReadNothing, LeaveOnRead, vars, queueVars, loopVars, socketVars, Closed
  <2>2. CASE next_ctx = 0 /\ ~complete
    <3>1. ctxq = <<>> /\ ctxq' = <<>> /\ ~complete'
      BY <1>15, <2>2, NextCtxNull DEF ReadInv, ReadNothing, queueVars
    <3> QED
      BY <1>15, <3>1 DEF WakeInv, Coming, Busy, Readable, Live, Closed, Flags,
         ReadNothing, LeaveOnRead, vars, queueVars, loopVars, socketVars
  <2> QED
    BY <1>15, <2>1, <2>2 DEF ReadNothing
<1>16. CASE ReadNext
  BY <1>16 DEF WakeInv, Coming, Busy, Readable, Live, Closed, Flags, ReadNext, vars,
     queueVars, loopVars, socketVars
<1>17. CASE RecvBytes
  BY <1>17 DEF WakeInv, Coming, Busy, Readable, Live, Closed, Flags, RecvBytes,
     CallHandler, vars, queueVars, loopVars, socketVars
<1>18. CASE RecvInterrupted
  BY <1>18 DEF WakeInv, Coming, Busy, Readable, Live, Closed, Flags, RecvInterrupted,
     vars, queueVars, loopVars, socketVars
<1>19. CASE RecvAgain
  BY <1>19 DEF WakeInv, Coming, Busy, Readable, Live, Closed, Flags, RecvAgain, vars,
     queueVars, loopVars, socketVars
<1>20. CASE SetComplete
  BY <1>20 DEF WakeInv, Coming, Busy, Readable, Live, Closed, Flags, SetComplete,
     LeaveOnRead, vars, queueVars, loopVars, socketVars
<1>21. CASE RecvEof
  <2>1. ~Live'
    BY <1>21 DEF RecvEof, Live, Closed, Flags
  <2> QED
    BY <1>21, <2>1 DEF WakeInv, RecvEof, CallHandler
<1>22. CASE RecvError
  <2>1. ~Live'
    BY <1>22 DEF RecvError, Live, Closed, Flags
  <2> QED
    BY <1>22, <2>1 DEF WakeInv, RecvError, CallHandler
<1>23. CASE Complete
  BY <1>23 DEF WakeInv, Coming, Busy, Readable, Live, Closed, Flags, Complete,
     CallHandler, vars, queueVars, loopVars, socketVars
<1>24. CASE OobClosed
  BY <1>24 DEF WakeInv, Coming, Busy, Readable, Live, Closed, Flags, OobClosed,
     CallHandler, vars, queueVars, loopVars, socketVars
<1>26. CASE OobNext
  BY <1>26 DEF WakeInv, Coming, Busy, Readable, Live, Closed, Flags, OobNext,
     CallHandler, vars, queueVars, loopVars, socketVars
<1>27. CASE OobByte
  BY <1>27 DEF WakeInv, Coming, Busy, Readable, Live, Closed, Flags, OobByte,
     CallHandler, vars, queueVars, loopVars, socketVars
<1>28. CASE OobInterrupted
  BY <1>28 DEF WakeInv, Coming, Busy, Readable, Live, Closed, Flags, OobInterrupted,
     CallHandler, vars, queueVars, loopVars, socketVars
<1>29. CASE OobAgain
  BY <1>29 DEF WakeInv, Coming, Busy, Readable, Live, Closed, Flags, OobAgain,
     CallHandler, vars, queueVars, loopVars, socketVars
<1>30. CASE OobError
  BY <1>30 DEF WakeInv, Coming, Busy, Readable, Live, Closed, Flags, OobError,
     CallHandler, vars, queueVars, loopVars, socketVars
<1>31. CASE OobEof
  BY <1>31 DEF WakeInv, Coming, Busy, Readable, Live, Closed, Flags, OobEof,
     CallHandler, vars, queueVars, loopVars, socketVars
<1>25. CASE UNCHANGED vars
  BY <1>25 DEF WakeInv, Coming, Busy, Readable, Live, Closed, Flags, vars, queueVars,
     loopVars, socketVars
<1> QED
  BY <1>1, <1>2, <1>3, <1>4, <1>5, <1>6, <1>7, <1>8, <1>9, <1>10, <1>11,
     <1>12, <1>13, <1>14, <1>15, <1>16, <1>17, <1>18, <1>19, <1>20, <1>21,
     <1>22, <1>23, <1>24, <1>25, <1>26, <1>27, <1>28, <1>29,
     <1>30, <1>31 DEF Next, Peer, LoopStep, Recv, Client

(* The strengthened invariant holds.                                       *)
LEMMA ReadInvariant == Spec => [](ReadInv /\ WakeInv)
<1>1. Init => ReadInv /\ WakeInv
  <2> SUFFICES ASSUME Init PROVE ReadInv /\ WakeInv
    OBVIOUS
  <2>1. <<>> \in Seq(Contexts) /\ <<>> \in Seq({"read", "close"}) /\ <<>> \in Seq(Nat)
    OBVIOUS
  <2>2. [c \in Clients |-> "idle"] \in [Clients -> {"idle", "accepted", "pushed"}]
    BY Zenon
  <2>3. 0 \in 0 .. MaxReads
    BY IstreamAssumption DEF IstreamAssumption
  <2>4. ReadType
    BY <2>1, <2>2, <2>3 DEF Init, ReadType, ReadStates, Flags
  <2>5. OrderInv /\ ServeInv /\ QuietInv /\ WakeInv
    BY DEF Init, OrderInv, ServeInv, QuietInv, QuietWhenClosed, WakeInv,
       Readable
  <2> QED
    BY <2>4, <2>5 DEF ReadInv
<1>2. ReadInv /\ WakeInv /\ [Next]_vars => (ReadInv /\ WakeInv)'
  BY ReadTypeStep, OrderStep, WakeStep DEF ReadInv
<1> QED
  BY <1>1, <1>2, PTL DEF Spec

(* Reads are completed once each and in the order in which they were       *)
(* posted, and on_read() never follows a null or a stale next_ctx_.        *)
THEOREM ReadsServedInOrder == Spec => []ReadsInOrder
<1>1. ReadInv => ReadsInOrder
  <2> SUFFICES ASSUME ReadInv PROVE NextCtxValid /\ CompletedInOrder
    BY DEF ReadsInOrder
  <2>1. NextCtxValid
    BY HeadFacts DEF ReadInv, ServeInv, NextCtxValid, Reads
  <2>2. CompletedInOrder
    BY DEF ReadInv, ReadType, OrderInv, CompletedInOrder
  <2> QED
    BY <2>1, <2>2
<1> QED
  BY <1>1, ReadInvariant, PTL

(* Between async_read(), on_read() and the edges of epoll no wakeup is     *)
(* lost: what a waiting read could take has somebody to fetch it.          *)
THEOREM NoReadIsStranded == Spec => []NoStrandedRead
<1>1. ReadInv /\ WakeInv => NoStrandedRead
  BY DEF ReadInv, WakeInv, NoStrandedRead, NothingCallsOnRead, Live, Coming,
     Busy
<1> QED
  BY <1>1, ReadInvariant, PTL

(* After the task of close() has run the session calls no handler.         *)
THEOREM QuietAfterClose == Spec => []QuietWhenClosed
<1>1. ReadInv => QuietWhenClosed
  BY DEF ReadInv, QuietInv
<1> QED
  BY <1>1, ReadInvariant, PTL

=============================================================================
