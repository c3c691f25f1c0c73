---------------------------- MODULE SessionProofs ----------------------------
(***************************************************************************)
(* Theorems about Session, for any number of client threads and of calls.  *)
(***************************************************************************)
EXTENDS Session, FiniteSetTheorems, TLAPS

LEMMA TypeStep == TypeOK /\ [Next]_vars => TypeOK'
<1> SUFFICES ASSUME TypeOK, [Next]_vars PROVE TypeOK'
  OBVIOUS
<1> USE SessionAssumption
    DEF TypeOK, SessionAssumption, Threads, Flags, IO, Toggles, loopVars,
        eventVars, histVars, closed, closing
<1>1. ASSUME NEW t \in Threads, Call(t) PROVE TypeOK'
  <2>1. ASSUME NEW kind \in IO, Accept(t, kind) PROVE TypeOK'
    BY <2>1 DEF Accept, MayCall, Goto
  <2>2. ASSUME NEW kind \in Toggles, Toggle(t, kind) PROVE TypeOK'
    <3>1. [kind |-> kind, by |-> t] \in Tasks
      BY DEF Tasks
    <3>2. taskq' \in Seq(Tasks)
      BY <2>2, <3>1 DEF Toggle, Post
    <3> QED
      BY <2>2, <3>2 DEF Toggle, MayCall
  <2>3. CASE CallClose(t)
    BY <2>3 DEF CallClose, MayCall, Goto
  <2>4. CASE ForceShutdown(t)
    BY <2>4 DEF ForceShutdown, MayCall
  <2> QED
    BY <1>1, <2>1, <2>2, <2>3, <2>4 DEF Call
<1>2. ASSUME NEW t \in Threads, CallStep(t) PROVE TypeOK'
  <2>1. CASE PostIO(t)
    <3>1. taskq' \in Seq(Tasks)
      <4>1. pc[t] \in IO => [kind |-> pc[t], by |-> t] \in Tasks
        BY DEF Tasks
      <4> QED
        BY <2>1, <4>1 DEF PostIO, Post
    <3> QED
      BY <2>1, <3>1 DEF PostIO, Goto
  <2>2. CASE SetClosing(t)
    BY <2>2 DEF SetClosing, Goto
  <2>3. CASE PostClose(t)
    <3>1. [kind |-> "close", by |-> t] \in Tasks
      BY DEF Tasks
    <3>2. taskq' \in Seq(Tasks)
      BY <2>3, <3>1 DEF PostClose, Post
    <3> QED
      BY <2>3, <3>2 DEF PostClose, Goto
  <2> QED
    BY <1>2, <2>1, <2>2, <2>3 DEF CallStep
<1>3. CASE SwapTasks
  BY <1>3 DEF SwapTasks
<1>4. ASSUME batch # <<>>, batch' = Tail(batch) PROVE batch' \in Seq(Tasks)
  BY <1>4
<1>5. CASE CloseTask
  <2>1. batch' \in Seq(Tasks) /\ UNCHANGED <<taskq, phase, events, out, alive, pc, calls>>
    BY <1>5, <1>4 DEF CloseTask, NextTask
  <2>2. CASE closed
    BY <1>5, <2>1, <2>2 DEF CloseTask
  <2>3. CASE ~closed
    <3>1. flags' \in SUBSET Flags
      BY <1>5, <2>3 DEF CloseTask
    <3>2. handled' \in Nat
      BY <1>5, <2>3 DEF CloseTask
    <3>3. registed' \in BOOLEAN /\ open' \in BOOLEAN /\ at' = "close_handler"
      BY <1>5, <2>3, Zenon DEF CloseTask
    <3> QED
      BY <2>1, <3>1, <3>2, <3>3
  <2> QED
    BY <2>2, <2>3
<1>6. CASE CloseHandlerReturns
  BY <1>6 DEF CloseHandlerReturns
<1>7. CASE ToggleTask
  BY <1>7, <1>4 DEF ToggleTask, NextTask
<1>8. CASE IOTask
  BY <1>8, <1>4 DEF IOTask, NextTask
<1>9. CASE DanglingTask
  BY <1>9 DEF DanglingTask
<1>10. CASE TasksDone
  BY <1>10 DEF TasksDone
<1>11. CASE Wait
  BY <1>11 DEF Wait
<1>12. CASE Dispatch
  BY <1>12 DEF Dispatch
<1>13. CASE StreamEnds
  BY <1>13 DEF StreamEnds
<1>14. CASE StreamCalls
  BY <1>14 DEF StreamCalls
<1>15. CASE HandlerReturns
  BY <1>15 DEF HandlerReturns
<1>16. CASE UNCHANGED vars
  BY <1>16 DEF vars
<1> QED
  BY <1>1, <1>2, <1>3, <1>5, <1>6, <1>7, <1>8, <1>9, <1>10, <1>11, <1>12,
     <1>13, <1>14, <1>15, <1>16 DEF Next, LoopStep

LEMMA Typing == Spec => []TypeOK
<1>1. Init => TypeOK
  <2> SUFFICES ASSUME Init PROVE TypeOK
    OBVIOUS
  <2>1. <<>> \in Seq(Tasks)
    OBVIOUS
  <2> QED
    BY <2>1, SessionAssumption DEF Init, TypeOK, SessionAssumption, Threads,
       Flags, IO
<1> QED
  BY <1>1, TypeStep, PTL DEF Spec

-----------------------------------------------------------------------------
(* One close.                                                              *)

LEMMA ClosedStep == TypeOK /\ ClosedOnce /\ [Next]_vars => ClosedOnce'
<1> SUFFICES ASSUME TypeOK, ClosedOnce, [Next]_vars PROVE ClosedOnce'
  OBVIOUS
<1>1. CASE CloseTask
  BY <1>1 DEF CloseTask, ClosedOnce, closed, TypeOK
<1>2. CASE UNCHANGED <<open, registed, handled>> /\ (closed' <=> closed)
  BY <1>2 DEF ClosedOnce
<1> USE DEF closed, loopVars, eventVars, histVars
<1>3. ASSUME NEW t \in Threads, Call(t) \/ CallStep(t)
      PROVE  UNCHANGED <<open, registed, handled>> /\ (closed' <=> closed)
  BY <1>3 DEF Call, CallStep, Accept, Toggle, CallClose, ForceShutdown, PostIO,
     SetClosing, PostClose
<1>4. CASE LoopStep /\ ~CloseTask
  <2>1. UNCHANGED <<open, registed, handled>> /\ (closed' <=> closed)
    BY <1>4 DEF LoopStep, SwapTasks, CloseHandlerReturns, ToggleTask, IOTask,
       DanglingTask, TasksDone, Wait, Dispatch, StreamEnds, StreamCalls,
       HandlerReturns
  <2> QED
    BY <2>1, <1>2
<1>5. CASE UNCHANGED vars
  BY <1>2, <1>5 DEF vars
<1> QED
  BY <1>1, <1>2, <1>3, <1>4, <1>5 DEF Next

(* However many threads pass the test of close() together, one close       *)
(* handler is called, and the socket and its event go with it.             *)
THEOREM CloseIsSingle == Spec => []ClosedOnce
<1>1. Init => ClosedOnce
  BY DEF Init, ClosedOnce, closed
<1> QED
  BY <1>1, ClosedStep, Typing, PTL DEF Spec

-----------------------------------------------------------------------------
(* Late tasks.                                                             *)

(* Where the reads and writes of thread t, and the closes, stand in a      *)
(* queue of tasks.                                                         *)
IOBy(q, t) == {i \in DOMAIN q : q[i].by = t /\ q[i].kind \in IO}
Closes(q) == {i \in DOMAIN q : q[i].kind = "close"}
After(S, p) == {i \in S : i > p}

(* Of the tasks A of the batch, the tasks B of the queue and the one that  *)
(* is about to be posted if c, there is at most one.                       *)
AtMostOne(A, B, c) ==
  /\ \A i, j \in A : i = j
  /\ \A i, j \in B : i = j
  /\ A = {} \/ B = {}
  /\ c => A = {} /\ B = {}

(* Thread t has at most one task behind any close, and none but one when   *)
(* the session is closed: the flags had been set before that close was     *)
(* posted, and t can have passed their test only once before that.         *)
OneLate(t) ==
  /\ \A p \in Closes(batch) :
       AtMostOne(After(IOBy(batch, t), p), IOBy(taskq, t), pc[t] \in IO)
  /\ \A p \in Closes(taskq) :
       AtMostOne({}, After(IOBy(taskq, t), p), pc[t] \in IO)
  /\ closed => AtMostOne(IOBy(batch, t), IOBy(taskq, t), pc[t] \in IO)

(* A close in a queue, or about to be there, has set the flag.             *)
ClosingFirst ==
  (closed \/ Closes(batch) # {} \/ Closes(taskq) # {}
     \/ \E t \in Threads : pc[t] = "close_post")
    => closing

(* A new batch is taken only when there is none.                           *)
BatchTaken ==
  /\ at \in {"tasks", "close_handler"} => phase = "tasks"
  /\ at \in {"swap", "wait", "dispatch"} \/ phase = "dispatch" => batch = <<>>

LateInv == (\A t \in Threads : OneLate(t)) /\ ClosingFirst /\ BatchTaken

LEMMA AppendPlaces ==
  ASSUME NEW q \in Seq(Tasks), NEW e \in Tasks
  PROVE  /\ \A t : IOBy(Append(q, e), t) =
                IOBy(q, t) \cup IF e.by = t /\ e.kind \in IO THEN {Len(q) + 1} ELSE {}
         /\ Closes(Append(q, e)) =
                Closes(q) \cup IF e.kind = "close" THEN {Len(q) + 1} ELSE {}
         /\ \A t : IOBy(q, t) \in SUBSET (1 .. Len(q))
         /\ Closes(q) \in SUBSET (1 .. Len(q))
BY DEF IOBy, Closes

LEMMA TailPlaces ==
  ASSUME NEW q \in Seq(Tasks), q # <<>>
  PROVE  /\ \A t : \A i \in IOBy(Tail(q), t) : i \in Nat /\ i + 1 \in IOBy(q, t) /\ i >= 1
         /\ \A i \in Closes(Tail(q)) : i \in Nat /\ i + 1 \in Closes(q)
         /\ Head(q).kind = "close" => 1 \in Closes(q)
BY DEF IOBy, Closes

LEMMA EmptyPlaces == Closes(<<>>) = {} /\ \A t : IOBy(<<>>, t) = {}
BY DEF Closes, IOBy

(* A step that leaves the queues alone, and by which nobody gets past the  *)
(* test of the flags.                                                      *)
LEMMA QuietStep ==
  ASSUME TypeOK, LateInv, UNCHANGED <<taskq, batch>>, closed' <=> closed,
         closing => closing',
         \A t \in Threads : pc'[t] \in IO => pc[t] \in IO,
         \A t \in Threads : pc'[t] = "close_post" => pc[t] = "close_post" \/ closing',
         BatchTaken'
  PROVE  LateInv'
<1>1. ASSUME NEW t \in Threads PROVE OneLate(t)'
  <2>1. OneLate(t) /\ (pc'[t] \in IO => pc[t] \in IO)
    BY DEF LateInv
  <2>2. /\ IOBy(batch, t)' = IOBy(batch, t) /\ IOBy(taskq, t)' = IOBy(taskq, t)
        /\ Closes(batch)' = Closes(batch) /\ Closes(taskq)' = Closes(taskq)
    BY DEF IOBy, Closes
  <2> QED
    BY <2>1, <2>2 DEF OneLate, AtMostOne, After
<1>2. ClosingFirst'
  BY DEF LateInv, ClosingFirst, Closes
<1> QED
  BY <1>1, <1>2 DEF LateInv

(* A task is taken from the batch; it may be the close.                    *)
LEMMA TakeStep ==
  ASSUME TypeOK, LateInv, batch # <<>>, batch' = Tail(batch),
         UNCHANGED <<taskq, pc>>, closing => closing',
         closed' => closed \/ Head(batch).kind = "close",
         BatchTaken'
  PROVE  LateInv'
<1>0. batch \in Seq(Tasks)
  BY DEF TypeOK
<1>1. ASSUME NEW t \in Threads PROVE OneLate(t)'
  <2>1. OneLate(t)
    BY DEF LateInv
  <2>2. /\ \A i \in IOBy(batch, t)' : i \in Nat /\ i + 1 \in IOBy(batch, t) /\ i >= 1
        /\ \A i \in Closes(batch)' : i \in Nat /\ i + 1 \in Closes(batch)
        /\ Head(batch).kind = "close" => 1 \in Closes(batch)
    BY <1>0, TailPlaces DEF IOBy, Closes
  <2>3. IOBy(taskq, t)' = IOBy(taskq, t) /\ Closes(taskq)' = Closes(taskq)
    BY DEF IOBy, Closes
  <2>4. ASSUME NEW p \in Closes(batch)'
        PROVE  AtMostOne(After(IOBy(batch, t), p), IOBy(taskq, t), pc[t] \in IO)'
    <3>1. AtMostOne(After(IOBy(batch, t), p + 1), IOBy(taskq, t), pc[t] \in IO)
      BY <2>1, <2>2 DEF OneLate
    <3>2. \A i \in After(IOBy(batch, t)', p) : i \in Nat /\ i + 1 \in After(IOBy(batch, t), p + 1)
      BY <2>2 DEF After
    <3> QED
      BY <3>1, <3>2, <2>3 DEF AtMostOne, After
  <2>5. ASSUME closed'
        PROVE  AtMostOne(IOBy(batch, t), IOBy(taskq, t), pc[t] \in IO)'
    <3>1. CASE closed
      <4>1. AtMostOne(IOBy(batch, t), IOBy(taskq, t), pc[t] \in IO)
        BY <2>1, <3>1 DEF OneLate
      <4> QED
        BY <4>1, <2>2, <2>3 DEF AtMostOne
    <3>2. CASE Head(batch).kind = "close"
      <4>1. AtMostOne(After(IOBy(batch, t), 1), IOBy(taskq, t), pc[t] \in IO)
        BY <2>1, <2>2, <3>2 DEF OneLate
      <4>2. \A i \in IOBy(batch, t)' : i \in Nat /\ i + 1 \in After(IOBy(batch, t), 1)
        BY <2>2 DEF After
      <4> QED
        BY <4>1, <4>2, <2>3 DEF AtMostOne
    <3> QED
      BY <2>5, <3>1, <3>2
  <2>6. ASSUME NEW p \in Closes(taskq)'
        PROVE  AtMostOne({}, After(IOBy(taskq, t), p), pc[t] \in IO)'
    BY <2>1, <2>3 DEF OneLate, AtMostOne, After
  <2> QED
    BY <2>4, <2>5, <2>6 DEF OneLate
<1>2. ClosingFirst'
  <2>1. Closes(batch)' # {} => Closes(batch) # {}
    BY <1>0, TailPlaces DEF Closes
  <2>2. Head(batch).kind = "close" => Closes(batch) # {}
    BY <1>0, TailPlaces
  <2> QED
    BY <2>1, <2>2 DEF LateInv, ClosingFirst, Closes
<1> QED
  BY <1>1, <1>2 DEF LateInv

(* A task is posted: by a thread that passed the test of the flags, or by  *)
(* one that has set them, or one that toggles.                             *)
LEMMA PostStep ==
  ASSUME TypeOK, LateInv, UNCHANGED <<batch, flags, at, phase>>,
         NEW t \in Threads, NEW kind \in IO \cup Toggles \cup {"close"},
         taskq' = Append(taskq, [kind |-> kind, by |-> t]),
         kind \in IO => pc[t] \in IO /\ pc' = [pc EXCEPT ![t] = "idle"],
         kind \notin IO => \A u \in Threads : pc'[u] \in IO => pc[u] \in IO,
         \A u \in Threads : pc'[u] = "close_post" => pc[u] = "close_post",
         kind = "close" => closing
  PROVE  LateInv'
<1> DEFINE e == [kind |-> kind, by |-> t]
           n == Len(taskq) + 1
<1>1. e \in Tasks /\ taskq \in Seq(Tasks) /\ e.by = t /\ e.kind = kind
  BY DEF TypeOK, Tasks
<1>2. /\ \A u : IOBy(taskq, u)' =
             IOBy(taskq, u) \cup IF t = u /\ kind \in IO THEN {n} ELSE {}
      /\ Closes(taskq)' = Closes(taskq) \cup IF kind = "close" THEN {n} ELSE {}
      /\ \A u : IOBy(taskq, u) \in SUBSET (1 .. Len(taskq))
      /\ Closes(taskq) \in SUBSET (1 .. Len(taskq))
  <2>1. /\ \A u : IOBy(Append(taskq, e), u) =
               IOBy(taskq, u) \cup IF e.by = u /\ e.kind \in IO THEN {n} ELSE {}
        /\ Closes(Append(taskq, e)) =
               Closes(taskq) \cup IF e.kind = "close" THEN {n} ELSE {}
        /\ \A u : IOBy(taskq, u) \in SUBSET (1 .. Len(taskq))
        /\ Closes(taskq) \in SUBSET (1 .. Len(taskq))
    <3> HIDE DEF e
    <3> QED
      BY <1>1, AppendPlaces
  <2>2. (\A u : IOBy(taskq, u)' = IOBy(Append(taskq, e), u))
        /\ Closes(taskq)' = Closes(Append(taskq, e))
    BY DEF IOBy, Closes
  <2> QED
    BY <1>1, <2>1, <2>2
<1>3. Len(taskq) \in Nat
  BY <1>1
<1> HIDE DEF e
<1>4. /\ \A u : IOBy(batch, u)' = IOBy(batch, u)
      /\ Closes(batch)' = Closes(batch)
      /\ closed' <=> closed
      /\ closing' <=> closing
  BY DEF IOBy, Closes, closed, closing
<1>5. ASSUME NEW u \in Threads PROVE OneLate(u)'
  <2>1. OneLate(u)
    BY DEF LateInv
  <2>2. CASE t = u /\ kind \in IO
    <3>1. pc[u] \in IO /\ pc'[u] \notin IO
      BY <2>2 DEF TypeOK, IO
    <3>2. IOBy(taskq, u)' = IOBy(taskq, u) \cup {n}
      BY <1>2, <2>2
    <3>3. Closes(taskq)' = Closes(taskq)
      BY <1>2, <2>2 DEF IO
    <3>4. ASSUME NEW A, AtMostOne(A, IOBy(taskq, u), TRUE)
          PROVE  AtMostOne(A, IOBy(taskq, u)', FALSE)
      BY <3>2, <3>4 DEF AtMostOne
    <3>5. ASSUME NEW p \in Closes(taskq), AtMostOne({}, After(IOBy(taskq, u), p), TRUE)
          PROVE  AtMostOne({}, After(IOBy(taskq, u)', p), FALSE)
      BY <3>2, <3>5 DEF AtMostOne, After
    <3>6. ASSUME NEW p \in Closes(batch)'
          PROVE  AtMostOne(After(IOBy(batch, u), p), IOBy(taskq, u), pc[u] \in IO)'
      <4>1. AtMostOne(After(IOBy(batch, u), p), IOBy(taskq, u), TRUE)
        BY <2>1, <3>1, <1>4 DEF OneLate, AtMostOne
      <4>2. After(IOBy(batch, u)', p) = After(IOBy(batch, u), p)
        BY <1>4
      <4> QED
        BY <4>1, <4>2, <3>1, <3>4 DEF AtMostOne, After
    <3>7. ASSUME NEW p \in Closes(taskq)'
          PROVE  AtMostOne({}, After(IOBy(taskq, u), p), pc[u] \in IO)'
      <4>1. AtMostOne({}, After(IOBy(taskq, u), p), TRUE)
        BY <2>1, <3>1, <3>3 DEF OneLate, AtMostOne
      <4> QED
        BY <4>1, <3>1, <3>3, <3>5 DEF AtMostOne, After
    <3>8. ASSUME closed'
          PROVE  AtMostOne(IOBy(batch, u), IOBy(taskq, u), pc[u] \in IO)'
      <4>1. AtMostOne(IOBy(batch, u), IOBy(taskq, u), TRUE)
        BY <2>1, <3>1, <3>8, <1>4 DEF OneLate, AtMostOne
      <4> QED
        BY <4>1, <3>1, <3>4, <1>4 DEF AtMostOne
    <3> QED
      BY <3>6, <3>7, <3>8 DEF OneLate
  <2>3. CASE ~(t = u /\ kind \in IO)
    <3>1. IOBy(taskq, u)' = IOBy(taskq, u) /\ (pc'[u] \in IO => pc[u] \in IO)
      BY <1>2, <2>3 DEF TypeOK
    <3>2. ASSUME NEW p \in Closes(taskq)'
          PROVE  AtMostOne({}, After(IOBy(taskq, u), p), pc[u] \in IO)'
      <4>1. CASE p \in Closes(taskq)
        BY <2>1, <3>1, <4>1 DEF OneLate, AtMostOne, After
      <4>2. CASE p = n
        <5>1. After(IOBy(taskq, u)', p) = {}
          BY <4>2, <3>1, <1>2, <1>3 DEF After
        <5> QED
          BY <5>1 DEF AtMostOne
      <4> QED
        BY <4>1, <4>2, <1>2
    <3>3. ASSUME NEW A, AtMostOne(A, IOBy(taskq, u), pc[u] \in IO)
          PROVE  AtMostOne(A, IOBy(taskq, u)', pc'[u] \in IO)
      BY <3>1, <3>3 DEF AtMostOne
    <3> QED
      BY <2>1, <3>2, <3>3, <1>4 DEF OneLate
  <2> QED
    BY <2>2, <2>3
<1>6. ClosingFirst'
  BY <1>2, <1>4 DEF LateInv, ClosingFirst
<1>7. BatchTaken'
  BY DEF LateInv, BatchTaken
<1> QED
  BY <1>5, <1>6, <1>7 DEF LateInv

(* The queue becomes the batch.                                            *)
LEMMA SwapStep == TypeOK /\ LateInv /\ SwapTasks => LateInv'
<1> SUFFICES ASSUME TypeOK, LateInv, SwapTasks PROVE LateInv'
  OBVIOUS
<1>1. batch = <<>> /\ batch' = taskq /\ taskq' = <<>> /\ UNCHANGED <<flags, pc>>
  BY DEF SwapTasks, LateInv, BatchTaken
<1>2. /\ \A t : IOBy(batch, t)' = IOBy(taskq, t) /\ IOBy(taskq, t)' = {}
                /\ IOBy(batch, t) = {}
      /\ Closes(batch)' = Closes(taskq) /\ Closes(taskq)' = {}
      /\ closed' <=> closed
      /\ closing' <=> closing
  BY <1>1, EmptyPlaces DEF IOBy, Closes, closed, closing
<1>3. ASSUME NEW t \in Threads PROVE OneLate(t)'
  <2>1. OneLate(t)
    BY DEF LateInv
  <2> QED
    BY <1>1, <1>2, <2>1 DEF OneLate, AtMostOne
<1>4. ClosingFirst'
  BY <1>1, <1>2 DEF LateInv, ClosingFirst
<1>5. BatchTaken'
  BY DEF SwapTasks, BatchTaken
<1> QED
  BY <1>3, <1>4, <1>5 DEF LateInv

LEMMA LateStep == TypeOK /\ LateInv /\ [Next]_vars => LateInv'
<1> SUFFICES ASSUME TypeOK, LateInv, [Next]_vars PROVE LateInv'
  OBVIOUS
<1> USE DEF loopVars, eventVars, histVars
<1>1. ASSUME NEW t \in Threads, NEW kind \in IO, Accept(t, kind) PROVE LateInv'
  <2>1. Closes(batch) = {} /\ Closes(taskq) = {} /\ ~closed
        /\ \A u \in Threads : pc[u] # "close_post"
    BY <1>1 DEF Accept, LateInv, ClosingFirst
  <2>2. UNCHANGED <<flags, taskq, batch, at, phase>>
    BY <1>1 DEF Accept
  <2>3. Closes(batch)' = {} /\ Closes(taskq)' = {} /\ ~closed'
    BY <2>1, <2>2 DEF Closes, closed
  <2>4. \A u \in Threads : pc'[u] # "close_post"
    BY <1>1, <2>1 DEF Accept, Goto, TypeOK, IO
  <2> QED
    BY <2>2, <2>3, <2>4 DEF LateInv, OneLate, ClosingFirst, BatchTaken
<1>2. ASSUME NEW t \in Threads, NEW kind \in Toggles, Toggle(t, kind) PROVE LateInv'
  BY <1>2, PostStep DEF Toggle, Post, Toggles, IO
<1>3. ASSUME NEW t \in Threads, CallClose(t) \/ ForceShutdown(t) PROVE LateInv'
  <2>1. /\ UNCHANGED <<flags, taskq, batch, phase>>
        /\ \A u \in Threads : pc'[u] = pc[u] \/ pc'[u] = "close_set"
        /\ at' = at \/ at' = "aborted"
    BY <1>3 DEF CallClose, ForceShutdown, Goto, TypeOK
  <2> QED
    BY <2>1, QuietStep DEF closed, closing, IO, LateInv, BatchTaken
<1>4. ASSUME NEW t \in Threads, PostIO(t) PROVE LateInv'
  <2>1. pc[t] \in IO /\ pc' = [pc EXCEPT ![t] = "idle"]
        /\ UNCHANGED <<batch, flags, at, phase>>
    BY <1>4 DEF PostIO, Goto
  <2>2. \A u \in Threads : pc'[u] = pc[u] \/ pc'[u] = "idle"
    BY <2>1 DEF TypeOK
  <2>3. CASE Post(t, pc[t])
    BY <2>1, <2>2, <2>3, PostStep DEF Post, IO
  <2>4. CASE UNCHANGED taskq
    BY <2>1, <2>2, <2>4, QuietStep DEF closed, closing, IO, LateInv, BatchTaken
  <2> QED
    BY <1>4, <2>3, <2>4 DEF PostIO
<1>5. ASSUME NEW t \in Threads, SetClosing(t) PROVE LateInv'
  <2>1. /\ UNCHANGED <<taskq, batch, at, phase>>
        /\ flags' = flags \cup {"closing"}
        /\ \A u \in Threads : pc'[u] = pc[u] \/ pc'[u] = "close_post"
    BY <1>5 DEF SetClosing, Goto, TypeOK
  <2> QED
    BY <2>1, QuietStep DEF closed, closing, IO, LateInv, BatchTaken
<1>6. ASSUME NEW t \in Threads, PostClose(t) PROVE LateInv'
  <2>1. /\ UNCHANGED <<batch, flags, at, phase>>
        /\ taskq' = Append(taskq, [kind |-> "close", by |-> t])
        /\ \A u \in Threads : pc'[u] = pc[u] \/ pc'[u] = "idle"
        /\ pc[t] = "close_post"
    BY <1>6 DEF PostClose, Post, Goto, TypeOK
  <2>2. closing
    BY <2>1 DEF LateInv, ClosingFirst
  <2> QED
    BY <2>1, <2>2, PostStep DEF IO
<1>7. CASE SwapTasks
  BY <1>7, SwapStep
<1>8. CASE CloseTask
  <2>1. /\ batch # <<>> /\ batch' = Tail(batch) /\ Head(batch).kind = "close"
        /\ UNCHANGED <<taskq, pc, phase>> /\ at = "tasks"
        /\ flags \in SUBSET flags'
        /\ at' \in {"tasks", "close_handler"}
    BY <1>8 DEF CloseTask, NextTask
  <2>2. BatchTaken'
    BY <2>1 DEF LateInv, BatchTaken
  <2> QED
    BY <2>1, <2>2, TakeStep DEF closing
<1>9. CASE ToggleTask \/ IOTask
  <2>1. /\ batch # <<>> /\ batch' = Tail(batch)
        /\ UNCHANGED <<taskq, pc, phase, flags>> /\ at = "tasks"
        /\ at' \in {"tasks", "aborted", "on_read", "on_write"}
    BY <1>9 DEF ToggleTask, IOTask, NextTask
  <2>2. BatchTaken'
    BY <2>1 DEF LateInv, BatchTaken
  <2> QED
    BY <2>1, <2>2, TakeStep DEF closing, closed
<1>10. CASE CloseHandlerReturns \/ DanglingTask \/ TasksDone \/ Wait \/ Dispatch
            \/ StreamEnds \/ StreamCalls \/ HandlerReturns
  <2>1. UNCHANGED <<taskq, batch, pc>> /\ (closed' <=> closed) /\ (closing => closing')
    BY <1>10 DEF CloseHandlerReturns, DanglingTask, TasksDone, Wait, Dispatch,
       StreamEnds, StreamCalls, HandlerReturns, closed, closing
  <2>2. BatchTaken'
    BY <1>10 DEF CloseHandlerReturns, DanglingTask, TasksDone, Wait, Dispatch,
       StreamEnds, StreamCalls, HandlerReturns, LateInv, BatchTaken, TypeOK
  <2> QED
    BY <2>1, <2>2, QuietStep
<1>11. CASE UNCHANGED vars
  BY <1>11, QuietStep DEF vars, closed, closing, LateInv, BatchTaken
<1> QED
  BY <1>1, <1>2, <1>3, <1>4, <1>5, <1>6, <1>7, <1>8, <1>9, <1>10, <1>11
     DEF Next, LoopStep, Call, CallStep

LEMMA SmallSets ==
  ASSUME NEW A, \A i, j \in A : i = j
  PROVE  IF A = {} THEN Cardinality(A) = 0 ELSE Cardinality(A) = 1
<1>1. CASE A = {}
  BY <1>1, FS_EmptySet
<1>2. CASE A # {}
  <2>1. PICK i : A = {i}
    BY <1>2
  <2> QED
    BY <2>1, FS_Singleton
<1> QED
  BY <1>1, <1>2

(* Whatever is called by however many threads, a closed session has one    *)
(* more read or write task to expect of each of them, and not of one that  *)
(* was outside of a call when the flags were set: the bound within which   *)
(* tasks may find their session closed or destroyed.                       *)
THEOREM FewLateTasks == Spec => []LateTasksBounded
<1>1. Init => LateInv
  <2> SUFFICES ASSUME Init PROVE LateInv
    OBVIOUS
  <2>1. Closes(batch) = {} /\ Closes(taskq) = {} /\ ~closed
        /\ (\A t \in Threads : pc[t] = "idle") /\ BatchTaken
    BY EmptyPlaces DEF Init, closed, BatchTaken
  <2> QED
    BY <2>1 DEF LateInv, OneLate, ClosingFirst
<1>2. LateInv => LateTasksBounded
  <2> SUFFICES ASSUME LateInv, closed, NEW t \in Threads PROVE Late(t) <= 1
    BY DEF LateTasksBounded
  <2> DEFINE A == IOBy(batch, t)
             B == IOBy(taskq, t)
  <2>1. AtMostOne(A, B, pc[t] \in IO)
    BY DEF LateInv, OneLate
  <2>2. Late(t) = Cardinality(A) + Cardinality(B) + IF pc[t] \in IO THEN 1 ELSE 0
    BY DEF Late, IOBy
  <2> HIDE DEF A, B
  <2>3. /\ IF A = {} THEN Cardinality(A) = 0 ELSE Cardinality(A) = 1
        /\ IF B = {} THEN Cardinality(B) = 0 ELSE Cardinality(B) = 1
    BY <2>1, SmallSets DEF AtMostOne
  <2> QED
    BY <2>1, <2>2, <2>3 DEF AtMostOne
<1> QED
  BY <1>1, <1>2, LateStep, Typing, PTL DEF Spec

=============================================================================
