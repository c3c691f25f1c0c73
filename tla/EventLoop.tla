------------------------------ MODULE EventLoop ------------------------------
(***************************************************************************)
(* event_loop (detail/core/event/event_loop.cpp) with the parts of the     *)
(* epoll reactor and of the stop barrier it works with: the loop thread    *)
(* that executes run(), and client threads that call run_in_loop(),        *)
(* wakeup() and stop() concurrently.  Each atomic load or store, each      *)
(* critical section and each system call is a step of its own; pc says     *)
(* where in the code every thread is.                                      *)
(*                                                                         *)
(* I/O events and timers are abstracted to "a handler of the loop runs":   *)
(* what a handler does to the loop (post tasks, call stop) is modelled.    *)
(***************************************************************************)
EXTENDS Naturals, Sequences, Functions

CONSTANTS
  LoopThread,     \* the thread that calls run()
  Clients,        \* the other threads
  Stoppers,       \* the clients that may call stop()
  HandlersPost,   \* may tasks and event handlers call run_in_loop()?
  HandlersStop,   \* may tasks and event handlers call stop()?
  WaitMayThrow,   \* may epoll_wait() fail with an error other than EINTR?
  MaxTasks,       \* bound: tasks posted in a behaviour
  MaxEvents,      \* bound: I/O events one epoll_wait() reports
  MaxRuns         \* bound: calls of run()

ASSUME EventLoopAssumption ==
  /\ LoopThread \notin Clients
  /\ Stoppers \subseteq Clients
  /\ HandlersPost \in BOOLEAN
  /\ HandlersStop \in BOOLEAN
  /\ WaitMayThrow \in BOOLEAN
  /\ MaxTasks \in Nat
  /\ MaxEvents \in Nat
  /\ MaxRuns \in Nat

VARIABLES
  looping,    \* looping_
  stop,       \* stop_
  taskq,      \* taskq_: tasks are numbered in the order they are pushed
  batch,      \* the local deque of process_tasks(), less the started tasks
  waker,      \* the eventfd counter is not zero
  edge,       \* the eventfd is on the ready list of the (edge-triggered) epoll
  inited,     \* stop_barrier_.inited_
  waiting,    \* the threads blocked in pthread_barrier_wait()
  pc,         \* pc[t]: the statement thread t executes next
  posting,    \* posting[c]: the task client c is in run_in_loop() for, or 0
  phase,      \* is the running handler a "task" or an "event" handler
  events,     \* events of actived_events_ whose handler has not started
  threw,      \* is_throw of run(), when the loop is left
  runs,       \* calls of run() so far
  next,       \* history: the number of the next task
  nested,     \* history: tasks posted by a task, on the loop thread
  ran,        \* history: the last task that started, 0 before any
  late        \* history: handlers that started after stop_ was set

queueVars == <<taskq, next, nested>>
wakerVars == <<waker, edge>>
barrierVars == <<inited, waiting>>
localVars == <<batch, phase, events, threw, runs>>
historyVars == <<ran, late>>
vars == <<looping, stop, queueVars, wakerVars, barrierVars, pc, posting,
          localVars, historyVars>>

Threads == Clients \cup {LoopThread}

ClientLabels == {"wakeup", "wakeup_write", "stop_wakeup", "stop_write"}

LoopLabels ==
  {"reinit", "while", "swap", "tasks", "task_check", "before_wait", "wait",
   "on_wakeup", "before_events", "events", "event_check", "handler", "leave",
   "stop_unless_destroyed", "stop_destroy",
   "fail_unless_destroyed", "fail_destroy"}

SharedLabels ==
  {"idle", "stop_set", "barrier", "barrier_enter", "barrier_blocked",
   "barrier_destroy", "stop_clear"}

Labels == ClientLabels \cup LoopLabels \cup SharedLabels

Tasks == 1 .. MaxTasks

TypeOK ==
  /\ looping \in BOOLEAN
  /\ stop \in BOOLEAN
  /\ taskq \in Seq(Tasks)
  /\ batch \in Seq(Tasks)
  /\ waker \in BOOLEAN
  /\ edge \in BOOLEAN
  /\ inited \in BOOLEAN
  /\ waiting \in SUBSET Threads
  /\ pc \in [Threads -> Labels]
  /\ \A c \in Clients : pc[c] \in ClientLabels \cup SharedLabels
  /\ pc[LoopThread] \in LoopLabels \cup SharedLabels
  /\ posting \in [Clients -> 0 .. MaxTasks]
  /\ phase \in {"task", "event"}
  /\ events \in 0 .. MaxEvents
  /\ threw \in BOOLEAN
  /\ runs \in 0 .. MaxRuns
  /\ next \in 1 .. MaxTasks + 1
  /\ nested \in SUBSET Tasks
  /\ ran \in 0 .. MaxTasks
  /\ late \in Nat

Init ==
  /\ looping = FALSE
  /\ stop = FALSE
  /\ taskq = <<>>
  /\ batch = <<>>
  /\ waker = FALSE
  /\ edge = FALSE
  /\ inited = TRUE
  /\ waiting = {}
  /\ pc = [t \in Threads |-> "idle"]
  /\ posting = [c \in Clients |-> 0]
  /\ phase = "task"
  /\ events = 0
  /\ threw = FALSE
  /\ runs = 0
  /\ next = 1
  /\ nested = {}
  /\ ran = 0
  /\ late = 0

(* Thread t goes on at label l.                                            *)
Goto(t, l) == pc' = [pc EXCEPT ![t] = l]

(* taskq_.push_back(t), under taskq_mutex_.                                *)
Push ==
  /\ next <= MaxTasks
  /\ taskq' = Append(taskq, next)
  /\ next' = next + 1

-----------------------------------------------------------------------------
(* The stop barrier (posix_barrier.h), initialised for two threads.        *)

(* Where thread t goes on when it is done with the barrier: run() returns, *)
(* stop() clears the queues.                                               *)
AfterBarrier(t) == IF t = LoopThread THEN "idle" ELSE "stop_clear"

(* wait() returns false at once if the barrier is destroyed.               *)
BarrierWait(t) ==
  /\ pc[t] = "barrier"
  /\ Goto(t, IF inited THEN "barrier_enter" ELSE AfterBarrier(t))
  /\ UNCHANGED <<looping, stop, queueVars, wakerVars, barrierVars, posting,
                 localVars, historyVars>>

(* Faulty variant: the barrier is initialised for one thread.              *)
BarrierBlockOfOne(t) ==
  /\ pc[t] = "barrier_enter"
  /\ waiting = {}
  /\ waiting' = {}
  /\ Goto(t, "barrier_destroy")
  /\ UNCHANGED <<looping, stop, queueVars, wakerVars, inited, posting,
                 localVars, historyVars>>

(* pthread_barrier_wait(): the first thread blocks, the second releases    *)
(* both; one of the two is told that it is the serial thread.              *)
BarrierBlock(t) ==
  /\ pc[t] = "barrier_enter"
  /\ waiting = {}
  /\ waiting' = {t}
  /\ Goto(t, "barrier_blocked")
  /\ UNCHANGED <<looping, stop, queueVars, wakerVars, inited, posting,
                 localVars, historyVars>>

BarrierRelease(t) ==
  /\ pc[t] = "barrier_enter"
  /\ \E u \in waiting : \E serial \in {t, u} :
       pc' = [w \in Threads |->
                IF w \notin {t, u} THEN pc[w]
                ELSE IF w = serial THEN "barrier_destroy" ELSE AfterBarrier(w)]
  /\ waiting' = {}
  /\ UNCHANGED <<looping, stop, queueVars, wakerVars, inited, posting,
                 localVars, historyVars>>

(* if (!destroyed()) destroy(), the check.                                 *)
UnlessDestroyed(t, here, destroy, after) ==
  /\ pc[t] = here
  /\ Goto(t, IF inited THEN destroy ELSE after)
  /\ UNCHANGED <<looping, stop, queueVars, wakerVars, barrierVars, posting,
                 localVars, historyVars>>

(* destroy(): pthread_barrier_destroy() does not return while a thread is  *)
(* still blocked in the barrier.                                           *)
BarrierDestroy(t, here, after) ==
  /\ pc[t] = here
  /\ waiting = {}
  /\ inited' = FALSE
  /\ Goto(t, after)
  /\ UNCHANGED <<looping, stop, queueVars, wakerVars, waiting, posting,
                 localVars, historyVars>>

Barrier(t) ==
  \/ BarrierWait(t)
  \/ BarrierBlock(t)
  \/ BarrierRelease(t)
  \/ BarrierDestroy(t, "barrier_destroy", AfterBarrier(t))

-----------------------------------------------------------------------------
(* Calls of the clients.                                                   *)

(* Faulty variant: wakeup() only if the queue was empty.                   *)
RunInLoopWakeIfEmpty(c) ==
  /\ pc[c] = "idle"
  /\ Push
  /\ posting' = [posting EXCEPT ![c] = IF taskq = <<>> THEN next ELSE 0]
  /\ Goto(c, IF taskq = <<>> THEN "wakeup" ELSE "idle")
  /\ UNCHANGED <<looping, stop, nested, wakerVars, barrierVars, localVars,
                 historyVars>>

(* Faulty variant: the wakeup() is forgotten.                              *)
RunInLoopNoWakeup(c) ==
  /\ pc[c] = "idle"
  /\ Push
  /\ UNCHANGED <<looping, stop, nested, wakerVars, barrierVars, pc, posting,
                 localVars, historyVars>>

(* run_in_loop(): push under the mutex, then wakeup() without it.          *)
RunInLoop(c) ==
  /\ pc[c] = "idle"
  /\ Push
  /\ posting' = [posting EXCEPT ![c] = next]
  /\ Goto(c, "wakeup")
  /\ UNCHANGED <<looping, stop, nested, wakerVars, barrierVars, localVars,
                 historyVars>>

(* wakeup() called by itself, or by run_in_loop() with an empty function.  *)
CallWakeup(c) ==
  /\ pc[c] = "idle"
  /\ Goto(c, "wakeup")
  /\ UNCHANGED <<looping, stop, queueVars, wakerVars, barrierVars, posting,
                 localVars, historyVars>>

(* wakeup() of a thread that is not the loop thread: test looping_ ...     *)
TestLooping(c, here, write, after) ==
  /\ pc[c] = here
  /\ Goto(c, IF looping THEN write ELSE after)
  /\ posting' = [posting EXCEPT ![c] = IF looping THEN @ ELSE 0]
  /\ UNCHANGED <<looping, stop, queueVars, wakerVars, barrierVars,
                 localVars, historyVars>>

(* ... and write to the eventfd, which puts it on epoll's ready list.      *)
WriteWaker(c, here, after) ==
  /\ pc[c] = here
  /\ waker' = TRUE
  /\ edge' = TRUE
  /\ Goto(c, after)
  /\ posting' = [posting EXCEPT ![c] = 0]
  /\ UNCHANGED <<looping, stop, queueVars, barrierVars, localVars,
                 historyVars>>

(* stop() has no effect unless looping_.                                   *)
CallStop(c) ==
  /\ c \in Stoppers
  /\ pc[c] = "idle"
  /\ looping
  /\ Goto(c, "stop_set")
  /\ UNCHANGED <<looping, stop, queueVars, wakerVars, barrierVars, posting,
                 localVars, historyVars>>

(* Faulty variant: a client's stop() only sets the flag, like that of the  *)
(* loop thread.                                                            *)
SetStopOnly(t) ==
  /\ pc[t] = "stop_set"
  /\ stop' = TRUE
  /\ Goto(t, IF t = LoopThread THEN "stop_unless_destroyed" ELSE "stop_clear")
  /\ UNCHANGED <<looping, queueVars, wakerVars, barrierVars, posting,
                 localVars, historyVars>>

(* stop_ = true, by a client or by a handler on the loop thread.           *)
SetStop(t) ==
  /\ pc[t] = "stop_set"
  /\ stop' = TRUE
  /\ Goto(t, IF t = LoopThread THEN "stop_unless_destroyed" ELSE "stop_wakeup")
  /\ UNCHANGED <<looping, queueVars, wakerVars, barrierVars, posting,
                 localVars, historyVars>>

(* The last part of stop(): taskq_.clear() under the mutex.                *)
ClearTasks(t) ==
  /\ pc[t] = "stop_clear"
  /\ taskq' = <<>>
  /\ Goto(t, IF t = LoopThread THEN "handler" ELSE "idle")
  /\ UNCHANGED <<looping, stop, next, nested, wakerVars, barrierVars, posting,
                 localVars, historyVars>>

(* A call that client c has begun goes on.                                 *)
ClientStep(c) ==
  \/ TestLooping(c, "wakeup", "wakeup_write", "idle")
  \/ WriteWaker(c, "wakeup_write", "idle")
  \/ SetStop(c)
  \/ TestLooping(c, "stop_wakeup", "stop_write", "barrier")
  \/ WriteWaker(c, "stop_write", "barrier")
  \/ Barrier(c)
  \/ ClearTasks(c)

ClientCall(c) == RunInLoop(c) \/ CallWakeup(c) \/ CallStop(c)

-----------------------------------------------------------------------------
(* run() on the loop thread.                                               *)

RunBegin ==
  /\ pc[LoopThread] = "idle"
  /\ runs < MaxRuns
  /\ runs' = runs + 1
  /\ threw' = FALSE
  /\ looping' = TRUE
  /\ Goto(LoopThread, "reinit")
  /\ UNCHANGED <<stop, queueVars, wakerVars, barrierVars, posting, batch,
                 phase, events, historyVars>>

(* if (stop_barrier_.destroyed()) stop_barrier_.reinit(2)                  *)
Reinit ==
  /\ pc[LoopThread] = "reinit"
  /\ inited' = TRUE
  /\ waiting' = IF inited THEN waiting ELSE {}
  /\ Goto(LoopThread, "while")
  /\ UNCHANGED <<looping, stop, queueVars, wakerVars, posting, localVars,
                 historyVars>>

(* The tests of stop_ in run(): the loop is left if it is set.             *)
TestStop(here, go_on) ==
  /\ pc[LoopThread] = here
  /\ Goto(LoopThread, IF stop THEN "leave" ELSE go_on)
  /\ UNCHANGED <<looping, stop, queueVars, wakerVars, barrierVars, posting,
                 localVars, historyVars>>

(* process_tasks(): swap the queue for an empty one under the mutex ...    *)
SwapTasks ==
  /\ pc[LoopThread] = "swap"
  /\ batch' = taskq
  /\ taskq' = <<>>
  /\ Goto(LoopThread, "tasks")
  /\ UNCHANGED <<looping, stop, next, nested, wakerVars, barrierVars, posting,
                 phase, events, threw, runs, historyVars>>

CountLate == late' = IF stop THEN late + 1 ELSE late

(* Faulty variant: the batch is run from its end.                          *)
StartTaskFromEnd ==
  /\ pc[LoopThread] = "tasks"
  /\ batch # <<>>
  /\ ran' = batch[Len(batch)]
  /\ batch' = SubSeq(batch, 1, Len(batch) - 1)
  /\ phase' = "task"
  /\ CountLate
  /\ Goto(LoopThread, "handler")
  /\ UNCHANGED <<looping, stop, queueVars, wakerVars, barrierVars, posting,
                 events, threw, runs>>

(* ... and run the tasks one after the other ...                           *)
StartTask ==
  /\ pc[LoopThread] = "tasks"
  /\ batch # <<>>
  /\ ran' = Head(batch)
  /\ batch' = Tail(batch)
  /\ phase' = "task"
  /\ CountLate
  /\ Goto(LoopThread, "handler")
  /\ UNCHANGED <<looping, stop, queueVars, wakerVars, barrierVars, posting,
                 events, threw, runs>>

(* Faulty variant: stop_ is not tested between two tasks.                  *)
TaskCheckMissing ==
  /\ pc[LoopThread] = "task_check"
  /\ Goto(LoopThread, "tasks")
  /\ UNCHANGED <<looping, stop, queueVars, wakerVars, barrierVars, posting,
                 localVars, historyVars>>

(* ... until stop_ is set (the tasks that are left die with the local      *)
(* deque) or the batch is empty.                                           *)
TaskCheck ==
  /\ pc[LoopThread] = "task_check"
  /\ batch' = IF stop THEN <<>> ELSE batch
  /\ Goto(LoopThread, IF stop THEN "before_wait" ELSE "tasks")
  /\ UNCHANGED <<looping, stop, queueVars, wakerVars, barrierVars, posting,
                 phase, events, threw, runs, historyVars>>

TasksDone ==
  /\ pc[LoopThread] = "tasks"
  /\ batch = <<>>
  /\ Goto(LoopThread, "before_wait")
  /\ UNCHANGED <<looping, stop, queueVars, wakerVars, barrierVars, posting,
                 localVars, historyVars>>

(* epoll_wait() returns the waker, and maybe other events.                 *)
WaitWoken ==
  /\ pc[LoopThread] = "wait"
  /\ waker /\ edge
  /\ edge' = FALSE
  /\ events' \in 0 .. MaxEvents
  /\ Goto(LoopThread, "on_wakeup")
  /\ UNCHANGED <<looping, stop, queueVars, waker, barrierVars, posting, batch,
                 phase, threw, runs, historyVars>>

(* Faulty variant: the eventfd is read whenever epoll_wait() returns.      *)
WaitOtherReads ==
  /\ pc[LoopThread] = "wait"
  /\ events' \in 0 .. MaxEvents
  /\ Goto(LoopThread, "on_wakeup")
  /\ UNCHANGED <<looping, stop, queueVars, wakerVars, barrierVars, posting,
                 batch, phase, threw, runs, historyVars>>

(* epoll_wait() returns other events only, or none: EINTR, or the delay of *)
(* 30 seconds has passed.                                                  *)
WaitOther ==
  /\ pc[LoopThread] = "wait"
  /\ events' \in 0 .. MaxEvents
  /\ Goto(LoopThread, "before_events")
  /\ UNCHANGED <<looping, stop, queueVars, wakerVars, barrierVars, posting,
                 batch, phase, threw, runs, historyVars>>

(* epoll_wait() fails and the exception ends the loop.                     *)
WaitThrows ==
  /\ pc[LoopThread] = "wait"
  /\ WaitMayThrow
  /\ threw' = TRUE
  /\ Goto(LoopThread, "leave")
  /\ UNCHANGED <<looping, stop, queueVars, wakerVars, barrierVars, posting,
                 batch, phase, events, runs, historyVars>>

(* on_wakeup(): read the eventfd, which resets its counter.  The eventfd   *)
(* is a blocking one: without a count the read would wait for a write.     *)
OnWakeup ==
  /\ pc[LoopThread] = "on_wakeup"
  /\ waker
  /\ waker' = FALSE
  /\ Goto(LoopThread, "before_events")
  /\ UNCHANGED <<looping, stop, queueVars, edge, barrierVars, posting,
                 localVars, historyVars>>

(* process_events(): run the handlers until none is left or stop_ is set.  *)
StartHandler ==
  /\ pc[LoopThread] = "events"
  /\ events > 0
  /\ events' = events - 1
  /\ phase' = "event"
  /\ CountLate
  /\ Goto(LoopThread, "handler")
  /\ UNCHANGED <<looping, stop, queueVars, wakerVars, barrierVars, posting,
                 batch, threw, runs, ran>>

EventCheck ==
  /\ pc[LoopThread] = "event_check"
  /\ events' = IF stop THEN 0 ELSE events
  /\ Goto(LoopThread, "events")
  /\ UNCHANGED <<looping, stop, queueVars, wakerVars, barrierVars, posting,
                 batch, phase, threw, runs, historyVars>>

EventsDone ==
  /\ pc[LoopThread] = "events"
  /\ events = 0
  /\ Goto(LoopThread, "while")
  /\ UNCHANGED <<looping, stop, queueVars, wakerVars, barrierVars, posting,
                 localVars, historyVars>>

(* A task or an event handler may post tasks: wakeup() does nothing when   *)
(* it is called on the loop thread.                                        *)
HandlerPost ==
  /\ pc[LoopThread] = "handler"
  /\ HandlersPost
  /\ Push
  /\ nested' = IF phase = "task" THEN nested \cup {next} ELSE nested
  /\ UNCHANGED <<looping, stop, wakerVars, barrierVars, pc, posting, localVars,
                 historyVars>>

HandlerStop ==
  /\ pc[LoopThread] = "handler"
  /\ HandlersStop
  /\ looping
  /\ Goto(LoopThread, "stop_set")
  /\ UNCHANGED <<looping, stop, queueVars, wakerVars, barrierVars, posting,
                 localVars, historyVars>>

(* Whatever a handler throws is caught, so it always returns to the loop.  *)
HandlerReturn ==
  /\ pc[LoopThread] = "handler"
  /\ Goto(LoopThread, IF phase = "task" THEN "task_check" ELSE "event_check")
  /\ UNCHANGED <<looping, stop, queueVars, wakerVars, barrierVars, posting,
                 localVars, historyVars>>

(* Faulty variant: run() does not wait at the barrier.                     *)
LeaveNoBarrier ==
  /\ pc[LoopThread] = "leave"
  /\ looping' = FALSE
  /\ Goto(LoopThread, "idle")
  /\ UNCHANGED <<stop, queueVars, wakerVars, barrierVars, posting, localVars,
                 historyVars>>

(* fail(): looping_ is reset first, then the barrier is waited for or,     *)
(* after an exception, destroyed.                                          *)
Leave ==
  /\ pc[LoopThread] = "leave"
  /\ looping' = FALSE
  /\ Goto(LoopThread, IF threw THEN "fail_unless_destroyed" ELSE "barrier")
  /\ UNCHANGED <<stop, queueVars, wakerVars, barrierVars, posting, localVars,
                 historyVars>>

(* The steps run() takes by itself once it was called.                     *)
LoopStep ==
  \/ Reinit
  \/ TestStop("while", "swap")
  \/ SwapTasks \/ StartTask \/ TaskCheck \/ TasksDone
  \/ TestStop("before_wait", "wait")
  \/ WaitWoken \/ OnWakeup
  \/ TestStop("before_events", "events")
  \/ StartHandler \/ EventCheck \/ EventsDone
  \/ Leave
  \/ SetStop(LoopThread)
  \/ UnlessDestroyed(LoopThread, "stop_unless_destroyed", "stop_destroy", "stop_clear")
  \/ BarrierDestroy(LoopThread, "stop_destroy", "stop_clear")
  \/ ClearTasks(LoopThread)
  \/ UnlessDestroyed(LoopThread, "fail_unless_destroyed", "fail_destroy", "idle")
  \/ BarrierDestroy(LoopThread, "fail_destroy", "idle")
  \/ Barrier(LoopThread)

(* The steps the environment and the handlers decide on.                   *)
LoopChoice == WaitOther \/ WaitThrows \/ HandlerPost \/ HandlerStop

Next ==
  \/ RunBegin
  \/ LoopStep
  \/ LoopChoice
  \/ HandlerReturn
  \/ \E c \in Clients : ClientCall(c) \/ ClientStep(c)

Spec == Init /\ [][Next]_vars

(* Fairness: the scheduler runs every thread that can run, run() is called *)
(* and handlers return.  Nothing is assumed of I/O events, of the 30-second*)
(* timeout or of the clients' decision to call anything.                   *)
Fairness ==
  /\ WF_vars(RunBegin)
  /\ WF_vars(LoopStep)
  /\ SF_vars(HandlerReturn)
  /\ \A c \in Clients : WF_vars(ClientStep(c))

FairSpec == Spec /\ Fairness

-----------------------------------------------------------------------------
(* Safety.                                                                 *)

(* Client c has pushed task t and its wakeup() is still to come.           *)
InFlight(t) == \E c \in Clients : posting[c] = t

(* No lost wakeup: when the loop thread is blocked in epoll_wait() and the *)
(* waker will not end the wait, the task queue holds only tasks whose      *)
(* client is about to write to the waker, and tasks posted by tasks of the *)
(* loop itself (run_in_loop() on the loop thread writes no wakeup).        *)
WakeupNotLost ==
  pc[LoopThread] = "wait" /\ ~(waker /\ edge)
    => \A t \in Range(taskq) : t \in nested \/ InFlight(t)

(* No lost stop: the loop thread never blocks in epoll_wait() with stop_   *)
(* set unless the waker will end the wait or a stop() is about to see to   *)
(* that.                                                                   *)
StopNotMissed ==
  pc[LoopThread] = "wait" /\ stop
    => \/ waker /\ edge
       \/ \E c \in Clients : pc[c] \in {"stop_wakeup", "stop_write"}

(* The read of the blocking eventfd in on_wakeup() always finds a count,   *)
(* so that the loop thread does not block there.                           *)
WakerReadReady == pc[LoopThread] = "on_wakeup" => waker

(* After stop_ is set the loop starts at most one more handler, whichever  *)
(* test of stop_ it was past.                                              *)
OneHandlerAfterStop == late <= 1

(* Why it is one: once a handler was started late, the loop thread is past *)
(* every statement from which it could reach another one without testing   *)
(* stop_, which is never reset.                                            *)
LateInv ==
  /\ late \in 0 .. 1
  /\ late = 1 =>
       /\ stop
       /\ pc[LoopThread] \notin {"swap", "tasks", "wait", "on_wakeup", "before_events"}
       /\ pc[LoopThread] = "events" => events = 0

(* stop() called by a client returns from the barrier only when the loop   *)
(* has been left: nothing of the loop runs any more and looping_ is false. *)
(* This is what the count of two gives when at most one client calls       *)
(* stop(), and no handler does.                                            *)
StopSynchronises ==
  \A c \in Clients :
    pc[c] \in {"barrier_destroy", "stop_clear"}
      => /\ pc[LoopThread] \in {"barrier_destroy", "idle"}
         /\ ~looping
         /\ batch = <<>>

(* Nobody is stuck in the handshake of stop() and run(): a client that is  *)
(* blocked in the barrier waits for a loop that has not been left, is not  *)
(* blocked itself and does not sleep without a wakeup; the loop thread     *)
(* waits there for a client that has not come yet but will; and who is to  *)
(* destroy the barrier finds nobody in it, for whom it would have to wait. *)
(* As StopSynchronises, this wants one client that calls stop().           *)
StopNotStuck ==
  /\ \A c \in Clients :
       pc[c] = "barrier_blocked"
         => /\ pc[LoopThread] \notin {"idle", "barrier_blocked"}
            /\ pc[LoopThread] = "wait" => waker /\ edge
  /\ pc[LoopThread] = "barrier_blocked"
       => \E c \in Clients :
            pc[c] \in {"stop_wakeup", "stop_write", "barrier", "barrier_enter"}
  /\ \A t \in Threads : pc[t] = "barrier_destroy" => waiting = {}

(* Wherever the loop thread may block outside the barrier it does so only  *)
(* while nobody wants it: it does not sleep in epoll_wait() over a task or *)
(* a stop of another thread until the timeout, and never in on_wakeup().   *)
SleepJustified == WakeupNotLost /\ StopNotMissed /\ WakerReadReady

-----------------------------------------------------------------------------
(* The inductive invariant behind SleepJustified.                          *)

(* A client that is in run_in_loop() is at its wakeup().                   *)
PostingAtWakeup ==
  \A c \in Clients : posting[c] # 0 => pc[c] \in {"wakeup", "wakeup_write"}

(* The threads blocked in the barrier are at that statement.               *)
WaitingBlocked == \A t \in waiting : pc[t] = "barrier_blocked"

(* Where run() is when looping_ is false.                                  *)
NotLooping ==
  ~looping => pc[LoopThread] \in
    {"idle", "barrier", "barrier_enter", "barrier_blocked", "barrier_destroy",
     "fail_unless_destroyed", "fail_destroy"}

(* The loop thread has swapped the queue and has not been in epoll_wait()  *)
(* since: only the waker makes it look at the queue again.                 *)
PastSwap ==
  \/ pc[LoopThread] \in {"tasks", "task_check", "before_wait", "wait"}
  \/ /\ phase = "task"
     /\ pc[LoopThread] \in {"handler", "stop_set", "stop_unless_destroyed",
                           "stop_destroy", "stop_clear"}

WakeupComes ==
  PastSwap /\ ~(waker /\ edge)
    => \A t \in Range(taskq) : t \in nested \/ InFlight(t)

WakeupInv ==
  /\ PostingAtWakeup
  /\ WaitingBlocked
  /\ NotLooping
  /\ WakeupComes
  /\ StopNotMissed
  /\ WakerReadReady

-----------------------------------------------------------------------------
(* The inductive invariant behind the refinement of TaskExecutor.          *)

(* The loop thread is in process_tasks(): only there may tasks that were   *)
(* taken from the queue be left.                                           *)
InBatch ==
  \/ pc[LoopThread] \in {"tasks", "task_check"}
  \/ /\ phase = "task"
     /\ pc[LoopThread] \in {"handler", "stop_set", "stop_unless_destroyed",
                           "stop_destroy", "stop_clear"}

(* The statements that a thread reaches only after stop_ was set.          *)
AfterSetStop ==
  {"stop_wakeup", "stop_write", "barrier", "barrier_enter", "barrier_blocked",
   "barrier_destroy", "stop_unless_destroyed", "stop_destroy", "stop_clear"}

ExecutorInv ==
  /\ batch # <<>> => InBatch
  /\ \A t \in Threads : pc[t] \in AfterSetStop => stop
  /\ pc[LoopThread] = "leave" => stop \/ threw

-----------------------------------------------------------------------------
(* The inductive invariant behind StopSynchronises and StopNotStuck, for   *)
(* one client that stops one run().                                        *)

AtBarrier == {"barrier", "barrier_enter", "barrier_blocked"}

(* Client s and the loop have not met at the barrier yet ...               *)
NotMet(s) ==
  /\ inited
  /\ \A t \in {s, LoopThread} : (pc[t] = "barrier_blocked") <=> (t \in waiting)
  /\ pc[s] \notin {"barrier_destroy", "stop_clear"}
  /\ pc[LoopThread] # "barrier_destroy"
  /\ pc[LoopThread] = "idle" => runs = 0
  /\ ~({s, LoopThread} \subseteq waiting)
  /\ pc[LoopThread] \in AtBarrier => ~looping
  /\ pc[LoopThread] \in AtBarrier \cup {"leave"} => stop
  /\ stop <=> pc[s] \in AtBarrier \cup {"stop_wakeup", "stop_write"}
  /\ runs = 0 =>
       /\ ~looping /\ pc[LoopThread] = "idle"
       /\ pc[s] \notin AtBarrier \cup {"stop_set", "stop_wakeup", "stop_write"}

(* ... or they have, and that was the end of run().                        *)
Met(s) ==
  /\ runs = 1
  /\ stop /\ ~looping
  /\ waiting = {}
  /\ pc[LoopThread] \in {"barrier_destroy", "idle"}
  /\ pc[s] \in {"idle", "wakeup", "wakeup_write", "barrier_destroy", "stop_clear"}

MeetInv(s) ==
  /\ NotMet(s) \/ Met(s)
  /\ runs \in 0 .. 1
  /\ waiting \subseteq {s, LoopThread}
  /\ ~threw
  /\ pc[LoopThread] \notin {"stop_set", "stop_unless_destroyed", "stop_destroy",
                           "stop_clear",
                           "fail_unless_destroyed", "fail_destroy"}
  /\ \A c \in Clients \ {s} : pc[c] \in {"idle", "wakeup", "wakeup_write"}

-----------------------------------------------------------------------------
(* Liveness.                                                               *)

(* A task that a client has posted to a running loop is started without    *)
(* the help of I/O events or of the timeout, unless the loop is stopped.   *)
PostedTaskRuns ==
  \A t \in Tasks :
    (looping /\ t \in Range(taskq) \ nested) ~> (ran >= t \/ stop)

(* stop() of a client returns.                                             *)
StopReturns == \A c \in Clients : (pc[c] = "stop_set") ~> (pc[c] = "idle")

(* run() returns after stop_ is set.                                       *)
RunReturns == stop ~> (pc[LoopThread] = "idle")

-----------------------------------------------------------------------------
(* The loop is a first-in, first-out executor.                             *)

Executor == INSTANCE TaskExecutor
  WITH queue <- batch \o taskq, last <- ran, stopped <- stop

ExecutorSpec == Executor!Spec

=============================================================================
