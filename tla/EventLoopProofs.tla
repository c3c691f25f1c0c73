--------------------------- MODULE EventLoopProofs ---------------------------
(***************************************************************************)
(* Theorems about EventLoop, for any number of clients, tasks, events and  *)
(* calls of run(), and for every choice of who posts, stops and fails.     *)
(***************************************************************************)
EXTENDS Service, SequenceTheorems, TLAPS

(* TypeOK is inductive by itself.                                          *)
LEMMA TypeStep == TypeOK /\ [Next]_vars => TypeOK'
<1> SUFFICES ASSUME TypeOK, [Next]_vars PROVE TypeOK'
  OBVIOUS
<1> USE EventLoopAssumption
    DEF TypeOK, EventLoopAssumption, Threads, Tasks, Labels, LoopLabels,
        ClientLabels, SharedLabels, Goto, AfterBarrier, queueVars, wakerVars,
        barrierVars, localVars, historyVars
<1>1. CASE RunBegin
  <2>1. runs' \in 0 .. MaxRuns
    BY <1>1 DEF RunBegin
  <2>2. pc' \in [Threads -> Labels] /\ pc'[LoopThread] = "reinit"
        /\ \A c \in Clients : pc'[c] = pc[c]
    BY <1>1 DEF RunBegin
  <2> QED
    BY <1>1, <2>1, <2>2 DEF RunBegin
<1>2. CASE Reinit
  BY <1>2 DEF Reinit
<1>3. ASSUME NEW here \in {"while", "before_wait", "before_events"},
             NEW go_on \in {"swap", "wait", "events"},
             TestStop(here, go_on)
      PROVE  TypeOK'
  BY <1>3 DEF TestStop
<1>4. CASE SwapTasks
  BY <1>4 DEF SwapTasks
<1>5. CASE StartTask
  BY <1>5 DEF StartTask, CountLate
<1>6. CASE TaskCheck
  <2>1. batch' = <<>> \/ batch' = batch
    BY <1>6, Zenon DEF TaskCheck
  <2>2. /\ pc' \in [Threads -> Labels]
        /\ pc'[LoopThread] \in LoopLabels
        /\ \A c \in Clients : pc'[c] = pc[c]
    BY <1>6 DEF TaskCheck
  <2>3. batch' \in Seq(Tasks)
    <3>1. <<>> \in Seq(Tasks)
      OBVIOUS
    <3> QED
      BY <2>1, <3>1
  <2> QED
    BY <1>6, <2>2, <2>3 DEF TaskCheck
<1>7. CASE TasksDone
  BY <1>7 DEF TasksDone
<1>8. CASE WaitWoken
  BY <1>8 DEF WaitWoken
<1>9. CASE WaitOther
  BY <1>9 DEF WaitOther
<1>10. CASE WaitThrows
  BY <1>10 DEF WaitThrows
<1>11. CASE OnWakeup
  BY <1>11 DEF OnWakeup
<1>12. CASE StartHandler
  BY <1>12 DEF StartHandler, CountLate
<1>13. CASE EventCheck
  BY <1>13 DEF EventCheck
<1>14. CASE EventsDone
  BY <1>14 DEF EventsDone
<1>15. CASE HandlerPost
  BY <1>15 DEF HandlerPost, Push
<1>16. CASE HandlerStop
  BY <1>16 DEF HandlerStop
<1>17. CASE HandlerReturn
  BY <1>17 DEF HandlerReturn
<1>18. CASE Leave
  BY <1>18 DEF Leave
<1>19. ASSUME NEW here \in {"stop_unless_destroyed", "fail_unless_destroyed"},
              NEW destroy \in {"stop_destroy", "fail_destroy"},
              NEW after \in {"stop_clear", "idle"},
              UnlessDestroyed(LoopThread, here, destroy, after)
       PROVE  TypeOK'
  BY <1>19 DEF UnlessDestroyed
<1>20. ASSUME NEW here \in {"stop_destroy", "fail_destroy"},
              NEW after \in {"stop_clear", "idle"},
              BarrierDestroy(LoopThread, here, after)
       PROVE  TypeOK'
  BY <1>20 DEF BarrierDestroy
<1>21. ASSUME NEW t \in Threads, Barrier(t) PROVE TypeOK'
  <2>1. CASE BarrierWait(t)
    BY <2>1 DEF BarrierWait
  <2>2. CASE BarrierBlock(t)
    BY <2>2 DEF BarrierBlock
  <2>3. CASE BarrierRelease(t)
    BY <2>3 DEF BarrierRelease
  <2>4. CASE BarrierDestroy(t, "barrier_destroy", AfterBarrier(t))
    BY <2>4 DEF BarrierDestroy
  <2> QED
    BY <1>21, <2>1, <2>2, <2>3, <2>4 DEF Barrier
<1>22. ASSUME NEW t \in Threads, SetStop(t) PROVE TypeOK'
  BY <1>22 DEF SetStop
<1>23. ASSUME NEW t \in Threads, ClearTasks(t) PROVE TypeOK'
  BY <1>23 DEF ClearTasks
<1>24. ASSUME NEW c \in Clients, RunInLoop(c) PROVE TypeOK'
  BY <1>24 DEF RunInLoop, Push
<1>25. ASSUME NEW c \in Clients, CallWakeup(c) \/ CallStop(c) PROVE TypeOK'
  <2>1. CASE CallWakeup(c)
    BY <2>1 DEF CallWakeup
  <2>2. CASE CallStop(c)
    BY <2>2 DEF CallStop
  <2> QED
    BY <1>25, <2>1, <2>2
<1>26. ASSUME NEW c \in Clients,
              NEW here \in {"wakeup", "stop_wakeup"},
              NEW write \in {"wakeup_write", "stop_write"},
              NEW after \in {"idle", "barrier"},
              TestLooping(c, here, write, after)
       PROVE  TypeOK'
  BY <1>26 DEF TestLooping
<1>27. ASSUME NEW c \in Clients,
              NEW here \in {"wakeup_write", "stop_write"},
              NEW after \in {"idle", "barrier"},
              WriteWaker(c, here, after)
       PROVE  TypeOK'
  BY <1>27 DEF WriteWaker
<1>28. CASE UNCHANGED vars
  BY <1>28 DEF vars
<1>29. CASE LoopStep
  BY <1>29, <1>2, <1>3, <1>4, <1>5, <1>6, <1>7, <1>8, <1>11, <1>12, <1>13,
     <1>14, <1>18, <1>19, <1>20, <1>21, <1>22, <1>23, Zenon DEF LoopStep
<1>30. ASSUME NEW c \in Clients, ClientCall(c) \/ ClientStep(c) PROVE TypeOK'
  BY <1>30, <1>21, <1>22, <1>23, <1>24, <1>25, <1>26, <1>27
     DEF ClientCall, ClientStep
<1> QED
  BY <1>1, <1>9, <1>10, <1>15, <1>16, <1>17, <1>28, <1>29, <1>30
     DEF Next, LoopChoice

(* The types of the variables, in particular that every thread is at a     *)
(* statement of its own code and that only posted tasks are queued.        *)
THEOREM Typing == Spec => []TypeOK
<1>1. Init => TypeOK
  <2> SUFFICES ASSUME Init PROVE TypeOK
    OBVIOUS
  <2>1. /\ pc \in [Threads -> Labels]
        /\ \A t \in Threads : pc[t] \in SharedLabels
    BY DEF Init, Labels, SharedLabels
  <2>2. next \in 1 .. MaxTasks + 1 /\ ran \in 0 .. MaxTasks
    BY EventLoopAssumption DEF Init, EventLoopAssumption
  <2>3. /\ posting \in [Clients -> 0 .. MaxTasks]
        /\ events \in 0 .. MaxEvents
        /\ runs \in 0 .. MaxRuns
    BY EventLoopAssumption DEF Init, EventLoopAssumption
  <2>4. taskq \in Seq(Tasks) /\ batch \in Seq(Tasks)
    BY DEF Init
  <2> QED
    BY <2>1, <2>2, <2>3, <2>4 DEF Init, TypeOK, Threads
<1> QED
  BY <1>1, TypeStep, PTL DEF Spec

-----------------------------------------------------------------------------
(* Lost wakeups.                                                           *)

LEMMA RangeAppend ==
  ASSUME NEW S, NEW s \in Seq(S), NEW e \in S
  PROVE  Range(Append(s, e)) = Range(s) \cup {e}
BY SMTT(30) DEF Range

LEMMA PushRange ==
  ASSUME TypeOK, Push
  PROVE  Range(taskq') = Range(taskq) \cup {next} /\ next \in Tasks
<1>1. next \in Tasks
  BY EventLoopAssumption DEF TypeOK, Push, Tasks, EventLoopAssumption
<1>2. taskq \in Seq(Tasks) /\ taskq' = Append(taskq, next)
  BY DEF TypeOK, Push
<1> QED
  BY <1>1, <1>2, RangeAppend

LEMMA RangeEmpty == Range(<<>>) = {}
BY DEF Range

(* The invariant that makes WakeupNotLost inductive is preserved.          *)
LEMMA WakeupStep == TypeOK /\ WakeupInv /\ [Next]_vars => WakeupInv'
<1> SUFFICES ASSUME TypeOK, WakeupInv, [Next]_vars PROVE WakeupInv'
  OBVIOUS
<1> USE EventLoopAssumption
    DEF TypeOK, WakeupInv, EventLoopAssumption, Threads, Tasks, Labels,
        LoopLabels, ClientLabels, SharedLabels, Goto, AfterBarrier, queueVars,
        wakerVars, barrierVars, localVars, historyVars, PostingAtWakeup,
        WaitingBlocked, NotLooping, PastSwap, WakeupComes, StopNotMissed,
        WakerReadReady, InFlight
<1>1. CASE RunBegin
  BY <1>1 DEF RunBegin
<1>2. CASE Reinit
  BY <1>2 DEF Reinit
<1>3. ASSUME NEW here \in {"while", "before_wait", "before_events"},
             NEW go_on \in {"swap", "wait", "events"},
             go_on = "wait" => here = "before_wait",
             TestStop(here, go_on)
      PROVE  WakeupInv'
  BY <1>3 DEF TestStop
<1>4. CASE SwapTasks
  BY <1>4, RangeEmpty DEF SwapTasks
<1>5. CASE StartTask
  BY <1>5 DEF StartTask, CountLate
<1>6. CASE TaskCheck
  BY <1>6 DEF TaskCheck
<1>7. CASE TasksDone
  BY <1>7 DEF TasksDone
<1>8. CASE WaitWoken
  BY <1>8 DEF WaitWoken
<1>9. CASE WaitOther
  BY <1>9 DEF WaitOther
<1>10. CASE WaitThrows
  BY <1>10 DEF WaitThrows
<1>11. CASE OnWakeup
  BY <1>11 DEF OnWakeup
<1>12. CASE StartHandler
  BY <1>12 DEF StartHandler, CountLate
<1>13. CASE EventCheck
  BY <1>13 DEF EventCheck
<1>14. CASE EventsDone
  BY <1>14 DEF EventsDone
<1>15. CASE HandlerPost
  BY <1>15, PushRange DEF HandlerPost
<1>16. CASE HandlerStop
  BY <1>16 DEF HandlerStop
<1>17. CASE HandlerReturn
  BY <1>17 DEF HandlerReturn
<1>18. CASE Leave
  BY <1>18 DEF Leave
<1>19. CASE UnlessDestroyed(LoopThread, "stop_unless_destroyed", "stop_destroy",
                            "stop_clear")
  BY <1>19 DEF UnlessDestroyed
<1>20. CASE UnlessDestroyed(LoopThread, "fail_unless_destroyed", "fail_destroy",
                            "idle")
  BY <1>20 DEF UnlessDestroyed
<1>21. CASE BarrierDestroy(LoopThread, "stop_destroy", "stop_clear")
  BY <1>21 DEF BarrierDestroy
<1>22. CASE BarrierDestroy(LoopThread, "fail_destroy", "idle")
  BY <1>22 DEF BarrierDestroy
<1>23. ASSUME NEW t \in Threads, Barrier(t) PROVE WakeupInv'
  <2>1. CASE BarrierWait(t)
    BY <2>1 DEF BarrierWait
  <2>2. CASE BarrierBlock(t)
    BY <2>2 DEF BarrierBlock
  <2>3. CASE BarrierRelease(t)
    BY <2>3 DEF BarrierRelease
  <2>4. CASE BarrierDestroy(t, "barrier_destroy", AfterBarrier(t))
    BY <2>4 DEF BarrierDestroy
  <2> QED
    BY <1>23, <2>1, <2>2, <2>3, <2>4 DEF Barrier
<1>24. ASSUME NEW t \in Threads, SetStop(t) PROVE WakeupInv'
  BY <1>24 DEF SetStop
<1>25. ASSUME NEW t \in Threads, ClearTasks(t) PROVE WakeupInv'
  BY <1>25, RangeEmpty DEF ClearTasks
<1>26. ASSUME NEW c \in Clients, RunInLoop(c) PROVE WakeupInv'
  <2>1. Range(taskq') = Range(taskq) \cup {next} /\ next \in Tasks
    BY <1>26, PushRange DEF RunInLoop
  <2>2. posting[c] = 0 /\ posting' = [posting EXCEPT ![c] = next]
    BY <1>26 DEF RunInLoop
  <2>3. /\ pc[c] = "idle" /\ c # LoopThread
        /\ pc' = [pc EXCEPT ![c] = "wakeup"]
        /\ UNCHANGED <<looping, stop, waker, edge, phase, waiting, nested>>
    BY <1>26 DEF RunInLoop
  <2>4. \A t \in Range(taskq) : t \in Tasks
    BY DEF Range
  <2>5. WakeupComes'
    BY <2>1, <2>2, <2>3, <2>4
  <2> QED
    BY <2>2, <2>3, <2>5
<1>27. ASSUME NEW c \in Clients, CallWakeup(c) PROVE WakeupInv'
  BY <1>27 DEF CallWakeup
<1>28. ASSUME NEW c \in Clients, CallStop(c) PROVE WakeupInv'
  BY <1>28 DEF CallStop
<1>29. ASSUME NEW c \in Clients, TestLooping(c, "wakeup", "wakeup_write", "idle")
       PROVE  WakeupInv'
  BY <1>29 DEF TestLooping
<1>30. ASSUME NEW c \in Clients, TestLooping(c, "stop_wakeup", "stop_write", "barrier")
       PROVE  WakeupInv'
  BY <1>30 DEF TestLooping
<1>31. ASSUME NEW c \in Clients, WriteWaker(c, "wakeup_write", "idle")
       PROVE  WakeupInv'
  BY <1>31 DEF WriteWaker
<1>32. ASSUME NEW c \in Clients, WriteWaker(c, "stop_write", "barrier")
       PROVE  WakeupInv'
  BY <1>32 DEF WriteWaker
<1>33. CASE UNCHANGED vars
  BY <1>33 DEF vars
<1>34. CASE LoopStep
  BY <1>34, <1>2, <1>3, <1>4, <1>5, <1>6, <1>7, <1>8, <1>11, <1>12, <1>13,
     <1>14, <1>18, <1>19, <1>20, <1>21, <1>22, <1>23, <1>24, <1>25
     DEF LoopStep
<1>35. ASSUME NEW c \in Clients, ClientCall(c) \/ ClientStep(c) PROVE WakeupInv'
  BY <1>35, <1>23, <1>24, <1>25, <1>26, <1>27, <1>28, <1>29, <1>30, <1>31,
     <1>32 DEF ClientCall, ClientStep
<1> QED
  BY <1>1, <1>9, <1>10, <1>15, <1>16, <1>17, <1>33, <1>34, <1>35
     DEF Next, LoopChoice

LEMMA WakeupInvariant == Spec => []WakeupInv
<1>1. Init => WakeupInv
  BY EventLoopAssumption
     DEF Init, WakeupInv, EventLoopAssumption, Threads, PostingAtWakeup,
         WaitingBlocked, NotLooping, PastSwap, WakeupComes, StopNotMissed,
         WakerReadReady
<1> QED
  BY <1>1, WakeupStep, Typing, PTL DEF Spec

(* A task posted from another thread, or a stop(), never waits while the   *)
(* loop thread sleeps in epoll_wait() with no wakeup on its way, and the   *)
(* blocking read of the eventfd does not block.                            *)
THEOREM NoLostWakeup == Spec => []SleepJustified
<1>1. WakeupInv => SleepJustified
  BY DEF WakeupInv, WakeupComes, WakeupNotLost, PastSwap, SleepJustified
<1> QED
  BY <1>1, WakeupInvariant, PTL

-----------------------------------------------------------------------------
(* Handlers after stop().                                                  *)

LEMMA LateStep == TypeOK /\ LateInv /\ [Next]_vars => LateInv'
<1> SUFFICES ASSUME TypeOK, LateInv, [Next]_vars PROVE LateInv'
  OBVIOUS
<1> USE EventLoopAssumption
    DEF TypeOK, LateInv, EventLoopAssumption, Threads, Labels,
        LoopLabels, ClientLabels, SharedLabels, Goto, AfterBarrier, queueVars,
        wakerVars, barrierVars, localVars, historyVars, CountLate
<1>1. CASE RunBegin
  BY <1>1 DEF RunBegin
<1>2. CASE Reinit
  BY <1>2 DEF Reinit
<1>3. ASSUME NEW here \in {"while", "before_wait", "before_events"},
             NEW go_on \in {"swap", "wait", "events"},
             go_on = "wait" => here = "before_wait",
             TestStop(here, go_on)
      PROVE  LateInv'
  BY <1>3 DEF TestStop
<1>4. CASE SwapTasks
  BY <1>4 DEF SwapTasks
<1>5. CASE StartTask
  BY <1>5 DEF StartTask
<1>6. CASE TaskCheck
  BY <1>6 DEF TaskCheck
<1>7. CASE TasksDone
  BY <1>7 DEF TasksDone
<1>8. CASE WaitWoken
  BY <1>8 DEF WaitWoken
<1>9. CASE WaitOther
  BY <1>9 DEF WaitOther
<1>10. CASE WaitThrows
  BY <1>10 DEF WaitThrows
<1>11. CASE OnWakeup
  BY <1>11 DEF OnWakeup
<1>12. CASE StartHandler
  BY <1>12 DEF StartHandler
<1>13. CASE EventCheck
  BY <1>13 DEF EventCheck
<1>14. CASE EventsDone
  BY <1>14 DEF EventsDone
<1>15. CASE HandlerPost
  BY <1>15 DEF HandlerPost
<1>16. CASE HandlerStop
  BY <1>16 DEF HandlerStop
<1>17. CASE HandlerReturn
  BY <1>17 DEF HandlerReturn
<1>18. CASE Leave
  BY <1>18 DEF Leave
<1>19. CASE UnlessDestroyed(LoopThread, "stop_unless_destroyed", "stop_destroy",
                            "stop_clear")
  BY <1>19 DEF UnlessDestroyed
<1>20. CASE UnlessDestroyed(LoopThread, "fail_unless_destroyed", "fail_destroy",
                            "idle")
  BY <1>20 DEF UnlessDestroyed
<1>21. CASE BarrierDestroy(LoopThread, "stop_destroy", "stop_clear")
  BY <1>21 DEF BarrierDestroy
<1>22. CASE BarrierDestroy(LoopThread, "fail_destroy", "idle")
  BY <1>22 DEF BarrierDestroy
<1>23. ASSUME NEW t \in Threads, Barrier(t) PROVE LateInv'
  <2>1. CASE BarrierWait(t)
    BY <2>1 DEF BarrierWait
  <2>2. CASE BarrierBlock(t)
    BY <2>2 DEF BarrierBlock
  <2>3. CASE BarrierRelease(t)
    BY <2>3 DEF BarrierRelease
  <2>4. CASE BarrierDestroy(t, "barrier_destroy", AfterBarrier(t))
    BY <2>4 DEF BarrierDestroy
  <2> QED
    BY <1>23, <2>1, <2>2, <2>3, <2>4 DEF Barrier
<1>24. ASSUME NEW t \in Threads, SetStop(t) PROVE LateInv'
  BY <1>24 DEF SetStop
<1>25. ASSUME NEW t \in Threads, ClearTasks(t) PROVE LateInv'
  BY <1>25 DEF ClearTasks
<1>26. ASSUME NEW c \in Clients, RunInLoop(c) PROVE LateInv'
  BY <1>26 DEF RunInLoop
<1>27. ASSUME NEW c \in Clients, CallWakeup(c) PROVE LateInv'
  BY <1>27 DEF CallWakeup
<1>28. ASSUME NEW c \in Clients, CallStop(c) PROVE LateInv'
  BY <1>28 DEF CallStop
<1>29. ASSUME NEW c \in Clients, TestLooping(c, "wakeup", "wakeup_write", "idle")
       PROVE  LateInv'
  BY <1>29 DEF TestLooping
<1>30. ASSUME NEW c \in Clients, TestLooping(c, "stop_wakeup", "stop_write", "barrier")
       PROVE  LateInv'
  BY <1>30 DEF TestLooping
<1>31. ASSUME NEW c \in Clients, WriteWaker(c, "wakeup_write", "idle")
       PROVE  LateInv'
  BY <1>31 DEF WriteWaker
<1>32. ASSUME NEW c \in Clients, WriteWaker(c, "stop_write", "barrier")
       PROVE  LateInv'
  BY <1>32 DEF WriteWaker
<1>33. CASE UNCHANGED vars
  BY <1>33 DEF vars
<1>34. CASE LoopStep
  BY <1>34, <1>2, <1>3, <1>4, <1>5, <1>6, <1>7, <1>8, <1>11, <1>12, <1>13,
     <1>14, <1>18, <1>19, <1>20, <1>21, <1>22, <1>23, <1>24, <1>25
     DEF LoopStep
<1>35. ASSUME NEW c \in Clients, ClientCall(c) \/ ClientStep(c) PROVE LateInv'
  BY <1>35, <1>23, <1>24, <1>25, <1>26, <1>27, <1>28, <1>29, <1>30, <1>31,
     <1>32 DEF ClientCall, ClientStep
<1> QED
  BY <1>1, <1>9, <1>10, <1>15, <1>16, <1>17, <1>33, <1>34, <1>35
     DEF Next, LoopChoice

(* Of the tasks and handlers that were still to run when stop() was called *)
(* at most one is started, whatever run() was doing at that moment.        *)
THEOREM OneMoreHandler == Spec => []OneHandlerAfterStop
<1>1. Init => LateInv
  BY DEF Init, LateInv
<1>2. LateInv => OneHandlerAfterStop
  BY DEF LateInv, OneHandlerAfterStop
<1> QED
  BY <1>1, <1>2, LateStep, Typing, PTL DEF Spec

-----------------------------------------------------------------------------
(* The loop is a first-in, first-out executor.                             *)

LEMMA ExecutorInvStep ==
  TypeOK /\ WakeupInv /\ ExecutorInv /\ [Next]_vars => ExecutorInv'
<1> SUFFICES ASSUME TypeOK, WakeupInv, ExecutorInv, [Next]_vars PROVE ExecutorInv'
  OBVIOUS
<1>0. \A t \in waiting : t \in Threads /\ pc[t] = "barrier_blocked"
  BY DEF TypeOK, WakeupInv, WaitingBlocked
<1> USE EventLoopAssumption
    DEF TypeOK, ExecutorInv, EventLoopAssumption, Threads, Labels,
        LoopLabels, ClientLabels, SharedLabels, Goto, AfterBarrier, queueVars,
        wakerVars, barrierVars, localVars, historyVars, InBatch, AfterSetStop
<1>1. CASE RunBegin
  BY <1>1 DEF RunBegin
<1>2. CASE Reinit
  BY <1>2 DEF Reinit
<1>3. ASSUME NEW here \in {"while", "before_wait", "before_events"},
             NEW go_on \in {"swap", "wait", "events"},
             TestStop(here, go_on)
      PROVE  ExecutorInv'
  BY <1>3 DEF TestStop
<1>4. CASE SwapTasks
  BY <1>4 DEF SwapTasks
<1>5. CASE StartTask
  BY <1>5 DEF StartTask, CountLate
<1>6. CASE TaskCheck
  BY <1>6 DEF TaskCheck
<1>7. CASE TasksDone
  BY <1>7 DEF TasksDone
<1>8. CASE WaitWoken
  BY <1>8 DEF WaitWoken
<1>9. CASE WaitOther
  BY <1>9 DEF WaitOther
<1>10. CASE WaitThrows
  BY <1>10 DEF WaitThrows
<1>11. CASE OnWakeup
  BY <1>11 DEF OnWakeup
<1>12. CASE StartHandler
  BY <1>12 DEF StartHandler, CountLate
<1>13. CASE EventCheck
  BY <1>13 DEF EventCheck
<1>14. CASE EventsDone
  BY <1>14 DEF EventsDone
<1>15. CASE HandlerPost
  BY <1>15 DEF HandlerPost
<1>16. CASE HandlerStop
  BY <1>16 DEF HandlerStop
<1>17. CASE HandlerReturn
  BY <1>17 DEF HandlerReturn
<1>18. CASE Leave
  BY <1>18 DEF Leave
<1>19. CASE UnlessDestroyed(LoopThread, "stop_unless_destroyed", "stop_destroy",
                            "stop_clear")
  BY <1>19 DEF UnlessDestroyed
<1>20. CASE UnlessDestroyed(LoopThread, "fail_unless_destroyed", "fail_destroy",
                            "idle")
  BY <1>20 DEF UnlessDestroyed
<1>21. CASE BarrierDestroy(LoopThread, "stop_destroy", "stop_clear")
  BY <1>21 DEF BarrierDestroy
<1>22. CASE BarrierDestroy(LoopThread, "fail_destroy", "idle")
  BY <1>22 DEF BarrierDestroy
<1>23. ASSUME NEW t \in Threads, Barrier(t) PROVE ExecutorInv'
  <2>1. CASE BarrierWait(t)
    BY <2>1 DEF BarrierWait
  <2>2. CASE BarrierBlock(t)
    BY <2>2 DEF BarrierBlock
  <2>3. CASE BarrierRelease(t)
    BY <2>3, <1>0 DEF BarrierRelease
  <2>4. CASE BarrierDestroy(t, "barrier_destroy", AfterBarrier(t))
    BY <2>4 DEF BarrierDestroy
  <2> QED
    BY <1>23, <2>1, <2>2, <2>3, <2>4 DEF Barrier
<1>24. ASSUME NEW t \in Threads, SetStop(t) PROVE ExecutorInv'
  BY <1>24 DEF SetStop
<1>25. ASSUME NEW t \in Threads, ClearTasks(t) PROVE ExecutorInv'
  BY <1>25 DEF ClearTasks
<1>26. ASSUME NEW c \in Clients, ClientCall(c) PROVE ExecutorInv'
  BY <1>26 DEF ClientCall, RunInLoop, CallWakeup, CallStop
<1>27. ASSUME NEW c \in Clients, TestLooping(c, "wakeup", "wakeup_write", "idle")
       PROVE  ExecutorInv'
  BY <1>27 DEF TestLooping
<1>28. ASSUME NEW c \in Clients, TestLooping(c, "stop_wakeup", "stop_write", "barrier")
       PROVE  ExecutorInv'
  BY <1>28 DEF TestLooping
<1>29. ASSUME NEW c \in Clients, WriteWaker(c, "wakeup_write", "idle")
       PROVE  ExecutorInv'
  BY <1>29 DEF WriteWaker
<1>30. ASSUME NEW c \in Clients, WriteWaker(c, "stop_write", "barrier")
       PROVE  ExecutorInv'
  BY <1>30 DEF WriteWaker
<1>31. CASE UNCHANGED vars
  BY <1>31 DEF vars
<1>32. CASE LoopStep
  BY <1>32, <1>2, <1>3, <1>4, <1>5, <1>6, <1>7, <1>8, <1>11, <1>12, <1>13,
     <1>14, <1>18, <1>19, <1>20, <1>21, <1>22, <1>23, <1>24, <1>25
     DEF LoopStep
<1>33. ASSUME NEW c \in Clients, ClientStep(c) PROVE ExecutorInv'
  BY <1>33, <1>23, <1>24, <1>25, <1>27, <1>28, <1>29, <1>30 DEF ClientStep
<1> QED
  BY <1>1, <1>9, <1>10, <1>15, <1>16, <1>17, <1>26, <1>31, <1>32, <1>33
     DEF Next, LoopChoice

LEMMA ExecutorInvariant == Spec => []ExecutorInv
<1>1. Init => ExecutorInv
  BY DEF Init, ExecutorInv, InBatch, AfterSetStop, Threads
<1> QED
  BY <1>1, ExecutorInvStep, Typing, WakeupInvariant, PTL DEF Spec

(* Of two blocks of tasks the first or the second is forgotten.            *)
LEMMA ForgetOneOfTwo ==
  ASSUME NEW S, NEW s \in Seq(S), NEW t \in Seq(S)
  PROVE  /\ t = SubSeq(s \o t, 1, 0) \o SubSeq(s \o t, Len(s) + 1, Len(s \o t))
         /\ s = SubSeq(s \o t, 1, Len(s))
                \o SubSeq(s \o t, Len(s \o t) + 1, Len(s \o t))
<1>1. /\ s \o t \in Seq(S)
      /\ Len(s \o t) = Len(s) + Len(t)
      /\ Len(s) \in Nat /\ Len(t) \in Nat
      /\ \A i \in 1 .. Len(s) + Len(t) :
           (s \o t)[i] = IF i <= Len(s) THEN s[i] ELSE t[i - Len(s)]
  BY ConcatProperties, LenProperties
<1>2. \A i \in 1 .. Len(s) + Len(t) : (s \o t)[i] \in S
  BY <1>1, ElementOfSeq
<1>3. SubSeq(s \o t, 1, Len(s)) = s
  <2> DEFINE u == SubSeq(s \o t, 1, Len(s))
  <2>1. u \in Seq(S) /\ Len(u) = Len(s)
        /\ \A i \in 1 .. Len(s) : u[i] = (s \o t)[i]
    BY <1>1, <1>2, SubSeqProperties
  <2>2. \A i \in 1 .. Len(s) : u[i] = s[i]
    BY <1>1, <2>1
  <2> HIDE DEF u
  <2>3. u = s
    BY <2>1, <2>2, SeqEqual
  <2> QED
    BY <2>3 DEF u
<1>4. SubSeq(s \o t, Len(s) + 1, Len(s \o t)) = t
  <2> DEFINE u == SubSeq(s \o t, Len(s) + 1, Len(s) + Len(t))
  <2>1. u \in Seq(S) /\ Len(u) = Len(t)
        /\ \A i \in 1 .. Len(t) : u[i] = (s \o t)[Len(s) + i]
    <3>1. \A i \in Len(s) + 1 .. Len(s) + Len(t) : (s \o t)[i] \in S
      BY <1>1, <1>2
    <3>2. /\ u \in Seq(S)
          /\ Len(u) = IF Len(s) + 1 <= Len(s) + Len(t)
                        THEN Len(s) + Len(t) - (Len(s) + 1) + 1 ELSE 0
          /\ \A i \in 1 .. Len(s) + Len(t) - (Len(s) + 1) + 1 :
               u[i] = (s \o t)[Len(s) + 1 + i - 1]
      BY <1>1, <3>1, SubSeqProperties
    <3> HIDE DEF u
    <3> QED
      BY <1>1, <3>2
  <2>2. \A i \in 1 .. Len(t) : u[i] = t[i]
    BY <1>1, <2>1
  <2> HIDE DEF u
  <2>3. u = t
    BY <2>1, <2>2, SeqEqual
  <2> QED
    BY <1>1, <2>3 DEF u
<1>5. /\ SubSeq(s \o t, 1, 0) = <<>>
      /\ SubSeq(s \o t, Len(s \o t) + 1, Len(s \o t)) = <<>>
  BY <1>1, SubSeqEmpty
<1> QED
  BY <1>3, <1>4, <1>5, ConcatEmptySeq

(* Every step of the loop and of its clients is one of the executor, or    *)
(* one that the executor does not see.                                     *)
LEMMA ExecutorStep ==
  TypeOK /\ ExecutorInv /\ [Next]_vars => [Executor!Next]_(Executor!vars)
<1> SUFFICES ASSUME TypeOK, ExecutorInv, [Next]_vars
             PROVE  [Executor!Next]_(Executor!vars)
  OBVIOUS
<1> DEFINE Queue == batch \o taskq
           Unseen == UNCHANGED <<batch, taskq, next, ran, stop>>
<1>0. /\ batch \in Seq(Tasks) /\ taskq \in Seq(Tasks)
      /\ Queue \in Seq(Tasks)
      /\ Len(Queue) = Len(batch) + Len(taskq)
      /\ Len(batch) \in Nat /\ Len(taskq) \in Nat
      /\ <<>> \in Seq(Tasks)
  BY ConcatProperties, LenProperties, EmptySeq DEF TypeOK
<1>1. ASSUME Unseen PROVE UNCHANGED Executor!vars
  BY <1>1 DEF Executor!vars
<1>2. ASSUME Push, UNCHANGED <<batch, ran, stop>> PROVE Executor!Post
  <2>1. next \in Tasks
    BY <1>2, EventLoopAssumption DEF Push, TypeOK, Tasks, EventLoopAssumption
  <2>2. <<next>> \in Seq(Tasks)
    BY <2>1
  <2>3. batch \o Append(taskq, next) = Append(Queue, next)
    <3>1. Append(taskq, next) = taskq \o <<next>>
      BY <1>0, <2>1, AppendIsConcat
    <3>2. Append(Queue, next) = Queue \o <<next>>
      BY <1>0, <2>1, AppendIsConcat
    <3> QED
      BY <1>0, <2>2, <3>1, <3>2, ConcatAssociative
  <2> QED
    BY <1>2, <2>3 DEF Push, Executor!Post
<1>3. CASE SwapTasks
  <2>1. batch = <<>>
    BY <1>3 DEF SwapTasks, ExecutorInv, InBatch
  <2>2. taskq \o <<>> = <<>> \o taskq
    BY <1>0, ConcatEmptySeq
  <2> QED
    BY <1>3, <2>1, <2>2 DEF SwapTasks, Executor!vars, historyVars
<1>4. CASE StartTask
  <2>1. batch # <<>> /\ batch' = Tail(batch) /\ ran' = Head(batch)
        /\ UNCHANGED <<taskq, next, stop>>
    BY <1>4 DEF StartTask, queueVars
  <2>2. Queue # <<>> /\ Head(Queue) = Head(batch) /\ Tail(Queue) = Tail(batch) \o taskq
    BY <1>0, <2>1
  <2> QED
    BY <2>1, <2>2 DEF Executor!Next, Executor!Start
<1>5. CASE TaskCheck
  <2>1. CASE stop
    <3>1. batch' = <<>> /\ UNCHANGED <<taskq, next, ran, stop>>
      BY <1>5, <2>1 DEF TaskCheck, queueVars, historyVars
    <3>2. batch' \o taskq' = SubSeq(Queue, 1, 0) \o SubSeq(Queue, Len(batch) + 1, Len(Queue))
      BY <1>0, <3>1, ForgetOneOfTwo, ConcatEmptySeq
    <3>3. 0 \in 0 .. Len(Queue) /\ Len(batch) \in 0 .. Len(Queue)
      BY <1>0
    <3> QED
      BY <2>1, <3>1, <3>2, <3>3, Zenon DEF Executor!Next, Executor!Drop
  <2>2. CASE ~stop
    BY <1>1, <1>5, <2>2 DEF TaskCheck, queueVars, historyVars
  <2> QED
    BY <2>1, <2>2
<1>6. ASSUME NEW t \in Threads, ClearTasks(t) PROVE Executor!Next
  <2>1. stop
    BY <1>6 DEF ClearTasks, ExecutorInv, AfterSetStop
  <2>2. taskq' = <<>> /\ UNCHANGED <<batch, next, ran, stop>>
    BY <1>6 DEF ClearTasks, localVars, historyVars
  <2>3. batch' \o taskq' = SubSeq(Queue, 1, Len(batch))
                           \o SubSeq(Queue, Len(Queue) + 1, Len(Queue))
    BY <1>0, <2>2, ForgetOneOfTwo, ConcatEmptySeq
  <2>4. Len(batch) \in 0 .. Len(Queue) /\ Len(Queue) \in Len(batch) .. Len(Queue)
    BY <1>0
  <2> QED
    BY <2>1, <2>2, <2>3, <2>4, Zenon DEF Executor!Next, Executor!Drop
<1>7. ASSUME NEW t \in Threads, SetStop(t) PROVE Executor!Next
  BY <1>7 DEF SetStop, Executor!Next, Executor!Stop, queueVars, localVars,
              historyVars
<1>8. ASSUME NEW t \in Threads, Barrier(t) PROVE Unseen
  BY <1>8 DEF Barrier, BarrierWait, BarrierBlock, BarrierRelease,
              BarrierDestroy, queueVars, localVars, historyVars
<1>9. CASE LoopStep
  <2> USE DEF queueVars, localVars, historyVars
  <2>1. CASE \/ Reinit \/ TestStop("while", "swap") \/ TestStop("before_wait", "wait")
             \/ TestStop("before_events", "events")
    BY <1>1, <2>1 DEF Reinit, TestStop
  <2>2. CASE TasksDone \/ WaitWoken \/ OnWakeup \/ StartHandler \/ EventCheck
             \/ EventsDone \/ Leave
    BY <1>1, <2>2 DEF TasksDone, WaitWoken, OnWakeup, StartHandler, EventCheck,
                      EventsDone, Leave
  <2>3. CASE \/ UnlessDestroyed(LoopThread, "stop_unless_destroyed",
                                "stop_destroy", "stop_clear")
             \/ UnlessDestroyed(LoopThread, "fail_unless_destroyed",
                                "fail_destroy", "idle")
             \/ BarrierDestroy(LoopThread, "stop_destroy", "stop_clear")
             \/ BarrierDestroy(LoopThread, "fail_destroy", "idle")
    BY <1>1, <2>3 DEF UnlessDestroyed, BarrierDestroy
  <2> QED
    BY <1>1, <1>3, <1>4, <1>5, <1>6, <1>7, <1>8, <1>9, <2>1, <2>2, <2>3
       DEF LoopStep, Threads
<1>10. CASE LoopChoice \/ HandlerReturn \/ RunBegin
  <2> USE DEF queueVars, localVars, historyVars
  <2>1. CASE HandlerPost
    BY <1>2, <2>1 DEF HandlerPost, Executor!Next
  <2>2. CASE WaitOther \/ WaitThrows \/ HandlerStop \/ HandlerReturn \/ RunBegin
    BY <1>1, <2>2
       DEF WaitOther, WaitThrows, HandlerStop, HandlerReturn, RunBegin
  <2> QED
    BY <1>10, <2>1, <2>2 DEF LoopChoice
<1>11. ASSUME NEW c \in Clients, ClientCall(c) \/ ClientStep(c)
       PROVE  [Executor!Next]_(Executor!vars)
  <2> USE DEF queueVars, localVars, historyVars
  <2>1. CASE RunInLoop(c)
    BY <1>2, <2>1 DEF RunInLoop, Executor!Next
  <2>2. CASE CallWakeup(c) \/ CallStop(c)
    BY <1>1, <2>2 DEF CallWakeup, CallStop
  <2>3. CASE \/ TestLooping(c, "wakeup", "wakeup_write", "idle")
             \/ TestLooping(c, "stop_wakeup", "stop_write", "barrier")
    BY <1>1, <2>3 DEF TestLooping
  <2>4. CASE WriteWaker(c, "wakeup_write", "idle") \/ WriteWaker(c, "stop_write", "barrier")
    BY <1>1, <2>4 DEF WriteWaker
  <2> QED
    BY <1>1, <1>6, <1>7, <1>8, <1>11, <2>1, <2>2, <2>3, <2>4
       DEF ClientCall, ClientStep, Threads
<1>12. CASE UNCHANGED vars
  BY <1>1, <1>12 DEF vars, queueVars, localVars, historyVars
<1> QED
  BY <1>9, <1>10, <1>11, <1>12 DEF Next

(* Whatever the clients and the handlers post, and whenever the loop is    *)
(* stopped, the tasks start in the order they were pushed, and only a      *)
(* stopped loop forgets any: the loop implements TaskExecutor.             *)
THEOREM LoopIsExecutor == Spec => ExecutorSpec
<1>1. Init => Executor!Init
  BY DEF Init, Executor!Init
<1> QED
  BY <1>1, ExecutorStep, ExecutorInvariant, Typing, PTL
     DEF Spec, ExecutorSpec, Executor!Spec

-----------------------------------------------------------------------------
(* stop() and run() meet.                                                  *)

(* One client calls stop(), no handler does, epoll_wait() does not fail,   *)
(* and run() is called once: what the barrier was made for.                *)
OneStopper(s) ==
  /\ s \in Clients
  /\ Stoppers = {s}
  /\ ~HandlersStop
  /\ ~WaitMayThrow
  /\ MaxRuns = 1

(* The steps that are left then.                                           *)
OneStopperStep(s) ==
  \/ RunBegin /\ runs = 0
  \/ LoopStep \/ WaitOther \/ HandlerPost \/ HandlerReturn
  \/ CallStop(s)
  \/ \E c \in Clients : RunInLoop(c) \/ CallWakeup(c) \/ ClientStep(c)
  \/ UNCHANGED vars

LEMMA MeetStep ==
  ASSUME NEW s \in Clients
  PROVE  TypeOK /\ MeetInv(s) /\ OneStopperStep(s) => MeetInv(s)'
<1> SUFFICES ASSUME TypeOK, MeetInv(s), OneStopperStep(s) PROVE MeetInv(s)'
  OBVIOUS
<1> USE EventLoopAssumption
    DEF TypeOK, MeetInv, NotMet, Met, AtBarrier,
        EventLoopAssumption, Threads, Labels, LoopLabels, ClientLabels,
        SharedLabels, Goto, AfterBarrier, queueVars, wakerVars, barrierVars,
        localVars, historyVars
<1>1. CASE RunBegin /\ runs = 0
  BY <1>1 DEF RunBegin
<1>2. CASE Reinit
  BY <1>2 DEF Reinit
<1>3. ASSUME NEW here \in {"while", "before_wait", "before_events"},
             NEW go_on \in {"swap", "wait", "events"},
             TestStop(here, go_on)
      PROVE  MeetInv(s)'
  BY <1>3 DEF TestStop
<1>4. CASE SwapTasks
  BY <1>4 DEF SwapTasks
<1>5. CASE StartTask
  BY <1>5 DEF StartTask, CountLate
<1>6. CASE TaskCheck
  BY <1>6 DEF TaskCheck
<1>7. CASE TasksDone
  BY <1>7 DEF TasksDone
<1>8. CASE WaitWoken
  BY <1>8 DEF WaitWoken
<1>9. CASE WaitOther
  BY <1>9 DEF WaitOther
<1>11. CASE OnWakeup
  BY <1>11 DEF OnWakeup
<1>12. CASE StartHandler
  BY <1>12 DEF StartHandler, CountLate
<1>13. CASE EventCheck
  BY <1>13 DEF EventCheck
<1>14. CASE EventsDone
  BY <1>14 DEF EventsDone
<1>15. CASE HandlerPost
  BY <1>15 DEF HandlerPost
<1>17. CASE HandlerReturn
  BY <1>17 DEF HandlerReturn
<1>18. CASE Leave
  BY <1>18 DEF Leave
<1>19. CASE UnlessDestroyed(LoopThread, "stop_unless_destroyed", "stop_destroy",
                            "stop_clear")
  BY <1>19 DEF UnlessDestroyed
<1>20. CASE UnlessDestroyed(LoopThread, "fail_unless_destroyed", "fail_destroy",
                            "idle")
  BY <1>20 DEF UnlessDestroyed
<1>21. CASE BarrierDestroy(LoopThread, "stop_destroy", "stop_clear")
  BY <1>21 DEF BarrierDestroy
<1>22. CASE BarrierDestroy(LoopThread, "fail_destroy", "idle")
  BY <1>22 DEF BarrierDestroy
<1>23. ASSUME NEW t \in Threads, Barrier(t) PROVE MeetInv(s)'
  <2>1. CASE BarrierWait(t)
    BY <2>1 DEF BarrierWait
  <2>2. CASE BarrierBlock(t)
    BY <2>2 DEF BarrierBlock
  <2>3. CASE BarrierRelease(t)
    BY <2>3 DEF BarrierRelease
  <2>4. CASE BarrierDestroy(t, "barrier_destroy", AfterBarrier(t))
    BY <2>4 DEF BarrierDestroy
  <2> QED
    BY <1>23, <2>1, <2>2, <2>3, <2>4 DEF Barrier
<1>24. ASSUME NEW t \in Threads, SetStop(t) PROVE MeetInv(s)'
  BY <1>24 DEF SetStop
<1>25. ASSUME NEW t \in Threads, ClearTasks(t) PROVE MeetInv(s)'
  BY <1>25 DEF ClearTasks
<1>10. CASE CallStop(s)
  BY <1>10 DEF CallStop
<1>16. ASSUME NEW c \in Clients, RunInLoop(c) PROVE MeetInv(s)'
  BY <1>16 DEF RunInLoop
<1>26. ASSUME NEW c \in Clients, CallWakeup(c) PROVE MeetInv(s)'
  BY <1>26 DEF CallWakeup
<1>27. ASSUME NEW c \in Clients, TestLooping(c, "wakeup", "wakeup_write", "idle")
       PROVE  MeetInv(s)'
  BY <1>27 DEF TestLooping
<1>28. ASSUME NEW c \in Clients, TestLooping(c, "stop_wakeup", "stop_write", "barrier")
       PROVE  MeetInv(s)'
  BY <1>28 DEF TestLooping
<1>29. ASSUME NEW c \in Clients, WriteWaker(c, "wakeup_write", "idle")
       PROVE  MeetInv(s)'
  BY <1>29 DEF WriteWaker
<1>30. ASSUME NEW c \in Clients, WriteWaker(c, "stop_write", "barrier")
       PROVE  MeetInv(s)'
  BY <1>30 DEF WriteWaker
<1>31. CASE UNCHANGED vars
  BY <1>31 DEF vars
<1>32. CASE LoopStep
  BY <1>32, <1>2, <1>3, <1>4, <1>5, <1>6, <1>7, <1>8, <1>11, <1>12, <1>13,
     <1>14, <1>18, <1>19, <1>20, <1>21, <1>22, <1>23, <1>24, <1>25
     DEF LoopStep
<1>33. ASSUME NEW c \in Clients, ClientStep(c) PROVE MeetInv(s)'
  BY <1>33, <1>23, <1>24, <1>25, <1>27, <1>28, <1>29, <1>30 DEF ClientStep
<1> QED
  BY <1>1, <1>9, <1>10, <1>15, <1>16, <1>17, <1>26, <1>31, <1>32, <1>33
     DEF OneStopperStep

LEMMA MeetStarts ==
  ASSUME NEW s \in Clients
  PROVE  Init => MeetInv(s)
BY EventLoopAssumption
   DEF Init, MeetInv, NotMet, AtBarrier, Threads, EventLoopAssumption

LEMMA OneStopperSteps ==
  ASSUME NEW s, OneStopper(s), TypeOK, [Next]_vars
  PROVE  OneStopperStep(s)
<1>1. CASE RunBegin
  BY <1>1 DEF RunBegin, OneStopper, TypeOK, OneStopperStep
<1>2. CASE LoopChoice
  BY <1>2 DEF LoopChoice, WaitThrows, HandlerStop, OneStopper, OneStopperStep
<1>3. ASSUME NEW c \in Clients, ClientCall(c) \/ ClientStep(c) PROVE OneStopperStep(s)
  <2>1. CASE CallStop(c)
    BY <2>1 DEF CallStop, OneStopper, OneStopperStep
  <2> QED
    BY <1>3, <2>1 DEF ClientCall, OneStopperStep
<1> QED
  BY <1>1, <1>2, <1>3 DEF Next, OneStopperStep

LEMMA MeetInvariant ==
  ASSUME NEW s, OneStopper(s)
  PROVE  Spec => []MeetInv(s)
<1>1. s \in Clients
  BY DEF OneStopper
<1>2. TypeOK /\ MeetInv(s) /\ [Next]_vars => MeetInv(s)'
  BY <1>1, MeetStep, OneStopperSteps
<1> QED
  BY <1>1, <1>2, MeetStarts, Typing, PTL DEF Spec

(* What MeetInv says of those who are in stop() or run().                  *)
LEMMA MeetSynchronises ==
  ASSUME NEW s \in Clients, TypeOK, ExecutorInv, MeetInv(s)
  PROVE  StopSynchronises
BY DEF TypeOK, ExecutorInv, InBatch, MeetInv, NotMet, Met, StopSynchronises

LEMMA MeetNotStuck ==
  ASSUME NEW s \in Clients, TypeOK, StopNotMissed, MeetInv(s)
  PROVE  StopNotStuck
<1>1. \A c \in Clients : c # s => pc[c] \in {"idle", "wakeup", "wakeup_write"}
  BY DEF MeetInv
<1>2. ASSUME pc[s] = "barrier_blocked"
      PROVE  /\ pc[LoopThread] \notin {"idle", "barrier_blocked"}
             /\ pc[LoopThread] = "wait" => waker /\ edge
  <2>1. NotMet(s) /\ stop /\ s \in waiting
    BY <1>2 DEF MeetInv, NotMet, Met, AtBarrier, Threads
  <2>2. pc[LoopThread] # "idle"
    BY <1>2, <2>1 DEF NotMet, AtBarrier, TypeOK
  <2>3. pc[LoopThread] # "barrier_blocked"
    BY <1>2, <2>1 DEF NotMet
  <2>4. pc[LoopThread] = "wait" => waker /\ edge
    BY <1>1, <1>2, <2>1 DEF StopNotMissed
  <2> QED
    BY <2>2, <2>3, <2>4
<1>3. ASSUME pc[LoopThread] = "barrier_blocked"
      PROVE  pc[s] \in {"stop_wakeup", "stop_write", "barrier", "barrier_enter"}
  BY <1>3 DEF MeetInv, NotMet, Met, AtBarrier
<1>4. ASSUME NEW t \in Threads, pc[t] = "barrier_destroy" PROVE waiting = {}
  <2>1. t = s \/ t = LoopThread
    BY <1>1, <1>4 DEF Threads
  <2> QED
    BY <1>4, <2>1 DEF MeetInv, NotMet, Met
<1> QED
  BY <1>1, <1>2, <1>3, <1>4 DEF StopNotStuck

(* A client whose stop() is past the barrier finds the loop left, with no  *)
(* task or handler of it running, for any number of other clients.         *)
THEOREM StopMeetsRun ==
  ASSUME NEW s, OneStopper(s)
  PROVE  Spec => []StopSynchronises
<1>1. s \in Clients
  BY DEF OneStopper
<1> QED
  BY <1>1, MeetSynchronises, MeetInvariant, ExecutorInvariant, Typing, PTL

(* Neither it nor the loop is left alone in the barrier.                   *)
THEOREM NobodyStuckInStop ==
  ASSUME NEW s, OneStopper(s)
  PROVE  Spec => []StopNotStuck
<1>1. s \in Clients
  BY DEF OneStopper
<1>2. SleepJustified => StopNotMissed
  BY DEF SleepJustified
<1>3. Spec => []StopNotMissed
  BY <1>2, NoLostWakeup, PTL
<1> QED
  BY <1>1, <1>3, MeetNotStuck, MeetInvariant, Typing, PTL

-----------------------------------------------------------------------------
(* A service, its thread and the clients it is shared with do nothing to   *)
(* the loop that EventLoop does not allow, so that all of the above holds  *)
(* of the loop of a service.                                               *)
THEOREM ServiceUsesLoop == ServiceSpec => Spec
<1>1. ServiceInit => Init
  BY DEF ServiceInit
<1>2. [ServiceNext]_allVars => [Next]_vars
  <2> SUFFICES ASSUME [ServiceNext]_allVars
               PROVE  [Next]_vars
    OBVIOUS
  <2>1. CASE UNCHANGED allVars
    BY <2>1 DEF allVars
  <2>2. CASE OwnerRun \/ ThreadEnds \/ Destroy \/ Join
    BY <2>2 DEF OwnerRun, ThreadEnds, Destroy, Join
  <2>3. CASE ThreadRuns
    BY <2>3 DEF ThreadRuns, Next
  <2>4. CASE OwnerStop
    BY <2>4, ServiceAssumption DEF OwnerStop, Next, ClientCall
  <2>5. CASE Inner
    BY <2>5 DEF Inner, Next
  <2>6. CASE \E c \in Clients : Use(c)
    BY <2>6 DEF Use, Next, ClientCall
  <2> QED
    BY <2>1, <2>2, <2>3, <2>4, <2>5, <2>6 DEF ServiceNext
<1> QED
  BY <1>1, <1>2, PTL DEF ServiceSpec, Spec

-----------------------------------------------------------------------------
(* The stop() and the destructor of a service.                             *)

(* Only its owner stops a service, and its thread calls run() once.        *)
LEMMA ServiceSteps ==
  ASSUME ~HandlersStop, ~WaitMayThrow, [ServiceNext]_allVars
  PROVE  OneStopperStep(Owner)
<1>1. CASE UNCHANGED allVars
  BY <1>1 DEF allVars, OneStopperStep
<1>2. CASE OwnerRun \/ ThreadEnds \/ Destroy \/ Join
  BY <1>2 DEF OwnerRun, ThreadEnds, Destroy, Join, OneStopperStep
<1>3. CASE ThreadRuns
  BY <1>3 DEF ThreadRuns, OneStopperStep
<1>4. CASE OwnerStop
  BY <1>4 DEF OwnerStop, OneStopperStep
<1>5. CASE Inner
  BY <1>5 DEF Inner, LoopChoice, WaitThrows, HandlerStop, OneStopperStep
<1>6. CASE \E c \in Clients : Use(c)
  BY <1>6 DEF Use, OneStopperStep
<1> QED
  BY <1>1, <1>2, <1>3, <1>4, <1>5, <1>6 DEF ServiceNext

LEMMA ServiceMeets ==
  ASSUME ~HandlersStop, ~WaitMayThrow
  PROVE  ServiceSpec => [](TypeOK /\ WakeupInv /\ ExecutorInv /\ MeetInv(Owner))
<1>1. ServiceInit => MeetInv(Owner)
  BY ServiceAssumption, MeetStarts DEF ServiceInit
<1>2. TypeOK /\ MeetInv(Owner) /\ [ServiceNext]_allVars => MeetInv(Owner)'
  BY ServiceAssumption, ServiceSteps, MeetStep
<1> QED
  BY <1>1, <1>2, ServiceUsesLoop, Typing, WakeupInvariant, ExecutorInvariant, PTL
     DEF ServiceSpec

(* A thread that is not in the barrier is not moved by one that is.        *)
LEMMA BarrierMovesBlocked ==
  ASSUME TypeOK, WaitingBlocked, NEW t \in Threads, Barrier(t),
         NEW u \in Threads, u # t, pc[u] # "barrier_blocked"
  PROVE  pc'[u] = pc[u]
BY DEF TypeOK, WaitingBlocked, Barrier, BarrierWait, BarrierBlock,
       BarrierRelease, BarrierDestroy, Goto

(* The steps of the loop thread and of the clients leave the others where  *)
(* they are, but for those blocked in the barrier.                         *)
LEMMA OthersStay ==
  ASSUME TypeOK, WaitingBlocked, Inner, NEW u \in Threads, pc[u] = "idle"
  PROVE  pc'[u] = "idle"
<1> USE EventLoopAssumption
    DEF TypeOK, Threads, Goto, EventLoopAssumption
<1>1. ASSUME NEW c \in Clients, ClientStep(c) PROVE pc'[u] = "idle"
  <2>1. CASE Barrier(c)
    <3>1. u # c
      BY <2>1 DEF Barrier, BarrierWait, BarrierBlock, BarrierRelease, BarrierDestroy
    <3> QED
      BY <2>1, <3>1, BarrierMovesBlocked
  <2> QED
    BY <1>1, <2>1 DEF ClientStep, TestLooping, WriteWaker, SetStop, ClearTasks
<1>2. CASE LoopChoice \/ HandlerReturn
  BY <1>2 DEF LoopChoice, WaitOther, WaitThrows, HandlerPost, HandlerStop,
              HandlerReturn
<1>3. CASE LoopStep
  <2>1. CASE Barrier(LoopThread)
    <3>1. u # LoopThread
      BY <2>1 DEF Barrier, BarrierWait, BarrierBlock, BarrierRelease, BarrierDestroy
    <3> QED
      BY <2>1, <3>1, BarrierMovesBlocked
  <2>2. CASE Reinit \/ SwapTasks \/ StartTask \/ TaskCheck \/ TasksDone \/ WaitWoken
             \/ OnWakeup \/ StartHandler \/ EventCheck \/ EventsDone \/ Leave
    BY <2>2 DEF Reinit, SwapTasks, StartTask, TaskCheck, TasksDone, WaitWoken,
                OnWakeup, StartHandler, EventCheck, EventsDone, Leave
  <2> QED
    BY <1>3, <2>1, <2>2
       DEF LoopStep, TestStop, SetStop, UnlessDestroyed, BarrierDestroy, ClearTasks
<1> QED
  BY <1>1, <1>2, <1>3 DEF Inner

(* A client that is in stop() comes to the barrier and through it.         *)
BeforeMeeting == AtBarrier \cup {"stop_set", "stop_wakeup", "stop_write"}
OffBarrier == {"idle", "wakeup", "wakeup_write", "barrier_destroy", "stop_clear"}

LEMMA ClientMoves ==
  ASSUME TypeOK, WaitingBlocked, Inner, NEW s \in Clients
  PROVE  /\ pc[s] \in OffBarrier => pc'[s] \in OffBarrier
         /\ pc[s] \in BeforeMeeting
              => pc'[s] \in BeforeMeeting \cup {"barrier_destroy", "stop_clear"}
<1> USE EventLoopAssumption
    DEF TypeOK, Threads, Goto, EventLoopAssumption, OffBarrier, BeforeMeeting,
        AtBarrier, AfterBarrier
<1>1. ASSUME NEW t \in Threads, Barrier(t)
      PROVE  \/ pc'[s] = pc[s]
             \/ /\ pc[s] \in AtBarrier
                /\ pc'[s] \in AtBarrier \cup {"barrier_destroy", "stop_clear"}
             \/ pc[s] = "barrier_destroy" /\ pc'[s] = "stop_clear"
  BY <1>1 DEF Barrier, BarrierWait, BarrierBlock, BarrierRelease,
              BarrierDestroy, WaitingBlocked
<1>2. ASSUME NEW c \in Clients, ClientStep(c)
      PROVE  /\ pc[s] \in OffBarrier => pc'[s] \in OffBarrier
             /\ pc[s] \in BeforeMeeting
                  => pc'[s] \in BeforeMeeting \cup {"barrier_destroy", "stop_clear"}
  BY <1>1, <1>2 DEF ClientStep, TestLooping, WriteWaker, SetStop, ClearTasks
<1>3. CASE LoopChoice \/ HandlerReturn
  BY <1>3 DEF LoopChoice, WaitOther, WaitThrows, HandlerPost, HandlerStop,
              HandlerReturn
<1>4. CASE LoopStep
  <2>1. CASE Barrier(LoopThread)
    BY <1>1, <2>1
  <2>2. CASE ~Barrier(LoopThread)
    <3>1. pc'[s] = pc[s]
      BY <1>4, <2>2
         DEF LoopStep, Reinit, SwapTasks, StartTask, TaskCheck, TasksDone,
             WaitWoken, OnWakeup, StartHandler, EventCheck, EventsDone, Leave,
             TestStop, SetStop, UnlessDestroyed, BarrierDestroy, ClearTasks
    <3> QED
      BY <3>1
  <2> QED
    BY <2>1, <2>2
<1> QED
  BY <1>2, <1>3, <1>4 DEF Inner

(* stop_ is never reset, and only a new call of run() counts.              *)
LEMMA InnerKeeps ==
  ASSUME TypeOK, Inner
  PROVE  runs' = runs /\ (stop => stop')
<1> USE DEF localVars
<1>1. ASSUME NEW t \in Threads, Barrier(t) PROVE runs' = runs /\ stop' = stop
  BY <1>1 DEF Barrier, BarrierWait, BarrierBlock, BarrierRelease, BarrierDestroy
<1>2. ASSUME NEW c \in Clients, ClientStep(c) PROVE runs' = runs /\ (stop => stop')
  BY <1>1, <1>2 DEF ClientStep, TestLooping, WriteWaker, SetStop, ClearTasks, Threads
<1>3. CASE LoopChoice \/ HandlerReturn
  BY <1>3 DEF LoopChoice, WaitOther, WaitThrows, HandlerPost, HandlerStop,
              HandlerReturn
<1>4. CASE LoopStep
  BY <1>1, <1>4
     DEF LoopStep, Reinit, SwapTasks, StartTask, TaskCheck, TasksDone,
         WaitWoken, OnWakeup, StartHandler, EventCheck, EventsDone, Leave,
         TestStop, SetStop, UnlessDestroyed, BarrierDestroy, ClearTasks, Threads
<1> QED
  BY <1>2, <1>3, <1>4 DEF Inner

LEMMA StoppedStep ==
  ASSUME ~HandlersStop, ~WaitMayThrow
  PROVE  /\ TypeOK /\ WakeupInv /\ MeetInv(Owner) /\ MeetInv(Owner)'
         /\ ServiceTypeOK /\ StoppedInv /\ [ServiceNext]_allVars
         => ServiceTypeOK' /\ StoppedInv'
<1> SUFFICES ASSUME TypeOK, WakeupInv, MeetInv(Owner), MeetInv(Owner)',
                    ServiceTypeOK, StoppedInv, [ServiceNext]_allVars
             PROVE  ServiceTypeOK' /\ StoppedInv'
  OBVIOUS
<1> USE ServiceAssumption DEF ServiceTypeOK, StoppedInv
<1>1. Owner \in Threads /\ LoopThread \in Threads /\ Owner # LoopThread
  BY EventLoopAssumption DEF Threads, EventLoopAssumption
<1>2. CASE OwnerRun
  BY <1>2 DEF OwnerRun, vars, localVars, Met, barrierVars
<1>3. CASE ThreadRuns
  <2>1. ~effective
    BY <1>3 DEF ThreadRuns, MeetInv, NotMet, Met
  <2> QED
    BY <1>1, <1>3, <2>1
       DEF ThreadRuns, RunBegin, serviceVars, Goto, TypeOK
<1>4. CASE ThreadEnds
  BY <1>4 DEF ThreadEnds, vars, localVars, Met, barrierVars
<1>5. CASE OwnerStop
  BY <1>1, <1>5 DEF OwnerStop, CallStop, Goto, TypeOK, localVars
<1>6. CASE Destroy \/ Join
  BY <1>6 DEF Destroy, Join, vars, localVars, Met, barrierVars
<1>7. ASSUME NEW c \in Clients, Use(c) PROVE ServiceTypeOK' /\ StoppedInv'
  BY <1>1, <1>7, EventLoopAssumption
     DEF EventLoopAssumption, Use, RunInLoop, CallWakeup, Goto, TypeOK, serviceVars, localVars,
         barrierVars, Met, AtBarrier
<1>8. CASE Inner
  <2>1. UNCHANGED serviceVars /\ WaitingBlocked
    BY <1>8 DEF Inner, WakeupInv
  <2>2. owner # "idle" => pc'[Owner] = "idle"
    BY <1>1, <1>8, <2>1, OthersStay
  <2>3. thr = "ended" => pc'[LoopThread] = "idle"
    BY <1>1, <1>8, <2>1, OthersStay
  <2>4. runs' = runs /\ (stop => stop')
    BY <1>8, InnerKeeps
  <2>5. ASSUME effective
        PROVE  Met(Owner)' \/ pc'[Owner] \in
                 AtBarrier \cup {"stop_set", "stop_wakeup", "stop_write"}
    <3>1. NotMet(Owner)' \/ Met(Owner)'
      BY DEF MeetInv
    <3>2. CASE Met(Owner)
      <4>1. stop' /\ pc'[Owner] \in OffBarrier
        BY <1>8, <2>1, <2>4, <3>2, ClientMoves DEF Met, OffBarrier
      <4>2. ~NotMet(Owner)'
        BY <4>1 DEF NotMet, OffBarrier, AtBarrier
      <4> QED
        BY <3>1, <4>2
    <3>3. CASE pc[Owner] \in BeforeMeeting
      <4>1. pc'[Owner] \in BeforeMeeting \cup {"barrier_destroy", "stop_clear"}
        BY <1>8, <2>1, <3>3, ClientMoves
      <4>2. pc'[Owner] \in {"barrier_destroy", "stop_clear"} => Met(Owner)'
        BY <3>1 DEF NotMet
      <4> QED
        BY <4>1, <4>2 DEF BeforeMeeting
    <3> QED
      BY <2>5, <3>2, <3>3 DEF BeforeMeeting
  <2> QED
    BY <2>1, <2>2, <2>3, <2>4, <2>5 DEF serviceVars, AtBarrier
<1>9. CASE UNCHANGED allVars
  BY <1>9 DEF allVars, vars, serviceVars, localVars, Met, barrierVars
<1> QED
  BY <1>2, <1>3, <1>4, <1>5, <1>6, <1>7, <1>8, <1>9 DEF ServiceNext

(* With one owner, and if no handler stops the loop and epoll_wait() does  *)
(* not fail, the service can be stopped and destroyed whatever its other   *)
(* clients do: the owner's stop() and the loop's thread meet, neither is   *)
(* left alone in the barrier, and the destructor joins a thread that is on *)
(* its way out of a loop in which nothing runs any more.                   *)
THEOREM OwnerStopIsSafe ==
  ASSUME ~HandlersStop, ~WaitMayThrow
  PROVE  ServiceSpec => []StopIsSafe
<1>1. ServiceInit => ServiceTypeOK /\ StoppedInv
  BY DEF ServiceInit, Init, ServiceTypeOK, StoppedInv
<1>2. /\ TypeOK /\ WakeupInv /\ ExecutorInv /\ MeetInv(Owner)
      /\ (TypeOK /\ WakeupInv /\ ExecutorInv /\ MeetInv(Owner))'
      /\ ServiceTypeOK /\ StoppedInv /\ [ServiceNext]_allVars
      => ServiceTypeOK' /\ StoppedInv'
  BY StoppedStep
<1>3. ExecutorInv /\ MeetInv(Owner) /\ StoppedInv => JoinFindsLoopLeft
  <2> SUFFICES ASSUME ExecutorInv, MeetInv(Owner), StoppedInv, effective, owner # "idle"
               PROVE  /\ thr # "none"
                      /\ pc[LoopThread] \in {"barrier_destroy", "idle"}
                      /\ ~looping /\ batch = <<>> /\ waiting = {}
    BY DEF JoinFindsLoopLeft
  <2>1. Met(Owner) /\ thr # "none"
    BY DEF StoppedInv, AtBarrier
  <2>2. batch = <<>>
    BY <2>1 DEF Met, ExecutorInv, InBatch
  <2> QED
    BY <2>1, <2>2 DEF Met
<1>4. TypeOK /\ ExecutorInv /\ MeetInv(Owner) => StopSynchronises
  BY ServiceAssumption, MeetSynchronises
<1>5. TypeOK /\ WakeupInv /\ MeetInv(Owner) => StopNotStuck
  BY ServiceAssumption, MeetNotStuck DEF WakeupInv
<1>6. TypeOK /\ WakeupInv /\ ExecutorInv /\ MeetInv(Owner) /\ StoppedInv => StopIsSafe
  BY <1>3, <1>4, <1>5 DEF StopIsSafe
<1> QED
  BY <1>1, <1>2, <1>6, ServiceMeets, PTL DEF ServiceSpec

=============================================================================
