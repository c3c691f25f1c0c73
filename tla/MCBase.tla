------------------------------- MODULE MCBase -------------------------------
(***************************************************************************)
(* The building blocks below the event loop and the streams, for TLC: the  *)
(* lists and the object manager, buffers, sockets, locks, threads, the     *)
(* barrier of Windows, the timer queue and the listener.  They share no    *)
(* state, so a behaviour is one of a single one of them, chosen at its     *)
(* start, and the states to visit are those of the modules side by side.   *)
(***************************************************************************)
EXTENDS ObjMgr, KernelList, Buffers, Sockets, Locks, Threads, TimerQueue,
        Listener, WinBarrier

CONSTANTS n1, n2, n3, n4, n5, n6, n7, o1, o2, o3

VARIABLE part

Parts == {"manager", "lists", "buffers", "sockets", "locks", "threads",
          "timers", "listener", "barrier"}

(* Only the part that was chosen has all of its initial states.            *)
BaseInit ==
  /\ part \in Parts
  /\ Init /\ (part # "manager" => free = {n1})
  /\ LocksInit /\ (part # "locks" => platform = "posix" /\ kind = "mutex")
  /\ ListInit /\ BuffersInit /\ SocketsInit
  /\ ThreadsInit /\ TimerQueueInit /\ ListenerInit /\ WinBarrierInit

BaseNext ==
  /\ UNCHANGED part
  /\ \/ /\ part = "manager" /\ Next
        /\ UNCHANGED <<listVars, bufferVars, sockVars, lockVars, threadVars,
                       queueVars, listenerVars, barrierVars>>
     \/ /\ part = "lists" /\ ListNext
        /\ UNCHANGED <<vars, bufferVars, sockVars, lockVars, threadVars,
                       queueVars, listenerVars, barrierVars>>
     \/ /\ part = "buffers" /\ BuffersNext
        /\ UNCHANGED <<vars, listVars, sockVars, lockVars, threadVars,
                       queueVars, listenerVars, barrierVars>>
     \/ /\ part = "sockets" /\ SocketsNext
        /\ UNCHANGED <<vars, listVars, bufferVars, lockVars, threadVars,
                       queueVars, listenerVars, barrierVars>>
     \/ /\ part = "locks" /\ LocksNext
        /\ UNCHANGED <<vars, listVars, bufferVars, sockVars, threadVars,
                       queueVars, listenerVars, barrierVars>>
     \/ /\ part = "threads" /\ ThreadsNext
        /\ UNCHANGED <<vars, listVars, bufferVars, sockVars, lockVars,
                       queueVars, listenerVars, barrierVars>>
     \/ /\ part = "timers" /\ TimerQueueNext
        /\ UNCHANGED <<vars, listVars, bufferVars, sockVars, lockVars,
                       threadVars, listenerVars, barrierVars>>
     \/ /\ part = "listener" /\ ListenerNext
        /\ UNCHANGED <<vars, listVars, bufferVars, sockVars, lockVars,
                       threadVars, queueVars, barrierVars>>
     \/ /\ part = "barrier" /\ WinBarrierNext
        /\ UNCHANGED <<vars, listVars, bufferVars, sockVars, lockVars,
                       threadVars, queueVars, listenerVars>>

baseVars == <<part, vars, listVars, bufferVars, sockVars, lockVars, threadVars,
              queueVars, listenerVars, barrierVars>>

(* The listener is the part with a liveness property.                      *)
BaseSpec ==
  BaseInit /\ [][BaseNext]_baseVars /\ WF_listenerVars(LoopStep)

=============================================================================
