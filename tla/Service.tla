------------------------------- MODULE Service -------------------------------
(***************************************************************************)
(* service (net/service.cpp): the owner of an event loop and of the thread *)
(* that runs it.  One of the clients of EventLoop is the owner: it calls   *)
(* run(), stop() and the destructor, which joins the thread; the others    *)
(* use the loop.                                                           *)
(***************************************************************************)
EXTENDS EventLoop

CONSTANT Owner  \* the client that owns the service

ASSUME ServiceAssumption == Owner \in Clients

VARIABLES
  owner,     \* what the owner is doing
  thr,       \* thr_: "none", "started", or "ended" when run() has returned
  effective  \* history: a stop() of the owner found looping_ set

serviceVars == <<owner, thr, effective>>

ServiceTypeOK ==
  /\ owner \in {"idle", "joining", "done"}
  /\ thr \in {"none", "started", "ended"}
  /\ effective \in BOOLEAN

ServiceInit ==
  /\ Init
  /\ owner = "idle"
  /\ thr = "none"
  /\ effective = FALSE

(* run(): a thread is created that calls loop_.run().                      *)
OwnerRun ==
  /\ owner = "idle" /\ pc[Owner] = "idle"
  /\ thr = "none"
  /\ thr' = "started"
  /\ UNCHANGED <<vars, owner, effective>>

(* The new thread enters loop_.run(), ...                                  *)
ThreadRuns ==
  /\ thr = "started" /\ runs = 0
  /\ RunBegin
  /\ UNCHANGED serviceVars

(* ... and ends when it returns.                                           *)
ThreadEnds ==
  /\ thr = "started" /\ runs = 1
  /\ pc[LoopThread] = "idle"
  /\ thr' = "ended"
  /\ UNCHANGED <<vars, owner, effective>>

(* stop() passes on to the loop if the loop has set looping_; otherwise it *)
(* returns without an effect.                                              *)
OwnerStop ==
  /\ owner = "idle"
  /\ CallStop(Owner)
  /\ effective' = TRUE
  /\ UNCHANGED <<owner, thr>>

(* The destructor; without a thread it would use a null pointer.           *)
Destroy ==
  /\ owner = "idle" /\ pc[Owner] = "idle"
  /\ thr # "none"
  /\ owner' = "joining"
  /\ UNCHANGED <<vars, thr, effective>>

(* join() returns when the thread has ended; the loop's destructor calls   *)
(* stop() once more, which finds looping_ reset.                           *)
Join ==
  /\ owner = "joining"
  /\ thr = "ended"
  /\ owner' = "done"
  /\ UNCHANGED <<vars, thr, effective>>

(* The other clients call the loop until it is gone; calls that have begun *)
(* go on.                                                                  *)
Use(c) ==
  /\ owner # "done"
  /\ c # Owner \/ owner = "idle"
  /\ RunInLoop(c) \/ CallWakeup(c)
  /\ UNCHANGED serviceVars

Inner ==
  /\ LoopStep \/ LoopChoice \/ HandlerReturn \/ \E c \in Clients : ClientStep(c)
  /\ UNCHANGED serviceVars

ServiceNext ==
  \/ OwnerRun \/ ThreadRuns \/ ThreadEnds \/ OwnerStop \/ Destroy \/ Join
  \/ Inner
  \/ \E c \in Clients : Use(c)

allVars == <<vars, serviceVars>>

ServiceSpec == ServiceInit /\ [][ServiceNext]_allVars

(* The fairness of EventLoop; a thread that was created starts, and ends.  *)
FairServiceSpec ==
  /\ ServiceSpec
  /\ WF_allVars(ThreadRuns) /\ WF_allVars(ThreadEnds) /\ WF_allVars(Join)
  /\ WF_allVars(LoopStep /\ UNCHANGED serviceVars)
  /\ SF_allVars(HandlerReturn /\ UNCHANGED serviceVars)
  /\ \A c \in Clients : WF_allVars(ClientStep(c) /\ UNCHANGED serviceVars)

-----------------------------------------------------------------------------
(* After a stop() that had an effect the destructor has no task or handler *)
(* to wait for, and none of them can run when the loop is destroyed: the   *)
(* loop has been left, and its thread is held up by nobody.                *)
JoinFindsLoopLeft ==
  effective /\ owner # "idle"
    => /\ thr # "none"
       /\ pc[LoopThread] \in {"barrier_destroy", "idle"}
       /\ ~looping /\ batch = <<>> /\ waiting = {}

(* The owner can stop and destroy the service at any time: its stop() and  *)
(* run() meet, neither is stuck, and the destructor comes after both.      *)
StopIsSafe == StopSynchronises /\ StopNotStuck /\ JoinFindsLoopLeft

(* The inductive invariant behind JoinFindsLoopLeft: the owner comes out   *)
(* of its stop() only when it has met the loop.                            *)
StoppedInv ==
  /\ owner # "idle" => thr # "none" /\ pc[Owner] = "idle"
  /\ thr = "ended" => runs = 1 /\ pc[LoopThread] = "idle"
  /\ thr = "none" => runs = 0
  /\ effective => Met(Owner) \/ pc[Owner] \in
        AtBarrier \cup {"stop_set", "stop_wakeup", "stop_write"}

-----------------------------------------------------------------------------
(* The destructor returns if a stop() of the owner came after the loop had *)
(* set looping_: nothing the other threads do keeps the loop running.  (A  *)
(* stop() that came before has no effect and the destructor waits for      *)
(* ever.)                                                                  *)
JoinReturns == owner = "joining" /\ effective ~> owner = "done"

(* stop() of the owner and run() of the loop both return, whatever the     *)
(* other client has posted in between.                                     *)
StopCompletes == StopReturns /\ RunReturns

=============================================================================
