-------------------------------- MODULE Timers --------------------------------
(***************************************************************************)
(* The timers of an event loop in the build that uses timerfd: the timer   *)
(* queue, run_after(), run_every() and run_at(), cancel(), the expiry of a *)
(* timer through the epoll reactor and timerfd_timer::on_events(), and the *)
(* clearing of the queue by stop().                                        *)
(*                                                                         *)
(* The loop thread inserts and cancels timers in tasks and handlers; other *)
(* threads insert them.  Timers live as long as a shared pointer to them:  *)
(* that of the queue, and the one on_events() holds while it runs.  Where  *)
(* process_events() calls on_events() of a timer that was freed, the       *)
(* program is at the label "dangling".  The assertions are enabled, as in  *)
(* the Debug build: where one fails, it is at the label "aborted".         *)
(***************************************************************************)
EXTENDS Naturals, Sequences, FiniteSets, SequencesExt

CONSTANTS
  Timers,            \* the timers; each is inserted at most once
  Clients,           \* the other threads
  Nothing,           \* no timer
  MaxTicks           \* bound: expirations of all timers in a behaviour

ASSUME TimersAssumption ==
  /\ Nothing \notin Timers
  /\ MaxTicks \in Nat

VARIABLES
  kind,       \* "new", then "once" or "every": timeout_.persist()
  heap,       \* heap_: the timers of the queue
  registed,   \* registed_ of the timer's event, and its place in epoll
  open,       \* the timerfd is open
  readable,   \* the timerfd has an expiration that was not read
  ready,      \* the epoll instance: edges not yet reported
  active,     \* actived_events_
  pos,        \* the entry of active process_events() is at
  pc,         \* the statement the loop thread executes next
  stop,       \* stop_
  inserting,  \* inserting[c]: the timer client c is in run_after() for
  step,       \* step[c]: where it is
  ticks,      \* expirations so far
  fired,      \* history: how often the handler of a timer has started
  dropped     \* history: the timers that handlers of this round have removed

queueVars == <<kind, heap>>
kernelVars == <<registed, open, readable, ready>>
roundVars == <<active, pos>>
clientVars == <<inserting, step>>
histVars == <<fired, dropped>>
vars == <<queueVars, kernelVars, roundVars, pc, stop, clientVars, ticks, histVars>>

TypeOK ==
  /\ kind \in [Timers -> {"new", "once", "every"}]
  /\ heap \subseteq Timers
  /\ registed \in [Timers -> BOOLEAN]
  /\ open \in [Timers -> BOOLEAN]
  /\ readable \in [Timers -> BOOLEAN]
  /\ ready \subseteq {t \in Timers : registed[t]}
  /\ active \in Seq(Timers)
  /\ pos \in 0 .. Len(active)
  /\ pc \in {"idle", "next", "read", "handler", "after", "left",
             "dangling", "aborted"}
  /\ stop \in BOOLEAN
  /\ inserting \in [Clients -> Timers \cup {Nothing}]
  /\ step \in [Clients -> {"idle", "register", "id"}]
  /\ ticks \in 0 .. MaxTicks
  /\ fired \in [Timers -> 0 .. MaxTicks]
  /\ dropped \subseteq Timers

Init ==
  /\ kind = [t \in Timers |-> "new"]
  /\ heap = {}
  /\ registed = [t \in Timers |-> FALSE]
  /\ open = [t \in Timers |-> FALSE]
  /\ readable = [t \in Timers |-> FALSE]
  /\ ready = {}
  /\ active = <<>>
  /\ pos = 0
  /\ pc = "idle"
  /\ stop = FALSE
  /\ inserting = [c \in Clients |-> Nothing]
  /\ step = [c \in Clients |-> "idle"]
  /\ ticks = 0
  /\ fired = [t \in Timers |-> 0]
  /\ dropped = {}

(* The timer of the entry process_events() is at.                          *)
Current == active[pos]

(* A pointer to a timer that was freed is used, or an assertion has failed.*)
Crashed == pc \in {"dangling", "aborted"}

-----------------------------------------------------------------------------
(* run_after(), run_every(), run_at().                                     *)

(* timer_queue::insert(): the timer is made, armed and put in the queue.   *)
InsertInQueue(t, k) ==
  /\ kind[t] = "new"
  /\ kind' = [kind EXCEPT ![t] = k]
  /\ heap' = heap \cup {t}
  /\ open' = [open EXCEPT ![t] = TRUE]

(* register_event(): a timerfd that is readable by then gives an edge.     *)
AddToEpoll(t) ==
  /\ registed' = [registed EXCEPT ![t] = TRUE]
  /\ ready' = IF readable[t] THEN ready \cup {t} ELSE ready

(* A task or a handler of the loop inserts a timer.                        *)
Insert(t, k) ==
  /\ pc \in {"idle", "handler"}
  /\ InsertInQueue(t, k)
  /\ AddToEpoll(t)
  /\ UNCHANGED <<readable, roundVars, pc, stop, clientVars, ticks, histVars>>

(* Another thread does, in three steps: the queue under its mutex, ...     *)
ClientInsert(c, t, k) ==
  /\ step[c] = "idle"
  /\ ~Crashed
  /\ InsertInQueue(t, k)
  /\ inserting' = [inserting EXCEPT ![c] = t]
  /\ step' = [step EXCEPT ![c] = "register"]
  /\ UNCHANGED <<registed, readable, ready, roundVars, pc, stop, ticks, histVars>>

(* ... the registration, ...                                               *)
ClientRegister(c) ==
  /\ step[c] = "register"
  /\ ~Crashed
  /\ AddToEpoll(inserting[c])
  /\ step' = [step EXCEPT ![c] = "id"]
  /\ UNCHANGED <<queueVars, open, readable, roundVars, pc, stop, inserting,
                 ticks, histVars>>

(* ... and the read of id(), of a timer the loop may have freed.           *)
ClientReturn(c) ==
  /\ step[c] = "id"
  /\ inserting' = [inserting EXCEPT ![c] = Nothing]
  /\ step' = [step EXCEPT ![c] = "idle"]
  /\ UNCHANGED <<queueVars, kernelVars, roundVars, pc, stop, ticks, histVars>>

-----------------------------------------------------------------------------
(* cancel() and the removal of timers, on the loop thread.                 *)

(* The events of the timers of S leave the epoll instance, their timerfds  *)
(* are closed and they leave the queue.  Entries of actived_events_ stay.  *)
RemoveTimers(S) ==
  /\ registed' = [t \in Timers |-> registed[t] /\ t \notin S]
  /\ open' = [t \in Timers |-> open[t] /\ t \notin S]
  /\ readable' = [t \in Timers |-> readable[t] /\ t \notin S]
  /\ ready' = ready \ S
  /\ heap' = heap \ S

(* remove_event() asserts that each of them is registered; then the loop   *)
(* thread is at the label next.                                            *)
RemoveChecked(S, next) ==
  IF \A t \in S : registed[t]
    THEN RemoveTimers(S) /\ pc' = next
    ELSE UNCHANGED <<heap, kernelVars>> /\ pc' = "aborted"

(* A task or a handler, of this timer or of another, cancels a timer;      *)
(* cancel() does nothing with one that is not registered (any more).       *)
Cancel(t) ==
  /\ pc \in {"idle", "handler"}
  /\ t \in heap
  /\ registed[t]
  /\ RemoveChecked({t}, pc)
  /\ dropped' = IF pc = "handler" THEN dropped \cup {t} ELSE dropped
  /\ UNCHANGED <<kind, roundVars, stop, clientVars, ticks, fired>>

(* stop() in a task or a handler clears the queue, a timer that another    *)
(* thread has not registered yet included.  It takes the timers out of the *)
(* round as well, which is left before its next entry anyway.              *)
Stop ==
  /\ pc \in {"idle", "handler"}
  /\ stop' = TRUE
  /\ RemoveChecked(heap, IF pc = "idle" THEN "left" ELSE pc)
  /\ dropped' = IF pc = "handler" THEN dropped \cup heap ELSE dropped
  /\ UNCHANGED <<kind, roundVars, clientVars, ticks, fired>>

-----------------------------------------------------------------------------
(* Expiry.                                                                 *)

(* The clock: a one-shot timer expires once, a periodic one again and      *)
(* again; expirations that are not read add up.                            *)
Expire(t) ==
  /\ ticks < MaxTicks
  /\ open[t]
  /\ kind[t] = "once" => fired[t] = 0 /\ ~readable[t]
  /\ ticks' = ticks + 1
  /\ readable' = [readable EXCEPT ![t] = TRUE]
  /\ ready' = IF registed[t] THEN ready \cup {t} ELSE ready
  /\ UNCHANGED <<queueVars, registed, open, roundVars, pc, stop, clientVars, histVars>>

(* epoll_wait() reports all edges, in some order.                          *)
Wait ==
  /\ pc = "idle"
  /\ ready # {}
  /\ active' \in SetToSeqs(ready)
  /\ ready' = {}
  /\ pc' = "next"
  /\ UNCHANGED <<queueVars, registed, open, readable, pos, stop, clientVars,
                 ticks, histVars>>

(* process_events(): the next entry, whose timer on_events() is called for *)
(* without a look at its state, unless stop_ was set meanwhile.  A timer   *)
(* that has left the queue by then has been freed.                         *)
NextEntry ==
  /\ pc = "next"
  /\ pos < Len(active)
  /\ ~stop
  /\ pos' = pos + 1
  /\ pc' = IF active[pos'] \in heap THEN "read" ELSE "dangling"
  /\ UNCHANGED <<queueVars, kernelVars, active, stop, clientVars, ticks, histVars>>

(* Faulty variant: the first entry alone is handled.                       *)
RoundDoneAtOnce ==
  /\ pc = "next"
  /\ pos > 0
  /\ active' = <<>>
  /\ pos' = 0
  /\ pc' = IF stop THEN "left" ELSE "idle"
  /\ dropped' = {}
  /\ UNCHANGED <<queueVars, kernelVars, stop, clientVars, ticks, fired>>

RoundDone ==
  /\ pc = "next"
  /\ pos = Len(active) \/ stop
  /\ active' = <<>>
  /\ pos' = 0
  /\ pc' = IF stop THEN "left" ELSE "idle"
  /\ dropped' = {}
  /\ UNCHANGED <<queueVars, kernelVars, stop, clientVars, ticks, fired>>

(* The loop of on_events(): a read of the timerfd, which asserts that it   *)
(* is open, and the handler; EAGAIN ends the loop.                         *)
Read ==
  /\ pc = "read"
  /\ pc' = CASE ~open[Current]    -> "aborted"
             [] readable[Current] -> "handler"
             [] OTHER             -> "next"
  /\ readable' = [readable EXCEPT ![Current] = FALSE]
  /\ fired' = IF pc' = "handler" THEN [fired EXCEPT ![Current] = @ + 1] ELSE fired
  /\ UNCHANGED <<queueVars, registed, open, ready, roundVars, stop, clientVars,
                 ticks, dropped>>

HandlerReturns ==
  /\ pc = "handler"
  /\ pc' = "after"
  /\ UNCHANGED <<queueVars, kernelVars, roundVars, stop, clientVars, ticks, histVars>>

(* Faulty variant: a one-shot timer is cancelled whatever its handler did. *)
AfterHandlerUnchecked ==
  /\ pc = "after"
  /\ IF kind[Current] = "once"
       THEN RemoveChecked({Current}, "next")
       ELSE UNCHANGED <<heap, kernelVars>> /\ pc' = "read"
  /\ UNCHANGED <<kind, roundVars, stop, clientVars, ticks, histVars>>

(* A one-shot timer is cancelled, unless its handler has done so, and the  *)
(* loop is left; a periodic one is read again.                             *)
AfterHandler ==
  /\ pc = "after"
  /\ IF kind[Current] = "once" /\ registed[Current]
       THEN RemoveChecked({Current}, "next")
       ELSE /\ UNCHANGED <<heap, kernelVars>>
            /\ pc' = IF kind[Current] = "every" THEN "read" ELSE "next"
  /\ UNCHANGED <<kind, roundVars, stop, clientVars, ticks, histVars>>

LoopStep ==
  Wait \/ NextEntry \/ RoundDone \/ Read \/ HandlerReturns \/ AfterHandler

Next ==
  \/ LoopStep
  \/ Stop
  \/ \E t \in Timers : Cancel(t) \/ Expire(t)
  \/ \E t \in Timers, k \in {"once", "every"} :
       Insert(t, k) \/ \E c \in Clients : ClientInsert(c, t, k)
  \/ \E c \in Clients : ClientRegister(c) \/ ClientReturn(c)

Spec == Init /\ [][Next]_vars

(* The loop thread runs and handlers return; a client that has begun to    *)
(* insert a timer goes on.                                                 *)
FairSpec ==
  /\ Spec
  /\ WF_vars(LoopStep)
  /\ \A c \in Clients : WF_vars(ClientRegister(c))

-----------------------------------------------------------------------------
(* Safety.                                                                 *)

(* Between two rounds the three records of a timer agree: it is in the     *)
(* queue, its event is registered and its timerfd open, or none of them;   *)
(* neither an expiry, nor cancel(), nor stop() leaves a timer half removed,*)
(* and a one-shot timer that has fired is gone.                            *)
TimersConsistent ==
  pc \in {"idle", "left"}
    => \A t \in Timers :
         /\ t \in heap <=> open[t]
         /\ registed[t] => t \in heap
         /\ t \in heap /\ ~registed[t] => \E c \in Clients : inserting[c] = t
         /\ ~(t \in heap /\ kind[t] = "once" /\ fired[t] > 0)

(* A timer that an entry of the round still refers to is freed by nobody   *)
(* but a handler of the same round, which has cancelled it or stopped the  *)
(* loop: no expiry, no other timer's removal and no other thread does.     *)
EntriesAlive ==
  \A i \in DOMAIN active :
    i > pos \/ (i = pos /\ pc \in {"read", "dangling"})
      => active[i] \in heap \cup dropped

(* The assertions fail in two cases only: stop() meets a timer that another*)
(* thread has queued and not registered, or the handler of a periodic timer*)
(* has closed it.  No timer is removed twice: not by the cancel after its  *)
(* handler, and not by a stop() after a cancel().                          *)
FailuresKnown ==
  pc = "aborted" => \/ stop /\ \E t \in heap : ~registed[t]
                    \/ pos > 0 /\ kind[Current] = "every" /\ ~open[Current]

(* Between rounds and during them, the records of the timers in queue,     *)
(* reactor and kernel, and the entries of the round, fit together.         *)
TimersSound == TimersConsistent /\ EntriesAlive /\ FailuresKnown

(* descriptor::read() asserts that the handle is valid; the handler of a   *)
(* timer may have closed it.                                               *)
ReadHandleValid == pc = "read" => open[Current]

-----------------------------------------------------------------------------
(* Liveness.                                                               *)

(* A timer that has expired is handled, although its edge is reported only *)
(* once and may be older than its registration, unless it is cancelled or  *)
(* the loop has stopped or crashed.                                        *)
ExpiredIsHandled ==
  \A t \in Timers :
    readable[t] ~> (t \notin heap \/ stop \/ Crashed \/ (pc = "handler" /\ Current = t))

=============================================================================
