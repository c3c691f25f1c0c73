------------------------------ MODULE TimerQueue ------------------------------
(***************************************************************************)
(* timer_queue with monotonic_timer (KNGIN_USE_MONOTONIC_TIMER): a heap of *)
(* timers ordered by the moment they are due, whose minimum is how long    *)
(* event_loop::wait() may sleep.  Threads insert timers under              *)
(* timerq_mutex_, the loop takes out the ones that are due, runs their     *)
(* handlers without the mutex and puts the periodic ones back.             *)
(***************************************************************************)
EXTENDS Times

CONSTANTS
  QueueTimers,   \* the timers
  Callers,       \* threads other than the loop's
  MaxNow,        \* bound on the clock
  Forever        \* KNGIN_EVENT_LOOP_DEFAULT_DELAY

NoTimer == "none"

ASSUME TimerQueueAssumption ==
  /\ NoTimer \notin QueueTimers
  /\ MaxNow \in Nat
  /\ Forever \in Nat

VARIABLES
  now,        \* timestamp::monotonic()
  heap,       \* heap_: the timers it holds
  held,       \* ready_timers_, which keeps its timers alive until it is cleared
  ready,      \* those of held that process_ready_timers() has not reached
  current,    \* the timer whose handler runs or has just run
  tmo,        \* timeout_ of the timers
  closed,     \* closed_
  loop,       \* where the loop is
  delay,      \* what wait() passes to reactor_->wait(), then when that ends
  waker,      \* the reactor's eventfd is signalled
  captured,   \* the last wait() returned the waker's event
  stop,       \* stop_
  caller,     \* where the threads are in run_after() and run_every()
  started,    \* of the inserted timers: when they were due first, and the interval
  fired,      \* how often the handlers ran
  aborted     \* an assertion failed

timerVars == <<heap, held, ready, current, tmo, closed, started, fired>>
sleepVars == <<loop, delay, waker, captured, stop>>
queueVars == <<now, timerVars, sleepVars, caller, aborted>>

Inserted == DOMAIN started

TimerQueueInit ==
  /\ now = 0
  /\ heap = {} /\ held = {} /\ ready = {} /\ current = NoTimer
  /\ tmo = [t \in QueueTimers |-> Timeout(0, 0)]
  /\ closed = [t \in QueueTimers |-> FALSE]
  /\ loop = "tasks" /\ delay = 0 /\ waker = FALSE /\ captured = FALSE
  /\ stop = FALSE
  /\ caller = [c \in Callers |-> [at |-> "idle", timer |-> NoTimer]]
  /\ started = <<>>
  /\ fired = [t \in QueueTimers |-> 0]
  /\ aborted = FALSE

(* The shared_ptr in heap_ and ready_timers_ are what keeps a timer.       *)
Alive(t) == t \in heap \cup held \cup {current}

(* timer_queue::insert()                                                   *)
Insert(t, after, interval) ==
  /\ t \notin Inserted
  /\ tmo' = [tmo EXCEPT ![t] = Timeout(now + after, interval)]
  /\ heap' = heap \cup {t}
  /\ started' = [u \in Inserted \cup {t} |->
                   IF u = t THEN [due |-> now + after, interval |-> interval]
                   ELSE started[u]]

-----------------------------------------------------------------------------
(* The threads.                                                            *)

(* run_after(), run_every(): insert under the mutex ...                    *)
RunAfter(c, t, after, interval) ==
  /\ ~aborted /\ loop # "stopped"
  /\ caller[c].at = "idle"
  /\ Insert(t, after, interval)
  /\ caller' = [caller EXCEPT ![c] = [at |-> "wakeup", timer |-> t]]
  /\ UNCHANGED <<now, held, ready, current, closed, fired, sleepVars, aborted>>

(* Faulty variant: the loop is woken only while it is asleep.              *)
CallerWakesSleeper(c) ==
  /\ ~aborted
  /\ caller[c].at = "wakeup"
  /\ waker' = (waker \/ loop = "asleep")
  /\ caller' = [caller EXCEPT ![c].at = "id"]
  /\ UNCHANGED <<now, timerVars, loop, delay, captured, stop, aborted>>

(* ... wake the loop up, if it runs ...                                    *)
CallerWakes(c) ==
  /\ ~aborted
  /\ caller[c].at = "wakeup"
  /\ waker' = (waker \/ loop # "stopped")
  /\ caller' = [caller EXCEPT ![c].at = "id"]
  /\ UNCHANGED <<now, timerVars, loop, delay, captured, stop, aborted>>

(* ... and read the id from the timer, which the loop may have dropped.    *)
CallerReadsId(c) ==
  /\ ~aborted
  /\ caller[c].at = "id"
  /\ caller' = [caller EXCEPT ![c] = [at |-> "idle", timer |-> NoTimer]]
  /\ UNCHANGED <<now, timerVars, sleepVars, aborted>>

(* cancel() of a timer that lives: remove() closes it, and the assertion   *)
(* of sort() on a timer that was just made fails.                          *)
Cancel(t) ==
  /\ ~aborted
  /\ t \in Inserted /\ Alive(t)
  /\ tmo' = [tmo EXCEPT ![t] = TimeoutCleared]
  /\ closed' = [closed EXCEPT ![t] = TRUE]
  /\ aborted' = TRUE
  /\ UNCHANGED <<now, heap, held, ready, current, started, fired, sleepVars,
                 caller>>

Tick ==
  /\ ~aborted /\ now < MaxNow
  /\ loop # "delayed"
  /\ now' = now + 1
  /\ UNCHANGED <<timerVars, sleepVars, caller, aborted>>

-----------------------------------------------------------------------------
(* The loop.                                                               *)

(* event_loop::wait(): min_delay() under the mutex ...                     *)
ComputeDelay ==
  /\ ~aborted /\ loop = "tasks" /\ ~stop
  /\ delay' = IF heap = {} THEN Forever
              ELSE CHOOSE d \in {Remaining(tmo[t], now) : t \in heap} :
                     \A t \in heap : d <= Remaining(tmo[t], now)
  /\ loop' = "delayed"
  /\ UNCHANGED <<now, timerVars, waker, captured, stop, caller, aborted>>

(* ... then reactor_->wait(), until the waker is signalled or the delay is *)
(* over.  The time between the two is not counted.                         *)
FallAsleep ==
  /\ ~aborted /\ loop = "delayed"
  /\ loop' = "asleep"
  /\ delay' = now + delay
  /\ UNCHANGED <<now, timerVars, waker, captured, stop, caller, aborted>>

Awake ==
  /\ ~aborted /\ loop = "asleep"
  /\ waker \/ now >= delay
  /\ loop' = "events"
  /\ captured' = waker
  /\ delay' = 0
  /\ UNCHANGED <<now, timerVars, waker, stop, caller, aborted>>

(* on_wakeup() reads the eventfd within wait(), after which stop_ is       *)
(* tested.                                                                 *)
ReadWaker ==
  /\ ~aborted /\ loop = "events"
  /\ waker' = (waker /\ ~captured)
  /\ captured' = FALSE
  /\ loop' = IF stop THEN "stopped" ELSE "timers"
  /\ UNCHANGED <<now, timerVars, delay, stop, caller, aborted>>

(* get_ready_timers(): what is due is taken out of the heap.               *)
GetReadyTimers ==
  /\ ~aborted /\ loop = "timers"
  /\ LET due == {t \in heap : TimedOut(tmo[t], now)}
     IN  /\ heap' = heap \ due
         /\ held' = {t \in due : ~closed[t]}
         /\ ready' = held'
  /\ loop' = "ready"
  /\ UNCHANGED <<now, current, tmo, closed, started, fired, delay, waker,
                 captured, stop, caller, aborted>>

(* process_ready_timers(): the handler of the next timer, in the order in  *)
(* which the heap gave them; it may insert a timer, or stop the loop,      *)
(* which empties the heap; the other timers of the round are not spared.   *)
Fire(t) ==
  /\ ~aborted /\ loop = "ready" /\ t \in ready
  /\ \A u \in ready : tmo[t].next <= tmo[u].next
  /\ ready' = ready \ {t}
  /\ fired' = [fired EXCEPT ![t] = @ + 1]
  /\ current' = t
  /\ \/ UNCHANGED <<heap, tmo, started, stop>>
     \/ \E u \in QueueTimers, after \in 0..1 : Insert(u, after, 0) /\ UNCHANGED stop
     \/ heap' = {} /\ stop' = TRUE /\ UNCHANGED <<tmo, started>>
  /\ loop' = "fired"
  /\ UNCHANGED <<now, held, closed, delay, waker, captured, caller, aborted>>

(* Faulty variant: a timer that fired late is not put back.                *)
RequeueInTime ==
  /\ ~aborted /\ loop = "fired"
  /\ \/ /\ Persist(tmo[current])
        /\ tmo' = [tmo EXCEPT ![current] = Updated(@)]
        /\ heap' = IF Updated(tmo[current]).next > now
                   THEN heap \cup {current} ELSE heap
        /\ UNCHANGED closed
     \/ /\ ~Persist(tmo[current])
        /\ tmo' = [tmo EXCEPT ![current] = TimeoutCleared]
        /\ closed' = [closed EXCEPT ![current] = TRUE]
        /\ UNCHANGED heap
  /\ current' = NoTimer
  /\ loop' = "ready"
  /\ UNCHANGED <<now, held, ready, started, fired, delay, waker, captured,
                 stop, caller, aborted>>

(* A periodic timer goes back to the heap, due one interval after it was   *)
(* due before, also when its handler has stopped the loop; any other one is*)
(* closed.                                                                 *)
Requeue ==
  /\ ~aborted /\ loop = "fired"
  /\ \/ /\ Persist(tmo[current])
        /\ tmo' = [tmo EXCEPT ![current] = Updated(@)]
        /\ heap' = heap \cup {current}
        /\ UNCHANGED closed
     \/ /\ ~Persist(tmo[current])
        /\ tmo' = [tmo EXCEPT ![current] = TimeoutCleared]
        /\ closed' = [closed EXCEPT ![current] = TRUE]
        /\ UNCHANGED heap
  /\ current' = NoTimer
  /\ loop' = "ready"
  /\ UNCHANGED <<now, held, ready, started, fired, delay, waker, captured,
                 stop, caller, aborted>>

EndOfRound ==
  /\ ~aborted /\ loop = "ready" /\ ready = {}
  /\ loop' = IF stop THEN "stopped" ELSE "tasks"
  /\ UNCHANGED <<now, timerVars, delay, waker, captured, stop, caller, aborted>>

-----------------------------------------------------------------------------
(* stop().                                                                 *)

(* A task, or the handler of an event before the timers, calls it; that of *)
(* a timer does in Fire.                                                   *)
StopInLoop ==
  /\ ~aborted /\ loop \in {"tasks", "timers"}
  /\ stop' = TRUE
  /\ heap' = {}
  /\ UNCHANGED <<now, held, ready, current, tmo, closed, started, fired, loop,
                 delay, waker, captured, caller, aborted>>

(* Another thread calls it: it wakes the loop, waits until run() is left,  *)
StopOutside ==
  /\ ~aborted /\ loop # "stopped" /\ ~stop
  /\ stop' = TRUE
  /\ waker' = TRUE
  /\ UNCHANGED <<now, timerVars, loop, delay, captured, caller, aborted>>

(* which the loop does after its tasks, ...                                *)
LeaveAfterTasks ==
  /\ ~aborted /\ loop = "tasks" /\ stop
  /\ loop' = "stopped"
  /\ UNCHANGED <<now, timerVars, delay, waker, captured, stop, caller, aborted>>

(* ... and clears the queue.                                               *)
ClearTimers ==
  /\ ~aborted /\ loop = "stopped" /\ heap # {}
  /\ heap' = {}
  /\ UNCHANGED <<now, held, ready, current, tmo, closed, started, fired,
                 sleepVars, caller, aborted>>

TimerQueueNext ==
  \/ \E c \in Callers :
       \/ \E t \in QueueTimers, after, interval \in 0..1 : RunAfter(c, t, after, interval)
       \/ CallerWakes(c) \/ CallerReadsId(c)
  \/ \E t \in QueueTimers : Cancel(t) \/ Fire(t)
  \/ Tick \/ ComputeDelay \/ FallAsleep \/ Awake \/ ReadWaker
  \/ GetReadyTimers \/ Requeue \/ EndOfRound
  \/ StopInLoop \/ StopOutside \/ LeaveAfterTasks \/ ClearTimers

TimerQueueSpec == TimerQueueInit /\ [][TimerQueueNext]_queueVars

-----------------------------------------------------------------------------
(* The loop never sleeps past a timer of the heap unless it is about to be *)
(* woken.                                                                  *)
NoTimerOverslept ==
  loop = "asleep" /\ now < delay =>
    \A t \in heap : \/ delay <= tmo[t].next
                    \/ waker
                    \/ \E c \in Callers : caller[c] = [at |-> "wakeup", timer |-> t]

(* A timer fires as often as its interval says and never early; until it   *)
(* is closed it waits in exactly one place, or the loop is being stopped.  *)
FiredOnTime ==
  \A t \in Inserted :
    LET s == started[t]
    IN  /\ fired[t] > 0 => now >= s.due + (fired[t] - 1) * s.interval
        /\ s.interval = 0 => fired[t] <= 1
        /\ ~closed[t] /\ ~stop =>
             /\ t \in heap \cup ready \cup {current}
             /\ heap \cap ready = {} /\ current \notin heap \cup ready

(* run_after() reads the id of a timer that was already freed only if that *)
(* timer has fired and will not fire again, or the loop was stopped.       *)
IdOfLivingTimer ==
  \A c \in Callers :
    caller[c].at # "idle" =>
      LET t == caller[c].timer
      IN  Alive(t) \/ (fired[t] = 1 /\ closed[t]) \/ stop

(* With other threads inserting timers at any moment.                      *)
TimersServed ==
  ~aborted => NoTimerOverslept /\ FiredOnTime /\ IdOfLivingTimer

=============================================================================
