----------------------------- MODULE AsyncLogger -----------------------------
(***************************************************************************)
(* The asynchronous logger (logger.cpp with KNGIN_USE_ASYNC_LOGGER): the   *)
(* threads that post records, the log thread that writes them, and the     *)
(* thread that ends the logger with deinit().  They share a queue, a mutex *)
(* and a condition variable (posix_cond.h).                                *)
(*                                                                         *)
(* A critical section without a wait is one step.  The log thread holds    *)
(* the mutex from "check" on until it waits or has taken a record.         *)
(***************************************************************************)
EXTENDS Naturals, Sequences, Functions

CONSTANTS
  Writers,        \* the threads that post records
  CallbackPosts,  \* may the callback of a log file post records itself?
  MaxRecords      \* bound: records posted in a behaviour

ASSUME LoggerAssumption ==
  /\ CallbackPosts \in BOOLEAN
  /\ MaxRecords \in Nat

VARIABLES
  log_dataq,  \* log_dataq_, oldest record first (the code pushes at the
              \* front and pops at the back)
  stop,       \* stop_
  data,       \* data of log_thread(): the record it points to, 0 for nullptr
  at,         \* where the log thread is
  pc,         \* pc[w]: writer w has pushed and is about to "signal", or "idle"
  main,       \* where deinit() is
  next,       \* history: records are numbered in the order they are pushed
  written,    \* history: the records write_log() was called with, in order
  before      \* history: next when stop_ was set

vars == <<log_dataq, stop, data, at, pc, main, next, written, before>>

Records == 1 .. MaxRecords

TypeOK ==
  /\ log_dataq \in Seq(Records)
  /\ stop \in BOOLEAN
  /\ data \in 0 .. MaxRecords
  /\ at \in {"lock", "check", "block", "waiting", "woken", "write", "done"}
  /\ pc \in [Writers -> {"idle", "signal"}]
  /\ main \in {"running", "lock", "signal", "join", "joined", "released"}
  /\ next \in 1 .. MaxRecords + 1
  /\ written \in Seq(Records)
  /\ Len(written) \in 0 .. MaxRecords
  /\ before \in 1 .. MaxRecords + 1

Init ==
  /\ log_dataq = <<>>
  /\ stop = FALSE
  /\ data = 0
  /\ at = "lock"
  /\ pc = [w \in Writers |-> "idle"]
  /\ main = "running"
  /\ next = 1
  /\ written = <<>>
  /\ before = 1

(* The mutex is free.                                                      *)
Unlocked == at \notin {"check", "block"}

Push ==
  /\ next <= MaxRecords
  /\ log_dataq' = Append(log_dataq, next)
  /\ next' = next + 1

(* cond_->signal(): a waiting log thread is woken; otherwise nothing.      *)
Signal == at' = IF at = "waiting" THEN "woken" ELSE at

-----------------------------------------------------------------------------
(* post_log().                                                             *)

Post(w) ==
  /\ pc[w] = "idle"
  /\ main # "released"
  /\ Unlocked
  /\ Push
  /\ pc' = [pc EXCEPT ![w] = "signal"]
  /\ UNCHANGED <<stop, data, at, main, written, before>>

(* Faulty variant: the log thread is not signalled.                        *)
SignalPostedNever(w) ==
  /\ pc[w] = "signal"
  /\ pc' = [pc EXCEPT ![w] = "idle"]
  /\ UNCHANGED <<log_dataq, stop, data, at, main, next, written, before>>

SignalPosted(w) ==
  /\ pc[w] = "signal"
  /\ Signal
  /\ pc' = [pc EXCEPT ![w] = "idle"]
  /\ UNCHANGED <<log_dataq, stop, data, main, next, written, before>>

(* post_log() in the callback of a log file, on the log thread: nobody     *)
(* waits for its signal.                                                   *)
CallbackPost ==
  /\ at = "write"
  /\ CallbackPosts
  /\ Push
  /\ UNCHANGED <<stop, data, at, pc, main, written, before>>

-----------------------------------------------------------------------------
(* log_thread().                                                           *)

(* Faulty variant: the record that was written stays in the queue.         *)
LockKeepsWritten ==
  /\ at = "lock"
  /\ at' = "check"
  /\ data' = 0
  /\ UNCHANGED <<log_dataq, stop, pc, main, next, written, before>>

(* Lock the mutex; the record that was written is removed.                 *)
Lock ==
  /\ at = "lock"
  /\ at' = "check"
  /\ log_dataq' = IF data # 0 THEN Tail(log_dataq) ELSE log_dataq
  /\ data' = 0
  /\ UNCHANGED <<stop, pc, main, next, written, before>>

(* Wait while there is nothing to do.                                      *)
CheckEmpty ==
  /\ at = "check"
  /\ log_dataq = <<>>
  /\ ~stop
  /\ at' = "block"
  /\ UNCHANGED <<log_dataq, stop, data, pc, main, next, written, before>>

(* timed_wait() releases the mutex and blocks in one step ...              *)
Block ==
  /\ at = "block"
  /\ at' = "waiting"
  /\ UNCHANGED <<log_dataq, stop, data, pc, main, next, written, before>>

(* ... until it is signalled, or times out (or wakes up for no reason).    *)
TimeOut ==
  /\ at = "waiting"
  /\ at' = "woken"
  /\ UNCHANGED <<log_dataq, stop, data, pc, main, next, written, before>>

Relock ==
  /\ at = "woken"
  /\ at' = "check"
  /\ UNCHANGED <<log_dataq, stop, data, pc, main, next, written, before>>

(* Faulty variant: the loop ends as soon as stop_ is set.                  *)
CheckStopAtOnce ==
  /\ at = "check"
  /\ stop
  /\ at' = "done"
  /\ UNCHANGED <<log_dataq, stop, data, pc, main, next, written, before>>

(* The loop ends when stop_ is set and the queue is empty.                 *)
CheckStop ==
  /\ at = "check"
  /\ log_dataq = <<>>
  /\ stop
  /\ at' = "done"
  /\ UNCHANGED <<log_dataq, stop, data, pc, main, next, written, before>>

(* Faulty variant: the newest record is taken.                             *)
TakeNewest ==
  /\ at = "check"
  /\ log_dataq # <<>>
  /\ data' = log_dataq[Len(log_dataq)]
  /\ at' = "write"
  /\ UNCHANGED <<log_dataq, stop, pc, main, next, written, before>>

(* data points to the oldest record, which stays in the queue while it is  *)
(* written without the mutex.                                              *)
Take ==
  /\ at = "check"
  /\ log_dataq # <<>>
  /\ data' = Head(log_dataq)
  /\ at' = "write"
  /\ UNCHANGED <<log_dataq, stop, pc, main, next, written, before>>

(* write_log(), the callback included.                                     *)
Write ==
  /\ at = "write"
  /\ written' = Append(written, data)
  /\ at' = "lock"
  /\ UNCHANGED <<log_dataq, stop, data, pc, main, next, before>>

-----------------------------------------------------------------------------
(* deinit().                                                               *)

SetStop ==
  /\ main = "running"
  /\ stop' = TRUE
  /\ before' = next
  /\ main' = "lock"
  /\ UNCHANGED <<log_dataq, data, at, pc, next, written>>

(* Faulty variant: the mutex is not locked after stop_ is set.             *)
PassMutexUnlocked ==
  /\ main = "lock"
  /\ main' = "signal"
  /\ UNCHANGED <<log_dataq, stop, data, at, pc, next, written, before>>

(* The mutex is locked and unlocked after stop_ is set.                    *)
PassMutex ==
  /\ main = "lock"
  /\ Unlocked
  /\ main' = "signal"
  /\ UNCHANGED <<log_dataq, stop, data, at, pc, next, written, before>>

SignalStop ==
  /\ main = "signal"
  /\ Signal
  /\ main' = "join"
  /\ UNCHANGED <<log_dataq, stop, data, pc, next, written, before>>

Join ==
  /\ main = "join"
  /\ at = "done"
  /\ main' = "joined"
  /\ UNCHANGED <<log_dataq, stop, data, at, pc, next, written, before>>

Release ==
  /\ main = "joined"
  /\ main' = "released"
  /\ UNCHANGED <<log_dataq, stop, data, at, pc, next, written, before>>

LogStep ==
  Lock \/ CheckEmpty \/ Block \/ Relock \/ CheckStop \/ Take \/ Write

DeinitStep == PassMutex \/ SignalStop \/ Join \/ Release

Next ==
  \/ \E w \in Writers : Post(w) \/ SignalPosted(w)
  \/ CallbackPost
  \/ LogStep \/ TimeOut
  \/ SetStop \/ DeinitStep

Spec == Init /\ [][Next]_vars

(* Every thread goes on; a mutex that is free again and again is acquired. *)
(* The timeout of the wait is not relied on.                               *)
FairSpec ==
  /\ Spec
  /\ WF_vars(LogStep)
  /\ SF_vars(DeinitStep)
  /\ \A w \in Writers : WF_vars(SignalPosted(w))

-----------------------------------------------------------------------------
(* Safety.                                                                 *)

(* What was written and what is left in the queue are all records, each    *)
(* once and in the order in which they were posted.                        *)
Unwritten == IF at = "lock" /\ data # 0 THEN Tail(log_dataq) ELSE log_dataq

EachOnceInOrder ==
  LET all == written \o Unwritten
  IN  /\ Len(all) = next - 1
      /\ \A i \in DOMAIN all : all[i] = i

(* While it is used without the mutex, data points to a record that is     *)
(* still in the queue, the one that will be removed next.                  *)
DataValid ==
  at = "write" \/ (at = "lock" /\ data # 0)
    => log_dataq # <<>> /\ data = Head(log_dataq)

(* No lost signal: the log thread waits with a record in the queue only if *)
(* a writer is about to signal ...                                         *)
RecordSignalled ==
  at \in {"block", "waiting"} /\ log_dataq # <<>>
    => \E w \in Writers : pc[w] = "signal"

(* ... and it does not wait any more once deinit() has signalled.          *)
StopSignalled ==
  main \in {"join", "joined", "released"} => at \notin {"block", "waiting"}

(* When deinit() has joined the log thread, every record that was posted   *)
(* before stop_ was set is written.                                        *)
DrainedAtJoin ==
  main \in {"joined", "released"}
    => \A r \in Records : r < before => r \in Range(written)

(* The log thread sleeps only as long as there is nothing for it to do:    *)
(* whatever it is to see, a signal is still to come.                       *)
SleepJustified == RecordSignalled /\ StopSignalled

(* The inductive invariant behind DataValid and SleepJustified.            *)
LoggerInv ==
  /\ DataValid
  /\ at \in {"check", "block", "waiting", "woken", "done"} => data = 0
  /\ at = "block" => log_dataq = <<>>
  /\ RecordSignalled
  /\ main # "running" => stop
  /\ main = "signal" => at # "block"
  /\ StopSignalled

-----------------------------------------------------------------------------
(* Liveness.                                                               *)

(* A record that is posted while the log thread runs is written, without   *)
(* the help of the timeout.                                                *)
RecordIsWritten ==
  \A r \in Records :
    (at # "done" /\ r \in Range(log_dataq)) ~> (r \in Range(written))

(* deinit() returns.                                                       *)
DeinitReturns == stop ~> (main = "released")

(* Neither a record nor deinit() is left to the timeout of the wait.       *)
LoggerProgress == RecordIsWritten /\ DeinitReturns

-----------------------------------------------------------------------------
(* The log thread is a first-in, first-out executor of its records, and    *)
(* unlike the event loop one that is never stopped: whatever stop_ does,   *)
(* no step makes a record disappear but the write of the oldest one.       *)

LastWritten == IF written = <<>> THEN 0 ELSE written[Len(written)]

Executor == INSTANCE TaskExecutor
  WITH MaxTasks <- MaxRecords, queue <- Unwritten, last <- LastWritten,
       stopped <- FALSE

LogExecutorSpec == Executor!Spec

=============================================================================
