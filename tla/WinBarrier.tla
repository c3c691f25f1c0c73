----------------------------- MODULE WinBarrier -----------------------------
(***************************************************************************)
(* win_barrier: the barrier of Windows, made of a mutex, a condition       *)
(* variable and two counters.  It is used as event_loop uses it: the       *)
(* thread to which wait() returns true destroys it, and it is made again   *)
(* when everyone has left.  All but the test at the head of wait() is done *)
(* under the mutex, so each stretch between lock or wake-up and the next   *)
(* unlock or sleep is one step.                                            *)
(***************************************************************************)
EXTENDS Naturals, FiniteSets

CONSTANTS
  BarrierThreads,  \* the threads that meet; their number is count_
  MaxRounds        \* bound on how often the barrier is made

ASSUME BarrierAssumption == IsFiniteSet(BarrierThreads) /\ MaxRounds \in Nat

VARIABLES
  made,      \* mutex_ and cond_ exist
  incoming,  \* in_
  outgoing,  \* out_
  place,     \* place[t]: "outside", "locking", "sleeping", "woken", "left"
  last,      \* the threads to which wait() returned true in this round
  rounds

barrierVars == <<made, incoming, outgoing, place, last, rounds>>

Count == Cardinality(BarrierThreads)

WinBarrierInit ==
  /\ made = TRUE
  /\ incoming = 0 /\ outgoing = 0
  /\ place = [t \in BarrierThreads |-> "outside"]
  /\ last = {}
  /\ rounds = 1

Sleepers == {t \in BarrierThreads : place[t] = "sleeping"}

(* wait() finds the barrier made; otherwise it returns false at once.      *)
EnterWait(t) ==
  /\ place[t] = "outside"
  /\ made
  /\ place' = [place EXCEPT ![t] = "locking"]
  /\ UNCHANGED <<made, incoming, outgoing, last, rounds>>

(* t is not the last to come and goes to sleep.                            *)
ArriveEarly(t) ==
  /\ place[t] = "locking"
  /\ incoming + 1 # Count
  /\ incoming' = incoming + 1
  /\ place' = [place EXCEPT ![t] = "sleeping"]
  /\ UNCHANGED <<made, outgoing, last, rounds>>

(* What t does when it leaves with n to go, itself included, and has       *)
(* signalled or signals as many as woken says: cond_->signal() wakes one   *)
(* sleeper if there is any.                                                *)
LeaveWith(t, n, woken) ==
  /\ outgoing' = n - 1
  /\ last' = IF n = 1 THEN last \cup {t} ELSE last
  /\ place' = [u \in BarrierThreads |-> IF u = t THEN "left"
                                        ELSE IF u \in woken THEN "woken"
                                        ELSE place[u]]

(* Sleepers that k signals may wake.                                       *)
Signalled(k) ==
  {S \in SUBSET Sleepers :
     Cardinality(S) = IF k < Cardinality(Sleepers) THEN k ELSE Cardinality(Sleepers)}

(* t is the last to come: it opens the barrier, signals, and leaves.       *)
ArriveLast(t) ==
  /\ place[t] = "locking"
  /\ incoming + 1 = Count
  /\ incoming' = 0
  /\ \E S \in Signalled(IF Count = 1 THEN 1 ELSE 2) : LeaveWith(t, Count, S)
  /\ UNCHANGED <<made, rounds>>

(* cond_->wait() returns without a signal.                                 *)
WakeSpuriously(t) ==
  /\ place[t] = "sleeping"
  /\ place' = [place EXCEPT ![t] = "woken"]
  /\ UNCHANGED <<made, incoming, outgoing, last, rounds>>

SleepAgain(t) ==
  /\ place[t] = "woken"
  /\ incoming # 0
  /\ place' = [place EXCEPT ![t] = "sleeping"]
  /\ UNCHANGED <<made, incoming, outgoing, last, rounds>>

(* Faulty variant: the signal for the next one is missing.                 *)
LeaveQuietly(t) ==
  /\ place[t] = "woken"
  /\ incoming = 0
  /\ LeaveWith(t, outgoing, {})
  /\ UNCHANGED <<made, incoming, rounds>>

(* Faulty variant: after cond_->wait() the counter is not read again.      *)
LeaveUnchecked(t) ==
  /\ place[t] = "woken"
  /\ \E S \in Signalled(IF outgoing = 1 THEN 0 ELSE 1) : LeaveWith(t, outgoing, S)
  /\ UNCHANGED <<made, incoming, rounds>>

(* The barrier is open: t leaves and wakes the next one.                   *)
LeaveOpen(t) ==
  /\ place[t] = "woken"
  /\ incoming = 0
  /\ \E S \in Signalled(IF outgoing = 1 THEN 0 ELSE 1) : LeaveWith(t, outgoing, S)
  /\ UNCHANGED <<made, incoming, rounds>>

(* destroy(), whose assertion wants both counters to be zero.              *)
DestroyBarrier(t) ==
  /\ t \in last
  /\ made
  /\ made' = FALSE
  /\ UNCHANGED <<incoming, outgoing, place, last, rounds>>

(* reinit(): the threads come again.                                       *)
MakeAgain ==
  /\ ~made
  /\ rounds < MaxRounds
  /\ \A t \in BarrierThreads : place[t] = "left"
  /\ made' = TRUE
  /\ incoming' = 0 /\ outgoing' = 0
  /\ place' = [t \in BarrierThreads |-> "outside"]
  /\ last' = {}
  /\ rounds' = rounds + 1

WinBarrierNext ==
  \/ \E t \in BarrierThreads :
       \/ EnterWait(t) \/ ArriveEarly(t) \/ ArriveLast(t)
       \/ WakeSpuriously(t) \/ SleepAgain(t) \/ LeaveOpen(t)
       \/ DestroyBarrier(t)
  \/ MakeAgain

WinBarrierSpec == WinBarrierInit /\ [][WinBarrierNext]_barrierVars

-----------------------------------------------------------------------------
(* Nobody leaves before all have come; true is returned to one thread, and *)
(* only when the others are out and the counters are zero, so that it may  *)
(* destroy the barrier under nobody's feet.  And nobody sleeps for ever: a *)
(* barrier that is open never has sleepers only, so the chain of signals   *)
(* is not broken, and one that is not has somebody still to come.          *)
BarrierMeets ==
  /\ (\E t \in BarrierThreads : place[t] = "left") =>
       \A t \in BarrierThreads : place[t] \notin {"outside", "locking"}
  /\ last # {} <=> \A t \in BarrierThreads : place[t] = "left"
  /\ Cardinality(last) <= 1
  /\ last # {} => incoming = 0 /\ outgoing = 0
  /\ ~made => last # {}
  /\ outgoing > 0 => \E t \in BarrierThreads : place[t] = "woken"
  /\ outgoing = 0 /\ last = {} =>
       \E t \in BarrierThreads : place[t] \in {"outside", "locking"}

-----------------------------------------------------------------------------
(* What the callers see of it: a thread is inside from the test at the     *)
(* head of wait() on, whether it sleeps or not, and until it returns.  The *)
(* counters, the mutex and the signals implement Rendezvous.               *)

Standing(t) ==
  IF place[t] \in {"outside", "left"} THEN place[t] ELSE "inside"

Meeting == INSTANCE Rendezvous
  WITH Parties <- BarrierThreads, told <- last, usable <- made,
       where <- [t \in BarrierThreads |-> Standing(t)]

MeetingSpec == Meeting!Spec

=============================================================================
