-------------------------------- MODULE Locks --------------------------------
(***************************************************************************)
(* The wrappers of detail/core/base/impl around the locks of the system:   *)
(* one mutex or rmutex, a cond on it and a semaphore, used by several      *)
(* threads.  The mutex and the rmutex of Windows are critical sections,    *)
(* which may be entered again; of the POSIX ones only the rmutex may.  In  *)
(* builds with assertions the rmutex counts its levels in stack_, which    *)
(* its destructor asserts to be zero.                                      *)
(***************************************************************************)
EXTENDS Naturals, FiniteSets

CONSTANTS
  Threads,
  MaxDepth,   \* bound on the levels of the lock
  Permits,    \* initval of the semaphore
  MaxRefused  \* bound on the failed try_lock() calls that are counted

Nobody == "nobody"

ASSUME LocksAssumption ==
  /\ {MaxDepth, Permits, MaxRefused} \subseteq Nat
  /\ Nobody \notin Threads

VARIABLES
  platform,  \* "posix" or "windows"
  kind,      \* "mutex" or "rmutex"
  owner,     \* the thread that holds the lock
  depth,     \* how often it holds it, as the system counts
  stack,     \* stack_, as the rmutex counts
  levels,    \* levels[t]: lock() and try_lock() that succeeded, less unlock()
  waiting,   \* the threads in cond::wait()
  woken,     \* the threads that are to leave it, once they have the lock
  refusals,  \* try_lock() calls that failed and were counted
  permits,   \* the semaphore's value
  inside     \* the threads between the semaphore's wait() and post()

lockVars == <<platform, kind, owner, depth, stack, levels, waiting, woken,
              refusals, permits, inside>>
fixedVars == <<platform, kind>>
condVars == <<waiting, woken>>
semVars == <<permits, inside>>

LocksInit ==
  /\ platform \in {"posix", "windows"}
  /\ kind \in {"mutex", "rmutex"}
  /\ owner = Nobody /\ depth = 0 /\ stack = 0
  /\ levels = [t \in Threads |-> 0]
  /\ waiting = {} /\ woken = {}
  /\ refusals = 0
  /\ permits = Permits /\ inside = {}

Reentrant == kind = "rmutex" \/ platform = "windows"
Running(t) == t \notin waiting \cup woken
Available(t) == owner = Nobody \/ (owner = t /\ Reentrant)

(* What the system does when t gets or gives back one level of the lock.   *)
Enter(t) ==
  /\ Available(t) /\ depth < MaxDepth
  /\ owner' = t /\ depth' = depth + 1
  /\ levels' = [levels EXCEPT ![t] = @ + 1]

Leave(t) ==
  /\ owner = t
  /\ depth' = depth - 1
  /\ owner' = IF depth = 1 THEN Nobody ELSE t
  /\ levels' = [levels EXCEPT ![t] = @ - 1]

Counted(n) == stack' = IF kind = "rmutex" THEN n ELSE stack

-----------------------------------------------------------------------------
(* lock(), which waits until the lock is available.                        *)
Lock(t) ==
  /\ Running(t)
  /\ Enter(t)
  /\ Counted(stack + 1)
  /\ UNCHANGED <<fixedVars, condVars, refusals, semVars>>

(* Faulty variant: stack_ is cleared with the last level, not counted down.*)
UnlockOfOwner(t) ==
  /\ Running(t)
  /\ Leave(t)
  /\ Counted(IF owner' = Nobody THEN 0 ELSE stack)
  /\ UNCHANGED <<fixedVars, condVars, refusals, semVars>>

(* unlock(), of a thread that holds the lock.                              *)
Unlock(t) ==
  /\ Running(t)
  /\ Leave(t)
  /\ Counted(stack - 1)
  /\ UNCHANGED <<fixedVars, condVars, refusals, semVars>>

(* try_lock() that returns true.                                           *)
TryLock(t) ==
  /\ Running(t)
  /\ Enter(t)
  /\ Counted(stack + 1)
  /\ UNCHANGED <<fixedVars, condVars, refusals, semVars>>

(* posix_rmutex::try_lock() counts a level also when it returns false;     *)
(* the others change nothing then.                                         *)
TryLockRefused(t) ==
  /\ Running(t) /\ ~Available(t)
  /\ platform = "posix" /\ kind = "rmutex" /\ refusals < MaxRefused
  /\ stack' = stack + 1
  /\ refusals' = refusals + 1
  /\ UNCHANGED <<fixedVars, owner, depth, levels, condVars, semVars>>

-----------------------------------------------------------------------------
(* cond::wait() and timed_wait() give back one level, which stack_ does    *)
(* not notice: a thread that holds more goes to sleep with the lock.       *)
CondWait(t) ==
  /\ Running(t)
  /\ Leave(t)
  /\ waiting' = waiting \cup {t}
  /\ UNCHANGED <<fixedVars, stack, woken, refusals, semVars>>

(* signal(), with or without the lock; a thread also wakes up because its  *)
(* time is over, or for no reason.                                         *)
Signal(t) ==
  /\ t \in waiting
  /\ waiting' = waiting \ {t}
  /\ woken' = woken \cup {t}
  /\ UNCHANGED <<fixedVars, owner, depth, stack, levels, refusals, semVars>>

Broadcast ==
  /\ waiting # {}
  /\ waiting' = {}
  /\ woken' = woken \cup waiting
  /\ UNCHANGED <<fixedVars, owner, depth, stack, levels, refusals, semVars>>

(* ... and returns with the level it gave back.                            *)
CondReturn(t) ==
  /\ t \in woken
  /\ owner \in {Nobody, t}
  /\ owner' = t /\ depth' = depth + 1
  /\ levels' = [levels EXCEPT ![t] = @ + 1]
  /\ woken' = woken \ {t}
  /\ UNCHANGED <<fixedVars, stack, waiting, refusals, semVars>>

-----------------------------------------------------------------------------
(* scope_sem, and the semaphore's wait() and post().                       *)
SemWait(t) ==
  /\ Running(t) /\ t \notin inside
  /\ permits > 0
  /\ permits' = permits - 1
  /\ inside' = inside \cup {t}
  /\ UNCHANGED <<fixedVars, owner, depth, stack, levels, condVars, refusals>>

SemPost(t) ==
  /\ Running(t) /\ t \in inside
  /\ permits' = permits + 1
  /\ inside' = inside \ {t}
  /\ UNCHANGED <<fixedVars, owner, depth, stack, levels, condVars, refusals>>

LocksNext ==
  \/ \E t \in Threads :
       \/ Lock(t) \/ Unlock(t) \/ TryLock(t) \/ TryLockRefused(t)
       \/ CondWait(t) \/ Signal(t) \/ CondReturn(t)
       \/ SemWait(t) \/ SemPost(t)
  \/ Broadcast

LocksSpec == LocksInit /\ [][LocksNext]_lockVars

-----------------------------------------------------------------------------
(* One thread at most holds the lock, also behind a cond::wait(), and as   *)
(* often as the system counts; stack_ is larger than that by one for every *)
(* thread in cond::wait() and for every try_lock() that was refused and    *)
(* counted, and by nothing else; and no more threads are between wait()    *)
(* and post() than the semaphore was made for.                             *)
LocksCounted ==
  /\ \A t \in Threads : levels[t] = IF owner = t THEN depth ELSE 0
  /\ owner = Nobody <=> depth = 0
  /\ ~Reentrant => depth <= 1
  /\ kind = "rmutex" =>
       stack = depth + Cardinality(waiting \cup woken) + refusals
  /\ platform = "windows" => refusals = 0
  /\ Cardinality(inside) + permits = Permits

=============================================================================
