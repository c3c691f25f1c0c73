-------------------------------- MODULE Times --------------------------------
(***************************************************************************)
(* timestamp and timeout of kngin/core/base: milliseconds, their           *)
(* conversions, and the moment at which a timer is due next.               *)
(***************************************************************************)
EXTENDS Integers

Int32Max == 2147483647

AtMost(a, b) == IF a <= b THEN a ELSE b

(* Division and remainder of C++, which cut towards zero.                  *)
Quot(a, b) == IF a >= 0 THEN a \div b ELSE -((-a) \div b)
Rem(a, b) == a - b * Quot(a, b)

(* timestamp (const timespec &) and timestamp (const timeval &): what is   *)
(* less than a millisecond is cut off.                                     *)
FromTimespec(ts) == ts.sec * 1000 + Quot(ts.nsec, 1000000)
FromTimeval(tv) == tv.sec * 1000 + Quot(tv.usec, 1000)

ToTimeval(ms) == [sec |-> Quot(ms, 1000), usec |-> 1000 * Rem(ms, 1000)]
ToTimespec(ms) == [sec |-> Quot(ms, 1000), nsec |-> 1000000 * Rem(ms, 1000)]

(* value_int()                                                             *)
ValueInt(ms) == AtMost(ms, Int32Max)

(* The operators on timestamps are those on their milliseconds.            *)
Sum(t1, t2) == t1 + t2
Diff(t1, t2) == t1 - t2
AtLeast(t1, t2) == t1 >= t2
AbsDiff(t1, t2) == IF t1 < t2 THEN t2 - t1 ELSE t1 - t2

(* timed_wait() of posix_cond and posix_semaphore: what is passed to the   *)
(* system if now is the time of day and the wait may last ms.              *)
Deadline(now, ms) == ToTimespec(Sum(FromTimespec(now), ms))

(* class timeout                                                           *)
Timeout(initval, interval) == [next |-> initval, interval |-> interval]
Updated(t) == [t EXCEPT !.next = Sum(@, t.interval)]
TimeoutCleared == Timeout(0, 0)
TimedOut(t, now) == AtLeast(now, t.next)
Remaining(t, now) == IF Diff(t.next, now) > 0 THEN Diff(t.next, now) ELSE 0
Persist(t) == t.interval # 0

=============================================================================
