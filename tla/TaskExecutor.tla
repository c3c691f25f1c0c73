---------------------------- MODULE TaskExecutor ----------------------------
(***************************************************************************)
(* What event_loop promises to those who call run_in_loop(): a first-in,   *)
(* first-out executor.  Tasks are numbered in the order in which they were *)
(* pushed.  A pushed task waits in the queue until it starts, and only     *)
(* after stop() was called may tasks disappear without having started.     *)
(* EventLoop.tla implements this specification.  So does AsyncLogger.tla,  *)
(* whose tasks are the records and which never counts as stopped.          *)
(***************************************************************************)
EXTENDS Naturals, Sequences

CONSTANT MaxTasks      \* bound: how many tasks are ever posted

VARIABLES
  queue,      \* the tasks that were pushed and have not started
  next,       \* the number the next pushed task gets
  last,       \* the number of the last task that started, 0 before any
  stopped     \* stop() has been called

vars == <<queue, next, last, stopped>>

TypeOK ==
  /\ queue \in Seq(1 .. MaxTasks)
  /\ next \in 1 .. MaxTasks + 1
  /\ last \in 0 .. MaxTasks
  /\ stopped \in BOOLEAN

Init ==
  /\ queue = <<>>
  /\ next = 1
  /\ last = 0
  /\ stopped = FALSE

Post ==
  /\ next <= MaxTasks
  /\ queue' = Append(queue, next)
  /\ next' = next + 1
  /\ UNCHANGED <<last, stopped>>

Start ==
  /\ queue # <<>>
  /\ last' = Head(queue)
  /\ queue' = Tail(queue)
  /\ UNCHANGED <<next, stopped>>

Stop ==
  /\ stopped' = TRUE
  /\ UNCHANGED <<queue, next, last>>

(* A stopped executor may forget any block of neighbouring tasks.          *)
Drop ==
  /\ stopped
  /\ \E i \in 0 .. Len(queue) : \E j \in i .. Len(queue) :
       queue' = SubSeq(queue, 1, i) \o SubSeq(queue, j + 1, Len(queue))
  /\ UNCHANGED <<next, last, stopped>>

Next == Post \/ Start \/ Stop \/ Drop

Spec == Init /\ [][Next]_vars

=============================================================================
