------------------------------- MODULE Session -------------------------------
(***************************************************************************)
(* tcp::session over posix_session (net/session.cpp,                       *)
(* net/tcp/impl/posix_session.cpp): its flags, the tasks its calls post to *)
(* the loop, the dispatch of its events and its end.  Client threads and   *)
(* the handlers on the loop thread call it.  What the streams do with the  *)
(* bytes is in TcpIstream and TcpOstream; here on_read(), on_write() and   *)
(* on_oob() only may call a handler of the user.                           *)
(*                                                                         *)
(* A failing assertion leads to at = "aborted".  A task that runs after    *)
(* its session was destroyed leads to at = "dangling".                     *)
(***************************************************************************)
EXTENDS Naturals, Sequences, FiniteSets

CONSTANTS
  LoopThread,  \* the thread of loop_
  Clients,     \* the other threads
  MaxCalls     \* bound: calls that post a task

ASSUME SessionAssumption == LoopThread \notin Clients /\ MaxCalls \in Nat

VARIABLES
  flags,     \* flags_
  taskq,     \* the tasks of this session in the task queue of the loop
  batch,     \* those that process_tasks() has swapped out
  out,       \* EPOLLOUT is among the flags of ev_
  registed,  \* ev_ is in epoll
  open,      \* socket_ is open
  alive,     \* the session was not destroyed
  pc,        \* pc[t]: what thread t, inside a call, does next
  at,        \* where the loop thread is
  phase,     \* the loop thread is in its "tasks" or in its "events"
  events,    \* event types on_events() has still to serve
  handled,   \* history: calls of a close handler
  calls      \* history: calls that posted a task or are about to

loopVars == <<batch, at, phase, events>>
eventVars == <<out, registed, open>>
histVars == <<handled, calls>>
vars == <<flags, taskq, loopVars, eventVars, alive, pc, histVars>>

Threads == Clients \cup {LoopThread}
Flags == {"closed", "closing", "eof", "reset"}
IO == {"read", "write"}
Toggles == {"stop_read", "start_read"}
Tasks == [kind : IO \cup Toggles \cup {"close"}, by : Threads]

TypeOK ==
  /\ flags \in SUBSET Flags
  /\ taskq \in Seq(Tasks) /\ batch \in Seq(Tasks)
  /\ out \in BOOLEAN /\ registed \in BOOLEAN /\ open \in BOOLEAN
  /\ alive \in BOOLEAN
  /\ pc \in [Threads -> IO \cup {"idle", "close_set", "close_post"}]
  /\ at \in {"swap", "tasks", "wait", "dispatch", "on_read", "on_write",
             "on_oob", "handler", "close_handler", "aborted", "dangling"}
  /\ phase \in {"tasks", "dispatch"}
  /\ events \in SUBSET {"read", "write", "oob"}
  /\ handled \in Nat /\ calls \in 0 .. MaxCalls

(* The constructor registers the event with every interest.                *)
Init ==
  /\ flags = {}
  /\ taskq = <<>> /\ batch = <<>>
  /\ out = TRUE /\ registed = TRUE /\ open = TRUE
  /\ alive = TRUE
  /\ pc = [t \in Threads |-> "idle"]
  /\ at = "wait" /\ phase = "tasks"
  /\ events = {}
  /\ handled = 0 /\ calls = 0

closed == "closed" \in flags
closing == "closing" \in flags

-----------------------------------------------------------------------------
(* Calls of thread t: a client, or the loop thread inside a handler.       *)

MayCall(t) ==
  /\ alive /\ pc[t] = "idle"
  /\ t = LoopThread => at \in {"handler", "close_handler"}
  /\ calls < MaxCalls

Goto(t, l) == pc' = [pc EXCEPT ![t] = l]
Post(t, kind) == taskq' = Append(taskq, [kind |-> kind, by |-> t])

(* Faulty variant: a session that is about to be closed takes reads.       *)
AcceptClosing(t, kind) ==
  /\ MayCall(t)
  /\ ~closed
  /\ Goto(t, kind)
  /\ calls' = calls + 1
  /\ UNCHANGED <<flags, taskq, loopVars, eventVars, alive, handled>>

(* async_read(), async_read_some(), async_write(): the test of the flags   *)
(* (otherwise they return false) ...                                       *)
Accept(t, kind) ==
  /\ MayCall(t)
  /\ ~closed /\ ~closing
  /\ Goto(t, kind)
  /\ calls' = calls + 1
  /\ UNCHANGED <<flags, taskq, loopVars, eventVars, alive, handled>>

(* ... and the stream's call, which posts a task unless complete_ is set.  *)
PostIO(t) ==
  /\ pc[t] \in IO
  /\ Post(t, pc[t]) \/ UNCHANGED taskq
  /\ Goto(t, "idle")
  /\ UNCHANGED <<flags, loopVars, eventVars, alive, histVars>>

(* stop_read() and start_read() test nothing.                              *)
Toggle(t, kind) ==
  /\ MayCall(t)
  /\ Post(t, kind)
  /\ calls' = calls + 1
  /\ UNCHANGED <<flags, loopVars, eventVars, alive, pc, handled>>

(* close(): the assertion holds for the callers modelled; two of them may  *)
(* pass it.                                                                *)
CallClose(t) ==
  /\ MayCall(t)
  /\ ~closed
  /\ Goto(t, "close_set")
  /\ calls' = calls + 1
  /\ UNCHANGED <<flags, taskq, loopVars, eventVars, alive, handled>>

SetClosing(t) ==
  /\ pc[t] = "close_set"
  /\ flags' = flags \cup {"closing"}
  /\ Goto(t, "close_post")
  /\ UNCHANGED <<taskq, loopVars, eventVars, alive, histVars>>

(* Faulty variant: the task is not posted.                                 *)
PostCloseNever(t) ==
  /\ pc[t] = "close_post"
  /\ Goto(t, "idle")
  /\ UNCHANGED <<flags, taskq, loopVars, eventVars, alive, histVars>>

PostClose(t) ==
  /\ pc[t] = "close_post"
  /\ Post(t, "close")
  /\ Goto(t, "idle")
  /\ UNCHANGED <<flags, loopVars, eventVars, alive, histVars>>

(* force_shutdown() asserts is_shutdown(), which only it would set, and the*)
(* destructor of a session that is not closed calls close() without a      *)
(* handler, which asserts one: neither ever returns.                       *)
ForceShutdown(t) ==
  /\ MayCall(t)
  /\ ~closed
  /\ at' = "aborted"
  /\ calls' = calls + 1
  /\ UNCHANGED <<flags, taskq, batch, phase, events, eventVars, alive, pc,
                 handled>>

CallStep(t) == PostIO(t) \/ SetClosing(t) \/ PostClose(t)
Call(t) ==
  \/ \E kind \in IO : Accept(t, kind)
  \/ \E kind \in Toggles : Toggle(t, kind)
  \/ CallClose(t) \/ ForceShutdown(t)

-----------------------------------------------------------------------------
(* The loop thread: tasks, then events, as in event_loop::run().           *)

SwapTasks ==
  /\ at = "swap"
  /\ batch' = taskq /\ taskq' = <<>>
  /\ at' = "tasks" /\ phase' = "tasks"
  /\ UNCHANGED <<flags, events, eventVars, alive, pc, histVars>>

NextTask(kinds) ==
  /\ at = "tasks" /\ alive
  /\ batch # <<>> /\ Head(batch).kind \in kinds
  /\ batch' = Tail(batch)

(* Faulty variant: the task does not test whether the session is closed.   *)
CloseTaskAgain ==
  /\ NextTask({"close"})
  /\ flags' = flags \cup {"closed", "eof", "reset"}
  /\ registed' = FALSE /\ open' = FALSE
  /\ handled' = handled + 1
  /\ at' = "close_handler"
  /\ UNCHANGED <<taskq, phase, events, out, alive, pc, calls>>

(* The task of close(): the first one closes, the others find it done.     *)
CloseTask ==
  /\ NextTask({"close"})
  /\ IF closed THEN UNCHANGED <<flags, registed, open, handled, at>>
     ELSE /\ flags' = flags \cup {"closed", "eof", "reset"}
          /\ registed' = FALSE /\ open' = FALSE
          /\ handled' = handled + 1
          /\ at' = "close_handler"
  /\ UNCHANGED <<taskq, phase, events, out, alive, pc, calls>>

(* The close handler returns; the owner may have destroyed the session in  *)
(* it, when no other thread is inside a call of it.                        *)
CloseHandlerReturns ==
  /\ at = "close_handler" /\ pc[LoopThread] = "idle"
  /\ at' = "tasks"
  /\ \/ UNCHANGED alive
     \/ (\A t \in Clients : pc[t] = "idle") /\ alive' = FALSE
  /\ UNCHANGED <<flags, taskq, phase, batch, events, eventVars, pc, histVars>>

(* The tasks of stop_read() and start_read() change the interest in        *)
(* EPOLLOUT; update_event() asserts that the event is registered.          *)
ToggleTask ==
  /\ NextTask(Toggles)
  /\ LET on == Head(batch).kind = "start_read"
     IN  /\ out' = IF registed \/ out = on THEN on ELSE out
         /\ at' = IF registed \/ out = on THEN "tasks" ELSE "aborted"
  /\ UNCHANGED <<flags, taskq, phase, events, registed, open, alive, pc,
                 histVars>>

(* The task of a read or a write; on_read() asserts that no end of the     *)
(* stream was seen, and close() has set that flag too.                     *)
IOTask ==
  /\ NextTask(IO)
  /\ at' = IF Head(batch).kind = "write" THEN "on_write"
           ELSE IF "eof" \in flags THEN "aborted" ELSE "on_read"
  /\ UNCHANGED <<flags, taskq, phase, events, eventVars, alive, pc, histVars>>

(* The tasks captured this.                                                *)
DanglingTask ==
  /\ at = "tasks" /\ ~alive /\ batch # <<>>
  /\ at' = "dangling"
  /\ UNCHANGED <<flags, taskq, phase, batch, events, eventVars, alive, pc,
                 histVars>>

TasksDone ==
  /\ at = "tasks" /\ batch = <<>>
  /\ at' = "wait"
  /\ UNCHANGED <<flags, taskq, phase, batch, events, eventVars, alive, pc,
                 histVars>>

(* epoll reports events of a registered session, or something else; an     *)
(* error is served by on_read() too.                                       *)
Wait ==
  /\ at = "wait"
  /\ events' \in SUBSET {"read", "write", "oob"}
  /\ events' # {} => registed
  /\ "write" \in events' => out
  /\ at' = "dispatch" /\ phase' = "dispatch"
  /\ UNCHANGED <<flags, taskq, batch, eventVars, alive, pc, histVars>>

(* on_events(): reading before writing before urgent data.                 *)
Dispatch ==
  /\ at = "dispatch"
  /\ IF "read" \in events
       THEN /\ events' = events \ {"read"}
            /\ at' = IF "eof" \in flags THEN "aborted" ELSE "on_read"
     ELSE IF "write" \in events
       THEN events' = events \ {"write"} /\ at' = "on_write"
     ELSE IF "oob" \in events
       THEN /\ events' = {}
            /\ at' = IF "eof" \in flags THEN "aborted" ELSE "on_oob"
     ELSE events' = {} /\ at' = "swap"
  /\ UNCHANGED <<flags, taskq, phase, batch, eventVars, alive, pc, histVars>>

(* on_read(), on_write(), on_oob() end, at once if the session is closing, *)
(* or call a handler of the user.                                          *)
StreamEnds ==
  /\ at \in {"on_read", "on_write", "on_oob"}
  /\ at' = phase
  /\ UNCHANGED <<flags, taskq, phase, batch, events, eventVars, alive, pc,
                 histVars>>

StreamCalls ==
  /\ at \in {"on_read", "on_write", "on_oob"}
  /\ ~closed /\ ~closing
  /\ \/ UNCHANGED flags
     \/ at # "on_write" /\ flags' = flags \cup {"eof"}
     \/ flags' = flags \cup {"reset"}
  /\ at' = "handler"
  /\ UNCHANGED <<taskq, phase, batch, events, eventVars, alive, pc, histVars>>

HandlerReturns ==
  /\ at = "handler" /\ pc[LoopThread] = "idle"
  /\ at' = phase
  /\ UNCHANGED <<flags, taskq, phase, batch, events, eventVars, alive, pc,
                 histVars>>

LoopStep ==
  \/ SwapTasks \/ CloseTask \/ CloseHandlerReturns \/ ToggleTask \/ IOTask
  \/ DanglingTask \/ TasksDone \/ Wait \/ Dispatch \/ StreamEnds
  \/ StreamCalls \/ HandlerReturns

Next == LoopStep \/ \E t \in Threads : Call(t) \/ CallStep(t)

Spec == Init /\ [][Next]_vars

(* The loop thread and the threads inside a call go on.                    *)
FairSpec ==
  Spec /\ WF_vars(LoopStep) /\ \A t \in Threads : WF_vars(CallStep(t))

-----------------------------------------------------------------------------
(* However many threads call close() at once, one close handler is called, *)
(* and the socket is closed and its event removed when, and only when, the *)
(* session is closed.                                                      *)
ClosedOnce ==
  /\ handled = IF closed THEN 1 ELSE 0
  /\ open <=> ~closed
  /\ registed <=> ~closed

(* Reads and writes that thread t has posted and that will find the        *)
(* session closed, and one it is about to post.                            *)
Late(t) ==
  LET posted(q) == {i \in DOMAIN q : q[i].by = t /\ q[i].kind \in IO}
  IN  Cardinality(posted(batch)) + Cardinality(posted(taskq))
        + IF pc[t] \in IO THEN 1 ELSE 0

(* Once the session is closed, each thread has at most one more read or    *)
(* write task to come, whose call had passed the test of the flags before  *)
(* close() set them: a thread that was not inside a call then leaves no    *)
(* task behind that would run on a closed or destroyed session.            *)
LateTasksBounded == closed => \A t \in Threads : Late(t) <= 1

(* A call of close() is followed by a close handler, its own or that of    *)
(* the call that came first, unless a late task fails before.              *)
CloseAnswered ==
  \A t \in Threads :
    pc[t] = "close_set" ~> handled = 1 \/ at \in {"aborted", "dangling"}

=============================================================================
