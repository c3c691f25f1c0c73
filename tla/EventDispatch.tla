---------------------------- MODULE EventDispatch ----------------------------
(***************************************************************************)
(* How event_loop dispatches the events of a round (process_events() over  *)
(* actived_events_) while events are registered and removed, by handlers,  *)
(* by tasks of the loop and by other threads.  The owner of an event is a  *)
(* posix_listener, the class of the library that calls remove_event() from *)
(* whatever thread close() is called on.                                   *)
(*                                                                         *)
(* The epoll instance is modelled from its use: a first-in, first-out list *)
(* of the registered descriptors with an edge not yet reported.            *)
(***************************************************************************)
EXTENDS Naturals, Sequences, SequencesExt

CONSTANTS
  LoopThread,  \* the thread in run()
  Clients,     \* the other threads that open and close listeners
  Listeners,   \* the listeners; each is opened and closed at most once
  Nothing,     \* nullptr, for a thread and for an event
  MaxEvents,   \* KNGIN_EPOLL_REACTOR_MAX_EVENTS
  MaxEdges     \* bound: edges that arrive in a behaviour

ASSUME EventDispatchAssumption ==
  /\ LoopThread \notin Clients
  /\ Nothing \notin Clients \cup {LoopThread}
  /\ Nothing \notin Listeners
  /\ MaxEvents \in Nat \ {0}
  /\ MaxEdges \in Nat

VARIABLES
  flags,       \* "new", "open", then "closed": flags_ of each listener
  registed,    \* registed_ of its event, and its place in the epoll instance
  ready,       \* the epoll instance: edges not yet reported, oldest first
  active,      \* actived_events_; a removed entry is Nothing
  pos,         \* the entry of active the loop of process_events() is at
  processing,  \* events_processing_ is 1, not 0
  owner,       \* the thread that holds event_rmutex_
  depth,       \* how many times it does
  pc,          \* pc[t]: the statement thread t executes next
  target,      \* target[t]: the event thread t is in remove_event() for
  edges,       \* edges so far
  closer,      \* history: the thread that closed a listener
  stale        \* history: dispatches of a listener whose close() had returned

lockVars == <<owner, depth>>
listVars == <<active, pos>>
listenerVars == <<flags, registed, closer>>
vars == <<listenerVars, ready, listVars, processing, lockVars, pc, target,
          edges, stale>>

Threads == Clients \cup {LoopThread}

RemoveLabels == {"remove", "remove_lock", "remove_null", "remove_ctl"}

LoopLabels == {"flag", "lock", "next", "on_events", "handler", "unlock", "unflag"}

TypeOK ==
  /\ flags \in [Listeners -> {"new", "open", "closed"}]
  /\ registed \in [Listeners -> BOOLEAN]
  /\ ready \in Seq(Listeners)
  /\ active \in Seq(Listeners \cup {Nothing})
  /\ pos \in 0 .. Len(active)
  /\ processing \in BOOLEAN
  /\ owner \in Threads \cup {Nothing}
  /\ depth \in 0 .. 2
  /\ pc \in [Threads -> {"idle"} \cup RemoveLabels \cup LoopLabels]
  /\ \A c \in Clients : pc[c] \in {"idle"} \cup RemoveLabels
  /\ target \in [Threads -> Listeners \cup {Nothing}]
  /\ edges \in 0 .. MaxEdges
  /\ closer \in [Listeners -> Threads \cup {Nothing}]
  /\ stale \in [Listeners -> Nat]

Init ==
  /\ flags = [l \in Listeners |-> "new"]
  /\ registed = [l \in Listeners |-> FALSE]
  /\ ready = <<>>
  /\ active = <<>>
  /\ pos = 0
  /\ processing = FALSE
  /\ owner = Nothing
  /\ depth = 0
  /\ pc = [t \in Threads |-> "idle"]
  /\ target = [t \in Threads |-> Nothing]
  /\ edges = 0
  /\ closer = [l \in Listeners |-> Nothing]
  /\ stale = [l \in Listeners |-> 0]

Goto(t, l) == pc' = [pc EXCEPT ![t] = l]

(* event_rmutex_ is recursive.                                             *)
Lock(t) ==
  /\ owner \in {Nothing, t}
  /\ owner' = t
  /\ depth' = depth + 1

Unlock ==
  /\ depth' = depth - 1
  /\ owner' = IF depth = 1 THEN Nothing ELSE owner

(* Is thread t in code of the user: between two calls, on the loop thread  *)
(* in a task or in the handler of an event?                                *)
InUserCode(t) == pc[t] = "idle" \/ pc[t] = "handler"

(* Back from close() to that code.                                         *)
UserCode(t) == IF t = LoopThread /\ processing THEN "handler" ELSE "idle"

-----------------------------------------------------------------------------
(* Listeners: any thread.                                                  *)

(* The constructor: register_event() marks and adds the event.             *)
Open(t, l) ==
  /\ InUserCode(t)
  /\ flags[l] = "new"
  /\ flags' = [flags EXCEPT ![l] = "open"]
  /\ registed' = [registed EXCEPT ![l] = TRUE]
  /\ UNCHANGED <<ready, listVars, processing, lockVars, pc, target, edges,
                 closer, stale>>

(* close(), which asserts that it is the first call.                       *)
Close(t, l) ==
  /\ InUserCode(t)
  /\ flags[l] = "open"
  /\ flags' = [flags EXCEPT ![l] = "closed"]
  /\ closer' = [closer EXCEPT ![l] = t]
  /\ target' = [target EXCEPT ![t] = l]
  /\ Goto(t, "remove")
  /\ UNCHANGED <<registed, ready, listVars, processing, lockVars, edges, stale>>

(* remove_event() looks for the event among the active ones only if events *)
(* are being processed.                                                    *)
RemoveTest(t) ==
  /\ pc[t] = "remove"
  /\ Goto(t, IF processing THEN "remove_lock" ELSE "remove_ctl")
  /\ UNCHANGED <<listenerVars, ready, listVars, processing, lockVars, target,
                 edges, stale>>

RemoveLock(t) ==
  /\ pc[t] = "remove_lock"
  /\ Lock(t)
  /\ Goto(t, "remove_null")
  /\ UNCHANGED <<listenerVars, ready, listVars, processing, target, edges, stale>>

(* The active events, without those of target[t] from entry first on.      *)
ClearedFrom(t, first) ==
  [i \in DOMAIN active |->
     IF i >= first /\ active[i] = target[t] THEN Nothing ELSE active[i]]

(* Faulty variant: the search starts behind the entry after the first one. *)
RemoveNullFromThird(t) ==
  /\ pc[t] = "remove_null"
  /\ active' = ClearedFrom(t, IF processing THEN 3 ELSE 2)
  /\ Unlock
  /\ Goto(t, "remove_ctl")
  /\ UNCHANGED <<listenerVars, ready, pos, processing, target, edges, stale>>

(* The entries of the event are cleared.  The search starts at the index   *)
(* events_processing_, which is 1 during process_events(): the first entry *)
(* is left alone.                                                          *)
RemoveNull(t) ==
  /\ pc[t] = "remove_null"
  /\ active' = ClearedFrom(t, IF processing THEN 2 ELSE 1)
  /\ Unlock
  /\ Goto(t, "remove_ctl")
  /\ UNCHANGED <<listenerVars, ready, pos, processing, target, edges, stale>>

(* reactor::remove_event() marks the event and takes it out of the epoll   *)
(* instance; close() closes the socket and returns.                        *)
RemoveCtl(t) ==
  /\ pc[t] = "remove_ctl"
  /\ registed' = [registed EXCEPT ![target[t]] = FALSE]
  /\ IF Contains(ready, target[t])
     THEN \E i \in DOMAIN ready :
            ready[i] = target[t] /\ ready' = RemoveAt(ready, i)
     ELSE UNCHANGED ready
  /\ target' = [target EXCEPT ![t] = Nothing]
  /\ Goto(t, UserCode(t))
  /\ UNCHANGED <<flags, closer, listVars, processing, lockVars, edges, stale>>

RemoveStep(t) ==
  RemoveTest(t) \/ RemoveLock(t) \/ RemoveNull(t) \/ RemoveCtl(t)

-----------------------------------------------------------------------------
(* The peers: a connection arrives at a registered listener.               *)
Edge(l) ==
  /\ edges < MaxEdges
  /\ registed[l]
  /\ edges' = edges + 1
  /\ ready' = IF Contains(ready, l) THEN ready ELSE Append(ready, l)
  /\ UNCHANGED <<listenerVars, listVars, processing, lockVars, pc, target, stale>>

-----------------------------------------------------------------------------
(* The loop thread.                                                        *)

(* epoll_wait() reports the oldest edges; the list of active events is     *)
(* empty and is filled without the mutex.  After a timeout or a signal it  *)
(* stays empty, which is not modelled: process_events() does nothing then. *)
Wait ==
  /\ pc[LoopThread] = "idle"
  /\ ready # <<>>
  /\ LET n == IF Len(ready) < MaxEvents THEN Len(ready) ELSE MaxEvents
     IN  /\ active' = active \o SubSeq(ready, 1, n)
         /\ ready' = SubSeq(ready, n + 1, Len(ready))
  /\ Goto(LoopThread, "flag")
  /\ UNCHANGED <<listenerVars, pos, processing, lockVars, target, edges, stale>>

SetProcessing ==
  /\ pc[LoopThread] = "flag"
  /\ processing' = TRUE
  /\ Goto(LoopThread, "lock")
  /\ UNCHANGED <<listenerVars, ready, listVars, lockVars, target, edges, stale>>

(* Faulty variant: process_events() does not take the mutex.               *)
LockEventsMissing ==
  /\ pc[LoopThread] = "lock"
  /\ owner' = owner
  /\ depth' = depth + 1
  /\ Goto(LoopThread, "next")
  /\ UNCHANGED <<listenerVars, ready, listVars, processing, target, edges, stale>>

LockEvents ==
  /\ pc[LoopThread] = "lock"
  /\ Lock(LoopThread)
  /\ Goto(LoopThread, "next")
  /\ UNCHANGED <<listenerVars, ready, listVars, processing, target, edges, stale>>

(* Faulty variant: the entries after the first one are passed over.        *)
NextEntrySkips ==
  /\ pc[LoopThread] = "next"
  /\ pos < Len(active)
  /\ pos' = pos + 1
  /\ Goto(LoopThread, IF pos > 0 \/ active[pos + 1] = Nothing
                        THEN "next" ELSE "on_events")
  /\ UNCHANGED <<listenerVars, ready, active, processing, lockVars, target,
                 edges, stale>>

NextEntry ==
  /\ pc[LoopThread] = "next"
  /\ pos < Len(active)
  /\ pos' = pos + 1
  /\ Goto(LoopThread, IF active[pos + 1] = Nothing THEN "next" ELSE "on_events")
  /\ UNCHANGED <<listenerVars, ready, active, processing, lockVars, target,
                 edges, stale>>

(* posix_listener::on_events() is entered, whatever became of the listener.*)
OnEvents ==
  /\ pc[LoopThread] = "on_events"
  /\ LET l == active[pos]
     IN  stale' = IF flags[l] = "closed" /\ ~registed[l]
                    THEN [stale EXCEPT ![l] = @ + 1] ELSE stale
  /\ Goto(LoopThread, "handler")
  /\ UNCHANGED <<listenerVars, ready, listVars, processing, lockVars, target, edges>>

HandlerReturns ==
  /\ pc[LoopThread] = "handler"
  /\ Goto(LoopThread, "next")
  /\ UNCHANGED <<listenerVars, ready, listVars, processing, lockVars, target,
                 edges, stale>>

(* Faulty variant: the list is not cleared.                                *)
ClearActiveMissing ==
  /\ pc[LoopThread] = "next"
  /\ pos = Len(active)
  /\ pos' = 0
  /\ Goto(LoopThread, "unlock")
  /\ UNCHANGED <<listenerVars, ready, active, processing, lockVars, target,
                 edges, stale>>

ClearActive ==
  /\ pc[LoopThread] = "next"
  /\ pos = Len(active)
  /\ active' = <<>>
  /\ pos' = 0
  /\ Goto(LoopThread, "unlock")
  /\ UNCHANGED <<listenerVars, ready, processing, lockVars, target, edges, stale>>

(* The scoped objects go in the reverse order: first the lock.             *)
UnlockEvents ==
  /\ pc[LoopThread] = "unlock"
  /\ Unlock
  /\ Goto(LoopThread, "unflag")
  /\ UNCHANGED <<listenerVars, ready, listVars, processing, target, edges, stale>>

ResetProcessing ==
  /\ pc[LoopThread] = "unflag"
  /\ processing' = FALSE
  /\ Goto(LoopThread, "idle")
  /\ UNCHANGED <<listenerVars, ready, listVars, lockVars, target, edges, stale>>

LoopStep ==
  \/ Wait \/ SetProcessing \/ LockEvents
  \/ NextEntry \/ OnEvents \/ ClearActive
  \/ UnlockEvents \/ ResetProcessing

Next ==
  \/ LoopStep
  \/ HandlerReturns
  \/ \E l \in Listeners : Edge(l)
  \/ \E t \in Threads :
       \/ RemoveStep(t)
       \/ \E l \in Listeners : Open(t, l) \/ Close(t, l)

Spec == Init /\ [][Next]_vars

(* The scheduler runs the threads that can run, and handlers return.  The  *)
(* mutex is granted to a thread that asks for it again and again; nobody   *)
(* has to open or close anything.                                          *)
Fairness ==
  /\ WF_vars(LoopStep)
  /\ SF_vars(LockEvents)
  /\ SF_vars(HandlerReturns)
  /\ \A t \in Threads : WF_vars(RemoveStep(t))

FairSpec == Spec /\ Fairness

-----------------------------------------------------------------------------
(* Safety.                                                                 *)

(* The listener whose entry the loop is at.                                *)
Dispatched == {l \in Listeners : pos > 0 /\ active[pos] = l}

(* A listener that the loop thread itself has closed, in a handler or in a *)
(* task, is never entered again, although its event may have been reported *)
(* in the same round: the search of remove_event() clears every entry that *)
(* is still to come, from whatever index it starts.                        *)
OwnCloseIsFinal ==
  pc[LoopThread] = "on_events"
    => \A l \in Dispatched : closer[l] # LoopThread

(* Another thread does not touch the list of active events while a handler *)
(* runs or the list is walked: the mutex is held for the whole round.      *)
RoundUndisturbed ==
  \A c \in Clients :
    pc[c] = "remove_null"
      => ~processing \/ pc[LoopThread] \in {"lock", "unflag"}

(* A client's close() is not a barrier for the handlers, but at most one   *)
(* handler of the listener starts after it has returned.                   *)
OneStaleDispatch == \A l \in Listeners : stale[l] <= 1

-----------------------------------------------------------------------------
(* Liveness.                                                               *)

(* The events are edge-triggered, each edge is reported once: the handler  *)
(* of a listener is entered after every edge, unless the listener is       *)
(* closed.                                                                 *)
EdgeHandled ==
  \A l \in Listeners :
    Contains(ready, l)
      ~> (flags[l] = "closed" \/ (pc[LoopThread] = "on_events" /\ l \in Dispatched))

=============================================================================
