----------------------------- MODULE TimersProofs -----------------------------
(***************************************************************************)
(* Theorems about the timers of an event loop, for any timers, clients and *)
(* number of expirations, whatever the handlers cancel: first the records  *)
(* of the timers, then the entries of a round and the assertions.          *)
(***************************************************************************)
EXTENDS Timers, FiniteSetTheorems, SequenceTheorems, TLAPS

(* The variables have their types; the queue is finite, for it starts      *)
(* empty and grows by one.                                                 *)
TimerType ==
  /\ kind \in [Timers -> {"new", "once", "every"}]
  /\ heap \in SUBSET Timers
  /\ IsFiniteSet(heap)
  /\ registed \in [Timers -> BOOLEAN]
  /\ open \in [Timers -> BOOLEAN]
  /\ readable \in [Timers -> BOOLEAN]
  /\ ready \in SUBSET Timers
  /\ active \in Seq(Timers)
  /\ pos \in 0 .. Len(active)
  /\ pc \in {"idle", "next", "read", "handler", "after", "left",
             "dangling", "aborted"}
  /\ stop \in BOOLEAN
  /\ inserting \in [Clients -> Timers \cup {Nothing}]
  /\ step \in [Clients -> {"idle", "register", "id"}]
  /\ ticks \in Nat
  /\ fired \in [Timers -> Nat]
  /\ dropped \in SUBSET Timers

(* The records of timer t in queue, epoll instance and kernel.             *)
TimerRecords(t) ==
  /\ t \in heap <=> open[t]
  /\ registed[t] => t \in heap
  /\ readable[t] => t \in heap
  /\ t \in ready => registed[t]
  /\ kind[t] = "new" => t \notin heap /\ fired[t] = 0
  /\ t \in heap /\ ~registed[t] => \E c \in Clients : step[c] = "register" /\ inserting[c] = t
  /\ t \in heap /\ kind[t] = "once" /\ fired[t] > 0 /\ ~Crashed
       => pc \in {"handler", "after"} /\ t = Current

(* A client that is about to register a timer is the only one to do so,    *)
(* and nobody removes the timer before.                                    *)
Registering ==
  /\ \A c \in Clients :
       step[c] = "register" =>
         inserting[c] \in heap /\ ~registed[inserting[c]] /\ kind[inserting[c]] # "new"
  /\ \A c, d \in Clients :
       step[c] = "register" /\ step[d] = "register" /\ inserting[c] = inserting[d] => c = d

(* The entries of the round are timers that were registered; they leave    *)
(* epoll and the queue together.                                           *)
RoundEntries ==
  /\ \A i \in DOMAIN active :
       kind[active[i]] # "new" /\ (active[i] \in heap => registed[active[i]])
  /\ pc \in {"read", "handler", "after"} => pos > 0
  /\ pc = "idle" => pos = 0 /\ active = <<>>

TimerInv ==
  TimerType /\ (\A t \in Timers : TimerRecords(t)) /\ Registering /\ RoundEntries

-----------------------------------------------------------------------------
(* Types.                                                                  *)

LEMMA TimerTypeInit == Init => TimerType
<1> SUFFICES ASSUME Init PROVE TimerType
  OBVIOUS
<1>1. kind \in [Timers -> {"new", "once", "every"}] /\ fired \in [Timers -> Nat]
  BY DEF Init
<1>2. /\ registed \in [Timers -> BOOLEAN]
      /\ open \in [Timers -> BOOLEAN]
      /\ readable \in [Timers -> BOOLEAN]
  BY Zenon DEF Init
<1>3. active \in Seq(Timers) /\ Len(active) = 0
  BY EmptySeq DEF Init
<1>4. inserting \in [Clients -> Timers \cup {Nothing}]
  BY Zenon DEF Init
<1>5. step \in [Clients -> {"idle", "register", "id"}]
  BY Zenon DEF Init
<1>6. pos \in 0 .. Len(active) /\ ticks \in Nat
  BY <1>3 DEF Init
<1>7. /\ heap \in SUBSET Timers /\ IsFiniteSet(heap)
      /\ ready \in SUBSET Timers /\ dropped \in SUBSET Timers
  BY FS_EmptySet DEF Init
<1> QED BY <1>1, <1>2, <1>3, <1>4, <1>5, <1>6, <1>7 DEF TimerType, Init

(* RemoveTimers() keeps the types.                                         *)
LEMMA RemoveType ==
  ASSUME TimerType, NEW S, RemoveTimers(S)
  PROVE  /\ heap' \in SUBSET Timers
         /\ IsFiniteSet(heap')
         /\ registed' \in [Timers -> BOOLEAN]
         /\ open' \in [Timers -> BOOLEAN]
         /\ readable' \in [Timers -> BOOLEAN]
         /\ ready' \in SUBSET Timers
<1>1. heap' \in SUBSET heap /\ ready' \in SUBSET Timers
  BY DEF RemoveTimers, TimerType
<1>2. IsFiniteSet(heap')
  BY <1>1, FS_Subset DEF TimerType
<1>3. /\ registed' \in [Timers -> BOOLEAN]
      /\ open' \in [Timers -> BOOLEAN]
      /\ readable' \in [Timers -> BOOLEAN]
  BY Zenon DEF RemoveTimers
<1> QED BY <1>1, <1>2, <1>3 DEF TimerType

(* The entries that epoll_wait() reports are timers.                       *)
LEMMA WaitFacts ==
  ASSUME TimerType, \A t \in Timers : TimerRecords(t), Wait
  PROVE  /\ active' \in Seq(Timers)
         /\ \A i \in DOMAIN active' : active'[i] \in ready
         /\ \A i, j \in DOMAIN active' : active'[i] = active'[j] => i = j
<1>1. ready \subseteq heap
  BY DEF TimerType, TimerRecords
<1>2. IsFiniteSet(ready)
  BY <1>1, FS_Subset DEF TimerType
<1> DEFINE n == Cardinality(ready)
<1>3. n \in Nat
  BY <1>2, FS_CardinalityType
<1>4. active' \in {f \in [1..n -> ready] : \A i, j \in 1..n : i # j => f[i] # f[j]}
  BY DEF Wait, SetToSeqs
<1> HIDE DEF n
<1>5. active' \in [1..n -> ready] /\ \A i, j \in 1..n : i # j => active'[i] # active'[j]
  BY <1>4
<1>6. active' \in [1..n -> Timers]
  BY <1>5 DEF TimerType
<1>7. active' \in Seq(Timers)
  BY <1>3, <1>6, SeqDef
<1> QED BY <1>5, <1>7

LEMMA TimerTypeStep ==
  TimerType /\ (\A t \in Timers : TimerRecords(t)) /\ RoundEntries /\ Registering
    /\ [Next]_vars => TimerType'
<1> SUFFICES ASSUME TimerType, \A t \in Timers : TimerRecords(t), RoundEntries,
                    Registering, [Next]_vars
             PROVE  TimerType'
  OBVIOUS
<1>1. ASSUME NEW t \in Timers, NEW k \in {"once", "every"}, InsertInQueue(t, k)
      PROVE  /\ kind' \in [Timers -> {"new", "once", "every"}]
             /\ heap' \in SUBSET Timers
             /\ IsFiniteSet(heap')
             /\ open' \in [Timers -> BOOLEAN]
  <2>1. IsFiniteSet(heap')
    BY <1>1, FS_AddElement DEF InsertInQueue, TimerType
  <2> QED BY <1>1, <2>1 DEF InsertInQueue, TimerType
<1>2. ASSUME NEW t \in Timers, AddToEpoll(t)
      PROVE  registed' \in [Timers -> BOOLEAN] /\ ready' \in SUBSET Timers
  BY <1>2 DEF AddToEpoll, TimerType
<1>3. ASSUME NEW t \in Timers, NEW k \in {"once", "every"}, Insert(t, k)
      PROVE  TimerType'
  BY <1>1, <1>2, <1>3 DEF Insert, TimerType, roundVars, clientVars, histVars
<1>4. ASSUME NEW t \in Timers, NEW k \in {"once", "every"}, NEW c \in Clients,
             ClientInsert(c, t, k)
      PROVE  TimerType'
  BY <1>1, <1>4 DEF ClientInsert, TimerType, roundVars, histVars
<1>5. ASSUME NEW c \in Clients, ClientRegister(c)
      PROVE  TimerType'
  <2>1. inserting[c] \in Timers
    BY <1>5 DEF ClientRegister, Registering, TimerType
  <2> QED BY <1>2, <1>5, <2>1 DEF ClientRegister, TimerType, roundVars, queueVars, histVars
<1>6. ASSUME NEW c \in Clients, ClientReturn(c)
      PROVE  TimerType'
  BY <1>6 DEF ClientReturn, TimerType, roundVars, queueVars, kernelVars, histVars
<1>7. ASSUME NEW t \in Timers, Cancel(t)
      PROVE  TimerType'
  <2>1. RemoveTimers({t}) /\ pc' = pc /\ dropped' \in SUBSET Timers
    BY <1>7 DEF Cancel, RemoveChecked, TimerType
  <2> QED BY <1>7, <2>1, RemoveType DEF Cancel, TimerType, roundVars, clientVars
<1>8. ASSUME NEW t \in Timers, Expire(t)
      PROVE  TimerType'
  BY <1>8, TimersAssumption
     DEF Expire, TimerType, roundVars, clientVars, queueVars, histVars
<1>9. CASE Stop
  <2>1. dropped' \in SUBSET Timers /\ pc' \in {"left", "idle", "handler", "aborted"}
    BY <1>9 DEF Stop, RemoveChecked, TimerType
  <2>2. CASE RemoveTimers(heap)
    BY <1>9, <2>1, <2>2, RemoveType DEF Stop, TimerType, roundVars, clientVars
  <2>3. CASE UNCHANGED <<heap, kernelVars>>
    BY <1>9, <2>1, <2>3 DEF Stop, TimerType, roundVars, clientVars, kernelVars
  <2> QED BY <1>9, <2>2, <2>3 DEF Stop, RemoveChecked
<1>10. CASE Wait
  <2>1. active' \in Seq(Timers) /\ Len(active') \in Nat
    BY <1>10, WaitFacts, LenProperties
  <2>2. pos' \in 0 .. Len(active')
    BY <1>10, <2>1 DEF Wait, RoundEntries
  <2> QED BY <1>10, <2>1, <2>2 DEF Wait, TimerType, clientVars, queueVars, histVars
<1>11. CASE NextEntry
  BY <1>11 DEF NextEntry, TimerType, clientVars, queueVars, kernelVars, histVars
<1>12. CASE RoundDone
  <2>1. active' \in Seq(Timers) /\ Len(active') = 0
    BY <1>12, EmptySeq DEF RoundDone
  <2>2. pos' \in 0 .. Len(active')
    BY <1>12, <2>1 DEF RoundDone
  <2> QED
    BY <1>12, <2>1, <2>2 DEF RoundDone, TimerType, clientVars, queueVars, kernelVars
<1>13. CASE Read
  <2>1. Current \in Timers
    BY <1>13 DEF Read, RoundEntries, TimerType, Current
  <2>2. fired' \in [Timers -> Nat]
    BY <1>13, <2>1 DEF Read, TimerType
  <2>3. readable' \in [Timers -> BOOLEAN]
    BY <1>13, <2>1 DEF Read, TimerType
  <2>4. pc' \in {"next", "handler", "aborted"}
    BY <1>13, <2>1 DEF Read, TimerType
  <2> QED
    BY <1>13, <2>2, <2>3, <2>4 DEF Read, TimerType, roundVars, clientVars, queueVars
<1>14. CASE HandlerReturns
  BY <1>14 DEF HandlerReturns, TimerType, roundVars, clientVars, queueVars, kernelVars,
                 histVars
<1>15. CASE AfterHandler
  <2>1. pc' \in {"read", "next"}
    BY <1>15 DEF AfterHandler, RemoveChecked
  <2>2. CASE RemoveTimers({Current})
    BY <1>15, <2>1, <2>2, RemoveType
       DEF AfterHandler, TimerType, roundVars, clientVars, histVars
  <2>3. CASE UNCHANGED <<heap, kernelVars>>
    BY <1>15, <2>1, <2>3
       DEF AfterHandler, TimerType, roundVars, clientVars, kernelVars, histVars
  <2> QED BY <1>15, <2>2, <2>3 DEF AfterHandler, RemoveChecked
<1>16. CASE UNCHANGED vars
  BY <1>16 DEF TimerType, vars, roundVars, clientVars, queueVars, kernelVars, histVars
<1> QED
  BY <1>3, <1>4, <1>5, <1>6, <1>7, <1>8, <1>9, <1>10, <1>11, <1>12, <1>13, <1>14,
     <1>15, <1>16 DEF Next, LoopStep

-----------------------------------------------------------------------------
(* The records of the timers.                                              *)

(* Timers that are registered, or not in the queue, are removed.           *)
LEMMA RemoveRecords ==
  ASSUME TimerInv, NEW S \in SUBSET Timers,
         \A t \in S : t \in heap => registed[t],
         RemoveTimers(S),
         UNCHANGED <<kind, active, pos, inserting, step, fired>>,
         pc' \in {"left", "next", "read"} =>
           \A t \in Timers : t \in heap /\ kind[t] = "once" /\ fired[t] > 0 => t \in S,
         pc' \in {"idle", "left", "next", "read", "handler", "after"},
         pc' = "idle" => pc = "idle",
         pc' \in {"read", "handler", "after"} => pc \in {"handler", "after"},
         pc' \in {"handler", "after"} => pc = pc'
  PROVE  (\A t \in Timers : TimerRecords(t)') /\ Registering' /\ RoundEntries'
<1> USE DEF TimerInv
<1>1. \A t \in Timers : /\ t \in heap' <=> t \in heap /\ t \notin S
                        /\ open'[t] <=> open[t] /\ t \notin S
                        /\ registed'[t] <=> registed[t] /\ t \notin S
                        /\ readable'[t] <=> readable[t] /\ t \notin S
                        /\ t \in ready' <=> t \in ready /\ t \notin S
  BY Zenon DEF RemoveTimers, TimerType
<1>2. ASSUME NEW t \in Timers PROVE TimerRecords(t)'
  <2>1. CASE t \in S
    BY <1>1, <2>1 DEF TimerRecords, Crashed
  <2>2. CASE t \notin S
    BY <1>1, <2>2 DEF TimerRecords, Crashed, TimerType, Current
  <2> QED BY <2>1, <2>2
<1>3. Registering'
  BY <1>1 DEF Registering, TimerType
<1>4. \A i \in DOMAIN active : active[i] \in Timers
  BY DEF TimerType
<1>5. RoundEntries'
  BY <1>1, <1>4 DEF RoundEntries, TimerType
<1> QED BY <1>2, <1>3, <1>5

(* A timer is made and put in the queue, and registered at once or not.    *)
LEMMA InsertRecords ==
  ASSUME TimerInv, NEW t \in Timers, NEW k \in {"once", "every"}, InsertInQueue(t, k),
         UNCHANGED <<readable, active, pos, pc, fired>>,
         \/ AddToEpoll(t) /\ UNCHANGED <<inserting, step>>
         \/ /\ UNCHANGED <<registed, ready>>
            /\ \E c \in Clients : /\ step[c] = "idle"
                                  /\ inserting' = [inserting EXCEPT ![c] = t]
                                  /\ step' = [step EXCEPT ![c] = "register"]
  PROVE  (\A u \in Timers : TimerRecords(u)') /\ Registering' /\ RoundEntries'
<1> USE DEF TimerInv
<1>1. /\ kind[t] = "new" /\ t \notin heap /\ ~open[t] /\ ~registed[t] /\ ~readable[t]
      /\ t \notin ready /\ fired[t] = 0
  BY DEF InsertInQueue, TimerRecords
<1>2. /\ kind'[t] = k /\ t \in heap' /\ open'[t]
      /\ \A u \in Timers : u # t => /\ kind'[u] = kind[u]
                                    /\ u \in heap' <=> u \in heap
                                    /\ open'[u] = open[u]
  BY DEF InsertInQueue, TimerType
<1>3. \A i \in DOMAIN active : active[i] \in Timers /\ active[i] # t
  BY <1>1 DEF TimerType, RoundEntries
<1>4. CASE AddToEpoll(t) /\ UNCHANGED <<inserting, step>>
  <2>1. /\ registed'[t] /\ ready' = ready
        /\ \A u \in Timers : u # t => registed'[u] = registed[u]
    BY <1>1, <1>4 DEF AddToEpoll, TimerType
  <2>2. ASSUME NEW u \in Timers PROVE TimerRecords(u)'
    <3>1. CASE u = t
      BY <1>1, <1>2, <2>1, <3>1 DEF TimerRecords, Crashed
    <3>2. CASE u # t
      BY <1>2, <1>4, <2>1, <3>2 DEF TimerRecords, Crashed, Current
    <3> QED BY <3>1, <3>2
  <2>3. \A c \in Clients : step[c] = "register" => inserting[c] # t
    BY <1>1 DEF Registering
  <2>4. Registering'
    BY <1>2, <1>4, <2>1, <2>3 DEF Registering, TimerType
  <2>5. RoundEntries'
    BY <1>2, <1>3, <2>1 DEF RoundEntries
  <2> QED BY <2>2, <2>4, <2>5
<1>5. ASSUME UNCHANGED <<registed, ready>>, NEW c \in Clients, step[c] = "idle",
             inserting' = [inserting EXCEPT ![c] = t],
             step' = [step EXCEPT ![c] = "register"]
      PROVE  (\A u \in Timers : TimerRecords(u)') /\ Registering' /\ RoundEntries'
  <2>1. /\ inserting'[c] = t /\ step'[c] = "register"
        /\ \A d \in Clients : d # c => inserting'[d] = inserting[d] /\ step'[d] = step[d]
    BY <1>5 DEF TimerType
  <2>2. ASSUME NEW u \in Timers PROVE TimerRecords(u)'
    <3>1. CASE u = t
      BY <1>1, <1>2, <1>5, <2>1, <3>1 DEF TimerRecords, Crashed
    <3>2. CASE u # t
      BY <1>2, <1>5, <2>1, <3>2 DEF TimerRecords, Crashed, Current
    <3> QED BY <3>1, <3>2
  <2>3. \A d \in Clients : step[d] = "register" => inserting[d] # t
    BY <1>1 DEF Registering
  <2>4. Registering'
    BY <1>1, <1>2, <1>5, <2>1, <2>3 DEF Registering, TimerType
  <2>5. RoundEntries'
    BY <1>2, <1>3, <1>5 DEF RoundEntries
  <2> QED BY <2>2, <2>4, <2>5
<1> QED BY <1>4, <1>5

LEMMA TimerStep ==
  TimerInv /\ [Next]_vars
    => (\A t \in Timers : TimerRecords(t)') /\ Registering' /\ RoundEntries'
<1> DEFINE Goal == (\A t \in Timers : TimerRecords(t)') /\ Registering' /\ RoundEntries'
<1> SUFFICES ASSUME TimerInv, [Next]_vars PROVE Goal
  OBVIOUS
<1> USE DEF TimerInv
<1>1. \A i \in DOMAIN active : active[i] \in Timers
  BY DEF TimerType
<1>2. pc \in {"read", "handler", "after"} => Current \in Timers
  BY DEF RoundEntries, TimerType, Current
<1>3. ASSUME NEW t \in Timers, NEW k \in {"once", "every"}, Insert(t, k)
      PROVE  Goal
  BY <1>3, InsertRecords DEF Insert, roundVars, clientVars, histVars
<1>4. ASSUME NEW t \in Timers, NEW k \in {"once", "every"}, NEW c \in Clients,
             ClientInsert(c, t, k)
      PROVE  Goal
  BY <1>4, InsertRecords DEF ClientInsert, roundVars, histVars
<1>5. ASSUME NEW c \in Clients, ClientRegister(c)
      PROVE  Goal
  <2> DEFINE t == inserting[c]
  <2>1. t \in Timers /\ t \in heap /\ ~registed[t] /\ kind[t] # "new"
    BY <1>5 DEF ClientRegister, Registering, TimerType
  <2>2. /\ registed'[t]
        /\ \A u \in Timers : u # t => registed'[u] = registed[u]
        /\ \A u \in Timers : u # t => (u \in ready' <=> u \in ready)
    BY <1>5, <2>1 DEF ClientRegister, AddToEpoll, TimerType
  <2>3. /\ step'[c] = "id"
        /\ \A d \in Clients : d # c => step'[d] = step[d]
    BY <1>5 DEF ClientRegister, TimerType
  <2>4. /\ \A d \in Clients : step[d] = "register" /\ d # c => inserting[d] # t
        /\ UNCHANGED <<kind, heap, open, readable, active, pos, pc, inserting, fired>>
    BY <1>5 DEF ClientRegister, Registering, queueVars, roundVars, histVars
  <2> HIDE DEF t
  <2>5. ASSUME NEW u \in Timers PROVE TimerRecords(u)'
    <3>1. CASE u = t
      BY <2>1, <2>2, <2>4, <3>1 DEF TimerRecords, Crashed, Current
    <3>2. CASE u # t
      <4>1. u \in heap /\ ~registed[u]
              => \E d \in Clients : step'[d] = "register" /\ inserting'[d] = u
        BY <2>3, <2>4, <3>2 DEF TimerRecords, Crashed, t
      <4> QED BY <2>2, <2>4, <3>2, <4>1 DEF TimerRecords, Crashed, Current
    <3> QED BY <3>1, <3>2
  <2>6. Registering'
    BY <2>2, <2>3, <2>4 DEF Registering, TimerType
  <2>7. RoundEntries'
    BY <1>1, <2>2, <2>4 DEF RoundEntries
  <2> QED BY <2>5, <2>6, <2>7
<1>6. ASSUME NEW c \in Clients, ClientReturn(c)
      PROVE  Goal
  <2>1. /\ step[c] = "id" /\ step'[c] = "idle"
        /\ \A d \in Clients : d # c => step'[d] = step[d] /\ inserting'[d] = inserting[d]
        /\ UNCHANGED <<kind, heap, registed, open, readable, ready, active, pos, pc, fired>>
    BY <1>6 DEF ClientReturn, TimerType, queueVars, kernelVars, roundVars, histVars
  <2>2. ASSUME NEW u \in Timers PROVE TimerRecords(u)'
    BY <2>1 DEF TimerRecords, Crashed, Current
  <2>3. Registering'
    BY <2>1 DEF Registering
  <2>4. RoundEntries'
    BY <2>1 DEF RoundEntries
  <2> QED BY <2>2, <2>3, <2>4
<1>7. ASSUME NEW t \in Timers, Cancel(t)
      PROVE  Goal
  <2>1. RemoveTimers({t}) /\ registed[t] /\ pc \in {"idle", "handler"} /\ pc' = pc
    BY <1>7 DEF Cancel, RemoveChecked
  <2>2. UNCHANGED <<kind, active, pos, inserting, step, fired>>
    BY <1>7 DEF Cancel, roundVars, clientVars, histVars
  <2> QED BY <2>1, <2>2, RemoveRecords
<1>8. ASSUME NEW t \in Timers, Expire(t)
      PROVE  Goal
  <2>1. /\ open[t] /\ readable'[t]
        /\ \A u \in Timers : u # t => readable'[u] = readable[u]
        /\ \A u \in Timers : u # t => (u \in ready' <=> u \in ready)
        /\ t \in ready' => t \in ready \/ registed[t]
        /\ UNCHANGED <<kind, heap, registed, open, active, pos, pc, inserting, step, fired>>
    BY <1>8 DEF Expire, TimerType, queueVars, roundVars, clientVars, histVars
  <2>2. ASSUME NEW u \in Timers PROVE TimerRecords(u)'
    BY <2>1 DEF TimerRecords, Crashed, Current
  <2>3. Registering' /\ RoundEntries'
    BY <2>1 DEF Registering, RoundEntries
  <2> QED BY <2>2, <2>3
<1>9. CASE Stop
  <2>1. CASE \A t \in heap : registed[t]
    <3>1. RemoveTimers(heap) /\ pc \in {"idle", "handler"}
          /\ pc' = IF pc = "idle" THEN "left" ELSE pc
      BY <1>9, <2>1 DEF Stop, RemoveChecked
    <3>2. UNCHANGED <<kind, active, pos, inserting, step, fired>>
      BY <1>9 DEF Stop, RemoveChecked, roundVars, clientVars, histVars
    <3>3. heap \in SUBSET Timers
      BY DEF TimerType
    <3> QED BY <2>1, <3>1, <3>2, <3>3, RemoveRecords
  <2>2. CASE ~(\A t \in heap : registed[t])
    <3>1. /\ pc' = "aborted"
          /\ UNCHANGED <<kind, heap, registed, open, readable, ready, active, pos,
                         inserting, step, fired>>
      BY <1>9, <2>2 DEF Stop, RemoveChecked, roundVars, clientVars, kernelVars, histVars
    <3>2. ASSUME NEW u \in Timers PROVE TimerRecords(u)'
      BY <3>1 DEF TimerRecords, Crashed
    <3>3. Registering' /\ RoundEntries'
      BY <3>1 DEF Registering, RoundEntries
    <3> QED BY <3>2, <3>3
  <2> QED BY <2>1, <2>2
<1>10. CASE Wait
  <2>1. /\ \A i \in DOMAIN active' : active'[i] \in ready
        /\ pc = "idle" /\ pc' = "next" /\ ready' = {}
        /\ UNCHANGED <<kind, heap, registed, open, readable, pos, inserting, step, fired>>
    BY <1>10, WaitFacts DEF Wait, queueVars, clientVars, histVars
  <2>2. ASSUME NEW u \in Timers PROVE TimerRecords(u)'
    BY <2>1 DEF TimerRecords, Crashed
  <2>3. Registering'
    BY <2>1 DEF Registering
  <2>4. \A i \in DOMAIN active' :
          kind[active'[i]] # "new" /\ registed[active'[i]]
    BY <2>1 DEF TimerRecords, Crashed, TimerType
  <2>5. RoundEntries'
    BY <2>1, <2>4 DEF RoundEntries
  <2> QED BY <2>2, <2>3, <2>5
<1>11. CASE NextEntry
  <2>1. /\ pc = "next" /\ pc' \in {"read", "dangling"} /\ pos' = pos + 1
        /\ UNCHANGED <<kind, heap, registed, open, readable, ready, active,
                       inserting, step, fired>>
    BY <1>11 DEF NextEntry, queueVars, kernelVars, clientVars, histVars
  <2>2. ASSUME NEW u \in Timers PROVE TimerRecords(u)'
    BY <2>1 DEF TimerRecords, Crashed
  <2>3. Registering' /\ RoundEntries'
    BY <2>1 DEF Registering, RoundEntries, TimerType
  <2> QED BY <2>2, <2>3
<1>12. CASE RoundDone
  <2>1. /\ pc = "next" /\ pc' \in {"idle", "left"} /\ pos' = 0 /\ active' = <<>>
        /\ UNCHANGED <<kind, heap, registed, open, readable, ready, inserting, step, fired>>
    BY <1>12 DEF RoundDone, queueVars, kernelVars, clientVars, histVars
  <2>2. ASSUME NEW u \in Timers PROVE TimerRecords(u)'
    BY <2>1 DEF TimerRecords, Crashed
  <2>3. Registering' /\ RoundEntries'
    BY <2>1 DEF Registering, RoundEntries
  <2> QED BY <2>2, <2>3
<1>13. CASE Read
  <2>1. Current \in Timers /\ Current' = Current
    BY <1>2, <1>13 DEF Read, Current, roundVars, histVars
  <2>2. /\ pc = "read" /\ pc' \in {"handler", "next", "aborted"}
        /\ pc' = "handler" => open[Current]
        /\ UNCHANGED <<kind, heap, registed, open, ready, active, pos, inserting, step>>
    <3>1. pc' = CASE ~open[Current] -> "aborted"
                  [] readable[Current] -> "handler"
                  [] OTHER -> "next"
      BY <1>13 DEF Read
    <3>2. open[Current] \in BOOLEAN /\ readable[Current] \in BOOLEAN
      BY <2>1 DEF TimerType
    <3>3. pc' \in {"handler", "next", "aborted"} /\ (pc' = "handler" => open[Current])
      BY <2>1, <3>1, <3>2 DEF TimerRecords, Crashed
    <3> QED BY <1>13, <3>3 DEF Read, queueVars, roundVars, clientVars, histVars
  <2>3. /\ \A u \in Timers : u # Current => fired'[u] = fired[u] /\ readable'[u] = readable[u]
        /\ ~readable'[Current]
        /\ pc' # "handler" => fired' = fired
    BY <1>13, <2>1 DEF Read, TimerType
  <2>4. ASSUME NEW u \in Timers PROVE TimerRecords(u)'
    <3>1. CASE u = Current
      BY <2>1, <2>2, <2>3, <3>1 DEF TimerRecords, Crashed
    <3>2. CASE u # Current
      BY <2>1, <2>2, <2>3, <3>2 DEF TimerRecords, Crashed
    <3> QED BY <3>1, <3>2
  <2>5. Registering' /\ RoundEntries'
    BY <2>2 DEF Registering, RoundEntries
  <2> QED BY <2>4, <2>5
<1>14. CASE HandlerReturns
  <2>1. /\ pc = "handler" /\ pc' = "after"
        /\ UNCHANGED <<kind, heap, registed, open, readable, ready, active, pos,
                       inserting, step, fired>>
    BY <1>14 DEF HandlerReturns, queueVars, roundVars, kernelVars, clientVars, histVars
  <2>2. ASSUME NEW u \in Timers PROVE TimerRecords(u)'
    BY <2>1 DEF TimerRecords, Crashed, Current
  <2>3. Registering' /\ RoundEntries'
    BY <2>1 DEF Registering, RoundEntries
  <2> QED BY <2>2, <2>3
<1>15. CASE AfterHandler
  <2>1. /\ pc = "after" /\ pc' = IF kind[Current] = "every" THEN "read" ELSE "next"
        /\ Current \in Timers
        /\ UNCHANGED <<kind, active, pos, inserting, step, fired>>
    BY <1>2, <1>15 DEF AfterHandler, RemoveChecked, roundVars, clientVars, histVars
  <2>2. Current \in heap => registed[Current]
    BY <2>1 DEF RoundEntries, Current, TimerType
  <2>3. \A t \in Timers : t \in heap /\ kind[t] = "once" /\ fired[t] > 0 => t = Current
    BY <2>1 DEF TimerRecords, Crashed
  <2>4. CASE kind[Current] = "once" /\ registed[Current]
    <3>1. RemoveTimers({Current})
      BY <1>15, <2>4 DEF AfterHandler, RemoveChecked
    <3>2. {Current} \in SUBSET Timers /\ \A t \in {Current} : t \in heap => registed[t]
      BY <2>1, <2>2
    <3> QED BY <2>1, <2>3, <3>1, <3>2, RemoveRecords
  <2>5. CASE ~(kind[Current] = "once" /\ registed[Current])
    <3>1. UNCHANGED <<heap, registed, open, readable, ready>>
      BY <1>15, <2>5 DEF AfterHandler, kernelVars, histVars
    <3>2. ~(Current \in heap /\ kind[Current] = "once")
      BY <2>2, <2>5
    <3>3. ASSUME NEW u \in Timers PROVE TimerRecords(u)'
      BY <2>1, <2>3, <3>1, <3>2 DEF TimerRecords, Crashed
    <3>4. Registering' /\ RoundEntries'
      BY <2>1, <3>1 DEF Registering, RoundEntries
    <3> QED BY <3>3, <3>4
  <2> QED BY <2>4, <2>5
<1>16. CASE UNCHANGED vars
  <2>1. UNCHANGED <<kind, heap, registed, open, readable, ready, active, pos, pc,
                    inserting, step, fired>>
    BY <1>16 DEF vars, histVars, queueVars, roundVars, kernelVars, clientVars
  <2>2. ASSUME NEW u \in Timers PROVE TimerRecords(u)'
    BY <2>1 DEF TimerRecords, Crashed, Current
  <2>3. Registering' /\ RoundEntries'
    BY <2>1 DEF Registering, RoundEntries
  <2> QED BY <2>2, <2>3
<1> HIDE DEF Goal
<1> QED
  BY <1>3, <1>4, <1>5, <1>6, <1>7, <1>8, <1>9, <1>10, <1>11, <1>12, <1>13, <1>14,
     <1>15, <1>16 DEF Next, LoopStep

(* In every state, also in the middle of a round or of an insertion by     *)
(* another thread, the records of each timer fit together.                 *)
THEOREM TimerInvariant == Spec => []TimerInv
<1>1. Init => TimerInv
  <2> SUFFICES ASSUME Init PROVE TimerInv
    OBVIOUS
  <2>1. TimerType
    BY TimerTypeInit
  <2>2. ASSUME NEW t \in Timers PROVE TimerRecords(t)
    <3>1. ~open[t] /\ ~registed[t] /\ ~readable[t]
      BY Zenon DEF Init
    <3>2. fired[t] = 0 /\ heap = {} /\ ready = {}
      BY DEF Init
    <3> QED BY <3>1, <3>2 DEF TimerRecords
  <2>3. Registering /\ RoundEntries
    BY DEF Init, Registering, RoundEntries
  <2> QED BY <2>1, <2>2, <2>3 DEF TimerInv
<1>2. TimerInv /\ [Next]_vars => TimerInv'
  BY TimerStep, TimerTypeStep DEF TimerInv
<1> QED BY <1>1, <1>2, PTL DEF Spec

(* Whatever the handlers cancel, between rounds no timer is half removed   *)
(* and no one-shot timer that has fired is left.                           *)
THEOREM RecordsAgree == Spec => []TimersConsistent
<1>1. TimerInv => TimersConsistent
  BY DEF TimerInv, TimerType, TimerRecords, Crashed, TimersConsistent
<1> QED BY <1>1, TimerInvariant, PTL

-----------------------------------------------------------------------------
(* The entries of a round.                                                 *)

(* The entries of a round are different timers, each alive or dropped by a *)
(* handler of this round: those not yet reached, and the current one while *)
(* on_events() may go on with it.                                          *)
RoundAlive ==
  /\ \A i, j \in DOMAIN active : active[i] = active[j] => i = j
  /\ \A i \in DOMAIN active : i > pos => active[i] \in heap \cup dropped
  /\ pc \in {"read", "dangling"} => pos \in DOMAIN active /\ Current \in heap \cup dropped
  /\ pc \in {"handler", "after"} /\ kind[Current] = "every" => Current \in heap \cup dropped
  /\ pc = "read" /\ kind[Current] = "once" => Current \in heap

LEMMA RoundStep == TimerInv /\ RoundAlive /\ [Next]_vars => RoundAlive'
<1> SUFFICES ASSUME TimerInv, RoundAlive, [Next]_vars PROVE RoundAlive'
  OBVIOUS
<1> USE DEF TimerInv
<1>1. \A i \in DOMAIN active : active[i] \in Timers
  BY DEF TimerType
<1>2. pc \in {"read", "handler", "after"} =>
        pos \in DOMAIN active /\ Current \in Timers /\ kind[Current] \in {"once", "every"}
  BY DEF RoundEntries, TimerType, Current
<1>3. ASSUME UNCHANGED <<kind, active, pos, pc, dropped>>, heap \subseteq heap'
      PROVE  RoundAlive'
  BY <1>3 DEF RoundAlive, Current
<1>4. ASSUME NEW t \in Timers, NEW k \in {"once", "every"}, InsertInQueue(t, k),
             UNCHANGED <<active, pos, pc, dropped>>
      PROVE  RoundAlive'
  <2>1. heap \subseteq heap'
    BY <1>4 DEF InsertInQueue
  <2>2. kind[t] = "new" /\ \A u \in Timers : u # t => kind'[u] = kind[u]
    BY <1>4 DEF InsertInQueue, TimerType
  <2>3. pc \in {"read", "handler", "after"} => kind'[Current] = kind[Current]
    BY <1>2, <2>2
  <2> QED BY <1>4, <2>1, <2>3 DEF RoundAlive, Current
<1>5. ASSUME NEW t \in Timers, NEW k \in {"once", "every"}, Insert(t, k)
      PROVE  RoundAlive'
  BY <1>4, <1>5 DEF Insert, roundVars, histVars
<1>6. ASSUME NEW t \in Timers, NEW k \in {"once", "every"}, NEW c \in Clients,
             ClientInsert(c, t, k)
      PROVE  RoundAlive'
  BY <1>4, <1>6 DEF ClientInsert, roundVars, histVars
<1>7. ASSUME NEW c \in Clients, ClientRegister(c) \/ ClientReturn(c)
      PROVE  RoundAlive'
  BY <1>3, <1>7 DEF ClientRegister, ClientReturn, queueVars, roundVars, histVars
<1>8. ASSUME NEW S \in SUBSET Timers, heap' = heap \ S \/ heap' = heap,
             dropped' = IF pc = "handler" THEN dropped \cup S ELSE dropped,
             pc \in {"idle", "handler"}, pc' \in {pc, "left", "aborted"},
             UNCHANGED <<kind, active, pos>>
      PROVE  RoundAlive'
  <2>1. pc = "idle" => DOMAIN active = {}
    BY EmptySeq DEF RoundEntries
  <2>2. pc = "handler" => heap \cup dropped \subseteq heap' \cup dropped'
    BY <1>8
  <2> QED BY <1>8, <2>1, <2>2 DEF RoundAlive, Current
<1>9. ASSUME NEW t \in Timers, Cancel(t)
      PROVE  RoundAlive'
  <2>1. /\ heap' = heap \ {t}
        /\ pc \in {"idle", "handler"} /\ pc' = pc
        /\ dropped' = IF pc = "handler" THEN dropped \cup {t} ELSE dropped
        /\ UNCHANGED <<kind, active, pos>>
    BY <1>9 DEF Cancel, RemoveChecked, RemoveTimers, roundVars
  <2>2. {t} \in SUBSET Timers
    OBVIOUS
  <2> QED BY <1>8, <2>1, <2>2
<1>10. ASSUME NEW t \in Timers, Expire(t)
      PROVE  RoundAlive'
  BY <1>3, <1>10 DEF Expire, queueVars, roundVars, histVars
<1>11. CASE Stop
  <2>1. /\ heap' = heap \ heap \/ heap' = heap
        /\ pc \in {"idle", "handler"} /\ pc' \in {pc, "left", "aborted"}
        /\ dropped' = IF pc = "handler" THEN dropped \cup heap ELSE dropped
        /\ UNCHANGED <<kind, active, pos>>
    BY <1>11 DEF Stop, RemoveChecked, RemoveTimers, roundVars
  <2>2. heap \in SUBSET Timers
    BY DEF TimerType
  <2> QED BY <1>8, <2>1, <2>2
<1>12. CASE Wait
  <2>1. /\ \A i \in DOMAIN active' : active'[i] \in ready
        /\ \A i, j \in DOMAIN active' : active'[i] = active'[j] => i = j
        /\ pc = "idle" /\ pc' = "next"
        /\ UNCHANGED <<kind, heap, pos, dropped>>
    BY <1>12, WaitFacts DEF Wait, queueVars, histVars
  <2>2. \A i \in DOMAIN active' : active'[i] \in heap
    BY <2>1 DEF TimerRecords, TimerType
  <2> QED BY <2>1, <2>2 DEF RoundAlive
<1>13. CASE NextEntry
  <2>1. /\ pc = "next" /\ pos' = pos + 1 /\ pos < Len(active)
        /\ pc' = IF active[pos'] \in heap THEN "read" ELSE "dangling"
        /\ UNCHANGED <<kind, heap, active, dropped>>
    BY <1>13 DEF NextEntry, queueVars, histVars
  <2>2. Len(active) \in Nat /\ DOMAIN active = 1 .. Len(active) /\ pos \in Nat
    BY LenProperties DEF TimerType
  <2>3. pos + 1 \in DOMAIN active /\ pos + 1 > pos
    BY <2>1, <2>2
  <2>4. Current' = active[pos + 1] /\ active[pos + 1] \in heap \cup dropped
    BY <2>1, <2>3 DEF RoundAlive, Current
  <2>5. pc' = "read" => Current' \in heap'
    BY <2>1, <2>4
  <2>6. \A i \in DOMAIN active : i > pos + 1 => i > pos
    BY <2>2
  <2> QED BY <2>1, <2>3, <2>4, <2>5, <2>6 DEF RoundAlive
<1>14. CASE RoundDone
  <2>1. DOMAIN active' = {} /\ pc' \in {"idle", "left"}
    BY <1>14, EmptySeq DEF RoundDone
  <2> QED BY <2>1 DEF RoundAlive
<1>15. CASE Read
  <2>1. /\ pc = "read" /\ pc' \in {"handler", "next", "aborted"}
        /\ UNCHANGED <<kind, heap, active, pos, dropped>>
    BY <1>15, Zenon DEF Read, queueVars, roundVars
  <2> QED BY <2>1 DEF RoundAlive, Current
<1>16. CASE HandlerReturns
  BY <1>16 DEF HandlerReturns, RoundAlive, Current, queueVars, roundVars, histVars
<1>17. CASE AfterHandler
  <2>1. /\ pc = "after" /\ pc' = IF kind[Current] = "every" THEN "read" ELSE "next"
        /\ UNCHANGED <<kind, active, pos, dropped>>
    BY <1>2, <1>17 DEF AfterHandler, RemoveChecked, roundVars, histVars
  <2>2. heap' = heap \/ (heap' = heap \ {Current} /\ kind[Current] = "once")
    BY <1>17 DEF AfterHandler, RemoveChecked, RemoveTimers
  <2>3. \A i \in DOMAIN active : i > pos => active[i] # Current
    BY <1>2, <2>1 DEF RoundAlive, Current, TimerType
  <2> QED BY <1>2, <2>1, <2>2, <2>3 DEF RoundAlive, Current
<1>18. CASE UNCHANGED vars
  BY <1>3, <1>18 DEF vars, queueVars, roundVars, histVars
<1> QED
  BY <1>5, <1>6, <1>7, <1>9, <1>10, <1>11, <1>12, <1>13, <1>14, <1>15, <1>16,
     <1>17, <1>18 DEF Next, LoopStep

LEMMA RoundInvariant == Spec => []RoundAlive
<1>1. Init => RoundAlive
  BY EmptySeq DEF Init, RoundAlive
<1>2. TimerInv /\ RoundAlive /\ [Next]_vars => RoundAlive'
  BY RoundStep
<1> QED BY <1>1, <1>2, TimerInvariant, PTL DEF Spec

(* An assertion that has failed stays so, for the reason it failed.        *)
LEMMA FailureStep ==
  TimerInv /\ RoundAlive /\ FailuresKnown /\ [Next]_vars => FailuresKnown'
<1> SUFFICES ASSUME TimerInv, RoundAlive, FailuresKnown, [Next]_vars, pc' = "aborted"
             PROVE  FailuresKnown'
  BY DEF FailuresKnown
<1> USE DEF TimerInv
<1>1. CASE pc = "aborted"
  <2>1. UNCHANGED <<kind, heap, registed, open, active, pos, stop, pc>>
    BY <1>1 DEF Next, LoopStep, Insert, ClientInsert, ClientRegister, ClientReturn,
                Cancel, Stop, Expire, Wait, NextEntry, RoundDone, Read, HandlerReturns,
                AfterHandler, Crashed, vars, queueVars, kernelVars, roundVars
  <2> QED BY <1>1, <2>1 DEF FailuresKnown, Current
<1>2. CASE pc # "aborted"
  <2>1. Stop \/ Read
    BY <1>2 DEF Next, LoopStep, Insert, ClientInsert, ClientRegister, ClientReturn,
                Cancel, RemoveChecked, Expire, Wait, NextEntry, RoundDone, HandlerReturns,
                AfterHandler, vars, queueVars, kernelVars, roundVars
  <2>2. CASE Stop
    BY <1>2, <2>2 DEF Stop, RemoveChecked, kernelVars, FailuresKnown
  <2>3. CASE Read
    <3>1. /\ pc = "read"
          /\ pc' = CASE ~open[Current] -> "aborted"
                     [] readable[Current] -> "handler"
                     [] OTHER -> "next"
          /\ UNCHANGED <<kind, heap, open, active, pos>>
      BY <2>3 DEF Read, queueVars, roundVars
    <3>2. /\ pos > 0 /\ Current \in Timers /\ kind[Current] \in {"once", "every"}
          /\ open[Current] \in BOOLEAN /\ readable[Current] \in BOOLEAN
      BY <3>1 DEF RoundEntries, TimerType, Current
    <3>3. ~open[Current]
      BY <3>1, <3>2
    <3>4. kind[Current] # "once"
      BY <3>1, <3>2, <3>3 DEF RoundAlive, TimerRecords
    <3> QED BY <3>1, <3>2, <3>3, <3>4 DEF FailuresKnown, Current
  <2> QED BY <2>1, <2>2, <2>3
<1> QED BY <1>1, <1>2

(* Whatever the handlers cancel and whenever they stop the loop: between   *)
(* rounds the records of a timer agree, an entry of a round refers to a    *)
(* timer that was freed only if a handler of that round has cancelled it   *)
(* or stopped the loop, and the assertions fail in the two known cases     *)
(* only; no timer is removed twice.                                        *)
THEOREM TimersAreSound == Spec => []TimersSound
<1>1. TimerInv /\ RoundAlive => EntriesAlive
  BY DEF RoundAlive, EntriesAlive, Current
<1>2. Init => FailuresKnown
  BY DEF Init, FailuresKnown
<1>3. Spec => []FailuresKnown
  BY <1>2, FailureStep, TimerInvariant, RoundInvariant, PTL DEF Spec
<1> QED BY <1>1, <1>3, RoundInvariant, TimerInvariant, RecordsAgree, PTL DEF TimersSound

=============================================================================
