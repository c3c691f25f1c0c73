------------------------- MODULE EventDispatchProofs -------------------------
(***************************************************************************)
(* Theorems about EventDispatch, for any number of clients and listeners,  *)
(* any size of a round and any number of edges.                            *)
(***************************************************************************)
EXTENDS EventDispatch, SequenceTheorems, TLAPS

DispatchTypes ==
  /\ flags \in [Listeners -> {"new", "open", "closed"}]
  /\ registed \in [Listeners -> BOOLEAN]
  /\ ready \in Seq(Listeners)
  /\ active \in Seq(Listeners \cup {Nothing})
  /\ pos \in Nat /\ pos <= Len(active)
  /\ processing \in BOOLEAN
  /\ pc \in [Threads -> {"idle"} \cup RemoveLabels \cup LoopLabels]
  /\ \A c \in Clients : pc[c] \in {"idle"} \cup RemoveLabels
  /\ target \in [Threads -> Listeners \cup {Nothing}]
  /\ closer \in [Listeners -> Threads \cup {Nothing}]

(* The flag events_processing_ says where the loop thread is.              *)
ProcessingInv ==
  /\ processing => pc[LoopThread] \notin {"idle", "flag"}
  /\ ~processing => pc[LoopThread] \in {"idle", "flag", "remove", "remove_ctl"}
  /\ ~processing /\ pc[LoopThread] # "flag" => active = <<>>
  /\ pc[LoopThread] \in {"idle", "flag", "lock", "unlock", "unflag"} => pos = 0
  /\ pc[LoopThread] \in {"unlock", "unflag"} => active = <<>>
  /\ pc[LoopThread] \in {"on_events", "handler"} => pos > 0
  /\ pc[LoopThread] = "on_events" => active[pos] # Nothing
  /\ processing /\ pc[LoopThread] \in RemoveLabels => pos > 0

(* The loop thread is between lock and unlock of process_events(), in a    *)
(* handler or in a remove_event() that a handler called.                   *)
InRound ==
  \/ pc[LoopThread] \in {"next", "on_events", "handler", "unlock"}
  \/ processing /\ pc[LoopThread] \in RemoveLabels

(* Who holds event_rmutex_.                                                *)
MutexInv ==
  /\ InRound =>
       /\ owner = LoopThread
       /\ depth = IF pc[LoopThread] = "remove_null" THEN 2 ELSE 1
  /\ ~InRound =>
       \/ owner = Nothing /\ depth = 0
       \/ owner \in Clients /\ depth = 1 /\ pc[owner] = "remove_null"
  /\ \A c \in Clients : pc[c] = "remove_null" => owner = c

(* A listener that the loop thread has closed is out of the epoll instance *)
(* or about to be; the epoll instance reports what is registered, once.    *)
ClosingByLoop(l) == target[LoopThread] = l /\ pc[LoopThread] \in RemoveLabels

ReadyInv ==
  /\ \A l \in Listeners : flags[l] = "new" => closer[l] = Nothing
  /\ \A l \in Listeners :
       closer[l] = LoopThread => ~registed[l] \/ ClosingByLoop(l)
  /\ \A i \in DOMAIN ready : registed[ready[i]]
  /\ \A i, j \in DOMAIN ready : i # j => ready[i] # ready[j]

(* The entries of the round whose handlers are to be entered.              *)
ToCome(i) == i > pos \/ (i = pos /\ pc[LoopThread] = "on_events")

(* They are of different listeners, and none is of a listener that the     *)
(* loop thread has closed, unless it is about to clear it.                 *)
EntriesInv ==
  /\ \A i, j \in DOMAIN active :
       i # j /\ active[i] \in Listeners => active[i] # active[j]
  /\ \A i \in DOMAIN active :
       ToCome(i) /\ active[i] \in Listeners
         => \/ closer[active[i]] # LoopThread
            \/ /\ target[LoopThread] = active[i]
               /\ pc[LoopThread] \in {"remove", "remove_lock", "remove_null"}

(* A listener that was entered although it was closed has no entry left.   *)
StaleInv ==
  \A l \in Listeners :
    /\ stale[l] \in 0 .. 1
    /\ stale[l] = 1 =>
         /\ flags[l] = "closed" /\ ~registed[l]
         /\ \A i \in DOMAIN active : ToCome(i) => active[i] # l

DispatchInv ==
  /\ DispatchTypes
  /\ ProcessingInv
  /\ MutexInv
  /\ ReadyInv
  /\ EntriesInv
  /\ stale \in [Listeners -> Nat]
  /\ StaleInv

(* A sequence without its entry i.                                         *)
LEMMA RemoveAtFacts ==
  ASSUME NEW S, NEW s \in Seq(S), NEW i \in 1 .. Len(s)
  PROVE  /\ RemoveAt(s, i) \in Seq(S)
         /\ Len(RemoveAt(s, i)) = Len(s) - 1
         /\ \A j \in 1 .. Len(s) - 1 :
              RemoveAt(s, i)[j] = IF j < i THEN s[j] ELSE s[j + 1]
<1> DEFINE a == SubSeq(s, 1, i - 1)
           b == SubSeq(s, i + 1, Len(s))
<1>1. Len(s) \in Nat /\ \A j \in 1 .. Len(s) : s[j] \in S
  BY LenProperties, ElementOfSeq
<1>2. a \in Seq(S) /\ Len(a) = i - 1 /\ \A j \in 1 .. i - 1 : a[j] = s[j]
  OBVIOUS
<1>3. b \in Seq(S) /\ Len(b) = Len(s) - i
      /\ \A j \in 1 .. Len(s) - i : b[j] = s[j + i]
  OBVIOUS
<1>4. RemoveAt(s, i) = a \o b
  BY DEF RemoveAt
<1> HIDE DEF a, b
<1>5. /\ a \o b \in Seq(S)
      /\ Len(a \o b) = Len(a) + Len(b)
      /\ \A j \in 1 .. Len(a) + Len(b) :
           (a \o b)[j] = IF j <= Len(a) THEN a[j] ELSE b[j - Len(a)]
  BY <1>2, <1>3, ConcatProperties
<1>6. Len(a) + Len(b) = Len(s) - 1
  BY <1>1, <1>2, <1>3
<1>7. ASSUME NEW j \in 1 .. Len(s) - 1
      PROVE  (a \o b)[j] = IF j < i THEN s[j] ELSE s[j + 1]
  <2>1. CASE j < i
    BY <1>1, <1>2, <1>5, <1>6, <2>1
  <2>2. CASE ~(j < i)
    <3>1. j - (i - 1) \in 1 .. Len(s) - i /\ j - (i - 1) + i = j + 1
      BY <1>1, <2>2
    <3>2. (a \o b)[j] = b[j - (i - 1)]
      BY <1>1, <1>2, <1>5, <1>6, <2>2
    <3> QED
      BY <1>3, <2>2, <3>1, <3>2
  <2> QED
    BY <2>1, <2>2
<1> QED
  BY <1>4, <1>5, <1>6, <1>7

LEMMA FunctionIsSeq ==
  ASSUME NEW S, NEW n \in Nat, NEW f \in [1 .. n -> S]
  PROVE  f \in Seq(S) /\ Len(f) = n
<1>1. f \in Seq(S)
  BY SeqDef
<1> QED
  BY <1>1, LenProperties

AllDiffer(s) == \A i, j \in 1 .. Len(s) : i # j => s[i] # s[j]

(* If the entries differ, what is left of them differs, from s[k] too.     *)
LEMMA RemoveAtDistinct ==
  ASSUME NEW S, NEW s \in Seq(S), NEW k \in 1 .. Len(s), AllDiffer(s)
  PROVE  /\ RemoveAt(s, k) \in Seq(S)
         /\ \A j \in DOMAIN RemoveAt(s, k) :
              /\ RemoveAt(s, k)[j] # s[k]
              /\ \E i \in 1 .. Len(s) : RemoveAt(s, k)[j] = s[i]
         /\ \A i, j \in DOMAIN RemoveAt(s, k) :
              i # j => RemoveAt(s, k)[i] # RemoveAt(s, k)[j]
<1> DEFINE r == RemoveAt(s, k)
           from(j) == IF j < k THEN j ELSE j + 1
<1>1. r \in Seq(S) /\ Len(r) = Len(s) - 1
      /\ \A j \in 1 .. Len(s) - 1 : r[j] = IF j < k THEN s[j] ELSE s[j + 1]
  BY RemoveAtFacts
<1> HIDE DEF r
<1>2. Len(s) \in Nat /\ DOMAIN r = 1 .. Len(s) - 1
  BY <1>1, LenProperties
<1>3. \A j \in 1 .. Len(s) - 1 : from(j) \in 1 .. Len(s) /\ from(j) # k
  BY <1>2
<1>4. \A j \in 1 .. Len(s) - 1 : r[j] = s[from(j)]
  BY <1>1
<1>5. \A i, j \in 1 .. Len(s) - 1 : i # j => from(i) # from(j)
  BY <1>2
<1> HIDE DEF from
<1>6. /\ \A j \in DOMAIN r :
           r[j] # s[k] /\ \E i \in 1 .. Len(s) : r[j] = s[i]
      /\ \A i, j \in DOMAIN r : i # j => r[i] # r[j]
  BY <1>2, <1>3, <1>4, <1>5 DEF AllDiffer
<1> QED
  BY <1>1, <1>6 DEF r

LEMMA ReadyWithout ==
  ASSUME ready \in Seq(Listeners),
         \A i, j \in DOMAIN ready : i # j => ready[i] # ready[j],
         NEW l, NEW k \in DOMAIN ready, ready[k] = l, ready' = RemoveAt(ready, k)
  PROVE  /\ ready' \in Seq(Listeners)
         /\ \A j \in DOMAIN ready' :
              ready'[j] # l /\ \E i \in DOMAIN ready : ready'[j] = ready[i]
         /\ \A i, j \in DOMAIN ready' : i # j => ready'[i] # ready'[j]
<1> DEFINE r == RemoveAt(ready, k)
<1>1. DOMAIN ready = 1 .. Len(ready)
  BY LenProperties
<1>2. /\ r \in Seq(Listeners)
      /\ \A j \in DOMAIN r :
           r[j] # ready[k] /\ \E i \in 1 .. Len(ready) : r[j] = ready[i]
      /\ \A i, j \in DOMAIN r : i # j => r[i] # r[j]
  <2>1. k \in 1 .. Len(ready) /\ AllDiffer(ready)
    BY <1>1 DEF AllDiffer
  <2> QED
    BY <2>1, RemoveAtDistinct
<1>3. ready' = r
  OBVIOUS
<1> HIDE DEF r
<1> QED
  BY <1>1, <1>2, <1>3

(* Entries are cleared in place.                                           *)
LEMMA ClearedFromFacts ==
  ASSUME active \in Seq(Listeners \cup {Nothing}), NEW t, NEW first \in {1, 2}
  PROVE  /\ ClearedFrom(t, first) \in Seq(Listeners \cup {Nothing})
         /\ Len(ClearedFrom(t, first)) = Len(active)
         /\ \A i \in 1 .. Len(active) :
              /\ ClearedFrom(t, first)[i] \in {active[i], Nothing}
              /\ i > 1 /\ active[i] = target[t]
                   => ClearedFrom(t, first)[i] = Nothing
<1> DEFINE c == ClearedFrom(t, first)
<1>1. DOMAIN active = 1 .. Len(active) /\ Len(active) \in Nat
      /\ \A i \in 1 .. Len(active) : active[i] \in Listeners \cup {Nothing}
  BY LenProperties, ElementOfSeq
<1>2. c = [i \in 1 .. Len(active) |->
             IF i >= first /\ active[i] = target[t] THEN Nothing ELSE active[i]]
  BY <1>1 DEF ClearedFrom
<1> HIDE DEF c
<1>3. c \in [1 .. Len(active) -> Listeners \cup {Nothing}]
  BY <1>1, <1>2
<1>4. c \in Seq(Listeners \cup {Nothing}) /\ Len(c) = Len(active)
  BY <1>1, <1>3, FunctionIsSeq
<1>5. \A i \in 1 .. Len(active) :
        /\ c[i] \in {active[i], Nothing}
        /\ i > 1 /\ active[i] = target[t] => c[i] = Nothing
  BY <1>1, <1>2
<1> QED
  BY <1>4, <1>5 DEF c

(* The calls of the other threads and of the handlers.                     *)
LEMMA OpenCloseStep ==
  ASSUME DispatchInv, NEW t \in Threads, NEW l \in Listeners,
         Open(t, l) \/ Close(t, l)
  PROVE  DispatchInv'
<1> USE EventDispatchAssumption
    DEF EventDispatchAssumption, DispatchInv, DispatchTypes, ProcessingInv,
        MutexInv, InRound, ReadyInv, ClosingByLoop, EntriesInv, ToCome,
        StaleInv, Threads, RemoveLabels, LoopLabels, InUserCode, Goto,
        listenerVars, listVars, lockVars
<1>1. CASE Open(t, l)
  BY <1>1 DEF Open
<1>2. CASE Close(t, l)
  <2>1. /\ pc[t] \in {"idle", "handler"} /\ flags[l] = "open"
        /\ flags' = [flags EXCEPT ![l] = "closed"]
        /\ closer' = [closer EXCEPT ![l] = t]
        /\ target' = [target EXCEPT ![t] = l]
        /\ pc' = [pc EXCEPT ![t] = "remove"]
        /\ UNCHANGED <<registed, ready, active, pos, processing, owner, depth,
                       edges, stale>>
    BY <1>2 DEF Close
  <2>2. DispatchTypes' /\ ProcessingInv'
    BY <2>1
  <2>3. MutexInv'
    BY <2>1
  <2>4. ReadyInv'
    BY <2>1
  <2>5. EntriesInv'
    BY <2>1
  <2>6. StaleInv'
    BY <2>1
  <2> QED
    BY <2>1, <2>2, <2>3, <2>4, <2>5, <2>6
<1> QED
  BY <1>1, <1>2

LEMMA RemoveStepInv ==
  ASSUME DispatchInv, NEW t \in Threads, RemoveStep(t)
  PROVE  DispatchInv'
<1> USE EventDispatchAssumption
    DEF EventDispatchAssumption, DispatchInv, DispatchTypes, ProcessingInv,
        MutexInv, InRound, ReadyInv, ClosingByLoop, EntriesInv, ToCome,
        StaleInv, Threads, RemoveLabels, LoopLabels, Goto, UserCode,
        listenerVars, listVars, lockVars
<1>1. CASE RemoveTest(t)
  BY <1>1 DEF RemoveTest
<1>2. CASE RemoveLock(t)
  BY <1>2 DEF RemoveLock, Lock
<1>3. CASE RemoveNull(t)
  <2>1. /\ pc[t] = "remove_null"
        /\ pc' = [pc EXCEPT ![t] = "remove_ctl"]
        /\ depth' = depth - 1
        /\ owner' = IF depth = 1 THEN Nothing ELSE owner
        /\ UNCHANGED <<flags, registed, closer, ready, pos, processing, target,
                       edges, stale>>
    BY <1>3 DEF RemoveNull, Unlock
  <2>2. /\ active' \in Seq(Listeners \cup {Nothing})
        /\ Len(active') = Len(active)
        /\ \A i \in 1 .. Len(active) :
             /\ active'[i] \in {active[i], Nothing}
             /\ i > 1 /\ active[i] = target[t] => active'[i] = Nothing
    <3> DEFINE first == IF processing THEN 2 ELSE 1
    <3>1. active' = ClearedFrom(t, first) /\ first \in {1, 2}
      BY <1>3 DEF RemoveNull
    <3> HIDE DEF first
    <3> QED
      BY <3>1, ClearedFromFacts
  <2>10. DOMAIN active' = 1 .. Len(active) /\ DOMAIN active = 1 .. Len(active)
    BY <2>2, LenProperties
  <2>3. DispatchTypes'
    BY <2>1, <2>2
  <2>4. ProcessingInv'
    <3>1. active = <<>> => active' = <<>>
      BY <2>2, EmptySeq
    <3> QED
      BY <2>1, <3>1
  <2>5. MutexInv'
    BY <2>1
  <2>6. ReadyInv'
    BY <2>1
  <2>7. EntriesInv'
    <3>1. \A i, j \in DOMAIN active' :
            i # j /\ active'[i] \in Listeners => active'[i] # active'[j]
      BY <2>2, <2>10
    <3>2. ASSUME NEW i \in DOMAIN active', ToCome(i)', active'[i] \in Listeners
          PROVE  \/ closer[active'[i]] # LoopThread
                 \/ /\ target[LoopThread] = active'[i]
                    /\ pc'[LoopThread] \in {"remove", "remove_lock", "remove_null"}
      <4>1. i \in DOMAIN active /\ active'[i] = active[i] /\ i \in Nat
            /\ (i > 1 => active[i] # target[t])
        BY <3>2, <2>2, <2>10
      <4>2. CASE t = LoopThread
        <5>1. pos > 0 /\ i > pos
          BY <2>1, <3>2, <4>2
        <5> QED
          BY <2>1, <3>2, <4>1, <4>2, <5>1
      <4>3. CASE t # LoopThread
        BY <2>1, <3>2, <4>1, <4>3
      <4> QED
        BY <4>2, <4>3
    <3> QED
      BY <2>1, <3>1, <3>2
  <2>8. StaleInv'
    BY <2>1, <2>2, <2>10
  <2> QED
    BY <2>1, <2>3, <2>4, <2>5, <2>6, <2>7, <2>8
<1>4. CASE RemoveCtl(t)
  <2>1. /\ pc[t] = "remove_ctl"
        /\ pc' = [pc EXCEPT ![t] = IF t = LoopThread /\ processing
                                     THEN "handler" ELSE "idle"]
        /\ registed' = [registed EXCEPT ![target[t]] = FALSE]
        /\ target' = [target EXCEPT ![t] = Nothing]
        /\ UNCHANGED <<flags, closer, active, pos, processing, owner, depth,
                       edges, stale>>
    BY <1>4 DEF RemoveCtl
  <2>2. /\ ready' \in Seq(Listeners)
        /\ \A i \in DOMAIN ready' : registed'[ready'[i]]
        /\ \A i, j \in DOMAIN ready' : i # j => ready'[i] # ready'[j]
    <3>1. CASE Contains(ready, target[t])
      <4>1. PICK k \in DOMAIN ready :
              ready[k] = target[t] /\ ready' = RemoveAt(ready, k)
        BY <1>4, <3>1 DEF RemoveCtl
      <4>2. DOMAIN ready = 1 .. Len(ready)
        BY LenProperties
      <4>3. /\ ready \in Seq(Listeners)
            /\ \A i, j \in DOMAIN ready : i # j => ready[i] # ready[j]
        OBVIOUS
      <4>4. /\ ready' \in Seq(Listeners)
            /\ \A j \in DOMAIN ready' :
                 /\ ready'[j] # target[t]
                 /\ \E i \in DOMAIN ready : ready'[j] = ready[i]
            /\ \A i, j \in DOMAIN ready' : i # j => ready'[i] # ready'[j]
        BY <4>1, <4>3, ReadyWithout, Zenon
      <4>5. \A i \in DOMAIN ready : ready[i] \in Listeners /\ registed[ready[i]]
        BY <4>2, ElementOfSeq
      <4>6. \A l \in Listeners \ {target[t]} : registed'[l] = registed[l]
        BY <2>1
      <4> QED
        BY <4>4, <4>5, <4>6
    <3>2. CASE ~Contains(ready, target[t])
      BY <1>4, <2>1, <3>2 DEF RemoveCtl, Contains
    <3> QED
      BY <3>1, <3>2
  <2>3. DispatchTypes'
    <3>1. /\ registed' \in [Listeners -> BOOLEAN]
          /\ target' \in [Threads -> Listeners \cup {Nothing}]
      BY <2>1
    <3>2. /\ pc' \in [Threads -> {"idle"} \cup RemoveLabels \cup LoopLabels]
          /\ \A c \in Clients : pc'[c] \in {"idle"} \cup RemoveLabels
      BY <2>1
    <3> QED
      BY <2>1, <2>2, <3>1, <3>2
  <2>4. ProcessingInv'
    BY <2>1
  <2>5. MutexInv'
    BY <2>1
  <2>6. ReadyInv'
    BY <2>1, <2>2
  <2>7. EntriesInv'
    BY <2>1
  <2>8. StaleInv'
    BY <2>1
  <2> QED
    BY <2>1, <2>3, <2>4, <2>5, <2>6, <2>7, <2>8
<1> QED
  BY <1>1, <1>2, <1>3, <1>4 DEF RemoveStep

LEMMA EdgeStep ==
  ASSUME DispatchInv, NEW l \in Listeners, Edge(l)
  PROVE  DispatchInv'
<1> USE EventDispatchAssumption
    DEF EventDispatchAssumption, DispatchInv, DispatchTypes, ProcessingInv,
        MutexInv, InRound, ReadyInv, ClosingByLoop, EntriesInv, ToCome,
        StaleInv, Threads, RemoveLabels, LoopLabels, listenerVars, listVars,
        lockVars
<1>1. CASE Contains(ready, l)
  BY <1>1 DEF Edge
<1>2. CASE ~Contains(ready, l)
  <2>1. registed[l] /\ ready' = Append(ready, l)
        /\ \A i \in 1 .. Len(ready) : ready[i] # l
    BY <1>2 DEF Edge, Contains
  <2>2. ready' \in Seq(Listeners) /\ Len(ready') = Len(ready) + 1
        /\ \A i \in 1 .. Len(ready) : ready'[i] = ready[i]
        /\ ready'[Len(ready) + 1] = l
    BY <2>1
  <2>3. UNCHANGED <<flags, registed, closer, active, pos, processing, owner,
                    depth, pc, target, stale>>
    BY <1>2 DEF Edge
  <2>4. ReadyInv'
    <3>1. /\ DOMAIN ready' = 1 .. Len(ready) + 1
          /\ DOMAIN ready = 1 .. Len(ready) /\ Len(ready) \in Nat
      BY <2>2, LenProperties
    <3> QED
      BY <2>1, <2>2, <2>3, <3>1
  <2> QED
    BY <2>2, <2>3, <2>4
<1> QED
  BY <1>1, <1>2

(* The first n ready listeners become the entries of a round.              *)
LEMMA WaitStep ==
  ASSUME DispatchInv, Wait
  PROVE  DispatchInv'
<1> USE EventDispatchAssumption
    DEF EventDispatchAssumption, DispatchInv, DispatchTypes, ProcessingInv,
        MutexInv, InRound, ReadyInv, ClosingByLoop, EntriesInv, ToCome,
        StaleInv, Threads, RemoveLabels, LoopLabels, Goto, listenerVars,
        listVars, lockVars
<1> DEFINE n == IF Len(ready) < MaxEvents THEN Len(ready) ELSE MaxEvents
<1>1. n \in 0 .. Len(ready)
  OBVIOUS
<1>2. active = <<>> /\ pos = 0
  BY DEF Wait
<1>3. /\ active' = <<>> \o SubSeq(ready, 1, n)
      /\ ready' = SubSeq(ready, n + 1, Len(ready))
  BY <1>2 DEF Wait
<1>4. /\ pc[LoopThread] = "idle"
      /\ pc' = [pc EXCEPT ![LoopThread] = "flag"]
      /\ UNCHANGED <<flags, registed, closer, pos, processing, owner, depth,
                     target, edges, stale>>
  BY DEF Wait
<1> HIDE DEF n
<1>5. /\ active' \in Seq(Listeners)
      /\ Len(active') = n
      /\ \A i \in 1 .. n : active'[i] = ready[i]
  BY <1>1, <1>3
<1>6. /\ ready' \in Seq(Listeners)
      /\ Len(ready') = Len(ready) - n
      /\ \A i \in 1 .. Len(ready) - n : ready'[i] = ready[i + n]
  BY SMTT(30), <1>1, <1>3
<1>7. DispatchTypes'
  <2>1. active' \in Seq(Listeners \cup {Nothing})
    BY <1>5
  <2> QED
    BY <1>2, <1>4, <1>5, <1>6, <2>1
<1>8. ProcessingInv' /\ MutexInv'
  BY <1>2, <1>4
<1>9. ReadyInv'
  <2>1. \A i \in 1 .. Len(ready) - n :
          i + n \in 1 .. Len(ready) /\ ready'[i] = ready[i + n]
    BY <1>1, <1>6
  <2>2. DOMAIN ready' = 1 .. Len(ready) - n /\ DOMAIN ready = 1 .. Len(ready)
    BY <1>6, LenProperties
  <2>3. \A i, j \in 1 .. Len(ready) - n : i # j => ready'[i] # ready'[j]
    <3>1. \A i, j \in 1 .. Len(ready) - n : i # j => i + n # j + n
      BY <1>1
    <3> QED
      BY <2>1, <2>2, <3>1
  <2>4. \A i \in 1 .. Len(ready) - n : registed[ready'[i]]
    BY <2>1, <2>2
  <2> QED
    BY <1>4, <2>2, <2>3, <2>4
<1>10. \A l \in Listeners : closer[l] = LoopThread => ~registed[l]
  BY <1>4
<1>11. /\ DOMAIN active' = 1 .. n
       /\ \A i \in 1 .. n : /\ active'[i] = ready[i] /\ i \in DOMAIN ready
                          /\ registed[active'[i]]
  BY <1>1, <1>5, LenProperties
<1>12. EntriesInv'
  BY <1>4, <1>5, <1>10, <1>11
<1>13. StaleInv'
  BY <1>4, <1>11
<1> QED
  BY <1>4, <1>7, <1>8, <1>9, <1>12, <1>13

LEMMA LoopStepInv ==
  ASSUME DispatchInv, LoopStep \/ HandlerReturns
  PROVE  DispatchInv'
<1> USE EventDispatchAssumption
    DEF EventDispatchAssumption, DispatchInv, DispatchTypes, ProcessingInv,
        MutexInv, InRound, ReadyInv, ClosingByLoop, EntriesInv, ToCome,
        StaleInv, Threads, RemoveLabels, LoopLabels, Goto, listenerVars,
        listVars, lockVars
<1>1. CASE SetProcessing
  BY <1>1 DEF SetProcessing
<1>2. CASE LockEvents
  BY <1>2 DEF LockEvents, Lock
<1>3. CASE NextEntry
  BY <1>3 DEF NextEntry
<1>4. CASE OnEvents
  <2> DEFINE l == active[pos]
  <2>1. /\ pc[LoopThread] = "on_events"
        /\ stale' = IF flags[l] = "closed" /\ ~registed[l]
                      THEN [stale EXCEPT ![l] = @ + 1] ELSE stale
        /\ pc' = [pc EXCEPT ![LoopThread] = "handler"]
        /\ UNCHANGED <<flags, registed, closer, ready, active, pos, processing,
                       owner, depth, target, edges>>
    BY <1>4 DEF OnEvents
  <2>2. pos \in DOMAIN active /\ l \in Listeners
    BY <2>1, LenProperties, ElementOfSeq
  <2>3. stale[l] = 0
    BY <2>1, <2>2
  <2>4. \A i \in DOMAIN active : i > pos => active[i] # l
    BY <2>2
  <2> HIDE DEF l
  <2>5. DispatchTypes' /\ ProcessingInv' /\ MutexInv'
    BY <2>1
  <2>6. ReadyInv' /\ EntriesInv'
    BY <2>1
  <2>7. stale' \in [Listeners -> Nat] /\ StaleInv'
    <3>1. CASE flags[l] = "closed" /\ ~registed[l]
      <4>1. stale' = [stale EXCEPT ![l] = 1]
        BY <2>1, <2>3, <3>1
      <4> QED
        BY <2>1, <2>2, <2>4, <3>1, <4>1
    <3>2. CASE ~(flags[l] = "closed" /\ ~registed[l])
      <4>1. stale' = stale
        BY <2>1, <3>2
      <4> QED
        BY <2>1, <4>1
    <3> QED
      BY <3>1, <3>2
  <2> QED
    BY <2>5, <2>6, <2>7
<1>5. CASE HandlerReturns
  BY <1>5 DEF HandlerReturns
<1>6. CASE ClearActive
  BY <1>6 DEF ClearActive
<1>7. CASE UnlockEvents
  BY <1>7 DEF UnlockEvents, Unlock
<1>8. CASE ResetProcessing
  <2>1. /\ pc[LoopThread] = "unflag" /\ processing' = FALSE
        /\ pc' = [pc EXCEPT ![LoopThread] = "idle"]
        /\ UNCHANGED <<flags, registed, closer, ready, active, pos, owner, depth,
                       target, edges, stale>>
    BY <1>8 DEF ResetProcessing
  <2>2. active = <<>> /\ pos = 0
    BY <2>1
  <2>3. DispatchTypes'
    BY <2>1
  <2>4. ProcessingInv'
    BY <2>1, <2>2
  <2>5. MutexInv'
    BY <2>1
  <2>6. ReadyInv' /\ EntriesInv' /\ stale' \in [Listeners -> Nat] /\ StaleInv'
    BY <2>1, <2>2
  <2> QED
    BY <2>3, <2>4, <2>5, <2>6
<1> QED
  BY <1>1, <1>2, <1>3, <1>4, <1>5, <1>6, <1>7, <1>8, WaitStep DEF LoopStep

LEMMA DispatchStep == DispatchInv /\ [Next]_vars => DispatchInv'
<1>1. ASSUME DispatchInv, UNCHANGED vars PROVE DispatchInv'
  BY <1>1 DEF vars, listenerVars, listVars, lockVars, DispatchInv,
     DispatchTypes, ProcessingInv, MutexInv, InRound, ReadyInv, ClosingByLoop,
     EntriesInv, ToCome, StaleInv
<1> QED
  BY <1>1, OpenCloseStep, RemoveStepInv, EdgeStep, LoopStepInv DEF Next

THEOREM DispatchInvariant == Spec => []DispatchInv
<1>1. ASSUME Init PROVE DispatchInv
  <2>1. <<>> \in Seq(Listeners) /\ <<>> \in Seq(Listeners \cup {Nothing})
        /\ Len(<<>>) = 0 /\ DOMAIN <<>> = {}
    OBVIOUS
  <2>2. /\ flags \in [Listeners -> {"new", "open", "closed"}]
        /\ registed \in [Listeners -> BOOLEAN]
        /\ processing \in BOOLEAN
        /\ pc \in [Threads -> {"idle"} \cup RemoveLabels \cup LoopLabels]
        /\ target \in [Threads -> Listeners \cup {Nothing}]
        /\ closer \in [Listeners -> Threads \cup {Nothing}]
    BY <1>1, Zenon DEF Init
  <2>3. \A t \in Threads : pc[t] = "idle"
    BY <1>1 DEF Init
  <2>4. pos \in Nat /\ pos <= Len(active)
        /\ ready \in Seq(Listeners) /\ active \in Seq(Listeners \cup {Nothing})
    BY <1>1, <2>1 DEF Init
  <2>5. DispatchTypes
    BY <2>2, <2>3, <2>4 DEF DispatchTypes, Threads
  <2>6. ProcessingInv /\ MutexInv
    BY <1>1, <2>3, EventDispatchAssumption
       DEF Init, EventDispatchAssumption, ProcessingInv, MutexInv, InRound,
           Threads, RemoveLabels
  <2>7. ReadyInv /\ EntriesInv
    BY <1>1, <2>1, EventDispatchAssumption
       DEF Init, EventDispatchAssumption, ReadyInv, EntriesInv, Threads
  <2>8. stale \in [Listeners -> Nat] /\ StaleInv
    <3>1. stale = [l \in Listeners |-> 0]
      BY <1>1 DEF Init
    <3> QED
      BY <3>1 DEF StaleInv
  <2> QED
    BY <2>5, <2>6, <2>7, <2>8 DEF DispatchInv
<1> QED
  BY <1>1, DispatchStep, PTL DEF Spec

(* Whoever closes what, and whatever was reported in the same round: the   *)
(* handler of a listener that the loop thread has closed does not run.     *)
THEOREM ClosedByLoopIsQuiet == Spec => []OwnCloseIsFinal
<1>1. DispatchInv => OwnCloseIsFinal
  BY DEF DispatchInv, DispatchTypes, EntriesInv, ToCome, OwnCloseIsFinal,
     Dispatched
<1> QED
  BY <1>1, DispatchInvariant, PTL

(* The entries of a round are edited by the loop thread alone while it     *)
(* walks over them.                                                        *)
THEOREM RoundIsUndisturbed == Spec => []RoundUndisturbed
<1>1. DispatchInv => RoundUndisturbed
  BY EventDispatchAssumption
     DEF EventDispatchAssumption, DispatchInv, DispatchTypes, ProcessingInv,
         MutexInv, InRound, RoundUndisturbed, Threads, RemoveLabels, LoopLabels
<1> QED
  BY <1>1, DispatchInvariant, PTL

(* A listener that another thread has closed is entered once more at most. *)
THEOREM StaleOnce == Spec => []OneStaleDispatch
<1>1. DispatchInv => OneStaleDispatch
  BY DEF DispatchInv, StaleInv, OneStaleDispatch
<1> QED
  BY <1>1, DispatchInvariant, PTL

=============================================================================
