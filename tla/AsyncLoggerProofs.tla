-------------------------- MODULE AsyncLoggerProofs --------------------------
(***************************************************************************)
(* Theorems about AsyncLogger, for any number of writers and records, and  *)
(* whether or not callbacks post records.                                  *)
(***************************************************************************)
EXTENDS AsyncLogger, TLAPS

(* What the proofs need to know of the types: every variable but the       *)
(* history of what was written.                                            *)
LogType ==
  /\ log_dataq \in Seq(Nat \ {0})
  /\ stop \in BOOLEAN
  /\ data \in Nat
  /\ at \in {"lock", "check", "block", "waiting", "woken", "write", "done"}
  /\ pc \in [Writers -> {"idle", "signal"}]
  /\ main \in {"running", "lock", "signal", "join", "joined", "released"}
  /\ next \in Nat \ {0}

LEMMA LogTypeStep == LogType /\ LoggerInv /\ [Next]_vars => LogType'
<1> SUFFICES ASSUME LogType, LoggerInv, [Next]_vars PROVE LogType'
  OBVIOUS
<1> USE LoggerAssumption DEF LoggerAssumption, LogType
<1>1. ASSUME NEW w \in Writers, Post(w) PROVE LogType'
  BY <1>1 DEF Post, Push
<1>2. ASSUME NEW w \in Writers, SignalPosted(w) PROVE LogType'
  BY <1>2 DEF SignalPosted, Signal
<1>3. CASE CallbackPost
  BY <1>3 DEF CallbackPost, Push
<1>4. CASE Lock
  <2>1. data # 0 => log_dataq # <<>>
    BY <1>4 DEF Lock, LoggerInv, DataValid
  <2>2. log_dataq' \in Seq(Nat \ {0})
    BY <1>4, <2>1 DEF Lock
  <2> QED
    BY <1>4, <2>2 DEF Lock
<1>5. CASE CheckEmpty \/ Block \/ TimeOut \/ Relock \/ CheckStop
  BY <1>5 DEF CheckEmpty, Block, TimeOut, Relock, CheckStop
<1>6. CASE Take
  BY <1>6 DEF Take
<1>7. CASE Write
  BY <1>7 DEF Write
<1>8. CASE SetStop
  BY <1>8 DEF SetStop
<1>9. CASE DeinitStep
  BY <1>9 DEF DeinitStep, PassMutex, SignalStop, Signal, Join, Release
<1>10. CASE UNCHANGED vars
  BY <1>10 DEF vars
<1> QED
  BY <1>1, <1>2, <1>3, <1>4, <1>5, <1>6, <1>7, <1>8, <1>9, <1>10
  DEF Next, LogStep

(* Why LoggerInv is inductive: a record is pushed only while the mutex is  *)
(* free, so that between the test of the queue and the wait nothing can be *)
(* added; a writer that has pushed is at "signal" until it has signalled;  *)
(* and deinit() passes the mutex between setting stop_ and signalling.     *)
LEMMA LoggerStep == LogType /\ LoggerInv /\ [Next]_vars => LoggerInv'
<1> SUFFICES ASSUME LogType, LoggerInv, [Next]_vars PROVE LoggerInv'
  OBVIOUS
<1> USE DEF LogType, LoggerInv, DataValid, RecordSignalled, StopSignalled
<1>1. ASSUME NEW w \in Writers, Post(w) PROVE LoggerInv'
  <2>1. pc'[w] = "signal"
    BY <1>1 DEF Post
  <2>2. log_dataq # <<>> => Head(log_dataq') = Head(log_dataq)
    BY <1>1 DEF Post, Push
  <2>3. log_dataq' # <<>>
    BY <1>1 DEF Post, Push
  <2> QED
    BY <1>1, <2>1, <2>2, <2>3 DEF Post, Unlocked
<1>2. ASSUME NEW w \in Writers, SignalPosted(w) PROVE LoggerInv'
  BY <1>2 DEF SignalPosted, Signal
<1>3. CASE CallbackPost
  <2>1. /\ log_dataq # <<>>
        /\ Head(log_dataq') = Head(log_dataq)
        /\ log_dataq' # <<>>
    BY <1>3 DEF CallbackPost, Push
  <2> QED
    BY <1>3, <2>1 DEF CallbackPost
<1>4. CASE Lock
  BY <1>4 DEF Lock
<1>5. CASE CheckEmpty
  BY <1>5 DEF CheckEmpty
<1>6. CASE Block
  BY <1>6 DEF Block
<1>7. CASE TimeOut \/ Relock \/ CheckStop
  BY <1>7 DEF TimeOut, Relock, CheckStop
<1>8. CASE Take
  BY <1>8 DEF Take
<1>9. CASE Write
  BY <1>9 DEF Write
<1>10. CASE SetStop
  BY <1>10 DEF SetStop
<1>11. CASE PassMutex
  BY <1>11 DEF PassMutex, Unlocked
<1>12. CASE SignalStop
  BY <1>12 DEF SignalStop, Signal
<1>13. CASE Join \/ Release
  BY <1>13 DEF Join, Release
<1>14. CASE UNCHANGED vars
  BY <1>14 DEF vars
<1> QED
  BY <1>1, <1>2, <1>3, <1>4, <1>5, <1>6, <1>7, <1>8, <1>9, <1>10, <1>11,
     <1>12, <1>13, <1>14
  DEF Next, LogStep, DeinitStep

(* LoggerInv holds in every reachable state.                               *)
THEOREM LoggerInvariant == Spec => [](LogType /\ LoggerInv)
<1>1. Init => LogType /\ LoggerInv
  <2> SUFFICES ASSUME Init PROVE LogType /\ LoggerInv
    OBVIOUS
  <2>1. LogType
    <3>1. <<>> \in Seq(Nat \ {0})
      OBVIOUS
    <3>2. log_dataq \in Seq(Nat \ {0})
      BY <3>1, Zenon DEF Init
    <3>3. pc \in [Writers -> {"idle", "signal"}]
      BY Zenon DEF Init
    <3>4. stop \in BOOLEAN
      BY Zenon DEF Init
    <3>5. data = 0 /\ next = 1
      BY Zenon DEF Init
    <3>6. data \in Nat /\ next \in Nat \ {0}
      BY <3>5
    <3>7. /\ at \in {"lock", "check", "block", "waiting", "woken", "write", "done"}
          /\ main \in {"running", "lock", "signal", "join", "joined", "released"}
      BY Zenon DEF Init
    <3> QED
      BY <3>2, <3>3, <3>4, <3>6, <3>7 DEF LogType
  <2>2. LoggerInv
    BY DEF Init, LoggerInv, DataValid, RecordSignalled, StopSignalled
  <2> QED
    BY <2>1, <2>2
<1>2. LogType /\ LoggerInv /\ [Next]_vars => (LogType /\ LoggerInv)'
  BY LogTypeStep, LoggerStep
<1> QED
  BY <1>1, <1>2, PTL DEF Spec

(* The pointer that log_thread() keeps into the queue while the mutex is   *)
(* not held always points to the record that will be removed next.         *)
THEOREM DataIsValid == Spec => []DataValid
<1>1. LoggerInv => DataValid
  BY DEF LoggerInv
<1> QED
  BY <1>1, LoggerInvariant, PTL

(* The log thread waits with a record in the queue only while a writer is  *)
(* about to signal it, and does not wait once deinit() has signalled: no   *)
(* record and no deinit() is left to the timeout of the wait.              *)
THEOREM NoLostSignal == Spec => []SleepJustified
<1>1. LoggerInv => SleepJustified
  BY DEF LoggerInv, SleepJustified
<1> QED
  BY <1>1, LoggerInvariant, PTL

-----------------------------------------------------------------------------
(* What is written, and when.                                              *)

(* The number of records that are written and out of the queue.            *)
Removed == IF at = "lock" /\ data # 0 THEN Len(written) - 1 ELSE Len(written)

(* The records are numbered through from the first one written to the last *)
(* one in the queue.                                                       *)
OrderInv ==
  /\ written \in Seq(Nat)
  /\ \A i \in 1 .. Len(written) : written[i] = i
  /\ \A i \in 1 .. Len(log_dataq) : log_dataq[i] = Removed + i
  /\ Removed + Len(log_dataq) = next - 1
  /\ Removed \in Nat

LEMMA OrderStep == LogType /\ LoggerInv /\ OrderInv /\ [Next]_vars => OrderInv'
<1> SUFFICES ASSUME LogType, LoggerInv, OrderInv, [Next]_vars PROVE OrderInv'
  OBVIOUS
<1> USE DEF LogType, OrderInv, Removed
<1>1. ASSUME Push, UNCHANGED <<at, data, written>> PROVE OrderInv'
  <2>1. Removed' = Removed
    BY <1>1
  <2>2. next = Removed + Len(log_dataq) + 1
    OBVIOUS
  <2> HIDE DEF Removed
  <2>3. /\ Len(log_dataq') = Len(log_dataq) + 1
        /\ log_dataq'[Len(log_dataq) + 1] = next
        /\ \A i \in 1 .. Len(log_dataq) : log_dataq'[i] = log_dataq[i]
    BY <1>1 DEF Push
  <2>4. \A i \in 1 .. Len(log_dataq') : log_dataq'[i] = Removed + i
    <3> SUFFICES ASSUME NEW i \in 1 .. Len(log_dataq') PROVE log_dataq'[i] = Removed + i
      OBVIOUS
    <3>1. Len(log_dataq) \in Nat
      OBVIOUS
    <3>2. i \in 1 .. Len(log_dataq) \/ i = Len(log_dataq) + 1
      BY <2>3, <3>1
    <3>3. CASE i \in 1 .. Len(log_dataq)
      BY <2>3, <3>3
    <3>4. CASE i = Len(log_dataq) + 1
      <4>1. Removed \in Nat
        OBVIOUS
      <4>2. log_dataq'[i] = next
        BY <2>3, <3>4
      <4> HIDE DEF OrderInv, LogType
      <4> QED
        BY <2>2, <3>1, <3>4, <4>1, <4>2
    <3> QED
      BY <3>2, <3>3, <3>4
  <2> QED
    BY <1>1, <2>1, <2>2, <2>3, <2>4 DEF Push
<1>2. ASSUME NEW w \in Writers, Post(w) PROVE OrderInv'
  BY <1>1, <1>2 DEF Post
<1>3. CASE CallbackPost
  BY <1>1, <1>3 DEF CallbackPost
<1>4. ASSUME UNCHANGED <<log_dataq, written, next>>, Removed' = Removed
      PROVE  OrderInv'
  BY <1>4
<1>5. ASSUME NEW w \in Writers, SignalPosted(w) PROVE OrderInv'
  <2>1. Removed' = Removed
    BY <1>5 DEF SignalPosted, Signal
  <2> QED
    BY <1>4, <1>5, <2>1 DEF SignalPosted
<1>6. CASE Lock
  <2>1. CASE data = 0
    BY <1>6, <2>1 DEF Lock
  <2>2. CASE data # 0
    <3>1. log_dataq # <<>> /\ log_dataq' = Tail(log_dataq) /\ written' = written
      BY <1>6, <2>2 DEF Lock, LoggerInv, DataValid
    <3>2. Removed' = Removed + 1
      BY <1>6, <2>2 DEF Lock
    <3> HIDE DEF Removed
    <3>3. /\ Len(log_dataq') = Len(log_dataq) - 1
          /\ \A i \in 1 .. Len(log_dataq') : log_dataq'[i] = log_dataq[i + 1]
      BY <3>1
    <3>4. \A i \in 1 .. Len(log_dataq') : log_dataq'[i] = Removed' + i
      BY <3>1, <3>2, <3>3
    <3>5. /\ Removed \in Nat /\ Len(log_dataq) \in Nat /\ next \in Nat
          /\ Removed + Len(log_dataq) = next - 1 /\ next' = next
      BY <1>6 DEF Lock
    <3>6. Removed' + Len(log_dataq') = next' - 1 /\ Removed' \in Nat
      <4> HIDE DEF OrderInv, LogType
      <4> QED
        BY <3>2, <3>3, <3>5
    <3> QED
      BY <3>1, <3>4, <3>6
  <2> QED
    BY <2>1, <2>2
<1>7. CASE Write
  <2>1. log_dataq # <<>> /\ data = Head(log_dataq) /\ at = "write"
    BY <1>7 DEF Write, LoggerInv, DataValid
  <2>2. data = Len(written) + 1
    BY <2>1
  <2>3. Removed' = Removed
    BY <1>7, <2>1, <2>2 DEF Write
  <2>4. written' \in Seq(Nat) /\ Len(written') = Len(written) + 1
        /\ \A i \in 1 .. Len(written') : written'[i] = i
    BY <1>7, <2>2 DEF Write
  <2> QED
    BY <1>7, <2>3, <2>4 DEF Write
<1>8. CASE CheckEmpty \/ Block \/ TimeOut \/ Relock \/ CheckStop \/ Take
  BY <1>4, <1>8 DEF CheckEmpty, Block, TimeOut, Relock, CheckStop, Take
<1>9. CASE SetStop
  BY <1>4, <1>9 DEF SetStop
<1>10. CASE DeinitStep
  <2>1. Removed' = Removed
    BY <1>10 DEF DeinitStep, PassMutex, SignalStop, Signal, Join, Release
  <2> QED
    BY <1>4, <1>10, <2>1 DEF DeinitStep, PassMutex, SignalStop, Join, Release
<1>11. CASE UNCHANGED vars
  BY <1>4, <1>11 DEF vars
<1> QED
  BY <1>2, <1>3, <1>5, <1>6, <1>7, <1>8, <1>9, <1>10, <1>11 DEF Next, LogStep

(* The log thread ends only when all that was posted before stop_ was set  *)
(* is written.                                                             *)
DrainInv ==
  /\ before \in Nat
  /\ stop <=> main # "running"
  /\ stop => before <= next
  /\ at = "done" => stop /\ before - 1 <= Len(written)
  /\ main \in {"joined", "released"} => at = "done"

LEMMA DrainStep ==
  LogType /\ LoggerInv /\ OrderInv /\ DrainInv /\ [Next]_vars => DrainInv'
<1> SUFFICES ASSUME LogType, LoggerInv, OrderInv, DrainInv, [Next]_vars
             PROVE  DrainInv'
  OBVIOUS
<1> USE DEF LogType, DrainInv
<1>1. ASSUME NEW w \in Writers, Post(w) PROVE DrainInv'
  BY <1>1 DEF Post, Push
<1>2. ASSUME NEW w \in Writers, SignalPosted(w) PROVE DrainInv'
  BY <1>2 DEF SignalPosted, Signal
<1>3. CASE CallbackPost
  BY <1>3 DEF CallbackPost, Push
<1>4. CASE Lock \/ CheckEmpty \/ Block \/ TimeOut \/ Relock \/ Take \/ Write
  BY <1>4 DEF Lock, CheckEmpty, Block, TimeOut, Relock, Take, Write
<1>5. CASE CheckStop
  <2>1. Len(written) = next - 1
    BY <1>5 DEF CheckStop, OrderInv, Removed
  <2> QED
    BY <1>5, <2>1 DEF CheckStop
<1>6. CASE SetStop
  BY <1>6 DEF SetStop
<1>7. CASE DeinitStep
  BY <1>7 DEF DeinitStep, PassMutex, SignalStop, Signal, Join, Release
<1>8. CASE UNCHANGED vars
  BY <1>8 DEF vars
<1> QED
  BY <1>1, <1>2, <1>3, <1>4, <1>5, <1>6, <1>7, <1>8 DEF Next, LogStep

LEMMA OrderInvariant == Spec => [](LogType /\ LoggerInv /\ OrderInv /\ DrainInv)
<1>1. Init => OrderInv
  <2> SUFFICES ASSUME Init PROVE OrderInv
    OBVIOUS
  <2>1. written = <<>> /\ log_dataq = <<>> /\ data = 0 /\ next = 1
    BY DEF Init
  <2>2. <<>> \in Seq(Nat) /\ Len(<<>>) = 0
    OBVIOUS
  <2> QED
    BY <2>1, <2>2 DEF OrderInv, Removed
<1>2. Init => DrainInv
  BY DEF Init, DrainInv
<1> QED
  BY <1>1, <1>2, OrderStep, DrainStep, LoggerInvariant, PTL DEF Spec

(* Nothing that was posted is lost, written twice or written out of order, *)
(* by however many threads it was posted.                                  *)
THEOREM WrittenInOrder == Spec => []EachOnceInOrder
<1>1. LogType /\ LoggerInv /\ OrderInv => EachOnceInOrder
  <2> SUFFICES ASSUME LogType, LoggerInv, OrderInv PROVE EachOnceInOrder
    OBVIOUS
  <2>1. /\ Unwritten \in Seq(Nat)
        /\ Len(Unwritten) = next - 1 - Len(written)
        /\ \A i \in 1 .. Len(Unwritten) : Unwritten[i] = Len(written) + i
    <3>1. CASE at = "lock" /\ data # 0
      <4>1. log_dataq # <<>> /\ Unwritten = Tail(log_dataq) /\ Removed = Len(written) - 1
        BY <3>1 DEF LoggerInv, DataValid, Removed, Unwritten
      <4>2. /\ Unwritten \in Seq(Nat)
            /\ Len(Unwritten) = Len(log_dataq) - 1
            /\ \A i \in 1 .. Len(Unwritten) : Unwritten[i] = log_dataq[i + 1]
        BY <4>1 DEF LogType
      <4> QED
        BY <4>1, <4>2 DEF LogType, OrderInv
    <3>2. CASE ~(at = "lock" /\ data # 0)
      BY <3>2 DEF LogType, OrderInv, Removed, Unwritten
    <3> QED
      BY <3>1, <3>2
  <2>2. written \in Seq(Nat) /\ \A i \in 1 .. Len(written) : written[i] = i
    BY DEF OrderInv
  <2> DEFINE all == written \o Unwritten
  <2> HIDE DEF Unwritten
  <2>3. /\ all \in Seq(Nat)
        /\ Len(all) = Len(written) + Len(Unwritten)
        /\ \A i \in 1 .. Len(all) :
             all[i] = IF i <= Len(written) THEN written[i] ELSE Unwritten[i - Len(written)]
    BY <2>1, <2>2
  <2>4. next \in Nat /\ Len(written) \in Nat /\ Len(Unwritten) \in Nat
    BY <2>1, <2>2 DEF LogType
  <2>5. DOMAIN all = 1 .. Len(all)
    BY <2>3
  <2> HIDE DEF all
  <2>6. Len(all) = next - 1 /\ \A i \in 1 .. Len(all) : all[i] = i
    BY SMTT(30), <2>1, <2>2, <2>3, <2>4
  <2> QED
    BY <2>5, <2>6 DEF EachOnceInOrder, all
<1> QED
  BY <1>1, OrderInvariant, PTL

(* deinit() joins a log thread that has written every record posted before *)
(* stop_ was set.                                                          *)
THEOREM JoinedIsDrained == Spec => []DrainedAtJoin
<1>1. LogType /\ OrderInv /\ DrainInv => DrainedAtJoin
  <2> SUFFICES ASSUME LogType, OrderInv, DrainInv, main \in {"joined", "released"},
                      NEW r \in Records, r < before
               PROVE  r \in Range(written)
    BY DEF DrainedAtJoin
  <2>1. r \in 1 .. Len(written)
    BY LoggerAssumption DEF LoggerAssumption, DrainInv, OrderInv, Records
  <2> QED
    BY <2>1 DEF OrderInv, Range
<1> QED
  BY <1>1, OrderInvariant, PTL

-----------------------------------------------------------------------------
(* The logger implements TaskExecutor.                                     *)

(* A post appends to what is unwritten, also while the record that was     *)
(* written last is still at the head of the queue.                         *)
LEMMA PushedIsPosted ==
  ASSUME LogType, LoggerInv, Push, UNCHANGED <<at, data, written>>
  PROVE  Executor!Post
<1>1. log_dataq \in Seq(Nat \ {0}) /\ next \in Nat \ {0}
  BY DEF LogType
<1>2. CASE at = "lock" /\ data # 0
  <2>1. log_dataq # <<>> /\ log_dataq' = Append(log_dataq, next)
    BY <1>2 DEF LoggerInv, DataValid, Push
  <2>2. Tail(Append(log_dataq, next)) = Append(Tail(log_dataq), next)
    BY <1>1, <2>1
  <2> QED
    BY <1>2, <2>1, <2>2 DEF Push, Executor!Post, Unwritten, LastWritten
<1>3. CASE ~(at = "lock" /\ data # 0)
  BY <1>3 DEF Push, Executor!Post, Unwritten, LastWritten
<1> QED
  BY <1>2, <1>3

(* write_log() starts the oldest task.                                     *)
LEMMA WrittenIsStarted ==
  ASSUME LogType, LoggerInv, OrderInv, Write
  PROVE  Executor!Start
<1>1. log_dataq # <<>> /\ data = Head(log_dataq) /\ at = "write" /\ at' = "lock"
      /\ written' = Append(written, data) /\ UNCHANGED <<log_dataq, data, next>>
  BY DEF Write, LoggerInv, DataValid
<1>2. data # 0 /\ data \in Nat
  <2>1. log_dataq \in Seq(Nat \ {0})
    BY DEF LogType
  <2>2. Head(log_dataq) \in Nat \ {0}
    BY <1>1, <2>1
  <2> QED
    BY <1>1, <2>2
<1>3. Unwritten = log_dataq /\ Unwritten' = Tail(log_dataq)
  BY <1>1, <1>2 DEF Unwritten
<1>4. written \in Seq(Nat)
  BY DEF OrderInv
<1>5. Append(written, data) # <<>> /\ Len(Append(written, data)) = Len(written) + 1
      /\ Append(written, data)[Len(written) + 1] = data
  BY <1>2, <1>4
<1>6. LastWritten' = data
  BY <1>1, <1>5 DEF LastWritten
<1> QED
  BY <1>1, <1>3, <1>6 DEF Executor!Start

LEMMA LogExecutorStep ==
  LogType /\ LoggerInv /\ OrderInv /\ [Next]_vars
    => [Executor!Next]_(Executor!vars)
<1> SUFFICES ASSUME LogType, LoggerInv, OrderInv, [Next]_vars
             PROVE  [Executor!Next]_(Executor!vars)
  OBVIOUS
<1>1. ASSUME UNCHANGED <<Unwritten, next, written>> PROVE UNCHANGED Executor!vars
  BY <1>1 DEF Executor!vars, LastWritten
<1>2. ASSUME UNCHANGED <<log_dataq, next, written>>,
             (at' = "lock" /\ data' # 0) <=> (at = "lock" /\ data # 0)
      PROVE  UNCHANGED Executor!vars
  <2>1. Unwritten' = Unwritten
    BY <1>2 DEF Unwritten
  <2> QED
    BY <1>1, <1>2, <2>1
<1>3. ASSUME NEW w \in Writers, Post(w) PROVE Executor!Next
  BY <1>3, PushedIsPosted DEF Post, Executor!Next
<1>4. ASSUME NEW w \in Writers, SignalPosted(w) PROVE UNCHANGED Executor!vars
  BY <1>2, <1>4 DEF SignalPosted, Signal
<1>5. CASE CallbackPost
  BY <1>5, PushedIsPosted DEF CallbackPost, Executor!Next
<1>6. CASE Lock
  <2>1. Unwritten' = Unwritten
    BY <1>6 DEF Lock, Unwritten
  <2> QED
    BY <1>1, <1>6, <2>1 DEF Lock
<1>7. CASE CheckEmpty \/ Block \/ TimeOut \/ Relock \/ CheckStop \/ Take
  BY <1>2, <1>7 DEF CheckEmpty, Block, TimeOut, Relock, CheckStop, Take
<1>8. CASE Write
  BY <1>8, WrittenIsStarted DEF Executor!Next
<1>9. CASE SetStop \/ DeinitStep
  BY <1>2, <1>9 DEF SetStop, DeinitStep, PassMutex, SignalStop, Signal, Join, Release
<1>10. CASE UNCHANGED vars
  BY <1>2, <1>10 DEF vars
<1> QED
  BY <1>3, <1>4, <1>5, <1>6, <1>7, <1>8, <1>9, <1>10 DEF Next, LogStep

(* For any number of writers, the only way out of the queue is that the    *)
(* oldest record is written; stop_ takes nothing away from that.           *)
THEOREM LoggerIsExecutor == Spec => LogExecutorSpec
<1>1. Init => Executor!Init
  BY DEF Init, Executor!Init, Unwritten, LastWritten
<1>2. LogType /\ LoggerInv /\ OrderInv /\ [Next]_vars
        => [Executor!Next]_(Executor!vars)
  BY LogExecutorStep
<1> QED
  BY <1>1, <1>2, OrderInvariant, PTL DEF Spec, LogExecutorSpec, Executor!Spec

=============================================================================
