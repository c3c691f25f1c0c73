----------------------------- MODULE BlockProofs -----------------------------
(***************************************************************************)
(* Theorems about the building blocks: Threads, for any set of thread      *)
(* objects, Locks, for any threads, levels and permits and for both        *)
(* platforms, Sockets, for any objects, descriptors and options, Listener, *)
(* for any number of files, peers and signals, Times, for all integers,    *)
(* ObjMgr, for any sets of nodes and objects and any reserve, TimerQueue,  *)
(* for any timers and callers, Buffers, for any buffers and sizes, and     *)
(* KernelList, for any sets of heads and entries.                          *)
(***************************************************************************)
EXTENDS
  Threads, Locks, Sockets, WinBarrier, Listener, Times, ObjMgr, TimerQueue,
  Buffers, KernelList, WellFoundedInduction, FiniteSetTheorems,
  SequenceTheorems, TLAPS

-----------------------------------------------------------------------------
(* Threads and Locks.                                                      *)

(* What each stage of an object says about its data and its thread.        *)
StageOf(h) ==
  /\ dataLive[h] <=> system[h] = "running"
  /\ freed[h] = IF system[h] = "ended" \/ (object[h] = "gone" /\ system[h] = "none")
                THEN 1 ELSE 0
  /\ reaped[h] = IF object[h] = "joined" \/ (object[h] = "gone" /\ system[h] # "none")
                 THEN 1 ELSE 0
  /\ object[h] = "none" => system[h] = "none"
  /\ object[h] \in {"made", "joining"} => system[h] # "none"
  /\ object[h] = "joined" => system[h] = "ended"

StageInv ==
  /\ object \in [ThreadObjects -> {"none", "made", "joining", "joined", "gone"}]
  /\ system \in [ThreadObjects -> {"none", "running", "ended"}]
  /\ dataLive \in [ThreadObjects -> BOOLEAN]
  /\ freed \in [ThreadObjects -> Nat]
  /\ reaped \in [ThreadObjects -> Nat]
  /\ \A h \in ThreadObjects : StageOf(h)

LEMMA StageStep == StageInv /\ [ThreadsNext]_threadVars => StageInv'
<1> SUFFICES ASSUME StageInv, [ThreadsNext]_threadVars PROVE StageInv'
  OBVIOUS
<1> USE DEF StageInv, StageOf
<1>1. ASSUME NEW h \in ThreadObjects, CreateThread(h) PROVE StageInv'
  BY <1>1 DEF CreateThread
<1>2. ASSUME NEW h \in ThreadObjects, CreateFails(h) PROVE StageInv'
  BY <1>2 DEF CreateFails
<1>3. ASSUME NEW h \in ThreadObjects, ThreadReturns(h) PROVE StageInv'
  BY <1>3 DEF ThreadReturns
<1>4. ASSUME NEW h \in ThreadObjects, JoinThread(h) PROVE StageInv'
  BY <1>4 DEF JoinThread
<1>5. ASSUME NEW h \in ThreadObjects, JoinReturned(h) PROVE StageInv'
  BY <1>5 DEF JoinReturned
<1>6. ASSUME NEW h \in ThreadObjects, ReleaseThread(h) PROVE StageInv'
  BY <1>6 DEF ReleaseThread, Joinable
<1>7. CASE UNCHANGED threadVars
  BY <1>7 DEF threadVars
<1> QED
  BY <1>1, <1>2, <1>3, <1>4, <1>5, <1>6, <1>7 DEF ThreadsNext

(* Whatever the order of the end of the thread, join() and the end of the  *)
(* object: the data is deleted once and not before the thread has read it, *)
(* and the system's thread is joined or detached once.                     *)
THEOREM ReleasedOnce == ThreadsSpec => []ThreadsReleasedOnce
<1>1. ThreadsInit => StageInv
  BY DEF ThreadsInit, StageInv, StageOf
<1>2. StageInv => ThreadsReleasedOnce
  BY DEF StageInv, StageOf, ThreadsReleasedOnce
<1> QED
  BY <1>1, <1>2, StageStep, PTL DEF ThreadsSpec

-----------------------------------------------------------------------------
(* The locks.                                                              *)

LocksTypes ==
  /\ platform \in {"posix", "windows"}
  /\ kind \in {"mutex", "rmutex"}
  /\ owner \in Threads \cup {Nobody}
  /\ depth \in Nat /\ stack \in Nat
  /\ levels \in [Threads -> Nat]
  /\ waiting \in SUBSET Threads /\ woken \in SUBSET Threads
  /\ refusals \in Nat
  /\ permits \in Nat
  /\ inside \in SUBSET Threads

(* The threads in cond::wait(), before and after the signal.               *)
Asleep == waiting \cup woken

SleepersApart ==
  /\ waiting \cap woken = {}
  /\ IsFiniteSet(Asleep)
  /\ IsFiniteSet(inside)

(* A lock that is not reentrant is given back by cond::wait() for good.    *)
OwnerAwake == ~Reentrant => owner \notin Asleep

LocksInv == LocksTypes /\ SleepersApart /\ OwnerAwake /\ LocksCounted

LEMMA AddSleeper ==
  ASSUME LocksInv, NEW t \in Threads, t \notin Asleep
  PROVE  /\ IsFiniteSet(Asleep \cup {t})
         /\ Cardinality(Asleep \cup {t}) = Cardinality(Asleep) + 1
BY FS_AddElement DEF LocksInv, SleepersApart

LEMMA RemoveSleeper ==
  ASSUME LocksInv, NEW t \in Asleep
  PROVE  /\ IsFiniteSet(Asleep \ {t})
         /\ Cardinality(Asleep \ {t}) = Cardinality(Asleep) - 1
         /\ Cardinality(Asleep) \in Nat
BY FS_RemoveElement, FS_CardinalityType DEF LocksInv, SleepersApart

LEMMA SleeperCount == LocksInv => Cardinality(Asleep) \in Nat
BY FS_CardinalityType DEF LocksInv, SleepersApart

(* A step that leaves the sleepers and the semaphore alone.                *)
LEMMA LevelStep ==
  ASSUME LocksInv, NEW t \in Threads,
         Lock(t) \/ Unlock(t) \/ TryLock(t) \/ TryLockRefused(t)
  PROVE  LocksInv'
<1> USE LocksAssumption, SleeperCount
    DEF LocksInv, LocksTypes, SleepersApart, OwnerAwake, LocksCounted, Asleep,
        Reentrant, Running, Available, Enter, Leave, Counted, fixedVars,
        condVars, semVars
<1>1. CASE Lock(t)
  BY <1>1 DEF Lock
<1>2. CASE Unlock(t)
  BY <1>2 DEF Unlock
<1>3. CASE TryLock(t)
  BY <1>3 DEF TryLock
<1>4. CASE TryLockRefused(t)
  BY <1>4 DEF TryLockRefused
<1> QED
  BY <1>1, <1>2, <1>3, <1>4

LEMMA CondStep ==
  ASSUME LocksInv, NEW t \in Threads,
         CondWait(t) \/ Signal(t) \/ CondReturn(t) \/ Broadcast
  PROVE  LocksInv'
<1> USE LocksAssumption, SleeperCount
    DEF LocksInv, LocksTypes, SleepersApart, OwnerAwake, LocksCounted,
        Reentrant, Running, Available, Enter, Leave, fixedVars, condVars, semVars
<1>1. CASE CondWait(t)
  <2>1. Asleep' = Asleep \cup {t} /\ t \notin Asleep
    BY <1>1 DEF CondWait, Asleep
  <2>2. waiting' \cap woken' = {} /\ waiting' \in SUBSET Threads
    BY <1>1 DEF CondWait
  <2>3. IsFiniteSet(Asleep') /\ Cardinality(Asleep') = Cardinality(Asleep) + 1
    BY <2>1, AddSleeper
  <2>4. stack = depth + Cardinality(Asleep) + refusals \/ kind # "rmutex"
    BY DEF Asleep
  <2>5. LocksCounted' \/ kind # "rmutex"
    <3>1. kind = "rmutex" => stack' = depth' + Cardinality(Asleep') + refusals'
      BY <1>1, <2>3, <2>4 DEF CondWait
    <3> QED
      BY <1>1, <3>1 DEF CondWait, Asleep
  <2>6. kind # "rmutex" => LocksCounted'
    BY <1>1 DEF CondWait
  <2>7. OwnerAwake'
    <3>1. ~Reentrant => owner' = Nobody
      BY <1>1 DEF CondWait
    <3>2. Nobody \notin Asleep'
      BY <2>2, <1>1 DEF CondWait, Asleep
    <3> QED
      BY <1>1, <3>1, <3>2 DEF CondWait
  <2>8. LocksTypes' /\ SleepersApart'
    BY <1>1, <2>2, <2>3 DEF CondWait
  <2> QED
    BY <2>5, <2>6, <2>7, <2>8
<1>2. CASE Signal(t)
  <2>1. Asleep' = Asleep
    BY <1>2 DEF Signal, Asleep
  <2> QED
    BY <1>2, <2>1 DEF Signal, Asleep
<1>3. CASE CondReturn(t)
  <2>1. Asleep' = Asleep \ {t} /\ t \in Asleep
    BY <1>3 DEF CondReturn, Asleep
  <2>2. /\ IsFiniteSet(Asleep')
        /\ Cardinality(Asleep') = Cardinality(Asleep) - 1
        /\ Cardinality(Asleep) \in Nat
    BY <2>1, RemoveSleeper
  <2>3. stack = depth + Cardinality(Asleep) + refusals \/ kind # "rmutex"
    BY DEF Asleep
  <2>4. kind = "rmutex" => stack' = depth' + Cardinality(Asleep') + refusals'
    BY <1>3, <2>2, <2>3 DEF CondReturn
  <2>5. LocksCounted'
    BY <1>3, <2>4 DEF CondReturn, Asleep
  <2>6. OwnerAwake'
    BY <1>3, <2>1 DEF CondReturn
  <2>7. LocksTypes' /\ SleepersApart'
    BY <1>3, <2>2 DEF CondReturn
  <2> QED
    BY <2>5, <2>6, <2>7
<1>4. CASE Broadcast
  <2>1. Asleep' = Asleep
    BY <1>4 DEF Broadcast, Asleep
  <2> QED
    BY <1>4, <2>1 DEF Broadcast, Asleep
<1> QED
  BY <1>1, <1>2, <1>3, <1>4

LEMMA SemStep ==
  ASSUME LocksInv, NEW t \in Threads, SemWait(t) \/ SemPost(t)
  PROVE  LocksInv'
<1> USE LocksAssumption, SleeperCount
    DEF LocksInv, LocksTypes, SleepersApart, OwnerAwake, LocksCounted, Asleep,
        Reentrant, fixedVars, condVars
<1>0. Cardinality(inside) \in Nat
  BY FS_CardinalityType
<1>1. CASE SemWait(t)
  <2>1. /\ IsFiniteSet(inside')
        /\ Cardinality(inside') = Cardinality(inside) + 1
    BY <1>1, FS_AddElement DEF SemWait
  <2> QED
    BY <1>0, <1>1, <2>1 DEF SemWait
<1>2. CASE SemPost(t)
  <2>1. /\ IsFiniteSet(inside')
        /\ Cardinality(inside') = Cardinality(inside) - 1
    BY <1>2, FS_RemoveElement DEF SemPost
  <2> QED
    BY <1>0, <1>2, <2>1 DEF SemPost
<1> QED
  BY <1>1, <1>2

LEMMA LocksStep == LocksInv /\ [LocksNext]_lockVars => LocksInv'
<1> SUFFICES ASSUME LocksInv, [LocksNext]_lockVars PROVE LocksInv'
  OBVIOUS
<1>1. CASE UNCHANGED lockVars
  BY <1>1 DEF lockVars, LocksInv, LocksTypes, SleepersApart, OwnerAwake,
     LocksCounted, Asleep, Reentrant
<1>2. CASE LocksNext
  <2>1. CASE Broadcast
    <3>1. \E t \in Threads : TRUE
      BY <2>1 DEF Broadcast, LocksInv, LocksTypes
    <3> QED
      BY <2>1, <3>1, CondStep
  <2> QED
    BY <1>2, <2>1, LevelStep, CondStep, SemStep DEF LocksNext
<1> QED
  BY <1>1, <1>2

(* Mutual exclusion of the lock, behind cond::wait() too, the exact value  *)
(* of the counter that posix_rmutex keeps in builds with assertions, and   *)
(* the semaphore's bound.                                                  *)
THEOREM LocksAreCounted == LocksSpec => []LocksCounted
<1>1. LocksInit => LocksInv
  BY LocksAssumption, FS_EmptySet
     DEF LocksInit, LocksInv, LocksTypes, SleepersApart, OwnerAwake, Asleep,
         LocksCounted, Reentrant
<1>2. LocksInv => LocksCounted
  BY DEF LocksInv
<1> QED
  BY <1>1, <1>2, LocksStep, PTL DEF LocksSpec

-----------------------------------------------------------------------------
(* Sockets.                                                                *)

KernelStates == {"fresh", "bound", "listening", "connected"}

Descriptors ==
  [proto : Protos, state : KernelStates, shut : BOOLEAN,
   opts : SUBSET OptionsUsed]

SocketTypes ==
  /\ handle \in [Socks -> Fds \cup {Invalid}]
  /\ sflags \in [Socks -> SUBSET {"udp", "ipv6", "shutdown"}]
  /\ open \in SUBSET Fds
  /\ kernel \in [Fds -> Descriptors]
  /\ want \in [Socks -> SUBSET OptionsUsed]
  /\ refused \in SUBSET open
  /\ thrown \in BOOLEAN

(* Object s, which holds a descriptor, agrees with it.                     *)
Agrees(s) ==
  LET k == kernel[handle[s]]
  IN  /\ ProtoOf(sflags[s]) = k.proto
      /\ IsShutdown(s) <=> k.shut
      /\ want[s] = k.opts

Owns(s) ==
  ~Closed(s) =>
    /\ handle[s] \in open \ refused
    /\ \A t \in Socks \ {s} : handle[t] # handle[s]
    /\ Agrees(s)

Owned(f) == \E s \in Socks : handle[s] = f

SocketInv ==
  /\ SocketTypes
  /\ ~thrown => (\A f \in open \ refused : Owned(f)) /\ (\A s \in Socks : Owns(s))

LEMMA FreshType ==
  ASSUME NEW proto \in Protos
  PROVE  /\ FreshDescriptor(proto) \in Descriptors
         /\ FreshDescriptor(proto).proto = proto
         /\ ~FreshDescriptor(proto).shut
         /\ FreshDescriptor(proto).opts = {}
BY DEF FreshDescriptor, Descriptors, KernelStates

LEMMA ProtoType ==
  ASSUME NEW fl \in SUBSET {"udp", "ipv6", "shutdown"}
  PROVE  /\ ProtoOf(fl) \in Protos
         /\ ProtoOf(ProtoOf(fl)) = ProtoOf(fl)
         /\ "shutdown" \notin ProtoOf(fl)
         /\ ProtoOf(fl) \in SUBSET {"udp", "ipv6", "shutdown"}
         /\ ProtoOf(fl \cup {"shutdown"}) = ProtoOf(fl)
BY DEF ProtoOf, Protos

LEMMA OpenDescriptor ==
  ASSUME SocketInv, ~thrown, NEW s \in Socks, ~Closed(s)
  PROVE  handle[s] \in open /\ handle[s] \in Fds
BY SocketsAssumption DEF SocketInv, SocketTypes, Owns, Closed

(* A new descriptor f goes to the closed object s.                         *)
LEMMA GivenDescriptor ==
  ASSUME SocketInv, ~thrown, thrown' = thrown,
         NEW s \in Socks, Closed(s), NEW f \in Fds \ open,
         NEW fl \in Protos, NEW d \in Descriptors,
         d.proto = fl, ~d.shut, d.opts = {},
         handle' = [handle EXCEPT ![s] = f],
         sflags' = [sflags EXCEPT ![s] = fl],
         open' = open \cup {f},
         kernel' = [kernel EXCEPT ![f] = d],
         want' = [want EXCEPT ![s] = {}],
         refused' = refused
  PROVE  SocketInv'
<1> USE SocketsAssumption
<1>1. SocketTypes'
  BY DEF SocketInv, SocketTypes, Protos
<1>2. ASSUME NEW g \in open' \ refused' PROVE Owned(g)'
  <2>1. CASE g = f
    BY <2>1 DEF SocketInv, SocketTypes, Owned
  <2>2. CASE g # f
    BY <2>2 DEF SocketInv, SocketTypes, Owned, Closed
  <2> QED
    BY <2>1, <2>2
<1>3. ASSUME NEW u \in Socks PROVE Owns(u)'
  <2>1. CASE u = s
    <3>1. ProtoOf(fl) = fl /\ "shutdown" \notin fl
      BY DEF ProtoOf, Protos
    <3>2. \A t \in Socks \ {s} : handle[t] # f
      BY DEF SocketInv, Owns, Closed
    <3>3. handle'[s] = f /\ sflags'[s] = fl /\ kernel'[f] = d /\ want'[s] = {}
      BY DEF SocketInv, SocketTypes
    <3> QED
      BY <2>1, <3>1, <3>2, <3>3
         DEF SocketInv, SocketTypes, Owns, Closed, Agrees, IsShutdown
  <2>2. CASE u # s /\ ~Closed(u)
    <3>1. handle[u] # f
      BY <2>2 DEF SocketInv, Owns
    <3>2. /\ handle'[u] = handle[u] /\ sflags'[u] = sflags[u]
          /\ want'[u] = want[u] /\ kernel'[handle[u]] = kernel[handle[u]]
      BY <2>2, <3>1, OpenDescriptor DEF SocketInv, SocketTypes
    <3> QED
      BY <2>2, <3>1, <3>2
         DEF SocketInv, SocketTypes, Owns, Closed, Agrees, IsShutdown
  <2>3. CASE u # s /\ Closed(u)
    BY <2>3 DEF SocketInv, SocketTypes, Owns, Closed
  <2> QED
    BY <2>1, <2>2, <2>3
<1> QED
  BY <1>1, <1>2, <1>3 DEF SocketInv

LEMMA ConstructInv ==
  ASSUME SocketInv, ~thrown, NEW s \in Socks, NEW f \in Fds, NEW proto \in Protos,
         Construct(s, proto, f)
  PROVE  SocketInv'
BY GivenDescriptor, FreshType DEF Construct

LEMMA MoveInv ==
  ASSUME SocketInv, ~thrown, NEW s \in Socks, NEW t \in Socks, Move(s, t)
  PROVE  SocketInv'
<1> USE SocketsAssumption
<1>1. s # t /\ handle[s] = Invalid /\ handle[t] # Invalid
  BY DEF Move, Closed
<1>2. /\ handle'[s] = handle[t] /\ handle'[t] = Invalid
      /\ sflags'[s] = sflags[t] /\ want'[s] = want[t]
      /\ \A u \in Socks \ {s, t} :
           handle'[u] = handle[u] /\ sflags'[u] = sflags[u] /\ want'[u] = want[u]
  BY <1>1 DEF Move, SocketInv, SocketTypes
<1>3. SocketTypes'
  BY DEF Move, SocketInv, SocketTypes
<1>4. ASSUME NEW f \in open' \ refused' PROVE Owned(f)'
  BY <1>1, <1>2 DEF Move, SocketInv, SocketTypes, Owned
<1>5. /\ UNCHANGED <<open, kernel, refused>>
      /\ Owns(t) /\ \A u \in Socks : Owns(u)
  BY DEF Move, SocketInv
<1>6. ASSUME NEW u \in Socks PROVE Owns(u)'
  <2>1. CASE u = s
    <3>1. \A v \in Socks \ {s} : handle'[v] # handle[t]
      BY <1>1, <1>2, <1>5 DEF Owns, Closed
    <3>2. Agrees(s)'
      BY <1>1, <1>2, <1>5 DEF Owns, Closed, Agrees, IsShutdown
    <3> QED
      BY <2>1, <3>1, <3>2, <1>1, <1>2, <1>5 DEF Owns, Closed
  <2>2. CASE u = t
    BY <2>2, <1>2 DEF Owns, Closed
  <2>3. CASE u \notin {s, t} /\ Closed(u)
    BY <2>3, <1>2 DEF Owns, Closed
  <2>4. CASE u \notin {s, t} /\ ~Closed(u)
    <3>1. handle[u] # handle[t] /\ handle[u] # Invalid
      BY <2>4, <1>5 DEF Owns, Closed
    <3>2. \A v \in Socks \ {u} : handle'[v] # handle[u]
      BY <2>4, <3>1, <1>1, <1>2, <1>5 DEF Owns
    <3>3. Agrees(u)'
      BY <2>4, <1>2, <1>5 DEF Owns, Agrees, IsShutdown
    <3> QED
      BY <2>4, <3>1, <3>2, <3>3, <1>2, <1>5 DEF Owns, Closed
  <2> QED
    BY <2>1, <2>2, <2>3, <2>4
<1> QED
  BY <1>3, <1>4, <1>6 DEF SocketInv, Move

(* A step that changes the state of a descriptor and nothing else.         *)
LEMMA StateInv ==
  ASSUME SocketInv, ~thrown, NEW s \in Socks, NEW st \in KernelStates, ~Closed(s),
         kernel' = [kernel EXCEPT ![handle[s]].state = st],
         UNCHANGED <<handle, sflags, open, want, refused, thrown>>
  PROVE  SocketInv'
<1>1. handle[s] \in Fds
  BY OpenDescriptor
<1>2. kernel' \in [Fds -> Descriptors]
  BY <1>1 DEF SocketInv, SocketTypes, Descriptors
<1>3. \A f \in Fds : /\ kernel'[f].proto = kernel[f].proto
                     /\ kernel'[f].shut = kernel[f].shut
                     /\ kernel'[f].opts = kernel[f].opts
  BY <1>1 DEF SocketInv, SocketTypes, Descriptors
<1>4. \A u \in Socks : ~Closed(u) => handle[u] \in Fds
  BY OpenDescriptor
<1>5. ASSUME NEW u \in Socks PROVE Owns(u)'
  <2>1. CASE Closed(u)
    BY <2>1 DEF Owns, Closed
  <2>2. CASE ~Closed(u)
    <3>1. /\ kernel'[handle[u]].proto = kernel[handle[u]].proto
          /\ kernel'[handle[u]].shut = kernel[handle[u]].shut
          /\ kernel'[handle[u]].opts = kernel[handle[u]].opts
      BY <1>3, <1>4, <2>2
    <3>2. Agrees(u)
      BY <2>2 DEF SocketInv, Owns
    <3>3. Agrees(u)'
      BY <3>1, <3>2 DEF Agrees, IsShutdown
    <3> QED
      BY <2>2, <3>3 DEF SocketInv, Owns, Closed
  <2> QED
    BY <2>1, <2>2
<1> QED
  BY <1>2, <1>5 DEF SocketInv, SocketTypes, Owned

(* accept(): to s, or to nobody.                                           *)
LEMMA AcceptInv ==
  ASSUME SocketInv, ~thrown, NEW l \in Socks, NEW s \in Socks, NEW f \in Fds,
         Accept(l, s, f)
  PROVE  SocketInv'
<1> DEFINE fl == ProtoOf(sflags[l])
           d == [FreshDescriptor(fl) EXCEPT !.state = "connected"]
<1>1. fl \in Protos
  BY ProtoType DEF SocketInv, SocketTypes
<1>2. d \in Descriptors /\ d.proto = fl /\ ~d.shut /\ d.opts = {}
  BY <1>1 DEF FreshDescriptor, Descriptors, KernelStates
<1>3. /\ Closed(s) /\ f \notin open /\ thrown' = thrown
      /\ open' = open \cup {f} /\ kernel' = [kernel EXCEPT ![f] = d]
  BY DEF Accept
<1>4. CASE /\ handle' = [handle EXCEPT ![s] = f]
           /\ sflags' = [sflags EXCEPT ![s] = fl]
           /\ want' = [want EXCEPT ![s] = {}]
           /\ UNCHANGED refused
  <2> HIDE DEF d, fl
  <2> QED
    BY <1>1, <1>2, <1>3, <1>4, GivenDescriptor
<1>5. CASE refused' = refused \cup {f} /\ UNCHANGED <<handle, sflags, want>>
  <2> HIDE DEF d, fl
  <2>1. SocketTypes'
    BY <1>2, <1>3, <1>5 DEF SocketInv, SocketTypes
  <2>2. ASSUME NEW u \in Socks PROVE Owns(u)'
    <3>1. CASE Closed(u)
      BY <3>1, <1>5 DEF Owns, Closed
    <3>2. CASE ~Closed(u)
      <4>1. handle[u] # f /\ handle[u] \in Fds
        BY <3>2, <1>3, OpenDescriptor
      <4>2. kernel'[handle[u]] = kernel[handle[u]]
        BY <4>1, <1>3 DEF SocketInv, SocketTypes
      <4> QED
        BY <3>2, <4>1, <4>2, <1>3, <1>5
           DEF SocketInv, Owns, Closed, Agrees, IsShutdown
    <3> QED
      BY <3>1, <3>2
  <2>3. ASSUME NEW g \in open' \ refused' PROVE Owned(g)'
    BY <1>3, <1>5 DEF SocketInv, Owned
  <2> QED
    BY <2>1, <2>2, <2>3, <1>3 DEF SocketInv
<1> QED
  BY <1>4, <1>5 DEF Accept

(* accept() that fails, and the end of an object that holds nothing: the   *)
(* flags of a closed object mean nothing.                                  *)
LEMMA FlagsOfClosed ==
  ASSUME SocketInv, ~thrown, NEW s \in Socks, Closed(s),
         sflags' = [sflags EXCEPT ![s] = {}],
         want' = want \/ want' = [want EXCEPT ![s] = {}],
         UNCHANGED <<handle, open, kernel, refused, thrown>>
  PROVE  SocketInv'
<1>1. SocketTypes'
  BY DEF SocketInv, SocketTypes
<1>2. \A u \in Socks \ {s} : sflags'[u] = sflags[u] /\ want'[u] = want[u]
  BY DEF SocketInv, SocketTypes
<1>3. ASSUME NEW u \in Socks PROVE Owns(u)'
  BY <1>2 DEF SocketInv, Owns, Closed, Agrees, IsShutdown
<1> QED
  BY <1>1, <1>3 DEF SocketInv, Owned

(* close() and the end of an object: s and its descriptor part.            *)
LEMMA GivenUp ==
  ASSUME SocketInv, ~thrown, thrown' = thrown, NEW s \in Socks, ~Closed(s),
         KernelClose(s),
         handle' = [handle EXCEPT ![s] = Invalid],
         NEW fl \in SUBSET {"udp", "ipv6", "shutdown"},
         sflags' = [sflags EXCEPT ![s] = fl],
         want' = [want EXCEPT ![s] = {}],
         refused' = refused
  PROVE  SocketInv'
<1> DEFINE f == handle[s]
<1>1. f \in open \ refused /\ f \in Fds /\ f # Invalid
  BY OpenDescriptor, SocketsAssumption DEF SocketInv, Owns
<1>2. FreshDescriptor({}) \in Descriptors
  BY FreshType DEF Protos
<1>3. SocketTypes'
  BY <1>1, <1>2 DEF SocketInv, SocketTypes, KernelClose
<1>4. ASSUME NEW u \in Socks PROVE Owns(u)'
  <2>1. CASE u = s
    BY <2>1 DEF SocketInv, SocketTypes, Owns, Closed
  <2>2. CASE u # s /\ Closed(u)
    BY <2>2 DEF SocketInv, SocketTypes, Owns, Closed
  <2>3. CASE u # s /\ ~Closed(u)
    <3>1. handle[u] # f /\ handle[u] \in open /\ handle[u] \in Fds
      BY <2>3, OpenDescriptor DEF SocketInv, Owns
    <3>2. /\ handle'[u] = handle[u] /\ sflags'[u] = sflags[u]
          /\ want'[u] = want[u] /\ kernel'[handle[u]] = kernel[handle[u]]
      BY <2>3, <3>1 DEF SocketInv, SocketTypes, KernelClose
    <3>3. \A t \in Socks \ {u} : handle'[t] # handle[u]
      BY <2>3, <3>1 DEF SocketInv, SocketTypes, Owns, Closed
    <3> QED
      BY <2>3, <3>1, <3>2, <3>3
         DEF SocketInv, Owns, Closed, Agrees, IsShutdown, KernelClose
  <2> QED
    BY <2>1, <2>2, <2>3
<1>5. ASSUME NEW g \in open' \ refused' PROVE Owned(g)'
  <2>1. g \in open \ refused /\ g # f
    BY DEF KernelClose
  <2> QED
    BY <2>1 DEF SocketInv, SocketTypes, Owned
<1> QED
  BY <1>3, <1>4, <1>5 DEF SocketInv

(* A step of s that changes its descriptor and what s says of it together. *)
LEMMA BothChange ==
  ASSUME SocketInv, ~thrown, NEW s \in Socks, ~Closed(s),
         NEW fl \in SUBSET {"udp", "ipv6", "shutdown"},
         NEW wn \in SUBSET OptionsUsed, NEW d \in Descriptors,
         ProtoOf(fl) = d.proto, "shutdown" \in fl <=> d.shut, wn = d.opts,
         sflags' = [sflags EXCEPT ![s] = fl],
         want' = [want EXCEPT ![s] = wn],
         kernel' = [kernel EXCEPT ![handle[s]] = d],
         UNCHANGED <<handle, open, refused, thrown>>
  PROVE  SocketInv'
<1>1. SocketTypes'
  BY OpenDescriptor DEF SocketInv, SocketTypes
<1>2. ASSUME NEW u \in Socks PROVE Owns(u)'
  <2>1. CASE Closed(u)
    BY <2>1 DEF Owns, Closed
  <2>2. CASE u = s
    <3>1. sflags'[s] = fl /\ want'[s] = wn /\ kernel'[handle[s]] = d
      BY OpenDescriptor DEF SocketInv, SocketTypes
    <3> QED
      BY <2>2, <3>1 DEF SocketInv, Owns, Closed, Agrees, IsShutdown
  <2>3. CASE u # s /\ ~Closed(u)
    <3>1. handle[u] # handle[s] /\ handle[u] \in Fds
      BY <2>3, OpenDescriptor DEF SocketInv, Owns
    <3>2. /\ sflags'[u] = sflags[u] /\ want'[u] = want[u]
          /\ kernel'[handle[u]] = kernel[handle[u]]
      BY <2>3, <3>1 DEF SocketInv, SocketTypes
    <3> QED
      BY <2>3, <3>2 DEF SocketInv, Owns, Closed, Agrees, IsShutdown
  <2> QED
    BY <2>1, <2>2, <2>3
<1> QED
  BY <1>1, <1>2 DEF SocketInv, Owned

LEMMA ShutdownInv ==
  ASSUME SocketInv, ~thrown, NEW s \in Socks, Shutdown(s)
  PROVE  SocketInv'
<1> DEFINE fl == sflags[s] \cup {"shutdown"}
           d == [kernel[handle[s]] EXCEPT !.shut = TRUE]
<1>1. ~Closed(s) /\ handle[s] \in Fds
  BY OpenDescriptor DEF Shutdown, InState
<1>2. Agrees(s)
  BY <1>1 DEF SocketInv, Owns
<1>3. kernel[handle[s]] \in Descriptors
  BY <1>1 DEF SocketInv, SocketTypes
<1>4. /\ d \in Descriptors /\ d.shut
      /\ d.proto = kernel[handle[s]].proto /\ d.opts = kernel[handle[s]].opts
  BY <1>3 DEF Descriptors
<1>5. fl \in SUBSET {"udp", "ipv6", "shutdown"} /\ ProtoOf(fl) = ProtoOf(sflags[s])
  BY ProtoType DEF SocketInv, SocketTypes
<1>6. ProtoOf(fl) = d.proto /\ want[s] = d.opts
  BY <1>2, <1>4, <1>5 DEF Agrees
<1>7. want[s] \in SUBSET OptionsUsed /\ want = [want EXCEPT ![s] = want[s]]
  BY DEF SocketInv, SocketTypes
<1>8. kernel' = [kernel EXCEPT ![handle[s]] = d] /\ sflags' = [sflags EXCEPT ![s] = fl]
  BY DEF Shutdown
<1>9. "shutdown" \in fl <=> d.shut
  BY <1>4
<1>10. UNCHANGED <<handle, open, want, refused, thrown>>
  BY DEF Shutdown
<1> HIDE DEF d, fl
<1> QED
  BY <1>1, <1>4, <1>5, <1>6, <1>7, <1>8, <1>9, <1>10, BothChange

LEMMA OptionInv ==
  ASSUME SocketInv, ~thrown, NEW s \in Socks, NEW o \in OptionsUsed,
         NEW on \in BOOLEAN, SwitchOption(s, o, on)
  PROVE  SocketInv'
<1> DEFINE Written(S) == IF on THEN S \cup {o} ELSE S \ {o}
           d == [kernel[handle[s]] EXCEPT !.opts = Written(kernel[handle[s]].opts)]
<1>1. ~Closed(s) /\ handle[s] \in Fds
  BY OpenDescriptor DEF SwitchOption
<1>2. Agrees(s)
  BY <1>1 DEF SocketInv, Owns
<1>3. kernel[handle[s]] \in Descriptors
  BY <1>1 DEF SocketInv, SocketTypes
<1>4. /\ d \in Descriptors /\ d.opts = Written(kernel[handle[s]].opts)
      /\ d.proto = kernel[handle[s]].proto /\ d.shut = kernel[handle[s]].shut
  BY <1>3 DEF Descriptors
<1>5. Written(want[s]) \in SUBSET OptionsUsed
  BY DEF SocketInv, SocketTypes
<1>6. ProtoOf(sflags[s]) = d.proto /\ Written(want[s]) = d.opts
  BY <1>2, <1>4 DEF Agrees
<1>7. "shutdown" \in sflags[s] <=> d.shut
  BY <1>2, <1>4 DEF Agrees, IsShutdown
<1>8. sflags[s] \in SUBSET {"udp", "ipv6", "shutdown"}
      /\ sflags = [sflags EXCEPT ![s] = sflags[s]]
  BY DEF SocketInv, SocketTypes
<1>9. /\ kernel' = [kernel EXCEPT ![handle[s]] = d]
      /\ want' = [want EXCEPT ![s] = Written(want[s])]
      /\ UNCHANGED <<handle, sflags, open, refused, thrown>>
  BY DEF SwitchOption
<1> HIDE DEF d, Written
<1> QED
  BY <1>1, <1>4, <1>5, <1>6, <1>7, <1>8, <1>9, BothChange

LEMMA CloseInv ==
  ASSUME SocketInv, ~thrown, NEW s \in Socks,
         CloseEc(s) \/ CloseThrows(s) \/ Destroy(s)
  PROVE  SocketInv'
<1>1. sflags[s] \cup {"shutdown"} \in SUBSET {"udp", "ipv6", "shutdown"}
  BY DEF SocketInv, SocketTypes
<1>2. CASE CloseEc(s)
  BY <1>1, <1>2, GivenUp DEF CloseEc
<1>3. CASE CloseThrows(s)
  <2>1. handle[s] \in Fds /\ handle[s] \in open \ refused
    BY <1>3, OpenDescriptor DEF CloseThrows, SocketInv, Owns
  <2>2. FreshDescriptor({}) \in Descriptors
    BY FreshType DEF Protos
  <2> QED
    BY <1>1, <1>3, <2>1, <2>2
       DEF CloseThrows, KernelClose, SocketInv, SocketTypes
<1>4. CASE Destroy(s) /\ Closed(s)
  <2>1. handle' = handle
    BY <1>4 DEF Destroy, Closed, SocketInv, SocketTypes
  <2> QED
    BY <1>4, <2>1, FlagsOfClosed DEF Destroy
<1>5. CASE Destroy(s) /\ ~Closed(s)
  BY <1>5, GivenUp DEF Destroy
<1> QED
  BY <1>2, <1>3, <1>4, <1>5

LEMMA SocketsStep == SocketInv /\ [SocketsNext]_sockVars => SocketInv'
<1> SUFFICES ASSUME SocketInv, [SocketsNext]_sockVars PROVE SocketInv'
  OBVIOUS
<1>1. CASE UNCHANGED sockVars
  BY <1>1 DEF sockVars, SocketInv, SocketTypes, Owned, Owns, Closed, Agrees,
     IsShutdown
<1>2. ASSUME ~thrown, NEW l \in Socks, NEW s \in Socks, AcceptFails(l, s)
      PROVE  SocketInv'
  BY <1>2, FlagsOfClosed DEF AcceptFails
<1>3. ASSUME ~thrown, NEW s \in Socks, Bind(s) \/ Listen(s) \/ Connect(s)
      PROVE  SocketInv'
  BY <1>3, StateInv DEF Bind, Listen, Connect, InState, KernelStates
<1>4. CASE SocketsNext
  BY <1>2, <1>3, <1>4, ConstructInv, MoveInv, AcceptInv, ShutdownInv, CloseInv,
     OptionInv DEF SocketsNext, SetOption, SetFdFlag
<1> QED
  BY <1>1, <1>4

(* No descriptor is leaked, shared or closed twice by the socket objects,  *)
(* until a close() throws; accept() is the one exception it names.         *)
THEOREM DescriptorsOwned == SocketsSpec => []SocketsOwnDescriptors
<1>1. SocketsInit => SocketInv
  <2> SUFFICES ASSUME SocketsInit PROVE SocketInv
    OBVIOUS
  <2>1. FreshDescriptor({}) \in Descriptors
    BY FreshType DEF Protos
  <2>2. SocketTypes
    BY <2>1 DEF SocketsInit, SocketTypes
  <2>3. open = {} /\ \A s \in Socks : Closed(s)
    BY DEF SocketsInit, Closed
  <2> QED
    BY <2>2, <2>3 DEF SocketInv, Owns
<1>2. SocketInv => SocketsOwnDescriptors
  <2> SUFFICES ASSUME SocketInv, ~thrown, NEW s \in Socks, ~Closed(s),
                      NEW o \in OptionsUsed
               PROVE  Option(s, o) \/ FdFlag(s, o) <=> o \in want[s]
    BY DEF SocketInv, SocketsOwnDescriptors, Owned, Owns, Agrees
  <2> QED
    BY SocketsAssumption DEF SocketInv, Owns, Agrees, Option, FdFlag
<1> QED
  BY <1>1, <1>2, SocketsStep, PTL DEF SocketsSpec

-----------------------------------------------------------------------------
(* WinBarrier.                                                             *)

PlaceNames == {"outside", "locking", "sleeping", "woken", "left"}

(* The threads inside wait() that have been counted.                       *)
Waiters == {t \in BarrierThreads : place[t] \in {"sleeping", "woken"}}

(* The threads gather: those that have come are counted in incoming ...    *)
Gathering ==
  /\ made /\ last = {} /\ outgoing = 0
  /\ incoming = Cardinality(Waiters)
  /\ incoming < Count
  /\ \A t \in BarrierThreads : place[t] # "left"

(* ... they leave: those still inside are counted in outgoing ...          *)
Leaving ==
  /\ made /\ last = {} /\ incoming = 0
  /\ outgoing = Cardinality(Waiters)
  /\ \A t \in BarrierThreads : place[t] \in {"sleeping", "woken", "left"}
  /\ \E t \in BarrierThreads : place[t] = "woken"
  /\ \E t \in BarrierThreads : place[t] = "left"

(* ... and they are gone, the last one with the task to destroy.           *)
Gone ==
  /\ incoming = 0 /\ outgoing = 0
  /\ \A t \in BarrierThreads : place[t] = "left"
  /\ \E t \in BarrierThreads : last = {t}

BarrierInv ==
  /\ place \in [BarrierThreads -> PlaceNames]
  /\ Gathering \/ Leaving \/ Gone

LEMMA WaitersFinite ==
  /\ IsFiniteSet(BarrierThreads) /\ Count \in Nat
  /\ IsFiniteSet(Waiters) /\ Cardinality(Waiters) \in Nat
  /\ IsFiniteSet(Sleepers) /\ Cardinality(Sleepers) \in Nat
  /\ Cardinality(Sleepers) = 0 => Sleepers = {}
<1>1. Waiters \subseteq BarrierThreads /\ Sleepers \subseteq BarrierThreads
  BY DEF Waiters, Sleepers
<1>2. IsFiniteSet(BarrierThreads)
  BY BarrierAssumption DEF BarrierAssumption
<1>3. IsFiniteSet(Waiters) /\ IsFiniteSet(Sleepers)
  BY <1>1, <1>2, FS_Subset
<1> QED
  BY <1>2, <1>3, FS_CardinalityType, FS_EmptySet DEF Count

(* If signals are sent, one or two, a sleeper is among those they wake.    *)
LEMMA SignalWakes ==
  ASSUME NEW k \in 1 .. 2, NEW S \in Signalled(k), Sleepers # {}
  PROVE  /\ S \subseteq Sleepers
         /\ S # {}
<1>1. S \subseteq Sleepers
      /\ Cardinality(S) = IF k < Cardinality(Sleepers) THEN k ELSE Cardinality(Sleepers)
  BY DEF Signalled
<1>2. Cardinality(S) # 0
  BY <1>1, WaitersFinite
<1> QED
  BY <1>1, <1>2, FS_EmptySet

(* A thread comes, and it is not the last one.                             *)
LEMMA ArriveEarlyInv ==
  ASSUME BarrierInv, NEW t \in BarrierThreads, ArriveEarly(t)
  PROVE  BarrierInv'
<1>1. /\ place' = [place EXCEPT ![t] = "sleeping"] /\ place[t] = "locking"
      /\ incoming' = incoming + 1 /\ incoming + 1 # Count
      /\ UNCHANGED <<made, last, outgoing>>
  BY DEF ArriveEarly
<1>2. Gathering
  BY <1>1 DEF BarrierInv, Leaving, Gone
<1>3. Waiters' = Waiters \cup {t} /\ t \notin Waiters
  BY <1>1 DEF BarrierInv, Waiters
<1>4. Cardinality(Waiters') = Cardinality(Waiters) + 1
  BY <1>3, WaitersFinite, FS_AddElement
<1>5. incoming' = Cardinality(Waiters') /\ incoming' < Count
  BY <1>1, <1>2, <1>4, WaitersFinite DEF Gathering
<1>6. place' \in [BarrierThreads -> PlaceNames]
      /\ \A u \in BarrierThreads : place'[u] # "left"
  BY <1>1, <1>2 DEF BarrierInv, Gathering, PlaceNames
<1>7. Count' = Count
  BY DEF Count
<1> QED
  BY <1>1, <1>2, <1>5, <1>6, <1>7 DEF BarrierInv, Gathering

(* What a thread that leaves makes of the others.                          *)
LEMMA LeaveInv ==
  ASSUME NEW t \in BarrierThreads, NEW S \in SUBSET Sleepers,
         place \in [BarrierThreads -> PlaceNames], place[t] # "sleeping",
         \A u \in BarrierThreads \ {t} : place[u] \in {"sleeping", "woken", "left"},
         Waiters \ {t} # {} => \/ S # {}
                               \/ \E u \in BarrierThreads \ {t} : place[u] = "woken",
         LeaveWith(t, Cardinality(Waiters \ {t}) + 1, S),
         made, last = {}, UNCHANGED made, incoming' = 0
  PROVE  BarrierInv'
<1>1. place' \in [BarrierThreads -> PlaceNames]
      /\ \A u \in BarrierThreads : place'[u] \in {"sleeping", "woken", "left"}
      /\ place'[t] = "left"
  BY DEF LeaveWith, PlaceNames
<1>2. Waiters' = Waiters \ {t}
  BY DEF LeaveWith, Waiters, Sleepers
<1>3. Cardinality(Waiters \ {t}) \in Nat
      /\ (Cardinality(Waiters \ {t}) = 0 <=> Waiters \ {t} = {})
  BY WaitersFinite, FS_RemoveElement, FS_CardinalityType, FS_EmptySet
<1>4. outgoing' = Cardinality(Waiters')
  BY <1>2, <1>3 DEF LeaveWith
<1>5. CASE Waiters \ {t} = {}
  <2>1. last' = {t} /\ outgoing' = 0
    BY <1>2, <1>3, <1>4, <1>5 DEF LeaveWith
  <2>2. \A u \in BarrierThreads : place'[u] = "left"
    BY <1>1, <1>2, <1>5 DEF Waiters
  <2> QED
    BY <1>1, <2>1, <2>2 DEF BarrierInv, Gone
<1>6. CASE Waiters \ {t} # {}
  <2>1. last' = {}
    BY <1>3, <1>6 DEF LeaveWith
  <2>2. \E u \in BarrierThreads : place'[u] = "woken"
    BY <1>6 DEF LeaveWith, Sleepers
  <2>3. made'
    BY Zenon
  <2>4. Leaving'
    BY <1>1, <1>4, <2>1, <2>2, <2>3 DEF Leaving
  <2> QED
    BY <1>1, <2>4 DEF BarrierInv
<1> QED
  BY <1>5, <1>6

(* When all but one are counted, the others are.                           *)
LEMMA OthersCounted ==
  ASSUME Gathering, NEW t \in BarrierThreads, place[t] = "locking",
         incoming + 1 = Count
  PROVE  t \notin Waiters /\ Waiters \cup {t} = BarrierThreads
<1>1. t \notin Waiters /\ Waiters \subseteq BarrierThreads
  BY DEF Waiters
<1>2. Cardinality(Waiters \cup {t}) = Cardinality(BarrierThreads)
  BY <1>1, WaitersFinite, FS_AddElement DEF Gathering, Count
<1> QED
  BY <1>1, <1>2, WaitersFinite, FS_Subset

(* The last thread comes: everybody else is counted.                       *)
LEMMA ArriveLastInv ==
  ASSUME BarrierInv, NEW t \in BarrierThreads, ArriveLast(t)
  PROVE  BarrierInv'
<1>1. place[t] = "locking" /\ incoming + 1 = Count /\ incoming' = 0 /\ UNCHANGED made
  BY DEF ArriveLast
<1>2. Gathering
  BY <1>1 DEF BarrierInv, Leaving, Gone
<1>3. t \notin Waiters /\ Waiters \ {t} = Waiters /\ Waiters \subseteq BarrierThreads
  BY <1>1 DEF Waiters
<1>4. Waiters \cup {t} = BarrierThreads
  BY <1>1, <1>2, OthersCounted
<1>5. PICK S \in Signalled(IF Count = 1 THEN 1 ELSE 2) : LeaveWith(t, Count, S)
  BY DEF ArriveLast
<1>6. S \in SUBSET Sleepers
  BY <1>5 DEF Signalled
<1>7. Waiters # {} => S # {} \/ \E u \in BarrierThreads \ {t} : place[u] = "woken"
  <2>1. Waiters # {} => Sleepers # {} \/ \E u \in BarrierThreads \ {t} : place[u] = "woken"
    BY <1>3 DEF Waiters, Sleepers
  <2>2. (IF Count = 1 THEN 1 ELSE 2) \in 1 .. 2
    OBVIOUS
  <2>3. Sleepers # {} => S # {}
    BY <1>5, <2>2, SignalWakes
  <2> QED
    BY <2>1, <2>3
<1>8. Count = Cardinality(Waiters \ {t}) + 1
  BY <1>1, <1>2, <1>3 DEF Gathering
<1>9. LeaveWith(t, Cardinality(Waiters \ {t}) + 1, S)
  BY <1>5, <1>8
<1>10. \A u \in BarrierThreads \ {t} : place[u] \in {"sleeping", "woken", "left"}
  BY <1>4 DEF Waiters
<1> QED
  BY <1>1, <1>2, <1>3, <1>6, <1>7, <1>9, <1>10, LeaveInv
     DEF BarrierInv, Gathering

(* The barrier is open and a thread that was woken leaves.                 *)
LEMMA LeaveOpenInv ==
  ASSUME BarrierInv, NEW t \in BarrierThreads, LeaveOpen(t)
  PROVE  BarrierInv'
<1>1. place[t] = "woken" /\ incoming = 0 /\ UNCHANGED <<made, incoming>>
  BY DEF LeaveOpen
<1>2. t \in Waiters
  BY <1>1 DEF Waiters
<1>3. Leaving
  <2>1. Cardinality(Waiters) # 0
    BY <1>2, WaitersFinite, FS_EmptySet
  <2> QED
    BY <1>1, <2>1 DEF BarrierInv, Gathering, Gone
<1>4. PICK S \in Signalled(IF outgoing = 1 THEN 0 ELSE 1) : LeaveWith(t, outgoing, S)
  BY DEF LeaveOpen
<1>5. S \in SUBSET Sleepers
  BY <1>4 DEF Signalled
<1>6. /\ Cardinality(Waiters \ {t}) = outgoing - 1
      /\ outgoing \in Nat
      /\ IsFiniteSet(Waiters \ {t})
  BY <1>2, <1>3, WaitersFinite, FS_RemoveElement DEF Leaving
<1>7. Waiters \ {t} # {} => S # {} \/ \E u \in BarrierThreads \ {t} : place[u] = "woken"
  <2> SUFFICES ASSUME Waiters \ {t} # {},
                      \A u \in BarrierThreads \ {t} : place[u] # "woken"
               PROVE  S # {}
    OBVIOUS
  <2>1. Sleepers # {}
    BY DEF Waiters, Sleepers
  <2>2. outgoing # 1
    BY <1>6, FS_EmptySet
  <2> QED
    BY <1>4, <2>1, <2>2, SignalWakes
<1>8. LeaveWith(t, Cardinality(Waiters \ {t}) + 1, S)
  BY <1>4, <1>6
<1> QED
  BY <1>1, <1>3, <1>5, <1>7, <1>8, LeaveInv DEF BarrierInv, Leaving

LEMMA WinBarrierStep ==
  ASSUME BarrierThreads # {}
  PROVE  BarrierInv /\ [WinBarrierNext]_barrierVars => BarrierInv'
<1> SUFFICES ASSUME BarrierInv, [WinBarrierNext]_barrierVars PROVE BarrierInv'
  OBVIOUS
<1>1. ASSUME Waiters' = Waiters, UNCHANGED <<made, last, incoming, outgoing>>,
             place' \in [BarrierThreads -> PlaceNames],
             \A t \in BarrierThreads : (place[t] = "left") <=> (place'[t] = "left"),
             Leaving => /\ \E t \in BarrierThreads : place'[t] = "woken"
                        /\ \A t \in BarrierThreads : place'[t] \in {"sleeping", "woken", "left"}
      PROVE  BarrierInv'
  BY <1>1 DEF BarrierInv, Gathering, Leaving, Gone, Waiters, Count
<1>2. ASSUME NEW t \in BarrierThreads, EnterWait(t) PROVE BarrierInv'
  <2>1. place' \in [BarrierThreads -> PlaceNames] /\ Waiters' = Waiters
    BY <1>2 DEF EnterWait, BarrierInv, PlaceNames, Waiters
  <2> QED
    BY <1>1, <1>2, <2>1 DEF EnterWait, BarrierInv, Leaving
<1>3. ASSUME NEW t \in BarrierThreads, WakeSpuriously(t) PROVE BarrierInv'
  <2>1. place' \in [BarrierThreads -> PlaceNames] /\ Waiters' = Waiters
    BY <1>3 DEF WakeSpuriously, BarrierInv, PlaceNames, Waiters
  <2> QED
    BY <1>1, <1>3, <2>1 DEF WakeSpuriously, BarrierInv, Leaving
<1>4. ASSUME NEW t \in BarrierThreads, SleepAgain(t) PROVE BarrierInv'
  <2>1. place' \in [BarrierThreads -> PlaceNames] /\ Waiters' = Waiters
    BY <1>4 DEF SleepAgain, BarrierInv, PlaceNames, Waiters
  <2> QED
    BY <1>1, <1>4, <2>1 DEF SleepAgain, BarrierInv, Leaving
<1>5. ASSUME NEW t \in BarrierThreads, DestroyBarrier(t) PROVE BarrierInv'
  <2>1. Gone
    BY <1>5 DEF DestroyBarrier, BarrierInv, Gathering, Leaving
  <2> QED
    BY <1>5, <2>1 DEF DestroyBarrier, BarrierInv, Gone
<1>6. CASE MakeAgain
  <2>1. place' \in [BarrierThreads -> PlaceNames] /\ Waiters' = {}
        /\ \A t \in BarrierThreads : place'[t] = "outside"
    BY <1>6 DEF MakeAgain, PlaceNames, Waiters
  <2>2. Count # 0
    BY WaitersFinite, FS_EmptySet DEF Count
  <2>3. Cardinality(Waiters') = 0 /\ 0 < Count /\ Count' = Count
    BY <2>1, <2>2, WaitersFinite, FS_EmptySet DEF Count
  <2> QED
    BY <1>6, <2>1, <2>3 DEF MakeAgain, BarrierInv, Gathering
<1>7. CASE UNCHANGED barrierVars
  BY <1>7 DEF barrierVars, BarrierInv, Gathering, Leaving, Gone, Waiters, Count
<1> QED
  BY <1>2, <1>3, <1>4, <1>5, <1>6, <1>7, ArriveEarlyInv, ArriveLastInv,
     LeaveOpenInv
     DEF WinBarrierNext

LEMMA WinBarrierInvariant ==
  ASSUME BarrierThreads # {}
  PROVE  WinBarrierSpec => []BarrierInv
<1>1. WinBarrierInit => BarrierInv
  <2> SUFFICES ASSUME WinBarrierInit PROVE BarrierInv
    OBVIOUS
  <2>1. place \in [BarrierThreads -> PlaceNames] /\ Waiters = {}
        /\ \A t \in BarrierThreads : place[t] = "outside"
    BY DEF WinBarrierInit, PlaceNames, Waiters
  <2>2. Count # 0
    BY WaitersFinite, FS_EmptySet DEF Count
  <2>3. Cardinality(Waiters) = 0 /\ 0 < Count
    BY <2>1, <2>2, WaitersFinite, FS_EmptySet
  <2> QED
    BY <2>1, <2>3 DEF WinBarrierInit, BarrierInv, Gathering
<1>2. BarrierInv /\ [WinBarrierNext]_barrierVars => BarrierInv'
  BY WinBarrierStep
<1> QED
  BY <1>1, <1>2, PTL DEF WinBarrierSpec

(* For any number of threads, whichever the signals wake, all meet, one is *)
(* told to destroy the barrier, none sleeps with nobody left to come, and  *)
(* no wakeup is missing on the way out.                                    *)
THEOREM ThreadsMeet ==
  ASSUME BarrierThreads # {}
  PROVE  WinBarrierSpec => []BarrierMeets
<1>1. BarrierInv => BarrierMeets
  <2> SUFFICES ASSUME BarrierInv PROVE BarrierMeets
    OBVIOUS
  <2>1. CASE Gathering
    <3>1. Cardinality(last) = 0
      BY <2>1, FS_EmptySet DEF Gathering
    <3>2. \E t \in BarrierThreads : place[t] \in {"outside", "locking"}
      <4>1. Waiters # BarrierThreads
        BY <2>1, WaitersFinite DEF Gathering, Count
      <4>2. PICK t \in BarrierThreads : place[t] \notin {"sleeping", "woken"}
        BY <4>1 DEF Waiters
      <4>3. place[t] \in PlaceNames /\ place[t] # "left"
        BY <2>1 DEF BarrierInv, Gathering
      <4> QED
        BY <4>2, <4>3 DEF PlaceNames
    <3> QED
      BY <2>1, <3>1, <3>2 DEF Gathering, BarrierMeets
  <2>2. CASE Leaving
    <3>1. Cardinality(last) = 0
      BY <2>2, FS_EmptySet DEF Leaving
    <3>2. outgoing # 0
      <4>1. Waiters # {}
        BY <2>2 DEF Leaving, Waiters
      <4> QED
        BY <2>2, <4>1, WaitersFinite, FS_EmptySet DEF Leaving
    <3> QED
      BY <2>2, <3>1, <3>2 DEF Leaving, BarrierMeets
  <2>3. CASE Gone
    <3>1. Cardinality(last) = 1
      BY <2>3, FS_Singleton DEF Gone
    <3> QED
      BY <2>3, <3>1 DEF Gone, BarrierMeets
  <2> QED
    BY <2>1, <2>2, <2>3 DEF BarrierInv
<1> QED
  BY <1>1, WinBarrierInvariant, PTL

(* What LeaveWith looks like from outside: t goes, and is told if it is    *)
(* the last one.                                                           *)
LEMMA LeavingIsGoing ==
  ASSUME NEW t \in BarrierThreads, NEW S \in SUBSET Sleepers, NEW n,
         place \in [BarrierThreads -> PlaceNames],
         place[t] \in {"locking", "woken"},
         \A u \in BarrierThreads \ {t} : place[u] \in {"sleeping", "woken", "left"},
         n = 1 <=> \A u \in BarrierThreads \ {t} : place[u] = "left",
         LeaveWith(t, n, S), last = {}, UNCHANGED <<made, rounds>>
  PROVE  Meeting!Go(t)
<1> DEFINE W == [u \in BarrierThreads |-> Standing(u)]
<1>1. /\ place'[t] = "left"
      /\ \A u \in BarrierThreads \ {t} :
           place'[u] = IF u \in S THEN "woken" ELSE place[u]
  BY DEF LeaveWith
<1>2. ASSUME NEW u \in BarrierThreads \ {t} PROVE Standing(u)' = Standing(u)
  <2>1. CASE u \in S
    BY <1>1, <2>1 DEF Standing, Sleepers
  <2>2. CASE u \notin S
    BY <1>1, <2>2 DEF Standing
  <2> QED
    BY <2>1, <2>2
<1>3. Standing(t) = "inside" /\ Standing(t)' = "left"
  BY <1>1 DEF Standing
<1>4. ASSUME NEW u \in BarrierThreads
      PROVE  W[u] # "outside" /\ (W[u] = "left" <=> place[u] = "left")
  BY DEF Standing
<1>5. W' = [W EXCEPT ![t] = "left"]
  BY <1>2, <1>3
<1>6. last' = IF \A u \in BarrierThreads \ {t} : W[u] = "left" THEN {t} ELSE {}
  BY <1>4 DEF LeaveWith
<1>7. W[t] = "inside"
  BY <1>3
<1> QED
  BY <1>4, <1>5, <1>6, <1>7 DEF Meeting!Go

(* The last thread comes and goes: everybody else is inside and has been   *)
(* counted.                                                                *)
LEMMA LastComerGoes ==
  ASSUME BarrierInv, NEW t \in BarrierThreads, ArriveLast(t)
  PROVE  Meeting!Go(t)
<1>1. place[t] = "locking" /\ incoming + 1 = Count /\ UNCHANGED <<made, rounds>>
  BY DEF ArriveLast
<1>2. Gathering
  BY <1>1 DEF BarrierInv, Leaving, Gone
<1>3. PICK S \in Signalled(IF Count = 1 THEN 1 ELSE 2) : LeaveWith(t, Count, S)
  BY DEF ArriveLast
<1>4. \A u \in BarrierThreads \ {t} : place[u] \in {"sleeping", "woken"}
  BY <1>1, <1>2, OthersCounted DEF Waiters
<1>5. Count = 1 <=> BarrierThreads \ {t} = {}
  <2>1. Count = 1 <=> Waiters = {}
    BY <1>1, <1>2, WaitersFinite, FS_EmptySet DEF Gathering
  <2> QED
    BY <1>1, <1>4, <2>1 DEF Waiters
<1>6. Count = 1 <=> \A u \in BarrierThreads \ {t} : place[u] = "left"
  BY <1>4, <1>5
<1>7. S \in SUBSET Sleepers
  BY <1>3 DEF Signalled
<1> QED
  BY <1>1, <1>2, <1>3, <1>4, <1>6, <1>7, LeavingIsGoing DEF BarrierInv, Gathering

(* A thread goes out of the open barrier.                                  *)
LEMMA WokenOneGoes ==
  ASSUME BarrierInv, NEW t \in BarrierThreads, LeaveOpen(t)
  PROVE  Meeting!Go(t)
<1>1. place[t] = "woken" /\ incoming = 0 /\ UNCHANGED <<made, rounds>>
  BY DEF LeaveOpen
<1>2. t \in Waiters
  BY <1>1 DEF Waiters
<1>3. Leaving
  <2>1. Cardinality(Waiters) # 0
    BY <1>2, WaitersFinite, FS_EmptySet
  <2> QED
    BY <1>1, <2>1 DEF BarrierInv, Gathering, Gone
<1>4. PICK S \in Signalled(IF outgoing = 1 THEN 0 ELSE 1) : LeaveWith(t, outgoing, S)
  BY DEF LeaveOpen
<1>5. outgoing = 1 <=> Waiters \ {t} = {}
  <2>1. Cardinality(Waiters \ {t}) = outgoing - 1 /\ outgoing \in Nat
    BY <1>2, <1>3, WaitersFinite, FS_RemoveElement DEF Leaving
  <2>2. IsFiniteSet(Waiters \ {t})
    BY WaitersFinite, FS_RemoveElement
  <2>3. Cardinality(Waiters \ {t}) = 0 <=> Waiters \ {t} = {}
    BY <2>2, FS_EmptySet
  <2> QED
    BY <2>1, <2>3
<1>6. outgoing = 1 <=> \A u \in BarrierThreads \ {t} : place[u] = "left"
  BY <1>3, <1>5 DEF Waiters, Leaving
<1>7. S \in SUBSET Sleepers
  BY <1>4 DEF Signalled
<1> QED
  BY <1>1, <1>3, <1>4, <1>6, <1>7, LeavingIsGoing DEF BarrierInv, Leaving

LEMMA MeetingStep ==
  BarrierInv /\ [WinBarrierNext]_barrierVars => [Meeting!Next]_(Meeting!vars)
<1> SUFFICES ASSUME BarrierInv, [WinBarrierNext]_barrierVars
             PROVE  [Meeting!Next]_(Meeting!vars)
  OBVIOUS
<1> DEFINE W == [u \in BarrierThreads |-> Standing(u)]
<1>1. ASSUME UNCHANGED <<made, last, rounds>>,
             \A u \in BarrierThreads : Standing(u)' = Standing(u)
      PROVE  UNCHANGED Meeting!vars
  BY <1>1 DEF Meeting!vars
<1>2. ASSUME NEW t \in BarrierThreads, EnterWait(t) PROVE Meeting!Come(t)
  <2>1. W' = [W EXCEPT ![t] = "inside"]
    BY <1>2 DEF EnterWait, BarrierInv, Standing
  <2>2. W[t] = "outside"
    BY <1>2 DEF EnterWait, Standing
  <2> QED
    BY <1>2, <2>1, <2>2 DEF EnterWait, Meeting!Come
<1>3. ASSUME NEW t \in BarrierThreads,
             ArriveEarly(t) \/ WakeSpuriously(t) \/ SleepAgain(t)
      PROVE  UNCHANGED Meeting!vars
  <2>1. /\ place[t] \in {"locking", "sleeping", "woken"}
        /\ place'[t] \in {"sleeping", "woken"}
        /\ \A u \in BarrierThreads \ {t} : place'[u] = place[u]
        /\ UNCHANGED <<made, last, rounds>>
    BY <1>3 DEF ArriveEarly, WakeSpuriously, SleepAgain, BarrierInv
  <2>2. \A u \in BarrierThreads : Standing(u)' = Standing(u)
    BY <2>1 DEF Standing
  <2> QED
    BY <1>1, <2>1, <2>2
<1>4. ASSUME NEW t \in BarrierThreads, DestroyBarrier(t) PROVE Meeting!Destroy(t)
  <2>1. Gone
    BY <1>4 DEF DestroyBarrier, BarrierInv, Gathering, Leaving
  <2>2. last = {t} /\ \A u \in BarrierThreads : Standing(u) = "left"
    BY <1>4, <2>1 DEF DestroyBarrier, Gone, Standing
  <2>3. \A u \in BarrierThreads : Standing(u)' = Standing(u)
    BY <1>4 DEF DestroyBarrier, Standing
  <2> QED
    BY <1>4, <2>2, <2>3 DEF DestroyBarrier, Meeting!Destroy
<1>5. ASSUME MakeAgain PROVE Meeting!MakeAgain
  <2>1. \A u \in BarrierThreads : Standing(u)' = "outside"
    BY <1>5 DEF MakeAgain, Standing
  <2>2. W' = [u \in BarrierThreads |-> "outside"]
    BY <2>1
  <2> QED
    BY <1>5, <2>2 DEF MakeAgain, Meeting!MakeAgain
<1>6. CASE UNCHANGED barrierVars
  BY <1>1, <1>6 DEF barrierVars, Standing
<1> QED
  BY <1>2, <1>3, <1>4, <1>5, <1>6, LastComerGoes, WokenOneGoes
     DEF WinBarrierNext, Meeting!Next

(* Whichever threads the signals wake, and whatever wakes up by itself, a  *)
(* win_barrier does what a barrier of any number of threads promises.      *)
THEOREM BarrierIsRendezvous ==
  ASSUME BarrierThreads # {}
  PROVE  WinBarrierSpec => MeetingSpec
<1>1. WinBarrierInit => Meeting!Init
  BY DEF WinBarrierInit, Meeting!Init, Standing
<1> QED
  BY <1>1, MeetingStep, WinBarrierInvariant, PTL
     DEF WinBarrierSpec, MeetingSpec, Meeting!Spec

-----------------------------------------------------------------------------
(* Listener.                                                               *)

LEMMA StrandedStep ==
  NoStrandedConnection /\ [ListenerNext]_listenerVars => NoStrandedConnection'
<1> SUFFICES ASSUME NoStrandedConnection, [ListenerNext]_listenerVars
             PROVE  NoStrandedConnection'
  OBVIOUS
<1> USE DEF NoStrandedConnection
<1>1. CASE PeerConnects
  BY <1>1 DEF PeerConnects
<1>2. CASE CloseSession
  BY <1>2 DEF CloseSession
<1>3. CASE Dispatch \/ OnRead \/ While
  BY <1>3 DEF Dispatch, OnRead, While
<1>4. CASE Accepted \/ OutOfFiles \/ CloseSpare \/ SpareAccept
  BY <1>4 DEF Accepted, OutOfFiles, CloseSpare, SpareAccept
<1>5. CASE WouldBlock
  BY <1>5 DEF WouldBlock
<1>6. CASE Aborted \/ UnknownFamily \/ Interrupted
  BY <1>6 DEF Aborted, UnknownFamily, Interrupted
<1>7. CASE HandlerReturns \/ HandlerCloses
  BY <1>7 DEF HandlerReturns, HandlerCloses
<1>8. CASE UNCHANGED listenerVars
  BY <1>8 DEF listenerVars
<1> QED
  BY <1>1, <1>2, <1>3, <1>4, <1>5, <1>6, <1>7, <1>8 DEF ListenerNext, LoopStep

(* With any limit on the open files and any number of peers and signals,   *)
(* on_read() never leaves a connection behind that no edge will announce.  *)
THEOREM NoConnectionStranded == ListenerSpec => []NoStrandedConnection
<1>1. ListenerInit => NoStrandedConnection
  BY DEF ListenerInit, NoStrandedConnection
<1> QED
  BY <1>1, StrandedStep, PTL DEF ListenerSpec

-----------------------------------------------------------------------------
(* Times.                                                                  *)

(* The seconds and what is left of them make up the whole, and have the    *)
(* sign of the whole.                                                      *)
LEMMA Parts ==
  ASSUME NEW ms \in Int
  PROVE  /\ Quot(ms, 1000) \in Int /\ Rem(ms, 1000) \in Int
         /\ ms = 1000 * Quot(ms, 1000) + Rem(ms, 1000)
         /\ ms >= 0 => Quot(ms, 1000) >= 0 /\ Rem(ms, 1000) \in 0 .. 999
         /\ ms <= 0 => Quot(ms, 1000) <= 0 /\ -Rem(ms, 1000) \in 0 .. 999
BY SMTT(30) DEF Quot, Rem

LEMMA QuotOfMultiple ==
  /\ \A r \in Int : Quot(1000000 * r, 1000000) = r
  /\ \A r \in Int : Quot(1000 * r, 1000) = r
BY SMT DEF Quot

(* The conversions to timespec and timeval and back lose nothing, for      *)
(* times before the epoch too.                                             *)
THEOREM ConversionsRoundTrip ==
  \A ms \in Int : FromTimespec(ToTimespec(ms)) = ms /\ FromTimeval(ToTimeval(ms)) = ms
<1> TAKE ms \in Int
<1>1. FromTimespec(ToTimespec(ms)) = Quot(ms, 1000) * 1000 + Rem(ms, 1000)
  BY SMT, Parts, QuotOfMultiple DEF FromTimespec, ToTimespec
<1>2. FromTimeval(ToTimeval(ms)) = Quot(ms, 1000) * 1000 + Rem(ms, 1000)
  BY SMT, Parts, QuotOfMultiple DEF FromTimeval, ToTimeval
<1> QED
  BY SMT, <1>1, <1>2, Parts

(* What timed_wait() passes to the system is a time it takes (nanoseconds  *)
(* in range), not later than asked, and earlier by less than a millisecond.*)
THEOREM DeadlineInTime ==
  ASSUME NEW s \in Nat, NEW ns \in Nat, ns < 1000000000, NEW ms \in Nat
  PROVE  LET d == Deadline([sec |-> s, nsec |-> ns], ms)
             asked == ns + 1000000 * ms
             given == d.nsec + 1000000000 * (d.sec - s)
         IN  /\ d.sec \in Nat /\ d.nsec \in Nat /\ d.nsec < 1000000000
             /\ given <= asked /\ asked < given + 1000000
<1> DEFINE part == Quot(ns, 1000000)
           whole == s * 1000 + part + ms
           sec == Quot(whole, 1000)
           rest == Rem(whole, 1000)
<1>1. /\ part \in Nat
      /\ 1000000 * part <= ns /\ ns < 1000000 * part + 1000000
  BY SMT DEF Quot
<1>2. whole \in Nat
  <2> HIDE DEF part
  <2> QED
    BY SMT, <1>1
<1>3. sec \in Nat /\ rest \in 0 .. 999 /\ whole = 1000 * sec + rest
  <2> HIDE DEF whole
  <2> QED
    BY SMT, <1>2, Parts
<1>4. Deadline([sec |-> s, nsec |-> ns], ms) = [sec |-> sec, nsec |-> 1000000 * rest]
  BY SMT DEF Deadline, ToTimespec, Sum, FromTimespec
<1>5. whole = s * 1000 + part + ms
  OBVIOUS
<1> HIDE DEF part, whole, sec, rest
<1>6. 1000000 * rest + 1000000000 * (sec - s) = 1000000 * part + 1000000 * ms
  BY SMT, <1>1, <1>3, <1>5
<1>7. 1000000 * rest \in Nat /\ 1000000 * rest < 1000000000
  BY SMT, <1>3
<1> QED
  BY SMT, <1>1, <1>3, <1>4, <1>6, <1>7

(* A timeout has passed if and only if nothing of it remains, and after    *)
(* that long, not earlier, it has passed.                                  *)
THEOREM RemainingIsExact ==
  ASSUME NEW t \in [next : Int, interval : Int], NEW moment \in Int
  PROVE  /\ TimedOut(t, moment) <=> Remaining(t, moment) = 0
         /\ \A d \in Nat : TimedOut(t, moment + d) <=> d >= Remaining(t, moment)
BY SMT DEF TimedOut, Remaining, AtLeast, Diff

-----------------------------------------------------------------------------
(* ObjMgr: the four invariants hold each other up.  The counters decide    *)
(* which branch an operation takes, and the links say which node it moves. *)

ManagerInv == TypeOK /\ NodesApart /\ CountsRight /\ LinksMatch

(* Two finite sets without a common element count together.                *)
LEMMA DisjointUnion ==
  ASSUME NEW S, NEW T, IsFiniteSet(S), IsFiniteSet(T), S \cap T = {}
  PROVE  /\ IsFiniteSet(S \cup T)
         /\ Cardinality(S \cup T) = Cardinality(S) + Cardinality(T)
<1>1. /\ IsFiniteSet(S \cup T)
      /\ Cardinality(S \cup T) = Cardinality(S) + Cardinality(T) - Cardinality({})
  BY FS_Union
<1>2. Cardinality({}) = 0 /\ Cardinality(S) \in Nat /\ Cardinality(T) \in Nat
  BY FS_EmptySet, FS_CardinalityType
<1> QED BY <1>1, <1>2

(* auto_fix() keeps a natural number of the free nodes.                    *)
LEMMA KeptType ==
  ASSUME NEW k \in Nat, NEW used \in Nat
  PROVE  Kept(k, used) \in Nat
BY ObjMgrAssumption DEF Kept

LEMMA ManagerStarts == Init => ManagerInv
<1> SUFFICES ASSUME Init PROVE ManagerInv
  OBVIOUS
<1>1. ptr \in [Nodes -> Objects \cup {Null}] /\ node \in [Objects -> Nodes \cup {Null, Stray}]
  BY Zenon DEF Init
<1>2. TypeOK
  BY <1>1, ObjMgrAssumption DEF Init, TypeOK
<1>3. NodesApart
  BY DEF Init, NodesApart
<1>4. CountsRight
  BY FS_EmptySet DEF Init, CountsRight
<1>5. \A n \in Nodes : ptr[n] = Null
  BY Zenon DEF Init
<1>6. \A o \in Objects : node[o] = Stray
  BY Zenon DEF Init
<1>7. LinksMatch
  BY <1>5, <1>6 DEF Init, LinksMatch
<1> QED BY <1>2, <1>3, <1>4, <1>7 DEF ManagerInv

(* An object takes node n, which is not a used one.                        *)
LEMMA LinkNode ==
  ASSUME ManagerInv, NEW o \in Objects, ~Exists(o), NEW n \in Nodes \ list,
         list' = list \cup {n},
         ptr' = [ptr EXCEPT ![n] = o],
         node' = [node EXCEPT ![o] = n],
         size' = size + 1
  PROVE  /\ list' \in SUBSET Nodes
         /\ ptr' \in [Nodes -> Objects \cup {Null}]
         /\ node' \in [Objects -> Nodes \cup {Null, Stray}]
         /\ size' \in Nat
         /\ IsFiniteSet(list') /\ size' = Cardinality(list')
         /\ LinksMatch'
<1> USE DEF ManagerInv
<1>1. list' \in SUBSET Nodes /\ size' \in Nat
  BY DEF TypeOK
<1>2. ptr' \in [Nodes -> Objects \cup {Null}]
  BY DEF TypeOK
<1>3. node' \in [Objects -> Nodes \cup {Null, Stray}]
  BY DEF TypeOK
<1>4. IsFiniteSet(list') /\ size' = Cardinality(list')
  BY FS_AddElement DEF CountsRight
<1>5. ptr'[n] = o /\ node'[o] = n
  BY DEF TypeOK
<1>6. \A m \in Nodes : m # n => ptr'[m] = ptr[m]
  BY DEF TypeOK
<1>7. \A p \in Objects : p # o => node'[p] = node[p]
  BY DEF TypeOK
<1>8. \A m \in list : ptr[m] # o
  BY DEF LinksMatch, Exists
<1>9. LinksMatch'
  <2>1. \A m \in list' : ptr'[m] \in Objects /\ node'[ptr'[m]] = m
    BY <1>5, <1>6, <1>7, <1>8 DEF LinksMatch, TypeOK
  <2>2. \A m \in Nodes \ list' : ptr'[m] = Null
    BY <1>6 DEF LinksMatch
  <2>3. ASSUME NEW p \in Objects
        PROVE  node'[p] \in {Null, Stray} \/ (node'[p] \in list' /\ ptr'[node'[p]] = p)
    <3>1. CASE p = o
      BY <3>1, <1>5
    <3>2. CASE p # o
      BY <3>2, <1>6, <1>7, <1>1 DEF LinksMatch, TypeOK
    <3> QED BY <3>1, <3>2
  <2> QED BY <2>1, <2>2, <2>3 DEF LinksMatch
<1> QED BY <1>1, <1>2, <1>3, <1>4, <1>9

LEMMA InsertReusedInv ==
  ASSUME ManagerInv, NEW o \in Objects, InsertReused(o)
  PROVE  ManagerInv'
<1>1. PICK n \in free :
        /\ list' = list \cup {n}
        /\ free' = free \ {n}
        /\ ptr' = [ptr EXCEPT ![n] = o]
        /\ node' = [node EXCEPT ![o] = n]
  BY DEF InsertReused
<1>2. n \in Nodes \ list /\ ~Exists(o) /\ size' = size + 1 /\ sizeFree' = sizeFree - 1
  BY DEF InsertReused, ManagerInv, TypeOK, NodesApart
<1>3. /\ list' \in SUBSET Nodes
      /\ ptr' \in [Nodes -> Objects \cup {Null}]
      /\ node' \in [Objects -> Nodes \cup {Null, Stray}]
      /\ size' \in Nat
      /\ IsFiniteSet(list') /\ size' = Cardinality(list')
      /\ LinksMatch'
  BY <1>1, <1>2, LinkNode
<1>4. IsFiniteSet(free') /\ sizeFree' = Cardinality(free')
  BY <1>1, <1>2, FS_RemoveElement DEF ManagerInv, CountsRight
<1>5. sizeFree' \in Nat
  BY <1>4, FS_CardinalityType
<1>6. free' \in SUBSET Nodes /\ NodesApart'
  BY <1>1 DEF ManagerInv, TypeOK, NodesApart
<1> QED BY <1>3, <1>4, <1>5, <1>6 DEF ManagerInv, TypeOK, CountsRight

LEMMA InsertMadeInv ==
  ASSUME ManagerInv, NEW o \in Objects, InsertMade(o)
  PROVE  ManagerInv'
<1>1. PICK S \in SUBSET Nodes, n \in Nodes \ (list \cup free) :
        /\ Fresh(S, size)
        /\ n \notin S
        /\ list' = list \cup {n}
        /\ free' = free \cup S
        /\ ptr' = [ptr EXCEPT ![n] = o]
        /\ node' = [node EXCEPT ![o] = n]
  BY DEF InsertMade
<1>2. n \in Nodes \ list /\ ~Exists(o) /\ size' = size + 1 /\ sizeFree' = size /\ sizeFree = 0
  BY DEF InsertMade
<1>3. /\ list' \in SUBSET Nodes
      /\ ptr' \in [Nodes -> Objects \cup {Null}]
      /\ node' \in [Objects -> Nodes \cup {Null, Stray}]
      /\ size' \in Nat
      /\ IsFiniteSet(list') /\ size' = Cardinality(list')
      /\ LinksMatch'
  BY <1>1, <1>2, LinkNode
<1>4. free = {}
  BY <1>2, FS_EmptySet DEF ManagerInv, CountsRight
<1>5. free' = S /\ IsFiniteSet(S) /\ Cardinality(S) = size /\ S \cap list = {}
  BY <1>1, <1>4 DEF Fresh
<1>6. IsFiniteSet(free') /\ sizeFree' = Cardinality(free') /\ sizeFree' \in Nat
  BY <1>2, <1>5 DEF ManagerInv, TypeOK
<1>7. free' \in SUBSET Nodes /\ NodesApart'
  BY <1>1, <1>5 DEF NodesApart
<1> QED BY <1>3, <1>6, <1>7 DEF ManagerInv, TypeOK, CountsRight

LEMMA RemoveInv ==
  ASSUME ManagerInv, NEW o \in Objects, Remove(o)
  PROVE  ManagerInv'
<1> DEFINE m == node[o]
<1>1. m \in list /\ ptr[m] = o /\ m \in Nodes /\ m \notin free
  BY ObjMgrAssumption DEF Remove, Exists, ManagerInv, LinksMatch, TypeOK, NodesApart
<1>2. PICK S \in SUBSET (free \cup {m}) :
        IsFiniteSet(S) /\ Cardinality(S) = sizeFree' /\ free' = S
  BY DEF Remove
<1>3. /\ list' = list \ {m}
      /\ size' = size - 1
      /\ ptr' = [ptr EXCEPT ![m] = Null]
      /\ node' = [node EXCEPT ![o] = Null]
  BY DEF Remove
<1>4. IsFiniteSet(list') /\ size' = Cardinality(list')
  BY <1>1, <1>3, FS_RemoveElement DEF ManagerInv, CountsRight
<1>5. size' \in Nat /\ sizeFree' \in Nat
  BY <1>2, <1>4, FS_CardinalityType
<1>6. list' \in SUBSET Nodes /\ free' \in SUBSET Nodes /\ NodesApart'
  BY <1>1, <1>2, <1>3 DEF ManagerInv, TypeOK, NodesApart
<1>7. ptr' \in [Nodes -> Objects \cup {Null}]
  BY <1>3 DEF ManagerInv, TypeOK
<1>8. node' \in [Objects -> Nodes \cup {Null, Stray}]
  BY <1>3 DEF ManagerInv, TypeOK
<1>9. ptr'[m] = Null /\ node'[o] = Null
  BY <1>1, <1>3 DEF ManagerInv, TypeOK
<1>10. \A n \in Nodes : n # m => ptr'[n] = ptr[n]
  BY <1>3 DEF ManagerInv, TypeOK
<1>11. \A p \in Objects : p # o => node'[p] = node[p]
  BY <1>3 DEF ManagerInv, TypeOK
<1>12. LinksMatch'
  <2>1. \A n \in list' : ptr'[n] \in Objects /\ node'[ptr'[n]] = n
    BY <1>1, <1>3, <1>10, <1>11 DEF ManagerInv, LinksMatch, TypeOK
  <2>2. \A n \in Nodes \ list' : ptr'[n] = Null
    BY <1>3, <1>9, <1>10 DEF ManagerInv, LinksMatch
  <2>3. ASSUME NEW p \in Objects
        PROVE  node'[p] \in {Null, Stray} \/ (node'[p] \in list' /\ ptr'[node'[p]] = p)
    <3>1. CASE p = o
      BY <3>1, <1>9
    <3>2. CASE p # o
      BY <3>2, <1>1, <1>3, <1>10, <1>11 DEF ManagerInv, LinksMatch, TypeOK
    <3> QED BY <3>1, <3>2
  <2> QED BY <2>1, <2>2, <2>3 DEF LinksMatch
<1> QED BY <1>2, <1>4, <1>5, <1>6, <1>7, <1>8, <1>12 DEF ManagerInv, TypeOK, CountsRight

LEMMA ClearInv ==
  ASSUME ManagerInv, Clear
  PROVE  ManagerInv'
<1>1. /\ list' = {} /\ free' = free \cup list
      /\ size' = 0 /\ sizeFree' = sizeFree + size
  BY DEF Clear
<1>2. IsFiniteSet(free') /\ sizeFree' = Cardinality(free')
  BY <1>1, DisjointUnion DEF ManagerInv, CountsRight, NodesApart, TypeOK
<1>3. IsFiniteSet(list') /\ size' = Cardinality(list')
  BY <1>1, FS_EmptySet
<1>4. \A n \in Nodes : ptr'[n] = Null
  BY Zenon DEF Clear, ManagerInv, LinksMatch
<1>5. ptr' \in [Nodes -> Objects \cup {Null}]
  BY DEF Clear, ManagerInv, TypeOK
<1>6. node' = [p \in Objects |-> IF Exists(p) THEN Null ELSE node[p]]
  BY DEF Clear
<1>7. \A p \in Objects : node'[p] \in {Null, Stray}
  BY <1>6 DEF ManagerInv, LinksMatch, Exists
<1>8. node' \in [Objects -> Nodes \cup {Null, Stray}]
  BY <1>6, <1>7
<1>9. LinksMatch'
  BY <1>1, <1>4, <1>7 DEF LinksMatch
<1>10. TypeOK'
  BY <1>1, <1>5, <1>8 DEF ManagerInv, TypeOK
<1> QED BY <1>1, <1>2, <1>3, <1>9, <1>10 DEF ManagerInv, CountsRight, NodesApart

(* The other operations change the free nodes alone.                       *)
LEMMA FreeChangeInv ==
  ASSUME ManagerInv, UNCHANGED <<list, size, ptr, node>>,
         free' \in SUBSET (Nodes \ list),
         IsFiniteSet(free'), sizeFree' = Cardinality(free')
  PROVE  ManagerInv'
<1>1. sizeFree' \in Nat
  BY FS_CardinalityType
<1> QED BY <1>1 DEF ManagerInv, TypeOK, NodesApart, CountsRight, LinksMatch

LEMMA ShrinkToFixInv ==
  ASSUME ManagerInv, ShrinkToFix
  PROVE  ManagerInv'
BY FreeChangeInv, FS_EmptySet DEF ShrinkToFix

LEMMA ResizeUpInv ==
  ASSUME ManagerInv, NEW k \in Nat, ResizeUp(k)
  PROVE  ManagerInv'
<1>1. PICK S \in SUBSET Nodes :
        Fresh(S, k - (size + sizeFree)) /\ free' = free \cup S
  BY DEF ResizeUp
<1>2. S \cap free = {} /\ S \cap list = {} /\ IsFiniteSet(S)
      /\ Cardinality(S) = k - (size + sizeFree)
  BY <1>1 DEF Fresh
<1>3. IsFiniteSet(free') /\ Cardinality(free') = sizeFree + (k - (size + sizeFree))
  BY <1>1, <1>2, DisjointUnion DEF ManagerInv, CountsRight
<1>4. sizeFree' = Cardinality(free')
  BY <1>3 DEF ResizeUp, ManagerInv, TypeOK
<1>5. free' \in SUBSET (Nodes \ list)
  BY <1>1, <1>2 DEF ManagerInv, TypeOK, NodesApart
<1> QED BY <1>3, <1>4, <1>5, FreeChangeInv DEF ResizeUp

LEMMA ResizeDownInv ==
  ASSUME ManagerInv, NEW k \in Nat, ResizeDown(k)
  PROVE  ManagerInv'
<1>1. PICK S \in SUBSET free :
        IsFiniteSet(S) /\ Cardinality(S) = k - size /\ free' = S
  BY DEF ResizeDown
<1>2. free' \in SUBSET (Nodes \ list)
  BY <1>1 DEF ManagerInv, TypeOK, NodesApart
<1> QED BY <1>1, <1>2, FreeChangeInv DEF ResizeDown

LEMMA ManagerStep == ManagerInv /\ [Next]_vars => ManagerInv'
<1> SUFFICES ASSUME ManagerInv, [Next]_vars PROVE ManagerInv'
  OBVIOUS
<1>1. CASE UNCHANGED vars
  BY <1>1 DEF vars, ManagerInv, TypeOK, NodesApart, CountsRight, LinksMatch
<1>2. ASSUME NEW o \in Objects, InsertReused(o) PROVE ManagerInv'
  BY <1>2, InsertReusedInv
<1>3. ASSUME NEW o \in Objects, InsertMade(o) PROVE ManagerInv'
  BY <1>3, InsertMadeInv
<1>4. ASSUME NEW o \in Objects, Remove(o) PROVE ManagerInv'
  BY <1>4, RemoveInv
<1>5. CASE Clear
  BY <1>5, ClearInv
<1>6. CASE ShrinkToFix
  BY <1>6, ShrinkToFixInv
<1>7. ASSUME NEW k \in 0 .. MaxSize, ResizeUp(k) PROVE ManagerInv'
  BY <1>7, ResizeUpInv, ObjMgrAssumption
<1>8. ASSUME NEW k \in 0 .. MaxSize, ResizeDown(k) PROVE ManagerInv'
  BY <1>8, ResizeDownInv, ObjMgrAssumption
<1> QED BY <1>1, <1>2, <1>3, <1>4, <1>5, <1>6, <1>7, <1>8 DEF Next

(* All four hold in every reachable state of obj_mgr.                      *)
THEOREM ManagerInvariant == Spec => []ManagerInv
BY ManagerStarts, ManagerStep, PTL DEF Spec

(* No node is in list_ and in free_ at once.                               *)
THEOREM ListsStayApart == Spec => []NodesApart
<1>1. ManagerInv => NodesApart
  BY DEF ManagerInv
<1> QED BY <1>1, ManagerInvariant, PTL

(* size_ and size_free_ are the lengths of list_ and free_.                *)
THEOREM CountersAreLengths == Spec => []CountsRight
<1>1. ManagerInv => CountsRight
  BY DEF ManagerInv
<1> QED BY <1>1, ManagerInvariant, PTL

(* A used node and its object point at each other, no other node holds an  *)
(* object, and no object points at a node out of use.                      *)
THEOREM LinksAreMutual == Spec => []LinksMatch
<1>1. ManagerInv => LinksMatch
  BY DEF ManagerInv
<1> QED BY <1>1, ManagerInvariant, PTL

(* The three parts of the invariant together.                              *)
THEOREM ContainerIsSound == Spec => []ContainerSound
<1>1. ManagerInv => ContainerSound
  BY DEF ManagerInv, ContainerSound
<1> QED BY <1>1, ManagerInvariant, PTL

-----------------------------------------------------------------------------
(* TimerQueue.                                                             *)

(* When a timer with the start s is due after it has fired n times.        *)
DueAfter(s, n) == s.due + n * s.interval

QueueType ==
  /\ now \in Nat
  /\ heap \in SUBSET QueueTimers
  /\ held \in SUBSET QueueTimers
  /\ ready \in SUBSET QueueTimers
  /\ current \in QueueTimers \cup {NoTimer}
  /\ tmo \in [QueueTimers -> [next : Nat, interval : Nat]]
  /\ closed \in [QueueTimers -> BOOLEAN]
  /\ loop \in {"tasks", "delayed", "asleep", "events", "timers", "ready", "fired",
               "stopped"}
  /\ delay \in Nat
  /\ waker \in BOOLEAN
  /\ captured \in BOOLEAN
  /\ stop \in BOOLEAN
  /\ caller \in [Callers -> [at : {"idle", "wakeup", "id"},
                             timer : QueueTimers \cup {NoTimer}]]
  /\ Inserted \in SUBSET QueueTimers
  /\ started \in [Inserted -> [due : Nat, interval : Nat]]
  /\ fired \in [QueueTimers -> Nat]
  /\ aborted \in BOOLEAN

(* Where a timer is, and what its timeout says about its past: a timer     *)
(* that is closed was a one-shot one and has fired.                        *)
TimerPlace(t) ==
  /\ t \in heap => t \notin ready
  /\ t \in ready => t \in held /\ tmo[t].next <= now
  /\ t = current => t \notin heap \cup ready
  /\ t \in heap \cup held \cup {current} => t \in Inserted
  /\ t \notin Inserted => fired[t] = 0 /\ ~closed[t]
  /\ closed[t] => t \notin heap \cup ready \cup {current}

TimerPast(t) ==
  /\ closed[t] => started[t].interval = 0
  /\ ~closed[t] =>
       /\ tmo[t].interval = started[t].interval
       /\ t # current => tmo[t].next = DueAfter(started[t], fired[t])
       /\ t = current => /\ fired[t] > 0
                         /\ tmo[t].next = DueAfter(started[t], fired[t] - 1)
       /\ ~stop => t \in heap \cup ready \cup {current}
  /\ started[t].interval = 0 =>
       fired[t] = IF closed[t] \/ t = current THEN 1 ELSE 0
  /\ fired[t] > 0 => DueAfter(started[t], fired[t] - 1) <= now

(* The loop: who is asleep will be woken in time for every timer.          *)
WokenInTime(t, moment) ==
  moment <= tmo[t].next \/ waker \/ \E c \in Callers : caller[c] = [at |-> "wakeup", timer |-> t]

LoopPlace ==
  /\ loop \notin {"ready", "fired"} => ready = {}
  /\ loop = "fired" <=> current # NoTimer
  /\ loop = "stopped" => stop
  /\ loop = "delayed" /\ delay > 0 => \A t \in heap : WokenInTime(t, now + delay)
  /\ loop = "asleep" /\ now < delay => \A t \in heap : WokenInTime(t, delay)
  /\ \A c \in Callers : caller[c].at # "idle" => caller[c].timer \in Inserted

QueueInv ==
  /\ QueueType
  /\ ~aborted =>
       /\ \A t \in QueueTimers : TimerPlace(t)
       /\ \A t \in Inserted : TimerPast(t)
       /\ LoopPlace

(* A set of natural numbers has a least element.                           *)
LEMMA LeastOf ==
  ASSUME NEW S \in SUBSET Nat, S # {}
  PROVE  \E m \in S : \A n \in S : m <= n
<1> DEFINE R == {p \in Nat \X Nat : p[1] < p[2]}
<1>1. R = OpToRel(<, Nat)
  BY DEF OpToRel
<1>2. IsWellFoundedOn(R, Nat)
  BY <1>1, NatLessThanWellFounded
<1>3. PICK m \in S : \A n \in S : <<n, m>> \notin R
  BY <1>2, WFMin
<1>4. \A n \in S : <<n, m>> \in R <=> n < m
  OBVIOUS
<1>5. \A n \in S : ~(n < m)
  BY <1>3, <1>4
<1>6. \A n \in S : n \in Nat
  OBVIOUS
<1>7. \A n \in S : m <= n
  BY <1>5, <1>6
<1> QED BY <1>7

LEMMA DueAfterFacts ==
  ASSUME NEW s \in [due : Nat, interval : Nat], NEW n \in Nat
  PROVE  /\ DueAfter(s, n) \in Nat
         /\ DueAfter(s, 0) = s.due
         /\ DueAfter(s, n + 1) = DueAfter(s, n) + s.interval
<1> DEFINE i == s.interval
<1>1. i \in Nat /\ s.due \in Nat
  OBVIOUS
<1>2. n * i \in Nat /\ 0 * i = 0 /\ (n + 1) * i = n * i + i
  BY <1>1
<1> QED BY <1>1, <1>2 DEF DueAfter

(* min_delay() is the remaining time of some timer, and that of none is    *)
(* shorter.                                                                *)
LEMMA DelayFacts ==
  ASSUME QueueType, ComputeDelay
  PROVE  /\ delay' \in Nat
         /\ delay' > 0 => \A t \in heap : now + delay' <= tmo[t].next
<1>1. \A t \in heap : now \in Nat /\ tmo[t].next \in Nat
  BY DEF QueueType
<1>2. \A t \in heap : /\ Remaining(tmo[t], now) \in Nat
                      /\ Remaining(tmo[t], now) > 0
                           => now + Remaining(tmo[t], now) = tmo[t].next
  BY <1>1 DEF Remaining, Diff
<1>3. CASE heap = {}
  BY <1>3, TimerQueueAssumption DEF ComputeDelay
<1>4. CASE heap # {}
  <2> DEFINE S == {Remaining(tmo[t], now) : t \in heap}
             P(d) == \A t \in heap : d <= Remaining(tmo[t], now)
  <2>1. S \in SUBSET Nat /\ S # {}
    BY <1>2, <1>4
  <2>2. \E d \in S : \A n \in S : d <= n
    BY <2>1, LeastOf
  <2>3. \E d \in S : P(d)
    BY <2>2
  <2>4. delay' = CHOOSE d \in S : P(d)
    BY <1>4 DEF ComputeDelay
  <2>5. delay' \in S /\ P(delay')
    BY <2>3, <2>4, Zenon
  <2>6. delay' \in Nat /\ \A t \in heap : delay' <= Remaining(tmo[t], now)
    BY <2>1, <2>5
  <2>7. ASSUME delay' > 0, NEW t \in heap PROVE now + delay' <= tmo[t].next
    <3>1. delay' <= Remaining(tmo[t], now) /\ Remaining(tmo[t], now) \in Nat
      BY <1>2, <2>6
    <3>2. Remaining(tmo[t], now) > 0
      BY <2>6, <2>7, <3>1
    <3>3. now + Remaining(tmo[t], now) = tmo[t].next
      BY <1>2, <3>2
    <3> QED BY <1>1, <2>6, <3>1, <3>3
  <2> QED BY <2>6, <2>7
<1> QED BY <1>3, <1>4

LEMMA InsertFacts ==
  ASSUME QueueType, NEW t \in QueueTimers, NEW after \in 0..1, NEW interval \in 0..1,
         Insert(t, after, interval)
  PROVE  /\ t \notin Inserted /\ Inserted' = Inserted \cup {t}
         /\ tmo' \in [QueueTimers -> [next : Nat, interval : Nat]]
         /\ started' \in [Inserted' -> [due : Nat, interval : Nat]]
         /\ tmo'[t] = [next |-> now + after, interval |-> interval]
         /\ started'[t] = [due |-> now + after, interval |-> interval]
         /\ heap' = heap \cup {t}
         /\ \A u \in QueueTimers : u # t => tmo'[u] = tmo[u]
         /\ \A u \in Inserted : started'[u] = started[u]
<1>1. now + after \in Nat /\ interval \in Nat
  BY DEF QueueType
<1>2. tmo' = [tmo EXCEPT ![t] = [next |-> now + after, interval |-> interval]]
  BY DEF Insert, Timeout
<1>3. /\ tmo' \in [QueueTimers -> [next : Nat, interval : Nat]]
      /\ tmo'[t] = [next |-> now + after, interval |-> interval]
      /\ \A u \in QueueTimers : u # t => tmo'[u] = tmo[u]
  BY <1>1, <1>2 DEF QueueType
<1>4. t \notin Inserted /\ Inserted' = Inserted \cup {t}
  BY DEF Insert, Inserted
<1>5. /\ started' \in [Inserted' -> [due : Nat, interval : Nat]]
      /\ started'[t] = [due |-> now + after, interval |-> interval]
      /\ \A u \in Inserted : started'[u] = started[u]
  BY <1>1, <1>4 DEF Insert, QueueType
<1> QED BY <1>3, <1>4, <1>5 DEF Insert

LEMMA QueueTypeStep ==
  QueueType /\ LoopPlace /\ ~aborted /\ [TimerQueueNext]_queueVars => QueueType'
<1> SUFFICES ASSUME QueueType, LoopPlace, ~aborted, [TimerQueueNext]_queueVars PROVE QueueType'
  OBVIOUS
<1> USE DEF timerVars, sleepVars
<1>1. ASSUME NEW c \in Callers, NEW t \in QueueTimers, NEW after \in 0..1,
             NEW interval \in 0..1, RunAfter(c, t, after, interval)
      PROVE  QueueType'
  <2>1. Insert(t, after, interval)
    BY <1>1 DEF RunAfter
  <2>2. caller' \in [Callers -> [at : {"idle", "wakeup", "id"},
                                 timer : QueueTimers \cup {NoTimer}]]
    BY <1>1 DEF RunAfter, QueueType
  <2> QED BY <1>1, <2>1, <2>2, InsertFacts DEF RunAfter, QueueType
<1>2. ASSUME NEW c \in Callers, CallerWakes(c)
      PROVE  QueueType'
  <2>1. waker' \in BOOLEAN
    BY <1>2 DEF CallerWakes, QueueType
  <2>2. caller' \in [Callers -> [at : {"idle", "wakeup", "id"},
                                 timer : QueueTimers \cup {NoTimer}]]
    BY <1>2 DEF CallerWakes, QueueType
  <2> QED BY <1>2, <2>1, <2>2 DEF CallerWakes, QueueType, Inserted
<1>3. ASSUME NEW c \in Callers, CallerReadsId(c)
      PROVE  QueueType'
  BY <1>3 DEF CallerReadsId, QueueType, Inserted
<1>4. ASSUME NEW t \in QueueTimers, Cancel(t)
      PROVE  QueueType'
  BY <1>4 DEF Cancel, QueueType, Inserted, TimeoutCleared, Timeout
<1>5. ASSUME NEW t \in QueueTimers, Fire(t)
      PROVE  QueueType'
  <2>1. fired' \in [QueueTimers -> Nat]
    BY <1>5 DEF Fire, QueueType
  <2>2. ready' \in SUBSET QueueTimers /\ current' \in QueueTimers
    BY <1>5 DEF Fire, QueueType
  <2>3. stop' \in BOOLEAN
    BY <1>5 DEF Fire, QueueType
  <2>4. CASE (UNCHANGED heap \/ heap' = {}) /\ UNCHANGED <<tmo, started>>
    BY <1>5, <2>1, <2>2, <2>3, <2>4 DEF Fire, QueueType, Inserted
  <2>5. ASSUME NEW u \in QueueTimers, NEW after \in 0..1, Insert(u, after, 0)
        PROVE  QueueType'
    BY <1>5, <2>1, <2>2, <2>3, <2>5, InsertFacts DEF Fire, QueueType
  <2> QED BY <1>5, <2>4, <2>5 DEF Fire
<1>6. CASE Tick
  BY <1>6 DEF Tick, QueueType, Inserted
<1>7. CASE ComputeDelay
  BY <1>7, DelayFacts DEF ComputeDelay, QueueType, Inserted
<1>8. CASE FallAsleep
  BY <1>8 DEF FallAsleep, QueueType, Inserted
<1>9. CASE Awake
  BY <1>9 DEF Awake, QueueType, Inserted
<1>10. CASE ReadWaker
  <2>1. waker' \in BOOLEAN
    BY <1>10 DEF ReadWaker, QueueType
  <2> QED BY <1>10, <2>1 DEF ReadWaker, QueueType, Inserted
<1>11. CASE GetReadyTimers
  BY <1>11 DEF GetReadyTimers, QueueType, Inserted
<1>12. CASE Requeue
  <2>1. current \in QueueTimers
    BY <1>12 DEF Requeue, LoopPlace, QueueType
  <2>2. tmo' \in [QueueTimers -> [next : Nat, interval : Nat]]
    <3>1. Updated(tmo[current]) \in [next : Nat, interval : Nat]
      BY <2>1 DEF QueueType, Updated, Sum
    <3>2. TimeoutCleared \in [next : Nat, interval : Nat]
      BY DEF TimeoutCleared, Timeout
    <3>3. tmo' \in {[tmo EXCEPT ![current] = Updated(tmo[current])],
                    [tmo EXCEPT ![current] = TimeoutCleared]}
      BY <1>12 DEF Requeue
    <3> QED BY <2>1, <3>1, <3>2, <3>3 DEF QueueType
  <2> QED BY <1>12, <2>1, <2>2 DEF Requeue, QueueType, Inserted
<1>13. CASE EndOfRound
  BY <1>13 DEF EndOfRound, QueueType, Inserted
<1>14. CASE StopInLoop \/ StopOutside \/ LeaveAfterTasks \/ ClearTimers
  BY <1>14 DEF StopInLoop, StopOutside, LeaveAfterTasks, ClearTimers, QueueType, Inserted
<1>15. CASE UNCHANGED queueVars
  BY <1>15 DEF queueVars, QueueType, Inserted
<1> QED
  BY <1>1, <1>2, <1>3, <1>4, <1>5, <1>6, <1>7, <1>8, <1>9, <1>10, <1>11, <1>12, <1>13,
     <1>14, <1>15 DEF TimerQueueNext

(* What an insertion makes of its timer, and of the others.                *)
LEMMA NewTimer ==
  ASSUME QueueInv, ~aborted,
         NEW t \in QueueTimers, NEW after \in 0..1, NEW interval \in 0..1,
         Insert(t, after, interval), UNCHANGED <<now, held, closed>>,
         ready' \subseteq ready, fired'[t] = fired[t], current' # t
  PROVE  TimerPlace(t)' /\ TimerPast(t)'
<1>1. /\ t \notin Inserted /\ t \in Inserted' /\ t \in heap'
      /\ tmo'[t] = [next |-> now + after, interval |-> interval]
      /\ started'[t] = [due |-> now + after, interval |-> interval]
  BY InsertFacts DEF QueueInv
<1>2. t \notin held /\ t \notin ready /\ fired[t] = 0 /\ ~closed[t]
  BY <1>1 DEF QueueInv, TimerPlace
<1>3. TimerPlace(t)'
  BY <1>1, <1>2 DEF TimerPlace
<1>4. started'[t] \in [due : Nat, interval : Nat]
  BY <1>1 DEF QueueInv, QueueType
<1>5. DueAfter(started'[t], 0) = now + after
  BY <1>1, <1>4, DueAfterFacts
<1>6. tmo'[t].next = DueAfter(started'[t], fired'[t])
  BY <1>1, <1>2, <1>5
<1>7. TimerPast(t)'
  BY <1>1, <1>2, <1>6 DEF TimerPast
<1> QED BY <1>3, <1>7

(* A timer that a step does not concern.                                   *)
LEMMA SameTimer ==
  ASSUME QueueInv, ~aborted, NEW t \in QueueTimers,
         now' \in Nat, now <= now', stop => stop',
         t \in heap' => t \in heap, t \in heap => t \in heap' \/ stop', t \in held' <=> t \in held,
         t \in ready' <=> t \in ready,
         t = current' <=> t = current, tmo'[t] = tmo[t], closed'[t] = closed[t],
         fired'[t] = fired[t], t \in Inserted' <=> t \in Inserted,
         t \in Inserted => started'[t] = started[t]
  PROVE  TimerPlace(t)' /\ (t \in Inserted' => TimerPast(t)')
<1>1. now \in Nat /\ tmo[t].next \in Nat
  BY DEF QueueInv, QueueType
<1>2. TimerPlace(t) /\ (t \in Inserted => TimerPast(t))
  BY DEF QueueInv
<1>3. TimerPlace(t)'
  BY <1>1, <1>2 DEF TimerPlace
<1>4. ASSUME t \in Inserted PROVE TimerPast(t)'
  <2>1. started[t] \in [due : Nat, interval : Nat] /\ fired[t] \in Nat
    BY <1>4 DEF QueueInv, QueueType
  <2>2. fired[t] > 0 => DueAfter(started[t], fired[t] - 1) \in Nat
    BY <2>1, DueAfterFacts
  <2>3. TimerPast(t)
    BY <1>2, <1>4
  <2>4. fired[t] > 0 => DueAfter(started[t], fired[t] - 1) <= now'
    BY <1>1, <2>2, <2>3 DEF TimerPast
  <2>5. /\ DueAfter(started[t], fired[t])' = DueAfter(started[t], fired[t])
        /\ DueAfter(started[t], fired[t] - 1)' = DueAfter(started[t], fired[t] - 1)
    BY <1>4 DEF DueAfter
  <2>6. closed'[t] = closed[t] /\ fired'[t] = fired[t] /\ started'[t] = started[t]
    BY <1>4
  <2>7. ~stop' /\ t \in heap \cup ready \cup {current}
          => ~stop /\ t \in heap' \cup ready' \cup {current'}
    OBVIOUS
  <2> QED BY <2>3, <2>4, <2>5, <2>6, <2>7 DEF TimerPast
<1> QED BY <1>3, <1>4

(* Every timer that was inserted stays where the loop finds it.            *)
LEMMA PlaceStep ==
  ASSUME QueueInv, ~aborted, ~aborted', [TimerQueueNext]_queueVars
  PROVE  \A u \in QueueTimers : TimerPlace(u)' /\ (u \in Inserted' => TimerPast(u)')
<1> SUFFICES ASSUME NEW u \in QueueTimers
             PROVE  TimerPlace(u)' /\ (u \in Inserted' => TimerPast(u)')
  OBVIOUS
<1> DEFINE Goal == TimerPlace(u)' /\ (u \in Inserted' => TimerPast(u)')
<1>0. now \in Nat /\ QueueType /\ TimerPlace(u) /\ LoopPlace
  BY DEF QueueInv, QueueType
<1>a. ASSUME UNCHANGED <<heap, held, ready, current, tmo, closed, started, fired>>,
             now' \in Nat, now <= now', stop => stop'
      PROVE  Goal
  <2>1. Inserted' = Inserted
    BY <1>a DEF Inserted
  <2> QED BY <1>a, <2>1, SameTimer
<1>1. ASSUME NEW c \in Callers, NEW t \in QueueTimers, NEW after \in 0..1,
             NEW interval \in 0..1, RunAfter(c, t, after, interval)
      PROVE  Goal
  <2>1. /\ Insert(t, after, interval)
        /\ UNCHANGED <<now, held, ready, current, closed, fired, stop>>
    BY <1>1 DEF RunAfter, sleepVars
  <2>2. /\ t \notin Inserted /\ Inserted' = Inserted \cup {t} /\ heap' = heap \cup {t}
        /\ u # t => tmo'[u] = tmo[u]
        /\ u \in Inserted => started'[u] = started[u]
    BY <1>0, <2>1, InsertFacts
  <2>3. CASE u = t
    <3>1. current' # t
      BY <1>0, <2>1, <2>2, <2>3 DEF TimerPlace
    <3> QED BY <2>1, <2>3, <3>1, NewTimer
  <2>4. CASE u # t
    BY <1>0, <2>1, <2>2, <2>4, SameTimer
  <2> QED BY <2>3, <2>4
<1>2. ASSUME NEW c \in Callers, CallerWakes(c) \/ CallerReadsId(c)
      PROVE  Goal
  BY <1>0, <1>2, <1>a DEF CallerWakes, CallerReadsId, timerVars, sleepVars
<1>4. ASSUME NEW t \in QueueTimers, Cancel(t)
      PROVE  Goal
  BY <1>4 DEF Cancel
<1>5. ASSUME NEW t \in QueueTimers, Fire(t)
      PROVE  Goal
  <2>1. /\ loop = "ready" /\ loop' = "fired" /\ t \in ready
        /\ ready' = ready \ {t} /\ current' = t
        /\ fired' = [fired EXCEPT ![t] = @ + 1]
        /\ UNCHANGED <<now, held, closed>>
        /\ stop => stop'
    BY <1>5 DEF Fire
  <2>2. /\ TimerPlace(t) /\ t \in Inserted /\ TimerPast(t) /\ t \notin heap /\ current = NoTimer
        /\ ~closed[t]
    BY <1>0, <2>1 DEF QueueInv, TimerPlace, LoopPlace
  <2>3. /\ fired[t] \in Nat /\ fired'[t] = fired[t] + 1
        /\ u # t => fired'[u] = fired[u]
    BY <1>0, <2>1 DEF QueueType
  <2>4. ASSUME u = t, t \notin heap', t \in Inserted', tmo'[t] = tmo[t],
               started'[t] = started[t]
        PROVE  Goal
    <3>1. started[t] \in [due : Nat, interval : Nat] /\ t # NoTimer
      BY <1>0, <2>2, TimerQueueAssumption DEF QueueType
    <3>2. /\ tmo[t].interval = started[t].interval
          /\ tmo[t].next = DueAfter(started[t], fired[t])
          /\ tmo[t].next <= now
          /\ started[t].interval = 0 => fired[t] = 0
      BY <2>1, <2>2, <3>1 DEF TimerPast, TimerPlace
    <3>3. fired'[t] - 1 = fired[t] /\ fired'[t] > 0
      BY <2>3
    <3>4. DueAfter(started[t], fired[t] - 1)' = DueAfter(started[t], fired[t])
      BY <2>4, <3>3 DEF DueAfter
    <3>5. TimerPlace(t)'
      BY <2>1, <2>2, <2>4 DEF TimerPlace
    <3>6. TimerPast(t)'
      BY <2>1, <2>2, <2>3, <2>4, <3>2, <3>3, <3>4 DEF TimerPast
    <3> QED BY <2>4, <3>5, <3>6
  <2>5. CASE (UNCHANGED heap \/ (heap' = {} /\ stop')) /\ UNCHANGED <<tmo, started>>
    <3>1. Inserted' = Inserted
      BY <2>5 DEF Inserted
    <3>2. CASE u = t
      BY <2>2, <2>4, <2>5, <3>1, <3>2
    <3>3. CASE u # t
      <4>1. u # current /\ u # current'
        BY <2>1, <2>2, <3>3, TimerQueueAssumption
      <4> QED BY <1>0, <2>1, <2>3, <2>5, <3>1, <3>3, <4>1, SameTimer
    <3> QED BY <3>2, <3>3
  <2>6. ASSUME NEW v \in QueueTimers, NEW after \in 0..1, Insert(v, after, 0)
        PROVE  Goal
    <3>1. /\ v \notin Inserted /\ Inserted' = Inserted \cup {v} /\ heap' = heap \cup {v}
          /\ \A w \in QueueTimers : w # v => tmo'[w] = tmo[w]
          /\ \A w \in Inserted : started'[w] = started[w]
      BY <1>0, <2>6, InsertFacts
    <3>2. v # t
      BY <2>2, <3>1
    <3>3. CASE u = t
      <4>1. t \notin heap' /\ t \in Inserted' /\ tmo'[t] = tmo[t] /\ started'[t] = started[t]
        BY <2>2, <3>1, <3>2
      <4> QED BY <2>4, <3>3, <4>1
    <3>4. CASE u = v
      <4>1. fired'[v] = fired[v] /\ current' # v /\ ready' \subseteq ready
        BY <2>1, <2>3, <3>2, <3>4
      <4>2. TimerPlace(v)' /\ TimerPast(v)'
        BY <2>1, <2>6, <4>1, NewTimer
      <4> QED BY <3>4, <4>2
    <3>5. CASE u # t /\ u # v
      <4>1. u # current /\ u # current'
        BY <2>1, <2>2, <3>5, TimerQueueAssumption
      <4> QED BY <1>0, <2>1, <2>3, <3>1, <3>5, <4>1, SameTimer
    <3> QED BY <3>3, <3>4, <3>5
  <2> QED BY <1>5, <2>5, <2>6 DEF Fire
<1>6. CASE Tick
  BY <1>0, <1>6, <1>a DEF Tick, timerVars, sleepVars
<1>7. CASE ComputeDelay \/ FallAsleep \/ Awake \/ ReadWaker \/ EndOfRound
  BY <1>0, <1>7, <1>a DEF ComputeDelay, FallAsleep, Awake, ReadWaker, EndOfRound, timerVars
<1>11. CASE GetReadyTimers
  <2> DEFINE overdue == {t \in heap : TimedOut(tmo[t], now)}
  <2>1. /\ heap' = heap \ overdue /\ held' = {t \in overdue : ~closed[t]} /\ ready' = held'
        /\ loop = "timers" /\ loop' = "ready" /\ ready = {}
        /\ UNCHANGED <<now, current, tmo, closed, started, fired, stop>>
    BY <1>0, <1>11 DEF GetReadyTimers, LoopPlace
  <2>2. Inserted' = Inserted
    BY <2>1 DEF Inserted
  <2>3. /\ u \in overdue => u \in heap /\ tmo[u].next <= now /\ ~closed[u]
        /\ u \in heap' <=> u \in heap /\ u \notin overdue
        /\ u \in ready' <=> u \in overdue
        /\ u \in held' <=> u \in overdue
    BY <1>0, <2>1 DEF TimedOut, AtLeast, TimerPlace, QueueType
  <2> HIDE DEF overdue
  <2>4. TimerPlace(u)'
    BY <1>0, <2>1, <2>2, <2>3 DEF TimerPlace
  <2>5. ASSUME u \in Inserted PROVE TimerPast(u)'
    <3>1. TimerPast(u)
      BY <2>5 DEF QueueInv
    <3>2. /\ DueAfter(started[u], fired[u])' = DueAfter(started[u], fired[u])
          /\ DueAfter(started[u], fired[u] - 1)' = DueAfter(started[u], fired[u] - 1)
      BY <2>1 DEF DueAfter
    <3> QED BY <2>1, <2>3, <3>1, <3>2 DEF TimerPast
  <2> QED BY <2>2, <2>4, <2>5
<1>12. CASE Requeue
  <2>1. /\ loop = "fired" /\ loop' = "ready" /\ current # NoTimer /\ current' = NoTimer
        /\ current \in QueueTimers
        /\ UNCHANGED <<now, held, ready, started, fired, stop>>
    BY <1>0, <1>12 DEF Requeue, LoopPlace, QueueType
  <2>2. Inserted' = Inserted
    BY <2>1 DEF Inserted
  <2>3. CASE u # current
    <3>1. /\ tmo'[u] = tmo[u] /\ closed'[u] = closed[u]
          /\ u \in heap' <=> u \in heap
      BY <1>0, <1>12, <2>1, <2>3 DEF Requeue, QueueType
    <3>2. u # current'
      BY <2>1, TimerQueueAssumption
    <3> QED BY <1>0, <2>1, <2>2, <2>3, <3>1, <3>2, SameTimer
  <2>4. CASE u = current
    <3>1. /\ u \in Inserted /\ u \notin heap /\ u \notin ready /\ ~closed[u] /\ u # current'
      BY <1>0, <2>1, <2>4, TimerQueueAssumption DEF TimerPlace
    <3>2. TimerPast(u)
      BY <3>1 DEF QueueInv
    <3>3. /\ started[u] \in [due : Nat, interval : Nat] /\ fired[u] \in Nat
          /\ tmo[u] \in [next : Nat, interval : Nat]
      BY <1>0, <3>1 DEF QueueType
    <3>4. /\ fired[u] > 0 /\ tmo[u].interval = started[u].interval
          /\ tmo[u].next = DueAfter(started[u], fired[u] - 1)
          /\ started[u].interval = 0 => fired[u] = 1
          /\ DueAfter(started[u], fired[u] - 1) <= now
      BY <2>4, <3>1, <3>2 DEF TimerPast
    <3>5. fired[u] - 1 \in Nat /\ (fired[u] - 1) + 1 = fired[u]
      BY <3>3, <3>4
    <3>6. DueAfter(started[u], fired[u]) = DueAfter(started[u], fired[u] - 1) + started[u].interval
      BY <3>3, <3>5, DueAfterFacts
    <3>7. /\ DueAfter(started[u], fired[u])' = DueAfter(started[u], fired[u])
          /\ DueAfter(started[u], fired[u] - 1)' = DueAfter(started[u], fired[u] - 1)
      BY <2>1 DEF DueAfter
    <3>8. CASE Persist(tmo[current])
      <4>1. heap' = heap \cup {u} /\ UNCHANGED closed /\ tmo' = [tmo EXCEPT ![u] = Updated(@)]
        BY <1>12, <2>4, <3>8 DEF Requeue
      <4>2. /\ tmo'[u].next = tmo[u].next + tmo[u].interval
            /\ tmo'[u].interval = tmo[u].interval
        BY <1>0, <3>3, <4>1 DEF Updated, Sum, QueueType
      <4>3. started[u].interval # 0
        BY <2>4, <3>4, <3>8 DEF Persist
      <4>4. TimerPlace(u)'
        BY <1>0, <2>1, <2>2, <3>1, <4>1 DEF TimerPlace
      <4>5. TimerPast(u)'
        BY <2>1, <2>4, <3>1, <3>4, <3>6, <3>7, <4>1, <4>2, <4>3 DEF TimerPast
      <4> QED BY <4>4, <4>5
    <3>9. CASE ~Persist(tmo[current])
      <4>1. heap' = heap /\ closed'[u]
        BY <1>0, <1>12, <2>4, <3>9 DEF Requeue, QueueType
      <4>2. started[u].interval = 0
        BY <2>4, <3>4, <3>9 DEF Persist
      <4>3. TimerPlace(u)'
        BY <1>0, <2>1, <2>2, <3>1, <4>1 DEF TimerPlace
      <4>4. TimerPast(u)'
        BY <2>1, <3>4, <3>7, <4>1, <4>2 DEF TimerPast
      <4> QED BY <4>3, <4>4
    <3> QED BY <3>8, <3>9
  <2> QED BY <2>3, <2>4
<1>14. CASE StopInLoop \/ ClearTimers
  <2>1. /\ heap' = {}
        /\ stop => stop'
        /\ stop' \/ loop = "stopped"
        /\ UNCHANGED <<now, held, ready, current, tmo, closed, started, fired>>
    BY <1>14 DEF StopInLoop, ClearTimers, sleepVars
  <2>2. Inserted' = Inserted
    BY <2>1 DEF Inserted
  <2>3. stop'
    BY <1>0, <1>14, <2>1 DEF LoopPlace, StopInLoop, ClearTimers, sleepVars
  <2> QED BY <1>0, <2>1, <2>2, <2>3, SameTimer
<1>15. CASE StopOutside \/ LeaveAfterTasks
  BY <1>0, <1>15, <1>a DEF StopOutside, LeaveAfterTasks, timerVars
<1>16. CASE UNCHANGED queueVars
  BY <1>0, <1>16, <1>a DEF queueVars, timerVars, sleepVars
<1> QED
  BY <1>1, <1>2, <1>4, <1>5, <1>6, <1>7, <1>11, <1>12, <1>14, <1>15, <1>16
     DEF TimerQueueNext

(* The step of the part of the invariant that is about the loop.           *)
LEMMA LoopPlaceStep ==
  ASSUME QueueInv, ~aborted, ~aborted', [TimerQueueNext]_queueVars
  PROVE  LoopPlace'
<1> USE DEF timerVars, sleepVars
<1>0. QueueType /\ LoopPlace /\ now \in Nat /\ delay \in Nat
  BY DEF QueueInv, QueueType
<1>1. \A t \in QueueTimers : tmo[t].next \in Nat
  BY <1>0 DEF QueueType
<1>2. ASSUME NEW c \in Callers, NEW t \in QueueTimers, NEW after \in 0..1,
             NEW interval \in 0..1, RunAfter(c, t, after, interval)
      PROVE  LoopPlace'
  <2>1. /\ Insert(t, after, interval) /\ caller[c].at = "idle"
        /\ UNCHANGED <<now, ready, current, loop, delay, waker, stop>>
    BY <1>2 DEF RunAfter
  <2>2. /\ t \notin Inserted /\ Inserted' = Inserted \cup {t} /\ heap' = heap \cup {t}
        /\ \A u \in heap : tmo'[u] = tmo[u] /\ u # t
    <3>1. \A u \in heap : u \in Inserted /\ u \in QueueTimers
      BY <1>0 DEF QueueInv, QueueType, TimerPlace
    <3> QED BY <1>0, <2>1, <3>1, InsertFacts
  <2>3. /\ caller'[c] = [at |-> "wakeup", timer |-> t]
        /\ \A d \in Callers : d # c => caller'[d] = caller[d]
    BY <1>0, <1>2 DEF RunAfter, QueueType
  <2>4. \A d \in Callers, u \in QueueTimers :
          caller[d] = [at |-> "wakeup", timer |-> u] => d # c
    BY <2>1
  <2>5. ASSUME NEW u \in heap, NEW m, WokenInTime(u, m) PROVE WokenInTime(u, m)'
    BY <1>0, <2>1, <2>2, <2>3, <2>4, <2>5 DEF WokenInTime, QueueType
  <2>6. \A m : WokenInTime(t, m)'
    BY <2>3 DEF WokenInTime
  <2>7. \A d \in Callers : caller'[d].at # "idle" => caller'[d].timer \in Inserted'
    BY <1>0, <2>2, <2>3 DEF LoopPlace
  <2>8. loop = "delayed" /\ delay > 0 => \A u \in heap' : WokenInTime(u, now + delay)'
    BY <1>0, <2>1, <2>2, <2>5, <2>6 DEF LoopPlace
  <2>9. loop = "asleep" /\ now < delay => \A u \in heap' : WokenInTime(u, delay)'
    BY <1>0, <2>1, <2>2, <2>5, <2>6 DEF LoopPlace
  <2> QED BY <1>0, <2>1, <2>7, <2>8, <2>9 DEF LoopPlace, WokenInTime
<1>3. ASSUME NEW c \in Callers, CallerWakes(c)
      PROVE  LoopPlace'
  <2>1. /\ UNCHANGED <<now, heap, ready, current, tmo, started, loop, delay, stop>>
        /\ loop # "stopped" => waker'
        /\ caller'[c].at = "id" /\ caller'[c].timer = caller[c].timer
        /\ caller[c].at = "wakeup"
        /\ \A d \in Callers : d # c => caller'[d] = caller[d]
    BY <1>0, <1>3 DEF CallerWakes, QueueType
  <2>2. loop \in {"delayed", "asleep"} => waker'
    BY <2>1
  <2>3. \A d \in Callers : caller'[d].at # "idle" => caller'[d].timer \in Inserted'
    BY <1>0, <2>1 DEF LoopPlace, Inserted
  <2> QED BY <1>0, <2>1, <2>2, <2>3 DEF LoopPlace, WokenInTime
<1>4. ASSUME NEW c \in Callers, CallerReadsId(c)
      PROVE  LoopPlace'
  <2>1. /\ UNCHANGED <<now, heap, ready, current, tmo, started, loop, delay, waker, stop>>
        /\ caller[c].at = "id" /\ caller'[c].at = "idle"
        /\ \A d \in Callers : d # c => caller'[d] = caller[d]
    BY <1>0, <1>4 DEF CallerReadsId, QueueType
  <2>2. \A u : \A d \in Callers : caller[d] = [at |-> "wakeup", timer |-> u] => caller'[d] = caller[d]
    BY <2>1
  <2>4. \A d \in Callers : caller'[d].at # "idle" => caller'[d].timer \in Inserted'
    BY <1>0, <2>1 DEF LoopPlace, Inserted
  <2>5. loop = "delayed" /\ delay > 0 => \A u \in heap : WokenInTime(u, now + delay)'
    BY <1>0, <2>1, <2>2 DEF LoopPlace, WokenInTime
  <2>6. loop = "asleep" /\ now < delay => \A u \in heap : WokenInTime(u, delay)'
    BY <1>0, <2>1, <2>2 DEF LoopPlace, WokenInTime
  <2> QED BY <1>0, <2>1, <2>4, <2>5, <2>6 DEF LoopPlace, WokenInTime
<1>5. ASSUME NEW t \in QueueTimers, Cancel(t)
      PROVE  LoopPlace'
  BY <1>5 DEF Cancel
<1>6. ASSUME NEW t \in QueueTimers, Fire(t)
      PROVE  LoopPlace'
  <2>1. /\ loop' = "fired" /\ current' = t /\ UNCHANGED caller
        /\ Inserted \subseteq Inserted'
    BY <1>6 DEF Fire, Insert, Inserted
  <2> QED BY <1>0, <2>1, TimerQueueAssumption DEF LoopPlace
<1>7. CASE Tick
  <2>1. /\ UNCHANGED <<heap, ready, current, tmo, started, loop, delay, waker, caller, stop>>
        /\ now' = now + 1 /\ loop # "delayed"
    BY <1>7 DEF Tick
  <2>2. now' < delay => now < delay
    BY <1>0, <2>1
  <2> QED BY <1>0, <2>1, <2>2 DEF LoopPlace, WokenInTime, Inserted
<1>8. CASE ComputeDelay
  <2>1. /\ UNCHANGED <<now, heap, ready, current, tmo, started, waker, caller>>
        /\ loop = "tasks" /\ loop' = "delayed"
    BY <1>8 DEF ComputeDelay
  <2>2. delay' > 0 => \A t \in heap : now + delay' <= tmo[t].next
    BY <1>0, <1>8, DelayFacts
  <2> QED BY <1>0, <2>1, <2>2 DEF LoopPlace, WokenInTime, Inserted
<1>9. CASE FallAsleep
  <2>1. /\ UNCHANGED <<now, heap, ready, current, tmo, started, waker, caller>>
        /\ loop = "delayed" /\ loop' = "asleep" /\ delay' = now + delay
    BY <1>9 DEF FallAsleep
  <2>2. now < delay' => delay > 0
    BY <1>0, <2>1
  <2>3. now' < delay' => \A t \in heap : WokenInTime(t, delay')
    BY <1>0, <2>1, <2>2 DEF LoopPlace
  <2> QED BY <1>0, <2>1, <2>3 DEF LoopPlace, WokenInTime, Inserted
<1>10. CASE Awake \/ ReadWaker \/ EndOfRound
  <2>1. /\ UNCHANGED <<ready, current, started, caller>>
        /\ loop' \in {"events", "timers", "tasks", "stopped"}
        /\ loop' = "stopped" => stop'
        /\ ready = {}
        /\ loop # "fired"
    BY <1>0, <1>10 DEF Awake, ReadWaker, EndOfRound, LoopPlace
  <2> QED BY <1>0, <2>1 DEF LoopPlace, Inserted
<1>11. CASE GetReadyTimers
  BY <1>0, <1>11 DEF GetReadyTimers, LoopPlace, Inserted
<1>12. CASE Requeue
  BY <1>0, <1>12 DEF Requeue, LoopPlace, Inserted
<1>13. CASE StopInLoop \/ StopOutside \/ LeaveAfterTasks \/ ClearTimers
  BY <1>0, <1>13
     DEF StopInLoop, StopOutside, LeaveAfterTasks, ClearTimers, LoopPlace, WokenInTime, Inserted
<1>14. CASE UNCHANGED queueVars
  BY <1>0, <1>14 DEF queueVars, LoopPlace, Inserted, WokenInTime
<1> QED
  BY <1>2, <1>3, <1>4, <1>5, <1>6, <1>7, <1>8, <1>9, <1>10, <1>11, <1>12, <1>13, <1>14
     DEF TimerQueueNext

LEMMA QueueInvariant == TimerQueueSpec => []QueueInv
<1>1. TimerQueueInit => QueueInv
  <2> SUFFICES ASSUME TimerQueueInit PROVE QueueInv
    OBVIOUS
  <2>1. Inserted = {}
    BY DEF TimerQueueInit, Inserted
  <2>2. started \in [Inserted -> [due : Nat, interval : Nat]]
    BY <2>1 DEF TimerQueueInit
  <2>3. /\ closed \in [QueueTimers -> BOOLEAN] /\ \A t \in QueueTimers : ~closed[t]
        /\ fired \in [QueueTimers -> Nat] /\ \A t \in QueueTimers : fired[t] = 0
    BY DEF TimerQueueInit
  <2>4. Timeout(0, 0) \in [next : Nat, interval : Nat]
    BY DEF Timeout
  <2>5. tmo \in [QueueTimers -> [next : Nat, interval : Nat]]
    BY <2>4 DEF TimerQueueInit
  <2>6. /\ caller \in [Callers -> [at : {"idle", "wakeup", "id"},
                                   timer : QueueTimers \cup {NoTimer}]]
        /\ \A c \in Callers : caller[c].at = "idle"
    BY DEF TimerQueueInit
  <2>7. QueueType
    BY <2>1, <2>2, <2>3, <2>5, <2>6 DEF TimerQueueInit, QueueType
  <2>8. \A t \in QueueTimers : TimerPlace(t)
    BY <2>3, TimerQueueAssumption DEF TimerQueueInit, TimerPlace
  <2>9. LoopPlace
    BY <2>6 DEF TimerQueueInit, LoopPlace
  <2> QED BY <2>1, <2>7, <2>8, <2>9 DEF QueueInv
<1>2. QueueInv /\ [TimerQueueNext]_queueVars => QueueInv'
  <2> SUFFICES ASSUME QueueInv, [TimerQueueNext]_queueVars PROVE QueueInv'
    OBVIOUS
  <2>1. CASE aborted
    <3>1. UNCHANGED queueVars
      BY <2>1 DEF TimerQueueNext, RunAfter, CallerWakes, CallerReadsId, Cancel, Fire, Tick,
                  ComputeDelay, FallAsleep, Awake, ReadWaker, GetReadyTimers, Requeue,
                  EndOfRound, StopInLoop, StopOutside, LeaveAfterTasks, ClearTimers
    <3>2. QueueType' /\ aborted'
      BY <2>1, <3>1 DEF QueueInv, QueueType, queueVars, timerVars, sleepVars, Inserted
    <3> QED BY <3>2 DEF QueueInv
  <2>2. CASE ~aborted
    <3>1. QueueType'
      BY <2>2, QueueTypeStep DEF QueueInv
    <3>2. CASE aborted'
      BY <3>1, <3>2 DEF QueueInv
    <3>3. CASE ~aborted'
      <4>1. \A u \in QueueTimers : TimerPlace(u)' /\ (u \in Inserted' => TimerPast(u)')
        BY <2>2, <3>3, PlaceStep
      <4>2. LoopPlace'
        BY <2>2, <3>3, LoopPlaceStep
      <4>3. Inserted' \subseteq QueueTimers
        BY <3>1 DEF QueueType
      <4> QED BY <3>1, <4>1, <4>2, <4>3 DEF QueueInv
    <3> QED BY <3>2, <3>3
  <2> QED BY <2>1, <2>2
<1> QED BY <1>1, <1>2, PTL DEF TimerQueueSpec

(* For any number of timers, threads and milliseconds: the loop does not   *)
(* sleep past a timer, whatever other threads insert between its look at   *)
(* the heap and its sleep; a timer never fires early, a one-shot one once; *)
(* and none is lost between the heap, the ready timers and its handler.    *)
THEOREM TimersAreServed == TimerQueueSpec => []TimersServed
<1>1. QueueInv => TimersServed
  <2> SUFFICES ASSUME QueueInv, ~aborted
               PROVE  NoTimerOverslept /\ FiredOnTime /\ IdOfLivingTimer
    BY DEF TimersServed
  <2>1. NoTimerOverslept
    BY DEF QueueInv, LoopPlace, WokenInTime, NoTimerOverslept
  <2>2. \A t \in Inserted : t \in QueueTimers /\ TimerPlace(t) /\ TimerPast(t)
    BY DEF QueueInv, QueueType
  <2>3. heap \cap ready = {} /\ current \notin heap \cup ready
    BY DEF QueueInv, QueueType, TimerPlace
  <2>4. ASSUME NEW t \in Inserted
        PROVE  LET s == started[t]
               IN  /\ fired[t] > 0 => now >= s.due + (fired[t] - 1) * s.interval
                   /\ s.interval = 0 => fired[t] <= 1
                   /\ ~closed[t] /\ ~stop => t \in heap \cup ready \cup {current}
    <3>1. started[t] \in [due : Nat, interval : Nat] /\ fired[t] \in Nat /\ now \in Nat
      BY <2>2 DEF QueueInv, QueueType
    <3>2. fired[t] > 0 => fired[t] - 1 \in Nat
      BY <3>1
    <3>3. fired[t] > 0 => DueAfter(started[t], fired[t] - 1) \in Nat
      BY <3>1, <3>2, DueAfterFacts
    <3>4. fired[t] > 0 => now >= DueAfter(started[t], fired[t] - 1)
      BY <2>2, <3>1, <3>3 DEF TimerPast
    <3>5. started[t].interval = 0 => fired[t] <= 1
      BY <2>2 DEF TimerPast
    <3>6. ~closed[t] /\ ~stop => t \in heap \cup ready \cup {current}
      BY <2>2 DEF TimerPast
    <3> QED BY <3>4, <3>5, <3>6 DEF DueAfter
  <2>5. FiredOnTime
    BY <2>3, <2>4 DEF FiredOnTime
  <2>6. ASSUME NEW c \in Callers, caller[c].at # "idle"
        PROVE  LET t == caller[c].timer
               IN  Alive(t) \/ (fired[t] = 1 /\ closed[t]) \/ stop
    <3> DEFINE t == caller[c].timer
    <3>1. t \in Inserted
      BY <2>6 DEF QueueInv, LoopPlace
    <3>2. t \in QueueTimers /\ TimerPlace(t) /\ TimerPast(t) /\ fired[t] \in Nat
      BY <2>2, <3>1 DEF QueueInv, QueueType
    <3> HIDE DEF t
    <3>3. Alive(t) \/ (fired[t] = 1 /\ closed[t]) \/ stop
      BY <3>2 DEF TimerPlace, TimerPast, Alive
    <3> QED BY <3>3 DEF t
  <2>7. IdOfLivingTimer
    BY <2>6 DEF IdOfLivingTimer
  <2> QED BY <2>1, <2>5, <2>7
<1> QED BY <1>1, QueueInvariant, PTL

-----------------------------------------------------------------------------
(* Buffers.                                                                *)

(* An out_buffer is a window of the sender's array that ends where its     *)
(* bytes end; an in_buffer is a window of the receiver's array that begins *)
(* with the valid bytes.                                                   *)
BufferType ==
  /\ outs \in [OutBufs -> [arr : Nat, size : Nat]]
  /\ ins \in [InBufs -> [arr : Nat, size : Nat, valid : Nat]]
  /\ memory \in [1..MemorySize -> Nat]
  /\ wire \in Seq(Nat)
  /\ due \in [OutBufs -> Seq(Nat)]
  /\ stored \in [InBufs -> Seq(Nat)]
  /\ spoiled \in SUBSET InBufs

OutGives(o) == due[o] = View(outs[o].arr, outs[o].size)

InFits(b) ==
  /\ ins[b].valid <= ins[b].size
  /\ ins[b].size > 0 => ins[b].arr > 0
  /\ ins[b].arr + ins[b].size <= MemorySize + 1

InHolds(b) ==
  /\ Len(stored[b]) = ins[b].valid
  /\ b \notin spoiled =>
       \A i \in 1..ins[b].valid : memory[ins[b].arr + i - 1] = stored[b][i]

BufferInv ==
  /\ BufferType
  /\ \A o \in OutBufs : OutGives(o)
  /\ \A b \in InBufs : InFits(b) /\ InHolds(b)

LEMMA ViewFacts ==
  ASSUME NEW a \in Nat, NEW n \in Nat
  PROVE  /\ View(a, n) \in Seq(Nat)
         /\ Len(View(a, n)) = n
         /\ \A i \in 1..n : View(a, n)[i] = a + i - 1
<1>1. \A i \in 1..n : a + i - 1 \in Nat
  OBVIOUS
<1>2. View(a, n) \in [1..n -> Nat]
  BY <1>1 DEF View
<1>3. View(a, n) \in Seq(Nat)
  BY <1>2, SeqDef
<1>4. Len(View(a, n)) = n
  BY <1>2, <1>3, LenProperties
<1>5. \A i \in 1..n : View(a, n)[i] = a + i - 1
  BY DEF View
<1> QED BY <1>3, <1>4, <1>5

(* The bytes from n + 1 on, or the first n, of a view are a view.          *)
LEMMA ViewParts ==
  ASSUME NEW a \in Nat, NEW s \in Nat, NEW n \in Nat, n <= s
  PROVE  /\ Drop(View(a, s), n) = View(a + n, s - n)
         /\ SubSeq(View(a, s), 1, n) = View(a, n)
<1> DEFINE v == View(a, s)
<1>1. v \in Seq(Nat) /\ Len(v) = s /\ \A i \in 1..s : v[i] = a + i - 1
  BY ViewFacts
<1> HIDE DEF v
<1>2. s - n \in Nat /\ a + n \in Nat
  OBVIOUS
<1>3. /\ View(a + n, s - n) \in Seq(Nat) /\ Len(View(a + n, s - n)) = s - n
      /\ \A i \in 1..(s - n) : View(a + n, s - n)[i] = a + n + i - 1
  BY <1>2, ViewFacts
<1>4. /\ View(a, n) \in Seq(Nat) /\ Len(View(a, n)) = n
      /\ \A i \in 1..n : View(a, n)[i] = a + i - 1
  BY ViewFacts
<1>5. /\ SubSeq(v, n + 1, s) \in Seq(Nat)
      /\ Len(SubSeq(v, n + 1, s)) = s - n
      /\ \A i \in 1..(s - n) : SubSeq(v, n + 1, s)[i] = v[n + i]
  <2>1. \A i \in (n + 1)..s : v[i] \in Nat
    BY <1>1
  <2>2. /\ SubSeq(v, n + 1, s) \in Seq(Nat)
        /\ Len(SubSeq(v, n + 1, s)) = IF n + 1 <= s THEN s - (n + 1) + 1 ELSE 0
        /\ \A i \in 1..(s - (n + 1) + 1) : SubSeq(v, n + 1, s)[i] = v[(n + 1) + i - 1]
    BY <2>1, SubSeqProperties
  <2>3. s - (n + 1) + 1 = s - n /\ \A i \in 1..(s - n) : (n + 1) + i - 1 = n + i
    OBVIOUS
  <2>4. (IF n + 1 <= s THEN s - (n + 1) + 1 ELSE 0) = s - n
    OBVIOUS
  <2> QED BY <2>2, <2>3, <2>4
<1>6. /\ SubSeq(v, 1, n) \in Seq(Nat)
      /\ Len(SubSeq(v, 1, n)) = n
      /\ \A i \in 1..n : SubSeq(v, 1, n)[i] = v[i]
  <2>1. \A i \in 1..n : v[i] \in Nat
    BY <1>1
  <2>2. /\ SubSeq(v, 1, n) \in Seq(Nat)
        /\ Len(SubSeq(v, 1, n)) = IF 1 <= n THEN n - 1 + 1 ELSE 0
        /\ \A i \in 1..(n - 1 + 1) : SubSeq(v, 1, n)[i] = v[1 + i - 1]
    BY <2>1, SubSeqProperties
  <2>3. n - 1 + 1 = n /\ \A i \in 1..n : 1 + i - 1 = i
    OBVIOUS
  <2> QED BY <2>2, <2>3
<1>7. \A i \in 1..(s - n) : SubSeq(v, n + 1, s)[i] = View(a + n, s - n)[i]
  <2>1. \A i \in 1..(s - n) : n + i \in 1..s /\ a + n + i - 1 = a + (n + i) - 1
    OBVIOUS
  <2> QED BY <1>1, <1>3, <1>5, <2>1
<1>8. SubSeq(v, n + 1, s) = View(a + n, s - n)
  BY <1>3, <1>5, <1>7, SeqEqual
<1>9. \A i \in 1..n : SubSeq(v, 1, n)[i] = View(a, n)[i]
  BY <1>1, <1>4, <1>6
<1>10. SubSeq(v, 1, n) = View(a, n)
  BY <1>4, <1>6, <1>9, SeqEqual
<1> QED BY <1>1, <1>8, <1>10 DEF Drop, v

LEMMA ModBelow ==
  ASSUME NEW a \in Nat, NEW n \in Nat, a < n
  PROVE  a % n = a
OBVIOUS

(* What one out_buffer gives after its window was changed.                 *)
LEMMA OutStep ==
  ASSUME BufferInv, UNCHANGED <<inVars, wire>>,
         outs' \in [OutBufs -> [arr : Nat, size : Nat]],
         due' \in [OutBufs -> Seq(Nat)], \A o \in OutBufs : OutGives(o)'
  PROVE  BufferInv'
<1>1. UNCHANGED <<ins, memory, stored, spoiled, wire>>
  BY DEF inVars
<1>2. BufferType'
  BY <1>1 DEF BufferInv, BufferType
<1>3. \A b \in InBufs : (InFits(b) /\ InHolds(b))'
  BY <1>1 DEF BufferInv, InFits, InHolds
<1> QED BY <1>2, <1>3 DEF BufferInv

(* An out_buffer o takes the window w and the bytes q that it holds.       *)
LEMMA OutSet ==
  ASSUME BufferInv, UNCHANGED <<inVars, wire>>, NEW o \in OutBufs,
         NEW w \in [arr : Nat, size : Nat], NEW q, q = View(w.arr, w.size),
         outs' = [outs EXCEPT ![o] = w], due' = [due EXCEPT ![o] = q]
  PROVE  BufferInv'
<1>1. q \in Seq(Nat)
  BY ViewFacts
<1>2. outs' \in [OutBufs -> [arr : Nat, size : Nat]] /\ due' \in [OutBufs -> Seq(Nat)]
  BY <1>1 DEF BufferInv, BufferType
<1>3. ASSUME NEW p \in OutBufs PROVE OutGives(p)'
  BY DEF BufferInv, BufferType, OutGives
<1> QED BY <1>2, <1>3, OutStep

LEMMA OutActions ==
  ASSUME BufferInv, BuffersAssumption
  PROVE  /\ \A o \in OutBufs, n \in 1..SourceSize : OutReset(o, n) \/ OutShrink(o, n) => BufferInv'
         /\ \A o, p \in OutBufs :
              o # p /\ (OutCopy(o, p) \/ OutMove(o, p) \/ OutSwap(o, p)) => BufferInv'
<1> USE DEF BufferInv
<1>1. ASSUME NEW o \in OutBufs, NEW n \in 1..SourceSize, OutReset(o, n)
      PROVE  BufferInv'
  <2> DEFINE w == [arr |-> 1, size |-> n]
  <2>1. w \in [arr : Nat, size : Nat] /\ View(1, n) = View(w.arr, w.size)
    BY DEF BuffersAssumption
  <2>2. /\ outs' = [outs EXCEPT ![o] = w] /\ due' = [due EXCEPT ![o] = View(1, n)]
        /\ UNCHANGED <<inVars, wire>>
    BY <1>1 DEF OutReset
  <2> HIDE DEF w
  <2> QED BY <2>1, <2>2, OutSet
<1>2. ASSUME NEW o \in OutBufs, NEW n \in 1..SourceSize, OutShrink(o, n)
      PROVE  BufferInv'
  <2> DEFINE w == [outs[o] EXCEPT !.size = @ - n]
             q == SubSeq(due[o], 1, Len(due[o]) - n)
  <2>1. /\ outs[o] \in [arr : Nat, size : Nat] /\ n \in Nat /\ outs[o].size >= n
        /\ due[o] = View(outs[o].arr, outs[o].size)
    BY <1>2 DEF OutShrink, OutReadable, BufferType, OutGives
  <2>2. outs[o].size - n \in Nat /\ outs[o].size - n <= outs[o].size
    BY <2>1
  <2>3. w \in [arr : Nat, size : Nat] /\ w.arr = outs[o].arr /\ w.size = outs[o].size - n
    BY <2>1, <2>2
  <2>4. Len(due[o]) = outs[o].size
    <3>1. outs[o].arr \in Nat /\ outs[o].size \in Nat
      BY <2>1
    <3>2. Len(View(outs[o].arr, outs[o].size)) = outs[o].size
      BY <3>1, ViewFacts
    <3> QED BY <2>1, <3>2
  <2>5. SubSeq(View(outs[o].arr, outs[o].size), 1, outs[o].size - n)
          = View(outs[o].arr, outs[o].size - n)
    <3> DEFINE a == outs[o].arr
               z == outs[o].size
               d == z - n
    <3>1. a \in Nat /\ z \in Nat /\ d \in Nat /\ d <= z
      BY <2>1, <2>2
    <3> HIDE DEF a, z, d
    <3>2. SubSeq(View(a, z), 1, d) = View(a, d)
      BY <3>1, ViewParts
    <3> QED BY <3>2 DEF a, z, d
  <2>6. q = View(w.arr, w.size)
    BY <2>1, <2>3, <2>4, <2>5
  <2>7. outs' = [outs EXCEPT ![o] = w] /\ due' = [due EXCEPT ![o] = q]
    BY <1>2 DEF OutShrink, BufferType
  <2>8. UNCHANGED <<inVars, wire>>
    BY <1>2 DEF OutShrink
  <2> HIDE DEF w, q
  <2> QED BY <2>3, <2>6, <2>7, <2>8, OutSet
<1>3. ASSUME NEW o \in OutBufs, NEW p \in OutBufs, OutCopy(o, p)
      PROVE  BufferInv'
  <2>1. outs[p] \in [arr : Nat, size : Nat] /\ due[p] = View(outs[p].arr, outs[p].size)
    BY DEF BufferType, OutGives
  <2> QED BY <1>3, <2>1, OutSet DEF OutCopy
<1>4. ASSUME NEW o \in OutBufs, NEW p \in OutBufs, o # p, OutMove(o, p)
      PROVE  BufferInv'
  <2>1. View(0, 0) \in Seq(Nat) /\ Len(View(0, 0)) = 0 /\ NullOut \in [arr : Nat, size : Nat]
    BY ViewFacts DEF NullOut
  <2>2. View(NullOut.arr, NullOut.size) = <<>>
    BY <2>1, EmptySeq DEF NullOut
  <2>3. outs' \in [OutBufs -> [arr : Nat, size : Nat]]
    BY <1>4, <2>1 DEF OutMove, BufferType
  <2>4. due' \in [OutBufs -> Seq(Nat)]
    <3>1. <<>> \in Seq(Nat)
      OBVIOUS
    <3> QED BY <1>4, <3>1 DEF OutMove, BufferType
  <2>5. \A u \in OutBufs : OutGives(u)'
    BY <1>4, <2>2 DEF OutMove, BufferType, OutGives
  <2>6. UNCHANGED <<inVars, wire>>
    BY <1>4 DEF OutMove
  <2> QED BY <2>3, <2>4, <2>5, <2>6, OutStep
<1>5. ASSUME NEW o \in OutBufs, NEW p \in OutBufs, o # p, OutSwap(o, p)
      PROVE  BufferInv'
  <2>1. outs' \in [OutBufs -> [arr : Nat, size : Nat]] /\ due' \in [OutBufs -> Seq(Nat)]
    BY <1>5 DEF OutSwap, BufferType
  <2>2. \A u \in OutBufs : OutGives(u)'
    BY <1>5 DEF OutSwap, BufferType, OutGives
  <2> QED BY <1>5, <2>1, <2>2, OutStep DEF OutSwap
<1> QED BY <1>1, <1>2, <1>3, <1>4, <1>5

(* The windows of in_buffers are exchanged, and with them what they hold.  *)
LEMMA InStep ==
  ASSUME BufferInv, UNCHANGED <<outVars, memory, wire>>,
         ins' \in [InBufs -> [arr : Nat, size : Nat, valid : Nat]],
         stored' \in [InBufs -> Seq(Nat)], spoiled' \in SUBSET InBufs,
         \A b \in InBufs :
           \/ InFits(b)' /\ InHolds(b)'
           \/ \E c \in InBufs : /\ ins'[b] = ins[c]
                                /\ stored'[b] = stored[c]
                                /\ b \in spoiled' <=> c \in spoiled
  PROVE  BufferInv'
<1>1. UNCHANGED <<outs, due, memory, wire>>
  BY DEF outVars
<1>2. BufferType'
  BY <1>1 DEF BufferInv, BufferType
<1>3. \A o \in OutBufs : OutGives(o)'
  BY <1>1 DEF BufferInv, OutGives
<1>4. \A b \in InBufs : (InFits(b) /\ InHolds(b))'
  <2> SUFFICES ASSUME NEW b \in InBufs PROVE (InFits(b) /\ InHolds(b))'
    OBVIOUS
  <2>1. ASSUME NEW c \in InBufs, ins'[b] = ins[c], stored'[b] = stored[c],
               b \in spoiled' <=> c \in spoiled
        PROVE  (InFits(b) /\ InHolds(b))'
    <3>1. InFits(c) /\ InHolds(c)
      BY DEF BufferInv
    <3> QED BY <1>1, <2>1, <3>1 DEF InFits, InHolds
  <2> QED BY <2>1
<1> QED BY <1>2, <1>3, <1>4 DEF BufferInv

LEMMA InActions ==
  ASSUME BufferInv, BuffersAssumption
  PROVE  /\ \A b \in InBufs, n \in 1..MemorySize : InReset(b, n) => BufferInv'
         /\ \A b, c \in InBufs :
              b # c /\ (InCopy(b, c) \/ InMove(b, c) \/ InSwap(b, c)) => BufferInv'
<1>0. /\ <<>> \in Seq(Nat) /\ Len(<<>>) = 0
      /\ NullIn \in [arr : Nat, size : Nat, valid : Nat]
  BY DEF NullIn
<1>1. ASSUME NEW b \in InBufs, NEW n \in 1..MemorySize, InReset(b, n)
      PROVE  BufferInv'
  <2>1. ins' \in [InBufs -> [arr : Nat, size : Nat, valid : Nat]]
    BY <1>1 DEF InReset, BufferInv, BufferType, BuffersAssumption
  <2>2. stored' \in [InBufs -> Seq(Nat)] /\ spoiled' \in SUBSET InBufs
    BY <1>0, <1>1 DEF InReset, BufferInv, BufferType
  <2>3. ins'[b] = [arr |-> 1, size |-> n, valid |-> 0] /\ stored'[b] = <<>>
    BY <1>1 DEF InReset, BufferInv, BufferType
  <2>4. InFits(b)' /\ InHolds(b)'
    BY <1>0, <2>3 DEF InFits, InHolds, BuffersAssumption
  <2>5. \A c \in InBufs : c # b => /\ ins'[c] = ins[c] /\ stored'[c] = stored[c]
                                   /\ c \in spoiled' <=> c \in spoiled
    BY <1>1 DEF InReset, BufferInv, BufferType
  <2>6. UNCHANGED <<outVars, memory, wire>>
    BY <1>1 DEF InReset
  <2> QED BY <2>1, <2>2, <2>4, <2>5, <2>6, InStep
<1>2. ASSUME NEW b \in InBufs, NEW c \in InBufs, b # c, InCopy(b, c)
      PROVE  BufferInv'
  <2>1. /\ ins' \in [InBufs -> [arr : Nat, size : Nat, valid : Nat]]
        /\ stored' \in [InBufs -> Seq(Nat)] /\ spoiled' \in SUBSET InBufs
    BY <1>2 DEF InCopy, Moved, BufferInv, BufferType
  <2>2. \A d \in InBufs : d # b => /\ ins'[d] = ins[d] /\ stored'[d] = stored[d]
                                   /\ d \in spoiled' <=> d \in spoiled
    BY <1>2 DEF InCopy, Moved, BufferInv, BufferType
  <2>3. ins'[b] = ins[c] /\ stored'[b] = stored[c] /\ (b \in spoiled' <=> c \in spoiled)
    BY <1>2 DEF InCopy, Moved, BufferInv, BufferType
  <2>4. UNCHANGED <<outVars, memory, wire>>
    BY <1>2 DEF InCopy
  <2> QED BY <2>1, <2>2, <2>3, <2>4, InStep
<1>3. ASSUME NEW b \in InBufs, NEW c \in InBufs, b # c, InMove(b, c)
      PROVE  BufferInv'
  <2>1. /\ ins' \in [InBufs -> [arr : Nat, size : Nat, valid : Nat]]
        /\ stored' \in [InBufs -> Seq(Nat)] /\ spoiled' \in SUBSET InBufs
    BY <1>0, <1>3 DEF InMove, Moved, BufferInv, BufferType
  <2>2. \A d \in InBufs : d \notin {b, c} => /\ ins'[d] = ins[d] /\ stored'[d] = stored[d]
                                             /\ d \in spoiled' <=> d \in spoiled
    BY <1>3 DEF InMove, Moved, BufferInv, BufferType
  <2>3. ins'[b] = ins[c] /\ stored'[b] = stored[c] /\ (b \in spoiled' <=> c \in spoiled)
    BY <1>3 DEF InMove, Moved, BufferInv, BufferType
  <2>4. ins'[c] = NullIn /\ stored'[c] = <<>>
    BY <1>3 DEF InMove, BufferInv, BufferType
  <2>5. InFits(c)' /\ InHolds(c)'
    BY <1>0, <2>4 DEF InFits, InHolds, BuffersAssumption, NullIn
  <2>6. UNCHANGED <<outVars, memory, wire>>
    BY <1>3 DEF InMove
  <2> QED BY <2>1, <2>2, <2>3, <2>5, <2>6, InStep
<1>4. ASSUME NEW b \in InBufs, NEW c \in InBufs, b # c, InSwap(b, c)
      PROVE  BufferInv'
  <2>1. /\ ins' \in [InBufs -> [arr : Nat, size : Nat, valid : Nat]]
        /\ stored' \in [InBufs -> Seq(Nat)] /\ spoiled' \in SUBSET InBufs
    BY <1>4 DEF InSwap, BufferInv, BufferType
  <2>2. \A d \in InBufs : d \notin {b, c} => /\ ins'[d] = ins[d] /\ stored'[d] = stored[d]
                                             /\ d \in spoiled' <=> d \in spoiled
    BY <1>4 DEF InSwap, BufferInv, BufferType
  <2>3. ins'[b] = ins[c] /\ stored'[b] = stored[c] /\ (b \in spoiled' <=> c \in spoiled)
    BY <1>4 DEF InSwap, BufferInv, BufferType
  <2>4. ins'[c] = ins[b] /\ stored'[c] = stored[b] /\ (c \in spoiled' <=> b \in spoiled)
    BY <1>4 DEF InSwap, BufferInv, BufferType
  <2>5. UNCHANGED <<outVars, memory, wire>>
    BY <1>4 DEF InSwap
  <2> QED BY <2>1, <2>2, <2>3, <2>4, <2>5, InStep
<1> QED BY <1>1, <1>2, <1>3, <1>4

(* Where bytes go in a window, and what they leave alone in another one.   *)
LEMMA PutRange ==
  ASSUME NEW arr \in Nat, NEW room \in Nat, NEW valid \in Nat, NEW n \in Nat, n > 0,
         NEW first, first = arr \/ first = arr + valid, valid + n <= room,
         room > 0 => arr > 0, NEW total \in Nat, arr + room <= total + 1
  PROVE  first \in Nat /\ first + n - 1 <= total /\ first > 0
OBVIOUS

LEMMA ApartRange ==
  ASSUME NEW arr \in Nat, NEW room \in Nat, NEW valid \in Nat, NEW n \in Nat,
         NEW first \in Nat, NEW i \in 1..valid, valid <= room,
         room > 0 => arr > 0, NEW total \in Nat, arr + room <= total + 1,
         ~(valid > 0 /\ arr < first + n /\ first < arr + valid)
  PROVE  arr + i - 1 \in 1..total /\ arr + i - 1 \notin first..(first + n - 1)
OBVIOUS

LEMMA NewRange ==
  ASSUME NEW arr \in Nat, NEW valid \in Nat, NEW n \in Nat, NEW i \in Nat,
         i <= valid + n, i > valid, NEW first \in Nat, first = arr + valid,
         first > 0, NEW total \in Nat, first + n - 1 <= total
  PROVE  /\ arr + i - 1 \in first..(first + n - 1)
         /\ (arr + i - 1) - first + 1 = i - valid
         /\ arr + i - 1 \in 1..total
OBVIOUS

(* Bytes are stored behind the valid ones, or at the begin of a buffer     *)
(* that may hold some: then it is spoiled, as every buffer is whose valid  *)
(* bytes are overwritten; the others are left alone.                       *)
LEMMA PutHolds ==
  ASSUME BufferInv, BuffersAssumption, NEW b \in InBufs, NEW bytes \in Seq(Nat), bytes # <<>>,
         NEW first \in {ins[b].arr, ins[b].arr + ins[b].valid},
         ins[b].valid + Len(bytes) <= ins[b].size,
         Put(b, first, bytes)
  PROVE  /\ ins' \in [InBufs -> [arr : Nat, size : Nat, valid : Nat]]
         /\ memory' \in [1..MemorySize -> Nat]
         /\ stored' \in [InBufs -> Seq(Nat)]
         /\ spoiled' \in SUBSET InBufs
         /\ \A c \in InBufs : InFits(c)' /\ InHolds(c)'
<1> DEFINE n == Len(bytes)
<1>0. n \in Nat /\ n > 0 /\ MemorySize \in Nat
  BY EmptySeq, LenProperties DEF BuffersAssumption
<1>b. \A i \in 1..n : bytes[i] \in Nat
  BY ElementOfSeq
<1>1. BufferType /\ \A c \in InBufs : InFits(c) /\ InHolds(c)
  BY DEF BufferInv
<1>2. \A c \in InBufs : /\ ins[c] \in [arr : Nat, size : Nat, valid : Nat]
                        /\ ins[c].arr \in Nat /\ ins[c].size \in Nat /\ ins[c].valid \in Nat
  BY <1>1 DEF BufferType
<1>3. /\ ins'[b].arr = ins[b].arr /\ ins'[b].size = ins[b].size
      /\ ins'[b].valid = ins[b].valid + n
      /\ \A c \in InBufs : c # b => ins'[c] = ins[c]
      /\ ins' \in [InBufs -> [arr : Nat, size : Nat, valid : Nat]]
  <2>1. ins' = [ins EXCEPT ![b].valid = @ + n]
    BY DEF Put
  <2>2. ins[b].valid + n \in Nat /\ ins \in [InBufs -> [arr : Nat, size : Nat, valid : Nat]]
    BY <1>0, <1>1, <1>2 DEF BufferType
  <2> HIDE DEF n
  <2> QED BY <2>1, <2>2
<1>4. /\ stored' \in [InBufs -> Seq(Nat)]
      /\ stored'[b] = stored[b] \o bytes
      /\ \A c \in InBufs : c # b => stored'[c] = stored[c]
  <2>1. stored[b] \in Seq(Nat)
    BY <1>1 DEF BufferType
  <2>2. stored[b] \o bytes \in Seq(Nat)
    BY <2>1, ConcatProperties
  <2> QED BY <1>1, <2>2 DEF Put, BufferType
<1>5. first \in Nat /\ first + n - 1 <= MemorySize /\ first > 0
  <2>1. /\ ins[b].arr \in Nat /\ ins[b].size \in Nat /\ ins[b].valid \in Nat
        /\ first = ins[b].arr \/ first = ins[b].arr + ins[b].valid
        /\ ins[b].valid + n <= ins[b].size
    BY <1>2
  <2>2. /\ ins[b].size > 0 => ins[b].arr > 0
        /\ ins[b].arr + ins[b].size <= MemorySize + 1
    BY <1>1 DEF InFits
  <2> HIDE DEF n
  <2>3. PICK a \in Nat, s \in Nat, v \in Nat :
          a = ins[b].arr /\ s = ins[b].size /\ v = ins[b].valid
    BY <2>1
  <2>4. /\ first = a \/ first = a + v
        /\ v + n <= s
        /\ s > 0 => a > 0
        /\ a + s <= MemorySize + 1
    BY <2>1, <2>2, <2>3
  <2> QED BY <1>0, <2>4, PutRange
<1>6. ASSUME NEW i \in 1..MemorySize
      PROVE  /\ i \in first..(first + n - 1) => memory'[i] = bytes[i - first + 1]
             /\ i \notin first..(first + n - 1) => memory'[i] = memory[i]
  BY <1>1, <1>6 DEF Put, BufferType
<1>7. memory' \in [1..MemorySize -> Nat]
  <2>1. memory' = [i \in 1..MemorySize |-> IF i \in first..(first + n - 1)
                                           THEN bytes[i - first + 1] ELSE memory[i]]
    BY <1>1 DEF Put, BufferType
  <2>2. ASSUME NEW i \in 1..MemorySize
        PROVE  (IF i \in first..(first + n - 1) THEN bytes[i - first + 1] ELSE memory[i]) \in Nat
    <3>1. CASE i \in first..(first + n - 1)
      <4>1. i - first + 1 \in 1..n
        BY <1>0, <1>5, <3>1
      <4> QED BY <1>b, <3>1, <4>1
    <3>2. CASE i \notin first..(first + n - 1)
      BY <1>1, <3>2 DEF BufferType
    <3> QED BY <3>1, <3>2
  <2> QED BY <2>1, <2>2
<1>8. /\ spoiled' \in SUBSET InBufs /\ spoiled \subseteq spoiled'
      /\ \A c \in InBufs : c \notin spoiled' =>
           ~(ins[c].valid > 0 /\ ins[c].arr < first + n /\ first < ins[c].arr + ins[c].valid)
  BY <1>1 DEF Put, BufferType
<1> HIDE DEF n
<1>9. \A c \in InBufs : InFits(c)'
  BY <1>1, <1>2, <1>3 DEF InFits, n
<1>10. ASSUME NEW c \in InBufs, c \notin spoiled', NEW i \in 1..ins[c].valid
       PROVE  memory'[ins[c].arr + i - 1] = stored[c][i]
  <2> DEFINE p == ins[c].arr + i - 1
  <2>1. p \in 1..MemorySize /\ p \notin first..(first + n - 1)
    <3>1. /\ ins[c].arr \in Nat /\ ins[c].size \in Nat /\ ins[c].valid \in Nat
          /\ ins[c].valid <= ins[c].size
          /\ ins[c].size > 0 => ins[c].arr > 0
          /\ ins[c].arr + ins[c].size <= MemorySize + 1
      BY <1>1, <1>2 DEF InFits
    <3>2. ~(ins[c].valid > 0 /\ ins[c].arr < first + n /\ first < ins[c].arr + ins[c].valid)
      BY <1>8, <1>10
    <3> QED BY <1>0, <1>5, <3>1, <3>2, ApartRange
  <2>2. memory'[p] = memory[p]
    BY <1>6, <2>1
  <2>3. memory[p] = stored[c][i]
    BY <1>1, <1>8, <1>10 DEF InHolds
  <2> QED BY <2>2, <2>3
<1>11. ASSUME NEW c \in InBufs, c # b PROVE InHolds(c)'
  BY <1>1, <1>3, <1>4, <1>10, <1>11 DEF InHolds
<1>12. InHolds(b)'
  <2>1. stored[b] \in Seq(Nat) /\ Len(stored[b]) = ins[b].valid
    BY <1>1 DEF BufferType, InHolds
  <2>2. /\ Len(stored'[b]) = ins[b].valid + n
        /\ \A i \in 1..(ins[b].valid + n) :
             stored'[b][i] = IF i <= ins[b].valid THEN stored[b][i] ELSE bytes[i - ins[b].valid]
    <3>1. /\ Len(stored[b] \o bytes) = Len(stored[b]) + Len(bytes)
          /\ \A i \in 1..(Len(stored[b]) + Len(bytes)) :
               (stored[b] \o bytes)[i] = IF i <= Len(stored[b]) THEN stored[b][i]
                                         ELSE bytes[i - Len(stored[b])]
      BY <2>1, ConcatProperties
    <3> QED BY <1>4, <2>1, <3>1 DEF n
  <2>3. ASSUME b \notin spoiled', NEW i \in 1..(ins[b].valid + n)
        PROVE  memory'[ins[b].arr + i - 1] = stored'[b][i]
    <3>1. CASE i <= ins[b].valid
      <4>1. i \in 1..ins[b].valid
        BY <1>0, <1>2, <3>1
      <4> QED BY <1>10, <2>2, <2>3, <3>1, <4>1
    <3>2. CASE i > ins[b].valid
      <4>1. first = ins[b].arr + ins[b].valid
        <5>1. CASE ins[b].valid = 0
          BY <1>2, <5>1
        <5>2. CASE ins[b].valid > 0
          <6>1. /\ ~(ins[b].arr < first + n /\ first < ins[b].arr + ins[b].valid)
                /\ first = ins[b].arr \/ first = ins[b].arr + ins[b].valid
            BY <1>8, <2>3, <5>2
          <6>2. PICK a \in Nat, v \in Nat : a = ins[b].arr /\ v = ins[b].valid
            BY <1>2
          <6>3. ~(a < first + n /\ first < a + v) /\ (first = a \/ first = a + v) /\ v > 0
            BY <5>2, <6>1, <6>2
          <6>4. first = a + v
            BY <1>0, <6>3
          <6> QED BY <6>2, <6>4
        <5> QED BY <1>2, <5>1, <5>2
      <4>2. /\ (ins[b].arr + i - 1) \in first..(first + n - 1)
            /\ (ins[b].arr + i - 1) - first + 1 = i - ins[b].valid
            /\ (ins[b].arr + i - 1) \in 1..MemorySize
        <5>1. /\ ins[b].arr \in Nat /\ ins[b].valid \in Nat
              /\ first \in Nat /\ first > 0 /\ first + n - 1 <= MemorySize
              /\ n \in Nat /\ MemorySize \in Nat
          BY <1>0, <1>2, <1>5
        <5>2. i \in Nat /\ i <= ins[b].valid + n /\ i > ins[b].valid
          BY <2>3, <3>2, <5>1
        <5>3. PICK a \in Nat, v \in Nat : a = ins[b].arr /\ v = ins[b].valid
          BY <5>1
        <5>4. first = a + v /\ i <= v + n /\ i > v
          BY <4>1, <5>2, <5>3
        <5>5. /\ a + i - 1 \in first..(first + n - 1)
              /\ (a + i - 1) - first + 1 = i - v
              /\ a + i - 1 \in 1..MemorySize
          BY <5>1, <5>2, <5>4, NewRange
        <5> QED BY <5>3, <5>5
      <4>3. memory'[ins[b].arr + i - 1] = bytes[i - ins[b].valid]
        BY <1>6, <4>2
      <4>4. ~(i <= ins[b].valid)
        BY <1>2, <3>2
      <4> QED BY <2>2, <4>3, <4>4
    <3> QED BY <1>0, <1>2, <3>1, <3>2
  <2> QED BY <1>3, <2>2, <2>3 DEF InHolds
<1> QED BY <1>3, <1>4, <1>7, <1>8, <1>9, <1>11, <1>12

(* What out_buffers give is untouched by what is stored, or the one that   *)
(* was read gives the rest of its bytes.                                   *)
LEMMA PutStep ==
  ASSUME BufferInv, BuffersAssumption, NEW b \in InBufs, NEW bytes \in Seq(Nat), bytes # <<>>,
         NEW first \in {ins[b].arr, ins[b].arr + ins[b].valid},
         ins[b].valid + Len(bytes) <= ins[b].size,
         Put(b, first, bytes), wire' \in Seq(Nat),
         outs' \in [OutBufs -> [arr : Nat, size : Nat]],
         due' \in [OutBufs -> Seq(Nat)], \A o \in OutBufs : OutGives(o)'
  PROVE  BufferInv'
<1>1. /\ ins' \in [InBufs -> [arr : Nat, size : Nat, valid : Nat]]
      /\ memory' \in [1..MemorySize -> Nat]
      /\ stored' \in [InBufs -> Seq(Nat)]
      /\ spoiled' \in SUBSET InBufs
      /\ \A c \in InBufs : InFits(c)' /\ InHolds(c)'
  BY PutHolds
<1>2. BufferType'
  BY <1>1 DEF BufferType
<1> QED BY <1>1, <1>2 DEF BufferInv

(* The bytes read() or peek() hands over fit behind the valid ones.        *)
LEMMA HandedOver ==
  ASSUME BufferInv, BuffersAssumption, NEW o \in OutBufs, NEW b \in InBufs,
         NEW n \in 1..SourceSize, OutReadable(o, n), Writeable(b) >= n
  PROVE  /\ outs[o] \in [arr : Nat, size : Nat] /\ n \in Nat /\ n <= outs[o].size
         /\ View(outs[o].arr, n) \in Seq(Nat) /\ View(outs[o].arr, n) # <<>>
         /\ ins[b].valid + Len(View(outs[o].arr, n)) <= ins[b].size
<1>1. /\ outs[o] \in [arr : Nat, size : Nat] /\ n \in Nat /\ n > 0
      /\ outs[o].arr \in Nat /\ outs[o].size \in Nat /\ outs[o].size >= n
  BY DEF BufferInv, BufferType, BuffersAssumption, OutReadable
<1>2. View(outs[o].arr, n) \in Seq(Nat) /\ Len(View(outs[o].arr, n)) = n
  BY <1>1, ViewFacts
<1>3. ins[b].valid \in Nat /\ ins[b].size \in Nat /\ ins[b].size - ins[b].valid >= n
  BY DEF BufferInv, BufferType, Writeable
<1>4. ins[b].valid + n <= ins[b].size
  BY <1>1, <1>3
<1>5. View(outs[o].arr, n) # <<>>
  BY <1>1, <1>2
<1> QED BY <1>1, <1>2, <1>4, <1>5

LEMMA WriteActions ==
  ASSUME BufferInv, BuffersAssumption, NEW o \in OutBufs, NEW b \in InBufs,
         NEW n \in 1..SourceSize, InWrite(o, b, n) \/ InWritePeeked(o, b, n)
  PROVE  BufferInv'
<1>0. OutReadable(o, n) /\ Writeable(b) >= n
  BY DEF InWrite, InWritePeeked
<1>1. /\ outs[o] \in [arr : Nat, size : Nat] /\ n \in Nat /\ n <= outs[o].size
      /\ View(outs[o].arr, n) \in Seq(Nat) /\ View(outs[o].arr, n) # <<>>
      /\ ins[b].valid + Len(View(outs[o].arr, n)) <= ins[b].size
  BY <1>0, HandedOver
<1>2. BufferType /\ wire \in Seq(Nat) /\ \A u \in OutBufs : OutGives(u)
  BY DEF BufferInv, BufferType
<1>3. CASE InWritePeeked(o, b, n)
  <2>1. /\ outs' = outs /\ due' = due /\ wire' = wire
        /\ Put(b, ins[b].arr + ins[b].valid, View(outs[o].arr, n))
    BY <1>3 DEF InWritePeeked, outVars
  <2>2. \A u \in OutBufs : OutGives(u)'
    BY <1>2, <2>1 DEF OutGives
  <2> QED BY <1>1, <1>2, <2>1, <2>2, PutStep DEF BufferType
<1>4. CASE InWrite(o, b, n)
  <2>1. /\ outs' = [outs EXCEPT ![o] = [arr |-> outs[o].arr + n, size |-> outs[o].size - n]]
        /\ due' = [due EXCEPT ![o] = Drop(due[o], n)] /\ wire' = wire
        /\ Put(b, ins[b].arr + ins[b].valid, View(outs[o].arr, n))
    BY <1>4 DEF InWrite, Forwarded
  <2>2. outs[o].arr + n \in Nat /\ outs[o].size - n \in Nat /\ outs[o].arr \in Nat
        /\ outs[o].size \in Nat
    BY <1>1
  <2>3. Drop(due[o], n) = View(outs[o].arr + n, outs[o].size - n)
    <3>1. due[o] = View(outs[o].arr, outs[o].size)
      BY <1>2 DEF OutGives
    <3>2. n \in Nat /\ n <= outs[o].size
      BY <1>1
    <3>3. Drop(View(outs[o].arr, outs[o].size), n)
            = View(outs[o].arr + n, outs[o].size - n)
      <4>1. PICK a \in Nat, w \in Nat : a = outs[o].arr /\ w = outs[o].size
        BY <2>2
      <4>2. n <= w
        BY <3>2, <4>1
      <4>3. Drop(View(a, w), n) = View(a + n, w - n)
        BY <3>2, <4>2, ViewParts
      <4> QED BY <4>1, <4>3
    <3> QED BY <3>1, <3>3
  <2>4. Drop(due[o], n) \in Seq(Nat)
    BY <2>2, <2>3, ViewFacts
  <2>5. outs' \in [OutBufs -> [arr : Nat, size : Nat]] /\ due' \in [OutBufs -> Seq(Nat)]
    BY <1>2, <2>1, <2>2, <2>4 DEF BufferType
  <2>6. ASSUME NEW u \in OutBufs PROVE OutGives(u)'
    <3>1. CASE u = o
      <4>1. /\ outs'[o] = [arr |-> outs[o].arr + n, size |-> outs[o].size - n]
            /\ due'[o] = Drop(due[o], n)
        BY <1>2, <2>1 DEF BufferType
      <4>2. outs'[o].arr = outs[o].arr + n /\ outs'[o].size = outs[o].size - n
        BY <4>1
      <4> QED BY <2>3, <3>1, <4>1, <4>2 DEF OutGives
    <3>2. CASE u # o
      <4>1. outs'[u] = outs[u] /\ due'[u] = due[u]
        BY <1>2, <2>1, <3>2 DEF BufferType
      <4> QED BY <1>2, <4>1 DEF OutGives
    <3> QED BY <3>1, <3>2
  <2> QED BY <1>1, <1>2, <2>1, <2>5, <2>6, PutStep
<1> QED BY <1>3, <1>4

LEMMA RecvActions ==
  ASSUME BufferInv, BuffersAssumption, NEW b \in InBufs, NEW k \in 1..MaxWire,
         NEW peek \in BOOLEAN, Recv(b, k, peek)
  PROVE  BufferInv'
<1>1. /\ wire \in Seq(Nat) /\ Len(wire) \in Nat /\ k \in Nat /\ k > 0 /\ k <= Len(wire)
      /\ k <= ins[b].size - ins[b].valid
  BY LenProperties DEF Recv, Writeable, BufferInv, BufferType, BuffersAssumption
<1>2. \A i \in 1..Len(wire) : wire[i] \in Nat
  BY <1>1, ElementOfSeq
<1>3. SubSeq(wire, 1, k) \in Seq(Nat) /\ Len(SubSeq(wire, 1, k)) = k
  <2>1. \A i \in 1..k : wire[i] \in Nat
    BY <1>1, <1>2
  <2>2. /\ SubSeq(wire, 1, k) \in Seq(Nat)
        /\ Len(SubSeq(wire, 1, k)) = IF 1 <= k THEN k - 1 + 1 ELSE 0
    BY <1>1, <2>1, SubSeqProperties
  <2> QED BY <1>1, <2>2
<1>4. Drop(wire, k) \in Seq(Nat)
  <2>1. \A i \in (k + 1)..Len(wire) : wire[i] \in Nat
    BY <1>1, <1>2
  <2> QED BY <1>1, <2>1, SubSeqProperties DEF Drop
<1>5. SubSeq(wire, 1, k) # <<>>
  BY <1>1, <1>3
<1>6. ins[b].valid + Len(SubSeq(wire, 1, k)) <= ins[b].size
  <2>1. ins[b].valid \in Nat /\ ins[b].size \in Nat
    BY DEF BufferInv, BufferType
  <2>2. ins[b].valid + k <= ins[b].size
    <3> DEFINE v == ins[b].valid
               z == ins[b].size
    <3>1. v \in Nat /\ z \in Nat /\ k \in Nat /\ k <= z - v
      BY <1>1, <2>1
    <3> HIDE DEF v, z
    <3>2. v + k <= z
      BY <3>1
    <3> QED BY <3>2 DEF v, z
  <2> QED BY <1>3, <2>2
<1>7. /\ outs' = outs /\ due' = due /\ Put(b, ins[b].arr, SubSeq(wire, 1, k))
      /\ wire' = wire \/ wire' = Drop(wire, k)
  BY DEF Recv, outVars
<1>8. BufferType /\ \A o \in OutBufs : OutGives(o)'
  BY <1>7 DEF BufferInv, OutGives
<1> QED BY <1>1, <1>3, <1>4, <1>5, <1>6, <1>7, <1>8, PutStep DEF BufferType

LEMMA SendActions ==
  ASSUME BufferInv, NEW o \in OutBufs, NEW k \in Nat, Send(o, k)
  PROVE  BufferInv'
<1>1. UNCHANGED <<outs, due, ins, memory, stored, spoiled>>
  BY DEF Send, inVars, outVars
<1>2. wire' \in Seq(Nat)
  <2>1. outs[o].arr \in Nat /\ wire \in Seq(Nat)
    BY DEF BufferInv, BufferType
  <2>2. View(outs[o].arr, k) \in Seq(Nat)
    BY <2>1, ViewFacts
  <2>3. wire \o View(outs[o].arr, k) \in Seq(Nat)
    BY <2>1, <2>2, ConcatProperties
  <2> QED BY <2>3 DEF Send
<1> QED BY <1>1, <1>2 DEF BufferInv, BufferType, OutGives, InFits, InHolds

(* at() wraps for the largest index of size_t and for no other one.        *)
LEMMA AtIsBounded ==
  ASSUME BufferInv, BuffersAssumption, NEW b \in InBufs,
         NEW idx \in 0..(SizeLimit - 1), InAt(b, idx)
  PROVE  idx < ins[b].valid \/ idx = SizeLimit - 1
<1>1. idx \in Nat /\ ins[b].valid \in Nat /\ SizeLimit \in Nat
  BY DEF BufferInv, BufferType, BuffersAssumption
<1>2. CASE idx + 1 < SizeLimit
  <2>1. (idx + 1) % SizeLimit = idx + 1
    BY <1>1, <1>2, ModBelow
  <2> QED BY <1>1, <2>1 DEF InAt, InReadable
<1>3. CASE ~(idx + 1 < SizeLimit)
  BY <1>1, <1>3
<1> QED BY <1>2, <1>3

LEMMA BufferInvariant == BuffersSpec => []BufferInv
<1> USE BuffersAssumption
<1>1. BuffersInit => BufferInv
  <2> SUFFICES ASSUME BuffersInit PROVE BufferInv
    OBVIOUS
  <2>1. <<>> \in Seq(Nat) /\ Len(<<>>) = 0 /\ View(0, 0) \in Seq(Nat) /\ Len(View(0, 0)) = 0
    <3>1. <<>> \in Seq(Nat) /\ Len(<<>>) = 0
      OBVIOUS
    <3>2. 0 \in Nat
      OBVIOUS
    <3>3. View(0, 0) \in Seq(Nat) /\ Len(View(0, 0)) = 0
      BY <3>2, ViewFacts
    <3> QED BY <3>1, <3>3
  <2>2. View(0, 0) = <<>>
    BY <2>1, EmptySeq
  <2>3. outs \in [OutBufs -> [arr : Nat, size : Nat]]
    BY DEF BuffersInit, NullOut
  <2>4. ins \in [InBufs -> [arr : Nat, size : Nat, valid : Nat]]
    BY DEF BuffersInit, NullIn
  <2>5. memory \in [1..MemorySize -> Nat] /\ wire \in Seq(Nat) /\ spoiled \in SUBSET InBufs
    BY <2>1 DEF BuffersInit
  <2>6. due \in [OutBufs -> Seq(Nat)] /\ stored \in [InBufs -> Seq(Nat)]
    BY <2>1 DEF BuffersInit
  <2>7. \A o \in OutBufs : OutGives(o)
    BY <2>2 DEF BuffersInit, NullOut, OutGives
  <2>8. \A b \in InBufs : InFits(b) /\ InHolds(b)
    BY <2>1 DEF BuffersInit, NullIn, InFits, InHolds, BuffersAssumption
  <2> QED BY <2>3, <2>4, <2>5, <2>6, <2>7, <2>8 DEF BufferInv, BufferType
<1>2. BufferInv /\ [BuffersNext]_bufferVars => BufferInv'
  <2> SUFFICES ASSUME BufferInv, [BuffersNext]_bufferVars PROVE BufferInv'
    OBVIOUS
  <2>1. ASSUME NEW o \in OutBufs, NEW n \in 1..SourceSize, OutReset(o, n) \/ OutShrink(o, n)
        PROVE  BufferInv'
    BY <2>1, OutActions
  <2>2. ASSUME NEW o \in OutBufs, NEW p \in OutBufs, o # p,
               OutCopy(o, p) \/ OutMove(o, p) \/ OutSwap(o, p)
        PROVE  BufferInv'
    BY <2>2, OutActions
  <2>3. ASSUME NEW b \in InBufs, NEW n \in 1..MemorySize, InReset(b, n)
        PROVE  BufferInv'
    BY <2>3, InActions
  <2>4. ASSUME NEW b \in InBufs, NEW c \in InBufs, b # c,
               InCopy(b, c) \/ InMove(b, c) \/ InSwap(b, c)
        PROVE  BufferInv'
    BY <2>4, InActions
  <2>5. ASSUME NEW o \in OutBufs, NEW b \in InBufs, NEW n \in 1..SourceSize,
               InWrite(o, b, n) \/ InWritePeeked(o, b, n)
        PROVE  BufferInv'
    BY <2>5, WriteActions
  <2>6. ASSUME NEW o \in OutBufs, NEW k \in 1..SourceSize,
               Send(o, k) \/ SendTo(o, k) \/ Write(o, k)
        PROVE  BufferInv'
    <3>1. k \in Nat /\ Send(o, k)
      BY <2>6 DEF BuffersAssumption, SendTo, Write
    <3> QED BY <3>1, SendActions
  <2>7. ASSUME NEW b \in InBufs, NEW k \in 1..MaxWire, NEW peek \in BOOLEAN,
               Recv(b, k, peek) \/ RecvFrom(b, k, peek) \/ (~peek /\ Read(b, k))
        PROVE  BufferInv'
    <3>1. Recv(b, k, peek) \/ Recv(b, k, FALSE)
      BY <2>7 DEF RecvFrom, Read
    <3> QED BY <3>1, RecvActions
  <2>8. CASE UNCHANGED bufferVars
    BY <2>8 DEF bufferVars, BufferInv, BufferType, OutGives, InFits, InHolds
  <2> QED BY <2>1, <2>2, <2>3, <2>4, <2>5, <2>6, <2>7, <2>8 DEF BuffersNext
<1> QED BY <1>1, <1>2, PTL DEF BuffersSpec

(* An out_buffer gives its bytes in order and each once, an in_buffer has  *)
(* room for every byte it counts and holds them in order unless they were  *)
(* overwritten, and at() is bounded by the valid bytes: out_buffer,        *)
(* in_buffer and the calls of socket and descriptor that take them, for    *)
(* any number of buffers, array lengths and width of size_t.               *)
THEOREM BuffersAreFaithful == BuffersSpec => []BuffersFaithful
<1>1. BufferInv => BuffersFaithful
  <2> SUFFICES ASSUME BufferInv PROVE BuffersFaithful
    OBVIOUS
  <2>1. \A o \in OutBufs : View(outs[o].arr, outs[o].size) = due[o]
    BY DEF BufferInv, OutGives
  <2>2. ASSUME NEW b \in InBufs
        PROVE  /\ ins[b].valid <= ins[b].size
               /\ ins[b].valid = Len(stored[b])
               /\ b \notin spoiled =>
                    \A i \in DOMAIN stored[b] : memory[ins[b].arr + i - 1] = stored[b][i]
    <3>1. stored[b] \in Seq(Nat) /\ InFits(b) /\ InHolds(b)
      BY DEF BufferInv, BufferType
    <3>2. DOMAIN stored[b] = 1..ins[b].valid
      BY <3>1, LenProperties DEF InHolds
    <3> QED BY <3>1, <3>2 DEF InFits, InHolds
  <2>3. ASSUME NEW b \in InBufs, NEW idx \in 0..(SizeLimit - 1), InAt(b, idx)
        PROVE  idx < ins[b].valid \/ idx = SizeLimit - 1
    BY <2>3, AtIsBounded, BuffersAssumption
  <2> QED BY <2>1, <2>2, <2>3 DEF BuffersFaithful
<1> QED BY <1>1, BufferInvariant, PTL

-----------------------------------------------------------------------------
(* KernelList.                                                             *)

LinkMemory ==
  [next : [Cells -> Cells \cup {Poison}], prev : [Cells -> Cells \cup {Poison}]]

(* No entry is in two places of the lists q.                               *)
NoneTwice(q) ==
  \A g, h \in Heads : \A i \in 1..Len(q[g]), j \in 1..Len(q[h]) :
    q[g][i] = q[h][j] => g = h /\ i = j

(* The lists that m holds are those of q.                                  *)
Lists(m, q) ==
  /\ m \in LinkMemory
  /\ q \in [Heads -> Seq(Entries)]
  /\ NoneTwice(q)
  /\ \A h \in Heads : Ring(m, h, q[h])

InNone(q, x) == \A h \in Heads : \A i \in 1..Len(q[h]) : q[h][i] # x

(* The ring of a list: its head, its entries, its head.                    *)
LEMMA AtFacts ==
  ASSUME NEW s \in Seq(Entries), NEW h
  PROVE  /\ Len(s) \in Nat
         /\ At(h, s, 0) = h /\ At(h, s, Len(s) + 1) = h
         /\ \A i \in 1..Len(s) : At(h, s, i) = s[i] /\ s[i] \in Entries
<1>1. Len(s) \in Nat /\ DOMAIN s = 1..Len(s) /\ \A i \in 1..Len(s) : s[i] \in Entries
  BY LenProperties, ElementOfSeq
<1>2. 0 \notin 1..Len(s) /\ Len(s) + 1 \notin 1..Len(s)
  BY <1>1
<1> QED BY <1>1, <1>2 DEF At

(* A cell has one place in one ring.                                       *)
LEMMA CellFacts ==
  ASSUME KernelListAssumption, NEW m, NEW q, Lists(m, q)
  PROVE  /\ \A h \in Heads : \A i \in 0..(Len(q[h]) + 1) : At(h, q[h], i) \in Cells
         /\ \A h \in Heads : \A i, j \in 0..Len(q[h]) :
              At(h, q[h], i) = At(h, q[h], j) => i = j
         /\ \A h \in Heads : \A i, j \in 1..(Len(q[h]) + 1) :
              At(h, q[h], i) = At(h, q[h], j) => i = j
         /\ \A g, h \in Heads :
              g # h => \A i \in 0..(Len(q[g]) + 1), j \in 0..(Len(q[h]) + 1) :
                         At(g, q[g], i) # At(h, q[h], j)
<1>1. \A h \in Heads : q[h] \in Seq(Entries)
  BY DEF Lists
<1>2. \A h \in Heads : /\ Len(q[h]) \in Nat
                       /\ At(h, q[h], 0) = h /\ At(h, q[h], Len(q[h]) + 1) = h
                       /\ \A i \in 1..Len(q[h]) : /\ At(h, q[h], i) = q[h][i]
                                                  /\ q[h][i] \in Entries
  BY <1>1, AtFacts
<1>3. \A h \in Heads : h \notin Entries
  BY DEF KernelListAssumption
<1>4. \A h \in Heads : \A i \in 0..(Len(q[h]) + 1) :
        i = 0 \/ i = Len(q[h]) + 1 \/ i \in 1..Len(q[h])
  BY <1>2
<1>5. \A h \in Heads : \A i \in 0..(Len(q[h]) + 1) :
        \/ i \in {0, Len(q[h]) + 1} /\ At(h, q[h], i) = h
        \/ i \in 1..Len(q[h]) /\ At(h, q[h], i) = q[h][i] /\ q[h][i] \in Entries
  BY <1>2, <1>4
<1>6. \A h \in Heads : \A i \in 0..(Len(q[h]) + 1) : At(h, q[h], i) \in Cells
  BY <1>5 DEF Cells
<1>7. \A g, h \in Heads : \A i \in 1..Len(q[g]), j \in 1..Len(q[h]) :
        q[g][i] = q[h][j] => g = h /\ i = j
  BY DEF Lists, NoneTwice
<1>8. ASSUME NEW h \in Heads, NEW i \in 0..(Len(q[h]) + 1), NEW j \in 0..(Len(q[h]) + 1),
             At(h, q[h], i) = At(h, q[h], j)
      PROVE  i = j \/ (i \in {0, Len(q[h]) + 1} /\ j \in {0, Len(q[h]) + 1})
  <2>1. /\ \/ i \in {0, Len(q[h]) + 1} /\ At(h, q[h], i) = h
           \/ i \in 1..Len(q[h]) /\ At(h, q[h], i) = q[h][i] /\ q[h][i] \in Entries
        /\ \/ j \in {0, Len(q[h]) + 1} /\ At(h, q[h], j) = h
           \/ j \in 1..Len(q[h]) /\ At(h, q[h], j) = q[h][j] /\ q[h][j] \in Entries
    BY <1>5
  <2>2. CASE i \in 1..Len(q[h]) /\ j \in 1..Len(q[h])
    BY <1>3, <1>7, <1>8, <2>1, <2>2
  <2> QED BY <1>3, <1>8, <2>1, <2>2
<1>9. ASSUME NEW h \in Heads, NEW i \in 0..Len(q[h]), NEW j \in 0..Len(q[h]),
             At(h, q[h], i) = At(h, q[h], j)
      PROVE  i = j
  <2>1. Len(q[h]) \in Nat
    BY <1>2
  <2>2. i \in 0..(Len(q[h]) + 1) /\ j \in 0..(Len(q[h]) + 1)
    BY <2>1
  <2> QED BY <1>8, <1>9, <2>1, <2>2
<1>10. ASSUME NEW h \in Heads, NEW i \in 1..(Len(q[h]) + 1), NEW j \in 1..(Len(q[h]) + 1),
              At(h, q[h], i) = At(h, q[h], j)
       PROVE  i = j
  <2>1. Len(q[h]) \in Nat
    BY <1>2
  <2>2. i \in 0..(Len(q[h]) + 1) /\ j \in 0..(Len(q[h]) + 1)
    BY <2>1
  <2> QED BY <1>8, <1>10, <2>1, <2>2
<1>11. ASSUME NEW g \in Heads, NEW h \in Heads, g # h,
              NEW i \in 0..(Len(q[g]) + 1), NEW j \in 0..(Len(q[h]) + 1)
       PROVE  At(g, q[g], i) # At(h, q[h], j)
  BY <1>3, <1>5, <1>7, <1>11
<1> QED BY <1>6, <1>9, <1>10, <1>11

(* __list_add(), cell by cell.                                             *)
LEMMA AddedFacts ==
  ASSUME NEW m \in LinkMemory, NEW x \in Cells, NEW p \in Cells, NEW n \in Cells,
         x # p, x # n
  PROVE  /\ Added(m, x, p, n) \in LinkMemory
         /\ \A c \in Cells : /\ Added(m, x, p, n).next[c] =
                                  IF c = x THEN n ELSE IF c = p THEN x ELSE m.next[c]
                             /\ Added(m, x, p, n).prev[c] =
                                  IF c = x THEN p ELSE IF c = n THEN x ELSE m.prev[c]
BY DEF Added, LinkMemory

(* The entry x comes between the cells k and k + 1 of the ring.            *)
Placed(s, t, k, x) ==
  /\ Len(t) = Len(s) + 1
  /\ \A i \in 1..k : t[i] = s[i]
  /\ t[k + 1] = x
  /\ \A i \in (k + 1)..Len(s) : t[i + 1] = s[i]

LEMMA PlacedAt ==
  ASSUME NEW s \in Seq(Entries), NEW t \in Seq(Entries), NEW k \in 0..Len(s),
         NEW x \in Entries, NEW h \in Heads,
         Placed(s, t, k, x)
  PROVE  /\ \A i \in 0..k : At(h, t, i) = At(h, s, i)
         /\ At(h, t, k + 1) = x
         /\ \A i \in (k + 1)..(Len(s) + 1) : At(h, t, i + 1) = At(h, s, i)
<1>1. /\ Len(s) \in Nat
      /\ At(h, s, 0) = h /\ At(h, s, Len(s) + 1) = h
      /\ \A i \in 1..Len(s) : At(h, s, i) = s[i]
  BY AtFacts
<1>2. /\ At(h, t, 0) = h /\ At(h, t, Len(t) + 1) = h
      /\ \A i \in 1..Len(t) : At(h, t, i) = t[i]
  BY AtFacts
<1>3. Len(t) = Len(s) + 1
  BY DEF Placed
<1>4. ASSUME NEW i \in 0..k PROVE At(h, t, i) = At(h, s, i)
  <2>1. CASE i = 0
    BY <1>1, <1>2, <2>1
  <2>2. CASE i # 0
    <3>1. i \in 1..k /\ i \in 1..Len(s) /\ i \in 1..Len(t)
      BY <1>1, <1>3, <2>2
    <3> QED BY <1>1, <1>2, <3>1 DEF Placed
  <2> QED BY <2>1, <2>2
<1>5. At(h, t, k + 1) = x
  <2>1. k + 1 \in 1..Len(t)
    BY <1>1, <1>3
  <2> QED BY <1>2, <2>1 DEF Placed
<1>6. ASSUME NEW i \in (k + 1)..(Len(s) + 1) PROVE At(h, t, i + 1) = At(h, s, i)
  <2>1. CASE i = Len(s) + 1
    BY <1>1, <1>2, <1>3, <2>1
  <2>2. CASE i # Len(s) + 1
    <3>1. i \in (k + 1)..Len(s) /\ i \in 1..Len(s) /\ i + 1 \in 1..Len(t)
      BY <1>1, <1>3, <2>2
    <3> QED BY <1>1, <1>2, <3>1 DEF Placed
  <2> QED BY <2>1, <2>2
<1> QED BY <1>4, <1>5, <1>6

(* A ring whose own links were not touched is still there.                 *)
LEMMA SameRing ==
  ASSUME NEW m, NEW m2, NEW g, NEW s, Ring(m, g, s),
         \A i \in 0..Len(s) : /\ m2.next[At(g, s, i)] = m.next[At(g, s, i)]
                              /\ m2.prev[At(g, s, i + 1)] = m.prev[At(g, s, i + 1)]
  PROVE  Ring(m2, g, s)
BY DEF Ring

(* An entry that is in no list is no cell of a ring.                       *)
LEMMA FreeCell ==
  ASSUME KernelListAssumption, NEW m, NEW q, Lists(m, q), NEW x \in Entries, InNone(q, x)
  PROVE  \A g \in Heads : \A i \in 0..(Len(q[g]) + 1) :
           At(g, q[g], i) # x /\ At(g, q[g], i) \in Cells
<1> SUFFICES ASSUME NEW g \in Heads, NEW i \in 0..(Len(q[g]) + 1)
             PROVE  At(g, q[g], i) # x /\ At(g, q[g], i) \in Cells
  OBVIOUS
<1>1. q[g] \in Seq(Entries)
  BY DEF Lists
<1>2. /\ Len(q[g]) \in Nat
      /\ At(g, q[g], 0) = g /\ At(g, q[g], Len(q[g]) + 1) = g
      /\ \A j \in 1..Len(q[g]) : At(g, q[g], j) = q[g][j] /\ q[g][j] \in Entries
  BY <1>1, AtFacts
<1>3. g # x
  BY DEF KernelListAssumption
<1>4. i = 0 \/ i = Len(q[g]) + 1 \/ i \in 1..Len(q[g])
  BY <1>2
<1> QED BY <1>2, <1>3, <1>4, CellFacts DEF InNone

Differ(t) == \A i, j \in 1..Len(t) : t[i] = t[j] => i = j

ApartFrom(q, h, t) ==
  \A g \in Heads \ {h} : \A i \in 1..Len(t), j \in 1..Len(q[g]) : t[i] # q[g][j]

LEMMA OneChanged ==
  ASSUME NEW q \in [Heads -> Seq(Entries)], NEW h \in Heads, NEW t,
         NoneTwice(q), Differ(t), ApartFrom(q, h, t)
  PROVE  NoneTwice([q EXCEPT ![h] = t])
<1> DEFINE q2 == [q EXCEPT ![h] = t]
<1>1. q2[h] = t /\ \A g \in Heads : g # h => q2[g] = q[g]
  OBVIOUS
<1> HIDE DEF q2
<1> SUFFICES ASSUME NEW g \in Heads, NEW f \in Heads,
                    NEW i \in 1..Len(q2[g]), NEW j \in 1..Len(q2[f]), q2[g][i] = q2[f][j]
             PROVE  g = f /\ i = j
  BY DEF NoneTwice, q2
<1>2. CASE g # h /\ f # h
  <2>1. i \in 1..Len(q[g]) /\ j \in 1..Len(q[f]) /\ q[g][i] = q[f][j]
    BY <1>1, <1>2
  <2> QED BY <2>1 DEF NoneTwice
<1>3. CASE g = h /\ f = h
  BY <1>1, <1>3 DEF Differ
<1>4. CASE g = h /\ f # h
  BY <1>1, <1>4 DEF ApartFrom
<1>5. CASE g # h /\ f = h
  BY <1>1, <1>5 DEF ApartFrom
<1> QED BY <1>2, <1>3, <1>4, <1>5

(* __list_add() between two neighbours.                                   *)
LEMMA ListsAdded ==
  ASSUME KernelListAssumption, NEW m, NEW q, Lists(m, q), NEW h \in Heads,
         NEW x \in Entries, InNone(q, x), NEW k \in 0..Len(q[h]),
         NEW t \in Seq(Entries), Placed(q[h], t, k, x)
  PROVE  Lists(Added(m, x, At(h, q[h], k), At(h, q[h], k + 1)), [q EXCEPT ![h] = t])
<1> DEFINE s == q[h]
           p == At(h, s, k)
           n == At(h, s, k + 1)
           m2 == Added(m, x, p, n)
           q2 == [q EXCEPT ![h] = t]
<1>1. /\ s \in Seq(Entries) /\ Len(s) \in Nat /\ k \in Nat /\ k <= Len(s)
      /\ m \in LinkMemory /\ q \in [Heads -> Seq(Entries)] /\ x \in Cells
  BY LenProperties DEF Lists, Cells
<1>2. /\ \A i \in 0..(Len(s) + 1) : At(h, s, i) \in Cells
      /\ \A i, j \in 0..Len(s) : At(h, s, i) = At(h, s, j) => i = j
      /\ \A i, j \in 1..(Len(s) + 1) : At(h, s, i) = At(h, s, j) => i = j
      /\ \A g \in Heads : g # h =>
           \A i \in 0..(Len(q[g]) + 1), j \in 0..(Len(s) + 1) : At(g, q[g], i) # At(h, s, j)
  BY CellFacts
<1>3. \A g \in Heads : \A i \in 0..(Len(q[g]) + 1) :
        At(g, q[g], i) # x /\ At(g, q[g], i) \in Cells
  BY FreeCell
<1>4. p \in Cells /\ n \in Cells /\ p # x /\ n # x
  <2>1. k \in 0..(Len(s) + 1) /\ k + 1 \in 0..(Len(s) + 1)
    BY <1>1
  <2> QED BY <1>3, <2>1
<1>5. /\ m2 \in LinkMemory
      /\ \A c \in Cells : /\ m2.next[c] = IF c = x THEN n ELSE IF c = p THEN x ELSE m.next[c]
                          /\ m2.prev[c] = IF c = x THEN p ELSE IF c = n THEN x ELSE m.prev[c]
  BY <1>1, <1>4, AddedFacts
<1>6. /\ \A i \in 0..k : At(h, t, i) = At(h, s, i)
      /\ At(h, t, k + 1) = x
      /\ \A i \in (k + 1)..(Len(s) + 1) : At(h, t, i + 1) = At(h, s, i)
      /\ Len(t) = Len(s) + 1
  <2>1. s \in Seq(Entries) /\ Placed(s, t, k, x) /\ k \in 0..Len(s)
    BY <1>1
  <2> HIDE DEF s
  <2>2. /\ \A i \in 0..k : At(h, t, i) = At(h, s, i)
        /\ At(h, t, k + 1) = x
        /\ \A i \in (k + 1)..(Len(s) + 1) : At(h, t, i + 1) = At(h, s, i)
    BY <2>1, PlacedAt
  <2> QED BY <2>1, <2>2 DEF Placed
<1>7. \A i \in 0..Len(s) : /\ m.next[At(h, s, i)] = At(h, s, i + 1)
                           /\ m.prev[At(h, s, i + 1)] = At(h, s, i)
  BY DEF Lists, Ring
<1>8. q2 \in [Heads -> Seq(Entries)] /\ q2[h] = t /\ \A g \in Heads : g # h => q2[g] = q[g]
  BY <1>1
<1> HIDE DEF m2, q2, p, n
<1>9. Ring(m2, h, t)
  <2> SUFFICES ASSUME NEW i \in 0..Len(t)
               PROVE  /\ m2.next[At(h, t, i)] = At(h, t, i + 1)
                      /\ m2.prev[At(h, t, i + 1)] = At(h, t, i)
    BY DEF Ring
  <2>1. CASE i < k
    <3>1. /\ i \in 0..k /\ i + 1 \in 0..k /\ i \in 0..Len(s) /\ k \in 0..Len(s)
          /\ i + 1 \in 1..(Len(s) + 1) /\ k + 1 \in 1..(Len(s) + 1) /\ i # k /\ i + 1 # k + 1
      BY <1>1, <2>1
    <3>2. At(h, s, i) # p /\ At(h, s, i + 1) # n
      BY <1>2, <3>1 DEF p, n
    <3>3. /\ At(h, s, i) \in Cells /\ At(h, s, i + 1) \in Cells
          /\ At(h, s, i) # x /\ At(h, s, i + 1) # x
      <4>1. i \in 0..(Len(s) + 1) /\ i + 1 \in 0..(Len(s) + 1)
        BY <1>1, <3>1
      <4> QED BY <1>3, <4>1
    <3>4. At(h, t, i) = At(h, s, i) /\ At(h, t, i + 1) = At(h, s, i + 1)
      BY <1>6, <3>1
    <3> QED BY <1>5, <1>7, <3>1, <3>2, <3>3, <3>4
  <2>2. CASE i = k
    <3>1. At(h, t, i) = p /\ At(h, t, i + 1) = x
      <4>1. k \in 0..k
        BY <1>1
      <4> QED BY <1>6, <2>2, <4>1 DEF p
    <3> QED BY <1>1, <1>4, <1>5, <3>1
  <2>3. CASE i = k + 1
    <3>1. At(h, t, i) = x /\ At(h, t, i + 1) = n
      <4>1. k + 1 \in (k + 1)..(Len(s) + 1)
        BY <1>1
      <4> QED BY <1>6, <2>3, <4>1 DEF n
    <3> QED BY <1>1, <1>4, <1>5, <3>1
  <2>4. CASE i > k + 1
    <3>1. PICK j \in Nat : i = j + 1
      BY <1>1, <2>4
    <3>2. /\ j \in (k + 1)..(Len(s) + 1) /\ j + 1 \in (k + 1)..(Len(s) + 1)
          /\ j \in 0..Len(s) /\ k \in 0..Len(s) /\ j # k
          /\ j + 1 \in 1..(Len(s) + 1) /\ k + 1 \in 1..(Len(s) + 1) /\ j + 1 # k + 1
      BY <1>1, <1>6, <2>4, <3>1
    <3>3. At(h, s, j) # p /\ At(h, s, j + 1) # n
      BY <1>2, <3>2 DEF p, n
    <3>4. /\ At(h, s, j) \in Cells /\ At(h, s, j + 1) \in Cells
          /\ At(h, s, j) # x /\ At(h, s, j + 1) # x
      <4>1. j \in 0..(Len(s) + 1) /\ j + 1 \in 0..(Len(s) + 1)
        BY <1>1, <3>2
      <4> QED BY <1>3, <4>1
    <3>5. At(h, t, i) = At(h, s, j) /\ At(h, t, i + 1) = At(h, s, j + 1)
      BY <1>6, <3>1, <3>2
    <3> QED BY <1>5, <1>7, <3>2, <3>3, <3>4, <3>5
  <2> QED BY <1>1, <1>6, <2>1, <2>2, <2>3, <2>4
<1>10. ASSUME NEW g \in Heads \ {h}, NEW i \in 0..Len(q[g])
       PROVE  /\ m2.next[At(g, q[g], i)] = m.next[At(g, q[g], i)]
              /\ m2.prev[At(g, q[g], i + 1)] = m.prev[At(g, q[g], i + 1)]
  <2>1. Len(q[g]) \in Nat
    BY <1>1, LenProperties
  <2>2. /\ i \in 0..(Len(q[g]) + 1) /\ i + 1 \in 0..(Len(q[g]) + 1)
        /\ k \in 0..(Len(s) + 1) /\ k + 1 \in 0..(Len(s) + 1)
    BY <1>1, <2>1
  <2>3. At(g, q[g], i) # p /\ At(g, q[g], i + 1) # n
    BY <1>2, <2>2 DEF p, n
  <2> QED BY <1>3, <1>5, <2>2, <2>3
<1>11. NoneTwice(q2)
  <2>1. \A i \in 1..Len(t) :
          \/ i = k + 1 /\ t[i] = x
          \/ i \in 1..k /\ i \in 1..Len(s) /\ t[i] = s[i]
          \/ i - 1 \in (k + 1)..Len(s) /\ i - 1 \in 1..Len(s) /\ t[i] = s[i - 1]
    <3> SUFFICES ASSUME NEW i \in 1..Len(t)
                 PROVE  \/ i = k + 1 /\ t[i] = x
                        \/ i \in 1..k /\ i \in 1..Len(s) /\ t[i] = s[i]
                        \/ i - 1 \in (k + 1)..Len(s) /\ i - 1 \in 1..Len(s) /\ t[i] = s[i - 1]
      OBVIOUS
    <3>1. CASE i <= k
      BY <1>1, <3>1 DEF Placed
    <3>2. CASE i = k + 1
      BY <3>2 DEF Placed
    <3>3. CASE i > k + 1
      <4>1. PICK j \in Nat : i = j + 1
        BY <1>1, <3>3
      <4>2. j \in (k + 1)..Len(s) /\ j \in 1..Len(s) /\ i - 1 = j
        BY <1>1, <1>6, <3>3, <4>1
      <4>3. t[j + 1] = s[j]
        BY <4>2 DEF Placed
      <4> QED BY <4>1, <4>2, <4>3
    <3> QED BY <1>1, <3>1, <3>2, <3>3
  <2>2. \A g, f \in Heads : \A i \in 1..Len(q[g]), j \in 1..Len(q[f]) :
          q[g][i] = q[f][j] => g = f /\ i = j
    BY DEF Lists, NoneTwice
  <2>3. \A g \in Heads : \A i \in 1..Len(q[g]) : q[g][i] # x
    BY DEF InNone
  <2>4. ASSUME NEW g \in Heads, g # h, NEW i \in 1..Len(t), NEW j \in 1..Len(q[g])
        PROVE  t[i] # q[g][j]
    BY <2>1, <2>2, <2>3, <2>4
  <2>5. ASSUME NEW i \in 1..Len(t), NEW j \in 1..Len(t), t[i] = t[j]
        PROVE  i = j
    <3>1. CASE i = k + 1 \/ j = k + 1
      BY <1>1, <2>1, <2>3, <2>5, <3>1
    <3>2. CASE i \in 1..k /\ j \in 1..k
      BY <1>1, <2>1, <2>2, <2>5, <3>2
    <3>3. CASE i \in 1..k /\ j - 1 \in (k + 1)..Len(s)
      BY <1>1, <2>1, <2>2, <2>5, <3>3
    <3>4. CASE i - 1 \in (k + 1)..Len(s) /\ j \in 1..k
      BY <1>1, <2>1, <2>2, <2>5, <3>4
    <3>5. CASE i - 1 \in (k + 1)..Len(s) /\ j - 1 \in (k + 1)..Len(s)
      BY <1>1, <2>1, <2>2, <2>5, <3>5
    <3> QED BY <2>1, <3>1, <3>2, <3>3, <3>4, <3>5
  <2>6. ApartFrom(q, h, t)
    BY <2>4 DEF ApartFrom
  <2>7. Differ(t)
    BY <2>5 DEF Differ
  <2>8. NoneTwice(q)
    BY DEF Lists
  <2> QED BY <1>1, <2>6, <2>7, <2>8, OneChanged DEF q2
<1>12. Lists(m2, q2)
  <2>1. ASSUME NEW g \in Heads, g # h PROVE Ring(m2, g, q2[g])
    <3>1. Ring(m, g, q[g])
      BY DEF Lists
    <3>2. \A i \in 0..Len(q[g]) : /\ m2.next[At(g, q[g], i)] = m.next[At(g, q[g], i)]
                                  /\ m2.prev[At(g, q[g], i + 1)] = m.prev[At(g, q[g], i + 1)]
      BY <1>10, <2>1
    <3>3. Ring(m2, g, q[g])
      BY <3>1, <3>2, SameRing
    <3> QED BY <1>8, <2>1, <3>3
  <2> QED BY <1>5, <1>8, <1>9, <1>11, <2>1 DEF Lists
<1> QED BY <1>12 DEF m2, q2, p, n

(* The entry at place k leaves the sequence.                               *)
Removed(s, t, k) ==
  /\ Len(t) = Len(s) - 1
  /\ \A i \in 1..(k - 1) : t[i] = s[i]
  /\ \A i \in k..(Len(s) - 1) : t[i] = s[i + 1]

LEMMA RemovedAt ==
  ASSUME NEW s \in Seq(Entries), NEW t \in Seq(Entries), NEW k \in 1..Len(s), NEW h,
         Removed(s, t, k)
  PROVE  /\ \A i \in 0..(k - 1) : At(h, t, i) = At(h, s, i)
         /\ \A i \in k..Len(s) : At(h, t, i) = At(h, s, i + 1)
<1>1. /\ Len(s) \in Nat
      /\ At(h, s, 0) = h /\ At(h, s, Len(s) + 1) = h
      /\ \A i \in 1..Len(s) : At(h, s, i) = s[i] /\ s[i] \in Entries
  BY AtFacts
<1>2. /\ Len(t) \in Nat
      /\ At(h, t, 0) = h /\ At(h, t, Len(t) + 1) = h
      /\ \A i \in 1..Len(t) : At(h, t, i) = t[i] /\ t[i] \in Entries
  BY AtFacts
<1>3. Len(t) = Len(s) - 1
  BY DEF Removed
<1>4. ASSUME NEW i \in 0..(k - 1) PROVE At(h, t, i) = At(h, s, i)
  <2>1. CASE i = 0
    BY <1>1, <1>2, <2>1
  <2>2. CASE i # 0
    <3>1. i \in 1..(k - 1) /\ i \in 1..Len(s) /\ i \in 1..Len(t)
      BY <1>1, <1>3, <2>2
    <3> QED BY <1>1, <1>2, <3>1 DEF Removed
  <2> QED BY <2>1, <2>2
<1>5. ASSUME NEW i \in k..Len(s) PROVE At(h, t, i) = At(h, s, i + 1)
  <2>1. CASE i = Len(s)
    <3>1. i = Len(t) + 1
      BY <1>1, <1>3, <2>1
    <3> QED BY <1>1, <1>2, <2>1, <3>1
  <2>2. CASE i # Len(s)
    <3>1. i \in k..(Len(s) - 1) /\ i + 1 \in 1..Len(s) /\ i \in 1..Len(t)
      BY <1>1, <1>3, <2>2
    <3> QED BY <1>1, <1>2, <3>1 DEF Removed
  <2> QED BY <2>1, <2>2
<1> QED BY <1>4, <1>5

(* __list_del(), cell by cell.                                             *)
LEMMA JoinedFacts ==
  ASSUME NEW m \in LinkMemory, NEW p \in Cells, NEW n \in Cells
  PROVE  /\ Joined(m, p, n) \in LinkMemory
         /\ \A c \in Cells : /\ Joined(m, p, n).next[c] = IF c = p THEN n ELSE m.next[c]
                             /\ Joined(m, p, n).prev[c] = IF c = n THEN p ELSE m.prev[c]
BY DEF Joined, LinkMemory

(* __list_del() takes the entry at place k out of the list.                *)
LEMMA ListsUnlinked ==
  ASSUME KernelListAssumption, NEW m, NEW q, Lists(m, q), NEW h \in Heads,
         NEW k \in 1..Len(q[h]), NEW t \in Seq(Entries), Removed(q[h], t, k)
  PROVE  /\ Lists(Unlinked(m, q[h][k]), [q EXCEPT ![h] = t])
         /\ InNone([q EXCEPT ![h] = t], q[h][k])
<1> DEFINE s == q[h]
           x == q[h][k]
           p == At(h, s, k - 1)
           n == At(h, s, k + 1)
           m2 == Unlinked(m, x)
           q2 == [q EXCEPT ![h] = t]
<1>1. /\ s \in Seq(Entries) /\ Len(s) \in Nat /\ k \in Nat /\ k <= Len(s) /\ k >= 1
      /\ m \in LinkMemory /\ q \in [Heads -> Seq(Entries)]
  BY LenProperties DEF Lists, Cells
<1>2. /\ \A i \in 0..(Len(s) + 1) : At(h, s, i) \in Cells
      /\ \A i, j \in 0..Len(s) : At(h, s, i) = At(h, s, j) => i = j
      /\ \A i, j \in 1..(Len(s) + 1) : At(h, s, i) = At(h, s, j) => i = j
      /\ \A g \in Heads : g # h =>
           \A i \in 0..(Len(q[g]) + 1), j \in 0..(Len(s) + 1) : At(g, q[g], i) # At(h, s, j)
  BY CellFacts
<1>3. \A g \in Heads : \A i \in 0..(Len(q[g]) + 1) : At(g, q[g], i) \in Cells
  BY CellFacts
<1>4. \A i \in 0..Len(s) : /\ m.next[At(h, s, i)] = At(h, s, i + 1)
                           /\ m.prev[At(h, s, i + 1)] = At(h, s, i)
  BY DEF Lists, Ring
<1>5. /\ Len(s) \in Nat
      /\ At(h, s, 0) = h /\ At(h, s, Len(s) + 1) = h
      /\ \A i \in 1..Len(s) : At(h, s, i) = s[i] /\ s[i] \in Entries
  <2>1. s \in Seq(Entries)
    BY <1>1
  <2> HIDE DEF s
  <2> QED BY <2>1, AtFacts
<1>6. /\ \A i \in 0..(k - 1) : At(h, t, i) = At(h, s, i)
      /\ \A i \in k..Len(s) : At(h, t, i) = At(h, s, i + 1)
      /\ Len(t) = Len(s) - 1
  <2>1. s \in Seq(Entries) /\ Removed(s, t, k) /\ k \in 1..Len(s)
    BY <1>1
  <2> HIDE DEF s
  <2>2. /\ \A i \in 0..(k - 1) : At(h, t, i) = At(h, s, i)
        /\ \A i \in k..Len(s) : At(h, t, i) = At(h, s, i + 1)
    BY <2>1, RemovedAt
  <2> QED BY <2>1, <2>2 DEF Removed
<1>7. m.prev[x] = p /\ m.next[x] = n /\ p \in Cells /\ n \in Cells
  <2>1. /\ k \in 0..Len(s) /\ k - 1 \in 0..Len(s) /\ (k - 1) + 1 = k /\ k \in 1..Len(s)
        /\ k - 1 \in 0..(Len(s) + 1) /\ k + 1 \in 0..(Len(s) + 1)
    BY <1>1
  <2> QED BY <1>2, <1>4, <1>5, <2>1
<1>8. /\ m2 \in LinkMemory
      /\ \A c \in Cells : /\ m2.next[c] = IF c = p THEN n ELSE m.next[c]
                          /\ m2.prev[c] = IF c = n THEN p ELSE m.prev[c]
  <2>1. m2 = Joined(m, p, n)
    BY <1>7 DEF Unlinked
  <2>2. m \in LinkMemory /\ p \in Cells /\ n \in Cells
    BY <1>1, <1>7
  <2> HIDE DEF m2, p, n
  <2>3. Joined(m, p, n) \in LinkMemory
    BY <2>2, JoinedFacts
  <2>4. \A c \in Cells : /\ Joined(m, p, n).next[c] = IF c = p THEN n ELSE m.next[c]
                        /\ Joined(m, p, n).prev[c] = IF c = n THEN p ELSE m.prev[c]
    BY <2>2, JoinedFacts
  <2> QED BY <2>1, <2>3, <2>4
<1>9. q2 \in [Heads -> Seq(Entries)] /\ q2[h] = t /\ \A g \in Heads : g # h => q2[g] = q[g]
  BY <1>1
<1> HIDE DEF m2, q2, p, n, x
<1>10. Ring(m2, h, t)
  <2> SUFFICES ASSUME NEW i \in 0..Len(t)
               PROVE  /\ m2.next[At(h, t, i)] = At(h, t, i + 1)
                      /\ m2.prev[At(h, t, i + 1)] = At(h, t, i)
    BY DEF Ring
  <2>1. CASE i + 1 < k
    <3>1. /\ i \in 0..(k - 1) /\ i + 1 \in 0..(k - 1) /\ i \in 0..Len(s)
          /\ k - 1 \in 0..Len(s) /\ i # k - 1
          /\ i + 1 \in 1..(Len(s) + 1) /\ k + 1 \in 1..(Len(s) + 1) /\ i + 1 # k + 1
          /\ i \in 0..(Len(s) + 1) /\ i + 1 \in 0..(Len(s) + 1)
      BY <1>1, <2>1
    <3>2. At(h, s, i) # p /\ At(h, s, i + 1) # n
      BY <1>2, <3>1 DEF p, n
    <3>3. At(h, t, i) = At(h, s, i) /\ At(h, t, i + 1) = At(h, s, i + 1)
      BY <1>6, <3>1
    <3> QED BY <1>2, <1>4, <1>8, <3>1, <3>2, <3>3
  <2>2. CASE i + 1 = k
    <3>1. i \in 0..(k - 1) /\ i = k - 1 /\ k \in k..Len(s)
      BY <1>1, <2>2
    <3>2. At(h, t, i) = p /\ At(h, t, i + 1) = n
      BY <1>6, <2>2, <3>1 DEF p, n
    <3> QED BY <1>7, <1>8, <3>2
  <2>3. CASE i + 1 > k
    <3>1. /\ i \in k..Len(s) /\ i + 1 \in k..Len(s) /\ i + 1 \in 0..Len(s)
          /\ k - 1 \in 0..Len(s) /\ i + 1 # k - 1
          /\ (i + 1) + 1 \in 1..(Len(s) + 1) /\ k + 1 \in 1..(Len(s) + 1)
          /\ (i + 1) + 1 # k + 1
          /\ i + 1 \in 0..(Len(s) + 1) /\ (i + 1) + 1 \in 0..(Len(s) + 1)
      BY <1>1, <1>6, <2>3
    <3>2. At(h, s, i + 1) # p /\ At(h, s, (i + 1) + 1) # n
      BY <1>2, <3>1 DEF p, n
    <3>3. At(h, t, i) = At(h, s, i + 1) /\ At(h, t, i + 1) = At(h, s, (i + 1) + 1)
      BY <1>6, <3>1
    <3> QED BY <1>2, <1>4, <1>8, <3>1, <3>2, <3>3
  <2> QED BY <1>1, <1>6, <2>1, <2>2, <2>3
<1>11. ASSUME NEW g \in Heads, g # h PROVE Ring(m2, g, q2[g])
  <2>1. Ring(m, g, q[g]) /\ Len(q[g]) \in Nat
    BY <1>1, LenProperties DEF Lists
  <2>2. ASSUME NEW i \in 0..Len(q[g])
        PROVE  /\ m2.next[At(g, q[g], i)] = m.next[At(g, q[g], i)]
               /\ m2.prev[At(g, q[g], i + 1)] = m.prev[At(g, q[g], i + 1)]
    <3>1. /\ i \in 0..(Len(q[g]) + 1) /\ i + 1 \in 0..(Len(q[g]) + 1)
          /\ k - 1 \in 0..(Len(s) + 1) /\ k + 1 \in 0..(Len(s) + 1)
      BY <1>1, <2>1
    <3>2. At(g, q[g], i) # p /\ At(g, q[g], i + 1) # n
      BY <1>2, <1>11, <3>1 DEF p, n
    <3> QED BY <1>3, <1>8, <3>1, <3>2
  <2>3. Ring(m2, g, q[g])
    BY <2>1, <2>2, SameRing
  <2> QED BY <1>9, <1>11, <2>3
<1>12. \A i \in 1..Len(t) :
         \/ i \in 1..(k - 1) /\ i \in 1..Len(s) /\ t[i] = s[i]
         \/ i \in k..(Len(s) - 1) /\ i + 1 \in 1..Len(s) /\ t[i] = s[i + 1]
  <2> SUFFICES ASSUME NEW i \in 1..Len(t)
               PROVE  \/ i \in 1..(k - 1) /\ i \in 1..Len(s) /\ t[i] = s[i]
                      \/ i \in k..(Len(s) - 1) /\ i + 1 \in 1..Len(s) /\ t[i] = s[i + 1]
    OBVIOUS
  <2>1. \/ i \in 1..(k - 1) /\ i \in 1..Len(s)
        \/ i \in k..(Len(s) - 1) /\ i + 1 \in 1..Len(s)
    BY <1>1, <1>6
  <2> QED BY <2>1 DEF Removed
<1>13. \A g, f \in Heads : \A i \in 1..Len(q[g]), j \in 1..Len(q[f]) :
         q[g][i] = q[f][j] => g = f /\ i = j
  BY DEF Lists, NoneTwice
<1>14. ASSUME NEW g \in Heads, g # h, NEW i \in 1..Len(t), NEW j \in 1..Len(q[g])
       PROVE  t[i] # q[g][j]
  BY <1>12, <1>13, <1>14
<1>15. ASSUME NEW i \in 1..Len(t), NEW j \in 1..Len(t), t[i] = t[j]
       PROVE  i = j
  <2>1. CASE i \in 1..(k - 1) /\ j \in 1..(k - 1)
    BY <1>1, <1>12, <1>13, <1>15, <2>1
  <2>2. CASE i \in 1..(k - 1) /\ j \in k..(Len(s) - 1)
    BY <1>1, <1>12, <1>13, <1>15, <2>2
  <2>3. CASE i \in k..(Len(s) - 1) /\ j \in 1..(k - 1)
    BY <1>1, <1>12, <1>13, <1>15, <2>3
  <2>4. CASE i \in k..(Len(s) - 1) /\ j \in k..(Len(s) - 1)
    BY <1>1, <1>12, <1>13, <1>15, <2>4
  <2> QED BY <1>12, <2>1, <2>2, <2>3, <2>4
<1>16. NoneTwice(q2)
  <2>1. ApartFrom(q, h, t)
    BY <1>14 DEF ApartFrom
  <2>2. Differ(t)
    BY <1>15 DEF Differ
  <2>3. NoneTwice(q)
    BY DEF Lists
  <2> QED BY <1>1, <2>1, <2>2, <2>3, OneChanged DEF q2
<1>17. Lists(m2, q2)
  BY <1>8, <1>9, <1>10, <1>11, <1>16 DEF Lists
<1>18. InNone(q2, x)
  <2> SUFFICES ASSUME NEW g \in Heads, NEW i \in 1..Len(q2[g]), q2[g][i] = x
               PROVE  FALSE
    BY DEF InNone
  <2>1. CASE g # h
    BY <1>1, <1>9, <1>13, <2>1 DEF x
  <2>2. CASE g = h
    <3>1. i \in 1..Len(t) /\ t[i] = s[k] /\ k \in 1..Len(s)
      BY <1>1, <1>9, <2>2 DEF x
    <3>2. CASE i \in 1..(k - 1) /\ i \in 1..Len(s) /\ t[i] = s[i]
      <4>1. i = k
        <5>1. i \in 1..Len(q[h]) /\ k \in 1..Len(q[h]) /\ q[h][i] = q[h][k]
          BY <3>1, <3>2
        <5> QED BY <1>13, <5>1, Zenon
      <4> QED BY <1>1, <3>2, <4>1
    <3>3. CASE i \in k..(Len(s) - 1) /\ i + 1 \in 1..Len(s) /\ t[i] = s[i + 1]
      <4>1. i + 1 = k
        <5>1. i + 1 \in 1..Len(q[h]) /\ k \in 1..Len(q[h]) /\ q[h][i + 1] = q[h][k]
          BY <3>1, <3>3
        <5> QED BY <1>13, <5>1, Zenon
      <4> QED BY <1>1, <3>3, <4>1
    <3> QED BY <1>12, <3>1, <3>2, <3>3
  <2> QED BY <2>1, <2>2
<1> QED BY <1>17, <1>18 DEF m2, q2, x

(* The pointers of an entry that is in no list do not matter.              *)
LEMMA ListsOwn ==
  ASSUME KernelListAssumption, NEW m, NEW q, Lists(m, q), NEW x \in Entries, InNone(q, x),
         NEW m2 \in LinkMemory,
         \A c \in Cells : c # x => m2.next[c] = m.next[c] /\ m2.prev[c] = m.prev[c]
  PROVE  Lists(m2, q)
<1>1. \A g \in Heads : \A i \in 0..(Len(q[g]) + 1) :
        At(g, q[g], i) # x /\ At(g, q[g], i) \in Cells
  BY FreeCell
<1>2. ASSUME NEW g \in Heads PROVE Ring(m2, g, q[g])
  <2>1. Ring(m, g, q[g]) /\ Len(q[g]) \in Nat
    BY LenProperties DEF Lists
  <2>2. ASSUME NEW i \in 0..Len(q[g])
        PROVE  /\ m2.next[At(g, q[g], i)] = m.next[At(g, q[g], i)]
               /\ m2.prev[At(g, q[g], i + 1)] = m.prev[At(g, q[g], i + 1)]
    <3>1. i \in 0..(Len(q[g]) + 1) /\ i + 1 \in 0..(Len(q[g]) + 1)
      BY <2>1
    <3> QED BY <1>1, <3>1
  <2> QED BY <2>1, <2>2, SameRing
<1> QED BY <1>2 DEF Lists

(* INIT_LIST_HEAD(), cell by cell.                                         *)
LEMMA ClearedFacts ==
  ASSUME NEW m \in LinkMemory, NEW x \in Cells
  PROVE  /\ Cleared(m, x) \in LinkMemory
         /\ \A c \in Cells : /\ Cleared(m, x).next[c] = IF c = x THEN x ELSE m.next[c]
                             /\ Cleared(m, x).prev[c] = IF c = x THEN x ELSE m.prev[c]
BY DEF Cleared, LinkMemory

(* The links of an entry of no list may be reset.                          *)
LEMMA ListsCleared ==
  ASSUME KernelListAssumption, NEW m, NEW q, Lists(m, q), NEW x \in Entries, InNone(q, x)
  PROVE  Lists(Cleared(m, x), q)
<1>1. m \in LinkMemory /\ x \in Cells
  BY DEF Lists, Cells
<1>2. /\ Cleared(m, x) \in LinkMemory
      /\ \A c \in Cells : /\ Cleared(m, x).next[c] = IF c = x THEN x ELSE m.next[c]
                          /\ Cleared(m, x).prev[c] = IF c = x THEN x ELSE m.prev[c]
  BY <1>1, ClearedFacts
<1>3. \A c \in Cells : c # x => /\ Cleared(m, x).next[c] = m.next[c]
                                /\ Cleared(m, x).prev[c] = m.prev[c]
  BY <1>2
<1> QED BY <1>2, <1>3, ListsOwn

(* list_replace(): x takes the place k.                                    *)
LEMMA ReplacedFacts ==
  ASSUME NEW m \in LinkMemory, NEW x \in Cells, NEW old \in Cells,
         NEW p \in Cells, NEW n \in Cells, m.prev[old] = p, m.next[old] = n, x # p, x # n
  PROVE  /\ Replaced(m, old, x) \in LinkMemory
         /\ \A c \in Cells : /\ Replaced(m, old, x).next[c] =
                                  IF c = x THEN n ELSE IF c = p THEN x ELSE m.next[c]
                             /\ Replaced(m, old, x).prev[c] =
                                  IF c = x THEN p ELSE IF c = n THEN x ELSE m.prev[c]
BY DEF Replaced, LinkMemory

Exchanged(s, t, k, x) ==
  /\ Len(t) = Len(s)
  /\ \A i \in 1..Len(s) : t[i] = IF i = k THEN x ELSE s[i]

(* list_replace() puts a free entry in the place of old.                   *)
LEMMA ListsReplaced ==
  ASSUME KernelListAssumption, NEW m, NEW q, Lists(m, q), NEW h \in Heads,
         NEW k \in 1..Len(q[h]), NEW x \in Entries, InNone(q, x),
         NEW t \in Seq(Entries), Exchanged(q[h], t, k, x)
  PROVE  /\ Lists(Replaced(m, q[h][k], x), [q EXCEPT ![h] = t])
         /\ InNone([q EXCEPT ![h] = t], q[h][k])
<1> DEFINE s == q[h]
           old == q[h][k]
           p == At(h, s, k - 1)
           n == At(h, s, k + 1)
           m2 == Replaced(m, old, x)
           q2 == [q EXCEPT ![h] = t]
<1>1. /\ s \in Seq(Entries) /\ Len(s) \in Nat /\ k \in Nat /\ k <= Len(s) /\ k >= 1
      /\ m \in LinkMemory /\ q \in [Heads -> Seq(Entries)] /\ x \in Cells
  BY LenProperties DEF Lists, Cells
<1>2. /\ \A i \in 0..(Len(s) + 1) : At(h, s, i) \in Cells
      /\ \A i, j \in 0..Len(s) : At(h, s, i) = At(h, s, j) => i = j
      /\ \A i, j \in 1..(Len(s) + 1) : At(h, s, i) = At(h, s, j) => i = j
      /\ \A g \in Heads : g # h =>
           \A i \in 0..(Len(q[g]) + 1), j \in 0..(Len(s) + 1) : At(g, q[g], i) # At(h, s, j)
  BY CellFacts
<1>3. \A g \in Heads : \A i \in 0..(Len(q[g]) + 1) :
        At(g, q[g], i) # x /\ At(g, q[g], i) \in Cells
  BY FreeCell
<1>4. \A i \in 0..Len(s) : /\ m.next[At(h, s, i)] = At(h, s, i + 1)
                           /\ m.prev[At(h, s, i + 1)] = At(h, s, i)
  BY DEF Lists, Ring
<1>5. /\ Len(s) \in Nat
      /\ At(h, s, 0) = h /\ At(h, s, Len(s) + 1) = h
      /\ \A i \in 1..Len(s) : At(h, s, i) = s[i] /\ s[i] \in Entries
  BY <1>1, AtFacts
<1>0. Len(t) = Len(s) /\ \A i \in 1..Len(s) : t[i] = IF i = k THEN x ELSE s[i]
  BY DEF Exchanged
<1>6. /\ At(h, t, k) = x
      /\ \A i \in 0..(Len(s) + 1) : i # k => At(h, t, i) = At(h, s, i)
  <2>1. /\ Len(t) \in Nat
        /\ At(h, t, 0) = h /\ At(h, t, Len(t) + 1) = h
        /\ \A i \in 1..Len(t) : At(h, t, i) = t[i] /\ t[i] \in Entries
    BY AtFacts
  <2>2. At(h, t, k) = x
    BY <1>0, <1>1, <2>1
  <2>3. ASSUME NEW i \in 0..(Len(s) + 1), i # k PROVE At(h, t, i) = At(h, s, i)
    <3>1. i = 0 \/ i = Len(s) + 1 \/ i \in 1..Len(s)
      BY <1>1
    <3> QED BY <1>0, <1>5, <2>1, <2>3, <3>1
  <2> QED BY <2>2, <2>3
<1>7. /\ m.prev[old] = p /\ m.next[old] = n /\ p \in Cells /\ n \in Cells /\ old \in Cells
      /\ x # p /\ x # n
  <2>1. /\ k \in 0..Len(s) /\ k - 1 \in 0..Len(s) /\ (k - 1) + 1 = k /\ k \in 1..Len(s)
        /\ k - 1 \in 0..(Len(s) + 1) /\ k + 1 \in 0..(Len(s) + 1) /\ k \in 0..(Len(s) + 1)
    BY <1>1
  <2>2. At(h, s, k) = old
    BY <1>5, <2>1
  <2> QED BY <1>2, <1>3, <1>4, <2>1, <2>2
<1>8. /\ m2 \in LinkMemory
      /\ \A c \in Cells : /\ m2.next[c] = IF c = x THEN n ELSE IF c = p THEN x ELSE m.next[c]
                          /\ m2.prev[c] = IF c = x THEN p ELSE IF c = n THEN x ELSE m.prev[c]
  <2> HIDE DEF p, n, old
  <2> QED BY <1>1, <1>7, ReplacedFacts
<1>9. q2 \in [Heads -> Seq(Entries)] /\ q2[h] = t /\ \A g \in Heads : g # h => q2[g] = q[g]
  BY <1>1
<1> HIDE DEF m2, q2, p, n, old
<1>10. Ring(m2, h, t)
  <2>0. Len(t) = Len(s)
    BY <1>0
  <2> SUFFICES ASSUME NEW i \in 0..Len(t)
               PROVE  /\ m2.next[At(h, t, i)] = At(h, t, i + 1)
                      /\ m2.prev[At(h, t, i + 1)] = At(h, t, i)
    BY DEF Ring
  <2>1. CASE i + 1 = k
    <3>1. /\ i \in 0..(Len(s) + 1) /\ i # k /\ i = k - 1
      BY <1>1, <2>0, <2>1
    <3>2. At(h, t, i) = p /\ At(h, t, i + 1) = x
      BY <1>6, <2>1, <3>1 DEF p
    <3> QED BY <1>1, <1>7, <1>8, <3>2
  <2>2. CASE i = k
    <3>1. i + 1 \in 0..(Len(s) + 1) /\ i + 1 # k
      BY <1>1, <2>0, <2>2
    <3>2. At(h, t, i) = x /\ At(h, t, i + 1) = n
      BY <1>6, <2>2, <3>1 DEF n
    <3> QED BY <1>1, <1>7, <1>8, <3>2
  <2>3. CASE i # k /\ i + 1 # k
    <3>1. /\ i \in 0..Len(s) /\ k - 1 \in 0..Len(s) /\ i # k - 1
          /\ i + 1 \in 1..(Len(s) + 1) /\ k + 1 \in 1..(Len(s) + 1) /\ i + 1 # k + 1
          /\ i \in 0..(Len(s) + 1) /\ i + 1 \in 0..(Len(s) + 1)
      BY <1>1, <2>0, <2>3
    <3>2. At(h, s, i) # p /\ At(h, s, i + 1) # n
      BY <1>2, <3>1 DEF p, n
    <3>3. At(h, t, i) = At(h, s, i) /\ At(h, t, i + 1) = At(h, s, i + 1)
      BY <1>6, <2>3, <3>1
    <3>4. /\ At(h, s, i) \in Cells /\ At(h, s, i + 1) \in Cells
          /\ At(h, s, i) # x /\ At(h, s, i + 1) # x
      BY <1>3, <3>1
    <3> QED BY <1>4, <1>8, <3>1, <3>2, <3>3, <3>4
  <2> QED BY <2>1, <2>2, <2>3
<1>11. ASSUME NEW g \in Heads, g # h PROVE Ring(m2, g, q2[g])
  <2>1. Ring(m, g, q[g]) /\ Len(q[g]) \in Nat
    BY <1>1, LenProperties DEF Lists
  <2>2. ASSUME NEW i \in 0..Len(q[g])
        PROVE  /\ m2.next[At(g, q[g], i)] = m.next[At(g, q[g], i)]
               /\ m2.prev[At(g, q[g], i + 1)] = m.prev[At(g, q[g], i + 1)]
    <3>1. /\ i \in 0..(Len(q[g]) + 1) /\ i + 1 \in 0..(Len(q[g]) + 1)
          /\ k - 1 \in 0..(Len(s) + 1) /\ k + 1 \in 0..(Len(s) + 1)
      BY <1>1, <2>1
    <3>2. At(g, q[g], i) # p /\ At(g, q[g], i + 1) # n
      BY <1>2, <1>11, <3>1 DEF p, n
    <3> QED BY <1>3, <1>8, <3>1, <3>2
  <2>3. Ring(m2, g, q[g])
    BY <2>1, <2>2, SameRing
  <2> QED BY <1>9, <1>11, <2>3
<1>12. \A g, f \in Heads : \A i \in 1..Len(q[g]), j \in 1..Len(q[f]) :
         q[g][i] = q[f][j] => g = f /\ i = j
  BY DEF Lists, NoneTwice
<1>13. \A g \in Heads : \A i \in 1..Len(q[g]) : q[g][i] # x
  BY DEF InNone
<1>14. ApartFrom(q, h, t)
  <2> SUFFICES ASSUME NEW g \in Heads \ {h}, NEW i \in 1..Len(t), NEW j \in 1..Len(q[g])
               PROVE  t[i] # q[g][j]
    BY DEF ApartFrom
  <2>0. i \in 1..Len(s)
    BY <1>0
  <2>1. CASE i = k
    BY <1>0, <1>13, <2>0, <2>1
  <2>2. CASE i # k
    BY <1>0, <1>12, <2>0, <2>2
  <2> QED BY <2>1, <2>2
<1>15. Differ(t)
  <2> SUFFICES ASSUME NEW i \in 1..Len(t), NEW j \in 1..Len(t), t[i] = t[j], i # j
               PROVE  FALSE
    BY DEF Differ
  <2>1. i \in 1..Len(s) /\ j \in 1..Len(s)
    BY <1>0
  <2>2. CASE i = k
    BY <1>0, <1>13, <2>1, <2>2
  <2>3. CASE j = k
    BY <1>0, <1>13, <2>1, <2>3
  <2>4. CASE i # k /\ j # k
    <3>1. q[h][i] = q[h][j]
      BY <1>0, <2>1, <2>4
    <3>2. i = j
      BY <1>12, <2>1, <3>1, Zenon
    <3> QED BY <3>2
  <2> QED BY <2>2, <2>3, <2>4
<1>16. NoneTwice(q2)
  <2>1. NoneTwice(q)
    BY DEF Lists
  <2> QED BY <1>1, <1>14, <1>15, <2>1, OneChanged DEF q2
<1>17. Lists(m2, q2)
  BY <1>8, <1>9, <1>10, <1>11, <1>16 DEF Lists
<1>18. InNone(q2, old)
  <2> SUFFICES ASSUME NEW g \in Heads, NEW i \in 1..Len(q2[g]), q2[g][i] = old
               PROVE  FALSE
    BY DEF InNone
  <2>1. CASE g # h
    BY <1>1, <1>9, <1>12, <2>1 DEF old
  <2>2. CASE g = h
    <3>1. i \in 1..Len(q[h]) /\ t[i] = q[h][k] /\ k \in 1..Len(q[h])
      BY <1>0, <1>1, <1>9, <2>2 DEF old
    <3>2. CASE i = k
      BY <1>0, <1>13, <3>1, <3>2
    <3>3. CASE i # k
      <4>1. q[h][i] = q[h][k]
        BY <1>0, <3>1, <3>3
      <4>2. i = k
        BY <1>12, <3>1, <4>1, Zenon
      <4> QED BY <3>3, <4>2
    <3> QED BY <3>2, <3>3
  <2> QED BY <2>1, <2>2
<1> QED BY <1>17, <1>18 DEF m2, q2, old

(* __list_cut_position(): the first k entries go to another, empty list.   *)
LEMMA CutFacts ==
  ASSUME NEW m \in LinkMemory, NEW other \in Cells, NEW h \in Cells, NEW e \in Cells,
         NEW first \in Cells, NEW n \in Cells, m.next[h] = first, m.next[e] = n,
         other # h, other # e, h # e, other # first, other # n, first # n
  PROVE  /\ Cut(m, other, h, e) \in LinkMemory
         /\ \A c \in Cells :
              /\ Cut(m, other, h, e).next[c] =
                   IF c = other THEN first ELSE IF c = e THEN other
                   ELSE IF c = h THEN n ELSE m.next[c]
              /\ Cut(m, other, h, e).prev[c] =
                   IF c = first THEN other ELSE IF c = other THEN e
                   ELSE IF c = n THEN h ELSE m.prev[c]
<1>1. Cut(m, other, h, e) \in LinkMemory
  BY DEF Cut, LinkMemory
<1>2. \A c \in Cells : Cut(m, other, h, e).next[c] =
        IF c = other THEN first ELSE IF c = e THEN other ELSE IF c = h THEN n ELSE m.next[c]
  BY DEF Cut, LinkMemory
<1>3. \A c \in Cells : Cut(m, other, h, e).prev[c] =
        IF c = first THEN other ELSE IF c = other THEN e ELSE IF c = n THEN h ELSE m.prev[c]
  BY DEF Cut, LinkMemory
<1> QED BY <1>1, <1>2, <1>3

CutInTwo(s, t, u, k) ==
  /\ Len(t) = k
  /\ \A i \in 1..k : t[i] = s[i]
  /\ Len(u) = Len(s) - k
  /\ \A i \in 1..(Len(s) - k) : u[i] = s[k + i]

LEMMA CutAt ==
  ASSUME NEW s \in Seq(Entries), NEW t \in Seq(Entries), NEW u \in Seq(Entries),
         NEW k \in 1..Len(s), NEW h \in Heads, NEW other \in Heads,
         CutInTwo(s, t, u, k)
  PROVE  /\ At(other, t, 0) = other /\ At(other, t, k + 1) = other
         /\ \A i \in 1..k : At(other, t, i) = At(h, s, i)
         /\ At(h, u, 0) = h
         /\ \A i \in 1..(Len(s) - k + 1) : At(h, u, i) = At(h, s, k + i)
<1>1. /\ Len(s) \in Nat
      /\ At(h, s, 0) = h /\ At(h, s, Len(s) + 1) = h
      /\ \A i \in 1..Len(s) : At(h, s, i) = s[i] /\ s[i] \in Entries
  BY AtFacts
<1>2. /\ Len(t) \in Nat
      /\ At(other, t, 0) = other /\ At(other, t, Len(t) + 1) = other
      /\ \A i \in 1..Len(t) : At(other, t, i) = t[i] /\ t[i] \in Entries
  BY AtFacts
<1>3. /\ Len(u) \in Nat
      /\ At(h, u, 0) = h /\ At(h, u, Len(u) + 1) = h
      /\ \A i \in 1..Len(u) : At(h, u, i) = u[i] /\ u[i] \in Entries
  BY AtFacts
<1>4. Len(t) = k /\ Len(u) = Len(s) - k
  BY DEF CutInTwo
<1>5. ASSUME NEW i \in 1..k PROVE At(other, t, i) = At(h, s, i)
  <2>1. i \in 1..Len(t) /\ i \in 1..Len(s)
    BY <1>1, <1>4
  <2> QED BY <1>1, <1>2, <2>1 DEF CutInTwo
<1>6. ASSUME NEW i \in 1..(Len(s) - k + 1) PROVE At(h, u, i) = At(h, s, k + i)
  <2>1. CASE i = Len(s) - k + 1
    <3>1. i = Len(u) + 1 /\ k + i = Len(s) + 1
      BY <1>1, <1>4, <2>1
    <3> QED BY <1>1, <1>3, <3>1
  <2>2. CASE i # Len(s) - k + 1
    <3>1. i \in 1..(Len(s) - k) /\ i \in 1..Len(u) /\ k + i \in 1..Len(s)
      BY <1>1, <1>4, <2>2
    <3> QED BY <1>1, <1>3, <3>1 DEF CutInTwo
  <2> QED BY <2>1, <2>2
<1>7. At(other, t, k + 1) = other
  BY <1>2, <1>4
<1> QED BY <1>2, <1>3, <1>5, <1>6, <1>7

(* __list_cut_position() makes two lists of one.                           *)
LEMMA ListsCut ==
  ASSUME KernelListAssumption, NEW m, NEW q, Lists(m, q), NEW h \in Heads, NEW other \in Heads,
         other # h, q[other] = <<>>, NEW k \in 1..Len(q[h]),
         NEW t \in Seq(Entries), NEW u \in Seq(Entries), CutInTwo(q[h], t, u, k)
  PROVE  Lists(Cut(m, other, h, q[h][k]), [q EXCEPT ![other] = t, ![h] = u])
<1> DEFINE s == q[h]
           e == q[h][k]
           first == At(h, s, 1)
           n == At(h, s, k + 1)
           m2 == Cut(m, other, h, e)
           q1 == [q EXCEPT ![h] = u]
           q2 == [q EXCEPT ![other] = t, ![h] = u]
<1>1. /\ s \in Seq(Entries) /\ Len(s) \in Nat /\ k \in Nat /\ k <= Len(s) /\ k >= 1
      /\ m \in LinkMemory /\ q \in [Heads -> Seq(Entries)] /\ other \in Cells /\ h \in Cells
  BY LenProperties DEF Lists, Cells
<1>2. /\ \A i \in 0..(Len(s) + 1) : At(h, s, i) \in Cells
      /\ \A i, j \in 0..Len(s) : At(h, s, i) = At(h, s, j) => i = j
      /\ \A i, j \in 1..(Len(s) + 1) : At(h, s, i) = At(h, s, j) => i = j
      /\ \A g \in Heads : g # h =>
           \A i \in 0..(Len(q[g]) + 1), j \in 0..(Len(s) + 1) : At(g, q[g], i) # At(h, s, j)
  BY CellFacts
<1>3. /\ \A g \in Heads : \A i \in 0..(Len(q[g]) + 1) : At(g, q[g], i) \in Cells
      /\ \A g \in Heads : g # other =>
           \A i \in 0..(Len(q[g]) + 1), j \in 0..(Len(q[other]) + 1) :
             At(g, q[g], i) # At(other, q[other], j)
  BY CellFacts
<1>4. \A i \in 0..Len(s) : /\ m.next[At(h, s, i)] = At(h, s, i + 1)
                           /\ m.prev[At(h, s, i + 1)] = At(h, s, i)
  BY DEF Lists, Ring
<1>5. /\ Len(s) \in Nat
      /\ At(h, s, 0) = h /\ At(h, s, Len(s) + 1) = h
      /\ \A i \in 1..Len(s) : At(h, s, i) = s[i] /\ s[i] \in Entries
  <2>1. s \in Seq(Entries)
    BY <1>1
  <2> HIDE DEF s
  <2>2. Len(s) \in Nat
    BY <1>1
  <2>3. At(h, s, 0) = h /\ At(h, s, Len(s) + 1) = h
    BY <2>1, AtFacts
  <2>4. \A i \in 1..Len(s) : At(h, s, i) = s[i]
    BY <2>1, <2>2 DEF At
  <2>5. \A i \in 1..Len(s) : s[i] \in Entries
    BY <2>1, ElementOfSeq
  <2> QED BY <2>2, <2>3, <2>4, <2>5
<1>6. Len(q[other]) = 0 /\ At(other, q[other], 0) = other
  <2>1. q[other] \in Seq(Entries)
    BY <1>1
  <2>2. At(other, q[other], 0) = other
    BY <2>1, AtFacts
  <2> QED BY <2>2
<1>7. /\ At(other, t, 0) = other /\ At(other, t, k + 1) = other
      /\ \A i \in 1..k : At(other, t, i) = At(h, s, i)
      /\ At(h, u, 0) = h
      /\ \A i \in 1..(Len(s) - k + 1) : At(h, u, i) = At(h, s, k + i)
  <2>1. s \in Seq(Entries) /\ CutInTwo(s, t, u, k) /\ k \in 1..Len(s)
    BY <1>1
  <2> HIDE DEF s
  <2> QED BY <2>1, CutAt
<1>8. Len(t) = k /\ Len(u) = Len(s) - k
  BY DEF CutInTwo
<1>9. \A i \in 0..(Len(s) + 1) : At(h, s, i) # other
  <2>1. 0 \in 0..(Len(q[other]) + 1)
    BY <1>6
  <2> QED BY <1>2, <1>6, <2>1
<1>10. /\ 1 \in 0..(Len(s) + 1) /\ k \in 0..(Len(s) + 1) /\ k + 1 \in 0..(Len(s) + 1)
       /\ 0 \in 0..(Len(s) + 1) /\ 0 \in 0..Len(s) /\ k \in 0..Len(s) /\ k # 0 /\ 0 + 1 = 1
       /\ 1 \in 1..(Len(s) + 1) /\ k + 1 \in 1..(Len(s) + 1) /\ 1 # k + 1 /\ k \in 1..Len(s)
  BY <1>1
<1>11. /\ m.next[h] = first /\ m.next[e] = n /\ e = At(h, s, k)
       /\ first \in Cells /\ n \in Cells /\ e \in Cells
       /\ other # e /\ h # e /\ other # first /\ other # n /\ first # n
  <2>1. e = At(h, s, k)
    BY <1>5, <1>10
  <2>2. m.next[h] = first /\ m.next[e] = n
    BY <1>4, <1>5, <1>10, <2>1
  <2>3. first \in Cells /\ n \in Cells /\ e \in Cells
    BY <1>2, <1>10, <2>1
  <2>4. other # e /\ other # first /\ other # n
    BY <1>9, <1>10, <2>1
  <2>5. h # e /\ first # n
    BY <1>2, <1>5, <1>10, <2>1
  <2> QED BY <2>1, <2>2, <2>3, <2>4, <2>5
<1> HIDE DEF first, n, e
<1>12. /\ m2 \in LinkMemory
       /\ \A c \in Cells :
            /\ m2.next[c] = IF c = other THEN first ELSE IF c = e THEN other
                            ELSE IF c = h THEN n ELSE m.next[c]
            /\ m2.prev[c] = IF c = first THEN other ELSE IF c = other THEN e
                            ELSE IF c = n THEN h ELSE m.prev[c]
  BY SMTT(30), <1>1, <1>11, CutFacts
<1>13. /\ q2 \in [Heads -> Seq(Entries)] /\ q2[h] = u /\ q2[other] = t
       /\ \A g \in Heads : g # h /\ g # other => q2[g] = q[g]
  BY <1>1
<1> HIDE DEF m2, q2
<1>14. Ring(m2, other, t)
  <2> SUFFICES ASSUME NEW i \in 0..k
               PROVE  /\ m2.next[At(other, t, i)] = At(other, t, i + 1)
                      /\ m2.prev[At(other, t, i + 1)] = At(other, t, i)
    BY <1>8 DEF Ring
  <2>1. CASE i = 0
    <3>1. 0 + 1 = 1 /\ 1 \in 1..k
      BY <1>1
    <3>2. At(other, t, i) = other /\ At(other, t, i + 1) = first
      BY <1>7, <2>1, <3>1 DEF first
    <3> QED BY <1>1, <1>11, <1>12, <3>2
  <2>2. CASE i = k
    <3>1. k \in 1..k
      BY <1>1
    <3>2. At(other, t, i) = e /\ At(other, t, i + 1) = other
      BY <1>7, <1>11, <2>2, <3>1
    <3> QED BY <1>1, <1>11, <1>12, <3>2
  <2>3. CASE i # 0 /\ i # k
    <3>1. /\ i \in 1..k /\ i + 1 \in 1..k /\ i \in 0..Len(s)
          /\ i \in 0..(Len(s) + 1) /\ i + 1 \in 0..(Len(s) + 1)
          /\ i + 1 \in 1..(Len(s) + 1) /\ i + 1 # 1 /\ i + 1 # k + 1
      BY <1>1, <2>3
    <3>2. /\ At(h, s, i) # other /\ At(h, s, i) # e /\ At(h, s, i) # h
          /\ At(h, s, i + 1) # other /\ At(h, s, i + 1) # first /\ At(h, s, i + 1) # n
      <4>1. At(h, s, i) # e /\ At(h, s, i) # h
        BY <1>2, <1>5, <1>10, <1>11, <2>3, <3>1
      <4>2. At(h, s, i + 1) # first /\ At(h, s, i + 1) # n
        BY <1>2, <1>10, <3>1 DEF first, n
      <4> QED BY <1>9, <3>1, <4>1, <4>2
    <3>3. At(other, t, i) = At(h, s, i) /\ At(other, t, i + 1) = At(h, s, i + 1)
      BY <1>7, <3>1
    <3> QED BY <1>2, <1>4, <1>12, <3>1, <3>2, <3>3
  <2> QED BY <2>1, <2>2, <2>3
<1>15. Ring(m2, h, u)
  <2> SUFFICES ASSUME NEW i \in 0..(Len(s) - k)
               PROVE  /\ m2.next[At(h, u, i)] = At(h, u, i + 1)
                      /\ m2.prev[At(h, u, i + 1)] = At(h, u, i)
    BY <1>8 DEF Ring
  <2>1. CASE i = 0
    <3>1. 0 + 1 = 1 /\ 1 \in 1..(Len(s) - k + 1)
      BY <1>1
    <3>2. At(h, u, i) = h /\ At(h, u, i + 1) = n
      BY <1>7, <2>1, <3>1 DEF n
    <3> QED BY <1>1, <1>11, <1>12, <3>2
  <2>2. CASE i # 0
    <3>1. /\ i \in 1..(Len(s) - k + 1) /\ i + 1 \in 1..(Len(s) - k + 1)
          /\ k + i \in 0..Len(s) /\ k + i # 0 /\ k + i # k /\ k + (i + 1) = (k + i) + 1
          /\ k + i \in 0..(Len(s) + 1) /\ (k + i) + 1 \in 0..(Len(s) + 1)
          /\ (k + i) + 1 \in 1..(Len(s) + 1) /\ (k + i) + 1 # 1 /\ (k + i) + 1 # k + 1
      BY <1>1, <2>2
    <3>2. /\ At(h, s, k + i) # other /\ At(h, s, k + i) # e /\ At(h, s, k + i) # h
          /\ At(h, s, (k + i) + 1) # other /\ At(h, s, (k + i) + 1) # first
          /\ At(h, s, (k + i) + 1) # n
      <4>1. At(h, s, k + i) # e /\ At(h, s, k + i) # h
        BY <1>2, <1>5, <1>10, <1>11, <3>1
      <4>2. At(h, s, (k + i) + 1) # first /\ At(h, s, (k + i) + 1) # n
        BY <1>2, <1>10, <3>1 DEF first, n
      <4> QED BY <1>9, <3>1, <4>1, <4>2
    <3>3. At(h, u, i) = At(h, s, k + i) /\ At(h, u, i + 1) = At(h, s, (k + i) + 1)
      BY <1>7, <3>1
    <3> QED BY <1>2, <1>4, <1>12, <3>1, <3>2, <3>3
  <2> QED BY <2>1, <2>2
<1>16. ASSUME NEW g \in Heads, g # h, g # other PROVE Ring(m2, g, q2[g])
  <2>1. Ring(m, g, q[g]) /\ Len(q[g]) \in Nat
    BY <1>1, LenProperties DEF Lists
  <2>2. ASSUME NEW i \in 0..Len(q[g])
        PROVE  /\ m2.next[At(g, q[g], i)] = m.next[At(g, q[g], i)]
               /\ m2.prev[At(g, q[g], i + 1)] = m.prev[At(g, q[g], i + 1)]
    <3>1. /\ i \in 0..(Len(q[g]) + 1) /\ i + 1 \in 0..(Len(q[g]) + 1)
          /\ 0 \in 0..(Len(q[other]) + 1)
      BY <1>6, <2>1
    <3>2. At(g, q[g], i) # h /\ At(g, q[g], i) # e /\ At(g, q[g], i) # other
      BY <1>2, <1>3, <1>5, <1>6, <1>10, <1>11, <1>16, <3>1
    <3>3. /\ At(g, q[g], i + 1) # first /\ At(g, q[g], i + 1) # n
          /\ At(g, q[g], i + 1) # other
      BY <1>2, <1>3, <1>6, <1>10, <1>16, <3>1 DEF first, n
    <3> QED BY <1>3, <1>12, <3>1, <3>2, <3>3
  <2>3. Ring(m2, g, q[g])
    BY <2>1, <2>2, SameRing
  <2> QED BY <1>13, <1>16, <2>3
<1>17. \A g, f \in Heads : \A i \in 1..Len(q[g]), j \in 1..Len(q[f]) :
         q[g][i] = q[f][j] => g = f /\ i = j
  BY DEF Lists, NoneTwice
<1>18. /\ \A i \in 1..Len(t) : i \in 1..Len(s) /\ i <= k /\ t[i] = s[i]
       /\ \A i \in 1..Len(u) : k + i \in 1..Len(s) /\ k + i > k /\ u[i] = s[k + i]
  <2>1. \A i \in 1..Len(t) : i \in 1..Len(s) /\ i <= k /\ t[i] = s[i]
    BY <1>1, <1>8 DEF CutInTwo
  <2>2. ASSUME NEW i \in 1..Len(u) PROVE k + i \in 1..Len(s) /\ k + i > k /\ u[i] = s[k + i]
    <3>1. i \in 1..(Len(s) - k) /\ k + i \in 1..Len(s) /\ k + i > k
      BY <1>1, <1>8
    <3> QED BY <3>1 DEF CutInTwo
  <2> QED BY <2>1, <2>2
<1>19. NoneTwice(q1)
  <2>1. Differ(u)
    <3> SUFFICES ASSUME NEW i \in 1..Len(u), NEW j \in 1..Len(u), u[i] = u[j]
                 PROVE  i = j
      BY DEF Differ
    <3>1. k + i \in 1..Len(s) /\ k + j \in 1..Len(s) /\ s[k + i] = s[k + j]
      BY <1>18
    <3>2. k + i = k + j
      <4>1. k + i \in 1..Len(q[h]) /\ k + j \in 1..Len(q[h]) /\ q[h][k + i] = q[h][k + j]
        BY <3>1
      <4>2. \A a \in 1..Len(q[h]), b \in 1..Len(q[h]) :
              q[h][a] = q[h][b] => h = h /\ a = b
        BY <1>17
      <4> HIDE DEF s
      <4> QED BY <4>1, <4>2
    <3> QED BY <1>1, <1>8, <3>2
  <2>2. ApartFrom(q, h, u)
    BY <1>17, <1>18 DEF ApartFrom
  <2>3. NoneTwice(q)
    BY DEF Lists
  <2> QED BY <1>1, <2>1, <2>2, <2>3, OneChanged
<1>20. NoneTwice(q2)
  <2>1. Differ(t)
    <3> SUFFICES ASSUME NEW i \in 1..Len(t), NEW j \in 1..Len(t), t[i] = t[j]
                 PROVE  i = j
      BY DEF Differ
    <3>1. i \in 1..Len(s) /\ j \in 1..Len(s) /\ s[i] = s[j]
      BY <1>18
    <3> QED BY <1>17, <3>1, Zenon
  <2>2. ApartFrom(q1, other, t)
    <3> SUFFICES ASSUME NEW g \in Heads \ {other}, NEW i \in 1..Len(t), NEW j \in 1..Len(q1[g])
                 PROVE  t[i] # q1[g][j]
      BY DEF ApartFrom
    <3>1. CASE g = h
      <4>1. q1[g] = u
        BY <1>1, <3>1
      <4>2. /\ i \in 1..Len(s) /\ i <= k /\ t[i] = s[i]
            /\ k + j \in 1..Len(s) /\ k + j > k /\ u[j] = s[k + j]
        BY <1>18, <4>1
      <4>3. i # k + j
        BY <1>1, <4>2
      <4>4. s[i] = s[k + j] => i = k + j
        <5>1. i \in 1..Len(q[h]) /\ k + j \in 1..Len(q[h])
          BY <4>2
        <5> QED BY <1>17, <5>1, Zenon
      <4> QED BY <4>1, <4>2, <4>3, <4>4
    <3>2. CASE g # h
      BY <1>17, <1>18, <3>2
    <3> QED BY <3>1, <3>2
  <2>3. q1 \in [Heads -> Seq(Entries)] /\ q2 = [q1 EXCEPT ![other] = t]
    BY <1>1 DEF q2
  <2> HIDE DEF q1
  <2> QED BY <1>19, <2>1, <2>2, <2>3, OneChanged
<1>21. Lists(m2, q2)
  BY <1>12, <1>13, <1>14, <1>15, <1>16, <1>20 DEF Lists
<1> QED BY <1>21 DEF m2, q2, e

(* __list_splice() between two neighbours, then INIT_LIST_HEAD().          *)
LEMMA SplicedFacts ==
  ASSUME NEW m \in LinkMemory, NEW other \in Cells, NEW p \in Cells, NEW n \in Cells,
         NEW first \in Cells, NEW final \in Cells, m.next[other] = first, m.prev[other] = final,
         p # final, n # first, other \notin {p, n, first, final}
  PROVE  /\ Cleared(Spliced(m, other, p, n), other) \in LinkMemory
         /\ \A c \in Cells :
              /\ Cleared(Spliced(m, other, p, n), other).next[c] =
                   IF c = other THEN other ELSE IF c = final THEN n
                   ELSE IF c = p THEN first ELSE m.next[c]
              /\ Cleared(Spliced(m, other, p, n), other).prev[c] =
                   IF c = other THEN other ELSE IF c = n THEN final
                   ELSE IF c = first THEN p ELSE m.prev[c]
<1>1. Spliced(m, other, p, n) \in LinkMemory
  BY DEF Spliced, LinkMemory
<1>2. \A c \in Cells : Spliced(m, other, p, n).next[c] =
        IF c = final THEN n ELSE IF c = p THEN first ELSE m.next[c]
  BY DEF Spliced, LinkMemory
<1>3. \A c \in Cells : Spliced(m, other, p, n).prev[c] =
        IF c = n THEN final ELSE IF c = first THEN p ELSE m.prev[c]
  BY DEF Spliced, LinkMemory
<1> DEFINE z == Spliced(m, other, p, n)
<1>4. z \in LinkMemory /\ other \in Cells
  BY <1>1
<1>5. \A c \in Cells : /\ z.next[c] = IF c = final THEN n ELSE IF c = p THEN first ELSE m.next[c]
                       /\ z.prev[c] = IF c = n THEN final ELSE IF c = first THEN p ELSE m.prev[c]
  BY <1>2, <1>3
<1> HIDE DEF z
<1>6. /\ Cleared(z, other) \in LinkMemory
      /\ \A c \in Cells : /\ Cleared(z, other).next[c] = IF c = other THEN other ELSE z.next[c]
                          /\ Cleared(z, other).prev[c] = IF c = other THEN other ELSE z.prev[c]
  BY <1>4, ClearedFacts
<1> QED BY <1>5, <1>6 DEF z

PutInto(s, u, t, k) ==
  /\ Len(t) = Len(u) + Len(s)
  /\ \A i \in 1..k : t[i] = s[i]
  /\ \A i \in 1..Len(u) : t[k + i] = u[i]
  /\ \A i \in (k + 1)..Len(s) : t[Len(u) + i] = s[i]

LEMMA PutIntoAt ==
  ASSUME NEW s \in Seq(Entries), NEW u \in Seq(Entries), NEW t \in Seq(Entries),
         NEW k \in 0..Len(s), NEW h \in Heads, NEW other \in Heads, PutInto(s, u, t, k)
  PROVE  /\ \A i \in 0..k : At(h, t, i) = At(h, s, i)
         /\ \A i \in 1..Len(u) : At(h, t, k + i) = At(other, u, i)
         /\ \A i \in (k + 1)..(Len(s) + 1) : At(h, t, Len(u) + i) = At(h, s, i)
<1>1. /\ Len(s) \in Nat
      /\ At(h, s, 0) = h /\ At(h, s, Len(s) + 1) = h
      /\ \A i \in 1..Len(s) : At(h, s, i) = s[i] /\ s[i] \in Entries
  BY AtFacts
<1>2. /\ Len(t) \in Nat
      /\ At(h, t, 0) = h /\ At(h, t, Len(t) + 1) = h
      /\ \A i \in 1..Len(t) : At(h, t, i) = t[i] /\ t[i] \in Entries
  BY AtFacts
<1>3. /\ Len(u) \in Nat
      /\ At(other, u, 0) = other /\ At(other, u, Len(u) + 1) = other
      /\ \A i \in 1..Len(u) : At(other, u, i) = u[i] /\ u[i] \in Entries
  BY AtFacts
<1>4. Len(t) = Len(u) + Len(s)
  BY DEF PutInto
<1>5. ASSUME NEW i \in 0..k PROVE At(h, t, i) = At(h, s, i)
  <2>1. CASE i = 0
    BY <1>1, <1>2, <2>1
  <2>2. CASE i # 0
    <3>1. i \in 1..k /\ i \in 1..Len(s) /\ i \in 1..Len(t)
      BY <1>1, <1>3, <1>4, <2>2
    <3> QED BY <1>1, <1>2, <3>1 DEF PutInto
  <2> QED BY <2>1, <2>2
<1>6. ASSUME NEW i \in 1..Len(u) PROVE At(h, t, k + i) = At(other, u, i)
  <2>1. k + i \in 1..Len(t)
    BY <1>1, <1>3, <1>4
  <2> QED BY <1>2, <1>3, <2>1 DEF PutInto
<1>7. ASSUME NEW i \in (k + 1)..(Len(s) + 1) PROVE At(h, t, Len(u) + i) = At(h, s, i)
  <2>1. CASE i = Len(s) + 1
    <3>1. Len(u) + i = Len(t) + 1
      BY <1>1, <1>3, <1>4, <2>1
    <3> QED BY <1>1, <1>2, <2>1, <3>1
  <2>2. CASE i # Len(s) + 1
    <3>1. i \in (k + 1)..Len(s) /\ i \in 1..Len(s) /\ Len(u) + i \in 1..Len(t)
      BY <1>1, <1>3, <1>4, <2>2
    <3> QED BY <1>1, <1>2, <3>1 DEF PutInto
  <2> QED BY <2>1, <2>2
<1> QED BY <1>5, <1>6, <1>7

(* __list_splice() and INIT_LIST_HEAD() put a list into another one.       *)
LEMMA ListsSpliced ==
  ASSUME KernelListAssumption, NEW m, NEW q, Lists(m, q), NEW h \in Heads, NEW other \in Heads,
         other # h, Len(q[other]) > 0, NEW k \in 0..Len(q[h]),
         NEW t \in Seq(Entries), PutInto(q[h], q[other], t, k)
  PROVE  Lists(Cleared(Spliced(m, other, At(h, q[h], k), At(h, q[h], k + 1)), other),
               [q EXCEPT ![other] = <<>>, ![h] = t])
<1> DEFINE s == q[h]
           u == q[other]
           p == At(h, s, k)
           n == At(h, s, k + 1)
           first == At(other, u, 1)
           final == At(other, u, Len(u))
           m2 == Cleared(Spliced(m, other, p, n), other)
           q1 == [q EXCEPT ![other] = <<>>]
           q2 == [q EXCEPT ![other] = <<>>, ![h] = t]
<1>1. /\ s \in Seq(Entries) /\ Len(s) \in Nat /\ k \in Nat /\ k <= Len(s)
      /\ u \in Seq(Entries) /\ Len(u) \in Nat /\ Len(u) >= 1
      /\ m \in LinkMemory /\ q \in [Heads -> Seq(Entries)] /\ other \in Cells /\ h \in Cells
  BY LenProperties DEF Lists, Cells
<1>2. /\ \A i \in 0..(Len(s) + 1) : At(h, s, i) \in Cells
      /\ \A i, j \in 0..Len(s) : At(h, s, i) = At(h, s, j) => i = j
      /\ \A i, j \in 1..(Len(s) + 1) : At(h, s, i) = At(h, s, j) => i = j
      /\ \A g \in Heads : g # h =>
           \A i \in 0..(Len(q[g]) + 1), j \in 0..(Len(s) + 1) : At(g, q[g], i) # At(h, s, j)
  BY CellFacts
<1>3. /\ \A g \in Heads : \A i \in 0..(Len(q[g]) + 1) : At(g, q[g], i) \in Cells
      /\ \A i, j \in 0..Len(u) : At(other, u, i) = At(other, u, j) => i = j
      /\ \A i, j \in 1..(Len(u) + 1) : At(other, u, i) = At(other, u, j) => i = j
      /\ \A g \in Heads : g # other =>
           \A i \in 0..(Len(q[g]) + 1), j \in 0..(Len(u) + 1) :
             At(g, q[g], i) # At(other, u, j)
  BY CellFacts
<1>4. /\ \A i \in 0..Len(s) : /\ m.next[At(h, s, i)] = At(h, s, i + 1)
                              /\ m.prev[At(h, s, i + 1)] = At(h, s, i)
      /\ \A i \in 0..Len(u) : /\ m.next[At(other, u, i)] = At(other, u, i + 1)
                              /\ m.prev[At(other, u, i + 1)] = At(other, u, i)
  BY DEF Lists, Ring
<1>5. /\ At(other, u, 0) = other /\ At(other, u, Len(u) + 1) = other
  <2>1. u \in Seq(Entries)
    BY <1>1
  <2> HIDE DEF u
  <2> QED BY <2>1, AtFacts
<1>6. /\ \A i \in 0..k : At(h, t, i) = At(h, s, i)
      /\ \A i \in 1..Len(u) : At(h, t, k + i) = At(other, u, i)
      /\ \A i \in (k + 1)..(Len(s) + 1) : At(h, t, Len(u) + i) = At(h, s, i)
  <2>1. s \in Seq(Entries) /\ u \in Seq(Entries) /\ PutInto(s, u, t, k) /\ k \in 0..Len(s)
    BY <1>1
  <2> HIDE DEF s, u
  <2> QED BY <2>1, PutIntoAt
<1>7. Len(t) = Len(u) + Len(s)
  BY DEF PutInto
<1>8. /\ \A i \in 0..(Len(s) + 1), j \in 0..(Len(u) + 1) : At(h, s, i) # At(other, u, j)
      /\ \A i \in 0..(Len(s) + 1) : At(h, s, i) # other
  <2>1. \A i \in 0..(Len(s) + 1), j \in 0..(Len(u) + 1) : At(h, s, i) # At(other, u, j)
    BY <1>3
  <2>2. 0 \in 0..(Len(u) + 1)
    BY <1>1
  <2> QED BY <1>5, <2>1, <2>2
<1>9. /\ k \in 0..Len(s) /\ k \in 0..(Len(s) + 1) /\ k + 1 \in 0..(Len(s) + 1)
      /\ k + 1 \in 1..(Len(s) + 1)
      /\ 1 \in 1..Len(u) /\ 1 \in 0..Len(u) /\ 1 \in 0..(Len(u) + 1) /\ 1 \in 1..(Len(u) + 1)
      /\ Len(u) \in 1..Len(u) /\ Len(u) \in 0..Len(u) /\ Len(u) \in 0..(Len(u) + 1)
      /\ 0 \in 0..Len(u) /\ 0 # 1 /\ 0 # Len(u) /\ 0 + 1 = 1
      /\ Len(u) + 1 \in 1..(Len(u) + 1) /\ Len(u) + 1 # 1
  BY <1>1
<1>10. /\ m.next[other] = first /\ m.prev[other] = final
       /\ p \in Cells /\ n \in Cells /\ first \in Cells /\ final \in Cells
       /\ p # final /\ n # first /\ p # first /\ n # final /\ other \notin {p, n, first, final}
  <2>1. m.next[other] = first /\ m.prev[other] = final
    BY <1>4, <1>5, <1>9
  <2>2. p \in Cells /\ n \in Cells /\ first \in Cells /\ final \in Cells
    BY <1>2, <1>3, <1>9
  <2>3. p # final /\ n # first /\ p # first /\ n # final /\ other # p /\ other # n
    BY <1>8, <1>9
  <2>4. other # first /\ other # final
    <3>1. At(other, u, 0) # At(other, u, 1)
      BY <1>3, <1>9
    <3>2. At(other, u, 0) # At(other, u, Len(u))
      BY <1>3, <1>9
    <3> QED BY <1>5, <3>1, <3>2
  <2> QED BY <2>1, <2>2, <2>3, <2>4
<1>11. \A i \in 1..Len(u) : At(other, u, i) # other
  <2> SUFFICES ASSUME NEW i \in 1..Len(u) PROVE At(other, u, i) # other
    OBVIOUS
  <2>1. i \in 0..Len(u) /\ 0 \in 0..Len(u) /\ i # 0
    BY <1>1
  <2> QED BY <1>3, <1>5, <2>1
<1> HIDE DEF first, final, n, p
<1>12. /\ m2 \in LinkMemory
       /\ \A c \in Cells :
            /\ m2.next[c] = IF c = other THEN other ELSE IF c = final THEN n
                            ELSE IF c = p THEN first ELSE m.next[c]
            /\ m2.prev[c] = IF c = other THEN other ELSE IF c = n THEN final
                            ELSE IF c = first THEN p ELSE m.prev[c]
  <2>1. m2 = Cleared(Spliced(m, other, p, n), other)
    OBVIOUS
  <2>2. m \in LinkMemory /\ other \in Cells
    BY <1>1
  <2> HIDE DEF m2
  <2> DEFINE r == Cleared(Spliced(m, other, p, n), other)
  <2>3. /\ r \in LinkMemory
        /\ \A c \in Cells :
             /\ r.next[c] = IF c = other THEN other ELSE IF c = final THEN n
                            ELSE IF c = p THEN first ELSE m.next[c]
             /\ r.prev[c] = IF c = other THEN other ELSE IF c = n THEN final
                            ELSE IF c = first THEN p ELSE m.prev[c]
    BY <2>2, <1>10, SplicedFacts
  <2> QED BY <2>1, <2>3
<1>13. <<>> \in Seq(Entries) /\ Len(<<>>) = 0
  OBVIOUS
<1>14. /\ q1 \in [Heads -> Seq(Entries)] /\ q1[h] = s /\ q1[other] = <<>>
       /\ \A g \in Heads : g # other => q1[g] = q[g]
       /\ q2 \in [Heads -> Seq(Entries)] /\ q2[h] = t /\ q2[other] = <<>>
       /\ \A g \in Heads : g # h /\ g # other => q2[g] = q[g]
       /\ q2 = [q1 EXCEPT ![h] = t]
  BY <1>1, <1>13
<1> HIDE DEF m2, q1, q2
<1>15. Ring(m2, other, <<>>)
  <2>1. At(other, <<>>, 0) = other /\ At(other, <<>>, 1) = other
    <3>1. At(other, <<>>, 0) = other /\ At(other, <<>>, Len(<<>>) + 1) = other
      BY <1>13, AtFacts
    <3>2. Len(<<>>) + 1 = 1
      BY <1>13
    <3> QED BY <3>1, <3>2
  <2> SUFFICES ASSUME NEW i \in 0..0
               PROVE  /\ m2.next[At(other, <<>>, i)] = At(other, <<>>, i + 1)
                      /\ m2.prev[At(other, <<>>, i + 1)] = At(other, <<>>, i)
    BY <1>13 DEF Ring
  <2>2. i = 0 /\ i + 1 = 1
    OBVIOUS
  <2> QED BY <1>1, <1>12, <2>1, <2>2
<1>16. Ring(m2, h, t)
  <2> SUFFICES ASSUME NEW i \in 0..(Len(u) + Len(s))
               PROVE  /\ m2.next[At(h, t, i)] = At(h, t, i + 1)
                      /\ m2.prev[At(h, t, i + 1)] = At(h, t, i)
    BY <1>7 DEF Ring
  <2>0. ASSUME NEW j \in 0..Len(s), j # k
        PROVE  /\ m2.next[At(h, s, j)] = At(h, s, j + 1)
               /\ m2.prev[At(h, s, j + 1)] = At(h, s, j)
    <3>1. /\ j \in 0..(Len(s) + 1) /\ j + 1 \in 0..(Len(s) + 1) /\ j + 1 \in 1..(Len(s) + 1)
          /\ j + 1 # k + 1
      BY <1>1, <2>0
    <3>2. At(h, s, j) # p /\ At(h, s, j + 1) # n
      BY <1>2, <1>9, <2>0, <3>1 DEF p, n
    <3>3. /\ At(h, s, j) # final /\ At(h, s, j + 1) # first
          /\ At(h, s, j) # other /\ At(h, s, j + 1) # other
      BY <1>8, <1>9, <3>1 DEF first, final
    <3> QED BY <1>2, <1>4, <1>12, <3>1, <3>2, <3>3
  <2>1. CASE i < k
    <3>1. i \in 0..k /\ i + 1 \in 0..k /\ i \in 0..Len(s) /\ i # k
      BY <1>1, <2>1
    <3>2. At(h, t, i) = At(h, s, i) /\ At(h, t, i + 1) = At(h, s, i + 1)
      BY <1>6, <3>1
    <3> QED BY <2>0, <3>1, <3>2
  <2>2. CASE i = k
    <3>1. k \in 0..k
      BY <1>1
    <3>2. At(h, t, i) = p /\ At(h, t, i + 1) = first
      BY <1>6, <1>9, <2>2, <3>1 DEF p, first
    <3> QED BY <1>10, <1>12, <3>2
  <2>3. CASE i > k /\ i < k + Len(u)
    <3>1. PICK j \in Nat : i = k + j
      BY <1>1, <2>3
    <3>2. /\ j \in 1..Len(u) /\ j + 1 \in 1..Len(u) /\ k + (j + 1) = i + 1
          /\ j \in 0..Len(u) /\ j # Len(u)
          /\ j \in 0..(Len(u) + 1) /\ j + 1 \in 0..(Len(u) + 1)
          /\ j + 1 \in 1..(Len(u) + 1) /\ j + 1 # 1
      BY <1>1, <2>3, <3>1
    <3>3. At(h, t, i) = At(other, u, j) /\ At(h, t, i + 1) = At(other, u, j + 1)
      BY <1>6, <3>1, <3>2
    <3>4. At(other, u, j) # final /\ At(other, u, j + 1) # first
      BY <1>3, <1>9, <3>2 DEF first, final
    <3>5. At(other, u, j) # p /\ At(other, u, j + 1) # n
      BY <1>8, <1>9, <3>2 DEF p, n
    <3>6. At(other, u, j) # other /\ At(other, u, j + 1) # other
      BY <1>11, <3>2
    <3> QED BY <1>3, <1>4, <1>12, <3>2, <3>3, <3>4, <3>5, <3>6
  <2>4. CASE i = k + Len(u)
    <3>1. i + 1 = Len(u) + (k + 1) /\ k + 1 \in (k + 1)..(Len(s) + 1)
      BY <1>1, <2>4
    <3>2. At(h, t, i) = final
      BY <1>6, <1>9, <2>4 DEF final
    <3>3. At(h, t, i + 1) = n
      BY <1>6, <3>1 DEF n
    <3> QED BY <1>10, <1>12, <3>2, <3>3
  <2>5. CASE i > k + Len(u)
    <3>1. PICK j \in Nat : i = Len(u) + j
      <4>1. i - Len(u) \in Nat /\ i = Len(u) + (i - Len(u))
        BY <1>1, <2>5
      <4> QED BY <4>1
    <3>2. /\ j \in (k + 1)..(Len(s) + 1) /\ j + 1 \in (k + 1)..(Len(s) + 1)
          /\ Len(u) + (j + 1) = i + 1 /\ j \in 0..Len(s) /\ j # k
      BY <1>1, <2>5, <3>1
    <3>3. At(h, t, i) = At(h, s, j) /\ At(h, t, i + 1) = At(h, s, j + 1)
      BY <1>6, <3>1, <3>2
    <3> QED BY <2>0, <3>2, <3>3
  <2>6. i < k \/ i = k \/ (i > k /\ i < k + Len(u)) \/ i = k + Len(u) \/ i > k + Len(u)
    <3> HIDE DEF s, u
    <3>1. i \in Int /\ k \in Int /\ Len(u) \in Int
      BY <1>1
    <3> QED BY <3>1
  <2> QED BY <2>1, <2>2, <2>3, <2>4, <2>5, <2>6
<1>17. ASSUME NEW g \in Heads, g # h, g # other PROVE Ring(m2, g, q2[g])
  <2>1. Ring(m, g, q[g]) /\ Len(q[g]) \in Nat
    BY <1>1, LenProperties DEF Lists
  <2>2. ASSUME NEW i \in 0..Len(q[g])
        PROVE  /\ m2.next[At(g, q[g], i)] = m.next[At(g, q[g], i)]
               /\ m2.prev[At(g, q[g], i + 1)] = m.prev[At(g, q[g], i + 1)]
    <3>1. /\ i \in 0..(Len(q[g]) + 1) /\ i + 1 \in 0..(Len(q[g]) + 1)
          /\ 0 \in 0..(Len(u) + 1)
      BY <1>1, <2>1
    <3>2. At(g, q[g], i) # other /\ At(g, q[g], i + 1) # other
      BY <1>3, <1>5, <1>17, <3>1
    <3>3. At(g, q[g], i) # final /\ At(g, q[g], i + 1) # first
      BY <1>3, <1>9, <1>17, <3>1 DEF first, final
    <3>4. At(g, q[g], i) # p /\ At(g, q[g], i + 1) # n
      BY <1>2, <1>9, <1>17, <3>1 DEF p, n
    <3> QED BY <1>3, <1>12, <3>1, <3>2, <3>3, <3>4
  <2>3. Ring(m2, g, q[g])
    BY <2>1, <2>2, SameRing
  <2> QED BY <1>14, <1>17, <2>3
<1>18. \A g, f \in Heads : \A i \in 1..Len(q[g]), j \in 1..Len(q[f]) :
         q[g][i] = q[f][j] => g = f /\ i = j
  BY DEF Lists, NoneTwice
<1>19. NoneTwice(q1)
  <2>1. Differ(<<>>) /\ ApartFrom(q, other, <<>>)
    BY <1>13 DEF Differ, ApartFrom
  <2>2. NoneTwice(q)
    BY DEF Lists
  <2> QED BY <1>1, <2>1, <2>2, OneChanged DEF q1
<1>20. \A i \in 1..Len(t) :
         \/ i \in 1..k /\ i \in 1..Len(s) /\ t[i] = s[i]
         \/ i - k \in 1..Len(u) /\ t[i] = u[i - k]
         \/ i - Len(u) \in (k + 1)..Len(s) /\ i - Len(u) \in 1..Len(s) /\ t[i] = s[i - Len(u)]
  <2> SUFFICES ASSUME NEW i \in 1..Len(t)
               PROVE  \/ i \in 1..k /\ i \in 1..Len(s) /\ t[i] = s[i]
                      \/ i - k \in 1..Len(u) /\ t[i] = u[i - k]
                      \/ /\ i - Len(u) \in (k + 1)..Len(s) /\ i - Len(u) \in 1..Len(s)
                         /\ t[i] = s[i - Len(u)]
    OBVIOUS
  <2>1. CASE i <= k
    BY <1>1, <2>1 DEF PutInto
  <2>2. CASE i > k /\ i <= k + Len(u)
    <3>1. i - k \in 1..Len(u) /\ k + (i - k) = i
      BY <1>1, <2>2
    <3>2. t[k + (i - k)] = u[i - k]
      BY <3>1 DEF PutInto
    <3> QED BY <3>1, <3>2
  <2>3. CASE i > k + Len(u)
    <3>1. /\ i - Len(u) \in (k + 1)..Len(s) /\ i - Len(u) \in 1..Len(s)
          /\ Len(u) + (i - Len(u)) = i
      BY <1>1, <1>7, <2>3
    <3>2. t[Len(u) + (i - Len(u))] = s[i - Len(u)]
      BY <3>1 DEF PutInto
    <3> QED BY <3>1, <3>2
  <2> QED BY <1>1, <2>1, <2>2, <2>3
<1>21. ApartFrom(q1, h, t)
  <2> SUFFICES ASSUME NEW g \in Heads \ {h}, NEW i \in 1..Len(t), NEW j \in 1..Len(q1[g])
               PROVE  t[i] # q1[g][j]
    BY DEF ApartFrom
  <2>1. g # other
    BY <1>13, <1>14
  <2>2. q1[g] = q[g]
    BY <1>14, <2>1
  <2>3. \A a \in 1..Len(q[h]) : q[h][a] # q[g][j]
    BY <1>18, <2>2
  <2>4. \A a \in 1..Len(q[other]) : q[other][a] # q[g][j]
    BY <1>18, <2>1, <2>2
  <2>5. (\E a \in 1..Len(q[h]) : t[i] = q[h][a]) \/ (\E a \in 1..Len(q[other]) : t[i] = q[other][a])
    BY <1>20
  <2> QED BY <2>2, <2>3, <2>4, <2>5
<1>22. Differ(t)
  <2> SUFFICES ASSUME NEW i \in 1..Len(t), NEW j \in 1..Len(t), t[i] = t[j]
               PROVE  i = j
    BY DEF Differ
  <2>1. /\ \A a, b \in 1..Len(s) : s[a] = s[b] => a = b
        /\ \A a, b \in 1..Len(u) : u[a] = u[b] => a = b
        /\ \A a \in 1..Len(s), b \in 1..Len(u) : s[a] # u[b]
    BY <1>18
  <2> HIDE DEF s, u
  <2>2. \/ i \in 1..k /\ i \in 1..Len(s) /\ t[i] = s[i]
        \/ i - k \in 1..Len(u) /\ t[i] = u[i - k]
        \/ i - Len(u) \in (k + 1)..Len(s) /\ i - Len(u) \in 1..Len(s) /\ t[i] = s[i - Len(u)]
    BY <1>20
  <2>3. \/ j \in 1..k /\ j \in 1..Len(s) /\ t[j] = s[j]
        \/ j - k \in 1..Len(u) /\ t[j] = u[j - k]
        \/ j - Len(u) \in (k + 1)..Len(s) /\ j - Len(u) \in 1..Len(s) /\ t[j] = s[j - Len(u)]
    BY <1>20
  <2>4. \/ i \in 1..k /\ j \in 1..k /\ i = j
        \/ i \in 1..k /\ j - Len(u) \in (k + 1)..Len(s) /\ i = j - Len(u)
        \/ i - Len(u) \in (k + 1)..Len(s) /\ j \in 1..k /\ i - Len(u) = j
        \/ i - k = j - k
        \/ i - Len(u) = j - Len(u)
    BY <2>1, <2>2, <2>3
  <2> QED BY <1>1, <1>7, <2>4
<1>23. NoneTwice(q2)
  <2>1. NoneTwice([q1 EXCEPT ![h] = t])
    BY <1>14, <1>19, <1>21, <1>22, OneChanged
  <2> QED BY <1>14, <2>1
<1>24. Lists(m2, q2)
  BY <1>12, <1>14, <1>15, <1>16, <1>17, <1>23 DEF Lists
<1> QED BY <1>24 DEF m2, q2, p, n

(* list_add()                                                              *)
LEMMA ListsAddHead ==
  ASSUME KernelListAssumption, NEW m, NEW q, Lists(m, q), NEW h \in Heads,
         NEW x \in Entries, InNone(q, x)
  PROVE  Lists(Added(m, x, h, m.next[h]), [q EXCEPT ![h] = <<x>> \o @])
<1> DEFINE s == q[h]
           t == <<x>> \o s
<1>1. s \in Seq(Entries) /\ Len(s) \in Nat
  BY LenProperties DEF Lists
<1>2. /\ m.next[At(h, s, 0)] = At(h, s, 0 + 1)
      /\ At(h, s, 0) = h
  <2>1. 0 \in 0..Len(s)
    BY <1>1
  <2>2. m.next[At(h, s, 0)] = At(h, s, 0 + 1)
    BY <2>1 DEF Lists, Ring
  <2>3. At(h, s, 0) = h
    <3> HIDE DEF s
    <3> QED BY <1>1, AtFacts
  <2> QED BY <2>2, <2>3
<1>3. t \in Seq(Entries) /\ Placed(s, t, 0, x)
  <2>1. <<x>> \in Seq(Entries) /\ Len(<<x>>) = 1 /\ <<x>>[1] = x
    OBVIOUS
  <2> HIDE DEF s
  <2>2. /\ t \in Seq(Entries) /\ Len(t) = Len(<<x>>) + Len(s)
        /\ \A i \in 1..(Len(<<x>>) + Len(s)) :
             t[i] = IF i <= Len(<<x>>) THEN <<x>>[i] ELSE s[i - Len(<<x>>)]
    BY <1>1, <2>1, ConcatProperties
  <2> HIDE DEF t
  <2>3. \A i \in 1..(1 + Len(s)) : t[i] = IF i <= 1 THEN <<x>>[i] ELSE s[i - 1]
    BY <2>1, <2>2
  <2>4. t[0 + 1] = x
    <3>1. 1 \in 1..(1 + Len(s)) /\ 0 + 1 = 1
      BY <1>1
    <3> QED BY <2>1, <2>3, <3>1
  <2>5. ASSUME NEW i \in (0 + 1)..Len(s) PROVE t[i + 1] = s[i]
    <3>1. i + 1 \in 1..(1 + Len(s)) /\ ~(i + 1 <= 1) /\ (i + 1) - 1 = i
      BY <1>1
    <3> QED BY <2>3, <3>1
  <2>6. Len(t) = Len(s) + 1
    BY <1>1, <2>1, <2>2
  <2> QED BY <2>2, <2>4, <2>5, <2>6 DEF Placed
<1>4. 0 \in 0..Len(q[h])
  BY <1>1
<1> HIDE DEF t
<1>5. Lists(Added(m, x, At(h, q[h], 0), At(h, q[h], 0 + 1)), [q EXCEPT ![h] = t])
  BY <1>3, <1>4, ListsAdded
<1>6. [q EXCEPT ![h] = t] = [q EXCEPT ![h] = <<x>> \o @]
  BY DEF t
<1> QED BY <1>2, <1>5, <1>6

(* list_add_tail()                                                         *)
LEMMA ListsAddTail ==
  ASSUME KernelListAssumption, NEW m, NEW q, Lists(m, q), NEW h \in Heads,
         NEW x \in Entries, InNone(q, x)
  PROVE  Lists(Added(m, x, m.prev[h], h), [q EXCEPT ![h] = Append(@, x)])
<1> DEFINE s == q[h]
           t == Append(s, x)
<1>1. s \in Seq(Entries) /\ Len(s) \in Nat
  BY LenProperties DEF Lists
<1>2. /\ m.prev[At(h, s, Len(s) + 1)] = At(h, s, Len(s))
      /\ At(h, s, Len(s) + 1) = h
  <2>1. Len(s) \in 0..Len(s)
    BY <1>1
  <2>2. m.prev[At(h, s, Len(s) + 1)] = At(h, s, Len(s))
    BY <2>1 DEF Lists, Ring
  <2>3. At(h, s, Len(s) + 1) = h
    <3> HIDE DEF s
    <3> QED BY <1>1, AtFacts
  <2> QED BY <2>2, <2>3
<1>3. t \in Seq(Entries) /\ Placed(s, t, Len(s), x)
  <2> HIDE DEF s
  <2>1. /\ t \in Seq(Entries) /\ Len(t) = Len(s) + 1
        /\ \A i \in 1..Len(s) : t[i] = s[i]
        /\ t[Len(s) + 1] = x
    BY <1>1, AppendProperties
  <2> HIDE DEF t
  <2>2. \A i \in (Len(s) + 1)..Len(s) : t[i + 1] = s[i]
    BY <1>1
  <2> QED BY <2>1, <2>2 DEF Placed
<1>4. Len(q[h]) \in 0..Len(q[h])
  BY <1>1
<1> HIDE DEF t
<1>5. Lists(Added(m, x, At(h, q[h], Len(q[h])), At(h, q[h], Len(q[h]) + 1)),
            [q EXCEPT ![h] = t])
  BY <1>3, <1>4, ListsAdded
<1>6. [q EXCEPT ![h] = t] = [q EXCEPT ![h] = Append(@, x)]
  BY DEF t
<1> QED BY <1>2, <1>5, <1>6

LEMMA RemoveAtRemoves ==
  ASSUME NEW s \in Seq(Entries), NEW k \in 1..Len(s)
  PROVE  SeqExt!RemoveAt(s, k) \in Seq(Entries) /\ Removed(s, SeqExt!RemoveAt(s, k), k)
<1> DEFINE a == SubSeq(s, 1, k - 1)
           b == SubSeq(s, k + 1, Len(s))
           r == SeqExt!RemoveAt(s, k)
<1>1. Len(s) \in Nat /\ \A j \in 1..Len(s) : s[j] \in Entries
  BY LenProperties, ElementOfSeq
<1>2. a \in Seq(Entries) /\ Len(a) = k - 1 /\ \A j \in 1..(k - 1) : a[j] = s[j]
  OBVIOUS
<1>3. b \in Seq(Entries) /\ Len(b) = Len(s) - k
      /\ \A j \in 1..(Len(s) - k) : b[j] = s[j + k]
  OBVIOUS
<1>4. r = a \o b
  BY DEF SeqExt!RemoveAt
<1> HIDE DEF a, b, r
<1>5. /\ a \o b \in Seq(Entries)
      /\ Len(a \o b) = Len(a) + Len(b)
      /\ \A j \in 1..(Len(a) + Len(b)) :
           (a \o b)[j] = IF j <= Len(a) THEN a[j] ELSE b[j - Len(a)]
  BY <1>2, <1>3, ConcatProperties
<1>6. Len(r) = Len(s) - 1
  BY <1>1, <1>2, <1>3, <1>4, <1>5
<1>7. ASSUME NEW j \in 1..(k - 1) PROVE r[j] = s[j]
  <2>1. j \in 1..(Len(a) + Len(b)) /\ j <= Len(a)
    BY <1>1, <1>2, <1>3
  <2> QED BY <1>2, <1>4, <1>5, <2>1
<1>8. ASSUME NEW j \in k..(Len(s) - 1) PROVE r[j] = s[j + 1]
  <2>1. /\ j \in 1..(Len(a) + Len(b)) /\ ~(j <= Len(a))
        /\ j - Len(a) \in 1..(Len(s) - k) /\ (j - Len(a)) + k = j + 1
    BY <1>1, <1>2, <1>3
  <2>2. b[j - Len(a)] = s[(j - Len(a)) + k]
    BY <1>3, <2>1
  <2> QED BY <1>4, <1>5, <2>1, <2>2
<1> QED BY <1>4, <1>5, <1>6, <1>7, <1>8 DEF Removed, r

LEMMA PositionIs ==
  ASSUME NEW s \in Seq(Entries), Differ(s), NEW k \in 1..Len(s)
  PROVE  Position(s, s[k]) = k
<1>1. DOMAIN s = 1..Len(s)
  BY LenProperties
<1>2. \A i \in DOMAIN s : s[i] = s[k] => i = k
  BY <1>1 DEF Differ
<1>3. k \in DOMAIN s /\ s[k] = s[k]
  BY <1>1
<1> QED BY <1>2, <1>3 DEF Position

TakenOut(q, x) == [g \in Heads |-> Without(q[g], x)]

(* An entry is taken out of the list that holds it.                        *)
LEMMA ListsRemove ==
  ASSUME KernelListAssumption, NEW m, NEW q, Lists(m, q), NEW h \in Heads,
         NEW k \in 1..Len(q[h]), NEW x \in Entries, x = q[h][k]
  PROVE  /\ Lists(Unlinked(m, x), TakenOut(q, x))
         /\ InNone(TakenOut(q, x), x)
         /\ TakenOut(q, x) = [q EXCEPT ![h] = Without(q[h], x)]
         /\ Without(q[h], x) = SeqExt!RemoveAt(q[h], k)
<1>1. q \in [Heads -> Seq(Entries)] /\ NoneTwice(q)
  BY DEF Lists
<1>2. x \in Entries
  BY <1>1, ElementOfSeq
<1>3. Differ(q[h])
  BY <1>1 DEF NoneTwice, Differ
<1>4. \A g \in Heads : SeqExt!ToSet(q[g]) = {q[g][i] : i \in 1..Len(q[g])}
  <2>1. \A g \in Heads : DOMAIN q[g] = 1..Len(q[g])
    BY <1>1, LenProperties
  <2> QED BY <2>1 DEF SeqExt!ToSet
<1>5. Without(q[h], x) = SeqExt!RemoveAt(q[h], k)
  <2>1. x \in SeqExt!ToSet(q[h])
    BY <1>4
  <2>2. Position(q[h], x) = k
    BY <1>1, <1>3, PositionIs
  <2> QED BY <2>1, <2>2 DEF Without
<1>6. \A g \in Heads : g # h => Without(q[g], x) = q[g]
  <2> SUFFICES ASSUME NEW g \in Heads, g # h PROVE Without(q[g], x) = q[g]
    OBVIOUS
  <2>1. \A i \in 1..Len(q[g]) : q[g][i] # x
    BY <1>1 DEF NoneTwice
  <2>2. x \notin SeqExt!ToSet(q[g])
    BY <1>4, <2>1
  <2> QED BY <2>2 DEF Without
<1>7. TakenOut(q, x) = [q EXCEPT ![h] = Without(q[h], x)]
  BY <1>1, <1>6 DEF TakenOut
<1>8. SeqExt!RemoveAt(q[h], k) \in Seq(Entries) /\ Removed(q[h], SeqExt!RemoveAt(q[h], k), k)
  BY <1>1, RemoveAtRemoves
<1>9. /\ Lists(Unlinked(m, x), [q EXCEPT ![h] = SeqExt!RemoveAt(q[h], k)])
      /\ InNone([q EXCEPT ![h] = SeqExt!RemoveAt(q[h], k)], x)
  BY <1>8, ListsUnlinked
<1> QED BY <1>2, <1>5, <1>7, <1>9

LEMMA LinkedFacts ==
  ASSUME order \in [Heads -> Seq(Entries)]
  PROVE  /\ \A x : x \in Linked => \E h \in Heads : \E k \in 1..Len(order[h]) : x = order[h][k]
         /\ \A x : x \notin Linked => InNone(order, x)
<1>1. \A h \in Heads : SeqExt!ToSet(order[h]) = {order[h][i] : i \in 1..Len(order[h])}
  <2>1. \A h \in Heads : DOMAIN order[h] = 1..Len(order[h])
    BY LenProperties
  <2> QED BY <2>1 DEF SeqExt!ToSet
<1>2. \A x : x \in Linked <=> \E h \in Heads : x \in SeqExt!ToSet(order[h])
  BY DEF Linked
<1> QED BY <1>1, <1>2 DEF InNone

-----------------------------------------------------------------------------
(* What the operations do to the lists.                                    *)

LEMMA AddAction ==
  ASSUME KernelListAssumption, Lists(mem, order), NEW x \in Entries, NEW h \in Heads,
         ListAdd(x, h)
  PROVE  Lists(mem', order')
<1>1. InNone(order, x)
  BY LinkedFacts DEF ListAdd, Lists
<1>2. Lists(Added(mem, x, h, mem.next[h]), [order EXCEPT ![h] = <<x>> \o @])
  BY <1>1, ListsAddHead
<1>3. Lists(Added(mem, x, mem.prev[h], h), [order EXCEPT ![h] = Append(@, x)])
  BY <1>1, ListsAddTail
<1> QED BY <1>2, <1>3 DEF ListAdd

LEMMA DelAction ==
  ASSUME KernelListAssumption, Lists(mem, order), NEW x \in Entries, ListDel(x)
  PROVE  Lists(mem', order')
<1> DEFINE m == Unlinked(mem, x)
           q == TakenOut(order, x)
           m2 == [next |-> [m.next EXCEPT ![x] = Poison], prev |-> [m.prev EXCEPT ![x] = Poison]]
<1>1. PICK h \in Heads : \E k \in 1..Len(order[h]) : x = order[h][k]
  BY LinkedFacts DEF ListDel, Lists
<1>2. PICK k \in 1..Len(order[h]) : x = order[h][k]
  BY <1>1
<1>3. Lists(m, q) /\ InNone(q, x)
  BY <1>2, ListsRemove
<1>4. (mem' = m2 \/ mem' = Cleared(m, x)) /\ order' = q
  BY DEF ListDel, TakenOut
<1> HIDE DEF m, q
<1>5. Lists(Cleared(m, x), q)
  BY <1>3, ListsCleared
<1>6. Lists(m2, q)
  <2>1. m \in LinkMemory /\ x \in Cells
    BY <1>3 DEF Lists, Cells
  <2>2. /\ m2 \in LinkMemory
        /\ \A c \in Cells : c # x => m2.next[c] = m.next[c] /\ m2.prev[c] = m.prev[c]
    BY <2>1 DEF LinkMemory
  <2> HIDE DEF m2
  <2> QED BY <1>3, <2>2, ListsOwn
<1> QED BY <1>4, <1>5, <1>6

LEMMA MoveAction ==
  ASSUME KernelListAssumption, Lists(mem, order), NEW x \in Entries, NEW h \in Heads,
         ListMove(x, h)
  PROVE  Lists(mem', order')
<1> DEFINE m == Unlinked(mem, x)
           q == TakenOut(order, x)
<1>1. PICK f \in Heads : \E k \in 1..Len(order[f]) : x = order[f][k]
  BY LinkedFacts DEF ListMove, Lists
<1>2. PICK k \in 1..Len(order[f]) : x = order[f][k]
  BY <1>1
<1>3. Lists(m, q) /\ InNone(q, x)
  BY <1>2, ListsRemove
<1>4. \/ /\ mem' = Added(m, x, h, m.next[h])
         /\ order' = [q EXCEPT ![h] = <<x>> \o @]
      \/ /\ mem' = Added(m, x, m.prev[h], h)
         /\ order' = [q EXCEPT ![h] = Append(@, x)]
  BY DEF ListMove, TakenOut
<1> HIDE DEF m, q
<1>5. Lists(Added(m, x, h, m.next[h]), [q EXCEPT ![h] = <<x>> \o @])
  BY <1>3, ListsAddHead
<1>6. Lists(Added(m, x, m.prev[h], h), [q EXCEPT ![h] = Append(@, x)])
  BY <1>3, ListsAddTail
<1> QED BY <1>4, <1>5, <1>6

LEMMA ReplaceAction ==
  ASSUME KernelListAssumption, Lists(mem, order), NEW old \in Entries, NEW x \in Entries,
         ListReplace(old, x)
  PROVE  Lists(mem', order')
<1>1. order \in [Heads -> Seq(Entries)] /\ InNone(order, x) /\ NoneTwice(order)
  BY LinkedFacts DEF ListReplace, Lists
<1>2. PICK h \in Heads : \E k \in 1..Len(order[h]) : old = order[h][k]
  BY LinkedFacts DEF ListReplace, Lists
<1>3. PICK k \in 1..Len(order[h]) : old = order[h][k]
  BY <1>2
<1> DEFINE t == SeqExt!ReplaceAll(order[h], old, x)
<1>4. t \in Seq(Entries) /\ Exchanged(order[h], t, k, x)
  <2>1. /\ Len(order[h]) \in Nat
        /\ \A i \in 1..Len(order[h]) : order[h][i] \in Entries
    BY <1>1, LenProperties, ElementOfSeq
  <2>2. t \in [1..Len(order[h]) -> Entries]
    BY <2>1 DEF SeqExt!ReplaceAll
  <2>3. t \in Seq(Entries)
    BY <2>1, <2>2, SeqDef
  <2>4. Len(t) = Len(order[h])
    <3> HIDE DEF t
    <3>1. DOMAIN t = 1..Len(order[h]) /\ DOMAIN t = 1..Len(t) /\ Len(t) \in Nat
      BY <2>2, <2>3, LenProperties
    <3> QED BY <2>1, <3>1
  <2>5. \A i \in 1..Len(order[h]) : order[h][i] = old <=> i = k
    BY <1>1, <1>3 DEF NoneTwice
  <2>6. \A i \in 1..Len(order[h]) : t[i] = IF i = k THEN x ELSE order[h][i]
    BY <2>5 DEF SeqExt!ReplaceAll
  <2> HIDE DEF t
  <2> QED BY <2>3, <2>4, <2>6 DEF Exchanged
<1>5. \A g \in Heads : g # h => SeqExt!ReplaceAll(order[g], old, x) = order[g]
  <2> SUFFICES ASSUME NEW g \in Heads, g # h PROVE SeqExt!ReplaceAll(order[g], old, x) = order[g]
    OBVIOUS
  <2>1. \A i \in 1..Len(order[g]) : order[g][i] # old
    BY <1>1, <1>3 DEF NoneTwice
  <2>2. order[g] = [i \in 1..Len(order[g]) |-> order[g][i]]
    BY <1>1, LenProperties
  <2>3. SeqExt!ReplaceAll(order[g], old, x) = [i \in 1..Len(order[g]) |-> order[g][i]]
    BY <2>1 DEF SeqExt!ReplaceAll
  <2> QED BY <2>2, <2>3
<1> HIDE DEF t
<1>6. [g \in Heads |-> SeqExt!ReplaceAll(order[g], old, x)] = [order EXCEPT ![h] = t]
  BY <1>1, <1>5 DEF t
<1>7. /\ Lists(Replaced(mem, old, x), [order EXCEPT ![h] = t])
      /\ InNone([order EXCEPT ![h] = t], old)
  BY <1>1, <1>3, <1>4, ListsReplaced
<1>8. Lists(Cleared(Replaced(mem, old, x), old), [order EXCEPT ![h] = t])
  BY <1>7, ListsCleared
<1> QED BY <1>6, <1>8 DEF ListReplace

LEMMA RotateAction ==
  ASSUME KernelListAssumption, Lists(mem, order), NEW h \in Heads, ListRotate(h)
  PROVE  Lists(mem', order')
<1> DEFINE s == order[h]
           x == mem.next[h]
           m == Unlinked(mem, x)
           q == [order EXCEPT ![h] = Tail(s)]
<1>1. s \in Seq(Entries) /\ Len(s) \in Nat /\ order \in [Heads -> Seq(Entries)]
  BY LenProperties DEF Lists
<1>2. /\ At(h, s, 0) = h /\ At(h, s, Len(s) + 1) = h
      /\ \A i \in 1..Len(s) : At(h, s, i) = s[i]
  <2> HIDE DEF s
  <2> QED BY <1>1, AtFacts
<1>3. x = At(h, s, 1) /\ x # h
  <2>1. 0 \in 0..Len(s) /\ 0 + 1 = 1
    BY <1>1
  <2>2. mem.next[At(h, s, 0)] = At(h, s, 0 + 1)
    BY <2>1 DEF Lists, Ring
  <2> QED BY <1>2, <2>1, <2>2 DEF ListRotate, Empty
<1>4. 1 \in 1..Len(s) /\ x = s[1]
  <2>1. Len(s) # 0
    <3>1. SUFFICES ASSUME Len(s) = 0 PROVE FALSE
      OBVIOUS
    <3>2. Len(s) + 1 = 1
      BY <3>1
    <3> QED BY <1>2, <1>3, <3>2
  <2>2. 1 \in 1..Len(s)
    BY <1>1, <2>1
  <2> QED BY <1>2, <1>3, <2>2
<1>5. /\ Tail(s) \in Seq(Entries) /\ Removed(s, Tail(s), 1) /\ Head(s) = x
  <2>0. s # <<>>
    BY <1>4
  <2> HIDE DEF s, x
  <2>1. /\ Tail(s) \in Seq(Entries) /\ Len(Tail(s)) = Len(s) - 1
        /\ \A i \in 1..Len(Tail(s)) : Tail(s)[i] = s[i + 1]
    BY <1>1, <2>0, HeadTailProperties
  <2>2. \A i \in 1..(1 - 1) : Tail(s)[i] = s[i]
    OBVIOUS
  <2>3. Head(s) = x
    BY <1>1, <1>4, <2>0
  <2> QED BY <2>1, <2>2, <2>3 DEF Removed
<1>6. Lists(Unlinked(mem, order[h][1]), [order EXCEPT ![h] = Tail(s)])
      /\ InNone([order EXCEPT ![h] = Tail(s)], order[h][1])
  BY <1>4, <1>5, ListsUnlinked
<1>7. Lists(m, q) /\ InNone(q, x) /\ x \in Entries
  BY <1>1, <1>4, <1>6, ElementOfSeq
<1>8. order' = [q EXCEPT ![h] = Append(@, x)]
  BY <1>1, <1>5 DEF ListRotate
<1>9. mem' = Added(m, x, m.prev[h], h)
  BY DEF ListRotate
<1> HIDE DEF m, q, x
<1>10. Lists(Added(m, x, m.prev[h], h), [q EXCEPT ![h] = Append(@, x)])
  BY <1>7, ListsAddTail
<1> QED BY <1>8, <1>9, <1>10

LEMMA TwoParts ==
  ASSUME NEW s \in Seq(Entries), NEW k \in 1..Len(s)
  PROVE  /\ SubSeq(s, 1, k) \in Seq(Entries) /\ Len(SubSeq(s, 1, k)) = k
         /\ \A j \in 1..k : SubSeq(s, 1, k)[j] = s[j]
         /\ SubSeq(s, k + 1, Len(s)) \in Seq(Entries)
         /\ Len(SubSeq(s, k + 1, Len(s))) = Len(s) - k
         /\ \A j \in 1..(Len(s) - k) : SubSeq(s, k + 1, Len(s))[j] = s[k + j]
OBVIOUS

LEMMA CutAction ==
  ASSUME KernelListAssumption, Lists(mem, order), NEW other \in Heads, NEW h \in Heads,
         NEW e \in Entries, ListCut(other, h, e)
  PROVE  Lists(mem', order')
<1> DEFINE s == order[h]
<1>1. s \in Seq(Entries) /\ Len(s) \in Nat /\ DOMAIN s = 1..Len(s) /\ Differ(s)
  BY LenProperties DEF Lists, NoneTwice, Differ
<1>2. PICK k \in 1..Len(s) : e = s[k]
  BY <1>1 DEF ListCut, SeqExt!ToSet
<1>3. Position(s, e) = k
  <2> HIDE DEF s
  <2> QED BY <1>1, <1>2, PositionIs
<1> DEFINE t == SubSeq(s, 1, k)
           u == SubSeq(s, k + 1, Len(s))
<1>4. t \in Seq(Entries) /\ u \in Seq(Entries) /\ CutInTwo(s, t, u, k)
  <2> HIDE DEF s
  <2>3. /\ t \in Seq(Entries) /\ Len(t) = k /\ \A j \in 1..k : t[j] = s[j]
        /\ u \in Seq(Entries) /\ Len(u) = Len(s) - k
        /\ \A j \in 1..(Len(s) - k) : u[j] = s[k + j]
    BY <1>1, TwoParts
  <2> HIDE DEF t, u
  <2> QED BY <2>3 DEF CutInTwo
<1>5. /\ other # h /\ order[other] = <<>>
      /\ mem' = Cut(mem, other, h, e)
      /\ order' = [order EXCEPT ![other] = t, ![h] = u]
  <2>1. order' = [order EXCEPT ![other] = SubSeq(order[h], 1, k), ![h] = SubSeq(@, k + 1, Len(@))]
    BY <1>3 DEF ListCut
  <2> QED BY <2>1 DEF ListCut, Lists
<1> HIDE DEF t, u
<1>6. Lists(Cut(mem, other, h, s[k]), [order EXCEPT ![other] = t, ![h] = u])
  BY <1>4, <1>5, ListsCut
<1> QED BY <1>2, <1>5, <1>6

LEMMA SpliceAction ==
  ASSUME KernelListAssumption, Lists(mem, order), NEW other \in Heads, NEW h \in Heads,
         ListSplice(other, h)
  PROVE  Lists(mem', order')
<1> DEFINE s == order[h]
           u == order[other]
<1>1. /\ s \in Seq(Entries) /\ Len(s) \in Nat /\ u \in Seq(Entries) /\ Len(u) \in Nat
      /\ order \in [Heads -> Seq(Entries)] /\ other # h
  BY LenProperties DEF Lists, ListSplice
<1>2. /\ At(h, s, 0) = h /\ At(h, s, Len(s) + 1) = h
  <2> HIDE DEF s
  <2> QED BY <1>1, AtFacts
<1>3. Len(u) > 0
  <2>1. SUFFICES ASSUME Len(u) = 0 PROVE FALSE
    BY <1>1
  <2>2. 0 \in 0..Len(u) /\ Len(u) + 1 = 0 + 1
    BY <1>1, <2>1
  <2>3. mem.next[At(other, u, 0)] = At(other, u, 0 + 1)
    BY <2>2 DEF Lists, Ring
  <2>4. At(other, u, 0) = other /\ At(other, u, Len(u) + 1) = other
    <3> HIDE DEF u
    <3> QED BY <1>1, AtFacts
  <2> QED BY <2>2, <2>3, <2>4 DEF ListSplice, Empty
<1>4. CASE /\ mem' = Cleared(Spliced(mem, other, h, mem.next[h]), other)
           /\ order' = [order EXCEPT ![other] = <<>>, ![h] = order[other] \o @]
  <2> DEFINE t == u \o s
  <2>1. t \in Seq(Entries) /\ PutInto(s, u, t, 0)
    <3> HIDE DEF s, u
    <3>1. /\ t \in Seq(Entries) /\ Len(t) = Len(u) + Len(s)
          /\ \A i \in 1..(Len(u) + Len(s)) :
               t[i] = IF i <= Len(u) THEN u[i] ELSE s[i - Len(u)]
      BY <1>1, ConcatProperties
    <3> HIDE DEF t
    <3>2. \A i \in 1..0 : t[i] = s[i]
      OBVIOUS
    <3>3. ASSUME NEW i \in 1..Len(u) PROVE t[0 + i] = u[i]
      <4>1. 0 + i = i /\ i \in 1..(Len(u) + Len(s)) /\ i <= Len(u)
        BY <1>1
      <4> QED BY <3>1, <4>1
    <3>4. ASSUME NEW i \in (0 + 1)..Len(s) PROVE t[Len(u) + i] = s[i]
      <4>1. /\ Len(u) + i \in 1..(Len(u) + Len(s)) /\ ~(Len(u) + i <= Len(u))
            /\ (Len(u) + i) - Len(u) = i
        BY <1>1
      <4> QED BY <3>1, <4>1
    <3> QED BY <3>1, <3>2, <3>3, <3>4 DEF PutInto
  <2>2. order' = [order EXCEPT ![other] = <<>>, ![h] = t]
    BY <1>1, <1>4
  <2>3. 0 \in 0..Len(s) /\ mem.next[h] = At(h, s, 0 + 1)
    <3>1. 0 \in 0..Len(s)
      BY <1>1
    <3>2. mem.next[At(h, s, 0)] = At(h, s, 0 + 1)
      BY <3>1 DEF Lists, Ring
    <3> QED BY <1>2, <3>1, <3>2
  <2> HIDE DEF t
  <2>4. Lists(Cleared(Spliced(mem, other, At(h, order[h], 0), At(h, order[h], 0 + 1)), other),
              [order EXCEPT ![other] = <<>>, ![h] = t])
    BY <1>1, <1>3, <2>1, <2>3, ListsSpliced
  <2> QED BY <1>2, <1>4, <2>2, <2>3, <2>4
<1>5. CASE /\ mem' = Cleared(Spliced(mem, other, mem.prev[h], h), other)
           /\ order' = [order EXCEPT ![other] = <<>>, ![h] = @ \o order[other]]
  <2> DEFINE t == s \o u
  <2>1. t \in Seq(Entries) /\ PutInto(s, u, t, Len(s))
    <3> HIDE DEF s, u
    <3>1. /\ t \in Seq(Entries) /\ Len(t) = Len(s) + Len(u)
          /\ \A i \in 1..(Len(s) + Len(u)) :
               t[i] = IF i <= Len(s) THEN s[i] ELSE u[i - Len(s)]
      BY <1>1, ConcatProperties
    <3> HIDE DEF t
    <3>2. ASSUME NEW i \in 1..Len(s) PROVE t[i] = s[i]
      <4>1. i \in 1..(Len(s) + Len(u)) /\ i <= Len(s)
        BY <1>1
      <4> QED BY <3>1, <4>1
    <3>3. ASSUME NEW i \in 1..Len(u) PROVE t[Len(s) + i] = u[i]
      <4>1. /\ Len(s) + i \in 1..(Len(s) + Len(u)) /\ ~(Len(s) + i <= Len(s))
            /\ (Len(s) + i) - Len(s) = i
        BY <1>1
      <4> QED BY <3>1, <4>1
    <3>4. \A i \in (Len(s) + 1)..Len(s) : t[Len(u) + i] = s[i]
      BY <1>1
    <3>5. Len(t) = Len(u) + Len(s)
      BY <1>1, <3>1
    <3> QED BY <3>2, <3>3, <3>4, <3>5, <3>1 DEF PutInto
  <2>2. order' = [order EXCEPT ![other] = <<>>, ![h] = t]
    BY <1>1, <1>5
  <2>3. Len(s) \in 0..Len(s) /\ mem.prev[h] = At(h, s, Len(s))
    <3>1. Len(s) \in 0..Len(s)
      BY <1>1
    <3>2. mem.prev[At(h, s, Len(s) + 1)] = At(h, s, Len(s))
      BY <3>1 DEF Lists, Ring
    <3> QED BY <1>2, <3>1, <3>2
  <2> HIDE DEF t
  <2>4. Lists(Cleared(Spliced(mem, other, At(h, order[h], Len(order[h])),
                              At(h, order[h], Len(order[h]) + 1)), other),
              [order EXCEPT ![other] = <<>>, ![h] = t])
    BY <1>1, <1>3, <2>1, <2>3, ListsSpliced
  <2> QED BY <1>2, <1>5, <2>2, <2>3, <2>4
<1> QED BY <1>4, <1>5 DEF ListSplice

-----------------------------------------------------------------------------
(* A walk along the list.                                                  *)

Directions == {"next", "prev"}
Index(dir, q, i) == IF dir = "next" THEN i ELSE (Len(q) + 1) - i
Along(dir, h, q, i) == At(h, q, Index(dir, q, i))

LEMMA AlongFacts ==
  ASSUME NEW q \in Seq(Entries), NEW h \in Heads, NEW dir \in Directions
  PROVE  /\ Len(q) \in Nat
         /\ Along(dir, h, q, 0) = h /\ Along(dir, h, q, Len(q) + 1) = h
         /\ \A i \in 1..Len(q) : /\ Index(dir, q, i) \in 1..Len(q)
                                 /\ Along(dir, h, q, i) = q[Index(dir, q, i)]
<1>1. /\ Len(q) \in Nat
      /\ At(h, q, 0) = h /\ At(h, q, Len(q) + 1) = h
      /\ \A i \in 1..Len(q) : At(h, q, i) = q[i]
  BY AtFacts
<1>2. /\ Index(dir, q, 0) = 0 \/ Index(dir, q, 0) = Len(q) + 1
      /\ Index(dir, q, Len(q) + 1) = 0 \/ Index(dir, q, Len(q) + 1) = Len(q) + 1
      /\ \A i \in 1..Len(q) : Index(dir, q, i) \in 1..Len(q)
  BY <1>1 DEF Index, Directions
<1> QED BY <1>1, <1>2 DEF Along

(* A link of the ring leads one place further along the walk.              *)
LEMMA AlongRing ==
  ASSUME NEW m, NEW q \in Seq(Entries), NEW h \in Heads, Ring(m, h, q), NEW dir \in Directions,
         NEW i \in 0..Len(q)
  PROVE  m[dir][Along(dir, h, q, i)] = Along(dir, h, q, i + 1)
<1>1. Len(q) \in Nat
  BY LenProperties
<1>2. CASE dir = "next"
  BY <1>2 DEF Ring, Along, Index
<1>3. CASE dir = "prev"
  <2> DEFINE j == Len(q) - i
  <2>1. j \in 0..Len(q) /\ (Len(q) + 1) - i = j + 1 /\ (Len(q) + 1) - (i + 1) = j
    BY <1>1
  <2>2. m.prev[At(h, q, j + 1)] = At(h, q, j)
    BY <2>1 DEF Ring
  <2>3. Index(dir, q, i) = j + 1 /\ Index(dir, q, i + 1) = j
    BY <1>3, <2>1 DEF Index
  <2> HIDE DEF j
  <2> QED BY <1>3, <2>2, <2>3 DEF Along
<1> QED BY <1>2, <1>3 DEF Directions

(* What the walk has still to pass, of all, is the rest of the list.       *)
Remains(dir, h, q, all, v) ==
  /\ Len(all) - v <= Len(q)
  /\ \A i \in 1..(Len(all) - v) :
       Along(dir, h, q, (Len(q) - (Len(all) - v)) + i) = At(h, all, v + i)

LEMMA RemainsFacts ==
  ASSUME NEW q \in Seq(Entries), NEW all \in Seq(Entries), NEW h \in Heads, NEW dir \in Directions,
         NEW v \in 0..Len(all), Remains(dir, h, q, all, v),
         NEW i \in 1..((Len(all) - v) + 1)
  PROVE  Along(dir, h, q, (Len(q) - (Len(all) - v)) + i) = At(h, all, v + i)
<1>1. /\ Len(all) \in Nat /\ At(h, all, Len(all) + 1) = h
      /\ Len(q) \in Nat /\ Along(dir, h, q, Len(q) + 1) = h
  BY AtFacts, AlongFacts
<1>2. CASE i \in 1..(Len(all) - v)
  BY <1>2 DEF Remains
<1>3. CASE i = (Len(all) - v) + 1
  <2>1. (Len(q) - (Len(all) - v)) + i = Len(q) + 1 /\ v + i = Len(all) + 1
    BY <1>1, <1>3
  <2> QED BY <1>1, <2>1
<1>4. i \in 1..(Len(all) - v) \/ i = (Len(all) - v) + 1
  BY <1>1
<1> QED BY <1>2, <1>3, <1>4

(* The link that a walk reads at the entry it is at.                       *)
LEMMA NextRead ==
  ASSUME NEW m, NEW q \in Seq(Entries), NEW all \in Seq(Entries), NEW h \in Heads,
         NEW dir \in Directions, Ring(m, h, q),
         NEW v \in 0..Len(all), v < Len(all), Remains(dir, h, q, all, v)
  PROVE  m[dir][At(h, all, v + 1)] = At(h, all, v + 2)
<1> DEFINE k == (Len(q) - (Len(all) - v)) + 1
<1>1. Len(all) \in Nat /\ Len(q) \in Nat /\ Len(all) - v <= Len(q)
  BY LenProperties DEF Remains
<1>2. /\ k \in 0..Len(q) /\ k + 1 = (Len(q) - (Len(all) - v)) + 2
      /\ 1 \in 1..((Len(all) - v) + 1) /\ 2 \in 1..((Len(all) - v) + 1)
  BY <1>1
<1>3. /\ Along(dir, h, q, k) = At(h, all, v + 1)
      /\ Along(dir, h, q, k + 1) = At(h, all, v + 2)
  <2>1. ASSUME NEW i \in 1..((Len(all) - v) + 1)
        PROVE  Along(dir, h, q, (Len(q) - (Len(all) - v)) + i) = At(h, all, v + i)
    BY RemainsFacts
  <2> QED BY <1>2, <2>1
<1> HIDE DEF k
<1> QED BY <1>2, <1>3, AlongRing

(* The entry at which the walk is has a place in the list.                 *)
LEMMA WalkIsAt ==
  ASSUME NEW q \in Seq(Entries), NEW all \in Seq(Entries), NEW h \in Heads, NEW dir \in Directions,
         NEW v \in 0..Len(all), v < Len(all), Remains(dir, h, q, all, v)
  PROVE  LET k == Index(dir, q, (Len(q) - (Len(all) - v)) + 1)
         IN  k \in 1..Len(q) /\ At(h, all, v + 1) = q[k]
<1> DEFINE j == (Len(q) - (Len(all) - v)) + 1
<1>1. Len(all) \in Nat /\ Len(q) \in Nat /\ Len(all) - v <= Len(q)
  BY LenProperties DEF Remains
<1>2. j \in 1..Len(q) /\ 1 \in 1..(Len(all) - v)
  BY <1>1
<1>3. Along(dir, h, q, j) = At(h, all, v + 1)
  BY <1>2 DEF Remains
<1> HIDE DEF j
<1>4. Index(dir, q, j) \in 1..Len(q) /\ Along(dir, h, q, j) = q[Index(dir, q, j)]
  <2>1. \A i \in 1..Len(q) : /\ Index(dir, q, i) \in 1..Len(q)
                             /\ Along(dir, h, q, i) = q[Index(dir, q, i)]
    BY AlongFacts
  <2> QED BY <1>2, <2>1
<1> QED BY <1>3, <1>4 DEF j

(* The walk goes on and the list stays as it is.                           *)
LEMMA RemainsStays ==
  ASSUME NEW q \in Seq(Entries), NEW all \in Seq(Entries), NEW h \in Heads, NEW dir \in Directions,
         NEW v \in 0..Len(all), v < Len(all), Remains(dir, h, q, all, v)
  PROVE  Remains(dir, h, q, all, v + 1)
<1>1. Len(all) \in Nat /\ Len(q) \in Nat /\ Len(all) - v <= Len(q)
  BY LenProperties DEF Remains
<1>2. ASSUME NEW i \in 1..(Len(all) - (v + 1))
      PROVE  Along(dir, h, q, (Len(q) - (Len(all) - (v + 1))) + i) = At(h, all, (v + 1) + i)
  <2>1. /\ i + 1 \in 1..(Len(all) - v)
        /\ (Len(q) - (Len(all) - (v + 1))) + i = (Len(q) - (Len(all) - v)) + (i + 1)
        /\ (v + 1) + i = v + (i + 1)
    BY <1>1
  <2> QED BY <2>1 DEF Remains
<1>3. Len(all) - (v + 1) <= Len(q)
  BY <1>1
<1> QED BY <1>2, <1>3 DEF Remains

(* The walk goes on and the entry it leaves is removed.                    *)
LEMMA RemainsRemoved ==
  ASSUME NEW q \in Seq(Entries), NEW all \in Seq(Entries), NEW t \in Seq(Entries),
         NEW h \in Heads, NEW dir \in Directions,
         NEW v \in 0..Len(all), v < Len(all), Remains(dir, h, q, all, v),
         Removed(q, t, Index(dir, q, (Len(q) - (Len(all) - v)) + 1))
  PROVE  Remains(dir, h, t, all, v + 1)
<1>1. /\ Len(all) \in Nat /\ Len(q) \in Nat /\ Len(all) - v <= Len(q)
      /\ Len(t) = Len(q) - 1
  BY LenProperties DEF Remains, Removed
<1>2. ASSUME NEW i \in 1..(Len(all) - (v + 1))
      PROVE  Along(dir, h, t, (Len(t) - (Len(all) - (v + 1))) + i) = At(h, all, (v + 1) + i)
  <2> DEFINE j == (Len(q) - (Len(all) - v)) + (i + 1)
             l == (Len(t) - (Len(all) - (v + 1))) + i
             a == Index(dir, q, j)
             b == Index(dir, t, l)
  <2>1. i + 1 \in 1..(Len(all) - v) /\ (v + 1) + i = v + (i + 1)
    BY <1>1
  <2>2. Along(dir, h, q, j) = At(h, all, (v + 1) + i)
    BY <2>1 DEF Remains
  <2>3. j \in 1..Len(q) /\ l \in 1..Len(t) /\ l = j - 1
    BY <1>1
  <2>4. q[a] = t[b]
    <3>1. CASE dir = "next"
      <4>1. /\ Index(dir, q, (Len(q) - (Len(all) - v)) + 1) = (Len(q) - (Len(all) - v)) + 1
            /\ a = j /\ b = l
        BY <3>1 DEF Index
      <4>2. l \in ((Len(q) - (Len(all) - v)) + 1)..(Len(q) - 1) /\ l + 1 = j
        BY <1>1, <2>3
      <4> QED BY <4>1, <4>2 DEF Removed
    <3>2. CASE dir = "prev"
      <4>1. /\ Index(dir, q, (Len(q) - (Len(all) - v)) + 1)
                 = (Len(q) + 1) - ((Len(q) - (Len(all) - v)) + 1)
            /\ a = (Len(q) + 1) - j /\ b = (Len(t) + 1) - l
        BY <3>2 DEF Index
      <4>2. /\ (Len(q) + 1) - ((Len(q) - (Len(all) - v)) + 1) = Len(all) - v
            /\ b \in 1..((Len(all) - v) - 1) /\ a = b
        BY <1>1, <2>3, <4>1
      <4> HIDE DEF a, b
      <4> QED BY <4>1, <4>2 DEF Removed
    <3> QED BY <3>1, <3>2 DEF Directions
  <2> HIDE DEF j, l
  <2>5. Along(dir, h, q, j) = q[a] /\ Along(dir, h, t, l) = t[b]
    <3>1. \A p \in 1..Len(q) : Along(dir, h, q, p) = q[Index(dir, q, p)]
      BY AlongFacts
    <3>2. \A p \in 1..Len(t) : Along(dir, h, t, p) = t[Index(dir, t, p)]
      BY AlongFacts
    <3> QED BY <2>3, <3>1, <3>2
  <2>6. Along(dir, h, t, l) = At(h, all, (v + 1) + i)
    BY <2>2, <2>4, <2>5
  <2> QED BY <2>6 DEF l
<1>3. Len(all) - (v + 1) <= Len(t)
  BY <1>1
<1> QED BY <1>2, <1>3 DEF Remains

-----------------------------------------------------------------------------
(* The inductive invariant.                                                *)

Walking(c) ==
  /\ c \in [dir : Directions, head : Heads, pos : Cells, n : Cells \cup {Poison},
            all : Seq(Entries)]
  /\ visited \in Seq(Entries)
  /\ Len(visited) <= Len(c.all)
  /\ \A i \in 1..Len(visited) : visited[i] = c.all[i]
  /\ Remains(c.dir, c.head, order[c.head], c.all, Len(visited))
  /\ c.pos = At(c.head, c.all, Len(visited) + 1)
  /\ Len(visited) < Len(c.all) => c.n = At(c.head, c.all, Len(visited) + 2)

ListInv ==
  /\ Lists(mem, order)
  /\ cursor = NoWalk \/ Walking(cursor)

LEMMA ListInvStarts ==
  ASSUME KernelListAssumption, ListInit
  PROVE  ListInv
<1>1. mem \in LinkMemory /\ order \in [Heads -> Seq(Entries)]
  BY DEF ListInit, LinkMemory
<1>2. \A h \in Heads : order[h] = <<>> /\ Len(order[h]) = 0
  BY DEF ListInit
<1>3. NoneTwice(order)
  BY <1>2 DEF NoneTwice
<1>4. ASSUME NEW h \in Heads PROVE Ring(mem, h, order[h])
  <2>1. At(h, order[h], 0) = h /\ At(h, order[h], 0 + 1) = h
    BY <1>1, <1>2, AtFacts
  <2>2. mem.next[h] = h /\ mem.prev[h] = h
    BY DEF ListInit, Cells
  <2>3. \A i \in 0..Len(order[h]) : i = 0
    BY <1>2
  <2> QED BY <2>1, <2>2, <2>3 DEF Ring
<1>5. cursor = NoWalk
  BY DEF ListInit
<1> QED BY <1>1, <1>3, <1>4, <1>5 DEF ListInv, Lists

LEMMA WalkBeginsWell ==
  ASSUME KernelListAssumption, ListInv, NEW h \in Heads, NEW dir \in Directions,
         WalkBegins(h, dir)
  PROVE  ListInv'
<1> DEFINE q == order[h]
           all == IF dir = "next" THEN q ELSE SeqExt!Reverse(q)
<1>1. /\ q \in Seq(Entries) /\ Len(q) \in Nat /\ Ring(mem, h, q) /\ mem \in LinkMemory
      /\ \A i \in 1..Len(q) : q[i] \in Entries
  BY LenProperties, ElementOfSeq DEF ListInv, Lists
<1>2. /\ all \in Seq(Entries) /\ Len(all) = Len(q)
      /\ \A i \in 1..Len(q) : all[i] = q[Index(dir, q, i)]
  <2>1. CASE dir = "next"
    BY <1>1, <2>1 DEF Index
  <2>2. CASE dir = "prev"
    <3> HIDE DEF q
    <3>1. \A i \in 1..Len(q) : (Len(q) - i) + 1 = (Len(q) + 1) - i /\ (Len(q) - i) + 1 \in 1..Len(q)
      BY <1>1
    <3>2. SeqExt!Reverse(q) \in [1..Len(q) -> Entries]
      BY <1>1, <3>1 DEF SeqExt!Reverse
    <3>3. SeqExt!Reverse(q) \in Seq(Entries)
      BY <1>1, <3>2, SeqDef
    <3>4. Len(SeqExt!Reverse(q)) = Len(q)
      <4>1. DOMAIN SeqExt!Reverse(q) = 1..Len(q)
        BY <3>2
      <4>2. DOMAIN SeqExt!Reverse(q) = 1..Len(SeqExt!Reverse(q)) /\ Len(SeqExt!Reverse(q)) \in Nat
        BY <3>3, LenProperties
      <4> QED BY <1>1, <4>1, <4>2
    <3>5. \A i \in 1..Len(q) : SeqExt!Reverse(q)[i] = q[(Len(q) + 1) - i]
      BY <3>1 DEF SeqExt!Reverse
    <3> QED BY <2>2, <3>3, <3>4, <3>5 DEF Index
  <2> QED BY <2>1, <2>2 DEF Directions
<1>3. /\ cursor' = [dir |-> dir, head |-> h, pos |-> mem[dir][h],
                    n |-> mem[dir][mem[dir][h]], all |-> all]
      /\ visited' = <<>> /\ mem' = mem /\ order' = order
  BY DEF WalkBegins
<1> HIDE DEF q, all
<1>4. Remains(dir, h, q, all, 0)
  <2>1. ASSUME NEW i \in 1..(Len(all) - 0)
        PROVE  Along(dir, h, q, (Len(q) - (Len(all) - 0)) + i) = At(h, all, 0 + i)
    <3>1. i \in 1..Len(q) /\ i \in 1..Len(all) /\ (Len(q) - (Len(all) - 0)) + i = i /\ 0 + i = i
      BY <1>1, <1>2
    <3>2. \A p \in 1..Len(q) : Along(dir, h, q, p) = q[Index(dir, q, p)]
      BY <1>1, AlongFacts
    <3>3. \A p \in 1..Len(all) : At(h, all, p) = all[p] /\ all[p] \in Entries
      <4>1. all \in Seq(Entries)
        BY <1>2
      <4> QED BY <4>1, AtFacts
    <3> QED BY <1>2, <3>1, <3>2, <3>3
  <2>2. Len(all) - 0 <= Len(q)
    BY <1>1, <1>2
  <2> QED BY <2>1, <2>2 DEF Remains
<1>5. 0 \in 0..Len(all) /\ Len(all) \in Nat
  BY <1>1, <1>2
<1>6. mem[dir][h] = At(h, all, 0 + 1)
  <2>1. /\ 0 \in 0..Len(q) /\ 1 \in 1..((Len(all) - 0) + 1)
        /\ (Len(q) - (Len(all) - 0)) + 1 = 0 + 1
    BY <1>1, <1>2
  <2>2. Along(dir, h, q, 0 + 1) = At(h, all, 0 + 1)
    <3>1. CASE Len(all) = 0
      <4>1. Along(dir, h, q, Len(q) + 1) = h
        BY <1>1, AlongFacts
      <4>2. all \in Seq(Entries)
        BY <1>2
      <4>3. At(h, all, Len(all) + 1) = h
        BY <4>2, AtFacts
      <4>4. Len(q) = Len(all)
        BY <1>2
      <4> QED BY <3>1, <4>1, <4>3, <4>4
    <3>2. CASE Len(all) # 0
      <4>1. /\ 1 \in 1..(Len(all) - 0) /\ (Len(q) - (Len(all) - 0)) + 1 = 0 + 1
        BY <1>5, <2>1, <3>2
      <4>2. Along(dir, h, q, (Len(q) - (Len(all) - 0)) + 1) = At(h, all, 0 + 1)
        BY <1>4, <4>1 DEF Remains
      <4> QED BY <4>1, <4>2
    <3> QED BY <3>1, <3>2
  <2>3. mem[dir][Along(dir, h, q, 0)] = Along(dir, h, q, 0 + 1)
    BY <1>1, <2>1, AlongRing
  <2>4. Along(dir, h, q, 0) = h
    BY <1>1, AlongFacts
  <2> QED BY <2>2, <2>3, <2>4
<1>7. 0 < Len(all) => mem[dir][mem[dir][h]] = At(h, all, 0 + 2)
  <2> SUFFICES ASSUME 0 < Len(all) PROVE mem[dir][mem[dir][h]] = At(h, all, 0 + 2)
    OBVIOUS
  <2>1. mem[dir][At(h, all, 0 + 1)] = At(h, all, 0 + 2)
    BY <1>1, <1>2, <1>4, <1>5, NextRead
  <2> QED BY <1>6, <2>1
<1>8. mem[dir][h] \in Cells
  <2>0. all \in Seq(Entries)
    BY <1>2
  <2>1. \A p \in 1..Len(all) : At(h, all, p) \in Entries
    <3>1. \A p \in 1..Len(all) : At(h, all, p) = all[p] /\ all[p] \in Entries
      BY <2>0, AtFacts
    <3> QED BY <3>1
  <2>2. At(h, all, Len(all) + 1) = h
    BY <2>0, AtFacts
  <2>3. 0 + 1 \in 1..Len(all) \/ 0 + 1 = Len(all) + 1
    BY <1>5
  <2> QED BY <1>6, <2>1, <2>2, <2>3 DEF Cells
<1>9. mem[dir][mem[dir][h]] \in Cells \cup {Poison}
  BY <1>1, <1>8 DEF LinkMemory, Directions
<1>10. Len(visited') = 0 /\ visited' \in Seq(Entries)
  BY <1>3
<1> DEFINE c == [dir |-> dir, head |-> h, pos |-> mem[dir][h],
                 n |-> mem[dir][mem[dir][h]], all |-> all]
<1>11. /\ c \in [dir : Directions, head : Heads, pos : Cells, n : Cells \cup {Poison},
                 all : Seq(Entries)]
       /\ c.dir = dir /\ c.head = h /\ c.pos = mem[dir][h]
       /\ c.n = mem[dir][mem[dir][h]] /\ c.all = all
  BY <1>2, <1>8, <1>9
<1>12. cursor' = c
  BY <1>3
<1> HIDE DEF c
<1>13. /\ Len(visited') <= Len(c.all)
       /\ \A i \in 1..Len(visited') : visited'[i] = c.all[i]
  BY <1>5, <1>10, <1>11
<1>14. /\ Remains(c.dir, c.head, order'[c.head], c.all, Len(visited'))
       /\ c.pos = At(c.head, c.all, Len(visited') + 1)
       /\ Len(visited') < Len(c.all) => c.n = At(c.head, c.all, Len(visited') + 2)
  BY <1>3, <1>4, <1>6, <1>7, <1>10, <1>11 DEF q
<1>15. Walking(cursor)'
  BY <1>10, <1>11, <1>12, <1>13, <1>14 DEF Walking
<1>16. Lists(mem, order)'
  BY <1>3 DEF ListInv
<1> QED BY <1>15, <1>16 DEF ListInv

LEMMA WalkStepsWell ==
  ASSUME KernelListAssumption, ListInv, WalkStep
  PROVE  ListInv'
<1>1. Walking(cursor) /\ Lists(mem, order)
  BY DEF ListInv, WalkStep
<1> DEFINE dir == cursor.dir
           h == cursor.head
           all == cursor.all
           v == Len(visited)
           q == order[h]
           x == cursor.pos
           k == Index(dir, q, (Len(q) - (Len(all) - v)) + 1)
<1>2. /\ dir \in Directions /\ h \in Heads /\ all \in Seq(Entries) /\ x \in Cells
      /\ visited \in Seq(Entries) /\ v \in Nat /\ Len(all) \in Nat /\ v <= Len(all)
      /\ q \in Seq(Entries) /\ Remains(dir, h, q, all, v)
      /\ x = At(h, all, v + 1)
      /\ v < Len(all) => cursor.n = At(h, all, v + 2)
  BY <1>1, LenProperties DEF Walking, Lists
<1>3. \A i \in 1..v : visited[i] = all[i]
  BY <1>1 DEF Walking
<1>4. /\ x # h
      /\ \/ mem' = mem /\ order' = order
         \/ /\ mem' = Cleared(Unlinked(mem, x), x)
            /\ order' = TakenOut(order, x)
      /\ cursor' = [cursor EXCEPT !.pos = cursor.n, !.n = mem'[dir][cursor.n]]
      /\ visited' = Append(visited, x)
  BY DEF WalkStep, TakenOut
<1>5. /\ At(h, all, Len(all) + 1) = h
      /\ \A i \in 1..Len(all) : At(h, all, i) = all[i] /\ all[i] \in Entries
  <2>1. all \in Seq(Entries)
    BY <1>2
  <2> HIDE DEF all, h
  <2> QED BY <2>1, AtFacts
<1>6. v < Len(all) /\ v \in 0..Len(all) /\ v + 1 \in 0..Len(all) /\ v + 1 \in 1..Len(all)
  <2>1. v # Len(all)
    BY <1>2, <1>4, <1>5
  <2> HIDE DEF all
  <2> QED BY <1>2, <2>1
<1> HIDE DEF dir, h, all, v, q, x
<1>7. k \in 1..Len(q) /\ x = q[k]
  BY <1>2, <1>6, WalkIsAt
<1> HIDE DEF k
<1>8. /\ Lists(mem', order') /\ Remains(dir, h, order'[h], all, v + 1)
  <2>1. CASE mem' = mem /\ order' = order
    <3>1. Remains(dir, h, q, all, v + 1)
      BY <1>2, <1>6, RemainsStays
    <3> QED BY <1>1, <2>1, <3>1 DEF q
  <2>2. CASE mem' = Cleared(Unlinked(mem, x), x) /\ order' = TakenOut(order, x)
    <3>1. k \in 1..Len(order[h]) /\ x = order[h][k] /\ x \in Entries
      BY <1>2, <1>7, ElementOfSeq DEF q
    <3>2. /\ Lists(Unlinked(mem, x), TakenOut(order, x))
          /\ InNone(TakenOut(order, x), x) /\ x \in Entries
          /\ TakenOut(order, x) = [order EXCEPT ![h] = Without(order[h], x)]
          /\ Without(order[h], x) = SeqExt!RemoveAt(order[h], k)
      <4>1. KernelListAssumption /\ Lists(mem, order) /\ h \in Heads
        BY <1>1, <1>2
      <4> QED BY <3>1, <4>1, ListsRemove
    <3>3. Lists(Cleared(Unlinked(mem, x), x), TakenOut(order, x))
      BY <3>2, ListsCleared
    <3>4. order'[h] = SeqExt!RemoveAt(q, k)
      BY <1>1, <1>2, <2>2, <3>2 DEF Lists, q
    <3>5. SeqExt!RemoveAt(q, k) \in Seq(Entries) /\ Removed(q, SeqExt!RemoveAt(q, k), k)
      BY <1>2, <1>7, RemoveAtRemoves
    <3>6. Remains(dir, h, SeqExt!RemoveAt(q, k), all, v + 1)
      BY <1>2, <1>6, <3>5, RemainsRemoved DEF k
    <3> QED BY <2>2, <3>3, <3>4, <3>6
  <2> QED BY <1>4, <2>1, <2>2
<1>9. cursor.n = At(h, all, v + 2) /\ v + 2 = (v + 1) + 1
  BY <1>2, <1>6
<1>10. cursor.n \in Cells
  <2>1. v + 2 \in 1..Len(all) \/ v + 2 = Len(all) + 1
    BY <1>2, <1>6
  <2> QED BY <1>2, <1>5, <1>9, <2>1 DEF Cells
<1>11. v + 1 < Len(all) => mem'[dir][cursor.n] = At(h, all, (v + 1) + 2)
  <2> SUFFICES ASSUME v + 1 < Len(all)
               PROVE  mem'[dir][cursor.n] = At(h, all, (v + 1) + 2)
    OBVIOUS
  <2>1. order'[h] \in Seq(Entries) /\ Ring(mem', h, order'[h])
    BY <1>2, <1>8 DEF Lists
  <2>2. mem'[dir][At(h, all, (v + 1) + 1)] = At(h, all, (v + 1) + 2)
    BY <1>2, <1>6, <1>8, <2>1, NextRead
  <2> QED BY <1>9, <2>2
<1>12. mem'[dir][cursor.n] \in Cells \cup {Poison}
  BY <1>2, <1>8, <1>10 DEF Lists, LinkMemory, Directions
<1>13. x = all[v + 1] /\ x \in Entries
  BY <1>2, <1>5, <1>6
<1>14. /\ visited' \in Seq(Entries) /\ Len(visited') = v + 1
       /\ \A i \in 1..v : visited'[i] = visited[i]
       /\ visited'[v + 1] = x
  BY <1>2, <1>4, <1>13, AppendProperties DEF v
<1>15. \A i \in 1..(v + 1) : visited'[i] = all[i]
  <2>1. \A i \in 1..(v + 1) : i \in 1..v \/ i = v + 1
    BY <1>2
  <2> QED BY <1>3, <1>13, <1>14, <2>1
<1>16. /\ cursor' \in [dir : Directions, head : Heads, pos : Cells, n : Cells \cup {Poison},
                       all : Seq(Entries)]
       /\ cursor'.dir = dir /\ cursor'.head = h /\ cursor'.all = all
       /\ cursor'.pos = cursor.n /\ cursor'.n = mem'[dir][cursor.n]
  <2>1. cursor \in [dir : Directions, head : Heads, pos : Cells, n : Cells \cup {Poison},
                    all : Seq(Entries)]
    BY <1>1 DEF Walking
  <2> QED BY <1>4, <1>10, <1>12, <2>1 DEF dir, h, all
<1>17. v + 1 <= Len(all)
  BY <1>2, <1>6
<1>18. Walking(cursor)'
  BY <1>8, <1>9, <1>11, <1>14, <1>15, <1>16, <1>17 DEF Walking
<1> QED BY <1>8, <1>18 DEF ListInv

(* Both directions of every list are those of its sequence, and a walk has *)
(* still to pass exactly what follows it.                                  *)
THEOREM ListInvariant == ListSpec => []ListInv
<1> USE KernelListAssumption
<1>1. ListInit => ListInv
  BY ListInvStarts
<1>2. ListInv /\ [ListNext]_listVars => ListInv'
  <2> SUFFICES ASSUME ListInv, [ListNext]_listVars PROVE ListInv'
    OBVIOUS
  <2>1. Lists(mem, order)
    BY DEF ListInv
  <2>2. ASSUME Idle, Lists(mem', order') PROVE ListInv'
    BY <2>2 DEF Idle, ListInv
  <2>3. CASE \E x \in Entries, h \in Heads : ListAdd(x, h)
    BY <2>1, <2>2, <2>3, AddAction DEF ListAdd
  <2>4. CASE \E x \in Entries, h \in Heads : ListMove(x, h)
    BY <2>1, <2>2, <2>4, MoveAction DEF ListMove
  <2>5. CASE \E x \in Entries : ListDel(x)
    BY <2>1, <2>2, <2>5, DelAction DEF ListDel
  <2>6. CASE \E old, x \in Entries : ListReplace(old, x)
    BY <2>1, <2>2, <2>6, ReplaceAction DEF ListReplace
  <2>7. CASE \E h \in Heads : ListRotate(h)
    BY <2>1, <2>2, <2>7, RotateAction DEF ListRotate
  <2>8. CASE \E other, h \in Heads, e \in Entries : ListCut(other, h, e)
    BY <2>1, <2>2, <2>8, CutAction DEF ListCut
  <2>9. CASE \E other, h \in Heads : ListSplice(other, h)
    BY <2>1, <2>2, <2>9, SpliceAction DEF ListSplice
  <2>10. CASE \E h \in Heads, dir \in {"next", "prev"} : WalkBegins(h, dir)
    BY <2>10, WalkBeginsWell DEF Directions
  <2>11. CASE WalkStep
    BY <2>11, WalkStepsWell
  <2>12. CASE WalkEnds
    BY <2>1, <2>12 DEF WalkEnds, ListInv
  <2>13. CASE UNCHANGED listVars
    BY <2>13 DEF listVars, ListInv, Walking
  <2> QED
    BY <2>3, <2>4, <2>5, <2>6, <2>7, <2>8, <2>9, <2>10, <2>11, <2>12, <2>13 DEF ListNext
<1> QED BY <1>1, <1>2, PTL DEF ListSpec

LEMMA FirstPart ==
  ASSUME NEW s \in Seq(Entries), NEW k \in 0..Len(s)
  PROVE  /\ SubSeq(s, 1, k) \in Seq(Entries) /\ Len(SubSeq(s, 1, k)) = k
         /\ \A j \in 1..k : SubSeq(s, 1, k)[j] = s[j]
OBVIOUS

(* list_add(), list_del(), list_replace(), list_move(),                    *)
(* list_rotate_left(), list_cut_position() and list_splice() keep both     *)
(* directions of every list as promised, and list_for_each_entry_safe()    *)
(* passes every entry once though the body removes the current one.        *)
THEOREM ListsAreIntact == ListSpec => []ListsIntact
<1>1. ListInv => ListsIntact
  <2> SUFFICES ASSUME ListInv PROVE ListsIntact
    OBVIOUS
  <2>1. \A h \in Heads : Ring(mem, h, order[h])
    BY DEF ListInv, Lists
  <2>2. ASSUME cursor # NoWalk
        PROVE  /\ visited = SubSeq(cursor.all, 1, Len(visited))
               /\ cursor.pos = cursor.head => visited = cursor.all
    <3>1. /\ visited \in Seq(Entries) /\ cursor.all \in Seq(Entries)
          /\ Len(visited) <= Len(cursor.all)
          /\ \A i \in 1..Len(visited) : visited[i] = cursor.all[i]
          /\ cursor.pos = At(cursor.head, cursor.all, Len(visited) + 1)
          /\ cursor.head \in Heads
      BY <2>2 DEF ListInv, Walking
    <3> DEFINE all == cursor.all
               h == cursor.head
    <3>2. /\ all \in Seq(Entries) /\ h \in Heads /\ Len(visited) <= Len(all)
          /\ \A i \in 1..Len(visited) : visited[i] = all[i]
          /\ Len(visited) \in Nat
      BY <3>1, LenProperties
    <3>3. cursor.pos = cursor.head => At(h, all, Len(visited) + 1) = h
      BY <3>1
    <3> HIDE DEF all, h
    <3>4. /\ Len(all) \in Nat
          /\ \A i \in 1..Len(all) : At(h, all, i) = all[i] /\ all[i] \in Entries
      BY <3>2, AtFacts
    <3>5. visited = SubSeq(all, 1, Len(visited))
      <4>1. \A i \in 1..Len(visited) : i \in 1..Len(all)
        BY <3>2, <3>4
      <4>2. /\ SubSeq(all, 1, Len(visited)) \in Seq(Entries)
            /\ Len(SubSeq(all, 1, Len(visited))) = Len(visited)
            /\ \A i \in 1..Len(visited) : SubSeq(all, 1, Len(visited))[i] = all[i]
        BY <3>2, <3>4, FirstPart
      <4> QED BY <3>1, <3>2, <4>2, SeqEqual
    <3>6. ASSUME cursor.pos = cursor.head PROVE visited = all
      <4>1. Len(visited) = Len(all)
        <5>1. SUFFICES ASSUME Len(visited) < Len(all) PROVE FALSE
          BY <3>2, <3>4
        <5>2. Len(visited) + 1 \in 1..Len(all)
          BY <3>2, <3>4, <5>1
        <5>3. At(h, all, Len(visited) + 1) \in Entries
          BY <3>4, <5>2
        <5> QED BY <3>2, <3>3, <3>6, <5>3, KernelListAssumption
      <4> QED BY <3>1, <3>2, <4>1, SeqEqual
    <3> QED BY <3>5, <3>6 DEF all
  <2> QED BY <2>1, <2>2 DEF ListsIntact
<1> QED BY <1>1, ListInvariant, PTL

=============================================================================
