------------------------------- MODULE Threads -------------------------------
(***************************************************************************)
(* thread objects (kngin/core/base/thread.h) over posix_thread and         *)
(* win_thread.  A thread has two things that must be given back once: its  *)
(* thread_data, which the new thread takes over, and the system's thread,  *)
(* which is joined or detached.                                            *)
(***************************************************************************)
EXTENDS Naturals

CONSTANT ThreadObjects

VARIABLES
  object,   \* "none", "made", "joining", "joined", "gone"
  system,   \* the system's thread: "none", "running", "ended"
  dataLive, \* the thread_data exists
  freed,    \* how often it was deleted
  reaped    \* how often the system's thread was joined or detached

threadVars == <<object, system, dataLive, freed, reaped>>

ThreadsInit ==
  /\ object = [h \in ThreadObjects |-> "none"]
  /\ system = [h \in ThreadObjects |-> "none"]
  /\ dataLive = [h \in ThreadObjects |-> FALSE]
  /\ freed = [h \in ThreadObjects |-> 0]
  /\ reaped = [h \in ThreadObjects |-> 0]

(* joinable(): join() has not returned.                                    *)
Joinable(h) == object[h] \in {"made", "joining"}

(* create_thread(): the data goes to the new thread.                       *)
CreateThread(h) ==
  /\ object[h] = "none"
  /\ object' = [object EXCEPT ![h] = "made"]
  /\ system' = [system EXCEPT ![h] = "running"]
  /\ dataLive' = [dataLive EXCEPT ![h] = TRUE]
  /\ UNCHANGED <<freed, reaped>>

(* The constructor when that fails: it deletes the data and throws.        *)
CreateFails(h) ==
  /\ object[h] = "none"
  /\ object' = [object EXCEPT ![h] = "gone"]
  /\ freed' = [freed EXCEPT ![h] = @ + 1]
  /\ UNCHANGED <<system, dataLive, reaped>>

(* start(): the thread's function returns or throws, and the thread        *)
(* deletes the data.                                                       *)
ThreadReturns(h) ==
  /\ system[h] = "running"
  /\ system' = [system EXCEPT ![h] = "ended"]
  /\ dataLive' = [dataLive EXCEPT ![h] = FALSE]
  /\ freed' = [freed EXCEPT ![h] = @ + 1]
  /\ UNCHANGED <<object, reaped>>

(* join(), which is called once: it begins ...                             *)
JoinThread(h) ==
  /\ object[h] = "made"
  /\ object' = [object EXCEPT ![h] = "joining"]
  /\ UNCHANGED <<system, dataLive, freed, reaped>>

(* ... and returns when the thread has ended.                              *)
JoinReturned(h) ==
  /\ object[h] = "joining" /\ system[h] = "ended"
  /\ object' = [object EXCEPT ![h] = "joined"]
  /\ reaped' = [reaped EXCEPT ![h] = @ + 1]
  /\ UNCHANGED <<system, dataLive, freed>>

(* Faulty variant: a thread that was joined is detached as well.           *)
ReleaseDetaches(h) ==
  /\ object[h] \in {"made", "joined"}
  /\ reaped' = [reaped EXCEPT ![h] = @ + 1]
  /\ object' = [object EXCEPT ![h] = "gone"]
  /\ UNCHANGED <<system, dataLive, freed>>

(* ~thread(), by a thread that does not race with join(): what was not     *)
(* joined is detached.                                                     *)
ReleaseThread(h) ==
  /\ object[h] \in {"made", "joined"}
  /\ reaped' = [reaped EXCEPT ![h] = IF Joinable(h) THEN @ + 1 ELSE @]
  /\ object' = [object EXCEPT ![h] = "gone"]
  /\ UNCHANGED <<system, dataLive, freed>>

ThreadsNext ==
  \E h \in ThreadObjects :
    \/ CreateThread(h) \/ CreateFails(h) \/ ThreadReturns(h)
    \/ JoinThread(h) \/ JoinReturned(h) \/ ReleaseThread(h)

ThreadsSpec == ThreadsInit /\ [][ThreadsNext]_threadVars

-----------------------------------------------------------------------------
(* The data lives as long as the thread reads it, also behind the life of  *)
(* the object, and is deleted once; the system's thread is joined or       *)
(* detached once, and only by the end of the object.                       *)
ThreadsReleasedOnce ==
  \A h \in ThreadObjects :
    /\ system[h] = "running" => dataLive[h]
    /\ freed[h] = IF object[h] # "none" /\ ~dataLive[h] THEN 1 ELSE 0
    /\ reaped[h] = IF object[h] = "joined" \/ (object[h] = "gone" /\ system[h] # "none")
                   THEN 1 ELSE 0

=============================================================================
