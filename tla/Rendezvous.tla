----------------------------- MODULE Rendezvous -----------------------------
(***************************************************************************)
(* What a barrier promises to the threads that meet at it.  A thread comes *)
(* in, and out again only when all the others have come in too.  The last  *)
(* one to go out is told so; it alone destroys the barrier, which may then *)
(* be made again for the next meeting.  WinBarrier.tla implements this.    *)
(***************************************************************************)
EXTENDS Naturals

CONSTANTS
  Parties,    \* the threads that meet
  MaxRounds   \* bound: how many meetings there are

VARIABLES
  where,   \* where[t]: "outside", "inside", or "left" until the next meeting
  told,    \* who was told that it is the last one, a set of at most one
  usable,  \* the barrier exists
  rounds   \* the meetings so far, this one included

vars == <<where, told, usable, rounds>>

Init ==
  /\ where = [t \in Parties |-> "outside"]
  /\ told = {}
  /\ usable = TRUE
  /\ rounds = 1

Come(t) ==
  /\ usable
  /\ where[t] = "outside"
  /\ where' = [where EXCEPT ![t] = "inside"]
  /\ UNCHANGED <<told, usable, rounds>>

Go(t) ==
  /\ where[t] = "inside"
  /\ \A u \in Parties : where[u] # "outside"
  /\ where' = [where EXCEPT ![t] = "left"]
  /\ told' = IF \A u \in Parties \ {t} : where[u] = "left" THEN {t} ELSE {}
  /\ UNCHANGED <<usable, rounds>>

Destroy(t) ==
  /\ usable
  /\ told = {t}
  /\ \A u \in Parties : where[u] = "left"
  /\ usable' = FALSE
  /\ UNCHANGED <<where, told, rounds>>

MakeAgain ==
  /\ ~usable
  /\ rounds < MaxRounds
  /\ where' = [t \in Parties |-> "outside"]
  /\ told' = {}
  /\ usable' = TRUE
  /\ rounds' = rounds + 1

(* Most steps of an implementation are nobody's: TLC tries that first.     *)
Next ==
  \/ UNCHANGED vars
  \/ \E t \in Parties : Come(t) \/ Go(t) \/ Destroy(t)
  \/ MakeAgain

Spec == Init /\ [][Next]_vars

=============================================================================
