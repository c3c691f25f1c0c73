-------------------------------- MODULE ObjMgr --------------------------------
(***************************************************************************)
(* obj_mgr (detail/core/base/obj_mgr.h): the container of the timers.  An  *)
(* object in it occupies a node of list_, and points at that node; nodes   *)
(* that are not used wait in free_.  size_ and size_free_ count both lists *)
(* by hand, and the free nodes are kept in proportion to the used ones.    *)
(*                                                                         *)
(* The callers hold a mutex for each operation, so an operation is one     *)
(* step.  Which free node is taken or released is left open: the order of  *)
(* the lists is not modelled, they are sets of nodes.                      *)
(***************************************************************************)
EXTENDS Naturals, FiniteSets

CONSTANTS
  Nodes,    \* the addresses of nodes
  Objects,  \* the objects, and their shared pointers
  Null,     \* nullptr
  Stray,    \* the value of a pointer that was never set
  Reserve,  \* KNGIN_LIST_PRE_ALLOC_SIZE, KNGIN_DEFAULT_PREALLOC_SIZE
  MaxSize   \* bound: the argument of resize()

ASSUME ObjMgrAssumption ==
  /\ Null \notin Nodes \cup Objects
  /\ Stray \notin Nodes \cup {Null}
  /\ Reserve \in Nat
  /\ MaxSize \in Nat

VARIABLES
  list,      \* list_
  free,      \* free_
  size,      \* size_
  sizeFree,  \* size_free_
  ptr,       \* ptr[n]: ptr_ of node n
  node       \* node[o]: node_ of object o

vars == <<list, free, size, sizeFree, ptr, node>>

TypeOK ==
  /\ list \in SUBSET Nodes
  /\ free \in SUBSET Nodes
  /\ size \in Nat
  /\ sizeFree \in Nat
  /\ ptr \in [Nodes -> Objects \cup {Null}]
  /\ node \in [Objects -> Nodes \cup {Null, Stray}]

(* S is a set of k nodes that are not in use: k times make_node(nullptr);  *)
(* ptr is Null at every address that is not that of a used node.           *)
Fresh(S, k) ==
  /\ S \subseteq Nodes \ (list \cup free)
  /\ IsFiniteSet(S)
  /\ Cardinality(S) = k

(* The constructor reserves nodes.                                         *)
Init ==
  /\ list = {}
  /\ free \in SUBSET Nodes
  /\ IsFiniteSet(free)
  /\ Cardinality(free) = Reserve
  /\ size = 0
  /\ sizeFree = Reserve
  /\ ptr = [n \in Nodes |-> Null]
  /\ node = [o \in Objects |-> Stray]

(* exist(): the node the object points at is in the list.                  *)
Exists(o) == node[o] \in list

-----------------------------------------------------------------------------
(* insert(), of an object that is not in the container.                    *)

(* A free node is taken.                                                   *)
InsertReused(o) ==
  /\ ~Exists(o)
  /\ sizeFree > 0
  /\ \E n \in free :
       /\ list' = list \cup {n}
       /\ free' = free \ {n}
       /\ ptr' = [ptr EXCEPT ![n] = o]
       /\ node' = [node EXCEPT ![o] = n]
  /\ size' = size + 1
  /\ sizeFree' = sizeFree - 1

(* Faulty variant: the reserve made on the way is not counted.             *)
InsertMadeNotCounted(o) ==
  /\ ~Exists(o)
  /\ sizeFree = 0
  /\ \E S \in SUBSET Nodes, n \in Nodes \ (list \cup free) :
       /\ Fresh(S, size)
       /\ n \notin S
       /\ list' = list \cup {n}
       /\ free' = free \cup S
       /\ ptr' = [ptr EXCEPT ![n] = o]
       /\ node' = [node EXCEPT ![o] = n]
  /\ size' = size + 1
  /\ sizeFree' = sizeFree

(* There is none: auto_fix() first makes as many free nodes as there are   *)
(* used ones, and then one more node is made for the object.               *)
InsertMade(o) ==
  /\ ~Exists(o)
  /\ sizeFree = 0
  /\ \E S \in SUBSET Nodes, n \in Nodes \ (list \cup free) :
       /\ Fresh(S, size)
       /\ n \notin S
       /\ list' = list \cup {n}
       /\ free' = free \cup S
       /\ ptr' = [ptr EXCEPT ![n] = o]
       /\ node' = [node EXCEPT ![o] = n]
  /\ size' = size + 1
  /\ sizeFree' = size

-----------------------------------------------------------------------------
(* remove(), of an object that is in the container.                        *)

(* What auto_fix() keeps of k free nodes beside used ones of number used.  *)
Kept(k, used) == IF k > used * 2 /\ k > Reserve THEN Reserve ELSE k

(* Faulty variant: the object still points at its node.                    *)
RemoveKeepsNode(o) ==
  /\ Exists(o)
  /\ size' = size - 1
  /\ sizeFree' = Kept(sizeFree + 1, size - 1)
  /\ list' = list \ {node[o]}
  /\ \E S \in SUBSET (free \cup {node[o]}) :
       /\ IsFiniteSet(S)
       /\ Cardinality(S) = sizeFree'
       /\ free' = S
  /\ ptr' = [ptr EXCEPT ![node[o]] = Null]
  /\ node' = node

(* The node moves to the free ones, object and node forget each other, and *)
(* auto_fix() releases free nodes.                                         *)
Remove(o) ==
  /\ Exists(o)
  /\ size' = size - 1
  /\ sizeFree' = Kept(sizeFree + 1, size - 1)
  /\ list' = list \ {node[o]}
  /\ \E S \in SUBSET (free \cup {node[o]}) :
       /\ IsFiniteSet(S)
       /\ Cardinality(S) = sizeFree'
       /\ free' = S
  /\ ptr' = [ptr EXCEPT ![node[o]] = Null]
  /\ node' = [node EXCEPT ![o] = Null]

-----------------------------------------------------------------------------
(* The operations on all nodes.                                            *)

Clear ==
  /\ list' = {}
  /\ free' = free \cup list
  /\ size' = 0
  /\ sizeFree' = sizeFree + size
  /\ ptr' = [n \in Nodes |-> IF n \in list THEN Null ELSE ptr[n]]
  /\ node' = [o \in Objects |-> IF Exists(o) THEN Null ELSE node[o]]

ShrinkToFix ==
  /\ free' = {}
  /\ sizeFree' = 0
  /\ UNCHANGED <<list, size, ptr, node>>

(* resize() to more nodes than there are makes free ones, ...              *)
ResizeUp(k) ==
  /\ k > size + sizeFree
  /\ \E S \in SUBSET Nodes :
       /\ Fresh(S, k - (size + sizeFree))
       /\ free' = free \cup S
  /\ sizeFree' = k - size
  /\ UNCHANGED <<list, size, ptr, node>>

(* ... to fewer, but not fewer than are used, releases free ones.          *)
ResizeDown(k) ==
  /\ size <= k
  /\ k < size + sizeFree
  /\ \E S \in SUBSET free :
       /\ IsFiniteSet(S)
       /\ Cardinality(S) = k - size
       /\ free' = S
  /\ sizeFree' = k - size
  /\ UNCHANGED <<list, size, ptr, node>>

Next ==
  \/ \E o \in Objects : InsertReused(o) \/ InsertMade(o) \/ Remove(o)
  \/ Clear
  \/ ShrinkToFix
  \/ \E k \in 0 .. MaxSize : ResizeUp(k) \/ ResizeDown(k)

Spec == Init /\ [][Next]_vars

-----------------------------------------------------------------------------
(* No node is used and free at once: a node that is taken leaves the free  *)
(* ones, so that the next insert() cannot give it to a second object.      *)
NodesApart == list \cap free = {}

(* The counters that decide which branch insert(), auto_fix() and resize() *)
(* take are the lengths of the lists, after any sequence of operations.    *)
CountsRight ==
  /\ IsFiniteSet(list) /\ size = Cardinality(list)
  /\ IsFiniteSet(free) /\ sizeFree = Cardinality(free)

(* Used nodes and the objects in the container point at each other, and no *)
(* other node holds an object: nothing is kept alive by a removed node, and *)
(* no object points at a node that was released or given to another one.   *)
LinksMatch ==
  /\ \A n \in list : ptr[n] \in Objects /\ node[ptr[n]] = n
  /\ \A n \in Nodes \ list : ptr[n] = Null
  /\ \A o \in Objects :
       \/ node[o] \in {Null, Stray}
       \/ node[o] \in list /\ ptr[node[o]] = o

(* What the callers of the manager rely on, in any order of its operations.*)
ContainerSound == CountsRight /\ LinksMatch

=============================================================================
