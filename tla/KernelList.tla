----------------------------- MODULE KernelList -----------------------------
(***************************************************************************)
(* The circular, doubly linked lists of detail/core/base/kernel_list.h,    *)
(* pointer by pointer, on which obj_mgr keeps its nodes.  An operation     *)
(* transforms the memory m, a record of the pointers next and prev of      *)
(* every list_head; order says what the lists should then hold.            *)
(***************************************************************************)
EXTENDS Naturals, Sequences

SeqExt == INSTANCE SequencesExt

CONSTANTS
  Heads,    \* the list_heads that are heads of lists
  Entries,  \* the list_heads that are members of nodes
  Poison    \* LIST_POISON1, LIST_POISON2

ASSUME KernelListAssumption ==
  /\ Heads \cap Entries = {}
  /\ Poison \notin Heads \cup Entries

VARIABLES
  mem,      \* the pointers
  order,    \* order[h]: the entries of list h, from the first to the last
  cursor,   \* of a walk: direction, head, pos, n and what is to be visited
  visited   \* the entries the walk has passed

listVars == <<mem, order, cursor, visited>>

Cells == Heads \cup Entries
NoWalk == [head |-> Poison]

(* INIT_LIST_HEAD()                                                        *)
Cleared(m, x) ==
  [next |-> [m.next EXCEPT ![x] = x], prev |-> [m.prev EXCEPT ![x] = x]]

ListInit ==
  /\ mem = [next |-> [x \in Cells |-> x], prev |-> [x \in Cells |-> x]]
  /\ order = [h \in Heads |-> <<>>]
  /\ cursor = NoWalk
  /\ visited = <<>>

-----------------------------------------------------------------------------
(* What the functions do to the memory.                                    *)

(* Faulty variant: the neighbour behind is linked to itself.               *)
AddedLosesPrev(m, x, p, n) ==
  [next |-> [m.next EXCEPT ![x] = n, ![p] = x],
   prev |-> [m.prev EXCEPT ![x] = p]]

(* __list_add()                                                            *)
Added(m, x, p, n) ==
  [next |-> [m.next EXCEPT ![x] = n, ![p] = x],
   prev |-> [m.prev EXCEPT ![n] = x, ![x] = p]]

(* __list_del()                                                            *)
Joined(m, p, n) ==
  [next |-> [m.next EXCEPT ![p] = n], prev |-> [m.prev EXCEPT ![n] = p]]

Unlinked(m, x) == Joined(m, m.prev[x], m.next[x])

(* list_replace()                                                          *)
Replaced(m, old, x) ==
  [next |-> [m.next EXCEPT ![x] = m.next[old], ![m.prev[old]] = x],
   prev |-> [m.prev EXCEPT ![x] = m.prev[old], ![m.next[old]] = x]]

(* __list_cut_position()                                                   *)
Cut(m, list, h, e) ==
  [next |-> [m.next EXCEPT ![list] = m.next[h], ![e] = list,
                           ![h] = m.next[e]],
   prev |-> [m.prev EXCEPT ![m.next[h]] = list, ![list] = e,
                           ![m.next[e]] = h]]

(* __list_splice()                                                         *)
Spliced(m, list, p, n) ==
  [next |-> [m.next EXCEPT ![p] = m.next[list], ![m.prev[list]] = n],
   prev |-> [m.prev EXCEPT ![m.next[list]] = p, ![n] = m.prev[list]]]

(* list_empty()                                                            *)
Empty(m, h) == m.next[h] = h

-----------------------------------------------------------------------------
(* The operations, with what they should do to the sequences.              *)

Linked == UNION {SeqExt!ToSet(order[h]) : h \in Heads}
Position(q, x) == CHOOSE i \in DOMAIN q : q[i] = x
Without(q, x) == IF x \in SeqExt!ToSet(q) THEN SeqExt!RemoveAt(q, Position(q, x)) ELSE q
Idle == cursor = NoWalk /\ UNCHANGED <<cursor, visited>>

(* list_add() and list_add_tail(), of an entry that is in no list.         *)
ListAdd(x, h) ==
  /\ Idle /\ x \notin Linked
  /\ \/ /\ mem' = Added(mem, x, h, mem.next[h])
        /\ order' = [order EXCEPT ![h] = <<x>> \o @]
     \/ /\ mem' = Added(mem, x, mem.prev[h], h)
        /\ order' = [order EXCEPT ![h] = Append(@, x)]

(* list_del(), which poisons the entry, and list_del_init().               *)
ListDel(x) ==
  /\ Idle /\ x \in Linked
  /\ \/ mem' = LET m == Unlinked(mem, x)
               IN  [next |-> [m.next EXCEPT ![x] = Poison],
                    prev |-> [m.prev EXCEPT ![x] = Poison]]
     \/ mem' = Cleared(Unlinked(mem, x), x)
  /\ order' = [h \in Heads |-> Without(order[h], x)]

(* list_replace_init()                                                     *)
ListReplace(old, x) ==
  /\ Idle /\ old \in Linked /\ x \notin Linked
  /\ mem' = Cleared(Replaced(mem, old, x), old)
  /\ order' = [h \in Heads |-> SeqExt!ReplaceAll(order[h], old, x)]

(* list_move() and list_move_tail(), within a list or to another one.      *)
ListMove(x, h) ==
  /\ Idle /\ x \in Linked
  /\ LET m == Unlinked(mem, x)
         q == [g \in Heads |-> Without(order[g], x)]
     IN  \/ /\ mem' = Added(m, x, h, m.next[h])
            /\ order' = [q EXCEPT ![h] = <<x>> \o @]
         \/ /\ mem' = Added(m, x, m.prev[h], h)
            /\ order' = [q EXCEPT ![h] = Append(@, x)]

(* list_rotate_left(): the first entry is moved to the tail.               *)
ListRotate(h) ==
  /\ Idle /\ ~Empty(mem, h)
  /\ LET x == mem.next[h]
         m == Unlinked(mem, x)
     IN  mem' = Added(m, x, m.prev[h], h)
  /\ order' = [order EXCEPT ![h] = Append(Tail(@), Head(@))]

(* list_cut_position(): what is up to and including e goes to the empty    *)
(* list; nothing if e is the head.                                         *)
ListCut(list, h, e) ==
  /\ Idle /\ list # h /\ order[list] = <<>>
  /\ e \in SeqExt!ToSet(order[h])
  /\ mem' = Cut(mem, list, h, e)
  /\ LET k == Position(order[h], e)
     IN  order' = [order EXCEPT ![list] = SubSeq(order[h], 1, k),
                                ![h] = SubSeq(@, k + 1, Len(@))]

(* list_splice_init() and list_splice_tail_init()                          *)
ListSplice(list, h) ==
  /\ Idle /\ list # h /\ ~Empty(mem, list)
  /\ \/ /\ mem' = Cleared(Spliced(mem, list, h, mem.next[h]), list)
        /\ order' = [order EXCEPT ![list] = <<>>, ![h] = order[list] \o @]
     \/ /\ mem' = Cleared(Spliced(mem, list, mem.prev[h], h), list)
        /\ order' = [order EXCEPT ![list] = <<>>, ![h] = @ \o order[list]]

(* list_for_each_entry_safe() and list_for_each_entry_safe_reverse() begin *)
WalkBegins(h, dir) ==
  /\ cursor = NoWalk
  /\ cursor' = [dir |-> dir, head |-> h,
                pos |-> mem[dir][h], n |-> mem[dir][mem[dir][h]],
                all |-> IF dir = "next" THEN order[h] ELSE SeqExt!Reverse(order[h])]
  /\ visited' = <<>>
  /\ UNCHANGED <<mem, order>>

(* Faulty variant: n is read after the body, as list_for_each() does.      *)
WalkStepUnsafe ==
  /\ cursor # NoWalk /\ cursor.pos # cursor.head
  /\ LET x == cursor.pos
         m == Cleared(Unlinked(mem, x), x)
     IN  /\ mem' = m
         /\ order' = [h \in Heads |-> Without(order[h], x)]
         /\ cursor' = [cursor EXCEPT !.pos = m[cursor.dir][x],
                                     !.n = m[cursor.dir][x]]
         /\ visited' = Append(visited, x)

(* ... and goes on to n, which was read before the body; the body may      *)
(* remove the entry at pos, as obj_mgr::clear() does.                      *)
WalkStep ==
  /\ cursor # NoWalk /\ cursor.pos # cursor.head
  /\ LET x == cursor.pos
     IN  /\ \/ UNCHANGED <<mem, order>>
            \/ /\ mem' = Cleared(Unlinked(mem, x), x)
               /\ order' = [h \in Heads |-> Without(order[h], x)]
         /\ cursor' = [cursor EXCEPT !.pos = cursor.n,
                                     !.n = mem'[cursor.dir][cursor.n]]
         /\ visited' = Append(visited, x)

WalkEnds ==
  /\ cursor # NoWalk /\ cursor.pos = cursor.head
  /\ cursor' = NoWalk
  /\ visited' = <<>>
  /\ UNCHANGED <<mem, order>>

ListNext ==
  \/ \E x \in Entries, h \in Heads : ListAdd(x, h) \/ ListMove(x, h)
  \/ \E x \in Entries : ListDel(x)
  \/ \E old, x \in Entries : ListReplace(old, x)
  \/ \E h \in Heads : ListRotate(h)
  \/ \E h \in Heads, dir \in {"next", "prev"} : WalkBegins(h, dir)
  \/ \E list, h \in Heads, e \in Entries : ListCut(list, h, e)
  \/ \E list, h \in Heads : ListSplice(list, h)
  \/ WalkStep \/ WalkEnds

ListSpec == ListInit /\ [][ListNext]_listVars

-----------------------------------------------------------------------------
(* Along next the list of h is h and the entries of q, in a ring, and prev *)
(* is its inverse.                                                         *)
At(h, q, i) == IF i \in DOMAIN q THEN q[i] ELSE h

Ring(m, h, q) ==
  \A i \in 0..Len(q) : /\ m.next[At(h, q, i)] = At(h, q, i + 1)
                       /\ m.prev[At(h, q, i + 1)] = At(h, q, i)

(* After any sequence of operations on any of the lists, both directions   *)
(* of every list hold the entries the operations promise, in their order;  *)
(* and a walk, forwards or backwards, during which the current entry may   *)
(* be removed passes every entry once.                                     *)
ListsIntact ==
  /\ \A h \in Heads : Ring(mem, h, order[h])
  /\ cursor # NoWalk => /\ visited = SubSeq(cursor.all, 1, Len(visited))
                        /\ cursor.pos = cursor.head => visited = cursor.all

=============================================================================
