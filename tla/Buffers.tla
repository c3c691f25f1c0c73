------------------------------- MODULE Buffers -------------------------------
(***************************************************************************)
(* out_buffer and in_buffer of kngin/core/base/buffer.h: views of memory   *)
(* that belongs to somebody else.  An out_buffer gives the bytes of an     *)
(* array one after the other, an in_buffer is filled by its write()        *)
(* functions or by a receive on a socket.  Copies share the memory but not *)
(* the indices.  The bytes of the sender's array are told apart by their   *)
(* position; what the widths of the typed overloads do is the same for     *)
(* every n.                                                                *)
(***************************************************************************)
EXTENDS Naturals, Sequences

CONSTANTS
  OutBufs, InBufs,  \* the buffer objects
  SourceSize,       \* the length of the array that is sent
  MemorySize,       \* the length of the array that is received into
  MaxWire,          \* bound on the bytes under way
  SizeLimit         \* 2^w, for the width of size_t

ASSUME BuffersAssumption ==
  /\ {SourceSize, MemorySize, MaxWire, SizeLimit} \subseteq Nat
  /\ SizeLimit > MemorySize + 1

VARIABLES
  outs,     \* arr_ and size_ of the out_buffers
  ins,      \* arr_, size_ and valid_ of the in_buffers
  memory,   \* the array of the receiver; 0 is what was there before
  wire,     \* the bytes that were sent and not received
  due,      \* due[o]: the bytes o is still to give
  stored,   \* stored[b]: the bytes that were put into b
  spoiled   \* the in_buffers whose bytes were overwritten

bufferVars == <<outs, ins, memory, wire, due, stored, spoiled>>

NullOut == [arr |-> 0, size |-> 0]
NullIn == [arr |-> 0, size |-> 0, valid |-> 0]

BuffersInit ==
  /\ outs = [o \in OutBufs |-> NullOut]
  /\ ins = [b \in InBufs |-> NullIn]
  /\ memory = [i \in 1..MemorySize |-> 0]
  /\ wire = <<>>
  /\ due = [o \in OutBufs |-> <<>>]
  /\ stored = [b \in InBufs |-> <<>>]
  /\ spoiled = {}

View(arr, size) == [i \in 1..size |-> arr + i - 1]
Drop(q, n) == SubSeq(q, n + 1, Len(q))

inVars == <<ins, memory, stored, spoiled>>
outVars == <<outs, due>>

-----------------------------------------------------------------------------
(* out_buffer                                                              *)

OutReset(o, n) ==
  /\ outs' = [outs EXCEPT ![o] = [arr |-> 1, size |-> n]]
  /\ due' = [due EXCEPT ![o] = View(1, n)]
  /\ UNCHANGED <<inVars, wire>>

OutCopy(o, p) ==
  /\ outs' = [outs EXCEPT ![o] = outs[p]]
  /\ due' = [due EXCEPT ![o] = due[p]]
  /\ UNCHANGED <<inVars, wire>>

(* The moved-from buffer is left empty.                                    *)
OutMove(o, p) ==
  /\ outs' = [outs EXCEPT ![o] = outs[p], ![p] = NullOut]
  /\ due' = [due EXCEPT ![o] = due[p], ![p] = <<>>]
  /\ UNCHANGED <<inVars, wire>>

OutSwap(o, p) ==
  /\ outs' = [outs EXCEPT ![o] = outs[p], ![p] = outs[o]]
  /\ due' = [due EXCEPT ![o] = due[p], ![p] = due[o]]
  /\ UNCHANGED <<inVars, wire>>

(* check_readable(): the call throws unless n bytes are left.              *)
OutReadable(o, n) == outs[o].size >= n

(* operator -= takes the bytes from the end.                               *)
OutShrink(o, n) ==
  /\ OutReadable(o, n)
  /\ outs' = [outs EXCEPT ![o].size = @ - n]
  /\ due' = [due EXCEPT ![o] = SubSeq(@, 1, Len(@) - n)]
  /\ UNCHANGED <<inVars, wire>>

(* read(forward = true): what the buffer is after n bytes were read.       *)
Forwarded(o, n) ==
  [outs EXCEPT ![o] = [arr |-> @.arr + n, size |-> @.size - n]]

-----------------------------------------------------------------------------
(* in_buffer                                                               *)

InReset(b, n) ==
  /\ ins' = [ins EXCEPT ![b] = [arr |-> 1, size |-> n, valid |-> 0]]
  /\ stored' = [stored EXCEPT ![b] = <<>>]
  /\ spoiled' = spoiled \ {b}
  /\ UNCHANGED <<outVars, memory, wire>>

Moved(set, from, to) ==
  IF from \in set THEN set \cup {to} ELSE set \ {to}

InCopy(b, c) ==
  /\ ins' = [ins EXCEPT ![b] = ins[c]]
  /\ stored' = [stored EXCEPT ![b] = stored[c]]
  /\ spoiled' = Moved(spoiled, c, b)
  /\ UNCHANGED <<outVars, memory, wire>>

InMove(b, c) ==
  /\ ins' = [ins EXCEPT ![b] = ins[c], ![c] = NullIn]
  /\ stored' = [stored EXCEPT ![b] = stored[c], ![c] = <<>>]
  /\ spoiled' = Moved(spoiled, c, b) \ {c}
  /\ UNCHANGED <<outVars, memory, wire>>

InSwap(b, c) ==
  /\ ins' = [ins EXCEPT ![b] = ins[c], ![c] = ins[b]]
  /\ stored' = [stored EXCEPT ![b] = stored[c], ![c] = stored[b]]
  /\ spoiled' = {IF d = b THEN c ELSE IF d = c THEN b ELSE d : d \in spoiled}
  /\ UNCHANGED <<outVars, memory, wire>>

Writeable(b) == ins[b].size - ins[b].valid
InReadable(b, n) == ins[b].valid >= n

(* at() and get() check idx + 1, in the arithmetic of size_t.              *)
InAt(b, idx) == InReadable(b, (idx + 1) % SizeLimit)

(* The bytes are stored from first on, and count as valid in b; a buffer   *)
(* that held other bytes there has lost them.                              *)
Put(b, first, bytes) ==
  LET n == Len(bytes)
      hit == {c \in InBufs : /\ ins[c].valid > 0
                             /\ ins[c].arr < first + n
                             /\ first < ins[c].arr + ins[c].valid}
  IN  /\ memory' = [i \in DOMAIN memory |->
                      IF i \in first..(first + n - 1)
                      THEN bytes[i - first + 1] ELSE memory[i]]
      /\ ins' = [ins EXCEPT ![b].valid = @ + n]
      /\ stored' = [stored EXCEPT ![b] = @ \o bytes]
      /\ spoiled' = spoiled \cup hit

(* Faulty variant: the bytes are stored at the beginning of the array.     *)
InWriteAtBegin(o, b, n) ==
  /\ OutReadable(o, n) /\ Writeable(b) >= n
  /\ outs' = Forwarded(o, n)
  /\ due' = [due EXCEPT ![o] = Drop(@, n)]
  /\ memory' = [i \in DOMAIN memory |->
                  IF i \in 1..n THEN due[o][i] ELSE memory[i]]
  /\ ins' = [ins EXCEPT ![b].valid = @ + n]
  /\ stored' = [stored EXCEPT ![b] = @ \o SubSeq(due[o], 1, n)]
  /\ UNCHANGED <<wire, spoiled>>

(* b.write(o.read()): read() gives the bytes at arr_ and write() appends   *)
(* them behind valid_.                                                     *)
InWrite(o, b, n) ==
  /\ OutReadable(o, n) /\ Writeable(b) >= n
  /\ outs' = Forwarded(o, n)
  /\ due' = [due EXCEPT ![o] = Drop(@, n)]
  /\ Put(b, ins[b].arr + ins[b].valid, View(outs[o].arr, n))
  /\ UNCHANGED wire

(* The typed peek() functions: read(forward = false).                      *)
InWritePeeked(o, b, n) ==
  /\ OutReadable(o, n) /\ Writeable(b) >= n
  /\ Put(b, ins[b].arr + ins[b].valid, View(outs[o].arr, n))
  /\ UNCHANGED <<outVars, wire>>

-----------------------------------------------------------------------------
(* The calls of socket and descriptor that take buffers.                   *)

(* ::send() of the whole buffer; the kernel takes k bytes of it.  The      *)
(* buffer is passed by value: what the caller holds does not move.         *)
Send(o, k) ==
  /\ outs[o].size > 0
  /\ k \in 1..outs[o].size
  /\ Len(wire) + k <= MaxWire
  /\ wire' = wire \o View(outs[o].arr, k)
  /\ UNCHANGED <<inVars, outVars>>

(* ::recv() of at most writeable() bytes, into begin(): a buffer that      *)
(* holds bytes already loses them.  MSG_PEEK leaves the bytes on the wire. *)
Recv(b, k, peek) ==
  /\ Writeable(b) > 0
  /\ k \in 1..Len(wire) /\ k <= Writeable(b)
  /\ Put(b, ins[b].arr, SubSeq(wire, 1, k))
  /\ wire' = IF peek THEN wire ELSE Drop(wire, k)
  /\ UNCHANGED outVars

(* sendto(), and write() of the socket and of the descriptor: the same, to *)
(* an address or without flags.                                            *)
SendTo(o, k) == Send(o, k)
Write(o, k) == Send(o, k)

(* recvfrom() and read()                                                   *)
RecvFrom(b, k, peek) == Recv(b, k, peek)
Read(b, k) == Recv(b, k, FALSE)

BuffersNext ==
  \/ \E o \in OutBufs, n \in 1..SourceSize : OutReset(o, n) \/ OutShrink(o, n)
  \/ \E o, p \in OutBufs : o # p /\ (OutCopy(o, p) \/ OutMove(o, p) \/ OutSwap(o, p))
  \/ \E b \in InBufs, n \in 1..MemorySize : InReset(b, n)
  \/ \E b, c \in InBufs : b # c /\ (InCopy(b, c) \/ InMove(b, c) \/ InSwap(b, c))
  \/ \E o \in OutBufs, b \in InBufs, n \in 1..SourceSize :
       InWrite(o, b, n) \/ InWritePeeked(o, b, n)
  \/ \E o \in OutBufs, k \in 1..SourceSize :
       Send(o, k) \/ SendTo(o, k) \/ Write(o, k)
  \/ \E b \in InBufs, k \in 1..MaxWire, peek \in BOOLEAN :
       Recv(b, k, peek) \/ RecvFrom(b, k, peek) \/ (~peek /\ Read(b, k))

BuffersSpec == BuffersInit /\ [][BuffersNext]_bufferVars

-----------------------------------------------------------------------------
(* An out_buffer gives its bytes in order and each once, whatever was      *)
(* copied, moved, swapped or cut off.  An in_buffer never counts a byte it *)
(* has no room for, and holds the bytes that were put into it, in their    *)
(* order, unless they were overwritten through a copy, or by a receive     *)
(* into a buffer that was not empty.  at() accepts no index behind the     *)
(* valid bytes but the largest size_t.                                     *)
BuffersFaithful ==
  /\ \A o \in OutBufs : View(outs[o].arr, outs[o].size) = due[o]
  /\ \A b \in InBufs :
       /\ ins[b].valid <= ins[b].size
       /\ ins[b].valid = Len(stored[b])
       /\ b \notin spoiled =>
            \A i \in DOMAIN stored[b] : memory[ins[b].arr + i - 1] = stored[b][i]
       /\ \A idx \in 0..(SizeLimit - 1) :
            InAt(b, idx) => idx < ins[b].valid \/ idx = SizeLimit - 1

=============================================================================
