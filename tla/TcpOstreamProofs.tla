-------------------------- MODULE TcpOstreamProofs --------------------------
(***************************************************************************)
(* Theorems about TcpOstream, for any number of clients, any sizes of      *)
(* buffers and writes, and whatever the peer does.                         *)
(***************************************************************************)
EXTENDS TcpOstream, SequenceTheorems, TLAPS

USE DEF Tasks, interestVars

WriteStates == {"idle", "loop", "next", "send", "full", "commit", "handler",
                "oob", "oob_send", "aborted", "unregistered"}

(* What the proofs need to know of the types.                              *)
WriteTypes ==
  /\ cells \in Seq(Nat)
  /\ rindex \in Nat /\ windex \in Nat /\ valid \in Nat
  /\ oobq \in Nat /\ urgent \in Nat
  /\ written \in Nat /\ received \in Nat
  /\ next_buf \in BOOLEAN
  /\ flags \in SUBSET Flags
  /\ tasks \in Seq(Tasks)
  /\ pc \in [Clients -> {"idle", "accepted", "pushed"}]
  /\ out \in BOOLEAN
  /\ at \in WriteStates
  /\ after \in {"loop", "idle"}

(* Buffers are added and given back whole.                                 *)
Whole(n) == \E k \in Nat : n = k * BufferSize
WholeBuffers == Whole(Len(cells))

(* next_buffer_ is a buffer with something left in it.                     *)
BufferInv ==
  /\ WholeBuffers
  /\ rindex < BufferSize /\ rindex <= windex
  /\ next_buf => rindex < windex /\ Len(cells) >= BufferSize
  /\ ~next_buf /\ "closed" \notin flags => rindex = 0 /\ windex = 0
  /\ at \in {"send", "commit"} =>
       /\ next_buf /\ valid > 0
       /\ rindex + valid <= BufferSize /\ rindex + valid <= windex

(* The buffers are freed only while nothing is being sent, and without     *)
(* urgent data complete_ is set only while a buffer waits.                 *)
SendInv ==
  /\ at \notin {"idle", "loop", "unregistered"} => "closed" \notin flags
  /\ at = "unregistered" => "closed" \in flags
  /\ at \in {"oob", "oob_send", "aborted"} => urgent > 0
  /\ oobq > 0 => urgent > 0
  /\ at \in {"next", "full"} => next_buf \/ urgent > 0
  /\ at \in {"next", "send", "commit"} => ~complete
  /\ complete /\ "closed" \notin flags => next_buf \/ urgent > 0

(* As long as nobody disturbs, every buffer is sent from its first byte,   *)
(* and the places up to windex_ hold the bytes written and not yet taken.  *)
(* What has been taken is still there until the indices are moved.         *)
Sent == IF at = "commit" THEN valid ELSE 0

StreamInv ==
  ~disturbed =>
    /\ intact
    /\ "closed" \notin flags =>
         /\ rindex = 0 /\ windex <= Len(cells)
         /\ windex + received = written + Sent
         /\ \A i \in 1 .. windex : cells[i] + Sent = received + i
         /\ at \in {"send", "commit"} => valid = Minimum(windex, BufferSize)

(* The loop thread will look at the buffers again before it is idle, or    *)
(* end with a flag set.                                                    *)
Busy ==
  /\ at \notin {"idle", "full"}
  /\ at = "handler" => after # "idle"

(* Why complete_ may wait for an edge: the socket is still full, or it is  *)
(* not any more and the edge is there, or would be with EPOLLOUT, or the   *)
(* connection is reset, of which only on_read() hears.                     *)
EdgeComes ==
  \/ nospace /\ ~writable
  \/ writable /\ (edge \/ ~out)
  \/ reset

Called ==
  \/ Busy
  \/ \E i \in DOMAIN tasks : tasks[i] = "write"
  \/ \E c \in Clients : pc[c] = "pushed"

(* Why no write is stranded: data wait for an edge only behind complete_,  *)
(* which is set only when the socket was found full.                       *)
WakeInv ==
  /\ flags = {} /\ (next_buf \/ oobq > 0) => Called \/ complete \/ at = "full"
  /\ flags = {} /\ (complete \/ at = "full") => Busy \/ EdgeComes
  /\ at = "handler" /\ after = "idle" => flags # {}

WriteInv == WriteTypes /\ BufferInv /\ SendInv /\ StreamInv /\ WakeInv

-----------------------------------------------------------------------------
(* Writing.                                                                *)

(* The place needed for n bytes, in whole buffers.                         *)
LEMMA RoundUp ==
  ASSUME NEW n \in Nat \ {0}, NEW b \in Nat \ {0}
  PROVE  \E k \in Nat \ {0} : (n + b - 1) \div b = k /\ k * b >= n /\ k * b >= b
<1> DEFINE k == (n + b - 1) \div b
           r == (n + b - 1) % b
<1>1. k \in Int /\ r \in 0 .. b - 1 /\ n + b - 1 = b * k + r
  OBVIOUS
<1> HIDE DEF k, r
<1>2. b * k >= n
  BY <1>1
<1>3. k > 0
  BY <1>1, <1>2
<1>4. k * b >= n /\ k * b >= b
  BY <1>1, <1>2, <1>3
<1> QED
  BY <1>1, <1>3, <1>4 DEF k

LEMMA AppendFacts ==
  ASSUME WriteTypes, BufferInv, NEW size \in Nat \ {0}, AppendBuffer(size)
  PROVE  /\ written' = written + size /\ windex' = windex + size
         /\ next_buf' = TRUE
         /\ cells' \in Seq(Nat) /\ WholeBuffers'
         /\ Len(cells') >= Len(cells) /\ Len(cells') >= windex'
         /\ Len(cells') >= BufferSize
         /\ \A i \in 1 .. windex' :
              windex <= Len(cells)
                => cells'[i] = IF i <= windex THEN cells[i] ELSE written + i - windex
<1> USE OstreamAssumption DEF OstreamAssumption
<1> DEFINE full == ((windex + size + BufferSize - 1) \div BufferSize) * BufferSize
           room == IF full > Len(cells) THEN full ELSE Len(cells)
           place(i) == IF i \in windex + 1 .. windex + size
                         THEN written + i - windex
                         ELSE IF i <= Len(cells) THEN cells[i] ELSE 0
<1>1. /\ written' = written + size /\ windex' = windex + size
      /\ next_buf' = TRUE /\ cells' = [i \in 1 .. room |-> place(i)]
  BY DEF AppendBuffer
<1>2. windex \in Nat /\ written \in Nat /\ Len(cells) \in Nat
      /\ \A i \in 1 .. Len(cells) : cells[i] \in Nat
  BY LenProperties, ElementOfSeq DEF WriteTypes
<1>3. PICK k \in Nat \ {0} :
        full = k * BufferSize /\ full >= windex + size /\ full >= BufferSize
  <2>1. windex + size \in Nat \ {0} /\ BufferSize \in Nat \ {0}
    BY <1>2
  <2> QED
    BY <2>1, RoundUp
<1>4. full \in Nat
  BY <1>3
<1> HIDE DEF full
<1>5. room \in Nat /\ room >= Len(cells) /\ room >= windex + size
      /\ room >= BufferSize
  BY <1>2, <1>3, <1>4
<1>6. \E n \in Nat : room = n * BufferSize
  BY <1>3 DEF BufferInv, WholeBuffers, Whole
<1>7. \A i \in 1 .. room : place(i) \in Nat
  BY <1>2
<1>8. \A i \in 1 .. windex + size :
        windex <= Len(cells)
          => place(i) = IF i <= windex THEN cells[i] ELSE written + i - windex
  BY <1>2
<1> HIDE DEF room, place
<1>9. cells' \in Seq(Nat)
  BY <1>1, <1>5, <1>7, IsASeq
<1>10. Len(cells') = room
  BY <1>1, <1>5, <1>9, LenProperties
<1>11. \A i \in 1 .. windex' : cells'[i] = place(i)
  BY <1>1, <1>2, <1>5
<1>12. WholeBuffers'
  BY <1>6, <1>10 DEF WholeBuffers, Whole
<1> QED
  BY <1>1, <1>5, <1>8, <1>9, <1>10, <1>11, <1>12

(* What a write changes, with urgent data or without.                      *)
LEMMA PushFacts ==
  ASSUME WriteTypes, BufferInv, Push
  PROVE  /\ rindex' = rindex
         /\ oobq' \in Nat /\ urgent' \in Nat
         /\ (oobq' = oobq /\ urgent' = urgent) \/ urgent' > 0
         /\ next_buf' \/ urgent' > 0
         /\ \/ UNCHANGED <<cells, windex, next_buf, written>>
            \/ \E size \in Nat \ {0} : AppendBuffer(size)
<1> USE OstreamAssumption DEF OstreamAssumption, WriteTypes, bufferVars
<1>1. CASE PushOrdinary
  BY <1>1 DEF PushOrdinary, AppendBuffer
<1>2. CASE PushOob
  <2>1. /\ urgent' = urgent + 1 /\ oobq' = oobq + 1
    BY <1>2 DEF PushOob
  <2>2. PICK size \in Sizes :
          IF size > 1
          THEN AppendBuffer(size - 1) /\ UNCHANGED rindex
          ELSE UNCHANGED <<bufferVars, written>>
    BY <1>2 DEF PushOob
  <2>3. CASE size > 1
    <3>1. size - 1 \in Nat \ {0}
      BY <2>3
    <3> QED
      BY <2>1, <2>2, <2>3, <3>1
  <2>4. CASE ~(size > 1)
    BY <2>1, <2>2, <2>4
  <2> QED
    BY <2>3, <2>4
<1> QED
  BY <1>1, <1>2 DEF Push

LEMMA PushStep ==
  ASSUME WriteTypes, BufferInv, SendInv, StreamInv, Push,
         UNCHANGED <<complete, flags, at, valid, received, intact>>,
         disturbed' <=> (disturbed \/ at \in {"send", "commit"})
  PROVE  /\ cells' \in Seq(Nat) /\ rindex' \in Nat /\ windex' \in Nat
         /\ oobq' \in Nat /\ urgent' \in Nat /\ written' \in Nat
         /\ next_buf' \in BOOLEAN
         /\ BufferInv' /\ SendInv' /\ StreamInv'
<1>1. CASE UNCHANGED <<cells, windex, next_buf, written>>
  <2>1. /\ cells' \in Seq(Nat) /\ rindex' \in Nat /\ windex' \in Nat
        /\ oobq' \in Nat /\ urgent' \in Nat /\ written' \in Nat
        /\ next_buf' \in BOOLEAN
    BY <1>1, PushFacts DEF WriteTypes
  <2>2. BufferInv'
    BY <1>1, PushFacts DEF BufferInv, WholeBuffers
  <2>3. SendInv'
    BY <1>1, PushFacts DEF SendInv
  <2>4. StreamInv'
    BY <1>1, PushFacts DEF StreamInv, Sent
  <2> QED
    BY <2>1, <2>2, <2>3, <2>4
<1>2. ASSUME NEW size \in Nat \ {0}, AppendBuffer(size)
      PROVE  /\ cells' \in Seq(Nat) /\ rindex' \in Nat /\ windex' \in Nat
             /\ oobq' \in Nat /\ urgent' \in Nat /\ written' \in Nat
             /\ next_buf' \in BOOLEAN
             /\ BufferInv' /\ SendInv' /\ StreamInv'
  <2>1. /\ written' = written + size /\ windex' = windex + size
        /\ next_buf' = TRUE
        /\ cells' \in Seq(Nat) /\ WholeBuffers'
        /\ Len(cells') >= Len(cells) /\ Len(cells') >= windex'
        /\ Len(cells') >= BufferSize
        /\ \A i \in 1 .. windex' :
             windex <= Len(cells)
               => cells'[i] = IF i <= windex THEN cells[i] ELSE written + i - windex
    BY <1>2, AppendFacts
  <2>2. /\ rindex \in Nat /\ windex \in Nat /\ written \in Nat /\ valid \in Nat
        /\ received \in Nat /\ BufferSize \in Nat
    BY OstreamAssumption DEF WriteTypes, OstreamAssumption
  <2>3. /\ rindex' = rindex /\ oobq' \in Nat /\ urgent' \in Nat
        /\ (oobq' = oobq /\ urgent' = urgent) \/ urgent' > 0
    BY PushFacts
  <2>4. BufferInv'
    BY <2>1, <2>2, <2>3 DEF BufferInv
  <2>5. SendInv'
    BY <2>1, <2>3 DEF SendInv
  <2>6. StreamInv'
    <3> SUFFICES ASSUME ~disturbed', "closed" \notin flags'
                 PROVE  /\ rindex' = 0 /\ windex' <= Len(cells')
                        /\ windex' + received' = written' + Sent'
                        /\ \A i \in 1 .. windex' : cells'[i] + Sent' = received' + i
                        /\ at' \in {"send", "commit"}
                             => valid' = Minimum(windex', BufferSize)
      BY DEF StreamInv
    <3>1. at \notin {"send", "commit"} /\ Sent = 0 /\ Sent' = 0
      BY DEF Sent
    <3>2. /\ rindex = 0 /\ windex <= Len(cells) /\ windex + received = written
          /\ \A i \in 1 .. windex : cells[i] = received + i
      <4>1. /\ rindex = 0 /\ windex <= Len(cells)
            /\ windex + received = written + Sent
            /\ \A i \in 1 .. windex : cells[i] + Sent = received + i
        BY DEF StreamInv
      <4>2. \A i \in 1 .. windex : cells[i] \in Nat
        BY <2>2, <4>1, ElementOfSeq, LenProperties DEF WriteTypes
      <4> QED
        BY <2>2, <3>1, <4>1, <4>2
    <3>3. ASSUME NEW i \in 1 .. windex' PROVE cells'[i] = received + i
      <4>1. cells'[i] = IF i <= windex THEN cells[i] ELSE written + i - windex
        BY <2>1, <3>2
      <4>2. CASE i <= windex
        <5>1. i \in 1 .. windex
          BY <2>1, <2>2, <4>2
        <5> QED
          BY <3>2, <4>1, <4>2, <5>1
      <4>3. CASE ~(i <= windex)
        BY <2>1, <2>2, <3>2, <4>1, <4>3
      <4> QED
        BY <4>2, <4>3
    <3> QED
      BY <2>1, <2>2, <2>3, <3>1, <3>2, <3>3
  <2> QED
    BY <2>1, <2>2, <2>3, <2>4, <2>5, <2>6
<1> QED
  BY <1>1, <1>2, PushFacts

-----------------------------------------------------------------------------
(* Sending.                                                                *)

(* The first buffer is given back unless it is the only one.               *)
LEMMA DropFirst ==
  ASSUME NEW s \in Seq(Nat), Whole(Len(s)), Len(s) >= BufferSize,
         NEW r, r = IF Len(s) > BufferSize
                      THEN SubSeq(s, BufferSize + 1, Len(s)) ELSE s
  PROVE  /\ r \in Seq(Nat)
         /\ Whole(Len(r)) /\ Len(r) >= BufferSize
         /\ Len(r) = IF Len(s) > BufferSize THEN Len(s) - BufferSize ELSE Len(s)
         /\ Len(s) > BufferSize
              => \A i \in 1 .. Len(s) - BufferSize : r[i] = s[i + BufferSize]
<1> USE OstreamAssumption DEF OstreamAssumption
<1>1. CASE Len(s) > BufferSize
  <2>1. r = SubSeq(s, BufferSize + 1, Len(s)) /\ Len(s) \in Nat
    BY <1>1
  <2>2. /\ r \in Seq(Nat) /\ Len(r) = Len(s) - BufferSize
        /\ \A i \in 1 .. Len(s) - BufferSize : r[i] = s[i + BufferSize]
    BY <1>1, <2>1
  <2>3. PICK k \in Nat : Len(s) = k * BufferSize
    BY DEF Whole
  <2>4. k >= 2 /\ (k - 1) * BufferSize = k * BufferSize - BufferSize
    BY <1>1, <2>3
  <2>5. (k - 1) * BufferSize >= BufferSize
    BY <2>4
  <2>6. k - 1 \in Nat /\ Len(r) = (k - 1) * BufferSize
    BY <2>2, <2>3, <2>4
  <2>7. Whole(Len(r))
    BY <2>6 DEF Whole
  <2> QED
    BY <1>1, <2>2, <2>5, <2>6, <2>7
<1>2. CASE ~(Len(s) > BufferSize)
  BY <1>2
<1> QED
  BY <1>1, <1>2

LEMMA CommitFacts ==
  ASSUME WriteTypes, BufferInv, Commit
  PROVE  /\ cells' \in Seq(Nat) /\ rindex' \in Nat /\ windex' \in Nat
         /\ next_buf' \in BOOLEAN
         /\ BufferInv'
<1> USE OstreamAssumption DEF OstreamAssumption
<1>1. /\ at = "commit" /\ at' = "handler" /\ next_buf
      /\ flags' = flags /\ valid' = valid
      /\ rindex + valid <= BufferSize /\ rindex + valid <= windex /\ valid > 0
      /\ Len(cells) >= BufferSize
      /\ rindex \in Nat /\ windex \in Nat /\ valid \in Nat
      /\ cells \in Seq(Nat)
  BY DEF Commit, CallHandler, WriteTypes, BufferInv
<1>2. CASE rindex + valid \in {BufferSize, windex}
  <2>1. /\ rindex' = 0 /\ windex' = windex - valid
        /\ next_buf' \in BOOLEAN /\ (next_buf' <=> windex' > 0)
        /\ cells' = IF Len(cells) > BufferSize
                     THEN SubSeq(cells, BufferSize + 1, Len(cells)) ELSE cells
    <3>1. next_buf' = (windex' > 0)
      BY <1>2 DEF Commit
    <3>2. (windex' > 0) \in BOOLEAN
      OBVIOUS
    <3>3. next_buf' \in BOOLEAN /\ (next_buf' <=> windex' > 0)
      BY <3>1, <3>2, Zenon
    <3> QED
      BY <1>2, <3>3 DEF Commit
  <2>2. Whole(Len(cells)) /\ Len(cells) >= BufferSize /\ cells \in Seq(Nat)
    BY <1>1 DEF BufferInv, WholeBuffers
  <2>3. cells' \in Seq(Nat) /\ Whole(Len(cells')) /\ Len(cells') >= BufferSize
    BY <2>1, <2>2, DropFirst
  <2>4. WholeBuffers'
    BY <2>3 DEF WholeBuffers, Whole
  <2>5. windex' \in Nat
    BY <1>1, <2>1
  <2> QED
    BY <1>1, <2>1, <2>3, <2>4, <2>5 DEF BufferInv
<1>3. CASE rindex + valid \notin {BufferSize, windex}
  <2>1. rindex' = rindex + valid /\ UNCHANGED <<windex, cells, next_buf>>
    BY <1>3 DEF Commit
  <2> QED
    BY <1>1, <1>3, <2>1 DEF BufferInv, WholeBuffers
<1> QED
  BY <1>2, <1>3

LEMMA CommitStream ==
  ASSUME WriteTypes, BufferInv, SendInv, StreamInv, Commit
  PROVE  StreamInv'
<1> USE OstreamAssumption DEF OstreamAssumption
<1>1. /\ at = "commit" /\ at' = "handler" /\ "closed" \notin flags
      /\ UNCHANGED <<flags, valid, written, received, intact, disturbed>>
      /\ valid > 0 /\ Len(cells) >= BufferSize
      /\ windex \in Nat /\ written \in Nat /\ valid \in Nat /\ received \in Nat
      /\ cells \in Seq(Nat) /\ Len(cells) \in Nat
  BY LenProperties
     DEF Commit, CallHandler, WriteTypes, BufferInv, SendInv, streamVars
<1> SUFFICES ASSUME ~disturbed
             PROVE  /\ rindex' = 0 /\ windex' <= Len(cells')
                    /\ windex' + received' = written' + Sent'
                    /\ \A i \in 1 .. windex' : cells'[i] + Sent' = received' + i
  BY <1>1 DEF StreamInv
<1>2. /\ rindex = 0 /\ windex <= Len(cells)
      /\ windex + received = written + valid
      /\ \A i \in 1 .. windex : cells[i] + valid = received + i
      /\ valid = Minimum(windex, BufferSize)
  BY <1>1 DEF StreamInv, Sent
<1>3. /\ rindex' = 0 /\ windex' = windex - valid
      /\ cells' = IF Len(cells) > BufferSize
                   THEN SubSeq(cells, BufferSize + 1, Len(cells)) ELSE cells
  BY <1>1, <1>2 DEF Commit, Minimum
<1>4. Whole(Len(cells))
  BY DEF BufferInv, WholeBuffers
<1>5. /\ cells' \in Seq(Nat)
      /\ Len(cells') = IF Len(cells) > BufferSize
                          THEN Len(cells) - BufferSize ELSE Len(cells)
      /\ Len(cells) > BufferSize
           => \A i \in 1 .. Len(cells) - BufferSize : cells'[i] = cells[i + BufferSize]
  BY <1>1, <1>3, <1>4, DropFirst
<1>6. windex' <= Len(cells')
  <2>1. CASE valid = windex
    BY <1>1, <1>3, <1>5, <2>1
  <2>2. CASE valid = BufferSize /\ BufferSize < windex
    BY <1>1, <1>2, <1>3, <1>5, <2>2
  <2> QED
    BY <1>1, <1>2, <2>1, <2>2 DEF Minimum
<1>7. Sent' = 0
  BY <1>1 DEF Sent
<1>8. ASSUME NEW i \in 1 .. windex' PROVE cells'[i] = received + i
  <2>1. /\ valid = BufferSize /\ Len(cells) > BufferSize
        /\ i \in 1 .. Len(cells) - BufferSize /\ i + BufferSize \in 1 .. windex
        /\ i + BufferSize \in 1 .. Len(cells)
    BY <1>1, <1>2, <1>3 DEF Minimum
  <2>2. cells'[i] = cells[i + BufferSize] /\ cells[i + BufferSize] \in Nat
    <3>1. cells'[i] = cells[i + BufferSize]
      BY <1>5, <2>1
    <3> QED
      BY <1>1, <2>1, <3>1, ElementOfSeq
  <2>3. cells[i + BufferSize] + valid = received + (i + BufferSize)
    BY <1>2, <2>1
  <2> QED
    BY SMTT(30), <1>1, <2>1, <2>2, <2>3
<1>9. windex' + received' = written' + Sent'
  <2>1. windex' + received = written + 0
    <3>1. /\ windex \in Nat /\ written \in Nat /\ valid \in Nat
          /\ received \in Nat
      BY <1>1
    <3>2. windex' = windex - valid
      BY <1>3
    <3>3. windex + received = written + valid
      BY <1>2
    <3> QED
      BY <3>1, <3>2, <3>3
  <2> QED
    BY <1>1, <1>7, <2>1
<1>10. ASSUME NEW i \in 1 .. windex' PROVE cells'[i] + Sent' = received' + i
  <2>1. i \in Nat /\ cells'[i] = received + i /\ received + i \in Nat
    BY <1>1, <1>8
  <2>2. cells'[i] + 0 = received + i
    BY <2>1
  <2> QED
    BY <1>1, <1>7, <2>2
<1> QED
  BY <1>3, <1>6, <1>9, <1>10

(* The socket takes the bytes at the indices.                              *)
LEMMA TakeFacts ==
  ASSUME WriteTypes, BufferInv, SendInv, StreamInv, at = "send", Take(valid)
  PROVE  /\ received' \in Nat
         /\ ~disturbed => intact' /\ received' = received + valid
<1>1. received \in Nat /\ valid \in Nat /\ windex \in Nat
  BY DEF WriteTypes
<1>2. received' \in Nat
  BY <1>1 DEF Take
<1>3. ASSUME ~disturbed PROVE intact' /\ received' = received + valid
  <2>1. /\ intact /\ rindex = 0 /\ valid <= windex /\ windex <= Len(cells)
        /\ \A i \in 1 .. windex : cells[i] + 0 = received + i
    <3>1. Sent = 0 /\ "closed" \notin flags
      BY DEF Sent, SendInv
    <3>2. /\ intact /\ rindex = 0 /\ windex <= Len(cells)
          /\ \A i \in 1 .. windex : cells[i] + Sent = received + i
      BY <1>3, <3>1 DEF StreamInv
    <3>3. rindex + valid <= windex
      BY DEF BufferInv
    <3> QED
      BY <1>1, <3>1, <3>2, <3>3
  <2>2. \A i \in 1 .. valid : cells[rindex + i] = received + i
    <3>1. ASSUME NEW i \in 1 .. valid PROVE cells[rindex + i] = received + i
      <4>1. i \in 1 .. windex /\ i \in 1 .. Len(cells) /\ rindex + i = i
        BY <1>1, <2>1, LenProperties DEF WriteTypes
      <4>2. cells[i] \in Nat
        BY <4>1, ElementOfSeq DEF WriteTypes
      <4> QED
        BY <2>1, <4>1, <4>2
    <3> QED
      BY <3>1
  <2> QED
    BY <2>1, <2>2 DEF Take
<1> QED
  BY <1>2, <1>3

-----------------------------------------------------------------------------
(* Every step.                                                             *)

LEMMA BufferStep ==
  ASSUME WriteInv, Next
  PROVE  WriteTypes' /\ BufferInv' /\ SendInv'
<1> USE DEF WriteInv, writeVars, bufferVars, loopVars, socketVars, interestVars,
           streamVars
<1>1. ASSUME UNCHANGED <<cells, rindex, windex, next_buf, urgent, written, valid>>,
             received' \in Nat, oobq' \in Nat, oobq' > 0 => urgent > 0,
             flags' \in SUBSET Flags, tasks' \in Seq(Tasks),
             pc' \in [Clients -> {"idle", "accepted", "pushed"}],
             at' \in WriteStates, after' \in {"loop", "idle"},
             "closed" \in flags' <=> "closed" \in flags,
             at' \in {"send", "commit"} => at \in {"send", "commit"},
             at' \notin {"idle", "loop", "unregistered"} => "closed" \notin flags,
             at' = "unregistered" => "closed" \in flags,
             out' = out,
             at' \in {"oob", "oob_send", "aborted"} => urgent > 0,
             at' \in {"next", "full"} => next_buf \/ urgent > 0,
             at' \in {"next", "send", "commit"} => ~complete',
             complete' /\ "closed" \notin flags => next_buf \/ urgent > 0
      PROVE  WriteTypes' /\ BufferInv' /\ SendInv'
  <2>1. WriteTypes'
    BY <1>1 DEF WriteTypes
  <2>2. BufferInv'
    BY <1>1 DEF BufferInv, WholeBuffers, Whole
  <2>3. SendInv'
    BY <1>1 DEF SendInv
  <2> QED
    BY <2>1, <2>2, <2>3
<1>2. CASE Drain
  BY <1>1, <1>2
     DEF Drain, WriteTypes, WriteStates, SendInv, BufferInv, Flags, Closed
<1>3. CASE PeerResets
  BY <1>1, <1>3
     DEF PeerResets, WriteTypes, WriteStates, SendInv, BufferInv, Flags, Closed
<1>4. CASE Dispatch
  BY <1>1, <1>4
     DEF Dispatch, WriteTypes, WriteStates, SendInv, BufferInv, Flags, Closed
<1>5. CASE WriteStopped
  BY <1>1, <1>5
     DEF WriteStopped, WriteTypes, WriteStates, SendInv, BufferInv, Flags,
         Closed
<1>6. CASE WriteOob
  BY <1>1, <1>6
     DEF WriteOob, WriteTypes, WriteStates, SendInv, BufferInv, Flags, Closed
<1>7. CASE WriteNothing
  BY <1>1, <1>7
     DEF WriteNothing, WriteTypes, WriteStates, SendInv, BufferInv, Flags,
         Closed
<1>8. CASE WriteNext
  BY <1>1, <1>8
     DEF WriteNext, WriteTypes, WriteStates, SendInv, BufferInv, Flags, Closed
<1>9. CASE SetComplete
  BY <1>1, <1>9
     DEF SetComplete, WriteTypes, WriteStates, SendInv, BufferInv, Flags,
         Closed
<1>10. CASE OobRound
  BY <1>1, <1>10
     DEF OobRound, WriteTypes, WriteStates, SendInv, BufferInv, Flags, Closed
<1>11. CASE HandlerReturn
  BY <1>1, <1>11
     DEF HandlerReturn, WriteTypes, WriteStates, SendInv, BufferInv, Flags,
         Closed
<1>12. CASE SendAgain
  BY <1>1, <1>12
     DEF SendAgain, WriteTypes, WriteStates, SendInv, BufferInv, Flags, Closed
<1>13. CASE SendError
  BY <1>1, <1>13
     DEF SendError, CallHandler, WriteTypes, WriteStates, SendInv, BufferInv,
         Flags, Closed
<1>14. CASE SendInterrupted
  BY <1>1, <1>14
     DEF SendInterrupted, WriteTypes, WriteStates, SendInv, BufferInv, Flags,
         Closed
<1>15. CASE OobInterrupted
  BY <1>1, <1>15
     DEF OobInterrupted, WriteTypes, WriteStates, SendInv, BufferInv, Flags,
         Closed
<1>16. CASE OobSend
  BY <1>1, <1>16
     DEF OobSend, WriteTypes, WriteStates, SendInv, BufferInv, Flags, Closed
<1>17. CASE OobAgain
  BY <1>1, <1>17
     DEF OobAgain, WriteTypes, WriteStates, SendInv, BufferInv, Flags, Closed
<1>18. CASE OobError
  BY <1>1, <1>18
     DEF OobError, CallHandler, WriteTypes, WriteStates, SendInv, BufferInv,
         Flags, Closed
<1>19. CASE HandlerClose
  BY <1>1, <1>19
     DEF HandlerClose, Close, WriteTypes, WriteStates, SendInv, BufferInv,
         Flags, Closed
<1>20. CASE RunTask
  <2>1. Tail(tasks) \in Seq(Tasks) /\ tasks' = Tail(tasks)
    BY <1>20 DEF RunTask, WriteTypes
  <2>2. CASE Head(tasks) = "write"
    BY <1>1, <1>20, <2>1, <2>2
       DEF RunTask, WriteTypes, WriteStates, SendInv, BufferInv
  <2>3. CASE Head(tasks) # "write"
    <3>1. /\ at = "idle" /\ at' = "idle"
          /\ flags' = flags \cup {"closed", "reset"}
          /\ cells' = <<>> /\ oobq' = 0 /\ next_buf' = FALSE /\ rindex' = 0
          /\ UNCHANGED <<windex, written, urgent, complete, pc, after, valid, received,
                         out>>
      BY <1>20, <2>3 DEF RunTask
    <3>2. cells' \in Seq(Nat) /\ Len(cells') = 0 /\ Len(cells') = 0 * BufferSize
      BY <3>1, OstreamAssumption DEF OstreamAssumption
    <3>3. WriteTypes'
      BY <2>1, <3>1, <3>2 DEF WriteTypes, Flags
    <3>4. BufferInv'
      <4>1. Whole(Len(cells'))
        BY <3>2 DEF Whole
      <4> QED
        BY <3>1, <4>1, OstreamAssumption
           DEF BufferInv, WholeBuffers, Whole, WriteTypes, OstreamAssumption
    <3>5. SendInv'
      BY <3>1 DEF SendInv
    <3> QED
      BY <3>3, <3>4, <3>5
  <2> QED
    BY <2>2, <2>3
<1>21. CASE ComputeValid
  <2>1. /\ at = "next" /\ valid' = Minimum(windex - rindex, BufferSize - rindex)
        /\ at' = IF valid' > 0 THEN "send" ELSE "aborted"
        /\ UNCHANGED <<writeVars, complete, flags, tasks, pc, after, received, out>>
    BY <1>21 DEF ComputeValid
  <2>2. /\ rindex \in Nat /\ windex \in Nat /\ BufferSize \in Nat
        /\ rindex <= windex /\ rindex < BufferSize
        /\ "closed" \notin flags /\ (next_buf \/ urgent > 0)
    BY <2>1, OstreamAssumption
       DEF OstreamAssumption, WriteTypes, BufferInv, SendInv
  <2>3. /\ valid' \in Nat
        /\ rindex + valid' <= windex /\ rindex + valid' <= BufferSize
    BY <2>1, <2>2 DEF Minimum
  <2>4. valid' > 0 <=> next_buf
    BY <2>1, <2>2 DEF Minimum, BufferInv
  <2>5. WriteTypes'
    BY <2>1, <2>3 DEF WriteTypes, WriteStates
  <2>6. BufferInv'
    BY <2>1, <2>3, <2>4 DEF BufferInv, WholeBuffers, Whole
  <2>7. SendInv'
    BY <2>1, <2>2, <2>4 DEF SendInv
  <2> QED
    BY <2>5, <2>6, <2>7
<1>22. CASE Commit
  <2>1. /\ at = "commit" /\ at' = "handler" /\ after' = "loop"
        /\ UNCHANGED <<oobq, written, urgent, complete, flags, tasks, pc, valid,
                       received, out>>
    BY <1>22 DEF Commit, CallHandler
  <2>2. /\ cells' \in Seq(Nat) /\ rindex' \in Nat /\ windex' \in Nat
        /\ next_buf' \in BOOLEAN /\ BufferInv'
    BY <1>22, CommitFacts
  <2>3. WriteTypes'
    BY <2>1, <2>2 DEF WriteTypes, WriteStates
  <2>4. SendInv'
    BY <2>1 DEF SendInv
  <2> QED
    BY <2>2, <2>3, <2>4
<1>23. CASE SendAll
  <2>1. received' \in Nat
    BY <1>23, TakeFacts DEF SendAll
  <2> QED
    BY <1>1, <1>23, <2>1
       DEF SendAll, WriteTypes, WriteStates, SendInv, BufferInv, Flags
<1>24. CASE SendPart
  <2>1. received' \in Nat
    BY <1>24 DEF SendPart, Take, WriteTypes
  <2> QED
    BY <1>1, <1>24, <2>1
       DEF SendPart, WriteTypes, WriteStates, SendInv, BufferInv, Flags
<1>25. CASE HandlerWrite
  <2>1. /\ Push /\ at \in {"handler", "idle"}
        /\ UNCHANGED <<complete, flags, pc, at, after, valid, received, intact,
                       disturbed, out>>
        /\ tasks' = IF complete THEN tasks ELSE Append(tasks, "write")
    BY <1>25 DEF HandlerWrite
  <2>2. disturbed' <=> (disturbed \/ at \in {"send", "commit"})
    BY <2>1
  <2>3. tasks' \in Seq(Tasks)
    BY <2>1 DEF WriteTypes
  <2>4. /\ cells' \in Seq(Nat) /\ rindex' \in Nat /\ windex' \in Nat
        /\ oobq' \in Nat /\ urgent' \in Nat /\ written' \in Nat
        /\ next_buf' \in BOOLEAN
        /\ BufferInv' /\ SendInv'
    BY <2>1, <2>2, PushStep
  <2> QED
    BY <2>1, <2>3, <2>4 DEF WriteTypes
<1>26. ASSUME NEW c \in Clients, AcceptWrite(c) \/ PostWrite(c) \/ ClientClose(c)
      PROVE  WriteTypes' /\ BufferInv' /\ SendInv'
  <2>1. CASE AcceptWrite(c)
    BY <1>1, <2>1 DEF AcceptWrite, WriteTypes, SendInv
  <2>2. CASE PostWrite(c)
    BY <1>1, <2>2 DEF PostWrite, WriteTypes, SendInv
  <2>3. CASE ClientClose(c)
    BY <1>1, <2>3 DEF ClientClose, Close, Flags, WriteTypes, SendInv
  <2> QED
    BY <1>26, <2>1, <2>2, <2>3
<1>27. ASSUME NEW c \in Clients, PushWrite(c)
      PROVE  WriteTypes' /\ BufferInv' /\ SendInv'
  <2>1. /\ Push /\ pc' = [pc EXCEPT ![c] = "pushed"]
        /\ disturbed' <=> (disturbed \/ at \in {"send", "commit"})
        /\ UNCHANGED <<complete, flags, tasks, at, after, valid, received, intact,
                       out>>
    BY <1>27 DEF PushWrite
  <2>2. /\ cells' \in Seq(Nat) /\ rindex' \in Nat /\ windex' \in Nat
        /\ oobq' \in Nat /\ urgent' \in Nat /\ written' \in Nat
        /\ next_buf' \in BOOLEAN
        /\ BufferInv' /\ SendInv'
    BY <2>1, PushStep
  <2> QED
    BY <2>1, <2>2 DEF WriteTypes
<1>28. CASE PeerSends
  BY <1>1, <1>28
     DEF PeerSends, WriteTypes, WriteStates, SendInv, BufferInv, Flags, Closed
<1>29. CASE ReadError
  BY <1>1, <1>29
     DEF ReadError, WriteTypes, WriteStates, SendInv, BufferInv, Flags, Closed
<1>30. CASE HandlerSwitch
  BY <1>1, <1>30 DEF HandlerSwitch, Switch, WriteTypes, WriteStates, SendInv
<1>31. ASSUME NEW c \in Clients, ClientSwitch(c)
      PROVE  WriteTypes' /\ BufferInv' /\ SendInv'
  BY <1>1, <1>31 DEF ClientSwitch, Switch, WriteTypes, WriteStates, SendInv
<1>32. CASE RunSwitch
  <2>1. Tail(tasks) \in Seq(Tasks) /\ tasks' = Tail(tasks)
    BY <1>32 DEF RunSwitch, WriteTypes
  <2>2. out' \in BOOLEAN
    BY <1>32, Zenon DEF RunSwitch
  <2>3. /\ at = "idle" /\ at' \in {"idle", "unregistered"}
        /\ at' = "unregistered" => "closed" \in flags
        /\ UNCHANGED <<writeVars, complete, flags, pc, after, valid, received>>
    BY <1>32 DEF RunSwitch
  <2>4. WriteTypes'
    BY <2>1, <2>2, <2>3 DEF WriteTypes, WriteStates
  <2>5. BufferInv'
    BY <2>3 DEF BufferInv, WholeBuffers, Whole
  <2>6. SendInv'
    BY <2>3 DEF SendInv
  <2> QED
    BY <2>4, <2>5, <2>6
<1> QED
  BY <1>2, <1>3, <1>4, <1>5, <1>6, <1>7, <1>8, <1>9, <1>10, <1>11, <1>12,
     <1>13, <1>14, <1>15, <1>16, <1>17, <1>18, <1>19, <1>20, <1>21, <1>22,
     <1>23, <1>24, <1>25, <1>26, <1>27, <1>28, <1>29, <1>30, <1>31, <1>32
     DEF Next, LoopStep, Send, Client

LEMMA StreamStep ==
  ASSUME WriteInv, Next
  PROVE  StreamInv'
<1> USE DEF WriteInv, writeVars, bufferVars, loopVars, socketVars, interestVars,
           streamVars
<1>1. ASSUME UNCHANGED <<cells, rindex, windex, written, valid, received, intact>>,
             disturbed' <=> disturbed,
             "closed" \in flags' <=> "closed" \in flags,
             at' = "commit" <=> at = "commit",
             at' = "send" => at = "send"
      PROVE  StreamInv'
  BY <1>1 DEF StreamInv, Sent
<1>2. CASE Drain
  BY <1>1, <1>2 DEF Drain
<1>3. CASE PeerResets
  BY <1>1, <1>3 DEF PeerResets
<1>4. CASE Dispatch
  BY <1>1, <1>4 DEF Dispatch
<1>5. CASE WriteStopped
  BY <1>1, <1>5 DEF WriteStopped
<1>6. CASE WriteOob
  BY <1>1, <1>6 DEF WriteOob
<1>7. CASE WriteNothing
  BY <1>1, <1>7 DEF WriteNothing
<1>8. CASE WriteNext
  BY <1>1, <1>8 DEF WriteNext
<1>9. CASE SetComplete
  BY <1>1, <1>9 DEF SetComplete
<1>10. CASE OobRound
  BY <1>1, <1>10 DEF OobRound
<1>11. CASE HandlerReturn
  BY <1>1, <1>11 DEF HandlerReturn, WriteTypes
<1>12. CASE SendAgain
  BY <1>1, <1>12 DEF SendAgain
<1>13. CASE SendError
  BY <1>1, <1>13 DEF SendError, CallHandler
<1>14. CASE SendInterrupted
  BY <1>1, <1>14 DEF SendInterrupted
<1>15. CASE OobInterrupted
  BY <1>1, <1>15 DEF OobInterrupted
<1>16. CASE OobSend
  BY <1>1, <1>16 DEF OobSend
<1>17. CASE OobAgain
  BY <1>1, <1>17 DEF OobAgain
<1>18. CASE OobError
  BY <1>1, <1>18 DEF OobError, CallHandler
<1>19. CASE HandlerClose
  BY <1>1, <1>19 DEF HandlerClose, Close
<1>20. CASE RunTask
  <2>1. CASE Head(tasks) = "write"
    BY <1>1, <1>20, <2>1 DEF RunTask
  <2>2. CASE Head(tasks) # "write"
    <3>1. "closed" \in flags' /\ UNCHANGED <<intact, disturbed>>
      BY <1>20, <2>2 DEF RunTask
    <3> QED
      BY <3>1 DEF StreamInv
  <2> QED
    BY <2>1, <2>2
<1>21. CASE ComputeValid
  <2>1. /\ at = "next" /\ at' \in {"send", "aborted"}
        /\ valid' = Minimum(windex - rindex, BufferSize - rindex)
        /\ UNCHANGED <<cells, rindex, windex, written, flags, received, intact, disturbed>>
    BY <1>21 DEF ComputeValid
  <2>2. windex \in Nat /\ BufferSize \in Nat
    BY OstreamAssumption DEF OstreamAssumption, WriteTypes
  <2>3. Sent = 0 /\ Sent' = 0
    BY <2>1 DEF Sent
  <2>4. rindex = 0 => valid' = Minimum(windex, BufferSize)
    BY <2>1, <2>2 DEF Minimum
  <2> QED
    BY <2>1, <2>3, <2>4 DEF StreamInv
<1>22. CASE Commit
  BY <1>22, CommitStream
<1>23. CASE SendAll
  <2>1. /\ at = "send" /\ at' = "commit" /\ flags' = flags \ {"error"}
        /\ UNCHANGED <<cells, rindex, windex, written, valid>>
        /\ disturbed' = disturbed
    BY <1>23 DEF SendAll
  <2> SUFFICES ASSUME ~disturbed PROVE StreamInv'
    BY <2>1 DEF StreamInv
  <2>2. intact' /\ received' = received + valid
    BY <1>23, TakeFacts DEF SendAll
  <2>3. Sent = 0 /\ Sent' = valid /\ "closed" \notin flags
    BY <2>1 DEF Sent, SendInv
  <2>4. /\ rindex = 0 /\ windex <= Len(cells)
        /\ windex + received = written + 0
        /\ \A j \in 1 .. windex : cells[j] + 0 = received + j
        /\ valid = Minimum(windex, BufferSize)
    BY <2>1, <2>3 DEF StreamInv
  <2>5. /\ windex \in Nat /\ received \in Nat /\ valid \in Nat /\ written \in Nat
        /\ cells \in Seq(Nat)
    BY DEF WriteTypes
  <2>6. windex + received' = written' + Sent'
    <3>1. windex + (received + valid) = written + valid
      <4>1. windex + received = written + 0
        BY <2>4
      <4> QED
        BY <2>5, <4>1
    <3> QED
      BY <2>1, <2>2, <2>3, <3>1
  <2>7. ASSUME NEW j \in 1 .. windex PROVE cells'[j] + Sent' = received' + j
    <3>1. j \in 1 .. Len(cells) /\ cells[j] \in Nat
      BY <2>4, <2>5, LenProperties, ElementOfSeq
    <3>2. cells[j] = received + j
      BY <2>4, <3>1
    <3>3. cells[j] + valid = received + valid + j
      BY <2>5, <3>1, <3>2
    <3> QED
      BY <2>1, <2>2, <2>3, <3>3
  <2> QED
    BY <2>1, <2>2, <2>4, <2>6, <2>7 DEF StreamInv
<1>24. CASE SendPart
  BY <1>24 DEF SendPart, StreamInv
<1>25. CASE HandlerWrite
  <2>1. /\ Push
        /\ UNCHANGED <<complete, flags, at, valid, received, intact>>
        /\ disturbed' <=> (disturbed \/ at \in {"send", "commit"})
    BY <1>25 DEF HandlerWrite
  <2> QED
    BY <2>1, PushStep
<1>26. ASSUME NEW c \in Clients, AcceptWrite(c) \/ PostWrite(c) \/ ClientClose(c)
      PROVE  StreamInv'
  BY <1>1, <1>26 DEF AcceptWrite, PostWrite, ClientClose, Close
<1>27. ASSUME NEW c \in Clients, PushWrite(c)
      PROVE  StreamInv'
  <2>1. /\ Push
        /\ UNCHANGED <<complete, flags, at, valid, received, intact>>
        /\ disturbed' <=> (disturbed \/ at \in {"send", "commit"})
    BY <1>27 DEF PushWrite
  <2> QED
    BY <2>1, PushStep
<1>28. CASE PeerSends
  BY <1>1, <1>28 DEF PeerSends
<1>29. CASE ReadError
  BY <1>1, <1>29 DEF ReadError
<1>30. CASE HandlerSwitch
  BY <1>1, <1>30 DEF HandlerSwitch, Switch
<1>31. ASSUME NEW c \in Clients, ClientSwitch(c) PROVE StreamInv'
  BY <1>1, <1>31 DEF ClientSwitch, Switch
<1>32. CASE RunSwitch
  BY <1>1, <1>32 DEF RunSwitch
<1> QED
  BY <1>2, <1>3, <1>4, <1>5, <1>6, <1>7, <1>8, <1>9, <1>10, <1>11, <1>12,
     <1>13, <1>14, <1>15, <1>16, <1>17, <1>18, <1>19,
     <1>20, <1>21, <1>22, <1>23, <1>24, <1>25, <1>26, <1>27, <1>28, <1>29, <1>30, <1>31, <1>32
     DEF Next, LoopStep, Send, Client

LEMMA WakeStep ==
  ASSUME WriteInv, Next
  PROVE  WakeInv'
<1> USE DEF WriteInv, writeVars, bufferVars, loopVars, socketVars, interestVars,
           streamVars
<1>1. ASSUME Busy', at' # "full", at' # "handler" PROVE WakeInv'
  BY <1>1 DEF WakeInv, Called
<1>2. CASE Drain
  BY <1>1, <1>2 DEF Drain, WakeInv, Called, Busy, EdgeComes, WriteTypes
<1>3. CASE PeerResets
  BY <1>1, <1>3 DEF PeerResets, WakeInv, Called, Busy, EdgeComes, WriteTypes
<1>4. CASE RunTask
  BY <1>1, <1>4 DEF RunTask, WakeInv, Called, Busy, EdgeComes, WriteTypes
<1>5. CASE Dispatch
  BY <1>1, <1>5 DEF Dispatch, WakeInv, Called, Busy, EdgeComes, WriteTypes
<1>6. CASE WriteStopped
  BY <1>1, <1>6
     DEF WriteStopped, Closed, WakeInv, Called, Busy, EdgeComes, WriteTypes
<1>7. CASE WriteOob
  BY <1>1, <1>7 DEF WriteOob, WakeInv, Called, Busy, EdgeComes, WriteTypes
<1>8. CASE WriteNothing
  BY <1>1, <1>8 DEF WriteNothing, WakeInv, Called, Busy, EdgeComes, WriteTypes
<1>9. CASE WriteNext
  BY <1>1, <1>9 DEF WriteNext, WakeInv, Called, Busy, EdgeComes, WriteTypes
<1>10. CASE ComputeValid
  BY <1>1, <1>10 DEF ComputeValid, WakeInv, Called, Busy, EdgeComes, WriteTypes
<1>11. CASE SetComplete
  BY <1>1, <1>11 DEF SetComplete, WakeInv, Called, Busy, EdgeComes, WriteTypes
<1>12. CASE Commit
  BY <1>1, <1>12
     DEF Commit, CallHandler, WakeInv, Called, Busy, EdgeComes, WriteTypes
<1>13. CASE OobRound
  BY <1>1, <1>13 DEF OobRound, WakeInv, Called, Busy, EdgeComes, WriteTypes
<1>14. CASE HandlerReturn
  BY <1>1, <1>14 DEF HandlerReturn, WakeInv, Called, Busy, EdgeComes, WriteTypes
<1>15. CASE SendAll
  BY <1>1, <1>15 DEF SendAll, WakeInv, Called, Busy, EdgeComes, WriteTypes
<1>16. CASE SendAgain
  BY <1>1, <1>16 DEF SendAgain, WakeInv, Called, Busy, EdgeComes, WriteTypes
<1>17. CASE SendPart
  BY <1>1, <1>17 DEF SendPart, WakeInv, Called, Busy, EdgeComes, WriteTypes
<1>18. CASE SendError
  BY <1>1, <1>18
     DEF SendError, CallHandler, WakeInv, Called, Busy, EdgeComes, WriteTypes
<1>19. CASE SendInterrupted
  BY <1>1, <1>19
     DEF SendInterrupted, WakeInv, Called, Busy, EdgeComes, WriteTypes
<1>20. CASE OobInterrupted
  BY <1>1, <1>20
     DEF OobInterrupted, WakeInv, Called, Busy, EdgeComes, WriteTypes
<1>21. CASE OobSend
  BY <1>1, <1>21 DEF OobSend, WakeInv, Called, Busy, EdgeComes, WriteTypes
<1>22. CASE OobAgain
  BY <1>1, <1>22 DEF OobAgain, WakeInv, Called, Busy, EdgeComes, WriteTypes
<1>23. CASE OobError
  BY <1>1, <1>23
     DEF OobError, CallHandler, WakeInv, Called, Busy, EdgeComes, WriteTypes
<1>24. CASE HandlerWrite
  BY SMTT(30), <1>1, <1>24 DEF HandlerWrite, WakeInv, Called, Busy, EdgeComes, WriteTypes
<1>25. CASE HandlerClose
  BY <1>1, <1>25
     DEF HandlerClose, Close, WakeInv, Called, Busy, EdgeComes, WriteTypes
<1>26. ASSUME NEW c \in Clients, AcceptWrite(c) PROVE WakeInv'
  BY <1>26 DEF AcceptWrite, WakeInv, Called, Busy, EdgeComes, WriteTypes
<1>27. ASSUME NEW c \in Clients, PushWrite(c) PROVE WakeInv'
  BY <1>27 DEF PushWrite, WakeInv, Called, Busy, EdgeComes, WriteTypes
<1>28. ASSUME NEW c \in Clients, PostWrite(c) PROVE WakeInv'
  BY SMTT(30), <1>28 DEF PostWrite, WakeInv, Called, Busy, EdgeComes, WriteTypes
<1>29. ASSUME NEW c \in Clients, ClientClose(c) PROVE WakeInv'
  BY <1>29 DEF ClientClose, Close, WakeInv, Called, Busy, EdgeComes, WriteTypes
<1>30. CASE PeerSends
  BY <1>1, <1>30 DEF PeerSends, WakeInv, Called, Busy, EdgeComes, WriteTypes
<1>31. CASE ReadError
  BY <1>1, <1>31 DEF ReadError, WakeInv, Called, Busy, EdgeComes, WriteTypes
<1>32. CASE HandlerSwitch
  BY SMTT(30), <1>1, <1>32
     DEF HandlerSwitch, Switch, WakeInv, Called, Busy, EdgeComes, WriteTypes
<1>33. ASSUME NEW c \in Clients, ClientSwitch(c) PROVE WakeInv'
  BY SMTT(30), <1>33
     DEF ClientSwitch, Switch, WakeInv, Called, Busy, EdgeComes, WriteTypes
<1>34. CASE RunSwitch
  <2>1. /\ at = "idle" /\ out \in BOOLEAN
        /\ UNCHANGED <<next_buf, oobq, complete, flags, pc, after, writable,
                       nospace, reset>>
    BY <1>34 DEF RunSwitch, WriteTypes
  <2>2. \/ UNCHANGED edge /\ (UNCHANGED out \/ "closed" \in flags)
        \/ edge' <=> (edge \/ reset \/ (out' /\ writable))
    BY <1>34 DEF RunSwitch
  <2>3. at' \in {"idle", "unregistered"} /\ (at' = "unregistered" => "closed" \in flags)
    BY <1>34 DEF RunSwitch
  <2>4. ASSUME NEW i \in DOMAIN tasks, tasks[i] = "write"
        PROVE  \E j \in DOMAIN tasks' : tasks'[j] = "write"
    <3>1. tasks \in Seq(Tasks) /\ tasks # <<>> /\ tasks' = Tail(tasks)
          /\ tasks[1] # "write"
      BY <1>34 DEF RunSwitch, WriteTypes
    <3>2. i \in 2 .. Len(tasks)
      BY <2>4, <3>1
    <3>3. i - 1 \in DOMAIN tasks' /\ tasks'[i - 1] = "write"
      BY <2>4, <3>1, <3>2
    <3> QED
      BY <3>3
  <2>5. flags # {} => WakeInv'
    BY <2>1, <2>3 DEF WakeInv
  <2>6. flags = {} => at' = "idle"
    BY <2>3
  <2>7. flags = {} /\ (next_buf \/ oobq > 0) => Called' \/ complete
    BY <2>1, <2>4, <2>6 DEF WakeInv, Called, Busy
  <2>8. flags = {} /\ complete => EdgeComes'
    BY <2>1, <2>2 DEF WakeInv, Busy, EdgeComes
  <2> QED
    BY <2>1, <2>5, <2>6, <2>7, <2>8 DEF WakeInv
<1> QED
  BY <1>2, <1>3, <1>4, <1>5, <1>6, <1>7, <1>8, <1>9, <1>10, <1>11, <1>12,
     <1>13, <1>14, <1>15, <1>16, <1>17, <1>18, <1>19, <1>20, <1>21, <1>22,
     <1>23, <1>24, <1>25, <1>26, <1>27, <1>28, <1>29, <1>30, <1>31, <1>32, <1>33, <1>34
     DEF Next, LoopStep, Send, Client

LEMMA WriteStep == WriteInv /\ [Next]_vars => WriteInv'
<1>1. ASSUME WriteInv, UNCHANGED vars PROVE WriteInv'
  <2> USE <1>1
      DEF vars, writeVars, bufferVars, loopVars, socketVars, interestVars,
           streamVars, WriteInv
  <2>1. WriteTypes'
    BY DEF WriteTypes
  <2>2. BufferInv' /\ SendInv'
    BY DEF BufferInv, WholeBuffers, Whole, SendInv
  <2>3. StreamInv'
    BY DEF StreamInv, Sent
  <2>4. WakeInv'
    BY DEF WakeInv, Called, Busy, EdgeComes
  <2> QED
    BY <2>1, <2>2, <2>3, <2>4
<1> QED
  BY <1>1, BufferStep, StreamStep, WakeStep DEF WriteInv

LEMMA WriteInit == Init => WriteInv
<1> SUFFICES ASSUME Init PROVE WriteInv
  OBVIOUS
<1> USE OstreamAssumption DEF OstreamAssumption
<1>1. cells \in Seq(Nat) /\ Len(cells) = BufferSize
  <2>1. cells = [i \in 1 .. BufferSize |-> 0]
    BY DEF Init
  <2> QED
    BY <2>1
<1>2. Whole(Len(cells))
  <2>1. Len(cells) = 1 * BufferSize
    BY <1>1
  <2> QED
    BY <2>1 DEF Whole
<1>3. WriteTypes
  <2>1. <<>> \in Seq(Tasks)
    OBVIOUS
  <2>2. pc \in [Clients -> {"idle", "accepted", "pushed"}] /\ next_buf \in BOOLEAN
    BY Zenon DEF Init
  <2> QED
    BY <1>1, <2>1, <2>2 DEF Init, WriteTypes, WriteStates
<1>4. BufferInv
  BY <1>1, <1>2 DEF Init, BufferInv, WholeBuffers
<1>5. SendInv
  BY DEF Init, SendInv
<1>6. StreamInv
  BY <1>1 DEF Init, StreamInv, Sent
<1>7. WakeInv
  BY DEF Init, WakeInv
<1> QED
  BY <1>3, <1>4, <1>5, <1>6, <1>7 DEF WriteInv

THEOREM WriterInvariant == Spec => []WriteInv
<1> QED
  BY WriteInit, WriteStep, PTL DEF Spec

(* on_write() reads inside the first buffer, which exists, and has         *)
(* something to send unless urgent data brought it there, whatever clients *)
(* append meanwhile and whatever the sizes of the buffers and the writes.  *)
THEOREM IndicesStayValid == Spec => []IndicesValid
<1>1. WriteInv => IndicesValid
  <2> SUFFICES ASSUME WriteInv PROVE IndicesValid
    OBVIOUS
  <2> USE DEF WriteInv
  <2>1. /\ rindex \in Nat /\ windex \in Nat /\ valid \in Nat /\ BufferSize \in Nat
    BY OstreamAssumption DEF WriteTypes, OstreamAssumption
  <2> QED
    BY <2>1 DEF IndicesValid, BufferInv, SendInv, Minimum
<1> QED
  BY <1>1, WriterInvariant, PTL

(* No wakeup is lost between async_write(), on_write(), the edges of epoll *)
(* and the switches of EPOLLOUT: with nothing under way data wait only     *)
(* behind complete_, and only while the socket is full, EPOLLOUT is off or *)
(* the connection is reset.                                                *)
THEOREM NoWriteIsStranded == Spec => []NoStrandedWrite
<1>1. WriteInv => NoStrandedWrite
  BY DEF WriteInv, WakeInv, WriteTypes, Called, Busy, EdgeComes,
         NoStrandedWrite, NothingCallsOnWrite
<1> QED
  BY <1>1, WriterInvariant, PTL

(* Until a client appends during a send, or a send is partial, the socket  *)
(* takes every byte once and in order, across all buffers.                 *)
THEOREM StreamStaysIntact == Spec => []StreamIntact
<1>1. WriteInv => StreamIntact
  BY DEF WriteInv, StreamInv, StreamIntact
<1> QED
  BY <1>1, WriterInvariant, PTL

=============================================================================
