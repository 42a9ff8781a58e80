----------------------------- MODULE BufferProofs -----------------------------
(****************************************************************************)
(* Proofs about module Buffer, for every set of bytes, every size and every *)
(* bound: the indices stay in order and inside the vector, the vector stays *)
(* bounded, and the unread bytes implement ByteQueue.                       *)
(*                                                                          *)
(* The lemmas are about the operators on a buffer: each takes a well-formed *)
(* buffer to a well-formed buffer, and says what becomes of the unread      *)
(* bytes and of the size.                                                   *)
(****************************************************************************)
EXTENDS Buffer, SequenceTheorems, TLAPS

WellFormed(b) ==
  /\ b \in [cells : Seq(Byte), reader : Nat, writer : Nat]
  /\ kCheapPrepend <= b.reader
  /\ b.reader <= b.writer
  /\ b.writer <= Len(b.cells)

-----------------------------------------------------------------------------
(* A function on 1..n is a sequence of length n.                            *)
LEMMA FunctionIsSeq ==
  ASSUME NEW n \in Nat, NEW f \in [1..n -> Byte]
  PROVE  f \in Seq(Byte) /\ Len(f) = n
OBVIOUS

(* The numbers of a well-formed buffer are natural numbers.                 *)
LEMMA Numbers ==
  ASSUME NEW b, WellFormed(b)
  PROVE  /\ b.cells \in Seq(Byte) /\ b.cells \in [1..Len(b.cells) -> Byte]
         /\ Len(b.cells) \in Nat /\ b.reader \in Nat /\ b.writer \in Nat
         /\ ReadableBytes(b) \in Nat /\ WriteableBytes(b) \in Nat
         /\ ReadableBytes(b) = b.writer - b.reader
         /\ WriteableBytes(b) = Len(b.cells) - b.writer
         /\ PrependableBytes(b) = b.reader
         /\ kCheapPrepend <= b.reader /\ b.reader <= b.writer /\ b.writer <= Len(b.cells)
<1>1. b.cells \in Seq(Byte) /\ b.reader \in Nat /\ b.writer \in Nat
  BY DEF WellFormed
<1>2. Len(b.cells) \in Nat /\ b.cells \in [1..Len(b.cells) -> Byte]
  BY <1>1, LenProperties
<1> QED
  BY <1>1, <1>2 DEF WellFormed, ReadableBytes, WriteableBytes, PrependableBytes

(* The unread bytes are a sequence of as many bytes as the indices say.     *)
LEMMA UnreadIsSeq ==
  ASSUME NEW b, WellFormed(b)
  PROVE  /\ Unread(b) \in Seq(Byte)
         /\ Len(Unread(b)) = ReadableBytes(b)
         /\ \A i \in 1..ReadableBytes(b) : Unread(b)[i] = b.cells[b.reader + i]
<1>1. ReadableBytes(b) \in Nat
  BY Numbers
<1>2. \A i \in 1..ReadableBytes(b) : b.cells[b.reader + i] \in Byte
  BY Numbers
<1>3. Unread(b) \in [1..ReadableBytes(b) -> Byte]
  BY <1>2 DEF Unread
<1> QED
  BY <1>1, <1>3, FunctionIsSeq DEF Unread

(* A block that fits behind the writer is added to the unread bytes, and    *)
(* nothing else changes (Buffer::append after ensureWriteableBytes, readv). *)
LEMMA WrittenAddsBlock ==
  ASSUME NEW b, WellFormed(b), NEW d \in Seq(Byte), Len(d) <= WriteableBytes(b)
  PROVE  /\ WellFormed(Written(b, d))
         /\ Unread(Written(b, d)) = Unread(b) \o d
         /\ Len(Written(b, d).cells) = Len(b.cells)
         /\ ReadableBytes(Written(b, d)) = ReadableBytes(b) + Len(d)
         /\ WriteableBytes(Written(b, d)) = WriteableBytes(b) - Len(d)
<1> DEFINE w == Written(b, d)
           put(i) == IF i \in (b.writer + 1)..(b.writer + Len(d))
                     THEN d[i - b.writer] ELSE b.cells[i]
<1> HIDE DEF put
<1>0. /\ b.cells \in [1..Len(b.cells) -> Byte]
      /\ Len(b.cells) \in Nat /\ b.reader \in Nat /\ b.writer \in Nat
      /\ ReadableBytes(b) = b.writer - b.reader
      /\ WriteableBytes(b) = Len(b.cells) - b.writer
      /\ kCheapPrepend <= b.reader /\ b.reader <= b.writer /\ b.writer <= Len(b.cells)
      /\ Len(d) \in Nat /\ d \in [1..Len(d) -> Byte]
  BY Numbers, LenProperties
<1>1. b.writer + Len(d) <= Len(b.cells)
  BY <1>0
<1>2. /\ w.cells = [i \in 1..Len(b.cells) |-> put(i)]
      /\ w.reader = b.reader
      /\ w.writer = b.writer + Len(d)
      /\ w = [cells |-> w.cells, reader |-> w.reader, writer |-> w.writer]
  BY DEF Written, put
<1>3. \A i \in 1..Len(b.cells) : put(i) \in Byte
  BY <1>0 DEF put
<1>4. w.cells \in [1..Len(b.cells) -> Byte]
  BY <1>2, <1>3
<1>5. w.cells \in Seq(Byte) /\ Len(w.cells) = Len(b.cells)
  BY <1>0, <1>4, FunctionIsSeq
<1> HIDE DEF w
<1>6. WellFormed(w)
  <2>1. w.reader \in Nat /\ w.writer \in Nat
    BY <1>0, <1>2
  <2>2. [cells |-> w.cells, reader |-> w.reader, writer |-> w.writer]
           \in [cells : Seq(Byte), reader : Nat, writer : Nat]
    BY <1>5, <2>1
  <2>3. w \in [cells : Seq(Byte), reader : Nat, writer : Nat]
    BY <1>2, <2>2, Zenon
  <2>4. kCheapPrepend <= w.reader /\ w.reader <= w.writer /\ w.writer <= Len(w.cells)
    BY <1>0, <1>1, <1>2, <1>5
  <2> QED
    BY <2>3, <2>4 DEF WellFormed
<1>7. /\ ReadableBytes(w) = ReadableBytes(b) + Len(d)
      /\ WriteableBytes(w) = WriteableBytes(b) - Len(d)
  BY <1>0, <1>2, <1>5 DEF ReadableBytes, WriteableBytes
<1>8. Unread(w) = Unread(b) \o d
  <2>1. Unread(b) \o d \in Seq(Byte) /\ Len(Unread(b) \o d) = Len(Unread(w))
    BY <1>6, <1>7, UnreadIsSeq, ConcatProperties
  <2>2. ASSUME NEW i \in 1..(ReadableBytes(b) + Len(d))
        PROVE  Unread(w)[i] = (Unread(b) \o d)[i]
    <3>1. Unread(w)[i] = w.cells[b.reader + i]
      <4>1. i \in 1..ReadableBytes(w)
        BY <1>7
      <4>2. Unread(w)[i] = w.cells[w.reader + i]
        BY <1>6, <4>1, UnreadIsSeq
      <4> QED
        BY <1>2, <4>2
    <3>2. b.reader + i \in 1..Len(b.cells)
      BY <1>0, <1>1
    <3>3. Unread(w)[i] = put(b.reader + i)
      BY <1>2, <3>1, <3>2
    <3>4. (Unread(b) \o d)[i] = IF i <= ReadableBytes(b) THEN Unread(b)[i]
                                ELSE d[i - ReadableBytes(b)]
      BY UnreadIsSeq, ConcatProperties
    <3>5. CASE i <= ReadableBytes(b)
      <4>1. Unread(b)[i] = b.cells[b.reader + i]
        BY <1>0, <3>5, UnreadIsSeq
      <4>2. put(b.reader + i) = b.cells[b.reader + i]
        BY <1>0, <3>5 DEF put
      <4> QED
        BY <3>3, <3>4, <3>5, <4>1, <4>2
    <3>6. CASE ~(i <= ReadableBytes(b))
      <4>1. put(b.reader + i) = d[i - ReadableBytes(b)]
        <5>1. b.reader + i \in (b.writer + 1)..(b.writer + Len(d))
          BY <1>0, <3>6
        <5>2. (b.reader + i) - b.writer = i - ReadableBytes(b)
          BY <1>0
        <5> QED
          BY <5>1, <5>2 DEF put
      <4> QED
        BY <3>3, <3>4, <3>6, <4>1
    <3> QED
      BY <3>5, <3>6
  <2>3. Len(Unread(w)) = ReadableBytes(b) + Len(d)
    BY <1>6, <1>7, UnreadIsSeq
  <2> QED
    BY <1>6, <2>1, <2>2, <2>3, UnreadIsSeq, SeqEqual
<1> QED
  BY <1>5, <1>6, <1>7, <1>8 DEF w

(* A record of cells and two indices in order is a well-formed buffer.      *)
LEMMA MakeBuffer ==
  ASSUME NEW c \in Seq(Byte), NEW r \in Nat, NEW w \in Nat,
         kCheapPrepend <= r, r <= w, w <= Len(c)
  PROVE  WellFormed([cells |-> c, reader |-> r, writer |-> w])
BY DEF WellFormed

(* Two buffers with the same number of unread bytes and the same bytes      *)
(* behind their readers hold the same unread bytes.                         *)
LEMMA SameUnread ==
  ASSUME NEW a, WellFormed(a), NEW b, WellFormed(b),
         ReadableBytes(a) = ReadableBytes(b),
         \A i \in 1..ReadableBytes(b) : a.cells[a.reader + i] = b.cells[b.reader + i]
  PROVE  Unread(a) = Unread(b)
<1>1. \A i \in 1..ReadableBytes(b) : Unread(a)[i] = Unread(b)[i]
  BY UnreadIsSeq
<1>2. /\ Unread(a) \in Seq(Byte) /\ Len(Unread(a)) = ReadableBytes(b)
      /\ Unread(b) \in Seq(Byte) /\ Len(Unread(b)) = ReadableBytes(b)
  BY UnreadIsSeq
<1> QED
  BY <1>1, <1>2, SeqEqual

(* Growing the vector keeps the unread bytes (Buffer::makeSpace).           *)
LEMMA ResizedKeeps ==
  ASSUME NEW b, WellFormed(b), NEW n \in Nat, Len(b.cells) <= n
  PROVE  /\ WellFormed(Resized(b, n))
         /\ Unread(Resized(b, n)) = Unread(b)
         /\ Len(Resized(b, n).cells) = n
         /\ WriteableBytes(Resized(b, n)) = n - b.writer
<1> DEFINE c == [i \in 1..n |-> IF i <= Len(b.cells) THEN b.cells[i] ELSE Zero]
           r == Resized(b, n)
<1>0. /\ b.cells \in [1..Len(b.cells) -> Byte] /\ Len(b.cells) \in Nat
      /\ b.reader \in Nat /\ b.writer \in Nat
      /\ ReadableBytes(b) = b.writer - b.reader
      /\ kCheapPrepend <= b.reader /\ b.reader <= b.writer /\ b.writer <= Len(b.cells)
  BY Numbers
<1>1. c \in [1..n -> Byte]
  BY <1>0, BufferAssumption
<1>2. c \in Seq(Byte) /\ Len(c) = n
  BY <1>1, FunctionIsSeq
<1>3. \A i \in 1..ReadableBytes(b) : c[b.reader + i] = b.cells[b.reader + i]
  <2> SUFFICES ASSUME NEW i \in 1..ReadableBytes(b)
               PROVE  c[b.reader + i] = b.cells[b.reader + i]
    OBVIOUS
  <2>1. b.reader + i \in 1..n /\ b.reader + i <= Len(b.cells)
    BY <1>0
  <2> QED
    BY <2>1
<1> HIDE DEF c
<1>4. r = [cells |-> c, reader |-> b.reader, writer |-> b.writer]
  BY DEF Resized, c
<1>5. r.cells = c /\ r.reader = b.reader /\ r.writer = b.writer
  BY <1>4
<1>6. WellFormed(r)
  <2>1. b.writer <= Len(c)
    BY <1>0, <1>2
  <2>2. WellFormed([cells |-> c, reader |-> b.reader, writer |-> b.writer])
    BY <1>0, <1>2, <2>1, MakeBuffer
  <2> QED
    BY <1>4, <2>2, Zenon
<1> HIDE DEF r
<1>7. ReadableBytes(r) = ReadableBytes(b) /\ WriteableBytes(r) = n - b.writer
  BY <1>2, <1>5 DEF ReadableBytes, WriteableBytes
<1>8. Unread(r) = Unread(b)
  BY <1>3, <1>5, <1>6, <1>7, SameUnread
<1> QED
  BY <1>2, <1>5, <1>6, <1>7, <1>8 DEF r

(* Moving the unread bytes to the front keeps them, the ranges of the copy  *)
(* may overlap (Buffer::makeSpace).                                         *)
LEMMA CompactedKeeps ==
  ASSUME NEW b, WellFormed(b)
  PROVE  /\ WellFormed(Compacted(b))
         /\ Unread(Compacted(b)) = Unread(b)
         /\ Len(Compacted(b).cells) = Len(b.cells)
         /\ WriteableBytes(Compacted(b)) =
               WriteableBytes(b) + PrependableBytes(b) - kCheapPrepend
<1> DEFINE shifted(i) ==
             IF i \in (kCheapPrepend + 1)..(kCheapPrepend + ReadableBytes(b))
             THEN b.cells[i - kCheapPrepend + b.reader] ELSE b.cells[i]
           c == [i \in 1..Len(b.cells) |-> shifted(i)]
           w == kCheapPrepend + ReadableBytes(b)
           r == Compacted(b)
<1>0. /\ b.cells \in [1..Len(b.cells) -> Byte] /\ Len(b.cells) \in Nat
      /\ b.reader \in Nat /\ b.writer \in Nat
      /\ ReadableBytes(b) = b.writer - b.reader
      /\ WriteableBytes(b) = Len(b.cells) - b.writer
      /\ PrependableBytes(b) = b.reader
      /\ kCheapPrepend <= b.reader /\ b.reader <= b.writer /\ b.writer <= Len(b.cells)
      /\ kCheapPrepend \in Nat
  BY Numbers, BufferAssumption
<1>1. \A i \in 1..Len(b.cells) : shifted(i) \in Byte
  <2> SUFFICES ASSUME NEW i \in 1..Len(b.cells)
               PROVE  shifted(i) \in Byte
    OBVIOUS
  <2>1. CASE i \in (kCheapPrepend + 1)..(kCheapPrepend + ReadableBytes(b))
    <3>1. i - kCheapPrepend + b.reader \in 1..Len(b.cells)
      BY <1>0, <2>1
    <3> QED
      BY <1>0, <2>1, <3>1
  <2>2. CASE i \notin (kCheapPrepend + 1)..(kCheapPrepend + ReadableBytes(b))
    BY <1>0, <2>2
  <2> QED
    BY <2>1, <2>2
<1>2. c \in [1..Len(b.cells) -> Byte]
  BY <1>1
<1>3. c \in Seq(Byte) /\ Len(c) = Len(b.cells)
  BY <1>0, <1>2, FunctionIsSeq
<1>4. \A i \in 1..ReadableBytes(b) : c[kCheapPrepend + i] = b.cells[b.reader + i]
  <2> SUFFICES ASSUME NEW i \in 1..ReadableBytes(b)
               PROVE  c[kCheapPrepend + i] = b.cells[b.reader + i]
    OBVIOUS
  <2>1. kCheapPrepend + i \in 1..Len(b.cells)
    BY <1>0
  <2>2. kCheapPrepend + i \in (kCheapPrepend + 1)..(kCheapPrepend + ReadableBytes(b))
    BY <1>0
  <2>3. (kCheapPrepend + i) - kCheapPrepend + b.reader = b.reader + i
    BY <1>0
  <2> QED
    BY <2>1, <2>2, <2>3
<1>5. w \in Nat /\ kCheapPrepend <= w /\ w <= Len(b.cells)
      /\ w = kCheapPrepend + ReadableBytes(b)
  BY <1>0
<1> HIDE DEF c
<1>6. r = [cells |-> c, reader |-> kCheapPrepend, writer |-> w]
  BY DEF Compacted, c, shifted
<1>7. r.cells = c /\ r.reader = kCheapPrepend /\ r.writer = w
  BY <1>6
<1> HIDE DEF w
<1>8. WellFormed(r)
  <2>1. WellFormed([cells |-> c, reader |-> kCheapPrepend, writer |-> w])
    BY <1>0, <1>3, <1>5, MakeBuffer
  <2> QED
    BY <1>6, <2>1, Zenon
<1> HIDE DEF r
<1>9. /\ ReadableBytes(r) = ReadableBytes(b)
      /\ WriteableBytes(r) = WriteableBytes(b) + PrependableBytes(b) - kCheapPrepend
  BY <1>0, <1>3, <1>5, <1>7 DEF ReadableBytes, WriteableBytes
<1>10. Unread(r) = Unread(b)
  BY <1>4, <1>7, <1>8, <1>9, SameUnread
<1> QED
  BY <1>3, <1>7, <1>8, <1>9, <1>10 DEF r

(* After ensureWriteableBytes there is room for len bytes.  The vector only *)
(* grew if the unread bytes and len more do not fit behind the reserved     *)
(* ones (Buffer::ensureWriteableBytes, ::makeSpace).                        *)
LEMMA RoomIsMade ==
  ASSUME NEW b, WellFormed(b), NEW len \in Nat
  PROVE  /\ WellFormed(EnsureWriteableBytes(b, len))
         /\ Unread(EnsureWriteableBytes(b, len)) = Unread(b)
         /\ len <= WriteableBytes(EnsureWriteableBytes(b, len))
         /\ \/ Len(EnsureWriteableBytes(b, len).cells) = Len(b.cells)
            \/ /\ Len(EnsureWriteableBytes(b, len).cells) = b.writer + len
               /\ Len(b.cells) < kCheapPrepend + ReadableBytes(b) + len
<1> DEFINE e == EnsureWriteableBytes(b, len)
<1>0. /\ Len(b.cells) \in Nat /\ b.reader \in Nat /\ b.writer \in Nat
      /\ ReadableBytes(b) = b.writer - b.reader
      /\ WriteableBytes(b) = Len(b.cells) - b.writer
      /\ PrependableBytes(b) = b.reader
      /\ kCheapPrepend <= b.reader /\ b.reader <= b.writer /\ b.writer <= Len(b.cells)
      /\ kCheapPrepend \in Nat
  BY Numbers, BufferAssumption
<1>1. CASE WriteableBytes(b) >= len
  <2>1. e = b
    BY <1>0, <1>1 DEF EnsureWriteableBytes
  <2> QED
    BY <1>1, <2>1
<1>2. CASE /\ WriteableBytes(b) < len
           /\ WriteableBytes(b) + PrependableBytes(b) - kCheapPrepend < len
  <2>1. e = Resized(b, b.writer + len)
    BY <1>2 DEF EnsureWriteableBytes, MakeSpace
  <2>2. b.writer + len \in Nat /\ Len(b.cells) <= b.writer + len
    BY <1>0, <1>2
  <2>3. Len(b.cells) < kCheapPrepend + ReadableBytes(b) + len
    BY <1>0, <1>2
  <2>4. (b.writer + len) - b.writer = len
    BY <1>0
  <2> QED
    BY <2>1, <2>2, <2>3, <2>4, ResizedKeeps
<1>3. CASE /\ WriteableBytes(b) < len
           /\ ~(WriteableBytes(b) + PrependableBytes(b) - kCheapPrepend < len)
  <2>1. e = Compacted(b)
    BY <1>3 DEF EnsureWriteableBytes, MakeSpace
  <2>2. len <= WriteableBytes(b) + PrependableBytes(b) - kCheapPrepend
    BY <1>0, <1>3
  <2> QED
    BY <2>1, <2>2, CompactedKeeps
<1>4. (WriteableBytes(b) >= len) \/ WriteableBytes(b) < len
  BY <1>0
<1> QED
  BY <1>1, <1>2, <1>3, <1>4

(* append adds a block to the unread bytes, wherever it finds the room for  *)
(* it (Buffer::append).                                                     *)
LEMMA AppendedAddsBlock ==
  ASSUME NEW b, WellFormed(b), NEW d \in Seq(Byte)
  PROVE  /\ WellFormed(Appended(b, d))
         /\ Unread(Appended(b, d)) = Unread(b) \o d
         /\ \/ Len(Appended(b, d).cells) = Len(b.cells)
            \/ /\ Len(Appended(b, d).cells) = b.writer + Len(d)
               /\ Len(b.cells) < kCheapPrepend + ReadableBytes(b) + Len(d)
<1> DEFINE e == EnsureWriteableBytes(b, Len(d))
<1>1. Len(d) \in Nat
  BY LenProperties
<1>2. /\ WellFormed(e) /\ Unread(e) = Unread(b) /\ Len(d) <= WriteableBytes(e)
      /\ \/ Len(e.cells) = Len(b.cells)
         \/ /\ Len(e.cells) = b.writer + Len(d)
            /\ Len(b.cells) < kCheapPrepend + ReadableBytes(b) + Len(d)
  BY <1>1, RoomIsMade
<1>3. Appended(b, d) = Written(e, d)
  BY DEF Appended
<1> HIDE DEF e
<1>4. /\ WellFormed(Written(e, d))
      /\ Unread(Written(e, d)) = Unread(e) \o d
      /\ Len(Written(e, d).cells) = Len(e.cells)
  BY <1>2, WrittenAddsBlock
<1> QED
  BY <1>2, <1>3, <1>4

(* Dropping everything leaves nothing unread (Buffer::retrieveAll).         *)
LEMMA EmptiedIsEmpty ==
  ASSUME NEW b, WellFormed(b)
  PROVE  /\ WellFormed(Emptied(b))
         /\ Unread(Emptied(b)) = SubSeq(Unread(b), ReadableBytes(b) + 1, ReadableBytes(b))
         /\ Emptied(b).cells = b.cells
<1>0. /\ b.cells \in Seq(Byte) /\ Len(b.cells) \in Nat
      /\ ReadableBytes(b) \in Nat /\ kCheapPrepend \in Nat
      /\ kCheapPrepend <= Len(b.cells)
  BY Numbers, BufferAssumption
<1>1. WellFormed(Emptied(b))
  BY <1>0, MakeBuffer DEF Emptied
<1>2. ReadableBytes(Emptied(b)) = 0 /\ Emptied(b).cells = b.cells
  BY <1>0 DEF Emptied, ReadableBytes
<1>3. Unread(Emptied(b)) = <<>>
  BY <1>1, <1>2, UnreadIsSeq, EmptySeq
<1>4. SubSeq(Unread(b), ReadableBytes(b) + 1, ReadableBytes(b)) = <<>>
  BY <1>0, SubSeqEmpty
<1> QED
  BY <1>1, <1>2, <1>3, <1>4

(* retrieve drops the first bytes, and all of them when it is asked for     *)
(* more than there are (Buffer::retrieve).                                  *)
LEMMA RetrievedDrops ==
  ASSUME NEW b, WellFormed(b), NEW len \in Nat
  PROVE  /\ WellFormed(Retrieved(b, len))
         /\ Retrieved(b, len).cells = b.cells
         /\ \E n \in 0..ReadableBytes(b) :
              /\ n = IF len <= ReadableBytes(b) THEN len ELSE ReadableBytes(b)
              /\ Unread(Retrieved(b, len)) = SubSeq(Unread(b), n + 1, ReadableBytes(b))
<1>0. /\ b.cells \in Seq(Byte) /\ Len(b.cells) \in Nat
      /\ b.reader \in Nat /\ b.writer \in Nat
      /\ ReadableBytes(b) \in Nat /\ ReadableBytes(b) = b.writer - b.reader
      /\ kCheapPrepend <= b.reader /\ b.reader <= b.writer /\ b.writer <= Len(b.cells)
      /\ kCheapPrepend \in Nat
  BY Numbers, BufferAssumption
<1>1. CASE ~(len <= ReadableBytes(b))
  <2>1. Retrieved(b, len) = Emptied(b)
    BY <1>1 DEF Retrieved
  <2>2. ReadableBytes(b) \in 0..ReadableBytes(b)
    BY <1>0
  <2> QED
    BY <1>1, <2>1, <2>2, EmptiedIsEmpty
<1>2. CASE len <= ReadableBytes(b)
  <2> DEFINE r == [cells |-> b.cells, reader |-> b.reader + len, writer |-> b.writer]
             t == SubSeq(Unread(b), len + 1, ReadableBytes(b))
  <2>1. Retrieved(b, len) = r
    BY <1>2 DEF Retrieved
  <2>2. WellFormed(r)
    <3>1. /\ b.reader + len \in Nat /\ kCheapPrepend <= b.reader + len
          /\ b.reader + len <= b.writer
      BY <1>0, <1>2
    <3> QED
      BY <1>0, <3>1, MakeBuffer
  <2>3. r.cells = b.cells /\ r.reader = b.reader + len /\ r.writer = b.writer
    OBVIOUS
  <2> HIDE DEF r
  <2>4. ReadableBytes(r) = ReadableBytes(b) - len
    BY <1>0, <2>3 DEF ReadableBytes
  <2>5. /\ t \in Seq(Byte)
        /\ Len(t) = ReadableBytes(b) - len
        /\ \A i \in 1..(ReadableBytes(b) - len) : t[i] = Unread(b)[len + i]
    <3>1. \A i \in (len + 1)..ReadableBytes(b) : Unread(b)[i] \in Byte
      BY UnreadIsSeq, ElementOfSeq
    <3>2. /\ t \in Seq(Byte)
          /\ Len(t) = IF len + 1 <= ReadableBytes(b)
                      THEN ReadableBytes(b) - (len + 1) + 1 ELSE 0
          /\ \A i \in 1..(ReadableBytes(b) - (len + 1) + 1) :
                t[i] = Unread(b)[(len + 1) + i - 1]
      BY <1>0, <3>1, SubSeqProperties
    <3> QED
      BY <1>0, <1>2, <3>2
  <2>6. Unread(r) = t
    <3>1. ASSUME NEW i \in 1..(ReadableBytes(b) - len)
          PROVE  Unread(r)[i] = t[i]
      <4>1. Unread(r)[i] = b.cells[b.reader + len + i]
        BY <2>2, <2>3, <2>4, UnreadIsSeq
      <4>2. len + i \in 1..ReadableBytes(b)
        BY <1>0, <1>2
      <4>3. Unread(b)[len + i] = b.cells[b.reader + (len + i)]
        BY <4>2, UnreadIsSeq
      <4>4. b.reader + len + i = b.reader + (len + i)
        BY <1>0
      <4> QED
        BY <2>5, <4>1, <4>3, <4>4
    <3>2. Unread(r) \in Seq(Byte) /\ Len(Unread(r)) = ReadableBytes(b) - len
      BY <2>2, <2>4, UnreadIsSeq
    <3> QED
      BY <2>5, <3>1, <3>2, SeqEqual
  <2>7. len \in 0..ReadableBytes(b)
    BY <1>0, <1>2
  <2> QED
    BY <1>2, <2>1, <2>2, <2>3, <2>6, <2>7
<1> QED
  BY <1>1, <1>2

-----------------------------------------------------------------------------
(* How a step may change the size of the vector.                            *)
MayGrow(b, c) ==
  \/ Len(c.cells) = Len(b.cells)
  \/ Len(c.cells) < kCheapPrepend + MaxReadable + MaxLen

(* A block of Data is a sequence of at most MaxLen bytes.                   *)
LEMMA DataIsSeq ==
  ASSUME NEW d \in Data
  PROVE  d \in Seq(Byte) /\ Len(d) \in 1..MaxLen
<1>1. PICK n \in 1..MaxLen : d \in [1..n -> Byte]
  BY DEF Data
<1>2. n \in Nat
  BY <1>1
<1> QED
  BY <1>1, <1>2, FunctionIsSeq

(* An append that keeps the unread bytes under MaxReadable.                 *)
LEMMA AppendStep ==
  ASSUME NEW b, WellFormed(b), NEW d \in Seq(Byte), Len(d) <= MaxLen,
         ReadableBytes(b) + Len(d) <= MaxReadable
  PROVE  /\ WellFormed(Appended(b, d))
         /\ Unread(Appended(b, d)) = Unread(b) \o d
         /\ MayGrow(b, Appended(b, d))
<1>1. /\ Len(b.cells) \in Nat /\ b.writer \in Nat /\ b.writer <= Len(b.cells)
      /\ ReadableBytes(b) \in Nat /\ Len(d) \in Nat
      /\ kCheapPrepend \in Nat /\ MaxReadable \in Nat /\ MaxLen \in Nat
  BY Numbers, LenProperties, BufferAssumption
<1>2. /\ WellFormed(Appended(b, d))
      /\ Unread(Appended(b, d)) = Unread(b) \o d
      /\ \/ Len(Appended(b, d).cells) = Len(b.cells)
         \/ /\ Len(Appended(b, d).cells) = b.writer + Len(d)
            /\ Len(b.cells) < kCheapPrepend + ReadableBytes(b) + Len(d)
  BY AppendedAddsBlock
<1>3. MayGrow(b, Appended(b, d))
  BY <1>1, <1>2 DEF MayGrow
<1> QED
  BY <1>2, <1>3

(* readFd adds what readv delivered, whether or not it spilled into the     *)
(* extra block (Buffer::readFd).                                            *)
LEMMA ReadFdStep ==
  ASSUME WellFormed(buf), NEW d \in Data, ReadFd(d)
  PROVE  /\ WellFormed(buf')
         /\ Unread(buf') = Unread(buf) \o d
         /\ MayGrow(buf, buf')
<1> DEFINE n == WriteableBytes(buf)
           first == SubSeq(d, 1, n)
           rest == SubSeq(d, n + 1, Len(d))
           full == Written(buf, first)
<1>0. /\ n \in Nat /\ d \in Seq(Byte) /\ Len(d) \in Nat /\ Len(d) <= MaxLen
      /\ ReadableBytes(buf) \in Nat
      /\ ReadableBytes(buf) + Len(d) <= MaxReadable
      /\ MaxReadable \in Nat /\ MaxLen \in Nat
  BY Numbers, DataIsSeq, BufferAssumption DEF ReadFd, Room
<1>1. CASE ~Spilled(d)
  <2>1. buf' = Written(buf, d) /\ Len(d) <= n
    BY <1>0, <1>1 DEF ReadFd, Spilled
  <2>2. /\ WellFormed(Written(buf, d))
        /\ Unread(Written(buf, d)) = Unread(buf) \o d
        /\ Len(Written(buf, d).cells) = Len(buf.cells)
    BY <1>0, <2>1, WrittenAddsBlock
  <2> QED
    BY <2>1, <2>2 DEF MayGrow
<1>2. CASE Spilled(d)
  <2>1. buf' = Appended(full, rest) /\ n < Len(d)
    BY <1>0, <1>2 DEF ReadFd, Spilled
  <2>2. /\ first \in Seq(Byte) /\ Len(first) = n
        /\ \A i \in 1..n : first[i] = d[i]
    <3>1. \A i \in 1..n : d[i] \in Byte
      BY <1>0, <2>1, ElementOfSeq
    <3>2. /\ first \in Seq(Byte) /\ Len(first) = (IF 1 <= n THEN n - 1 + 1 ELSE 0)
          /\ \A i \in 1..(n - 1 + 1) : first[i] = d[1 + i - 1]
      BY <1>0, <3>1, SubSeqProperties
    <3> QED
      BY <1>0, <3>2
  <2>3. /\ rest \in Seq(Byte) /\ Len(rest) = Len(d) - n
        /\ \A i \in 1..(Len(d) - n) : rest[i] = d[n + i]
    <3>1. \A i \in (n + 1)..Len(d) : d[i] \in Byte
      BY <1>0, ElementOfSeq
    <3>2. /\ rest \in Seq(Byte)
          /\ Len(rest) = (IF n + 1 <= Len(d) THEN Len(d) - (n + 1) + 1 ELSE 0)
          /\ \A i \in 1..(Len(d) - (n + 1) + 1) : rest[i] = d[(n + 1) + i - 1]
      BY <1>0, <3>1, SubSeqProperties
    <3> QED
      BY <1>0, <2>1, <3>2
  <2> HIDE DEF first, rest
  <2>4. first \o rest = d
    <3>1. /\ first \o rest \in Seq(Byte)
          /\ Len(first \o rest) = Len(first) + Len(rest)
          /\ \A i \in 1..(Len(first) + Len(rest)) : (first \o rest)[i] =
               IF i <= Len(first) THEN first[i] ELSE rest[i - Len(first)]
      BY <2>2, <2>3, ConcatProperties
    <3>2. Len(first) + Len(rest) = Len(d)
      BY <1>0, <2>2, <2>3
    <3>3. ASSUME NEW i \in 1..Len(d)
          PROVE  (first \o rest)[i] = d[i]
      <4>1. CASE i <= n
        BY <1>0, <2>2, <3>1, <3>2, <4>1
      <4>2. CASE ~(i <= n)
        <5>1. i - n \in 1..(Len(d) - n) /\ n + (i - n) = i
          BY <1>0, <4>2
        <5>2. rest[i - n] = d[i]
          BY <2>3, <5>1
        <5> QED
          BY <2>2, <3>1, <3>2, <4>2, <5>2
      <4> QED
        BY <4>1, <4>2
    <3> QED
      BY <1>0, <3>1, <3>2, <3>3, SeqEqual
  <2>5. /\ WellFormed(full)
        /\ Unread(full) = Unread(buf) \o first
        /\ Len(full.cells) = Len(buf.cells)
        /\ ReadableBytes(full) = ReadableBytes(buf) + n
    <3>1. first \in Seq(Byte) /\ Len(first) = n /\ n \in Nat
      BY <1>0, <2>2
    <3>2. Len(first) <= WriteableBytes(buf)
      BY <3>1
    <3>3. /\ WellFormed(full)
          /\ Unread(full) = Unread(buf) \o first
          /\ Len(full.cells) = Len(buf.cells)
          /\ ReadableBytes(full) = ReadableBytes(buf) + Len(first)
      BY <3>1, <3>2, WrittenAddsBlock
    <3> QED
      BY <3>1, <3>3
  <2> HIDE DEF full
  <2>6. Len(rest) <= MaxLen /\ ReadableBytes(full) + Len(rest) <= MaxReadable
    BY <1>0, <2>3, <2>5
  <2>7. /\ WellFormed(Appended(full, rest))
        /\ Unread(Appended(full, rest)) = Unread(full) \o rest
        /\ MayGrow(full, Appended(full, rest))
    BY <2>3, <2>5, <2>6, AppendStep
  <2>8. (Unread(buf) \o first) \o rest = Unread(buf) \o d
    <3>1. Unread(buf) \in Seq(Byte)
      BY UnreadIsSeq
    <3>2. (Unread(buf) \o first) \o rest = Unread(buf) \o (first \o rest)
      <4>1. first \in Seq(Byte)
        BY <2>2
      <4>2. rest \in Seq(Byte)
        BY <2>3
      <4> QED
        BY <3>1, <4>1, <4>2, ConcatAssociative
    <3> QED
      BY <2>4, <3>2
  <2> QED
    BY <2>1, <2>5, <2>7, <2>8 DEF MayGrow
<1> QED
  BY <1>1, <1>2

-----------------------------------------------------------------------------
(* TypeOK is a well-formed buffer and a sequence of bytes.                  *)
LEMMA TypeIsWellFormed == TypeOK <=> WellFormed(buf) /\ moved \in Seq(Byte)
BY DEF TypeOK, WellFormed

(* The first bytes of the unread ones are a sequence.                       *)
LEMMA PrefixIsSeq ==
  ASSUME NEW b, WellFormed(b), NEW n \in Nat, n <= ReadableBytes(b)
  PROVE  SubSeq(Unread(b), 1, n) \in Seq(Byte)
<1>1. \A i \in 1..n : Unread(b)[i] \in Byte
  BY Numbers, UnreadIsSeq, ElementOfSeq
<1> QED
  BY <1>1, SubSeqProperties

(* A new buffer is well-formed and empty (Buffer::Buffer).                  *)
LEMMA InitWellFormed ==
  ASSUME Init
  PROVE  /\ WellFormed(buf) /\ moved = <<>> /\ Unread(buf) = <<>>
         /\ Len(buf.cells) = kCheapPrepend + InitialSize
<1> DEFINE c == [i \in 1..(kCheapPrepend + InitialSize) |-> Zero]
<1>1. c \in Seq(Byte) /\ Len(c) = kCheapPrepend + InitialSize
  BY BufferAssumption, FunctionIsSeq
<1> HIDE DEF c
<1>2. buf = [cells |-> c, reader |-> kCheapPrepend, writer |-> kCheapPrepend] /\ moved = <<>>
  BY DEF Init, c
<1>3. WellFormed(buf)
  BY <1>1, <1>2, MakeBuffer, BufferAssumption
<1>4. ReadableBytes(buf) = 0
  BY <1>2, BufferAssumption DEF ReadableBytes
<1> QED
  BY <1>1, <1>2, <1>3, <1>4, UnreadIsSeq, EmptySeq

-----------------------------------------------------------------------------
(* What every step does to the buffer: it stays well-formed, it grows only  *)
(* within the bound, and what is unread and shown changes as ByteQueue says.*)
LEMMA StepIsSound ==
  ASSUME TypeOK, [Next]_vars
  PROVE  /\ WellFormed(buf') /\ moved' \in Seq(Byte)
         /\ MayGrow(buf, buf')
         /\ [BQ!Next]_BQ!vars
<1> DEFINE Sound == /\ WellFormed(buf') /\ moved' \in Seq(Byte)
                    /\ MayGrow(buf, buf')
                    /\ [BQ!Next]_BQ!vars
           R == ReadableBytes(buf)
<1>0. /\ WellFormed(buf) /\ moved \in Seq(Byte)
      /\ R \in Nat /\ Len(Unread(buf)) = R /\ MaxReadable \in Nat
  BY TypeIsWellFormed, Numbers, UnreadIsSeq, BufferAssumption
<1>1. ASSUME NEW d \in Data, WellFormed(buf'), Unread(buf') = Unread(buf) \o d,
             MayGrow(buf, buf'), moved' = d
      PROVE  Sound
  <2>1. BQ!Put(d)
    BY <1>1 DEF BQ!Put
  <2>2. moved' \in Seq(Byte)
    BY <1>1, DataIsSeq
  <2> QED
    BY <1>1, <2>1, <2>2 DEF BQ!Next
<1>2. ASSUME NEW n \in 0..R, WellFormed(buf'), buf'.cells = buf.cells,
             Unread(buf') = SubSeq(Unread(buf), n + 1, R),
             moved' = SubSeq(Unread(buf), 1, n)
      PROVE  Sound
  <2>1. moved' \in Seq(Byte)
    BY <1>0, <1>2, PrefixIsSeq
  <2>2. BQ!Take(n)
    BY <1>0, <1>2 DEF BQ!Take
  <2>3. n \in 0..Len(Unread(buf))
    BY <1>0
  <2> QED
    BY <1>2, <2>1, <2>2, <2>3 DEF BQ!Next, MayGrow
<1>3. ASSUME NEW d \in Data, AppendBytes(d)
      PROVE  Sound
  <2>1. d \in Seq(Byte) /\ Len(d) <= MaxLen /\ R + Len(d) <= MaxReadable
    BY <1>3, DataIsSeq, BufferAssumption DEF AppendBytes, Room
  <2>2. /\ WellFormed(Appended(buf, d))
        /\ Unread(Appended(buf, d)) = Unread(buf) \o d
        /\ MayGrow(buf, Appended(buf, d))
    BY <1>0, <2>1, AppendStep
  <2> QED
    BY <1>1, <1>3, <2>2 DEF AppendBytes
<1>4. ASSUME NEW d \in Data, ReadFd(d)
      PROVE  Sound
  <2>1. /\ WellFormed(buf') /\ Unread(buf') = Unread(buf) \o d
        /\ MayGrow(buf, buf') /\ moved' = d
    BY <1>0, <1>4, ReadFdStep DEF ReadFd
  <2> QED
    BY <1>1, <2>1
<1>5. ASSUME NEW len \in 0..(MaxReadable + 1), Retrieve(len)
      PROVE  Sound
  <2>1. len \in Nat
    BY <1>0
  <2>2. /\ buf' = Retrieved(buf, len)
        /\ moved' = SubSeq(Unread(buf), 1, IF len <= R THEN len ELSE R)
    BY <1>5 DEF Retrieve, FirstBytes
  <2> QED
    BY <1>0, <1>2, <2>1, <2>2, RetrievedDrops
<1>6. CASE RetrieveAll
  <2>1. R \in 0..R
    BY <1>0
  <2>2. buf' = Emptied(buf) /\ moved' = SubSeq(Unread(buf), 1, R)
    BY <1>6 DEF RetrieveAll, FirstBytes
  <2> QED
    BY <1>0, <1>2, <2>1, <2>2, EmptiedIsEmpty
<1>7. ASSUME NEW len \in 0..MaxReadable, RetriveAsString(len)
      PROVE  Sound
  <2>1. len \in 0..R /\ len \in Nat
    BY <1>0, <1>7 DEF RetriveAsString
  <2>2. buf' = Retrieved(buf, len) /\ moved' = SubSeq(Unread(buf), 1, len)
    BY <1>7 DEF RetriveAsString, FirstBytes
  <2>3. /\ WellFormed(Retrieved(buf, len)) /\ Retrieved(buf, len).cells = buf.cells
        /\ Unread(Retrieved(buf, len)) = SubSeq(Unread(buf), len + 1, R)
    <3>1. PICK n \in 0..R :
             /\ n = IF len <= R THEN len ELSE R
             /\ Unread(Retrieved(buf, len)) = SubSeq(Unread(buf), n + 1, R)
      BY <1>0, <2>1, RetrievedDrops
    <3>2. n = len
      BY <2>1, <3>1
    <3> QED
      BY <1>0, <2>1, <3>1, <3>2, RetrievedDrops
  <2> QED
    BY <1>2, <2>1, <2>2, <2>3
<1>8. ASSUME NEW n \in 0..MaxReadable, WriteFd(n)
      PROVE  Sound
  <2>1. n \in 0..R /\ n \in Nat
    BY <1>0, <1>8 DEF WriteFd
  <2>2. UNCHANGED buf /\ moved' = SubSeq(Unread(buf), 1, n)
    BY <1>8 DEF WriteFd, FirstBytes
  <2>3. moved' \in Seq(Byte)
    BY <1>0, <2>1, <2>2, PrefixIsSeq
  <2>4. BQ!Show(n)
    BY <2>2 DEF BQ!Show
  <2> QED
    BY <1>0, <2>1, <2>2, <2>3, <2>4 DEF BQ!Next, MayGrow
<1>9. CASE UNCHANGED vars
  BY <1>0, <1>9 DEF vars, BQ!vars, MayGrow
<1> QED
  BY <1>3, <1>4, <1>5, <1>6, <1>7, <1>8, <1>9 DEF Next

-----------------------------------------------------------------------------
(* The indices stay in order and inside the vector, the reserved bytes stay *)
(* reserved, through every operation (Buffer.hh, Buffer.cc).                *)
THEOREM BufferTypeCorrect == Spec => []TypeOK
<1>1. Init => TypeOK
  BY InitWellFormed, TypeIsWellFormed, EmptySeq
<1>2. TypeOK /\ [Next]_vars => TypeOK'
  BY StepIsSound DEF TypeOK, WellFormed
<1> QED
  BY <1>1, <1>2, PTL DEF Spec

(* A buffer whose users keep it under MaxReadable unread bytes never grows  *)
(* past that plus one block, however long it lives (Buffer::makeSpace).     *)
THEOREM BoundedGrowthHolds == Spec => []BoundedGrowth
<1>1. Init => BoundedGrowth
  BY InitWellFormed DEF BoundedGrowth
<1>2. TypeOK /\ BoundedGrowth /\ [Next]_vars => BoundedGrowth'
  BY StepIsSound DEF BoundedGrowth, MayGrow
<1> QED
  BY <1>1, <1>2, BufferTypeCorrect, PTL DEF Spec

(* Nothing is lost, duplicated, reordered or made up between the bytes that *)
(* go into a buffer and those that come out, whatever the vector, the spill *)
(* of readFd and the compaction do (Buffer.hh, Buffer.cc).                  *)
THEOREM BufferImplementsByteQueue == Spec => ImplementsByteQueue
<1>1. Init => BQ!Init
  BY InitWellFormed DEF BQ!Init
<1>2. TypeOK /\ [Next]_vars => [BQ!Next]_BQ!vars
  BY StepIsSound
<1> QED
  BY <1>1, <1>2, BufferTypeCorrect, PTL DEF Spec, ImplementsByteQueue, BQ!Spec
=============================================================================
