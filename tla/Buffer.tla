-------------------------------- MODULE Buffer --------------------------------
(****************************************************************************)
(* One Buffer (Buffer.hh, Buffer.cc): the vector buffer_ with the indices   *)
(* reader_index_ and writer_index_ into it.  TcpConnection has two, one it  *)
(* fills from the socket (readFd) and the user empties, one it fills with   *)
(* what the socket would not take (append) and empties into the socket      *)
(* (writeFd, then retrieve).                                                *)
(*                                                                          *)
(*      0 ... kCheapPrepend ... reader ... writer ... size                  *)
(*      |  reserved  |  already read | unread | writeable |                 *)
(*                                                                          *)
(* The hard part is where the bytes go when there is no room behind writer: *)
(* moved to the front, into a larger vector, or through the extra block on  *)
(* the stack that readFd reads into and appends afterwards.                 *)
(****************************************************************************)
EXTENDS Integers, Sequences

CONSTANTS Byte,
          Zero,           \* the byte that resize() fills with
          kCheapPrepend,  \* bytes reserved at the front
          InitialSize,    \* kInitialSize
          ExtraSize,      \* size of the extra block of readFd, 65536
          MaxLen,         \* BOUND: bytes per append and per readv
          MaxReadable     \* BOUND: unread bytes the users of a buffer let pile up

ASSUME BufferAssumption ==
          /\ Zero \in Byte
          /\ kCheapPrepend \in Nat
          /\ InitialSize \in Nat
          /\ ExtraSize \in Nat
          /\ MaxLen \in Nat
          /\ MaxReadable \in Nat

VARIABLES buf,    \* the object: buffer_ as cells, reader_index_, writer_index_
          moved   \* history: the block put in last, or the bytes shown or let go last

vars == <<buf, moved>>

Data == UNION {[1..n -> Byte] : n \in 1..MaxLen}

(* The types, and the order of the indices every pointer computation in the *)
(* class relies on; the reserved bytes stay reserved.                       *)
TypeOK ==
  /\ buf \in [cells : Seq(Byte), reader : Nat, writer : Nat]
  /\ kCheapPrepend <= buf.reader
  /\ buf.reader <= buf.writer
  /\ buf.writer <= Len(buf.cells)
  /\ moved \in Seq(Byte)

Init ==
  /\ buf = [cells |-> [i \in 1..(kCheapPrepend + InitialSize) |-> Zero],
            reader |-> kCheapPrepend, writer |-> kCheapPrepend]
  /\ moved = <<>>

-----------------------------------------------------------------------------
ReadableBytes(b) == b.writer - b.reader
WriteableBytes(b) == Len(b.cells) - b.writer
PrependableBytes(b) == b.reader

\* The unread bytes, from peek() on.
Unread(b) == [i \in 1..ReadableBytes(b) |-> b.cells[b.reader + i]]

\* std::copy of the block d to beginWrite(), and writer_index_ past it.
Written(b, d) ==
  [cells  |-> [i \in 1..Len(b.cells) |->
                 IF i \in (b.writer + 1)..(b.writer + Len(d))
                 THEN d[i - b.writer] ELSE b.cells[i]],
   reader |-> b.reader,
   writer |-> b.writer + Len(d)]

\* buffer_.resize(n)
Resized(b, n) ==
  [cells  |-> [i \in 1..n |-> IF i <= Len(b.cells) THEN b.cells[i] ELSE Zero],
   reader |-> b.reader,
   writer |-> b.writer]

\* The unread bytes moved to the front of the vector.
Compacted(b) ==
  [cells  |-> [i \in 1..Len(b.cells) |->
                 IF i \in (kCheapPrepend + 1)..(kCheapPrepend + ReadableBytes(b))
                 THEN b.cells[i - kCheapPrepend + b.reader] ELSE b.cells[i]],
   reader |-> kCheapPrepend,
   writer |-> kCheapPrepend + ReadableBytes(b)]

\* MUTANT: the room in front of the unread bytes is never used again.
MakeSpaceByGrowing(b, len) == Resized(b, b.writer + len)

\* MUTANT: the room in front counts in full, the reserved bytes with it.
MakeSpaceOverReserved(b, len) ==
  IF WriteableBytes(b) + PrependableBytes(b) < len
  THEN Resized(b, b.writer + len)
  ELSE Compacted(b)

MakeSpace(b, len) ==
  IF WriteableBytes(b) + PrependableBytes(b) - kCheapPrepend < len
  THEN Resized(b, b.writer + len)
  ELSE Compacted(b)

EnsureWriteableBytes(b, len) ==
  IF WriteableBytes(b) < len THEN MakeSpace(b, len) ELSE b

Appended(b, d) == Written(EnsureWriteableBytes(b, Len(d)), d)

Emptied(b) == [cells |-> b.cells, reader |-> kCheapPrepend, writer |-> kCheapPrepend]

\* MUTANT: retrieve trusts its argument.
RetrievedBlindly(b, len) ==
  [cells |-> b.cells, reader |-> b.reader + len, writer |-> b.writer]

Retrieved(b, len) ==
  IF len <= ReadableBytes(b)
  THEN [cells |-> b.cells, reader |-> b.reader + len, writer |-> b.writer]
  ELSE Emptied(b)

\* BOUND: the users keep the buffer under MaxReadable.
Room(d) == ReadableBytes(buf) + Len(d) <= MaxReadable

-----------------------------------------------------------------------------
AppendBytes(d) ==
  /\ Room(d)
  /\ buf' = Appended(buf, d)
  /\ moved' = d

\* The first n unread bytes.
FirstBytes(n) == SubSeq(Unread(buf), 1, n)

\* retrieve(len) of no more than there is, and of more, which lets go of all.
Retrieve(len) ==
  /\ buf' = Retrieved(buf, len)
  /\ moved' = FirstBytes(IF len <= ReadableBytes(buf) THEN len ELSE ReadableBytes(buf))

RetrieveAll ==
  /\ buf' = Emptied(buf)
  /\ moved' = FirstBytes(ReadableBytes(buf))

\* retriveAsString(len), which nobody asks for more than there is; with all, retriveAllAsString.
RetriveAsString(len) ==
  /\ len <= ReadableBytes(buf)
  /\ moved' = FirstBytes(len)
  /\ buf' = Retrieved(buf, len)

(* readFd, when readv delivers the block d: into the writeable bytes first, *)
(* the rest into the extra block.  readv is only given the extra block when *)
(* the writeable bytes are fewer than it holds.                             *)
Spilled(d) == Len(d) > WriteableBytes(buf)

ReadableAtOnce ==
  WriteableBytes(buf) + (IF WriteableBytes(buf) < ExtraSize THEN ExtraSize ELSE 0)

\* MUTANT: the writer stays in front of the bytes readv wrote when there is a spill.
ReadFdForgetsFirstBlock(d) ==
  /\ Room(d)
  /\ Len(d) <= ReadableAtOnce
  /\ buf' = IF Spilled(d) THEN Appended(buf, SubSeq(d, WriteableBytes(buf) + 1, Len(d)))
            ELSE Written(buf, d)
  /\ moved' = d

ReadFd(d) ==
  /\ Room(d)
  /\ Len(d) <= ReadableAtOnce
  /\ buf' = IF Spilled(d)
            THEN Appended(Written(buf, SubSeq(d, 1, WriteableBytes(buf))),
                          SubSeq(d, WriteableBytes(buf) + 1, Len(d)))
            ELSE Written(buf, d)
  /\ moved' = d

\* writeFd, when write takes n bytes; the caller retrieves them afterwards.
WriteFd(n) ==
  /\ n <= ReadableBytes(buf)
  /\ moved' = FirstBytes(n)
  /\ UNCHANGED buf

Next ==
  \/ \E d \in Data : AppendBytes(d) \/ ReadFd(d)
  \/ \E len \in 0..(MaxReadable + 1) : Retrieve(len)
  \/ RetrieveAll
  \/ \E len \in 0..MaxReadable : RetriveAsString(len) \/ WriteFd(len)

Spec == Init /\ [][Next]_vars

-----------------------------------------------------------------------------
(* A buffer whose users never let more than MaxReadable bytes pile up stays *)
(* below that plus one block, however long it is used: makeSpace grows the  *)
(* vector only when moving the unread bytes to the front would not do.      *)
BoundedGrowth ==
  \/ Len(buf.cells) = kCheapPrepend + InitialSize
  \/ Len(buf.cells) < kCheapPrepend + MaxReadable + MaxLen

(* The unread bytes are a first-in first-out queue, through compaction,     *)
(* growth and the extra block of readFd.                                    *)
BQ == INSTANCE ByteQueue WITH bytes <- Unread(buf)

ImplementsByteQueue == BQ!Spec
=============================================================================
