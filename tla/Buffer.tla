------------------------------- MODULE Buffer --------------------------------
(***************************************************************************)
(* Buffer (Buffer.h, Buffer.cc): a vector of bytes with a read and a write *)
(* index.  The indices count from 0 as in the code: the byte at index i of *)
(* the vector is buffer_[i + 1].                                           *)
(***************************************************************************)
EXTENDS Naturals, Sequences

CONSTANTS Bytes,
          Zero,            \* the byte resize() fills with
          kCheapPrepend,
          kInitialSize,
          ExtraSize,       \* sizeof(extrabuf) of readFd
          MaxChunk,        \* bound on the bytes appended at a time
          MaxReadable      \* bound on the bytes kept unread

ASSUME BufferAssumption ==
  /\ Zero \in Bytes
  /\ kCheapPrepend \in Nat
  /\ kInitialSize \in Nat
  /\ ExtraSize \in Nat
  /\ MaxChunk \in Nat
  /\ MaxReadable \in Nat

VARIABLES buffer_, readerIndex_, writerIndex_,
          moved            \* the bytes put in, or handed to a caller or the
                           \* kernel, last

vars == <<buffer_, readerIndex_, writerIndex_, moved>>

Chunks == UNION {[1 .. n -> Bytes] : n \in 0 .. MaxChunk}

-----------------------------------------------------------------------------
(***************************************************************************)
(* The member functions, on the state [buf, r, w] of a buffer.             *)
(***************************************************************************)
Readable(b) == b.w - b.r
Writable(b) == Len(b.buf) - b.w
Data(b) == SubSeq(b.buf, b.r + 1, b.w)

\* std::copy of data to index at.
Overwrite(buf, at, data) ==
  [i \in 1 .. Len(buf) |-> IF i \in at + 1 .. at + Len(data) THEN data[i - at]
                                                             ELSE buf[i]]

Resize(buf, n) == [i \in 1 .. n |-> IF i <= Len(buf) THEN buf[i] ELSE Zero]

\* Slips in the place of MakeSpace: the unread bytes are moved over the prepend
\* area without its size being counted, or never moved.
MakeSpaceForgetsPrepend(b, len) ==
  IF Writable(b) + b.r < len
    THEN [b EXCEPT !.buf = Resize(@, b.w + len)]
    ELSE [buf |-> Overwrite(b.buf, kCheapPrepend, Data(b)),
          r   |-> kCheapPrepend,
          w   |-> kCheapPrepend + Readable(b)]
MakeSpaceAlwaysGrows(b, len) == [b EXCEPT !.buf = Resize(@, b.w + len)]

MakeSpace(b, len) ==
  IF Writable(b) + b.r < len + kCheapPrepend
    THEN [b EXCEPT !.buf = Resize(@, b.w + len)]
    ELSE [buf |-> Overwrite(b.buf, kCheapPrepend, Data(b)),
          r   |-> kCheapPrepend,
          w   |-> kCheapPrepend + Readable(b)]

EnsureWritable(b, len) == IF Writable(b) < len THEN MakeSpace(b, len) ELSE b

\* The copy into the writable part, which has to be large enough.
Write(b, data) == [b EXCEPT !.buf = Overwrite(@, b.w, data),
                            !.w   = @ + Len(data)]

AppendTo(b, data) == Write(EnsureWritable(b, Len(data)), data)

RetrieveAll(b) == [b EXCEPT !.r = kCheapPrepend, !.w = kCheapPrepend]

Retrieve(b, len) ==
  IF len < Readable(b) THEN [b EXCEPT !.r = @ + len] ELSE RetrieveAll(b)

\* What readv can deliver: the writable part, and extrabuf behind it if that
\* part is the smaller.
ReadvLimit(b) == Writable(b) + (IF Writable(b) < ExtraSize THEN ExtraSize ELSE 0)

\* A slip in the place of Receive: extrabuf is appended at the old write index.
ReceiveOverFirst(b, data) ==
  IF Len(data) <= Writable(b)
    THEN Write(b, data)
    ELSE LET first == SubSeq(data, 1, Writable(b))
             rest  == SubSeq(data, Writable(b) + 1, Len(data))
         IN  AppendTo([Write(b, first) EXCEPT !.w = b.w], rest)

\* readFd once readv has delivered data.
Receive(b, data) ==
  IF Len(data) <= Writable(b)
    THEN Write(b, data)
    ELSE LET first == SubSeq(data, 1, Writable(b))
             rest  == SubSeq(data, Writable(b) + 1, Len(data))
         IN  AppendTo(Write(b, first), rest)

-----------------------------------------------------------------------------
Now == [buf |-> buffer_, r |-> readerIndex_, w |-> writerIndex_]

Become(b) == buffer_' = b.buf /\ readerIndex_' = b.r /\ writerIndex_' = b.w

Init ==
  /\ buffer_ = [i \in 1 .. kCheapPrepend + kInitialSize |-> Zero]
  /\ readerIndex_ = kCheapPrepend
  /\ writerIndex_ = kCheapPrepend
  /\ moved = <<>>

append(data) ==
  /\ Readable(Now) + Len(data) <= MaxReadable
  /\ Become(AppendTo(Now, data))
  /\ moved' = data

readFd(data) ==
  /\ Len(data) <= ReadvLimit(Now)
  /\ Readable(Now) + Len(data) <= MaxReadable
  /\ Become(Receive(Now, data))
  /\ moved' = data

\* The kernel takes n of the bytes from peek() on; the buffer is not changed.
writeFd(n) ==
  /\ n <= Readable(Now)
  /\ moved' = SubSeq(buffer_, readerIndex_ + 1, readerIndex_ + n)
  /\ UNCHANGED <<buffer_, readerIndex_, writerIndex_>>

\* retrieve takes any length; one beyond the readable bytes means all of them.
retrieve(len) ==
  /\ Become(Retrieve(Now, len))
  /\ UNCHANGED moved

\* retrieveAsString; retrieveAllAsString is the call with readableBytes(). The
\* code does not compare len with readableBytes(): that it is no longer is the
\* duty of the caller, and the only one, retrieveAllAsString, does it.
retrieveAsString(len) ==
  /\ len <= Readable(Now)
  /\ moved' = SubSeq(buffer_, readerIndex_ + 1, readerIndex_ + len)
  /\ Become(Retrieve(Now, len))

Next ==
  \/ \E data \in Chunks : append(data) \/ readFd(data)
  \/ \E n \in 0 .. MaxReadable + 1 :
       writeFd(n) \/ retrieve(n) \/ retrieveAsString(n)

Spec == Init /\ [][Next]_vars

-----------------------------------------------------------------------------
\* Types, and the order of the indices: every access the functions make is
\* inside the vector, and the prepend area stays free.
TypeOK ==
  /\ buffer_ \in Seq(Bytes)
  /\ readerIndex_ \in Nat /\ writerIndex_ \in Nat
  /\ kCheapPrepend <= readerIndex_
  /\ readerIndex_ <= writerIndex_
  /\ writerIndex_ <= Len(buffer_)
  /\ moved \in Seq(Bytes)

\* The buffer is a FIFO queue of bytes, wherever they lie in the vector.
Queue == INSTANCE ByteQueue WITH contents <- Data(Now)
IsByteQueue == Queue!QueueSpec

\* makeSpace reuses the space of what has been read: the vector stays within a
\* bound set by what was unread at any time, not by what has passed through.
LargerOf(m, n) == IF m >= n THEN m ELSE n
SizeIsBounded ==
  Len(buffer_) <= kCheapPrepend + LargerOf(kInitialSize, 2 * MaxReadable)

=============================================================================
