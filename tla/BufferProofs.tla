----------------------------- MODULE BufferProofs -----------------------------
(***************************************************************************)
(* Proofs about Buffer for any bytes, any sizes of the prepend area, the   *)
(* initial vector and extrabuf, and any bounds: its indices stay in order, *)
(* its vector stays bounded, and it is a FIFO queue of bytes.              *)
(***************************************************************************)
EXTENDS Buffer, SequenceTheorems, TLAPS

-----------------------------------------------------------------------------
(***************************************************************************)
(* Sequences.                                                              *)
(***************************************************************************)

\* A function on 1 .. n is a sequence of length n.
LEMMA FunctionIsSeq ==
  ASSUME NEW S, NEW n \in Nat, NEW f \in [1 .. n -> S]
  PROVE  f \in Seq(S) /\ Len(f) = n
OBVIOUS

\* The part of a sequence between two indices, from 0 as in the code.
LEMMA PartOfSeq ==
  ASSUME NEW S, NEW s \in Seq(S), NEW r \in Nat, NEW w \in Nat,
         r <= w, w <= Len(s)
  PROVE  /\ SubSeq(s, r + 1, w) \in Seq(S)
         /\ Len(SubSeq(s, r + 1, w)) = w - r
         /\ \A i \in 1 .. w - r : SubSeq(s, r + 1, w)[i] = s[r + i]
<1>1. Len(s) \in Nat /\ \A i \in 1 .. Len(s) : s[i] \in S
  OBVIOUS
<1>2. \A i \in r + 1 .. w : s[i] \in S
  BY <1>1
<1>3. /\ SubSeq(s, r + 1, w) \in Seq(S)
      /\ Len(SubSeq(s, r + 1, w))
           = IF r + 1 <= w THEN w - (r + 1) + 1 ELSE 0
      /\ \A i \in 1 .. w - (r + 1) + 1 :
           SubSeq(s, r + 1, w)[i] = s[(r + 1) + i - 1]
  BY <1>2, SubSeqProperties
<1> QED
  BY <1>3

\* Overwrite keeps the length and changes the part it is told to change.
LEMMA OverwriteProperties ==
  ASSUME NEW buf \in Seq(Bytes), NEW at \in Nat, NEW data \in Seq(Bytes)
  PROVE  /\ Overwrite(buf, at, data) \in Seq(Bytes)
         /\ Len(Overwrite(buf, at, data)) = Len(buf)
         /\ \A i \in 1 .. Len(buf) :
              Overwrite(buf, at, data)[i]
                = IF i \in at + 1 .. at + Len(data) THEN data[i - at]
                                                    ELSE buf[i]
<1> DEFINE o == Overwrite(buf, at, data)
<1>1. /\ Len(buf) \in Nat
      /\ Len(data) \in Nat
      /\ \A i \in 1 .. Len(buf) : buf[i] \in Bytes
      /\ \A i \in 1 .. Len(data) : data[i] \in Bytes
  OBVIOUS
<1>2. o \in [1 .. Len(buf) -> Bytes]
  BY <1>1 DEF Overwrite
<1>3. \A i \in 1 .. Len(buf) :
        o[i] = IF i \in at + 1 .. at + Len(data) THEN data[i - at] ELSE buf[i]
  BY DEF Overwrite
<1> HIDE DEF o
<1> QED
  BY <1>1, <1>2, <1>3, FunctionIsSeq DEF o

\* Resize keeps what was there.
LEMMA ResizeProperties ==
  ASSUME NEW buf \in Seq(Bytes), NEW n \in Nat
  PROVE  /\ Resize(buf, n) \in Seq(Bytes)
         /\ Len(Resize(buf, n)) = n
         /\ \A i \in 1 .. n :
              Resize(buf, n)[i] = IF i <= Len(buf) THEN buf[i] ELSE Zero
<1> DEFINE o == Resize(buf, n)
<1>1. /\ Len(buf) \in Nat
      /\ \A i \in 1 .. Len(buf) : buf[i] \in Bytes
  OBVIOUS
<1>2. o \in [1 .. n -> Bytes]
  BY <1>1, BufferAssumption DEF Resize
<1>3. \A i \in 1 .. n : o[i] = IF i <= Len(buf) THEN buf[i] ELSE Zero
  BY DEF Resize
<1> HIDE DEF o
<1> QED
  BY <1>2, <1>3, FunctionIsSeq DEF o

-----------------------------------------------------------------------------
(***************************************************************************)
(* The member functions on well-formed buffers.                            *)
(***************************************************************************)
WellFormed(b) ==
  /\ b \in [buf : Seq(Bytes), r : Nat, w : Nat]
  /\ kCheapPrepend <= b.r
  /\ b.r <= b.w
  /\ b.w <= Len(b.buf)

LEMMA DataProperties ==
  ASSUME NEW b, WellFormed(b)
  PROVE  /\ Data(b) \in Seq(Bytes)
         /\ Len(Data(b)) = Readable(b)
         /\ \A i \in 1 .. Readable(b) : Data(b)[i] = b.buf[b.r + i]
         /\ Readable(b) \in Nat
         /\ Writable(b) \in Nat
         /\ Len(b.buf) \in Nat
<1>1. /\ b.buf \in Seq(Bytes) /\ b.r \in Nat /\ b.w \in Nat
      /\ b.r <= b.w /\ b.w <= Len(b.buf)
      /\ Len(b.buf) \in Nat
  BY DEF WellFormed
<1>2. /\ Data(b) \in Seq(Bytes)
      /\ Len(Data(b)) = b.w - b.r
      /\ \A i \in 1 .. b.w - b.r : Data(b)[i] = b.buf[b.r + i]
  BY <1>1, PartOfSeq DEF Data
<1> QED
  BY <1>1, <1>2 DEF Readable, Writable

\* makeSpace: room for len bytes, and the unread bytes are what they were.
LEMMA MakeSpaceProperties ==
  ASSUME NEW b, WellFormed(b), NEW len \in Nat, Writable(b) < len
  PROVE  /\ WellFormed(MakeSpace(b, len))
         /\ Data(MakeSpace(b, len)) = Data(b)
         /\ Writable(MakeSpace(b, len)) >= len
<1>1. /\ b.buf \in Seq(Bytes) /\ b.r \in Nat /\ b.w \in Nat
      /\ kCheapPrepend \in Nat /\ kCheapPrepend <= b.r
      /\ b.r <= b.w /\ b.w <= Len(b.buf)
      /\ Len(b.buf) \in Nat
  BY BufferAssumption DEF WellFormed
<1>2. /\ Data(b) \in Seq(Bytes)
      /\ Len(Data(b)) = Readable(b)
      /\ \A i \in 1 .. Readable(b) : Data(b)[i] = b.buf[b.r + i]
      /\ Readable(b) \in Nat
  BY DataProperties
<1>3. CASE Writable(b) + b.r < len + kCheapPrepend
  <2> DEFINE o == [b EXCEPT !.buf = Resize(@, b.w + len)]
  <2>1. /\ Resize(b.buf, b.w + len) \in Seq(Bytes)
        /\ Len(Resize(b.buf, b.w + len)) = b.w + len
        /\ \A i \in 1 .. b.w + len :
             Resize(b.buf, b.w + len)[i]
               = IF i <= Len(b.buf) THEN b.buf[i] ELSE Zero
    <3>1. b.w + len \in Nat
      BY <1>1
    <3> QED
      BY <1>1, <3>1, ResizeProperties
  <2>2. /\ o \in [buf : Seq(Bytes), r : Nat, w : Nat]
        /\ o.buf = Resize(b.buf, b.w + len)
        /\ o.r = b.r
        /\ o.w = b.w
    BY <2>1 DEF WellFormed
  <2> HIDE DEF o
  <2>3. WellFormed(o)
    BY <1>1, <2>1, <2>2 DEF WellFormed
  <2>4. /\ Data(o) \in Seq(Bytes)
        /\ Len(Data(o)) = Readable(o)
        /\ \A i \in 1 .. Readable(o) : Data(o)[i] = o.buf[o.r + i]
    BY <2>3, DataProperties
  <2>5. Readable(o) = Readable(b) /\ Writable(o) = len
    BY <1>1, <2>1, <2>2 DEF Readable, Writable
  <2>6. \A i \in 1 .. Readable(b) : Data(o)[i] = Data(b)[i]
    <3> TAKE i \in 1 .. Readable(b)
    <3>1. b.r + i \in 1 .. Len(b.buf) /\ b.r + i \in 1 .. b.w + len
      BY <1>1 DEF Readable
    <3>2. o.buf[o.r + i] = b.buf[b.r + i]
      BY <3>1, <1>1, <2>1, <2>2
    <3> QED
      BY <3>2, <1>2, <2>4, <2>5
  <2>7. Data(o) = Data(b)
    BY <1>2, <2>4, <2>5, <2>6, SeqEqual
  <2>8. MakeSpace(b, len) = o
    BY <1>3 DEF MakeSpace, o
  <2> QED
    BY <1>1, <2>3, <2>5, <2>7, <2>8
<1>4. CASE ~(Writable(b) + b.r < len + kCheapPrepend)
  <2> DEFINE buf == Overwrite(b.buf, kCheapPrepend, Data(b))
             o == [buf |-> buf, r |-> kCheapPrepend,
                   w |-> kCheapPrepend + Readable(b)]
  <2>1. /\ buf \in Seq(Bytes)
        /\ Len(buf) = Len(b.buf)
        /\ \A i \in 1 .. Len(b.buf) :
             buf[i] = IF i \in kCheapPrepend + 1 .. kCheapPrepend + Len(Data(b))
                        THEN Data(b)[i - kCheapPrepend] ELSE b.buf[i]
    BY <1>1, <1>2, OverwriteProperties
  <2>2. /\ o \in [buf : Seq(Bytes), r : Nat, w : Nat]
        /\ o.buf = buf
        /\ o.r = kCheapPrepend
        /\ o.w = kCheapPrepend + Readable(b)
    BY <1>1, <1>2, <2>1
  <2> HIDE DEF o, buf
  <2>3. WellFormed(o)
    BY <1>1, <1>2, <2>1, <2>2 DEF WellFormed, Readable
  <2>4. /\ Data(o) \in Seq(Bytes)
        /\ Len(Data(o)) = Readable(o)
        /\ \A i \in 1 .. Readable(o) : Data(o)[i] = o.buf[o.r + i]
    BY <2>3, DataProperties
  <2>5. Readable(o) = Readable(b)
    BY <1>1, <1>2, <2>2 DEF Readable
  <2>6. Writable(o) >= len
    <3>1. Writable(o) = Len(b.buf) - (kCheapPrepend + (b.w - b.r))
      BY <2>1, <2>2 DEF Readable, Writable
    <3>2. ~(Len(b.buf) - b.w + b.r < len + kCheapPrepend)
      BY <1>4 DEF Writable
    <3> QED
      BY <1>1, <3>1, <3>2
  <2>7. \A i \in 1 .. Readable(b) : Data(o)[i] = Data(b)[i]
    <3> TAKE i \in 1 .. Readable(b)
    <3>1. kCheapPrepend + i \in 1 .. Len(b.buf)
      BY <1>1 DEF Readable
    <3>2. kCheapPrepend + i \in kCheapPrepend + 1 .. kCheapPrepend + Len(Data(b))
      BY <1>1, <1>2
    <3>3. buf[kCheapPrepend + i] = Data(b)[(kCheapPrepend + i) - kCheapPrepend]
      BY <3>1, <3>2, <2>1
    <3>4. (kCheapPrepend + i) - kCheapPrepend = i
      BY <1>1
    <3> QED
      BY <3>3, <3>4, <2>2, <2>4, <2>5
  <2>8. Data(o) = Data(b)
    BY <1>2, <2>4, <2>5, <2>7, SeqEqual
  <2>9. MakeSpace(b, len) = o
    BY <1>4 DEF MakeSpace, o, buf
  <2> QED
    BY <2>3, <2>6, <2>8, <2>9
<1> QED
  BY <1>3, <1>4

\* The copy into a writable part that is large enough appends to the data.
LEMMA WriteProperties ==
  ASSUME NEW b, WellFormed(b), NEW data \in Seq(Bytes),
         Len(data) <= Writable(b)
  PROVE  /\ WellFormed(Write(b, data))
         /\ Data(Write(b, data)) = Data(b) \o data
         /\ Len(Write(b, data).buf) = Len(b.buf)
         /\ Write(b, data).r = b.r
         /\ Write(b, data).w = b.w + Len(data)
<1> DEFINE buf == Overwrite(b.buf, b.w, data)
           o == Write(b, data)
<1>1. /\ b.buf \in Seq(Bytes) /\ b.r \in Nat /\ b.w \in Nat
      /\ kCheapPrepend \in Nat /\ kCheapPrepend <= b.r
      /\ b.r <= b.w /\ b.w <= Len(b.buf)
      /\ Len(b.buf) \in Nat
      /\ Len(data) \in Nat
      /\ b.w + Len(data) <= Len(b.buf)
  BY BufferAssumption DEF WellFormed, Writable
<1>2. /\ Data(b) \in Seq(Bytes)
      /\ Len(Data(b)) = Readable(b)
      /\ \A i \in 1 .. Readable(b) : Data(b)[i] = b.buf[b.r + i]
      /\ Readable(b) \in Nat
  BY DataProperties
<1>3. /\ buf \in Seq(Bytes)
      /\ Len(buf) = Len(b.buf)
      /\ \A i \in 1 .. Len(b.buf) :
           buf[i] = IF i \in b.w + 1 .. b.w + Len(data)
                      THEN data[i - b.w] ELSE b.buf[i]
  BY <1>1, OverwriteProperties
<1> HIDE DEF buf
<1>4. /\ o \in [buf : Seq(Bytes), r : Nat, w : Nat]
      /\ o.buf = buf
      /\ o.r = b.r
      /\ o.w = b.w + Len(data)
  <2>1. o = [b EXCEPT !.buf = buf, !.w = b.w + Len(data)]
    BY DEF Write, buf
  <2>2. b \in [buf : Seq(Bytes), r : Nat, w : Nat]
    BY DEF WellFormed
  <2>3. b.w + Len(data) \in Nat
    BY <1>1
  <2> HIDE DEF o
  <2> QED
    BY <2>1, <2>2, <2>3, <1>3
<1> HIDE DEF o
<1>5. WellFormed(o)
  BY <1>1, <1>3, <1>4 DEF WellFormed
<1>6. /\ Data(o) \in Seq(Bytes)
      /\ Len(Data(o)) = Readable(o)
      /\ \A i \in 1 .. Readable(o) : Data(o)[i] = o.buf[o.r + i]
  BY <1>5, DataProperties
<1>7. Readable(o) = Readable(b) + Len(data)
  BY <1>1, <1>4 DEF Readable
<1>8. /\ Data(b) \o data \in Seq(Bytes)
      /\ Len(Data(b) \o data) = Readable(b) + Len(data)
      /\ \A i \in 1 .. Readable(b) + Len(data) :
           (Data(b) \o data)[i]
             = IF i <= Readable(b) THEN Data(b)[i] ELSE data[i - Readable(b)]
  <2>1. /\ Data(b) \o data \in Seq(Bytes)
        /\ Len(Data(b) \o data) = Len(Data(b)) + Len(data)
        /\ \A i \in 1 .. Len(Data(b)) + Len(data) :
             (Data(b) \o data)[i]
               = IF i <= Len(Data(b)) THEN Data(b)[i]
                                      ELSE data[i - Len(Data(b))]
    BY <1>2, ConcatProperties
  <2>2. Len(Data(b)) = Readable(b)
    BY <1>2
  <2> QED
    BY <2>1, <2>2
<1>9. \A i \in 1 .. Readable(b) + Len(data) : Data(o)[i] = (Data(b) \o data)[i]
  <2> TAKE i \in 1 .. Readable(b) + Len(data)
  <2>1. /\ b.r + i \in 1 .. Len(b.buf)
        /\ Data(o)[i] = buf[b.r + i]
    <3>1. b.r + i \in 1 .. Len(b.buf)
      BY <1>1 DEF Readable
    <3>2. i \in 1 .. Readable(o)
      BY <1>7
    <3> QED
      BY <1>4, <1>6, <3>1, <3>2
  <2>2. CASE i <= Readable(b)
    <3>1. b.r + i \notin b.w + 1 .. b.w + Len(data) /\ i \in 1 .. Readable(b)
      BY <1>1, <1>2, <2>2 DEF Readable
    <3> QED
      BY <1>2, <1>3, <1>8, <2>1, <2>2, <3>1
  <2>3. CASE ~(i <= Readable(b))
    <3>1. /\ b.r + i \in b.w + 1 .. b.w + Len(data)
          /\ (b.r + i) - b.w = i - Readable(b)
      BY <1>1, <1>2, <2>3 DEF Readable
    <3> QED
      BY <1>3, <1>8, <2>1, <2>3, <3>1
  <2> QED
    BY <2>2, <2>3
<1>10. Data(o) = Data(b) \o data
  BY <1>2, <1>6, <1>7, <1>8, <1>9, SeqEqual
<1> QED
  BY <1>3, <1>4, <1>5, <1>10 DEF o

\* ensureWritableBytes: as makeSpace, whether space has to be made or not.
LEMMA EnsureWritableProperties ==
  ASSUME NEW b, WellFormed(b), NEW len \in Nat
  PROVE  /\ WellFormed(EnsureWritable(b, len))
         /\ Data(EnsureWritable(b, len)) = Data(b)
         /\ Writable(EnsureWritable(b, len)) >= len
<1>1. CASE Writable(b) < len
  BY <1>1, MakeSpaceProperties DEF EnsureWritable
<1>2. CASE ~(Writable(b) < len)
  BY <1>2, DataProperties DEF EnsureWritable
<1> QED
  BY <1>1, <1>2

\* append appends.
LEMMA AppendToProperties ==
  ASSUME NEW b, WellFormed(b), NEW data \in Seq(Bytes)
  PROVE  /\ WellFormed(AppendTo(b, data))
         /\ Data(AppendTo(b, data)) = Data(b) \o data
<1>1. PICK e : e = EnsureWritable(b, Len(data))
  OBVIOUS
<1>2. Len(data) \in Nat
  OBVIOUS
<1>3. WellFormed(e) /\ Data(e) = Data(b) /\ Writable(e) >= Len(data)
  BY <1>1, <1>2, EnsureWritableProperties
<1>4. Writable(e) \in Nat
  BY <1>3, DataProperties
<1>5. Len(data) <= Writable(e)
  BY <1>2, <1>3, <1>4
<1>6. /\ WellFormed(Write(e, data))
      /\ Data(Write(e, data)) = Data(e) \o data
  BY <1>3, <1>5, WriteProperties
<1> QED
  BY <1>1, <1>3, <1>6 DEF AppendTo

\* readFd appends what readv delivered, from whichever of the two areas.
LEMMA ReceiveProperties ==
  ASSUME NEW b, WellFormed(b), NEW data \in Seq(Bytes)
  PROVE  /\ WellFormed(Receive(b, data))
         /\ Data(Receive(b, data)) = Data(b) \o data
<1>1. CASE Len(data) <= Writable(b)
  BY <1>1, WriteProperties DEF Receive
<1>2. CASE ~(Len(data) <= Writable(b))
  <2>1. PICK n : n = Writable(b)
    OBVIOUS
  <2>2. PICK first : first = SubSeq(data, 1, n)
    OBVIOUS
  <2>3. PICK rest : rest = SubSeq(data, n + 1, Len(data))
    OBVIOUS
  <2>4. PICK full : full = Write(b, first)
    OBVIOUS
  <2>5. PICK old : old = Data(b)
    OBVIOUS
  <2>6. n \in Nat /\ n <= Len(data) /\ Len(data) \in Nat /\ old \in Seq(Bytes)
    BY <1>2, <2>1, <2>5, DataProperties
  <2>7. first \in Seq(Bytes) /\ Len(first) = n
    <3>1. 0 + 1 = 1 /\ 0 \in Nat /\ 0 <= n /\ n - 0 = n
      BY <2>6
    <3> QED
      BY <2>2, <2>6, <3>1, PartOfSeq
  <2>8. rest \in Seq(Bytes)
    BY <2>3, <2>6, PartOfSeq
  <2>9. first \o rest = data
    <3>1. /\ 1 \in 1 .. Len(data) + 1
          /\ n \in 1 - 1 .. Len(data)
          /\ Len(data) \in n .. Len(data)
      BY <2>6
    <3>2. first \o rest = SubSeq(data, 1, Len(data))
      BY <2>2, <2>3, <3>1, ConcatAdjacentSubSeq
    <3> QED
      BY <3>2, SubSeqFull
  <2>10. WellFormed(full) /\ Data(full) = old \o first
    <3>1. first \in Seq(Bytes) /\ Len(first) <= Writable(b)
      BY <2>1, <2>6, <2>7
    <3>2. Data(Write(b, first)) = Data(b) \o first /\ WellFormed(Write(b, first))
      BY <3>1, WriteProperties
    <3> QED
      BY <2>4, <2>5, <3>2
  <2>11. /\ WellFormed(AppendTo(full, rest))
         /\ Data(AppendTo(full, rest)) = Data(full) \o rest
    BY <2>8, <2>10, AppendToProperties
  <2>12. (old \o first) \o rest = old \o data
    <3>1. (old \o first) \o rest = old \o (first \o rest)
      BY <2>6, <2>7, <2>8
    <3> QED
      BY <2>9, <3>1
  <2>13. Receive(b, data) = AppendTo(full, rest)
    BY <1>2, <2>1, <2>2, <2>3, <2>4 DEF Receive
  <2> QED
    BY <2>5, <2>10, <2>11, <2>12, <2>13
<1> QED
  BY <1>1, <1>2

\* retrieve drops the first len bytes, or all of them.
LEMMA RetrieveProperties ==
  ASSUME NEW b, WellFormed(b), NEW len \in Nat
  PROVE  /\ WellFormed(Retrieve(b, len))
         /\ len <= Readable(b) =>
              Data(Retrieve(b, len)) = SubSeq(Data(b), len + 1, Len(Data(b)))
         /\ Readable(b) < len => Data(Retrieve(b, len)) = <<>>
<1>1. /\ b.buf \in Seq(Bytes) /\ b.r \in Nat /\ b.w \in Nat
      /\ kCheapPrepend \in Nat /\ kCheapPrepend <= b.r
      /\ b.r <= b.w /\ b.w <= Len(b.buf)
      /\ Len(b.buf) \in Nat
  BY BufferAssumption DEF WellFormed
<1>2. /\ Data(b) \in Seq(Bytes)
      /\ Len(Data(b)) = Readable(b)
      /\ \A i \in 1 .. Readable(b) : Data(b)[i] = b.buf[b.r + i]
      /\ Readable(b) \in Nat
  BY DataProperties
<1>3. CASE len < Readable(b)
  <2> DEFINE o == [b EXCEPT !.r = @ + len]
             rest == SubSeq(Data(b), len + 1, Len(Data(b)))
  <2>1. /\ o \in [buf : Seq(Bytes), r : Nat, w : Nat]
        /\ o.buf = b.buf /\ o.r = b.r + len /\ o.w = b.w
    BY <1>1 DEF WellFormed
  <2> HIDE DEF o
  <2>2. WellFormed(o)
    BY <1>1, <1>3, <2>1 DEF WellFormed, Readable
  <2>3. /\ Data(o) \in Seq(Bytes)
        /\ Len(Data(o)) = Readable(o)
        /\ \A i \in 1 .. Readable(o) : Data(o)[i] = o.buf[o.r + i]
    BY <2>2, DataProperties
  <2>4. Readable(o) = Readable(b) - len
    BY <1>1, <2>1 DEF Readable
  <2>5. /\ rest \in Seq(Bytes)
        /\ Len(rest) = Readable(b) - len
        /\ \A i \in 1 .. Readable(b) - len : rest[i] = Data(b)[len + i]
    BY <1>2, <1>3, PartOfSeq
  <2> HIDE DEF rest
  <2>6. \A i \in 1 .. Readable(b) - len : Data(o)[i] = rest[i]
    <3> TAKE i \in 1 .. Readable(b) - len
    <3>1. len + i \in 1 .. Readable(b) /\ (b.r + len) + i = b.r + (len + i)
      BY <1>1, <1>2
    <3> QED
      BY <1>2, <2>1, <2>3, <2>4, <2>5, <3>1
  <2>7. Data(o) = rest
    BY <2>3, <2>4, <2>5, <2>6, SeqEqual
  <2>8. Retrieve(b, len) = o
    BY <1>3 DEF Retrieve, o
  <2>9. ~(Readable(b) < len)
    BY <1>2, <1>3
  <2> QED
    BY <2>2, <2>7, <2>8, <2>9 DEF rest
<1>4. CASE ~(len < Readable(b))
  <2> DEFINE o == RetrieveAll(b)
  <2>1. /\ o \in [buf : Seq(Bytes), r : Nat, w : Nat]
        /\ o.buf = b.buf /\ o.r = kCheapPrepend /\ o.w = kCheapPrepend
    BY <1>1 DEF WellFormed, RetrieveAll
  <2>2. WellFormed(o)
    BY <1>1, <2>1 DEF WellFormed
  <2>3. Data(o) = <<>>
    BY <1>1, <2>1, SubSeqEmpty DEF Data
  <2>4. len <= Readable(b) => SubSeq(Data(b), len + 1, Len(Data(b))) = <<>>
    BY <1>2, <1>4, SubSeqEmpty
  <2> QED
    BY <1>4, <2>2, <2>3, <2>4 DEF Retrieve
<1> QED
  BY <1>3, <1>4

-----------------------------------------------------------------------------
(***************************************************************************)
(* The size of the vector.                                                 *)
(***************************************************************************)

\* The vector grows to less than a bound set by what is unread and what comes.
LEMMA EnsureWritableSize ==
  ASSUME NEW b, WellFormed(b), NEW len \in Nat
  PROVE  \/ Len(EnsureWritable(b, len).buf) = Len(b.buf)
         \/ Len(EnsureWritable(b, len).buf) < kCheapPrepend + Readable(b) + 2 * len
<1>1. /\ b.buf \in Seq(Bytes) /\ b.r \in Nat /\ b.w \in Nat
      /\ kCheapPrepend \in Nat /\ Len(b.buf) \in Nat /\ b.w <= Len(b.buf)
      /\ b \in [buf : Seq(Bytes), r : Nat, w : Nat]
  BY BufferAssumption DEF WellFormed
<1>2. CASE ~(Writable(b) < len)
  BY <1>2 DEF EnsureWritable
<1>3. CASE Writable(b) < len /\ Writable(b) + b.r < len + kCheapPrepend
  <2>1. Len(Resize(b.buf, b.w + len)) = b.w + len
    <3>1. b.w + len \in Nat
      BY <1>1
    <3> QED
      BY <1>1, <3>1, ResizeProperties
  <2>2. EnsureWritable(b, len) = [b EXCEPT !.buf = Resize(@, b.w + len)]
    BY <1>3 DEF EnsureWritable, MakeSpace
  <2>3. EnsureWritable(b, len).buf = Resize(b.buf, b.w + len)
    BY <1>1, <2>2
  <2>4. b.w + len < kCheapPrepend + (b.w - b.r) + 2 * len
    BY <1>1, <1>3 DEF Writable
  <2> QED
    BY <2>1, <2>3, <2>4 DEF Readable
<1>4. CASE Writable(b) < len /\ ~(Writable(b) + b.r < len + kCheapPrepend)
  <2>1. Len(Overwrite(b.buf, kCheapPrepend, Data(b))) = Len(b.buf)
    BY <1>1, DataProperties, OverwriteProperties
  <2>2. EnsureWritable(b, len).buf = Overwrite(b.buf, kCheapPrepend, Data(b))
    BY <1>4 DEF EnsureWritable, MakeSpace
  <2> QED
    BY <2>1, <2>2
<1> QED
  BY <1>2, <1>3, <1>4

LEMMA AppendToSize ==
  ASSUME NEW b, WellFormed(b), NEW data \in Seq(Bytes)
  PROVE  \/ Len(AppendTo(b, data).buf) = Len(b.buf)
         \/ Len(AppendTo(b, data).buf)
              < kCheapPrepend + Readable(b) + 2 * Len(data)
<1>1. PICK e : e = EnsureWritable(b, Len(data))
  OBVIOUS
<1>2. Len(data) \in Nat
  OBVIOUS
<1>3. WellFormed(e) /\ Writable(e) >= Len(data)
  BY <1>1, <1>2, EnsureWritableProperties
<1>4. Writable(e) \in Nat
  BY <1>3, DataProperties
<1>5. Len(data) <= Writable(e)
  BY <1>2, <1>3, <1>4
<1>6. Len(Write(e, data).buf) = Len(e.buf)
  BY <1>3, <1>5, WriteProperties
<1>7. \/ Len(e.buf) = Len(b.buf)
      \/ Len(e.buf) < kCheapPrepend + Readable(b) + 2 * Len(data)
  BY <1>1, <1>2, EnsureWritableSize
<1> QED
  BY <1>1, <1>6, <1>7 DEF AppendTo

LEMMA ReceiveSize ==
  ASSUME NEW b, WellFormed(b), NEW data \in Seq(Bytes)
  PROVE  \/ Len(Receive(b, data).buf) = Len(b.buf)
         \/ Len(Receive(b, data).buf)
              < kCheapPrepend + Readable(b) + 2 * Len(data)
<1>1. CASE Len(data) <= Writable(b)
  BY <1>1, WriteProperties DEF Receive
<1>2. CASE ~(Len(data) <= Writable(b))
  <2>1. PICK n : n = Writable(b)
    OBVIOUS
  <2>2. PICK first : first = SubSeq(data, 1, n)
    OBVIOUS
  <2>3. PICK rest : rest = SubSeq(data, n + 1, Len(data))
    OBVIOUS
  <2>4. PICK full : full = Write(b, first)
    OBVIOUS
  <2>5. /\ n \in Nat /\ n <= Len(data) /\ Len(data) \in Nat
        /\ Readable(b) \in Nat /\ kCheapPrepend \in Nat
    BY <1>2, <2>1, DataProperties, BufferAssumption
  <2>6. first \in Seq(Bytes) /\ Len(first) = n
    <3>1. 0 + 1 = 1 /\ 0 \in Nat /\ 0 <= n /\ n - 0 = n
      BY <2>5
    <3> QED
      BY <2>2, <2>5, <3>1, PartOfSeq
  <2>7. rest \in Seq(Bytes) /\ Len(rest) = Len(data) - n
    BY <2>3, <2>5, PartOfSeq
  <2>8. /\ WellFormed(full)
        /\ Len(full.buf) = Len(b.buf)
        /\ full.r = b.r
        /\ full.w = b.w + n
    <3>1. Len(first) <= Writable(b)
      BY <2>1, <2>5, <2>6
    <3> QED
      BY <2>4, <2>6, <3>1, WriteProperties
  <2>9. Readable(full) = Readable(b) + n
    <3>1. b.r \in Nat /\ b.w \in Nat
      BY DEF WellFormed
    <3> QED
      BY <2>5, <2>8, <3>1 DEF Readable
  <2>10. \/ Len(AppendTo(full, rest).buf) = Len(full.buf)
         \/ Len(AppendTo(full, rest).buf)
              < kCheapPrepend + Readable(full) + 2 * Len(rest)
    BY <2>7, <2>8, AppendToSize
  <2>11. /\ WellFormed(AppendTo(full, rest))
         /\ Len(AppendTo(full, rest).buf) \in Nat
    BY <2>7, <2>8, AppendToProperties, DataProperties
  <2>12. Receive(b, data) = AppendTo(full, rest)
    BY <1>2, <2>1, <2>2, <2>3, <2>4 DEF Receive
  <2>13. CASE Len(AppendTo(full, rest).buf) = Len(full.buf)
    BY <2>8, <2>12, <2>13
  <2>14. CASE Len(AppendTo(full, rest).buf)
                < kCheapPrepend + Readable(full) + 2 * Len(rest)
    <3>1. kCheapPrepend + (Readable(b) + n) + 2 * (Len(data) - n)
            <= kCheapPrepend + Readable(b) + 2 * Len(data)
      BY <2>5
    <3> QED
      BY <2>5, <2>7, <2>9, <2>11, <2>12, <2>14, <3>1
  <2> QED
    BY <2>10, <2>13, <2>14
<1> QED
  BY <1>1, <1>2

LEMMA RetrieveSize ==
  ASSUME NEW b, WellFormed(b), NEW len \in Nat
  PROVE  Retrieve(b, len).buf = b.buf
<1>1. b \in [buf : Seq(Bytes), r : Nat, w : Nat]
  BY DEF WellFormed
<1> QED
  BY <1>1 DEF Retrieve, RetrieveAll

-----------------------------------------------------------------------------
(***************************************************************************)
(* The specification.  The indices are in order in every state; with the   *)
(* bound on what is unread, so is the size of the vector.                  *)
(***************************************************************************)
IInv ==
  /\ WellFormed(Now)
  /\ moved \in Seq(Bytes)
  /\ Readable(Now) <= MaxReadable
  /\ SizeIsBounded

\* The invariant and the queue in terms of the variables.
LEMMA NowProperties ==
  /\ WellFormed(Now) <=> /\ buffer_ \in Seq(Bytes)
                         /\ readerIndex_ \in Nat /\ writerIndex_ \in Nat
                         /\ kCheapPrepend <= readerIndex_
                         /\ readerIndex_ <= writerIndex_
                         /\ writerIndex_ <= Len(buffer_)
  /\ Now.buf = buffer_ /\ Now.r = readerIndex_ /\ Now.w = writerIndex_
BY DEF WellFormed, Now

\* The next state is the buffer a member function leaves behind.
LEMMA BecomeProperties ==
  ASSUME NEW b, WellFormed(b), Become(b)
  PROVE  /\ WellFormed(Now)'
         /\ Data(Now)' = Data(b)
         /\ Readable(Now)' = Readable(b)
         /\ Len(buffer_)' = Len(b.buf)
<1>1. b \in [buf : Seq(Bytes), r : Nat, w : Nat]
  BY DEF WellFormed
<1>2. Now' = b
  BY <1>1 DEF Become, Now
<1> QED
  BY <1>2 DEF WellFormed, Data, Readable, Now

\* What each step does to the unread bytes, and that it keeps the invariant.
LEMMA StepProperties ==
  ASSUME IInv, [Next]_vars
  PROVE  IInv' /\ [Queue!QueueNext]_<<Data(Now), moved>>
<1>1. /\ WellFormed(Now) /\ moved \in Seq(Bytes)
      /\ Readable(Now) <= MaxReadable
      /\ Readable(Now) \in Nat /\ Data(Now) \in Seq(Bytes)
      /\ Len(Data(Now)) = Readable(Now)
      /\ kCheapPrepend \in Nat /\ MaxReadable \in Nat /\ kInitialSize \in Nat
      /\ Len(buffer_) \in Nat
  BY DataProperties, NowProperties, BufferAssumption DEF IInv
<1>2. Len(buffer_) <= kCheapPrepend + LargerOf(kInitialSize, 2 * MaxReadable)
  BY DEF IInv, SizeIsBounded
<1>3. Chunks \subseteq Seq(Bytes)
  BY BufferAssumption DEF Chunks
<1>4. ASSUME NEW b, WellFormed(b), Become(b), Readable(b) <= MaxReadable,
             moved' \in Seq(Bytes),
             \/ Len(b.buf) = Len(buffer_)
             \/ Len(b.buf) < kCheapPrepend + 2 * MaxReadable
      PROVE  IInv'
  <2>1. /\ WellFormed(Now)' /\ Readable(Now)' = Readable(b)
        /\ Len(buffer_)' = Len(b.buf)
    BY <1>4, BecomeProperties
  <2>2. Len(b.buf) \in Nat
    BY <1>4, DataProperties
  <2>3. Len(b.buf) <= kCheapPrepend + LargerOf(kInitialSize, 2 * MaxReadable)
    BY <1>1, <1>2, <1>4, <2>2 DEF LargerOf
  <2> QED
    BY <1>4, <2>1, <2>3 DEF IInv, SizeIsBounded
<1>5. ASSUME NEW b, NEW data \in Chunks,
             WellFormed(b), Become(b), Data(b) = Data(Now) \o data,
             Readable(Now) + Len(data) <= MaxReadable, moved' = data,
             \/ Len(b.buf) = Len(Now.buf)
             \/ Len(b.buf) < kCheapPrepend + Readable(Now) + 2 * Len(data)
      PROVE  IInv' /\ Queue!QueueNext
  <2>1. data \in Seq(Bytes) /\ Len(data) \in Nat
    BY <1>3
  <2>2. Len(Data(Now) \o data) = Readable(Now) + Len(data)
    BY <1>1, <2>1, ConcatProperties
  <2>3. Readable(b) = Readable(Now) + Len(data) /\ Len(b.buf) \in Nat
    BY <1>5, <2>2, DataProperties
  <2>4. \/ Len(b.buf) = Len(buffer_)
        \/ Len(b.buf) < kCheapPrepend + 2 * MaxReadable
    BY <1>1, <1>5, <2>1, <2>3, NowProperties
  <2>5. IInv'
    BY <1>1, <1>4, <1>5, <2>1, <2>3, <2>4
  <2>6. Queue!Put(data)
    <3>1. Data(Now)' = Data(Now) \o data
      BY <1>5, BecomeProperties
    <3> QED
      BY <1>5, <3>1 DEF Queue!Put
  <2>7. data \in Queue!Chunks
    BY <1>5 DEF Chunks, Queue!Chunks
  <2> QED
    BY <2>5, <2>6, <2>7 DEF Queue!QueueNext
<1>6. ASSUME NEW data \in Chunks, append(data)
      PROVE  IInv' /\ Queue!QueueNext
  <2>1. PICK b : b = AppendTo(Now, data)
    OBVIOUS
  <2>2. data \in Seq(Bytes)
    BY <1>3
  <2>3. WellFormed(b) /\ Data(b) = Data(Now) \o data
    BY <1>1, <2>1, <2>2, AppendToProperties
  <2>4. \/ Len(b.buf) = Len(Now.buf)
        \/ Len(b.buf) < kCheapPrepend + Readable(Now) + 2 * Len(data)
    BY <1>1, <2>1, <2>2, AppendToSize
  <2>5. /\ Become(b) /\ moved' = data
        /\ Readable(Now) + Len(data) <= MaxReadable
    BY <1>6, <2>1 DEF append
  <2> QED
    BY <1>5, <2>3, <2>4, <2>5
<1>7. ASSUME NEW data \in Chunks, readFd(data)
      PROVE  IInv' /\ Queue!QueueNext
  <2>1. PICK b : b = Receive(Now, data)
    OBVIOUS
  <2>2. data \in Seq(Bytes)
    BY <1>3
  <2>3. WellFormed(b) /\ Data(b) = Data(Now) \o data
    BY <1>1, <2>1, <2>2, ReceiveProperties
  <2>4. \/ Len(b.buf) = Len(Now.buf)
        \/ Len(b.buf) < kCheapPrepend + Readable(Now) + 2 * Len(data)
    BY <1>1, <2>1, <2>2, ReceiveSize
  <2>5. /\ Become(b) /\ moved' = data
        /\ Readable(Now) + Len(data) <= MaxReadable
    BY <1>7, <2>1 DEF readFd
  <2> QED
    BY <1>5, <2>3, <2>4, <2>5
<1>8. ASSUME NEW n \in Nat, n <= Readable(Now)
      PROVE  /\ SubSeq(buffer_, readerIndex_ + 1, readerIndex_ + n)
                  = SubSeq(Data(Now), 1, n)
             /\ SubSeq(Data(Now), 1, n) \in Seq(Bytes)
  <2>1. /\ buffer_ \in Seq(Bytes) /\ readerIndex_ \in Nat /\ writerIndex_ \in Nat
        /\ readerIndex_ + n \in Nat /\ readerIndex_ <= readerIndex_ + n
        /\ readerIndex_ + n <= writerIndex_ /\ writerIndex_ <= Len(buffer_)
        /\ readerIndex_ + n <= Len(buffer_)
        /\ (readerIndex_ + n) - readerIndex_ = n
    BY <1>1, <1>8, NowProperties DEF Readable
  <2>2. PICK s : s = SubSeq(buffer_, readerIndex_ + 1, readerIndex_ + n)
    OBVIOUS
  <2>3. /\ s \in Seq(Bytes) /\ Len(s) = n
        /\ \A i \in 1 .. n : s[i] = buffer_[readerIndex_ + i]
    <3>1. PICK m : m = readerIndex_ + n
      OBVIOUS
    <3>2. /\ m \in Nat /\ readerIndex_ <= m /\ m <= Len(buffer_)
          /\ m - readerIndex_ = n /\ s = SubSeq(buffer_, readerIndex_ + 1, m)
      BY <2>1, <2>2, <3>1
    <3>3. /\ s \in Seq(Bytes) /\ Len(s) = m - readerIndex_
          /\ \A i \in 1 .. m - readerIndex_ : s[i] = buffer_[readerIndex_ + i]
      BY <2>1, <3>2, PartOfSeq
    <3> QED
      BY <3>2, <3>3
  <2>4. PICK t : t = SubSeq(Data(Now), 1, n)
    OBVIOUS
  <2>5. t \in Seq(Bytes) /\ Len(t) = n /\ \A i \in 1 .. n : t[i] = Data(Now)[i]
    <3>1. 0 + 1 = 1 /\ 0 \in Nat /\ 0 <= n /\ n - 0 = n /\ \A i \in 1 .. n : 0 + i = i
      OBVIOUS
    <3>2. n <= Len(Data(Now))
      BY <1>1, <1>8
    <3> QED
      BY <1>1, <2>4, <3>1, <3>2, PartOfSeq
  <2>6. \A i \in 1 .. n : Data(Now)[i] = buffer_[readerIndex_ + i]
    <3> TAKE i \in 1 .. n
    <3>1. i \in 1 .. Readable(Now)
      BY <1>1, <1>8
    <3> QED
      BY <1>1, <3>1, DataProperties, NowProperties
  <2>7. s = t
    BY <2>3, <2>5, <2>6, SeqEqual
  <2> QED
    BY <2>2, <2>4, <2>5, <2>7
<1>9. ASSUME NEW n \in Nat, writeFd(n)
      PROVE  IInv' /\ Queue!QueueNext
  <2>1. /\ n <= Readable(Now)
        /\ moved' = SubSeq(Data(Now), 1, n) /\ moved' \in Seq(Bytes)
    BY <1>8, <1>9 DEF writeFd
  <2>2. UNCHANGED <<buffer_, readerIndex_, writerIndex_>>
    BY <1>9 DEF writeFd
  <2>3. IInv'
    BY <1>1, <2>1, <2>2 DEF IInv, WellFormed, Readable, Now, SizeIsBounded
  <2>4. Data(Now)' = Data(Now)
    BY <2>2 DEF Data, Now
  <2>5. Data(Now) = SubSeq(Data(Now), 0 + 1, Len(Data(Now)))
    BY <1>1
  <2>6. Queue!Take(n, 0)
    BY <2>1, <2>4, <2>5 DEF Queue!Take
  <2>7. n \in 0 .. Len(Data(Now))
    BY <1>1, <2>1
  <2> QED
    BY <2>3, <2>6, <2>7 DEF Queue!QueueNext
<1>10. ASSUME NEW n \in Nat, Become(Retrieve(Now, n)), moved' \in Seq(Bytes)
       PROVE  /\ IInv'
              /\ n <= Readable(Now) =>
                   Data(Now)' = SubSeq(Data(Now), n + 1, Len(Data(Now)))
              /\ Readable(Now) < n => Data(Now)' = <<>>
  <2>1. PICK b : b = Retrieve(Now, n)
    OBVIOUS
  <2>2. /\ WellFormed(b)
        /\ n <= Readable(Now) =>
             Data(b) = SubSeq(Data(Now), n + 1, Len(Data(Now)))
        /\ Readable(Now) < n => Data(b) = <<>>
    BY <1>1, <2>1, RetrieveProperties
  <2>3. Data(Now)' = Data(b)
    BY <1>10, <2>1, <2>2, BecomeProperties
  <2>4. Len(b.buf) = Len(buffer_)
    BY <1>1, <2>1, RetrieveSize, NowProperties
  <2>5. Readable(b) <= MaxReadable
    <3>1. Readable(b) = Len(Data(b)) /\ Readable(b) \in Nat
      BY <2>2, DataProperties
    <3>2. CASE n <= Readable(Now)
      <4>1. Len(SubSeq(Data(Now), n + 1, Len(Data(Now)))) = Len(Data(Now)) - n
        BY <1>1, <3>2, PartOfSeq
      <4> QED
        BY <1>1, <2>2, <3>1, <3>2, <4>1
    <3>3. CASE Readable(Now) < n
      <4>1. Len(<<>>) = 0
        OBVIOUS
      <4> QED
        BY <1>1, <2>2, <3>1, <3>3, <4>1
    <3> QED
      BY <1>1, <3>2, <3>3
  <2>6. IInv'
    BY <1>4, <1>10, <2>1, <2>2, <2>4, <2>5
  <2> QED
    BY <2>2, <2>3, <2>6
<1>11. ASSUME NEW n \in Nat, retrieve(n)
       PROVE  IInv' /\ Queue!QueueNext
  <2>1. Become(Retrieve(Now, n)) /\ moved' = moved /\ moved' \in Seq(Bytes)
    BY <1>1, <1>11 DEF retrieve
  <2>2. CASE n <= Readable(Now)
    <3>1. Queue!Drop(n)
      BY <1>10, <2>1, <2>2 DEF Queue!Drop
    <3>2. n \in 0 .. Len(Data(Now))
      BY <1>1, <2>2
    <3> QED
      BY <1>10, <2>1, <3>1, <3>2 DEF Queue!QueueNext
  <2>3. CASE Readable(Now) < n
    <3>1. SubSeq(Data(Now), Len(Data(Now)) + 1, Len(Data(Now))) = <<>>
      BY <1>1, SubSeqEmpty
    <3>2. Queue!Drop(Len(Data(Now)))
      BY <1>10, <2>1, <2>3, <3>1 DEF Queue!Drop
    <3>3. Len(Data(Now)) \in 0 .. Len(Data(Now))
      BY <1>1
    <3> QED
      BY <1>10, <2>1, <3>2, <3>3 DEF Queue!QueueNext
  <2> QED
    BY <1>1, <2>2, <2>3
<1>12. ASSUME NEW n \in Nat, retrieveAsString(n)
       PROVE  IInv' /\ Queue!QueueNext
  <2>1. /\ n <= Readable(Now) /\ Become(Retrieve(Now, n))
        /\ moved' = SubSeq(Data(Now), 1, n) /\ moved' \in Seq(Bytes)
    BY <1>8, <1>12 DEF retrieveAsString
  <2>2. Queue!Take(n, n)
    BY <1>10, <2>1 DEF Queue!Take
  <2>3. n \in 0 .. Len(Data(Now))
    BY <1>1, <2>1
  <2> QED
    BY <1>10, <2>1, <2>2, <2>3 DEF Queue!QueueNext
<1>13. CASE UNCHANGED vars
  <2>1. IInv'
    BY <1>13 DEF IInv, WellFormed, Readable, Now, SizeIsBounded, vars
  <2>2. UNCHANGED <<Data(Now), moved>>
    BY <1>13 DEF Data, Now, vars
  <2> QED
    BY <2>1, <2>2
<1>14. 0 .. MaxReadable + 1 \subseteq Nat
  BY <1>1
<1> QED
  BY <1>6, <1>7, <1>9, <1>11, <1>12, <1>13, <1>14 DEF Next

\* The initial buffer is an empty queue.
LEMMA InitProperties ==
  ASSUME Init
  PROVE  IInv /\ Queue!QueueInit
<1>1. /\ Zero \in Bytes /\ kCheapPrepend \in Nat /\ kInitialSize \in Nat
      /\ MaxReadable \in Nat
      /\ kCheapPrepend + kInitialSize \in Nat
  BY BufferAssumption
<1>2. buffer_ \in Seq(Bytes) /\ Len(buffer_) = kCheapPrepend + kInitialSize
  <2>1. buffer_ \in [1 .. kCheapPrepend + kInitialSize -> Bytes]
    BY <1>1 DEF Init
  <2> QED
    BY <1>1, <2>1, FunctionIsSeq
<1>3. readerIndex_ = kCheapPrepend /\ writerIndex_ = kCheapPrepend /\ moved = <<>>
  BY DEF Init
<1>4. WellFormed(Now)
  BY <1>1, <1>2, <1>3, NowProperties
<1>5. Readable(Now) = 0
  BY <1>1, <1>3, NowProperties DEF Readable
<1>6. SizeIsBounded
  BY <1>1, <1>2 DEF SizeIsBounded, LargerOf
<1>7. Data(Now) = <<>>
  BY <1>1, <1>2, <1>3, NowProperties, SubSeqEmpty DEF Data
<1> QED
  BY <1>1, <1>3, <1>4, <1>5, <1>6, <1>7 DEF IInv, Queue!QueueInit

\* The indices stay in order and inside the vector, whatever is appended,
\* received and retrieved, for any size of the three areas.
THEOREM IndicesInOrder == Spec => []TypeOK
<1>1. IInv => TypeOK
  BY NowProperties DEF IInv, TypeOK
<1> QED
  BY <1>1, InitProperties, StepProperties, PTL DEF Spec

\* makeSpace keeps the vector within a bound that does not depend on how much
\* has passed through the buffer.
THEOREM SizeStaysBounded == Spec => []SizeIsBounded
<1>1. IInv => SizeIsBounded
  BY DEF IInv
<1> QED
  BY <1>1, InitProperties, StepProperties, PTL DEF Spec

\* The buffer implements the FIFO queue of bytes.
THEOREM RefinesByteQueue == Spec => IsByteQueue
<1>1. Spec => Queue!QueueInit /\ [][Queue!QueueNext]_<<Data(Now), moved>>
  BY InitProperties, StepProperties, PTL DEF Spec
<1> QED
  BY <1>1 DEF IsByteQueue, Queue!QueueSpec

=============================================================================
