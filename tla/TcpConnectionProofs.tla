-------------------------- MODULE TcpConnectionProofs --------------------------
(***************************************************************************)
(* Theorems about TcpConnection, for any number of threads, any message    *)
(* lengths, any send buffer and any high-water mark: the invariants of its *)
(* output side, and, for one thread besides the loop's, that the           *)
(* connection is closed once and removed for good.                         *)
(***************************************************************************)

EXTENDS TcpConnection, SequenceTheorems, TLAPS

-----------------------------------------------------------------------------
(***************************************************************************)
(* The bytes, in the order in which sendInLoop is given them.              *)
(***************************************************************************)

\* The bytes sendInLoop is given when it has been given g before.
Numbered(g, n) == [i \in 1 .. n |-> g + i]

\* The bytes of out are the g given so far but the dropped ones, in order.
Ordered(out, g, d) ==
  /\ \A i, j \in DOMAIN out : i < j => out[i] < out[j]
  /\ Range(out) = 1 .. g \ d

\* What is given is a sequence of the bytes after g.
LEMMA NumberedIsSeq ==
  ASSUME NEW g \in Nat, NEW n \in Nat
  PROVE  /\ Numbered(g, n) \in Seq(Nat)
         /\ Len(Numbered(g, n)) = n
         /\ \A i \in 1 .. n : Numbered(g, n)[i] = g + i
         /\ Range(Numbered(g, n)) = g + 1 .. g + n
<1>1. /\ Numbered(g, n) \in [1 .. n -> Nat]
      /\ \A i \in 1 .. n : Numbered(g, n)[i] = g + i
      /\ DOMAIN Numbered(g, n) = 1 .. n
  BY DEF Numbered
<1>2. Range(Numbered(g, n)) = g + 1 .. g + n
  <2>1. ASSUME NEW k \in g + 1 .. g + n
        PROVE  k \in Range(Numbered(g, n))
    <3>1. k - g \in 1 .. n /\ g + (k - g) = k
      OBVIOUS
    <3> QED
      BY <1>1, <3>1 DEF Range
  <2>2. \A k \in Range(Numbered(g, n)) : k \in g + 1 .. g + n
    BY <1>1 DEF Range
  <2> QED
    BY <2>1, <2>2
<1> QED
  BY <1>1, <1>2

\* What is in order stays so when the bytes given next come behind it.
LEMMA OrderedGrows ==
  ASSUME NEW g \in Nat, NEW n \in Nat, NEW d \in SUBSET (1 .. g),
         NEW out \in Seq(Nat), Ordered(out, g, d)
  PROVE  Ordered(out \o Numbered(g, n), g + n, d)
<1> DEFINE s == Numbered(g, n)
           t == out \o s
<1>1. /\ s \in Seq(Nat)
      /\ Len(s) = n
      /\ \A i \in 1 .. n : s[i] = g + i
      /\ Range(s) = g + 1 .. g + n
  BY NumberedIsSeq
<1> HIDE DEF s
<1>2. /\ t \in Seq(Nat)
      /\ Len(t) = Len(out) + n
      /\ \A i \in 1 .. Len(out) + n :
           t[i] = IF i <= Len(out) THEN out[i] ELSE s[i - Len(out)]
      /\ Range(t) = Range(out) \cup Range(s)
  <2>1. /\ t \in Seq(Nat)
        /\ Len(t) = Len(out) + Len(s)
        /\ \A i \in 1 .. Len(out) + Len(s) :
             t[i] = IF i <= Len(out) THEN out[i] ELSE s[i - Len(out)]
    BY <1>1, ConcatProperties
  <2>2. Range(t) = Range(out) \cup Range(s)
    BY <1>1, RangeConcatenation
  <2> QED
    BY <1>1, <2>1, <2>2
<1> HIDE DEF t
<1>3. /\ Len(out) \in Nat
      /\ DOMAIN out = 1 .. Len(out)
      /\ \A i \in 1 .. Len(out) : out[i] \in Range(out)
      /\ DOMAIN t = 1 .. Len(out) + n
  BY <1>2 DEF Range
<1>4. \A i \in 1 .. Len(out) : out[i] \in 1 .. g
  BY <1>3 DEF Ordered
<1>5. ASSUME NEW i \in 1 .. Len(out) + n, NEW j \in 1 .. Len(out) + n, i < j
      PROVE  t[i] < t[j]
  <2>1. CASE j <= Len(out)
    <3>1. i \in 1 .. Len(out) /\ j \in 1 .. Len(out)
      BY <1>3, <1>5, <2>1
    <3>2. t[i] = out[i] /\ t[j] = out[j]
      BY <1>2, <2>1, <3>1
    <3>3. out[i] < out[j]
      BY <1>3, <1>5, <3>1 DEF Ordered
    <3> QED
      BY <3>2, <3>3
  <2>2. CASE i <= Len(out) /\ Len(out) < j
    <3>1. i \in 1 .. Len(out) /\ j - Len(out) \in 1 .. n /\ ~(j <= Len(out))
      BY <1>3, <2>2
    <3>2. t[i] = out[i] /\ t[j] = g + (j - Len(out))
      BY <1>1, <1>2, <2>2, <3>1
    <3> QED
      BY <1>3, <1>4, <3>1, <3>2
  <2>3. CASE Len(out) < i
    <3>1. /\ i - Len(out) \in 1 .. n /\ ~(i <= Len(out))
          /\ j - Len(out) \in 1 .. n /\ ~(j <= Len(out))
      BY <1>3, <1>5, <2>3
    <3>2. t[i] = g + (i - Len(out)) /\ t[j] = g + (j - Len(out))
      BY <1>1, <1>2, <3>1
    <3> QED
      BY <1>3, <1>5, <3>2
  <2> QED
    BY <1>3, <1>5, <2>1, <2>2, <2>3
<1>6. Range(t) = 1 .. g + n \ d
  BY <1>1, <1>2 DEF Ordered
<1> QED
  BY <1>3, <1>5, <1>6 DEF Ordered, t, s

\* It stays so too when the bytes given next are dropped.
LEMMA OrderedLoses ==
  ASSUME NEW g \in Nat, NEW n \in Nat, NEW d \in SUBSET (1 .. g),
         NEW out \in Seq(Nat), Ordered(out, g, d)
  PROVE  Ordered(out, g + n, d \cup Range(Numbered(g, n)))
<1>1. Range(Numbered(g, n)) = g + 1 .. g + n
  BY NumberedIsSeq
<1>2. 1 .. g \ d = 1 .. g + n \ (d \cup (g + 1 .. g + n))
  OBVIOUS
<1> QED
  BY <1>1, <1>2 DEF Ordered

\* A write takes the first k bytes of s and leaves the rest.
LEMMA Split ==
  ASSUME NEW s \in Seq(Nat), NEW k \in 0 .. Len(s)
  PROVE  /\ SubSeq(s, 1, k) \in Seq(Nat) /\ Len(SubSeq(s, 1, k)) = k
         /\ SubSeq(s, k + 1, Len(s)) \in Seq(Nat)
         /\ Len(SubSeq(s, k + 1, Len(s))) = Len(s) - k
         /\ SubSeq(s, 1, k) \o SubSeq(s, k + 1, Len(s)) = s
<1>1. /\ Len(s) \in Nat /\ \A i \in 1 .. Len(s) : s[i] \in Nat
      /\ \A i \in 1 .. k : s[i] \in Nat
      /\ \A i \in k + 1 .. Len(s) : s[i] \in Nat
      /\ k \in Int /\ k + 1 \in Int
  OBVIOUS
<1>2. /\ SubSeq(s, 1, k) \in Seq(Nat)
      /\ Len(SubSeq(s, 1, k)) = IF 1 <= k THEN k - 1 + 1 ELSE 0
  BY <1>1, SubSeqProperties
<1>3. /\ SubSeq(s, k + 1, Len(s)) \in Seq(Nat)
      /\ Len(SubSeq(s, k + 1, Len(s)))
           = IF k + 1 <= Len(s) THEN Len(s) - (k + 1) + 1 ELSE 0
  BY <1>1, SubSeqProperties
<1>4. SubSeq(s, 1, k) \o SubSeq(s, k + 1, Len(s)) = SubSeq(s, 1, Len(s))
  <2>1. 1 \in 1 .. Len(s) + 1 /\ k \in 1 - 1 .. Len(s) /\ Len(s) \in k .. Len(s)
    BY <1>1
  <2> QED
    BY <2>1, ConcatAdjacentSubSeq
<1>5. SubSeq(s, 1, Len(s)) = s
  BY SubSeqFull
<1>6. /\ Len(SubSeq(s, 1, k)) = k
      /\ Len(SubSeq(s, k + 1, Len(s))) = Len(s) - k
  <2>1. /\ (IF 1 <= k THEN k - 1 + 1 ELSE 0) = k
        /\ (IF k + 1 <= Len(s) THEN Len(s) - (k + 1) + 1 ELSE 0) = Len(s) - k
    BY <1>1
  <2> QED
    BY <1>2, <1>3, <2>1
<1> QED
  BY <1>2, <1>3, <1>4, <1>5, <1>6

\* Concatenation is associative.
LEMMA Associative ==
  ASSUME NEW s \in Seq(Nat), NEW t \in Seq(Nat), NEW u \in Seq(Nat)
  PROVE  (s \o t) \o u = s \o (t \o u)
OBVIOUS

\* What a write takes and what is kept of s come to w, o and s in that order
\* when nothing was taken past a buffer that held something.
LEMMA SplitAppend ==
  ASSUME NEW w \in Seq(Nat), NEW o \in Seq(Nat), NEW s \in Seq(Nat),
         NEW k \in 0 .. Len(s), k = 0 \/ o = <<>>
  PROVE  (w \o SubSeq(s, 1, k)) \o (o \o SubSeq(s, k + 1, Len(s)))
           = (w \o o) \o s
<1> DEFINE a == SubSeq(s, 1, k)
           b == SubSeq(s, k + 1, Len(s))
<1>1. a \in Seq(Nat) /\ b \in Seq(Nat) /\ Len(a) = k /\ a \o b = s
  BY Split
<1> HIDE DEF a, b
<1>2. CASE k = 0
  <2>1. a = <<>>
    BY <1>1, <1>2, EmptySeq
  <2>2. w \o a = w /\ b = s
    BY <1>1, <2>1, ConcatEmptySeq
  <2>3. w \o (o \o s) = (w \o o) \o s
    BY Associative
  <2> QED
    BY <2>2, <2>3 DEF a, b
<1>3. CASE o = <<>>
  <2>1. o \o b = b /\ w \o o = w
    BY <1>1, <1>3, ConcatEmptySeq
  <2>2. (w \o a) \o b = w \o (a \o b)
    BY <1>1, Associative
  <2> QED
    BY <1>1, <2>1, <2>2 DEF a, b
<1> QED
  BY <1>2, <1>3

-----------------------------------------------------------------------------
(***************************************************************************)
(* The queue of functors.                                                  *)
(***************************************************************************)

\* What is queued is a functor, and keeps its name.
LEMMA FunctorTypes ==
  /\ \A f \in {"shutdownInLoop", "writeComplete", "highWater",
               "connectDestroyed"} :
       Functor(f) \in Functors /\ Functor(f).run = f
  /\ \A n \in 0 .. MaxLen : SendFunctor(n) \in Functors
                            /\ SendFunctor(n).run = "sendInLoop"
BY ConnectionAssumption DEF Functor, SendFunctor, Functors

\* A queue r that goes on from q with callbacks only.
Grown(q, r) ==
  /\ r \in Seq(Functors)
  /\ Len(q) <= Len(r)
  /\ \A i \in 1 .. Len(q) : r[i] = q[i]
  /\ \A i \in Len(q) + 1 .. Len(r) : r[i].run \in {"writeComplete", "highWater"}

\* sendInLoop queues the user's callbacks behind what is there.
LEMMA GrownByCallbacks ==
  ASSUME NEW q \in Seq(Functors), NEW b \in BOOLEAN, NEW c \in BOOLEAN
  PROVE  Grown(q, q \o (IF b THEN <<Functor("writeComplete")>> ELSE <<>>)
                    \o (IF c THEN <<Functor("highWater")>> ELSE <<>>))
<1> DEFINE s == IF b THEN <<Functor("writeComplete")>> ELSE <<>>
           t == IF c THEN <<Functor("highWater")>> ELSE <<>>
<1>1. Functor("writeComplete") \in Functors /\ Functor("highWater") \in Functors
  BY ConnectionAssumption DEF Functor, Functors
<1>2. /\ s \in Seq(Functors) /\ Len(s) \in Nat
      /\ \A i \in 1 .. Len(s) : s[i].run = "writeComplete"
  BY <1>1 DEF Functor
<1>3. /\ t \in Seq(Functors) /\ Len(t) \in Nat
      /\ \A i \in 1 .. Len(t) : t[i].run = "highWater"
  BY <1>1 DEF Functor
<1> HIDE DEF s, t
<1>4. /\ q \o s \in Seq(Functors)
      /\ Len(q \o s) = Len(q) + Len(s)
      /\ \A i \in 1 .. Len(q) + Len(s) :
           (q \o s)[i] = IF i <= Len(q) THEN q[i] ELSE s[i - Len(q)]
  BY <1>2, ConcatProperties
<1> DEFINE u == q \o s
<1> HIDE DEF u
<1>5. /\ u \o t \in Seq(Functors)
      /\ Len(u \o t) = Len(u) + Len(t)
      /\ \A i \in 1 .. Len(u) + Len(t) :
           (u \o t)[i] = IF i <= Len(u) THEN u[i] ELSE t[i - Len(u)]
  BY <1>3, <1>4, ConcatProperties DEF u
<1> DEFINE r == u \o t
<1> HIDE DEF r
<1>6. Len(q) \in Nat /\ Len(u) = Len(q) + Len(s) /\ Len(r) = Len(u) + Len(t)
  BY <1>4, <1>5 DEF u, r
<1>7. ASSUME NEW i \in 1 .. Len(q)
      PROVE  r[i] = q[i]
  <2>1. i <= Len(q) /\ i <= Len(u) /\ i \in 1 .. Len(q) + Len(s)
        /\ i \in 1 .. Len(u) + Len(t)
    BY <1>2, <1>3, <1>6
  <2> QED
    BY <1>4, <1>5, <2>1 DEF u, r
<1>8. ASSUME NEW i \in Len(q) + 1 .. Len(r)
      PROVE  r[i].run \in {"writeComplete", "highWater"}
  <2>1. CASE i <= Len(u)
    <3>1. /\ ~(i <= Len(q)) /\ i \in 1 .. Len(q) + Len(s)
          /\ i - Len(q) \in 1 .. Len(s) /\ i \in 1 .. Len(u) + Len(t)
      BY <1>2, <1>3, <1>6, <2>1
    <3> QED
      BY <1>2, <1>4, <1>5, <2>1, <3>1 DEF u, r
  <2>2. CASE ~(i <= Len(u))
    <3>1. i - Len(u) \in 1 .. Len(t) /\ i \in 1 .. Len(u) + Len(t)
      BY <1>2, <1>3, <1>6, <2>2
    <3> QED
      BY <1>3, <1>5, <2>2, <3>1 DEF r
  <2> QED
    BY <2>1, <2>2
<1>9. r \in Seq(Functors) /\ Len(q) <= Len(r)
  BY <1>2, <1>3, <1>5, <1>6 DEF r
<1> QED
  BY <1>7, <1>8, <1>9 DEF Grown, r, u, s, t

\* No connectDestroyed is queued.
NoDestroy(q) == \A i \in 1 .. Len(q) : q[i].run # "connectDestroyed"

\* A functor queued is the last one, behind the same ones.
LEMMA AppendFunctor ==
  ASSUME NEW q \in Seq(Functors), NEW f \in Functors
  PROVE  /\ Append(q, f) \in Seq(Functors)
         /\ Len(Append(q, f)) = Len(q) + 1
         /\ \A i \in 1 .. Len(q) : Append(q, f)[i] = q[i]
         /\ Append(q, f)[Len(q) + 1] = f
         /\ NoDestroy(q) /\ f.run # "connectDestroyed" => NoDestroy(Append(q, f))
<1>1. /\ Append(q, f) \in Seq(Functors)
      /\ Len(Append(q, f)) = Len(q) + 1
      /\ \A i \in 1 .. Len(q) : Append(q, f)[i] = q[i]
      /\ Append(q, f)[Len(q) + 1] = f
  BY AppendProperties
<1>2. ASSUME NoDestroy(q), f.run # "connectDestroyed",
             NEW i \in 1 .. Len(Append(q, f))
      PROVE  Append(q, f)[i].run # "connectDestroyed"
  <2>1. i \in 1 .. Len(q) \/ i = Len(q) + 1
    BY <1>1
  <2> QED
    BY <1>1, <1>2, <2>1 DEF NoDestroy
<1> QED
  BY <1>1, <1>2 DEF NoDestroy

\* A functor run leaves the ones behind it.
LEMMA TailFunctors ==
  ASSUME NEW q \in Seq(Functors), NEW k \in 0 .. Len(q), k > 0
  PROVE  /\ q # <<>> /\ Len(q) \in Nat \ {0} /\ Head(q) = q[1]
         /\ Tail(q) \in Seq(Functors)
         /\ Len(Tail(q)) = Len(q) - 1
         /\ \A i \in 1 .. Len(Tail(q)) : Tail(q)[i] = q[i + 1]
         /\ k - 1 \in 0 .. Len(Tail(q))
         /\ NoDestroy(q) => NoDestroy(Tail(q))
<1>1. Len(q) \in Nat \ {0} /\ q # <<>>
  BY EmptySeq
<1>2. /\ Tail(q) \in Seq(Functors)
      /\ Len(Tail(q)) = Len(q) - 1
      /\ \A i \in 1 .. Len(Tail(q)) : Tail(q)[i] = q[i + 1]
  BY <1>1, HeadTailProperties
<1>3. \A i \in 1 .. Len(Tail(q)) : i + 1 \in 1 .. Len(q)
  BY <1>1, <1>2
<1>4. Head(q) = q[1]
  BY <1>1
<1> QED
  BY <1>1, <1>2, <1>3, <1>4 DEF NoDestroy

\* sendInLoop queues no connectDestroyed.
LEMMA GrownNoDestroy ==
  ASSUME NEW q \in Seq(Functors), NEW r, Grown(q, r), NoDestroy(q)
  PROVE  NoDestroy(r)
<1> SUFFICES ASSUME NEW i \in 1 .. Len(r) PROVE r[i].run # "connectDestroyed"
  BY DEF NoDestroy
<1>1. i \in 1 .. Len(q) \/ i \in Len(q) + 1 .. Len(r)
  BY DEF Grown
<1> QED
  BY <1>1 DEF Grown, NoDestroy

-----------------------------------------------------------------------------
(***************************************************************************)
(* The inductive invariant of the output side.                             *)
(***************************************************************************)

\* The types, with bytes of any number: that they are among those given follows
\* from the invariant.
Types ==
  /\ state_ \in {"kConnecting", "kConnected", "kDisconnecting", "kDisconnected"}
  /\ reading \in BOOLEAN /\ writing \in BOOLEAN /\ inEpoll \in BOOLEAN
  /\ output \in Seq(Nat)
  /\ pc \in {"established", "poll", "events", "pending", "user"}
  /\ ret \in {"poll", "events", "pending"}
  /\ revents \subseteq {"hup", "err", "in", "out"}
  /\ pending \in Seq(Functors)
  /\ todo \in 0 .. Len(pending)
  /\ at \in [Users -> {"idle", "send", "store", "post"}]
  /\ peer \in {"open", "closed", "reset"}
  /\ soError \in BOOLEAN /\ inData \in BOOLEAN /\ fin \in BOOLEAN
  /\ inflight \in 0 .. SndBuf
  /\ wire \in Seq(Nat)
  /\ given \in Nat
  /\ dropped \in SUBSET (1 .. given)
  /\ sends \in 0 .. MaxSends
  /\ msgs \in 0 .. MaxMsgs
  /\ above \in Nat
  /\ completed \in 0 .. given
  /\ closes \in Nat
  /\ destroyed \in BOOLEAN

\* The output side: the properties themselves, that a channel writes only with
\* something to write, also after the close, and that bytes are dropped only
\* where nothing can be written any more.
OutputInv ==
  /\ BytesInOrder
  /\ OutputIsWatched
  /\ writing => output # <<>>
  /\ dropped # {} => Broken
  /\ FinAfterData
  /\ HighWaterOnce
  /\ DrainIsAnnounced

\* Nothing of handleClose is there before it has run.
CloseFirst == closes = 0 => ~destroyed /\ NoDestroy(pending)

\* The inductive invariant.
IInv == Types /\ OutputInv /\ CloseFirst

\* The invariant holds of a new connection.
LEMMA InitIInv == Init => IInv
<1> SUFFICES ASSUME Init PROVE IInv
  OBVIOUS
<1>1. Types
  <2>1. /\ pending \in Seq(Functors) /\ todo \in 0 .. Len(pending)
        /\ output \in Seq(Nat) /\ wire \in Seq(Nat)
        /\ completed \in 0 .. given
    BY DEF Init
  <2>2. at \in [Users -> {"idle", "send", "store", "post"}]
    BY DEF Init
  <2>3. /\ inflight \in 0 .. SndBuf /\ sends \in 0 .. MaxSends
        /\ msgs \in 0 .. MaxMsgs /\ dropped \in SUBSET (1 .. given)
        /\ given \in Nat /\ above \in Nat /\ closes \in Nat
    BY ConnectionAssumption DEF Init
  <2>4. revents \subseteq {"hup", "err", "in", "out"}
    BY DEF Init
  <2> QED
    BY <2>1, <2>2, <2>3, <2>4 DEF Init, Types
<1>2. BytesInOrder
  <2>1. wire \o output = <<>> /\ 1 .. given \ dropped = {}
    BY DEF Init
  <2>2. Range(<<>>) = {} /\ DOMAIN <<>> = {}
    BY DEF Range
  <2> QED
    BY <2>1, <2>2 DEF BytesInOrder
<1>3. HighWaterOnce
  <2>1. Len(output) = 0 /\ above = 0
    BY DEF Init
  <2> QED
    BY <2>1, ConnectionAssumption DEF HighWaterOnce
<1>4. DrainIsAnnounced
  <2>1. wire = <<>> /\ completed = 0
    BY DEF Init
  <2>2. Range(<<>>) = {} /\ 1 .. 0 = {}
    BY DEF Range
  <2> QED
    BY <2>1, <2>2 DEF DrainIsAnnounced
<1>5. OutputIsWatched /\ FinAfterData /\ (writing => output # <<>>)
      /\ (dropped # {} => Broken)
  BY DEF Init, OutputIsWatched, FinAfterData
<1>6. CloseFirst
  BY DEF Init, CloseFirst, NoDestroy
<1> QED
  BY <1>1, <1>2, <1>3, <1>4, <1>5, <1>6 DEF IInv, OutputInv

\* A step that leaves the output side alone keeps it.
LEMMA OutputFrame ==
  ASSUME OutputInv,
         UNCHANGED <<output, wire, given, dropped, above, completed, writing,
                     inEpoll, fin, closes>>,
         Broken => Broken'
  PROVE  OutputInv'
BY DEF OutputInv, BytesInOrder, OutputIsWatched, FinAfterData, HighWaterOnce,
       DrainIsAnnounced

-----------------------------------------------------------------------------
(***************************************************************************)
(* What sendInLoop and handleWrite do to the output side.                  *)
(***************************************************************************)

\* sendInLoop (TcpConnection.cc:173) keeps the output side whatever the kernel
\* takes, queues callbacks only, and turns the channel on only if it is not closed.
LEMMA SendEffect ==
  ASSUME Types, OutputInv, NEW n \in 0 .. MaxLen, NEW q \in Seq(Functors),
         SendInLoop(n, q), fin' = fin, closes' = closes, peer' = peer
  PROVE  /\ output' \in Seq(Nat) /\ wire' \in Seq(Nat) /\ given' \in Nat
         /\ dropped' \in SUBSET (1 .. given') /\ above' \in Nat
         /\ completed' \in 0 .. given' /\ inflight' \in 0 .. SndBuf
         /\ OutputInv'
         /\ Grown(q, pending') /\ reading' = reading
         /\ \/ UNCHANGED <<writing, inEpoll>>
            \/ state_ # "kDisconnected" /\ writing' = TRUE /\ inEpoll' = TRUE
<1>0. /\ output \in Seq(Nat) /\ wire \in Seq(Nat) /\ given \in Nat
      /\ dropped \in SUBSET (1 .. given) /\ above \in Nat
      /\ completed \in 0 .. given /\ inflight \in 0 .. SndBuf
      /\ Len(output) \in Nat /\ Len(wire) \in Nat
      /\ n \in Nat /\ SndBuf \in Nat /\ HighWater \in Nat \ {0}
      /\ writing \in BOOLEAN /\ inEpoll \in BOOLEAN /\ fin \in BOOLEAN
      /\ closes \in Nat
  BY ConnectionAssumption DEF Types
<1>1. CASE GivesUp
  <2>1. /\ pending' = q
        /\ UNCHANGED <<output, inflight, wire, given, dropped, above, completed,
                       reading, writing, inEpoll>>
    BY <1>1 DEF SendInLoop, sendVars, channelVars
  <2>2. OutputInv'
    BY <2>1, OutputFrame DEF Broken
  <2>3. Grown(q, q)
    BY DEF Grown
  <2> QED
    BY <1>0, <2>1, <2>2, <2>3
<1>2. CASE ~GivesUp
  <2> DEFINE data == Numbered(given, n)
             fault == Direct /\ Broken
  <2>1. PICK k \in IF Direct /\ ~Broken THEN Taken(n) ELSE {0} :
          /\ given' = given + n
          /\ wire' = wire \o SubSeq(data, 1, k)
          /\ inflight' = inflight + k
          /\ dropped' = dropped \cup (IF fault THEN Range(data) ELSE {})
          /\ output' = IF ~fault /\ k < n THEN output \o SubSeq(data, k + 1, n)
                                          ELSE output
          /\ Watch(~fault /\ k < n)
          /\ pending' = q \o (IF Direct /\ ~fault /\ Completed(k, n)
                                THEN <<Functor("writeComplete")>> ELSE <<>>)
                          \o (IF ~fault /\ k < n /\ Crosses(n - k)
                                THEN <<Functor("highWater")>> ELSE <<>>)
          /\ completed' = IF Direct /\ ~fault /\ Completed(k, n)
                            THEN given + n ELSE completed
          /\ above' = above + (IF ~fault /\ k < n /\ Crosses(n - k) THEN 1 ELSE 0)
    BY <1>2 DEF SendInLoop, Numbered
  <2>2. /\ data \in Seq(Nat) /\ Len(data) = n
        /\ Range(data) = given + 1 .. given + n
    BY <1>0, NumberedIsSeq
  <2> HIDE DEF data
  <2>3. /\ k \in 0 .. n
        /\ inflight + k \in 0 .. SndBuf
        /\ (Direct /\ ~Broken) \/ k = 0
    BY <1>0, <2>1 DEF Taken, Room
  <2>4. /\ SubSeq(data, 1, k) \in Seq(Nat) /\ Len(SubSeq(data, 1, k)) = k
        /\ SubSeq(data, k + 1, n) \in Seq(Nat)
        /\ Len(SubSeq(data, k + 1, n)) = n - k
    BY <2>2, <2>3, Split
  <2>5. /\ wire' \in Seq(Nat) /\ Len(wire') = Len(wire) + k
    BY <1>0, <2>1, <2>4, ConcatProperties
  <2>6. Grown(q, pending')
    BY <2>1, GrownByCallbacks
  <2>7. /\ writing => output # <<>>
        /\ closes = 0 => (writing <=> output # <<>>) /\ (writing => inEpoll)
        /\ fin => output = <<>> \/ closes > 0
        /\ above = (IF Len(output) >= HighWater THEN 1 ELSE 0)
        /\ 1 .. completed \subseteq Range(wire)
        /\ output = <<>> /\ closes = 0 => Range(wire) \subseteq 1 .. completed
        /\ dropped # {} => Broken
        /\ Ordered(wire \o output, given, dropped)
        /\ wire \o output \in Seq(Nat)
    BY <1>0, ConcatProperties
       DEF OutputInv, OutputIsWatched, FinAfterData, HighWaterOnce,
           DrainIsAnnounced, BytesInOrder, Ordered
  <2>8. /\ given' \in Nat /\ dropped' \in SUBSET (1 .. given')
        /\ completed' \in 0 .. given' /\ above' \in Nat
        /\ reading' = reading
    BY <1>0, <2>1, <2>2, <2>3, <2>5 DEF Watch, Update, channelVars
  <2>9. SUFFICES
          /\ output' \in Seq(Nat)
          /\ Ordered(wire' \o output', given', dropped')
          /\ closes = 0 => (writing' <=> output' # <<>>) /\ (writing' => inEpoll')
          /\ writing' => output' # <<>>
          /\ fin => output' = <<>> \/ closes > 0
          /\ above' = (IF Len(output') >= HighWater THEN 1 ELSE 0)
          /\ dropped' # {} => Broken
          /\ 1 .. completed' \subseteq Range(wire')
          /\ output' = <<>> /\ closes = 0 => Range(wire') \subseteq 1 .. completed'
          /\ \/ UNCHANGED <<writing, inEpoll>>
             \/ state_ # "kDisconnected" /\ writing' = TRUE /\ inEpoll' = TRUE
    BY <2>1, <2>3, <2>5, <2>6, <2>8
       DEF OutputInv, OutputIsWatched, FinAfterData, HighWaterOnce,
           DrainIsAnnounced, BytesInOrder, Ordered, Broken
  <2>14. Range(wire') = Range(wire) \cup Range(SubSeq(data, 1, k))
    <3> DEFINE t == SubSeq(data, 1, k)
    <3>1. wire \in Seq(Nat) /\ t \in Seq(Nat) /\ wire' = wire \o t
      BY <1>0, <2>1, <2>4
    <3> HIDE DEF t
    <3>2. Range(wire \o t) = Range(wire) \cup Range(t)
      BY <3>1, RangeConcatenation
    <3> QED
      BY <3>1, <3>2 DEF t
  <2>10. CASE fault
    <3>1. k = 0
      BY <2>3, <2>10
    <3>2. wire' = wire
      BY <1>0, <2>1, <2>4, <3>1, EmptySeq, ConcatEmptySeq
    <3>3. output' = output /\ UNCHANGED <<writing, inEpoll, completed, above>>
      BY <1>0, <2>1, <2>10 DEF Watch, channelVars
    <3>4. Ordered(wire \o output, given + n, dropped \cup Range(data))
      BY <1>0, <2>7, OrderedLoses DEF data
    <3> QED
      BY <1>0, <2>1, <2>7, <2>10, <3>2, <3>3, <3>4
  <2>11. CASE ~fault /\ k < n
    <3>1. output' = output \o SubSeq(data, k + 1, n)
      BY <2>1, <2>11
    <3>2. /\ output' \in Seq(Nat) /\ Len(output') = Len(output) + (n - k)
          /\ output' # <<>>
      <4>1. output' \in Seq(Nat) /\ Len(output') = Len(output) + (n - k)
        BY <1>0, <2>4, <3>1, ConcatProperties
      <4>2. Len(output') # 0
        BY <1>0, <2>3, <2>11, <4>1
      <4> QED
        BY <4>1, <4>2, EmptySeq
    <3>3. k = 0 \/ output = <<>>
      BY <2>3 DEF Direct
    <3>4. (wire \o SubSeq(data, 1, k)) \o (output \o SubSeq(data, k + 1, n))
            = (wire \o output) \o data
      BY <1>0, <2>2, <2>3, <3>3, SplitAppend
    <3>5. Ordered(wire' \o output', given', dropped')
      <4>1. Ordered((wire \o output) \o data, given + n, dropped)
        BY <1>0, <2>7, OrderedGrows DEF data
      <4>2. dropped' = dropped
        BY <2>1, <2>11
      <4> QED
        BY <2>1, <3>1, <3>4, <4>1, <4>2
    <3>6. \/ ~writing /\ writing' = TRUE /\ inEpoll' = TRUE
          \/ writing /\ UNCHANGED <<writing, inEpoll>>
      BY <1>0, <2>1, <2>11 DEF Watch, Update, channelVars
    <3>7. above' = (IF Len(output') >= HighWater THEN 1 ELSE 0)
      BY <1>0, <2>1, <2>3, <2>7, <2>11, <3>2 DEF Crosses
    <3>8. ~fin \/ closes > 0
      BY <1>0, <2>7, <2>11 DEF Direct, Broken
    <3>9. completed' = completed /\ dropped' = dropped
      BY <1>0, <2>1, <2>3, <2>11 DEF Completed
    <3> QED
      BY <1>0, <1>2, <2>7, <2>14, <3>2, <3>5, <3>6, <3>7, <3>8, <3>9 DEF GivesUp
  <2>12. CASE ~fault /\ k = n
    <3>1. output' = output /\ UNCHANGED <<writing, inEpoll, above, dropped>>
      <4>1. ~(~fault /\ k < n)
        BY <1>0, <2>12
      <4>2. UNCHANGED <<writing, inEpoll>>
        BY <2>1, <4>1, Zenon DEF Watch, channelVars
      <4>3. output' = output /\ above' = above
        BY <1>0, <2>1, <4>1
      <4>4. dropped' = dropped
        BY <2>1, <2>12
      <4> QED
        BY <4>2, <4>3, <4>4
    <3>2. k = 0 \/ output = <<>>
      BY <2>3 DEF Direct
    <3>3. SubSeq(data, k + 1, n) = <<>>
      BY <1>0, <2>4, <2>12, EmptySeq
    <3>4. output \o SubSeq(data, k + 1, n) = output
      BY <1>0, <3>3, ConcatEmptySeq
    <3>5. (wire \o SubSeq(data, 1, k)) \o (output \o SubSeq(data, k + 1, n))
            = (wire \o output) \o data
      BY <1>0, <2>2, <2>3, <3>2, SplitAppend
    <3>6. Ordered(wire' \o output', given', dropped')
      <4>1. Ordered((wire \o output) \o data, given + n, dropped)
        BY <1>0, <2>7, OrderedGrows DEF data
      <4>2. dropped' = dropped
        BY <2>1, <2>12
      <4> QED
        BY <2>1, <3>1, <3>4, <3>5, <4>1, <4>2
    <3>7. Direct => completed' = given' /\ Range(wire') = 1 .. given'
      <4>1. HAVE Direct
      <4>2. completed' = given' /\ output' = <<>> /\ dropped' = {}
        BY <1>0, <2>1, <2>7, <2>12, <3>1, <4>1 DEF Completed, Direct
      <4>3. wire' \o output' = wire'
        BY <2>5, <4>2, ConcatEmptySeq
      <4> QED
        BY <3>6, <4>2, <4>3 DEF Ordered
    <3>8. ~Direct => completed' = completed /\ (output' = <<>> => closes # 0)
      BY <1>0, <2>1, <2>7, <3>1 DEF Direct
    <3> QED
      BY <1>0, <2>7, <2>14, <3>1, <3>6, <3>7, <3>8
  <2>13. fault \/ (~fault /\ k < n) \/ (~fault /\ k = n)
    BY <1>0, <2>3
  <2> QED
    BY <2>10, <2>11, <2>12, <2>13
<1> QED
  BY <1>1, <1>2

\* handleWrite (TcpConnection.cc:80) keeps the output side whatever the kernel
\* takes, and queues at most the write-complete callback.
LEMMA WriteEffect ==
  ASSUME Types, OutputInv, HandleWrite
  PROVE  /\ UNCHANGED reading
         /\ output' \in Seq(Nat) /\ wire' \in Seq(Nat) /\ above' \in Nat
         /\ completed' \in 0 .. given' /\ inflight' \in 0 .. SndBuf
         /\ writing' \in BOOLEAN /\ inEpoll' \in BOOLEAN /\ fin' \in BOOLEAN
         /\ OutputInv'
         /\ pending' \in {pending, Append(pending, Functor("writeComplete"))}
<1>0. /\ output \in Seq(Nat) /\ wire \in Seq(Nat) /\ given \in Nat
      /\ dropped \in SUBSET (1 .. given) /\ above \in Nat
      /\ completed \in 0 .. given /\ inflight \in 0 .. SndBuf
      /\ Len(output) \in Nat /\ Len(wire) \in Nat
      /\ SndBuf \in Nat /\ HighWater \in Nat \ {0}
      /\ writing \in BOOLEAN /\ inEpoll \in BOOLEAN /\ fin \in BOOLEAN
      /\ reading \in BOOLEAN /\ closes \in Nat
  BY ConnectionAssumption DEF Types
<1>1. CASE ~writing \/ Broken
  <2>1. UNCHANGED <<pending, reading, writing, inEpoll, output, wire, inflight,
                    above, completed, fin, given, dropped, closes, peer>>
    BY <1>1 DEF HandleWrite, Stopped, channelVars, peerVars
  <2>2. OutputInv'
    BY <2>1, OutputFrame DEF Broken
  <2> QED
    BY <1>0, <2>1, <2>2
<1>2. CASE writing /\ ~Broken
  <2>1. PICK k \in Taken(Len(output)) :
          /\ output' = SubSeq(output, k + 1, Len(output))
          /\ wire' = wire \o SubSeq(output, 1, k)
          /\ inflight' = inflight + k
          /\ above' = IF Len(output) - k < HighWater THEN 0 ELSE above
          /\ IF k > 0 /\ k = Len(output)
               THEN /\ Update(reading, FALSE)
                    /\ pending' = Append(pending, Functor("writeComplete"))
                    /\ completed' = given
                    /\ EndsOutput
               ELSE UNCHANGED <<channelVars, pending, completed, fin>>
    BY <1>2 DEF HandleWrite, Stopped
  <2>2. UNCHANGED <<given, dropped, closes, peer, reading>>
    BY <2>1 DEF HandleWrite, peerVars, Update, channelVars
  <2>3. k \in 0 .. Len(output) /\ inflight + k \in 0 .. SndBuf
    BY <1>0 DEF Taken, Room
  <2>4. /\ SubSeq(output, 1, k) \in Seq(Nat) /\ Len(SubSeq(output, 1, k)) = k
        /\ output' \in Seq(Nat) /\ Len(output') = Len(output) - k
        /\ SubSeq(output, 1, k) \o output' = output
    BY <1>0, <2>1, <2>3, Split
  <2>5. wire' \in Seq(Nat) /\ Len(wire') = Len(wire) + k
    BY <1>0, <2>1, <2>4, ConcatProperties
  <2>6. wire' \o output' = wire \o output
    <3>1. (wire \o SubSeq(output, 1, k)) \o output'
            = wire \o (SubSeq(output, 1, k) \o output')
      BY <1>0, <2>4, Associative
    <3> QED
      BY <2>1, <2>4, <3>1
  <2>7. /\ output # <<>> /\ Len(output) > 0
        /\ closes = 0 => inEpoll
        /\ ~fin
        /\ above = (IF Len(output) >= HighWater THEN 1 ELSE 0)
        /\ 1 .. completed \subseteq Range(wire)
        /\ dropped = {}
        /\ Ordered(wire \o output, given, dropped)
    <3>1. output # <<>>
      BY <1>2 DEF OutputInv
    <3>2. Len(output) > 0
      BY <1>0, <3>1, EmptySeq
    <3> QED
      BY <1>0, <1>2, <3>1, <3>2
         DEF OutputInv, OutputIsWatched, HighWaterOnce, DrainIsAnnounced,
             BytesInOrder, Ordered, Broken
  <2>8. Ordered(wire' \o output', given', dropped')
    BY <2>2, <2>6, <2>7
  <2>9. above' = (IF Len(output') >= HighWater THEN 1 ELSE 0)
    BY <1>0, <2>1, <2>3, <2>4, <2>7
  <2>10. SUFFICES
           /\ closes' = 0 => (writing' <=> output' # <<>>) /\ (writing' => inEpoll')
           /\ writing' => output' # <<>>
           /\ fin' => output' = <<>> \/ closes' > 0
           /\ 1 .. completed' \subseteq Range(wire')
           /\ output' = <<>> => Range(wire') \subseteq 1 .. completed'
           /\ completed' \in 0 .. given'
           /\ writing' \in BOOLEAN /\ inEpoll' \in BOOLEAN /\ fin' \in BOOLEAN
           /\ pending' \in {pending, Append(pending, Functor("writeComplete"))}
    <3>1. above' \in Nat
      BY <2>9
    <3> QED
      BY <1>2, <2>1, <2>2, <2>3, <2>4, <2>5, <2>7, <2>8, <2>9, <2>10, <3>1
         DEF OutputInv, OutputIsWatched, FinAfterData, HighWaterOnce,
             DrainIsAnnounced, BytesInOrder, Ordered
  <2>11. CASE k > 0 /\ k = Len(output)
    <3>1. output' = <<>>
      BY <1>0, <2>4, <2>11, EmptySeq
    <3>2. /\ writing' = FALSE /\ inEpoll' = (~inEpoll \/ reading \/ FALSE)
          /\ pending' = Append(pending, Functor("writeComplete"))
          /\ completed' = given
          /\ fin' = (fin \/ state_ = "kDisconnecting")
      BY <2>1, <2>11 DEF EndsOutput, Update
    <3>3. fin' \in BOOLEAN /\ inEpoll' \in BOOLEAN
      BY <1>0, <3>2, Zenon
    <3>4. completed' = given' /\ completed' \in 0 .. given'
      BY <1>0, <2>2, <3>2
    <3>5. Range(wire') = 1 .. given'
      <4>1. wire' \o output' = wire'
        BY <2>5, <3>1, ConcatEmptySeq
      <4> QED
        BY <2>2, <2>7, <2>8, <4>1 DEF Ordered
    <3> QED
      BY <3>1, <3>2, <3>3, <3>4, <3>5
  <2>12. CASE ~(k > 0 /\ k = Len(output))
    <3>1. UNCHANGED <<writing, inEpoll, pending, completed, fin>>
      BY <2>1, <2>12 DEF channelVars
    <3>2. Len(output') # 0
      BY <1>0, <2>3, <2>4, <2>7, <2>12
    <3>3. output' # <<>>
      BY <3>2, EmptySeq
    <3>4. Range(wire) \subseteq Range(wire')
      <4> DEFINE t == SubSeq(output, 1, k)
      <4>1. wire \in Seq(Nat) /\ t \in Seq(Nat) /\ wire' = wire \o t
        BY <1>0, <2>1, <2>4
      <4> HIDE DEF t
      <4>2. Range(wire \o t) = Range(wire) \cup Range(t)
        BY <4>1, RangeConcatenation
      <4> QED
        BY <4>1, <4>2
    <3> QED
      BY <1>0, <1>2, <2>2, <2>3, <2>5, <2>7, <3>1, <3>3, <3>4
  <2> QED
    BY <2>11, <2>12
<1> QED
  BY <1>1, <1>2

-----------------------------------------------------------------------------
(***************************************************************************)
(* Every step keeps the invariant.                                         *)
(***************************************************************************)

\* The peer and the kernel keep the invariant.
LEMMA PeerStep == ASSUME IInv, Peer PROVE IInv'
<1> USE DEF IInv
<1>1. OutputInv'
  <2>1. Broken => Broken'
    BY DEF Peer, PeerReads, PeerSends, PeerCloses, PeerResets, peerVars, Broken
  <2> QED
    BY <2>1, OutputFrame DEF Peer, channelVars
<1>2. CloseFirst'
  BY DEF Peer, CloseFirst, NoDestroy
<1>3. CASE PeerReads
  BY <1>1, <1>2, <1>3, ConnectionAssumption
     DEF Peer, PeerReads, Types, peerVars, channelVars, loopVars
<1>4. CASE PeerSends
  BY <1>1, <1>2, <1>4, ConnectionAssumption
     DEF Peer, PeerSends, Types, channelVars, loopVars
<1>5. CASE PeerCloses
  BY <1>1, <1>2, <1>5 DEF Peer, PeerCloses, Types, channelVars, loopVars
<1>6. CASE PeerResets
  <2>1. /\ peer' = "reset" /\ soError' = TRUE /\ inData' = FALSE /\ inflight' = 0
        /\ UNCHANGED <<msgs, state_, channelVars, loopVars, pending, at, fin, output,
                       wire, given, dropped, above, completed, sends, closes,
                       destroyed>>
    BY <1>6 DEF Peer, PeerResets
  <2>2. inflight' \in 0 .. SndBuf
    BY <2>1, ConnectionAssumption
  <2>3. Types'
    BY <2>1, <2>2 DEF Types, channelVars, loopVars
  <2> QED
    BY <1>1, <1>2, <2>3
<1> QED
  BY <1>3, <1>4, <1>5, <1>6 DEF Peer

\* connectEstablished keeps it.
LEMMA ConnectEstablishedStep == ASSUME IInv, ConnectEstablished PROVE IInv'
<1> USE DEF IInv
<1>1. OutputInv'
  BY DEF ConnectEstablished, Update, sendVars, peerVars, Types, OutputInv,
         BytesInOrder, OutputIsWatched, FinAfterData, HighWaterOnce,
         DrainIsAnnounced, Broken
<1>2. CloseFirst'
  BY DEF ConnectEstablished, CloseFirst, NoDestroy
<1>3. Types'
  BY DEF ConnectEstablished, Update, Types, peerVars, sendVars
<1> QED
  BY <1>1, <1>2, <1>3

\* The poll, the swap, the end of a batch, a callback's return and handleError
\* keep it.
LEMMA LoopStep ==
  ASSUME IInv, Poll \/ Swap \/ EndBatch \/ CallbackReturns \/ HandleError
  PROVE  IInv'
<1> USE DEF IInv
<1>1. UNCHANGED <<state_, channelVars, pending, at, peerVars, fin, sendVars, sends,
                  closes, destroyed>>
  BY DEF Poll, Swap, EndBatch, CallbackReturns, HandleError
<1>2. OutputInv'
  BY <1>1, OutputFrame DEF channelVars, sendVars, peerVars, Broken
<1>3. CloseFirst'
  BY <1>1 DEF CloseFirst, NoDestroy
<1>4. /\ pc' \in {"established", "poll", "events", "pending", "user"}
      /\ ret' \in {"poll", "events", "pending"}
      /\ revents' \subseteq {"hup", "err", "in", "out"}
      /\ todo' \in 0 .. Len(pending')
      /\ soError' \in BOOLEAN
  <2>1. /\ pc' \in {pc, ret, "events", "pending", "poll"}
        /\ ret' = ret
        /\ todo' \in {todo, Len(pending)} /\ pending' = pending
        /\ soError' \in {soError, FALSE}
    BY DEF Poll, Swap, EndBatch, CallbackReturns, HandleError
  <2>2. revents' \subseteq {"hup", "err", "in", "out"}
    <3>1. \/ revents' = revents
          \/ revents' = Events
          \/ revents' = revents \ {"err"}
      BY DEF Poll, Swap, EndBatch, CallbackReturns, HandleError
    <3> QED
      BY <3>1 DEF Types, Events
  <2>3. todo' \in 0 .. Len(pending')
    <3>1. Len(pending) \in Nat /\ todo \in 0 .. Len(pending)
      BY DEF Types
    <3> QED
      BY <2>1, <3>1
  <2>4. /\ pc' \in {"established", "poll", "events", "pending", "user"}
        /\ ret' \in {"poll", "events", "pending"}
        /\ soError' \in BOOLEAN
    BY <2>1 DEF Types
  <2> QED
    BY <2>2, <2>3, <2>4
<1>5. Types'
  BY <1>1, <1>4 DEF Types, channelVars, peerVars, sendVars
<1> QED
  BY <1>2, <1>3, <1>5

\* What handleClose does, from either handler.
LEMMA HandleCloseKeeps ==
  ASSUME IInv, HandleClose, UNCHANGED <<sendVars, fin, peer>>
  PROVE  /\ OutputInv' /\ CloseFirst' /\ closes' > 0
         /\ state_' = "kDisconnected" /\ reading' = FALSE /\ writing' = FALSE
         /\ inEpoll' \in BOOLEAN /\ closes' \in Nat
         /\ pending' \in Seq(Functors) /\ Len(pending') = Len(pending) + 1
<1>1. /\ pending' \in Seq(Functors) /\ Len(pending') = Len(pending) + 1
  BY FunctorTypes, AppendFunctor DEF HandleClose, IInv, Types
<1>2. closes' \in Nat /\ closes' > 0
  BY DEF HandleClose, IInv, Types
<1>3. OutputInv'
  BY <1>2 DEF HandleClose, Update, sendVars, IInv, OutputInv, BytesInOrder,
              OutputIsWatched, FinAfterData, HighWaterOnce, DrainIsAnnounced,
              Broken
<1>4. CloseFirst'
  BY <1>2 DEF CloseFirst
<1>5. inEpoll' \in BOOLEAN
  BY Zenon DEF HandleClose, Update
<1> QED
  BY <1>1, <1>2, <1>3, <1>4, <1>5 DEF HandleClose, Update

\* A hangup keeps it, closing or not.
LEMMA HandleHangupStep == ASSUME IInv, HandleHangup PROVE IInv'
<1>1. CASE "in" \in revents
  <2>1. UNCHANGED <<state_, channelVars, pending, closes, pc, ret, todo, at,
                    peerVars, soError, fin, sendVars, sends, destroyed>>
        /\ revents' = revents \ {"hup"}
    BY <1>1 DEF HandleHangup
  <2>2. OutputInv'
    BY <2>1, OutputFrame DEF IInv, channelVars, sendVars, peerVars, Broken
  <2>3. CloseFirst'
    BY <2>1 DEF IInv, CloseFirst, NoDestroy
  <2>4. Types'
    BY <2>1 DEF IInv, Types, channelVars, peerVars, sendVars
  <2> QED
    BY <2>2, <2>3, <2>4 DEF IInv
<1>2. CASE "in" \notin revents
  <2>1. HandleClose /\ UNCHANGED <<sendVars, fin, peer>>
    BY <1>2 DEF HandleHangup, peerVars
  <2>2. /\ OutputInv' /\ CloseFirst'
        /\ state_' = "kDisconnected" /\ reading' = FALSE /\ writing' = FALSE
        /\ inEpoll' \in BOOLEAN /\ closes' \in Nat
        /\ pending' \in Seq(Functors) /\ Len(pending') = Len(pending) + 1
    BY <2>1, HandleCloseKeeps
  <2>3. /\ UNCHANGED <<pc, ret, todo, at, peerVars, soError, fin, sendVars, sends,
                       destroyed>>
        /\ revents' = revents \ {"hup"}
    BY <1>2 DEF HandleHangup
  <2>4. /\ revents' \subseteq {"hup", "err", "in", "out"}
        /\ todo' \in 0 .. Len(pending')
    BY <2>2, <2>3 DEF IInv, Types
  <2>5. Types'
    BY <2>2, <2>3, <2>4 DEF IInv, Types, peerVars, sendVars
  <2> QED
    BY <2>2, <2>5 DEF IInv
<1> QED
  BY <1>1, <1>2

\* handleRead keeps it: a message, an error, or the end.
LEMMA HandleReadStep == ASSUME IInv, HandleRead PROVE IInv'
<1>1. CASE inData \/ soError
  <2>1. /\ UNCHANGED <<state_, channelVars, pending, closes, todo, at, peer, msgs,
                       fin, sendVars, sends, destroyed>>
        /\ revents' = revents \ {"in"}
        /\ pc' \in {pc, "user"} /\ ret' \in {ret, "events"}
        /\ inData' \in {inData, FALSE} /\ soError' \in {soError, FALSE}
    BY <1>1 DEF HandleRead
  <2>2. OutputInv'
    BY <2>1, OutputFrame DEF IInv, channelVars, sendVars, peerVars, Broken
  <2>3. CloseFirst'
    BY <2>1 DEF IInv, CloseFirst, NoDestroy
  <2>4. Types'
    <3>1. /\ revents' \subseteq {"hup", "err", "in", "out"}
          /\ pc' \in {"established", "poll", "events", "pending", "user"}
          /\ ret' \in {"poll", "events", "pending"}
          /\ inData' \in BOOLEAN /\ soError' \in BOOLEAN
      BY <2>1 DEF IInv, Types
    <3> QED
      BY <2>1, <3>1 DEF IInv, Types, channelVars, sendVars
  <2> QED
    BY <2>2, <2>3, <2>4 DEF IInv
<1>2. CASE ~inData /\ ~soError
  <2>1. HandleClose /\ UNCHANGED <<sendVars, fin, peer>>
    BY <1>2 DEF HandleRead
  <2>2. /\ OutputInv' /\ CloseFirst'
        /\ state_' = "kDisconnected" /\ reading' = FALSE /\ writing' = FALSE
        /\ inEpoll' \in BOOLEAN /\ closes' \in Nat
        /\ pending' \in Seq(Functors) /\ Len(pending') = Len(pending) + 1
    BY <2>1, HandleCloseKeeps
  <2>3. /\ UNCHANGED <<pc, ret, inData, soError, todo, at, peer, msgs, fin,
                       sendVars, sends, destroyed>>
        /\ revents' = revents \ {"in"}
    BY <1>2 DEF HandleRead
  <2>4. Types'
    <3>1. /\ revents' \subseteq {"hup", "err", "in", "out"}
          /\ todo' \in 0 .. Len(pending')
      BY <2>2, <2>3 DEF IInv, Types
    <3> QED
      BY <2>2, <2>3, <3>1 DEF IInv, Types, sendVars
  <2> QED
    BY <2>2, <2>4 DEF IInv
<1> QED
  BY <1>1, <1>2

\* handleWrite keeps it.
LEMMA HandleWriteStep == ASSUME IInv, HandleWrite PROVE IInv'
<1>1. /\ UNCHANGED reading
      /\ output' \in Seq(Nat) /\ wire' \in Seq(Nat) /\ above' \in Nat
      /\ completed' \in 0 .. given' /\ inflight' \in 0 .. SndBuf
      /\ writing' \in BOOLEAN /\ inEpoll' \in BOOLEAN /\ fin' \in BOOLEAN
      /\ OutputInv'
      /\ pending' \in {pending, Append(pending, Functor("writeComplete"))}
  BY WriteEffect DEF IInv
<1>2. /\ pending' \in Seq(Functors) /\ Len(pending') >= Len(pending)
      /\ NoDestroy(pending) => NoDestroy(pending')
  <2>1. pending \in Seq(Functors) /\ Functor("writeComplete") \in Functors
        /\ Functor("writeComplete").run # "connectDestroyed"
    BY FunctorTypes DEF IInv, Types
  <2> DEFINE q == Append(pending, Functor("writeComplete"))
  <2>2. /\ q \in Seq(Functors) /\ Len(q) = Len(pending) + 1
        /\ NoDestroy(pending) => NoDestroy(q)
    BY <2>1, AppendFunctor
  <2> HIDE DEF q
  <2>3. pending' = pending \/ pending' = q
    BY <1>1 DEF q
  <2> QED
    BY <2>1, <2>2, <2>3
<1>3. CloseFirst'
  BY <1>2 DEF HandleWrite, IInv, CloseFirst
<1>4. Types'
  <2>1. /\ revents' = {}
        /\ UNCHANGED <<state_, pc, ret, todo, at, peerVars, soError, given,
                       dropped, sends, closes, destroyed>>
    BY DEF HandleWrite
  <2>2. todo' \in 0 .. Len(pending')
    BY <1>2, <2>1 DEF IInv, Types
  <2> QED
    BY <1>1, <1>2, <2>1, <2>2 DEF IInv, Types, peerVars
<1> QED
  BY <1>1, <1>3, <1>4 DEF IInv

\* The functor being run is the first of the queue; what is behind it is left.
LEMMA RunsFunctor ==
  ASSUME IInv, NEW f, Runs(f)
  PROVE  /\ pc = "pending" /\ pending[1] = f /\ f \in Functors
         /\ Len(pending) \in Nat \ {0} /\ 1 \in 1 .. todo
         /\ Tail(pending) \in Seq(Functors)
         /\ Len(Tail(pending)) = Len(pending) - 1
         /\ \A i \in 1 .. Len(Tail(pending)) : Tail(pending)[i] = pending[i + 1]
         /\ todo' = todo - 1 /\ todo' \in 0 .. Len(Tail(pending))
         /\ NoDestroy(pending) => NoDestroy(Tail(pending))
<1>1. pending \in Seq(Functors) /\ todo \in 0 .. Len(pending) /\ todo > 0
  BY DEF Runs, IInv, Types
<1>2. /\ pending # <<>> /\ Len(pending) \in Nat \ {0}
      /\ Head(pending) = pending[1]
      /\ Tail(pending) \in Seq(Functors)
      /\ Len(Tail(pending)) = Len(pending) - 1
      /\ \A i \in 1 .. Len(Tail(pending)) : Tail(pending)[i] = pending[i + 1]
      /\ todo - 1 \in 0 .. Len(Tail(pending))
      /\ NoDestroy(pending) => NoDestroy(Tail(pending))
  BY <1>1, TailFunctors
<1>3. pending[1] \in Functors
  BY <1>1, <1>2
<1> QED
  BY <1>1, <1>2, <1>3 DEF Runs

\* What sendInLoop leaves alone keeps its type.
LEMMA SendTypes ==
  ASSUME Types,
         UNCHANGED <<state_, reading, pc, ret, revents, at, peerVars, soError, fin,
                     closes, destroyed>>,
         output' \in Seq(Nat), wire' \in Seq(Nat), given' \in Nat,
         dropped' \in SUBSET (1 .. given'), above' \in Nat,
         completed' \in 0 .. given', inflight' \in 0 .. SndBuf,
         pending' \in Seq(Functors), todo' \in 0 .. Len(pending'),
         writing' \in BOOLEAN, inEpoll' \in BOOLEAN, sends' \in 0 .. MaxSends
  PROVE  Types'
<1>1. /\ state_' \in {"kConnecting", "kConnected", "kDisconnecting", "kDisconnected"}
      /\ pc' \in {"established", "poll", "events", "pending", "user"}
      /\ ret' \in {"poll", "events", "pending"}
      /\ peer' \in {"open", "closed", "reset"}
  BY DEF Types, peerVars
<1>2. /\ reading' \in BOOLEAN /\ soError' \in BOOLEAN /\ inData' \in BOOLEAN
      /\ fin' \in BOOLEAN /\ destroyed' \in BOOLEAN
  BY DEF Types, peerVars
<1>3. /\ revents' \subseteq {"hup", "err", "in", "out"}
      /\ at' \in [Users -> {"idle", "send", "store", "post"}]
      /\ msgs' \in 0 .. MaxMsgs /\ closes' \in Nat
  BY DEF Types, peerVars
<1> QED
  BY <1>1, <1>2, <1>3, Zenon DEF Types

\* A queued sendInLoop keeps it.
LEMMA RunSendStep == ASSUME IInv, NEW n \in 0 .. MaxLen, RunSend(n) PROVE IInv'
<1> DEFINE q == Tail(pending)
<1>1. /\ q \in Seq(Functors)
      /\ todo' \in 0 .. Len(q)
      /\ NoDestroy(pending) => NoDestroy(q)
  BY RunsFunctor DEF RunSend
<1> HIDE DEF q
<1>2. /\ SendInLoop(n, q)
      /\ UNCHANGED <<state_, pc, ret, revents, at, peerVars, soError, fin, sends,
                     closes, destroyed>>
  BY DEF RunSend, q
<1>3. /\ output' \in Seq(Nat) /\ wire' \in Seq(Nat) /\ given' \in Nat
      /\ dropped' \in SUBSET (1 .. given') /\ above' \in Nat
      /\ completed' \in 0 .. given' /\ inflight' \in 0 .. SndBuf
      /\ OutputInv'
      /\ Grown(q, pending') /\ reading' = reading
      /\ \/ UNCHANGED <<writing, inEpoll>>
         \/ state_ # "kDisconnected" /\ writing' = TRUE /\ inEpoll' = TRUE
  BY <1>1, <1>2, SendEffect DEF IInv, peerVars
<1>4. CloseFirst'
  BY <1>1, <1>2, <1>3, GrownNoDestroy DEF IInv, CloseFirst
<1>5. Types'
  <2>1. pending' \in Seq(Functors) /\ todo' \in 0 .. Len(pending')
    BY <1>1, <1>3 DEF Grown
  <2>2. writing' \in BOOLEAN /\ inEpoll' \in BOOLEAN
    BY <1>3 DEF IInv, Types
  <2>3. UNCHANGED <<state_, reading, pc, ret, revents, at, peerVars, soError, fin,
                    sends, closes, destroyed>>
    BY <1>2, <1>3
  <2>4. /\ output' \in Seq(Nat) /\ wire' \in Seq(Nat) /\ given' \in Nat
        /\ dropped' \in SUBSET (1 .. given') /\ above' \in Nat
        /\ completed' \in 0 .. given' /\ inflight' \in 0 .. SndBuf
    BY <1>3
  <2>5. Types /\ sends' \in 0 .. MaxSends
    BY <2>3 DEF IInv, Types
  <2> QED
    BY <2>1, <2>2, <2>3, <2>4, <2>5, SendTypes
<1> QED
  BY <1>3, <1>4, <1>5 DEF IInv

\* send in a callback keeps it.
LEMMA CallSendStep == ASSUME IInv, NEW n \in 0 .. MaxLen, CallSend(n) PROVE IInv'
<1>1. pending \in Seq(Functors)
  BY DEF IInv, Types
<1>2. /\ SendInLoop(n, pending)
      /\ sends < MaxSends /\ sends' = sends + 1
      /\ UNCHANGED <<state_, loopVars, at, peerVars, soError, fin, closes,
                     destroyed>>
  BY DEF CallSend
<1>3. /\ output' \in Seq(Nat) /\ wire' \in Seq(Nat) /\ given' \in Nat
      /\ dropped' \in SUBSET (1 .. given') /\ above' \in Nat
      /\ completed' \in 0 .. given' /\ inflight' \in 0 .. SndBuf
      /\ OutputInv'
      /\ Grown(pending, pending') /\ reading' = reading
      /\ \/ UNCHANGED <<writing, inEpoll>>
         \/ state_ # "kDisconnected" /\ writing' = TRUE /\ inEpoll' = TRUE
  BY <1>1, <1>2, SendEffect DEF IInv, peerVars
<1>4. CloseFirst'
  BY <1>1, <1>2, <1>3, GrownNoDestroy DEF IInv, CloseFirst
<1>5. Types'
  <2>1. pending' \in Seq(Functors) /\ todo' \in 0 .. Len(pending')
    BY <1>2, <1>3 DEF Grown, IInv, Types, loopVars
  <2>2. writing' \in BOOLEAN /\ inEpoll' \in BOOLEAN
    BY <1>3 DEF IInv, Types
  <2>3. sends' \in 0 .. MaxSends
    BY <1>2, ConnectionAssumption DEF IInv, Types
  <2>4. UNCHANGED <<state_, reading, loopVars, at, peerVars, soError, fin, closes,
                    destroyed>>
    BY <1>2, <1>3
  <2>5. /\ output' \in Seq(Nat) /\ wire' \in Seq(Nat) /\ given' \in Nat
        /\ dropped' \in SUBSET (1 .. given') /\ above' \in Nat
        /\ completed' \in 0 .. given' /\ inflight' \in 0 .. SndBuf
    BY <1>3
  <2>6. Types
    BY DEF IInv
  <2> QED
    BY <2>1, <2>2, <2>3, <2>4, <2>5, <2>6, SendTypes DEF loopVars
<1> QED
  BY <1>3, <1>4, <1>5 DEF IInv

\* shutdownInLoop ends the stream only when nothing is buffered.
LEMMA ShutdownKeeps ==
  ASSUME IInv, ShutdownInLoop,
         UNCHANGED <<sendVars, writing, inEpoll, closes, peer>>
  PROVE  OutputInv' /\ fin' \in BOOLEAN
<1>1. fin' \in BOOLEAN
  BY Zenon DEF ShutdownInLoop, IInv, Types
<1>2. ~writing /\ closes = 0 => output = <<>>
  BY DEF IInv, OutputInv, OutputIsWatched
<1>3. FinAfterData'
  <2>1. ASSUME fin' PROVE output = <<>> \/ closes > 0
    <3>1. fin \/ ~writing
      BY <2>1 DEF ShutdownInLoop
    <3>2. closes \in Nat
      BY DEF IInv, Types
    <3> QED
      BY <1>2, <3>1, <3>2 DEF IInv, OutputInv, FinAfterData
  <2> QED
    BY <2>1 DEF FinAfterData, sendVars
<1>4. BytesInOrder' /\ OutputIsWatched' /\ HighWaterOnce' /\ DrainIsAnnounced'
      /\ (writing' => output' # <<>>) /\ (dropped' # {} => Broken')
  BY DEF ShutdownInLoop, Broken, sendVars, IInv, OutputInv, BytesInOrder,
         OutputIsWatched, HighWaterOnce, DrainIsAnnounced
<1> QED
  BY <1>1, <1>3, <1>4 DEF OutputInv

\* A queued shutdownInLoop keeps it.
LEMMA RunShutdownStep == ASSUME IInv, RunShutdown PROVE IInv'
<1>1. /\ Tail(pending) \in Seq(Functors)
      /\ todo' \in 0 .. Len(Tail(pending))
      /\ NoDestroy(pending) => NoDestroy(Tail(pending))
  BY RunsFunctor DEF RunShutdown
<1>2. /\ ShutdownInLoop /\ pending' = Tail(pending)
      /\ UNCHANGED <<state_, channelVars, pc, ret, revents, at, peerVars, soError,
                     sendVars, sends, closes, destroyed>>
  BY DEF RunShutdown
<1>3. OutputInv' /\ fin' \in BOOLEAN
  BY <1>2, ShutdownKeeps DEF channelVars, peerVars
<1>4. CloseFirst'
  BY <1>1, <1>2 DEF IInv, CloseFirst
<1>5. Types'
  BY <1>1, <1>2, <1>3 DEF IInv, Types, channelVars, peerVars, sendVars
<1> QED
  BY <1>3, <1>4, <1>5 DEF IInv

\* shutdown in a callback keeps it.
LEMMA CallShutdownStep == ASSUME IInv, CallShutdown PROVE IInv'
<1>2. /\ ShutdownInLoop /\ state_' = "kDisconnecting"
      /\ UNCHANGED <<channelVars, loopVars, pending, at, peerVars, soError,
                     sendVars, sends, closes, destroyed>>
  BY DEF CallShutdown
<1>3. OutputInv' /\ fin' \in BOOLEAN
  BY <1>2, ShutdownKeeps DEF channelVars, peerVars
<1>4. CloseFirst'
  BY <1>2 DEF IInv, CloseFirst, NoDestroy
<1>5. Types'
  BY <1>2, <1>3 DEF IInv, Types, channelVars, loopVars, peerVars, sendVars
<1> QED
  BY <1>3, <1>4, <1>5 DEF IInv

\* The write-complete and high-water callbacks keep it.
LEMMA RunCallbackStep ==
  ASSUME IInv, NEW f \in {"writeComplete", "highWater"}, RunCallback(f)
  PROVE  IInv'
<1>1. /\ Tail(pending) \in Seq(Functors)
      /\ todo' \in 0 .. Len(Tail(pending))
      /\ NoDestroy(pending) => NoDestroy(Tail(pending))
  BY RunsFunctor DEF RunCallback
<1>2. /\ pc' = "user" /\ ret' = "pending" /\ pending' = Tail(pending)
      /\ UNCHANGED <<state_, channelVars, revents, at, peerVars, soError, fin,
                     sendVars, sends, closes, destroyed>>
  BY DEF RunCallback
<1>3. OutputInv'
  BY <1>2, OutputFrame DEF IInv, channelVars, sendVars, peerVars, Broken
<1>4. CloseFirst'
  BY <1>1, <1>2 DEF IInv, CloseFirst
<1>5. Types'
  BY <1>1, <1>2 DEF IInv, Types, channelVars, peerVars, sendVars
<1> QED
  BY <1>3, <1>4, <1>5 DEF IInv

\* connectDestroyed keeps it.
LEMMA RunDestroyedStep == ASSUME IInv, RunDestroyed PROVE IInv'
<1>1. /\ Tail(pending) \in Seq(Functors)
      /\ todo' \in 0 .. Len(Tail(pending))
      /\ pending[1] = Functor("connectDestroyed")
      /\ Len(pending) \in Nat \ {0}
  BY RunsFunctor DEF RunDestroyed
<1>2. /\ inEpoll' = FALSE /\ destroyed' = TRUE /\ pending' = Tail(pending)
      /\ UNCHANGED <<state_, reading, writing, pc, ret, revents, at, peerVars,
                     soError, fin, sendVars, sends, closes>>
  BY DEF RunDestroyed
<1>3. closes # 0
  BY <1>1, FunctorTypes DEF IInv, CloseFirst, NoDestroy
<1>4. OutputInv'
  BY <1>2, <1>3 DEF sendVars, peerVars, IInv, OutputInv, BytesInOrder,
                    OutputIsWatched, FinAfterData, HighWaterOnce,
                    DrainIsAnnounced, Broken
<1>5. CloseFirst'
  BY <1>2, <1>3 DEF CloseFirst
<1>6. Types'
  <2>1. pending' \in Seq(Functors) /\ todo' \in 0 .. Len(pending')
    BY <1>1, <1>2
  <2>2. inEpoll' \in BOOLEAN /\ destroyed' \in BOOLEAN
    BY <1>2
  <2>3. UNCHANGED <<state_, reading, writing, pc, ret, revents, at, peerVars,
                    soError, fin, sendVars, sends, closes>>
    BY <1>2
  <2> QED
    BY <2>1, <2>2, <2>3 DEF IInv, Types, peerVars, sendVars
<1> QED
  BY <1>4, <1>5, <1>6 DEF IInv

\* A call of another thread keeps it at each of its steps.
LEMMA UserCallStep ==
  ASSUME IInv, NEW u \in Users, UserGoesOn(u) \/ UserCalls(u)
  PROVE  IInv'
<1>1. UNCHANGED <<channelVars, loopVars, peerVars, soError, fin, sendVars, closes,
                  destroyed>>
  BY DEF UserGoesOn, UserCalls
<1>2. OutputInv'
  BY <1>1, OutputFrame DEF IInv, channelVars, sendVars, peerVars, Broken
<1>3. /\ state_' \in {state_, "kDisconnecting"}
      /\ sends' \in 0 .. MaxSends
      /\ at' \in [Users -> {"idle", "send", "store", "post"}]
      /\ \/ pending' = pending
         \/ \E n \in 0 .. MaxLen : pending' = Append(pending, SendFunctor(n))
         \/ pending' = Append(pending, Functor("shutdownInLoop"))
  <2>1. \/ (\E n \in 0 .. MaxLen : UserQueueSend(u, n))
        \/ UserStore(u) \/ UserPost(u) \/ UserSend(u) \/ UserShutdown(u)
    BY DEF UserGoesOn, UserCalls
  <2>2. /\ \E to \in {"idle", "send", "store", "post"} :
             at' = [at EXCEPT ![u] = to]
        /\ state_' = state_ \/ state_' = "kDisconnecting"
        /\ sends' = sends \/ (sends < MaxSends /\ sends' = sends + 1)
        /\ \/ pending' = pending
           \/ \E n \in 0 .. MaxLen : pending' = Append(pending, SendFunctor(n))
           \/ pending' = Append(pending, Functor("shutdownInLoop"))
    BY <2>1
       DEF UserStep, UserQueueSend, UserStore, UserPost, UserSend, UserShutdown
  <2>3. at' \in [Users -> {"idle", "send", "store", "post"}]
    BY <2>2 DEF IInv, Types
  <2>4. sends' \in 0 .. MaxSends
    BY <2>2, ConnectionAssumption DEF IInv, Types
  <2> QED
    BY <2>2, <2>3, <2>4
<1>4. /\ pending' \in Seq(Functors) /\ Len(pending') >= Len(pending)
      /\ NoDestroy(pending) => NoDestroy(pending')
  <2>1. pending \in Seq(Functors) /\ Len(pending) \in Nat
    BY DEF IInv, Types
  <2>2. ASSUME NEW f \in Functors, f.run # "connectDestroyed",
               pending' = Append(pending, f)
        PROVE  /\ pending' \in Seq(Functors) /\ Len(pending') >= Len(pending)
               /\ NoDestroy(pending) => NoDestroy(pending')
    BY <2>1, <2>2, AppendFunctor
  <2> QED
    BY <1>3, <2>1, <2>2, FunctorTypes
<1>5. CloseFirst'
  BY <1>1, <1>4 DEF IInv, CloseFirst
<1>6. Types'
  <2>1. todo' \in 0 .. Len(pending')
    BY <1>1, <1>4 DEF IInv, Types, loopVars
  <2> QED
    BY <1>1, <1>3, <1>4, <2>1
       DEF IInv, Types, channelVars, loopVars, peerVars, sendVars
<1> QED
  BY <1>2, <1>5, <1>6 DEF IInv

\* Every step keeps the invariant.
LEMMA NextIInv == IInv /\ [Next]_vars => IInv'
<1> SUFFICES ASSUME IInv, [Next]_vars PROVE IInv'
  OBVIOUS
<1>1. CASE LoopThread
  BY <1>1, ConnectEstablishedStep, LoopStep, HandleHangupStep, HandleReadStep,
     HandleWriteStep, RunSendStep, CallSendStep, RunShutdownStep, CallShutdownStep,
     RunCallbackStep, RunDestroyedStep DEF LoopThread
<1>2. CASE \E u \in Users : UserGoesOn(u) \/ UserCalls(u)
  BY <1>2, UserCallStep
<1>3. CASE UNCHANGED vars
  <2>1. UNCHANGED <<state_, channelVars, loopVars, pending, at, peerVars, soError,
                    fin, sendVars, sends, closes, destroyed>>
    BY <1>3 DEF vars
  <2>2. OutputInv'
    BY <2>1, OutputFrame DEF IInv, channelVars, sendVars, peerVars, Broken
  <2>3. CloseFirst'
    BY <2>1 DEF IInv, CloseFirst, NoDestroy
  <2>4. Types'
    BY <2>1 DEF IInv, Types, channelVars, loopVars, peerVars, sendVars
  <2> QED
    BY <2>2, <2>3, <2>4 DEF IInv
<1> QED
  BY <1>1, <1>2, <1>3, PeerStep DEF Next

-----------------------------------------------------------------------------
(***************************************************************************)
(* The theorems about the output side.                                     *)
(***************************************************************************)

\* The inductive invariant holds of every behaviour.
THEOREM Invariance == Spec => []IInv
<1> QED
  BY InitIInv, NextIInv, PTL DEF Spec

\* What sendInLoop is given, from whichever thread and by way of the buffer or
\* not, reaches the kernel in that order, once, and whole but for what an error
\* stopped (TcpConnection.cc:80, 173).
THEOREM BytesOrdered == Spec => []BytesInOrder
<1>1. IInv => BytesInOrder
  BY DEF IInv, OutputInv
<1> QED
  BY <1>1, Invariance, PTL

\* Until the close, EPOLLOUT is watched for exactly while output is buffered
\* (TcpConnection.cc:94, 232).
THEOREM OutputWatched == Spec => []OutputIsWatched
<1>1. IInv => OutputIsWatched
  BY DEF IInv, OutputInv
<1> QED
  BY <1>1, Invariance, PTL

\* The stream is ended only when nothing is buffered, or after the close
\* (TcpConnection.cc:103, 272).
THEOREM FinBehindOutput == Spec => []FinAfterData
<1>1. IInv => FinAfterData
  BY DEF IInv, OutputInv
<1> QED
  BY <1>1, Invariance, PTL

\* The high-water callback is queued once for each rise of the buffer to the mark
\* (TcpConnection.cc:221).
THEOREM HighWaterToldOnce == Spec => []HighWaterOnce
<1>1. IInv => HighWaterOnce
  BY DEF IInv, OutputInv
<1> QED
  BY <1>1, Invariance, PTL

\* A write-complete callback is queued only when every byte given to sendInLoop by
\* then has been written, and always when the buffer is left empty
\* (TcpConnection.cc:99, 193).
THEOREM DrainAnnounced == Spec => []DrainIsAnnounced
<1>1. IInv => DrainIsAnnounced
  BY DEF IInv, OutputInv
<1> QED
  BY <1>1, Invariance, PTL

\* Every variable keeps its type; what is buffered or written has been given.
THEOREM TypeCorrect == Spec => []TypeOK
<1>1. IInv => TypeOK
  <2> SUFFICES ASSUME IInv PROVE TypeOK
    OBVIOUS
  <2>1. wire \in Seq(Nat) /\ output \in Seq(Nat)
    BY DEF IInv, Types
  <2>2. Range(wire) \cup Range(output) = 1 .. given \ dropped
    <3>1. Range(wire \o output) = 1 .. given \ dropped
      BY DEF IInv, OutputInv, BytesInOrder
    <3> QED
      BY <2>1, <3>1, RangeConcatenation
  <2>3. wire \in Seq(1 .. given)
    <3>1. wire \in Seq(Range(wire)) /\ Range(wire) \subseteq 1 .. given
      BY <2>1, <2>2, SeqOfRange
    <3> QED
      BY <3>1, SeqMonotonic
  <2>4. output \in Seq(1 .. given)
    <3>1. output \in Seq(Range(output)) /\ Range(output) \subseteq 1 .. given
      BY <2>1, <2>2, SeqOfRange
    <3> QED
      BY <3>1, SeqMonotonic
  <2>5. Types
    BY DEF IInv
  <2> QED
    BY <2>3, <2>4, <2>5 DEF Types, TypeOK
<1> QED
  BY <1>1, Invariance, PTL

-----------------------------------------------------------------------------
(***************************************************************************)
(* The inductive invariant of the close, for at most one thread besides    *)
(* the loop's.                                                             *)
(***************************************************************************)

\* At most one thread besides the loop's calls the connection.
AtMostOneUser == \A u, v \in Users : u = v

\* How many functors run before the loop can poll again.
Ahead == IF pc = "pending" \/ (pc = "user" /\ ret = "pending")
           THEN todo ELSE Len(pending)

\* connectDestroyed runs before the loop can poll again.
DestroyQueued == \E i \in 1 .. Ahead : pending[i].run = "connectDestroyed"

\* No sendInLoop is to come behind connectDestroyed.
NoSendBehind ==
  /\ \A u \in Users : at[u] # "send"
  /\ \A i \in 1 .. Len(pending) : pending[i].run = "sendInLoop" =>
       ~destroyed /\ \A j \in 1 .. i : pending[j].run # "connectDestroyed"

\* state_ is, or is about to be, moved away from kDisconnected.
StoreComes == state_ = "kDisconnecting" \/ \E u \in Users : at[u] = "store"

\* The loop is handling the events of a poll.
Handling == pc = "events" \/ (pc = "user" /\ ret = "events")

\* The close: until it comes epoll watches the channel; it comes once,
\* connectDestroyed is run in the turn of the close, and what is still to be
\* handled then can neither close again nor, when a late shutdown() makes state_
\* kDisconnecting again, send.
ClosingInv ==
  /\ closes <= 1
  /\ pc = "established" \/ (pc = "user" /\ ret = "poll") => closes = 0
  /\ closes = 0 /\ pc # "established" => reading /\ inEpoll
  /\ revents # {} => Handling
  /\ closes > 0 =>
       /\ state_ \in {"kDisconnecting", "kDisconnected"}
       /\ revents \subseteq {"err", "out"}
       /\ destroyed \/ DestroyQueued
       /\ pc = "poll" => destroyed
       /\ Handling => ~inEpoll /\ (destroyed \/ ~writing)
       /\ StoreComes => NoSendBehind
  /\ destroyed => ~inEpoll /\ revents = {}

\* A queue r that goes on from q with functors that neither send nor destroy.
Longer(q, r) ==
  /\ r \in Seq(Functors)
  /\ Len(q) <= Len(r)
  /\ \A i \in 1 .. Len(q) : r[i] = q[i]
  /\ \A i \in Len(q) + 1 .. Len(r) :
       r[i].run # "sendInLoop" /\ r[i].run # "connectDestroyed"

\* Such a functor queued is one.
LEMMA AppendIsLonger ==
  ASSUME NEW q \in Seq(Functors), NEW f \in Functors,
         f.run # "sendInLoop", f.run # "connectDestroyed"
  PROVE  Longer(q, Append(q, f))
<1>1. /\ Append(q, f) \in Seq(Functors)
      /\ Len(Append(q, f)) = Len(q) + 1
      /\ \A i \in 1 .. Len(q) : Append(q, f)[i] = q[i]
      /\ Append(q, f)[Len(q) + 1] = f
  BY AppendFunctor
<1>2. \A i \in Len(q) + 1 .. Len(Append(q, f)) : i = Len(q) + 1
  BY <1>1
<1> QED
  BY <1>1, <1>2 DEF Longer

\* The callbacks sendInLoop queues are such.
LEMMA GrownIsLonger ==
  ASSUME NEW q \in Seq(Functors), NEW r, Grown(q, r)
  PROVE  Longer(q, r)
BY DEF Grown, Longer

\* At the end of the queue, what comes neither sends nor destroys.
LEMMA QueueGrows ==
  ASSUME Types, Longer(pending, pending'), UNCHANGED <<pc, ret, todo, destroyed>>
  PROVE  /\ DestroyQueued => DestroyQueued'
         /\ NoSendBehind /\ (\A u \in Users : at'[u] = "send" => at[u] = "send")
              => NoSendBehind'
<1>1. /\ Len(pending) \in Nat /\ Len(pending') \in Nat /\ todo \in 0 .. Len(pending)
      /\ Len(pending) <= Len(pending')
      /\ \A i \in 1 .. Len(pending) : pending'[i] = pending[i]
      /\ \A i \in Len(pending) + 1 .. Len(pending') :
           pending'[i].run # "sendInLoop" /\ pending'[i].run # "connectDestroyed"
  BY DEF Types, Longer
<1>2. ASSUME DestroyQueued PROVE DestroyQueued'
  <2>1. PICK i \in 1 .. Ahead : pending[i].run = "connectDestroyed"
    BY <1>2 DEF DestroyQueued
  <2>2. i \in 1 .. Len(pending) /\ i \in 1 .. Ahead'
    BY <1>1 DEF Ahead
  <2> QED
    BY <1>1, <2>1, <2>2 DEF DestroyQueued
<1>3. ASSUME NoSendBehind, NEW i \in 1 .. Len(pending'),
             pending'[i].run = "sendInLoop"
      PROVE  ~destroyed /\ \A j \in 1 .. i : pending'[j].run # "connectDestroyed"
  <2>1. i \in 1 .. Len(pending) /\ pending[i].run = "sendInLoop"
    BY <1>1, <1>3
  <2>2. \A j \in 1 .. i : j \in 1 .. Len(pending)
    BY <2>1
  <2> QED
    BY <1>1, <1>3, <2>1, <2>2 DEF NoSendBehind
<1> QED
  BY <1>2, <1>3 DEF NoSendBehind

\* A functor other than connectDestroyed leaves the queue.
LEMMA QueueShrinks ==
  ASSUME IInv, NEW f, Runs(f), f.run # "connectDestroyed",
         Longer(Tail(pending), pending'),
         pc' = "pending" \/ (pc' = "user" /\ ret' = "pending"),
         UNCHANGED <<at, destroyed>>
  PROVE  /\ DestroyQueued => DestroyQueued'
         /\ NoSendBehind => NoSendBehind'
<1> DEFINE q == Tail(pending)
<1>1. /\ pc = "pending" /\ pending[1] = f /\ 1 \in 1 .. todo
      /\ Len(pending) \in Nat \ {0}
      /\ Len(q) = Len(pending) - 1
      /\ \A i \in 1 .. Len(q) : q[i] = pending[i + 1]
      /\ todo' = todo - 1 /\ todo' \in 0 .. Len(q)
  BY RunsFunctor
<1> HIDE DEF q
<1>2. /\ Len(pending') \in Nat /\ Len(q) <= Len(pending')
      /\ todo \in 0 .. Len(pending)
      /\ \A i \in 1 .. Len(q) : pending'[i] = q[i]
      /\ \A i \in Len(q) + 1 .. Len(pending') :
           pending'[i].run # "sendInLoop" /\ pending'[i].run # "connectDestroyed"
  <2>1. todo \in 0 .. Len(pending)
    BY DEF IInv, Types
  <2>2. Longer(q, pending')
    BY DEF q
  <2> QED
    BY <2>1, <2>2 DEF Longer
<1>3. ASSUME DestroyQueued PROVE DestroyQueued'
  <2>1. PICK i \in 1 .. todo : pending[i].run = "connectDestroyed"
    BY <1>1, <1>3 DEF DestroyQueued, Ahead
  <2>2. i # 1
    BY <1>1, <2>1
  <2>3. i - 1 \in 1 .. todo' /\ i - 1 \in 1 .. Len(q) /\ (i - 1) + 1 = i
    BY <1>1, <1>2, <2>2
  <2>4. pending'[i - 1] = pending[i]
    BY <1>1, <1>2, <2>3
  <2>5. Ahead' = todo'
    BY DEF Ahead
  <2> QED
    BY <2>1, <2>3, <2>4, <2>5 DEF DestroyQueued
<1>4. ASSUME NoSendBehind, NEW i \in 1 .. Len(pending'),
             pending'[i].run = "sendInLoop"
      PROVE  ~destroyed /\ \A j \in 1 .. i : pending'[j].run # "connectDestroyed"
  <2>1. i \in 1 .. Len(q)
    BY <1>1, <1>2, <1>4
  <2>2. i + 1 \in 1 .. Len(pending) /\ pending[i + 1].run = "sendInLoop"
    BY <1>1, <1>2, <1>4, <2>1
  <2>3. ~destroyed /\ \A j \in 1 .. i + 1 : pending[j].run # "connectDestroyed"
    BY <1>4, <2>2 DEF NoSendBehind
  <2>4. \A j \in 1 .. i : /\ j \in 1 .. Len(q) /\ j + 1 \in 1 .. i + 1
                          /\ pending'[j] = pending[j + 1]
    BY <1>1, <1>2, <2>1
  <2> QED
    BY <2>3, <2>4
<1> QED
  BY <1>3, <1>4 DEF NoSendBehind

\* A step that leaves the close alone keeps ClosingInv.
LEMMA ClosingFrame ==
  ASSUME ClosingInv, revents' \subseteq revents,
         UNCHANGED <<closes, destroyed, state_, channelVars, pending, pc, ret, todo,
                     at>>
  PROVE  ClosingInv'
<1>1. /\ DestroyQueued' = DestroyQueued
      /\ NoSendBehind' = NoSendBehind
      /\ StoreComes' = StoreComes
  BY DEF DestroyQueued, Ahead, NoSendBehind, StoreComes
<1>2. UNCHANGED <<reading, writing, inEpoll>> /\ Handling' = Handling
  BY DEF channelVars, Handling
<1> QED
  BY <1>1, <1>2 DEF ClosingInv

\* So does one of a connection that is not closed and stays so.
LEMMA ClosingOpen ==
  ASSUME IInv, closes = 0, UNCHANGED <<closes, destroyed>>,
         pc' # "established" => reading' /\ inEpoll', revents' # {} => Handling'
  PROVE  ClosingInv'
BY DEF IInv, CloseFirst, ClosingInv

\* A connected connection has not been closed.
LEMMA ClosingConnected ==
  ASSUME IInv, ClosingInv, state_ = "kConnected"
  PROVE  closes = 0
BY DEF IInv, Types, ClosingInv

\* handleClose keeps ClosingInv.  This is where the one thread comes in: about to
\* store kDisconnecting, it is not about to queue a send as well.
LEMMA HandleCloseCloses ==
  ASSUME IInv, ClosingInv, AtMostOneUser, HandleClose, pc = "events",
         ~(revents \subseteq {"err", "out"}), revents' \subseteq {"err", "out"},
         UNCHANGED <<pc, ret, todo, at, destroyed>>
  PROVE  ClosingInv'
<1>1. closes = 0 /\ ~destroyed /\ NoDestroy(pending)
  BY DEF ClosingInv, IInv, Types, CloseFirst
<1>2. /\ state_' = "kDisconnected" /\ closes' = 1
      /\ pending' = Append(pending, Functor("connectDestroyed"))
  BY <1>1 DEF HandleClose
<1>6. writing' = FALSE /\ inEpoll' = FALSE
  BY <1>1 DEF HandleClose, Update, ClosingInv
<1>3. /\ Len(pending) \in Nat
      /\ Len(pending') = Len(pending) + 1
      /\ \A i \in 1 .. Len(pending) : pending'[i] = pending[i]
      /\ pending'[Len(pending) + 1].run = "connectDestroyed"
  BY <1>2, FunctorTypes, AppendFunctor DEF IInv, Types
<1>4. DestroyQueued'
  <2>1. Ahead' = Len(pending) + 1
    BY <1>3 DEF Ahead
  <2>2. Len(pending) + 1 \in 1 .. Len(pending) + 1
    BY <1>3
  <2> QED
    BY <1>3, <2>1, <2>2 DEF DestroyQueued
<1>5. ASSUME StoreComes' PROVE NoSendBehind'
  <2>1. PICK u \in Users : at[u] = "store"
    BY <1>2, <1>5 DEF StoreComes
  <2>2. \A v \in Users : at'[v] # "send"
    BY <2>1 DEF AtMostOneUser
  <2>3. ASSUME NEW i \in 1 .. Len(pending'), pending'[i].run = "sendInLoop"
        PROVE  \A j \in 1 .. i : pending'[j].run # "connectDestroyed"
    <3>1. i # Len(pending) + 1
      BY <1>3, <2>3
    <3>2. \A j \in 1 .. i : j \in 1 .. Len(pending)
      BY <1>3, <3>1
    <3> QED
      BY <1>1, <1>3, <3>2 DEF NoDestroy
  <2> QED
    BY <1>1, <2>2, <2>3 DEF NoSendBehind
<1> QED
  BY <1>1, <1>2, <1>4, <1>5, <1>6 DEF ClosingInv, Handling

\* A poll after the close finds no events.
LEMMA PollCloses == ASSUME IInv, ClosingInv, Poll PROVE ClosingInv'
<1>1. /\ pc = "poll" /\ pc' = "events" /\ revents' = Events
      /\ UNCHANGED <<state_, reading, inEpoll, ret, todo, pending, at, closes,
                     destroyed>>
  BY DEF Poll, channelVars
<1>2. CASE closes = 0
  BY <1>1, <1>2, ClosingOpen DEF ClosingInv, Handling
<1>3. CASE closes # 0
  <2>1. closes > 0 /\ destroyed /\ ~inEpoll
    BY <1>1, <1>3 DEF ClosingInv, IInv, Types
  <2>2. revents' = {}
    BY <1>1, <2>1 DEF Events
  <2>3. NoSendBehind' = NoSendBehind /\ StoreComes' = StoreComes
    BY <1>1 DEF NoSendBehind, StoreComes
  <2> QED
    BY <1>1, <2>1, <2>2, <2>3 DEF ClosingInv
<1> QED
  BY <1>2, <1>3

\* The swap takes connectDestroyed along, and no batch ends before it has run.
LEMMA BatchCloses ==
  ASSUME IInv, ClosingInv, Swap \/ EndBatch \/ CallbackReturns
  PROVE  ClosingInv'
<1>1. /\ UNCHANGED <<state_, reading, writing, inEpoll, ret, revents, pending, at,
                     closes, destroyed>>
      /\ \/ pc = "events" /\ revents = {} /\ pc' = "pending" /\ todo' = Len(pending)
         \/ pc = "pending" /\ todo = 0 /\ pc' = "poll" /\ todo' = todo
         \/ pc = "user" /\ pc' = ret /\ todo' = todo
  BY DEF Swap, EndBatch, CallbackReturns, channelVars
<1>2. NoSendBehind' = NoSendBehind /\ StoreComes' = StoreComes
  BY <1>1 DEF NoSendBehind, StoreComes
<1>3. (revents' # {} => Handling') /\ (Handling' => Handling)
  BY <1>1 DEF ClosingInv, Handling
<1>4. CASE closes = 0
  BY <1>1, <1>3, <1>4, ClosingOpen DEF ClosingInv
<1>5. CASE closes # 0
  <2>1. closes > 0
    BY <1>5 DEF IInv, Types
  <2>2. DestroyQueued => destroyed \/ DestroyQueued'
    <3>1. ASSUME DestroyQueued, pc = "pending", todo = 0 PROVE FALSE
      BY <3>1 DEF DestroyQueued, Ahead
    <3>2. ASSUME ~(pc = "pending" /\ todo = 0) PROVE Ahead' = Ahead
      <4>1. ret \in {"events", "pending"}
            \/ pc # "user"
        BY <2>1 DEF ClosingInv, IInv, Types
      <4> QED
        BY <1>1, <3>2, <4>1 DEF Ahead
    <3> QED
      BY <1>1, <3>1, <3>2 DEF DestroyQueued
  <2>3. pc' = "poll" => destroyed
    <3>1. ASSUME pc = "pending", todo = 0 PROVE ~DestroyQueued
      BY <3>1 DEF DestroyQueued, Ahead
    <3> QED
      BY <1>1, <2>1, <3>1 DEF ClosingInv, IInv, Types
  <2>4. pc' # "established" /\ pc' # "user"
    BY <1>1 DEF IInv, Types
  <2> QED
    BY <1>1, <1>2, <1>3, <2>1, <2>2, <2>3, <2>4 DEF ClosingInv
<1> QED
  BY <1>4, <1>5

\* handleWrite of a closed connection finds that the channel has stopped writing.
LEMMA HandleWriteCloses == ASSUME IInv, ClosingInv, HandleWrite PROVE ClosingInv'
<1>1. /\ pc = "events" /\ revents = {"out"} /\ revents' = {}
      /\ UNCHANGED <<state_, pc, ret, todo, at, closes, destroyed>>
  BY DEF HandleWrite
<1>2. CASE closes = 0
  <2>1. reading /\ inEpoll
    BY <1>1, <1>2 DEF ClosingInv
  <2>2. reading' /\ inEpoll'
    BY <2>1 DEF HandleWrite, Update, channelVars
  <2> QED
    BY <1>1, <1>2, <2>2, ClosingOpen
<1>3. CASE closes # 0
  <2>1. closes > 0
    BY <1>3 DEF IInv, Types
  <2>2. ~writing
    BY <1>1, <2>1 DEF ClosingInv, Handling
  <2>3. UNCHANGED <<channelVars, pending>>
    BY <2>2 DEF HandleWrite, Stopped
  <2> QED
    BY <1>1, <2>3, ClosingFrame
<1> QED
  BY <1>2, <1>3

\* A functor run after the close turns no channel on.
LEMMA RunCloses ==
  ASSUME IInv, ClosingInv, NEW f, Runs(f), f.run # "connectDestroyed",
         Longer(Tail(pending), pending'),
         pc' = "pending" \/ (pc' = "user" /\ ret' = "pending"),
         destroyed => inEpoll' = FALSE, reading' = reading, inEpoll => inEpoll',
         UNCHANGED <<state_, revents, at, closes, destroyed>>
  PROVE  ClosingInv'
<1>1. pc = "pending" /\ ~Handling'
  BY DEF Runs, Handling
<1>2. revents' = {}
  BY <1>1 DEF ClosingInv, Handling
<1>3. /\ DestroyQueued => DestroyQueued'
      /\ NoSendBehind => NoSendBehind'
  BY QueueShrinks
<1>4. StoreComes' = StoreComes
  BY DEF StoreComes
<1>5. CASE closes = 0
  BY <1>1, <1>2, <1>5, ClosingOpen DEF ClosingInv
<1>6. CASE closes # 0
  BY <1>1, <1>2, <1>3, <1>4, <1>6 DEF ClosingInv, IInv, Types
<1> QED
  BY <1>5, <1>6

\* Neither does a queued sendInLoop, which gives up or runs first.
LEMMA RunSendCloses ==
  ASSUME IInv, ClosingInv, NEW n \in 0 .. MaxLen, RunSend(n)
  PROVE  ClosingInv'
<1> DEFINE f == SendFunctor(n)
           q == Tail(pending)
<1>1. /\ Runs(f) /\ SendInLoop(n, q)
      /\ UNCHANGED <<state_, pc, ret, revents, at, fin, closes, destroyed, peer>>
  BY DEF RunSend, peerVars
<1>2. f.run = "sendInLoop"
  BY FunctorTypes
<1> HIDE DEF f
<1>3. /\ pc = "pending" /\ pending[1] = f /\ q \in Seq(Functors)
      /\ Len(pending) \in Nat \ {0}
  BY <1>1, RunsFunctor
<1> HIDE DEF q
<1>4. /\ Grown(q, pending') /\ reading' = reading
      /\ \/ UNCHANGED <<writing, inEpoll>>
         \/ state_ # "kDisconnected" /\ writing' = TRUE /\ inEpoll' = TRUE
  BY <1>1, <1>3, SendEffect DEF IInv
<1>5. Longer(q, pending')
  BY <1>3, <1>4, GrownIsLonger
<1>6. destroyed => inEpoll' = FALSE
  <2> SUFFICES ASSUME destroyed, inEpoll' # FALSE PROVE FALSE
    OBVIOUS
  <2>1. inEpoll = FALSE /\ closes > 0
    BY DEF ClosingInv, IInv, Types, CloseFirst
  <2>2. state_ = "kDisconnecting"
    BY <1>4, <2>1 DEF ClosingInv, IInv, Types
  <2>3. NoSendBehind
    BY <2>1, <2>2 DEF ClosingInv, StoreComes
  <2>4. 1 \in 1 .. Len(pending)
    BY <1>3
  <2> QED
    BY <1>2, <1>3, <2>3, <2>4 DEF NoSendBehind
<1>7. inEpoll => inEpoll'
  BY <1>4
<1> QED
  BY <1>1, <1>2, <1>3, <1>4, <1>5, <1>6, <1>7, RunCloses DEF q

\* Nor shutdownInLoop and the callbacks.
LEMMA RunOtherCloses ==
  ASSUME IInv, ClosingInv,
         RunShutdown \/ RunCallback("writeComplete") \/ RunCallback("highWater")
  PROVE  ClosingInv'
<1>1. PICK f \in {"shutdownInLoop", "writeComplete", "highWater"} :
        /\ Runs(Functor(f)) /\ pending' = Tail(pending)
        /\ UNCHANGED <<state_, reading, inEpoll, revents, at, closes, destroyed>>
        /\ (pc' = pc /\ ret' = ret) \/ (pc' = "user" /\ ret' = "pending")
  BY DEF RunShutdown, RunCallback, channelVars
<1>2. pc = "pending" /\ Tail(pending) \in Seq(Functors)
  BY <1>1, RunsFunctor
<1>3. Longer(Tail(pending), pending')
  BY <1>1, <1>2 DEF Longer
<1>4. destroyed => inEpoll' = FALSE
  BY <1>1 DEF ClosingInv, IInv, Types
<1>5. Functor(f).run # "connectDestroyed"
  BY FunctorTypes
<1> QED
  BY <1>1, <1>2, <1>3, <1>4, <1>5, RunCloses

\* connectDestroyed takes the channel off epoll for good.
LEMMA RunDestroyedCloses == ASSUME IInv, ClosingInv, RunDestroyed PROVE ClosingInv'
<1>1. /\ pc = "pending" /\ pending[1] = Functor("connectDestroyed")
      /\ Len(pending) \in Nat \ {0}
      /\ Len(Tail(pending)) = Len(pending) - 1
      /\ \A i \in 1 .. Len(Tail(pending)) : Tail(pending)[i] = pending[i + 1]
  BY RunsFunctor DEF RunDestroyed
<1>2. /\ inEpoll' = FALSE /\ destroyed' = TRUE /\ pending' = Tail(pending)
      /\ UNCHANGED <<state_, pc, ret, revents, at, closes>>
  BY DEF RunDestroyed
<1>3. revents = {} /\ ~Handling' /\ closes # 0
  <2>1. closes # 0
    BY <1>1, FunctorTypes DEF IInv, CloseFirst, NoDestroy
  <2> QED
    BY <1>1, <1>2, <2>1 DEF ClosingInv, Handling
<1>4. ASSUME NoSendBehind PROVE NoSendBehind'
  <2>1. ASSUME NEW i \in 1 .. Len(pending'), pending'[i].run = "sendInLoop"
        PROVE  FALSE
    <3>1. i + 1 \in 1 .. Len(pending) /\ 1 \in 1 .. i + 1
      BY <1>1, <1>2, <2>1
    <3>2. pending[i + 1].run = "sendInLoop"
      BY <1>1, <1>2, <2>1
    <3>3. pending[1].run # "connectDestroyed"
      BY <1>4, <3>1, <3>2 DEF NoSendBehind
    <3> QED
      BY <1>1, <3>3, FunctorTypes
  <2> QED
    BY <1>2, <1>4, <2>1 DEF NoSendBehind
<1>5. StoreComes' = StoreComes
  BY <1>2 DEF StoreComes
<1> QED
  BY <1>1, <1>2, <1>3, <1>4, <1>5 DEF ClosingInv

\* A call of the one other thread keeps ClosingInv at each of its steps.
LEMMA UserCallCloses ==
  ASSUME IInv, ClosingInv, NEW u \in Users, UserGoesOn(u) \/ UserCalls(u)
  PROVE  ClosingInv'
<1>1. /\ UNCHANGED <<reading, writing, inEpoll, pc, ret, revents, todo, closes,
                     destroyed>>
      /\ Handling' = Handling /\ (revents' # {} => Handling')
  BY DEF UserGoesOn, UserCalls, ClosingInv, loopVars, channelVars, Handling
<1>2. CASE closes = 0
  BY <1>1, <1>2, ClosingOpen DEF ClosingInv
<1>3. CASE closes # 0
  <2>1. closes > 0 /\ state_ # "kConnected"
    BY <1>3 DEF ClosingInv, IInv, Types
  <2>2. /\ pending \in Seq(Functors)
        /\ at \in [Users -> {"idle", "send", "store", "post"}]
    BY DEF IInv, Types
  <2>3. /\ destroyed \/ DestroyQueued
        /\ StoreComes => NoSendBehind
    BY <2>1 DEF ClosingInv
  <2>4. SUFFICES /\ state_' \in {"kDisconnecting", "kDisconnected"}
                 /\ DestroyQueued => DestroyQueued'
                 /\ StoreComes' => NoSendBehind'
    BY <1>1, <2>1, <2>3, <2>4 DEF ClosingInv
  <2>5. state_ \in {"kDisconnecting", "kDisconnected"}
    BY <2>1 DEF ClosingInv
  <2>6. CASE \E n \in 0 .. MaxLen : UserQueueSend(u, n)
    <3>1. PICK n \in 0 .. MaxLen : UserQueueSend(u, n)
      BY <2>6
    <3>2. /\ at[u] = "send" /\ at' = [at EXCEPT ![u] = "idle"] /\ state_' = state_
          /\ pending' = Append(pending, SendFunctor(n))
      BY <3>1 DEF UserQueueSend, UserStep
    <3>3. ~StoreComes
      BY <2>3, <3>2 DEF NoSendBehind
    <3>4. ~StoreComes'
      BY <2>2, <3>2, <3>3 DEF StoreComes
    <3>5. ASSUME DestroyQueued PROVE DestroyQueued'
      <4>1. PICK i \in 1 .. Ahead : pending[i].run = "connectDestroyed"
        BY <3>5 DEF DestroyQueued
      <4>2. /\ Len(pending) \in Nat /\ Len(pending') = Len(pending) + 1
            /\ \A k \in 1 .. Len(pending) : pending'[k] = pending[k]
        BY <2>2, <3>2, FunctorTypes, AppendFunctor
      <4>3. todo \in 0 .. Len(pending)
        BY DEF IInv, Types
      <4>4. i \in 1 .. Len(pending) /\ i \in 1 .. Ahead'
        BY <1>1, <4>2, <4>3 DEF Ahead
      <4> QED
        BY <4>1, <4>2, <4>4 DEF DestroyQueued
    <3> QED
      BY <2>5, <3>2, <3>4, <3>5
  <2>7. CASE UserStore(u)
    <3>1. /\ at[u] = "store" /\ at' = [at EXCEPT ![u] = "post"]
          /\ state_' = "kDisconnecting" /\ pending' = pending
      BY <2>7 DEF UserStore, UserStep
    <3>2. NoSendBehind
      BY <2>3, <3>1 DEF StoreComes
    <3>3. NoSendBehind'
      BY <1>1, <2>2, <3>1, <3>2 DEF NoSendBehind
    <3>4. DestroyQueued' = DestroyQueued
      BY <1>1, <3>1 DEF DestroyQueued, Ahead
    <3> QED
      BY <3>1, <3>3, <3>4
  <2>8. CASE UserPost(u)
    <3>1. /\ at' = [at EXCEPT ![u] = "idle"] /\ state_' = state_
          /\ pending' = Append(pending, Functor("shutdownInLoop"))
      BY <2>8 DEF UserPost, UserStep
    <3>2. Longer(pending, pending')
      BY <2>2, <3>1, FunctorTypes, AppendIsLonger
    <3>3. /\ \A v \in Users : at'[v] = "send" => at[v] = "send"
          /\ StoreComes' => StoreComes
      BY <2>2, <3>1 DEF StoreComes
    <3>4. /\ DestroyQueued => DestroyQueued'
          /\ NoSendBehind => NoSendBehind'
      BY <1>1, <3>2, <3>3, QueueGrows DEF IInv
    <3> QED
      BY <2>3, <2>5, <3>1, <3>3, <3>4
  <2> QED
    BY <2>1, <2>6, <2>7, <2>8 DEF UserGoesOn, UserCalls, UserSend, UserShutdown
<1> QED
  BY <1>2, <1>3

\* Every step of a connection that at most one other thread uses keeps it.
LEMMA NextClosing ==
  ASSUME AtMostOneUser, IInv, ClosingInv, [Next]_vars
  PROVE  ClosingInv'
<1>1. CASE ConnectEstablished
  <2>1. closes = 0 /\ revents = {}
    BY <1>1 DEF ConnectEstablished, ClosingInv, Handling
  <2> QED
    BY <1>1, <2>1, ClosingOpen DEF ConnectEstablished, Update
<1>2. CASE HandleHangup
  <2>1. CASE "in" \in revents
    BY <1>2, <2>1, ClosingFrame DEF HandleHangup, channelVars
  <2>2. CASE "in" \notin revents
    <3>1. revents' \subseteq {"err", "out"}
      BY <1>2, <2>2 DEF HandleHangup, IInv, Types
    <3> QED
      BY <1>2, <2>2, <3>1, HandleCloseCloses DEF HandleHangup
  <2> QED
    BY <2>1, <2>2
<1>3. CASE HandleError \/ Peer \/ UNCHANGED vars
  BY <1>3, ClosingFrame DEF HandleError, Peer, vars, channelVars, loopVars
<1>4. CASE HandleRead
  <2>1. /\ pc = "events" /\ "in" \in revents /\ revents \subseteq {"in", "out"}
        /\ revents' = revents \ {"in"}
        /\ UNCHANGED <<todo, at, destroyed>>
    BY <1>4 DEF HandleRead
  <2>2. closes = 0
    BY <2>1 DEF ClosingInv, IInv, Types
  <2>3. \/ HandleClose /\ UNCHANGED <<pc, ret>>
        \/ UNCHANGED <<closes, channelVars>> /\ Handling'
    BY <1>4, <2>1 DEF HandleRead, Handling
  <2>4. CASE HandleClose /\ UNCHANGED <<pc, ret>>
    BY <2>1, <2>4, HandleCloseCloses
  <2>5. CASE UNCHANGED <<closes, channelVars>> /\ Handling'
    <3>1. reading /\ inEpoll
      BY <2>1, <2>2 DEF ClosingInv
    <3> QED
      BY <2>1, <2>2, <2>5, <3>1, ClosingOpen DEF channelVars
  <2> QED
    BY <2>3, <2>4, <2>5
<1>5. CASE \E n \in 0 .. MaxLen : CallSend(n)
  <2>1. /\ state_ = "kConnected"
        /\ UNCHANGED <<closes, destroyed, revents, pc, ret>>
    BY <1>5 DEF CallSend, loopVars
  <2>2. PICK n \in 0 .. MaxLen : CallSend(n)
    BY <1>5
  <2>3. pc = "user" /\ SendInLoop(n, pending)
    BY <2>2 DEF CallSend
  <2>4. reading /\ inEpoll
    BY <2>1, <2>3, ClosingConnected DEF ClosingInv
  <2>5. reading' /\ inEpoll'
    BY <2>3, <2>4 DEF SendInLoop, Watch, Update, channelVars
  <2> QED
    BY <2>1, <2>5, ClosingConnected, ClosingOpen DEF ClosingInv, Handling
<1>6. CASE CallShutdown
  <2>1. /\ state_ = "kConnected"
        /\ UNCHANGED <<closes, destroyed, revents, pc, ret, reading, inEpoll>>
    BY <1>6 DEF CallShutdown, loopVars, channelVars
  <2> QED
    BY <2>1, ClosingConnected, ClosingOpen DEF ClosingInv, Handling
<1> QED
  BY <1>1, <1>2, <1>3, <1>4, <1>5, <1>6, PollCloses, BatchCloses,
     HandleWriteCloses, RunSendCloses, RunOtherCloses, RunDestroyedCloses,
     UserCallCloses DEF Next, LoopThread

\* With at most one thread besides the loop's, handleClose runs once, the rest of
\* its event leaves the channel out of epoll (Channel.cc:96), and the channel is
\* never back in it after connectDestroyed, although a shutdown() that was under
\* way may store kDisconnecting after the close (TcpConnection.cc:121, 265).  Two
\* threads can break it: the run ConnectionTwoUsers.
THEOREM ClosedOnce == ASSUME AtMostOneUser PROVE Spec => []RemovedForGood
<1>1. Init => ClosingInv
  BY DEF Init, ClosingInv, Handling
<1>2. IInv /\ ClosingInv /\ [Next]_vars => ClosingInv'
  BY NextClosing
<1>3. ClosingInv => RemovedForGood
  BY DEF ClosingInv, RemovedForGood, Handling
<1> QED
  BY <1>1, <1>2, <1>3, Invariance, PTL DEF Spec

=============================================================================
