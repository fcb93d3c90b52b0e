--------------------------- MODULE TcpServerProofs ---------------------------
(***************************************************************************)
(* Theorems about TcpServer, for any number of sub loops, connections and  *)
(* messages, and whether or not the base loop is told to stop: who owns a  *)
(* connection from its acceptance to its release, and what the poller, the *)
(* queues and the user still know of it.                                   *)
(***************************************************************************)

EXTENDS TcpServer, SequenceTheorems, FiniteSetTheorems, TLAPS

-----------------------------------------------------------------------------
(***************************************************************************)
(* The inductive invariant.                                                *)
(***************************************************************************)

\* Where a thread is in connectEstablished or in the user's callback, in
\* handleClose, in the base loop's turn over its active channels; and where a
\* sub loop's thread can be.
CallPCs == {"established", "enable", "up", "user", "shutdown", "post"}
ClosePCs == {"down", "remove"}
DispatchPCs == {"dispatch"} \cup CallPCs \cup ClosePCs
SubPCs == {"init", "poll", "pending", "stopped"} \cup CallPCs

\* The type invariant, in parts.
ThreadTypes ==
  /\ pc \in [Loops -> PCs]
  /\ conn \in [Loops -> Conns \cup {NoConn}]
  /\ ret \in [Loops -> {"dispatch", "pending", "remove"}]
  /\ quit_ \in [Loops -> BOOLEAN]

QueueTypes ==
  /\ pending \in [Loops -> Seq(Functors)]
  /\ batch \in [Loops -> Seq(Functors)]
  /\ idx \in [Loops -> Nat]
  /\ \A l \in Loops : idx[l] \in 1 .. Len(batch[l]) + 1

ServerTypes ==
  /\ started_ \in BOOLEAN
  /\ listenning_ \in BOOLEAN
  /\ next_ = 0 \/ next_ \in 1 .. NumSubs - 1
  /\ told \in 0 .. NumSubs
  /\ nextConnId_ \in 1 .. MaxConns + 1
  /\ connections_ \in SUBSET Conns

PollerTypes ==
  /\ inMap \in SUBSET Conns
  /\ reading \subseteq inMap
  /\ active \in SUBSET (Conns \cup {Acceptor})

PeerTypes ==
  /\ arrived \in 0 .. MaxConns
  /\ peer \in [Conns -> {"open", "closed", "reset"}]
  /\ data \in SUBSET Conns
  /\ sent \in 0 .. MaxMsgs

HistoryTypes ==
  /\ state_ \in [Conns -> States]
  /\ calls \in [Conns -> Seq(Calls)]
  /\ destroyed \in SUBSET Conns

Types == /\ ThreadTypes /\ QueueTypes /\ ServerTypes /\ PollerTypes /\ PeerTypes
         /\ HistoryTypes

\* A thread holds a connection exactly while it runs one of its functions; sub
\* loops only establish connections, never return to a handler, and are told to
\* quit only when the base loop has left its own loop.
HoldInv ==
  /\ \A l \in Loops :
       /\ conn[l] # NoConn <=> pc[l] \in CallPCs \cup ClosePCs
       /\ conn[l] < nextConnId_
  /\ \A l \in Loops \ {Base} :
       /\ pc[l] \in SubPCs
       /\ ret[l] = "pending"
       /\ quit_[l] => pc[Base] \in {"join", "stopped"}
  /\ pc[Base] \in {"established", "enable", "up"} => ret[Base] = "dispatch"
  /\ pc[Base] \in {"user", "shutdown", "post"}
       => ret[Base] \in {"dispatch", "remove"}

\* A functor f that belongs into loop l's queue: it is about an accepted
\* connection, connectEstablished is for a sub loop, the others for the base
\* loop.
Fits(l, f) ==
  /\ f.c < nextConnId_
  /\ f.run \in (IF l = Base THEN {"shutdownInLoop", "connectDestroyed"}
                            ELSE {"connectEstablished"})

\* The queues hold functors of their loop, the batch is empty outside
\* doPendingFunctors, and no connectDestroyed is queued outside the base loop's
\* turn: removeConnection queues it there, and the turn ends with
\* doPendingFunctors.
QueueInv ==
  /\ \A l \in Loops :
       /\ \A i \in 1 .. Len(pending[l]) : Fits(l, pending[l][i])
       /\ \A i \in 1 .. Len(batch[l]) : Fits(l, batch[l][i])
       /\ pc[l] \in {"init", "poll", "stopped"} => batch[l] = <<>>
  /\ pc[Base] # "pending" => batch[Base] = <<>>
  /\ pc[Base] \notin DispatchPCs =>
       \A i \in 1 .. Len(pending[Base]) : pending[Base][i].run # "connectDestroyed"

\* Functor f is still to be run by loop l.
Waits(l, f) ==
  \/ \E i \in 1 .. Len(pending[l]) : pending[l][i] = f
  \/ \E i \in idx[l] .. Len(batch[l]) : batch[l][i] = f

\* Loop l has connectEstablished of c still to do, up to enableReading.
Establishing(l, c) ==
  \/ Waits(l, Functor("connectEstablished", c))
  \/ pc[l] \in {"established", "enable"} /\ conn[l] = c

\* connectDestroyed of c is queued and has not run.
ToBeDestroyed(c) == Waits(Base, Functor("connectDestroyed", c))

\* The base loop is in handleClose of c.
Closing(c) ==
  /\ conn[Base] = c
  /\ \/ pc[Base] \in ClosePCs
     \/ pc[Base] \in {"user", "shutdown", "post"} /\ ret[Base] = "remove"

\* Loop l has no functor twice, and none of the connection that it is
\* establishing.
Once(l) ==
  /\ \A i, j \in 1 .. Len(pending[l]) : pending[l][i] = pending[l][j] => i = j
  /\ \A i, j \in idx[l] .. Len(batch[l]) : batch[l][i] = batch[l][j] => i = j
  /\ \A i \in 1 .. Len(pending[l]), j \in idx[l] .. Len(batch[l]) :
       pending[l][i] # batch[l][j]
  /\ pc[l] \in {"established", "enable"} =>
       ~Waits(l, Functor("connectEstablished", conn[l]))

\* What numbers are in use, and that connectDestroyed of every connection has
\* run, is queued or is still to be reached from the map.
LifeInv ==
  /\ \A c \in Conns : state_[c] = "none" <=> nextConnId_ <= c
  /\ \A c \in connections_ \cup inMap \cup destroyed : c < nextConnId_
  /\ \A c \in Conns : c < nextConnId_ =>
       c \in connections_ \cup destroyed \/ ToBeDestroyed(c)

\* While the base loop runs: what epoll watches is in the poller's map and in
\* the server's; what has been destroyed is in neither; a connection being
\* established is in the server's map and not yet in the poller's; one being
\* closed is in both, and watched no longer.
PollerInv ==
  /\ reading \cup (active \ {Acceptor}) \subseteq inMap \cap connections_
  /\ destroyed \cap (inMap \cup connections_) = {}
  /\ \A l \in Loops, c \in Conns :
       Establishing(l, c) => c \in connections_ /\ c \notin inMap
  /\ \A c \in Conns : Closing(c) =>
       c \in (inMap \cap connections_) \ (reading \cup active)
  /\ \A c \in Conns : ToBeDestroyed(c) => c \notin connections_

\* While the base loop runs, connectEstablished of a connection is one loop's,
\* and is queued once: a second one would put its channel back into the poller.
OnceInv ==
  /\ \A l \in Loops \ {Base} : Once(l)
  /\ \A l, m \in Loops, c \in Conns : Establishing(l, c) /\ Establishing(m, c)
       => l = m

\* The user has not been told of the end of a connection before handleClose
\* does, and a connection on its way to connectDestroyed is not kConnected.
CallsInv ==
  /\ \A c \in Conns :
       /\ CountBy(c, "closed") <= 1
       /\ nextConnId_ <= c
            \/ (c \in connections_ /\ ~(Closing(c) /\ pc[Base] # "down"))
          => CountBy(c, "closed") = 0
       /\ Closing(c) \/ ToBeDestroyed(c)
            => state_[c] \in {"kDisconnecting", "kDisconnected"}

\* The inductive invariant. What it says of the poller ends with the loop:
\* ~TcpServer destroys connections whose connectEstablished a sub loop may
\* still run.
IInv == /\ Types /\ HoldInv /\ QueueInv /\ LifeInv /\ CallsInv
        /\ LoopRuns => PollerInv /\ OnceInv

\* The types are those of TypeOK.
LEMMA TypesTypeOK == Types => TypeOK
  BY DEF Types, TypeOK, ThreadTypes, QueueTypes, ServerTypes, PollerTypes,
         PeerTypes, HistoryTypes

\* Loops and connections are numbers.
LEMMA LoopsNat ==
  /\ Loops \subseteq Nat /\ Base \in Loops /\ Base = 0
  /\ Conns \subseteq Nat \ {0} /\ NoConn = 0 /\ Acceptor = 0
  /\ MaxConns \in Nat \ {0} /\ NumSubs \in Nat /\ MaxMsgs \in Nat
  BY ServerAssumption DEF Loops, Base, Conns, NoConn, Acceptor

-----------------------------------------------------------------------------
(***************************************************************************)
(* Functors that wait, and calls that are counted.                         *)
(***************************************************************************)

\* What waits in a queue that is left alone,
LEMMA WaitsSame ==
  ASSUME UNCHANGED <<pending, batch, idx>>
  PROVE  \A l, f : Waits(l, f)' <=> Waits(l, f)
  BY DEF Waits

\* ... that has got a functor more,
LEMMA WaitsAppend ==
  ASSUME QueueTypes, NEW k \in Loops, NEW g \in Functors,
         pending' = [pending EXCEPT ![k] = Append(@, g)],
         UNCHANGED <<batch, idx>>
  PROVE  \A l \in Loops : \A f : Waits(l, f)' <=> Waits(l, f) \/ (l = k /\ f = g)
<1> TAKE l \in Loops
<1> TAKE f
<1>1. pending[l] \in Seq(Functors) /\ pending[k] \in Seq(Functors)
  BY DEF QueueTypes
<1>2. CASE l # k
  BY <1>1, <1>2 DEF Waits, QueueTypes
<1>3. CASE l = k
  <2>1. pending'[l] = Append(pending[l], g)
          /\ Len(pending'[l]) = Len(pending[l]) + 1
    BY <1>1, <1>3 DEF QueueTypes
  <2>2. \A i \in 1 .. Len(pending[l]) : pending'[l][i] = pending[l][i]
    BY <1>1, <2>1
  <2>3. pending'[l][Len(pending[l]) + 1] = g
    BY <1>1, <2>1
  <2>4. 1 .. Len(pending'[l]) = (1 .. Len(pending[l])) \cup {Len(pending[l]) + 1}
    BY <1>1, <2>1
  <2>5. (\E i \in 1 .. Len(pending'[l]) : pending'[l][i] = f)
          <=> (\E i \in 1 .. Len(pending[l]) : pending[l][i] = f) \/ f = g
    BY <2>2, <2>3, <2>4
  <2> QED
    BY <2>5, <1>3 DEF Waits
<1> QED
  BY <1>2, <1>3

\* ... that has become the batch,
LEMMA WaitsSwap ==
  ASSUME QueueTypes, NEW k \in Loops, batch[k] = <<>>,
         batch' = [batch EXCEPT ![k] = pending[k]],
         pending' = [pending EXCEPT ![k] = <<>>],
         idx' = [idx EXCEPT ![k] = 1]
  PROVE  \A l \in Loops : \A f : Waits(l, f)' <=> Waits(l, f)
<1> TAKE l \in Loops
<1> TAKE f
<1>1. CASE l # k
  BY <1>1 DEF Waits, QueueTypes
<1>2. CASE l = k
  <2>1. batch'[l] = pending[l] /\ pending'[l] = <<>> /\ idx'[l] = 1
    BY <1>2 DEF QueueTypes
  <2>2. Len(pending'[l]) = 0 /\ Len(batch[l]) = 0 /\ idx[l] \in 1 .. 1
    BY <2>1, <1>2 DEF QueueTypes
  <2> QED
    BY <2>1, <2>2 DEF Waits
<1> QED
  BY <1>1, <1>2

\* ... whose batch has come to its end,
LEMMA WaitsEndBatch ==
  ASSUME QueueTypes, NEW k \in Loops, idx[k] > Len(batch[k]),
         batch' = [batch EXCEPT ![k] = <<>>],
         idx' = [idx EXCEPT ![k] = 1], UNCHANGED pending
  PROVE  \A l \in Loops : \A f : Waits(l, f)' <=> Waits(l, f)
<1> TAKE l \in Loops
<1> TAKE f
<1>1. CASE l # k
  BY <1>1 DEF Waits, QueueTypes
<1>2. CASE l = k
  <2>1. batch'[l] = <<>> /\ Len(batch'[l]) = 0 /\ idx'[l] = 1
    BY <1>2 DEF QueueTypes
  <2>2. batch[l] \in Seq(Functors) /\ idx[l] \in Nat
    BY DEF QueueTypes
  <2>3. idx[l] .. Len(batch[l]) = {} /\ idx'[l] .. Len(batch'[l]) = {}
    BY <2>1, <2>2, <1>2
  <2> QED
    BY <2>3 DEF Waits
<1> QED
  BY <1>1, <1>2

\* ... whose next functor is run,
LEMMA WaitsRun ==
  ASSUME QueueTypes, NEW k \in Loops, idx[k] <= Len(batch[k]),
         idx' = [idx EXCEPT ![k] = @ + 1], UNCHANGED <<pending, batch>>
  PROVE  /\ Waits(k, batch[k][idx[k]])
         /\ \A l \in Loops : \A f : Waits(l, f)' => Waits(l, f)
         /\ \A l \in Loops : \A f : Waits(l, f) =>
              Waits(l, f)' \/ (l = k /\ f = batch[k][idx[k]])
<1>1. batch[k] \in Seq(Functors) /\ idx[k] \in Nat \ {0} /\ idx'[k] = idx[k] + 1
  BY DEF QueueTypes
<1>2. \A l \in Loops \ {k} : idx'[l] = idx[l]
  BY DEF QueueTypes
<1>3. idx[k] .. Len(batch[k]) = {idx[k]} \cup (idx'[k] .. Len(batch[k]))
  BY <1>1
<1> QED
  BY <1>1, <1>2, <1>3 DEF Waits

\* ... or that is dropped.
LEMMA WaitsDrop ==
  ASSUME QueueTypes, NEW k \in Loops, pending' = [pending EXCEPT ![k] = <<>>],
         UNCHANGED <<batch, idx>>
  PROVE  /\ \A l \in Loops : \A f : Waits(l, f)' => Waits(l, f)
         /\ \A l \in Loops \ {k} : \A f : Waits(l, f)' <=> Waits(l, f)
<1>1. pending'[k] = <<>> /\ Len(pending'[k]) = 0
  BY DEF QueueTypes
<1>2. \A l \in Loops \ {k} : pending'[l] = pending[l]
  BY DEF QueueTypes
<1>3. 1 .. Len(pending'[k]) = {}
  BY <1>1
<1> QED
  BY <1>2, <1>3 DEF Waits

\* The calls of one kind.
Marked(s, by) == {i \in DOMAIN s : s[i].by = by}

\* One call more is one call of its kind more.
LEMMA MarkedAppend ==
  ASSUME NEW s \in Seq(Calls), NEW e \in Calls, NEW by
  PROVE  /\ IsFiniteSet(Marked(s, by)) /\ Cardinality(Marked(s, by)) \in Nat
         /\ Cardinality(Marked(Append(s, e), by)) =
              IF e.by = by THEN Cardinality(Marked(s, by)) + 1
                           ELSE Cardinality(Marked(s, by))
<1>1. DOMAIN s = 1 .. Len(s) /\ Len(s) \in Nat
  OBVIOUS
<1>2. IsFiniteSet(1 .. Len(s))
  BY <1>1, FS_Interval
<1>3. Marked(s, by) \subseteq 1 .. Len(s)
  BY <1>1 DEF Marked
<1>4. IsFiniteSet(Marked(s, by))
  BY <1>2, <1>3, FS_Subset
<1>5. Cardinality(Marked(s, by)) \in Nat
  BY <1>4, FS_CardinalityType
<1>6. /\ DOMAIN Append(s, e) = (1 .. Len(s)) \cup {Len(s) + 1}
      /\ \A i \in 1 .. Len(s) : Append(s, e)[i] = s[i]
      /\ Append(s, e)[Len(s) + 1] = e
  BY <1>1
<1>7. CASE e.by = by
  <2>1. Marked(Append(s, e), by) = Marked(s, by) \cup {Len(s) + 1}
    BY <1>1, <1>6, <1>7 DEF Marked
  <2>2. Len(s) + 1 \notin Marked(s, by)
    BY <1>1, <1>3
  <2> QED
    BY <2>1, <2>2, <1>4, <1>5, <1>7, FS_AddElement
<1>8. CASE e.by # by
  <2>1. Marked(Append(s, e), by) = Marked(s, by)
    BY <1>1, <1>6, <1>8 DEF Marked
  <2> QED
    BY <2>1, <1>4, <1>5, <1>8
<1> QED
  BY <1>4, <1>5, <1>7, <1>8

\* A call keeps the type of calls,
LEMMA CallTypes ==
  ASSUME HistoryTypes, NEW c \in Conns, NEW e \in Calls,
         calls' = [calls EXCEPT ![c] = Append(@, e)]
  PROVE  calls' \in [Conns -> Seq(Calls)]
  BY DEF HistoryTypes

\* ... and is counted with its kind.
LEMMA CountCall ==
  ASSUME HistoryTypes, NEW c \in Conns, NEW e \in Calls,
         calls' = [calls EXCEPT ![c] = Append(@, e)]
  PROVE  /\ CountBy(c, "closed") \in Nat
         /\ CountBy(c, "closed")' = IF e.by = "closed" THEN CountBy(c, "closed") + 1
                                                       ELSE CountBy(c, "closed")
         /\ \A d \in Conns \ {c} : CountBy(d, "closed")' = CountBy(d, "closed")
<1>1. calls[c] \in Seq(Calls) /\ calls'[c] = Append(calls[c], e)
  BY DEF HistoryTypes
<1>2. /\ CountBy(c, "closed") = Cardinality(Marked(calls[c], "closed"))
      /\ CountBy(c, "closed")' = Cardinality(Marked(calls'[c], "closed"))
  BY DEF CountBy, Marked
<1>3. \A d \in Conns \ {c} : calls'[d] = calls[d]
  BY DEF HistoryTypes
<1>4. \A d \in Conns \ {c} : CountBy(d, "closed")' = CountBy(d, "closed")
  BY <1>3 DEF CountBy
<1> QED
  BY <1>1, <1>2, <1>4, MarkedAppend

-----------------------------------------------------------------------------
(***************************************************************************)
(* Steps between the callbacks.                                            *)
(***************************************************************************)

\* Steps outside connectEstablished that leave the queues alone.
LEMMA PredsSame ==
  ASSUME UNCHANGED <<pending, batch, idx>>,
         \A l \in Loops :
           /\ pc'[l] \in {"established", "enable"}
                <=> pc[l] \in {"established", "enable"}
           /\ pc[l] \in {"established", "enable"} => conn'[l] = conn[l]
  PROVE  /\ \A l \in Loops, c \in Conns : Establishing(l, c)' <=> Establishing(l, c)
         /\ \A c \in Conns : ToBeDestroyed(c)' <=> ToBeDestroyed(c)
         /\ \A l \in Loops : Once(l) => Once(l)'
<1>1. \A l, f : Waits(l, f)' <=> Waits(l, f)
  BY WaitsSame
<1>2. \A l \in Loops, c \in Conns : Establishing(l, c)' <=> Establishing(l, c)
  <2> TAKE l \in Loops, c \in Conns
  <2> QED
    BY <1>1 DEF Establishing, Functor
<1>3. \A c \in Conns : ToBeDestroyed(c)' <=> ToBeDestroyed(c)
  <2> TAKE c \in Conns
  <2> QED
    BY <1>1 DEF ToBeDestroyed, Functor
<1>4. \A l \in Loops : Once(l) => Once(l)'
  <2> TAKE l \in Loops
  <2> SUFFICES ASSUME Once(l) PROVE Once(l)'
    OBVIOUS
  <2>1. pc'[l] \in {"established", "enable"} =>
          ~Waits(l, Functor("connectEstablished", conn'[l]))
    BY DEF Once
  <2>2. (pc[l] \in {"established", "enable"} =>
          ~Waits(l, Functor("connectEstablished", conn[l])))'
    BY <2>1, <1>1 DEF Waits, Functor
  <2> QED
    BY <2>2 DEF Once
<1> QED
  BY <1>2, <1>3, <1>4

\* A step of thread l between its callbacks; a sub loop's only such step is to
\* enter loop().
QuietPC(l) ==
  \/ pc' = pc
  \/ /\ pc[l] \in {"init", "poll", "dtor"}
     /\ \E w \in {"poll", "dispatch", "dtor", "join"} :
          /\ pc' = [pc EXCEPT ![l] = w]
          /\ pc[l] = "dtor" => w = "join"
          /\ l # Base => pc[l] = "init" /\ w = "poll"

\* No sub loop is newly told to quit while the base loop runs.
QuietQuit ==
  \A l \in Loops \ {Base} : quit_'[l] => quit_[l] \/ pc'[Base] \in {"join", "stopped"}

\* A step that leaves alone what the invariant is about keeps it.
LEMMA QuietStep ==
  ASSUME IInv, Types', NEW l \in Loops, QuietPC(l), QuietQuit,
         UNCHANGED <<conn, ret, pending, batch, idx, nextConnId_, connections_,
                     state_, inMap, reading, calls, destroyed>>,
         active' \subseteq active \cup reading \cup {Acceptor}
  PROVE  IInv'
<1> USE LoopsNat
<1>1. /\ \A m \in Loops : pc[m] \in PCs
      /\ \A m \in Loops \ {Base} : pc'[m] = pc[m]
                                   \/ (pc[m] = "init" /\ pc'[m] = "poll")
      /\ pc'[Base] = pc[Base] \/ /\ pc[Base] \in {"init", "poll", "dtor"}
                                 /\ pc'[Base] \in {"poll", "dispatch", "dtor",
                                                   "join"}
                                 /\ pc[Base] = "dtor" => pc'[Base] = "join"
  BY DEF IInv, Types, ThreadTypes, QuietPC
<1>2. HoldInv'
  BY <1>1 DEF IInv, HoldInv, QuietQuit, CallPCs, ClosePCs, SubPCs
<1>3. QueueInv'
  <2>1. \A m \in Loops : \A f : Fits(m, f)' <=> Fits(m, f)
    BY DEF Fits
  <2>2. batch'[Base] = <<>> \/ pc'[Base] = "pending"
    BY <1>1 DEF IInv, QueueInv
  <2> QED
    BY <1>1, <2>1, <2>2 DEF IInv, QueueInv, DispatchPCs, CallPCs, ClosePCs
<1>4. /\ \A m \in Loops, c \in Conns : Establishing(m, c)' <=> Establishing(m, c)
      /\ \A c \in Conns : ToBeDestroyed(c)' <=> ToBeDestroyed(c)
      /\ \A m \in Loops : Once(m) => Once(m)'
  BY <1>1, PredsSame
<1>5. \A c \in Conns : Closing(c)' <=> Closing(c)
  BY <1>1 DEF Closing, ClosePCs
<1>6. LifeInv'
  BY <1>4 DEF IInv, LifeInv
<1>7. CallsInv'
  <2>1. \A c \in Conns : CountBy(c, "closed")' = CountBy(c, "closed")
    BY DEF CountBy
  <2> QED
    BY <1>1, <1>4, <1>5, <2>1 DEF IInv, CallsInv, Closing, ClosePCs
<1>8. ASSUME LoopRuns' PROVE PollerInv' /\ OnceInv'
  <2>1. LoopRuns
    BY <1>1, <1>8 DEF LoopRuns
  <2>2. PollerInv'
    <3>1. (reading \cup (active \ {Acceptor}) \subseteq inMap \cap connections_)'
      BY <2>1 DEF IInv, PollerInv
    <3>2. \A c \in Conns : Closing(c)' =>
            c \in (inMap' \cap connections_') \ (reading' \cup active')
      BY <1>5, <2>1 DEF IInv, PollerInv
    <3> QED
      BY <1>4, <2>1, <3>1, <3>2 DEF IInv, PollerInv
  <2>3. OnceInv'
    BY <1>4, <2>1 DEF IInv, OnceInv
  <2> QED
    BY <2>2, <2>3
<1> QED
  BY <1>2, <1>3, <1>6, <1>7, <1>8 DEF IInv

\* The steps between the callbacks keep the types,
LEMMA QuietTypes ==
  ASSUME IInv,
         \/ StartServer \/ Quit \/ Peer \/ Poll \/ AcceptFails
         \/ LeaveLoop \/ DestroyPool \/ \E c \in Conns : ReadError(c)
         \/ \E l \in Loops : EnterLoop(l) \/ (l # Base /\ QuitSub(l))
  PROVE  Types'
<1> USE LoopsNat
<1>1. CASE StartServer
  BY <1>1 DEF IInv, Types, StartServer, threadVars, pollerVars, peerVars,
     history, ThreadTypes, QueueTypes, ServerTypes, PollerTypes, PeerTypes,
     HistoryTypes
<1>2. CASE \E l \in Loops : EnterLoop(l)
  BY <1>2 DEF IInv, Types, EnterLoop, Goto, serverVars, pollerVars, peerVars, PCs,
     history, ThreadTypes, QueueTypes, ServerTypes, PollerTypes, PeerTypes,
     HistoryTypes
<1>3. CASE Quit
  BY <1>3 DEF IInv, Types, Quit, serverVars, pollerVars, peerVars,
     history, ThreadTypes, QueueTypes, ServerTypes, PollerTypes, PeerTypes,
     HistoryTypes
<1>4. CASE Peer
  <2>1. PeerTypes'
    <3>1. PeerConnect => PeerTypes'
      BY DEF IInv, Types, PeerConnect, PeerTypes
    <3>2. ASSUME NEW c \in Conns, PeerSend(c) PROVE PeerTypes'
      BY <3>2 DEF IInv, Types, PeerSend, PeerTypes
    <3>3. ASSUME NEW c \in Conns, PeerClose(c) PROVE PeerTypes'
      BY <3>3 DEF IInv, Types, PeerClose, PeerTypes
    <3>4. ASSUME NEW c \in Conns, PeerReset(c) PROVE PeerTypes'
      BY <3>4 DEF IInv, Types, PeerReset, PeerTypes
    <3> QED
      BY <1>4, <3>1, <3>2, <3>3, <3>4 DEF Peer
  <2> QED
    BY <1>4, <2>1 DEF IInv, Types, Peer, threadVars, serverVars, pollerVars,
       history, ThreadTypes, QueueTypes, ServerTypes, PollerTypes, HistoryTypes
<1>5. CASE Poll
  <2>1. Ready \subseteq Conns \cup {Acceptor}
    BY DEF IInv, Types, PollerTypes, Ready
  <2> QED
    BY <1>5, <2>1 DEF IInv, Types, Poll, Goto, serverVars, peerVars, PCs,
       history, ThreadTypes, QueueTypes, ServerTypes, PollerTypes, PeerTypes,
       HistoryTypes
<1>6. CASE AcceptFails
  BY <1>6 DEF IInv, Types, AcceptFails, threadVars, serverVars, peerVars,
     history, ThreadTypes, QueueTypes, ServerTypes, PollerTypes, PeerTypes,
     HistoryTypes
<1>7. CASE LeaveLoop
  BY <1>7 DEF IInv, Types, LeaveLoop, Goto, serverVars, pollerVars, peerVars, PCs,
     history, ThreadTypes, QueueTypes, ServerTypes, PollerTypes, PeerTypes,
     HistoryTypes
<1>8. CASE DestroyPool
  BY <1>8 DEF IInv, Types, DestroyPool, Goto, serverVars, pollerVars, peerVars, PCs,
     history, ThreadTypes, QueueTypes, ServerTypes, PollerTypes, PeerTypes,
     HistoryTypes
<1>9. CASE \E c \in Conns : ReadError(c)
  <2> PICK c \in Conns : ReadError(c)
    BY <1>9
  <2> QED
    BY DEF IInv, Types, ReadError, Handle, threadVars, serverVars,
       history, ThreadTypes, QueueTypes, ServerTypes, PollerTypes, PeerTypes,
       HistoryTypes
<1>10. CASE \E l \in Loops : l # Base /\ QuitSub(l)
  <2> PICK l \in Loops : l # Base /\ QuitSub(l)
    BY <1>10
  <2>1. l \in 0 .. NumSubs
    BY DEF Loops
  <2> QED
    BY <2>1 DEF IInv, Types, QuitSub, pollerVars, peerVars,
       history, ThreadTypes, QueueTypes, ServerTypes, PollerTypes, PeerTypes,
       HistoryTypes
<1> QED
  BY <1>1, <1>2, <1>3, <1>4, <1>5, <1>6, <1>7, <1>8, <1>9, <1>10

\* ... and the invariant.
LEMMA QuietActions ==
  ASSUME IInv,
         \/ StartServer \/ Quit \/ Peer \/ Poll \/ AcceptFails
         \/ LeaveLoop \/ DestroyPool \/ \E c \in Conns : ReadError(c)
         \/ \E l \in Loops : EnterLoop(l) \/ (l # Base /\ QuitSub(l))
  PROVE  IInv'
<1> DEFINE Same == UNCHANGED <<conn, ret, pending, batch, idx, nextConnId_,
                               connections_, state_, inMap, reading, calls,
                               destroyed>>
           Effect(l) == /\ Same /\ QuietPC(l) /\ QuietQuit
                        /\ active' \subseteq active \cup reading \cup {Acceptor}
<1> USE LoopsNat
<1> SUFFICES \E l \in Loops : Effect(l)
  BY QuietTypes, QuietStep
<1>0. quit_ \in [Loops -> BOOLEAN] /\ pc \in [Loops -> PCs]
  BY DEF IInv, Types, ThreadTypes
<1>1. CASE StartServer
  <2>1. Effect(Base)
    BY <1>1 DEF StartServer, threadVars, serverVars, pollerVars, history, QuietPC,
       QuietQuit
  <2> QED
    BY <2>1
<1>2. CASE \E l \in Loops : EnterLoop(l)
  <2>1. PICK l \in Loops : EnterLoop(l)
    BY <1>2
  <2>2. Effect(l)
    BY <1>0, <2>1 DEF EnterLoop, Goto, serverVars, pollerVars, history, QuietPC,
       QuietQuit
  <2> QED
    BY <2>2
<1>3. CASE Quit
  <2>1. Effect(Base)
    BY <1>0, <1>3 DEF Quit, serverVars, pollerVars, history, QuietPC, QuietQuit
  <2> QED
    BY <2>1
<1>4. CASE Peer
  <2>1. Effect(Base)
    BY <1>4 DEF Peer, threadVars, serverVars, pollerVars, history, QuietPC, QuietQuit
  <2> QED
    BY <2>1
<1>5. CASE Poll
  <2>1. Effect(Base)
    BY <1>5 DEF Poll, Goto, Ready, serverVars, history, QuietPC, QuietQuit
  <2> QED
    BY <2>1
<1>6. CASE AcceptFails
  <2>1. Effect(Base)
    BY <1>6 DEF AcceptFails, threadVars, serverVars, history, QuietPC, QuietQuit
  <2> QED
    BY <2>1
<1>7. CASE LeaveLoop
  <2>1. Effect(Base)
    BY <1>7 DEF LeaveLoop, Goto, serverVars, pollerVars, history, QuietPC, QuietQuit
  <2> QED
    BY <2>1
<1>8. CASE DestroyPool
  <2>1. Effect(Base)
    BY <1>8 DEF DestroyPool, Goto, serverVars, pollerVars, history, QuietPC, QuietQuit
  <2> QED
    BY <2>1
<1>9. CASE \E c \in Conns : ReadError(c)
  <2>1. Effect(Base)
    BY <1>9 DEF ReadError, Handle, threadVars, serverVars, history, QuietPC, QuietQuit
  <2> QED
    BY <2>1
<1>10. CASE \E l \in Loops : l # Base /\ QuitSub(l)
  <2>1. Effect(Base)
    BY <1>10 DEF QuitSub, pollerVars, history, QuietPC, QuietQuit
  <2> QED
    BY <2>1
<1> QED
  BY <1>1, <1>2, <1>3, <1>4, <1>5, <1>6, <1>7, <1>8, <1>9, <1>10

-----------------------------------------------------------------------------
(***************************************************************************)
(* The steps of connectEstablished, of the user's callbacks and of the     *)
(* handlers.                                                               *)
(***************************************************************************)

\* A thread in a callback leaves the queues' invariant alone.
LEMMA CallQueue ==
  ASSUME IInv, NEW l \in Loops, NEW w, pc' = [pc EXCEPT ![l] = w],
         pc[l] \in DispatchPCs, w \notin {"init", "poll", "stopped"},
         l = Base => w \in DispatchPCs,
         UNCHANGED <<pending, batch, nextConnId_>>
  PROVE  QueueInv'
<1> USE LoopsNat
<1>1. \A m \in Loops : \A f : Fits(m, f)' <=> Fits(m, f)
  BY DEF Fits
<1>2. \A m \in Loops : pc'[m] = IF m = l THEN w ELSE pc[m]
  BY DEF IInv, Types, ThreadTypes
<1>3. pc'[Base] # "pending" => batch[Base] = <<>>
  BY <1>2 DEF IInv, QueueInv, DispatchPCs, CallPCs, ClosePCs
<1>4. pc'[Base] \notin DispatchPCs => pc[Base] \notin DispatchPCs
  BY <1>2
<1>5. \A m \in Loops : pc'[m] \in {"init", "poll", "stopped"}
        => pc[m] \in {"init", "poll", "stopped"}
  BY <1>2
<1> QED
  BY <1>1, <1>3, <1>4, <1>5 DEF IInv, QueueInv

\* Outside the base loop's turn no connectDestroyed is queued.
LEMMA NotToBeDestroyed ==
  ASSUME IInv, pc[Base] \notin DispatchPCs \cup {"pending"}
  PROVE  \A c \in Conns : ~ToBeDestroyed(c)
<1> USE LoopsNat
<1>1. batch[Base] = <<>> /\ Len(batch[Base]) = 0 /\ idx[Base] \in 1 .. 1
  BY DEF IInv, QueueInv, Types, QueueTypes
<1>2. idx[Base] .. Len(batch[Base]) = {}
  BY <1>1
<1> QED
  BY <1>2 DEF IInv, QueueInv, ToBeDestroyed, Waits, Functor

\* The base loop never has a connectEstablished queued.
LEMMA NoneToEstablish ==
  ASSUME IInv, NEW c PROVE ~Waits(Base, Functor("connectEstablished", c))
<1> USE LoopsNat
<1>1. \A i \in idx[Base] .. Len(batch[Base]) : i \in 1 .. Len(batch[Base])
  BY DEF IInv, Types, QueueTypes
<1> QED
  BY <1>1 DEF IInv, QueueInv, Fits, Waits, Functor

\* A loop whose queue is left alone still has every functor once.
LEMMA OnceStays ==
  ASSUME NEW l \in Loops, Once(l), pending'[l] = pending[l], batch'[l] = batch[l],
         idx'[l] = idx[l],
         pc'[l] \in {"established", "enable"} =>
           pc[l] \in {"established", "enable"} /\ conn'[l] = conn[l]
  PROVE  Once(l)'
<1>1. \A f : Waits(l, f)' <=> Waits(l, f)
  BY DEF Waits
<1>2. pc'[l] \in {"established", "enable"} =>
        ~Waits(l, Functor("connectEstablished", conn'[l]))
  BY DEF Once
<1>3. (pc[l] \in {"established", "enable"} =>
        ~Waits(l, Functor("connectEstablished", conn[l])))'
  BY <1>2 DEF Waits, Functor
<1> QED
  BY <1>3 DEF Once

\* connectEstablished keeps the invariant: setState,
LEMMA SetConnectedStep ==
  ASSUME IInv, NEW l \in Loops, SetConnected(l) PROVE IInv'
<1> USE LoopsNat
<1>1. /\ pc[l] = "established" /\ conn[l] \in Conns /\ conn[l] < nextConnId_
      /\ pc' = [pc EXCEPT ![l] = "enable"]
      /\ state_' = [state_ EXCEPT ![conn[l]] = "kConnected"]
      /\ UNCHANGED <<conn, ret, quit_, pending, batch, idx>>
      /\ UNCHANGED <<started_, listenning_, next_, told, nextConnId_, connections_>>
      /\ UNCHANGED <<inMap, reading, active>>
      /\ UNCHANGED <<arrived, peer, data, sent>>
      /\ UNCHANGED <<calls, destroyed>>
  BY DEF IInv, HoldInv, Types, ThreadTypes, CallPCs, SetConnected, Goto,
       serverVars, pollerVars,
         peerVars, history
<1> HIDE DEF SetConnected
<1>2. \A m \in Loops : pc'[m] = IF m = l THEN "enable" ELSE pc[m]
  BY <1>1 DEF IInv, Types, ThreadTypes
<1>3. Types'
  BY <1>1 DEF IInv, Types, PCs, States,
       ThreadTypes, QueueTypes, ServerTypes, PollerTypes, PeerTypes, HistoryTypes
<1>4. HoldInv'
  BY <1>1, <1>2 DEF IInv, HoldInv, CallPCs, ClosePCs, SubPCs
<1>5. QueueInv'
  BY <1>1, CallQueue DEF DispatchPCs, CallPCs
<1>6. /\ \A m \in Loops, c \in Conns : Establishing(m, c)' <=> Establishing(m, c)
      /\ \A c \in Conns : ToBeDestroyed(c)' <=> ToBeDestroyed(c)
      /\ \A m \in Loops : Once(m) => Once(m)'
  BY <1>1, <1>2, PredsSame
<1>7. \A c \in Conns : Closing(c)' <=> Closing(c)
  BY <1>1, <1>2 DEF Closing, ClosePCs
<1>8. state_'[conn[l]] = "kConnected"
      /\ \A c \in Conns : c # conn[l] => state_'[c] = state_[c]
  BY <1>1 DEF IInv, Types, HistoryTypes
<1>9. LifeInv'
  BY <1>1, <1>6, <1>8 DEF IInv, LifeInv, Types, ServerTypes
<1>10. ~Closing(conn[l]) /\ ~ToBeDestroyed(conn[l])
  <2>1. CASE LoopRuns
    <3>1. Establishing(l, conn[l])
      BY <1>1 DEF Establishing
    <3> QED
      BY <1>1, <2>1, <3>1 DEF IInv, PollerInv
  <2>2. CASE ~LoopRuns
    BY <1>1, <2>2, NotToBeDestroyed DEF LoopRuns, Closing, ClosePCs, DispatchPCs,
         CallPCs
  <2> QED
    BY <2>1, <2>2
<1>11. CallsInv'
  <2>1. \A c \in Conns : CountBy(c, "closed")' = CountBy(c, "closed")
    BY <1>1 DEF CountBy
  <2>2. \A c \in Conns : Closing(c) => pc'[Base] = pc[Base]
    BY <1>1, <1>2 DEF Closing, ClosePCs
  <2> QED
    BY <1>1, <1>6, <1>7, <1>8, <1>10, <2>1, <2>2 DEF IInv, CallsInv
<1>12. ASSUME LoopRuns' PROVE PollerInv' /\ OnceInv'
  <2>1. LoopRuns
    BY <1>1, <1>2, <1>12 DEF LoopRuns
  <2> QED
    BY <1>1, <1>6, <1>7, <2>1 DEF IInv, PollerInv, OnceInv
<1> QED
  BY <1>3, <1>4, <1>5, <1>9, <1>11, <1>12 DEF IInv

\* ... enableReading, which puts a channel into the poller that has not been
\* destroyed, and none that is to be,
LEMMA EnableReadingStep ==
  ASSUME IInv, NEW l \in Loops, EnableReading(l) PROVE IInv'
<1> USE LoopsNat
<1>1. /\ pc[l] = "enable" /\ conn[l] \in Conns /\ conn[l] < nextConnId_
      /\ pc' = [pc EXCEPT ![l] = "up"]
      /\ inMap' = inMap \cup {conn[l]} /\ reading' = reading \cup {conn[l]}
      /\ UNCHANGED <<conn, ret, quit_, active, state_>>
      /\ UNCHANGED <<pending, batch, idx>>
      /\ UNCHANGED <<started_, listenning_, next_, told, nextConnId_, connections_>>
      /\ UNCHANGED <<arrived, peer, data, sent>>
      /\ UNCHANGED <<calls, destroyed>>
  BY DEF IInv, HoldInv, Types, ThreadTypes, SubPCs, CallPCs, ClosePCs,
       EnableReading, Goto, serverVars, peerVars, history
<1>2. \A m \in Loops : pc'[m] = IF m = l THEN "up" ELSE pc[m]
  BY <1>1 DEF IInv, Types, ThreadTypes
<1>3. Types'
  BY <1>1 DEF IInv, Types, PCs,
       ThreadTypes, QueueTypes, ServerTypes, PollerTypes, PeerTypes, HistoryTypes
<1>4. HoldInv'
  BY <1>1, <1>2 DEF IInv, HoldInv, CallPCs, ClosePCs, SubPCs
<1>5. QueueInv'
  BY <1>1, CallQueue DEF DispatchPCs, CallPCs
<1>6. \A m \in Loops : \A f : Waits(m, f)' <=> Waits(m, f)
  BY <1>1, WaitsSame
<1>7. \A m \in Loops, c \in Conns : Establishing(m, c)' =>
        Establishing(m, c) /\ (m = l => Waits(l, Functor("connectEstablished", c)))
  <2> TAKE m \in Loops, c \in Conns
  <2> QED
    BY <1>1, <1>2, <1>6 DEF Establishing, Functor
<1>8. \A c \in Conns : ToBeDestroyed(c)' <=> ToBeDestroyed(c)
  <2> TAKE c \in Conns
  <2> QED
    BY <1>6 DEF ToBeDestroyed, Functor
<1>9. \A c \in Conns : Closing(c)' <=> Closing(c)
  BY <1>1, <1>2 DEF Closing, ClosePCs
<1>10. LifeInv'
  BY <1>1, <1>8 DEF IInv, LifeInv
<1>11. CallsInv'
  <2>1. \A c \in Conns : CountBy(c, "closed")' = CountBy(c, "closed")
    BY <1>1 DEF CountBy
  <2>2. \A c \in Conns : Closing(c) => pc'[Base] = pc[Base]
    BY <1>1, <1>2 DEF Closing, ClosePCs
  <2> QED
    BY <1>1, <1>8, <1>9, <2>1, <2>2 DEF IInv, CallsInv
<1>12. ASSUME LoopRuns' PROVE PollerInv' /\ OnceInv'
  <2>1. LoopRuns
    BY <1>1, <1>2, <1>12 DEF LoopRuns
  <2>2. Establishing(l, conn[l])
    BY <1>1 DEF Establishing
  <2>3. conn[l] \in connections_ /\ conn[l] \notin inMap
    BY <1>1, <2>1, <2>2 DEF IInv, PollerInv
  <2>4. ~Waits(l, Functor("connectEstablished", conn[l]))
    <3>1. CASE l = Base
      BY <1>1, <3>1, NoneToEstablish
    <3>2. CASE l # Base
      BY <1>1, <2>1, <3>2 DEF IInv, OnceInv, Once
    <3> QED
      BY <3>1, <3>2
  <2>5. \A m \in Loops, c \in Conns : Establishing(m, c)' => c # conn[l]
    <3> SUFFICES ASSUME NEW m \in Loops, NEW c \in Conns, c = conn[l],
                        Establishing(m, c)'
                 PROVE  FALSE
      OBVIOUS
    <3>1. Establishing(m, c) /\ Establishing(l, c)
      BY <1>7, <2>2
    <3>2. m = l
      BY <2>1, <3>1 DEF IInv, OnceInv
    <3> QED
      BY <1>7, <2>4, <3>2
  <2>6. PollerInv'
    <3>1. \A m \in Loops, c \in Conns :
            Establishing(m, c)' => c \in connections_ /\ c \notin inMap'
      BY <1>1, <1>7, <2>1, <2>5 DEF IInv, PollerInv
    <3>2. \A c \in Conns : Closing(c)' =>
            c \in (inMap' \cap connections_) \ (reading' \cup active)
      BY <1>1, <1>9, <2>1, <2>3 DEF IInv, PollerInv
    <3>3. (destroyed \cap (inMap \cup connections_) = {})'
      BY <1>1, <2>1, <2>3 DEF IInv, PollerInv
    <3>4. (reading \cup (active \ {Acceptor}) \subseteq inMap \cap connections_)'
      BY <1>1, <2>1, <2>3 DEF IInv, PollerInv
    <3> QED
      BY <1>1, <1>8, <2>1, <3>1, <3>2, <3>3, <3>4 DEF IInv, PollerInv
  <2>7. \A m \in Loops \ {Base} : Once(m)'
    <3> TAKE m \in Loops \ {Base}
    <3>1. Once(m)
      BY <2>1 DEF IInv, OnceInv
    <3> QED
      BY <1>1, <1>2, <3>1, OnceStays
  <2> QED
    BY <1>7, <2>1, <2>6, <2>7 DEF IInv, OnceInv
<1> QED
  BY <1>3, <1>4, <1>5, <1>10, <1>11, <1>12 DEF IInv

\* The elements of a sequence that has got one more.
LEMMA AppendElement ==
  ASSUME NEW S, NEW s \in Seq(S), NEW e \in S
  PROVE  /\ Append(s, e) \in Seq(S)
         /\ Len(Append(s, e)) = Len(s) + 1
         /\ \A i \in 1 .. Len(Append(s, e)) :
              \/ i \in 1 .. Len(s) /\ Append(s, e)[i] = s[i]
              \/ i = Len(s) + 1 /\ Append(s, e)[i] = e
<1>1. Len(s) \in Nat
  OBVIOUS
<1> QED
  BY <1>1

\* A functor that fits still fits when more connections are accepted.
LEMMA FitsStays ==
  ASSUME nextConnId_ \in Nat, nextConnId_' \in Nat, nextConnId_ <= nextConnId_'
  PROVE  \A m \in Loops, f \in Functors : Fits(m, f) => Fits(m, f)'
<1> USE LoopsNat
<1> SUFFICES ASSUME NEW m \in Loops, NEW f \in Functors, Fits(m, f)
              PROVE Fits(m, f)'
  OBVIOUS
<1>1. f.c \in Conns
  BY DEF Functors
<1>2. f.c \in Nat /\ f.c < nextConnId_
  BY <1>1 DEF Fits
<1>3. f.c < nextConnId_'
  BY <1>2
<1> QED
  BY <1>3 DEF Fits

\* A functor that fits keeps the queues' invariant.
LEMMA QueueAppend ==
  ASSUME IInv, NEW k \in Loops, NEW g \in Functors,
         pending' = [pending EXCEPT ![k] = Append(@, g)], batch' = batch,
         nextConnId_ <= nextConnId_', nextConnId_' \in Nat, Fits(k, g)',
         g.run = "connectDestroyed" => pc'[Base] \in DispatchPCs,
         \A m \in Loops : pc'[m] \in {"init", "poll", "stopped"}
           => pc[m] \in {"init", "poll", "stopped"},
         pc'[Base] # "pending" => batch[Base] = <<>>,
         pc'[Base] \notin DispatchPCs => pc[Base] \notin DispatchPCs
  PROVE  QueueInv'
<1> USE LoopsNat
<1>1. \A m \in Loops : pending[m] \in Seq(Functors) /\ batch[m] \in Seq(Functors)
  BY DEF IInv, Types, QueueTypes
<1>2. nextConnId_ \in Nat
  BY DEF IInv, Types, ServerTypes
<1>3. \A m \in Loops, f \in Functors : Fits(m, f) => Fits(m, f)'
  BY <1>2, FitsStays
<1>4. \A m \in Loops : m # k => pending'[m] = pending[m]
  BY DEF IInv, Types, QueueTypes
<1>5. pending'[k] = Append(pending[k], g)
  BY DEF IInv, Types, QueueTypes
<1>6. \A i \in 1 .. Len(pending'[k]) :
        \/ i \in 1 .. Len(pending[k]) /\ pending'[k][i] = pending[k][i]
        \/ pending'[k][i] = g
  BY <1>1, <1>5, AppendElement
<1>7. \A m \in Loops : \A i \in 1 .. Len(batch[m]) : Fits(m, batch[m][i])'
  <2> SUFFICES ASSUME NEW m \in Loops, NEW i \in 1 .. Len(batch[m]), NEW f,
                      f = batch[m][i]
               PROVE  Fits(m, f)'
    BY DEF Fits
  <2> QED
    BY <1>1, <1>3 DEF IInv, QueueInv
<1>8. \A m \in Loops, i \in Nat : \A f : i \in 1 .. Len(pending'[m])
        /\ f = pending'[m][i] => Fits(m, f)'
  <2> SUFFICES ASSUME NEW m \in Loops, NEW i \in Nat, i \in 1 .. Len(pending'[m]),
                        NEW f,
                      f = pending'[m][i]
               PROVE  Fits(m, f)'
    OBVIOUS
  <2>1. CASE m # k
    BY <1>1, <1>3, <1>4, <2>1 DEF IInv, QueueInv
  <2>2. CASE m = k
    BY <1>1, <1>3, <1>6, <2>2 DEF IInv, QueueInv
  <2> QED
    BY <2>1, <2>2
<1>9. \A m \in Loops : \A i \in 1 .. Len(pending'[m]) : (Fits(m, pending[m][i]))'
  BY <1>8 DEF Fits
<1>10. pc'[Base] \notin DispatchPCs =>
         \A i \in 1 .. Len(pending'[Base]) :
           pending'[Base][i].run # "connectDestroyed"
  BY <1>4, <1>6 DEF IInv, QueueInv
<1>11. \A m \in Loops : pc'[m] \in {"init", "poll", "stopped"} => batch[m] = <<>>
  BY DEF IInv, QueueInv
<1> QED
  BY <1>7, <1>9, <1>10, <1>11 DEF QueueInv

\* A connection that is being closed is in the maps, and the base loop runs.
LEMMA ClosingInMap ==
  ASSUME IInv, NEW c \in Conns, Closing(c)
  PROVE  LoopRuns /\ c < nextConnId_ /\ c \in inMap /\ c \in connections_
<1>1. LoopRuns
  BY DEF LoopRuns, Closing, ClosePCs
<1>2. c \in connections_ /\ c \in inMap
  BY <1>1 DEF IInv, PollerInv
<1> QED
  BY <1>1, <1>2 DEF IInv, LifeInv

\* Where a thread calls the user, or returns from it.
UserPCs == {"up", "user", "shutdown", "post", "down"}

\* What a call of the user, shutdown() in it and the return from it do keeps
\* the invariant.
LEMMA UserStep ==
  ASSUME IInv, Types', HoldInv', NEW l \in Loops, NEW w,
         pc[l] \in UserPCs, pc' = [pc EXCEPT ![l] = w],
         w \notin {"established", "enable", "init", "poll", "stopped", "down"},
         l = Base => w \in DispatchPCs, l # Base => w \in SubPCs,
         \A m \in Loops : m # l => conn'[m] = conn[m],
         UNCHANGED <<batch, idx, nextConnId_, connections_, inMap, reading, active,
                     destroyed>>,
         \/ UNCHANGED pending
         \/ \E c \in Conns :
              /\ c < nextConnId_
              /\ pending' =
                   [pending EXCEPT ![Base] = Append(@,
                                                    Functor("shutdownInLoop", c))],
         \A c \in Conns : Closing(c)' <=> Closing(c),
         \A c \in Conns : \/ state_'[c] = state_[c]
                          \/ state_[c] # "none" /\ state_'[c] = "kDisconnecting",
         \A c \in Conns : \/ CountBy(c, "closed")' = CountBy(c, "closed")
                          \/ /\ Closing(c) /\ pc[Base] = "down" /\ l = Base
                             /\ CountBy(c, "closed")' = CountBy(c, "closed") + 1
  PROVE  IInv'
<1> USE LoopsNat
<1>1. \A m \in Loops : pc'[m] = IF m = l THEN w ELSE pc[m]
  BY DEF IInv, Types, ThreadTypes
<1>2. QueueInv'
  <2>1. CASE UNCHANGED pending
    BY <2>1, CallQueue DEF UserPCs, DispatchPCs, CallPCs, ClosePCs
  <2>2. ASSUME NEW c \in Conns, c < nextConnId_,
               pending' =
                 [pending EXCEPT ![Base] = Append(@, Functor("shutdownInLoop", c))]
        PROVE  QueueInv'
    <3> PICK g : g = Functor("shutdownInLoop", c)
      OBVIOUS
    <3>1. g \in Functors
      BY DEF Functor, Functors
    <3>2. Fits(Base, g)'
      BY <2>2 DEF Fits, Functor
    <3>3. g.run # "connectDestroyed"
            /\ pending' = [pending EXCEPT ![Base] = Append(@, g)]
      BY <2>2 DEF Functor
    <3>4. batch' = batch /\ nextConnId_ <= nextConnId_' /\ nextConnId_' \in Nat
      BY DEF IInv, Types, ServerTypes
    <3>5. pc'[Base] # "pending" => batch[Base] = <<>>
      BY <1>1 DEF IInv, QueueInv, UserPCs
    <3>6. \A m \in Loops : pc'[m] \in {"init", "poll", "stopped"}
            => pc[m] \in {"init", "poll", "stopped"}
      BY <1>1
    <3>7. pc'[Base] \notin DispatchPCs => pc[Base] \notin DispatchPCs
      BY <1>1
    <3> QED
      BY <3>1, <3>2, <3>3, <3>4, <3>5, <3>6, <3>7, QueueAppend
  <2> QED
    BY <2>1, <2>2
<1>3. \A m \in Loops, c \in Conns,
        run \in {"connectEstablished", "connectDestroyed"} :
        Waits(m, Functor(run, c))' <=> Waits(m, Functor(run, c))
  <2> SUFFICES ASSUME NEW m \in Loops, NEW c \in Conns,
                      NEW run \in {"connectEstablished", "connectDestroyed"}, NEW f,
                      f = Functor(run, c)
               PROVE  Waits(m, f)' <=> Waits(m, f)
    BY DEF Functor
  <2>1. CASE UNCHANGED pending
    BY <2>1, WaitsSame
  <2>2. ASSUME NEW d \in Conns,
               pending' =
                 [pending EXCEPT ![Base] = Append(@, Functor("shutdownInLoop", d))]
        PROVE  Waits(m, f)' <=> Waits(m, f)
    <3>1. Functor("shutdownInLoop", d) \in Functors
      BY DEF Functor, Functors
    <3>2. Functor("shutdownInLoop", d) # f
      BY DEF Functor
    <3>3. QueueTypes
      BY DEF IInv, Types
    <3> QED
      BY <2>2, <3>1, <3>2, <3>3, WaitsAppend
  <2> QED
    BY <2>1, <2>2
<1>4. \A m \in Loops, c \in Conns : Establishing(m, c)' <=> Establishing(m, c)
  <2> TAKE m \in Loops, c \in Conns
  <2>1. Waits(m, Functor("connectEstablished", c))'
          <=> Waits(m, Functor("connectEstablished", c))
    BY <1>3
  <2> QED
    BY <1>1, <2>1 DEF Establishing, UserPCs
<1>5. \A c \in Conns : ToBeDestroyed(c)' <=> ToBeDestroyed(c)
  BY <1>3 DEF ToBeDestroyed
<1>6. LifeInv'
  BY <1>5 DEF IInv, LifeInv, Types, HistoryTypes
<1>7. CallsInv'
  <2>1. ASSUME NEW c \in Conns
        PROVE  /\ CountBy(c, "closed")' <= 1
               /\ nextConnId_' <= c
                    \/ (c \in connections_' /\ ~(Closing(c)' /\ pc'[Base] # "down"))
                  => CountBy(c, "closed")' = 0
               /\ Closing(c)' \/ ToBeDestroyed(c)' =>
                    state_'[c] \in {"kDisconnecting", "kDisconnected"}
    <3>1. /\ CountBy(c, "closed") <= 1
          /\ nextConnId_ <= c
               \/ (c \in connections_ /\ ~(Closing(c) /\ pc[Base] # "down"))
             => CountBy(c, "closed") = 0
          /\ Closing(c) \/ ToBeDestroyed(c)
               => state_[c] \in {"kDisconnecting", "kDisconnected"}
      BY DEF IInv, CallsInv
    <3>2. pc'[Base] = "down" => pc[Base] = "down" /\ l # Base
      BY <1>1
    <3>3. CASE CountBy(c, "closed")' = CountBy(c, "closed")
      BY <1>1, <1>5, <3>1, <3>2, <3>3
    <3>4. CASE Closing(c) /\ pc[Base] = "down" /\ l = Base
                 /\ CountBy(c, "closed")' = CountBy(c, "closed") + 1
      <4>1. CountBy(c, "closed") = 0 /\ c < nextConnId_
        BY <3>1, <3>4, ClosingInMap
      <4>2. ~(nextConnId_ <= c)
        BY <4>1 DEF IInv, Types, ServerTypes
      <4> QED
        BY <1>1, <1>5, <3>1, <3>2, <3>4, <4>1, <4>2
    <3> QED
      BY <3>3, <3>4
  <2> QED
    BY <2>1 DEF CallsInv
<1>8. ASSUME LoopRuns' PROVE PollerInv' /\ OnceInv'
  <2>1. LoopRuns
    BY <1>1, <1>8 DEF LoopRuns, UserPCs
  <2>2. PollerInv'
    BY <1>4, <1>5, <2>1 DEF IInv, PollerInv
  <2>3. \A m \in Loops \ {Base} : Once(m)'
    <3> TAKE m \in Loops \ {Base}
    <3>1. Once(m)
      BY <2>1 DEF IInv, OnceInv
    <3>2. pending'[m] = pending[m]
      BY DEF IInv, Types, QueueTypes
    <3> QED
      BY <1>1, <3>1, <3>2, OnceStays DEF UserPCs
  <2> QED
    BY <1>4, <2>1, <2>2, <2>3 DEF IInv, OnceInv
<1> QED
  BY <1>2, <1>6, <1>7, <1>8 DEF IInv

\* shutdown() keeps the invariant: its test,
LEMMA ShutdownStep ==
  ASSUME IInv, NEW l \in Loops, Shutdown(l) PROVE IInv'
<1> USE LoopsNat
<1>1. /\ pc[l] = "user" /\ pc' = [pc EXCEPT ![l] = "shutdown"]
      /\ UNCHANGED <<conn, ret, pending, state_, calls>>
      /\ UNCHANGED <<quit_, batch, idx, nextConnId_, connections_, inMap, reading,
                     active,
                     destroyed>>
      /\ UNCHANGED <<started_, listenning_, next_, told, arrived, peer, data, sent>>
  BY DEF IInv, HoldInv, Types, ThreadTypes, CallPCs, ClosePCs, SubPCs, Shutdown,
       Goto,
     serverVars, pollerVars, peerVars, history
<1>2. \A m \in Loops : pc'[m] = IF m = l THEN "shutdown" ELSE pc[m]
  BY <1>1 DEF IInv, Types, ThreadTypes
<1>3. Types'
  BY <1>1 DEF IInv, Types, PCs, States,
       ThreadTypes, QueueTypes, ServerTypes, PollerTypes, PeerTypes, HistoryTypes
<1>4. HoldInv'
  BY <1>1, <1>2 DEF IInv, HoldInv, CallPCs, ClosePCs, SubPCs, Types, ThreadTypes,
       ServerTypes
<1>5. \A c \in Conns : Closing(c)' <=> Closing(c)
  BY <1>1, <1>2 DEF IInv, HoldInv, Closing, ClosePCs, Types, ThreadTypes
<1>6. \A c \in Conns : state_'[c] = state_[c]
  BY <1>1
<1>7. \A c \in Conns : CountBy(c, "closed")' = CountBy(c, "closed")
  BY <1>1 DEF CountBy
<1> QED
  BY <1>1, <1>2, <1>3, <1>4, <1>5, <1>6, <1>7, UserStep DEF UserPCs, DispatchPCs,
       CallPCs, ClosePCs, SubPCs

\* ... its assignment,
LEMMA SetDisconnectingStep ==
  ASSUME IInv, NEW l \in Loops, SetDisconnecting(l) PROVE IInv'
<1> USE LoopsNat
<1>1. /\ pc[l] = "shutdown" /\ pc' = [pc EXCEPT ![l] = "post"]
      /\ conn[l] \in Conns /\ conn[l] < nextConnId_
      /\ state_' = [state_ EXCEPT ![conn[l]] = "kDisconnecting"]
      /\ UNCHANGED <<conn, ret, pending, calls>>
      /\ UNCHANGED <<quit_, batch, idx, nextConnId_, connections_, inMap, reading,
                     active,
                     destroyed>>
      /\ UNCHANGED <<started_, listenning_, next_, told, arrived, peer, data, sent>>
  BY DEF IInv, HoldInv, Types, ThreadTypes, CallPCs, ClosePCs, SubPCs,
       SetDisconnecting, Goto,
     serverVars, pollerVars, peerVars, history
<1>2. \A m \in Loops : pc'[m] = IF m = l THEN "post" ELSE pc[m]
  BY <1>1 DEF IInv, Types, ThreadTypes
<1>3. Types'
  BY <1>1 DEF IInv, Types, PCs, States,
       ThreadTypes, QueueTypes, ServerTypes, PollerTypes, PeerTypes, HistoryTypes
<1>4. HoldInv'
  BY <1>1, <1>2 DEF IInv, HoldInv, CallPCs, ClosePCs, SubPCs, Types, ThreadTypes,
       ServerTypes
<1>5. \A c \in Conns : Closing(c)' <=> Closing(c)
  BY <1>1, <1>2 DEF IInv, HoldInv, Closing, ClosePCs, Types, ThreadTypes
<1>6. \A c \in Conns : \/ state_'[c] = state_[c]
                       \/ state_[c] # "none" /\ state_'[c] = "kDisconnecting"
  BY <1>1 DEF IInv, LifeInv, Types, HistoryTypes, ServerTypes
<1>7. \A c \in Conns : CountBy(c, "closed")' = CountBy(c, "closed")
  BY <1>1 DEF CountBy
<1> QED
  BY <1>1, <1>2, <1>3, <1>4, <1>5, <1>6, <1>7, UserStep DEF UserPCs, DispatchPCs,
       CallPCs, ClosePCs, SubPCs

\* The calls of connectionCallback_ keep it: in connectEstablished,
LEMMA UpCallbackStep ==
  ASSUME IInv, NEW l \in Loops, UpCallback(l) PROVE IInv'
<1> USE LoopsNat
<1>1. /\ pc[l] = "up" /\ pc' = [pc EXCEPT ![l] = "user"]
      /\ conn[l] \in Conns /\ Call("established", conn[l])
      /\ UNCHANGED <<conn, ret, pending, state_>>
      /\ UNCHANGED <<quit_, batch, idx, nextConnId_, connections_, inMap, reading,
                     active,
                     destroyed>>
      /\ UNCHANGED <<started_, listenning_, next_, told, arrived, peer, data, sent>>
  BY DEF IInv, HoldInv, Types, ThreadTypes, CallPCs, ClosePCs, SubPCs, UpCallback,
       Goto,
     serverVars, pollerVars, peerVars, history
<1> PICK e \in Calls : /\ e.by = "established"
                      /\ calls' = [calls EXCEPT ![conn[l]] = Append(@, e)]
  <2> DEFINE e == [by |-> "established",
                   connected |-> state_[conn[l]] = "kConnected"]
  <2>1. e \in Calls /\ e.by = "established"
    BY DEF Calls
  <2>2. calls' = [calls EXCEPT ![conn[l]] = Append(@, e)]
    BY <1>1 DEF Call
  <2> QED
    BY <2>1, <2>2
<1>2. HistoryTypes'
  BY <1>1, CallTypes DEF IInv, Types, HistoryTypes
<1>3. \A m \in Loops : pc'[m] = IF m = l THEN "user" ELSE pc[m]
  BY <1>1 DEF IInv, Types, ThreadTypes
<1>4. Types'
  BY <1>1, <1>2 DEF IInv, Types, PCs, States,
       ThreadTypes, QueueTypes, ServerTypes, PollerTypes, PeerTypes, HistoryTypes
<1>5. HoldInv'
  BY <1>1, <1>3 DEF IInv, HoldInv, CallPCs, ClosePCs, SubPCs, Types, ThreadTypes,
       ServerTypes
<1>6. \A c \in Conns : Closing(c)' <=> Closing(c)
  BY <1>1, <1>3 DEF IInv, HoldInv, Closing, ClosePCs, Types, ThreadTypes
<1>7. \A c \in Conns : state_'[c] = state_[c]
  BY <1>1
<1>8. \A c \in Conns : CountBy(c, "closed")' = CountBy(c, "closed")
  BY <1>1, CountCall DEF IInv, Types
<1> QED
  BY <1>1, <1>3, <1>4, <1>5, <1>6, <1>7, <1>8, UserStep DEF UserPCs, DispatchPCs,
       CallPCs, ClosePCs, SubPCs

\* ... and in handleClose, which is the first about the end.
LEMMA DownCallbackStep ==
  ASSUME IInv, NEW l \in Loops, DownCallback(l) PROVE IInv'
<1> USE LoopsNat
<1>1. /\ pc[l] = "down" /\ pc' = [pc EXCEPT ![l] = "user"] /\ l = Base
      /\ conn[l] \in Conns /\ Call("closed", conn[l])
      /\ ret' = [ret EXCEPT ![l] = "remove"]
      /\ UNCHANGED <<conn, pending, state_>>
      /\ UNCHANGED <<quit_, batch, idx, nextConnId_, connections_, inMap, reading,
                     active,
                     destroyed>>
      /\ UNCHANGED <<started_, listenning_, next_, told, arrived, peer, data, sent>>
  BY DEF IInv, HoldInv, Types, ThreadTypes, CallPCs, ClosePCs, SubPCs,
       DownCallback, Goto,
     serverVars, pollerVars, peerVars, history
<1> PICK e \in Calls : /\ e.by = "closed"
                      /\ calls' = [calls EXCEPT ![conn[l]] = Append(@, e)]
  <2> DEFINE e == [by |-> "closed", connected |-> state_[conn[l]] = "kConnected"]
  <2>1. e \in Calls /\ e.by = "closed"
    BY DEF Calls
  <2>2. calls' = [calls EXCEPT ![conn[l]] = Append(@, e)]
    BY <1>1 DEF Call
  <2> QED
    BY <2>1, <2>2
<1>2. HistoryTypes'
  BY <1>1, CallTypes DEF IInv, Types, HistoryTypes
<1>3. \A m \in Loops : pc'[m] = IF m = l THEN "user" ELSE pc[m]
  BY <1>1 DEF IInv, Types, ThreadTypes
<1>4. Types'
  BY <1>1, <1>2 DEF IInv, Types, PCs, States,
       ThreadTypes, QueueTypes, ServerTypes, PollerTypes, PeerTypes, HistoryTypes
<1>5. HoldInv'
  BY <1>1, <1>3 DEF IInv, HoldInv, CallPCs, ClosePCs, SubPCs, Types, ThreadTypes,
       ServerTypes
<1>6. \A c \in Conns : Closing(c)' <=> Closing(c)
  BY <1>1, <1>3 DEF IInv, HoldInv, Closing, ClosePCs, Types, ThreadTypes
<1>7. \A c \in Conns : state_'[c] = state_[c]
  BY <1>1
<1>8. \A c \in Conns : \/ CountBy(c, "closed")' = CountBy(c, "closed")
                       \/ /\ Closing(c) /\ pc[Base] = "down" /\ l = Base
                          /\ CountBy(c, "closed")' = CountBy(c, "closed") + 1
  <2>1. \A c \in Conns : c # conn[l] => CountBy(c, "closed")' = CountBy(c, "closed")
    BY <1>1, CountCall DEF IInv, Types
  <2>2. \A c \in Conns : c = conn[l] =>
          Closing(c) /\ CountBy(c, "closed")' = CountBy(c, "closed") + 1
    BY <1>1, CountCall DEF IInv, Types, Closing, ClosePCs
  <2> QED
    BY <1>1, <2>1, <2>2
<1> QED
  BY <1>1, <1>3, <1>4, <1>5, <1>6, <1>7, <1>8, UserStep DEF UserPCs, DispatchPCs,
       CallPCs, ClosePCs, SubPCs

\* The return from the user's callback keeps it,
LEMMA UserReturnStep ==
  ASSUME IInv, NEW l \in Loops, UserReturn(l) PROVE IInv'
<1> USE LoopsNat
<1>1. /\ pc[l] = "user" /\ UNCHANGED pending
      /\ pc' = [pc EXCEPT ![l] = ret[l]] /\ ret' = [ret EXCEPT ![l] = "pending"]
      /\ l = Base => ret[l] \in {"dispatch", "remove"}
      /\ l # Base => ret[l] = "pending"
      /\ conn' = [conn EXCEPT ![l] = IF ret[l] = "remove" THEN @ ELSE NoConn]
      /\ UNCHANGED <<state_, calls>>
      /\ UNCHANGED <<quit_, batch, idx, nextConnId_, connections_, inMap, reading,
                     active,
                     destroyed>>
      /\ UNCHANGED <<started_, listenning_, next_, told, arrived, peer, data, sent>>
  BY DEF IInv, HoldInv, Types, ThreadTypes, CallPCs, ClosePCs, SubPCs, UserReturn,
       Return, Goto, ReleaseUnlessClosing,
     serverVars, pollerVars, peerVars, history
<1> PICK w : w = ret[l]
  OBVIOUS
<1>2. /\ pc' = [pc EXCEPT ![l] = w]
      /\ w \notin {"established", "enable", "init", "poll", "stopped", "down"}
      /\ w \in {"pending", "dispatch", "remove"}
      /\ l = Base => w \in DispatchPCs
      /\ l # Base => w \in SubPCs
  BY <1>1 DEF DispatchPCs, ClosePCs, SubPCs
<1>3. \A m \in Loops : /\ ret'[m] = IF m = l THEN "pending" ELSE ret[m]
                       /\ conn'[m] = IF m = l /\ w # "remove" THEN NoConn
                            ELSE conn[m]
  BY <1>1 DEF IInv, Types, ThreadTypes
<1>4. /\ pc[l] \in UserPCs
       /\ UNCHANGED <<batch, idx, nextConnId_, connections_, inMap, reading,
                      active, destroyed>>
  BY <1>1 DEF UserPCs
<1>5. \A m \in Loops : m # l => conn'[m] = conn[m]
  BY <1>3
<1>6. UNCHANGED pending
  BY <1>1
<1>7. \A m \in Loops : pc'[m] = IF m = l THEN w ELSE pc[m]
  BY <1>1 DEF IInv, Types, ThreadTypes
<1>8. Types'
  BY <1>1 DEF IInv, Types, PCs, States,
       ThreadTypes, QueueTypes, ServerTypes, PollerTypes, PeerTypes, HistoryTypes
<1>9. HoldInv'
  BY <1>1, <1>7, <1>2, <1>3 DEF IInv, HoldInv, CallPCs, ClosePCs, SubPCs, Types,
       ThreadTypes, ServerTypes
<1>10. \A c \in Conns : Closing(c)' <=> Closing(c)
  BY <1>1, <1>7, <1>2, <1>3 DEF IInv, HoldInv, Closing, ClosePCs, Types, ThreadTypes
<1>11. \A c \in Conns : state_'[c] = state_[c]
  BY <1>1
<1>12. \A c \in Conns : CountBy(c, "closed")' = CountBy(c, "closed")
  BY <1>1 DEF CountBy
<1> QED
  BY <1>8, <1>9, <1>10, <1>11, <1>12, <1>2, <1>5, <1>6, <1>4, UserStep

\* ... also with a shutdownInLoop queued.
LEMMA PostShutdownStep ==
  ASSUME IInv, NEW l \in Loops, PostShutdown(l) PROVE IInv'
<1> USE LoopsNat
<1>1. /\ pc[l] = "post" /\ conn[l] \in Conns /\ conn[l] < nextConnId_
      /\ \/ UNCHANGED pending
         \/ pending' = [pending EXCEPT
              ![Base] = Append(@, Functor("shutdownInLoop", conn[l]))]
      /\ pc' = [pc EXCEPT ![l] = ret[l]] /\ ret' = [ret EXCEPT ![l] = "pending"]
      /\ l = Base => ret[l] \in {"dispatch", "remove"}
      /\ l # Base => ret[l] = "pending"
      /\ conn' = [conn EXCEPT ![l] = IF ret[l] = "remove" THEN @ ELSE NoConn]
      /\ UNCHANGED <<state_, calls>>
      /\ UNCHANGED <<quit_, batch, idx, nextConnId_, connections_, inMap, reading,
                     active,
                     destroyed>>
      /\ UNCHANGED <<started_, listenning_, next_, told, arrived, peer, data, sent>>
  BY DEF IInv, HoldInv, Types, ThreadTypes, CallPCs, ClosePCs, SubPCs,
       PostShutdown, Return, Goto, ReleaseUnlessClosing,
     serverVars, pollerVars, peerVars, history
<1> PICK w : w = ret[l]
  OBVIOUS
<1>2. /\ pc' = [pc EXCEPT ![l] = w]
      /\ w \notin {"established", "enable", "init", "poll", "stopped", "down"}
      /\ w \in {"pending", "dispatch", "remove"}
      /\ l = Base => w \in DispatchPCs
      /\ l # Base => w \in SubPCs
  BY <1>1 DEF DispatchPCs, ClosePCs, SubPCs
<1>3. \A m \in Loops : /\ ret'[m] = IF m = l THEN "pending" ELSE ret[m]
                       /\ conn'[m] = IF m = l /\ w # "remove" THEN NoConn
                            ELSE conn[m]
  BY <1>1 DEF IInv, Types, ThreadTypes
<1>4. /\ pc[l] \in UserPCs
       /\ UNCHANGED <<batch, idx, nextConnId_, connections_, inMap, reading,
                      active, destroyed>>
  BY <1>1 DEF UserPCs
<1>5. \A m \in Loops : m # l => conn'[m] = conn[m]
  BY <1>3
<1>6. PICK c0 \in Conns : c0 = conn[l]
  BY <1>1
<1>7. \/ UNCHANGED pending
       \/ /\ c0 < nextConnId_
          /\ pending' =
               [pending EXCEPT ![Base] = Append(@, Functor("shutdownInLoop", c0))]
  BY <1>1, <1>6
<1>8. \/ UNCHANGED pending
       \/ \E c \in Conns :
            /\ c < nextConnId_
            /\ pending' =
                 [pending EXCEPT ![Base] = Append(@, Functor("shutdownInLoop", c))]
  BY <1>7
<1>9. QueueTypes'
  <2> PICK g : g = Functor("shutdownInLoop", c0)
    OBVIOUS
  <2>1. g \in Functors
    BY DEF Functor, Functors
  <2>2. pending' = pending \/ pending' = [pending EXCEPT ![Base] = Append(@, g)]
    BY <1>7
  <2>3. pending[Base] \in Seq(Functors)
          /\ Append(pending[Base], g) \in Seq(Functors)
    BY <2>1 DEF IInv, Types, QueueTypes
  <2>4. pending' \in [Loops -> Seq(Functors)]
    BY <2>2, <2>3 DEF IInv, Types, QueueTypes
  <2> QED
    BY <1>1, <2>4 DEF IInv, Types, QueueTypes
<1>10. \A m \in Loops : pc'[m] = IF m = l THEN w ELSE pc[m]
  BY <1>1 DEF IInv, Types, ThreadTypes
<1>11. Types'
  BY <1>1, <1>9 DEF IInv, Types, PCs, States,
       ThreadTypes, QueueTypes, ServerTypes, PollerTypes, PeerTypes, HistoryTypes
<1>12. HoldInv'
  BY <1>1, <1>10, <1>2, <1>3 DEF IInv, HoldInv, CallPCs, ClosePCs, SubPCs, Types,
       ThreadTypes, ServerTypes
<1>13. \A c \in Conns : Closing(c)' <=> Closing(c)
  BY <1>1, <1>10, <1>2, <1>3 DEF IInv, HoldInv, Closing, ClosePCs, Types,
       ThreadTypes
<1>14. \A c \in Conns : state_'[c] = state_[c]
  BY <1>1
<1>15. \A c \in Conns : CountBy(c, "closed")' = CountBy(c, "closed")
  BY <1>1 DEF CountBy
<1> QED
  BY <1>11, <1>12, <1>13, <1>14, <1>15, <1>2, <1>5, <1>8, <1>4, UserStep

\* A message keeps it.
LEMMA MessageStep ==
  ASSUME IInv, NEW c \in Conns, Message(c) PROVE IInv'
<1> USE LoopsNat
<1>1. /\ pc[Base] = "dispatch" /\ c \in active /\ active' = active \ {c}
      /\ pc' = [pc EXCEPT ![Base] = "user"]
      /\ conn' = [conn EXCEPT ![Base] = c]
      /\ ret' = [ret EXCEPT ![Base] = "dispatch"] /\ data' = data \ {c}
      /\ Call("message", c) /\ UNCHANGED <<state_, reading>>
      /\ UNCHANGED <<quit_, pending, batch, idx, nextConnId_, connections_, inMap,
                     destroyed>>
      /\ UNCHANGED <<started_, listenning_, next_, told, arrived, peer, sent>>
  BY DEF Message, Handle, Hold, Goto, Message, serverVars, peerVars, history
<1>2. PollerInv /\ OnceInv /\ LoopRuns
  BY <1>1 DEF IInv, LoopRuns
<1>3. c \in inMap /\ c \in connections_ /\ c < nextConnId_
  BY <1>1, <1>2 DEF IInv, PollerInv, LifeInv
<1>4. /\ \A m \in Loops : pc'[m] = IF m = Base THEN "user" ELSE pc[m]
      /\ \A m \in Loops : conn'[m] = IF m = Base THEN c ELSE conn[m]
  BY <1>1 DEF IInv, Types, ThreadTypes
<1>5. PICK e \in Calls : e.by = "message"
             /\ calls' = [calls EXCEPT ![c] = Append(@, e)]
  <2> DEFINE e == [by |-> "message", connected |-> state_[c] = "kConnected"]
  <2>1. e \in Calls /\ e.by = "message"
    BY DEF Calls
  <2>2. calls' = [calls EXCEPT ![c] = Append(@, e)]
    BY <1>1 DEF Call
  <2> QED
    BY <2>1, <2>2
<1>6. Types'
  <2>1. HistoryTypes'
    BY <1>1, <1>5, CallTypes DEF IInv, Types, HistoryTypes
  <2> QED
    BY <1>1, <2>1 DEF IInv, Types, PCs,
       ThreadTypes, QueueTypes, ServerTypes, PollerTypes, PeerTypes
<1>7. HoldInv'
  BY <1>1, <1>3, <1>4 DEF IInv, HoldInv, CallPCs, ClosePCs, SubPCs, Types,
       ThreadTypes
<1>8. QueueInv'
  BY <1>1, CallQueue DEF DispatchPCs, CallPCs, ClosePCs
<1>9. /\ \A m \in Loops, d \in Conns : Establishing(m, d)' <=> Establishing(m, d)
      /\ \A d \in Conns : ToBeDestroyed(d)' <=> ToBeDestroyed(d)
      /\ \A m \in Loops : Once(m) => Once(m)'
  BY <1>1, <1>4, PredsSame
<1>10. \A d \in Conns : ~Closing(d)' /\ ~Closing(d)
  BY <1>1, <1>4 DEF Closing, ClosePCs, IInv, Types, ThreadTypes
<1>11. \A d \in Conns : state_'[d] = state_[d]
  BY <1>1
<1>12. \A d \in Conns : CountBy(d, "closed")' = CountBy(d, "closed")
  BY <1>5, CountCall DEF IInv, Types
<1>13. CallsInv'
  <2>1. ASSUME NEW d \in Conns
        PROVE  /\ CountBy(d, "closed")' <= 1
               /\ nextConnId_' <= d
                    \/ (d \in connections_' /\ ~(Closing(d)' /\ pc'[Base] # "down"))
                  => CountBy(d, "closed")' = 0
               /\ Closing(d)' \/ ToBeDestroyed(d)' =>
                    state_'[d] \in {"kDisconnecting", "kDisconnected"}
    <3>1. /\ CountBy(d, "closed") <= 1
          /\ nextConnId_ <= d
               \/ (d \in connections_ /\ ~(Closing(d) /\ pc[Base] # "down"))
             => CountBy(d, "closed") = 0
          /\ Closing(d) \/ ToBeDestroyed(d)
               => state_[d] \in {"kDisconnecting", "kDisconnected"}
      BY DEF IInv, CallsInv
    <3> QED
      BY <1>1, <1>4, <1>9, <1>10, <1>11, <1>12, <3>1
  <2> QED
    BY <2>1 DEF CallsInv
<1>14. LifeInv'
  BY <1>1, <1>3, <1>9, <1>11 DEF IInv, LifeInv, Types, HistoryTypes, ServerTypes
<1>15. PollerInv'
  BY <1>1, <1>2, <1>3, <1>9, <1>10 DEF PollerInv
<1>16. OnceInv'
  BY <1>2, <1>9 DEF OnceInv
<1> QED
  BY <1>6, <1>7, <1>8, <1>13, <1>14, <1>15, <1>16 DEF IInv

\* handleClose keeps it up to the callback: epoll no longer watches the
\* channel, and activeChannels_ has no other pointer to it.
LEMMA HandleCloseStep ==
  ASSUME IInv, NEW c \in Conns, HandleClose(c) PROVE IInv'
<1> USE LoopsNat
<1>1. /\ pc[Base] = "dispatch" /\ c \in active /\ active' = active \ {c}
      /\ pc' = [pc EXCEPT ![Base] = "down"]
      /\ conn' = [conn EXCEPT ![Base] = c]
      /\ state_' = [state_ EXCEPT ![c] = "kDisconnected"]
      /\ reading' = reading \ {c}
      /\ UNCHANGED <<ret, data, calls>>
      /\ UNCHANGED <<quit_, pending, batch, idx, nextConnId_, connections_, inMap,
                     destroyed>>
      /\ UNCHANGED <<started_, listenning_, next_, told, arrived, peer, sent>>
  BY DEF HandleClose, Handle, Hold, Goto, HandleClose, serverVars, peerVars, history
<1>2. PollerInv /\ OnceInv /\ LoopRuns
  BY <1>1 DEF IInv, LoopRuns
<1>3. c \in inMap /\ c \in connections_ /\ c < nextConnId_
  BY <1>1, <1>2 DEF IInv, PollerInv, LifeInv
<1>4. /\ \A m \in Loops : pc'[m] = IF m = Base THEN "down" ELSE pc[m]
      /\ \A m \in Loops : conn'[m] = IF m = Base THEN c ELSE conn[m]
  BY <1>1 DEF IInv, Types, ThreadTypes
<1>5. Types'
  BY <1>1 DEF IInv, Types, PCs, States,
     ThreadTypes, QueueTypes, ServerTypes, PollerTypes, PeerTypes, HistoryTypes
<1>6. HoldInv'
  BY <1>1, <1>3, <1>4 DEF IInv, HoldInv, CallPCs, ClosePCs, SubPCs, Types,
       ThreadTypes
<1>7. QueueInv'
  BY <1>1, CallQueue DEF DispatchPCs, CallPCs, ClosePCs
<1>8. /\ \A m \in Loops, d \in Conns : Establishing(m, d)' <=> Establishing(m, d)
      /\ \A d \in Conns : ToBeDestroyed(d)' <=> ToBeDestroyed(d)
      /\ \A m \in Loops : Once(m) => Once(m)'
  BY <1>1, <1>4, PredsSame
<1>9. \A d \in Conns : ~Closing(d) /\ (Closing(d)' <=> d = c)
  BY <1>1, <1>4 DEF Closing, ClosePCs, IInv, Types, ThreadTypes
<1>10. \A d \in Conns : state_'[d] = IF d = c THEN "kDisconnected" ELSE state_[d]
  BY <1>1 DEF IInv, Types, HistoryTypes
<1>11. \A d \in Conns : CountBy(d, "closed")' = CountBy(d, "closed")
  BY <1>1 DEF CountBy
<1>12. CallsInv'
  <2>1. ASSUME NEW d \in Conns
        PROVE  /\ CountBy(d, "closed")' <= 1
               /\ nextConnId_' <= d
                    \/ (d \in connections_' /\ ~(Closing(d)' /\ pc'[Base] # "down"))
                  => CountBy(d, "closed")' = 0
               /\ Closing(d)' \/ ToBeDestroyed(d)' =>
                    state_'[d] \in {"kDisconnecting", "kDisconnected"}
    <3>1. /\ CountBy(d, "closed") <= 1
          /\ nextConnId_ <= d
               \/ (d \in connections_ /\ ~(Closing(d) /\ pc[Base] # "down"))
             => CountBy(d, "closed") = 0
          /\ Closing(d) \/ ToBeDestroyed(d)
               => state_[d] \in {"kDisconnecting", "kDisconnected"}
      BY DEF IInv, CallsInv
    <3> QED
      BY <1>1, <1>4, <1>8, <1>9, <1>10, <1>11, <3>1
  <2> QED
    BY <2>1 DEF CallsInv
<1>13. LifeInv'
  BY <1>1, <1>3, <1>8, <1>10 DEF IInv, LifeInv, Types, HistoryTypes, ServerTypes
<1>14. PollerInv'
  BY <1>1, <1>2, <1>3, <1>8, <1>9 DEF PollerInv
<1>15. OnceInv'
  BY <1>2, <1>8 DEF OnceInv
<1> QED
  BY <1>5, <1>6, <1>7, <1>12, <1>13, <1>14, <1>15 DEF IInv

-----------------------------------------------------------------------------
(***************************************************************************)
(* The steps of the queues.                                                *)
(***************************************************************************)

\* A step that only moves functors keeps the invariant.
LEMMA QueueStep ==
  ASSUME IInv, Types', HoldInv', QueueInv',
         UNCHANGED <<conn, ret, nextConnId_, connections_, state_, inMap, reading,
                     active,
                     calls, destroyed>>,
         \A m \in Loops : \/ pc'[m] = pc[m]
                          \/ /\ pc[m] \in {"dispatch", "poll", "pending"}
                             /\ pc'[m] \in {"poll", "pending"},
         \A m \in Loops, c \in Conns,
           run \in {"connectEstablished", "connectDestroyed"} :
           Waits(m, Functor(run, c))' <=> Waits(m, Functor(run, c)),
         \A m \in Loops \ {Base} : Once(m) => Once(m)'
  PROVE  IInv'
<1> USE LoopsNat
<1>1. \A m \in Loops, c \in Conns : Establishing(m, c)' <=> Establishing(m, c)
  <2> TAKE m \in Loops, c \in Conns
  <2>1. Waits(m, Functor("connectEstablished", c))'
          <=> Waits(m, Functor("connectEstablished", c))
    OBVIOUS
  <2> QED
    BY <2>1 DEF Establishing
<1>2. \A c \in Conns : ToBeDestroyed(c)' <=> ToBeDestroyed(c)
  BY DEF ToBeDestroyed
<1>3. \A c \in Conns : Closing(c)' <=> Closing(c)
  BY DEF Closing, ClosePCs
<1>4. LifeInv'
  BY <1>2 DEF IInv, LifeInv
<1>5. CallsInv'
  <2>1. \A c \in Conns : CountBy(c, "closed")' = CountBy(c, "closed")
    BY DEF CountBy
  <2>2. \A c \in Conns : Closing(c) => pc'[Base] = pc[Base]
    BY DEF Closing, ClosePCs
  <2> QED
    BY <1>2, <1>3, <2>1, <2>2 DEF IInv, CallsInv
<1>6. ASSUME LoopRuns' PROVE PollerInv' /\ OnceInv'
  <2>1. LoopRuns
    BY <1>6 DEF LoopRuns
  <2>2. PollerInv'
    BY <1>1, <1>2, <1>3, <2>1 DEF IInv, PollerInv
  <2> QED
    BY <1>1, <2>1, <2>2 DEF IInv, OnceInv
<1> QED
  BY <1>4, <1>5, <1>6 DEF IInv

\* The swap of the queue and the batch keeps it,
LEMMA SwapStep ==
  ASSUME IInv, NEW l \in Loops, Swap(l) PROVE IInv'
<1> USE LoopsNat
<1>1. /\ IF l = Base THEN pc[l] = "dispatch" ELSE pc[l] = "poll"
      /\ pc' = [pc EXCEPT ![l] = "pending"]
      /\ batch' = [batch EXCEPT ![l] = pending[l]]
      /\ pending' = [pending EXCEPT ![l] = <<>>]
      /\ idx' = [idx EXCEPT ![l] = 1]
      /\ UNCHANGED <<conn, ret, nextConnId_, connections_, state_, inMap, reading,
                     active,
                     calls, destroyed>>
      /\ UNCHANGED <<quit_, started_, listenning_, next_, told, arrived, peer, data,
                     sent>>
  BY DEF Swap, Goto, serverVars, pollerVars, peerVars, history
<1>2. \A m \in Loops : pc'[m] = IF m = l THEN "pending" ELSE pc[m]
  BY <1>1 DEF IInv, Types, ThreadTypes
<1>3. batch[l] = <<>>
  BY <1>1 DEF IInv, QueueInv
<1>4. QueueTypes
  BY DEF IInv, Types
<1>5. \A m \in Loops : /\ batch'[m] = IF m = l THEN pending[m] ELSE batch[m]
                       /\ pending'[m] = IF m = l THEN <<>> ELSE pending[m]
                       /\ idx'[m] = IF m = l THEN 1 ELSE idx[m]
  BY <1>1, <1>4 DEF QueueTypes
<1>6. QueueTypes'
  <2>1. ASSUME NEW m \in Loops PROVE idx'[m] \in 1 .. Len(batch'[m]) + 1
    <3>1. batch[m] \in Seq(Functors) /\ pending[m] \in Seq(Functors)
      BY <1>4 DEF QueueTypes
    <3>2. CASE m = l
      <4>1. idx'[m] = 1 /\ Len(batch'[m]) \in Nat
        BY <1>5, <3>1, <3>2
      <4> QED
        BY <4>1
    <3>3. CASE m # l
      BY <1>4, <1>5, <3>3 DEF QueueTypes
    <3> QED
      BY <3>2, <3>3
  <2>2. idx' \in [Loops -> Nat] /\ pending' \in [Loops -> Seq(Functors)]
    BY <1>1, <1>4 DEF QueueTypes
  <2>3. batch' \in [Loops -> Seq(Functors)]
    BY <1>1, <1>4 DEF QueueTypes
  <2> QED
    BY <2>1, <2>2, <2>3 DEF QueueTypes
<1>7. Types'
  BY <1>1, <1>6 DEF IInv, Types, PCs, ThreadTypes, ServerTypes, PollerTypes,
       PeerTypes, HistoryTypes
<1>8. HoldInv'
  BY <1>1, <1>2 DEF IInv, HoldInv, CallPCs, ClosePCs, SubPCs
<1>9. QueueInv'
  <2>1. \A m \in Loops : \A f : Fits(m, f)' <=> Fits(m, f)
    BY <1>1 DEF Fits
  <2>2. \A m \in Loops : \A f, i : i \in 1 .. Len(pending'[m])
          /\ f = pending'[m][i] => Fits(m, f)
    BY <1>5 DEF IInv, QueueInv
  <2>3. \A m \in Loops : \A f, i : i \in 1 .. Len(batch'[m]) /\ f = batch'[m][i]
          => Fits(m, f)
    BY <1>5 DEF IInv, QueueInv
  <2>4. \A m \in Loops : /\ \A i \in 1 .. Len(pending'[m]) : Fits(m, pending[m][i])'
                         /\ \A i \in 1 .. Len(batch'[m]) : Fits(m, batch[m][i])'
    <3>1. \A m \in Loops : \A i \in 1 .. Len(pending'[m]) : Fits(m, pending'[m][i])
      BY <2>2
    <3>2. \A m \in Loops : \A i \in 1 .. Len(batch'[m]) : Fits(m, batch'[m][i])
      BY <2>3
    <3> QED
      BY <1>1, <3>1, <3>2 DEF Fits
  <2>5. \A m \in Loops : pc'[m] \in {"init", "poll", "stopped"} => batch'[m] = <<>>
    BY <1>2, <1>5 DEF IInv, QueueInv
  <2>6. pc'[Base] # "pending" => batch'[Base] = <<>>
    BY <1>2, <1>5 DEF IInv, QueueInv
  <2>7. pc'[Base] \notin DispatchPCs =>
          \A i \in 1 .. Len(pending'[Base]) :
            pending'[Base][i].run # "connectDestroyed"
    <3>1. CASE l = Base
      BY <1>5, <3>1
    <3>2. CASE l # Base
      BY <1>2, <1>5, <3>2 DEF IInv, QueueInv
    <3> QED
      BY <3>1, <3>2
  <2> QED
    BY <2>4, <2>5, <2>6, <2>7 DEF QueueInv
<1>10. \A m \in Loops : \A f : Waits(m, f)' <=> Waits(m, f)
  BY <1>1, <1>3, <1>4, WaitsSwap
<1>11. \A m \in Loops, c \in Conns,
         run \in {"connectEstablished", "connectDestroyed"} :
         Waits(m, Functor(run, c))' <=> Waits(m, Functor(run, c))
  <2> TAKE m \in Loops, c \in Conns,
             run \in {"connectEstablished", "connectDestroyed"}
  <2> QED
    BY <1>10 DEF Functor
<1>12. \A m \in Loops : Once(m) => Once(m)'
  <2> SUFFICES ASSUME NEW m \in Loops, Once(m) PROVE Once(m)'
    OBVIOUS
  <2>1. CASE m # l
    BY <1>1, <1>2, <1>5, <2>1, OnceStays
  <2>2. CASE m = l
    <3>1. Len(pending'[m]) = 0 /\ pc'[m] = "pending" /\ batch'[m] = pending[m]
            /\ idx'[m] = 1
      BY <1>2, <1>5, <2>2
    <3> QED
      BY <3>1 DEF Once
  <2> QED
    BY <2>1, <2>2
<1> QED
  BY <1>1, <1>2, <1>7, <1>8, <1>9, <1>11, <1>12, QueueStep

\* ... and the end of the batch.
LEMMA EndBatchStep ==
  ASSUME IInv, NEW l \in Loops, EndBatch(l) PROVE IInv'
<1> USE LoopsNat
<1>1. /\ pc[l] = "pending" /\ idx[l] > Len(batch[l])
      /\ pc' = [pc EXCEPT ![l] = "poll"]
      /\ batch' = [batch EXCEPT ![l] = <<>>]
      /\ idx' = [idx EXCEPT ![l] = 1]
      /\ UNCHANGED <<conn, ret, nextConnId_, connections_, state_, inMap, reading,
                     active,
                     calls, destroyed>>
      /\ UNCHANGED <<quit_, started_, listenning_, next_, told, arrived, peer, data,
                     sent>>
      /\ UNCHANGED pending
  BY DEF EndBatch, Goto, serverVars, pollerVars, peerVars, history
<1>2. \A m \in Loops : pc'[m] = IF m = l THEN "poll" ELSE pc[m]
  BY <1>1 DEF IInv, Types, ThreadTypes
<1>3. QueueTypes
  BY DEF IInv, Types
<1>4. \A m \in Loops : /\ batch'[m] = IF m = l THEN <<>> ELSE batch[m]
                       /\ idx'[m] = IF m = l THEN 1 ELSE idx[m]
  BY <1>1, <1>3 DEF QueueTypes
<1>5. QueueTypes'
  <2>1. ASSUME NEW m \in Loops PROVE idx'[m] \in 1 .. Len(batch'[m]) + 1
    <3>1. batch[m] \in Seq(Functors) /\ pending[m] \in Seq(Functors)
      BY <1>3 DEF QueueTypes
    <3>2. CASE m = l
      <4>1. idx'[m] = 1 /\ Len(batch'[m]) \in Nat
        BY <1>4, <3>1, <3>2
      <4> QED
        BY <4>1
    <3>3. CASE m # l
      BY <1>3, <1>4, <3>3 DEF QueueTypes
    <3> QED
      BY <3>2, <3>3
  <2>2. idx' \in [Loops -> Nat] /\ batch' \in [Loops -> Seq(Functors)]
    BY <1>1, <1>3 DEF QueueTypes
  <2> QED
    BY <1>1, <1>3, <2>1, <2>2 DEF QueueTypes
<1>6. Types'
  BY <1>1, <1>5 DEF IInv, Types, PCs, ThreadTypes, ServerTypes, PollerTypes,
       PeerTypes, HistoryTypes
<1>7. HoldInv'
  BY <1>1, <1>2 DEF IInv, HoldInv, CallPCs, ClosePCs, SubPCs
<1>8. QueueInv'
  <2>1. \A m \in Loops : \A f : Fits(m, f)' <=> Fits(m, f)
    BY <1>1 DEF Fits
  <2>2. \A m \in Loops : \A f, i : i \in 1 .. Len(batch'[m]) /\ f = batch'[m][i]
          => Fits(m, f)
    BY <1>4 DEF IInv, QueueInv
  <2>3. \A m \in Loops : /\ \A i \in 1 .. Len(pending[m]) : Fits(m, pending[m][i])'
                         /\ \A i \in 1 .. Len(batch'[m]) : Fits(m, batch[m][i])'
    <3>1. \A m \in Loops : \A i \in 1 .. Len(pending[m]) : Fits(m, pending[m][i])
      BY DEF IInv, QueueInv
    <3>2. \A m \in Loops : \A i \in 1 .. Len(batch'[m]) : Fits(m, batch'[m][i])
      BY <2>2
    <3> QED
      BY <1>1, <3>1, <3>2 DEF Fits
  <2>4. \A m \in Loops : pc'[m] \in {"init", "poll", "stopped"} => batch'[m] = <<>>
    BY <1>2, <1>4 DEF IInv, QueueInv
  <2>5. pc'[Base] # "pending" => batch'[Base] = <<>>
    BY <1>2, <1>4 DEF IInv, QueueInv
  <2>6. pc'[Base] \notin DispatchPCs =>
          \A i \in 1 .. Len(pending[Base]) :
            pending[Base][i].run # "connectDestroyed"
    BY <1>1, <1>2 DEF IInv, QueueInv, DispatchPCs, CallPCs, ClosePCs
  <2> QED
    BY <1>1, <2>3, <2>4, <2>5, <2>6 DEF QueueInv
<1>9. \A m \in Loops : \A f : Waits(m, f)' <=> Waits(m, f)
  BY <1>1, <1>3, WaitsEndBatch
<1>10. \A m \in Loops, c \in Conns,
         run \in {"connectEstablished", "connectDestroyed"} :
         Waits(m, Functor(run, c))' <=> Waits(m, Functor(run, c))
  <2> TAKE m \in Loops, c \in Conns,
             run \in {"connectEstablished", "connectDestroyed"}
  <2> QED
    BY <1>9 DEF Functor
<1>11. \A m \in Loops : Once(m) => Once(m)'
  <2> SUFFICES ASSUME NEW m \in Loops, Once(m) PROVE Once(m)'
    OBVIOUS
  <2>1. CASE m # l
    BY <1>1, <1>2, <1>4, <2>1, OnceStays
  <2>2. CASE m = l
    <3>1. Len(batch'[m]) = 0 /\ pc'[m] = "poll" /\ pending'[m] = pending[m]
            /\ idx'[m] = 1
      BY <1>1, <1>2, <1>4, <2>2
    <3> QED
      BY <3>1 DEF Once
  <2> QED
    BY <2>1, <2>2
<1> QED
  BY <1>1, <1>2, <1>6, <1>7, <1>8, <1>10, <1>11, QueueStep

\* The run of a functor keeps the queues' types.
LEMMA RunTypes ==
  ASSUME IInv, NEW l \in Loops, NEW c \in Conns, NEW run, RunsNext(l, run, c),
         UNCHANGED <<pending, batch>>
  PROVE  QueueTypes'
<1>1. idx[l] <= Len(batch[l]) /\ idx' = [idx EXCEPT ![l] = @ + 1]
  BY DEF RunsNext
<1>2. batch[l] \in Seq(Functors) /\ idx[l] \in 1 .. Len(batch[l]) + 1
        /\ idx \in [Loops -> Nat]
  BY DEF IInv, Types, QueueTypes
<1>3. idx[l] + 1 \in 1 .. Len(batch[l]) + 1
  BY <1>1, <1>2
<1>4. \A m \in Loops : idx'[m] = IF m = l THEN idx[l] + 1 ELSE idx[m]
  BY <1>1, <1>2
<1>5. \A m \in Loops : idx'[m] \in 1 .. Len(batch[m]) + 1
  BY <1>3, <1>4 DEF IInv, Types, QueueTypes
<1>6. idx' \in [Loops -> Nat]
  BY <1>1, <1>2
<1> QED
  BY <1>5, <1>6 DEF IInv, Types, QueueTypes

\* The functor that is run fits its loop, and no longer waits.
LEMMA RunEffect ==
  ASSUME IInv, NEW l \in Loops, NEW c \in Conns,
         NEW run \in {"connectEstablished", "connectDestroyed", "shutdownInLoop"},
         RunsNext(l, run, c), UNCHANGED <<pending, batch>>
  PROVE  /\ c < nextConnId_
         /\ run \in (IF l = Base THEN {"shutdownInLoop", "connectDestroyed"}
                                 ELSE {"connectEstablished"})
         /\ Waits(l, Functor(run, c))
         /\ \A m \in Loops : \A f : Waits(m, f)' => Waits(m, f)
         /\ \A m \in Loops : \A f : Waits(m, f) =>
              Waits(m, f)' \/ (m = l /\ f = Functor(run, c))
         /\ \A m \in Loops : m # l
              => (Once(m) /\ pc'[m] = pc[m] /\ conn'[m] = conn[m] => Once(m)')
<1> USE LoopsNat
<1>1. /\ idx[l] <= Len(batch[l]) /\ idx' = [idx EXCEPT ![l] = @ + 1]
      /\ batch[l][idx[l]] = Functor(run, c)
  BY DEF RunsNext
<1>2. QueueTypes
  BY DEF IInv, Types
<1>3. idx[l] \in 1 .. Len(batch[l])
  BY <1>1, <1>2 DEF QueueTypes
<1>4. Fits(l, Functor(run, c))
  <2> PICK f : f = Functor(run, c)
    OBVIOUS
  <2>1. f = batch[l][idx[l]]
    BY <1>1
  <2> QED
    BY <1>3, <2>1 DEF IInv, QueueInv
<1>5. /\ Waits(l, batch[l][idx[l]])
      /\ \A m \in Loops : \A f : Waits(m, f)' => Waits(m, f)
      /\ \A m \in Loops : \A f : Waits(m, f) =>
           Waits(m, f)' \/ (m = l /\ f = batch[l][idx[l]])
  BY <1>1, <1>2, WaitsRun
<1>6. \A m \in Loops : m # l => idx'[m] = idx[m]
  BY <1>1, <1>2 DEF QueueTypes
<1>7. \A m \in Loops : m # l
        => (Once(m) /\ pc'[m] = pc[m] /\ conn'[m] = conn[m] => Once(m)')
  BY <1>6, OnceStays
<1> QED
  BY <1>1, <1>4, <1>5, <1>7 DEF Fits, Functor

\* The run of a functor leaves the queues' invariant alone.
LEMMA RunQueue ==
  ASSUME IInv, NEW l \in Loops, NEW w, pc[l] = "pending",
           pc' = [pc EXCEPT ![l] = w],
         w \notin {"init", "poll", "stopped"}, l = Base => w = "pending",
         UNCHANGED <<pending, batch, nextConnId_>>
  PROVE  QueueInv'
<1> USE LoopsNat
<1>1. \A m \in Loops : pc'[m] = IF m = l THEN w ELSE pc[m]
  BY DEF IInv, Types, ThreadTypes
<1>2. \A m \in Loops : \A f : Fits(m, f)' <=> Fits(m, f)
  BY DEF Fits
<1>3. pc'[Base] = pc[Base]
  BY <1>1
<1>4. \A m \in Loops : pc'[m] \in {"init", "poll", "stopped"}
        => pc[m] \in {"init", "poll", "stopped"}
  BY <1>1
<1> QED
  BY <1>2, <1>3, <1>4 DEF IInv, QueueInv

\* The functors keep the invariant: shutdownInLoop,
LEMMA RunShutdownInLoopStep ==
  ASSUME IInv, NEW l \in Loops, NEW c \in Conns, RunShutdownInLoop(l, c) PROVE IInv'
<1> USE LoopsNat
<1>1. /\ RunsNext(l, "shutdownInLoop", c) /\ pc[l] = "pending"
      /\ UNCHANGED <<conn, ret, nextConnId_, connections_, state_, inMap, reading,
                     active,
                     calls, destroyed>>
      /\ UNCHANGED <<pc, quit_, started_, listenning_, next_, told, arrived, peer, data,
                     sent>>
      /\ UNCHANGED <<pending, batch>>
  BY DEF RunShutdownInLoop, RunsNext, serverVars, pollerVars, peerVars, history
<1>2. QueueTypes'
  BY <1>1, RunTypes
<1>3. Types'
  BY <1>1, <1>2 DEF IInv, Types, ThreadTypes, ServerTypes, PollerTypes, PeerTypes,
       HistoryTypes
<1>4. HoldInv'
  BY <1>1 DEF IInv, HoldInv
<1>5. pc' = [pc EXCEPT ![l] = "pending"]
  BY <1>1 DEF IInv, Types, ThreadTypes
<1>6. QueueInv'
  BY <1>1, <1>5, RunQueue
<1>7. /\ l = Base
      /\ \A m \in Loops : \A f : Waits(m, f)' => Waits(m, f)
      /\ \A m \in Loops : \A f : Waits(m, f) =>
           Waits(m, f)' \/ (m = l /\ f = Functor("shutdownInLoop", c))
      /\ \A m \in Loops : m # l => (Once(m) => Once(m)')
  BY <1>1, RunEffect
<1>8. \A m \in Loops, d \in Conns,
        run \in {"connectEstablished", "connectDestroyed"} :
        Waits(m, Functor(run, d))' <=> Waits(m, Functor(run, d))
  <2> SUFFICES ASSUME NEW m \in Loops, NEW d \in Conns,
                      NEW run \in {"connectEstablished", "connectDestroyed"},
                      NEW f, f = Functor(run, d)
               PROVE  Waits(m, f)' <=> Waits(m, f)
    BY DEF Functor
  <2>1. f # Functor("shutdownInLoop", c)
    BY DEF Functor
  <2> QED
    BY <1>7, <2>1
<1> QED
  BY <1>1, <1>3, <1>4, <1>6, <1>7, <1>8, QueueStep

\* ... connectEstablished, which waits nowhere else,
LEMMA RunEstablishedStep ==
  ASSUME IInv, NEW l \in Loops, NEW c \in Conns, RunEstablished(l, c) PROVE IInv'
<1> USE LoopsNat
<1>1. /\ RunsNext(l, "connectEstablished", c) /\ pc[l] = "pending"
      /\ pc' = [pc EXCEPT ![l] = "established"] /\ conn' = [conn EXCEPT ![l] = c]
      /\ ret' = [ret EXCEPT ![l] = "pending"]
      /\ UNCHANGED <<nextConnId_, connections_, state_, inMap, reading, active,
                     calls, destroyed>>
      /\ UNCHANGED <<quit_, started_, listenning_, next_, told, arrived, peer, data,
                     sent>>
      /\ UNCHANGED <<pending, batch>>
  BY DEF RunEstablished, RunsNext, Goto, Hold, serverVars, pollerVars, peerVars,
       history
<1>2. /\ c < nextConnId_ /\ l # Base
      /\ Waits(l, Functor("connectEstablished", c))
      /\ \A m \in Loops : \A f : Waits(m, f)' => Waits(m, f)
      /\ \A m \in Loops : \A f : Waits(m, f) =>
           Waits(m, f)' \/ (m = l /\ f = Functor("connectEstablished", c))
      /\ \A m \in Loops : m # l
           => (Once(m) /\ pc'[m] = pc[m] /\ conn'[m] = conn[m] => Once(m)')
  BY <1>1, RunEffect
<1>3. \A m \in Loops : /\ pc'[m] = IF m = l THEN "established" ELSE pc[m]
                       /\ conn'[m] = IF m = l THEN c ELSE conn[m]
                       /\ ret'[m] = IF m = l THEN "pending" ELSE ret[m]
  BY <1>1 DEF IInv, Types, ThreadTypes
<1>4. Types'
  <2>1. QueueTypes'
    BY <1>1, RunTypes
  <2> QED
    BY <1>1, <2>1 DEF IInv, Types, PCs, ThreadTypes, ServerTypes, PollerTypes,
         PeerTypes, HistoryTypes
<1>5. HoldInv'
  BY <1>1, <1>2, <1>3 DEF IInv, HoldInv, CallPCs, ClosePCs, SubPCs
<1>6. QueueInv'
  <2> PICK w : w = "established"
    OBVIOUS
  <2>1. pc' = [pc EXCEPT ![l] = w] /\ w \notin {"init", "poll", "stopped"}
    BY <1>1
  <2>2. UNCHANGED <<pending, batch, nextConnId_>>
    BY <1>1
  <2> QED
    BY <1>1, <1>2, <2>1, <2>2, RunQueue
<1>7. \A m \in Loops, d \in Conns : Establishing(m, d)' => Establishing(m, d)
  <2> SUFFICES ASSUME NEW m \in Loops, NEW d \in Conns, Establishing(m, d)'
               PROVE  Establishing(m, d)
    OBVIOUS
  <2>1. Waits(m, Functor("connectEstablished", d))'
          => Waits(m, Functor("connectEstablished", d))
    BY <1>2 DEF Functor
  <2> QED
    BY <1>2, <1>3, <2>1 DEF Establishing
<1>8. \A d \in Conns : ToBeDestroyed(d)' <=> ToBeDestroyed(d)
  <2> TAKE d \in Conns
  <2>1. Waits(Base, Functor("connectDestroyed", d))'
          <=> Waits(Base, Functor("connectDestroyed", d))
    BY <1>2 DEF Functor
  <2> QED
    BY <2>1 DEF ToBeDestroyed
<1>9. \A d \in Conns : Closing(d)' <=> Closing(d)
  BY <1>2, <1>3 DEF Closing
<1>10. LifeInv'
  BY <1>1, <1>8 DEF IInv, LifeInv
<1>11. CallsInv'
  <2>1. \A d \in Conns : CountBy(d, "closed")' = CountBy(d, "closed")
    BY <1>1 DEF CountBy
  <2> QED
    BY <1>1, <1>2, <1>3, <1>8, <1>9, <2>1 DEF IInv, CallsInv
<1>12. ASSUME LoopRuns' PROVE PollerInv' /\ OnceInv'
  <2>1. LoopRuns
    BY <1>2, <1>3, <1>12 DEF LoopRuns
  <2>2. PollerInv'
    BY <1>1, <1>7, <1>8, <1>9, <2>1 DEF IInv, PollerInv
  <2>3. Once(l)'
    <3>1. Once(l)
      BY <1>2, <2>1 DEF IInv, OnceInv
    <3>2. /\ batch[l] \in Seq(Functors) /\ idx[l] \in Nat \ {0}
          /\ idx'[l] = idx[l] + 1
          /\ idx[l] <= Len(batch[l])
          /\ batch[l][idx[l]] = Functor("connectEstablished", c)
      BY <1>1 DEF RunsNext, IInv, Types, QueueTypes
    <3>3. /\ idx[l] \in idx[l] .. Len(batch[l])
          /\ \A i \in idx'[l] .. Len(batch[l]) : i \in idx[l] .. Len(batch[l])
               /\ i # idx[l]
      BY <3>2
    <3>4. \A i \in idx'[l] .. Len(batch[l]) :
            batch[l][i] # Functor("connectEstablished", c)
      BY <3>1, <3>2, <3>3 DEF Once
    <3>5. \A i \in 1 .. Len(pending[l]) :
            pending[l][i] # Functor("connectEstablished", c)
      BY <3>1, <3>2, <3>3 DEF Once
    <3>6. \A f : f = Functor("connectEstablished", c) => ~Waits(l, f)'
      BY <1>1, <3>4, <3>5 DEF Waits
    <3>7. (~Waits(l, Functor("connectEstablished", conn[l])))'
      BY <1>3, <3>6 DEF Waits, Functor
    <3>8. /\ \A i, j \in 1 .. Len(pending[l]) : pending[l][i] = pending[l][j]
               => i = j
          /\ \A i, j \in idx'[l] .. Len(batch[l]) : batch[l][i] = batch[l][j]
               => i = j
          /\ \A i \in 1 .. Len(pending[l]), j \in idx'[l] .. Len(batch[l]) :
               pending[l][i] # batch[l][j]
      BY <3>1, <3>3 DEF Once
    <3> QED
      BY <1>1, <3>7, <3>8 DEF Once
  <2>4. \A m \in Loops \ {Base} : Once(m)'
    BY <1>2, <1>3, <2>1, <2>3 DEF IInv, OnceInv
  <2> QED
    BY <1>7, <2>1, <2>2, <2>4 DEF IInv, OnceInv
<1> QED
  BY <1>4, <1>5, <1>6, <1>10, <1>11, <1>12 DEF IInv

\* ... connectDestroyed, whose connection is not kConnected and so not
\* announced again.
LEMMA RunDestroyedStep ==
  ASSUME IInv, NEW l \in Loops, NEW c \in Conns, RunDestroyed(l, c) PROVE IInv'
<1> USE LoopsNat
<1>1. /\ RunsNext(l, "connectDestroyed", c) /\ pc[l] = "pending"
      /\ ConnectDestroyed(c)
      /\ UNCHANGED <<conn, ret, nextConnId_, connections_, active>>
      /\ UNCHANGED <<pc, quit_, started_, listenning_, next_, told, arrived, peer, data,
                     sent>>
      /\ UNCHANGED <<pending, batch>>
  BY DEF RunDestroyed, RunsNext, serverVars, peerVars
<1>2. /\ c < nextConnId_ /\ l = Base
      /\ Waits(l, Functor("connectDestroyed", c))
      /\ \A m \in Loops : \A f : Waits(m, f)' => Waits(m, f)
      /\ \A m \in Loops : \A f : Waits(m, f) =>
           Waits(m, f)' \/ (m = l /\ f = Functor("connectDestroyed", c))
      /\ \A m \in Loops : m # l => (Once(m) => Once(m)')
  BY <1>1, RunEffect
<1>3. ToBeDestroyed(c) /\ LoopRuns
  BY <1>1, <1>2 DEF ToBeDestroyed, LoopRuns
<1>4. state_[c] # "kConnected"
  BY <1>3 DEF IInv, CallsInv
<1>5. /\ inMap' = inMap \ {c} /\ reading' = reading \ {c}
      /\ destroyed' = destroyed \cup {c}
      /\ UNCHANGED <<state_, calls>>
  BY <1>1, <1>4 DEF ConnectDestroyed
<1>6. PollerInv /\ OnceInv /\ c \notin connections_
  BY <1>3 DEF IInv, PollerInv
<1>7. QueueTypes'
  BY <1>1, RunTypes
<1>8. Types'
  BY <1>1, <1>5, <1>6, <1>7 DEF IInv, Types, ThreadTypes, ServerTypes, PollerTypes,
       PeerTypes,
     HistoryTypes, PollerInv
<1>9. HoldInv'
  BY <1>1 DEF IInv, HoldInv
<1>10. QueueInv'
  <2>1. pc' = [pc EXCEPT ![l] = "pending"]
    BY <1>1 DEF IInv, Types, ThreadTypes
  <2> QED
    BY <1>1, <2>1, RunQueue
<1>11. \A m \in Loops, d \in Conns : Establishing(m, d)' <=> Establishing(m, d)
  <2> TAKE m \in Loops, d \in Conns
  <2>1. Functor("connectEstablished", d) # Functor("connectDestroyed", c)
    BY DEF Functor
  <2>2. Waits(m, Functor("connectEstablished", d))'
          <=> Waits(m, Functor("connectEstablished", d))
    BY <1>2, <2>1 DEF Functor
  <2> QED
    BY <1>1, <2>2 DEF Establishing
<1>12. /\ \A d \in Conns : ToBeDestroyed(d)' => ToBeDestroyed(d)
       /\ \A d \in Conns : ToBeDestroyed(d) => ToBeDestroyed(d)' \/ d = c
  <2> SUFFICES ASSUME NEW d \in Conns
               PROVE  /\ ToBeDestroyed(d)' => ToBeDestroyed(d)
                      /\ ToBeDestroyed(d) => ToBeDestroyed(d)' \/ d = c
    OBVIOUS
  <2>1. Functor("connectDestroyed", d) = Functor("connectDestroyed", c) => d = c
    BY DEF Functor
  <2>2. /\ Waits(Base, Functor("connectDestroyed", d))'
             => Waits(Base, Functor("connectDestroyed", d))
        /\ Waits(Base, Functor("connectDestroyed", d)) =>
             Waits(Base, Functor("connectDestroyed", d))' \/ d = c
    BY <1>2, <2>1 DEF Functor
  <2> QED
    BY <2>2 DEF ToBeDestroyed
<1>13. \A d \in Conns : Closing(d)' <=> Closing(d)
  BY <1>1 DEF Closing
<1>14. LifeInv'
  BY <1>1, <1>2, <1>5, <1>12 DEF IInv, LifeInv
<1>15. CallsInv'
  <2>1. \A d \in Conns : CountBy(d, "closed")' = CountBy(d, "closed")
    BY <1>5 DEF CountBy
  <2> QED
    BY <1>1, <1>5, <1>12, <1>13, <2>1 DEF IInv, CallsInv
<1>16. PollerInv'
  <2>1. \A d \in Conns : ~Closing(d)
    BY <1>1, <1>2 DEF Closing, ClosePCs
  <2>2. (reading \cup (active \ {Acceptor}) \subseteq inMap \cap connections_)'
    BY <1>1, <1>5, <1>6 DEF PollerInv
  <2> QED
    BY <1>1, <1>5, <1>6, <1>11, <1>12, <1>13, <2>1, <2>2 DEF PollerInv
<1>17. OnceInv'
  BY <1>2, <1>6, <1>11 DEF OnceInv
<1> QED
  BY <1>8, <1>9, <1>10, <1>14, <1>15, <1>16, <1>17 DEF IInv

-----------------------------------------------------------------------------
(***************************************************************************)
(* The end of a connection and of the server.                              *)
(***************************************************************************)

\* ~TcpServer keeps the invariant: a connection in its map has not been
\* announced as closed.
LEMMA DestroyConnectionStep ==
  ASSUME IInv, NEW c \in Conns, DestroyConnection(c) PROVE IInv'
<1> USE LoopsNat
<1>1. /\ pc[Base] = "dtor" /\ c \in connections_
      /\ connections_' = connections_ \ {c}
      /\ ConnectDestroyed(c)
      /\ UNCHANGED <<pc, conn, ret, quit_, pending, batch, idx>>
      /\ UNCHANGED <<started_, listenning_, next_, told, nextConnId_, active, arrived,
                     peer, data, sent>>
  BY DEF DestroyConnection, threadVars, peerVars
<1>2. /\ inMap' = inMap \ {c} /\ reading' = reading \ {c}
      /\ destroyed' = destroyed \cup {c}
      /\ \/ UNCHANGED <<state_, calls>>
         \/ /\ state_[c] = "kConnected"
            /\ state_' = [state_ EXCEPT ![c] = "kDisconnected"]
            /\ calls' =
                 [calls EXCEPT ![c] = Append(@,
                                             [by |-> "closed",
                                              connected |-> FALSE])]
  BY <1>1 DEF ConnectDestroyed
<1>3. PICK e \in Calls : e = [by |-> "closed", connected |-> FALSE]
  BY DEF Calls
<1>4. c < nextConnId_ /\ ~LoopRuns
  BY <1>1 DEF IInv, LifeInv, LoopRuns
<1>5. \A d \in Conns : ~ToBeDestroyed(d) /\ ~Closing(d)
  BY <1>1, NotToBeDestroyed DEF DispatchPCs, CallPCs, ClosePCs, Closing
<1>6. \A d \in Conns : (ToBeDestroyed(d)' <=> ToBeDestroyed(d))
        /\ (Closing(d)' <=> Closing(d))
  <2>1. \A d \in Conns : ToBeDestroyed(d)' <=> ToBeDestroyed(d)
    BY <1>1, PredsSame
  <2> QED
    BY <1>1, <2>1 DEF Closing
<1>7. HistoryTypes' /\ PollerTypes'
  <2>1. calls' \in [Conns -> Seq(Calls)]
    BY <1>2, <1>3, CallTypes DEF IInv, Types, HistoryTypes
  <2>2. PollerTypes'
    BY <1>1, <1>2 DEF IInv, Types, PollerTypes
  <2> QED
    BY <1>2, <2>1, <2>2 DEF IInv, Types, HistoryTypes, States
<1>8. Types'
  BY <1>1, <1>7 DEF IInv, Types, ThreadTypes, QueueTypes, ServerTypes, PeerTypes
<1>9. HoldInv'
  BY <1>1 DEF IInv, HoldInv
<1>10. QueueInv'
  <2>1. \A m \in Loops : \A f : Fits(m, f)' <=> Fits(m, f)
    BY <1>1 DEF Fits
  <2> QED
    BY <1>1, <2>1 DEF IInv, QueueInv
<1>11. LifeInv'
  <2>1. \A d \in Conns : state_'[d] = "none" <=> state_[d] = "none"
    BY <1>2 DEF IInv, Types, HistoryTypes
  <2> QED
    BY <1>1, <1>2, <1>4, <1>5, <2>1 DEF IInv, LifeInv
<1>12. CallsInv'
  <2>1. \A d \in Conns : \/ CountBy(d, "closed")' = CountBy(d, "closed")
                         \/ d = c
                              /\ CountBy(d, "closed")' = CountBy(d, "closed") + 1
    <3>1. CASE UNCHANGED calls
      BY <3>1 DEF CountBy
    <3>2. CASE calls' = [calls EXCEPT ![c] = Append(@, e)]
      BY <1>3, <3>2, CountCall DEF IInv, Types
    <3> QED
      BY <1>2, <1>3, <3>1, <3>2
  <2>2. CountBy(c, "closed") = 0
    BY <1>1, <1>5 DEF IInv, CallsInv
  <2>3. nextConnId_ \in Nat
    BY DEF IInv, Types, ServerTypes
  <2>4. ASSUME NEW d \in Conns
        PROVE  /\ CountBy(d, "closed")' <= 1
               /\ nextConnId_' <= d
                    \/ (d \in connections_' /\ ~(Closing(d)' /\ pc'[Base] # "down"))
                  => CountBy(d, "closed")' = 0
               /\ Closing(d)' \/ ToBeDestroyed(d)' =>
                    state_'[d] \in {"kDisconnecting", "kDisconnected"}
    <3>1. CASE d = c
      <4>1. CountBy(d, "closed")' = 0 \/ CountBy(d, "closed")' = 1
        BY <2>1, <2>2, <3>1
      <4> QED
        BY <1>1, <1>4, <1>5, <1>6, <2>3, <3>1, <4>1
    <3>2. CASE d # c
      BY <1>1, <1>5, <1>6, <2>1, <3>2 DEF IInv, CallsInv
    <3> QED
      BY <3>1, <3>2
  <2> QED
    BY <2>4 DEF CallsInv
<1>13. ~LoopRuns'
  BY <1>1, <1>4 DEF LoopRuns
<1> QED
  BY <1>8, <1>9, <1>10, <1>11, <1>12, <1>13 DEF IInv

\* A sub loop that stops keeps it: it drops only connectEstablished.
LEMMA SubStopsStep ==
  ASSUME IInv, NEW l \in Loops, SubStops(l) PROVE IInv'
<1> USE LoopsNat
<1>1. /\ l # Base /\ quit_[l] /\ pc[l] = "poll"
      /\ pc' = [pc EXCEPT ![l] = "stopped"]
      /\ pending' = [pending EXCEPT ![l] = <<>>]
      /\ UNCHANGED <<conn, ret, batch, idx, nextConnId_, connections_, state_,
                     inMap, reading,
                     active, calls, destroyed>>
      /\ UNCHANGED <<quit_, started_, listenning_, next_, told, arrived, peer, data,
                     sent>>
  BY DEF SubStops, Goto, serverVars, pollerVars, peerVars, history
<1>2. /\ \A m \in Loops : pc'[m] = IF m = l THEN "stopped" ELSE pc[m]
      /\ \A m \in Loops : pending'[m] = IF m = l THEN <<>> ELSE pending[m]
  BY <1>1 DEF IInv, Types, ThreadTypes, QueueTypes
<1>3. Types'
  <2>1. QueueTypes'
    BY <1>1 DEF IInv, Types, QueueTypes
  <2> QED
    BY <1>1, <2>1 DEF IInv, Types, PCs, ThreadTypes, ServerTypes, PollerTypes,
         PeerTypes,
       HistoryTypes
<1>4. HoldInv'
  BY <1>1, <1>2 DEF IInv, HoldInv, CallPCs, ClosePCs, SubPCs
<1>5. QueueInv'
  <2>1. \A m \in Loops : \A i \in 1 .. Len(pending'[m]) : Fits(m, pending'[m][i])
    BY <1>2 DEF IInv, QueueInv
  <2>2. \A m \in Loops : \A i \in 1 .. Len(batch[m]) : Fits(m, batch[m][i])
    BY DEF IInv, QueueInv
  <2>3. \A m \in Loops : /\ \A i \in 1 .. Len(pending'[m]) : Fits(m, pending[m][i])'
                         /\ \A i \in 1 .. Len(batch'[m]) : Fits(m, batch[m][i])'
    BY <1>1, <2>1, <2>2 DEF Fits
  <2>4. \A m \in Loops : pc'[m] \in {"init", "poll", "stopped"} => batch[m] = <<>>
    BY <1>1, <1>2 DEF IInv, QueueInv
  <2>5. pc'[Base] = pc[Base] /\ pending'[Base] = pending[Base]
    BY <1>1, <1>2
  <2> QED
    BY <1>1, <2>3, <2>4, <2>5 DEF IInv, QueueInv
<1>6. \A c \in Conns : ToBeDestroyed(c)' <=> ToBeDestroyed(c)
  BY <1>1, <1>2 DEF ToBeDestroyed, Waits, Functor
<1>7. \A c \in Conns : Closing(c)' <=> Closing(c)
  BY <1>1, <1>2 DEF Closing
<1>8. LifeInv'
  BY <1>1, <1>6 DEF IInv, LifeInv
<1>9. CallsInv'
  <2>1. \A c \in Conns : CountBy(c, "closed")' = CountBy(c, "closed")
    BY <1>1 DEF CountBy
  <2> QED
    BY <1>1, <1>2, <1>6, <1>7, <2>1 DEF IInv, CallsInv
<1>10. ~LoopRuns'
  <2>1. pc[Base] \in {"join", "stopped"}
    BY <1>1 DEF IInv, HoldInv
  <2> QED
    BY <1>1, <1>2, <2>1 DEF LoopRuns
<1> QED
  BY <1>3, <1>4, <1>5, <1>8, <1>9, <1>10 DEF IInv

\* The end of the base loop keeps it: what it drops is shutdownInLoop.
LEMMA DestroyBaseLoopStep ==
  ASSUME IInv, DestroyBaseLoop PROVE IInv'
<1> USE LoopsNat
<1>1. /\ pc[Base] = "join" /\ pc' = [pc EXCEPT ![Base] = "stopped"]
      /\ pending' = [pending EXCEPT ![Base] = <<>>]
      /\ inMap' = {} /\ reading' = {} /\ listenning_' = FALSE
      /\ UNCHANGED <<conn, ret, batch, idx, nextConnId_, connections_, state_,
                     active, calls, destroyed>>
      /\ UNCHANGED <<quit_, started_, next_, told, arrived, peer, data, sent>>
  BY DEF DestroyBaseLoop, Goto, serverVars, peerVars, history
<1>2. /\ \A m \in Loops : pc'[m] = IF m = Base THEN "stopped" ELSE pc[m]
      /\ \A m \in Loops : pending'[m] = IF m = Base THEN <<>> ELSE pending[m]
  BY <1>1 DEF IInv, Types, ThreadTypes, QueueTypes
<1>3. Types'
  <2>1. QueueTypes'
    BY <1>1 DEF IInv, Types, QueueTypes
  <2>2. PollerTypes'
    BY <1>1 DEF IInv, Types, PollerTypes
  <2> QED
    BY <1>1, <2>1, <2>2 DEF IInv, Types, PCs, ThreadTypes, ServerTypes, PeerTypes,
         HistoryTypes
<1>4. HoldInv'
  BY <1>1, <1>2 DEF IInv, HoldInv, CallPCs, ClosePCs, SubPCs
<1>5. QueueInv'
  <2>1. \A m \in Loops : \A i \in 1 .. Len(pending'[m]) : Fits(m, pending'[m][i])
    BY <1>2 DEF IInv, QueueInv
  <2>2. \A m \in Loops : \A i \in 1 .. Len(batch[m]) : Fits(m, batch[m][i])
    BY DEF IInv, QueueInv
  <2>3. \A m \in Loops : /\ \A i \in 1 .. Len(pending'[m]) : Fits(m, pending[m][i])'
                         /\ \A i \in 1 .. Len(batch'[m]) : Fits(m, batch[m][i])'
    BY <1>1, <2>1, <2>2 DEF Fits
  <2>4. batch[Base] = <<>>
    BY <1>1 DEF IInv, QueueInv
  <2>5. \A m \in Loops : pc'[m] \in {"init", "poll", "stopped"} => batch[m] = <<>>
    BY <1>1, <1>2, <2>4 DEF IInv, QueueInv
  <2>6. Len(pending'[Base]) = 0
    BY <1>2
  <2> QED
    BY <1>1, <2>3, <2>4, <2>5, <2>6 DEF QueueInv
<1>6. \A c \in Conns : ~ToBeDestroyed(c) /\ ~Closing(c)
  BY <1>1, NotToBeDestroyed DEF DispatchPCs, CallPCs, ClosePCs, Closing
<1>7. \A c \in Conns : ~ToBeDestroyed(c)' /\ ~Closing(c)'
  <2>1. \A f : Waits(Base, f)' => Waits(Base, f)
    BY <1>1, WaitsDrop DEF IInv, Types
  <2>2. \A c \in Conns : ToBeDestroyed(c)' => ToBeDestroyed(c)
    BY <2>1 DEF ToBeDestroyed, Functor
  <2> QED
    BY <1>2, <1>6, <2>2 DEF Closing, ClosePCs
<1>8. LifeInv'
  BY <1>1, <1>6 DEF IInv, LifeInv
<1>9. CallsInv'
  <2>1. \A c \in Conns : CountBy(c, "closed")' = CountBy(c, "closed")
    BY <1>1 DEF CountBy
  <2> QED
    BY <1>1, <1>2, <1>6, <1>7, <2>1 DEF IInv, CallsInv
<1>10. ~LoopRuns'
  BY <1>2 DEF LoopRuns
<1> QED
  BY <1>3, <1>4, <1>5, <1>8, <1>9, <1>10 DEF IInv

\* removeConnection keeps it: connectDestroyed is queued as the connection
\* leaves the map.
LEMMA RemoveConnectionStep ==
  ASSUME IInv, NEW l \in Loops, RemoveConnection(l) PROVE IInv'
<1> USE LoopsNat
<1>1. /\ pc[l] = "remove" /\ l = Base
      /\ pc' = [pc EXCEPT ![Base] = "dispatch"]
      /\ conn' = [conn EXCEPT ![Base] = NoConn]
      /\ conn[Base] \in Conns /\ conn[Base] < nextConnId_
      /\ connections_' = connections_ \ {conn[Base]}
      /\ pending' =
           [pending EXCEPT ![Base] = Append(@,
                                            Functor("connectDestroyed",
                                                    conn[Base]))]
      /\ UNCHANGED <<ret, batch, idx, nextConnId_, state_, inMap, reading,
                     active, calls, destroyed>>
      /\ UNCHANGED <<quit_, started_, listenning_, next_, told, arrived, peer, data,
                     sent>>
  BY DEF RemoveConnection, Goto, Release, pollerVars, peerVars, history,
     IInv, HoldInv, Types, ThreadTypes, CallPCs, ClosePCs, SubPCs
<1>2. PICK c \in Conns : c = conn[Base]
  BY <1>1
<1>3. Closing(c) /\ LoopRuns /\ PollerInv /\ OnceInv
  BY <1>1, <1>2 DEF Closing, ClosePCs, LoopRuns, IInv
<1>4. PICK g \in Functors : g = Functor("connectDestroyed", c)
  BY DEF Functor, Functors
<1>5. /\ \A m \in Loops : pc'[m] = IF m = Base THEN "dispatch" ELSE pc[m]
      /\ \A m \in Loops : conn'[m] = IF m = Base THEN NoConn ELSE conn[m]
      /\ \A m \in Loops : m # Base => pending'[m] = pending[m]
  BY <1>1 DEF IInv, Types, ThreadTypes, QueueTypes
<1>6. pending' = [pending EXCEPT ![Base] = Append(@, g)]
  BY <1>1, <1>2, <1>4
<1>7. Types'
  <2>1. Append(pending[Base], g) \in Seq(Functors)
    BY DEF IInv, Types, QueueTypes
  <2>2. QueueTypes'
    BY <1>1, <1>6, <2>1 DEF IInv, Types, QueueTypes
  <2> QED
    BY <1>1, <2>2 DEF IInv, Types, PCs, ThreadTypes, ServerTypes, PollerTypes,
         PeerTypes,
       HistoryTypes
<1>8. HoldInv'
  BY <1>1, <1>5 DEF IInv, HoldInv, CallPCs, ClosePCs, SubPCs, Types, ServerTypes
<1>9. QueueInv'
  <2>1. batch' = batch /\ nextConnId_ <= nextConnId_' /\ nextConnId_' \in Nat
    BY <1>1 DEF IInv, Types, ServerTypes
  <2>2. Fits(Base, g)'
    BY <1>1, <1>2, <1>4 DEF Fits, Functor
  <2>3. g.run = "connectDestroyed" => pc'[Base] \in DispatchPCs
    BY <1>5 DEF DispatchPCs
  <2>4. \A m \in Loops : pc'[m] \in {"init", "poll", "stopped"}
          => pc[m] \in {"init", "poll", "stopped"}
    BY <1>5
  <2>5. pc'[Base] # "pending" => batch[Base] = <<>>
    BY <1>1 DEF IInv, QueueInv
  <2>6. pc'[Base] \notin DispatchPCs => pc[Base] \notin DispatchPCs
    BY <1>5 DEF DispatchPCs
  <2> QED
    BY <1>6, <2>1, <2>2, <2>3, <2>4, <2>5, <2>6, QueueAppend
<1>10. \A m \in Loops : \A f : Waits(m, f)' <=> Waits(m, f) \/ (m = Base /\ f = g)
  BY <1>1, <1>6, WaitsAppend DEF IInv, Types
<1>11. \A m \in Loops, d \in Conns : Establishing(m, d)' <=> Establishing(m, d)
  <2> TAKE m \in Loops, d \in Conns
  <2>1. Functor("connectEstablished", d) # g
    BY <1>4 DEF Functor
  <2>2. Waits(m, Functor("connectEstablished", d))'
          <=> Waits(m, Functor("connectEstablished", d))
    BY <1>10, <2>1 DEF Functor
  <2> QED
    BY <1>1, <1>5, <2>2 DEF Establishing
<1>12. \A d \in Conns : ToBeDestroyed(d)' <=> ToBeDestroyed(d) \/ d = c
  <2> TAKE d \in Conns
  <2>1. Functor("connectDestroyed", d) = g <=> d = c
    BY <1>4 DEF Functor
  <2>2. Waits(Base, Functor("connectDestroyed", d))'
          <=> Waits(Base, Functor("connectDestroyed", d)) \/ d = c
    BY <1>10, <2>1 DEF Functor
  <2> QED
    BY <2>2 DEF ToBeDestroyed
<1>13. \A d \in Conns : ~Closing(d)' /\ (Closing(d) => d = c)
  BY <1>2, <1>5 DEF Closing, ClosePCs
<1>14. LifeInv'
  BY <1>1, <1>2, <1>12 DEF IInv, LifeInv
<1>15. CallsInv'
  <2>1. \A d \in Conns : CountBy(d, "closed")' = CountBy(d, "closed")
    BY <1>1 DEF CountBy
  <2>2. ~(nextConnId_ <= c) /\ c \notin connections_'
    BY <1>1, <1>2 DEF IInv, Types, ServerTypes
  <2>3. ASSUME NEW d \in Conns
        PROVE  /\ CountBy(d, "closed")' <= 1
               /\ nextConnId_' <= d
                    \/ (d \in connections_' /\ ~(Closing(d)' /\ pc'[Base] # "down"))
                  => CountBy(d, "closed")' = 0
               /\ Closing(d)' \/ ToBeDestroyed(d)' =>
                    state_'[d] \in {"kDisconnecting", "kDisconnected"}
    <3>1. /\ CountBy(d, "closed") <= 1
          /\ nextConnId_ <= d
               \/ (d \in connections_ /\ ~(Closing(d) /\ pc[Base] # "down"))
             => CountBy(d, "closed") = 0
          /\ Closing(d) \/ ToBeDestroyed(d)
               => state_[d] \in {"kDisconnecting", "kDisconnected"}
      BY DEF IInv, CallsInv
    <3> QED
      BY <1>1, <1>2, <1>3, <1>12, <1>13, <2>1, <2>2, <3>1
  <2> QED
    BY <2>3 DEF CallsInv
<1>16. PollerInv'
  <2>1. c \in (inMap \cap connections_) \ (reading \cup active)
    BY <1>3 DEF PollerInv
  <2>2. \A m \in Loops, d \in Conns : Establishing(m, d)' => d # c
    BY <1>3, <1>11, <2>1 DEF PollerInv
  <2> QED
    BY <1>1, <1>2, <1>3, <1>11, <1>12, <1>13, <2>1, <2>2 DEF PollerInv
<1>17. OnceInv'
  <2>1. \A m \in Loops \ {Base} : Once(m)'
    BY <1>1, <1>3, <1>5, OnceStays DEF OnceInv
  <2> QED
    BY <1>3, <1>11, <2>1 DEF OnceInv
<1> QED
  BY <1>7, <1>8, <1>9, <1>14, <1>15, <1>16, <1>17 DEF IInv

-----------------------------------------------------------------------------
(***************************************************************************)
(* The beginning of a connection.                                          *)
(***************************************************************************)

\* A number that is not in use is nowhere.
LEMMA NewIsUnknown ==
  ASSUME IInv, NEW c \in Conns, nextConnId_ <= c
  PROVE  /\ \A l \in Loops : \A run : ~Waits(l, Functor(run, c))
         /\ \A l \in Loops : conn[l] # c
         /\ c \notin connections_ \cup inMap \cup destroyed
         /\ CountBy(c, "closed") = 0
<1> USE LoopsNat
<1>1. nextConnId_ \in Nat
  BY DEF IInv, Types, ServerTypes
<1>2. \A l \in Loops : \A f : Waits(l, f) => f.c < nextConnId_
  <2> SUFFICES ASSUME NEW l \in Loops, NEW f, Waits(l, f) PROVE f.c < nextConnId_
    OBVIOUS
  <2>1. idx[l] \in Nat \ {0} /\ batch[l] \in Seq(Functors)
    BY DEF IInv, Types, QueueTypes
  <2>2. \A i \in idx[l] .. Len(batch[l]) : i \in 1 .. Len(batch[l])
    BY <2>1
  <2>3. Fits(l, f)
    BY <2>2 DEF Waits, IInv, QueueInv
  <2> QED
    BY <2>3 DEF Fits
<1>3. \A l \in Loops : \A run : ~Waits(l, Functor(run, c))
  <2> SUFFICES ASSUME NEW l \in Loops, NEW run, Waits(l, Functor(run, c))
                PROVE FALSE
    OBVIOUS
  <2>1. Functor(run, c).c = c
    BY DEF Functor
  <2>2. c < nextConnId_
    BY <1>2, <2>1
  <2> QED
    BY <1>1, <2>2
<1>4. \A l \in Loops : conn[l] # c
  BY <1>1 DEF IInv, HoldInv
<1>5. c \notin connections_ \cup inMap \cup destroyed
  BY <1>1 DEF IInv, LifeInv
<1>6. CountBy(c, "closed") = 0
  BY DEF IInv, CallsInv
<1> QED
  BY <1>3, <1>4, <1>5, <1>6

\* What newConnection does on whichever loop it establishes the connection.
Accepts(c) ==
  /\ pc[Base] = "dispatch" /\ c = nextConnId_
  /\ active' = active \ {Acceptor} /\ nextConnId_' = nextConnId_ + 1
  /\ state_' = [state_ EXCEPT ![c] = "kConnecting"]
  /\ connections_' = connections_ \cup {c}
  /\ UNCHANGED <<batch, idx, quit_, started_, listenning_, told, inMap, reading>>
  /\ UNCHANGED <<arrived, peer, data, sent, calls, destroyed>>

\* newConnection keeps the types.
LEMMA AcceptTypes ==
  ASSUME IInv, NEW c \in Conns, NewConnection(c)
  PROVE  Accepts(c) /\ ServerTypes' /\ HistoryTypes' /\ PollerTypes' /\ PeerTypes'
<1> USE LoopsNat
<1>1. Accepts(c)
  BY DEF NewConnection, Accepts, peerVars, history
<1>2. next_' = IF next_ + 1 >= NumSubs THEN 0 ELSE next_ + 1
  BY DEF NewConnection
<1>3. next_' = 0 \/ next_' \in 1 .. NumSubs - 1
  BY <1>2 DEF IInv, Types, ServerTypes
<1>4. nextConnId_' \in 1 .. MaxConns + 1 /\ connections_' \in SUBSET Conns
  BY <1>1 DEF IInv, Types, ServerTypes, Accepts, Conns
<1>5. ServerTypes'
  BY <1>1, <1>3, <1>4 DEF IInv, Types, ServerTypes, Accepts
<1>6. HistoryTypes'
  BY <1>1 DEF IInv, Types, HistoryTypes, Accepts, States
<1>7. PollerTypes'
  BY <1>1 DEF IInv, Types, PollerTypes, Accepts
<1>8. PeerTypes'
  BY <1>1 DEF IInv, Types, PeerTypes, Accepts
<1> QED
  BY <1>1, <1>5, <1>6, <1>7, <1>8

\* A connection accepted keeps the invariant, wherever it is to be established,
LEMMA AcceptStep ==
  ASSUME IInv, NEW c \in Conns, Accepts(c), Types', HoldInv', QueueInv',
         NEW l \in Loops,
         \A m \in Loops, d \in Conns :
           Establishing(m, d)' <=> Establishing(m, d) \/ (m = l /\ d = c),
         \A d \in Conns : ToBeDestroyed(d)' <=> ToBeDestroyed(d),
         \A d \in Conns : ~Closing(d)' /\ ~Closing(d),
         \A m \in Loops \ {Base} : Once(m) => Once(m)'
  PROVE  IInv'
<1> USE LoopsNat
<1>1. /\ pc[Base] = "dispatch" /\ c = nextConnId_ /\ nextConnId_ \in Nat
      /\ nextConnId_' = nextConnId_ + 1
      /\ LoopRuns /\ PollerInv /\ OnceInv
  BY DEF Accepts, LoopRuns, IInv, Types, ServerTypes
<1>2. /\ active' = active \ {Acceptor} /\ connections_' = connections_ \cup {c}
      /\ UNCHANGED <<inMap, reading, calls, destroyed>>
      /\ \A d \in Conns : state_'[d] = IF d = c THEN "kConnecting" ELSE state_[d]
  BY DEF Accepts, IInv, Types, HistoryTypes
<1>3. /\ \A m \in Loops : ~Establishing(m, c)
      /\ ~ToBeDestroyed(c)
      /\ c \notin connections_ \cup inMap \cup destroyed
      /\ CountBy(c, "closed") = 0
  <2>1. nextConnId_ <= c
    BY <1>1
  <2> QED
    BY <2>1, NewIsUnknown DEF Establishing, ToBeDestroyed
<1>4. LifeInv'
  <2>1. \A d \in Conns : state_'[d] = "none" <=> nextConnId_' <= d
    BY <1>1, <1>2 DEF IInv, LifeInv
  <2>2. \A d \in connections_' \cup inMap' \cup destroyed' : d < nextConnId_'
    BY <1>1, <1>2 DEF IInv, LifeInv, Types, ServerTypes, PollerTypes, HistoryTypes
  <2>3. \A d \in Conns : d < nextConnId_' =>
          d \in connections_' \cup destroyed' \/ ToBeDestroyed(d)'
    BY <1>1, <1>2 DEF IInv, LifeInv
  <2> QED
    BY <2>1, <2>2, <2>3 DEF LifeInv
<1>5. CallsInv'
  <2>1. \A d \in Conns : CountBy(d, "closed")' = CountBy(d, "closed")
    BY <1>2 DEF CountBy
  <2>2. ASSUME NEW d \in Conns
        PROVE  /\ CountBy(d, "closed")' <= 1
               /\ nextConnId_' <= d
                    \/ (d \in connections_' /\ ~(Closing(d)' /\ pc'[Base] # "down"))
                  => CountBy(d, "closed")' = 0
               /\ Closing(d)' \/ ToBeDestroyed(d)' =>
                    state_'[d] \in {"kDisconnecting", "kDisconnected"}
    <3>1. /\ CountBy(d, "closed") <= 1
          /\ nextConnId_ <= d
               \/ (d \in connections_ /\ ~(Closing(d) /\ pc[Base] # "down"))
             => CountBy(d, "closed") = 0
          /\ Closing(d) \/ ToBeDestroyed(d)
               => state_[d] \in {"kDisconnecting", "kDisconnected"}
      BY DEF IInv, CallsInv
    <3> QED
      BY <1>1, <1>2, <1>3, <2>1, <3>1
  <2> QED
    BY <2>2 DEF CallsInv
<1>6. PollerInv'
  <2>1. \A m \in Loops, d \in Conns :
          Establishing(m, d)' => d \in connections_' /\ d \notin inMap'
    BY <1>1, <1>2, <1>3 DEF PollerInv
  <2>2. \A d \in Conns : ToBeDestroyed(d)' => d \notin connections_'
    BY <1>1, <1>2, <1>3 DEF PollerInv
  <2>3. (destroyed \cap (inMap \cup connections_) = {})'
    BY <1>1, <1>2, <1>3 DEF PollerInv
  <2>4. (reading \cup (active \ {Acceptor}) \subseteq inMap \cap connections_)'
    BY <1>1, <1>2 DEF PollerInv
  <2> QED
    BY <2>1, <2>2, <2>3, <2>4 DEF PollerInv
<1>7. OnceInv'
  <2>1. \A m, n \in Loops, d \in Conns : Establishing(m, d)' /\ Establishing(n, d)'
          => m = n
    BY <1>1, <1>3 DEF OnceInv
  <2>2. \A m \in Loops \ {Base} : Once(m)'
    BY <1>1 DEF OnceInv
  <2> QED
    BY <2>1, <2>2 DEF OnceInv
<1> QED
  BY <1>4, <1>5, <1>6, <1>7 DEF IInv

\* ... on the base loop at once, or on a sub loop through its queue.
LEMMA NewConnectionStep ==
  ASSUME IInv, NEW c \in Conns, NewConnection(c) PROVE IInv'
<1> USE LoopsNat
<1>1. Accepts(c) /\ ServerTypes' /\ HistoryTypes' /\ PollerTypes' /\ PeerTypes'
  BY AcceptTypes
<1>2. /\ pc[Base] = "dispatch" /\ c = nextConnId_ /\ nextConnId_ \in Nat
      /\ nextConnId_' = nextConnId_ + 1 /\ nextConnId_ <= c
      /\ UNCHANGED <<batch, idx, quit_>>
      /\ LoopRuns /\ OnceInv
  BY <1>1 DEF Accepts, LoopRuns, IInv, Types, ServerTypes
<1>3. /\ \A l \in Loops : \A run : ~Waits(l, Functor(run, c))
      /\ \A l \in Loops : conn[l] # c
  BY <1>2, NewIsUnknown
<1>4. \A d \in Conns : ~Closing(d)
  BY <1>2 DEF Closing, ClosePCs
<1>5. CASE NextLoop = Base
  <2>1. /\ pc' = [pc EXCEPT ![Base] = "established"]
        /\ conn' = [conn EXCEPT ![Base] = c]
        /\ ret' = [ret EXCEPT ![Base] = "dispatch"] /\ UNCHANGED pending
    BY <1>5 DEF NewConnection, Goto, Hold
  <2>2. \A m \in Loops : /\ pc'[m] = IF m = Base THEN "established" ELSE pc[m]
                         /\ conn'[m] = IF m = Base THEN c ELSE conn[m]
                         /\ ret'[m] = IF m = Base THEN "dispatch" ELSE ret[m]
    BY <2>1 DEF IInv, Types, ThreadTypes
  <2>3. Types'
    BY <1>1, <1>2, <2>1 DEF IInv, Types, ThreadTypes, QueueTypes, PCs
  <2>4. HoldInv'
    <3>1. \A m \in Loops : conn[m] \in Nat /\ conn[m] < nextConnId_
      BY DEF IInv, HoldInv, Types, ThreadTypes
    <3>2. \A m \in Loops : conn'[m] < nextConnId_'
      BY <1>2, <2>2, <3>1
    <3> QED
      BY <1>2, <2>2, <3>2 DEF IInv, HoldInv, CallPCs, ClosePCs, SubPCs
  <2>5. QueueInv'
    <3>1. \A m \in Loops, f \in Functors : Fits(m, f) => Fits(m, f)'
      BY <1>2, FitsStays
    <3>2. \A m \in Loops : pending[m] \in Seq(Functors)
            /\ batch[m] \in Seq(Functors)
      BY DEF IInv, Types, QueueTypes
    <3>3. \A m \in Loops : \A f : \A i \in 1 .. Len(pending[m]) : f = pending[m][i]
            => Fits(m, f)'
      <4> SUFFICES ASSUME NEW m \in Loops, NEW f, NEW i \in 1 .. Len(pending[m]),
                          f = pending[m][i]
                   PROVE  Fits(m, f)'
        OBVIOUS
      <4>1. pending[m] \in Seq(Functors)
        BY <3>2
      <4>2. f \in Functors
        BY <4>1
      <4>3. Fits(m, f)
        BY DEF IInv, QueueInv
      <4> QED
        BY <3>1, <4>2, <4>3
    <3>4. \A m \in Loops : \A f : \A i \in 1 .. Len(batch[m]) : f = batch[m][i]
            => Fits(m, f)'
      <4> SUFFICES ASSUME NEW m \in Loops, NEW f, NEW i \in 1 .. Len(batch[m]),
                          f = batch[m][i]
                   PROVE  Fits(m, f)'
        OBVIOUS
      <4>1. batch[m] \in Seq(Functors)
        BY <3>2
      <4>2. f \in Functors
        BY <4>1
      <4>3. Fits(m, f)
        BY DEF IInv, QueueInv
      <4> QED
        BY <3>1, <4>2, <4>3
    <3>5. \A m \in Loops : \A i \in 1 .. Len(pending[m]) : Fits(m, pending[m][i])'
      BY <2>1, <3>3 DEF Fits
    <3>6. \A m \in Loops : \A i \in 1 .. Len(batch[m]) : Fits(m, batch[m][i])'
      BY <1>2, <3>4 DEF Fits
    <3>7. \A m \in Loops : pc'[m] \in {"init", "poll", "stopped"} => batch[m] = <<>>
      BY <2>2 DEF IInv, QueueInv
    <3>8. batch[Base] = <<>> /\ pc'[Base] \in DispatchPCs
      BY <1>2, <2>2 DEF IInv, QueueInv, DispatchPCs, CallPCs
    <3> QED
      BY <1>2, <2>1, <3>5, <3>6, <3>7, <3>8 DEF QueueInv
  <2>6. \A m \in Loops, d \in Conns :
          Establishing(m, d)' <=> Establishing(m, d) \/ (m = Base /\ d = c)
    <3> TAKE m \in Loops, d \in Conns
    <3>1. Waits(m, Functor("connectEstablished", d))'
            <=> Waits(m, Functor("connectEstablished", d))
      BY <1>2, <2>1, WaitsSame DEF Functor
    <3>2. m = Base => ~Waits(m, Functor("connectEstablished", d))
      BY NoneToEstablish
    <3> QED
      BY <1>2, <2>2, <3>1, <3>2 DEF Establishing
  <2>7. \A d \in Conns : ToBeDestroyed(d)' <=> ToBeDestroyed(d)
    <3> TAKE d \in Conns
    <3>1. Waits(Base, Functor("connectDestroyed", d))'
            <=> Waits(Base, Functor("connectDestroyed", d))
      BY <1>2, <2>1, WaitsSame DEF Functor
    <3> QED
      BY <3>1 DEF ToBeDestroyed
  <2>8. \A d \in Conns : ~Closing(d)'
    BY <2>2 DEF Closing, ClosePCs
  <2>9. \A m \in Loops \ {Base} : Once(m) => Once(m)'
    BY <1>2, <2>1, <2>2, OnceStays
  <2> QED
    BY <1>1, <1>4, <2>3, <2>4, <2>5, <2>6, <2>7, <2>8, <2>9, AcceptStep
<1>6. CASE NextLoop # Base
  <2>1. NextLoop \in Loops
    BY <1>6 DEF NextLoop, IInv, Types, ServerTypes, Loops
  <2>2. PICK l \in Loops : l = NextLoop
    BY <2>1
  <2>3. PICK g \in Functors : g = Functor("connectEstablished", c)
    BY DEF Functor, Functors
  <2>4. /\ pending' = [pending EXCEPT ![l] = Append(@, g)] /\ l # Base
        /\ UNCHANGED <<pc, conn, ret>>
    BY <1>6, <2>2, <2>3 DEF NewConnection
  <2>5. Types'
    <3>1. Append(pending[l], g) \in Seq(Functors)
      BY DEF IInv, Types, QueueTypes
    <3>2. QueueTypes'
      BY <1>2, <2>4, <3>1 DEF IInv, Types, QueueTypes
    <3> QED
      BY <1>1, <1>2, <2>4, <3>2 DEF IInv, Types, ThreadTypes
  <2>6. HoldInv'
    BY <1>2, <2>4 DEF IInv, HoldInv, Types, ThreadTypes
  <2>7. QueueInv'
    <3>1. batch' = batch /\ nextConnId_ <= nextConnId_' /\ nextConnId_' \in Nat
      BY <1>2
    <3>2. Fits(l, g)'
      BY <1>2, <2>3, <2>4 DEF Fits, Functor
    <3>3. g.run = "connectDestroyed" => pc'[Base] \in DispatchPCs
      BY <2>3 DEF Functor
    <3>4. \A m \in Loops : pc'[m] \in {"init", "poll", "stopped"}
            => pc[m] \in {"init", "poll", "stopped"}
      BY <2>4
    <3>5. pc'[Base] # "pending" => batch[Base] = <<>>
      BY <1>2 DEF IInv, QueueInv
    <3>6. pc'[Base] \notin DispatchPCs => pc[Base] \notin DispatchPCs
      BY <2>4
    <3> QED
      BY <2>4, <3>1, <3>2, <3>3, <3>4, <3>5, <3>6, QueueAppend
  <2>8. \A m \in Loops : \A f : Waits(m, f)' <=> Waits(m, f) \/ (m = l /\ f = g)
    BY <1>2, <2>4, WaitsAppend DEF IInv, Types
  <2>9. \A m \in Loops, d \in Conns :
          Establishing(m, d)' <=> Establishing(m, d) \/ (m = l /\ d = c)
    <3> TAKE m \in Loops, d \in Conns
    <3>1. Functor("connectEstablished", d) = g <=> d = c
      BY <2>3 DEF Functor
    <3>2. Waits(m, Functor("connectEstablished", d))'
            <=> Waits(m, Functor("connectEstablished", d)) \/ (m = l /\ d = c)
      BY <2>8, <3>1 DEF Functor
    <3> QED
      BY <2>4, <3>2 DEF Establishing
  <2>10. \A d \in Conns : ToBeDestroyed(d)' <=> ToBeDestroyed(d)
    <3> TAKE d \in Conns
    <3>1. Functor("connectDestroyed", d) # g
      BY <2>3 DEF Functor
    <3>2. Waits(Base, Functor("connectDestroyed", d))'
            <=> Waits(Base, Functor("connectDestroyed", d))
      BY <2>8, <3>1 DEF Functor
    <3> QED
      BY <3>2 DEF ToBeDestroyed
  <2>11. \A d \in Conns : ~Closing(d)'
    BY <1>2, <2>4 DEF Closing, ClosePCs
  <2>12. \A m \in Loops \ {Base} : Once(m) => Once(m)'
    <3> SUFFICES ASSUME NEW m \in Loops \ {Base}, Once(m) PROVE Once(m)'
      OBVIOUS
    <3>1. CASE m # l
      <4>1. pending'[m] = pending[m]
        BY <2>4, <3>1 DEF IInv, Types, QueueTypes
      <4> QED
        BY <1>2, <2>4, <4>1, OnceStays
    <3>2. CASE m = l
      <4>1. /\ pending[m] \in Seq(Functors) /\ pending'[m] = Append(pending[m], g)
            /\ batch' = batch /\ idx' = idx
        BY <1>2, <2>4, <3>2 DEF IInv, Types, QueueTypes
      <4>2. ~Waits(m, g)
        BY <1>3, <2>3
      <4>3. /\ \A i \in 1 .. Len(pending[m]) : pending[m][i] # g
            /\ \A j \in idx[m] .. Len(batch[m]) : batch[m][j] # g
        BY <4>2 DEF Waits
      <4>4. \A i \in 1 .. Len(pending'[m]) :
              \/ i \in 1 .. Len(pending[m]) /\ pending'[m][i] = pending[m][i]
              \/ i = Len(pending[m]) + 1 /\ pending'[m][i] = g
        BY <4>1, AppendElement
      <4>5. \A i, j \in 1 .. Len(pending'[m]) : pending'[m][i] = pending'[m][j]
              => i = j
        BY <4>3, <4>4 DEF Once
      <4>6. \A i \in 1 .. Len(pending'[m]), j \in idx[m] .. Len(batch[m]) :
              pending'[m][i] # batch[m][j]
        BY <4>3, <4>4 DEF Once
      <4>7. pc[m] \in {"established", "enable"} =>
              \A f : f = Functor("connectEstablished", conn[m]) => ~Waits(m, f)'
        <5> SUFFICES ASSUME pc[m] \in {"established", "enable"},
                            NEW f, f = Functor("connectEstablished", conn[m])
                     PROVE  ~Waits(m, f)'
          OBVIOUS
        <5>1. f # g
          BY <1>3, <2>3 DEF Functor
        <5>2. ~Waits(m, f)
          BY DEF Once
        <5> QED
          BY <2>8, <5>1, <5>2
      <4>8. (pc[m] \in {"established", "enable"} =>
               ~Waits(m, Functor("connectEstablished", conn[m])))'
        BY <2>4, <4>7 DEF Waits, Functor
      <4> QED
        BY <4>1, <4>5, <4>6, <4>8 DEF Once
    <3> QED
      BY <3>1, <3>2
  <2> QED
    BY <1>1, <1>4, <2>5, <2>6, <2>7, <2>9, <2>10, <2>11, <2>12, AcceptStep
<1> QED
  BY <1>5, <1>6

-----------------------------------------------------------------------------
(***************************************************************************)
(* The theorems.                                                           *)
(***************************************************************************)

\* The invariant holds of a new server.
LEMMA InitIInv == Init => IInv
<1> SUFFICES ASSUME Init PROVE IInv
  OBVIOUS
<1> USE LoopsNat
<1>1. /\ \A l \in Loops : /\ pc[l] = "init" /\ conn[l] = NoConn
                          /\ ret[l] = "pending"
                          /\ pending[l] = <<>> /\ batch[l] = <<>> /\ idx[l] = 1
      /\ \A c \in Conns : state_[c] = "none" /\ calls[c] = <<>>
      /\ nextConnId_ = 1 /\ connections_ = {} /\ inMap = {} /\ reading = {}
      /\ active = {}
      /\ destroyed = {}
  BY DEF Init
<1>2. <<>> \in Seq(Functors) /\ <<>> \in Seq(Calls) /\ Len(<<>>) = 0
  OBVIOUS
<1>3. Types
  <2>1. ThreadTypes
    BY DEF Init, ThreadTypes, PCs
  <2>2. QueueTypes
    BY <1>2 DEF Init, QueueTypes
  <2>3. ServerTypes /\ PollerTypes
    BY DEF Init, ServerTypes, PollerTypes
  <2>4. PeerTypes
    BY DEF Init, PeerTypes
  <2>5. HistoryTypes
    BY <1>2 DEF Init, HistoryTypes, States
  <2> QED
    BY <2>1, <2>2, <2>3, <2>4, <2>5 DEF Types
<1>4. HoldInv
  <2>1. \A l \in Loops : quit_[l] = FALSE
    BY DEF Init
  <2>2. \A l \in Loops \ {Base} : quit_[l] => pc[Base] \in {"join", "stopped"}
    BY <2>1
  <2> QED
    BY <1>1, <2>2 DEF HoldInv, CallPCs, ClosePCs, SubPCs
<1>5. \A l \in Loops : /\ 1 .. Len(pending[l]) = {} /\ 1 .. Len(batch[l]) = {}
                         /\ idx[l] .. Len(batch[l]) = {}
  <2>1. \A l \in Loops : Len(pending[l]) = 0 /\ Len(batch[l]) = 0
    BY <1>1, <1>2
  <2>2. 1 .. 0 = {} /\ \A l \in Loops : idx[l] = 1
    BY <1>1
  <2> QED
    BY <2>1, <2>2
<1>6. QueueInv
  BY <1>1, <1>5 DEF QueueInv
<1>7. \A l \in Loops : \A f : ~Waits(l, f)
  BY <1>5 DEF Waits
<1>8. \A c \in Conns : ~ToBeDestroyed(c) /\ ~Closing(c)
  BY <1>1, <1>7 DEF ToBeDestroyed, Closing
<1>9. LifeInv
  BY <1>1 DEF LifeInv
<1>10. CallsInv
  <2>1. ASSUME NEW c \in Conns PROVE CountBy(c, "closed") = 0
    <3>1. {i \in DOMAIN calls[c] : calls[c][i].by = "closed"} = {}
      BY <1>1
    <3> QED
      BY <3>1, FS_EmptySet DEF CountBy
  <2> QED
    BY <1>8, <2>1 DEF CallsInv
<1>11. \A l \in Loops, c \in Conns : ~Establishing(l, c)
  BY <1>1, <1>7 DEF Establishing
<1>12. PollerInv
  BY <1>1, <1>8, <1>11 DEF PollerInv
<1>13. OnceInv
  <2>1. \A l \in Loops \ {Base} : Once(l)
    BY <1>1, <1>2 DEF Once
  <2> QED
    BY <1>11, <2>1 DEF OnceInv
<1> QED
  BY <1>3, <1>4, <1>6, <1>9, <1>10, <1>12, <1>13 DEF IInv

\* A step of nobody keeps it.
LEMMA StutterIInv == IInv /\ UNCHANGED vars => IInv'
<1> SUFFICES ASSUME IInv, UNCHANGED vars PROVE IInv'
  OBVIOUS
<1>1. Types'
  BY DEF IInv, vars, threadVars, serverVars, pollerVars, peerVars, history, Types,
     ThreadTypes, QueueTypes, ServerTypes, PollerTypes, PeerTypes, HistoryTypes
<1>2. active' \subseteq active \cup reading \cup {Acceptor}
  BY DEF vars, pollerVars
<1>3. QuietPC(Base) /\ QuietQuit
  BY DEF QuietPC, QuietQuit, vars, threadVars
<1> QED
  BY <1>1, <1>2, <1>3, LoopsNat, QuietStep DEF vars, threadVars, serverVars,
     pollerVars, history

\* Every step keeps the invariant.
LEMMA NextIInv == IInv /\ [Next]_vars => IInv'
<1> SUFFICES ASSUME IInv, [Next]_vars PROVE IInv'
  OBVIOUS
<1>1. CASE StartServer \/ EnterLoop(Base) \/ Quit \/ Peer
  BY <1>1, LoopsNat, QuietActions
<1>2. CASE BaseThread
  <2>1. CASE Poll \/ AcceptFails \/ LeaveLoop \/ DestroyPool
    BY <2>1, QuietActions
  <2>2. CASE DestroyBaseLoop
    BY <2>2, DestroyBaseLoopStep
  <2>3. ASSUME NEW c \in Conns, NewConnection(c) PROVE IInv'
    BY <2>3, NewConnectionStep
  <2>4. ASSUME NEW c \in Conns, Message(c) PROVE IInv'
    BY <2>4, MessageStep
  <2>5. ASSUME NEW c \in Conns, ReadError(c) PROVE IInv'
    BY <2>5, QuietActions
  <2>6. ASSUME NEW c \in Conns, HandleClose(c) PROVE IInv'
    BY <2>6, HandleCloseStep
  <2>7. ASSUME NEW c \in Conns, DestroyConnection(c) PROVE IInv'
    BY <2>7, DestroyConnectionStep
  <2>8. CASE \E l \in Loops \ {Base} : QuitSub(l)
    BY <2>8, QuietActions
  <2> QED
    BY <1>2, <2>1, <2>2, <2>3, <2>4, <2>5, <2>6, <2>7, <2>8 DEF BaseThread
<1>3. ASSUME NEW l \in Loops, LoopThread(l) PROVE IInv'
  <2>1. CASE Swap(l)
    BY <2>1, SwapStep
  <2>2. CASE EndBatch(l)
    BY <2>2, EndBatchStep
  <2>3. ASSUME NEW c \in Conns, RunEstablished(l, c) PROVE IInv'
    BY <2>3, RunEstablishedStep
  <2>4. ASSUME NEW c \in Conns, RunShutdownInLoop(l, c) PROVE IInv'
    BY <2>4, RunShutdownInLoopStep
  <2>5. ASSUME NEW c \in Conns, RunDestroyed(l, c) PROVE IInv'
    BY <2>5, RunDestroyedStep
  <2>6. CASE SetConnected(l)
    BY <2>6, SetConnectedStep
  <2>7. CASE EnableReading(l)
    BY <2>7, EnableReadingStep
  <2>8. CASE UpCallback(l)
    BY <2>8, UpCallbackStep
  <2>9. CASE UserReturn(l)
    BY <2>9, UserReturnStep
  <2>10. CASE Shutdown(l)
    BY <2>10, ShutdownStep
  <2>11. CASE SetDisconnecting(l)
    BY <2>11, SetDisconnectingStep
  <2>12. CASE PostShutdown(l)
    BY <2>12, PostShutdownStep
  <2>13. CASE DownCallback(l)
    BY <2>13, DownCallbackStep
  <2>14. CASE RemoveConnection(l)
    BY <2>14, RemoveConnectionStep
  <2>15. CASE SubStops(l)
    BY <2>15, SubStopsStep
  <2>16. CASE l # Base /\ EnterLoop(l)
    BY <2>16, QuietActions
  <2> QED
    BY <1>3, <2>1, <2>2, <2>3, <2>4, <2>5, <2>6, <2>7, <2>8, <2>9, <2>10, <2>11,
         <2>12, <2>13, <2>14, <2>15, <2>16 DEF LoopThread
<1>4. CASE UNCHANGED vars
  BY <1>4, StutterIInv
<1> QED
  BY <1>1, <1>2, <1>3, <1>4 DEF Next

\* The inductive invariant holds of every behaviour.
THEOREM Invariance == Spec => []IInv
<1>1. Init => IInv
  BY InitIInv
<1>2. IInv /\ [Next]_vars => IInv'
  BY NextIInv
<1> QED
  BY <1>1, <1>2, PTL DEF Spec

\* Every variable keeps its type: getNextLoop's index stays one of a sub loop,
\* and a queue holds functors of connections (TcpServer.cc:68,
\* EventLoopThreadLoop.cc:48).
THEOREM TypeCorrect == Spec => []TypeOK
<1>1. IInv => TypeOK
  BY TypesTypeOK DEF IInv
<1> QED
  BY <1>1, Invariance, PTL

\* The functor of connectDestroyed owns its connection.
LEMMA WaitingIsOwned ==
  ASSUME IInv, NEW c \in Conns, ToBeDestroyed(c)
  PROVE  Alive(c)
<1> USE LoopsNat
<1>1. /\ pending[Base] \in Seq(Functors) /\ batch[Base] \in Seq(Functors)
      /\ idx[Base] \in Nat \ {0}
  BY DEF IInv, Types, QueueTypes
<1>2. \A f : f = Functor("connectDestroyed", c) => Owning(f) /\ f.c = c
  BY DEF Functor, Owning
<1>3. CASE \E i \in 1 .. Len(pending[Base]) :
             pending[Base][i] = Functor("connectDestroyed", c)
  BY <1>1, <1>2, <1>3 DEF Alive, InQueue
<1>4. CASE \E i \in idx[Base] .. Len(batch[Base]) :
             batch[Base][i] = Functor("connectDestroyed", c)
  <2>1. PICK i \in idx[Base] .. Len(batch[Base]) :
               batch[Base][i] = Functor("connectDestroyed", c)
    BY <1>4
  <2>2. i \in DOMAIN batch[Base]
    BY <1>1
  <2> QED
    BY <1>2, <2>1, <2>2 DEF Alive, InQueue
<1> QED
  BY <1>3, <1>4 DEF ToBeDestroyed, Waits

\* As long as the base loop runs, neither its poller nor activeChannels_ has a
\* pointer to the channel of a connection that is gone: connectDestroyed takes
\* the channel out before the last shared_ptr goes (TcpConnection.cc:249,
\* TcpServer.cc:118).
THEOREM PollerSafe == Spec => []PollerHoldsLiveChannels
<1>1. IInv => PollerHoldsLiveChannels
  <2> SUFFICES ASSUME IInv, LoopRuns, NEW c \in inMap \cup (active \ {Acceptor})
               PROVE  Alive(c)
    BY DEF PollerHoldsLiveChannels
  <2>1. PollerInv
    BY DEF IInv
  <2>2. c \in inMap /\ c \in Conns /\ c \notin destroyed
    BY <2>1 DEF PollerInv, IInv, Types, PollerTypes
  <2>3. c \in connections_ \/ ToBeDestroyed(c)
    BY <2>2 DEF IInv, LifeInv
  <2> QED
    BY <2>2, <2>3, WaitingIsOwned DEF Alive
<1> QED
  BY <1>1, Invariance, PTL

\* As long as the base loop runs, connectDestroyed is the last thing that
\* happens to a channel: no loop puts it back into the poller, whichever loop
\* runs connectEstablished and however late (TcpConnection.cc:249,
\* TcpServer.cc:104).
THEOREM DestroyedLast == Spec => []RemovedForGood
<1>1. IInv => RemovedForGood
  BY DEF IInv, PollerInv, RemovedForGood
<1> QED
  BY <1>1, Invariance, PTL

\* A connection has an owner up to its connectDestroyed: when the base loop is
\* destroyed with its queue, none is queued (TcpServer.cc:45, 118,
\* Eventloop.cc:105).
THEOREM OwnedToTheEnd == Spec => []LivesUntilDestroyed
<1>1. IInv => LivesUntilDestroyed
  <2> SUFFICES ASSUME IInv, NEW c \in Conns, state_[c] # "none", c \notin destroyed
               PROVE  Alive(c)
    BY DEF LivesUntilDestroyed
  <2>1. c < nextConnId_
    BY LoopsNat DEF IInv, LifeInv, Types, ServerTypes
  <2>2. c \in connections_ \/ ToBeDestroyed(c)
    BY <2>1 DEF IInv, LifeInv
  <2> QED
    BY <2>2, WaitingIsOwned DEF Alive
<1> QED
  BY <1>1, Invariance, PTL

\* The user is told at most once of the end of a connection, by handleClose or
\* by connectDestroyed (TcpConnection.cc:121, 249).
THEOREM ClosedOnce == Spec => []ClosedAtMostOnce
<1>1. IInv => ClosedAtMostOnce
  BY DEF IInv, CallsInv, ClosedAtMostOnce
<1> QED
  BY <1>1, Invariance, PTL

=============================================================================
