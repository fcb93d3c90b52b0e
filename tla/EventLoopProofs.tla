--------------------------- MODULE EventLoopProofs ---------------------------
(***************************************************************************)
(* Proofs about EventLoop for any set of functors and any set of foreign   *)
(* threads: the inductive invariant, the absence of lost wakeups, and the  *)
(* refinement of TaskQueue.                                                *)
(***************************************************************************)
EXTENDS EventLoop, SequenceTheorems, TLAPS

-----------------------------------------------------------------------------
(***************************************************************************)
(* Facts about sequences.                                                  *)
(***************************************************************************)

\* What an append adds to the elements of a sequence is what is appended.
LEMMA ElementsOfAppend ==
  ASSUME NEW S, NEW s \in Seq(S), NEW e \in S
  PROVE  /\ Append(s, e) \in Seq(S)
         /\ Elements(Append(s, e)) = Elements(s) \cup {e}
<1>1. Append(s, e) \in Seq(S)
  OBVIOUS
<1>2. /\ Len(s) \in Nat
      /\ DOMAIN s = 1 .. Len(s)
      /\ DOMAIN Append(s, e) = 1 .. (Len(s) + 1)
      /\ \A i \in 1 .. Len(s) : Append(s, e)[i] = s[i]
      /\ Append(s, e)[Len(s) + 1] = e
  OBVIOUS
<1>3. Elements(Append(s, e)) \subseteq Elements(s) \cup {e}
  BY <1>2 DEF Elements
<1>4. Elements(s) \subseteq Elements(Append(s, e))
  BY <1>2 DEF Elements
<1>5. e \in Elements(Append(s, e))
  BY <1>2 DEF Elements
<1> QED
  BY <1>1, <1>3, <1>4, <1>5

\* The empty queue has no elements.
LEMMA ElementsOfEmpty == Elements(<<>>) = {}
BY DEF Elements

\* Appending to the second part of a concatenation appends to the whole.
LEMMA AppendToConcat ==
  ASSUME NEW S, NEW s \in Seq(S), NEW t \in Seq(S), NEW e \in S
  PROVE  s \o Append(t, e) = Append(s \o t, e)
OBVIOUS

\* Head and tail of a concatenation are those of a nonempty first part.
LEMMA HeadTailOfConcat ==
  ASSUME NEW S, NEW s \in Seq(S), NEW t \in Seq(S), s # <<>>
  PROVE  /\ s \o t # <<>>
         /\ Head(s \o t) = Head(s)
         /\ Tail(s \o t) = Tail(s) \o t
         /\ Head(s) \in S
         /\ Tail(s) \in Seq(S)
<1>1. /\ Len(s) \in Nat
      /\ Len(s) > 0
      /\ Head(s) \in S
      /\ Tail(s) \in Seq(S)
  OBVIOUS
<1>2. /\ s \o t # <<>>
      /\ Head(s \o t) = Head(s)
  BY <1>1
<1>3. Tail(s \o t) = Tail(s) \o t
  BY <1>1
<1> QED
  BY <1>1, <1>2, <1>3

-----------------------------------------------------------------------------
(***************************************************************************)
(* The inductive invariant.                                                *)
(***************************************************************************)

LEMMA InitIInv == Init => IInv
<1> SUFFICES ASSUME Init PROVE IInv
  OBVIOUS
<1>1. TypeOK
  <2>1. <<>> \in Seq(Tasks)
    OBVIOUS
  <2>2. /\ pendingFunctors_ \in Seq(Tasks)
        /\ functors \in Seq(Tasks)
        /\ ran \in Seq(Tasks)
    BY <2>1 DEF Init
  <2> QED
    BY <2>2 DEF Init, TypeOK, PCs, Channels
<1>2. FlagTellsBatch
  BY DEF Init, FlagTellsBatch
<1>3. PendingCovered
  BY ElementsOfEmpty DEF Init, PendingCovered
<1>4. QuitCovered
  BY DEF Init, QuitCovered
<1> QED
  BY <1>1, <1>2, <1>3, <1>4 DEF IInv

\* What every handing over of a functor does to the queue and its elements.
LEMMA EnqueueStep ==
  ASSUME TypeOK, NEW t \in Tasks, Enqueue(t)
  PROVE  /\ pendingFunctors_' \in Seq(Tasks)
         /\ Elements(pendingFunctors_') = Elements(pendingFunctors_) \cup {t}
         /\ fresh' \in SUBSET Tasks
BY ElementsOfAppend DEF TypeOK, Enqueue

\* Every step of the loop's thread keeps the invariant.
LEMMA LoopThreadKeepsIInv == IInv /\ LoopThread => IInv'
<1> SUFFICES ASSUME IInv, LoopThread PROVE IInv'
  OBVIOUS
<1> USE DEF IInv, TypeOK, PCs, Channels, FlagTellsBatch, PendingCovered,
            QuitCovered, WakeupOnTheWay
<1>1. CASE EnterLoop
  BY <1>1 DEF EnterLoop
<1>2. CASE TestQuit
  BY <1>2 DEF TestQuit
<1>3. ASSUME NEW io \in BOOLEAN, Poll(io) PROVE IInv'
  BY <1>3 DEF Poll
<1>4. CASE PollTimeout
  BY <1>4 DEF PollTimeout
<1>5. CASE HandleRead
  BY <1>5 DEF HandleRead
<1>6. CASE HandleEvent
  BY <1>6 DEF HandleEvent
<1>7. CASE SwapPending
  BY <1>7, ElementsOfEmpty DEF SwapPending
<1>8. CASE RunFunctor
  <2>1. /\ Head(functors) \in Tasks
        /\ Tail(functors) \in Seq(Tasks)
    BY <1>8 DEF RunFunctor
  <2>2. TypeOK'
    BY <1>8, <2>1 DEF RunFunctor
  <2>3. callingPendingFuntors_
    BY <1>8 DEF RunFunctor
  <2> QED
    BY <1>8, <2>2, <2>3 DEF RunFunctor
<1>9. CASE UserReturn
  BY <1>9 DEF UserReturn
<1>10. CASE EndPending
  BY <1>10 DEF EndPending
<1> QED
  BY <1>1, <1>2, <1>3, <1>4, <1>5, <1>6, <1>7, <1>8, <1>9, <1>10 DEF LoopThread

\* So does whatever user code does on the loop's thread.
LEMMA UserCodeKeepsIInv == IInv /\ UserCode => IInv'
<1> SUFFICES ASSUME IInv, UserCode PROVE IInv'
  OBVIOUS
<1> USE DEF IInv, TypeOK, PCs, FlagTellsBatch, PendingCovered, QuitCovered,
            WakeupOnTheWay, OnLoopThread
<1>1. ASSUME NEW t \in Tasks, OwnQueueInLoop(t) PROVE IInv'
  <2>1. /\ pendingFunctors_' \in Seq(Tasks)
        /\ Elements(pendingFunctors_') = Elements(pendingFunctors_) \cup {t}
        /\ fresh' \in SUBSET Tasks
    BY <1>1, EnqueueStep DEF OwnQueueInLoop
  <2>2. TypeOK'
    BY <1>1, <2>1 DEF OwnQueueInLoop, NeedsWakeup
  <2>3. PendingCovered'
    BY <1>1, <2>1 DEF OwnQueueInLoop, NeedsWakeup
  <2> QED
    BY <1>1, <2>2, <2>3 DEF OwnQueueInLoop
<1>2. ASSUME NEW t \in Tasks, OwnRunInLoop(t) PROVE IInv'
  BY <1>2, ElementsOfAppend DEF OwnRunInLoop
<1>3. CASE OwnQuit
  BY <1>3 DEF OwnQuit, QuitWakes
<1> QED
  BY <1>1, <1>2, <1>3 DEF UserCode

\* So does every step of a foreign thread.
LEMMA ForeignThreadKeepsIInv ==
  ASSUME NEW f \in Foreign, IInv, ForeignThread(f)
  PROVE  IInv'
<1> USE DEF IInv, TypeOK, PCs, FlagTellsBatch, PendingCovered, QuitCovered,
            WakeupOnTheWay
<1>1. ASSUME NEW t \in Tasks, ForeignQueueInLoop(f, t) PROVE IInv'
  <2>1. /\ pendingFunctors_' \in Seq(Tasks)
        /\ fresh' \in SUBSET Tasks
    BY <1>1, EnqueueStep DEF ForeignQueueInLoop
  <2>2. fpc'[f] = "wakeup" /\ fpc' \in [Foreign -> {"idle", "wakeup"}]
    BY <1>1 DEF ForeignQueueInLoop, NeedsWakeup
  <2> QED
    BY <1>1, <2>1, <2>2 DEF ForeignQueueInLoop
<1>2. CASE ForeignQuit(f)
  <2>1. fpc'[f] = "wakeup" /\ fpc' \in [Foreign -> {"idle", "wakeup"}]
    BY <1>2 DEF ForeignQuit, QuitWakes
  <2> QED
    BY <1>2, <2>1 DEF ForeignQuit
<1>3. CASE Wakeup(f)
  BY <1>3 DEF Wakeup
<1> QED
  BY <1>1, <1>2, <1>3 DEF ForeignThread

LEMMA NextKeepsIInv == IInv /\ [Next]_vars => IInv'
<1> SUFFICES ASSUME IInv, [Next]_vars PROVE IInv'
  OBVIOUS
<1>1. CASE LoopThread
  BY <1>1, LoopThreadKeepsIInv
<1>2. CASE UserCode
  BY <1>2, UserCodeKeepsIInv
<1>3. ASSUME NEW f \in Foreign, ForeignThread(f) PROVE IInv'
  BY <1>3, ForeignThreadKeepsIInv
<1>4. CASE UNCHANGED vars
  BY <1>4 DEF vars, IInv, TypeOK, FlagTellsBatch, PendingCovered, QuitCovered,
              WakeupOnTheWay
<1> QED
  BY <1>1, <1>2, <1>3, <1>4 DEF Next

\* The inductive invariant of the event loop holds for any functors and any
\* foreign threads: in particular every variable keeps its type.
THEOREM Invariance == Spec => []IInv
BY InitIInv, NextKeepsIInv, PTL DEF Spec

\* The loop never sleeps over a quit() or a functor with no wakeup on its way
\* (queueInLoop and quit of Eventloop.cc, functors queued before loop()
\* excepted).
THEOREM NoWakeupIsLost == Spec => []NoLostWakeup
<1>1. IInv => NoLostWakeup
  BY DEF IInv, PendingCovered, QuitCovered, NoLostWakeup
<1> QED
  BY <1>1, Invariance, PTL

-----------------------------------------------------------------------------
(***************************************************************************)
(* The refinement of TaskQueue.                                            *)
(***************************************************************************)

LEMMA InitMapsToInit == Init => TQ!AbstractInit
BY DEF Init, TQ!AbstractInit

\* A handing over is a Post of the abstract queue.
LEMMA EnqueueIsPost ==
  ASSUME TypeOK, NEW t \in Tasks, Enqueue(t), UNCHANGED <<functors, ran>>
  PROVE  TQ!Post(t)
<1>1. functors \o Append(pendingFunctors_, t)
        = Append(functors \o pendingFunctors_, t)
  BY AppendToConcat DEF TypeOK
<1> QED
  BY <1>1 DEF Enqueue, TQ!Post

LEMMA StepMapsToStep ==
  IInv /\ [Next]_vars => [TQ!AbstractNext]_(TQ!abstractVars)
<1> SUFFICES ASSUME IInv, [Next]_vars
             PROVE  TQ!AbstractNext \/ UNCHANGED TQ!abstractVars
  OBVIOUS
<1> USE DEF TQ!AbstractNext, TQ!abstractVars
<1>1. ASSUME NEW t \in Tasks, OwnQueueInLoop(t) PROVE TQ!Post(t)
  BY <1>1, EnqueueIsPost DEF OwnQueueInLoop, IInv
<1>2. ASSUME NEW t \in Tasks, OwnRunInLoop(t) PROVE TQ!RunNow(t)
  BY <1>2 DEF OwnRunInLoop, TQ!RunNow
<1>3. ASSUME NEW f \in Foreign, NEW t \in Tasks, ForeignQueueInLoop(f, t)
      PROVE  TQ!Post(t)
  BY <1>3, EnqueueIsPost DEF ForeignQueueInLoop, IInv
<1>4. ASSUME RunFunctor PROVE TQ!RunHead
  BY <1>4, HeadTailOfConcat DEF RunFunctor, TQ!RunHead, IInv, TypeOK
<1>5. ASSUME SwapPending PROVE UNCHANGED TQ!abstractVars
  <2>1. functors = <<>>
    BY <1>5 DEF SwapPending, IInv, FlagTellsBatch
  <2>2. <<>> \o pendingFunctors_ = pendingFunctors_ \o <<>>
    BY DEF IInv, TypeOK
  <2> QED
    BY <1>5, <2>1, <2>2 DEF SwapPending
<1>6. ASSUME \/ EnterLoop \/ TestQuit \/ (\E io \in BOOLEAN : Poll(io))
             \/ PollTimeout \/ HandleRead \/ HandleEvent \/ UserReturn
             \/ EndPending \/ OwnQuit
             \/ (\E f \in Foreign : ForeignQuit(f) \/ Wakeup(f))
             \/ UNCHANGED vars
      PROVE  UNCHANGED TQ!abstractVars
  BY <1>6 DEF EnterLoop, TestQuit, Poll, PollTimeout, HandleRead, HandleEvent,
              UserReturn, EndPending, OwnQuit, ForeignQuit, Wakeup, vars
<1> QED
  BY <1>1, <1>2, <1>3, <1>4, <1>5, <1>6
  DEF Next, LoopThread, UserCode, ForeignThread

\* The event loop implements the FIFO queue of functors: handed over by
\* whichever thread, functors start in the order of their queueInLoop, each
\* once.
THEOREM RefinesTaskQueue == Spec => RunsInQueueOrder
BY InitMapsToInit, StepMapsToStep, Invariance, PTL
DEF Spec, RunsInQueueOrder, TQ!AbstractSpec

=============================================================================
