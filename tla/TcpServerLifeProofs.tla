------------------------- MODULE TcpServerLifeProofs -------------------------
(***************************************************************************)
(* A TcpServer without sub loops implements ConnectionLife, for any number *)
(* of connections and messages. With sub loops it does not: a message may  *)
(* come before the first callback.                                         *)
(***************************************************************************)

EXTENDS TcpServerProofs

-----------------------------------------------------------------------------
(***************************************************************************)
(* The invariant of one loop.                                              *)
(***************************************************************************)

\* A functor that the base loop has queued or is done with owns connection c.
Owner(c) == InQueue(c, pending[Base]) \/ InQueue(c, batch[Base])

\* What the user has been told of a connection in each of its states.
CallsOfState(c) ==
  /\ state_[c] \in {"none", "kConnecting"} => calls[c] = <<>>
  /\ state_[c] = "kConnected" =>
       /\ calls[c] = <<>> <=> pc[Base] \in {"enable", "up"} /\ conn[Base] = c
       /\ ~Announced(c)
  /\ state_[c] = "kDisconnecting" => calls[c] # <<>> /\ ~Announced(c)
  /\ state_[c] = "kDisconnected" =>
       /\ calls[c] # <<>>
       /\ Announced(c) <=> ~(pc[Base] = "down" /\ conn[Base] = c)

\* Where the base loop's thread is with a connection in each of its states, and
\* who owns it: the map, up to removeConnection, and a functor after that.
PlaceOfState(c) ==
  /\ state_[c] = "kConnecting" <=> pc[Base] = "established" /\ conn[Base] = c
  /\ pc[Base] \in {"enable", "up", "shutdown"} /\ conn[Base] = c
       => state_[c] = "kConnected"
  /\ state_[c] = "kDisconnected" /\ c \in connections_ <=> Closing(c)
  /\ conn[Base] = c => c \in connections_
  /\ Owner(c) => state_[c] = "kDisconnected" /\ c \notin connections_

\* The invariant of a server on one loop, and the two together.
OneLoopInv == \A c \in Conns : CallsOfState(c) /\ PlaceOfState(c)
OneInv == IInv /\ OneLoopInv /\ NumSubs = 0

\* What is left of Alive and of shut on one loop.
Owned(c) == c \in connections_ \/ Owner(c)
Shut(c) == Alive(c) /\ state_[c] = "kDisconnecting"

\* The base loop is the only one.
LEMMA OneLoop == NumSubs = 0 => Loops = {Base}
  BY DEF Loops, Base

\* A connection exists while the map or a functor owns it: the thread that
\* handles one has it from the map.
LEMMA AliveIsOwned ==
  ASSUME NumSubs = 0, OneLoopInv, NEW c \in Conns
  PROVE  Alive(c) <=> Owned(c)
  BY OneLoop DEF Alive, Owner, Owned, OneLoopInv, PlaceOfState

\* Queues that are left alone own the same.
LEMMA OwnerSame ==
  ASSUME UNCHANGED <<pending, batch>>
  PROVE  \A c \in Conns : Owner(c)' <=> Owner(c)
  BY DEF Owner, InQueue, Owning

-----------------------------------------------------------------------------
(***************************************************************************)
(* The life of a connection in a state, and in a step.                     *)
(***************************************************************************)

\* The life of a connection is what its state, its calls and its owners say.
LEMMA LifeSame ==
  ASSUME NumSubs = 0, OneLoopInv, OneLoopInv', NEW c \in Conns,
         state_'[c] = state_[c], calls'[c] = calls[c], Owned(c)' <=> Owned(c)
  PROVE  LifeOf(c)' = LifeOf(c) /\ (Shut(c)' <=> Shut(c))
<1>1. (Alive(c) <=> Owned(c)) /\ (Alive(c) <=> Owned(c))'
  <2>1. Alive(c) <=> Owned(c)
    BY AliveIsOwned
  <2>2. (Alive(c) <=> Owned(c))'
    BY OneLoop DEF Alive, Owner, Owned, OneLoopInv, PlaceOfState
  <2> QED
    BY <2>1, <2>2
<1>2. Announced(c)' <=> Announced(c)
  BY DEF Announced
<1> QED
  BY <1>1, <1>2 DEF LifeOf, Shut

\* A step in nobody's life stutters.
LEMMA NoLifeStep ==
  ASSUME \A c \in Conns : LifeOf(c)' = LifeOf(c) /\ (Shut(c)' <=> Shut(c)),
         UNCHANGED calls
  PROVE  UNCHANGED Life!vars
<1>1. [c \in Conns |-> LifeOf(c)]' = [c \in Conns |-> LifeOf(c)]
  OBVIOUS
<1>2. {c \in Conns : Alive(c) /\ state_[c] = "kDisconnecting"}'
        = {c \in Conns : Alive(c) /\ state_[c] = "kDisconnecting"}
  BY DEF Shut
<1> QED
  BY <1>1, <1>2 DEF Life!vars

\* The call that is made is the last.
LEMMA LastAppended ==
  ASSUME NEW s \in Seq(Calls), NEW e \in Calls
  PROVE  Append(s, e) # <<>> /\ Append(s, e)[Len(Append(s, e))] = e
<1>1. Len(Append(s, e)) = Len(s) + 1 /\ Len(s) \in Nat
  OBVIOUS
<1> QED
  BY <1>1

\* The life of a connection that is owned, in each of its states, before a step
LEMMA LifeValues ==
  ASSUME NumSubs = 0, OneLoopInv, NEW c \in Conns, Owned(c), state_[c] # "none"
  PROVE  /\ state_[c] = "kConnecting" => LifeOf(c) = "new"
         /\ state_[c] = "kConnected" /\ calls[c] = <<>> => LifeOf(c) = "new"
         /\ state_[c] \in {"kConnected", "kDisconnecting"} /\ calls[c] # <<>>
              => LifeOf(c) = "up"
         /\ state_[c] = "kDisconnected"
              => LifeOf(c) = IF Announced(c) THEN "down" ELSE "ending"
         /\ Shut(c) <=> state_[c] = "kDisconnecting"
<1>1. Alive(c)
  BY AliveIsOwned
<1>2. CallsOfState(c) /\ PlaceOfState(c)
  BY DEF OneLoopInv
<1>3. calls[c] = <<>> => ~Announced(c)
  BY DEF Announced
<1>4. Shut(c) <=> state_[c] = "kDisconnecting"
  BY <1>1 DEF Shut
<1>5. LifeOf(c) = IF calls[c] = <<>> THEN "new"
                  ELSE IF Announced(c) THEN "down"
                  ELSE IF state_[c] = "kDisconnected" THEN "ending" ELSE "up"
  BY <1>1, <1>3 DEF LifeOf
<1> QED
  BY <1>2, <1>4, <1>5 DEF CallsOfState

\* ... and behind it.
LEMMA LifeValuesNext ==
  ASSUME NumSubs = 0, OneLoopInv', NEW c \in Conns, Owned(c)', state_'[c] # "none"
  PROVE  /\ state_'[c] = "kConnecting" => LifeOf(c)' = "new"
         /\ state_'[c] = "kConnected" /\ calls'[c] = <<>> => LifeOf(c)' = "new"
         /\ state_'[c] \in {"kConnected", "kDisconnecting"} /\ calls'[c] # <<>>
              => LifeOf(c)' = "up"
         /\ state_'[c] = "kDisconnected"
              => LifeOf(c)' = IF Announced(c)' THEN "down" ELSE "ending"
         /\ Shut(c)' <=> state_'[c] = "kDisconnecting"
<1>1. Alive(c)'
  BY OneLoop DEF Alive, Owner, Owned, OneLoopInv, PlaceOfState
<1>2. CallsOfState(c)' /\ PlaceOfState(c)'
  BY DEF OneLoopInv
<1>3. calls'[c] = <<>> => ~Announced(c)'
  BY DEF Announced
<1>4. Shut(c)' <=> state_'[c] = "kDisconnecting"
  BY <1>1 DEF Shut
<1>5. LifeOf(c)' = IF calls'[c] = <<>> THEN "new"
                  ELSE IF Announced(c)' THEN "down"
                  ELSE IF state_'[c] = "kDisconnected" THEN "ending" ELSE "up"
  BY <1>1, <1>3 DEF LifeOf
<1> QED
  BY <1>2, <1>4, <1>5 DEF CallsOfState

\* ConnectionLife's changes of life and of shut, from those of each connection.
LEMMA Becoming ==
  ASSUME NEW c \in Conns, NEW l, LifeOf(c)' = l,
         \A d \in Conns \ {c} : LifeOf(d)' = LifeOf(d)
  PROVE  Life!Becomes(c, l)
<1>1. [d \in Conns |-> LifeOf(d)]' = [[d \in Conns |-> LifeOf(d)] EXCEPT ![c] = l]
  OBVIOUS
<1> QED
  BY <1>1 DEF Life!Becomes

LEMMA LifeStays ==
  ASSUME \A d \in Conns : LifeOf(d)' = LifeOf(d)
  PROVE  [d \in Conns |-> LifeOf(d)]' = [d \in Conns |-> LifeOf(d)]
  OBVIOUS

\* The connections ConnectionLife calls shut.
ShutSet == {c \in Conns : Alive(c) /\ state_[c] = "kDisconnecting"}

LEMMA ShutStays ==
  ASSUME \A d \in Conns : Shut(d)' <=> Shut(d)
  PROVE  ShutSet' = ShutSet
  BY DEF Shut, ShutSet

LEMMA ShutChanges ==
  ASSUME NEW c \in Conns, \A d \in Conns \ {c} : Shut(d)' <=> Shut(d)
  PROVE  /\ Shut(c)' => ShutSet' = ShutSet \cup {c}
         /\ ~Shut(c)' => ShutSet' = ShutSet \ {c}
<1>1. ShutSet = {d \in Conns : Shut(d)} /\ ShutSet' = {d \in Conns : Shut(d)'}
  BY DEF Shut, ShutSet
<1> QED
  BY <1>1

-----------------------------------------------------------------------------
(***************************************************************************)
(* Steps that nobody can tell from outside.                                *)
(***************************************************************************)

\* What is to be shown of a step: it keeps the invariant, and is one of
\* ConnectionLife or stutters.
Promises == OneLoopInv' /\ [Life!Next]_(Life!vars)

\* Steps that change neither states nor calls nor owners.
LEMMA QuietPromises ==
  ASSUME OneInv, UNCHANGED <<state_, calls, connections_>>,
         \A c \in Conns : Owner(c)' <=> Owner(c),
         \A c \in Conns :
           /\ pc'[Base] = "established" /\ conn'[Base] = c
                <=> pc[Base] = "established" /\ conn[Base] = c
           /\ pc'[Base] \in {"enable", "up"} /\ conn'[Base] = c
                <=> pc[Base] \in {"enable", "up"} /\ conn[Base] = c
           /\ pc'[Base] = "down" /\ conn'[Base] = c
                <=> pc[Base] = "down" /\ conn[Base] = c
           /\ pc'[Base] = "shutdown" /\ conn'[Base] = c => state_[c] = "kConnected"
           /\ conn'[Base] = c => c \in connections_
           /\ Closing(c)' <=> Closing(c)
  PROVE  Promises
<1>1. OneLoopInv'
  <2> SUFFICES ASSUME NEW c \in Conns PROVE CallsOfState(c)' /\ PlaceOfState(c)'
    BY DEF OneLoopInv
  <2>1. CallsOfState(c) /\ PlaceOfState(c)
    BY DEF OneInv, OneLoopInv
  <2>2. Announced(c)' <=> Announced(c)
    BY DEF Announced
  <2>3. CallsOfState(c)'
    BY <2>1, <2>2 DEF CallsOfState
  <2>4. PlaceOfState(c)'
    <3>1. pc'[Base] \in {"enable", "up"} /\ conn'[Base] = c
            => state_'[c] = "kConnected"
      BY <2>1 DEF PlaceOfState
    <3> QED
      BY <2>1, <3>1 DEF PlaceOfState
  <2> QED
    BY <2>3, <2>4
<1>2. \A c \in Conns : LifeOf(c)' = LifeOf(c) /\ (Shut(c)' <=> Shut(c))
  BY <1>1, LifeSame DEF OneInv, Owned
<1> QED
  BY <1>1, <1>2, NoLifeStep DEF Promises

\* Steps between the callbacks.
LEMMA IdlePromises ==
  ASSUME OneInv,
         \/ StartServer \/ EnterLoop(Base) \/ Quit \/ Peer \/ Poll \/ AcceptFails
         \/ LeaveLoop \/ DestroyPool \/ \E c \in Conns : ReadError(c)
  PROVE  Promises
<1> USE LoopsNat
<1>1. /\ UNCHANGED <<conn, ret, state_, calls, connections_, pending, batch>>
      /\ \/ pc' = pc
         \/ /\ pc[Base] \in {"init", "poll", "dtor"}
            /\ pc'[Base] \in {"poll", "dispatch", "dtor", "join"}
  <2>1. CASE StartServer
    BY <2>1 DEF StartServer, threadVars, history
  <2>2. CASE EnterLoop(Base)
    BY <2>2 DEF EnterLoop, Goto, serverVars, history, OneInv, IInv, Types,
         ThreadTypes
  <2>3. CASE Quit
    BY <2>3 DEF Quit, serverVars, history
  <2>4. CASE Peer
    BY <2>4 DEF Peer, threadVars, serverVars, history
  <2>5. CASE Poll
    BY <2>5 DEF Poll, Goto, serverVars, history, OneInv, IInv, Types, ThreadTypes
  <2>6. CASE AcceptFails
    BY <2>6 DEF AcceptFails, threadVars, serverVars, history
  <2>7. CASE LeaveLoop
    BY <2>7 DEF LeaveLoop, Goto, serverVars, history, OneInv, IInv, Types,
         ThreadTypes
  <2>8. CASE DestroyPool
    BY <2>8 DEF DestroyPool, Goto, serverVars, history, OneInv, IInv, Types, ThreadTypes
  <2>9. CASE \E c \in Conns : ReadError(c)
    BY <2>9 DEF ReadError, Handle, threadVars, serverVars, history
  <2> QED
    BY <2>1, <2>2, <2>3, <2>4, <2>5, <2>6, <2>7, <2>8, <2>9
<1>2. \A c \in Conns : Owner(c)' <=> Owner(c)
  BY <1>1, OwnerSame
<1>3. \A c \in Conns : CallsOfState(c) /\ PlaceOfState(c)
  BY DEF OneInv, OneLoopInv
<1>4. \A c \in Conns :
           /\ pc'[Base] = "established" /\ conn'[Base] = c
                <=> pc[Base] = "established" /\ conn[Base] = c
           /\ pc'[Base] \in {"enable", "up"} /\ conn'[Base] = c
                <=> pc[Base] \in {"enable", "up"} /\ conn[Base] = c
           /\ pc'[Base] = "down" /\ conn'[Base] = c
                <=> pc[Base] = "down" /\ conn[Base] = c
           /\ pc'[Base] = "shutdown" /\ conn'[Base] = c => state_[c] = "kConnected"
           /\ conn'[Base] = c => c \in connections_
           /\ Closing(c)' <=> Closing(c)
  BY <1>1, <1>3 DEF PlaceOfState, Closing, ClosePCs
<1> QED
  BY <1>1, <1>2, <1>4, QuietPromises

\* shutdown()'s test,
LEMMA ShutdownPromises ==
  ASSUME OneInv, Shutdown(Base) PROVE Promises
<1> USE LoopsNat
<1>1. /\ pc[Base] = "user" /\ pc'[Base] = "shutdown"
      /\ state_[conn[Base]] = "kConnected"
      /\ UNCHANGED <<conn, ret, state_, calls, connections_, pending, batch>>
  BY DEF Shutdown, Goto, serverVars, history, OneInv, IInv, Types, ThreadTypes
<1>2. \A c \in Conns : Owner(c)' <=> Owner(c)
  BY <1>1, OwnerSame
<1>3. \A c \in Conns : CallsOfState(c) /\ PlaceOfState(c)
  BY DEF OneInv, OneLoopInv
<1> QED
  BY <1>1, <1>2, <1>3, QuietPromises DEF PlaceOfState, Closing, ClosePCs

\* ... enableReading,
LEMMA EnableReadingPromises ==
  ASSUME OneInv, EnableReading(Base) PROVE Promises
<1> USE LoopsNat
<1>1. /\ pc[Base] = "enable" /\ pc'[Base] = "up"
      /\ UNCHANGED <<conn, ret, state_, calls, connections_, pending, batch>>
  BY DEF EnableReading, Goto, serverVars, history, OneInv, IInv, Types, ThreadTypes
<1>2. \A c \in Conns : Owner(c)' <=> Owner(c)
  BY <1>1, OwnerSame
<1>3. \A c \in Conns : CallsOfState(c) /\ PlaceOfState(c)
  BY DEF OneInv, OneLoopInv
<1> QED
  BY <1>1, <1>2, <1>3, QuietPromises DEF PlaceOfState, Closing, ClosePCs

\* ... and the return from the user's callback.
LEMMA ReturnPromises ==
  ASSUME OneInv, UserReturn(Base) \/ PostShutdown(Base) PROVE Promises
<1> USE LoopsNat
<1>1. /\ pc[Base] \in {"user", "post"} /\ ret[Base] \in {"dispatch", "remove"}
      /\ pc'[Base] = ret[Base] /\ ret'[Base] = "pending"
      /\ conn'[Base] = IF ret[Base] = "remove" THEN conn[Base] ELSE NoConn
      /\ UNCHANGED <<state_, calls, connections_, pending, batch>>
  BY DEF UserReturn, PostShutdown, Return, Goto, ReleaseUnlessClosing, serverVars,
       history,
     OneInv, IInv, HoldInv, Types, ThreadTypes
<1>2. \A c \in Conns : Owner(c)' <=> Owner(c)
  BY <1>1, OwnerSame
<1>3. \A c \in Conns : CallsOfState(c) /\ PlaceOfState(c)
  BY DEF OneInv, OneLoopInv
<1> QED
  BY <1>1, <1>2, <1>3, QuietPromises DEF PlaceOfState, Closing, ClosePCs

\* The swap of the queue and the batch.
LEMMA SwapPromises ==
  ASSUME OneInv, Swap(Base) PROVE Promises
<1> USE LoopsNat
<1>1. /\ pc[Base] = "dispatch" /\ pc'[Base] = "pending"
      /\ batch'[Base] = pending[Base] /\ pending'[Base] = <<>>
      /\ UNCHANGED <<conn, ret, state_, calls, connections_>>
  BY DEF Swap, Goto, serverVars, history, OneInv, IInv, Types, ThreadTypes,
       QueueTypes
<1>2. batch[Base] = <<>>
  BY <1>1 DEF OneInv, IInv, QueueInv
<1>3. \A c \in Conns : Owner(c)' <=> Owner(c)
  <2>1. DOMAIN batch[Base] = {} /\ DOMAIN pending'[Base] = {}
    BY <1>1, <1>2
  <2> QED
    BY <1>1, <1>2, <2>1 DEF Owner, InQueue, Owning
<1>4. \A c \in Conns : CallsOfState(c) /\ PlaceOfState(c)
  BY DEF OneInv, OneLoopInv
<1> QED
  BY <1>1, <1>3, <1>4, QuietPromises DEF PlaceOfState, Closing, ClosePCs

\* Functors: connectDestroyed finds a connection that handleClose has been
\* through.
LEMMA RunPromises ==
  ASSUME OneInv, NEW c \in Conns, RunShutdownInLoop(Base, c)
           \/ RunDestroyed(Base, c)
  PROVE  Promises
<1> USE LoopsNat
<1>1. /\ UNCHANGED <<pc, conn, ret, connections_, pending, batch>>
      /\ UNCHANGED <<state_, calls>>
  <2>1. CASE RunShutdownInLoop(Base, c)
    BY <2>1 DEF RunShutdownInLoop, serverVars, history
  <2>2. CASE RunDestroyed(Base, c)
    <3>1. /\ RunsNext(Base, "connectDestroyed", c) /\ ConnectDestroyed(c)
          /\ UNCHANGED <<pc, conn, ret, connections_, pending, batch>>
      BY <2>2 DEF RunDestroyed, serverVars
    <3>2. Waits(Base, Functor("connectDestroyed", c))
      BY <3>1, RunEffect DEF OneInv
    <3>3. state_[c] # "kConnected"
      BY <3>2 DEF OneInv, IInv, CallsInv, ToBeDestroyed
    <3> QED
      BY <3>1, <3>3 DEF ConnectDestroyed
  <2> QED
    BY <2>1, <2>2
<1>2. \A d \in Conns : Owner(d)' <=> Owner(d)
  BY <1>1, OwnerSame
<1>3. \A d \in Conns : CallsOfState(d) /\ PlaceOfState(d)
  BY DEF OneInv, OneLoopInv
<1> QED
  BY <1>1, <1>2, <1>3, QuietPromises DEF PlaceOfState, Closing, ClosePCs

\* The end of the base loop: its queue owns nothing.
LEMMA DestroyBaseLoopPromises ==
  ASSUME OneInv, DestroyBaseLoop PROVE Promises
<1> USE LoopsNat
<1>1. /\ pc[Base] = "join" /\ pc'[Base] = "stopped" /\ pending'[Base] = <<>>
      /\ UNCHANGED <<conn, ret, batch, state_, calls, connections_>>
  BY DEF DestroyBaseLoop, Goto, serverVars, history, OneInv, IInv, Types,
       ThreadTypes, QueueTypes
<1>2. \A c \in Conns : Owner(c)' <=> Owner(c)
  <2>1. /\ pending[Base] \in Seq(Functors)
        /\ \A i \in 1 .. Len(pending[Base]) :
             /\ pending[Base][i].run \in {"shutdownInLoop", "connectDestroyed"}
             /\ pending[Base][i].run # "connectDestroyed"
    BY <1>1 DEF OneInv, IInv, QueueInv, Fits, Types, QueueTypes, DispatchPCs,
         CallPCs, ClosePCs
  <2>2. \A c \in Conns : ~InQueue(c, pending[Base])
    BY <2>1 DEF InQueue, Owning
  <2>3. \A c \in Conns : ~InQueue(c, pending'[Base])
    BY <1>1 DEF InQueue
  <2> QED
    BY <1>1, <2>2, <2>3 DEF Owner, InQueue, Owning
<1>3. \A c \in Conns : CallsOfState(c) /\ PlaceOfState(c)
  BY DEF OneInv, OneLoopInv
<1> QED
  BY <1>1, <1>2, <1>3, QuietPromises DEF PlaceOfState, Closing, ClosePCs

\* A connection that no step is about keeps its part of the invariant.
LEMMA OthersKept ==
  ASSUME OneInv, NEW d \in Conns, conn[Base] # d, conn'[Base] # d,
         state_'[d] = state_[d], calls'[d] = calls[d],
         d \in connections_' <=> d \in connections_, Owner(d)' <=> Owner(d)
  PROVE  CallsOfState(d)' /\ PlaceOfState(d)'
<1>1. CallsOfState(d) /\ PlaceOfState(d)
  BY DEF OneInv, OneLoopInv
<1>2. Announced(d)' <=> Announced(d)
  BY DEF Announced
<1>3. CallsOfState(d)'
  BY <1>1, <1>2 DEF CallsOfState
<1>4. PlaceOfState(d)'
  BY <1>1 DEF PlaceOfState, Closing
<1> QED
  BY <1>3, <1>4

\* setState(kConnected) is not to be told from outside.
LEMMA SetConnectedPromises ==
  ASSUME OneInv, SetConnected(Base) PROVE Promises
<1> USE LoopsNat
<1>1. /\ pc[Base] = "established" /\ pc'[Base] = "enable"
      /\ conn[Base] \in Conns
      /\ state_' = [state_ EXCEPT ![conn[Base]] = "kConnected"]
      /\ UNCHANGED <<conn, ret, calls, connections_, pending, batch>>
  BY DEF SetConnected, Goto, serverVars, history, OneInv, IInv, HoldInv, Types,
       ThreadTypes, CallPCs
<1> PICK c \in Conns : c = conn[Base]
  BY <1>1
<1>2. CallsOfState(c) /\ PlaceOfState(c)
  BY DEF OneInv, OneLoopInv
<1>3. state_[c] = "kConnecting" /\ calls[c] = <<>> /\ c \in connections_
  BY <1>1, <1>2 DEF PlaceOfState, CallsOfState
<1>4. state_'[c] = "kConnected" /\ \A d \in Conns \ {c} : state_'[d] = state_[d]
  BY <1>1 DEF OneInv, IInv, Types, HistoryTypes
<1>5. \A d \in Conns : Owner(d)' <=> Owner(d)
  BY <1>1, OwnerSame
<1>6. OneLoopInv'
  <2>1. ASSUME NEW d \in Conns, d # c PROVE CallsOfState(d)' /\ PlaceOfState(d)'
    BY <1>1, <1>4, <1>5, <2>1, OthersKept
  <2>2. ~Announced(c)'
    BY <1>1, <1>3 DEF Announced
  <2>3. CallsOfState(c)'
    BY <1>1, <1>3, <1>4, <2>2 DEF CallsOfState
  <2>4. PlaceOfState(c)'
    BY <1>1, <1>2, <1>3, <1>4, <1>5 DEF PlaceOfState, Closing, ClosePCs
  <2> QED
    BY <2>1, <2>3, <2>4 DEF OneLoopInv
<1>7. Owned(c) /\ Owned(c)'
  BY <1>1, <1>3 DEF Owned
<1>8. LifeOf(c) = "new" /\ ~Shut(c)
  BY <1>3, <1>7, LifeValues DEF OneInv
<1>9. LifeOf(c)' = "new" /\ ~Shut(c)'
  BY <1>1, <1>3, <1>4, <1>6, <1>7, LifeValuesNext DEF OneInv
<1>10. \A d \in Conns \ {c} : LifeOf(d)' = LifeOf(d) /\ (Shut(d)' <=> Shut(d))
  BY <1>1, <1>4, <1>5, <1>6, LifeSame DEF OneInv, Owned
<1> QED
  BY <1>1, <1>6, <1>8, <1>9, <1>10, NoLifeStep DEF Promises

\* removeConnection is not to be told from outside: the functor takes over from
\* the map.
LEMMA RemoveConnectionPromises ==
  ASSUME OneInv, RemoveConnection(Base) PROVE Promises
<1> USE LoopsNat
<1>1. /\ pc[Base] = "remove" /\ pc'[Base] = "dispatch"
      /\ conn[Base] \in Conns /\ conn'[Base] = NoConn
      /\ connections_' = connections_ \ {conn[Base]}
      /\ pending'[Base] = Append(pending[Base],
                                 Functor("connectDestroyed", conn[Base]))
      /\ UNCHANGED <<ret, state_, calls, batch>>
  BY DEF RemoveConnection, Goto, Release, history, OneInv, IInv, HoldInv, Types,
       ThreadTypes,
     QueueTypes, ClosePCs
<1> PICK c \in Conns : c = conn[Base]
  BY <1>1
<1>2. CallsOfState(c) /\ PlaceOfState(c)
  BY DEF OneInv, OneLoopInv
<1>3. state_[c] = "kDisconnected" /\ c \in connections_ /\ calls[c] # <<>>
        /\ Announced(c)
  BY <1>1, <1>2 DEF PlaceOfState, CallsOfState, Closing, ClosePCs
<1>4. \A d \in Conns : Owner(d)' <=> Owner(d) \/ d = c
  <2> DEFINE f == Functor("connectDestroyed", c)
  <2>1. f \in Functors /\ Owning(f) /\ f.c = c /\ pending[Base] \in Seq(Functors)
    BY DEF Functor, Functors, Owning, OneInv, IInv, Types, QueueTypes
  <2>2. pending'[Base] = Append(pending[Base], f)
    BY <1>1
  <2> HIDE DEF f
  <2>3. \A i \in 1 .. Len(pending'[Base]) :
          \/ i \in 1 .. Len(pending[Base]) /\ pending'[Base][i] = pending[Base][i]
          \/ i = Len(pending[Base]) + 1 /\ pending'[Base][i] = f
    BY <2>1, <2>2, AppendElement
  <2>4. /\ \A i \in 1 .. Len(pending[Base]) : pending'[Base][i] = pending[Base][i]
        /\ pending'[Base][Len(pending[Base]) + 1] = f
        /\ DOMAIN pending'[Base] = 1 .. Len(pending[Base]) + 1
        /\ DOMAIN pending[Base] = 1 .. Len(pending[Base])
        /\ Len(pending[Base]) \in Nat
    BY <2>1, <2>2
  <2> SUFFICES ASSUME NEW d \in Conns
               PROVE  InQueue(d, pending'[Base])
                        <=> InQueue(d, pending[Base]) \/ d = c
    BY <1>1 DEF Owner, InQueue, Owning
  <2>5. ASSUME InQueue(d, pending'[Base]) PROVE InQueue(d, pending[Base]) \/ d = c
    BY <2>1, <2>3, <2>4, <2>5 DEF InQueue
  <2>6. ASSUME InQueue(d, pending[Base]) PROVE InQueue(d, pending'[Base])
    BY <2>4, <2>6 DEF InQueue
  <2>7. InQueue(c, pending'[Base])
    BY <2>1, <2>4 DEF InQueue
  <2> QED
    BY <2>5, <2>6, <2>7
<1>5. OneLoopInv'
  <2>1. ASSUME NEW d \in Conns, d # c PROVE CallsOfState(d)' /\ PlaceOfState(d)'
    BY <1>1, <1>4, <2>1, OthersKept
  <2>2. CallsOfState(c)'
    BY <1>1, <1>3 DEF CallsOfState, Announced
  <2>3. PlaceOfState(c)'
    BY <1>1, <1>2, <1>3, <1>4 DEF PlaceOfState, Closing, ClosePCs
  <2> QED
    BY <2>1, <2>2, <2>3 DEF OneLoopInv
<1>6. \A d \in Conns : Owned(d)' <=> Owned(d)
  BY <1>1, <1>3, <1>4 DEF Owned
<1>7. \A d \in Conns : LifeOf(d)' = LifeOf(d) /\ (Shut(d)' <=> Shut(d))
  BY <1>1, <1>5, <1>6, LifeSame DEF OneInv
<1> QED
  BY <1>1, <1>5, <1>7, NoLifeStep DEF Promises

\* A step of nobody.
LEMMA StutterPromises ==
  ASSUME OneInv, UNCHANGED vars PROVE Promises
<1>1. /\ UNCHANGED <<pc, conn, ret, state_, calls, connections_, pending, batch>>
  BY DEF vars, threadVars, serverVars, history
<1>2. \A c \in Conns : Owner(c)' <=> Owner(c)
  BY <1>1, OwnerSame
<1>3. \A c \in Conns : CallsOfState(c) /\ PlaceOfState(c)
  BY DEF OneInv, OneLoopInv
<1> QED
  BY <1>1, <1>2, <1>3, QuietPromises DEF PlaceOfState, Closing, ClosePCs

-----------------------------------------------------------------------------
(***************************************************************************)
(* Steps of ConnectionLife.                                                *)
(***************************************************************************)

\* newConnection is Accept.
LEMMA NewConnectionPromises ==
  ASSUME OneInv, NEW c \in Conns, NewConnection(c) PROVE Promises
<1> USE LoopsNat
<1>1. /\ pc[Base] = "dispatch" /\ pc'[Base] = "established"
      /\ conn'[Base] = c /\ ret'[Base] = "dispatch" /\ c = nextConnId_
      /\ state_' = [state_ EXCEPT ![c] = "kConnecting"]
      /\ connections_' = connections_ \cup {c}
      /\ UNCHANGED <<calls, pending, batch>>
  <2>1. NextLoop = Base
    BY DEF NextLoop, OneInv
  <2> QED
    BY <2>1 DEF NewConnection, Goto, Hold, history, OneInv, IInv, Types, ThreadTypes
<1>2. conn[Base] = NoConn
  BY <1>1 DEF OneInv, IInv, HoldInv, CallPCs, ClosePCs
<1>3. state_[c] = "none" /\ nextConnId_ \in Nat
  BY <1>1 DEF OneInv, IInv, LifeInv, Types, ServerTypes
<1>4. CallsOfState(c) /\ PlaceOfState(c)
  BY DEF OneInv, OneLoopInv
<1>5. calls[c] = <<>> /\ ~Owner(c)
  BY <1>3, <1>4 DEF CallsOfState, PlaceOfState
<1>6. state_'[c] = "kConnecting" /\ \A d \in Conns \ {c} : state_'[d] = state_[d]
  BY <1>1 DEF OneInv, IInv, Types, HistoryTypes
<1>7. \A d \in Conns : Owner(d)' <=> Owner(d)
  BY <1>1, OwnerSame
<1>8. OneLoopInv'
  <2>1. ASSUME NEW d \in Conns, d # c PROVE CallsOfState(d)' /\ PlaceOfState(d)'
    BY <1>1, <1>2, <1>6, <1>7, <2>1, OthersKept
  <2>2. CallsOfState(c)'
    BY <1>1, <1>5, <1>6 DEF CallsOfState
  <2>3. PlaceOfState(c)'
    BY <1>1, <1>5, <1>6, <1>7 DEF PlaceOfState, Closing, ClosePCs
  <2> QED
    BY <2>1, <2>2, <2>3 DEF OneLoopInv
<1>9. LifeOf(c) = "none" /\ ~Shut(c)
  <2>1. c \notin connections_
    BY <1>1, <1>3 DEF OneInv, IInv, LifeInv
  <2>2. ~Alive(c)
    BY <1>5, <2>1, AliveIsOwned DEF OneInv, Owned
  <2> QED
    BY <1>3, <2>2 DEF LifeOf, Shut
<1>10. Owned(c)'
  BY <1>1 DEF Owned
<1>11. LifeOf(c)' = "new" /\ ~Shut(c)'
  BY <1>6, <1>8, <1>10, LifeValuesNext DEF OneInv
<1>12. \A d \in Conns \ {c} : LifeOf(d)' = LifeOf(d) /\ (Shut(d)' <=> Shut(d))
  BY <1>1, <1>6, <1>7, <1>8, LifeSame DEF OneInv, Owned
<1>13. Life!Accept(c)
  <2>1. Life!Becomes(c, "new")
    BY <1>11, <1>12, Becoming
  <2>2. ShutSet' = ShutSet
    BY <1>9, <1>11, <1>12, ShutStays
  <2> QED
    BY <1>1, <1>9, <2>1, <2>2 DEF Life!Accept, ShutSet
<1> QED
  BY <1>8, <1>13 DEF Promises, Life!Next

\* The first callback is Establish.
LEMMA UpCallbackPromises ==
  ASSUME OneInv, UpCallback(Base) PROVE Promises
<1> USE LoopsNat
<1>1. /\ pc[Base] = "up" /\ pc'[Base] = "user" /\ ret[Base] = "dispatch"
      /\ conn[Base] \in Conns /\ Call("established", conn[Base])
      /\ UNCHANGED <<conn, ret, state_, connections_, pending, batch>>
  BY DEF UpCallback, Goto, serverVars, OneInv, IInv, HoldInv, Types, ThreadTypes,
       CallPCs
<1> PICK c \in Conns : c = conn[Base]
  BY <1>1
<1>2. CallsOfState(c) /\ PlaceOfState(c)
  BY DEF OneInv, OneLoopInv
<1>3. state_[c] = "kConnected" /\ calls[c] = <<>> /\ c \in connections_
  BY <1>1, <1>2 DEF PlaceOfState, CallsOfState
<1> DEFINE e == [by |-> "established", connected |-> TRUE]
<1>4. e \in Calls /\ calls' = [calls EXCEPT ![c] = Append(@, e)]
  BY <1>1, <1>3 DEF Call, Calls
<1>5. /\ calls'[c] # <<>> /\ calls'[c][Len(calls'[c])] = e
      /\ \A d \in Conns \ {c} : calls'[d] = calls[d]
  BY <1>4, LastAppended DEF OneInv, IInv, Types, HistoryTypes
<1>6. \A d \in Conns : Owner(d)' <=> Owner(d)
  BY <1>1, OwnerSame
<1>7. OneLoopInv'
  <2>1. ASSUME NEW d \in Conns, d # c PROVE CallsOfState(d)' /\ PlaceOfState(d)'
    BY <1>1, <1>5, <1>6, <2>1, OthersKept
  <2>2. ~Announced(c)'
    BY <1>5 DEF Announced
  <2>3. CallsOfState(c)'
    BY <1>1, <1>3, <1>5, <2>2 DEF CallsOfState
  <2>4. PlaceOfState(c)'
    BY <1>1, <1>2, <1>3, <1>6 DEF PlaceOfState, Closing, ClosePCs
  <2> QED
    BY <2>1, <2>3, <2>4 DEF OneLoopInv
<1>8. Owned(c) /\ Owned(c)'
  BY <1>1, <1>3 DEF Owned
<1>9. LifeOf(c) = "new" /\ ~Shut(c)
  BY <1>3, <1>8, LifeValues DEF OneInv
<1>10. LifeOf(c)' = "up" /\ ~Shut(c)'
  BY <1>1, <1>3, <1>5, <1>7, <1>8, LifeValuesNext DEF OneInv
<1>11. \A d \in Conns \ {c} : LifeOf(d)' = LifeOf(d) /\ (Shut(d)' <=> Shut(d))
  BY <1>1, <1>5, <1>6, <1>7, LifeSame DEF OneInv, Owned
<1>12. Life!Establish(c)
  <2>1. Life!Becomes(c, "up")
    BY <1>10, <1>11, Becoming
  <2>2. ShutSet' = ShutSet
    BY <1>9, <1>10, <1>11, ShutStays
  <2> QED
    BY <1>4, <1>9, <2>1, <2>2 DEF Life!Establish, Life!Call, ShutSet
<1> QED
  BY <1>7, <1>12 DEF Promises, Life!Next

\* A connection of the map is up while no handler is on the stack.
LEMMA UpConnection ==
  ASSUME OneInv, NEW c \in connections_, conn[Base] = NoConn
  PROVE  /\ c \in Conns /\ state_[c] \in {"kConnected", "kDisconnecting"}
         /\ calls[c] # <<>> /\ ~Announced(c) /\ ~Owner(c)
         /\ LifeOf(c) = "up" /\ (Shut(c) <=> state_[c] = "kDisconnecting")
<1> USE LoopsNat
<1>1. c \in Conns /\ c < nextConnId_ /\ nextConnId_ \in Nat
  BY DEF OneInv, IInv, Types, ServerTypes, LifeInv
<1>2. state_[c] # "none"
  BY <1>1 DEF OneInv, IInv, LifeInv
<1>3. CallsOfState(c) /\ PlaceOfState(c) /\ state_[c] \in States
  BY <1>1 DEF OneInv, OneLoopInv, IInv, Types, HistoryTypes
<1>4. conn[Base] # c
  BY <1>1
<1>5. state_[c] \in {"kConnected", "kDisconnecting"} /\ ~Owner(c)
  BY <1>2, <1>3, <1>4 DEF PlaceOfState, Closing, States
<1>6. calls[c] # <<>> /\ ~Announced(c)
  BY <1>3, <1>4, <1>5 DEF CallsOfState
<1>7. Owned(c)
  BY DEF Owned
<1> QED
  BY <1>1, <1>2, <1>5, <1>6, <1>7, LifeValues DEF OneInv

\* shutdown() is Shutdown.
LEMMA SetDisconnectingPromises ==
  ASSUME OneInv, SetDisconnecting(Base) PROVE Promises
<1> USE LoopsNat
<1>1. /\ pc[Base] = "shutdown" /\ pc'[Base] = "post"
      /\ conn[Base] \in Conns
      /\ state_' = [state_ EXCEPT ![conn[Base]] = "kDisconnecting"]
      /\ UNCHANGED <<conn, ret, calls, connections_, pending, batch>>
  BY DEF SetDisconnecting, Goto, serverVars, history, OneInv, IInv, HoldInv, Types,
       ThreadTypes,
     CallPCs
<1> PICK c \in Conns : c = conn[Base]
  BY <1>1
<1>2. CallsOfState(c) /\ PlaceOfState(c)
  BY DEF OneInv, OneLoopInv
<1>3. state_[c] = "kConnected" /\ calls[c] # <<>> /\ c \in connections_
        /\ ~Announced(c)
  BY <1>1, <1>2 DEF PlaceOfState, CallsOfState
<1>4. state_'[c] = "kDisconnecting" /\ \A d \in Conns \ {c} : state_'[d] = state_[d]
  BY <1>1 DEF OneInv, IInv, Types, HistoryTypes
<1>5. \A d \in Conns : Owner(d)' <=> Owner(d)
  BY <1>1, OwnerSame
<1>6. OneLoopInv'
  <2>1. ASSUME NEW d \in Conns, d # c PROVE CallsOfState(d)' /\ PlaceOfState(d)'
    BY <1>1, <1>4, <1>5, <2>1, OthersKept
  <2>2. ~Announced(c)'
    BY <1>1, <1>3 DEF Announced
  <2>3. CallsOfState(c)'
    BY <1>1, <1>3, <1>4, <2>2 DEF CallsOfState
  <2>4. ret[Base] # "remove"
    BY <1>1, <1>2, <1>3 DEF PlaceOfState, Closing
  <2>5. PlaceOfState(c)'
    BY <1>1, <1>2, <1>3, <1>4, <1>5, <2>4 DEF PlaceOfState, Closing, ClosePCs
  <2> QED
    BY <2>1, <2>3, <2>5 DEF OneLoopInv
<1>7. Owned(c) /\ Owned(c)'
  BY <1>1, <1>3 DEF Owned
<1>8. LifeOf(c) = "up"
  BY <1>3, <1>7, LifeValues DEF OneInv
<1>9. LifeOf(c)' = "up" /\ Shut(c)'
  BY <1>1, <1>3, <1>4, <1>6, <1>7, LifeValuesNext DEF OneInv
<1>10. \A d \in Conns \ {c} : LifeOf(d)' = LifeOf(d) /\ (Shut(d)' <=> Shut(d))
  BY <1>1, <1>4, <1>5, <1>6, LifeSame DEF OneInv, Owned
<1>11. Life!Shutdown(c)
  <2>1. ShutSet' = ShutSet \cup {c}
    BY <1>9, <1>10, ShutChanges
  <2>2. [d \in Conns |-> LifeOf(d)]' = [d \in Conns |-> LifeOf(d)]
    BY <1>8, <1>9, <1>10, LifeStays
  <2> QED
    BY <1>1, <1>8, <2>1, <2>2 DEF Life!Shutdown, ShutSet
<1> QED
  BY <1>6, <1>11 DEF Promises, Life!Next

\* Events are handled for connections of the map.
LEMMA HandledIsUp ==
  ASSUME OneInv, NEW c \in Conns, pc[Base] = "dispatch", c \in active
  PROVE  c \in connections_ /\ conn[Base] = NoConn
<1> USE LoopsNat
<1>1. conn[Base] = NoConn
  BY DEF OneInv, IInv, HoldInv, CallPCs, ClosePCs
<1>2. PollerInv
  BY DEF OneInv, IInv, LoopRuns
<1>3. c \in active \ {Acceptor}
  OBVIOUS
<1> QED
  BY <1>1, <1>2, <1>3 DEF PollerInv

\* messageCallback_ is Message.
LEMMA MessagePromises ==
  ASSUME OneInv, NEW c \in Conns, Message(c) PROVE Promises
<1> USE LoopsNat
<1>1. /\ pc[Base] = "dispatch" /\ pc'[Base] = "user" /\ c \in active
      /\ conn'[Base] = c /\ ret'[Base] = "dispatch"
      /\ Call("message", c)
      /\ UNCHANGED <<state_, connections_, pending, batch>>
  BY DEF Message, Handle, Goto, Hold, serverVars, OneInv, IInv, Types, ThreadTypes
<1>2. c \in connections_ /\ conn[Base] = NoConn
  BY <1>1, HandledIsUp
<1>3. /\ state_[c] \in {"kConnected", "kDisconnecting"}
      /\ calls[c] # <<>> /\ ~Announced(c) /\ ~Owner(c)
      /\ LifeOf(c) = "up" /\ (Shut(c) <=> state_[c] = "kDisconnecting")
  BY <1>2, UpConnection
<1> DEFINE e == [by |-> "message", connected |-> ~Shut(c)]
<1>4. e \in Calls /\ calls' = [calls EXCEPT ![c] = Append(@, e)]
  <2>1. Shut(c) \in BOOLEAN /\ (state_[c] = "kConnected") = ~Shut(c)
    BY <1>3 DEF Shut
  <2> QED
    BY <1>1, <2>1 DEF Call, Calls
<1>5. /\ calls'[c] # <<>> /\ calls'[c][Len(calls'[c])] = e
      /\ \A d \in Conns \ {c} : calls'[d] = calls[d]
  BY <1>4, LastAppended DEF OneInv, IInv, Types, HistoryTypes
<1>6. \A d \in Conns : Owner(d)' <=> Owner(d)
  BY <1>1, OwnerSame
<1>7. ~Announced(c)'
  BY <1>5 DEF Announced
<1>8. OneLoopInv'
  <2>1. ASSUME NEW d \in Conns, d # c PROVE CallsOfState(d)' /\ PlaceOfState(d)'
    BY <1>1, <1>2, <1>5, <1>6, <2>1, OthersKept
  <2>2. CallsOfState(c)'
    BY <1>1, <1>3, <1>5, <1>7 DEF CallsOfState
  <2>3. PlaceOfState(c)'
    BY <1>1, <1>2, <1>3, <1>6 DEF PlaceOfState, Closing, ClosePCs
  <2> QED
    BY <2>1, <2>2, <2>3 DEF OneLoopInv
<1>9. Owned(c)'
  BY <1>1, <1>2 DEF Owned
<1>10. LifeOf(c)' = "up" /\ (Shut(c)' <=> Shut(c))
  BY <1>1, <1>3, <1>5, <1>8, <1>9, LifeValuesNext DEF OneInv
<1>11. \A d \in Conns \ {c} : LifeOf(d)' = LifeOf(d) /\ (Shut(d)' <=> Shut(d))
  BY <1>1, <1>2, <1>5, <1>6, <1>8, LifeSame DEF OneInv, Owned
<1>12. Life!Message(c)
  <2>1. [d \in Conns |-> LifeOf(d)]' = [d \in Conns |-> LifeOf(d)]
    BY <1>3, <1>10, <1>11, LifeStays
  <2>2. ShutSet' = ShutSet
    BY <1>10, <1>11, ShutStays
  <2>3. ~Shut(c) <=> c \notin ShutSet
    BY DEF Shut, ShutSet
  <2>4. calls' =
          [calls EXCEPT ![c] = Append(@,
                                      [by |-> "message",
                                       connected |-> c \notin ShutSet])]
    BY <1>4, <2>3 DEF ShutSet
  <2> QED
    BY <1>3, <2>1, <2>2, <2>4 DEF Life!Message, Life!Call, ShutSet
<1> QED
  BY <1>8, <1>12 DEF Promises, Life!Next

\* handleClose up to its callback is End.
LEMMA HandleClosePromises ==
  ASSUME OneInv, NEW c \in Conns, HandleClose(c) PROVE Promises
<1> USE LoopsNat
<1>1. /\ pc[Base] = "dispatch" /\ pc'[Base] = "down" /\ c \in active
      /\ conn'[Base] = c
      /\ state_' = [state_ EXCEPT ![c] = "kDisconnected"]
      /\ UNCHANGED <<calls, connections_, pending, batch>>
  BY DEF HandleClose, Handle, Goto, Hold, serverVars, history, OneInv, IInv, Types,
       ThreadTypes
<1>2. c \in connections_ /\ conn[Base] = NoConn
  BY <1>1, HandledIsUp
<1>3. /\ state_[c] \in {"kConnected", "kDisconnecting"}
      /\ calls[c] # <<>> /\ ~Announced(c) /\ ~Owner(c)
      /\ LifeOf(c) = "up"
  BY <1>2, UpConnection
<1>4. state_'[c] = "kDisconnected" /\ \A d \in Conns \ {c} : state_'[d] = state_[d]
  BY <1>1 DEF OneInv, IInv, Types, HistoryTypes
<1>5. \A d \in Conns : Owner(d)' <=> Owner(d)
  BY <1>1, OwnerSame
<1>6. ~Announced(c)'
  BY <1>1, <1>3 DEF Announced
<1>7. OneLoopInv'
  <2>1. ASSUME NEW d \in Conns, d # c PROVE CallsOfState(d)' /\ PlaceOfState(d)'
    BY <1>1, <1>2, <1>4, <1>5, <2>1, OthersKept
  <2>2. CallsOfState(c)'
    BY <1>1, <1>3, <1>4, <1>6 DEF CallsOfState
  <2>3. PlaceOfState(c)'
    BY <1>1, <1>2, <1>3, <1>4, <1>5 DEF PlaceOfState, Closing, ClosePCs
  <2> QED
    BY <2>1, <2>2, <2>3 DEF OneLoopInv
<1>8. Owned(c)'
  BY <1>1, <1>2 DEF Owned
<1>9. LifeOf(c)' = "ending" /\ ~Shut(c)'
  BY <1>1, <1>4, <1>6, <1>7, <1>8, LifeValuesNext DEF OneInv
<1>10. \A d \in Conns \ {c} : LifeOf(d)' = LifeOf(d) /\ (Shut(d)' <=> Shut(d))
  BY <1>1, <1>2, <1>4, <1>5, <1>7, LifeSame DEF OneInv, Owned
<1>11. Life!End(c)
  <2>1. Life!Becomes(c, "ending")
    BY <1>9, <1>10, Becoming
  <2>2. ShutSet' = ShutSet \ {c}
    BY <1>9, <1>10, ShutChanges
  <2> QED
    BY <1>1, <1>3, <2>1, <2>2 DEF Life!End, ShutSet
<1> QED
  BY <1>7, <1>11 DEF Promises, Life!Next

\* handleClose's callback is Close.
LEMMA DownCallbackPromises ==
  ASSUME OneInv, DownCallback(Base) PROVE Promises
<1> USE LoopsNat
<1>1. /\ pc[Base] = "down" /\ pc'[Base] = "user" /\ ret'[Base] = "remove"
      /\ conn[Base] \in Conns /\ Call("closed", conn[Base])
      /\ UNCHANGED <<conn, state_, connections_, pending, batch>>
  BY DEF DownCallback, Goto, serverVars, OneInv, IInv, HoldInv, Types, ThreadTypes,
       ClosePCs
<1> PICK c \in Conns : c = conn[Base]
  BY <1>1
<1>2. CallsOfState(c) /\ PlaceOfState(c)
  BY DEF OneInv, OneLoopInv
<1>3. state_[c] = "kDisconnected" /\ c \in connections_ /\ ~Announced(c)
  BY <1>1, <1>2 DEF PlaceOfState, CallsOfState, Closing, ClosePCs
<1> DEFINE e == [by |-> "closed", connected |-> FALSE]
<1>4. e \in Calls /\ calls' = [calls EXCEPT ![c] = Append(@, e)]
  BY <1>1, <1>3 DEF Call, Calls
<1>5. /\ calls'[c] # <<>> /\ calls'[c][Len(calls'[c])] = e
      /\ \A d \in Conns \ {c} : calls'[d] = calls[d]
  BY <1>4, LastAppended DEF OneInv, IInv, Types, HistoryTypes
<1>6. \A d \in Conns : Owner(d)' <=> Owner(d)
  BY <1>1, OwnerSame
<1>7. Announced(c)'
  BY <1>5 DEF Announced
<1>8. OneLoopInv'
  <2>1. ASSUME NEW d \in Conns, d # c PROVE CallsOfState(d)' /\ PlaceOfState(d)'
    BY <1>1, <1>5, <1>6, <2>1, OthersKept
  <2>2. CallsOfState(c)'
    BY <1>1, <1>3, <1>5, <1>7 DEF CallsOfState
  <2>3. PlaceOfState(c)'
    BY <1>1, <1>2, <1>3, <1>6 DEF PlaceOfState, Closing, ClosePCs
  <2> QED
    BY <2>1, <2>2, <2>3 DEF OneLoopInv
<1>9. Owned(c) /\ Owned(c)'
  BY <1>1, <1>3 DEF Owned
<1>10. LifeOf(c) = "ending" /\ ~Shut(c)
  BY <1>3, <1>9, LifeValues DEF OneInv
<1>11. LifeOf(c)' = "down" /\ ~Shut(c)'
  BY <1>1, <1>3, <1>7, <1>8, <1>9, LifeValuesNext DEF OneInv
<1>12. \A d \in Conns \ {c} : LifeOf(d)' = LifeOf(d) /\ (Shut(d)' <=> Shut(d))
  BY <1>1, <1>5, <1>6, <1>8, LifeSame DEF OneInv, Owned
<1>13. Life!Close(c)
  <2>1. Life!Becomes(c, "down")
    BY <1>11, <1>12, Becoming
  <2>2. ShutSet' = ShutSet
    BY <1>10, <1>11, <1>12, ShutStays
  <2> QED
    BY <1>4, <1>10, <2>1, <2>2 DEF Life!Close, Life!Call, ShutSet
<1> QED
  BY <1>8, <1>13 DEF Promises, Life!Next

\* A turn of ~TcpServer's loop is Destroy.
LEMMA DestroyConnectionPromises ==
  ASSUME OneInv, NEW c \in Conns, DestroyConnection(c) PROVE Promises
<1> USE LoopsNat
<1>1. /\ pc[Base] = "dtor" /\ c \in connections_
      /\ connections_' = connections_ \ {c}
      /\ ConnectDestroyed(c)
      /\ UNCHANGED <<pc, conn, ret, pending, batch>>
  BY DEF DestroyConnection, threadVars
<1>2. conn[Base] = NoConn
  BY <1>1 DEF OneInv, IInv, HoldInv, CallPCs, ClosePCs
<1>3. /\ state_[c] \in {"kConnected", "kDisconnecting"}
      /\ calls[c] # <<>> /\ ~Announced(c) /\ ~Owner(c)
      /\ LifeOf(c) = "up" /\ (Shut(c) <=> state_[c] = "kDisconnecting")
  BY <1>1, <1>2, UpConnection
<1> DEFINE e == [by |-> "closed", connected |-> FALSE]
<1>4. /\ state_[c] = "kConnected" =>
           /\ state_' = [state_ EXCEPT ![c] = "kDisconnected"]
           /\ calls' = [calls EXCEPT ![c] = Append(@, e)]
      /\ state_[c] # "kConnected" => UNCHANGED <<state_, calls>>
  BY <1>1 DEF ConnectDestroyed
<1>5. /\ state_'[c] = IF state_[c] = "kConnected" THEN "kDisconnected"
           ELSE "kDisconnecting"
      /\ \A d \in Conns \ {c} : state_'[d] = state_[d]
  BY <1>3, <1>4 DEF OneInv, IInv, Types, HistoryTypes
<1>6. /\ calls'[c] # <<>>
      /\ state_[c] = "kConnected" => calls'[c][Len(calls'[c])] = e
      /\ state_[c] # "kConnected" => calls'[c] = calls[c]
      /\ \A d \in Conns \ {c} : calls'[d] = calls[d]
  <2>1. e \in Calls
    BY DEF Calls
  <2> QED
    BY <1>3, <1>4, <2>1, LastAppended DEF OneInv, IInv, Types, HistoryTypes
<1>7. \A d \in Conns : Owner(d)' <=> Owner(d)
  BY <1>1, OwnerSame
<1>8. Announced(c)' <=> state_[c] = "kConnected"
  BY <1>3, <1>6 DEF Announced
<1>9. OneLoopInv'
  <2>1. ASSUME NEW d \in Conns, d # c PROVE CallsOfState(d)' /\ PlaceOfState(d)'
    BY <1>1, <1>2, <1>5, <1>6, <1>7, <2>1, OthersKept
  <2>2. CallsOfState(c)'
    BY <1>1, <1>5, <1>6, <1>8 DEF CallsOfState
  <2>3. PlaceOfState(c)'
    BY <1>1, <1>2, <1>3, <1>5, <1>7 DEF PlaceOfState, Closing, ClosePCs
  <2> QED
    BY <2>1, <2>2, <2>3 DEF OneLoopInv
<1>10. LifeOf(c)' = "gone" /\ ~Shut(c)'
  <2>1. ~Alive(c)'
    <3>1. Loops = {Base}
      BY OneLoop DEF OneInv
    <3>2. c \notin connections_' /\ conn'[Base] # c /\ ~Owner(c)'
      BY <1>1, <1>2, <1>3, <1>7
    <3> QED
      BY <3>1, <3>2 DEF Alive, Owner
  <2>2. state_'[c] # "none"
    BY <1>5
  <2> QED
    BY <2>1, <2>2 DEF LifeOf, Shut
<1>11. \A d \in Conns \ {c} : LifeOf(d)' = LifeOf(d) /\ (Shut(d)' <=> Shut(d))
  BY <1>1, <1>5, <1>6, <1>7, <1>9, LifeSame DEF OneInv, Owned
<1>12. Life!Destroy(c)
  <2>1. Life!Becomes(c, "gone")
    BY <1>10, <1>11, Becoming
  <2>2. ShutSet' = ShutSet \ {c}
    BY <1>10, <1>11, ShutChanges
  <2>3. IF c \in ShutSet THEN UNCHANGED calls ELSE Life!Call(c, "closed", FALSE)
    BY <1>3, <1>4 DEF Shut, ShutSet, Life!Call
  <2>4. [d \in Conns |-> LifeOf(d)][c] = "up"
    BY <1>3
  <2> QED
    BY <2>1, <2>2, <2>3, <2>4 DEF Life!Destroy, ShutSet
<1> QED
  BY <1>9, <1>12 DEF Promises, Life!Next

\* The end of a batch is the Release of the connections its functors owned.
LEMMA EndBatchPromises ==
  ASSUME OneInv, EndBatch(Base) PROVE Promises
<1> USE LoopsNat
<1>1. /\ pc[Base] = "pending" /\ pc'[Base] = "poll" /\ batch'[Base] = <<>>
      /\ UNCHANGED <<conn, ret, state_, calls, connections_, pending>>
  BY DEF EndBatch, Goto, serverVars, history, OneInv, IInv, Types, ThreadTypes,
       QueueTypes
<1>2. \A d \in Conns : Owner(d)' => Owner(d)
  <2>1. \A d \in Conns : ~InQueue(d, batch'[Base])
    BY <1>1 DEF InQueue
  <2> QED
    BY <1>1, <2>1 DEF Owner, InQueue, Owning
<1>3. \A d \in Conns : CallsOfState(d) /\ PlaceOfState(d)
  BY DEF OneInv, OneLoopInv
<1>4. OneLoopInv'
  <2> SUFFICES ASSUME NEW d \in Conns PROVE CallsOfState(d)' /\ PlaceOfState(d)'
    BY DEF OneLoopInv
  <2>1. CallsOfState(d)'
    BY <1>1, <1>3 DEF CallsOfState, Announced
  <2>2. PlaceOfState(d)'
    BY <1>1, <1>2, <1>3 DEF PlaceOfState, Closing, ClosePCs
  <2> QED
    BY <2>1, <2>2
<1> DEFINE S == {d \in Conns : Owner(d) /\ ~Owner(d)'}
<1>5. ASSUME NEW d \in Conns \ S PROVE LifeOf(d)' = LifeOf(d)
               /\ (Shut(d)' <=> Shut(d))
  <2>1. Owned(d)' <=> Owned(d)
    BY <1>1, <1>2 DEF Owned
  <2> QED
    BY <1>1, <1>4, <2>1, LifeSame DEF OneInv
<1>6. ASSUME NEW d \in S
      PROVE  LifeOf(d) = "down" /\ LifeOf(d)' = "gone" /\ ~Shut(d) /\ ~Shut(d)'
  <2>1. d \in Conns /\ Owner(d) /\ ~Owner(d)'
    OBVIOUS
  <2>2. state_[d] = "kDisconnected" /\ d \notin connections_ /\ Announced(d)
    BY <1>1, <1>3, <2>1 DEF PlaceOfState, CallsOfState
  <2>3. Owned(d)
    BY <2>1 DEF Owned
  <2>4. LifeOf(d) = "down" /\ ~Shut(d)
    BY <2>1, <2>2, <2>3, LifeValues DEF OneInv
  <2>5. ~Alive(d)'
    <3>1. Loops = {Base}
      BY OneLoop DEF OneInv
    <3>2. d \notin connections_' /\ conn'[Base] # d /\ ~Owner(d)'
      BY <1>1, <1>3, <2>1, <2>2 DEF PlaceOfState
    <3> QED
      BY <3>1, <3>2 DEF Alive, Owner
  <2>6. LifeOf(d)' = "gone" /\ ~Shut(d)'
    BY <1>1, <2>2, <2>5 DEF LifeOf, Shut
  <2> QED
    BY <2>4, <2>6
<1>7. Life!Release(S)
  <2> HIDE DEF S
  <2>1. \A d \in Conns : Shut(d)' <=> Shut(d)
    BY <1>5, <1>6
  <2>2. ShutSet' = ShutSet
    BY <2>1, ShutStays
  <2>3. \A d \in Conns : LifeOf(d)' = IF d \in S THEN "gone" ELSE LifeOf(d)
    BY <1>5, <1>6
  <2>4. [d \in Conns |-> LifeOf(d)]'
          = [d \in Conns |-> IF d \in S THEN "gone"
             ELSE [e \in Conns |-> LifeOf(e)][d]]
    BY <2>3
  <2>5. S \subseteq Conns /\ \A d \in S : [e \in Conns |-> LifeOf(e)][d] = "down"
    BY <1>6 DEF S
  <2> QED
    BY <1>1, <2>2, <2>4, <2>5 DEF Life!Release, ShutSet
<1>8. S \in SUBSET Conns
  OBVIOUS
<1> QED
  BY <1>4, <1>7, <1>8 DEF Promises, Life!Next

-----------------------------------------------------------------------------
(***************************************************************************)
(* The theorems.                                                           *)
(***************************************************************************)

\* A new server has no connections.
LEMMA InitLife == Init => OneLoopInv /\ Life!Init
<1> SUFFICES ASSUME Init PROVE OneLoopInv /\ Life!Init
  OBVIOUS
<1> USE LoopsNat
<1>1. /\ pc[Base] = "init" /\ conn[Base] = NoConn /\ connections_ = {}
      /\ pending[Base] = <<>> /\ batch[Base] = <<>>
      /\ \A c \in Conns : state_[c] = "none" /\ calls[c] = <<>>
      /\ calls = [c \in Conns |-> <<>>]
  BY DEF Init
<1>2. /\ connections_ = {}
      /\ \A l \in Loops : conn[l] = NoConn /\ pending[l] = <<>> /\ batch[l] = <<>>
  BY DEF Init
<1>3. \A c \in Conns : ~Owner(c)
  BY <1>1 DEF Owner, InQueue
<1>4. OneLoopInv
  BY <1>1, <1>3 DEF OneLoopInv, CallsOfState, PlaceOfState, Closing, ClosePCs
<1>5. \A c \in Conns : LifeOf(c) = "none" /\ ~Shut(c)
  <2>1. ASSUME NEW c \in Conns, NEW l \in Loops
        PROVE  ~InQueue(c, pending[l]) /\ ~InQueue(c, batch[l]) /\ conn[l] # c
    <3>1. DOMAIN pending[l] = {} /\ DOMAIN batch[l] = {}
      BY <1>2
    <3> QED
      BY <1>2, <3>1 DEF InQueue
  <2>2. \A c \in Conns : ~Alive(c)
    BY <1>2, <2>1 DEF Alive
  <2> QED
    BY <1>1, <2>2 DEF LifeOf, Shut
<1>6. Life!Init
  BY <1>1, <1>5 DEF Life!Init, Shut
<1> QED
  BY <1>4, <1>6

\* Every step is one of ConnectionLife or stutters.
LEMMA NextPromises == OneInv /\ [Next]_vars => Promises
<1> SUFFICES ASSUME OneInv, [Next]_vars PROVE Promises
  OBVIOUS
<1> USE LoopsNat
<1>0. Loops = {Base}
  BY OneLoop DEF OneInv
<1>1. CASE StartServer \/ EnterLoop(Base) \/ Quit \/ Peer
  BY <1>1, IdlePromises
<1>2. CASE BaseThread
  <2>1. CASE Poll \/ AcceptFails \/ LeaveLoop \/ DestroyPool
    BY <2>1, IdlePromises
  <2>2. CASE DestroyBaseLoop
    BY <2>2, DestroyBaseLoopPromises
  <2>3. ASSUME NEW c \in Conns, NewConnection(c) PROVE Promises
    BY <2>3, NewConnectionPromises
  <2>4. ASSUME NEW c \in Conns, Message(c) PROVE Promises
    BY <2>4, MessagePromises
  <2>5. ASSUME NEW c \in Conns, ReadError(c) PROVE Promises
    BY <2>5, IdlePromises
  <2>6. ASSUME NEW c \in Conns, HandleClose(c) PROVE Promises
    BY <2>6, HandleClosePromises
  <2>7. ASSUME NEW c \in Conns, DestroyConnection(c) PROVE Promises
    BY <2>7, DestroyConnectionPromises
  <2> QED
    BY <1>0, <1>2, <2>1, <2>2, <2>3, <2>4, <2>5, <2>6, <2>7 DEF BaseThread
<1>3. CASE LoopThread(Base)
  <2>1. CASE Swap(Base)
    BY <2>1, SwapPromises
  <2>2. CASE EndBatch(Base)
    BY <2>2, EndBatchPromises
  <2>3. ASSUME NEW c \in Conns, RunEstablished(Base, c) PROVE Promises
    <3>1. RunsNext(Base, "connectEstablished", c) /\ UNCHANGED <<pending, batch>>
      BY <2>3 DEF RunEstablished
    <3>2. PICK run \in {"connectEstablished", "connectDestroyed",
                        "shutdownInLoop"} :
                 run = "connectEstablished"
      OBVIOUS
    <3>3. run \in {"shutdownInLoop", "connectDestroyed"}
      BY <3>1, <3>2, RunEffect DEF OneInv
    <3> QED
      BY <3>2, <3>3
  <2>4. ASSUME NEW c \in Conns, RunShutdownInLoop(Base, c) \/ RunDestroyed(Base, c)
        PROVE  Promises
    BY <2>4, RunPromises
  <2>5. CASE SetConnected(Base)
    BY <2>5, SetConnectedPromises
  <2>6. CASE EnableReading(Base)
    BY <2>6, EnableReadingPromises
  <2>7. CASE UpCallback(Base)
    BY <2>7, UpCallbackPromises
  <2>8. CASE UserReturn(Base) \/ PostShutdown(Base)
    BY <2>8, ReturnPromises
  <2>9. CASE Shutdown(Base)
    BY <2>9, ShutdownPromises
  <2>10. CASE SetDisconnecting(Base)
    BY <2>10, SetDisconnectingPromises
  <2>11. CASE DownCallback(Base)
    BY <2>11, DownCallbackPromises
  <2>12. CASE RemoveConnection(Base)
    BY <2>12, RemoveConnectionPromises
  <2>13. ~SubStops(Base) /\ ~(Base # Base /\ EnterLoop(Base))
    BY DEF SubStops
  <2> QED
    BY <1>3, <2>1, <2>2, <2>3, <2>4, <2>5, <2>6, <2>7, <2>8, <2>9, <2>10, <2>11,
         <2>12, <2>13
       DEF LoopThread
<1>4. CASE UNCHANGED vars
  BY <1>4, StutterPromises
<1>5. (\E l \in Loops : LoopThread(l)) => LoopThread(Base)
  BY <1>0
<1> QED
  BY <1>1, <1>2, <1>3, <1>4, <1>5 DEF Next

\* The invariant holds of every behaviour.
LEMMA OneInvariant ==
  ASSUME NumSubs = 0
  PROVE  Spec => []OneInv
<1>1. Init => OneInv
  BY InitIInv, InitLife DEF OneInv
<1>2. OneInv /\ [Next]_vars => OneInv'
  BY NextIInv, NextPromises DEF OneInv, Promises
<1> QED
  BY <1>1, <1>2, PTL DEF Spec

\* On one loop a TcpServer implements ConnectionLife: the user of a connection
\* gets connectionCallback_ with connected(), messages, and connectionCallback_
\* without connected(), once each end and in this order, and the object is
\* released behind the last callback (TcpConnection.cc:121, 239, 249,
\* TcpServer.cc:37).
THEOREM OneLoopLife ==
  ASSUME NumSubs = 0
  PROVE  Spec => LivesAsPromised
<1>1. Init => Life!Init
  BY InitLife
<1>2. OneInv /\ [Next]_vars => [Life!Next]_(Life!vars)
  BY NextPromises DEF Promises
<1> QED
  BY <1>1, <1>2, OneInvariant, PTL DEF Spec, LivesAsPromised, Life!Spec

\* What DisconnectedIsFinal says of a step.
Kept == \A c \in Conns : state_[c] = "kDisconnected" => state_'[c] = "kDisconnected"

\* Every step does: only a connection that is connecting becomes kConnected,
\* and only one that is kConnected becomes kDisconnecting.
LEMMA StateKept ==
  ASSUME OneInv, [Next]_vars
  PROVE  Kept
<1> USE LoopsNat
<1>1. state_ \in [Conns -> States] /\ UNCHANGED state_ => Kept
  BY DEF Kept
<1>2. state_ \in [Conns -> States] /\ \A l \in Loops : l = Base
  BY OneLoop DEF OneInv, IInv, Types, HistoryTypes
<1>3. ASSUME NEW c \in Conns, NEW s, state_' = [state_ EXCEPT ![c] = s],
             s = "kDisconnected" \/ state_[c] # "kDisconnected"
      PROVE  Kept
  BY <1>2, <1>3 DEF Kept
<1>4. CASE StartServer \/ EnterLoop(Base) \/ Quit \/ Peer
  BY <1>1, <1>2, <1>4 DEF StartServer, EnterLoop, Quit, Peer
<1>5. CASE BaseThread
  <2>1. CASE Poll \/ AcceptFails \/ LeaveLoop \/ DestroyPool \/ DestroyBaseLoop
    BY <1>1, <1>2, <2>1 DEF Poll, AcceptFails, LeaveLoop, DestroyPool,
         DestroyBaseLoop
  <2>2. ASSUME NEW c \in Conns, NewConnection(c) PROVE Kept
    <3>1. state_' = [state_ EXCEPT ![c] = "kConnecting"] /\ c = nextConnId_
      BY <2>2 DEF NewConnection
    <3>2. state_[c] = "none"
      BY <3>1 DEF OneInv, IInv, LifeInv
    <3> QED
      BY <1>3, <3>1, <3>2
  <2>3. ASSUME NEW c \in Conns, Message(c) \/ ReadError(c) PROVE Kept
    BY <1>1, <1>2, <2>3 DEF Message, ReadError
  <2>4. ASSUME NEW c \in Conns, HandleClose(c) PROVE Kept
    BY <1>3, <2>4 DEF HandleClose
  <2>5. ASSUME NEW c \in Conns, DestroyConnection(c) PROVE Kept
    BY <1>1, <1>2, <1>3, <2>5 DEF DestroyConnection, ConnectDestroyed
  <2> QED
    BY <1>2, <1>5, <2>1, <2>2, <2>3, <2>4, <2>5 DEF BaseThread
<1>6. CASE LoopThread(Base)
  <2>1. CASE Swap(Base) \/ EndBatch(Base) \/ EnableReading(Base) \/ UpCallback(Base)
    BY <1>1, <1>2, <2>1 DEF Swap, EndBatch, EnableReading, UpCallback
  <2>2. CASE UserReturn(Base) \/ Shutdown(Base) \/ PostShutdown(Base)
    BY <1>1, <1>2, <2>2 DEF UserReturn, Shutdown, PostShutdown
  <2>3. CASE DownCallback(Base) \/ RemoveConnection(Base) \/ SubStops(Base)
    BY <1>1, <1>2, <2>3 DEF DownCallback, RemoveConnection, SubStops
  <2>4. ASSUME NEW c \in Conns, RunEstablished(Base, c)
                 \/ RunShutdownInLoop(Base, c)
        PROVE  Kept
    BY <1>1, <1>2, <2>4 DEF RunEstablished, RunShutdownInLoop
  <2>5. ASSUME NEW c \in Conns, RunDestroyed(Base, c) PROVE Kept
    BY <1>1, <1>2, <1>3, <2>5 DEF RunDestroyed, ConnectDestroyed
  <2>6. CASE SetConnected(Base) \/ SetDisconnecting(Base)
    <3>1. pc[Base] \in {"established", "shutdown"} /\ conn[Base] \in Conns
      BY <2>6 DEF SetConnected, SetDisconnecting, OneInv, IInv, HoldInv, Types,
           ThreadTypes, CallPCs
    <3> PICK c \in Conns : c = conn[Base]
      BY <3>1
    <3>2. state_[c] # "kDisconnected"
      BY <3>1 DEF OneInv, OneLoopInv, PlaceOfState
    <3> QED
      BY <1>3, <2>6, <3>2 DEF SetConnected, SetDisconnecting
  <2> QED
    BY <1>6, <2>1, <2>2, <2>3, <2>4, <2>5, <2>6 DEF LoopThread
<1>7. CASE UNCHANGED vars
  BY <1>1, <1>2, <1>7 DEF vars
<1> QED
  BY <1>2, <1>4, <1>5, <1>6, <1>7 DEF Next

\* On one loop a connection that is kDisconnected stays so: neither
\* connectEstablished nor shutdown(), whose test and assignment of state_ are
\* two steps, comes after handleClose (TcpConnection.cc:124, 241, 265).
THEOREM DisconnectedForGood ==
  ASSUME NumSubs = 0
  PROVE  Spec => DisconnectedIsFinal
<1>1. OneInv /\ [Next]_vars =>
        [\A c \in Conns : state_[c] = "kDisconnected"
         => state_'[c] = "kDisconnected"]_vars
  BY StateKept DEF Kept
<1> QED
  BY <1>1, OneInvariant, PTL DEF Spec, DisconnectedIsFinal

\* A connection's calls begin with the callback that says that it is up.
Opened(c) == calls[c] # <<>> =>
               calls[c][1].by = "established" /\ calls[c][1].connected

\* What is called behind the first callback leaves the first one.
LEMMA FirstStays ==
  ASSUME NEW s \in Seq(Calls), s # <<>>, NEW e
  PROVE  Append(s, e) # <<>> /\ Append(s, e)[1] = s[1]
<1>1. 1 \in 1 .. Len(s)
  OBVIOUS
<1> QED
  BY <1>1, AppendProperties

\* A step of ConnectionLife keeps the first callback, and Establish makes it.
LEMMA OpenedKept ==
  ASSUME OneInv, [Next]_vars, \A c \in Conns : Opened(c)
  PROVE  (\A c \in Conns : Opened(c))'
<1> DEFINE life == [c \in Conns |-> LifeOf(c)]
<1>1. [Life!Next]_(Life!vars)
  BY NextPromises DEF Promises
<1>2. calls \in [Conns -> Seq(Calls)]
  BY DEF OneInv, IInv, Types, HistoryTypes
<1>3. ASSUME NEW c \in Conns, life[c] = "new"
      PROVE  calls[c] = <<>>
  BY <1>3 DEF LifeOf
<1>4. ASSUME NEW c \in Conns, life[c] \in {"up", "ending"}
      PROVE  calls[c] # <<>>
  BY <1>4 DEF LifeOf
<1> SUFFICES ASSUME NEW d \in Conns PROVE Opened(d)'
  OBVIOUS
<1>5. CASE UNCHANGED calls
  BY <1>5 DEF Opened
<1>6. ASSUME NEW c \in Conns, NEW by, NEW connected, Life!Call(c, by, connected),
             life[c] \in {"up", "ending"}
      PROVE  Opened(d)'
  <2> DEFINE e == [by |-> by, connected |-> connected]
  <2>1. calls' = [calls EXCEPT ![c] = Append(@, e)]
    BY <1>6 DEF Life!Call
  <2>2. /\ Append(calls[c], e) # <<>>
        /\ Append(calls[c], e)[1] = calls[c][1]
    BY <1>2, <1>4, <1>6, FirstStays
  <2>3. calls[c] # <<>>
    BY <1>4, <1>6
  <2> HIDE DEF e
  <2>4. calls'[d] = IF d = c THEN Append(calls[c], e) ELSE calls[d]
    BY <1>2, <2>1
  <2> QED
    BY <2>2, <2>3, <2>4 DEF Opened
<1>7. ASSUME NEW c \in Conns, Life!Establish(c)
      PROVE  Opened(d)'
  <2>1. /\ calls' = [calls EXCEPT ![c] =
                       Append(@, [by |-> "established", connected |-> TRUE])]
        /\ calls[c] = <<>>
    BY <1>3, <1>7 DEF Life!Establish, Life!Call
  <2>2. calls'[d] = IF d = c THEN <<[by |-> "established", connected |-> TRUE]>>
                    ELSE calls[d]
    BY <1>2, <2>1
  <2> QED
    BY <2>2 DEF Opened
<1>8. ASSUME NEW c \in Conns,
             Life!Message(c) \/ Life!Close(c) \/ Life!Destroy(c)
      PROVE  Opened(d)'
  <2>1. life[c] \in {"up", "ending"}
    BY <1>8 DEF Life!Message, Life!Close, Life!Destroy
  <2>2. \/ UNCHANGED calls
        \/ \E by \in {"message", "closed"}, connected \in BOOLEAN :
             Life!Call(c, by, connected)
    BY <1>8 DEF Life!Message, Life!Close, Life!Destroy
  <2> QED
    BY <1>5, <1>6, <2>1, <2>2
<1>9. ASSUME NEW c \in Conns, Life!Accept(c) \/ Life!Shutdown(c) \/ Life!End(c)
      PROVE  UNCHANGED calls
  BY <1>9 DEF Life!Accept, Life!Shutdown, Life!End
<1>10. ASSUME NEW S \in SUBSET Conns, Life!Release(S)
       PROVE  UNCHANGED calls
  BY <1>10 DEF Life!Release
<1> QED
  BY <1>1, <1>5, <1>7, <1>8, <1>9, <1>10 DEF Life!Next, Life!vars

\* On one loop the first thing the user hears of a connection is that it is up
\* (TcpConnection.cc:239, TcpServer.cc:37). With a sub loop it need not be: the
\* run ServerFirstCallback.
THEOREM FirstIsUp ==
  ASSUME NumSubs = 0
  PROVE  Spec => []FirstCallbackIsUp
<1>1. Init => FirstCallbackIsUp
  BY DEF Init, FirstCallbackIsUp
<1>2. OneInv /\ FirstCallbackIsUp /\ [Next]_vars => FirstCallbackIsUp'
  BY OpenedKept DEF FirstCallbackIsUp, Opened
<1> QED
  BY <1>1, <1>2, OneInvariant, PTL DEF Spec

=============================================================================
