------------------------------ MODULE TaskQueue ------------------------------
(***************************************************************************)
(* What an EventLoop promises to the threads that hand it work: functors   *)
(* passed to queueInLoop run in the order in which they were queued, each  *)
(* exactly once; runInLoop called on the loop's own thread runs its        *)
(* functor on the spot.  When (and whether) the loop gets to the head of   *)
(* the queue is the business of the detailed module, EventLoop.            *)
(***************************************************************************)
EXTENDS Sequences

CONSTANT Tasks        \* the functors, each handed over at most once

VARIABLES fresh,      \* functors nobody has handed to the loop yet
          queue,      \* functors handed over and not started
          ran         \* functors started, in order

abstractVars == <<fresh, queue, ran>>

AbstractInit ==
  /\ fresh = Tasks
  /\ queue = <<>>
  /\ ran   = <<>>

Post(t) ==
  /\ t \in fresh
  /\ fresh' = fresh \ {t}
  /\ queue' = Append(queue, t)
  /\ UNCHANGED ran

RunNow(t) ==
  /\ t \in fresh
  /\ fresh' = fresh \ {t}
  /\ ran' = Append(ran, t)
  /\ UNCHANGED queue

RunHead ==
  /\ queue # <<>>
  /\ ran' = Append(ran, Head(queue))
  /\ queue' = Tail(queue)
  /\ UNCHANGED fresh

AbstractNext ==
  \/ \E t \in Tasks : Post(t) \/ RunNow(t)
  \/ RunHead

AbstractSpec == AbstractInit /\ [][AbstractNext]_abstractVars

=============================================================================
