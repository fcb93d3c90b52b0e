------------------------------ MODULE EventLoop ------------------------------
(***************************************************************************)
(* One EventLoop (Eventloop.h, Eventloop.cc): the thread that runs loop(), *)
(* and the other threads that call queueInLoop, runInLoop and quit on it.  *)
(* The loop sleeps in epoll_wait; a thread that leaves work for it makes   *)
(* the eventfd readable so that epoll_wait returns.                        *)
(*                                                                         *)
(* Atomicity: pendingFunctors_ is accessed under the mutex, the flags and  *)
(* the eventfd by single atomic operations.  A foreign thread's append (or *)
(* its store to quit_) and its write to the eventfd are separate steps.    *)
(***************************************************************************)
EXTENDS Sequences

CONSTANTS Tasks,      \* functors; each is handed to the loop at most once
          Foreign     \* the threads other than the loop's own

VARIABLES
  pc,                      \* where the loop's thread is (see PCs)
  quit_,
  callingPendingFuntors_,
  pendingFunctors_,        \* the queue the mutex protects
  functors,                \* doPendingFunctors' local batch, not yet run
  readable,                \* the eventfd's counter is not 0
  activeChannels_,         \* channels poll reported and not yet handled
  fpc,                     \* foreign thread: "idle", or about to call wakeup()
  fresh,                   \* history: functors nobody has handed over yet
  ran,                     \* history: functors started, in order
  early                    \* history: functors the loop's own thread queued
                           \* before it called loop()

vars == <<pc, quit_, callingPendingFuntors_, pendingFunctors_, functors,
          readable, activeChannels_, fpc, fresh, ran, early>>

\* "init": constructed, loop() not called; "while": at the loop's condition;
\* "poll": in epoll_wait; "dispatch": handling activeChannels_; "pending":
\* in doPendingFunctors, between functors; "user": inside a channel's callback
\* or a functor; "stopped": loop() has returned.
PCs == {"init", "while", "poll", "dispatch", "pending", "user", "stopped"}

\* The wakeup channel, and any other channel of this loop's poller.
Channels == {"wakeup", "io"}

TypeOK ==
  /\ pc \in PCs
  /\ quit_ \in BOOLEAN
  /\ callingPendingFuntors_ \in BOOLEAN
  /\ pendingFunctors_ \in Seq(Tasks)
  /\ functors \in Seq(Tasks)
  /\ readable \in BOOLEAN
  /\ activeChannels_ \in SUBSET Channels
  /\ fpc \in [Foreign -> {"idle", "wakeup"}]
  /\ fresh \in SUBSET Tasks
  /\ ran \in Seq(Tasks)
  /\ early \in SUBSET Tasks

Init ==
  /\ pc = "init"
  /\ quit_ = FALSE
  /\ callingPendingFuntors_ = FALSE
  /\ pendingFunctors_ = <<>>
  /\ functors = <<>>
  /\ readable = FALSE
  /\ activeChannels_ = {}
  /\ fpc = [f \in Foreign |-> "idle"]
  /\ fresh = Tasks
  /\ ran = <<>>
  /\ early = {}

-----------------------------------------------------------------------------
(***************************************************************************)
(* Plausible slips in the code, each in the place of the definition named  *)
(* after it; the properties below tell every one of them from the code.    *)
(***************************************************************************)

\* NeedsWakeup without the second half of the test.
NeedsWakeupUnlessOwnThread(inLoopThread) == ~inLoopThread

\* NeedsWakeup without the first half of the test.
NeedsWakeupWhenCalling(inLoopThread) == callingPendingFuntors_

\* QuitWakes of a quit() that only sets the flag.
QuitWakesNobody(inLoopThread) == FALSE

\* PollTimeout of a poll with timeout -1.
PollForever == FALSE

\* SwapPending that copies the queue instead of swapping it.
CopyPending ==
  /\ pc = "dispatch"
  /\ activeChannels_ = {}
  /\ pc' = "pending"
  /\ callingPendingFuntors_' = TRUE
  /\ functors' = pendingFunctors_
  /\ UNCHANGED <<pendingFunctors_, quit_, readable, activeChannels_, fpc, fresh,
                 ran, early>>

\* EndPending that leaves callingPendingFuntors_ set.
EndPendingFlagKept ==
  /\ pc = "pending"
  /\ functors = <<>>
  /\ pc' = "while"
  /\ UNCHANGED <<quit_, callingPendingFuntors_, pendingFunctors_, functors,
                 readable, activeChannels_, fpc, fresh, ran, early>>

-----------------------------------------------------------------------------
(***************************************************************************)
(* Operations that both the loop's thread and foreign threads perform.     *)
(***************************************************************************)

\* queueInLoop's test before wakeup(): the caller is another thread, or the
\* loop is running functors and would go back to sleep after this batch.
NeedsWakeup(inLoopThread) == ~inLoopThread \/ callingPendingFuntors_

\* The locked append of queueInLoop.
Enqueue(t) ==
  /\ t \in fresh
  /\ fresh' = fresh \ {t}
  /\ pendingFunctors_' = Append(pendingFunctors_, t)

\* quit()'s test: only another thread has to wake the loop.
QuitWakes(inLoopThread) == ~inLoopThread

-----------------------------------------------------------------------------
(***************************************************************************)
(* Code of the user running on the loop's thread: before loop() is called  *)
(* (a ThreadInitCallback), inside a channel's callback or inside a functor.*)
(***************************************************************************)
OnLoopThread == pc \in {"init", "user"}

OwnQueueInLoop(t) ==
  /\ OnLoopThread
  /\ Enqueue(t)
  /\ readable' = (readable \/ NeedsWakeup(TRUE))
  /\ early' = IF pc = "init" THEN early \cup {t} ELSE early
  /\ UNCHANGED <<pc, quit_, callingPendingFuntors_, functors, activeChannels_,
                 fpc, ran>>

\* runInLoop on the loop's own thread calls the functor directly.
OwnRunInLoop(t) ==
  /\ OnLoopThread
  /\ t \in fresh
  /\ fresh' = fresh \ {t}
  /\ ran' = Append(ran, t)
  /\ UNCHANGED <<pc, quit_, callingPendingFuntors_, pendingFunctors_, functors,
                 readable, activeChannels_, fpc, early>>

OwnQuit ==
  /\ OnLoopThread
  /\ quit_' = TRUE
  /\ readable' = (readable \/ QuitWakes(TRUE))
  /\ UNCHANGED <<pc, callingPendingFuntors_, pendingFunctors_, functors,
                 activeChannels_, fpc, fresh, ran, early>>

-----------------------------------------------------------------------------
(***************************************************************************)
(* The loop's thread.                                                      *)
(***************************************************************************)

\* loop() is entered; it forgets any quit() called before.
EnterLoop ==
  /\ pc = "init"
  /\ pc' = "while"
  /\ quit_' = FALSE
  /\ UNCHANGED <<callingPendingFuntors_, pendingFunctors_, functors, readable,
                 activeChannels_, fpc, fresh, ran, early>>

TestQuit ==
  /\ pc = "while"
  /\ pc' = IF quit_ THEN "stopped" ELSE "poll"
  /\ UNCHANGED <<quit_, callingPendingFuntors_, pendingFunctors_, functors,
                 readable, activeChannels_, fpc, fresh, ran, early>>

\* poll() returns events; io tells whether some other channel is ready.
Poll(io) ==
  /\ pc = "poll"
  /\ readable \/ io
  /\ activeChannels_' = {ch \in Channels : IF ch = "io" THEN io ELSE readable}
  /\ pc' = "dispatch"
  /\ UNCHANGED <<quit_, callingPendingFuntors_, pendingFunctors_, functors,
                 readable, fpc, fresh, ran, early>>

\* poll() returns no event after kPollTimeMs, or because of a signal.
PollTimeout ==
  /\ pc = "poll"
  /\ ~readable
  /\ pc' = "dispatch"
  /\ UNCHANGED <<quit_, callingPendingFuntors_, pendingFunctors_, functors,
                 readable, activeChannels_, fpc, fresh, ran, early>>

\* handleRead of the wakeup channel resets the eventfd's counter.
HandleRead ==
  /\ pc = "dispatch"
  /\ "wakeup" \in activeChannels_
  /\ activeChannels_' = activeChannels_ \ {"wakeup"}
  /\ readable' = FALSE
  /\ UNCHANGED <<pc, quit_, callingPendingFuntors_, pendingFunctors_, functors,
                 fpc, fresh, ran, early>>

\* handleEvent of another channel enters the user's callback.
HandleEvent ==
  /\ pc = "dispatch"
  /\ "io" \in activeChannels_
  /\ activeChannels_' = activeChannels_ \ {"io"}
  /\ pc' = "user"
  /\ UNCHANGED <<quit_, callingPendingFuntors_, pendingFunctors_, functors,
                 readable, fpc, fresh, ran, early>>

\* doPendingFunctors up to the end of its critical section: the whole queue
\* becomes the batch.
SwapPending ==
  /\ pc = "dispatch"
  /\ activeChannels_ = {}
  /\ pc' = "pending"
  /\ callingPendingFuntors_' = TRUE
  /\ functors' = pendingFunctors_
  /\ pendingFunctors_' = <<>>
  /\ UNCHANGED <<quit_, readable, activeChannels_, fpc, fresh, ran, early>>

RunFunctor ==
  /\ pc = "pending"
  /\ functors # <<>>
  /\ pc' = "user"
  /\ functors' = Tail(functors)
  /\ ran' = Append(ran, Head(functors))
  /\ UNCHANGED <<quit_, callingPendingFuntors_, pendingFunctors_, readable,
                 activeChannels_, fpc, fresh, early>>

\* The user's code returns to the loop that called it.
UserReturn ==
  /\ pc = "user"
  /\ pc' = IF callingPendingFuntors_ THEN "pending" ELSE "dispatch"
  /\ UNCHANGED <<quit_, callingPendingFuntors_, pendingFunctors_, functors,
                 readable, activeChannels_, fpc, fresh, ran, early>>

EndPending ==
  /\ pc = "pending"
  /\ functors = <<>>
  /\ pc' = "while"
  /\ callingPendingFuntors_' = FALSE
  /\ UNCHANGED <<quit_, pendingFunctors_, functors, readable, activeChannels_,
                 fpc, fresh, ran, early>>

-----------------------------------------------------------------------------
(***************************************************************************)
(* A foreign thread f.                                                     *)
(***************************************************************************)

\* queueInLoop, or runInLoop off the loop's thread, up to the locked append
\* and the test that follows it.
ForeignQueueInLoop(f, t) ==
  /\ fpc[f] = "idle"
  /\ Enqueue(t)
  /\ fpc' = [fpc EXCEPT ![f] = IF NeedsWakeup(FALSE) THEN "wakeup" ELSE "idle"]
  /\ UNCHANGED <<pc, quit_, callingPendingFuntors_, functors, readable,
                 activeChannels_, ran, early>>

ForeignQuit(f) ==
  /\ fpc[f] = "idle"
  /\ quit_' = TRUE
  /\ fpc' = [fpc EXCEPT ![f] = IF QuitWakes(FALSE) THEN "wakeup" ELSE "idle"]
  /\ UNCHANGED <<pc, callingPendingFuntors_, pendingFunctors_, functors,
                 readable, activeChannels_, fresh, ran, early>>

\* The write of wakeup().
Wakeup(f) ==
  /\ fpc[f] = "wakeup"
  /\ fpc' = [fpc EXCEPT ![f] = "idle"]
  /\ readable' = TRUE
  /\ UNCHANGED <<pc, quit_, callingPendingFuntors_, pendingFunctors_, functors,
                 activeChannels_, fresh, ran, early>>

-----------------------------------------------------------------------------
LoopThread ==
  \/ EnterLoop \/ TestQuit
  \/ \E io \in BOOLEAN : Poll(io)
  \/ PollTimeout
  \/ HandleRead \/ HandleEvent
  \/ SwapPending \/ RunFunctor \/ UserReturn \/ EndPending

UserCode ==
  \/ \E t \in Tasks : OwnQueueInLoop(t) \/ OwnRunInLoop(t)
  \/ OwnQuit

ForeignThread(f) ==
  \/ \E t \in Tasks : ForeignQueueInLoop(f, t)
  \/ ForeignQuit(f)
  \/ Wakeup(f)

Next == LoopThread \/ UserCode \/ \E f \in Foreign : ForeignThread(f)

Spec == Init /\ [][Next]_vars

(***************************************************************************)
(* Fairness.  The loop's thread keeps running, callbacks and functors      *)
(* return, and a thread inside queueInLoop or quit gets to its write.      *)
(* Nobody has to send anything: epoll_wait returns only if the eventfd is  *)
(* readable, neither other channels nor the timeout are counted on.        *)
(***************************************************************************)
LoopProgress ==
  \/ EnterLoop \/ TestQuit
  \/ readable /\ \E io \in BOOLEAN : Poll(io)
  \/ HandleRead \/ HandleEvent
  \/ SwapPending \/ RunFunctor \/ UserReturn \/ EndPending

Fairness ==
  /\ WF_vars(LoopProgress)
  /\ \A f \in Foreign : WF_vars(Wakeup(f))

FairSpec == Spec /\ Fairness

-----------------------------------------------------------------------------
(***************************************************************************)
(* Safety.                                                                 *)
(***************************************************************************)
Elements(s) == {s[i] : i \in DOMAIN s}
WakeupOnTheWay == readable \/ \E f \in Foreign : fpc[f] = "wakeup"

\* The loop is never asleep in epoll_wait while there is work for it (a quit()
\* or a functor) unless the eventfd is readable or some thread is about to make
\* it so.  Functors the loop's own thread queued before loop() are excepted:
\* queueInLoop wakes nobody for them (see EveryTaskRuns).
NoLostWakeup ==
  pc = "poll" /\ (quit_ \/ ~(Elements(pendingFunctors_) \subseteq early))
    => WakeupOnTheWay

\* The loop implements the FIFO queue of functors: what doPendingFunctors has
\* still to run, followed by what has been queued since its swap.
TQ == INSTANCE TaskQueue WITH queue <- functors \o pendingFunctors_
RunsInQueueOrder == TQ!AbstractSpec

\* What holds between any two steps and makes the above inductive: the flag
\* callingPendingFuntors_ tells truly whether a batch is being run, and work
\* that would outlast the coming epoll_wait has its wakeup on the way already.
FlagTellsBatch ==
  /\ pc = "pending" => callingPendingFuntors_
  /\ pc \notin {"pending", "user"} => ~callingPendingFuntors_
  /\ ~callingPendingFuntors_ => functors = <<>>

PendingCovered ==
  pc \in {"init", "while", "poll"} \/ callingPendingFuntors_
    => Elements(pendingFunctors_) \subseteq early \/ WakeupOnTheWay

QuitCovered == pc = "poll" /\ quit_ => WakeupOnTheWay

\* The inductive invariant: types, the flag, and both kinds of work covered.
IInv ==
  /\ TypeOK
  /\ FlagTellsBatch
  /\ PendingCovered
  /\ QuitCovered

-----------------------------------------------------------------------------
(***************************************************************************)
(* Liveness.                                                               *)
(***************************************************************************)
Waiting(t) == t \in Elements(pendingFunctors_)
Done(t) == t \in Elements(ran) \/ pc = "stopped"

\* A queued functor runs, unless the loop stops first, without any help from
\* the poll timeout or from other events.
QueuedTaskRuns == \A t \in Tasks : Waiting(t) /\ t \notin early ~> Done(t)

\* If the poll timeout does expire, that is true also of functors the loop's own
\* thread queued before loop(), for which queueInLoop wakes nobody.
EveryTaskRuns ==
  WF_vars(PollTimeout) => \A t \in Tasks : Waiting(t) ~> Done(t)

\* A quit() called once loop() has been entered makes loop() return.
QuitStops == quit_ /\ pc # "init" ~> pc = "stopped"

=============================================================================
