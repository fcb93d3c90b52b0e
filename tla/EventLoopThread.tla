--------------------------- MODULE EventLoopThread ---------------------------
(***************************************************************************)
(* EventLoopThread and Thread (EventLoopThread.cc, Thread.cc): an owner    *)
(* thread creates EventLoopThread objects, startLoop() hands it the        *)
(* EventLoop the new thread has built on its own stack, the destructor     *)
(* makes that loop quit and joins the thread.  The objects are numbered    *)
(* and the owner works on one of them, cur, at a time.                     *)
(*                                                                         *)
(* Of the EventLoop only its lifetime and quit_ are kept: loop() forgets   *)
(* an earlier quit(), and returns once quit_ is set (module EventLoop,     *)
(* QuitStops).                                                             *)
(***************************************************************************)
EXTENDS Naturals

CONSTANTS Threads,     \* numbers of the EventLoopThread objects
          NULL         \* nullptr

ASSUME ThreadsAssumption == Threads \subseteq Nat \ {0} /\ NULL \notin Threads

VARIABLES
  opc,         \* where the owner is
  cur,         \* the object the owner works on
  loop,        \* startLoop's local variable
  sem,         \* the semaphore of Thread::start has been posted
  tpc,         \* where each object's thread is
  mutex_,      \* who holds each object's mutex_
  loop_,       \* each object's loop_, written under mutex_, read by the
               \* destructor without it; k stands for the loop of thread k
  quit_,       \* quit_ of each thread's EventLoop
  selfQuit     \* history: loops told to quit by code running on them

threadVars == <<opc, cur, loop, sem, tpc, mutex_, loop_, quit_, selfQuit>>

\* "idle", "started", "destroyed": not inside the object; "start", "sem":
\* Thread::start; "lock", "check", "wait", "asleep": startLoop's critical
\* section; "dtor", "quit", "wakeup", "join": the destructor; "crashed": it
\* has called quit() through a null pointer.
OwnerPCs == {"idle", "started", "destroyed", "start", "sem", "lock", "check",
             "wait", "asleep", "dtor", "quit", "wakeup", "join", "crashed"}

\* The EventLoop exists from "init" to "unlock".
Living == {"init", "publish", "enter", "loop", "relock", "clear", "unlock"}
ThreadPCs == {"none", "tid", "ctor", "finished"} \cup Living

Alive(k) == tpc[k] \in Living

ThreadTypeOK ==
  /\ opc \in OwnerPCs
  /\ cur \in Threads
  /\ loop \in Threads \cup {NULL}
  /\ sem \in [Threads -> BOOLEAN]
  /\ tpc \in [Threads -> ThreadPCs]
  /\ mutex_ \in [Threads -> {"free", "owner", "thread"}]
  /\ loop_ \in [Threads -> Threads \cup {NULL}]
  /\ quit_ \in [Threads -> BOOLEAN]
  /\ selfQuit \in SUBSET Threads

ThreadInit ==
  /\ opc = "idle"
  /\ cur = CHOOSE k \in Threads : \A j \in Threads : k <= j
  /\ loop = NULL
  /\ sem = [k \in Threads |-> FALSE]
  /\ tpc = [k \in Threads |-> "none"]
  /\ mutex_ = [k \in Threads |-> "free"]
  /\ loop_ = [k \in Threads |-> NULL]
  /\ quit_ = [k \in Threads |-> FALSE]
  /\ selfQuit = {}

-----------------------------------------------------------------------------
(***************************************************************************)
(* The owner in startLoop().                                               *)
(***************************************************************************)

\* Thread::start creates the thread ...
StartThread ==
  /\ opc = "start"
  /\ opc' = "sem"
  /\ tpc' = [tpc EXCEPT ![cur] = "tid"]
  /\ UNCHANGED <<cur, loop, sem, mutex_, loop_, quit_, selfQuit>>

\* ... and waits until it has stored its tid.
SemWait ==
  /\ opc = "sem"
  /\ sem[cur]
  /\ opc' = "lock"
  /\ UNCHANGED <<cur, loop, sem, tpc, mutex_, loop_, quit_, selfQuit>>

\* The unique_lock, and the reacquisition inside cond_.wait.
OwnerLock ==
  /\ opc = "lock"
  /\ mutex_[cur] = "free"
  /\ mutex_' = [mutex_ EXCEPT ![cur] = "owner"]
  /\ opc' = "check"
  /\ UNCHANGED <<cur, loop, sem, tpc, loop_, quit_, selfQuit>>

\* A slip in the place of CheckLoop: no loop around cond_.wait's condition.
CheckLoopNotAtAll ==
  /\ opc = "check"
  /\ opc' = "started"
  /\ loop' = loop_[cur]
  /\ mutex_' = [mutex_ EXCEPT ![cur] = "free"]
  /\ UNCHANGED <<cur, sem, tpc, loop_, quit_, selfQuit>>

\* while (loop_ == nullptr); on the way out loop is read and mutex_ released.
CheckLoop ==
  /\ opc = "check"
  /\ \/ /\ loop_[cur] = NULL
        /\ opc' = "wait"
        /\ UNCHANGED <<loop, mutex_>>
     \/ /\ loop_[cur] # NULL
        /\ opc' = "started"
        /\ loop' = loop_[cur]
        /\ mutex_' = [mutex_ EXCEPT ![cur] = "free"]
  /\ UNCHANGED <<cur, sem, tpc, loop_, quit_, selfQuit>>

\* cond_.wait releases mutex_ and falls asleep in one step.
CondWait ==
  /\ opc = "wait"
  /\ opc' = "asleep"
  /\ mutex_' = [mutex_ EXCEPT ![cur] = "free"]
  /\ UNCHANGED <<cur, loop, sem, tpc, loop_, quit_, selfQuit>>

SpuriousWakeup ==
  /\ opc = "asleep"
  /\ opc' = "lock"
  /\ UNCHANGED <<cur, loop, sem, tpc, mutex_, loop_, quit_, selfQuit>>

-----------------------------------------------------------------------------
(***************************************************************************)
(* The owner in ~EventLoopThread().                                        *)
(***************************************************************************)

\* The test of loop_, without mutex_.  When it is null the thread is not
\* joined but, if it was started, detached by ~Thread.
DtorTest ==
  /\ opc = "dtor"
  /\ opc' = IF loop_[cur] = NULL THEN "destroyed" ELSE "quit"
  /\ UNCHANGED <<cur, loop, sem, tpc, mutex_, loop_, quit_, selfQuit>>

\* A slip in the place of DtorQuit: the loop is only woken.
DtorQuitWithoutFlag ==
  /\ opc = "quit"
  /\ opc' = IF loop_[cur] = NULL THEN "crashed" ELSE "wakeup"
  /\ UNCHANGED <<cur, loop, sem, tpc, mutex_, loop_, quit_, selfQuit>>

\* quit() sets quit_; the pointer is the one tested, or read again.
DtorQuit ==
  /\ opc = "quit"
  /\ \/ /\ loop_[cur] = NULL
        /\ opc' = "crashed"
        /\ UNCHANGED quit_
     \/ /\ opc' = "wakeup"
        /\ quit_' = [quit_ EXCEPT ![cur] = TRUE]
  /\ UNCHANGED <<cur, loop, sem, tpc, mutex_, loop_, selfQuit>>

\* The rest of quit(): isInLoopThread() and wakeup() read the loop's members.
DtorWakeup ==
  /\ opc = "wakeup"
  /\ opc' = "join"
  /\ UNCHANGED <<cur, loop, sem, tpc, mutex_, loop_, quit_, selfQuit>>

\* A slip in the place of Join: the thread is left to itself.
JoinNot ==
  /\ opc = "join"
  /\ opc' = "destroyed"
  /\ UNCHANGED <<cur, loop, sem, tpc, mutex_, loop_, quit_, selfQuit>>

Join ==
  /\ opc = "join"
  /\ tpc[cur] = "finished"
  /\ opc' = "destroyed"
  /\ UNCHANGED <<cur, loop, sem, tpc, mutex_, loop_, quit_, selfQuit>>

-----------------------------------------------------------------------------
(***************************************************************************)
(* Thread k.                                                               *)
(***************************************************************************)

\* The lambda of Thread::start up to the call of threadFunc.
StoreTid(k) ==
  /\ tpc[k] = "tid"
  /\ tpc' = [tpc EXCEPT ![k] = "ctor"]
  /\ sem' = [sem EXCEPT ![k] = TRUE]
  /\ UNCHANGED <<opc, cur, loop, mutex_, loop_, quit_, selfQuit>>

\* EventLoop loop; and callback_(&loop).
ConstructLoop(k) ==
  /\ tpc[k] = "ctor"
  /\ tpc' = [tpc EXCEPT ![k] = "init"]
  /\ UNCHANGED <<opc, cur, loop, sem, mutex_, loop_, quit_, selfQuit>>

ThreadLock(k) ==
  /\ mutex_[k] = "free"
  /\ \/ tpc[k] = "init"   /\ tpc' = [tpc EXCEPT ![k] = "publish"]
     \/ tpc[k] = "relock" /\ tpc' = [tpc EXCEPT ![k] = "clear"]
  /\ mutex_' = [mutex_ EXCEPT ![k] = "thread"]
  /\ UNCHANGED <<opc, cur, loop, sem, loop_, quit_, selfQuit>>

\* A slip in the place of Publish: loop_ is stored and nobody is notified.
PublishSilently(k) ==
  /\ tpc[k] = "publish"
  /\ tpc' = [tpc EXCEPT ![k] = "enter"]
  /\ loop_' = [loop_ EXCEPT ![k] = k]
  /\ mutex_' = [mutex_ EXCEPT ![k] = "free"]
  /\ UNCHANGED <<opc, cur, loop, sem, quit_, selfQuit>>

\* loop_ = &loop; cond_.notify_one(); and the end of the critical section.
Publish(k) ==
  /\ tpc[k] = "publish"
  /\ tpc' = [tpc EXCEPT ![k] = "enter"]
  /\ loop_' = [loop_ EXCEPT ![k] = k]
  /\ opc' = IF opc = "asleep" /\ cur = k THEN "lock" ELSE opc
  /\ mutex_' = [mutex_ EXCEPT ![k] = "free"]
  /\ UNCHANGED <<cur, loop, sem, quit_, selfQuit>>

\* loop() starts by forgetting an earlier quit().
EnterLoop(k) ==
  /\ tpc[k] = "enter"
  /\ tpc' = [tpc EXCEPT ![k] = "loop"]
  /\ quit_' = [quit_ EXCEPT ![k] = FALSE]
  /\ UNCHANGED <<opc, cur, loop, sem, mutex_, loop_, selfQuit>>

\* A callback or a functor calls quit() on the loop that runs it.
SelfQuit(k) ==
  /\ tpc[k] = "loop"
  /\ ~quit_[k]
  /\ quit_' = [quit_ EXCEPT ![k] = TRUE]
  /\ selfQuit' = selfQuit \cup {k}
  /\ UNCHANGED <<opc, cur, loop, sem, tpc, mutex_, loop_>>

LeaveLoop(k) ==
  /\ tpc[k] = "loop"
  /\ quit_[k]
  /\ tpc' = [tpc EXCEPT ![k] = "relock"]
  /\ UNCHANGED <<opc, cur, loop, sem, mutex_, loop_, quit_, selfQuit>>

ClearLoop(k) ==
  /\ tpc[k] = "clear"
  /\ tpc' = [tpc EXCEPT ![k] = "unlock"]
  /\ loop_' = [loop_ EXCEPT ![k] = NULL]
  /\ UNCHANGED <<opc, cur, loop, sem, mutex_, quit_, selfQuit>>

\* The destructors at the end of threadFunc: of the lock, then of the loop.
FinishThread(k) ==
  /\ tpc[k] = "unlock"
  /\ tpc' = [tpc EXCEPT ![k] = "finished"]
  /\ mutex_' = [mutex_ EXCEPT ![k] = "free"]
  /\ UNCHANGED <<opc, cur, loop, sem, loop_, quit_, selfQuit>>

-----------------------------------------------------------------------------
OwnerStep ==
  \/ StartThread \/ SemWait \/ OwnerLock \/ CheckLoop \/ CondWait
  \/ DtorTest \/ DtorQuit \/ DtorWakeup \/ Join

ThreadStep(k) ==
  \/ StoreTid(k) \/ ConstructLoop(k) \/ ThreadLock(k) \/ Publish(k)
  \/ EnterLoop(k) \/ LeaveLoop(k) \/ ClearLoop(k) \/ FinishThread(k)

\* What happens or not as the system and the user please.
MayHappen == SpuriousWakeup \/ \E k \in Threads : SelfQuit(k)

=============================================================================
