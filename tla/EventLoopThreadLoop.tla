------------------------- MODULE EventLoopThreadLoop -------------------------
(***************************************************************************)
(* The pool of loops (EventLoopThreadLoop.cc): start() starts numThreads_  *)
(* EventLoopThreads one after the other, getNextLoop() hands out their     *)
(* loops in turn, and the destructor destroys the EventLoopThreads in      *)
(* order.  The owner of the pool is the thread of the base loop.           *)
(***************************************************************************)
EXTENDS EventLoopThread, Sequences

CONSTANTS MaxThreads,  \* bound on numThreads_
          MaxHandouts  \* bound on the calls of getNextLoop

ASSUME PoolAssumption ==
  /\ MaxThreads \in Nat \ {0}
  /\ MaxHandouts \in Nat
  /\ Threads = 1 .. MaxThreads

VARIABLES
  ppc,           \* the pool: "new", "starting", "running", "destroying", "gone"
  numThreads_,   \* as given to setThreadNum before start()
  loops_,        \* loops returned by startLoop(), in order
  next_,         \* getNextLoop's index into loops_, from 0 as in the code
  handed         \* history: how often each loop has been handed out (0: base)

poolVars == <<ppc, numThreads_, loops_, next_, handed>>
vars == <<threadVars, poolVars>>

BaseLoop == 0

TypeOK ==
  /\ ThreadTypeOK
  /\ ppc \in {"new", "starting", "running", "destroying", "gone"}
  /\ numThreads_ \in 0 .. MaxThreads
  /\ loops_ \in Seq(Threads \cup {NULL})
  /\ next_ = 0 \/ next_ \in 1 .. Len(loops_) - 1
  /\ handed \in [Threads \cup {BaseLoop} -> Nat]

Init ==
  /\ ThreadInit
  /\ ppc = "new"
  /\ numThreads_ \in 0 .. MaxThreads
  /\ loops_ = <<>>
  /\ next_ = 0
  /\ handed = [k \in Threads \cup {BaseLoop} |-> 0]

-----------------------------------------------------------------------------
\* start(): with no threads it is done at once, callbacks left aside.
Start ==
  /\ ppc = "new"
  /\ IF numThreads_ = 0
       THEN ppc' = "running"  /\ UNCHANGED opc
       ELSE ppc' = "starting" /\ opc' = "start"
  /\ UNCHANGED <<cur, loop, sem, tpc, mutex_, loop_, quit_, selfQuit,
                 numThreads_, loops_, next_, handed>>

\* loops_.emplace_back(t->startLoop()), and the next turn of start()'s loop.
EmplaceLoop ==
  /\ ppc = "starting"
  /\ opc = "started"
  /\ loops_' = Append(loops_, loop)
  /\ IF cur < numThreads_
       THEN cur' = cur + 1 /\ opc' = "start" /\ UNCHANGED ppc
       ELSE ppc' = "running" /\ opc' = "idle" /\ UNCHANGED cur
  /\ UNCHANGED <<loop, sem, tpc, mutex_, loop_, quit_, selfQuit, numThreads_,
                 next_, handed>>

\* A slip in the place of NextIndex: the index is compared before the increment.
NextIndexTooLate == IF next_ >= Len(loops_) THEN 0 ELSE next_ + 1

\* Another: the last loop is never reached.
NextIndexTooEarly == IF next_ + 2 >= Len(loops_) THEN 0 ELSE next_ + 1

\* getNextLoop's ++next_, back to 0 at the end.
NextIndex == IF next_ + 1 >= Len(loops_) THEN 0 ELSE next_ + 1

\* The loop getNextLoop() returns in the present state.
NextLoop == IF loops_ = <<>> THEN BaseLoop ELSE loops_[next_ + 1]

HandedTotal ==
  LET sum[k \in 0 .. MaxThreads] ==
        handed[k] + (IF k = 0 THEN 0 ELSE sum[k - 1])
  IN  sum[MaxThreads]

GetNextLoop ==
  /\ ppc = "running"
  /\ HandedTotal < MaxHandouts
  /\ handed' = [handed EXCEPT ![NextLoop] = @ + 1]
  /\ next_' = IF loops_ = <<>> THEN next_ ELSE NextIndex
  /\ UNCHANGED <<threadVars, ppc, numThreads_, loops_>>

\* ~EventLoopThreadLoop: threads_ is destroyed, the first object first.
Destroy ==
  /\ ppc = "running"
  /\ IF numThreads_ = 0
       THEN ppc' = "gone" /\ UNCHANGED <<opc, cur>>
       ELSE ppc' = "destroying" /\ opc' = "dtor" /\ cur' = 1
  /\ UNCHANGED <<loop, sem, tpc, mutex_, loop_, quit_, selfQuit, numThreads_,
                 loops_, next_, handed>>

DestroyNext ==
  /\ ppc = "destroying"
  /\ opc = "destroyed"
  /\ IF cur < numThreads_
       THEN cur' = cur + 1 /\ opc' = "dtor" /\ UNCHANGED ppc
       ELSE ppc' = "gone" /\ UNCHANGED <<opc, cur>>
  /\ UNCHANGED <<loop, sem, tpc, mutex_, loop_, quit_, selfQuit, numThreads_,
                 loops_, next_, handed>>

-----------------------------------------------------------------------------
Owner == OwnerStep /\ UNCHANGED poolVars
Thread(k) == ThreadStep(k) /\ UNCHANGED poolVars
Other == MayHappen /\ UNCHANGED poolVars

Next ==
  \/ Start \/ EmplaceLoop \/ GetNextLoop \/ Destroy \/ DestroyNext
  \/ Owner \/ Other
  \/ \E k \in Threads : Thread(k)

Spec == Init /\ [][Next]_vars

\* Every thread keeps running, and a thread that finds mutex_ free again and
\* again gets it, however often spurious wakeups let the owner in.  Nothing is
\* assumed of when the user calls start(), getNextLoop() and the destructor, of
\* spurious wakeups and of code that calls quit() on its own loop.
Fairness ==
  /\ WF_vars(Owner \/ EmplaceLoop \/ DestroyNext)
  /\ \A k \in Threads : /\ WF_vars(Thread(k))
                        /\ SF_vars(ThreadLock(k) /\ UNCHANGED poolVars)

FairSpec == Spec /\ Fairness

-----------------------------------------------------------------------------
(***************************************************************************)
(* Safety.                                                                 *)
(***************************************************************************)

\* The handshake of startLoop(): every pointer in loops_ is that thread's own
\* loop, and it points to an existing EventLoop for as long as nobody has told
\* that loop to quit.
LoopsAreLive ==
  \A k \in DOMAIN loops_ :
    /\ loops_[k] = k
    /\ Alive(k) \/ quit_[k]

\* Unless a loop was told to quit by code running on it, the destructor of an
\* EventLoopThread returns only after its thread is over, so that thread never
\* touches mutex_ and loop_ of an object that is gone.
Destroyed(k) ==
  \/ ppc = "gone" /\ k <= numThreads_
  \/ ppc = "destroying" /\ (k < cur \/ (k = cur /\ opc = "destroyed"))

ThreadEndsBeforeItsObject ==
  \A k \in Threads \ selfQuit : Destroyed(k) => tpc[k] = "finished"

\* The same without the exception: a null loop_ means the EventLoop is gone,
\* so a destructor that finds it null has nothing left to wait for.
NullLoopMeansNoThread == \A k \in Threads : Destroyed(k) => tpc[k] = "finished"

\* getNextLoop() deals the connections out evenly, and to the base loop only
\* when there is no other.
Balanced ==
  /\ handed[BaseLoop] > 0 => loops_ = <<>>
  /\ \A j, k \in DOMAIN loops_ : handed[j] <= handed[k] + 1

-----------------------------------------------------------------------------
(***************************************************************************)
(* Liveness.                                                               *)
(***************************************************************************)

\* startLoop() returns: the notification is not lost, whether it comes before
\* or after the owner goes to sleep; unless a loop quits by itself.
StartReturnsUnlessSelfQuit ==
  ppc = "starting" ~> ppc = "running" \/ selfQuit # {}

\* The pool's destructor returns if it is called once all loops are looping,
\* unless a loop quits by itself.
AllLooping == \A k \in 1 .. numThreads_ : tpc[k] = "loop"
DestroyReturnsOnceLooping ==
  ppc = "destroying" /\ opc = "dtor" /\ cur = 1 /\ AllLooping
    ~> ppc = "gone" \/ selfQuit # {}

\* The destructor returns whenever it is called: the loop, told to quit from
\* another thread, quits.
DestroyReturns == ppc = "destroying" ~> ppc = "gone" \/ selfQuit # {}

=============================================================================
