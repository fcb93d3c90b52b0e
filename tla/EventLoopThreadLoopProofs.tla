---------------------- MODULE EventLoopThreadLoopProofs ----------------------
(***************************************************************************)
(* Theorems about EventLoopThreadLoop, for a pool of any size: the         *)
(* handshake of startLoop(), the destructors and the dealing of            *)
(* getNextLoop().                                                          *)
(***************************************************************************)

EXTENDS EventLoopThreadLoop, SequenceTheorems, TLAPS

-----------------------------------------------------------------------------
(***************************************************************************)
(* The inductive invariant.                                                *)
(***************************************************************************)

\* The numbers of the objects.
LEMMA ConstantTypes ==
  /\ Threads = 1 .. MaxThreads /\ MaxThreads \in Nat \ {0} /\ NULL \notin Threads
  /\ \A k \in Threads : k \in Nat \ {0} /\ k # NULL
BY ThreadsAssumption, PoolAssumption

\* The owner inside startLoop(), and inside the destructor.
StartPCs == {"start", "sem", "lock", "check", "wait", "asleep", "started"}
DtorPCs == {"dtor", "quit", "wakeup", "join", "destroyed", "crashed"}

\* Where a thread has its loop in loop_, and where it is after its loop was left.
Publishing == {"enter", "loop", "relock", "clear"}
Quitting == {"relock", "clear", "unlock", "finished"}

\* Thread k has stored its loop in loop_, if only to clear it again.
Published(k) == tpc[k] \in Publishing \cup Quitting

\* The pool and its owner: startLoop() has been called for the first objects,
\* one after the other, and each call has returned the loop of its thread.
PoolInv ==
  /\ ppc = "new" => opc = "idle" /\ cur = 1 /\ loops_ = <<>>
  /\ ppc = "starting" =>
       /\ opc \in StartPCs /\ cur \in 1 .. numThreads_ /\ Len(loops_) + 1 = cur
       /\ opc = "started" => loop = cur /\ Published(cur)
  /\ ppc = "running" => opc = "idle"
  /\ ppc = "destroying" => opc \in DtorPCs /\ cur \in 1 .. numThreads_
  /\ ppc = "gone" => opc \in {"idle", "destroyed"}
  /\ ppc \in {"running", "destroying", "gone"} => Len(loops_) = numThreads_
  /\ \A k \in 1 .. Len(loops_) : loops_[k] = k /\ Published(k)

\* Thread::start has been called for object k.
Begun(k) == k <= Len(loops_) \/ (ppc = "starting" /\ k = cur /\ opc # "start")

\* The threads: which of them run, what loop_ is at each point of threadFunc, and
\* who holds mutex_.
ThreadInv ==
  \A k \in Threads :
    /\ Begun(k) <=> tpc[k] # "none"
    /\ loop_[k] = IF tpc[k] \in Publishing THEN k ELSE NULL
    /\ mutex_[k] = "owner" <=> k = cur /\ opc \in {"check", "wait"}
    /\ mutex_[k] = "thread" <=> tpc[k] \in {"publish", "clear", "unlock"}

\* The destructor of object k has called quit().
Told(k) ==
  \/ ppc = "gone" /\ k <= numThreads_
  \/ ppc = "destroying" /\ (k < cur \/ (k = cur /\ opc \notin {"dtor", "quit"}))

\* quit_ holds from the end of loop() on, and was set by the destructor or by the
\* loop itself; so a null loop_ that the destructor finds is a loop that quit itself.
QuitInv ==
  \A k \in Threads :
    /\ tpc[k] \in Quitting => quit_[k]
    /\ quit_[k] => k \in selfQuit \/ Told(k)
    /\ Destroyed(k) /\ k \notin selfQuit => tpc[k] = "finished"

\* Whether loop k has been handed out in the present round.
Dealt(k) == IF k <= next_ THEN 1 ELSE 0

\* getNextLoop(): but for the present round, every loop was handed out as often.
HandedInv ==
  /\ ppc \in {"new", "starting"} =>
       next_ = 0 /\ \A k \in DOMAIN handed : handed[k] = 0
  /\ handed[BaseLoop] > 0 => loops_ = <<>>
  /\ \A j, k \in 1 .. Len(loops_) : handed[j] + Dealt(k) = handed[k] + Dealt(j)

\* The inductive invariant.
IInv == TypeOK /\ PoolInv /\ ThreadInv /\ QuitInv /\ HandedInv

\* The invariant holds of a new pool.
LEMMA InitIInv == Init => IInv
<1> SUFFICES ASSUME Init PROVE IInv
  OBVIOUS
<1>1. cur \in Threads /\ cur = 1
  <2>1. 1 \in Threads /\ \A j \in Threads : 1 <= j
    BY ConstantTypes
  <2>2. cur = CHOOSE k \in Threads : \A j \in Threads : k <= j
    BY DEF Init, ThreadInit
  <2> QED
    BY <2>1, <2>2, ConstantTypes
<1>2. /\ opc = "idle" /\ loop = NULL /\ selfQuit = {}
      /\ sem = [k \in Threads |-> FALSE] /\ tpc = [k \in Threads |-> "none"]
      /\ mutex_ = [k \in Threads |-> "free"] /\ loop_ = [k \in Threads |-> NULL]
      /\ quit_ = [k \in Threads |-> FALSE]
      /\ ppc = "new" /\ numThreads_ \in 0 .. MaxThreads /\ loops_ = <<>> /\ next_ = 0
      /\ handed = [k \in Threads \cup {BaseLoop} |-> 0]
      /\ Len(loops_) = 0
  BY DEF Init, ThreadInit
<1>3. TypeOK
  <2>1. ThreadTypeOK
    BY <1>1, <1>2 DEF ThreadTypeOK, OwnerPCs, ThreadPCs, Living
  <2> QED
    BY <1>2, <2>1 DEF TypeOK
<1>4. PoolInv
  BY <1>1, <1>2 DEF PoolInv
<1>5. ThreadInv
  BY <1>2, ConstantTypes DEF ThreadInv, Begun, Publishing
<1>6. QuitInv
  BY <1>2 DEF QuitInv, Quitting, Destroyed
<1>7. HandedInv
  BY <1>2 DEF HandedInv
<1> QED
  BY <1>3, <1>4, <1>5, <1>6, <1>7 DEF IInv

-----------------------------------------------------------------------------
(***************************************************************************)
(* The steps of the pool.                                                  *)
(***************************************************************************)

\* start() keeps it.
LEMMA StartStep == ASSUME IInv, Start PROVE IInv'
<1>1. /\ ppc = "new" /\ opc = "idle" /\ cur = 1 /\ loops_ = <<>> /\ Len(loops_) = 0
      /\ numThreads_ \in 0 .. MaxThreads
      /\ \/ numThreads_ = 0 /\ ppc' = "running" /\ opc' = "idle"
         \/ numThreads_ # 0 /\ ppc' = "starting" /\ opc' = "start"
      /\ UNCHANGED <<cur, loop, sem, tpc, mutex_, loop_, quit_, selfQuit,
                     numThreads_, loops_, next_, handed>>
  BY DEF Start, IInv, PoolInv, TypeOK
<1>2. TypeOK'
  BY <1>1 DEF IInv, TypeOK, ThreadTypeOK, OwnerPCs
<1>3. PoolInv'
  BY <1>1, ConstantTypes DEF IInv, PoolInv, Published, StartPCs
<1>4. ThreadInv'
  BY <1>1 DEF IInv, ThreadInv, Begun
<1>5. QuitInv'
  BY <1>1, ConstantTypes DEF IInv, QuitInv, Destroyed, Told
<1>6. HandedInv'
  BY <1>1 DEF IInv, HandedInv, Dealt
<1> QED
  BY <1>2, <1>3, <1>4, <1>5, <1>6 DEF IInv

\* The return of startLoop() into loops_ keeps it.
LEMMA EmplaceLoopStep == ASSUME IInv, EmplaceLoop PROVE IInv'
<1>1. /\ ppc = "starting" /\ opc = "started" /\ cur \in 1 .. numThreads_
      /\ Len(loops_) + 1 = cur /\ loop = cur /\ Published(cur)
      /\ loops_' = Append(loops_, cur)
      /\ numThreads_ \in 0 .. MaxThreads
      /\ \/ /\ cur < numThreads_ /\ cur' = cur + 1
            /\ opc' = "start" /\ ppc' = "starting"
         \/ cur = numThreads_ /\ cur' = cur /\ opc' = "idle" /\ ppc' = "running"
      /\ UNCHANGED <<loop, sem, tpc, mutex_, loop_, quit_, selfQuit, numThreads_,
                     next_, handed>>
  BY DEF EmplaceLoop, IInv, PoolInv, TypeOK
<1>2. /\ Len(loops_) \in Nat /\ loops_' \in Seq(Threads \cup {NULL})
      /\ Len(loops_') = Len(loops_) + 1 /\ cur \in Threads /\ cur' \in Threads
      /\ \A k \in 1 .. Len(loops_) : loops_'[k] = loops_[k]
      /\ loops_'[cur] = cur
  <2>1. cur \in Threads /\ cur' \in Threads
    BY <1>1, ConstantTypes
  <2> QED
    BY <1>1, <2>1, AppendProperties DEF IInv, TypeOK
<1>3. TypeOK'
  <2>1. next_ = 0
    BY <1>1 DEF IInv, HandedInv
  <2> QED
    BY <1>1, <1>2, <2>1 DEF IInv, TypeOK, ThreadTypeOK, OwnerPCs
<1>4. PoolInv'
  <2>1. \A k \in 1 .. Len(loops_') : loops_'[k] = k /\ Published(k)
    BY <1>1, <1>2 DEF IInv, PoolInv
  <2> QED
    BY <1>1, <1>2, <2>1 DEF PoolInv, Published, StartPCs
<1>5. ThreadInv'
  BY <1>1, <1>2, ConstantTypes DEF IInv, ThreadInv, Begun
<1>6. QuitInv'
  BY <1>1 DEF IInv, QuitInv, Destroyed, Told
<1>7. HandedInv'
  <2>1. next_ = 0 /\ \A k \in DOMAIN handed : handed[k] = 0
    BY <1>1 DEF IInv, HandedInv
  <2>2. DOMAIN handed = Threads \cup {BaseLoop}
    BY DEF IInv, TypeOK
  <2>3. \A k \in 1 .. Len(loops_') : k \in Threads
    BY <1>1, <1>2, ConstantTypes
  <2> QED
    BY <1>1, <2>1, <2>2, <2>3, ConstantTypes DEF HandedInv, Dealt
<1> QED
  BY <1>3, <1>4, <1>5, <1>6, <1>7 DEF IInv

\* The call of the destructor keeps it.
LEMMA DestroyStep == ASSUME IInv, Destroy PROVE IInv'
<1>1. /\ ppc = "running" /\ opc = "idle" /\ Len(loops_) = numThreads_
      /\ numThreads_ \in 0 .. MaxThreads
      /\ \/ numThreads_ = 0 /\ ppc' = "gone" /\ opc' = opc /\ cur' = cur
         \/ numThreads_ # 0 /\ ppc' = "destroying" /\ opc' = "dtor" /\ cur' = 1
      /\ UNCHANGED <<loop, sem, tpc, mutex_, loop_, quit_, selfQuit, numThreads_,
                     loops_, next_, handed>>
  BY DEF Destroy, IInv, PoolInv, TypeOK
<1>2. TypeOK'
  <2>1. cur' \in Threads
    BY <1>1, ConstantTypes DEF IInv, TypeOK, ThreadTypeOK
  <2> QED
    BY <1>1, <2>1 DEF IInv, TypeOK, ThreadTypeOK, OwnerPCs
<1>3. PoolInv'
  BY <1>1, ConstantTypes DEF IInv, PoolInv, Published, DtorPCs
<1>4. ThreadInv'
  BY <1>1 DEF IInv, ThreadInv, Begun
<1>5. QuitInv'
  BY <1>1, ConstantTypes DEF IInv, QuitInv, Destroyed, Told
<1>6. HandedInv'
  BY <1>1 DEF IInv, HandedInv, Dealt
<1> QED
  BY <1>2, <1>3, <1>4, <1>5, <1>6 DEF IInv

\* The next EventLoopThread destroyed keeps it.
LEMMA DestroyNextStep == ASSUME IInv, DestroyNext PROVE IInv'
<1>1. /\ ppc = "destroying" /\ opc = "destroyed" /\ Len(loops_) = numThreads_
      /\ numThreads_ \in 0 .. MaxThreads /\ cur \in 1 .. numThreads_
      /\ \/ cur < numThreads_ /\ cur' = cur + 1 /\ opc' = "dtor" /\ ppc' = ppc
         \/ cur = numThreads_ /\ ppc' = "gone" /\ opc' = opc /\ cur' = cur
      /\ UNCHANGED <<loop, sem, tpc, mutex_, loop_, quit_, selfQuit, numThreads_,
                     loops_, next_, handed>>
  BY DEF DestroyNext, IInv, PoolInv, TypeOK
<1>2. TypeOK'
  <2>1. cur' \in Threads
    BY <1>1, ConstantTypes
  <2> QED
    BY <1>1, <2>1 DEF IInv, TypeOK, ThreadTypeOK, OwnerPCs
<1>3. PoolInv'
  BY <1>1, ConstantTypes DEF IInv, PoolInv, Published, DtorPCs
<1>4. ThreadInv'
  BY <1>1 DEF IInv, ThreadInv, Begun
<1>5. QuitInv'
  BY <1>1, ConstantTypes DEF IInv, QuitInv, Destroyed, Told
<1>6. HandedInv'
  BY <1>1 DEF IInv, HandedInv, Dealt
<1> QED
  BY <1>2, <1>3, <1>4, <1>5, <1>6 DEF IInv

\* getNextLoop() keeps it.
LEMMA GetNextLoopStep == ASSUME IInv, GetNextLoop PROVE IInv'
<1>1. /\ ppc = "running"
      /\ handed' = [handed EXCEPT ![NextLoop] = @ + 1]
      /\ next_' = IF loops_ = <<>> THEN next_ ELSE NextIndex
      /\ UNCHANGED <<opc, cur, loop, sem, tpc, mutex_, loop_, quit_, selfQuit,
                     ppc, numThreads_, loops_>>
  BY DEF GetNextLoop, threadVars
<1>2. /\ loops_ \in Seq(Threads \cup {NULL}) /\ Len(loops_) \in 0 .. MaxThreads
      /\ \A k \in 1 .. Len(loops_) : loops_[k] = k /\ k \in Threads
      /\ handed \in [Threads \cup {BaseLoop} -> Nat]
      /\ next_ = 0 \/ next_ \in 1 .. Len(loops_) - 1
  BY <1>1, ConstantTypes DEF IInv, TypeOK, PoolInv
<1>3. CASE loops_ = <<>>
  <2>1. NextLoop = BaseLoop /\ next_' = next_ /\ Len(loops_) = 0
    BY <1>1, <1>3 DEF NextLoop
  <2>2. handed' \in [Threads \cup {BaseLoop} -> Nat]
    BY <1>1, <1>2, <2>1
  <2>3. TypeOK'
    BY <1>1, <2>1, <2>2 DEF IInv, TypeOK, ThreadTypeOK
  <2>4. HandedInv'
    BY <1>1, <1>3, <2>1 DEF HandedInv
  <2> QED
    BY <1>1, <2>3, <2>4 DEF IInv, PoolInv, Published, ThreadInv, Begun, QuitInv,
                            Destroyed, Told
<1>4. CASE loops_ # <<>>
  <2> DEFINE n == Len(loops_)
  <2>1. n \in 1 .. MaxThreads /\ n \in Nat /\ next_ \in 0 .. n - 1
    BY <1>2, <1>4, ConstantTypes
  <2>2. NextLoop = next_ + 1 /\ next_ + 1 \in Threads /\ next_ + 1 # BaseLoop
    BY <1>2, <1>4, <2>1 DEF NextLoop, BaseLoop
  <2>3. \/ next_ + 1 = n /\ next_' = 0
        \/ next_ + 1 < n /\ next_' = next_ + 1
    BY <1>1, <1>4, <2>1 DEF NextIndex
  <2>4. /\ handed' \in [Threads \cup {BaseLoop} -> Nat]
        /\ handed'[next_ + 1] = handed[next_ + 1] + 1
        /\ \A k \in Threads \cup {BaseLoop} : k # next_ + 1 => handed'[k] = handed[k]
    BY <1>1, <1>2, <2>2
  <2>5. TypeOK'
    <3>1. next_' = 0 \/ next_' \in 1 .. Len(loops_') - 1
      <4>1. next_' = 0 \/ next_' \in 1 .. n - 1
        BY <2>1, <2>3
      <4>2. loops_' = loops_
        BY <1>1
      <4> QED
        BY <4>1, <4>2
    <3> QED
      BY <1>1, <2>4, <3>1 DEF IInv, TypeOK, ThreadTypeOK
  <2>6. HandedInv'
    <3>1. handed'[BaseLoop] > 0 => loops_' = <<>>
      BY <1>1, <2>2, <2>4 DEF IInv, HandedInv
    <3>2. ASSUME NEW j \in 1 .. n, NEW k \in 1 .. n
          PROVE  handed'[j] + Dealt(k)' = handed'[k] + Dealt(j)'
      <4>1. handed[j] + Dealt(k) = handed[k] + Dealt(j)
        BY DEF IInv, HandedInv
      <4>2. /\ handed[j] \in Nat /\ handed[k] \in Nat
            /\ handed'[j] = IF j = next_ + 1 THEN handed[j] + 1 ELSE handed[j]
            /\ handed'[k] = IF k = next_ + 1 THEN handed[k] + 1 ELSE handed[k]
        <5>1. j \in Threads /\ k \in Threads
          BY <1>2
        <5>2. handed[j] \in Nat /\ handed[k] \in Nat
          BY <1>2, <5>1
        <5> QED
          BY <2>4, <5>1, <5>2
      <4> QED
        BY <2>1, <2>3, <4>1, <4>2 DEF Dealt
    <3> QED
      BY <1>1, <3>1, <3>2 DEF HandedInv
  <2> QED
    BY <1>1, <2>5, <2>6 DEF IInv, PoolInv, Published, ThreadInv, Begun, QuitInv,
                            Destroyed, Told
<1> QED
  BY <1>3, <1>4

-----------------------------------------------------------------------------
(***************************************************************************)
(* The steps of the owner and of the threads.                              *)
(***************************************************************************)

\* Steps of the owner and of the threads leave the pool's own state alone.
LEMMA PoolFrame ==
  ASSUME IInv, UNCHANGED poolVars, ThreadTypeOK'
  PROVE  TypeOK' /\ HandedInv'
BY DEF IInv, TypeOK, HandedInv, Dealt, poolVars

\* startLoop() keeps the invariant at each of its steps.
LEMMA OwnerStartsStep ==
  ASSUME IInv, StartThread \/ SemWait \/ OwnerLock \/ CheckLoop \/ CondWait
                 \/ SpuriousWakeup,
         UNCHANGED poolVars
  PROVE  IInv'
<1>1. /\ ppc = "starting" /\ cur \in 1 .. numThreads_ /\ Len(loops_) + 1 = cur
      /\ Len(loops_) \in Nat /\ cur \in Threads /\ opc # "started"
  <2>1. opc \in {"start", "sem", "lock", "check", "wait", "asleep"}
    BY DEF StartThread, SemWait, OwnerLock, CheckLoop, CondWait, SpuriousWakeup
  <2> QED
    BY <2>1 DEF IInv, PoolInv, TypeOK, ThreadTypeOK, StartPCs, DtorPCs
<1>2. /\ UNCHANGED <<ppc, numThreads_, loops_, next_, handed, cur, sem, loop_, quit_,
                     selfQuit>>
      /\ opc' \in StartPCs
  BY DEF StartThread, SemWait, OwnerLock, CheckLoop, CondWait, SpuriousWakeup,
         poolVars, StartPCs
<1>3. ThreadTypeOK
  BY DEF IInv, TypeOK
<1>4. \A k \in Threads :
        /\ Begun(k) <=> tpc[k] # "none"
        /\ loop_[k] = IF tpc[k] \in Publishing THEN k ELSE NULL
        /\ mutex_[k] = "owner" <=> k = cur /\ opc \in {"check", "wait"}
        /\ mutex_[k] = "thread" <=> tpc[k] \in {"publish", "clear", "unlock"}
  BY DEF IInv, ThreadInv
<1>5. /\ opc' = "started" => loop' = cur /\ Published(cur)
      /\ ThreadTypeOK'
      /\ ThreadInv'
      /\ tpc' = tpc \/ (tpc[cur] = "none" /\ tpc' = [tpc EXCEPT ![cur] = "tid"])
  <2>1. CASE StartThread
    <3>1. tpc[cur] = "none"
      BY <1>1, <1>4, <2>1 DEF Begun, StartThread
    <3>2. /\ opc = "start" /\ opc' = "sem" /\ tpc' = [tpc EXCEPT ![cur] = "tid"]
          /\ UNCHANGED <<loop, mutex_>>
      BY <2>1 DEF StartThread
    <3>3. ThreadTypeOK'
      BY <1>2, <1>3, <3>2 DEF ThreadTypeOK, OwnerPCs, ThreadPCs
    <3>4. ThreadInv'
      BY <1>1, <1>2, <1>3, <1>4, <3>1, <3>2
         DEF ThreadInv, Begun, Publishing, ThreadTypeOK
    <3> QED
      BY <3>1, <3>2, <3>3, <3>4
  <2>2. CASE SemWait \/ SpuriousWakeup
    <3>1. /\ opc' = "lock" /\ opc \in {"sem", "asleep"}
          /\ UNCHANGED <<tpc, mutex_, loop>>
      BY <2>2 DEF SemWait, SpuriousWakeup
    <3>2. ThreadTypeOK'
      BY <1>2, <1>3, <3>1 DEF ThreadTypeOK, OwnerPCs
    <3>3. ThreadInv'
      BY <1>2, <1>4, <3>1 DEF ThreadInv, Begun
    <3> QED
      BY <3>1, <3>2, <3>3
  <2>3. CASE OwnerLock
    <3>1. /\ opc' = "check" /\ opc = "lock" /\ UNCHANGED <<tpc, loop>>
          /\ mutex_[cur] = "free" /\ mutex_' = [mutex_ EXCEPT ![cur] = "owner"]
      BY <2>3 DEF OwnerLock
    <3>2. ThreadTypeOK'
      BY <1>2, <1>3, <3>1 DEF ThreadTypeOK, OwnerPCs
    <3>3. ThreadInv'
      BY <1>1, <1>2, <1>3, <1>4, <3>1 DEF ThreadInv, Begun, ThreadTypeOK
    <3> QED
      BY <3>1, <3>2, <3>3
  <2>4. CASE CondWait \/ (CheckLoop /\ loop_[cur] # NULL)
    <3>1. /\ opc \in {"check", "wait"} /\ UNCHANGED tpc
          /\ opc' \in {"asleep", "started"} /\ loop' \in {loop, loop_[cur]}
          /\ opc' = "started" => loop_[cur] # NULL /\ loop' = loop_[cur]
          /\ mutex_' = [mutex_ EXCEPT ![cur] = "free"]
      BY <2>4 DEF CondWait, CheckLoop
    <3>2. mutex_[cur] = "owner"
      BY <1>1, <1>4, <3>1
    <3>3. ThreadTypeOK'
      BY <1>1, <1>2, <1>3, <3>1 DEF ThreadTypeOK, OwnerPCs
    <3>4. ThreadInv'
      BY <1>1, <1>2, <1>3, <1>4, <3>1, <3>2 DEF ThreadInv, Begun, ThreadTypeOK
    <3>5. loop_[cur] # NULL => loop_[cur] = cur /\ Published(cur)
      BY <1>1, <1>4 DEF Published
    <3> QED
      BY <3>1, <3>3, <3>4, <3>5
  <2>5. CASE CheckLoop /\ loop_[cur] = NULL
    <3>1. /\ opc = "check" /\ opc' = "wait" /\ UNCHANGED <<tpc, loop, mutex_>>
      BY <2>5 DEF CheckLoop
    <3>2. ThreadTypeOK'
      BY <1>2, <1>3, <3>1 DEF ThreadTypeOK, OwnerPCs
    <3>3. ThreadInv'
      BY <1>2, <1>4, <3>1 DEF ThreadInv, Begun
    <3> QED
      BY <3>1, <3>2, <3>3
  <2> QED
    BY <2>1, <2>2, <2>3, <2>4, <2>5
<1>6. \A k \in Threads : tpc[k] # "none" => tpc'[k] = tpc[k]
  BY <1>1, <1>3, <1>5 DEF ThreadTypeOK
<1>7. PoolInv'
  <2>1. \A k \in 1 .. Len(loops_) : k \in Threads /\ loops_[k] = k /\ Published(k)
    BY <1>1, ConstantTypes DEF IInv, PoolInv, TypeOK
  <2>2. \A k \in Threads : Published(k) => Published(k)'
    BY <1>6 DEF Published, Publishing, Quitting
  <2> QED
    BY <1>1, <1>2, <1>5, <2>1, <2>2 DEF PoolInv
<1>8. QuitInv'
  <2>1. \A k \in Threads : tpc'[k] \in Quitting => tpc[k] \in Quitting
    BY <1>1, <1>3, <1>5 DEF ThreadTypeOK, Quitting
  <2> QED
    BY <1>1, <1>2, <2>1 DEF IInv, QuitInv, Destroyed, Told
<1> QED
  BY <1>5, <1>7, <1>8, PoolFrame DEF IInv

\* ~EventLoopThread() keeps it at each of its steps.
LEMMA OwnerDestroysStep ==
  ASSUME IInv, DtorTest \/ DtorQuit \/ DtorWakeup \/ Join, UNCHANGED poolVars
  PROVE  IInv'
<1>1. /\ ppc = "destroying" /\ cur \in 1 .. numThreads_ /\ Len(loops_) = numThreads_
      /\ cur \in Threads
  <2>1. opc \in {"dtor", "quit", "wakeup", "join"}
    BY DEF DtorTest, DtorQuit, DtorWakeup, Join
  <2> QED
    BY <2>1 DEF IInv, PoolInv, TypeOK, ThreadTypeOK, StartPCs
<1>2. /\ UNCHANGED <<ppc, numThreads_, loops_, next_, handed, cur, loop, sem, tpc,
                     mutex_, loop_, selfQuit>>
      /\ opc \in {"dtor", "quit", "wakeup", "join"}
      /\ opc' \in DtorPCs \ {"dtor"}
      /\ opc # "dtor" => opc' # "quit"
  BY DEF DtorTest, DtorQuit, DtorWakeup, Join, poolVars, DtorPCs
<1>3. /\ quit_' = quit_ \/ quit_' = [quit_ EXCEPT ![cur] = TRUE]
  BY DEF DtorTest, DtorQuit, DtorWakeup, Join
<1>4. ThreadTypeOK /\ quit_ \in [Threads -> BOOLEAN]
  BY DEF IInv, TypeOK, ThreadTypeOK
<1>5. ThreadTypeOK'
  <2>1. quit_' \in [Threads -> BOOLEAN]
    BY <1>3, <1>4
  <2> QED
    BY <1>2, <1>4, <2>1 DEF ThreadTypeOK, OwnerPCs, DtorPCs
<1>6. PoolInv'
  BY <1>1, <1>2 DEF IInv, PoolInv, Published
<1>7. ThreadInv'
  BY <1>1, <1>2 DEF IInv, ThreadInv, Begun, DtorPCs
<1>8. QuitInv'
  <2>1. ASSUME NEW k \in Threads
        PROVE  /\ tpc[k] \in Quitting => quit_'[k]
               /\ quit_'[k] => k \in selfQuit \/ Told(k)'
    <3>1. /\ tpc[k] \in Quitting => quit_[k]
          /\ quit_[k] => k \in selfQuit \/ Told(k)
      BY DEF IInv, QuitInv
    <3>2. Told(k) => Told(k)'
      BY <1>2, <1>1 DEF Told
    <3>3. CASE quit_' = quit_
      BY <3>1, <3>2, <3>3
    <3>4. CASE quit_' # quit_
      <4>1. opc' = "wakeup" /\ quit_' = [quit_ EXCEPT ![cur] = TRUE]
        BY <3>4 DEF DtorTest, DtorQuit, DtorWakeup, Join
      <4>2. k = cur => Told(k)'
        BY <1>1, <1>2, <4>1 DEF Told
      <4> QED
        BY <1>4, <3>1, <3>2, <4>1, <4>2
    <3> QED
      BY <3>3, <3>4
  <2>2. ASSUME NEW k \in Threads, Destroyed(k)', k \notin selfQuit
        PROVE  tpc[k] = "finished"
    <3>1. CASE Destroyed(k)
      BY <2>2, <3>1 DEF IInv, QuitInv
    <3>2. CASE ~Destroyed(k)
      <4>1. k = cur /\ opc' = "destroyed" /\ ~(k < cur)
        BY <1>1, <1>2, <2>2, <3>2, ConstantTypes DEF Destroyed
      <4>2. CASE Join
        BY <4>1, <4>2 DEF Join
      <4>3. CASE DtorTest
        <5>1. opc = "dtor" /\ loop_[cur] = NULL
          BY <4>1, <4>3 DEF DtorTest
        <5>2. tpc[cur] \notin Publishing
          BY <1>1, <5>1, ConstantTypes DEF IInv, ThreadInv
        <5>3. Published(cur)
          BY <1>1 DEF IInv, PoolInv
        <5>4. quit_[cur]
          BY <1>1, <5>2, <5>3 DEF Published, IInv, QuitInv
        <5>5. ~Told(cur)
          BY <1>1, <4>1, <5>1 DEF Told
        <5> QED
          BY <1>1, <2>2, <4>1, <5>4, <5>5 DEF IInv, QuitInv
      <4> QED
        BY <4>1, <4>2, <4>3 DEF DtorQuit, DtorWakeup
    <3> QED
      BY <3>1, <3>2
  <2> QED
    BY <1>2, <2>1, <2>2 DEF QuitInv
<1> QED
  BY <1>2, <1>5, <1>6, <1>7, <1>8, PoolFrame DEF IInv

\* What a step of thread k may do.
LEMMA ThreadChange ==
  ASSUME IInv, NEW k \in Threads, ThreadTypeOK',
         UNCHANGED <<ppc, numThreads_, loops_, next_, handed, cur, loop>>,
         opc' = opc \/ (opc = "asleep" /\ opc' = "lock"),
         \A j \in Threads \ {k} :
           /\ tpc'[j] = tpc[j] /\ mutex_'[j] = mutex_[j]
           /\ loop_'[j] = loop_[j] /\ quit_'[j] = quit_[j],
         tpc[k] \notin {"none", "finished"}, tpc'[k] # "none",
         Published(k) => Published(k)',
         loop_'[k] = IF tpc'[k] \in Publishing THEN k ELSE NULL,
         mutex_'[k] = "owner" <=> mutex_[k] = "owner",
         mutex_'[k] = "thread" <=> tpc'[k] \in {"publish", "clear", "unlock"},
         tpc'[k] \in Quitting => quit_'[k],
         quit_'[k] => quit_[k] \/ k \in selfQuit',
         selfQuit \subseteq selfQuit'
  PROVE  IInv'
<1>1. \A j \in Threads : Published(j) => Published(j)'
  BY DEF Published
<1>2. PoolInv'
  <2>1. \A j \in 1 .. Len(loops_) : j \in Threads /\ loops_[j] = j /\ Published(j)
    <3>1. Len(loops_) \in 0 .. MaxThreads
      BY ConstantTypes DEF IInv, PoolInv, TypeOK
    <3> QED
      BY <3>1, ConstantTypes DEF IInv, PoolInv
  <2>2. ppc \in {"new", "running", "destroying", "gone"} => opc' = opc
    BY DEF IInv, PoolInv, DtorPCs
  <2>3. cur \in Threads
    BY DEF IInv, TypeOK, ThreadTypeOK
  <2>4. ppc = "starting" =>
          opc' \in StartPCs /\ (opc' = "started" => opc = "started")
    BY DEF IInv, PoolInv, StartPCs
  <2> QED
    BY <1>1, <2>1, <2>2, <2>3, <2>4 DEF IInv, PoolInv
<1>3. ThreadInv'
  <2>1. ASSUME NEW j \in Threads
        PROVE  /\ Begun(j)' <=> Begun(j)
               /\ tpc'[j] # "none" <=> tpc[j] # "none"
               /\ mutex_'[j] = "owner" <=> mutex_[j] = "owner"
               /\ opc' \in {"check", "wait"} <=> opc \in {"check", "wait"}
    BY DEF Begun
  <2> QED
    BY <2>1 DEF IInv, ThreadInv
<1>4. QuitInv'
  <2>1. ASSUME NEW j \in Threads
        PROVE  /\ Told(j) => Told(j)'
               /\ Destroyed(j)' => Destroyed(j)
    BY DEF Told, Destroyed
  <2>2. Destroyed(k) => k \in selfQuit
    BY DEF IInv, QuitInv
  <2> QED
    BY <2>1, <2>2 DEF IInv, QuitInv
<1> QED
  BY <1>2, <1>3, <1>4, PoolFrame DEF IInv, poolVars

\* threadFunc keeps the invariant at each of its steps, and so does a quit() on
\* the loop's own thread.
LEMMA ThreadsStep ==
  ASSUME IInv, NEW k \in Threads, ThreadStep(k) \/ SelfQuit(k), UNCHANGED poolVars
  PROVE  IInv'
<1>1. /\ ThreadTypeOK
      /\ tpc \in [Threads -> ThreadPCs] /\ loop_ \in [Threads -> Threads \cup {NULL}]
      /\ mutex_ \in [Threads -> {"free", "owner", "thread"}]
      /\ quit_ \in [Threads -> BOOLEAN] /\ sem \in [Threads -> BOOLEAN]
  BY DEF IInv, TypeOK, ThreadTypeOK
<1>2. /\ loop_[k] = IF tpc[k] \in Publishing THEN k ELSE NULL
      /\ mutex_[k] = "thread" <=> tpc[k] \in {"publish", "clear", "unlock"}
      /\ tpc[k] \in Quitting => quit_[k]
  BY DEF IInv, ThreadInv, QuitInv
<1>3. UNCHANGED <<ppc, numThreads_, loops_, next_, handed, cur, loop>>
  BY DEF ThreadStep, StoreTid, ConstructLoop, ThreadLock, Publish, EnterLoop,
         LeaveLoop, ClearLoop, FinishThread, SelfQuit, poolVars
<1>4. CASE StoreTid(k) \/ ConstructLoop(k)
  <2>1. /\ \/ tpc[k] = "tid" /\ tpc' = [tpc EXCEPT ![k] = "ctor"]
              /\ sem' = [sem EXCEPT ![k] = TRUE]
           \/ tpc[k] = "ctor" /\ tpc' = [tpc EXCEPT ![k] = "init"] /\ sem' = sem
        /\ UNCHANGED <<opc, mutex_, loop_, quit_, selfQuit>>
    BY <1>4 DEF StoreTid, ConstructLoop
  <2>2. ThreadTypeOK'
    BY <1>1, <1>3, <2>1 DEF ThreadTypeOK, ThreadPCs, Living
  <2> QED
    BY <1>1, <1>2, <1>3, <2>1, <2>2, ThreadChange
       DEF Published, Publishing, Quitting
<1>5. CASE ThreadLock(k)
  <2>1. /\ \/ tpc[k] = "init" /\ tpc' = [tpc EXCEPT ![k] = "publish"]
           \/ tpc[k] = "relock" /\ tpc' = [tpc EXCEPT ![k] = "clear"]
        /\ mutex_[k] = "free" /\ mutex_' = [mutex_ EXCEPT ![k] = "thread"]
        /\ UNCHANGED <<opc, sem, loop_, quit_, selfQuit>>
    BY <1>5 DEF ThreadLock
  <2>2. ThreadTypeOK'
    BY <1>1, <1>3, <2>1 DEF ThreadTypeOK, ThreadPCs, Living
  <2> QED
    BY <1>1, <1>2, <1>3, <2>1, <2>2, ThreadChange
       DEF Published, Publishing, Quitting
<1>6. CASE Publish(k)
  <2>1. /\ tpc[k] = "publish" /\ tpc' = [tpc EXCEPT ![k] = "enter"]
        /\ loop_' = [loop_ EXCEPT ![k] = k]
        /\ opc' = opc \/ (opc = "asleep" /\ opc' = "lock")
        /\ mutex_' = [mutex_ EXCEPT ![k] = "free"]
        /\ UNCHANGED <<sem, quit_, selfQuit>>
    BY <1>6 DEF Publish
  <2>2. ThreadTypeOK'
    BY <1>1, <1>3, <2>1 DEF ThreadTypeOK, ThreadPCs, Living, OwnerPCs
  <2> QED
    BY <1>1, <1>2, <1>3, <2>1, <2>2, ThreadChange
       DEF Published, Publishing, Quitting
<1>7. CASE EnterLoop(k)
  <2>1. /\ tpc[k] = "enter" /\ tpc' = [tpc EXCEPT ![k] = "loop"]
        /\ quit_' = [quit_ EXCEPT ![k] = FALSE]
        /\ UNCHANGED <<opc, sem, mutex_, loop_, selfQuit>>
    BY <1>7 DEF EnterLoop
  <2>2. ThreadTypeOK'
    BY <1>1, <1>3, <2>1 DEF ThreadTypeOK, ThreadPCs, Living
  <2> QED
    BY <1>1, <1>2, <1>3, <2>1, <2>2, ThreadChange
       DEF Published, Publishing, Quitting
<1>8. CASE SelfQuit(k)
  <2>1. /\ tpc[k] = "loop"
        /\ quit_' = [quit_ EXCEPT ![k] = TRUE] /\ selfQuit' = selfQuit \cup {k}
        /\ UNCHANGED <<opc, sem, tpc, mutex_, loop_>>
    BY <1>8 DEF SelfQuit
  <2>2. ThreadTypeOK'
    BY <1>1, <1>3, <2>1 DEF ThreadTypeOK
  <2> QED
    BY <1>1, <1>2, <1>3, <2>1, <2>2, ThreadChange
       DEF Published, Publishing, Quitting
<1>9. CASE LeaveLoop(k)
  <2>1. /\ tpc[k] = "loop" /\ quit_[k] /\ tpc' = [tpc EXCEPT ![k] = "relock"]
        /\ UNCHANGED <<opc, sem, mutex_, loop_, quit_, selfQuit>>
    BY <1>9 DEF LeaveLoop
  <2>2. ThreadTypeOK'
    BY <1>1, <1>3, <2>1 DEF ThreadTypeOK, ThreadPCs, Living
  <2> QED
    BY <1>1, <1>2, <1>3, <2>1, <2>2, ThreadChange
       DEF Published, Publishing, Quitting
<1>10. CASE ClearLoop(k)
  <2>1. /\ tpc[k] = "clear" /\ tpc' = [tpc EXCEPT ![k] = "unlock"]
        /\ loop_' = [loop_ EXCEPT ![k] = NULL]
        /\ UNCHANGED <<opc, sem, mutex_, quit_, selfQuit>>
    BY <1>10 DEF ClearLoop
  <2>2. ThreadTypeOK'
    BY <1>1, <1>3, <2>1 DEF ThreadTypeOK, ThreadPCs, Living
  <2> QED
    BY <1>1, <1>2, <1>3, <2>1, <2>2, ThreadChange
       DEF Published, Publishing, Quitting
<1>11. CASE FinishThread(k)
  <2>1. /\ tpc[k] = "unlock" /\ tpc' = [tpc EXCEPT ![k] = "finished"]
        /\ mutex_' = [mutex_ EXCEPT ![k] = "free"]
        /\ UNCHANGED <<opc, sem, loop_, quit_, selfQuit>>
    BY <1>11 DEF FinishThread
  <2>2. ThreadTypeOK'
    BY <1>1, <1>3, <2>1 DEF ThreadTypeOK, ThreadPCs, Living
  <2> QED
    BY <1>1, <1>2, <1>3, <2>1, <2>2, ThreadChange
       DEF Published, Publishing, Quitting
<1> QED
  BY <1>4, <1>5, <1>6, <1>7, <1>8, <1>9, <1>10, <1>11 DEF ThreadStep

\* Every step keeps the invariant.
LEMMA NextIInv == IInv /\ [Next]_vars => IInv'
<1> SUFFICES ASSUME IInv, [Next]_vars PROVE IInv'
  OBVIOUS
<1>1. CASE Start \/ EmplaceLoop \/ GetNextLoop \/ Destroy \/ DestroyNext
  BY <1>1, StartStep, EmplaceLoopStep, GetNextLoopStep, DestroyStep, DestroyNextStep
<1>2. CASE Owner
  BY <1>2, OwnerStartsStep, OwnerDestroysStep DEF Owner, OwnerStep
<1>3. CASE Other \/ \E k \in Threads : Thread(k)
  BY <1>3, OwnerStartsStep, ThreadsStep DEF Other, MayHappen, Thread
<1>4. CASE UNCHANGED vars
  BY <1>4 DEF vars, threadVars, poolVars, IInv, TypeOK, ThreadTypeOK, PoolInv,
     Published, ThreadInv, Begun, QuitInv, Told, Destroyed, HandedInv, Dealt
<1> QED
  BY <1>1, <1>2, <1>3, <1>4 DEF Next

-----------------------------------------------------------------------------
(***************************************************************************)
(* The theorems.                                                           *)
(***************************************************************************)

\* The inductive invariant holds of every behaviour.
THEOREM Invariance == Spec => []IInv
<1> QED
  BY InitIInv, NextIInv, PTL DEF Spec

\* Every variable keeps its type, and next_ stays an index into loops_
\* (EventLoopThreadLoop.cc:50).
THEOREM TypeCorrect == Spec => []TypeOK
<1>1. IInv => TypeOK
  BY DEF IInv
<1> QED
  BY <1>1, Invariance, PTL

\* startLoop() returns the loop of the thread it has started, and that loop exists
\* until it is told to quit, however the two threads interleave
\* (EventLoopThread.cc:37, 60, 69).
THEOREM LoopsLive == Spec => []LoopsAreLive
<1>1. IInv => LoopsAreLive
  <2> SUFFICES ASSUME IInv, NEW k \in DOMAIN loops_
               PROVE  loops_[k] = k /\ (Alive(k) \/ quit_[k])
    BY DEF LoopsAreLive
  <2>1. /\ k \in 1 .. Len(loops_) /\ Len(loops_) \in 0 .. MaxThreads
    BY ConstantTypes DEF IInv, PoolInv, TypeOK
  <2>2. k \in Threads /\ loops_[k] = k /\ Published(k)
    BY <2>1, ConstantTypes DEF IInv, PoolInv
  <2> QED
    BY <2>2 DEF IInv, QuitInv, Published, Publishing, Quitting, Alive, Living
<1> QED
  BY <1>1, Invariance, PTL

\* An EventLoopThread outlives its thread unless its loop quit itself
\* (EventLoopThread.cc:19).
THEOREM ThreadsEndFirst == Spec => []ThreadEndsBeforeItsObject
<1>1. IInv => ThreadEndsBeforeItsObject
  BY DEF IInv, QuitInv, ThreadEndsBeforeItsObject
<1> QED
  BY <1>1, Invariance, PTL

\* getNextLoop() hands the loops out evenly (EventLoopThreadLoop.cc:48).
THEOREM DealtEvenly == Spec => []Balanced
<1>1. IInv => Balanced
  <2> SUFFICES ASSUME IInv PROVE Balanced
    OBVIOUS
  <2>1. ASSUME NEW j \in DOMAIN loops_, NEW k \in DOMAIN loops_
        PROVE  handed[j] <= handed[k] + 1
    <3>1. /\ j \in 1 .. Len(loops_) /\ k \in 1 .. Len(loops_)
          /\ Len(loops_) \in 0 .. MaxThreads
      BY ConstantTypes DEF IInv, PoolInv, TypeOK
    <3>2. handed[j] \in Nat /\ handed[k] \in Nat
      BY <3>1, ConstantTypes DEF IInv, TypeOK
    <3>3. handed[j] + Dealt(k) = handed[k] + Dealt(j)
      BY <3>1 DEF IInv, HandedInv
    <3> QED
      BY <3>2, <3>3 DEF Dealt
  <2> QED
    BY <2>1 DEF IInv, HandedInv, Balanced
<1> QED
  BY <1>1, Invariance, PTL

=============================================================================
