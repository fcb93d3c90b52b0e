------------------------------ MODULE TcpServer ------------------------------
(***************************************************************************)
(* The life of a connection (TcpServer.cc, with the parts of               *)
(* TcpConnection.cc, Acceptor.cc, Channel.cc and EPOLLPoller.cc it goes    *)
(* through): accept, connectEstablished, messages, close, connectDestroyed *)
(* and the release of the object, on the threads that do these things.     *)
(*                                                                         *)
(* newConnection hands every TcpConnection the server's own loop_: its     *)
(* channel belongs to the base loop's poller and its events are handled on *)
(* the base loop's thread.  Only connectEstablished runs on the loop that  *)
(* getNextLoop has chosen.                                                 *)
(*                                                                         *)
(* A loop is its thread's place, the batch doPendingFunctors is running    *)
(* and the FIFO of functors queued since (module EventLoop implements that *)
(* FIFO and wakes the loop).  What connections send and buffer, and the    *)
(* FIN of shutdownInLoop, are left out (module TcpConnection has them).    *)
(* Connection c is the c-th one accepted.                                  *)
(***************************************************************************)
EXTENDS Naturals, Sequences, FiniteSets

CONSTANTS MaxConns,    \* bound on the clients that connect
          NumSubs,     \* numThreads_: loops besides the base loop
          MaxMsgs,     \* bound on the messages the clients send
          MayStop      \* whether the base loop is ever told to quit

ASSUME ServerAssumption ==
  /\ MaxConns \in Nat \ {0}
  /\ NumSubs \in Nat
  /\ MaxMsgs \in Nat
  /\ MayStop \in BOOLEAN

Conns == 1 .. MaxConns
Base == 0
Loops == 0 .. NumSubs
Acceptor == 0      \* the acceptor among the channels; connection c is c
NoConn == 0

VARIABLES
  pc,             \* where each loop's thread is
  conn,           \* the connection each thread holds a shared_ptr to, or NoConn
  ret,            \* where each thread goes when the user's callback returns
  pending,        \* each loop's pendingFunctors_
  batch,          \* each loop's batch: functors live until its end
  idx,            \* the next functor of the batch
  quit_,          \* each loop's quit_
  started_,       \* whether start() has been called: the code counts the calls
  listenning_,
  next_,          \* getNextLoop's index
  told,           \* how many sub loops the pool's destructor has told to quit
  nextConnId_,
  connections_,   \* keys of the server's map of shared_ptrs
  state_,         \* each TcpConnection's state_, "none" before it is built
  inMap,          \* connections whose channel is in the base poller's map
  reading,        \* those whose channel epoll watches for EPOLLIN
  active,         \* activeChannels_ of the base loop not yet handled
  arrived,        \* number of clients that have connected
  peer,           \* each client: "open", "closed" (sent FIN) or "reset"
  data,           \* connections with unread data in the kernel
  sent,           \* number of messages the clients have sent
  calls,          \* history: calls of connectionCallback_ and messageCallback_
  destroyed       \* history: connections whose connectDestroyed has run

threadVars == <<pc, conn, ret, pending, batch, idx, quit_>>
serverVars == <<started_, listenning_, next_, told, nextConnId_, connections_>>
pollerVars == <<inMap, reading, active>>
peerVars == <<arrived, peer, data, sent>>
history == <<calls, destroyed>>
vars == <<threadVars, serverVars, state_, pollerVars, peerVars, history>>

\* "init", "stopped": before and after loop(); "poll"; "dispatch": between the
\* callbacks of active channels; "pending": between functors; "established",
\* "enable", "up": in connectEstablished; "user", "shutdown", "post": in the
\* user's callback; "down", "remove": in handleClose; "dtor", "join": the base
\* loop's thread in ~TcpServer and in the pool's destructor.
PCs == {"init", "poll", "dispatch", "pending", "established", "enable", "up",
        "user", "shutdown", "post", "down", "remove", "dtor", "join", "stopped"}

\* Functors hold a shared_ptr, except shutdownInLoop, bound to a raw pointer.
Functors == [run : {"connectEstablished", "connectDestroyed", "shutdownInLoop"},
             c : Conns]
Owning(f) == f.run # "shutdownInLoop"
Functor(run, c) == [run |-> run, c |-> c]

States == {"none", "kConnecting", "kConnected", "kDisconnecting",
           "kDisconnected"}

Calls == [by : {"established", "message", "closed"}, connected : BOOLEAN]

TypeOK ==
  /\ pc \in [Loops -> PCs]
  /\ conn \in [Loops -> Conns \cup {NoConn}]
  /\ ret \in [Loops -> {"dispatch", "pending", "remove"}]
  /\ pending \in [Loops -> Seq(Functors)]
  /\ batch \in [Loops -> Seq(Functors)]
  /\ \A l \in Loops : idx[l] \in 1 .. Len(batch[l]) + 1
  /\ quit_ \in [Loops -> BOOLEAN]
  /\ started_ \in BOOLEAN
  /\ listenning_ \in BOOLEAN
  /\ next_ = 0 \/ next_ \in 1 .. NumSubs - 1
  /\ told \in 0 .. NumSubs
  /\ nextConnId_ \in 1 .. MaxConns + 1
  /\ connections_ \in SUBSET Conns
  /\ state_ \in [Conns -> States]
  /\ inMap \in SUBSET Conns
  /\ reading \subseteq inMap
  /\ active \in SUBSET (Conns \cup {Acceptor})
  /\ arrived \in 0 .. MaxConns
  /\ peer \in [Conns -> {"open", "closed", "reset"}]
  /\ data \in SUBSET Conns
  /\ sent \in 0 .. MaxMsgs
  /\ calls \in [Conns -> Seq(Calls)]
  /\ destroyed \in SUBSET Conns

Init ==
  /\ pc = [l \in Loops |-> "init"]
  /\ conn = [l \in Loops |-> NoConn]
  /\ ret = [l \in Loops |-> "pending"]
  /\ pending = [l \in Loops |-> <<>>]
  /\ batch = [l \in Loops |-> <<>>]
  /\ idx = [l \in Loops |-> 1]
  /\ quit_ = [l \in Loops |-> FALSE]
  /\ started_ = FALSE
  /\ listenning_ = FALSE
  /\ next_ = 0
  /\ told = 0
  /\ nextConnId_ = 1
  /\ connections_ = {}
  /\ state_ = [c \in Conns |-> "none"]
  /\ inMap = {}
  /\ reading = {}
  /\ active = {}
  /\ arrived = 0
  /\ peer = [c \in Conns |-> "open"]
  /\ data = {}
  /\ sent = 0
  /\ calls = [c \in Conns |-> <<>>]
  /\ destroyed = {}

\* A TcpConnection exists while a shared_ptr to it does: in the map, in a
\* functor of a queue or of a batch, or in a thread handling it.
InQueue(c, s) == \E i \in DOMAIN s : Owning(s[i]) /\ s[i].c = c
Alive(c) ==
  \/ c \in connections_
  \/ \E l \in Loops : \/ conn[l] = c
                      \/ InQueue(c, pending[l])
                      \/ InQueue(c, batch[l])

Call(by, c) ==
  calls' = [calls EXCEPT ![c] = Append(@,
    [by |-> by, connected |-> state_[c] = "kConnected"])]

Goto(l, where) == pc' = [pc EXCEPT ![l] = where]
Return(l) == Goto(l, ret[l]) /\ ret' = [ret EXCEPT ![l] = "pending"]
Hold(l, c) == conn' = [conn EXCEPT ![l] = c]
Release(l) == conn' = [conn EXCEPT ![l] = NoConn]

-----------------------------------------------------------------------------
(***************************************************************************)
(* The clients, as the kernel sees them.  They may act before the server   *)
(* accepts them.                                                           *)
(***************************************************************************)
PeerConnect ==
  /\ listenning_
  /\ arrived < MaxConns
  /\ arrived' = arrived + 1
  /\ UNCHANGED <<peer, data, sent>>

PeerSend(c) ==
  /\ c <= arrived
  /\ peer[c] = "open"
  /\ sent < MaxMsgs
  /\ sent' = sent + 1
  /\ data' = data \cup {c}
  /\ UNCHANGED <<arrived, peer>>

PeerClose(c) ==
  /\ c <= arrived
  /\ peer[c] = "open"
  /\ peer' = [peer EXCEPT ![c] = "closed"]
  /\ UNCHANGED <<arrived, data, sent>>

\* A reset discards what has not been read.
PeerReset(c) ==
  /\ c <= arrived
  /\ peer[c] = "open"
  /\ peer' = [peer EXCEPT ![c] = "reset"]
  /\ data' = data \ {c}
  /\ UNCHANGED <<arrived, sent>>

Peer ==
  /\ PeerConnect \/ \E c \in Conns : PeerSend(c) \/ PeerClose(c) \/ PeerReset(c)
  /\ UNCHANGED <<threadVars, serverVars, state_, pollerVars, history>>

-----------------------------------------------------------------------------
(***************************************************************************)
(* start(), and the base loop.                                             *)
(***************************************************************************)

\* Only the first call starts the sub loops' threads and listens. startLoop()
\* returns when a thread has published its loop: it has still to enter loop().
StartServer ==
  /\ pc[Base] = "init"
  /\ started_' = TRUE
  /\ listenning_' = (listenning_ \/ ~started_)
  /\ UNCHANGED <<threadVars, next_, told, nextConnId_, connections_, state_,
                 pollerVars, peerVars, history>>

\* loop() begins by forgetting a quit() that came before it.
EnterLoop(l) ==
  /\ pc[l] = "init"
  /\ l = Base \/ started_
  /\ Goto(l, "poll")
  /\ quit_' = [quit_ EXCEPT ![l] = FALSE]
  /\ UNCHANGED <<conn, ret, pending, batch, idx, serverVars, state_,
                 pollerVars, peerVars, history>>

Quit ==
  /\ MayStop
  /\ pc[Base] \notin {"dtor", "join", "stopped"}
  /\ quit_' = [quit_ EXCEPT ![Base] = TRUE]
  /\ UNCHANGED <<pc, conn, ret, pending, batch, idx, serverVars, state_,
                 pollerVars, peerVars, history>>

Backlog == listenning_ /\ nextConnId_ <= arrived
Ready == {c \in reading : c \in data \/ peer[c] # "open"}
           \cup (IF Backlog THEN {Acceptor} ELSE {})

\* epoll_wait returns what is ready; a queued functor wakes it.
Poll ==
  /\ pc[Base] = "poll"
  /\ ~quit_[Base]
  /\ Ready # {} \/ pending[Base] # <<>>
  /\ active' = Ready
  /\ Goto(Base, "dispatch")
  /\ UNCHANGED <<conn, ret, pending, batch, idx, quit_, serverVars, state_,
                 inMap, reading, peerVars, history>>

\* doPendingFunctors' swap: after the active channels on the base loop, after a
\* wakeup on the others.
Swap(l) ==
  /\ IF l = Base THEN pc[l] = "dispatch" /\ active = {}
                 ELSE pc[l] = "poll" /\ pending[l] # <<>>
  /\ Goto(l, "pending")
  /\ batch' = [batch EXCEPT ![l] = pending[l]]
  /\ pending' = [pending EXCEPT ![l] = <<>>]
  /\ idx' = [idx EXCEPT ![l] = 1]
  /\ UNCHANGED <<conn, ret, quit_, serverVars, state_, pollerVars, peerVars,
                 history>>

\* The batch's vector goes out of scope.
EndBatch(l) ==
  /\ pc[l] = "pending"
  /\ idx[l] > Len(batch[l])
  /\ Goto(l, "poll")
  /\ batch' = [batch EXCEPT ![l] = <<>>]
  /\ idx' = [idx EXCEPT ![l] = 1]
  /\ UNCHANGED <<conn, ret, pending, quit_, serverVars, state_, pollerVars,
                 peerVars, history>>

RunsNext(l, run, c) ==
  /\ pc[l] = "pending"
  /\ idx[l] <= Len(batch[l])
  /\ batch[l][idx[l]] = Functor(run, c)
  /\ idx' = [idx EXCEPT ![l] = @ + 1]

-----------------------------------------------------------------------------
(***************************************************************************)
(* Acceptor::handleRead and newConnection.                                 *)
(***************************************************************************)

\* A slip in the place of AcceptFails: the acceptor's channel stops reading.
AcceptFailsForGood ==
  /\ pc[Base] = "dispatch"
  /\ Acceptor \in active
  /\ active' = active \ {Acceptor}
  /\ listenning_' = FALSE
  /\ UNCHANGED <<threadVars, started_, next_, told, nextConnId_, connections_,
                 state_, inMap, reading, peerVars, history>>

\* accept fails (EMFILE and the like): only logged.
AcceptFails ==
  /\ pc[Base] = "dispatch"
  /\ Acceptor \in active
  /\ active' = active \ {Acceptor}
  /\ UNCHANGED <<threadVars, serverVars, state_, inMap, reading, peerVars,
                 history>>

\* getNextLoop.
NextLoop == IF NumSubs = 0 THEN Base ELSE next_ + 1

\* runInLoop(connectEstablished): called at once if the loop is this thread's.
NewConnection(c) ==
  /\ pc[Base] = "dispatch"
  /\ Acceptor \in active
  /\ c = nextConnId_
  /\ active' = active \ {Acceptor}
  /\ nextConnId_' = nextConnId_ + 1
  /\ next_' = IF next_ + 1 >= NumSubs THEN 0 ELSE next_ + 1
  /\ state_' = [state_ EXCEPT ![c] = "kConnecting"]
  /\ connections_' = connections_ \cup {c}
  /\ IF NextLoop = Base
       THEN /\ Goto(Base, "established")
            /\ Hold(Base, c)
            /\ ret' = [ret EXCEPT ![Base] = "dispatch"]
            /\ UNCHANGED pending
       ELSE /\ pending' = [pending EXCEPT
                 ![NextLoop] = Append(@, Functor("connectEstablished", c))]
            /\ UNCHANGED <<pc, conn, ret>>
  /\ UNCHANGED <<batch, idx, quit_, started_, listenning_, told, inMap, reading,
                 peerVars, history>>

-----------------------------------------------------------------------------
(***************************************************************************)
(* connectEstablished, on the chosen loop's thread.                        *)
(***************************************************************************)
RunEstablished(l, c) ==
  /\ RunsNext(l, "connectEstablished", c)
  /\ Goto(l, "established")
  /\ Hold(l, c)
  /\ ret' = [ret EXCEPT ![l] = "pending"]
  /\ UNCHANGED <<pending, batch, quit_, serverVars, state_, pollerVars,
                 peerVars, history>>

SetConnected(l) ==
  /\ pc[l] = "established"
  /\ Goto(l, "enable")
  /\ state_' = [state_ EXCEPT ![conn[l]] = "kConnected"]
  /\ UNCHANGED <<conn, ret, pending, batch, idx, quit_, serverVars, pollerVars,
                 peerVars, history>>

\* tie and enableReading; from here on the base loop may see events.
EnableReading(l) ==
  /\ pc[l] = "enable"
  /\ Goto(l, "up")
  /\ inMap' = inMap \cup {conn[l]}
  /\ reading' = reading \cup {conn[l]}
  /\ UNCHANGED <<conn, ret, pending, batch, idx, quit_, serverVars, state_,
                 active, peerVars, history>>

\* connectionCallback_ is called.
UpCallback(l) ==
  /\ pc[l] = "up"
  /\ Goto(l, "user")
  /\ Call("established", conn[l])
  /\ UNCHANGED <<conn, ret, pending, batch, idx, quit_, serverVars, state_,
                 pollerVars, peerVars, destroyed>>

-----------------------------------------------------------------------------
(***************************************************************************)
(* The user's callbacks: they return, or call shutdown() on the connection *)
(* first.                                                                  *)
(***************************************************************************)
ReleaseUnlessClosing(l) ==
  conn' = [conn EXCEPT ![l] = IF ret[l] = "remove" THEN @ ELSE NoConn]

UserReturn(l) ==
  /\ pc[l] = "user"
  /\ Return(l)
  /\ ReleaseUnlessClosing(l)
  /\ UNCHANGED <<pending, batch, idx, quit_, serverVars, state_,
                 pollerVars, peerVars, history>>

\* A slip in the place of Shutdown: no test of state_.
ShutdownUntested(l) ==
  /\ pc[l] = "user"
  /\ Goto(l, "shutdown")
  /\ UNCHANGED <<conn, ret, pending, batch, idx, quit_, serverVars, state_,
                 pollerVars, peerVars, history>>

\* shutdown()'s test of state_; on failure shutdown() does nothing.
Shutdown(l) ==
  /\ pc[l] = "user"
  /\ state_[conn[l]] = "kConnected"
  /\ Goto(l, "shutdown")
  /\ UNCHANGED <<conn, ret, pending, batch, idx, quit_, serverVars, state_,
                 pollerVars, peerVars, history>>

SetDisconnecting(l) ==
  /\ pc[l] = "shutdown"
  /\ Goto(l, "post")
  /\ state_' = [state_ EXCEPT ![conn[l]] = "kDisconnecting"]
  /\ UNCHANGED <<conn, ret, pending, batch, idx, quit_, serverVars, pollerVars,
                 peerVars, history>>

\* runInLoop(shutdownInLoop) on the connection's loop, the base loop.
PostShutdown(l) ==
  /\ pc[l] = "post"
  /\ Return(l)
  /\ ReleaseUnlessClosing(l)
  /\ IF l = Base
       THEN UNCHANGED pending
       ELSE pending' = [pending EXCEPT
              ![Base] = Append(@, Functor("shutdownInLoop", conn[l]))]
  /\ UNCHANGED <<batch, idx, quit_, serverVars, state_, pollerVars, peerVars,
                 history>>

RunShutdownInLoop(l, c) ==
  /\ RunsNext(l, "shutdownInLoop", c)
  /\ UNCHANGED <<pc, conn, ret, pending, batch, quit_, serverVars, state_,
                 pollerVars, peerVars, history>>

-----------------------------------------------------------------------------
(***************************************************************************)
(* handleEvent of a connection's channel, on the base loop's thread; tie   *)
(* holds the connection until it returns.                                  *)
(***************************************************************************)
Handle(c) ==
  /\ pc[Base] = "dispatch"
  /\ c \in active
  /\ active' = active \ {c}

\* handleRead reads something.
Message(c) ==
  /\ Handle(c)
  /\ c \in data
  /\ data' = data \ {c}
  /\ Goto(Base, "user")
  /\ Hold(Base, c)
  /\ ret' = [ret EXCEPT ![Base] = "dispatch"]
  /\ Call("message", c)
  /\ UNCHANGED <<pending, batch, idx, quit_, serverVars, state_, inMap, reading,
                 arrived, peer, sent, destroyed>>

\* A reset since the poll: the read fails, handleError only logs, and the error
\* is gone.
ReadError(c) ==
  /\ Handle(c)
  /\ c \notin data
  /\ peer[c] = "reset"
  /\ peer' = [peer EXCEPT ![c] = "closed"]
  /\ UNCHANGED <<threadVars, serverVars, state_, inMap, reading, arrived,
                 data, sent, history>>

\* A slip in the place of HandleClose: setState(kDisconnected) is missing.
HandleCloseKeepsState(c) ==
  /\ Handle(c)
  /\ c \notin data
  /\ peer[c] # "open"
  /\ reading' = reading \ {c}
  /\ Goto(Base, "down")
  /\ Hold(Base, c)
  /\ UNCHANGED <<ret, pending, batch, idx, quit_, serverVars, state_, inMap,
                 peerVars, history>>

\* handleRead reads 0 bytes, after a reset because handleError has fetched the
\* error of EPOLLERR before: handleClose up to the user's callback.
HandleClose(c) ==
  /\ Handle(c)
  /\ c \notin data
  /\ peer[c] # "open"
  /\ state_' = [state_ EXCEPT ![c] = "kDisconnected"]
  /\ reading' = reading \ {c}
  /\ Goto(Base, "down")
  /\ Hold(Base, c)
  /\ UNCHANGED <<ret, pending, batch, idx, quit_, serverVars, inMap, peerVars,
                 history>>

DownCallback(l) ==
  /\ pc[l] = "down"
  /\ Goto(l, "user")
  /\ ret' = [ret EXCEPT ![l] = "remove"]
  /\ Call("closed", conn[l])
  /\ UNCHANGED <<conn, pending, batch, idx, quit_, serverVars, state_,
                 pollerVars, peerVars, destroyed>>

\* Slips in the place of RemoveConnection: connectDestroyed is not queued ...
RemoveConnectionOnly(l) ==
  /\ pc[l] = "remove"
  /\ Goto(l, "dispatch")
  /\ Release(l)
  /\ connections_' = connections_ \ {conn[l]}
  /\ UNCHANGED <<ret, pending, batch, idx, quit_, started_, listenning_, next_,
                 told, nextConnId_, state_, pollerVars, peerVars, history>>

\* ... or the map keeps its shared_ptr.
RemoveConnectionKeepsKey(l) ==
  /\ pc[l] = "remove"
  /\ Goto(l, "dispatch")
  /\ Release(l)
  /\ pending' = [pending EXCEPT
       ![Base] = Append(@, Functor("connectDestroyed", conn[l]))]
  /\ UNCHANGED <<ret, batch, idx, quit_, serverVars, state_, pollerVars,
                 peerVars, history>>

\* closeCallback_: removeConnection runs removeConnectionInLoop at once, which
\* queues connectDestroyed on the connection's loop, this one.
RemoveConnection(l) ==
  /\ pc[l] = "remove"
  /\ Goto(l, "dispatch")
  /\ Release(l)
  /\ connections_' = connections_ \ {conn[l]}
  /\ pending' = [pending EXCEPT
       ![Base] = Append(@, Functor("connectDestroyed", conn[l]))]
  /\ UNCHANGED <<ret, batch, idx, quit_, started_, listenning_, next_,
                 told, nextConnId_, state_, pollerVars, peerVars, history>>

-----------------------------------------------------------------------------
(***************************************************************************)
(* connectDestroyed and the end of the server.                             *)
(***************************************************************************)

\* Slips in the place of ConnectDestroyed: the channel stays in the poller's
\* map, or is taken out of the map and not out of epoll.
ConnectDestroyedStaysInMap(c) ==
  /\ IF state_[c] = "kConnected"
       THEN /\ state_' = [state_ EXCEPT ![c] = "kDisconnected"]
            /\ calls' = [calls EXCEPT ![c] = Append(@,
                 [by |-> "closed", connected |-> FALSE])]
       ELSE UNCHANGED <<state_, calls>>
  /\ reading' = reading \ {c}
  /\ destroyed' = destroyed \cup {c}
  /\ UNCHANGED inMap

ConnectDestroyedStaysInEpoll(c) ==
  /\ inMap' = inMap \ {c}
  /\ destroyed' = destroyed \cup {c}
  /\ UNCHANGED <<state_, calls, reading>>

\* The user's code in this callback finds the connection disconnected: its
\* shutdown() would do nothing.
ConnectDestroyed(c) ==
  /\ IF state_[c] = "kConnected"
       THEN /\ state_' = [state_ EXCEPT ![c] = "kDisconnected"]
            /\ calls' = [calls EXCEPT ![c] = Append(@,
                 [by |-> "closed", connected |-> FALSE])]
       ELSE UNCHANGED <<state_, calls>>
  /\ inMap' = inMap \ {c}
  /\ reading' = reading \ {c}
  /\ destroyed' = destroyed \cup {c}

RunDestroyed(l, c) ==
  /\ RunsNext(l, "connectDestroyed", c)
  /\ ConnectDestroyed(c)
  /\ UNCHANGED <<pc, conn, ret, pending, batch, quit_, serverVars, active,
                 peerVars>>

\* loop() returns, and the base loop's thread leaves the server's scope.
LeaveLoop ==
  /\ pc[Base] = "poll"
  /\ quit_[Base]
  /\ Goto(Base, "dtor")
  /\ UNCHANGED <<conn, ret, pending, batch, idx, quit_, serverVars, state_,
                 pollerVars, peerVars, history>>

\* One turn of ~TcpServer's loop: runInLoop on the connection's loop, whose
\* thread this is.
DestroyConnection(c) ==
  /\ pc[Base] = "dtor"
  /\ c \in connections_
  /\ connections_' = connections_ \ {c}
  /\ ConnectDestroyed(c)
  /\ UNCHANGED <<threadVars, started_, listenning_, next_, told, nextConnId_,
                 active, peerVars>>

\* The members go in reverse order, the pool before the acceptor.
DestroyPool ==
  /\ pc[Base] = "dtor"
  /\ connections_ = {}
  /\ Goto(Base, "join")
  /\ UNCHANGED <<conn, ret, pending, batch, idx, quit_, serverVars, state_,
                 pollerVars, peerVars, history>>

\* ~EventLoopThread of sub loop l: quit(); the threads before it are joined.
QuitSub(l) ==
  /\ pc[Base] = "join"
  /\ started_
  /\ l = told + 1
  /\ \A k \in 1 .. told : pc[k] = "stopped"
  /\ told' = l
  /\ quit_' = [quit_ EXCEPT ![l] = TRUE]
  /\ UNCHANGED <<pc, conn, ret, pending, batch, idx, started_, listenning_,
                 next_, nextConnId_, connections_, state_, pollerVars, peerVars,
                 history>>

\* A slip in the place of SubStops: a quit() that wakes nobody.
SubStopsIfAwake(l) ==
  /\ l # Base
  /\ pc[l] = "poll"
  /\ quit_[l]
  /\ pending[l] # <<>>
  /\ Goto(l, "stopped")
  /\ pending' = [pending EXCEPT ![l] = <<>>]
  /\ UNCHANGED <<conn, ret, batch, idx, quit_, serverVars, state_, pollerVars,
                 peerVars, history>>

\* A sub loop finds that it has been told to quit: its loop() returns, and its
\* queue is dropped with it.
SubStops(l) ==
  /\ l # Base
  /\ pc[l] = "poll"
  /\ quit_[l]
  /\ Goto(l, "stopped")
  /\ pending' = [pending EXCEPT ![l] = <<>>]
  /\ UNCHANGED <<conn, ret, batch, idx, quit_, serverVars, state_, pollerVars,
                 peerVars, history>>

\* The threads that were started are joined; the acceptor and the base loop
\* follow, with the functors it has not run and its poller.
DestroyBaseLoop ==
  /\ pc[Base] = "join"
  /\ started_ => \A l \in Loops \ {Base} : pc[l] = "stopped"
  /\ Goto(Base, "stopped")
  /\ pending' = [pending EXCEPT ![Base] = <<>>]
  /\ listenning_' = FALSE
  /\ inMap' = {}
  /\ reading' = {}
  /\ UNCHANGED <<conn, ret, batch, idx, quit_, started_, next_, told, nextConnId_,
                 connections_, state_, active, peerVars, history>>

-----------------------------------------------------------------------------
LoopThread(l) ==
  \/ Swap(l) \/ EndBatch(l)
  \/ \E c \in Conns : \/ RunEstablished(l, c)
                      \/ RunShutdownInLoop(l, c)
                      \/ RunDestroyed(l, c)
  \/ SetConnected(l) \/ EnableReading(l) \/ UpCallback(l)
  \/ UserReturn(l) \/ Shutdown(l) \/ SetDisconnecting(l) \/ PostShutdown(l)
  \/ DownCallback(l) \/ RemoveConnection(l)
  \/ SubStops(l) \/ (l # Base /\ EnterLoop(l))

BaseThread ==
  \/ Poll \/ AcceptFails \/ LeaveLoop \/ DestroyPool \/ DestroyBaseLoop
  \/ \E l \in Loops \ {Base} : QuitSub(l)
  \/ \E c \in Conns : \/ NewConnection(c) \/ Message(c) \/ ReadError(c)
                      \/ HandleClose(c) \/ DestroyConnection(c)

Next ==
  \/ StartServer \/ EnterLoop(Base) \/ Quit \/ Peer
  \/ BaseThread
  \/ \E l \in Loops : LoopThread(l)

Spec == Init /\ [][Next]_vars

\* Every loop's thread keeps running and the user's callbacks return; what the
\* clients do, and whether accept succeeds, is up to them.
Fairness ==
  /\ WF_vars(BaseThread \/ LoopThread(Base))
  /\ \A l \in Loops \ {Base} : WF_vars(LoopThread(l))

FairSpec == Spec /\ Fairness

-----------------------------------------------------------------------------
(***************************************************************************)
(* Safety.                                                                 *)
(***************************************************************************)
CountBy(c, by) == Cardinality({i \in DOMAIN calls[c] : calls[c][i].by = by})

\* The user is told of the end of a connection at most once, by handleClose or
\* by connectDestroyed but not by both.
ClosedAtMostOnce == \A c \in Conns : CountBy(c, "closed") <= 1

LoopRuns == pc[Base] \notin {"dtor", "join", "stopped"}

\* As long as the base loop runs, its poller holds pointers to channels of
\* existing connections only: neither epoll nor activeChannels_ can lead it to a
\* dead one.  (Behind loop() a sub loop may still run a connectEstablished that
\* was queued when ~TcpServer destroyed the connection.)
PollerHoldsLiveChannels ==
  LoopRuns => \A c \in inMap \cup (active \ {Acceptor}) : Alive(c)

\* As long as the base loop runs, connectDestroyed is the last thing that
\* happens to a channel: it is out of the poller for good.
RemovedForGood == LoopRuns => destroyed \cap inMap = {}

\* Handed from the map to removeConnectionInLoop's functor, or to ~TcpServer's
\* local shared_ptr, a connection is owned by someone up to the
\* connectDestroyed that takes its channel out of the poller: no queue is
\* dropped with the functor that has to do it.
LivesUntilDestroyed ==
  \A c \in Conns : state_[c] # "none" /\ c \notin destroyed => Alive(c)

\* On the base loop alone a connection goes through the life ConnectionLife
\* promises, over the callbacks, the state and the release of the object:
\* connectionCallback_ with connected() first, then messages, then
\* connectionCallback_ without connected(), then the end of the object.  With
\* the server's destruction a half-closed connection goes unannounced.
Announced(c) == calls[c] # <<>> /\ calls[c][Len(calls[c])].by = "closed"
LifeOf(c) ==
  CASE state_[c] = "none" -> "none"
    [] state_[c] # "none" /\ ~Alive(c) -> "gone"
    [] Alive(c) /\ calls[c] = <<>> -> "new"
    [] Alive(c) /\ Announced(c) -> "down"
    [] OTHER -> IF state_[c] = "kDisconnected" THEN "ending" ELSE "up"

Life == INSTANCE ConnectionLife WITH
  life <- [c \in Conns |-> LifeOf(c)],
  shut <- {c \in Conns : Alive(c) /\ state_[c] = "kDisconnecting"}
LivesAsPromised == Life!Spec

\* The first thing a user hears of a connection is connectionCallback_ with
\* connected().
FirstCallbackIsUp ==
  \A c \in Conns : calls[c] # <<>> =>
    calls[c][1].by = "established" /\ calls[c][1].connected

\* A connection that is disconnected stays so.
DisconnectedIsFinal ==
  [][\A c \in Conns : state_[c] = "kDisconnected" =>
                        state_'[c] = "kDisconnected"]_vars

\* When the server is gone, every user told that a connection is up has been
\* told that it is down.
EveryUpHasADown ==
  pc[Base] = "stopped"
    => \A c \in Conns : CountBy(c, "established") = CountBy(c, "closed")

-----------------------------------------------------------------------------
(***************************************************************************)
(* Liveness.                                                               *)
(***************************************************************************)

\* A connection whose client has gone is closed, taken out of the map and the
\* poller, and its object released, unless the server is told to stop.
Gone(c) == c \in destroyed /\ ~Alive(c)
ClosedIsReleased ==
  \A c \in Conns : c \in inMap /\ peer[c] # "open" ~> Gone(c) \/ quit_[Base]

\* Once loop() has been entered no client in the backlog waits unheeded: an
\* accept is tried for it, and tried again after one that failed, unless the
\* server is told to stop.
BacklogIsTried ==
  nextConnId_ <= arrived /\ pc[Base] # "init"
    ~> Acceptor \in active \/ quit_[Base]

\* When the base loop leaves loop() and every thread that was started has
\* entered its own, the server's destructor returns: each thread is told to
\* quit, finishes what it is doing and is joined, and no connection is left
\* over. (A sub loop that has yet to enter loop() forgets the quit(): the join
\* then never returns.)
SubsLooping == started_ => \A l \in Loops \ {Base} : pc[l] # "init"
ServerEndsOnceLooping ==
  pc[Base] = "dtor" /\ SubsLooping
    ~> pc[Base] = "stopped" /\ \A c \in Conns : ~Alive(c)

=============================================================================
