----------------------------- MODULE EPOLLPoller ------------------------------
(***************************************************************************)
(* The poller of one loop (EPOLLPoller.cc, Poller.cc) and the channels     *)
(* registered with it (Channel.cc): its wakeup channel, the acceptor's     *)
(* (Acceptor.cc) and those of connections.  What a channel asks for        *)
(* (events_), the poller's record of it (index_, channels_) and what epoll *)
(* watches are kept apart, file descriptors are closed and used again, and *)
(* events_ grows.                                                          *)
(*                                                                         *)
(* A poll reports descriptors that are ready; what has happened on them is *)
(* left to the choices of the handlers (modules TcpServer, TcpConnection). *)
(* Connections end as they should: no shutdown() of another thread that    *)
(* comes too late lets a send() through after the close, and ~TcpServer    *)
(* finds no connectEstablished still queued on another loop.               *)
(***************************************************************************)
EXTENDS Naturals, FiniteSets

CONSTANTS Conns,             \* objects: one that is released is allocated again
          Acceptor, Wakeup,  \* acceptChannel_ and wakeupChannel_
          NULL,
          MaxFd,             \* the descriptors are 1 .. MaxFd
          kInitEventListSize

Chans == Conns \cup {Acceptor, Wakeup}
Fds == 1 .. MaxFd
NoFd == 0
Events == {"in", "out"}   \* kReadEvent and kWriteEvent

ASSUME PollerAssumption ==
  /\ IsFiniteSet(Conns)
  /\ Acceptor # Wakeup
  /\ Acceptor \notin Conns /\ Wakeup \notin Conns
  /\ NULL \notin Chans
  /\ MaxFd \in Nat /\ MaxFd >= 2
  /\ kInitEventListSize \in Nat \ {0}

VARIABLES
  poller,   \* see Pollers
  fd_,      \* each channel's descriptor, NoFd without an object
  stage,    \* each channel: "none" without an object, "built", "up", "closed"
            \* by handleClose, "removed" from the poller
  size,     \* events_.size()
  ready,    \* the open descriptors on which something has happened
  active,   \* activeChannels_ not yet handled
  pc        \* the loop's thread: "init" before loop(), "poll", "turn" up to the
            \* next poll, "stopping" behind loop(), "stopped"

vars == <<poller, fd_, stage, size, ready, active, pc>>

\* events and index: events_ and index_ of the channels.  channels: the map, NULL
\* where there is no entry.  epoll: what the kernel watches.  failed: an
\* epoll_ctl has returned an error.
Nothing == [ptr |-> NULL, mask |-> {}]
Pollers ==
  [events   : [Chans -> SUBSET Events],
   index    : [Chans -> {"kNew", "kAdded", "kDeleted"}],
   channels : [Fds -> Chans \cup {NULL}],
   epoll    : [Fds -> [ptr : Chans \cup {NULL}, mask : SUBSET Events]],
   failed   : BOOLEAN]

TypeOK ==
  /\ poller \in Pollers
  /\ fd_ \in [Chans -> Fds \cup {NoFd}]
  /\ stage \in [Chans -> {"none", "built", "up", "closed", "removed"}]
  /\ size \in Nat \ {0}
  /\ ready \in SUBSET Fds
  /\ active \in SUBSET Chans
  /\ pc \in {"init", "poll", "turn", "stopping", "stopped"}

-----------------------------------------------------------------------------
(***************************************************************************)
(* The operations, for a poller p, a channel c and its descriptor f.       *)
(***************************************************************************)
Ask(p, c, ev) == [p EXCEPT !.events[c] = ev]
SetIndex(p, c, i) == [p EXCEPT !.index[c] = i]
Map(p, f, c) == [p EXCEPT !.channels[f] = c]
Enter(p, f, e) == [p EXCEPT !.epoll[f] = e]
Failed(p) == [p EXCEPT !.failed = TRUE]

\* epoll_ctl: the kernel takes pointer and mask from the channel.
Watched(p, f) == p.epoll[f] # Nothing
Entry(p, c) == [ptr |-> c, mask |-> p.events[c]]
CtlAdd(p, c, f) == IF Watched(p, f) THEN Failed(p) ELSE Enter(p, f, Entry(p, c))
CtlMod(p, c, f) == IF Watched(p, f) THEN Enter(p, f, Entry(p, c)) ELSE Failed(p)
CtlDel(p, f) == IF Watched(p, f) THEN Enter(p, f, Nothing) ELSE Failed(p)

\* A slip in the place of UpdateChannel: the index stays kAdded when epoll stops
\* watching.
UpdateKeepsIndex(p, c, f) ==
  IF p.index[c] = "kAdded"
    THEN IF p.events[c] = {} THEN CtlDel(p, f) ELSE CtlMod(p, c, f)
    ELSE CtlAdd(SetIndex(IF p.index[c] = "kNew" THEN Map(p, f, c) ELSE p,
                         c, "kAdded"), c, f)

UpdateChannel(p, c, f) ==
  IF p.index[c] = "kAdded"
    THEN IF p.events[c] = {} THEN SetIndex(CtlDel(p, f), c, "kDeleted")
                             ELSE CtlMod(p, c, f)
    ELSE CtlAdd(SetIndex(IF p.index[c] = "kNew" THEN Map(p, f, c) ELSE p,
                         c, "kAdded"), c, f)

\* A slip in the place of RemoveChannel: the entry in channels_ stays.
RemoveKeepsEntry(p, c, f) ==
  SetIndex(IF p.index[c] = "kAdded" THEN CtlDel(p, f) ELSE p, c, "kNew")

RemoveChannel(p, c, f) ==
  LET q == Map(p, f, NULL)
  IN  SetIndex(IF p.index[c] = "kAdded" THEN CtlDel(q, f) ELSE q, c, "kNew")

SetEvents(p, c, f, ev) == UpdateChannel(Ask(p, c, ev), c, f)
EnableReading(p, c, f) == SetEvents(p, c, f, p.events[c] \cup {"in"})
EnableWriteing(p, c, f) == SetEvents(p, c, f, p.events[c] \cup {"out"})
DisableWriteing(p, c, f) == SetEvents(p, c, f, p.events[c] \ {"out"})
DisbleALL(p, c, f) == SetEvents(p, c, f, {})
DisableAndRemove(p, c, f) == RemoveChannel(DisbleALL(p, c, f), c, f)

\* The constructor of a channel.
Construct(p, c) == SetIndex(Ask(p, c, {}), c, "kNew")

-----------------------------------------------------------------------------
Empty ==
  [events |-> [c \in Chans |-> {}], index |-> [c \in Chans |-> "kNew"],
   channels |-> [f \in Fds |-> NULL], epoll |-> [f \in Fds |-> Nothing],
   failed |-> FALSE]

\* The loop has been built, with its wakeup channel reading, and the acceptor.
WakeupFd == 1
ListenFd == 2
Init ==
  /\ poller = EnableReading(Empty, Wakeup, WakeupFd)
  /\ fd_ = [c \in Chans |-> IF c = Wakeup THEN WakeupFd
                            ELSE IF c = Acceptor THEN ListenFd ELSE NoFd]
  /\ stage = [c \in Chans |-> IF c = Wakeup THEN "up"
                              ELSE IF c = Acceptor THEN "built" ELSE "none"]
  /\ size = kInitEventListSize
  /\ ready = {}
  /\ active = {}
  /\ pc = "init"

InUse == {fd_[c] : c \in Chans}
To(c, s) == stage' = [stage EXCEPT ![c] = s]

\* The object goes, and its descriptor is closed: epoll forgets what it watched.
Close(c, p) ==
  /\ To(c, "none")
  /\ fd_' = [fd_ EXCEPT ![c] = NoFd]
  /\ ready' = ready \ {fd_[c]}
  /\ poller' = Enter(p, fd_[c], Nothing)

\* Something happens on a descriptor: data, a client, room to write, a wakeup.
BecomeReady(f) ==
  /\ f \in (Fds \cap InUse) \ ready
  /\ ready' = ready \cup {f}
  /\ UNCHANGED <<poller, fd_, stage, size, active, pc>>

\* Acceptor::listen, before loop() or in a functor.
Listen ==
  /\ pc \in {"init", "turn"}
  /\ stage[Acceptor] = "built"
  /\ To(Acceptor, "up")
  /\ poller' = EnableReading(poller, Acceptor, fd_[Acceptor])
  /\ UNCHANGED <<fd_, size, ready, active, pc>>

EnterLoop ==
  /\ pc = "init"
  /\ pc' = "poll"
  /\ UNCHANGED <<poller, fd_, stage, size, ready, active>>

-----------------------------------------------------------------------------
(***************************************************************************)
(* poll() and the handlers.                                                *)
(***************************************************************************)
Reportable == {f \in ready : Watched(poller, f)}

\* Slips in the place of Grown: events_ never grows, or whenever there is an
\* event.
GrownNever(n) == size
GrownAlways(n) == IF n > 0 THEN 2 * size ELSE size

Grown(n) == IF n = size THEN 2 * size ELSE size

\* epoll_wait fills events_ as far as it can, with whichever descriptors it
\* likes; it returns with none on a timeout or a signal.
Poll(S) ==
  /\ pc = "poll"
  /\ S \subseteq Reportable
  /\ Cardinality(S) <= size
  /\ S = Reportable \/ Cardinality(S) = size
  /\ active' = {poller.epoll[f].ptr : f \in S}
  /\ size' = Grown(Cardinality(S))
  /\ pc' = "turn"
  /\ UNCHANGED <<poller, fd_, stage, ready>>

Take(c) ==
  /\ pc = "turn"
  /\ c \in active
  /\ active' = active \ {c}

\* A handler reads or writes all there is, or leaves something.
Settle(c) == ready' \in {ready, ready \ {fd_[c]}}

\* handleRead of a connection or of the eventfd, part of the output written, an
\* error, or an accept that fails.
HandleEvent(c) ==
  /\ Take(c)
  /\ Settle(c)
  /\ UNCHANGED <<poller, fd_, stage, size, pc>>

\* handleWrite that has written all there was.
HandleWrite(c) ==
  /\ Take(c)
  /\ "out" \in poller.events[c]
  /\ poller' = DisableWriteing(poller, c, fd_[c])
  /\ Settle(c)
  /\ UNCHANGED <<fd_, stage, size, pc>>

\* A slip in the place of HandleClose: it runs for the hangup and for the read of
\* 0 bytes that follows.
HandleCloseTwice(c) ==
  /\ Take(c)
  /\ poller' = DisbleALL(DisbleALL(poller, c, fd_[c]), c, fd_[c])
  /\ To(c, "closed")
  /\ UNCHANGED <<fd_, size, ready, pc>>

\* handleClose.
HandleClose(c) ==
  /\ Take(c)
  /\ poller' = DisbleALL(poller, c, fd_[c])
  /\ To(c, "closed")
  /\ UNCHANGED <<fd_, size, ready, pc>>

\* Acceptor::handleRead: accept returns a descriptor that is not in use.
Accept(c, f) ==
  /\ Take(Acceptor)
  /\ Settle(Acceptor)
  /\ stage[c] = "none"
  /\ f \in Fds \ InUse
  /\ To(c, "built")
  /\ fd_' = [fd_ EXCEPT ![c] = f]
  /\ poller' = Construct(poller, c)
  /\ UNCHANGED <<size, pc>>

\* connectEstablished, from newConnection or from another loop's functor.
Establish(c) ==
  /\ pc \in {"poll", "turn"}
  /\ stage[c] = "built"
  /\ To(c, "up")
  /\ poller' = EnableReading(poller, c, fd_[c])
  /\ UNCHANGED <<fd_, size, ready, active, pc>>

\* sendInLoop with something left to write, in a callback or in a functor.
SendInLoop(c) ==
  /\ pc = "turn"
  /\ stage[c] = "up"
  /\ "out" \notin poller.events[c]
  /\ poller' = EnableWriteing(poller, c, fd_[c])
  /\ UNCHANGED <<fd_, stage, size, ready, active, pc>>

\* connectDestroyed of a closed connection, a functor run behind the events.
ConnectDestroyed(c) ==
  /\ pc = "turn"
  /\ active = {}
  /\ stage[c] = "closed"
  /\ To(c, "removed")
  /\ poller' = RemoveChannel(poller, c, fd_[c])
  /\ UNCHANGED <<fd_, size, ready, active, pc>>

EndTurn ==
  /\ pc = "turn"
  /\ active = {}
  /\ \A c \in Conns : stage[c] # "closed"
  /\ pc' = "poll"
  /\ UNCHANGED <<poller, fd_, stage, size, ready, active>>

\* The last shared_ptr goes, on whatever thread that is.
Release(c) ==
  /\ stage[c] = "removed"
  /\ Close(c, poller)
  /\ UNCHANGED <<size, active, pc>>

-----------------------------------------------------------------------------
(***************************************************************************)
(* The end: ~TcpServer, ~Acceptor and ~EventLoop.                          *)
(***************************************************************************)
Stop ==
  /\ pc \in {"init", "poll"}
  /\ pc' = "stopping"
  /\ UNCHANGED <<poller, fd_, stage, size, ready, active>>

\* connectDestroyed: only in state kConnected does it begin with disbleALL.
Destroyed(c) ==
  \/ poller' = RemoveChannel(poller, c, fd_[c])
  \/ /\ stage[c] = "up"
     /\ poller' = DisableAndRemove(poller, c, fd_[c])

DestroyConnection(c) ==
  /\ pc = "stopping"
  /\ stage[c] \in {"built", "up"}
  /\ Destroyed(c)
  /\ To(c, "removed")
  /\ UNCHANGED <<fd_, size, ready, active, pc>>

\* ~Acceptor, whether it has listened or not.
DestroyAcceptor ==
  /\ pc = "stopping"
  /\ \A c \in Conns : stage[c] \in {"none", "removed"}
  /\ stage[Acceptor] \in {"built", "up"}
  /\ Close(Acceptor, DisableAndRemove(poller, Acceptor, fd_[Acceptor]))
  /\ UNCHANGED <<size, active, pc>>

DestroyLoop ==
  /\ pc = "stopping"
  /\ stage[Acceptor] = "none"
  /\ Close(Wakeup, DisableAndRemove(poller, Wakeup, fd_[Wakeup]))
  /\ pc' = "stopped"
  /\ UNCHANGED <<size, active>>

-----------------------------------------------------------------------------
LoopThread ==
  \/ \E S \in SUBSET Fds : Poll(S)
  \/ \E c \in Chans : HandleEvent(c)
  \/ \E c \in Conns : \/ HandleWrite(c) \/ HandleClose(c)
                      \/ ConnectDestroyed(c)
                      \/ \E f \in Fds : Accept(c, f)
  \/ EndTurn

Next ==
  \/ Listen \/ EnterLoop \/ LoopThread
  \/ \E f \in Fds : BecomeReady(f)
  \/ \E c \in Conns : \/ Establish(c) \/ SendInLoop(c) \/ Release(c)
                      \/ DestroyConnection(c)
  \/ Stop \/ DestroyAcceptor \/ DestroyLoop

Spec == Init /\ [][Next]_vars

\* The loop's thread runs and handlers return; what happens on descriptors, what
\* users send and when they stop is up to them.
FairSpec == Spec /\ WF_vars(LoopThread)

-----------------------------------------------------------------------------
(***************************************************************************)
(* Properties.                                                             *)
(***************************************************************************)

\* No epoll_ctl fails, whatever channels and descriptors have gone through: a
\* failed ADD or MOD is a LOG_FATAL, the end of the process.
CtlNeverFails == ~poller.failed

\* The map, a channel's index and epoll tell the same: a channel that is not
\* kNew is in the map under its descriptor, epoll watches it exactly if it is
\* kAdded, and neither holds a pointer to anything else.
IndexAgrees ==
  /\ \A c \in Chans : stage[c] # "none" =>
       /\ poller.channels[fd_[c]] = c <=> poller.index[c] # "kNew"
       /\ poller.epoll[fd_[c]].ptr = c <=> poller.index[c] = "kAdded"
  /\ \A f \in Fds : \A c \in {poller.channels[f], poller.epoll[f].ptr} \ {NULL} :
       stage[c] # "none" /\ fd_[c] = f

\* Until it is removed epoll watches a channel for just what it asks for, and
\* not at all, errors and hangups included, if it asks for nothing.
WatchedAsAsked ==
  \A c \in Chans : stage[c] \notin {"none", "removed"} =>
    poller.epoll[fd_[c]] = IF poller.events[c] = {} THEN Nothing
                           ELSE [ptr |-> c, mask |-> poller.events[c]]

\* events_ grows with the number of channels, not with the number of events.
SizeIsBounded ==
  \/ size = kInitEventListSize
  \/ size <= 2 * Cardinality(Chans)

\* The inductive invariant behind these: what the stage of a channel tells of its
\* index, its entries in the map and in epoll; nothing under a descriptor that
\* no channel has; and a channel waits in activeChannels_ only while it is up.
StageTells(c) ==
  LET f == fd_[c] IN
  /\ stage[c] \in {"built", "removed"} =>
       /\ poller.index[c] = "kNew"
       /\ poller.channels[f] = NULL
       /\ poller.epoll[f] = Nothing
  /\ stage[c] = "built" => poller.events[c] = {}
  /\ stage[c] = "up" =>
       /\ poller.index[c] = "kAdded"
       /\ poller.channels[f] = c
       /\ "in" \in poller.events[c]
       /\ poller.epoll[f] = [ptr |-> c, mask |-> poller.events[c]]
  /\ stage[c] = "closed" =>
       /\ poller.index[c] = "kDeleted"
       /\ poller.channels[f] = c
       /\ poller.events[c] = {}
       /\ poller.epoll[f] = Nothing

FdsDiffer ==
  /\ \A c \in Chans : stage[c] = "none" <=> fd_[c] = NoFd
  /\ \A c, d \in Chans : fd_[c] = fd_[d] => c = d \/ fd_[c] = NoFd

FreeFds ==
  \A f \in Fds \ InUse : poller.channels[f] = NULL /\ poller.epoll[f] = Nothing

ActiveAreUp ==
  /\ \A c \in active : stage[c] = "up"
  /\ active # {} => pc = "turn"
  /\ pc # "stopped" => stage[Wakeup] = "up"
  /\ stage[Acceptor] \in {"none", "built", "up"}

IInv ==
  /\ TypeOK
  /\ FdsDiffer
  /\ \A c \in Chans : StageTells(c)
  /\ FreeFds
  /\ ActiveAreUp
  /\ CtlNeverFails

\* What is ready is reported even if epoll_wait has no room for all of it and
\* chooses as it likes, unless it is no longer ready or watched, or the loop ends.
EveryReadyIsReported ==
  \A f \in Fds :
    f \in Reportable /\ pc = "poll"
      ~> \/ f \notin Reportable
         \/ \E c \in active : fd_[c] = f
         \/ pc \in {"stopping", "stopped"}

=============================================================================
