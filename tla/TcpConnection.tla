----------------------------- MODULE TcpConnection -----------------------------
(***************************************************************************)
(* The output side of one established connection (TcpConnection.cc): send, *)
(* sendInLoop, handleWrite, shutdown, shutdownInLoop, and the close that   *)
(* cuts them off, called by the user's callbacks on the loop's thread and  *)
(* by other threads of the user.                                           *)
(*                                                                         *)
(* outputBuffer_ is a sequence (module Buffer implements it); a byte is    *)
(* named by its place among the bytes sendInLoop has been given.  A call   *)
(* of sendInLoop from another thread is a functor that holds a pointer to  *)
(* the caller's string, which may be gone: the bytes are what sendInLoop   *)
(* finds.  It is bound to `this' as well: the user's threads are taken to  *)
(* keep a shared_ptr to the connection, and the process to ignore SIGPIPE. *)
(***************************************************************************)
EXTENDS Naturals, Sequences, Functions

CONSTANTS Users,      \* the user's threads besides the loop's
          SndBuf,     \* size of the kernel's send buffer
          HighWater,  \* highWaterMark_
          MaxLen,     \* bound on the length of a message
          MaxSends,   \* bound on the calls of send
          MaxMsgs     \* bound on the messages the peer sends

ASSUME ConnectionAssumption ==
  /\ SndBuf \in Nat \ {0}
  /\ HighWater \in Nat \ {0}
  /\ MaxLen \in Nat
  /\ MaxSends \in Nat
  /\ MaxMsgs \in Nat

VARIABLES
  state_,
  reading, writing,  \* the channel's events_
  inEpoll,           \* whether epoll watches the channel
  output,            \* outputBuffer_
  pc,                \* where the loop's thread is
  ret,               \* where it goes when the user's callback returns
  revents,           \* what is left of the channel's revents_ to handle
  pending,           \* functors in the order they are run
  todo,              \* how many of them are in the current batch
  at,                \* where each of the user's threads is in its call
  peer,              \* "open", "closed" (sent FIN) or "reset"
  soError,           \* the socket's error has not been fetched
  inData,            \* unread data in the kernel
  msgs,              \* number of messages the peer has sent
  inflight,          \* bytes in the kernel's send buffer
  fin,               \* the write side has been shut down
  wire,              \* history: the bytes given to the kernel
  given,             \* history: number of bytes given to sendInLoop
  dropped,           \* history: those given up on an error
  sends,             \* number of calls of send
  above,             \* history: high-water callbacks since output was below
  completed,         \* history: given when a write was last told complete
  closes,            \* history: number of runs of handleClose
  destroyed          \* history: connectDestroyed has run

channelVars == <<reading, writing, inEpoll>>
loopVars == <<pc, ret, revents, todo>>
peerVars == <<peer, inData, msgs>>
sendVars == <<output, inflight, wire, given, dropped, above, completed>>
vars == <<state_, channelVars, loopVars, pending, at, peerVars, soError, fin,
          sendVars, sends, closes, destroyed>>

Functors ==
  [run : {"sendInLoop", "shutdownInLoop", "writeComplete", "highWater",
          "connectDestroyed"}, len : 0 .. MaxLen]
Functor(f) == [run |-> f, len |-> 0]
SendFunctor(n) == [run |-> "sendInLoop", len |-> n]

TypeOK ==
  /\ state_ \in {"kConnecting", "kConnected", "kDisconnecting", "kDisconnected"}
  /\ reading \in BOOLEAN /\ writing \in BOOLEAN /\ inEpoll \in BOOLEAN
  /\ output \in Seq(1 .. given)
  /\ pc \in {"established", "poll", "events", "pending", "user"}
  /\ ret \in {"poll", "events", "pending"}
  /\ revents \subseteq {"hup", "err", "in", "out"}
  /\ pending \in Seq(Functors)
  /\ todo \in 0 .. Len(pending)
  /\ at \in [Users -> {"idle", "send", "store", "post"}]
  /\ peer \in {"open", "closed", "reset"}
  /\ soError \in BOOLEAN /\ inData \in BOOLEAN /\ fin \in BOOLEAN
  /\ inflight \in 0 .. SndBuf
  /\ wire \in Seq(1 .. given)
  /\ given \in Nat
  /\ dropped \subseteq 1 .. given
  /\ sends \in 0 .. MaxSends
  /\ msgs \in 0 .. MaxMsgs
  /\ completed \in 0 .. given
  /\ destroyed \in BOOLEAN

Init ==
  /\ state_ = "kConnecting"
  /\ reading = FALSE /\ writing = FALSE /\ inEpoll = FALSE
  /\ output = <<>>
  /\ pc = "established" /\ ret = "poll" /\ revents = {}
  /\ pending = <<>> /\ todo = 0
  /\ at = [u \in Users |-> "idle"]
  /\ peer = "open" /\ soError = FALSE /\ inData = FALSE /\ msgs = 0
  /\ inflight = 0 /\ fin = FALSE
  /\ wire = <<>> /\ given = 0 /\ dropped = {} /\ sends = 0
  /\ above = 0 /\ completed = 0
  /\ closes = 0 /\ destroyed = FALSE

-----------------------------------------------------------------------------
(***************************************************************************)
(* The peer, and the kernel between it and the socket.                     *)
(***************************************************************************)
PeerReads == inflight > 0 /\ inflight' = inflight - 1
                          /\ UNCHANGED <<peerVars, soError>>
PeerSends ==
  /\ peer = "open" /\ msgs < MaxMsgs
  /\ inData' = TRUE /\ msgs' = msgs + 1
  /\ UNCHANGED <<peer, soError, inflight>>

PeerCloses ==
  /\ peer = "open"
  /\ peer' = "closed"
  /\ UNCHANGED <<inData, msgs, soError, inflight>>

\* A reset discards what the kernel holds, in both directions.
PeerResets ==
  /\ peer # "reset"
  /\ peer' = "reset" /\ soError' = TRUE
  /\ inData' = FALSE /\ inflight' = 0
  /\ UNCHANGED msgs

Peer ==
  /\ PeerReads \/ PeerSends \/ PeerCloses \/ PeerResets
  /\ UNCHANGED <<state_, channelVars, loopVars, pending, at, fin, output, wire,
                 given, dropped, above, completed, sends, closes, destroyed>>

-----------------------------------------------------------------------------
\* EPOLLPoller::updateChannel: a channel epoll does not watch is added, with no
\* events too; one that is watched is taken out when it asks for none.
Update(r, w) ==
  /\ reading' = r /\ writing' = w
  /\ inEpoll' = (~inEpoll \/ r \/ w)

\* A write fails for good after a reset or after shutdownWrite; otherwise the
\* kernel takes what it likes of n bytes, nothing only when it has no room.
Broken == fin \/ peer = "reset"
Room == SndBuf - inflight
Taken(n) == {k \in 0 .. n : k <= Room /\ (k = 0 => n = 0 \/ Room = 0)}

-----------------------------------------------------------------------------
(***************************************************************************)
(* sendInLoop and shutdownInLoop; q is the queue they add functors to.     *)
(***************************************************************************)

GivesUp == state_ = "kDisconnected"

\* A slip in the place of Direct: what is buffered is not looked at.
DirectAlways == TRUE
Direct == ~writing /\ output = <<>>

\* A slip in the place of Crosses: the old length is not looked at.
CrossesAgain(n) == Len(output) + n >= HighWater
Crosses(n) == Len(output) + n >= HighWater /\ Len(output) < HighWater

\* A slip in the place of Watch: EPOLLOUT is not asked for.
WatchNot(kept) == UNCHANGED channelVars

\* What is kept has to be watched for; enableWriteing only if it is not yet.
Watch(kept) ==
  IF kept /\ ~writing THEN Update(reading, TRUE) ELSE UNCHANGED channelVars

\* A slip in the place of Completed: what remains is not looked at.
CompletedAlways(k, n) == TRUE

\* Whether a direct write has taken all of n bytes.
Completed(k, n) == k = n

SendInLoop(n, q) ==
  IF GivesUp
    THEN pending' = q /\ UNCHANGED <<sendVars, channelVars>>
    ELSE
      LET data  == [i \in 1 .. n |-> given + i]
          fault == Direct /\ Broken
      IN
      \E k \in IF Direct /\ ~Broken THEN Taken(n) ELSE {0} :
        LET kept == ~fault /\ k < n
            done == Direct /\ ~fault /\ Completed(k, n)
            high == kept /\ Crosses(n - k)
        IN
        /\ given' = given + n
        /\ wire' = wire \o SubSeq(data, 1, k)
        /\ inflight' = inflight + k
        /\ dropped' = dropped \cup (IF fault THEN Range(data) ELSE {})
        /\ output' = IF kept THEN output \o SubSeq(data, k + 1, n) ELSE output
        /\ Watch(kept)
        /\ pending' = q \o (IF done THEN <<Functor("writeComplete")>> ELSE <<>>)
                        \o (IF high THEN <<Functor("highWater")>> ELSE <<>>)
        /\ completed' = IF done THEN given + n ELSE completed
        /\ above' = above + (IF high THEN 1 ELSE 0)

\* A slip in the place of ShutdownInLoop: it does not wait for the output.
ShutdownInLoopAtOnce == fin' = TRUE
ShutdownInLoop == fin' = (fin \/ ~writing)

-----------------------------------------------------------------------------
(***************************************************************************)
(* The loop's thread: connectEstablished, then turns of events and         *)
(* functors.                                                               *)
(***************************************************************************)
ConnectEstablished ==
  /\ pc = "established"
  /\ state_' = "kConnected"
  /\ Update(TRUE, writing)
  /\ pc' = "user" /\ ret' = "poll"
  /\ UNCHANGED <<revents, todo, pending, at, peerVars, soError, fin,
                 sendVars, sends, closes, destroyed>>

\* What epoll reports: errors and hangups whatever the channel asked for.
Events ==
  {e \in {"hup", "err", "in", "out"} :
     /\ inEpoll
     /\ \/ e = "hup" /\ (peer = "reset" \/ (peer = "closed" /\ fin))
        \/ e = "err" /\ soError
        \/ e = "in" /\ reading /\ (inData \/ peer # "open")
        \/ e = "out" /\ writing /\ (Room > 0 \/ Broken)}

Poll ==
  /\ pc = "poll"
  /\ Events # {} \/ pending # <<>>
  /\ revents' = Events
  /\ pc' = "events"
  /\ UNCHANGED <<state_, channelVars, ret, todo, pending, at, peerVars, soError,
                 fin, sendVars, sends, closes, destroyed>>

\* handleClose: the user's callback, which finds the connection disconnected,
\* and the server's, which queues connectDestroyed.
HandleClose ==
  /\ state_' = "kDisconnected"
  /\ Update(FALSE, FALSE)
  /\ pending' = Append(pending, Functor("connectDestroyed"))
  /\ closes' = closes + 1

\* A hangup without EPOLLIN.
HandleHangup ==
  /\ pc = "events" /\ "hup" \in revents
  /\ revents' = revents \ {"hup"}
  /\ IF "in" \in revents
       THEN UNCHANGED <<state_, channelVars, pending, closes>>
       ELSE HandleClose
  /\ UNCHANGED <<pc, ret, todo, at, peerVars, soError, fin, sendVars, sends,
                 destroyed>>

\* handleError fetches the error, which clears it, and logs it.
HandleError ==
  /\ pc = "events" /\ "err" \in revents /\ "hup" \notin revents
  /\ revents' = revents \ {"err"}
  /\ soError' = FALSE
  /\ UNCHANGED <<state_, channelVars, pc, ret, todo, pending, at, peerVars, fin,
                 sendVars, sends, closes, destroyed>>

\* handleRead: a message, an error that has come since the poll, or the end.
HandleRead ==
  /\ pc = "events" /\ "in" \in revents /\ revents \subseteq {"in", "out"}
  /\ revents' = revents \ {"in"}
  /\ \/ /\ inData
        /\ inData' = FALSE
        /\ pc' = "user" /\ ret' = "events"
        /\ UNCHANGED <<state_, channelVars, pending, closes, soError>>
     \/ /\ ~inData /\ soError
        /\ soError' = FALSE
        /\ UNCHANGED <<state_, channelVars, pending, closes, pc, ret, inData>>
     \/ /\ ~inData /\ ~soError
        /\ HandleClose
        /\ UNCHANGED <<pc, ret, inData, soError>>
  /\ UNCHANGED <<todo, at, peer, msgs, fin, sendVars, sends, destroyed>>

\* A slip in the place of EndsOutput: a shutdown that waits is forgotten.
EndsOutputNever == UNCHANGED fin

\* shutdownInLoop at the end of the output, with the channel not writing.
EndsOutput == fin' = (fin \/ state_ = "kDisconnecting")

\* A slip in the place of Stopped: the channel is not asked.
StoppedNever == FALSE

\* The channel has stopped writing since the poll.
Stopped == ~writing

\* handleWrite: writes what the kernel takes, and ends the output with the last
\* of it.
HandleWrite ==
  /\ pc = "events" /\ revents = {"out"}
  /\ revents' = {}
  /\ IF Stopped \/ Broken
       THEN UNCHANGED <<channelVars, pending, output, wire, inflight, above,
                        completed, fin>>
       ELSE \E k \in Taken(Len(output)) :
              /\ output' = SubSeq(output, k + 1, Len(output))
              /\ wire' = wire \o SubSeq(output, 1, k)
              /\ inflight' = inflight + k
              /\ above' = IF Len(output) - k < HighWater THEN 0 ELSE above
              /\ IF k > 0 /\ k = Len(output)
                   THEN /\ Update(reading, FALSE)
                        /\ pending' = Append(pending, Functor("writeComplete"))
                        /\ completed' = given
                        /\ EndsOutput
                   ELSE UNCHANGED <<channelVars, pending, completed, fin>>
  /\ UNCHANGED <<state_, pc, ret, todo, at, peerVars, soError, given,
                 dropped, sends, closes, destroyed>>

\* doPendingFunctors' swap.
Swap ==
  /\ pc = "events" /\ revents = {}
  /\ pc' = "pending" /\ todo' = Len(pending)
  /\ UNCHANGED <<state_, channelVars, ret, revents, pending, at, peerVars,
                 soError, fin, sendVars, sends, closes, destroyed>>

EndBatch ==
  /\ pc = "pending" /\ todo = 0
  /\ pc' = "poll"
  /\ UNCHANGED <<state_, channelVars, ret, revents, todo, pending, at, peerVars,
                 soError, fin, sendVars, sends, closes, destroyed>>

\* A slip in the place of Runs: the functor is run again in the next turn.
RunsAgain(f) == pc = "pending" /\ todo > 0 /\ Head(pending) = f /\ todo' = todo

Runs(f) ==
  /\ pc = "pending" /\ todo > 0
  /\ Head(pending) = f
  /\ todo' = todo - 1

RunSend(n) ==
  /\ Runs(SendFunctor(n))
  /\ SendInLoop(n, Tail(pending))
  /\ UNCHANGED <<state_, pc, ret, revents, at, peerVars, soError, fin,
                 sends, closes, destroyed>>

RunShutdown ==
  /\ Runs(Functor("shutdownInLoop"))
  /\ ShutdownInLoop
  /\ pending' = Tail(pending)
  /\ UNCHANGED <<state_, channelVars, pc, ret, revents, at, peerVars, soError,
                 sendVars, sends, closes, destroyed>>

RunCallback(f) ==
  /\ Runs(Functor(f))
  /\ pc' = "user" /\ ret' = "pending"
  /\ pending' = Tail(pending)
  /\ UNCHANGED <<state_, channelVars, revents, at, peerVars, soError, fin,
                 sendVars, sends, closes, destroyed>>

\* connectDestroyed of a connection that handleClose has closed: state_ is
\* kDisconnected, or kDisconnecting by a late shutdown().
RunDestroyed ==
  /\ Runs(Functor("connectDestroyed"))
  /\ inEpoll' = FALSE
  /\ destroyed' = TRUE
  /\ pending' = Tail(pending)
  /\ UNCHANGED <<state_, reading, writing, pc, ret, revents, at, peerVars,
                 soError, fin, sendVars, sends, closes>>

-----------------------------------------------------------------------------
(***************************************************************************)
(* The user, in a callback on the loop's thread.                           *)
(***************************************************************************)
CallSend(n) ==
  /\ pc = "user" /\ state_ = "kConnected" /\ sends < MaxSends
  /\ sends' = sends + 1
  /\ SendInLoop(n, pending)
  /\ UNCHANGED <<state_, loopVars, at, peerVars, soError, fin, closes,
                 destroyed>>

CallShutdown ==
  /\ pc = "user" /\ state_ = "kConnected"
  /\ state_' = "kDisconnecting"
  /\ ShutdownInLoop
  /\ UNCHANGED <<channelVars, loopVars, pending, at, peerVars, soError, sendVars,
                 sends, closes, destroyed>>

CallbackReturns ==
  /\ pc = "user"
  /\ pc' = ret
  /\ UNCHANGED <<state_, channelVars, ret, revents, todo, pending, at, peerVars,
                 soError, fin, sendVars, sends, closes, destroyed>>

(***************************************************************************)
(* The user, on another thread: the test of state_, the store and the      *)
(* queueInLoop are steps of their own.                                     *)
(***************************************************************************)
UserStep(u, from, to) == at[u] = from /\ at' = [at EXCEPT ![u] = to]

UserSend(u) ==
  /\ UserStep(u, "idle", "send")
  /\ state_ = "kConnected" /\ sends < MaxSends
  /\ sends' = sends + 1
  /\ UNCHANGED <<state_, pending>>

UserQueueSend(u, n) ==
  /\ UserStep(u, "send", "idle")
  /\ pending' = Append(pending, SendFunctor(n))
  /\ UNCHANGED <<state_, sends>>

UserShutdown(u) ==
  /\ UserStep(u, "idle", "store")
  /\ state_ = "kConnected"
  /\ UNCHANGED <<state_, pending, sends>>

UserStore(u) ==
  /\ UserStep(u, "store", "post")
  /\ state_' = "kDisconnecting"
  /\ UNCHANGED <<pending, sends>>

UserPost(u) ==
  /\ UserStep(u, "post", "idle")
  /\ pending' = Append(pending, Functor("shutdownInLoop"))
  /\ UNCHANGED <<state_, sends>>

\* The rest of a call, once it is under way.
UserGoesOn(u) ==
  /\ \/ \E n \in 0 .. MaxLen : UserQueueSend(u, n)
     \/ UserStore(u) \/ UserPost(u)
  /\ UNCHANGED <<channelVars, loopVars, peerVars, soError, fin, sendVars, closes,
                 destroyed>>

UserCalls(u) ==
  /\ UserSend(u) \/ UserShutdown(u)
  /\ UNCHANGED <<channelVars, loopVars, peerVars, soError, fin, sendVars, closes,
                 destroyed>>

-----------------------------------------------------------------------------
LoopThread ==
  \/ ConnectEstablished \/ Poll
  \/ HandleHangup \/ HandleError \/ HandleRead \/ HandleWrite
  \/ Swap \/ EndBatch
  \/ \E n \in 0 .. MaxLen : RunSend(n) \/ CallSend(n)
  \/ RunShutdown \/ RunDestroyed
  \/ RunCallback("writeComplete") \/ RunCallback("highWater")
  \/ CallShutdown \/ CallbackReturns

Next ==
  \/ LoopThread \/ Peer
  \/ \E u \in Users : UserGoesOn(u) \/ UserCalls(u)

Spec == Init /\ [][Next]_vars

\* The loop's thread runs and callbacks return, a thread finishes the call it
\* is in, and the peer goes on reading; whether anybody calls is up to them.
Fairness ==
  /\ WF_vars(LoopThread)
  /\ WF_vars(Peer /\ PeerReads)
  /\ \A u \in Users : WF_vars(UserGoesOn(u))

FairSpec == Spec /\ Fairness

-----------------------------------------------------------------------------
(***************************************************************************)
(* Properties.                                                             *)
(***************************************************************************)

\* What sendInLoop is given reaches the kernel in that order and once, part of
\* it by way of the buffer; only what an error stopped is missing.
BytesInOrder ==
  LET out == wire \o output IN
  /\ \A i, j \in DOMAIN out : i < j => out[i] < out[j]
  /\ Range(out) = 1 .. given \ dropped

\* EPOLLOUT is watched for exactly while there is something to write: output
\* never waits unwatched, and an empty buffer never keeps the loop busy.
OutputIsWatched ==
  closes = 0 => /\ writing <=> output # <<>>
                /\ writing => inEpoll

\* shutdown() ends the stream behind the last byte that was buffered.
FinAfterData == fin => output = <<>> \/ closes > 0

\* The user hears once of every time the buffer rises to the high-water mark.
HighWaterOnce == above = (IF Len(output) >= HighWater THEN 1 ELSE 0)

\* The write-complete callback is queued when the kernel has taken every byte
\* given to sendInLoop until then (not when part of them is kept, nor when an
\* error stopped them), and every time that the buffer is left empty.
DrainIsAnnounced ==
  /\ 1 .. completed \subseteq Range(wire)
  /\ output = <<>> /\ closes = 0 => Range(wire) \subseteq 1 .. completed

\* A connection is closed once, what is left of the event that closed it does not
\* put the channel back into epoll, and nothing does behind connectDestroyed.
RemovedForGood ==
  /\ closes <= 1
  /\ destroyed \/ (closes > 0 /\ pc = "events") => ~inEpoll

\* A shutdown is not forgotten: the stream is ended, or the connection closed.
ShutdownEndsStream == state_ = "kDisconnecting" ~> fin \/ closes > 0

\* Buffered bytes are not forgotten as long as the peer reads.
OutputDrains == output # <<>> ~> output = <<>> \/ closes > 0

=============================================================================
