---------------------------- MODULE ConnectionLife -----------------------------
(***************************************************************************)
(* What a TcpServer promises the user of a connection on one loop: one     *)
(* callback for its beginning, messages, one callback for its end, and the *)
(* object released behind that.                                            *)
(***************************************************************************)
EXTENDS Sequences

CONSTANT Conns

VARIABLES
  life,    \* "none"; "new" before, "up" after the first callback; "ending", "down"
           \* before and after the last; "gone" with the object
  shut,    \* connections shutdown() has been called on, up to their end
  calls    \* the callbacks made of each connection

vars == <<life, shut, calls>>

Init ==
  /\ life = [c \in Conns |-> "none"]
  /\ shut = {}
  /\ calls = [c \in Conns |-> <<>>]

Becomes(c, l) == life' = [life EXCEPT ![c] = l]
Call(c, by, connected) ==
  calls' = [calls EXCEPT ![c] = Append(@, [by |-> by, connected |-> connected])]

Accept(c) ==
  /\ life[c] = "none"
  /\ Becomes(c, "new")
  /\ UNCHANGED <<shut, calls>>

Establish(c) ==
  /\ life[c] = "new"
  /\ Becomes(c, "up")
  /\ Call(c, "established", TRUE)
  /\ UNCHANGED shut

\* A message may still come when the user has shut down his side.
Message(c) ==
  /\ life[c] = "up"
  /\ Call(c, "message", c \notin shut)
  /\ UNCHANGED <<life, shut>>

Shutdown(c) ==
  /\ life[c] = "up"
  /\ shut' = shut \cup {c}
  /\ UNCHANGED <<life, calls>>

End(c) ==
  /\ life[c] = "up"
  /\ Becomes(c, "ending")
  /\ shut' = shut \ {c}
  /\ UNCHANGED calls

Close(c) ==
  /\ life[c] = "ending"
  /\ Becomes(c, "down")
  /\ Call(c, "closed", FALSE)
  /\ UNCHANGED shut

\* The server's destruction ends a connection and releases it at once; one that
\* is half closed goes without a callback.
Destroy(c) ==
  /\ life[c] = "up"
  /\ Becomes(c, "gone")
  /\ shut' = shut \ {c}
  /\ IF c \in shut THEN UNCHANGED calls ELSE Call(c, "closed", FALSE)

\* Connections whose end has been announced are released, several at a time.
Release(S) ==
  /\ \A c \in S : life[c] = "down"
  /\ life' = [c \in Conns |-> IF c \in S THEN "gone" ELSE life[c]]
  /\ UNCHANGED <<shut, calls>>

Next ==
  \/ \E c \in Conns :
       \/ Accept(c) \/ Establish(c) \/ Message(c) \/ Shutdown(c)
       \/ End(c) \/ Close(c) \/ Destroy(c)
  \/ \E S \in SUBSET Conns : Release(S)

Spec == Init /\ [][Next]_vars

=============================================================================
