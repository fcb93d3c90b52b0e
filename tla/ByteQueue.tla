------------------------------ MODULE ByteQueue ------------------------------
(***************************************************************************)
(* What a Buffer promises to the connection that owns it: bytes come out   *)
(* in the order in which they were put in, none is lost, added or changed, *)
(* however its storage is moved and resized.                               *)
(***************************************************************************)
EXTENDS Naturals, Sequences

CONSTANTS Bytes,
          MaxChunk      \* bound on the bytes put in at a time

VARIABLES contents,     \* bytes put in and not yet taken out
          moved         \* the bytes put in, or handed to the caller, last

Chunks == UNION {[1 .. n -> Bytes] : n \in 0 .. MaxChunk}

QueueInit == contents = <<>> /\ moved = <<>>

Put(chunk) == contents' = contents \o chunk /\ moved' = chunk

\* The first n bytes are shown, the first k removed.
Take(n, k) ==
  /\ moved' = SubSeq(contents, 1, n)
  /\ contents' = SubSeq(contents, k + 1, Len(contents))

Drop(k) ==
  /\ contents' = SubSeq(contents, k + 1, Len(contents))
  /\ UNCHANGED moved

QueueNext ==
  \/ \E chunk \in Chunks : Put(chunk)
  \/ \E n \in 0 .. Len(contents) : Take(n, n) \/ Take(n, 0) \/ Drop(n)

QueueSpec == QueueInit /\ [][QueueNext]_<<contents, moved>>

=============================================================================
