-------------------------- MODULE EPOLLPollerProofs ---------------------------
(***************************************************************************)
(* Theorems about EPOLLPoller, for any number of connections and           *)
(* descriptors.                                                            *)
(***************************************************************************)
EXTENDS EPOLLPoller, FiniteSetTheorems, TLAPS

-----------------------------------------------------------------------------
(***************************************************************************)
(* The parts of a poller, and what an operation does to them.              *)
(***************************************************************************)
Parts(ev, ix, ch, ep, fl) ==
  [events |-> ev, index |-> ix, channels |-> ch, epoll |-> ep, failed |-> fl]

\* g with the value y at x.
Set(g, x, y) == [g EXCEPT ![x] = y]

\* What such a function is, at x and elsewhere.
LEMMA SetValues ==
  ASSUME NEW A, NEW B, NEW g \in [A -> B], NEW x \in A, NEW y \in B
  PROVE  /\ Set(g, x, y) \in [A -> B]
         /\ Set(g, x, y)[x] = y
         /\ \A z \in A \ {x} : Set(g, x, y)[z] = g[z]
BY DEF Set

\* A poller is made of its parts.
LEMMA PollerParts ==
  ASSUME NEW p \in Pollers
  PROVE  /\ p.events \in [Chans -> SUBSET Events]
         /\ p.index \in [Chans -> {"kNew", "kAdded", "kDeleted"}]
         /\ p.channels \in [Fds -> Chans \cup {NULL}]
         /\ p.epoll \in [Fds -> [ptr : Chans \cup {NULL}, mask : SUBSET Events]]
         /\ p.failed \in BOOLEAN
         /\ p = Parts(p.events, p.index, p.channels, p.epoll, p.failed)
BY DEF Pollers, Parts

\* Each field of Parts.
LEMMA PartsFields ==
  ASSUME NEW ev, NEW ix, NEW ch, NEW ep, NEW fl
  PROVE  /\ Parts(ev, ix, ch, ep, fl).events = ev
         /\ Parts(ev, ix, ch, ep, fl).index = ix
         /\ Parts(ev, ix, ch, ep, fl).channels = ch
         /\ Parts(ev, ix, ch, ep, fl).epoll = ep
         /\ Parts(ev, ix, ch, ep, fl).failed = fl
BY DEF Parts

\* Each of the elementary changes is one of one part.
LEMMA Changes ==
  ASSUME NEW ev, NEW ix, NEW ch, NEW ep, NEW fl, NEW x, NEW y
  PROVE  /\ Ask(Parts(ev, ix, ch, ep, fl), x, y) =
              Parts(Set(ev, x, y), ix, ch, ep, fl)
         /\ SetIndex(Parts(ev, ix, ch, ep, fl), x, y) =
              Parts(ev, Set(ix, x, y), ch, ep, fl)
         /\ Map(Parts(ev, ix, ch, ep, fl), x, y) =
              Parts(ev, ix, Set(ch, x, y), ep, fl)
         /\ Enter(Parts(ev, ix, ch, ep, fl), x, y) =
              Parts(ev, ix, ch, Set(ep, x, y), fl)
BY DEF Parts, Set, Ask, SetIndex, Map, Enter

\* An entry made for a channel is not the empty one.
LEMMA EntryIsSomething ==
  ASSUME NEW c \in Chans, NEW m
  PROVE  [ptr |-> c, mask |-> m] # Nothing
BY PollerAssumption DEF Nothing

\* A channel that is kNew is put into the map and into epoll.
LEMMA SetEventsOfNew ==
  ASSUME NEW p \in Pollers, NEW c \in Chans, NEW f \in Fds,
         NEW ev \in SUBSET Events,
         p.index[c] = "kNew", p.epoll[f] = Nothing
  PROVE  SetEvents(p, c, f, ev) =
           Parts(Set(p.events, c, ev),
                 Set(p.index, c, "kAdded"),
                 Set(p.channels, f, c),
                 Set(p.epoll, f, [ptr |-> c, mask |-> ev]),
                 p.failed)
<1> DEFINE q == Ask(p, c, ev)
           r == SetIndex(Map(q, f, c), c, "kAdded")
<1>1. q = Parts(Set(p.events, c, ev), p.index, p.channels, p.epoll,
                p.failed)
  BY PollerParts, Changes
<1>2. r = Parts(Set(p.events, c, ev), Set(p.index, c, "kAdded"),
                Set(p.channels, f, c), p.epoll, p.failed)
  BY <1>1, Changes
<1>3. SetEvents(p, c, f, ev) = CtlAdd(r, c, f)
  BY <1>1, PartsFields DEF SetEvents, UpdateChannel
<1>4. r.events[c] = ev /\ r.epoll[f] = Nothing
  <2>1. r.events = Set(p.events, c, ev) /\ r.epoll = p.epoll
    BY <1>2, PartsFields
  <2>2. QED
    BY <2>1, PollerParts DEF Set
<1> HIDE DEF r
<1>5. CtlAdd(r, c, f) = Enter(r, f, [ptr |-> c, mask |-> ev])
  BY <1>4 DEF CtlAdd, Watched, Entry
<1>6. QED
  BY <1>2, <1>3, <1>5, Changes

\* A channel that is kAdded and asks for something gets its entry changed.
LEMMA SetEventsOfAdded ==
  ASSUME NEW p \in Pollers, NEW c \in Chans, NEW f \in Fds,
         NEW ev \in SUBSET Events, ev # {},
         p.index[c] = "kAdded", p.epoll[f] # Nothing
  PROVE  SetEvents(p, c, f, ev) =
           Parts(Set(p.events, c, ev), p.index, p.channels,
                 Set(p.epoll, f, [ptr |-> c, mask |-> ev]), p.failed)
<1> DEFINE q == Ask(p, c, ev)
<1>1. q = Parts(Set(p.events, c, ev), p.index, p.channels, p.epoll,
                p.failed)
  BY PollerParts, Changes
<1>2. q.events[c] = ev /\ q.index[c] = "kAdded" /\ q.epoll[f] # Nothing
  <2>1. /\ q.events = Set(p.events, c, ev)
        /\ q.index = p.index /\ q.epoll = p.epoll
    BY <1>1, PartsFields
  <2>2. QED
    BY <2>1, PollerParts DEF Set
<1>3. SetEvents(p, c, f, ev) = CtlMod(q, c, f)
  BY <1>2 DEF SetEvents, UpdateChannel
<1> HIDE DEF q
<1>4. CtlMod(q, c, f) = Enter(q, f, [ptr |-> c, mask |-> ev])
  BY <1>2 DEF CtlMod, Watched, Entry
<1>5. QED
  BY <1>1, <1>3, <1>4, Changes

\* disbleALL on a channel that is kAdded takes it out of epoll.
LEMMA DisbleALLOfAdded ==
  ASSUME NEW p \in Pollers, NEW c \in Chans, NEW f \in Fds,
         p.index[c] = "kAdded", p.epoll[f] # Nothing
  PROVE  DisbleALL(p, c, f) =
           Parts(Set(p.events, c, {}),
                 Set(p.index, c, "kDeleted"), p.channels,
                 Set(p.epoll, f, Nothing), p.failed)
<1> DEFINE q == Ask(p, c, {})
<1>1. q = Parts(Set(p.events, c, {}), p.index, p.channels, p.epoll,
                p.failed)
  BY PollerParts, Changes
<1>2. q.events[c] = {} /\ q.index[c] = "kAdded" /\ q.epoll[f] # Nothing
  <2>1. /\ q.events = Set(p.events, c, {})
        /\ q.index = p.index /\ q.epoll = p.epoll
    BY <1>1, PartsFields
  <2>2. QED
    BY <2>1, PollerParts DEF Set
<1>3. DisbleALL(p, c, f) = SetIndex(CtlDel(q, f), c, "kDeleted")
  BY <1>2 DEF DisbleALL, SetEvents, UpdateChannel
<1> HIDE DEF q
<1>4. CtlDel(q, f) = Enter(q, f, Nothing)
  BY <1>2 DEF CtlDel, Watched
<1>5. QED
  BY <1>1, <1>3, <1>4, Changes

\* remove() of a channel epoll does not watch.
LEMMA RemoveUnwatched ==
  ASSUME NEW p \in Pollers, NEW c \in Chans, NEW f \in Fds,
         p.index[c] # "kAdded"
  PROVE  RemoveChannel(p, c, f) =
           Parts(p.events, Set(p.index, c, "kNew"),
                 Set(p.channels, f, NULL), p.epoll, p.failed)
<1>1. RemoveChannel(p, c, f) = SetIndex(Map(p, f, NULL), c, "kNew")
  BY DEF RemoveChannel
<1>2. QED
  BY <1>1, PollerParts, Changes

\* remove() of a channel epoll watches.
LEMMA RemoveWatched ==
  ASSUME NEW p \in Pollers, NEW c \in Chans, NEW f \in Fds,
         p.index[c] = "kAdded", p.epoll[f] # Nothing
  PROVE  RemoveChannel(p, c, f) =
           Parts(p.events, Set(p.index, c, "kNew"),
                 Set(p.channels, f, NULL),
                 Set(p.epoll, f, Nothing), p.failed)
<1> DEFINE q == Map(p, f, NULL)
<1>1. q = Parts(p.events, p.index, Set(p.channels, f, NULL), p.epoll,
                p.failed)
  BY PollerParts, Changes
<1>2. RemoveChannel(p, c, f) = SetIndex(CtlDel(q, f), c, "kNew")
  BY DEF RemoveChannel
<1>3. q.epoll[f] # Nothing
  BY <1>1, PartsFields
<1> HIDE DEF q
<1>4. CtlDel(q, f) = Enter(q, f, Nothing)
  BY <1>3 DEF CtlDel, Watched
<1>5. QED
  BY <1>1, <1>2, <1>4, Changes

\* Setting a value twice, and setting the value that is there.
LEMMA SetAgain ==
  ASSUME NEW A, NEW B, NEW g \in [A -> B], NEW x \in A, NEW y \in B, NEW z
  PROVE  /\ Set(Set(g, x, y), x, z) = Set(g, x, z)
         /\ Set(g, x, g[x]) = g
BY DEF Set

\* Parts of the right types make a poller.
LEMMA PartsMakePoller ==
  ASSUME NEW ev \in [Chans -> SUBSET Events],
         NEW ix \in [Chans -> {"kNew", "kAdded", "kDeleted"}],
         NEW ch \in [Fds -> Chans \cup {NULL}],
         NEW ep \in [Fds -> [ptr : Chans \cup {NULL}, mask : SUBSET Events]],
         NEW fl \in BOOLEAN
  PROVE  Parts(ev, ix, ch, ep, fl) \in Pollers
BY DEF Parts, Pollers

\* disbleALL and remove() leave nothing, whether the channel was watched or had
\* never asked for anything.
LEMMA NothingIsLeft ==
  ASSUME NEW p \in Pollers, NEW c \in Chans, NEW f \in Fds,
         \/ p.index[c] = "kNew" /\ p.epoll[f] = Nothing
         \/ p.index[c] = "kAdded" /\ p.epoll[f] # Nothing
  PROVE  DisableAndRemove(p, c, f) =
           Parts(Set(p.events, c, {}), Set(p.index, c, "kNew"),
                 Set(p.channels, f, NULL), Set(p.epoll, f, Nothing), p.failed)
<1> DEFINE q == DisbleALL(p, c, f)
           seen == [ptr |-> c, mask |-> {}]
<1>0. /\ Nothing \in [ptr : Chans \cup {NULL}, mask : SUBSET Events]
      /\ seen \in [ptr : Chans \cup {NULL}, mask : SUBSET Events]
      /\ seen # Nothing
  BY EntryIsSomething DEF Nothing
<1>1. CASE p.index[c] = "kNew" /\ p.epoll[f] = Nothing
  <2>1. q = Parts(Set(p.events, c, {}), Set(p.index, c, "kAdded"),
                  Set(p.channels, f, c), Set(p.epoll, f, seen), p.failed)
    BY <1>1, SetEventsOfNew DEF DisbleALL
  <2>2. /\ Set(p.events, c, {}) \in [Chans -> SUBSET Events]
        /\ Set(p.index, c, "kAdded") \in [Chans -> {"kNew", "kAdded", "kDeleted"}]
        /\ Set(p.channels, f, c) \in [Fds -> Chans \cup {NULL}]
        /\ Set(p.epoll, f, seen)
             \in [Fds -> [ptr : Chans \cup {NULL}, mask : SUBSET Events]]
        /\ p.channels \in [Fds -> Chans \cup {NULL}]
        /\ p.failed \in BOOLEAN
    BY <1>0, PollerParts DEF Set
  <2>3. q \in Pollers
    <3>1. \A ix \in [Chans -> {"kNew", "kAdded", "kDeleted"}] :
            \A ch \in [Fds -> Chans \cup {NULL}] :
              Parts(Set(p.events, c, {}), ix, ch, Set(p.epoll, f, seen), p.failed)
                \in Pollers
      BY <2>2, PartsMakePoller
    <3>2. QED
      BY <2>1, <2>2, <3>1
  <2>4. /\ q.events = Set(p.events, c, {})
        /\ q.index = Set(p.index, c, "kAdded")
        /\ q.channels = Set(p.channels, f, c)
        /\ q.epoll = Set(p.epoll, f, seen)
        /\ q.failed = p.failed
    BY <2>1, PartsFields
  <2>5. q.index[c] = "kAdded" /\ q.epoll[f] # Nothing
    BY <1>0, <2>4, PollerParts DEF Set
  <2> HIDE DEF q
  <2>6. RemoveChannel(q, c, f) =
          Parts(q.events, Set(q.index, c, "kNew"), Set(q.channels, f, NULL),
                Set(q.epoll, f, Nothing), q.failed)
    BY <2>3, <2>5, RemoveWatched
  <2>7. /\ Set(q.index, c, "kNew") = Set(p.index, c, "kNew")
        /\ Set(q.channels, f, NULL) = Set(p.channels, f, NULL)
        /\ Set(q.epoll, f, Nothing) = Set(p.epoll, f, Nothing)
    BY <1>0, <2>4, PollerParts DEF Set
  <2>8. QED
    BY <2>4, <2>6, <2>7 DEF DisableAndRemove, q
<1>2. CASE p.index[c] = "kAdded" /\ p.epoll[f] # Nothing
  <2>1. q = Parts(Set(p.events, c, {}), Set(p.index, c, "kDeleted"), p.channels,
                  Set(p.epoll, f, Nothing), p.failed)
    BY <1>2, DisbleALLOfAdded
  <2>2. /\ Set(p.events, c, {}) \in [Chans -> SUBSET Events]
        /\ Set(p.index, c, "kDeleted")
             \in [Chans -> {"kNew", "kAdded", "kDeleted"}]
        /\ Set(p.epoll, f, Nothing)
             \in [Fds -> [ptr : Chans \cup {NULL}, mask : SUBSET Events]]
        /\ p.channels \in [Fds -> Chans \cup {NULL}]
        /\ p.failed \in BOOLEAN
    BY <1>0, PollerParts DEF Set
  <2>3. q \in Pollers
    <3>1. \A ix \in [Chans -> {"kNew", "kAdded", "kDeleted"}] :
            \A ch \in [Fds -> Chans \cup {NULL}] :
              Parts(Set(p.events, c, {}), ix, ch, Set(p.epoll, f, Nothing), p.failed)
                \in Pollers
      BY <2>2, PartsMakePoller
    <3>2. QED
      BY <2>1, <2>2, <3>1
  <2>4. /\ q.events = Set(p.events, c, {})
        /\ q.index = Set(p.index, c, "kDeleted")
        /\ q.channels = p.channels
        /\ q.epoll = Set(p.epoll, f, Nothing)
        /\ q.failed = p.failed
    BY <2>1, PartsFields
  <2>5. q.index[c] # "kAdded"
    BY <2>4, PollerParts DEF Set
  <2> HIDE DEF q
  <2>6. RemoveChannel(q, c, f) =
          Parts(q.events, Set(q.index, c, "kNew"), Set(q.channels, f, NULL),
                q.epoll, q.failed)
    BY <2>3, <2>5, RemoveUnwatched
  <2>7. Set(q.index, c, "kNew") = Set(p.index, c, "kNew")
    BY <2>4, PollerParts DEF Set
  <2>8. QED
    BY <2>4, <2>6, <2>7 DEF DisableAndRemove, q
<1>3. QED
  BY <1>1, <1>2

-----------------------------------------------------------------------------
(***************************************************************************)
(* The inductive invariant.                                                *)
(***************************************************************************)
Indices == {"kNew", "kAdded", "kDeleted"}
Entries == [ptr : Chans \cup {NULL}, mask : SUBSET Events]
Agreement ==
  /\ poller \in Pollers
  /\ ~poller.failed
  /\ FdsDiffer
  /\ \A c \in Chans : StageTells(c)
  /\ FreeFds

\* A step that gives channel c the interest ev and the index ix, and its
\* descriptor the entries ch in the map and e in epoll.
Changed(c, ev, ix, ch, e) ==
  poller' = Parts(Set(poller.events, c, ev), Set(poller.index, c, ix),
                  Set(poller.channels, fd_[c], ch),
                  Set(poller.epoll, fd_[c], e), poller.failed)

\* What such a step leaves.
LEMMA ChangedValues ==
  ASSUME poller \in Pollers, NEW c \in Chans, fd_[c] \in Fds,
         NEW ev \in SUBSET Events, NEW ix \in Indices,
         NEW ch \in Chans \cup {NULL}, NEW e \in Entries,
         Changed(c, ev, ix, ch, e)
  PROVE  /\ poller' \in Pollers
         /\ poller'.failed = poller.failed
         /\ poller'.events[c] = ev
         /\ poller'.index[c] = ix
         /\ poller'.channels[fd_[c]] = ch
         /\ poller'.epoll[fd_[c]] = e
         /\ \A d \in Chans \ {c} : /\ poller'.events[d] = poller.events[d]
                                   /\ poller'.index[d] = poller.index[d]
         /\ \A g \in Fds \ {fd_[c]} : /\ poller'.channels[g] = poller.channels[g]
                                      /\ poller'.epoll[g] = poller.epoll[g]
<1>1. /\ Set(poller.events, c, ev) \in [Chans -> SUBSET Events]
      /\ Set(poller.index, c, ix) \in [Chans -> {"kNew", "kAdded", "kDeleted"}]
      /\ Set(poller.channels, fd_[c], ch) \in [Fds -> Chans \cup {NULL}]
      /\ Set(poller.epoll, fd_[c], e)
           \in [Fds -> [ptr : Chans \cup {NULL}, mask : SUBSET Events]]
      /\ poller.failed \in BOOLEAN
  BY PollerParts DEF Set, Indices, Entries
<1>2. poller' \in Pollers
  BY <1>1, PartsMakePoller DEF Changed
<1>3. /\ poller'.events = Set(poller.events, c, ev)
      /\ poller'.index = Set(poller.index, c, ix)
      /\ poller'.channels = Set(poller.channels, fd_[c], ch)
      /\ poller'.epoll = Set(poller.epoll, fd_[c], e)
      /\ poller'.failed = poller.failed
  BY PartsFields DEF Changed
<1>4. /\ poller.events \in [Chans -> SUBSET Events]
      /\ poller.index \in [Chans -> Indices]
      /\ poller.channels \in [Fds -> Chans \cup {NULL}]
      /\ poller.epoll \in [Fds -> Entries]
  BY PollerParts DEF Indices, Entries
<1>5. QED
  BY <1>2, <1>3, <1>4 DEF Set

\* A step of one channel keeps the agreement if what it leaves fits its stage.
LEMMA OneChannel ==
  ASSUME TypeOK, Agreement, NEW c \in Chans, stage[c] # "none",
         NEW s \in {"built", "up", "closed", "removed"}, To(c, s),
         UNCHANGED fd_,
         NEW ev \in SUBSET Events, NEW ix \in Indices,
         NEW ch \in Chans \cup {NULL}, NEW e \in Entries,
         Changed(c, ev, ix, ch, e),
         s \in {"built", "removed"} => ix = "kNew" /\ ch = NULL /\ e = Nothing,
         s = "built" => ev = {},
         s = "up" => /\ ix = "kAdded" /\ ch = c /\ "in" \in ev
                     /\ e = [ptr |-> c, mask |-> ev],
         s = "closed" => ix = "kDeleted" /\ ch = c /\ ev = {} /\ e = Nothing
  PROVE  Agreement'
<1>1. fd_[c] \in Fds
  BY DEF TypeOK, Agreement, FdsDiffer
<1>2. /\ poller' \in Pollers
      /\ poller'.failed = poller.failed
      /\ poller'.events[c] = ev
      /\ poller'.index[c] = ix
      /\ poller'.channels[fd_[c]] = ch
      /\ poller'.epoll[fd_[c]] = e
      /\ \A d \in Chans \ {c} : /\ poller'.events[d] = poller.events[d]
                                /\ poller'.index[d] = poller.index[d]
      /\ \A g \in Fds \ {fd_[c]} : /\ poller'.channels[g] = poller.channels[g]
                                   /\ poller'.epoll[g] = poller.epoll[g]
  BY <1>1, ChangedValues DEF Agreement
<1>3. stage'[c] = s /\ \A d \in Chans \ {c} : stage'[d] = stage[d]
  BY DEF To, TypeOK
<1>4. FdsDiffer'
  BY <1>3 DEF Agreement, FdsDiffer
<1>5. StageTells(c)'
  BY <1>2, <1>3 DEF StageTells
<1>6. ASSUME NEW d \in Chans, d # c
      PROVE  StageTells(d)'
  <2>1. CASE stage[d] = "none"
    BY <1>3, <1>6, <2>1 DEF StageTells
  <2>2. CASE stage[d] # "none"
    <3>1. fd_[d] \in Fds /\ fd_[d] # fd_[c]
      BY <1>1, <1>6, <2>2 DEF TypeOK, Agreement, FdsDiffer, NoFd
    <3>2. StageTells(d)
      BY DEF Agreement
    <3>3. QED
      BY <1>2, <1>3, <1>6, <3>1, <3>2 DEF StageTells
  <2>3. QED
    BY <2>1, <2>2
<1>7. FreeFds'
  BY <1>2 DEF Agreement, FreeFds, InUse
<1>8. QED
  BY <1>2, <1>4, <1>5, <1>6, <1>7 DEF Agreement

\* A step that leaves nothing of a channel and closes its descriptor.
LEMMA Closing ==
  ASSUME TypeOK, Agreement, NEW c \in Chans, stage[c] # "none",
         To(c, "none"), fd_' = [fd_ EXCEPT ![c] = NoFd],
         NEW ev \in SUBSET Events, NEW ix \in Indices,
         Changed(c, ev, ix, NULL, Nothing)
  PROVE  Agreement'
<1>1. fd_[c] \in Fds
  BY DEF TypeOK, Agreement, FdsDiffer
<1>2. /\ poller' \in Pollers
      /\ poller'.failed = poller.failed
      /\ poller'.channels[fd_[c]] = NULL
      /\ poller'.epoll[fd_[c]] = Nothing
      /\ \A d \in Chans \ {c} : /\ poller'.events[d] = poller.events[d]
                                /\ poller'.index[d] = poller.index[d]
      /\ \A g \in Fds \ {fd_[c]} : /\ poller'.channels[g] = poller.channels[g]
                                   /\ poller'.epoll[g] = poller.epoll[g]
  <2>1. Nothing \in Entries
    BY DEF Nothing, Entries
  <2>2. QED
    BY <1>1, <2>1, ChangedValues DEF Agreement
<1>3. stage'[c] = "none" /\ \A d \in Chans \ {c} : stage'[d] = stage[d]
  BY DEF To, TypeOK
<1>4. fd_'[c] = NoFd /\ \A d \in Chans \ {c} : fd_'[d] = fd_[d]
  BY DEF TypeOK
<1>5. FdsDiffer'
  BY <1>3, <1>4 DEF Agreement, FdsDiffer
<1>6. ASSUME NEW d \in Chans
      PROVE  StageTells(d)'
  <2>1. CASE stage'[d] = "none"
    BY <2>1 DEF StageTells
  <2>2. CASE stage'[d] # "none"
    <3>1. fd_[d] \in Fds /\ fd_[d] # fd_[c] /\ d # c
      BY <1>1, <1>3, <2>2 DEF TypeOK, Agreement, FdsDiffer, NoFd
    <3>2. StageTells(d)
      BY DEF Agreement
    <3>3. QED
      BY <1>2, <1>3, <1>4, <3>1, <3>2 DEF StageTells
  <2>3. QED
    BY <2>1, <2>2
<1>7. FreeFds'
  <2>1. SUFFICES ASSUME NEW g \in Fds \ InUse'
                 PROVE  poller'.channels[g] = NULL /\ poller'.epoll[g] = Nothing
    BY DEF FreeFds
  <2>2. CASE g = fd_[c]
    BY <1>2, <2>2
  <2>3. CASE g # fd_[c]
    <3>1. g \notin InUse
      BY <1>4, <2>3 DEF InUse
    <3>2. QED
      BY <1>2, <2>3, <3>1 DEF Agreement, FreeFds
  <2>4. QED
    BY <2>2, <2>3
<1>8. QED
  BY <1>2, <1>5, <1>6, <1>7 DEF Agreement

\* The invariant is what the lemmas keep, and the rest of it.
LEMMA AgreementInIInv ==
  IInv <=> TypeOK /\ Agreement /\ ActiveAreUp
BY DEF IInv, Agreement, CtlNeverFails, TypeOK

\* A poller in which one channel keeps its parts has changed all the same.
LEMMA KeepsParts ==
  ASSUME poller \in Pollers, NEW c \in Chans, fd_[c] \in Fds
  PROVE  /\ Set(poller.events, c, poller.events[c]) = poller.events
         /\ Set(poller.index, c, poller.index[c]) = poller.index
         /\ Set(poller.channels, fd_[c], poller.channels[fd_[c]]) = poller.channels
         /\ Set(poller.epoll, fd_[c], poller.epoll[fd_[c]]) = poller.epoll
         /\ poller.events[c] \in SUBSET Events
         /\ poller.index[c] \in Indices
         /\ poller.channels[fd_[c]] \in Chans \cup {NULL}
         /\ poller.epoll[fd_[c]] \in Entries
BY PollerParts DEF Set, Indices, Entries

\* A channel that is up is in the map and watched.
LEMMA UpIsWatched ==
  ASSUME Agreement, NEW c \in Chans, stage[c] = "up"
  PROVE  /\ poller.index[c] = "kAdded"
         /\ poller.channels[fd_[c]] = c
         /\ poller.epoll[fd_[c]] # Nothing
<1>1. StageTells(c)
  BY DEF Agreement
<1>2. /\ poller.index[c] = "kAdded"
      /\ poller.channels[fd_[c]] = c
      /\ poller.epoll[fd_[c]] = [ptr |-> c, mask |-> poller.events[c]]
  BY <1>1 DEF StageTells
<1>3. [ptr |-> c, mask |-> poller.events[c]] # Nothing
  BY EntryIsSomething
<1>4. QED
  BY <1>2, <1>3

\* enableReading of a channel that has been built.
LEMMA FirstReading ==
  ASSUME TypeOK, Agreement, NEW c \in Chans, stage[c] = "built",
         To(c, "up"), UNCHANGED fd_,
         poller' = EnableReading(poller, c, fd_[c])
  PROVE  Agreement'
<1> DEFINE e == [ptr |-> c, mask |-> {"in"}]
<1>1. fd_[c] \in Fds
  BY DEF TypeOK, Agreement, FdsDiffer
<1>2. /\ poller.events[c] = {} /\ poller.index[c] = "kNew"
      /\ poller.epoll[fd_[c]] = Nothing
  BY DEF Agreement, StageTells
<1>3. EnableReading(poller, c, fd_[c]) = SetEvents(poller, c, fd_[c], {"in"})
  BY <1>2 DEF EnableReading
<1>4. {"in"} \in SUBSET Events /\ e \in Entries
  BY DEF Events, Entries
<1>5. Changed(c, {"in"}, "kAdded", c, e)
  BY <1>1, <1>2, <1>3, <1>4, SetEventsOfNew DEF Agreement, Changed
<1>6. QED
  BY <1>4, <1>5, OneChannel DEF Indices

\* A channel that is up asks for something else, reading in any case.
LEMMA OtherEvents ==
  ASSUME TypeOK, Agreement, NEW c \in Chans, stage[c] = "up",
         NEW ev \in SUBSET Events, "in" \in ev,
         UNCHANGED <<stage, fd_>>,
         poller' = SetEvents(poller, c, fd_[c], ev)
  PROVE  Agreement'
<1> DEFINE e == [ptr |-> c, mask |-> ev]
<1>1. fd_[c] \in Fds
  BY DEF TypeOK, Agreement, FdsDiffer
<1>2. /\ poller.index[c] = "kAdded"
      /\ poller.channels[fd_[c]] = c
      /\ poller.epoll[fd_[c]] # Nothing
  BY UpIsWatched
<1>3. e \in Entries
  BY DEF Entries
<1>4. poller' = Parts(Set(poller.events, c, ev), poller.index, poller.channels,
                      Set(poller.epoll, fd_[c], e), poller.failed)
  BY <1>1, <1>2, SetEventsOfAdded DEF Agreement
<1>5. Changed(c, ev, "kAdded", c, e)
  BY <1>1, <1>2, <1>4, KeepsParts DEF Agreement, Changed
<1>6. To(c, "up")
  BY DEF To, TypeOK
<1>7. QED
  BY <1>3, <1>5, <1>6, OneChannel DEF Indices

\* handleClose.
LEMMA ClosedStep ==
  ASSUME TypeOK, Agreement, NEW c \in Chans, stage[c] = "up",
         To(c, "closed"), UNCHANGED fd_,
         poller' = DisbleALL(poller, c, fd_[c])
  PROVE  Agreement'
<1>1. fd_[c] \in Fds
  BY DEF TypeOK, Agreement, FdsDiffer
<1>2. /\ poller.index[c] = "kAdded"
      /\ poller.channels[fd_[c]] = c
      /\ poller.epoll[fd_[c]] # Nothing
  BY UpIsWatched
<1>3. Nothing \in Entries
  BY DEF Nothing, Entries
<1>4. poller' = Parts(Set(poller.events, c, {}), Set(poller.index, c, "kDeleted"),
                      poller.channels, Set(poller.epoll, fd_[c], Nothing),
                      poller.failed)
  BY <1>1, <1>2, DisbleALLOfAdded DEF Agreement
<1>5. Changed(c, {}, "kDeleted", c, Nothing)
  BY <1>1, <1>2, <1>4, KeepsParts DEF Agreement, Changed
<1>6. QED
  BY <1>3, <1>5, OneChannel DEF Indices

\* remove() of a channel, whatever it has been through.
LEMMA RemovedStep ==
  ASSUME TypeOK, Agreement, NEW c \in Chans,
         stage[c] \in {"built", "up", "closed"},
         To(c, "removed"), UNCHANGED fd_,
         poller' = RemoveChannel(poller, c, fd_[c])
  PROVE  Agreement'
<1> DEFINE ev == poller.events[c]
<1>1. fd_[c] \in Fds
  BY DEF TypeOK, Agreement, FdsDiffer
<1>2. Nothing \in Entries /\ ev \in SUBSET Events
  BY <1>1, KeepsParts DEF Nothing, Entries, Agreement
<1>3. Changed(c, ev, "kNew", NULL, Nothing)
  <2>1. CASE stage[c] = "up"
    <3>1. poller.index[c] = "kAdded" /\ poller.epoll[fd_[c]] # Nothing
      BY <2>1, UpIsWatched
    <3>2. poller' = Parts(poller.events, Set(poller.index, c, "kNew"),
                          Set(poller.channels, fd_[c], NULL),
                          Set(poller.epoll, fd_[c], Nothing), poller.failed)
      BY <1>1, <3>1, RemoveWatched DEF Agreement
    <3>3. QED
      BY <1>1, <3>2, KeepsParts DEF Agreement, Changed
  <2>2. CASE stage[c] \in {"built", "closed"}
    <3>1. poller.index[c] # "kAdded" /\ poller.epoll[fd_[c]] = Nothing
      BY <2>2 DEF Agreement, StageTells
    <3>2. poller' = Parts(poller.events, Set(poller.index, c, "kNew"),
                          Set(poller.channels, fd_[c], NULL),
                          poller.epoll, poller.failed)
      BY <1>1, <3>1, RemoveUnwatched DEF Agreement
    <3>3. QED
      BY <1>1, <3>1, <3>2, KeepsParts DEF Agreement, Changed
  <2>3. QED
    BY <2>1, <2>2
<1>4. QED
  BY <1>2, <1>3, OneChannel DEF Indices

\* disbleALL and remove() of a channel that has been built, up or not.
LEMMA DisabledAndRemoved ==
  ASSUME TypeOK, Agreement, NEW c \in Chans, stage[c] \in {"built", "up"},
         poller' = DisableAndRemove(poller, c, fd_[c])
  PROVE  Changed(c, {}, "kNew", NULL, Nothing)
<1>1. fd_[c] \in Fds
  BY DEF TypeOK, Agreement, FdsDiffer
<1>2. \/ poller.index[c] = "kNew" /\ poller.epoll[fd_[c]] = Nothing
      \/ poller.index[c] = "kAdded" /\ poller.epoll[fd_[c]] # Nothing
  <2>1. CASE stage[c] = "built"
    BY <2>1 DEF Agreement, StageTells
  <2>2. CASE stage[c] = "up"
    BY <2>2, UpIsWatched
  <2>3. QED
    BY <2>1, <2>2
<1>3. QED
  BY <1>1, <1>2, NothingIsLeft DEF Agreement, Changed

\* The destruction of a channel with its object.
LEMMA ClosedForGood ==
  ASSUME TypeOK, Agreement, NEW c \in Chans, stage[c] \in {"built", "up"},
         Close(c, DisableAndRemove(poller, c, fd_[c]))
  PROVE  Agreement'
<1> DEFINE p == DisableAndRemove(poller, c, fd_[c])
<1>1. fd_[c] \in Fds
  BY DEF TypeOK, Agreement, FdsDiffer
<1>2. \/ poller.index[c] = "kNew" /\ poller.epoll[fd_[c]] = Nothing
      \/ poller.index[c] = "kAdded" /\ poller.epoll[fd_[c]] # Nothing
  <2>1. CASE stage[c] = "built"
    BY <2>1 DEF Agreement, StageTells
  <2>2. CASE stage[c] = "up"
    BY <2>2, UpIsWatched
  <2>3. QED
    BY <2>1, <2>2
<1>3. p = Parts(Set(poller.events, c, {}), Set(poller.index, c, "kNew"),
                Set(poller.channels, fd_[c], NULL),
                Set(poller.epoll, fd_[c], Nothing), poller.failed)
  BY <1>1, <1>2, NothingIsLeft DEF Agreement
<1> HIDE DEF p
<1>4. Enter(p, fd_[c], Nothing) =
        Parts(Set(poller.events, c, {}), Set(poller.index, c, "kNew"),
              Set(poller.channels, fd_[c], NULL),
              Set(Set(poller.epoll, fd_[c], Nothing), fd_[c], Nothing),
              poller.failed)
  BY <1>3, Changes
<1>5. Set(Set(poller.epoll, fd_[c], Nothing), fd_[c], Nothing) =
        Set(poller.epoll, fd_[c], Nothing)
  BY <1>1, PollerParts DEF Agreement, Set
<1>6. Changed(c, {}, "kNew", NULL, Nothing)
  BY <1>4, <1>5 DEF Close, Changed, p
<1>7. QED
  BY <1>6, Closing DEF Close, Indices

\* The release of a connection that has been removed.
LEMMA ReleasedStep ==
  ASSUME TypeOK, Agreement, NEW c \in Chans, stage[c] = "removed",
         Close(c, poller)
  PROVE  Agreement'
<1>1. fd_[c] \in Fds
  BY DEF TypeOK, Agreement, FdsDiffer
<1>2. /\ poller.index[c] = "kNew"
      /\ poller.channels[fd_[c]] = NULL
  BY DEF Agreement, StageTells
<1>3. Enter(poller, fd_[c], Nothing) =
        Parts(poller.events, poller.index, poller.channels,
              Set(poller.epoll, fd_[c], Nothing), poller.failed)
  BY PollerParts, Changes DEF Agreement
<1>4. Changed(c, poller.events[c], "kNew", NULL, Nothing)
  BY <1>1, <1>2, <1>3, KeepsParts DEF Agreement, Changed, Close
<1>5. poller.events[c] \in SUBSET Events
  BY <1>1, KeepsParts DEF Agreement
<1>6. QED
  BY <1>4, <1>5, Closing DEF Close, Indices

\* A new connection on a descriptor no other channel has.
LEMMA AcceptedStep ==
  ASSUME TypeOK, Agreement, NEW c \in Chans, NEW f \in Fds \ InUse,
         stage[c] = "none", To(c, "built"),
         fd_' = [fd_ EXCEPT ![c] = f],
         poller' = Construct(poller, c)
  PROVE  Agreement'
<1>1. poller' = Parts(Set(poller.events, c, {}), Set(poller.index, c, "kNew"),
                      poller.channels, poller.epoll, poller.failed)
  <2>1. Ask(poller, c, {}) =
          Parts(Set(poller.events, c, {}), poller.index, poller.channels,
                poller.epoll, poller.failed)
    BY PollerParts, Changes DEF Agreement
  <2>2. QED
    BY <2>1, Changes DEF Construct
<1>2. /\ Set(poller.events, c, {}) \in [Chans -> SUBSET Events]
      /\ Set(poller.index, c, "kNew") \in [Chans -> {"kNew", "kAdded", "kDeleted"}]
      /\ poller.channels \in [Fds -> Chans \cup {NULL}]
      /\ poller.epoll \in [Fds -> [ptr : Chans \cup {NULL}, mask : SUBSET Events]]
      /\ poller.failed \in BOOLEAN
  BY PollerParts DEF Agreement, Set
<1>3. poller' \in Pollers
  BY <1>1, <1>2, PartsMakePoller
<1>4. /\ poller'.events = Set(poller.events, c, {})
      /\ poller'.index = Set(poller.index, c, "kNew")
      /\ poller'.channels = poller.channels
      /\ poller'.epoll = poller.epoll
      /\ poller'.failed = poller.failed
  BY <1>1, PartsFields
<1>5. /\ poller'.events[c] = {}
      /\ poller'.index[c] = "kNew"
      /\ \A d \in Chans \ {c} : /\ poller'.events[d] = poller.events[d]
                                /\ poller'.index[d] = poller.index[d]
  BY <1>4, PollerParts DEF Agreement, Set
<1>6. stage'[c] = "built" /\ \A d \in Chans \ {c} : stage'[d] = stage[d]
  BY DEF To, TypeOK
<1>7. fd_'[c] = f /\ \A d \in Chans \ {c} : fd_'[d] = fd_[d]
  BY DEF TypeOK
<1>8. FdsDiffer'
  BY <1>6, <1>7 DEF Agreement, FdsDiffer, InUse, Fds, NoFd
<1>9. StageTells(c)'
  <2>1. poller.channels[f] = NULL /\ poller.epoll[f] = Nothing
    BY DEF Agreement, FreeFds
  <2>2. QED
    BY <1>4, <1>5, <1>6, <1>7, <2>1 DEF StageTells
<1>10. ASSUME NEW d \in Chans, d # c
       PROVE  StageTells(d)'
  <2>1. StageTells(d)
    BY DEF Agreement
  <2>2. QED
    BY <1>4, <1>5, <1>6, <1>7, <1>10, <2>1 DEF StageTells
<1>11. FreeFds'
  <2>1. SUFFICES ASSUME NEW g \in Fds \ InUse'
                 PROVE  poller.channels[g] = NULL /\ poller.epoll[g] = Nothing
    BY <1>4 DEF FreeFds
  <2>2. g \notin InUse
    BY <1>7 DEF InUse, Agreement, FdsDiffer, Fds, NoFd
  <2>3. QED
    BY <2>2 DEF Agreement, FreeFds
<1>12. QED
  BY <1>3, <1>4, <1>8, <1>9, <1>10, <1>11 DEF Agreement

-----------------------------------------------------------------------------
(***************************************************************************)
(* Every step keeps the invariant.                                         *)
(***************************************************************************)

\* What epoll reports is the channel that has the descriptor, and it is up.
LEMMA ReportedAreUp ==
  ASSUME TypeOK, Agreement, NEW f \in Fds, Watched(poller, f)
  PROVE  poller.epoll[f].ptr \in Chans /\ stage[poller.epoll[f].ptr] = "up"
<1>1. f \in InUse
  BY DEF Agreement, FreeFds, Watched
<1>2. PICK c \in Chans : fd_[c] = f
  BY <1>1 DEF InUse
<1>3. StageTells(c) /\ stage[c] # "none"
  BY <1>2 DEF Agreement, FdsDiffer, Fds, NoFd
<1>4. stage[c] = "up"
  BY <1>2, <1>3 DEF StageTells, Watched, TypeOK
<1>5. poller.epoll[f].ptr = c
  BY <1>2, <1>3, <1>4 DEF StageTells
<1>6. QED
  BY <1>4, <1>5

\* Init: the wakeup channel is reading, the acceptor has been built.
LEMMA InitInv == Init => IInv
<1> SUFFICES ASSUME Init PROVE IInv
  OBVIOUS
<1>1. Empty \in Pollers
  BY DEF Empty, Pollers, Nothing
<1>2. /\ Wakeup \in Chans /\ Acceptor \in Chans /\ Acceptor # Wakeup
      /\ WakeupFd \in Fds /\ ListenFd \in Fds /\ WakeupFd # ListenFd
      /\ Wakeup \notin Conns /\ Acceptor \notin Conns
  BY PollerAssumption DEF Chans, WakeupFd, ListenFd, Fds
<1>3. /\ Empty.events[Wakeup] = {} /\ Empty.index[Wakeup] = "kNew"
      /\ Empty.epoll[WakeupFd] = Nothing
      /\ \A c \in Chans : Empty.events[c] = {} /\ Empty.index[c] = "kNew"
      /\ \A f \in Fds : Empty.channels[f] = NULL /\ Empty.epoll[f] = Nothing
      /\ Empty.failed = FALSE
  BY <1>2 DEF Empty
<1> DEFINE e == [ptr |-> Wakeup, mask |-> {"in"}]
<1>4. /\ {"in"} \in SUBSET Events /\ e \in Entries
  BY <1>2 DEF Events, Entries
<1>5. poller = SetEvents(Empty, Wakeup, WakeupFd, {"in"})
  BY <1>3 DEF Init, EnableReading
<1>6. poller = Parts(Set(Empty.events, Wakeup, {"in"}),
                     Set(Empty.index, Wakeup, "kAdded"),
                     Set(Empty.channels, WakeupFd, Wakeup),
                     Set(Empty.epoll, WakeupFd, e), Empty.failed)
  BY <1>1, <1>2, <1>3, <1>4, <1>5, SetEventsOfNew
<1>7. /\ poller.events = Set(Empty.events, Wakeup, {"in"})
      /\ poller.index = Set(Empty.index, Wakeup, "kAdded")
      /\ poller.channels = Set(Empty.channels, WakeupFd, Wakeup)
      /\ poller.epoll = Set(Empty.epoll, WakeupFd, e)
      /\ poller.failed = FALSE
  BY <1>3, <1>6, PartsFields
<1>8. /\ Empty.events \in [Chans -> SUBSET Events]
      /\ Empty.index \in [Chans -> {"kNew", "kAdded", "kDeleted"}]
      /\ Empty.channels \in [Fds -> Chans \cup {NULL}]
      /\ Empty.epoll \in [Fds -> Entries]
  BY <1>1, PollerParts DEF Entries
<1>9. /\ Set(Empty.events, Wakeup, {"in"}) \in [Chans -> SUBSET Events]
      /\ Set(Empty.index, Wakeup, "kAdded")
           \in [Chans -> {"kNew", "kAdded", "kDeleted"}]
      /\ Set(Empty.channels, WakeupFd, Wakeup) \in [Fds -> Chans \cup {NULL}]
      /\ Set(Empty.epoll, WakeupFd, e)
           \in [Fds -> [ptr : Chans \cup {NULL}, mask : SUBSET Events]]
      /\ Empty.failed \in BOOLEAN
  BY <1>2, <1>3, <1>4, <1>8 DEF Set, Entries
<1>10. poller \in Pollers
  BY <1>6, <1>9, PartsMakePoller
<1>11. /\ poller.events[Wakeup] = {"in"} /\ poller.index[Wakeup] = "kAdded"
       /\ poller.channels[WakeupFd] = Wakeup /\ poller.epoll[WakeupFd] = e
       /\ \A c \in Chans \ {Wakeup} : poller.events[c] = {} /\ poller.index[c] = "kNew"
       /\ \A f \in Fds \ {WakeupFd} : /\ poller.channels[f] = NULL
                                      /\ poller.epoll[f] = Nothing
  BY <1>2, <1>3, <1>4, <1>7, <1>8 DEF Set
<1>12. TypeOK
  BY <1>2, <1>10, PollerAssumption DEF TypeOK, Init, Pollers
<1>13. FdsDiffer
  BY <1>2 DEF FdsDiffer, Init, NoFd, WakeupFd, ListenFd
<1>14. ASSUME NEW c \in Chans PROVE StageTells(c)
  <2>1. CASE c = Wakeup
    BY <1>2, <1>11, <2>1 DEF StageTells, Init
  <2>2. CASE c = Acceptor
    BY <1>2, <1>11, <2>2 DEF StageTells, Init
  <2>3. CASE c \in Conns
    BY <1>2, <1>11, <2>3 DEF StageTells, Init
  <2>4. QED
    BY <2>1, <2>2, <2>3 DEF Chans
<1>15. FreeFds
  <2>1. \A f \in Fds \ InUse : f # WakeupFd
    BY <1>2 DEF InUse, Init
  <2>2. QED
    BY <1>11, <2>1 DEF FreeFds
<1>16. ActiveAreUp
  BY <1>2 DEF ActiveAreUp, Init
<1>17. QED
  BY <1>7, <1>12, <1>13, <1>14, <1>15, <1>16 DEF IInv, CtlNeverFails

\* Actions that leave the poller, the descriptors and the stages alone.
LEMMA Untouched ==
  ASSUME Agreement, UNCHANGED <<poller, fd_, stage>>
  PROVE  Agreement'
BY DEF Agreement, FdsDiffer, StageTells, FreeFds, InUse

\* A change of the stage of a connection that leaves it out of activeChannels_.
LEMMA OneStage ==
  ASSUME TypeOK, ActiveAreUp, NEW c \in Conns,
         NEW s \in {"none", "built", "up", "closed", "removed"}, To(c, s),
         UNCHANGED pc, active' \subseteq active,
         s = "up" \/ c \notin active'
  PROVE  ActiveAreUp'
<1>1. /\ stage'[c] = s
      /\ \A d \in Chans \ {c} : stage'[d] = stage[d]
  BY DEF To, TypeOK, Chans
<1>2. c # Wakeup /\ c # Acceptor /\ {Wakeup, Acceptor} \subseteq Chans
  BY PollerAssumption DEF Chans
<1>3. QED
  BY <1>1, <1>2 DEF ActiveAreUp, TypeOK

\* The step of the inductive invariant.
LEMMA StepInv == IInv /\ [Next]_vars => IInv'
<1> SUFFICES ASSUME TypeOK, Agreement, ActiveAreUp, [Next]_vars
             PROVE  TypeOK' /\ Agreement' /\ ActiveAreUp'
  BY AgreementInIInv DEF IInv, CtlNeverFails, Agreement
<1>0. /\ Conns \subseteq Chans /\ Wakeup \in Chans /\ Acceptor \in Chans
      /\ Acceptor # Wakeup
      /\ Agreement' => poller' \in Pollers
      /\ \A c \in Chans : stage[c] # "none" => fd_[c] \in Fds
  BY PollerAssumption DEF Chans, Agreement, TypeOK, FdsDiffer
<1>1. CASE Listen
  <2>1. Agreement'
    BY <1>0, <1>1, FirstReading DEF Listen
  <2>2. TypeOK'
    BY <1>0, <1>1, <2>1 DEF TypeOK, Listen, To
  <2>3. ActiveAreUp'
    BY <1>0, <1>1 DEF ActiveAreUp, TypeOK, Listen, To
  <2>4. QED
    BY <2>1, <2>2, <2>3
<1>2. CASE EnterLoop \/ EndTurn \/ Stop \/ \E f \in Fds : BecomeReady(f)
  <2>1. Agreement'
    BY <1>2, Untouched DEF EnterLoop, EndTurn, Stop, BecomeReady
  <2>2. TypeOK'
    BY <1>2 DEF TypeOK, EnterLoop, EndTurn, Stop, BecomeReady
  <2>3. ActiveAreUp'
    BY <1>2 DEF ActiveAreUp, EnterLoop, EndTurn, Stop, BecomeReady
  <2>4. QED
    BY <2>1, <2>2, <2>3
<1>3. ASSUME NEW S \in SUBSET Fds, Poll(S)
      PROVE  TypeOK' /\ Agreement' /\ ActiveAreUp'
  <2>1. Agreement'
    BY <1>3, Untouched DEF Poll
  <2>2. \A f \in S : Watched(poller, f)
    BY <1>3 DEF Poll, Reportable
  <2>3. \A f \in S : /\ poller.epoll[f].ptr \in Chans
                     /\ stage[poller.epoll[f].ptr] = "up"
    BY <2>2, ReportedAreUp
  <2>4. \A c \in active' : c \in Chans /\ stage[c] = "up"
    BY <1>3, <2>3 DEF Poll
  <2>5. size' \in Nat \ {0}
    BY <1>3 DEF Poll, Grown, TypeOK
  <2>6. TypeOK'
    BY <1>3, <2>4, <2>5 DEF TypeOK, Poll
  <2>7. ActiveAreUp'
    BY <1>3, <2>4 DEF ActiveAreUp, Poll
  <2>8. QED
    BY <2>1, <2>6, <2>7
<1>4. ASSUME NEW c \in Chans, HandleEvent(c)
      PROVE  TypeOK' /\ Agreement' /\ ActiveAreUp'
  <2>1. Agreement'
    BY <1>4, Untouched DEF HandleEvent
  <2>2. TypeOK'
    BY <1>4 DEF TypeOK, HandleEvent, Take, Settle
  <2>3. ActiveAreUp'
    BY <1>4 DEF ActiveAreUp, HandleEvent, Take
  <2>4. QED
    BY <2>1, <2>2, <2>3
<1>5. ASSUME NEW c \in Conns, HandleWrite(c)
      PROVE  TypeOK' /\ Agreement' /\ ActiveAreUp'
  <2>1. stage[c] = "up"
    BY <1>5 DEF HandleWrite, Take, ActiveAreUp
  <2>2. /\ poller.events[c] \ {"out"} \in SUBSET Events
        /\ "in" \in poller.events[c] \ {"out"}
    BY <1>0, <2>1, KeepsParts DEF Agreement, StageTells
  <2>3. Agreement'
    BY <1>0, <1>5, <2>1, <2>2, OtherEvents DEF HandleWrite, DisableWriteing
  <2>4. TypeOK'
    BY <1>0, <1>5, <2>3 DEF TypeOK, HandleWrite, Take, Settle
  <2>5. ActiveAreUp'
    BY <1>5 DEF ActiveAreUp, HandleWrite, Take
  <2>6. QED
    BY <2>3, <2>4, <2>5
<1>6. ASSUME NEW c \in Conns, HandleClose(c)
      PROVE  TypeOK' /\ Agreement' /\ ActiveAreUp'
  <2>1. stage[c] = "up"
    BY <1>6 DEF HandleClose, Take, ActiveAreUp
  <2>2. Agreement'
    BY <1>0, <1>6, <2>1, ClosedStep DEF HandleClose
  <2>3. TypeOK'
    BY <1>0, <1>6, <2>2 DEF TypeOK, HandleClose, Take, To
  <2>4. ActiveAreUp'
    BY <1>6, OneStage DEF HandleClose, Take
  <2>5. QED
    BY <2>2, <2>3, <2>4
<1>7. ASSUME NEW c \in Conns, NEW f \in Fds, Accept(c, f)
      PROVE  TypeOK' /\ Agreement' /\ ActiveAreUp'
  <2>1. Agreement'
    BY <1>0, <1>7, AcceptedStep DEF Accept
  <2>2. TypeOK'
    BY <1>0, <1>7, <2>1 DEF TypeOK, Accept, Take, Settle, To
  <2>3. c \notin active
    BY <1>7 DEF ActiveAreUp, Accept
  <2>4. ActiveAreUp'
    BY <1>7, <2>3, OneStage DEF Accept, Take
  <2>5. QED
    BY <2>1, <2>2, <2>4
<1>8. ASSUME NEW c \in Conns, Establish(c)
      PROVE  TypeOK' /\ Agreement' /\ ActiveAreUp'
  <2>1. Agreement'
    BY <1>0, <1>8, FirstReading DEF Establish
  <2>2. TypeOK'
    BY <1>0, <1>8, <2>1 DEF TypeOK, Establish, To
  <2>3. ActiveAreUp'
    BY <1>8, OneStage DEF Establish
  <2>4. QED
    BY <2>1, <2>2, <2>3
<1>9. ASSUME NEW c \in Conns, SendInLoop(c)
      PROVE  TypeOK' /\ Agreement' /\ ActiveAreUp'
  <2>1. /\ poller.events[c] \cup {"out"} \in SUBSET Events
        /\ "in" \in poller.events[c] \cup {"out"}
    BY <1>0, <1>9, KeepsParts DEF Agreement, StageTells, SendInLoop, Events
  <2>2. Agreement'
    BY <1>0, <1>9, <2>1, OtherEvents DEF SendInLoop, EnableWriteing
  <2>3. TypeOK'
    BY <1>0, <1>9, <2>2 DEF TypeOK, SendInLoop
  <2>4. ActiveAreUp'
    BY <1>9 DEF ActiveAreUp, SendInLoop
  <2>5. QED
    BY <2>2, <2>3, <2>4
<1>10. ASSUME NEW c \in Conns, ConnectDestroyed(c)
       PROVE  TypeOK' /\ Agreement' /\ ActiveAreUp'
  <2>1. Agreement'
    BY <1>0, <1>10, RemovedStep DEF ConnectDestroyed
  <2>2. TypeOK'
    BY <1>0, <1>10, <2>1 DEF TypeOK, ConnectDestroyed, To
  <2>3. ActiveAreUp'
    BY <1>10, OneStage DEF ConnectDestroyed
  <2>4. QED
    BY <2>1, <2>2, <2>3
<1>11. ASSUME NEW c \in Conns, Release(c)
       PROVE  TypeOK' /\ Agreement' /\ ActiveAreUp'
  <2>1. Agreement'
    BY <1>0, <1>11, ReleasedStep DEF Release
  <2>2. TypeOK'
    BY <1>0, <1>11, <2>1 DEF TypeOK, Release, Close, To
  <2>3. c \notin active
    BY <1>11 DEF ActiveAreUp, Release
  <2>4. ActiveAreUp'
    BY <1>11, <2>3, OneStage DEF Release, Close
  <2>5. QED
    BY <2>1, <2>2, <2>4
<1>12. ASSUME NEW c \in Conns, DestroyConnection(c)
       PROVE  TypeOK' /\ Agreement' /\ ActiveAreUp'
  <2>1. Agreement'
    <3>1. CASE poller' = RemoveChannel(poller, c, fd_[c])
      BY <1>0, <1>12, <3>1, RemovedStep DEF DestroyConnection
    <3>2. CASE poller' = DisableAndRemove(poller, c, fd_[c])
      <4>1. Changed(c, {}, "kNew", NULL, Nothing)
        BY <1>0, <1>12, <3>2, DisabledAndRemoved DEF DestroyConnection
      <4>2. Nothing \in Entries
        BY DEF Nothing, Entries
      <4>3. QED
        BY <1>0, <1>12, <4>1, <4>2, OneChannel DEF DestroyConnection, Indices
    <3>3. QED
      BY <1>12, <3>1, <3>2 DEF DestroyConnection, Destroyed
  <2>2. TypeOK'
    BY <1>0, <1>12, <2>1 DEF TypeOK, DestroyConnection, To
  <2>3. active = {}
    BY <1>12 DEF ActiveAreUp, DestroyConnection
  <2>4. ActiveAreUp'
    BY <1>12, <2>3, OneStage DEF DestroyConnection
  <2>5. QED
    BY <2>1, <2>2, <2>4
<1>13. CASE DestroyAcceptor
  <2>1. Agreement'
    BY <1>0, <1>13, ClosedForGood DEF DestroyAcceptor
  <2>2. TypeOK'
    BY <1>0, <1>13, <2>1 DEF TypeOK, DestroyAcceptor, Close, To
  <2>3. active = {} /\ active' = {}
    BY <1>13 DEF ActiveAreUp, DestroyAcceptor
  <2>4. ActiveAreUp'
    BY <1>0, <1>13, <2>3 DEF ActiveAreUp, TypeOK, DestroyAcceptor, Close, To
  <2>5. QED
    BY <2>1, <2>2, <2>4
<1>14. CASE DestroyLoop
  <2>1. stage[Wakeup] = "up"
    BY <1>14 DEF ActiveAreUp, DestroyLoop
  <2>2. Agreement'
    BY <1>0, <1>14, <2>1, ClosedForGood DEF DestroyLoop
  <2>3. TypeOK'
    BY <1>0, <1>14, <2>2 DEF TypeOK, DestroyLoop, Close, To
  <2>4. active = {} /\ active' = {}
    BY <1>14 DEF ActiveAreUp, DestroyLoop
  <2>5. ActiveAreUp'
    BY <1>0, <1>14, <2>4 DEF ActiveAreUp, TypeOK, DestroyLoop, Close, To
  <2>6. QED
    BY <2>2, <2>3, <2>5
<1>15. CASE UNCHANGED vars
  <2>1. Agreement'
    BY <1>15, Untouched DEF vars
  <2>2. QED
    BY <1>15, <2>1 DEF vars, TypeOK, ActiveAreUp
<1>16. QED
  BY <1>1, <1>2, <1>3, <1>4, <1>5, <1>6, <1>7, <1>8, <1>9, <1>10, <1>11, <1>12,
     <1>13, <1>14, <1>15 DEF Next, LoopThread

\* The poller's invariant, for any number of connections and descriptors: what
\* updateChannel, removeChannel and the closing of descriptors leave in index_,
\* channels_ and epoll fits the stage every channel is in.
THEOREM Invariance == Spec => []IInv
<1>1. Init => IInv
  BY InitInv
<1>2. IInv /\ [Next]_vars => IInv'
  BY StepInv
<1>3. QED
  BY <1>1, <1>2, PTL DEF Spec

\* No epoll_ctl ever fails: updateChannel adds only what epoll does not have,
\* and modifies or deletes only what it has.
THEOREM CtlIsSafe == Spec => []CtlNeverFails
<1>1. IInv => CtlNeverFails
  BY DEF IInv
<1>2. QED
  BY <1>1, Invariance, PTL

\* A channel that has not been removed is watched for what it asks for.
THEOREM Watching == Spec => []WatchedAsAsked
<1>1. IInv => WatchedAsAsked
  <2>1. SUFFICES ASSUME IInv, NEW c \in Chans, stage[c] \notin {"none", "removed"}
                 PROVE  poller.epoll[fd_[c]] =
                          IF poller.events[c] = {} THEN Nothing
                          ELSE [ptr |-> c, mask |-> poller.events[c]]
    BY DEF WatchedAsAsked
  <2>2. StageTells(c) /\ stage[c] \in {"built", "up", "closed"}
    BY <2>1 DEF IInv, TypeOK
  <2>3. QED
    BY <2>2 DEF StageTells
<1>2. QED
  BY <1>1, Invariance, PTL

\* The map, the indices and epoll tell the same of every channel and descriptor.
THEOREM Bookkeeping == Spec => []IndexAgrees
<1>1. IInv => IndexAgrees
  <2> SUFFICES ASSUME IInv PROVE IndexAgrees
    OBVIOUS
  <2>1. ASSUME NEW c \in Chans, stage[c] # "none"
        PROVE  /\ poller.channels[fd_[c]] = c <=> poller.index[c] # "kNew"
               /\ poller.epoll[fd_[c]].ptr = c <=> poller.index[c] = "kAdded"
    <3>1. StageTells(c) /\ stage[c] \in {"built", "up", "closed", "removed"}
      BY <2>1 DEF IInv, TypeOK
    <3>2. c # NULL /\ Nothing.ptr = NULL
      BY PollerAssumption DEF Nothing
    <3>3. QED
      BY <3>1, <3>2 DEF StageTells
  <2>2. ASSUME NEW f \in Fds,
               NEW c \in {poller.channels[f], poller.epoll[f].ptr} \ {NULL}
        PROVE  stage[c] # "none" /\ fd_[c] = f
    <3>1. Nothing.ptr = NULL
      BY DEF Nothing
    <3>2. f \in InUse
      BY <2>2, <3>1 DEF IInv, FreeFds
    <3>3. PICK d \in Chans : fd_[d] = f
      BY <3>2 DEF InUse
    <3>4. /\ stage[d] \in {"built", "up", "closed", "removed"}
          /\ StageTells(d)
      BY <3>3 DEF IInv, TypeOK, FdsDiffer, Fds, NoFd
    <3>5. c = d
      BY <2>2, <3>1, <3>3, <3>4 DEF StageTells
    <3>6. QED
      BY <3>3, <3>4, <3>5
  <2>3. QED
    BY <2>1, <2>2 DEF IndexAgrees
<1>2. QED
  BY <1>1, Invariance, PTL

-----------------------------------------------------------------------------
(***************************************************************************)
(* How large events_ gets.                                                 *)
(***************************************************************************)

\* The channels of a loop are finitely many.
LEMMA ChansAreFinite == IsFiniteSet(Chans)
<1>1. IsFiniteSet((Conns \cup {Acceptor}) \cup {Wakeup})
  BY PollerAssumption, FS_AddElement
<1>2. Chans = (Conns \cup {Acceptor}) \cup {Wakeup}
  BY DEF Chans
<1>3. QED
  BY <1>1, <1>2

\* There are no more descriptors to report than channels.
LEMMA ReportsAreFew ==
  ASSUME TypeOK, Agreement, NEW S \in SUBSET Fds,
         \A f \in S : Watched(poller, f)
  PROVE  Cardinality(S) \in Nat /\ Cardinality(S) <= Cardinality(Chans)
<1> DEFINE ptr == [f \in S |-> poller.epoll[f].ptr]
<1>1. IsFiniteSet(Chans)
  BY ChansAreFinite
<1>2. ASSUME NEW f \in S
      PROVE  ptr[f] \in Chans /\ fd_[ptr[f]] = f
  <2>1. f \in InUse
    BY DEF Agreement, FreeFds, Watched
  <2>2. PICK c \in Chans : fd_[c] = f
    BY <2>1 DEF InUse
  <2>3. StageTells(c) /\ stage[c] # "none"
    BY <2>2 DEF Agreement, FdsDiffer, Fds, NoFd
  <2>4. poller.epoll[f] # Nothing
    BY DEF Watched
  <2>5. poller.epoll[f].ptr = c
    BY <2>2, <2>3, <2>4 DEF StageTells, TypeOK
  <2>6. QED
    BY <2>2, <2>5
<1>3. ptr \in Injection(S, Chans)
  BY <1>2 DEF Injection, IsInjective
<1>4. IsFiniteSet(S) /\ Cardinality(S) <= Cardinality(Chans)
  BY <1>1, <1>3, FS_Injection
<1>5. QED
  BY <1>4, FS_CardinalityType

\* events_ doubles only when it is full of channels: its size is the first one
\* or at most twice the number of channels, whatever the number of polls.
THEOREM SizeBound == Spec => []SizeIsBounded
<1>0. Cardinality(Chans) \in Nat
  BY ChansAreFinite, FS_CardinalityType
<1>1. Init => SizeIsBounded
  BY DEF Init, SizeIsBounded
<1>2. IInv /\ SizeIsBounded /\ [Next]_vars => SizeIsBounded'
  <2> SUFFICES ASSUME IInv, SizeIsBounded, [Next]_vars
               PROVE  SizeIsBounded'
    OBVIOUS
  <2>1. CASE UNCHANGED size
    BY <2>1 DEF SizeIsBounded
  <2>2. ASSUME NEW S \in SUBSET Fds, Poll(S)
        PROVE  SizeIsBounded'
    <3>1. \A f \in S : Watched(poller, f)
      BY <2>2 DEF Poll, Reportable
    <3>2. Cardinality(S) \in Nat /\ Cardinality(S) <= Cardinality(Chans)
      BY <3>1, ReportsAreFew, AgreementInIInv
    <3>3. CASE Cardinality(S) = size
      <4>1. size' = 2 * size
        BY <2>2, <3>3 DEF Poll, Grown
      <4>2. QED
        BY <1>0, <3>2, <3>3, <4>1 DEF SizeIsBounded
    <3>4. CASE Cardinality(S) # size
      <4>1. size' = size
        BY <2>2, <3>4 DEF Poll, Grown
      <4>2. QED
        BY <4>1 DEF SizeIsBounded
    <3>5. QED
      BY <3>3, <3>4
  <2>3. QED
    BY <2>1, <2>2
    DEF Next, LoopThread, vars, Listen, EnterLoop, BecomeReady, HandleEvent,
        HandleWrite, HandleClose, ConnectDestroyed, Accept, EndTurn, Establish,
        SendInLoop, Release, DestroyConnection, Stop, DestroyAcceptor, DestroyLoop
<1>3. QED
  BY <1>1, <1>2, Invariance, PTL DEF Spec

=============================================================================
