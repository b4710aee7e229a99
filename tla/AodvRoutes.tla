----------------------------- MODULE AodvRoutes -----------------------------
(***************************************************************************)
(* The routing table of a node and what a RREP does to it.  The selfish    *)
(* and the malicious routing protocol hold a copy each of AODV's RecvReply *)
(* with small changes; the trust routing protocol calls the original.      *)
(*                                                                         *)
(* Left out: the device and interface of a route; its life time, which the *)
(* expiry of a route at any time stands for; the precursors, which only    *)
(* the RERR code of ns-3 reads; the acknowledgement a reply may ask for; a *)
(* sequence number that is not valid, which nobody reads and is 0 here.    *)
(***************************************************************************)
EXTENDS Integers

CONSTANTS
  Self,      \* the node
  NoRoute,   \* what the table gives for a destination without an entry
  Nowhere,   \* the next hop of a route that was never found
  SeqnoMod,  \* 2^32: sequence numbers are uint32_t
  HopMod     \* 2^8: hop counts are uint8_t

ASSUME SeqnoModAssumption == SeqnoMod \in Nat \ {0}
ASSUME HopModAssumption   == HopMod \in Nat \ {0, 1}

\* int32_t (s) - int32_t (t) > 0.
Newer(s, t) ==
  LET diff == (s - t) % SeqnoMod IN 0 < diff /\ 2 * diff < SeqnoMod

HasRoute(routes, d) == routes[d] # NoRoute

\* LookupValidRoute
HasValidRoute(routes, d) == HasRoute(routes, d) /\ routes[d].flag = "VALID"

Searching(routes, d) == HasRoute(routes, d) /\ routes[d].flag = "IN_SEARCH"

NextHopCount(rrep) == (rrep.hop + 1) % HopMod

NewEntry(rrep, sender) ==
  [seqno   |-> rrep.seqno,
   validSeqNo |-> TRUE,
   flag    |-> "VALID",
   hop     |-> NextHopCount(rrep),
   nextHop |-> sender]

\* Mutant: any reply with another sequence number counts as newer.
Replaces_OtherSeqno(new, old) ==
  \/ ~old.validSeqNo
  \/ new.seqno # old.seqno
  \/ new.seqno = old.seqno /\ (old.flag # "VALID" \/ new.hop < old.hop)

\* The circumstances (i) to (iv) in which an existing entry is updated.
Replaces(new, old) ==
  \/ ~old.validSeqNo
  \/ Newer(new.seqno, old.seqno)
  \/ new.seqno = old.seqno /\ (old.flag # "VALID" \/ new.hop < old.hop)

UpdateForwardRoute(routes, rrep, sender) ==
  LET new == NewEntry(rrep, sender)
  IN  IF ~HasRoute(routes, rrep.dst) \/ Replaces(new, routes[rrep.dst])
      THEN [routes EXCEPT ![rrep.dst] = new]
      ELSE routes

IsHello(rrep) == rrep.dst = rrep.origin

\* A RREP for a request of this node's own.
IsOwn(rrep) == rrep.origin = Self

\* The reply ends a search of this node's own.
EndsSearch(routes, rrep) == IsOwn(rrep) /\ Searching(routes, rrep.dst)

\* ns-3's ProcessHello: a fresh one-hop route to the neighbour.
ProcessHello(routes, rrep) ==
  [routes EXCEPT ![rrep.dst] =
     [seqno |-> rrep.seqno, validSeqNo |-> TRUE, flag |-> "VALID",
      hop |-> 1, nextHop |-> rrep.dst]]

\* Mutant: ends the search without storing the route that ended it.
RecvReply_KeepsOldEntry(routes, rrep, sender) ==
  IF IsHello(rrep) THEN ProcessHello(routes, rrep)
  ELSE UpdateForwardRoute(routes, rrep, sender)

\* The table after a reply.  The answer to a search of this node's own is
\* stored whatever its sequence number.
RecvReply(routes, rrep, sender) ==
  IF IsHello(rrep) THEN ProcessHello(routes, rrep)
  ELSE IF EndsSearch(routes, rrep)
       THEN [routes EXCEPT ![rrep.dst] = NewEntry(rrep, sender)]
       ELSE UpdateForwardRoute(routes, rrep, sender)

\* Mutant: a reverse route that is being searched will do.
Travels_Searched(routes, rrep) ==
  /\ ~IsHello(rrep) /\ ~IsOwn(rrep)
  /\ HasRoute(routes, rrep.origin)
  /\ rrep.ttl >= 2

\* Whether a reply for another node travels on: there is a reverse route,
\* valid or not, that is not being searched, and time to live is left.
Travels(routes, rrep) ==
  /\ ~IsHello(rrep) /\ ~IsOwn(rrep)
  /\ HasRoute(routes, rrep.origin) /\ ~Searching(routes, rrep.origin)
  /\ rrep.ttl >= 2

\* The reply as sent on with a given hop count.
Onward(routes, rrep, hop) ==
  [rrep |-> [rrep EXCEPT !.hop = hop, !.ttl = @ - 1],
   to   |-> routes[rrep.origin].nextHop]

NeighborRoute(sender) ==
  [seqno |-> 0, validSeqNo |-> FALSE, flag |-> "VALID", hop |-> 1, nextHop |-> sender]

\* ns-3's UpdateRouteToNeighbor, which every AODV packet goes through.
UpdateRouteToNeighbor(routes, sender) ==
  IF HasRoute(routes, sender) /\ routes[sender].validSeqNo /\ routes[sender].hop = 1
  THEN routes
  ELSE [routes EXCEPT ![sender] = NeighborRoute(sender)]

\* What ns-3's RecvRequest writes: the reverse route to the origin of the
\* request, and the route to the sender.  A request seen before is ignored.
RecvRequest(routes, rreq, sender) ==
  LET old == routes[rreq.origin]
      reverse ==
        IF ~HasRoute(routes, rreq.origin) THEN NewEntry(rreq, sender)
        ELSE [old EXCEPT
                !.seqno = IF old.validSeqNo /\ ~Newer(rreq.seqno, @) THEN @ ELSE rreq.seqno,
                !.validSeqNo = TRUE, !.hop = NextHopCount(rreq), !.nextHop = sender]
  IN  IF rreq.fresh
      THEN [routes EXCEPT ![rreq.origin] = reverse, ![sender] = NeighborRoute(sender)]
      ELSE routes

\* ns-3's RecvError: the valid routes over the sender to the destinations it
\* reports are invalidated.
RecvError(routes, rerr, sender) ==
  [a \in DOMAIN routes |->
     IF a \in rerr.dsts /\ HasValidRoute(routes, a) /\ routes[a].nextHop = sender
     THEN [routes[a] EXCEPT !.flag = "INVALID"] ELSE routes[a]]

\* ns-3's RecvReplyAck: the route to the neighbour is marked valid.
RecvReplyAck(routes, sender) ==
  IF HasRoute(routes, sender) THEN [routes EXCEPT ![sender].flag = "VALID"] ELSE routes
=============================================================================
