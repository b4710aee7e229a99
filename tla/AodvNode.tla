------------------------------ MODULE AodvNode ------------------------------
(***************************************************************************)
(* One node of the network as its neighbours see it: it receives AODV      *)
(* messages and runs one of the three routing protocols of trust-aodv,     *)
(* each a subclass of ns-3's AODV with a RecvAodv of its own; the selfish  *)
(* one has a RouteInput of its own, too.                                   *)
(*                                                                         *)
(* The rest of the node is ns-3's and is kept to what it does to the state *)
(* the subclasses share with it: searches, their timers, the expiry of     *)
(* routes.  The managers' tables change as SimpleAodvTrustManager changes  *)
(* them, by any rating; TrustNode is the composition with the managers.    *)
(***************************************************************************)
EXTENDS AodvRoutes, TrustDecision

CONSTANTS
  Protocol,      \* the routing protocols the node may run
  Manager,       \* the trust managers of the node
  Rating,        \* the ratings they give
  Neighbor,      \* the nodes in range
  Dst,           \* the destinations of replies
  RemoteOrigin,  \* the origins, other than this node, of requests; some are in Dst
  Seqno, Hop, Ttl,     \* what replies carry
  HelloSeqno,          \* what hellos carry
  RreqSeqno, RreqHop   \* what requests carry

ASSUME ProtocolAssumption == Protocol \subseteq {"trust", "selfish", "malicious"}
ASSUME ManagerAssumption == IsFiniteSet(Manager)
ASSUME AddressAssumption ==
  Neighbor \cup Dst \cup RemoteOrigin \subseteq Address \ {Self, Nowhere}
ASSUME MessageAssumption ==
  /\ Seqno \cup HelloSeqno \cup RreqSeqno \subseteq 0 .. SeqnoMod - 1
  /\ Hop \cup RreqHop \subseteq 0 .. HopMod - 1
  /\ Ttl \subseteq Nat
ASSUME RatingAssumption == Rating \subseteq {p \in Trust : ~Negative(p)}

Route ==
  [seqno : 0 .. SeqnoMod - 1, validSeqNo : BOOLEAN,
   flag : {"VALID", "INVALID", "IN_SEARCH"},
   hop : 0 .. HopMod - 1, nextHop : Address \cup {Nowhere}]

ASSUME NoRouteAssumption == NoRoute \notin Route

\* The answers to requests: a reply whose destination is its origin is a hello.
Rrep ==
  {r \in [type : {"RREP"}, dst : Dst, origin : {Self} \cup RemoteOrigin,
          seqno : Seqno, hop : Hop, ttl : Ttl] : r.dst # r.origin}

Hello(a) ==
  [type : {"RREP"}, dst : {a}, origin : {a}, seqno : HelloSeqno, hop : {0}, ttl : {1}]

\* A request is fresh unless it has been received before.  Nobody searches itself.
Rreq ==
  {r \in [type : {"RREQ"}, dst : {Self} \cup Dst, origin : RemoteOrigin,
          seqno : RreqSeqno, hop : RreqHop, fresh : BOOLEAN] : r.dst # r.origin}

Rerr == [type : {"RERR"}, dsts : SUBSET (Dst \cup RemoteOrigin)]

Message(sender) ==
  Rrep \cup Hello(sender) \cup Rreq \cup Rerr \cup [type : {"RREP_ACK", "unknown"}]

VARIABLES
  protocol,
  m_routingTable,
  m_trustTable,       \* per manager
  m_addressReqTimer,  \* the destinations with a running request timer
  ipForward,          \* whether the interface forwards packets
  sent,               \* the reply that the last step sent on, if any
  data                \* what became of the packet that the last step routed

vars == <<protocol, m_routingTable, m_trustTable, m_addressReqTimer, ipForward, sent, data>>

Init ==
  /\ protocol \in Protocol
  /\ m_routingTable = [a \in Address |-> NoRoute]
  /\ m_trustTable = [m \in Manager |-> NoRecords]
  /\ m_addressReqTimer = {}
  /\ ipForward = TRUE
  /\ sent = {}
  /\ data = "none"

-----------------------------------------------------------------------------
\* Nothing is sent on, and routes becomes the table.
Keep(routes) == m_routingTable' = routes /\ sent' = {} /\ UNCHANGED m_addressReqTimer

\* What the three RecvReply have in common: routes become those of base,
\* changed by the reply, and an answered search loses its timer.
HandleReply(base, rrep, sender) ==
  /\ m_routingTable' = RecvReply(base, rrep, sender)
  /\ m_addressReqTimer' = IF ~IsHello(rrep) /\ EndsSearch(base, rrep)
                          THEN m_addressReqTimer \ {rrep.dst}
                          ELSE m_addressReqTimer

\* Mutant: sends the count it received.
SendOn_OldCount(rrep, hop) ==
  sent' = IF Travels(m_routingTable', rrep)
          THEN {Onward(m_routingTable', rrep, rrep.hop)} ELSE {}

\* The reply goes on along the reverse route.
SendOn(rrep, hop) ==
  sent' = IF Travels(m_routingTable', rrep)
          THEN {Onward(m_routingTable', rrep, hop)} ELSE {}

\* Mutant: forges the hop count before it enters the route.
MaliciousRecvReply_ForgesRoute(base, rrep, sender) ==
  LET forged == [rrep EXCEPT !.hop = 0] IN
  /\ HandleReply(base, forged, sender)
  /\ SendOn(rrep, 1)

\* The hop count that goes on is forged; the node's own route is true.
MaliciousRecvReply(base, rrep, sender) ==
  /\ HandleReply(base, rrep, sender)
  /\ SendOn(rrep, 1)

\* Mutant: drops replies before they are processed.
SelfishRecvReply_DropsFirst(base, rrep, sender) ==
  \/ HandleReply(base, rrep, sender) /\ SendOn(rrep, NextHopCount(rrep))
  \/ Keep(base)

\* A reply for another node may be dropped, after it has been processed.
SelfishRecvReply(base, rrep, sender) ==
  /\ HandleReply(base, rrep, sender)
  /\ \/ SendOn(rrep, NextHopCount(rrep))
     \/ ~IsHello(rrep) /\ ~IsOwn(rrep) /\ sent' = {}

\* Mutant: deletes the old route and returns.
TrustRecvReply_DeletesOnly(base, rrep, sender) ==
  LET old == AvgTrustValue(m_trustTable, base[rrep.dst].nextHop)
      new == AvgTrustValue(m_trustTable, sender)
  IN  IF ~HasValidRoute(base, rrep.dst) \/ LetHopsDecide(old, new)
      THEN HandleReply(base, rrep, sender) /\ SendOn(rrep, NextHopCount(rrep))
      ELSE /\ m_routingTable' = IF DiscardOld(old, new)
                                THEN [base EXCEPT ![rrep.dst] = NoRoute] ELSE base
           /\ sent' = {}
           /\ UNCHANGED m_addressReqTimer

\* A reply for a destination with a valid route is weighed by trust; then
\* ns-3's RecvReply handles it, or nobody.
TrustRecvReply(base, rrep, sender) ==
  LET old == AvgTrustValue(m_trustTable, base[rrep.dst].nextHop)
      new == AvgTrustValue(m_trustTable, sender)
      Accept(routes) ==
        HandleReply(routes, rrep, sender) /\ SendOn(rrep, NextHopCount(rrep))
  IN  IF ~HasValidRoute(base, rrep.dst) \/ LetHopsDecide(old, new) THEN Accept(base)
      ELSE IF DiscardOld(old, new) THEN Accept([base EXCEPT ![rrep.dst] = NoRoute])
      ELSE Keep(base)

\* The messages that all RecvAodv leave to ns-3; an unknown one is dropped.
RecvOther(base, msg, sender) ==
  \/ msg.type = "RERR"     /\ Keep(RecvError(base, msg, sender))
  \/ msg.type = "RREP_ACK" /\ Keep(RecvReplyAck(base, sender))
  \/ msg.type = "unknown"  /\ Keep(base)

TrustRecvAodv(base, msg, sender) ==
  \/ msg.type = "RREQ" /\ Keep(RecvRequest(base, msg, sender))
  \/ msg.type = "RREP" /\ TrustRecvReply(base, msg, sender)
  \/ RecvOther(base, msg, sender)

MaliciousRecvAodv(base, msg, sender) ==
  \/ msg.type = "RREQ" /\ Keep(RecvRequest(base, msg, sender))
  \/ msg.type = "RREP" /\ MaliciousRecvReply(base, msg, sender)
  \/ RecvOther(base, msg, sender)

\* A request for another node may be dropped unprocessed.
SelfishRecvAodv(base, msg, sender) ==
  \/ /\ msg.type = "RREQ"
     /\ \/ Keep(RecvRequest(base, msg, sender))
        \/ msg.dst # Self /\ Keep(base)
  \/ msg.type = "RREP" /\ SelfishRecvReply(base, msg, sender)
  \/ RecvOther(base, msg, sender)

\* A message of any type first writes the route to the neighbour.
RecvAodv(msg, sender) ==
  LET base == UpdateRouteToNeighbor(m_routingTable, sender) IN
  /\ UNCHANGED <<protocol, m_trustTable, ipForward>>
  /\ data' = "none"
  /\ \/ protocol = "trust"     /\ TrustRecvAodv(base, msg, sender)
     \/ protocol = "selfish"   /\ SelfishRecvAodv(base, msg, sender)
     \/ protocol = "malicious" /\ MaliciousRecvAodv(base, msg, sender)

\* A data packet for dst arrives.  The selfish RouteInput may switch off the
\* forwarding of the interface, calls ns-3's RouteInput and puts the forwarding
\* back to what it was.
RouteInput(dst) ==
  LET ifaceForwardingState == ipForward IN
  \E off \in IF protocol = "selfish" THEN BOOLEAN ELSE {FALSE} :
    /\ LET forwarding == IF off THEN FALSE ELSE ipForward IN
       data' = IF dst = Self THEN "delivered"
               ELSE IF forwarding /\ HasValidRoute(m_routingTable, dst) THEN "forwarded"
               ELSE "dropped"
    /\ ipForward' = ifaceForwardingState
    /\ sent' = {}
    /\ UNCHANGED <<protocol, m_routingTable, m_trustTable, m_addressReqTimer>>

-----------------------------------------------------------------------------
\* A step of the node that neither sends a reply on nor routes a packet.
Quiet == sent' = {} /\ data' = "none" /\ UNCHANGED <<protocol, ipForward>>

\* ns-3's SendRequest, when a packet finds no valid route.
SendRequest(d) ==
  /\ ~HasValidRoute(m_routingTable, d)
  /\ ~Searching(m_routingTable, d)
  /\ m_routingTable' = [m_routingTable EXCEPT ![d] =
       IF HasRoute(m_routingTable, d) THEN [@ EXCEPT !.flag = "IN_SEARCH"]
       ELSE [seqno |-> 0, validSeqNo |-> FALSE, flag |-> "IN_SEARCH",
             hop |-> 0, nextHop |-> Nowhere]]
  /\ m_addressReqTimer' = m_addressReqTimer \cup {d}
  /\ Quiet
  /\ UNCHANGED m_trustTable

\* ns-3's RouteRequestTimerExpire, for the last time: a search that was not
\* answered is given up, and its route is deleted.
RouteRequestTimerExpire(d) ==
  /\ d \in m_addressReqTimer
  /\ m_addressReqTimer' = m_addressReqTimer \ {d}
  /\ m_routingTable' = IF HasValidRoute(m_routingTable, d) THEN m_routingTable
                       ELSE [m_routingTable EXCEPT ![d] = NoRoute]
  /\ Quiet
  /\ UNCHANGED m_trustTable

\* A valid route expires, or a lost link invalidates it.
Expire(d) ==
  /\ HasValidRoute(m_routingTable, d)
  /\ m_routingTable' = [m_routingTable EXCEPT ![d].flag = "INVALID"]
  /\ Quiet
  /\ UNCHANGED <<m_trustTable, m_addressReqTimer>>

\* An invalid route is deleted some time later.
PurgeRoute(d) ==
  /\ HasRoute(m_routingTable, d) /\ m_routingTable[d].flag = "INVALID"
  /\ m_routingTable' = [m_routingTable EXCEPT ![d] = NoRoute]
  /\ Quiet
  /\ UNCHANGED <<m_trustTable, m_addressReqTimer>>

\* A manager rates a node.  Only the trust protocol looks at ratings.
Rate(m, a, v) ==
  /\ protocol = "trust"
  /\ m_trustTable' = [m_trustTable EXCEPT ![m] = AddOrUpdateTrustTableEntry(@, a, v, 0)]
  /\ Quiet
  /\ UNCHANGED <<m_routingTable, m_addressReqTimer>>

\* A manager purges its table and drops records.
Forget(m, kept) ==
  /\ protocol = "trust"
  /\ m_trustTable' = [m_trustTable EXCEPT ![m] =
                        [a \in Address |-> IF a \in kept THEN @[a] ELSE NoEntry]]
  /\ Quiet
  /\ UNCHANGED <<m_routingTable, m_addressReqTimer>>

Next ==
  \/ \E sender \in Neighbor : \E msg \in Message(sender) : RecvAodv(msg, sender)
  \/ \E dst \in Dst \cup {Self} : RouteInput(dst)
  \/ \E d \in Dst \cup RemoteOrigin : SendRequest(d) \/ RouteRequestTimerExpire(d)
  \/ \E d \in Address : Expire(d) \/ PurgeRoute(d)
  \/ \E m \in Manager, a \in Neighbor, v \in Rating : Rate(m, a, v)
  \/ \E m \in Manager, kept \in SUBSET Neighbor : Forget(m, kept)

Spec == Init /\ [][Next]_vars

-----------------------------------------------------------------------------
\* The table, the records and the timers are well formed, and what is sent on
\* goes to a neighbour.
TypeOK ==
  /\ protocol \in Protocol
  /\ m_routingTable \in [Address -> Route \cup {NoRoute}]
  /\ m_trustTable \in [Manager -> Records]
  /\ m_addressReqTimer \in SUBSET (Dst \cup RemoteOrigin)
  /\ ipForward \in BOOLEAN
  /\ \A s \in sent : s.rrep.hop \in 0 .. HopMod - 1 /\ s.to \in Neighbor
  /\ data \in {"none", "delivered", "forwarded", "dropped"}

\* A destination marked as being searched has a timer that will end the
\* search: an answer that stops the timer stores a route in the same step,
\* even when its sequence number is too old to replace the entry.
SearchesHaveTimers ==
  \A d \in Address : Searching(m_routingTable, d) => d \in m_addressReqTimer

\* A node that counts honestly never advertises a route shorter than its own
\* of the same age, also when the reply it sends on did not change its route.
NeverAdvertisesShorter ==
  protocol # "malicious" =>
    \A s \in sent :
      LET own == m_routingTable[s.rrep.dst]
      IN  HasValidRoute(m_routingTable, s.rrep.dst) /\ own.seqno = s.rrep.seqno
            => s.rrep.hop >= own.hop

Moves(d) ==
  /\ HasValidRoute(m_routingTable, d)
  /\ HasValidRoute(m_routingTable', d)
  /\ m_routingTable'[d].nextHop \notin {m_routingTable[d].nextHop, d}

\* The trust that counts: the mean of a node's ratings, or one half when they
\* add up to 0.
Effective(a) ==
  LET sum == TrustValueSum(m_trustTable, a)
  IN  IF sum[1] = 0 THEN Half ELSE DivideBy(sum, Cardinality(RatedBy(m_trustTable, a)))

Distrusted(a) == Less(Effective(a), Half)

\* The step is that of a request of d's own, not seen before, from what is then
\* the next hop to d.
AskedBy(d) ==
  \E rreq \in {r \in Rreq : r.origin = d /\ r.fresh} :
    RecvAodv(rreq, m_routingTable'[d].nextHop)

\* When a valid route moves from one next hop to another that is not the
\* destination itself, the new next hop is not below the threshold, or it is
\* trusted more than the old one: no reply makes a trust node leave a trusted
\* next hop for a distrusted one.  Replies only: a request goes to ns-3
\* unweighed, and a request of d's own brings the route to d to whoever passed
\* it on (RecvAodv, the case of AODVTYPE_RREQ).
RoutesMoveToTrust ==
  [][\A d \in Dst : protocol = "trust" /\ Moves(d) =>
       \/ ~Distrusted(m_routingTable'[d].nextHop)
       \/ Less(Effective(m_routingTable[d].nextHop), Effective(m_routingTable'[d].nextHop))
       \/ AskedBy(d)]_vars

\* The same for the mean of the ratings as it is.  The comment in
\* trust-aodv-routing-protocol.cc, lines 190 to 199, discards a new next hop
\* below the threshold when the old one is above; the code takes a next hop
\* that all managers rate 0 for an unrated one.
MovesAreAsDocumented ==
  [][\A d \in Dst : protocol = "trust" /\ Moves(d) /\ ~AskedBy(d) =>
       LET old == MeanTrust(m_trustTable, m_routingTable[d].nextHop)
           new == MeanTrust(m_trustTable, m_routingTable'[d].nextHop)
       IN  AboveThreshold(new) \/ Less(old, new)]_vars

\* A reply never costs a valid route: the entry that the trust decision
\* deletes is replaced in the same step.  Routes end by expiry only.
RepliesKeepRoutes ==
  [][\A d \in Dst : HasValidRoute(m_routingTable, d) => HasRoute(m_routingTable', d)]_vars

\* A hello is weighed like any reply, by the trust in the neighbour that sent
\* it on both sides: only the hello of a distrusted neighbour that there is a
\* valid route to is discarded, and then it leaves nothing behind.  Any other
\* renews the direct route and its sequence number.
HellosRenewUnlessDistrusted ==
  [][\A a \in Neighbor : \A hello \in Hello(a) :
       \/ m_routingTable'[a] = ProcessHello(m_routingTable, hello)[a]
       \/ RecvAodv(hello, a) =>
            /\ protocol = "trust" /\ Distrusted(a)
            /\ m_routingTable' = UpdateRouteToNeighbor(m_routingTable, a)
            /\ HasValidRoute(m_routingTable', a)]_vars

\* The sequence number of a route, the guard against stale replies, goes back
\* only where a search is answered, or where the route moves away from a next
\* hop below the threshold.  A neighbour's own entry, which loses its number
\* whenever the neighbour is heard, is apart.
SeqnosGoForward ==
  [][\A d \in Dst :
       /\ HasRoute(m_routingTable, d)  /\ m_routingTable[d].validSeqNo
       /\ HasRoute(m_routingTable', d) /\ m_routingTable'[d].validSeqNo
       /\ Newer(m_routingTable[d].seqno, m_routingTable'[d].seqno)
       => \/ Searching(m_routingTable, d)
          \/ d \in Neighbor
          \/ /\ protocol = "trust"
             /\ Distrusted(m_routingTable[d].nextHop)
             /\ m_routingTable'[d].nextHop # m_routingTable[d].nextHop]_vars

\* The nodes that do not weigh trust keep the better route: after a reply the
\* entry of its destination is the reply's or the one before, and among equal
\* numbers the shorter.  In particular the routes of a malicious node are
\* true, and a selfish node that drops a reply has learned from it.
RepliesLeaveBetterRoute ==
  [][protocol # "trust" =>
       \A sender \in Neighbor, rrep \in Rrep :
         LET old == UpdateRouteToNeighbor(m_routingTable, sender)[rrep.dst]
             new == m_routingTable'[rrep.dst]
         IN  \/ /\ new \in {old, NewEntry(rrep, sender)} \ {NoRoute}
                /\ new.seqno = rrep.seqno => new.hop <= NextHopCount(rrep)
             \/ ~RecvAodv(rrep, sender)]_vars
=============================================================================
