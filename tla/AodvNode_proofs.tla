-------------------------- MODULE AodvNode_proofs ---------------------------
(***************************************************************************)
(* Theorems about a node that runs one of the routing protocols, for every *)
(* neighbourhood, every set of managers and ratings, and every width of    *)
(* the sequence numbers and hop counts.                                    *)
(***************************************************************************)
EXTENDS AodvNode, FiniteSetTheorems, TLAPS

Routes == [Address -> Route \cup {NoRoute}]

\* Every route leads to a neighbour, except a search that has found nothing.
\* A reply sent on along a route that is not being searched has a receiver.
\* A search that has found nothing has no sequence number either: the
\* acknowledgement of a neighbour, which makes an entry valid, never does so
\* to such a search.
LeadsToNeighbor(routes) ==
  \A a \in Address :
    HasRoute(routes, a) =>
      \/ routes[a].nextHop \in Neighbor
      \/ Searching(routes, a) /\ ~routes[a].validSeqNo

\* A timer runs for each destination marked as being searched.
TimersFor(routes, timers) ==
  \A a \in Address : Searching(routes, a) => a \in timers

\* The inductive invariant.
IInv ==
  /\ TypeOK
  /\ SearchesHaveTimers
  /\ LeadsToNeighbor(m_routingTable)

\* A reply the node can be given.
Incoming(sender) == Rrep \cup Hello(sender)

LEMMA IncomingFacts ==
  ASSUME NEW sender \in Neighbor, NEW rrep \in Incoming(sender)
  PROVE  /\ rrep.dst \in Address
         /\ rrep.seqno \in 0 .. SeqnoMod - 1
         /\ NextHopCount(rrep) \in 0 .. HopMod - 1
         /\ IsHello(rrep) \/ rrep.dst \in Dst
         /\ IsHello(rrep) => rrep.dst \in Neighbor
<1>1. 0 \in 0 .. HopMod - 1 /\ \A h \in 0 .. HopMod - 1 : (h + 1) % HopMod \in 0 .. HopMod - 1
  BY HopModAssumption
<1>2. CASE rrep \in Rrep
  <2>1. rrep.dst \in Dst /\ rrep.seqno \in Seqno /\ rrep.hop \in Hop /\ rrep.dst # rrep.origin
    BY <1>2 DEF Rrep
  <2> QED
    BY <1>1, <2>1, AddressAssumption, MessageAssumption DEF NextHopCount, IsHello
<1>3. CASE rrep \in Hello(sender)
  <2>1. rrep.dst = sender /\ rrep.origin = sender /\ rrep.seqno \in HelloSeqno /\ rrep.hop = 0
    BY <1>3 DEF Hello
  <2> QED
    BY <1>1, <2>1, AddressAssumption, MessageAssumption DEF NextHopCount, IsHello
<1> QED
  BY <1>2, <1>3 DEF Incoming

LEMMA NeighborRouteFacts ==
  ASSUME NEW sender \in Neighbor
  PROVE  /\ NeighborRoute(sender) \in Route
         /\ NeighborRoute(sender) # NoRoute
         /\ NeighborRoute(sender).flag = "VALID"
         /\ NeighborRoute(sender).nextHop = sender
<1>1. 0 \in 0 .. SeqnoMod - 1 /\ 1 \in 0 .. HopMod - 1 /\ sender \in Address
  BY SeqnoModAssumption, HopModAssumption, AddressAssumption
<1>2. NeighborRoute(sender) \in Route
  BY <1>1 DEF NeighborRoute, Route
<1> QED
  BY <1>2, NoRouteAssumption DEF NeighborRoute

\* The route to the neighbour, which comes first, keeps the invariant.
LEMMA NeighborRoutes ==
  ASSUME NEW routes \in Routes, LeadsToNeighbor(routes), NEW sender \in Neighbor,
         NEW timers, TimersFor(routes, timers)
  PROVE  LET base == UpdateRouteToNeighbor(routes, sender) IN
         /\ base \in Routes
         /\ LeadsToNeighbor(base)
         /\ TimersFor(base, timers)
         /\ HasRoute(base, sender) /\ base[sender].nextHop \in Neighbor
         /\ \A a \in Address : a # sender => base[a] = routes[a]
         /\ \/ base[sender] = routes[sender]
            \/ HasValidRoute(base, sender) /\ base[sender].nextHop = sender
<1> DEFINE base == UpdateRouteToNeighbor(routes, sender)
           new == NeighborRoute(sender)
<1>1. sender \in Address
  BY AddressAssumption
<1>2. new \in Route /\ new # NoRoute /\ new.flag = "VALID" /\ new.nextHop = sender
  BY NeighborRouteFacts
<1>3. \/ base = routes /\ HasRoute(routes, sender) /\ routes[sender].validSeqNo
      \/ base = [routes EXCEPT ![sender] = new]
  BY DEF UpdateRouteToNeighbor
<1> HIDE DEF new, base
<1>4. CASE base = routes /\ HasRoute(routes, sender) /\ routes[sender].validSeqNo
  BY <1>1, <1>4 DEF LeadsToNeighbor, base
<1>5. CASE base = [routes EXCEPT ![sender] = new]
  <2>1. base \in Routes
    BY <1>2, <1>5 DEF Routes
  <2>2. base[sender] = new /\ \A a \in Address : a # sender => base[a] = routes[a]
    BY <1>1, <1>5 DEF Routes
  <2>3. LeadsToNeighbor(base) /\ TimersFor(base, timers)
    BY <1>2, <2>2 DEF LeadsToNeighbor, TimersFor, HasRoute, Searching
  <2>4. HasValidRoute(base, sender)
    BY <1>2, <2>2 DEF HasValidRoute, HasRoute
  <2> QED
    BY <1>2, <2>1, <2>2, <2>3, <2>4 DEF base, HasValidRoute
<1> QED
  BY <1>3, <1>4, <1>5

\* The reply writes at most the entry of its destination: the old entry stays,
\* or a valid route over the sender takes its place.
LEMMA ReplyRoutes ==
  ASSUME NEW base \in Routes, LeadsToNeighbor(base), NEW sender \in Neighbor,
         NEW rrep \in Incoming(sender)
  PROVE  LET routes == RecvReply(base, rrep, sender) IN
         /\ routes \in Routes
         /\ LeadsToNeighbor(routes)
         /\ \A a \in Address : a # rrep.dst => routes[a] = base[a]
         /\ HasRoute(routes, rrep.dst)
         /\ \/ routes[rrep.dst] = base[rrep.dst]
            \/ HasValidRoute(routes, rrep.dst)
         /\ ~IsHello(rrep) => routes[rrep.dst] \in {base[rrep.dst], NewEntry(rrep, sender)}
         /\ IsHello(rrep) => routes[rrep.dst].nextHop = rrep.dst
         /\ EndsSearch(base, rrep) => HasValidRoute(routes, rrep.dst)
<1> DEFINE routes == RecvReply(base, rrep, sender)
           hello == [seqno |-> rrep.seqno, validSeqNo |-> TRUE, flag |-> "VALID",
                     hop |-> 1, nextHop |-> rrep.dst]
           new == NewEntry(rrep, sender)
<1>1. /\ rrep.dst \in Address
      /\ rrep.seqno \in 0 .. SeqnoMod - 1
      /\ NextHopCount(rrep) \in 0 .. HopMod - 1
      /\ IsHello(rrep) => rrep.dst \in Neighbor
  BY IncomingFacts
<1>2. 1 \in 0 .. HopMod - 1 /\ sender \in Address
  BY HopModAssumption, AddressAssumption
<1>3. hello \in Route /\ hello.flag = "VALID" /\ hello.nextHop = rrep.dst
  BY <1>1, <1>2 DEF Route
<1>4. new \in Route /\ new.flag = "VALID" /\ new.nextHop = sender
  BY <1>1, <1>2 DEF NewEntry, Route
<1>5. /\ IsHello(rrep) => routes = [base EXCEPT ![rrep.dst] = hello]
      /\ ~IsHello(rrep) => \/ routes = [base EXCEPT ![rrep.dst] = new]
                           \/ /\ routes = base
                              /\ HasRoute(base, rrep.dst) /\ ~EndsSearch(base, rrep)
  BY DEF RecvReply, ProcessHello, UpdateForwardRoute
<1> HIDE DEF hello, new, routes
<1>6. ASSUME NEW e \in Route, e.flag = "VALID", e.nextHop \in Neighbor,
             routes = [base EXCEPT ![rrep.dst] = e]
      PROVE  /\ routes \in Routes
             /\ LeadsToNeighbor(routes)
             /\ \A a \in Address : a # rrep.dst => routes[a] = base[a]
             /\ HasRoute(routes, rrep.dst) /\ HasValidRoute(routes, rrep.dst)
             /\ routes[rrep.dst] = e
  <2>1. routes[rrep.dst] = e /\ \A a \in Address : a # rrep.dst => routes[a] = base[a]
    BY <1>1, <1>6 DEF Routes
  <2>2. routes \in Routes
    BY <1>1, <1>6 DEF Routes
  <2>3. LeadsToNeighbor(routes)
    BY <1>6, <2>1 DEF LeadsToNeighbor, HasRoute, Searching
  <2>4. e # NoRoute
    BY NoRouteAssumption
  <2> QED
    BY <1>6, <2>1, <2>2, <2>3, <2>4 DEF HasRoute, HasValidRoute
<1>7. CASE IsHello(rrep)
  <2>1. EndsSearch(base, rrep) => HasValidRoute(routes, rrep.dst)
    BY <1>1, <1>3, <1>5, <1>6, <1>7
  <2> QED
    BY <1>1, <1>3, <1>5, <1>6, <1>7, <2>1 DEF routes
<1>8. CASE ~IsHello(rrep) /\ routes = [base EXCEPT ![rrep.dst] = new]
  BY <1>4, <1>6, <1>8 DEF routes, new
<1>9. CASE /\ ~IsHello(rrep) /\ routes = base
           /\ HasRoute(base, rrep.dst) /\ ~EndsSearch(base, rrep)
  BY <1>9 DEF routes
<1> QED
  BY <1>5, <1>7, <1>8, <1>9

\* What every RecvReply does with a reply keeps the routes and the timers in
\* order: the one entry that can lose its timer becomes valid.
LEMMA HandleFacts ==
  ASSUME NEW base \in Routes, LeadsToNeighbor(base),
         TimersFor(base, m_addressReqTimer),
         m_addressReqTimer \in SUBSET (Dst \cup RemoteOrigin),
         NEW sender \in Neighbor, NEW rrep \in Incoming(sender),
         HandleReply(base, rrep, sender)
  PROVE  /\ m_routingTable' \in Routes
         /\ LeadsToNeighbor(m_routingTable')
         /\ TimersFor(m_routingTable', m_addressReqTimer')
         /\ m_addressReqTimer' \in SUBSET (Dst \cup RemoteOrigin)
<1>1. m_routingTable' = RecvReply(base, rrep, sender)
  BY DEF HandleReply
<1>2. /\ m_routingTable' \in Routes
      /\ LeadsToNeighbor(m_routingTable')
      /\ \A a \in Address : a # rrep.dst => m_routingTable'[a] = base[a]
      /\ \/ m_routingTable'[rrep.dst] = base[rrep.dst]
         \/ HasValidRoute(m_routingTable', rrep.dst)
      /\ EndsSearch(base, rrep) => HasValidRoute(m_routingTable', rrep.dst)
  BY <1>1, ReplyRoutes
<1>3. \/ m_addressReqTimer' = m_addressReqTimer
      \/ EndsSearch(base, rrep) /\ m_addressReqTimer' = m_addressReqTimer \ {rrep.dst}
  BY DEF HandleReply
<1>4. ASSUME NEW a \in Address, Searching(m_routingTable', a)
      PROVE  a \in m_addressReqTimer'
  <2>1. ~HasValidRoute(m_routingTable', a)
    BY <1>4 DEF Searching, HasValidRoute
  <2>2. m_routingTable'[a] = base[a]
    BY <1>2, <2>1
  <2>3. a \in m_addressReqTimer
    BY <1>4, <2>2 DEF TimersFor, Searching, HasRoute
  <2>4. EndsSearch(base, rrep) => a # rrep.dst
    BY <1>2, <2>1
  <2> QED
    BY <1>3, <2>3, <2>4
<1> QED
  BY <1>2, <1>3, <1>4 DEF TimersFor

\* What is sent on has a legal hop count, and a neighbour to receive it.
SentOK(messages) == \A s \in messages : s.rrep.hop \in 0 .. HopMod - 1 /\ s.to \in Neighbor

LEMMA SendFacts ==
  ASSUME LeadsToNeighbor(m_routingTable'), NEW sender \in Neighbor,
         NEW rrep \in Incoming(sender), NEW hop \in 0 .. HopMod - 1, SendOn(rrep, hop)
  PROVE  SentOK(sent')
<1> SUFFICES ASSUME Travels(m_routingTable', rrep)
             PROVE  LET s == Onward(m_routingTable', rrep, hop)
                    IN  s.rrep.hop \in 0 .. HopMod - 1 /\ s.to \in Neighbor
  BY DEF SendOn, SentOK
<1>1. rrep \in Rrep /\ rrep.origin \in RemoteOrigin
  BY DEF Travels, IsHello, IsOwn, Incoming, Hello, Rrep
<1>2. [rrep EXCEPT !.hop = hop, !.ttl = @ - 1].hop = hop
  BY <1>1 DEF Rrep
<1>3. m_routingTable'[rrep.origin].nextHop \in Neighbor
  BY <1>1, AddressAssumption DEF Travels, LeadsToNeighbor
<1> QED
  BY <1>2, <1>3 DEF Onward

\* What the types say of the other variables.
RestOK == protocol \in Protocol /\ ipForward \in BOOLEAN
            /\ data \in {"none", "delivered", "forwarded", "dropped"}

\* The parts of the invariant, over the variables a step changes.
LEMMA Parts ==
  IInv <=> /\ m_routingTable \in Routes
           /\ m_trustTable \in [Manager -> Records]
           /\ m_addressReqTimer \in SUBSET (Dst \cup RemoteOrigin)
           /\ SentOK(sent)
           /\ TimersFor(m_routingTable, m_addressReqTimer)
           /\ LeadsToNeighbor(m_routingTable)
           /\ RestOK
BY DEF IInv, TypeOK, SearchesHaveTimers, Routes, SentOK, TimersFor, RestOK

LEMMA InitIInv == Init => IInv
<1> SUFFICES ASSUME Init PROVE IInv
  OBVIOUS
<1>1. m_routingTable \in Routes /\ m_trustTable \in [Manager -> Records]
  BY DEF Init, Routes, NoRecords, Records
<1>2. LeadsToNeighbor(m_routingTable) /\ TimersFor(m_routingTable, m_addressReqTimer)
  BY DEF Init, LeadsToNeighbor, TimersFor, HasRoute, Searching
<1> QED
  BY <1>1, <1>2, Parts DEF Init, SentOK, RestOK

-----------------------------------------------------------------------------
\* What becomes of the table when a message that is no reply is received, or
\* one that is dropped.
OtherResult(base, routes, sender) ==
  \/ routes = base
  \/ \E rreq \in Rreq : routes = RecvRequest(base, rreq, sender)
  \/ \E rerr \in Rerr : routes = RecvError(base, rerr, sender)
  \/ routes = RecvReplyAck(base, sender)

\* The remainder of a difference of two sequence numbers.
LEMMA SmallRemainder ==
  ASSUME NEW m \in Nat \ {0}, NEW x \in Int, -m < x, x < m
  PROVE  x % m = IF x < 0 THEN x + m ELSE x
OBVIOUS

\* Of two sequence numbers at most one is newer, whatever their distance.
LEMMA NewerAsymmetric ==
  ASSUME NEW s \in 0 .. SeqnoMod - 1, NEW t \in 0 .. SeqnoMod - 1, Newer(s, t)
  PROVE  ~Newer(t, s) /\ s # t
<1>1. SeqnoMod \in Nat \ {0} /\ s - t \in Int /\ t - s \in Int
  BY SeqnoModAssumption
<1>2. -SeqnoMod < s - t /\ s - t < SeqnoMod /\ -SeqnoMod < t - s /\ t - s < SeqnoMod
  BY <1>1
<1>3. (s - t) % SeqnoMod = IF s - t < 0 THEN s - t + SeqnoMod ELSE s - t
  BY <1>1, <1>2, SmallRemainder
<1>4. (t - s) % SeqnoMod = IF t - s < 0 THEN t - s + SeqnoMod ELSE t - s
  BY <1>1, <1>2, SmallRemainder
<1> QED
  BY <1>1, <1>3, <1>4 DEF Newer

\* The reverse route leads over the sender; its flag is the old one, and its
\* number no older.
LEMMA ReverseRoute ==
  ASSUME NEW base \in Routes, NEW sender \in Neighbor, NEW rreq \in Rreq
  PROVE  \E reverse \in Route :
           /\ reverse.nextHop = sender
           /\ reverse.flag = IF HasRoute(base, rreq.origin) THEN base[rreq.origin].flag
                             ELSE "VALID"
           /\ HasRoute(base, rreq.origin) /\ base[rreq.origin].validSeqNo =>
                ~Newer(base[rreq.origin].seqno, reverse.seqno)
           /\ RecvRequest(base, rreq, sender) =
                IF rreq.fresh
                THEN [base EXCEPT ![rreq.origin] = reverse, ![sender] = NeighborRoute(sender)]
                ELSE base
<1> DEFINE o == rreq.origin
           old == base[o]
           reverse ==
             IF ~HasRoute(base, o) THEN NewEntry(rreq, sender)
             ELSE [old EXCEPT
                     !.seqno = IF old.validSeqNo /\ ~Newer(rreq.seqno, @) THEN @ ELSE rreq.seqno,
                     !.validSeqNo = TRUE, !.hop = NextHopCount(rreq), !.nextHop = sender]
<1>1. /\ o \in Address /\ sender \in Address
      /\ rreq.seqno \in 0 .. SeqnoMod - 1
      /\ NextHopCount(rreq) \in 0 .. HopMod - 1
  <2>1. \A h \in 0 .. HopMod - 1 : (h + 1) % HopMod \in 0 .. HopMod - 1
    BY HopModAssumption
  <2> QED
    BY <2>1, AddressAssumption, MessageAssumption DEF Rreq, NextHopCount
<1>2. /\ reverse \in Route /\ reverse.nextHop = sender
      /\ reverse.flag = IF HasRoute(base, o) THEN old.flag ELSE "VALID"
      /\ HasRoute(base, o) /\ old.validSeqNo => ~Newer(old.seqno, reverse.seqno)
  <2>1. CASE HasRoute(base, o)
    <3>1. old \in Route
      BY <1>1, <2>1 DEF Routes, HasRoute
    <3>2. old.validSeqNo =>
            reverse.seqno = IF ~Newer(rreq.seqno, old.seqno) THEN old.seqno ELSE rreq.seqno
      BY <2>1, <3>1 DEF Route
    <3>3. /\ ~Newer(old.seqno, old.seqno)
          /\ Newer(rreq.seqno, old.seqno) => ~Newer(old.seqno, rreq.seqno)
      <4>1. old.seqno \in 0 .. SeqnoMod - 1
        BY <3>1 DEF Route
      <4> HIDE DEF old
      <4> QED
        BY <1>1, <4>1, NewerAsymmetric
    <3>4. old.validSeqNo => ~Newer(old.seqno, reverse.seqno)
      BY <3>2, <3>3
    <3>5. reverse \in Route /\ reverse.nextHop = sender /\ reverse.flag = old.flag
      BY <1>1, <2>1, <3>1 DEF Route
    <3> HIDE DEF reverse, old
    <3> QED
      BY <2>1, <3>4, <3>5
  <2>2. CASE ~HasRoute(base, o)
    BY <1>1, <2>2 DEF Route, NewEntry
  <2> QED
    BY <2>1, <2>2
<1>3. RecvRequest(base, rreq, sender) =
        IF rreq.fresh THEN [base EXCEPT ![o] = reverse, ![sender] = NeighborRoute(sender)] ELSE base
  BY DEF RecvRequest
<1> HIDE DEF reverse
<1> QED
  BY <1>2, <1>3

\* The route to d keeps its next hop or leads to d itself, and keeps its number
\* unless d is a neighbour.
Stays(base, routes, d) ==
  /\ routes[d].nextHop \in {base[d].nextHop, d}
  /\ d \notin Neighbor => routes[d].seqno = base[d].seqno

\* A request of d's own has brought its route to the sender, with a number that
\* is no older.
Requested(base, routes, sender, d) ==
  /\ d # sender
  /\ \E rreq \in Rreq : rreq.origin = d /\ rreq.fresh /\ routes = RecvRequest(base, rreq, sender)
  /\ routes[d].nextHop = sender
  /\ base[d].validSeqNo => ~Newer(base[d].seqno, routes[d].seqno)

\* A request writes the reverse route to its origin, a report of errors
\* invalidates valid routes, an acknowledgement makes the sender's valid.
LEMMA OtherRoutes ==
  ASSUME NEW base \in Routes, LeadsToNeighbor(base), NEW sender \in Neighbor,
         HasRoute(base, sender), base[sender].nextHop \in Neighbor,
         NEW timers, TimersFor(base, timers),
         NEW routes, OtherResult(base, routes, sender)
  PROVE  /\ routes \in Routes
         /\ LeadsToNeighbor(routes)
         /\ TimersFor(routes, timers)
         /\ \A d \in Dst : HasRoute(base, d) =>
              /\ HasRoute(routes, d)
              /\ Stays(base, routes, d) \/ Requested(base, routes, sender, d)
<1>0. sender \in Address /\ Dst \subseteq Address /\ RemoteOrigin \subseteq Address
  BY AddressAssumption
<1>1. CASE routes = base
  BY <1>1 DEF Stays
<1>2. ASSUME NEW rreq \in Rreq, routes = RecvRequest(base, rreq, sender)
      PROVE  /\ routes \in Routes /\ LeadsToNeighbor(routes) /\ TimersFor(routes, timers)
             /\ \A d \in Dst : HasRoute(base, d) =>
                  /\ HasRoute(routes, d)
                  /\ Stays(base, routes, d) \/ Requested(base, routes, sender, d)
  <2> DEFINE o == rreq.origin
             new == NeighborRoute(sender)
  <2>1. o \in RemoteOrigin /\ o \in Address
    BY <1>0 DEF Rreq
  <2>2. PICK reverse \in Route :
          /\ reverse.nextHop = sender
          /\ reverse.flag = IF HasRoute(base, o) THEN base[o].flag ELSE "VALID"
          /\ HasRoute(base, o) /\ base[o].validSeqNo => ~Newer(base[o].seqno, reverse.seqno)
          /\ \/ routes = base
             \/ rreq.fresh /\ routes = [base EXCEPT ![o] = reverse, ![sender] = new]
    BY <1>2, ReverseRoute
  <2>3. new \in Route /\ new # NoRoute /\ new.flag = "VALID" /\ new.nextHop = sender
    BY NeighborRouteFacts
  <2>4. reverse # NoRoute
    BY NoRouteAssumption
  <2> HIDE DEF new
  <2>5. CASE rreq.fresh /\ routes = [base EXCEPT ![o] = reverse, ![sender] = new]
    <3>1. routes \in Routes
      BY <2>2, <2>3, <2>5 DEF Routes
    <3>2. /\ routes[sender] = new
          /\ o # sender => routes[o] = reverse
          /\ \A a \in Address : a \notin {o, sender} => routes[a] = base[a]
      BY <1>0, <2>1, <2>5 DEF Routes
    <3>3. LeadsToNeighbor(routes)
      BY <1>0, <2>1, <2>2, <2>3, <2>4, <3>2 DEF LeadsToNeighbor, HasRoute, Searching
    <3>4. TimersFor(routes, timers)
      <4> SUFFICES ASSUME NEW a \in Address, Searching(routes, a)
                   PROVE  Searching(base, a)
        BY DEF TimersFor
      <4> QED
        BY <1>0, <2>1, <2>2, <2>3, <2>4, <3>2 DEF Searching, HasRoute
    <3>5. ASSUME NEW d \in Dst, HasRoute(base, d)
          PROVE  /\ HasRoute(routes, d)
                 /\ Stays(base, routes, d) \/ Requested(base, routes, sender, d)
      <4>1. d \in Address
        BY <1>0
      <4>2. CASE d \notin {o, sender}
        BY <3>2, <3>5, <4>1, <4>2 DEF HasRoute, Stays
      <4>3. CASE d = sender
        BY <2>3, <3>2, <4>3 DEF HasRoute, Stays
      <4>4. CASE d = o /\ d # sender
        <5>1. routes[d] = reverse /\ rreq.origin = d
          BY <3>2, <4>4
        <5> HIDE DEF o
        <5> QED
          BY <1>2, <2>2, <2>4, <2>5, <3>5, <4>4, <5>1 DEF HasRoute, Requested
      <4> QED
        BY <4>2, <4>3, <4>4
    <3> QED
      BY <3>1, <3>3, <3>4, <3>5
  <2> QED
    BY <1>1, <2>2, <2>5 DEF Stays
<1>3. ASSUME NEW rerr \in Rerr, routes = RecvError(base, rerr, sender)
      PROVE  /\ routes \in Routes /\ LeadsToNeighbor(routes) /\ TimersFor(routes, timers)
             /\ \A d \in Dst : HasRoute(base, d) =>
                  /\ HasRoute(routes, d)
                  /\ Stays(base, routes, d) \/ Requested(base, routes, sender, d)
  <2>1. ASSUME NEW a \in Address, HasValidRoute(base, a),
               routes[a] = [base[a] EXCEPT !.flag = "INVALID"]
        PROVE  /\ routes[a] \in Route /\ routes[a].flag = "INVALID"
               /\ routes[a].nextHop = base[a].nextHop /\ routes[a].seqno = base[a].seqno
               /\ base[a].nextHop \in Neighbor
    <3>1. base[a] \in Route
      BY <2>1 DEF Routes, HasValidRoute, HasRoute
    <3>2. base[a].nextHop \in Neighbor
      BY <2>1 DEF LeadsToNeighbor, HasValidRoute, Searching
    <3> QED
      BY <2>1, <3>1, <3>2 DEF Route
  <2>2. \A a \in Address :
          \/ routes[a] = base[a]
          \/ HasValidRoute(base, a) /\ routes[a] = [base[a] EXCEPT !.flag = "INVALID"]
    BY <1>3 DEF RecvError, Routes
  <2>3. routes \in Routes
    <3>1. routes = [a \in Address |-> routes[a]]
      BY <1>3 DEF RecvError, Routes
    <3>2. \A a \in Address : routes[a] \in Route \cup {NoRoute}
      BY <2>1, <2>2 DEF Routes
    <3> QED
      BY <3>1, <3>2 DEF Routes
  <2>4. LeadsToNeighbor(routes) /\ TimersFor(routes, timers)
    BY <2>1, <2>2 DEF LeadsToNeighbor, TimersFor, HasRoute, Searching
  <2>5. \A d \in Dst : HasRoute(base, d) =>
          /\ HasRoute(routes, d)
          /\ routes[d].nextHop = base[d].nextHop /\ routes[d].seqno = base[d].seqno
    <3> SUFFICES ASSUME NEW d \in Address, HasRoute(base, d)
                 PROVE  /\ HasRoute(routes, d)
                        /\ routes[d].nextHop = base[d].nextHop /\ routes[d].seqno = base[d].seqno
      BY <1>0
    <3>1. CASE routes[d] = base[d]
      BY <3>1 DEF HasRoute
    <3>2. CASE HasValidRoute(base, d) /\ routes[d] = [base[d] EXCEPT !.flag = "INVALID"]
      BY <2>1, <3>2, NoRouteAssumption DEF HasRoute
    <3> QED
      BY <2>2, <3>1, <3>2
  <2> QED
    BY <2>3, <2>4, <2>5 DEF Stays
<1>4. ASSUME routes = RecvReplyAck(base, sender)
      PROVE  /\ routes \in Routes /\ LeadsToNeighbor(routes) /\ TimersFor(routes, timers)
             /\ \A d \in Dst : HasRoute(base, d) =>
                  /\ HasRoute(routes, d)
                  /\ Stays(base, routes, d) \/ Requested(base, routes, sender, d)
  <2> DEFINE e == [base[sender] EXCEPT !.flag = "VALID"]
  <2>1. base[sender] \in Route
    BY <1>0 DEF Routes, HasRoute
  <2>2. /\ e \in Route /\ e.flag = "VALID"
        /\ e.nextHop = base[sender].nextHop /\ e.seqno = base[sender].seqno
    BY <2>1 DEF Route
  <2>3. routes = [base EXCEPT ![sender] = e]
    BY <1>4 DEF RecvReplyAck
  <2> HIDE DEF e
  <2>4. routes[sender] = e /\ \A a \in Address : a # sender => routes[a] = base[a]
    BY <1>0, <2>3 DEF Routes
  <2>5. routes \in Routes
    BY <2>2, <2>3 DEF Routes
  <2>6. LeadsToNeighbor(routes) /\ TimersFor(routes, timers)
    BY <2>2, <2>4 DEF LeadsToNeighbor, TimersFor, HasRoute, Searching
  <2>7. \A d \in Dst : HasRoute(base, d) =>
          /\ HasRoute(routes, d)
          /\ routes[d].nextHop = base[d].nextHop /\ routes[d].seqno = base[d].seqno
    BY <1>0, <2>2, <2>4, NoRouteAssumption DEF HasRoute
  <2> QED
    BY <2>5, <2>6, <2>7 DEF Stays
<1> QED
  BY <1>1, <1>2, <1>3, <1>4 DEF OtherResult

-----------------------------------------------------------------------------
\* A reply is handled by one of the RecvReply, on the table that the route to
\* the neighbour was written to, less at most the entry of its destination,
\* which only the trust decision takes; or it is not handled.
LEMMA ReplyCases ==
  ASSUME NEW sender \in Neighbor, NEW rrep \in Incoming(sender),
         RecvAodv(rrep, sender)
  PROVE  LET base == UpdateRouteToNeighbor(m_routingTable, sender)
             less == [base EXCEPT ![rrep.dst] = NoRoute]
             old  == AvgTrustValue(m_trustTable, base[rrep.dst].nextHop)
             new  == AvgTrustValue(m_trustTable, sender)
         IN
         \/ /\ HandleReply(base, rrep, sender)
            /\ \/ sent' = {}
               \/ SendOn(rrep, NextHopCount(rrep))
               \/ protocol = "malicious" /\ SendOn(rrep, 1)
            /\ protocol = "trust" /\ HasValidRoute(base, rrep.dst) => AboveThreshold(new)
         \/ /\ protocol = "trust"
            /\ DiscardOld(old, new)
            /\ HandleReply(less, rrep, sender)
            /\ SendOn(rrep, NextHopCount(rrep))
         \/ /\ protocol = "trust"
            /\ HasValidRoute(base, rrep.dst) /\ ~AboveThreshold(new)
            /\ Keep(base)
<1>1. rrep.type = "RREP"
  BY DEF Incoming, Rrep, Hello
<1>2. CASE protocol = "trust"
  <2>1. TrustRecvReply(UpdateRouteToNeighbor(m_routingTable, sender), rrep, sender)
    BY <1>1, <1>2 DEF RecvAodv, TrustRecvAodv, RecvOther
  <2> QED
    BY <1>2, <2>1 DEF TrustRecvReply, LetHopsDecide, DiscardOld
<1>3. CASE protocol = "selfish"
  <2>1. SelfishRecvReply(UpdateRouteToNeighbor(m_routingTable, sender), rrep, sender)
    BY <1>1, <1>3 DEF RecvAodv, SelfishRecvAodv, RecvOther
  <2> QED
    BY <1>3, <2>1 DEF SelfishRecvReply
<1>4. CASE protocol = "malicious"
  <2>1. MaliciousRecvReply(UpdateRouteToNeighbor(m_routingTable, sender), rrep, sender)
    BY <1>1, <1>4 DEF RecvAodv, MaliciousRecvAodv, RecvOther
  <2> QED
    BY <1>4, <2>1 DEF MaliciousRecvReply
<1> QED
  BY <1>2, <1>3, <1>4 DEF RecvAodv

LEMMA OtherCases ==
  ASSUME NEW sender \in Neighbor, NEW msg \in Message(sender) \ Incoming(sender),
         RecvAodv(msg, sender)
  PROVE  \E routes :
           /\ OtherResult(UpdateRouteToNeighbor(m_routingTable, sender), routes, sender)
           /\ Keep(routes)
<1> DEFINE base == UpdateRouteToNeighbor(m_routingTable, sender)
<1>1. /\ msg.type # "RREP"
      /\ msg.type = "RREQ" => msg \in Rreq
      /\ msg.type = "RERR" => msg \in Rerr
  BY DEF Message, Incoming, Rrep, Hello, Rreq, Rerr
<1>2. \/ msg \in Rreq /\ Keep(RecvRequest(base, msg, sender))
      \/ msg \in Rerr /\ Keep(RecvError(base, msg, sender))
      \/ Keep(RecvReplyAck(base, sender))
      \/ Keep(base)
  BY <1>1
  DEF RecvAodv, TrustRecvAodv, SelfishRecvAodv, MaliciousRecvAodv, RecvOther
<1> HIDE DEF base
<1>3. \A routes : (OtherResult(base, routes, sender) /\ Keep(routes)) =>
        \E r : OtherResult(base, r, sender) /\ Keep(r)
  OBVIOUS
<1>4. CASE msg \in Rreq /\ Keep(RecvRequest(base, msg, sender))
  BY <1>3, <1>4 DEF OtherResult, base
<1>5. CASE msg \in Rerr /\ Keep(RecvError(base, msg, sender))
  BY <1>3, <1>5 DEF OtherResult, base
<1>6. CASE Keep(RecvReplyAck(base, sender))
  BY <1>3, <1>6 DEF OtherResult, base
<1>7. CASE Keep(base)
  BY <1>3, <1>7 DEF OtherResult, base
<1> QED
  BY <1>2, <1>4, <1>5, <1>6, <1>7

LEMMA MessageIInv ==
  ASSUME IInv, NEW sender \in Neighbor, NEW msg \in Message(sender), RecvAodv(msg, sender)
  PROVE  IInv'
<1> DEFINE base == UpdateRouteToNeighbor(m_routingTable, sender)
           less == [base EXCEPT ![msg.dst] = NoRoute]
<1>0. m_trustTable' \in [Manager -> Records] /\ RestOK'
  BY Parts DEF RecvAodv, RestOK
<1>1. /\ base \in Routes /\ LeadsToNeighbor(base) /\ TimersFor(base, m_addressReqTimer)
      /\ HasRoute(base, sender) /\ base[sender].nextHop \in Neighbor
  BY Parts, NeighborRoutes
<1>2. less \in Routes /\ LeadsToNeighbor(less) /\ TimersFor(less, m_addressReqTimer)
  <2> HIDE DEF base
  <2>1. less \in Routes /\ \A a \in Address : less[a] = NoRoute \/ less[a] = base[a]
    BY <1>1 DEF Routes
  <2> HIDE DEF less
  <2> QED
    BY <1>1, <2>1 DEF LeadsToNeighbor, TimersFor, HasRoute, Searching
<1>3. ASSUME msg \in Incoming(sender),
             NEW routes \in {base, less}, HandleReply(routes, msg, sender),
             \/ sent' = {}
             \/ \E hop \in 0 .. HopMod - 1 : SendOn(msg, hop)
      PROVE  IInv'
  <2> HIDE DEF base, less
  <2>1. /\ m_routingTable' \in Routes
        /\ LeadsToNeighbor(m_routingTable')
        /\ TimersFor(m_routingTable', m_addressReqTimer')
        /\ m_addressReqTimer' \in SUBSET (Dst \cup RemoteOrigin)
    BY <1>1, <1>2, <1>3, HandleFacts, Parts
  <2>2. SentOK(sent')
    BY <1>3, <2>1, SendFacts DEF SentOK
  <2> QED
    BY <1>0, <2>1, <2>2
    DEF IInv, TypeOK, SearchesHaveTimers, Routes, SentOK, TimersFor, RestOK
<1>4. ASSUME NEW routes, OtherResult(base, routes, sender), Keep(routes)
      PROVE  IInv'
  <2> HIDE DEF base
  <2>1. routes \in Routes /\ LeadsToNeighbor(routes) /\ TimersFor(routes, m_addressReqTimer)
    BY <1>1, <1>4, OtherRoutes
  <2>2. /\ m_routingTable' = routes /\ sent' = {}
        /\ m_addressReqTimer' = m_addressReqTimer
        /\ m_addressReqTimer \in SUBSET (Dst \cup RemoteOrigin)
    BY <1>4, Parts DEF Keep
  <2> QED
    BY <1>0, <2>1, <2>2
    DEF IInv, TypeOK, SearchesHaveTimers, Routes, SentOK, TimersFor, RestOK
<1>5. CASE msg \in Incoming(sender)
  <2>1. NextHopCount(msg) \in 0 .. HopMod - 1 /\ 1 \in 0 .. HopMod - 1
    BY <1>5, IncomingFacts, HopModAssumption
  <2>2. \/ \E routes \in {base, less} :
             /\ HandleReply(routes, msg, sender)
             /\ \/ sent' = {}
                \/ \E hop \in 0 .. HopMod - 1 : SendOn(msg, hop)
        \/ Keep(base)
    BY <1>5, <2>1, ReplyCases
  <2> HIDE DEF base, less
  <2> QED
    BY <1>3, <1>4, <1>5, <2>2 DEF OtherResult
<1>6. CASE msg \notin Incoming(sender)
  <2>1. \E routes : OtherResult(base, routes, sender) /\ Keep(routes)
    BY <1>6, OtherCases
  <2> HIDE DEF base
  <2> QED
    BY <1>4, <2>1
<1> QED
  BY <1>5, <1>6

\* Steps that write one entry of the table.
LEMMA EntryIInv ==
  ASSUME IInv, NEW base \in Routes, LeadsToNeighbor(base), TimersFor(base, m_addressReqTimer),
         NEW d \in Address, NEW e \in Route \cup {NoRoute},
         m_routingTable' = [base EXCEPT ![d] = e],
         \/ e = NoRoute
         \/ e.nextHop \in Neighbor
         \/ e.flag = "IN_SEARCH" /\ ~e.validSeqNo,
         e # NoRoute /\ e.flag = "IN_SEARCH" => d \in m_addressReqTimer',
         \A a \in m_addressReqTimer : a = d \/ a \in m_addressReqTimer',
         m_addressReqTimer' \in SUBSET (Dst \cup RemoteOrigin),
         Quiet, UNCHANGED m_trustTable
  PROVE  IInv'
<1>1. /\ m_routingTable' \in Routes
      /\ m_routingTable'[d] = e
      /\ \A a \in Address : a # d => m_routingTable'[a] = base[a]
  BY DEF Routes
<1>2. LeadsToNeighbor(m_routingTable')
  BY <1>1 DEF LeadsToNeighbor, HasRoute, Searching
<1>3. TimersFor(m_routingTable', m_addressReqTimer')
  BY <1>1 DEF TimersFor, HasRoute, Searching
<1>4. sent' = {} /\ RestOK' /\ m_trustTable' \in [Manager -> Records]
  BY Parts DEF Quiet, RestOK
<1> QED
  BY <1>1, <1>2, <1>3, <1>4
  DEF IInv, TypeOK, SearchesHaveTimers, Routes, SentOK, TimersFor, RestOK

\* The steps of the rest of the node.
LEMMA EnvironmentIInv ==
  ASSUME IInv, NEW d \in Address,
         \/ d \in Dst \cup RemoteOrigin /\ (SendRequest(d) \/ RouteRequestTimerExpire(d))
         \/ Expire(d) \/ PurgeRoute(d)
  PROVE  IInv'
<1>0. /\ m_routingTable \in Routes /\ LeadsToNeighbor(m_routingTable)
      /\ TimersFor(m_routingTable, m_addressReqTimer)
      /\ m_addressReqTimer \in SUBSET (Dst \cup RemoteOrigin)
  BY Parts
<1>1. Quiet /\ UNCHANGED m_trustTable
  BY DEF SendRequest, RouteRequestTimerExpire, Expire, PurgeRoute
<1>2. CASE d \in Dst \cup RemoteOrigin /\ SendRequest(d)
  <2> DEFINE e == IF HasRoute(m_routingTable, d)
                  THEN [m_routingTable[d] EXCEPT !.flag = "IN_SEARCH"]
                  ELSE [seqno |-> 0, validSeqNo |-> FALSE, flag |-> "IN_SEARCH",
                        hop |-> 0, nextHop |-> Nowhere]
  <2>1. /\ e \in Route /\ e.flag = "IN_SEARCH"
        /\ e.nextHop \in Neighbor \/ ~e.validSeqNo
    <3>1. 0 \in 0 .. SeqnoMod - 1 /\ 0 \in 0 .. HopMod - 1
      BY SeqnoModAssumption, HopModAssumption
    <3>2. CASE HasRoute(m_routingTable, d)
      <4>1. m_routingTable[d] \in Route /\ m_routingTable[d].nextHop \in Neighbor
        BY <1>0, <1>2, <3>2 DEF Routes, HasRoute, LeadsToNeighbor, SendRequest
      <4> QED
        BY <3>2, <4>1 DEF Route
    <3>3. CASE ~HasRoute(m_routingTable, d)
      BY <3>1, <3>3 DEF Route
    <3> QED
      BY <3>2, <3>3
  <2>2. m_routingTable' = [m_routingTable EXCEPT ![d] = e]
    BY <1>2 DEF SendRequest
  <2>3. m_addressReqTimer' = m_addressReqTimer \cup {d}
    BY <1>2 DEF SendRequest
  <2> HIDE DEF e
  <2> QED
    BY <1>0, <1>1, <1>2, <2>1, <2>2, <2>3, EntryIInv
<1>3. CASE d \in Dst \cup RemoteOrigin /\ RouteRequestTimerExpire(d)
  <2>1. m_addressReqTimer' = m_addressReqTimer \ {d}
    BY <1>3 DEF RouteRequestTimerExpire
  <2>2. CASE HasValidRoute(m_routingTable, d)
    <3>1. m_routingTable' = m_routingTable
      BY <1>3, <2>2 DEF RouteRequestTimerExpire
    <3>2. TimersFor(m_routingTable', m_addressReqTimer')
      BY <1>0, <2>1, <2>2, <3>1 DEF TimersFor, Searching, HasValidRoute
    <3> QED
      BY <1>0, <1>1, <2>1, <3>1, <3>2
      DEF IInv, TypeOK, SearchesHaveTimers, Routes, TimersFor, LeadsToNeighbor, Quiet
  <2>3. CASE ~HasValidRoute(m_routingTable, d)
    <3>1. m_routingTable' = [m_routingTable EXCEPT ![d] = NoRoute]
      BY <1>3, <2>3 DEF RouteRequestTimerExpire
    <3> QED
      BY <1>0, <1>1, <2>1, <3>1, EntryIInv
  <2> QED
    BY <2>2, <2>3
<1>4. CASE Expire(d)
  <2> DEFINE e == [m_routingTable[d] EXCEPT !.flag = "INVALID"]
  <2>1. m_routingTable[d] \in Route /\ m_routingTable[d].nextHop \in Neighbor
    BY <1>0, <1>4 DEF Expire, HasValidRoute, HasRoute, Routes, LeadsToNeighbor, Searching
  <2>2. e \in Route /\ e.flag = "INVALID" /\ e.nextHop \in Neighbor
    BY <2>1 DEF Route
  <2>3. m_routingTable' = [m_routingTable EXCEPT ![d] = e] /\ UNCHANGED m_addressReqTimer
    BY <1>4 DEF Expire
  <2> HIDE DEF e
  <2> QED
    BY <1>0, <1>1, <2>2, <2>3, EntryIInv
<1>5. CASE PurgeRoute(d)
  <2>1. m_routingTable' = [m_routingTable EXCEPT ![d] = NoRoute] /\ UNCHANGED m_addressReqTimer
    BY <1>5 DEF PurgeRoute
  <2> QED
    BY <1>0, <1>1, <2>1, EntryIInv
<1> QED
  BY <1>2, <1>3, <1>4, <1>5

\* The managers: what they store and drop leaves records.
LEMMA ManagerIInv ==
  ASSUME IInv, NEW m \in Manager, NEW recs \in Records,
         m_trustTable' = [m_trustTable EXCEPT ![m] = recs],
         Quiet, UNCHANGED <<m_routingTable, m_addressReqTimer>>
  PROVE  IInv'
<1>1. m_trustTable' \in [Manager -> Records]
  BY Parts
<1>2. RestOK' /\ sent' = {}
  BY Parts DEF Quiet, RestOK
<1> QED
  BY <1>1, <1>2, Parts
  DEF IInv, TypeOK, SearchesHaveTimers, LeadsToNeighbor, RestOK, Routes

LEMMA NextIInv == IInv /\ [Next]_vars => IInv'
<1> SUFFICES ASSUME IInv, [Next]_vars PROVE IInv'
  OBVIOUS
<1>1. ASSUME NEW m \in Manager, NEW a \in Neighbor, NEW v \in Rating, Rate(m, a, v)
      PROVE  IInv'
  <2> DEFINE recs == AddOrUpdateTrustTableEntry(m_trustTable[m], a, v, 0)
  <2>1. v \in Trust /\ a \in Address /\ 0 \in Nat
    BY AddressAssumption, RatingAssumption
  <2>2. m_trustTable[m] \in Records
    BY Parts
  <2>3. recs \in Records
    <3>1. ~Negative(v) => [trustValue |-> v, timestamp |-> 0] \in TrustEntry
      BY <2>1 DEF TrustEntry
    <3>2. ~Negative(v) => Store(m_trustTable[m], a, v, 0) \in Records
      BY <2>1, <2>2, <3>1 DEF Store, Records
    <3> QED
      BY <2>2, <3>2 DEF AddOrUpdateTrustTableEntry, AddRecord, UpdateRecord
  <2> HIDE DEF recs
  <2> QED
    BY <1>1, <2>3, ManagerIInv DEF Rate, recs
<1>2. ASSUME NEW m \in Manager, NEW kept \in SUBSET Neighbor, Forget(m, kept)
      PROVE  IInv'
  <2> DEFINE recs == [a \in Address |-> IF a \in kept THEN m_trustTable[m][a] ELSE NoEntry]
  <2>1. m_trustTable[m] \in Records
    BY Parts
  <2>2. recs \in Records
    BY <2>1 DEF Records
  <2>3. m_trustTable' = [m_trustTable EXCEPT ![m] = recs]
    BY <1>2, Parts DEF Forget
  <2> HIDE DEF recs
  <2> QED
    BY <1>2, <2>2, <2>3, ManagerIInv DEF Forget
<1>3. CASE UNCHANGED vars
  BY <1>3 DEF vars, IInv, TypeOK, SearchesHaveTimers, LeadsToNeighbor
<1>4. ASSUME NEW d \in Dst \cup RemoteOrigin, SendRequest(d) \/ RouteRequestTimerExpire(d)
      PROVE  IInv'
  <2>1. d \in Address
    BY AddressAssumption
  <2> QED
    BY <1>4, <2>1, EnvironmentIInv
<1>5. ASSUME NEW d \in Address, Expire(d) \/ PurgeRoute(d)
      PROVE  IInv'
  BY <1>5, EnvironmentIInv
<1>6. ASSUME NEW dst \in Dst \cup {Self}, RouteInput(dst)
      PROVE  IInv'
  <2>1. RestOK' /\ sent' = {} /\ UNCHANGED <<m_routingTable, m_trustTable, m_addressReqTimer>>
    BY <1>6, Parts DEF RouteInput, RestOK
  <2> QED
    BY <2>1, Parts DEF IInv, TypeOK, SearchesHaveTimers, LeadsToNeighbor, RestOK
<1> QED
  BY <1>1, <1>2, <1>3, <1>4, <1>5, <1>6, MessageIInv DEF Next

LEMMA SpecIInv == Spec => []IInv
BY InitIInv, NextIInv, PTL DEF Spec

-----------------------------------------------------------------------------
\* Routes are well formed, and what is sent on has a neighbour to receive it.
THEOREM TypeCorrect == Spec => []TypeOK
<1>1. IInv => TypeOK
  BY DEF IInv
<1> QED
  BY SpecIInv, <1>1, PTL

\* No reply, however late, leaves a search without the timer that ends it.
THEOREM SearchesEnd == Spec => []SearchesHaveTimers
<1>1. IInv => SearchesHaveTimers
  BY DEF IInv
<1> QED
  BY SpecIInv, <1>1, PTL

-----------------------------------------------------------------------------
\* What a reply does to one destination: a valid route is not lost; under the
\* trust protocol it stays where it was, or leads to the destination itself,
\* or to a sender that the trust decision preferred to the old next hop.
LEMMA ReplyMoves ==
  ASSUME IInv, NEW sender \in Neighbor, NEW rrep \in Incoming(sender),
         RecvAodv(rrep, sender), NEW d \in Dst, HasValidRoute(m_routingTable, d)
  PROVE  /\ HasRoute(m_routingTable', d)
         /\ protocol = "trust" =>
              LET old == AvgTrustValue(m_trustTable, m_routingTable[d].nextHop)
                  new == AvgTrustValue(m_trustTable, sender)
              IN  \/ m_routingTable'[d].nextHop \in {m_routingTable[d].nextHop, d}
                  \/ /\ m_routingTable'[d].nextHop = sender
                     /\ AboveThreshold(new) \/ Less(old, new)
<1> DEFINE base == UpdateRouteToNeighbor(m_routingTable, sender)
           less == [base EXCEPT ![rrep.dst] = NoRoute]
<1>0. d \in Address /\ rrep.dst \in Address
  BY AddressAssumption, IncomingFacts
<1>1. /\ base \in Routes /\ LeadsToNeighbor(base)
      /\ \A a \in Address : a # sender => base[a] = m_routingTable[a]
      /\ \/ base[sender] = m_routingTable[sender]
         \/ HasValidRoute(base, sender) /\ base[sender].nextHop = sender
  BY Parts, NeighborRoutes
<1>3. less \in Routes /\ LeadsToNeighbor(less) /\ \A a \in Address : a # rrep.dst => less[a] = base[a]
  <2> HIDE DEF base
  <2>1. less \in Routes /\ \A a \in Address : less[a] = NoRoute \/ less[a] = base[a]
    BY <1>1 DEF Routes
  <2>2. \A a \in Address : a # rrep.dst => less[a] = base[a]
    BY <1>1 DEF Routes
  <2> HIDE DEF less
  <2> QED
    BY <1>1, <2>1, <2>2 DEF LeadsToNeighbor, HasRoute, Searching
<1>5. \/ m_routingTable' = base
      \/ /\ HandleReply(base, rrep, sender)
         /\ protocol = "trust" =>
              \/ ~HasValidRoute(base, rrep.dst)
              \/ AboveThreshold(AvgTrustValue(m_trustTable, sender))
      \/ /\ HandleReply(less, rrep, sender)
         /\ DiscardOld(AvgTrustValue(m_trustTable, base[rrep.dst].nextHop),
                       AvgTrustValue(m_trustTable, sender))
  BY ReplyCases DEF Keep
<1> HIDE DEF base
<1>2. HasValidRoute(base, d) /\ base[d].nextHop \in {m_routingTable[d].nextHop, d}
  BY <1>0, <1>1 DEF HasValidRoute, HasRoute
\* A reply that is handled writes no other entry, and its own with the sender.
<1>4. ASSUME NEW routes \in {base, less}, HandleReply(routes, rrep, sender)
      PROVE  /\ HasRoute(m_routingTable', d)
             /\ d # rrep.dst => m_routingTable'[d] = base[d]
             /\ d = rrep.dst => m_routingTable'[d].nextHop \in {base[d].nextHop, sender, d}
  <2>1. m_routingTable' = RecvReply(routes, rrep, sender)
    BY <1>4 DEF HandleReply
  <2>2. routes \in Routes /\ LeadsToNeighbor(routes)
    BY <1>1, <1>3, <1>4
  <2> HIDE DEF less
  <2>3. /\ \A a \in Address : a # rrep.dst => m_routingTable'[a] = routes[a]
        /\ HasRoute(m_routingTable', rrep.dst)
        /\ ~IsHello(rrep) => m_routingTable'[rrep.dst] \in {routes[rrep.dst], NewEntry(rrep, sender)}
        /\ IsHello(rrep) => m_routingTable'[rrep.dst].nextHop = rrep.dst
    BY <2>1, <2>2, ReplyRoutes
  <2>4. CASE d # rrep.dst
    <3>1. routes[d] = base[d]
      BY <1>0, <1>3, <1>4, <2>4
    <3> QED
      BY <1>0, <1>2, <2>3, <2>4, <3>1 DEF HasValidRoute, HasRoute
  <2>5. CASE d = rrep.dst
    <3>1. routes[d] = NoRoute \/ routes[d] = base[d]
      BY <1>0, <1>1, <1>4, <2>5 DEF less, Routes
    <3>2. NewEntry(rrep, sender).nextHop = sender
      BY DEF NewEntry
    <3> QED
      BY <2>3, <2>5, <3>1, <3>2 DEF HasRoute
  <2> QED
    BY <2>4, <2>5
<1> HIDE DEF less
<1>6. CASE m_routingTable' = base
  BY <1>2, <1>6 DEF HasValidRoute
<1>7. CASE d # rrep.dst
  BY <1>2, <1>4, <1>5, <1>6, <1>7
<1>8. CASE d = rrep.dst /\ m_routingTable' # base
  <2>1. CASE base[d].nextHop = m_routingTable[d].nextHop
    BY <1>2, <1>4, <1>5, <1>8, <2>1 DEF DiscardOld
  <2>2. CASE base[d].nextHop # m_routingTable[d].nextHop
    <3>1. d = sender
      BY <1>0, <1>1, <2>2
    <3> QED
      BY <1>2, <1>4, <1>5, <1>8, <3>1
  <2> QED
    BY <2>1, <2>2
<1> QED
  BY <1>6, <1>7, <1>8

\* The trust that counts is the code's average.
LEMMA EffectiveIsAverage ==
  \A a : Effective(a) = AvgTrustValue(m_trustTable, a)
BY DEF Effective, AvgTrustValue

\* The steps of the node that receive no reply.
Other ==
  \/ \E sender \in Neighbor : \E msg \in Message(sender) \ Incoming(sender) : RecvAodv(msg, sender)
  \/ \E dst \in Dst \cup {Self} : RouteInput(dst)
  \/ \E a \in Dst \cup RemoteOrigin : SendRequest(a) \/ RouteRequestTimerExpire(a)
  \/ \E a \in Address : Expire(a) \/ PurgeRoute(a)
  \/ \E m \in Manager, a \in Neighbor, v \in Rating : Rate(m, a, v)
  \/ \E m \in Manager, kept \in SUBSET Neighbor : Forget(m, kept)

LEMMA NextIsReplyOrOther ==
  ASSUME Next
  PROVE  \/ \E sender \in Neighbor : \E rrep \in Incoming(sender) : RecvAodv(rrep, sender)
         \/ Other
BY DEF Next, Other

\* They leave a valid route to a destination in the table, over the same next
\* hop or the destination itself, and with the same number unless the
\* destination is a neighbour; or a request of the destination's own came over
\* the new next hop, with a number that is no older.
LEMMA OtherSteps ==
  ASSUME IInv, NEW d \in Dst, HasRoute(m_routingTable, d), Other
  PROVE  /\ HasValidRoute(m_routingTable, d) => HasRoute(m_routingTable', d)
         /\ HasRoute(m_routingTable', d) =>
              \/ Stays(m_routingTable, m_routingTable', d)
              \/ /\ m_routingTable[d].validSeqNo =>
                     ~Newer(m_routingTable[d].seqno, m_routingTable'[d].seqno)
                 /\ protocol = "trust" => AskedBy(d)
<1>1. /\ d \in Address /\ m_routingTable \in Routes /\ m_routingTable[d] \in Route
      /\ Dst \cup RemoteOrigin \subseteq Address
  BY AddressAssumption, Parts DEF Routes, HasRoute
<1>2. CASE m_routingTable' = m_routingTable
  BY <1>2 DEF HasValidRoute, Stays
<1>3. ASSUME NEW a \in Address,
             \/ a \in Dst \cup RemoteOrigin /\ (SendRequest(a) \/ RouteRequestTimerExpire(a))
             \/ Expire(a) \/ PurgeRoute(a)
      PROVE  /\ HasValidRoute(m_routingTable, d) => HasRoute(m_routingTable', d)
             /\ HasRoute(m_routingTable', d) =>
                  /\ m_routingTable'[d].nextHop = m_routingTable[d].nextHop
                  /\ m_routingTable'[d].seqno = m_routingTable[d].seqno
  <2>1. CASE a # d
    <3>1. m_routingTable'[d] = m_routingTable[d]
      BY <1>1, <1>3, <2>1
      DEF SendRequest, RouteRequestTimerExpire, Expire, PurgeRoute, Routes
    <3> QED
      BY <1>1, <3>1 DEF HasRoute, HasValidRoute
  <2>2. CASE a = d
    <3>1. CASE SendRequest(d)
      <4> DEFINE e == [m_routingTable[d] EXCEPT !.flag = "IN_SEARCH"]
      <4>1. e \in Route /\ e.nextHop = m_routingTable[d].nextHop /\ e.seqno = m_routingTable[d].seqno
        BY <1>1 DEF Route
      <4>2. m_routingTable'[d] = e
        BY <1>1, <3>1 DEF SendRequest, Routes
      <4> HIDE DEF e
      <4> QED
        BY <3>1, <4>1, <4>2 DEF SendRequest
    <3>2. CASE Expire(d)
      <4> DEFINE e == [m_routingTable[d] EXCEPT !.flag = "INVALID"]
      <4>1. e \in Route /\ e.nextHop = m_routingTable[d].nextHop /\ e.seqno = m_routingTable[d].seqno
        BY <1>1 DEF Route
      <4>2. m_routingTable'[d] = e
        BY <1>1, <3>2 DEF Expire, Routes
      <4> HIDE DEF e
      <4> QED
        BY <4>1, <4>2, NoRouteAssumption DEF HasRoute
    <3>3. CASE RouteRequestTimerExpire(d)
      <4>1. CASE HasValidRoute(m_routingTable, d)
        BY <1>1, <3>3, <4>1 DEF RouteRequestTimerExpire, HasValidRoute
      <4>2. CASE ~HasValidRoute(m_routingTable, d)
        <5>1. m_routingTable'[d] = NoRoute
          BY <1>1, <3>3, <4>2 DEF RouteRequestTimerExpire, Routes
        <5> QED
          BY <4>2, <5>1 DEF HasRoute
      <4> QED
        BY <4>1, <4>2
    <3>4. CASE PurgeRoute(d)
      <4>1. m_routingTable'[d] = NoRoute /\ ~HasValidRoute(m_routingTable, d)
        BY <1>1, <3>4 DEF PurgeRoute, Routes, HasValidRoute
      <4> QED
        BY <4>1 DEF HasRoute
    <3> QED
      BY <1>3, <2>2, <3>1, <3>2, <3>3, <3>4
  <2> QED
    BY <2>1, <2>2
<1>4. ASSUME NEW sender \in Neighbor, NEW msg \in Message(sender) \ Incoming(sender),
             RecvAodv(msg, sender)
      PROVE  /\ HasRoute(m_routingTable', d)
             /\ \/ Stays(m_routingTable, m_routingTable', d)
                \/ /\ m_routingTable[d].validSeqNo =>
                       ~Newer(m_routingTable[d].seqno, m_routingTable'[d].seqno)
                   /\ protocol = "trust" => AskedBy(d)
  <2> DEFINE base == UpdateRouteToNeighbor(m_routingTable, sender)
  <2>1. /\ base \in Routes /\ LeadsToNeighbor(base) /\ TimersFor(base, m_addressReqTimer)
        /\ HasRoute(base, sender) /\ base[sender].nextHop \in Neighbor
        /\ \A a \in Address : a # sender => base[a] = m_routingTable[a]
        /\ \/ base[sender] = m_routingTable[sender]
           \/ HasValidRoute(base, sender) /\ base[sender].nextHop = sender
    BY Parts, NeighborRoutes
  <2>2. PICK routes : OtherResult(base, routes, sender) /\ Keep(routes)
    BY <1>4, OtherCases
  <2>3. m_routingTable' = routes
    BY <2>2 DEF Keep
  <2>6. ASSUME NEW rreq \in Rreq, routes = RecvRequest(base, rreq, sender), protocol = "trust"
        PROVE  RecvAodv(rreq, sender)
    <3>1. rreq.type = "RREQ"
      BY DEF Rreq
    <3>2. TrustRecvAodv(base, rreq, sender)
      BY <2>2, <2>6, <3>1 DEF TrustRecvAodv
    <3>3. UNCHANGED <<protocol, m_trustTable, ipForward>> /\ data' = "none"
      BY <1>4 DEF RecvAodv
    <3> QED
      BY <2>6, <3>2, <3>3 DEF RecvAodv
  <2> HIDE DEF base
  <2>4. /\ HasRoute(base, d) /\ base[d].nextHop \in {m_routingTable[d].nextHop, d}
        /\ d \notin Neighbor => base[d] = m_routingTable[d]
    BY <1>1, <2>1 DEF HasRoute
  <2>5. HasRoute(routes, d) /\ (Stays(base, routes, d) \/ Requested(base, routes, sender, d))
    BY <2>1, <2>2, <2>4, OtherRoutes
  <2>7. CASE Stays(base, routes, d)
    BY <2>3, <2>4, <2>5, <2>7 DEF Stays
  <2>8. CASE Requested(base, routes, sender, d)
    <3>1. base[d] = m_routingTable[d]
      BY <1>1, <2>1, <2>8 DEF Requested
    <3>2. m_routingTable[d].validSeqNo => ~Newer(m_routingTable[d].seqno, m_routingTable'[d].seqno)
      BY <2>3, <2>8, <3>1 DEF Requested
    <3>3. ASSUME protocol = "trust"  PROVE  AskedBy(d)
      <4>1. PICK rreq \in Rreq : /\ rreq.origin = d /\ rreq.fresh
                                 /\ routes = RecvRequest(base, rreq, sender)
        BY <2>8 DEF Requested
      <4>2. RecvAodv(rreq, sender) /\ sender = m_routingTable'[d].nextHop
        BY <2>3, <2>6, <2>8, <3>3, <4>1 DEF Requested
      <4> QED
        BY <4>1, <4>2 DEF AskedBy
    <3> QED
      BY <2>3, <2>5, <3>2, <3>3
  <2> QED
    BY <2>5, <2>7, <2>8
<1>5. CASE \E dst \in Dst \cup {Self} : RouteInput(dst)
  BY <1>2, <1>5 DEF RouteInput
<1>6. CASE \/ \E m \in Manager, a \in Neighbor, v \in Rating : Rate(m, a, v)
           \/ \E m \in Manager, kept \in SUBSET Neighbor : Forget(m, kept)
  BY <1>2, <1>6 DEF Rate, Forget
<1> QED
  BY <1>1, <1>3, <1>4, <1>5, <1>6 DEF Other, Stays

\* No reply costs a node a valid route, under any of the protocols: the route
\* that the trust decision deletes is replaced in the same step.
THEOREM KeepsRoutes == Spec => RepliesKeepRoutes
<1> DEFINE A == \A d \in Dst : HasValidRoute(m_routingTable, d) => HasRoute(m_routingTable', d)
<1>1. IInv /\ [Next]_vars => [A]_vars
  <2> SUFFICES ASSUME IInv, Next, NEW d \in Dst, HasValidRoute(m_routingTable, d)
               PROVE  HasRoute(m_routingTable', d)
    OBVIOUS
  <2>1. HasRoute(m_routingTable, d)
    BY DEF HasValidRoute
  <2> QED
    BY <2>1, ReplyMoves, OtherSteps, NextIsReplyOrOther
<1> QED
  BY SpecIInv, <1>1, PTL DEF Spec, RepliesKeepRoutes

\* A trust node leaves a next hop only for one at or above the threshold, for
\* one it trusts more, or for the one that a request of the destination's own
\* came over, whatever the replies, the ratings and their order.
THEOREM TrustMovesUp == Spec => RoutesMoveToTrust
<1> DEFINE A == \A d \in Dst : protocol = "trust" /\ Moves(d) =>
       \/ ~Distrusted(m_routingTable'[d].nextHop)
       \/ Less(Effective(m_routingTable[d].nextHop), Effective(m_routingTable'[d].nextHop))
       \/ AskedBy(d)
<1>1. IInv /\ [Next]_vars => [A]_vars
  <2> SUFFICES ASSUME IInv, Next, NEW d \in Dst, protocol = "trust", Moves(d)
               PROVE  \/ ~Distrusted(m_routingTable'[d].nextHop)
                      \/ Less(Effective(m_routingTable[d].nextHop),
                              Effective(m_routingTable'[d].nextHop))
                      \/ AskedBy(d)
    OBVIOUS
  <2>1. /\ HasValidRoute(m_routingTable, d) /\ HasRoute(m_routingTable, d)
        /\ HasRoute(m_routingTable', d)
        /\ m_routingTable'[d].nextHop \notin {m_routingTable[d].nextHop, d}
    BY DEF Moves, HasValidRoute
  <2>2. CASE Other
    BY <2>1, <2>2, OtherSteps DEF Stays
  <2>3. ASSUME NEW sender \in Neighbor, NEW rrep \in Incoming(sender), RecvAodv(rrep, sender)
        PROVE  \/ ~Distrusted(m_routingTable'[d].nextHop)
               \/ Less(Effective(m_routingTable[d].nextHop),
                       Effective(m_routingTable'[d].nextHop))
    BY <2>1, <2>3, ReplyMoves, EffectiveIsAverage DEF Distrusted, AboveThreshold
  <2> QED
    BY <2>2, <2>3, NextIsReplyOrOther
<1> QED
  BY SpecIInv, <1>1, PTL DEF Spec, RoutesMoveToTrust

-----------------------------------------------------------------------------
\* A reply that is no hello leaves the better of two entries: of equal numbers
\* the one with the smaller count.
LEMMA BetterRoute ==
  ASSUME NEW base \in Routes, LeadsToNeighbor(base), NEW sender \in Neighbor,
         NEW rrep \in Incoming(sender), ~IsHello(rrep)
  PROVE  LET new == RecvReply(base, rrep, sender)[rrep.dst]
         IN  /\ new \in {base[rrep.dst], NewEntry(rrep, sender)} \ {NoRoute}
             /\ new.seqno = rrep.seqno => new.hop <= NextHopCount(rrep)
<1> DEFINE routes == RecvReply(base, rrep, sender)
           entry  == NewEntry(rrep, sender)
<1>1. rrep.dst \in Address /\ NextHopCount(rrep) \in 0 .. HopMod - 1
  BY IncomingFacts
<1>2. routes[rrep.dst] \in {base[rrep.dst], entry} /\ HasRoute(routes, rrep.dst)
  BY ReplyRoutes
<1>3. entry.seqno = rrep.seqno /\ entry.hop = NextHopCount(rrep)
  BY DEF NewEntry
<1>4. \/ routes = [base EXCEPT ![rrep.dst] = entry]
      \/ routes = base /\ HasRoute(base, rrep.dst) /\ ~Replaces(entry, base[rrep.dst])
  BY DEF RecvReply, UpdateForwardRoute
<1>5. HasRoute(base, rrep.dst) => base[rrep.dst].hop \in Int
  BY <1>1 DEF Routes, HasRoute, Route
<1> HIDE DEF routes, entry
<1>6. CASE routes = [base EXCEPT ![rrep.dst] = entry]
  <2>1. routes[rrep.dst] = entry
    BY <1>1, <1>6 DEF Routes
  <2> QED
    BY <1>1, <1>2, <1>3, <2>1 DEF HasRoute, routes, entry
<1>7. CASE routes = base /\ HasRoute(base, rrep.dst) /\ ~Replaces(entry, base[rrep.dst])
  <2>1. base[rrep.dst].seqno = rrep.seqno => base[rrep.dst].hop <= NextHopCount(rrep)
    BY <1>1, <1>3, <1>5, <1>7 DEF Replaces
  <2> QED
    BY <1>2, <1>7, <2>1 DEF HasRoute, routes, entry
<1> QED
  BY <1>4, <1>6, <1>7

\* Under the protocols that do not weigh trust, the better route stays: a
\* malicious node believes no forged count, and a selfish one learns from what
\* it drops.
THEOREM BetterRoutesStay == Spec => RepliesLeaveBetterRoute
<1> DEFINE A == protocol # "trust" =>
       \A sender \in Neighbor, rrep \in Rrep :
         LET old == UpdateRouteToNeighbor(m_routingTable, sender)[rrep.dst]
             new == m_routingTable'[rrep.dst]
         IN  \/ /\ new \in {old, NewEntry(rrep, sender)} \ {NoRoute}
                /\ new.seqno = rrep.seqno => new.hop <= NextHopCount(rrep)
             \/ ~RecvAodv(rrep, sender)
<1>1. IInv /\ [Next]_vars => [A]_vars
  <2> SUFFICES ASSUME IInv, protocol # "trust",
                      NEW sender \in Neighbor, NEW rrep \in Rrep, RecvAodv(rrep, sender)
               PROVE  LET old == UpdateRouteToNeighbor(m_routingTable, sender)[rrep.dst]
                          new == m_routingTable'[rrep.dst]
                      IN  /\ new \in {old, NewEntry(rrep, sender)} \ {NoRoute}
                          /\ new.seqno = rrep.seqno => new.hop <= NextHopCount(rrep)
    OBVIOUS
  <2> DEFINE base == UpdateRouteToNeighbor(m_routingTable, sender)
  <2>1. base \in Routes /\ LeadsToNeighbor(base)
    BY Parts, NeighborRoutes
  <2>2. rrep \in Incoming(sender) /\ ~IsHello(rrep)
    BY DEF Incoming, Rrep, IsHello
  <2>3. m_routingTable' = RecvReply(base, rrep, sender)
    BY <2>2, ReplyCases DEF HandleReply
  <2> HIDE DEF base
  <2>4. /\ m_routingTable'[rrep.dst] \in {base[rrep.dst], NewEntry(rrep, sender)} \ {NoRoute}
        /\ m_routingTable'[rrep.dst].seqno = rrep.seqno =>
             m_routingTable'[rrep.dst].hop <= NextHopCount(rrep)
    BY <2>1, <2>2, <2>3, BetterRoute
  <2> QED
    BY <2>4 DEF base
<1> QED
  BY SpecIInv, <1>1, PTL DEF Spec, RepliesLeaveBetterRoute

\* A node that counts honestly advertises no route shorter than its own.
THEOREM HonestCounts == Spec => []NeverAdvertisesShorter
<1>1. Init => NeverAdvertisesShorter
  BY DEF Init, NeverAdvertisesShorter
<1>2. IInv /\ NeverAdvertisesShorter /\ [Next]_vars => NeverAdvertisesShorter'
  <2> SUFFICES ASSUME IInv, NeverAdvertisesShorter, [Next]_vars
               PROVE  NeverAdvertisesShorter'
    OBVIOUS
  <2>1. CASE UNCHANGED vars
    BY <2>1 DEF vars, NeverAdvertisesShorter
  <2>2. CASE sent' = {}
    BY <2>2 DEF NeverAdvertisesShorter
  <2>3. ASSUME NEW sender \in Neighbor, NEW rrep \in Incoming(sender), RecvAodv(rrep, sender)
        PROVE  NeverAdvertisesShorter'
    <3> DEFINE base == UpdateRouteToNeighbor(m_routingTable, sender)
               less == [base EXCEPT ![rrep.dst] = NoRoute]
    <3> SUFFICES ASSUME protocol # "malicious", NEW s \in sent'
                 PROVE  m_routingTable'[s.rrep.dst].seqno = s.rrep.seqno
                          => s.rrep.hop >= m_routingTable'[s.rrep.dst].hop
      BY <2>3 DEF NeverAdvertisesShorter, RecvAodv
    <3>1. /\ base \in Routes /\ LeadsToNeighbor(base)
          /\ rrep.dst \in Address /\ NextHopCount(rrep) \in 0 .. HopMod - 1
      BY Parts, NeighborRoutes, IncomingFacts
    <3>2. PICK routes \in {base, less} :
            m_routingTable' = RecvReply(routes, rrep, sender) /\ SendOn(rrep, NextHopCount(rrep))
      BY <2>3, ReplyCases DEF HandleReply, Keep
    <3>3. routes \in Routes /\ LeadsToNeighbor(routes)
      <4> HIDE DEF base
      <4>1. less \in Routes /\ \A a \in Address : less[a] = NoRoute \/ less[a] = base[a]
        BY <3>1 DEF Routes
      <4> HIDE DEF less
      <4> QED
        BY <3>1, <3>2, <4>1 DEF LeadsToNeighbor, HasRoute, Searching
    <3> HIDE DEF base, less
    <3>4. Travels(m_routingTable', rrep) /\ s = Onward(m_routingTable', rrep, NextHopCount(rrep))
      BY <3>2 DEF SendOn
    <3>5. rrep \in Rrep /\ ~IsHello(rrep)
      BY <3>4 DEF Travels, Incoming, Hello, IsHello
    <3>6. /\ s.rrep.dst = rrep.dst /\ s.rrep.seqno = rrep.seqno
          /\ s.rrep.hop = NextHopCount(rrep)
      BY <3>4, <3>5 DEF Onward, Rrep
    <3>7. m_routingTable'[rrep.dst].seqno = rrep.seqno =>
            m_routingTable'[rrep.dst].hop <= NextHopCount(rrep)
      BY <3>2, <3>3, <3>5, BetterRoute
    <3>8. m_routingTable'[rrep.dst].hop \in Int
      <4>1. m_routingTable' \in Routes /\ HasRoute(m_routingTable', rrep.dst)
        BY <3>2, <3>3, ReplyRoutes
      <4> QED
        BY <3>1, <4>1 DEF Routes, HasRoute, Route
    <3> QED
      BY <3>1, <3>6, <3>7, <3>8
  <2>4. ASSUME Other PROVE sent' = {}
    <3>1. ASSUME NEW sender \in Neighbor, NEW msg \in Message(sender) \ Incoming(sender),
                 RecvAodv(msg, sender)
          PROVE  sent' = {}
      BY <3>1, OtherCases DEF Keep
    <3> QED
      BY <2>4, <3>1
      DEF Other, RouteInput, SendRequest, RouteRequestTimerExpire, Expire, PurgeRoute,
          Rate, Forget, Quiet
  <2> QED
    BY <2>1, <2>2, <2>3, <2>4, NextIsReplyOrOther
<1> QED
  BY SpecIInv, <1>1, <1>2, PTL DEF Spec

\* Only a hello of a distrusted neighbour that there is a valid route to is
\* discarded.
THEOREM HellosRenew == Spec => HellosRenewUnlessDistrusted
<1> DEFINE A == \A a \in Neighbor : \A hello \in Hello(a) :
       \/ m_routingTable'[a] = ProcessHello(m_routingTable, hello)[a]
       \/ RecvAodv(hello, a) =>
            /\ protocol = "trust" /\ Distrusted(a)
            /\ m_routingTable' = UpdateRouteToNeighbor(m_routingTable, a)
            /\ HasValidRoute(m_routingTable', a)
<1>1. IInv /\ [Next]_vars => [A]_vars
  <2> SUFFICES ASSUME IInv, NEW a \in Neighbor, NEW hello \in Hello(a), RecvAodv(hello, a)
               PROVE  \/ m_routingTable'[a] = ProcessHello(m_routingTable, hello)[a]
                      \/ /\ protocol = "trust" /\ Distrusted(a)
                         /\ m_routingTable' = UpdateRouteToNeighbor(m_routingTable, a)
                         /\ HasValidRoute(m_routingTable', a)
    OBVIOUS
  <2> DEFINE base == UpdateRouteToNeighbor(m_routingTable, a)
             less == [base EXCEPT ![hello.dst] = NoRoute]
  <2>1. hello \in Incoming(a) /\ hello.dst = a /\ IsHello(hello) /\ a \in Address
    BY AddressAssumption DEF Incoming, Hello, IsHello
  <2>2. base \in Routes /\ m_routingTable \in Routes
    BY Parts, NeighborRoutes
  <2>3. \/ \E routes \in {base, less} : HandleReply(routes, hello, a)
        \/ /\ protocol = "trust" /\ m_routingTable' = base
           /\ HasValidRoute(base, a) /\ ~AboveThreshold(AvgTrustValue(m_trustTable, a))
    BY <2>1, ReplyCases DEF Keep
  <2> HIDE DEF base
  <2>4. CASE \E routes \in {base, less} : HandleReply(routes, hello, a)
    <3>1. PICK routes \in {base, less} : m_routingTable' = ProcessHello(routes, hello)
      BY <2>1, <2>4 DEF HandleReply, RecvReply
    <3>2. routes \in [Address -> Route \cup {NoRoute}]
      BY <2>2 DEF Routes
    <3> QED
      BY <2>1, <2>2, <3>1, <3>2 DEF ProcessHello, Routes
  <2>5. CASE /\ protocol = "trust" /\ m_routingTable' = base
             /\ HasValidRoute(base, a) /\ ~AboveThreshold(AvgTrustValue(m_trustTable, a))
    BY <2>5, EffectiveIsAverage DEF Distrusted, AboveThreshold, HasValidRoute, base
  <2> QED
    BY <2>3, <2>4, <2>5
<1> QED
  BY SpecIInv, <1>1, PTL DEF Spec, HellosRenewUnlessDistrusted

-----------------------------------------------------------------------------
\* Every set of numbers has a least one.
LEMMA LeastNumber ==
  ASSUME NEW S \in SUBSET Nat, S # {}
  PROVE  \E n \in S : \A m \in S : n <= m
<1>1. PICK n \in S : \A m \in S : ~(<<m, n>> \in OpToRel(<, Nat))
  BY NatLessThanWellFounded, WFMin
<1>2. \A m \in S : ~(m < n)
  BY <1>1 DEF OpToRel
<1> QED
  BY <1>2

\* Induction, with the property given as the set of numbers that have it.
LEMMA Induction ==
  ASSUME NEW G \in SUBSET Nat, 0 \in G, \A n \in G : n + 1 \in G
  PROVE  G = Nat
<1> SUFFICES ASSUME Nat \ G # {} PROVE FALSE
  OBVIOUS
<1>1. PICK n \in Nat \ G : \A m \in Nat \ G : n <= m
  <2>1. Nat \ G \in SUBSET Nat
    OBVIOUS
  <2> QED
  BY <2>1, LeastNumber
<1>2. n # 0
  BY <1>1
<1>3. n - 1 \in Nat /\ ~(n <= n - 1)
  BY <1>1, <1>2
<1>4. n - 1 \in G
  BY <1>1, <1>3
<1>5. (n - 1) + 1 \in G
  BY <1>4
<1>6. (n - 1) + 1 = n
  BY <1>1
<1> QED
  BY <1>5, <1>6

\* The values of records, and their sums.
Natural == {p \in Trust : ~Negative(p)}

LEMMA PlusNatural == ASSUME NEW p \in Natural, NEW q \in Natural PROVE Plus(p, q) \in Natural
<1>1. \A a, b, c, d \in Nat : a * b + c * d \in Nat
  OBVIOUS
<1>2. \A a, b \in Nat \ {0} : a * b \in Nat \ {0}
  OBVIOUS
<1>3. /\ p[1] \in Nat /\ q[1] \in Nat
      /\ p[2] \in Nat \ {0} /\ q[2] \in Nat \ {0}
  BY DEF Natural, Trust, Negative
<1>4. p[1] * q[2] + q[1] * p[2] \in Nat /\ p[2] * q[2] \in Nat \ {0}
  BY <1>1, <1>2, <1>3
<1> QED
  BY <1>4 DEF Plus, Natural, Trust, Negative

\* One step of TrustValueSum: the value of one manager and the sum g of the
\* others.
First(S) == CHOOSE m \in S : TRUE
SumFrom(v, g, s) == IF s = {} THEN Zero ELSE Plus(v[First(s)], g[s \ {First(s)}])

\* The others are fewer.
LEMMA Smaller ==
  ASSUME NEW S, IsFiniteSet(S), NEW s \in SUBSET S, s # {}
  PROVE  /\ First(s) \in S
         /\ s \ {First(s)} \in SUBSET S
         /\ Cardinality(s) \in Nat \ {0}
         /\ Cardinality(s \ {First(s)}) = Cardinality(s) - 1
<1>1. First(s) \in s
  BY DEF First
<1>2. IsFiniteSet(s)
  BY FS_Subset
<1> QED
  BY <1>1, <1>2, FS_EmptySet, FS_CardinalityType, FS_RemoveElement

\* There is a function that is the sum of the others plus one value: by
\* induction on the size of the sets it is defined for.
LEMMA SumExists ==
  ASSUME NEW S, IsFiniteSet(S), NEW v \in [S -> Natural]
  PROVE  \E g : g = [s \in SUBSET S |-> SumFrom(v, g, s)]
<1> DEFINE UpTo(n) == {s \in SUBSET S : Cardinality(s) <= n}
           Works(n) == \E g \in [UpTo(n) -> Natural] : \A s \in UpTo(n) : g[s] = SumFrom(v, g, s)
           G == {n \in Nat : Works(n)}
<1>0. Zero \in Natural
  BY DEF Zero, Natural, Trust, Negative
<1>1. 0 \in G
  <2>1. \A s \in UpTo(0) : s = {}
    <3>1. \A s \in SUBSET S : s # {} => Cardinality(s) \in Nat \ {0}
      BY Smaller
    <3> QED
      BY <3>1
  <2> DEFINE g == [s \in UpTo(0) |-> Zero]
  <2>2. g \in [UpTo(0) -> Natural] /\ \A s \in UpTo(0) : g[s] = SumFrom(v, g, s)
    BY <1>0, <2>1 DEF SumFrom
  <2> QED
    BY <2>2
<1>2. ASSUME NEW n \in G PROVE n + 1 \in G
  <2>1. PICK g \in [UpTo(n) -> Natural] : \A s \in UpTo(n) : g[s] = SumFrom(v, g, s)
    BY <1>2
  <2> DEFINE h == [s \in UpTo(n + 1) |-> SumFrom(v, g, s)]
  <2>2. \A s \in UpTo(n + 1) : s # {} => First(s) \in S /\ s \ {First(s)} \in UpTo(n)
    BY <1>2, Smaller
  <2>3. \A s \in UpTo(n) : s \in UpTo(n + 1) /\ h[s] = g[s]
    <3>1. ASSUME NEW s \in UpTo(n) PROVE s \in UpTo(n + 1)
      <4>1. Cardinality(s) \in Nat
        BY FS_Subset, FS_CardinalityType
      <4> QED
        BY <1>2, <4>1
    <3> QED
      BY <2>1, <3>1
  <2>4. h \in [UpTo(n + 1) -> Natural]
    <3>1. ASSUME NEW s \in UpTo(n + 1) PROVE SumFrom(v, g, s) \in Natural
      BY <1>0, <2>1, <2>2, PlusNatural DEF SumFrom
    <3> QED
      BY <3>1
  <2>5. ASSUME NEW s \in UpTo(n + 1) PROVE h[s] = SumFrom(v, h, s)
    <3>1. s # {} => g[s \ {First(s)}] = h[s \ {First(s)}]
      BY <2>2, <2>3
    <3> QED
      BY <3>1 DEF SumFrom
  <2> HIDE DEF h, UpTo
  <2>6. Works(n + 1)
    BY <2>4, <2>5
  <2> QED
    BY <1>2, <2>6
<1>3. G = Nat
  <2> HIDE DEF G
  <2>1. G \in SUBSET Nat
    BY DEF G
  <2> QED
    BY <1>1, <1>2, <2>1, Induction
<1>4. Cardinality(S) \in G
  BY <1>3, FS_CardinalityType
<1>5. UpTo(Cardinality(S)) = SUBSET S
  BY FS_Subset
<1>6. PICK g \in [SUBSET S -> Natural] : \A s \in SUBSET S : g[s] = SumFrom(v, g, s)
  BY <1>4, <1>5
<1>7. g = [s \in SUBSET S |-> SumFrom(v, g, s)]
  BY <1>6
<1> QED
  BY <1>7

\* Such a sum is no negative value.
LEMMA SumType ==
  ASSUME NEW S, IsFiniteSet(S), NEW v \in [S -> Natural],
         NEW g, \A s \in SUBSET S : g[s] = SumFrom(v, g, s)
  PROVE  g[S] \in Natural
<1> DEFINE UpTo(n) == {s \in SUBSET S : Cardinality(s) <= n}
           G == {n \in Nat : \A s \in UpTo(n) : g[s] \in Natural}
<1>0. Zero \in Natural
  BY DEF Zero, Natural, Trust, Negative
<1>1. 0 \in G
  <2>1. \A s \in SUBSET S : s # {} => Cardinality(s) \in Nat \ {0}
    BY Smaller
  <2>2. \A s \in UpTo(0) : s = {}
    BY <2>1
  <2> QED
    BY <1>0, <2>2 DEF SumFrom
<1>2. ASSUME NEW n \in G PROVE n + 1 \in G
  <2>1. ASSUME NEW s \in UpTo(n + 1) PROVE g[s] \in Natural
    <3>1. CASE s = {}
      BY <1>0, <3>1 DEF SumFrom
    <3>2. CASE s # {}
      <4>1. First(s) \in S /\ s \ {First(s)} \in UpTo(n)
        BY <1>2, <3>2, Smaller
      <4>2. v[First(s)] \in Natural /\ g[s \ {First(s)}] \in Natural
        BY <1>2, <4>1
      <4>3. g[s] = Plus(v[First(s)], g[s \ {First(s)}])
        BY <3>2 DEF SumFrom
      <4> QED
        BY <4>2, <4>3, PlusNatural
    <3> QED
      BY <3>1, <3>2
  <2> QED
    BY <1>2, <2>1
<1>3. G = Nat
  <2> HIDE DEF G
  <2>1. G \in SUBSET Nat
    BY DEF G
  <2> QED
    BY <1>1, <1>2, <2>1, Induction
<1>4. Cardinality(S) \in G /\ S \in UpTo(Cardinality(S))
  BY <1>3, FS_CardinalityType
<1> QED
  BY <1>4

\* What TrustValueSum gives for the tables of finitely many managers: a value
\* that is not negative, 0 if there is no record, and that of the one manager
\* if there is but one.
LEMMA SumOf ==
  ASSUME NEW tables \in [Manager -> Records], NEW a \in Address
  PROVE  /\ TrustValueSum(tables, a) \in Natural
         /\ RatedBy(tables, a) = {} => TrustValueSum(tables, a) = Zero
         /\ \A m \in Manager : RatedBy(tables, a) = {m} =>
              TrustValueSum(tables, a) = Plus(tables[m][a].trustValue, Zero)
<1> DEFINE S == RatedBy(tables, a)
           v == [m \in S |-> tables[m][a].trustValue]
           g == CHOOSE g : g = [s \in SUBSET S |-> SumFrom(v, g, s)]
<1>1. S \subseteq Manager /\ IsFiniteSet(S)
  BY FS_Subset, ManagerAssumption DEF RatedBy
<1>2. v \in [S -> Natural]
  BY DEF RatedBy, LookupTrustEntry, Records, Has, TrustEntry, Natural
<1>3. TrustValueSum(tables, a) = g[S]
  BY ZenonT(30) DEF TrustValueSum, MapThenFoldSet, SumFrom, First, LookupTrustEntry
<1>4. g = [s \in SUBSET S |-> SumFrom(v, g, s)]
  <2> HIDE DEF v, S
  <2> QED
    BY <1>1, <1>2, SumExists
<1>5. \A s \in SUBSET S : g[s] = SumFrom(v, g, s)
  <2> HIDE DEF g
  <2> QED
    BY <1>4
<1>6. TrustValueSum(tables, a) \in Natural
  <2> HIDE DEF g, v, S
  <2> QED
    BY <1>1, <1>2, <1>3, <1>5, SumType
<1>7. ASSUME NEW m \in Manager, S = {m}
      PROVE  g[S] = Plus(tables[m][a].trustValue, Zero)
  <2>1. First(S) = m /\ S \ {m} = {}
    BY <1>7 DEF First
  <2>2. v[m] = tables[m][a].trustValue
    BY <1>7
  <2> HIDE DEF g, v, S
  <2>3. g[S] = SumFrom(v, g, S) /\ g[{}] = SumFrom(v, g, {})
    BY <1>5
  <2>4. g[S] = Plus(v[m], g[{}])
    BY <1>7, <2>1, <2>3 DEF SumFrom
  <2> QED
    BY <2>2, <2>3, <2>4 DEF SumFrom
<1>8. ASSUME S = {} PROVE g[S] = Zero
  <2> HIDE DEF g, v, S
  <2> QED
    BY <1>5, <1>8 DEF SumFrom
<1> HIDE DEF g
<1> QED
  BY <1>3, <1>6, <1>7, <1>8

\* An average is not less than itself.
LEMMA AverageIsNumber ==
  ASSUME NEW tables \in [Manager -> Records], NEW a \in Address
  PROVE  ~Less(AvgTrustValue(tables, a), AvgTrustValue(tables, a))
<1> DEFINE n == Cardinality(RatedBy(tables, a))
           sum == TrustValueSum(tables, a)
<1>1. n \in Nat
  <2>1. RatedBy(tables, a) \subseteq Manager
    BY DEF RatedBy
  <2> QED
    BY <2>1, FS_Subset, FS_CardinalityType, ManagerAssumption
<1>2. sum[1] \in Int /\ sum[2] \in Int
  <2>1. sum \in Natural
    BY SumOf
  <2> HIDE DEF sum
  <2> QED
    BY <2>1 DEF Natural, Trust
<1>3. \A x, y, z \in Int : ~(x * (y * z) < x * (y * z))
  OBVIOUS
<1> HIDE DEF n, sum
<1>4. ~Less(DivideBy(sum, n), DivideBy(sum, n))
  BY <1>1, <1>2, <1>3 DEF Less, DivideBy
<1>5. ~Less(Half, Half)
  BY DEF Less, Half
<1> QED
  BY <1>4, <1>5 DEF AvgTrustValue, sum, n

\* A reply writes an older number only into the answer to a search, into a
\* neighbour's own entry, or over a next hop below the threshold.
LEMMA ReplySeqno ==
  ASSUME IInv, NEW sender \in Neighbor, NEW rrep \in Incoming(sender),
         RecvAodv(rrep, sender), NEW d \in Dst \ Neighbor,
         HasRoute(m_routingTable, d), m_routingTable[d].validSeqNo,
         ~Searching(m_routingTable, d),
         Newer(m_routingTable[d].seqno, m_routingTable'[d].seqno)
  PROVE  /\ protocol = "trust"
         /\ Distrusted(m_routingTable[d].nextHop)
         /\ m_routingTable'[d].nextHop # m_routingTable[d].nextHop
<1> DEFINE base == UpdateRouteToNeighbor(m_routingTable, sender)
           less == [base EXCEPT ![rrep.dst] = NoRoute]
           e == m_routingTable[d]
           new == NewEntry(rrep, sender)
<1>1. d \in Address /\ e \in Route
  BY AddressAssumption, Parts DEF Routes, HasRoute
<1>2. base \in Routes /\ LeadsToNeighbor(base) /\ base[d] = e
  BY <1>1, Parts, NeighborRoutes
<1>3. /\ new.seqno = rrep.seqno /\ new.nextHop = sender
      /\ rrep.seqno \in 0 .. SeqnoMod - 1 /\ rrep.dst \in Address
      /\ IsHello(rrep) => rrep.dst \in Neighbor
  BY IncomingFacts DEF NewEntry
<1>4. e.seqno \in 0 .. SeqnoMod - 1
  BY <1>1 DEF Route
<1>5. ~Newer(e.seqno, e.seqno)
  BY <1>4, NewerAsymmetric
<1>6. m_routingTable'[d] # e
  BY <1>5
<1>7. d = rrep.dst /\ ~IsHello(rrep)
  <2>1. CASE m_routingTable' = base
    BY <1>2, <1>6, <2>1
  <2>2. ASSUME NEW routes \in {base, less}, HandleReply(routes, rrep, sender)
        PROVE  d = rrep.dst
    <3>1. routes \in Routes /\ \A a \in Address : a # rrep.dst => routes[a] = base[a]
      BY <1>2, <2>2 DEF Routes
    <3>2. \A a \in Address : a # rrep.dst => RecvReply(routes, rrep, sender)[a] = routes[a]
      BY <1>3, <3>1 DEF RecvReply, ProcessHello, UpdateForwardRoute, Routes
    <3> QED
      BY <1>1, <1>2, <1>6, <2>2, <3>1, <3>2 DEF HandleReply
  <2> QED
    BY <1>3, <2>1, <2>2, ReplyCases DEF Keep
<1>8. ASSUME HandleReply(base, rrep, sender) PROVE FALSE
  <2>1. ~EndsSearch(base, rrep)
    BY <1>2, <1>7 DEF EndsSearch, Searching, HasRoute
  <2>2. m_routingTable' = base \/ (Replaces(new, e) /\ m_routingTable' = [base EXCEPT ![d] = new])
    BY <1>2, <1>7, <1>8, <2>1 DEF HandleReply, RecvReply, UpdateForwardRoute, HasRoute
  <2>3. Replaces(new, e) /\ m_routingTable'[d] = new
    BY <1>1, <1>2, <1>6, <2>2 DEF Routes
  <2>4. Newer(rrep.seqno, e.seqno) \/ rrep.seqno = e.seqno
    BY <1>3, <2>3 DEF Replaces
  <2> QED
    BY <1>3, <1>4, <1>5, <2>3, <2>4, NewerAsymmetric
<1>9. /\ protocol = "trust" /\ HandleReply(less, rrep, sender)
      /\ DiscardOld(AvgTrustValue(m_trustTable, e.nextHop), AvgTrustValue(m_trustTable, sender))
  BY <1>2, <1>6, <1>7, <1>8, ReplyCases DEF Keep
<1>10. m_routingTable'[d].nextHop = sender
  <2> HIDE DEF base
  <2>1. less \in Routes /\ less[d] = NoRoute
    BY <1>1, <1>2, <1>7 DEF Routes
  <2>2. RecvReply(less, rrep, sender) = [less EXCEPT ![d] = new]
    BY <1>7, <2>1 DEF RecvReply, UpdateForwardRoute, HasRoute
  <2> HIDE DEF new, less
  <2> QED
    BY <1>1, <1>3, <1>9, <2>1, <2>2 DEF HandleReply, Routes
<1>11. Distrusted(e.nextHop)
  BY <1>9, EffectiveIsAverage DEF Distrusted, DiscardOld, AboveThreshold
<1>12. sender # e.nextHop
  <2>1. ~Less(AvgTrustValue(m_trustTable, sender), AvgTrustValue(m_trustTable, sender))
    BY AverageIsNumber, AddressAssumption, Parts
  <2> QED
    BY <1>9, <2>1 DEF DiscardOld
<1> QED
  BY <1>9, <1>10, <1>11, <1>12

\* The sequence number of a route goes back only where a search is answered,
\* in a neighbour's own entry, or where trust moves the route elsewhere, for
\* every width of the numbers and every wrap.
THEOREM SeqnosForward == Spec => SeqnosGoForward
<1> DEFINE A == \A d \in Dst :
       /\ HasRoute(m_routingTable, d)  /\ m_routingTable[d].validSeqNo
       /\ HasRoute(m_routingTable', d) /\ m_routingTable'[d].validSeqNo
       /\ Newer(m_routingTable[d].seqno, m_routingTable'[d].seqno)
       => \/ Searching(m_routingTable, d)
          \/ d \in Neighbor
          \/ /\ protocol = "trust"
             /\ Distrusted(m_routingTable[d].nextHop)
             /\ m_routingTable'[d].nextHop # m_routingTable[d].nextHop
<1>1. IInv /\ [Next]_vars => [A]_vars
  <2> SUFFICES ASSUME IInv, Next, NEW d \in Dst \ Neighbor,
                      HasRoute(m_routingTable, d),  m_routingTable[d].validSeqNo,
                      HasRoute(m_routingTable', d), m_routingTable'[d].validSeqNo,
                      Newer(m_routingTable[d].seqno, m_routingTable'[d].seqno),
                      ~Searching(m_routingTable, d)
               PROVE  /\ protocol = "trust"
                      /\ Distrusted(m_routingTable[d].nextHop)
                      /\ m_routingTable'[d].nextHop # m_routingTable[d].nextHop
    OBVIOUS
  <2>1. m_routingTable[d].seqno \in 0 .. SeqnoMod - 1
    BY AddressAssumption, Parts DEF Routes, HasRoute, Route
  <2>2. m_routingTable'[d].seqno # m_routingTable[d].seqno
    BY <2>1, NewerAsymmetric
  <2>3. CASE Other
    BY <2>2, <2>3, OtherSteps DEF Stays
  <2> QED
    BY <2>2, <2>3, ReplySeqno, NextIsReplyOrOther
<1> QED
  BY SpecIInv, <1>1, PTL DEF Spec, SeqnosGoForward
=============================================================================
