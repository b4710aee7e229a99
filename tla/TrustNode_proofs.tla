--------------------------- MODULE TrustNode_proofs --------------------------
(***************************************************************************)
(* The composition of the trust protocol with its managers implements      *)
(* AodvNode: every step is a step of that module, or none, whatever the    *)
(* managers count and purge.  So the theorems of AodvNode_proofs are about *)
(* nodes whose ratings come from SimpleAodvTrustManager.                   *)
(***************************************************************************)
EXTENDS TrustNode, FiniteSetTheorems, TLAPS

\* What the managers' part of the node must be for its steps to be ratings and
\* purges: well-formed counters and records, and records of neighbours only.
ManagersOK ==
  /\ now \in Nat
  /\ protocol = "trust"
  /\ promisc \in [Device -> Manager \cup {NullCallback}]
  /\ m_trustParameters \in [Manager -> [Address -> M!AodvTrustEntry \cup {NoParameters}]]
  /\ m_trustTable \in [Manager -> M!Records]
  /\ \A m \in Manager, a \in Address : M!Has(m_trustTable[m], a) => a \in Neighbor

\* The frame that waits for the callback was heard from a neighbour.
PendingOK ==
  \A frame \in pending :
    /\ frame.device \in Device
    /\ frame.from \in Neighbor
    /\ frame.type \in M!MessageType
    /\ frame.broadcast \in BOOLEAN

IInv == ManagersOK /\ PendingOK

-----------------------------------------------------------------------------
\* Counting keeps the counters within their width and makes the sender known.
LEMMA ObserveType ==
  ASSUME NEW params \in [Address -> M!AodvTrustEntry \cup {NoParameters}],
         NEW a \in Address, NEW t \in M!MessageType, NEW broadcast \in BOOLEAN
  PROVE  /\ M!Observe(params, a, t, broadcast)
              \in [Address -> M!AodvTrustEntry \cup {NoParameters}]
         /\ M!Observe(params, a, t, broadcast)[a] \in M!AodvTrustEntry
<1> DEFINE entry == IF M!Known(params, a) THEN params[a] ELSE [rreq |-> 0, rrep |-> 0]
<1>1. 0 \in M!Counter /\ \A c \in M!Counter : M!Inc(c) \in M!Counter
  BY CounterModAssumption DEF M!Counter, M!Inc
<1>2. entry \in M!AodvTrustEntry
  BY <1>1 DEF M!Known, M!AodvTrustEntry
<1>3. M!Count(entry, t, broadcast) \in M!AodvTrustEntry
  <2> HIDE DEF entry
  <2> QED
    BY <1>1, <1>2 DEF M!Count, M!AodvTrustEntry, M!MessageType
<1>4. M!Observe(params, a, t, broadcast)
        = [params EXCEPT ![a] = M!Count(entry, t, broadcast)]
  BY DEF M!Observe
<1> HIDE DEF entry
<1> QED
  BY <1>3, <1>4

\* The rating of a known sender is one that AodvNode allows.
LEMMA RatingType ==
  ASSUME NEW params \in [Address -> M!AodvTrustEntry \cup {NoParameters}],
         NEW a \in Address, params[a] \in M!AodvTrustEntry
  PROVE  /\ M!CalculateTrust(params, a) \in Ratings
         /\ M!CalculateTrust(params, a) \in M!Trust
         /\ ~M!Negative(M!CalculateTrust(params, a))
<1>1. M!Known(params, a)
  BY NoParametersAssumption DEF M!Known
<1>2. params[a].rreq \in M!Counter /\ params[a].rrep \in M!Counter
  BY DEF M!AodvTrustEntry
<1>3. CASE params[a].rreq = 0
  <2>1. M!CalculateTrust(params, a) = M!Half
    BY <1>1, <1>3 DEF M!CalculateTrust
  <2> QED
    BY <2>1 DEF Ratings, M!Half, M!Trust, M!Negative
<1>4. CASE params[a].rreq # 0
  <2>1. M!CalculateTrust(params, a) = <<params[a].rrep, params[a].rreq + params[a].rrep>>
    BY <1>1, <1>4 DEF M!CalculateTrust
  <2>2. M!CalculateTrust(params, a) \in Ratings
    BY <1>2, <1>4, <2>1 DEF Ratings
  <2>3. params[a].rreq \in Nat /\ params[a].rrep \in Nat
    BY <1>2, CounterModAssumption DEF M!Counter
  <2> QED
    BY <1>4, <2>1, <2>2, <2>3 DEF M!Trust, M!Negative
<1> QED
  BY <1>3, <1>4

\* A purge leaves a map whose records are records of the old one.
LEMMA PurgeResult ==
  ASSUME NEW recs \in M!Records, NEW t \in Nat, NEW new \in M!LeftByPurge(recs, t)
  PROVE  /\ new \in M!Records
         /\ \A a \in Address : M!Has(new, a) => new[a] = recs[a]
<1>1. CASE M!PurgeReturnsFrom(recs, t)
  BY <1>1 DEF M!LeftByPurge, M!NoRecords, M!Records, M!Has
<1>2. CASE ~M!PurgeReturnsFrom(recs, t)
  <2>1. PICK erased \in SUBSET Address :
          new = [a \in Address |-> IF a \in erased THEN NoEntry ELSE recs[a]]
    BY <1>2 DEF M!LeftByPurge
  <2> QED
    BY <2>1 DEF M!Records, M!Has
<1> QED
  BY <1>1, <1>2

-----------------------------------------------------------------------------
\* What Untimed makes of one table.
Strip(recs) ==
  [a \in Address |-> IF M!Has(recs, a) THEN [recs[a] EXCEPT !.timestamp = 0] ELSE NoEntry]

LEMMA UntimedStrips == Untimed = [m \in Manager |-> Strip(m_trustTable[m])]
BY DEF Untimed, Strip

\* A table without its times has the same addresses.
LEMMA StripHas ==
  ASSUME NEW recs \in M!Records, NEW a \in Address
  PROVE  M!Has(Strip(recs), a) <=> M!Has(recs, a)
<1>1. CASE M!Has(recs, a)
  <2>1. recs[a] \in M!TrustEntry
    BY <1>1 DEF M!Records, M!Has
  <2>2. Strip(recs)[a] \in M!TrustEntry
    BY <1>1, <2>1 DEF Strip, M!TrustEntry
  <2> QED
    BY <1>1, <2>2, NoEntryAssumption DEF M!Has
<1>2. CASE ~M!Has(recs, a)
  BY <1>2 DEF Strip, M!Has
<1> QED
  BY <1>1, <1>2

\* To store a rating and to forget its time is to store it at time 0.
LEMMA StripStore ==
  ASSUME NEW recs \in M!Records, NEW a \in Address, NEW v \in M!Trust,
         ~M!Negative(v), NEW t \in Nat
  PROVE  Strip(M!Store(recs, a, v, t)) = M!Store(Strip(recs), a, v, 0)
<1> DEFINE entry == [trustValue |-> v, timestamp |-> t]
           new   == M!Store(recs, a, v, t)
<1>1. entry \in M!TrustEntry
  BY DEF M!TrustEntry
<1>2. /\ new[a] = entry
      /\ \A b \in Address : b # a => new[b] = recs[b]
  BY DEF M!Store, M!Records
<1>3. Strip(new)[a] = [trustValue |-> v, timestamp |-> 0]
  <2>1. M!Has(new, a)
    BY <1>1, <1>2, NoEntryAssumption DEF M!Has
  <2>2. Strip(new)[a] = [new[a] EXCEPT !.timestamp = 0]
    BY <2>1 DEF Strip
  <2> QED
    BY <1>2, <2>2
<1>4. \A b \in Address : b # a => Strip(new)[b] = Strip(recs)[b]
  BY <1>2 DEF Strip, M!Has
<1>5. Strip(new) = [b \in Address |-> Strip(new)[b]]
  BY DEF Strip
<1>6. M!Store(Strip(recs), a, v, 0)
        = [b \in Address |-> IF b = a THEN [trustValue |-> v, timestamp |-> 0]
                             ELSE Strip(recs)[b]]
  BY DEF M!Store, Strip
<1> HIDE DEF new
<1> QED
  BY <1>3, <1>4, <1>5, <1>6 DEF new

\* With a value that is not negative AddOrUpdateTrustTableEntry always writes.
LEMMA PutResult ==
  ASSUME NEW recs, NEW a, NEW v, ~M!Negative(v), NEW t
  PROVE  M!AddOrUpdateTrustTableEntry(recs, a, v, t) = M!Store(recs, a, v, t)
BY DEF M!AddOrUpdateTrustTableEntry, M!AddRecord, M!UpdateRecord

\* A table with fewer records, without its times, is the old one without them
\* for the neighbours that were kept.
LEMMA StripFewer ==
  ASSUME NEW recs \in M!Records, NEW new \in M!Records,
         \A a \in Address : M!Has(new, a) => new[a] = recs[a],
         \A a \in Address : M!Has(recs, a) => a \in Neighbor
  PROVE  \E kept \in SUBSET Neighbor :
           Strip(new) = [a \in Address |-> IF a \in kept THEN Strip(recs)[a] ELSE NoEntry]
<1> DEFINE kept == {a \in Address : M!Has(new, a)}
<1>1. kept \subseteq Neighbor
  BY DEF M!Has
<1>2. \A a \in Address :
        Strip(new)[a] = IF a \in kept THEN Strip(recs)[a] ELSE NoEntry
  BY DEF Strip, M!Has
<1>3. Strip(new) = [a \in Address |-> Strip(new)[a]]
  BY DEF Strip
<1> HIDE DEF kept
<1>4. Strip(new) = [a \in Address |-> IF a \in kept THEN Strip(recs)[a] ELSE NoEntry]
  BY <1>2, <1>3
<1> QED
  BY <1>1, <1>4

-----------------------------------------------------------------------------
\* A manager whose table loses records, or none, forgets them.
LEMMA PurgeIsForget ==
  ASSUME ManagersOK, NEW m \in Manager, NEW new \in M!Records,
         \A a \in Address : M!Has(new, a) => new[a] = m_trustTable[m][a],
         m_trustTable' = [m_trustTable EXCEPT ![m] = new],
         N!Quiet, UNCHANGED <<m_routingTable, m_addressReqTimer>>
  PROVE  N!Next
<1>1. m_trustTable[m] \in M!Records /\ m_trustTable \in [Manager -> M!Records]
  BY DEF ManagersOK
<1>2. PICK kept \in SUBSET Neighbor :
        Strip(new) = [a \in Address |-> IF a \in kept THEN Strip(m_trustTable[m])[a] ELSE NoEntry]
  BY <1>1, StripFewer DEF ManagersOK
<1>3. Untimed' = [Untimed EXCEPT ![m] =
                    [a \in Address |-> IF a \in kept THEN Untimed[m][a] ELSE NoEntry]]
  <2>1. Untimed' = [n \in Manager |-> Strip(m_trustTable'[n])]
    BY DEF Untimed, Strip
  <2>2. \A n \in Manager : n # m => m_trustTable'[n] = m_trustTable[n]
    BY <1>1
  <2>3. m_trustTable'[m] = new
    BY <1>1
  <2>4. Untimed[m] = Strip(m_trustTable[m])
    BY UntimedStrips
  <2> QED
    BY <1>2, <2>1, <2>2, <2>3, <2>4, UntimedStrips
<1>4. N!Forget(m, kept)
  BY <1>3 DEF N!Forget, N!Quiet, ManagersOK
<1> QED
  BY <1>4 DEF N!Next

\* A step that leaves routes and ratings alone forgets nothing.
LEMMA QuietStep ==
  ASSUME ManagersOK, N!Quiet, UNCHANGED <<m_trustTable, m_routingTable, m_addressReqTimer>>
  PROVE  N!Next
<1>1. PICK m \in Manager : TRUE
  BY ManagerAssumption
<1>2. m_trustTable' = [m_trustTable EXCEPT ![m] = m_trustTable[m]] /\ m_trustTable[m] \in M!Records
  BY DEF ManagersOK
<1> QED
  BY <1>2, PurgeIsForget

-----------------------------------------------------------------------------
\* What the callback does to the one table that changes.
LEMMA CallbackResult ==
  ASSUME ManagersOK, NEW d \in Device, NEW a \in Neighbor, NEW t \in M!MessageType,
         NEW broadcast \in BOOLEAN,
         M!OnReceivePromiscuousCallback(d, a, t, broadcast)
  PROVE  \E m \in Manager, v \in Ratings :
           /\ v \in M!Trust /\ ~M!Negative(v)
           /\ m_trustTable' = [m_trustTable EXCEPT ![m] =
                                  M!Store(m_trustTable[m], a, v, now)]
           /\ m_trustParameters'
                \in [Manager -> [Address -> M!AodvTrustEntry \cup {NoParameters}]]
<1> DEFINE m      == promisc[d]
           params == M!Observe(m_trustParameters[m], a, t, broadcast)
           v      == M!CalculateTrust(params, a)
<1>1. m \in Manager /\ a \in Address
  BY AddressAssumption DEF M!OnReceivePromiscuousCallback, ManagersOK
<1>2. /\ params \in [Address -> M!AodvTrustEntry \cup {NoParameters}]
      /\ params[a] \in M!AodvTrustEntry
  <2>1. m_trustParameters[m] \in [Address -> M!AodvTrustEntry \cup {NoParameters}]
    BY <1>1 DEF ManagersOK
  <2> HIDE DEF m
  <2> QED
    BY <1>1, <2>1, ObserveType
<1>3. m_trustParameters' = [m_trustParameters EXCEPT ![m] = params]
  BY DEF M!OnReceivePromiscuousCallback
<1>4. m_trustParameters'[m] = params
  BY <1>1, <1>3 DEF ManagersOK
<1>5. v \in Ratings /\ v \in M!Trust /\ ~M!Negative(v)
  <2> HIDE DEF params
  <2> QED
    BY <1>1, <1>2, RatingType
<1>6. m_trustTable' = [m_trustTable EXCEPT ![m] = M!Store(m_trustTable[m], a, v, now)]
  <2>1. m_trustTable' = [m_trustTable EXCEPT ![m] =
           M!AddOrUpdateTrustTableEntry(m_trustTable[m], a, v, now)]
    BY <1>4 DEF M!OnReceivePromiscuousCallback
  <2> HIDE DEF v
  <2> QED
    BY <1>5, <2>1, PutResult
<1>7. m_trustParameters'
        \in [Manager -> [Address -> M!AodvTrustEntry \cup {NoParameters}]]
  <2> HIDE DEF params, m
  <2> QED
    BY <1>1, <1>2, <1>3 DEF ManagersOK
<1> HIDE DEF v, m
<1> QED
  BY <1>1, <1>5, <1>6, <1>7

\* The callback rates.
LEMMA PromiscuousStep == ASSUME IInv, Promiscuous PROVE IInv' /\ N!Next
<1>1. PICK frame \in pending :
        /\ M!OnReceivePromiscuousCallback(frame.device, frame.from, frame.type,
                                          frame.broadcast)
        /\ pending' = {}
        /\ N!Quiet
        /\ UNCHANGED <<m_routingTable, m_addressReqTimer>>
  BY DEF Promiscuous
<1> DEFINE a == frame.from
<1>2. /\ frame.device \in Device /\ a \in Neighbor
      /\ frame.type \in M!MessageType /\ frame.broadcast \in BOOLEAN
  BY DEF IInv, PendingOK
<1>3. PICK m \in Manager, v \in Ratings :
        /\ v \in M!Trust /\ ~M!Negative(v)
        /\ m_trustTable' = [m_trustTable EXCEPT ![m] = M!Store(m_trustTable[m], a, v, now)]
        /\ m_trustParameters'
             \in [Manager -> [Address -> M!AodvTrustEntry \cup {NoParameters}]]
  BY <1>1, <1>2, CallbackResult DEF IInv
<1>4. /\ now \in Nat /\ a \in Address /\ protocol = "trust"
      /\ m_trustTable \in [Manager -> M!Records] /\ m_trustTable[m] \in M!Records
      /\ UNCHANGED <<now, promisc, protocol>>
  BY <1>1, <1>2, AddressAssumption
  DEF IInv, ManagersOK, M!OnReceivePromiscuousCallback, N!Quiet
<1> HIDE DEF a
<1> DEFINE new == M!Store(m_trustTable[m], a, v, now)
<1>5. /\ new \in M!Records
      /\ \A b \in Address : M!Has(new, b) => b = a \/ M!Has(m_trustTable[m], b)
  <2>1. [trustValue |-> v, timestamp |-> now] \in M!TrustEntry
    BY <1>3, <1>4 DEF M!TrustEntry
  <2> QED
    BY <1>4, <2>1 DEF M!Store, M!Records, M!Has
<1>6. Untimed' = [Untimed EXCEPT ![m] = M!Store(Untimed[m], a, v, 0)]
  <2>1. Strip(new) = M!Store(Strip(m_trustTable[m]), a, v, 0)
    BY <1>3, <1>4, StripStore
  <2>2. Untimed' = [n \in Manager |-> Strip(m_trustTable'[n])]
    BY DEF Untimed, Strip
  <2> HIDE DEF new
  <2>3. m_trustTable'[m] = new /\ \A n \in Manager : n # m => m_trustTable'[n] = m_trustTable[n]
    BY <1>3, <1>4 DEF new
  <2>4. Untimed[m] = Strip(m_trustTable[m])
    BY UntimedStrips
  <2> QED
    BY <2>1, <2>2, <2>3, <2>4, UntimedStrips
<1>7. N!Next
  <2>1. N!AddOrUpdateTrustTableEntry(Untimed[m], a, v, 0) = M!Store(Untimed[m], a, v, 0)
    BY <1>3 DEF N!AddOrUpdateTrustTableEntry, N!AddRecord, N!UpdateRecord, N!Store,
                N!Negative, N!Has, M!Negative, M!Store
  <2>2. N!Rate(m, a, v)
    BY <1>1, <1>4, <1>6, <2>1 DEF N!Rate
  <2> QED
    BY <1>2, <2>2 DEF N!Next, a
<1>8. IInv'
  <2>1. m_trustTable' \in [Manager -> M!Records]
    BY <1>3, <1>4, <1>5
  <2>2. \A n \in Manager, b \in Address : M!Has(m_trustTable'[n], b) => b \in Neighbor
    BY <1>2, <1>3, <1>4, <1>5 DEF IInv, ManagersOK, a
  <2> QED
    BY <1>1, <1>3, <1>4, <2>1, <2>2 DEF IInv, ManagersOK, PendingOK, M!Has
<1> QED
  BY <1>7, <1>8

\* A start or a stop purges, and forgets what the purge removes.
LEMMA SwitchStep ==
  ASSUME IInv, NEW m \in Manager,
         BetweenFrames(M!StartApplication(m)) \/ BetweenFrames(M!StopApplication(m))
  PROVE  IInv' /\ N!Next
<1>1. /\ N!Quiet /\ UNCHANGED <<m_routingTable, m_addressReqTimer, pending>>
      /\ M!StartApplication(m) \/ M!StopApplication(m)
  BY DEF BetweenFrames
<1>2. PICK cb \in Manager \cup {NullCallback} : M!SetCallbackAndPurge(m, cb)
  BY <1>1 DEF M!StartApplication, M!StopApplication
<1>3. UNCHANGED <<now, m_trustParameters, protocol>>
  BY <1>1 DEF M!StartApplication, M!StopApplication, N!Quiet
<1>4. now \in Nat /\ m_trustTable[m] \in M!Records /\ m_trustTable \in [Manager -> M!Records]
  BY DEF IInv, ManagersOK
<1>5. PICK new \in M!LeftByPurge(m_trustTable[m], now) :
        m_trustTable' = [m_trustTable EXCEPT ![m] = new]
  BY <1>2 DEF M!SetCallbackAndPurge
<1>6. /\ new \in M!Records
      /\ \A a \in Address : M!Has(new, a) => new[a] = m_trustTable[m][a]
  BY <1>4, PurgeResult
<1>7. N!Next
  BY <1>1, <1>5, <1>6, PurgeIsForget DEF IInv
<1>8. promisc' \in [Device -> Manager \cup {NullCallback}]
  BY <1>2 DEF M!SetCallbackAndPurge, IInv, ManagersOK
<1>9. m_trustTable' \in [Manager -> M!Records]
  BY <1>4, <1>5, <1>6
<1>10. \A n \in Manager, b \in Address : M!Has(m_trustTable'[n], b) => b \in Neighbor
  BY <1>4, <1>5, <1>6 DEF IInv, ManagersOK, M!Has
<1> QED
  BY <1>1, <1>3, <1>7, <1>8, <1>9, <1>10 DEF IInv, ManagersOK, PendingOK, M!Has

\* The clock ticks, and the node does nothing.
LEMMA TickStep == ASSUME IInv, BetweenFrames(M!Tick) PROVE IInv' /\ N!Next
<1>1. /\ N!Quiet /\ UNCHANGED <<m_routingTable, m_addressReqTimer, pending>>
      /\ now' = now + 1 /\ UNCHANGED <<promisc, m_trustParameters, m_trustTable>>
  BY DEF BetweenFrames, M!Tick
<1>2. N!Next
  BY <1>1, QuietStep DEF IInv
<1> QED
  BY <1>1, <1>2 DEF IInv, ManagersOK, PendingOK, M!Has, N!Quiet

\* A step that leaves the managers alone keeps what they are.
LEMMA ManagersStay ==
  ASSUME ManagersOK, UNCHANGED <<managerVars, m_trustTable, protocol>>
  PROVE  ManagersOK'
BY DEF ManagersOK, managerVars, M!Has

\* A frame that a device shows to its callback was heard from a neighbour.
LEMMA ShownFrame ==
  ASSUME NEW d \in Device, NEW a \in Neighbor,
         NEW t \in M!MessageType \cup {"unknown"}, NEW broadcast \in BOOLEAN,
         Show(Frame(d, a, t, broadcast))
  PROVE  PendingOK'
<1> DEFINE frame == Frame(d, a, t, broadcast)
<1>1. /\ frame.device = d /\ frame.from = a /\ frame.broadcast = broadcast
      /\ frame.type \in M!MessageType
  BY DEF Frame, M!MessageType
<1>2. pending' \subseteq {frame}
  BY DEF Show
<1> HIDE DEF frame
<1> QED
  BY <1>1, <1>2 DEF PendingOK

\* A message for the node is AodvNode's RecvAodv.
LEMMA ReceiveStep ==
  ASSUME IInv, NEW d \in Device, NEW sender \in Neighbor, NEW msg \in N!Message(sender),
         Receive(d, sender, msg)
  PROVE  IInv' /\ N!Next
<1>1. N!RecvAodv(msg, sender) /\ UNCHANGED <<managerVars, m_trustTable>>
  BY DEF Receive
<1>2. N!Next
  BY <1>1 DEF N!Next
<1>3. ManagersOK'
  BY <1>1, ManagersStay DEF IInv, N!RecvAodv
<1>4. PICK broadcast \in Broadcast(msg) : Show(Frame(d, sender, msg.type, broadcast))
  BY DEF Receive
<1>5. msg.type \in M!MessageType \cup {"unknown"}
  BY DEF N!Message, N!Rrep, N!Hello, N!Rreq, N!Rerr, M!MessageType
<1>6. broadcast \in BOOLEAN
  <2>1. N!IsHello(msg) \in BOOLEAN
    BY DEF N!IsHello
  <2>2. Broadcast(msg) \subseteq BOOLEAN
    BY <2>1, Zenon DEF Broadcast
  <2> QED
    BY <2>2
<1>7. PendingOK'
  BY <1>4, <1>5, <1>6, ShownFrame
<1> QED
  BY <1>2, <1>3, <1>7 DEF IInv

\* A message for somebody else does nothing to the node, yet.
LEMMA OverhearStep ==
  ASSUME IInv, NEW d \in Device, NEW sender \in Neighbor,
         NEW t \in {"RREP", "RERR", "RREP_ACK"}, Overhear(d, sender, t)
  PROVE  IInv' /\ N!Next
<1>1. /\ Show(Frame(d, sender, t, FALSE)) /\ N!Quiet
      /\ UNCHANGED <<managerVars, m_trustTable, m_routingTable, m_addressReqTimer>>
  BY DEF Overhear
<1>2. N!Next
  BY <1>1, QuietStep DEF IInv
<1>3. ManagersOK'
  BY <1>1, ManagersStay DEF IInv, N!Quiet
<1>4. PendingOK'
  BY <1>1, ShownFrame DEF M!MessageType
<1> QED
  BY <1>2, <1>3, <1>4 DEF IInv

\* What ns-3's part of the node does, AodvNode does.
LEMMA NodeStep ==
  ASSUME IInv,
         \/ \E dst \in Dst \cup {Self} : OfNode(N!RouteInput(dst))
         \/ \E d \in Dst \cup RemoteOrigin :
              OfNode(N!SendRequest(d)) \/ OfNode(N!RouteRequestTimerExpire(d))
         \/ \E d \in Address : OfNode(N!Expire(d)) \/ OfNode(N!PurgeRoute(d))
  PROVE  IInv' /\ N!Next
<1>1. UNCHANGED <<managerVars, m_trustTable, pending>>
  BY DEF OfNode
<1>2. N!Next
  BY DEF OfNode, N!Next
<1>3. UNCHANGED protocol
  BY DEF OfNode, N!RouteInput, N!SendRequest, N!RouteRequestTimerExpire, N!Expire,
         N!PurgeRoute, N!Quiet
<1> QED
  BY <1>1, <1>2, <1>3, ManagersStay DEF IInv, PendingOK

-----------------------------------------------------------------------------
LEMMA InitIInv == Init => IInv
<1> SUFFICES ASSUME Init PROVE IInv
  OBVIOUS
<1>1. ManagersOK
  BY DEF Init, M!Init, N!Init, ManagersOK, M!NoRecords, M!Records, M!Has
<1> QED
  BY <1>1 DEF Init, IInv, PendingOK

LEMMA NextIInv == IInv /\ [Next]_vars => IInv' /\ [N!Next]_(N!vars)
<1> SUFFICES ASSUME IInv, [Next]_vars PROVE IInv' /\ [N!Next]_(N!vars)
  OBVIOUS
<1>1. CASE UNCHANGED vars
  <2>1. UNCHANGED <<managerVars, m_trustTable, nodeVars, pending>>
    BY <1>1 DEF vars
  <2>2. UNCHANGED <<protocol, m_routingTable, m_addressReqTimer, ipForward, sent, data>>
    BY <2>1 DEF nodeVars
  <2>3. IInv'
    BY <2>1, <2>2, ManagersStay DEF IInv, PendingOK
  <2>4. UNCHANGED Untimed
    BY <2>1 DEF Untimed
  <2> QED
    BY <2>2, <2>3, <2>4 DEF N!vars
<1>2. CASE Next
  <2>1. CASE \E d \in Device, sender \in Neighbor : \E msg \in N!Message(sender) :
               Receive(d, sender, msg)
    BY <2>1, ReceiveStep
  <2>2. CASE \E d \in Device, sender \in Neighbor, t \in {"RREP", "RERR", "RREP_ACK"} :
               Overhear(d, sender, t)
    BY <2>2, OverhearStep
  <2>3. CASE Promiscuous
    BY <2>3, PromiscuousStep
  <2>4. CASE \E m \in Manager :
               BetweenFrames(M!StartApplication(m)) \/ BetweenFrames(M!StopApplication(m))
    BY <2>4, SwitchStep
  <2>5. CASE BetweenFrames(M!Tick)
    BY <2>5, TickStep
  <2>6. CASE \/ \E dst \in Dst \cup {Self} : OfNode(N!RouteInput(dst))
             \/ \E d \in Dst \cup RemoteOrigin :
                  OfNode(N!SendRequest(d)) \/ OfNode(N!RouteRequestTimerExpire(d))
             \/ \E d \in Address : OfNode(N!Expire(d)) \/ OfNode(N!PurgeRoute(d))
    BY <2>6, NodeStep
  <2>7. CASE M!Spin /\ UNCHANGED vars
    BY <1>1, <2>7
  <2> QED
    BY <1>2, <2>1, <2>2, <2>3, <2>4, <2>5, <2>6, <2>7 DEF Next
<1> QED
  BY <1>1, <1>2

\* A trust node with its managers behaves as AodvNode says, for every number
\* of managers, devices, neighbours and destinations and every width of the
\* counters: what the managers do to their tables is to rate neighbours with
\* ratings that AodvNode allows, and to forget, and nothing but the node's own
\* messages, packets and timers touches a route.
THEOREM Implements == Spec => ImplementsAodvNode
<1>1. Init => N!Init
  BY DEF Init
<1> QED
  BY <1>1, InitIInv, NextIInv, PTL DEF Spec, ImplementsAodvNode, N!Spec

-----------------------------------------------------------------------------
\* The theorems about AodvNode and about SimpleAodvTrustManager, for this node.
P == INSTANCE AodvNode_proofs
       WITH Protocol <- {"trust"}, Rating <- Ratings, m_trustTable <- Untimed
Q == INSTANCE SimpleAodvTrustManager_proofs

\* What AodvNode_proofs assumes of its constants.
LEMMA NodeConstants ==
  /\ {"trust"} \subseteq {"trust", "selfish", "malicious"}
  /\ P!IsFiniteSet(Manager)
  /\ SeqnoMod \in Nat \ {0} /\ HopMod \in Nat \ {0, 1} /\ LifeTime \in Nat
  /\ NoEntry \notin P!TrustEntry /\ NoRoute \notin P!Route
  /\ Neighbor \cup Dst \cup RemoteOrigin \subseteq Address \ {Self, Nowhere}
  /\ Seqno \cup HelloSeqno \cup RreqSeqno \subseteq 0 .. SeqnoMod - 1
  /\ Hop \cup RreqHop \subseteq 0 .. HopMod - 1
  /\ Ttl \subseteq Nat
  /\ Ratings \subseteq {p \in P!Trust : ~P!Negative(p)}
<1>1. NoEntry \notin P!TrustEntry
  BY NoEntryAssumption
  DEF P!TrustEntry, P!Trust, P!Negative, M!TrustEntry, M!Trust, M!Negative
<1>2. NoRoute \notin P!Route
  BY NoRouteAssumption DEF N!Route, P!Route
<1>3. \A p \in M!Counter, q \in M!Counter \ {0} : p \in Nat /\ q + p \in Nat \ {0}
  BY CounterModAssumption DEF M!Counter
<1>4. Ratings \subseteq {p \in P!Trust : ~P!Negative(p)}
  BY <1>3 DEF Ratings, M!Half, P!Trust, P!Negative
<1>5. P!IsFiniteSet(Manager)
  BY ManagerAssumption DEF P!IsFiniteSet, IsFiniteSet
<1> QED
  BY <1>1, <1>2, <1>4, <1>5, SeqnoModAssumption, HopModAssumption,
     TimeAssumption, AddressAssumption, MessageAssumption

\* What SimpleAodvTrustManager_proofs assumes.
LEMMA ManagerConstants ==
  /\ FirstDevice \in Device /\ NullCallback \notin Manager
  /\ CounterMod \in Nat \ {0} /\ MaxTime \in Nat /\ LifeTime \in Nat
  /\ NoParameters \notin Q!AodvTrustEntry /\ NoEntry \notin Q!TrustEntry
<1>1. NoParameters \notin Q!AodvTrustEntry
  BY NoParametersAssumption DEF M!AodvTrustEntry, Q!AodvTrustEntry, M!Counter, Q!Counter
<1>2. NoEntry \notin Q!TrustEntry
  BY NoEntryAssumption
  DEF Q!TrustEntry, Q!Trust, Q!Negative, M!TrustEntry, M!Trust, M!Negative
<1> QED
  BY <1>1, <1>2, DeviceAssumption, CallbackAssumption, CounterModAssumption, TimeAssumption

-----------------------------------------------------------------------------
\* The instances of AodvNode in TrustNode and in its theorems are one module.
LEMMA SameReceive ==
  ASSUME NEW msg, NEW sender
  PROVE  N!RecvAodv(msg, sender) <=> P!RecvAodv(msg, sender)
BY DEF N!Keep, P!Keep, N!HandleReply, P!HandleReply, N!SendOn, P!SendOn,
       N!MaliciousRecvReply, P!MaliciousRecvReply, N!SelfishRecvReply,
       P!SelfishRecvReply, N!TrustRecvReply, P!TrustRecvReply, N!RecvOther,
       P!RecvOther, N!TrustRecvAodv, P!TrustRecvAodv, N!MaliciousRecvAodv,
       P!MaliciousRecvAodv, N!SelfishRecvAodv, P!SelfishRecvAodv, N!RecvAodv,
       P!RecvAodv,
       N!Newer, P!Newer, N!HasRoute, P!HasRoute, N!HasValidRoute,
       P!HasValidRoute, N!Searching, P!Searching, N!NextHopCount,
       P!NextHopCount, N!NewEntry, P!NewEntry, N!Replaces, P!Replaces,
       N!UpdateForwardRoute, P!UpdateForwardRoute, N!IsHello, P!IsHello,
       N!IsOwn, P!IsOwn, N!EndsSearch, P!EndsSearch, N!ProcessHello,
       P!ProcessHello, N!RecvReply, P!RecvReply, N!Travels, P!Travels,
       N!Onward, P!Onward, N!NeighborRoute, P!NeighborRoute,
       N!UpdateRouteToNeighbor, P!UpdateRouteToNeighbor, N!RecvRequest,
       P!RecvRequest, N!RecvError, P!RecvError, N!RecvReplyAck, P!RecvReplyAck,
       N!RatedBy, P!RatedBy, N!TrustValueSum, P!TrustValueSum,
       N!MapThenFoldSet, P!MapThenFoldSet, N!Cardinality, P!Cardinality,
       N!AvgTrustValue, P!AvgTrustValue, N!AboveThreshold, P!AboveThreshold,
       N!LetHopsDecide, P!LetHopsDecide, N!DiscardOld, P!DiscardOld,
       N!Less, P!Less, N!Half, P!Half, N!Zero, P!Zero, N!Negative, P!Negative,
       N!Plus, P!Plus, N!DivideBy, P!DivideBy, N!Has, P!Has,
       N!LookupTrustEntry, P!LookupTrustEntry

LEMMA SameAskedBy == \A d : N!AskedBy(d) <=> P!AskedBy(d)
BY SameReceive DEF N!AskedBy, P!AskedBy, N!Rreq, P!Rreq

LEMMA SameMessages == \A sender : N!Message(sender) = P!Message(sender)
BY DEF N!Message, P!Message, N!Rrep, P!Rrep, N!Hello, P!Hello, N!Rreq, P!Rreq, N!Rerr, P!Rerr

\* The other steps.
LEMMA SameOther ==
  /\ \A dst : N!RouteInput(dst) <=> P!RouteInput(dst)
  /\ \A d : N!SendRequest(d) <=> P!SendRequest(d)
  /\ \A d : N!RouteRequestTimerExpire(d) <=> P!RouteRequestTimerExpire(d)
  /\ \A d : (N!Expire(d) <=> P!Expire(d)) /\ (N!PurgeRoute(d) <=> P!PurgeRoute(d))
  /\ \A m, a, v : N!Rate(m, a, v) <=> P!Rate(m, a, v)
  /\ \A m, kept : N!Forget(m, kept) <=> P!Forget(m, kept)
BY DEF N!RouteInput, P!RouteInput, N!SendRequest, P!SendRequest,
       N!RouteRequestTimerExpire, P!RouteRequestTimerExpire, N!Expire,
       P!Expire, N!PurgeRoute, P!PurgeRoute, N!Rate, P!Rate, N!Forget,
       P!Forget, N!Quiet, P!Quiet, N!HasRoute, P!HasRoute, N!HasValidRoute,
       P!HasValidRoute, N!Searching, P!Searching, N!Has, P!Has,
       N!LookupTrustEntry, P!LookupTrustEntry, N!Store, P!Store, N!AddRecord,
       P!AddRecord, N!UpdateRecord, P!UpdateRecord,
       N!AddOrUpdateTrustTableEntry, P!AddOrUpdateTrustTableEntry, N!Negative,
       P!Negative

LEMMA SameSpec == N!Spec <=> P!Spec
<1>1. N!Init <=> P!Init
  BY DEF N!Init, P!Init, N!NoRecords, P!NoRecords
<1>2. N!Next <=> P!Next
  BY SameReceive, SameMessages, SameOther DEF N!Next, P!Next
<1>3. [N!Next]_(N!vars) <=> [P!Next]_(P!vars)
  BY <1>2 DEF N!vars, P!vars
<1> QED
  BY <1>1, <1>3, PTL DEF N!Spec, P!Spec

\* So are those of SimpleAodvTrustManager.
LEMMA SameManagers ==
  /\ M!Init <=> Q!Init
  /\ [M!Next]_(M!vars) <=> [Q!Next]_(Q!vars)
BY DEF M!Init, Q!Init, M!Next, Q!Next, M!vars, Q!vars, M!StartApplication,
       Q!StartApplication, M!StopApplication, Q!StopApplication,
       M!SetCallbackAndPurge, Q!SetCallbackAndPurge, M!PurgeReturnsFrom,
       Q!PurgeReturnsFrom, M!LeftByPurge, Q!LeftByPurge, M!LiveAddresses,
       Q!LiveAddresses, M!Outdated, Q!Outdated, M!NoRecords, Q!NoRecords,
       M!OnReceivePromiscuousCallback, Q!OnReceivePromiscuousCallback,
       M!Observe, Q!Observe, M!Count, Q!Count, M!Inc, Q!Inc, M!Known, Q!Known,
       M!CalculateTrust, Q!CalculateTrust, M!AddOrUpdateTrustTableEntry,
       Q!AddOrUpdateTrustTableEntry, M!AddRecord, Q!AddRecord, M!UpdateRecord,
       Q!UpdateRecord, M!Store, Q!Store, M!Has, Q!Has, M!Negative, Q!Negative,
       M!Zero, Q!Zero, M!Half, Q!Half, M!MessageType, Q!MessageType, M!Tick,
       Q!Tick, M!Spin, Q!Spin

\* What the node does to its managers, they do themselves.
LEMMA ManagersNext == IInv /\ [Next]_vars => [M!Next]_(M!vars)
<1> SUFFICES ASSUME IInv, [Next]_vars PROVE [M!Next]_(M!vars)
  OBVIOUS
<1>1. CASE UNCHANGED <<managerVars, m_trustTable>>
  BY <1>1 DEF managerVars, M!vars
<1>2. CASE Promiscuous
  BY <1>2, AddressAssumption DEF Promiscuous, IInv, PendingOK, M!Next
<1>3. CASE \E m \in Manager :
             BetweenFrames(M!StartApplication(m)) \/ BetweenFrames(M!StopApplication(m))
  BY <1>3 DEF BetweenFrames, M!Next
<1>4. CASE BetweenFrames(M!Tick)
  BY <1>4 DEF BetweenFrames, M!Next
<1>5. CASE UNCHANGED vars
  BY <1>1, <1>5 DEF vars
<1> QED
  BY <1>1, <1>2, <1>3, <1>4, <1>5 DEF Next, Receive, Overhear, OfNode

\* The node's managers behave as SimpleAodvTrustManager says: frames reach the
\* callback only after the routing protocol, and nothing else touches counters
\* and tables.
THEOREM ManagersImplemented == Spec => M!Spec
<1>1. Init => M!Init
  BY DEF Init
<1> QED
  BY <1>1, InitIInv, NextIInv, ManagersNext, PTL DEF Spec, M!Spec

-----------------------------------------------------------------------------
\* The invariants of both parts, in the node that is made of them.
Invariants == P!IInv /\ Q!IInv /\ Q!StoppedManagersRateNobody

LEMMA SpecInvariants == Spec => []Invariants
<1>1. P!Spec => []P!IInv
  BY NodeConstants, P!SpecIInv
<1>2. M!Spec => Q!Spec
  BY SameManagers, PTL DEF M!Spec, Q!Spec
<1>3. Q!Spec => []Q!IInv
  BY ManagerConstants, Q!SpecIInv
<1>4. Q!Spec => []Q!StoppedManagersRateNobody
  BY ManagerConstants, Q!StoppedRateNobody
<1> QED
  BY <1>1, <1>2, <1>3, <1>4, SameSpec, Implements, ManagersImplemented, PTL
  DEF ImplementsAodvNode, Invariants

\* Where no manager has a record the average is one half.
LEMMA NobodyRates ==
  ASSUME Invariants, NEW a \in Address, \A m \in Manager : ~M!Has(m_trustTable[m], a)
  PROVE  P!AvgTrustValue(Untimed, a) = P!Half
<1>1. Untimed \in [Manager -> P!Records]
  BY DEF Invariants, P!IInv, P!TypeOK
<1>2. P!RatedBy(Untimed, a) = {}
  BY DEF P!RatedBy, P!LookupTrustEntry, P!Has, Untimed
<1>3. P!TrustValueSum(Untimed, a) = P!Zero
  BY <1>1, <1>2, NodeConstants, P!SumOf
<1> QED
  BY <1>3 DEF P!AvgTrustValue, P!Zero

\* A manager that has not started has not counted; one that has stopped has
\* purged.
LEMMA NobodyStarted ==
  ASSUME Invariants, ~hung, Started = {}
  PROVE  \A m \in Manager, a \in Address : ~M!Has(m_trustTable[m], a)
<1> SUFFICES ASSUME NEW m \in Manager, NEW a \in Address
             PROVE  ~M!Has(m_trustTable[m], a)
  OBVIOUS
<1>1. app[m] \in {"new", "stopped"}
  BY DEF Started, Invariants, Q!IInv, Q!TypeOK
<1>2. CASE app[m] = "new"
  BY <1>2 DEF Invariants, Q!IInv, Q!NewManagersKnowNobody, Q!TableAgreesWithParameters,
              Q!Known, Q!Has, M!Has
<1>3. CASE app[m] = "stopped"
  BY <1>3 DEF Invariants, Q!StoppedManagersRateNobody, Q!NoRecords, M!Has
<1> QED
  BY <1>1, <1>2, <1>3

\* The next hop of a valid route is a neighbour.
LEMMA NextHops ==
  ASSUME P!IInv, NEW d \in Dst, N!HasValidRoute(m_routingTable, d)
  PROVE  m_routingTable[d].nextHop \in Neighbor
BY AddressAssumption
DEF P!IInv, P!LeadsToNeighbor, P!HasRoute, P!Searching, N!HasValidRoute, N!HasRoute

\* With one half on both sides the hops decide, as in ns-3.
LEMMA PlainReply ==
  ASSUME Invariants, IInv, NEW d \in Device, NEW sender \in Neighbor,
         NEW rrep \in N!Rrep \cup N!Hello(sender), Started = {}, Receive(d, sender, rrep)
  PROVE  m_routingTable' = N!RecvReply(N!UpdateRouteToNeighbor(m_routingTable, sender),
                                       rrep, sender)
<1> DEFINE base == P!UpdateRouteToNeighbor(m_routingTable, sender)
           old  == P!AvgTrustValue(Untimed, base[rrep.dst].nextHop)
           new  == P!AvgTrustValue(Untimed, sender)
<1>1. /\ P!RecvAodv(rrep, sender) /\ ~hung /\ protocol = "trust" /\ rrep.type = "RREP"
  BY SameReceive DEF Receive, Idle, IInv, ManagersOK, N!Rrep, N!Hello
<1>2. P!TrustRecvReply(base, rrep, sender)
  BY <1>1 DEF P!RecvAodv, P!TrustRecvAodv, P!RecvOther
<1>3. \A m \in Manager, a \in Address : ~M!Has(m_trustTable[m], a)
  BY <1>1, NobodyStarted
<1>4. new = P!Half
  BY <1>3, NobodyRates, AddressAssumption
<1>5. P!HasValidRoute(base, rrep.dst) => old = P!Half
  <2> SUFFICES ASSUME P!HasValidRoute(base, rrep.dst)
               PROVE  base[rrep.dst].nextHop \in Address
    BY <1>3, NobodyRates
  <2>1. rrep.dst \in Address
    BY AddressAssumption DEF N!Rrep, N!Hello
  <2>2. P!LeadsToNeighbor(base)
    BY NodeConstants, P!NeighborRoutes DEF Invariants, P!IInv, P!TypeOK, P!Routes,
       P!SearchesHaveTimers, P!TimersFor
  <2> QED
    BY <2>1, <2>2, AddressAssumption
    DEF P!LeadsToNeighbor, P!HasRoute, P!Searching, P!HasValidRoute
<1>6. P!LetHopsDecide(P!Half, P!Half)
  BY DEF P!LetHopsDecide, P!AboveThreshold, P!Less, P!Half
<1>7. P!HandleReply(base, rrep, sender)
  <2> HIDE DEF base
  <2> QED
    BY <1>2, <1>4, <1>5, <1>6 DEF P!TrustRecvReply
<1>8. m_routingTable' = P!RecvReply(base, rrep, sender)
  BY <1>7 DEF P!HandleReply
<1> QED
  BY <1>8
  DEF N!RecvReply, P!RecvReply, N!UpdateRouteToNeighbor,
      P!UpdateRouteToNeighbor, N!ProcessHello, P!ProcessHello,
      N!UpdateForwardRoute, P!UpdateForwardRoute, N!EndsSearch, P!EndsSearch,
      N!IsHello, P!IsHello, N!IsOwn, P!IsOwn, N!Searching, P!Searching,
      N!HasRoute, P!HasRoute, N!Replaces, P!Replaces, N!Newer, P!Newer,
      N!NewEntry, P!NewEntry, N!NextHopCount, P!NextHopCount, N!NeighborRoute,
      P!NeighborRoute

\* Until a manager starts, and after the last has stopped, a reply does to the
\* routes what it does in plain AODV, whatever was counted meanwhile.
THEOREM PlainAodv == Spec => PlainWithoutManagers
<1>1. Invariants /\ IInv =>
        [\A d \in Device, sender \in Neighbor :
           \A rrep \in N!Rrep \cup N!Hello(sender) :
             Started = {} /\ Receive(d, sender, rrep) =>
               m_routingTable' = N!RecvReply(N!UpdateRouteToNeighbor(m_routingTable, sender),
                                             rrep, sender)]_vars
  BY PlainReply
<1>2. Spec => []IInv
  BY InitIInv, NextIInv, PTL DEF Spec
<1> QED
  BY <1>1, <1>2, SpecInvariants, PTL DEF PlainWithoutManagers

-----------------------------------------------------------------------------
\* The rating that the only manager's counters of a give.
LEMMA OnlyRating ==
  ASSUME Invariants, NEW m \in Manager, Manager = {m}, NEW a \in Address
  PROVE  P!Effective(a) =
           IF /\ M!Has(m_trustTable[m], a)
              /\ m_trustTable[m][a].trustValue[1] # 0
           THEN m_trustTable[m][a].trustValue ELSE P!Half
<1> DEFINE v == m_trustTable[m][a].trustValue
<1>1. Untimed \in [Manager -> P!Records] /\ m_trustTable \in [Manager -> Q!Records]
  BY DEF Invariants, P!IInv, P!TypeOK, Q!IInv, Q!TypeOK
<1>2. CASE ~M!Has(m_trustTable[m], a)
  <2>1. P!RatedBy(Untimed, a) = {}
    BY <1>2 DEF P!RatedBy, P!LookupTrustEntry, P!Has, Untimed
  <2>2. P!TrustValueSum(Untimed, a) = P!Zero
    BY <1>1, <2>1, NodeConstants, P!SumOf
  <2> QED
    BY <1>2, <2>2 DEF P!Effective, P!Zero
<1>3. CASE M!Has(m_trustTable[m], a)
  <2>1. m_trustTable[m][a] \in Q!TrustEntry
    BY <1>1, <1>3 DEF M!Has, Q!Records
  <2>2. /\ v \in Int \X (Nat \ {0}) /\ v = <<v[1], v[2]>> /\ v[1] \in Int /\ v[2] \in Nat
        /\ Untimed[m][a] = [m_trustTable[m][a] EXCEPT !.timestamp = 0]
    BY <1>3, <2>1 DEF Untimed, Q!TrustEntry, Q!Trust
  <2>3. Untimed[m][a].trustValue = v /\ Untimed[m][a] # NoEntry
    <3>1. Untimed[m][a] \in Q!TrustEntry /\ Untimed[m][a].trustValue = v
      BY <2>1, <2>2 DEF Q!TrustEntry
    <3> QED
      BY <3>1, ManagerConstants
  <2> HIDE DEF v
  <2>4. P!RatedBy(Untimed, a) = {m}
    BY <2>3 DEF P!RatedBy, P!LookupTrustEntry, P!Has, Untimed
  <2>5. P!TrustValueSum(Untimed, a) = P!Plus(v, P!Zero)
    BY <1>1, <2>3, <2>4, NodeConstants, P!SumOf
  <2>6. P!Plus(v, P!Zero) = v
    BY <2>2 DEF P!Plus, P!Zero
  <2>7. P!Cardinality({m}) = 1
    <3>1. Cardinality({m}) = 1
      BY FS_Singleton
    <3> QED
      BY <3>1 DEF P!Cardinality, Cardinality
  <2>8. P!DivideBy(v, 1) = v
    BY <2>2 DEF P!DivideBy
  <2> QED
    BY <1>3, <2>4, <2>5, <2>6, <2>7, <2>8 DEF P!Effective, v
<1> QED
  BY <1>2, <1>3

\* Ratios of replies to messages compare like ratios of replies to requests.
LEMMA RatioArithmetic ==
  ASSUME NEW p \in Nat, NEW q \in Nat, NEW r \in Nat, NEW s \in Nat,
         p * (s + r) < r * (q + p)
  PROVE  p * s < r * q
<1>1. p * (s + r) = p * s + p * r /\ r * (q + p) = r * q + r * p /\ p * r = r * p
  OBVIOUS
<1>2. \A x, y, z \in Int : x + z < y + z => x < y
  OBVIOUS
<1>3. p * s \in Int /\ r * q \in Int /\ p * r \in Int
  OBVIOUS
<1> QED
  BY <1>1, <1>2, <1>3

LEMMA SmallerRatio ==
  ASSUME NEW p \in Nat, NEW q \in Nat, NEW r \in Nat, NEW s \in Nat,
         p * s < r * q, r < s
  PROVE  p < q
<1> SUFFICES ASSUME q <= p PROVE FALSE
  OBVIOUS
<1>1. r * q <= s * q /\ s * q <= s * p /\ s * p = p * s
  OBVIOUS
<1>2. p * s \in Nat /\ r * q \in Nat /\ s * q \in Nat /\ s * p \in Nat
  OBVIOUS
<1> QED
  BY <1>1, <1>2

\* A started manager rates the addresses it has counters for by the counters.
LEMMA RatingIsRatio ==
  ASSUME Invariants, NEW m \in Manager, NEW a \in Address
  PROVE  /\ M!Known(m_trustParameters[m], a) =>
              Replies(m, a) \in Nat /\ Requests(m, a) \in Nat
         /\ M!Has(m_trustTable[m], a) =>
              /\ M!Known(m_trustParameters[m], a)
              /\ m_trustTable[m][a].trustValue =
                   IF Requests(m, a) # 0 THEN <<Replies(m, a), Requests(m, a) + Replies(m, a)>>
                   ELSE M!Half
         /\ app[m] = "started" /\ ~hung /\ M!Known(m_trustParameters[m], a) =>
              M!Has(m_trustTable[m], a)
<1>1. m_trustParameters[m][a] \in Q!AodvTrustEntry \cup {NoParameters}
  BY DEF Invariants, Q!IInv, Q!TypeOK
<1>2. M!Known(m_trustParameters[m], a) => Replies(m, a) \in Nat /\ Requests(m, a) \in Nat
  BY <1>1, CounterModAssumption DEF M!Known, Q!AodvTrustEntry, Q!Counter, Replies, Requests
<1>3. Q!TableAgreesWithParameters
  BY DEF Invariants, Q!IInv
<1> QED
  BY <1>2, <1>3
  DEF Q!TableAgreesWithParameters, Q!CalculateTrust, Q!Known, Q!Has, Q!Half,
      M!Known, M!Has, M!Half, Replies, Requests

\* A move to a suspicious neighbour that the trust decision allows leaves a
\* worse one.
LEMMA Conduct ==
  ASSUME Invariants, ~hung, NEW m \in Started, Manager = {m},
         NEW old \in Address, NEW new \in Address, Suspicious(m, new),
         ~P!Distrusted(new) \/ P!Less(P!Effective(old), P!Effective(new))
  PROVE  /\ Suspicious(m, old)
         /\ Replies(m, old) * Requests(m, new) < Replies(m, new) * Requests(m, old)
<1> DEFINE p == Replies(m, old)
           q == Requests(m, old)
           r == Replies(m, new)
           s == Requests(m, new)
<1>1. m \in Manager /\ app[m] = "started"
  BY DEF Started
<1>2. r \in Nat \ {0} /\ s \in Nat \ {0} /\ r < s
  <2>1. M!Known(m_trustParameters[m], new) /\ s > r /\ r > 0
    BY DEF Suspicious
  <2>2. r \in Nat /\ s \in Nat
    BY <1>1, <2>1, RatingIsRatio
  <2> HIDE DEF r, s
  <2> QED
    BY <2>1, <2>2
<1>3. P!Effective(new) = <<r, s + r>>
  <2>1. M!Has(m_trustTable[m], new)
    BY <1>1, RatingIsRatio DEF Suspicious
  <2>2. m_trustTable[m][new].trustValue = <<r, s + r>>
    BY <1>1, <1>2, <2>1, RatingIsRatio
  <2>3. m_trustTable[m][new].trustValue[1] # 0
    <3> HIDE DEF r, s
    <3> QED
      BY <1>2, <2>2
  <2>4. P!Effective(new) = m_trustTable[m][new].trustValue
    BY <1>1, <2>1, <2>3, OnlyRating
  <2> QED
    BY <2>2, <2>4
<1>4. P!Less(P!Effective(new), P!Half) /\ ~P!Less(P!Half, P!Effective(new))
  BY <1>2, <1>3 DEF P!Less, P!Half
<1>5. P!Less(P!Effective(old), P!Effective(new))
  BY <1>4 DEF P!Distrusted
<1>6. P!Effective(old) # P!Half
  BY <1>4, <1>5
<1>7. /\ M!Known(m_trustParameters[m], old) /\ p \in Nat \ {0} /\ q \in Nat
      /\ P!Effective(old) = <<p, q + p>>
  <2>1. /\ M!Has(m_trustTable[m], old)
        /\ m_trustTable[m][old].trustValue[1] # 0
        /\ P!Effective(old) = m_trustTable[m][old].trustValue
    BY <1>1, <1>6, OnlyRating
  <2>2. /\ M!Known(m_trustParameters[m], old) /\ p \in Nat /\ q \in Nat
        /\ m_trustTable[m][old].trustValue = IF q # 0 THEN <<p, q + p>> ELSE M!Half
    BY <1>1, <2>1, RatingIsRatio
  <2>3. m_trustTable[m][old].trustValue = <<p, q + p>>
    BY <1>6, <2>1, <2>2 DEF M!Half, P!Half
  <2>4. p # 0
    BY <2>1, <2>3
  <2> QED
    BY <2>1, <2>2, <2>3, <2>4
<1> HIDE DEF p, q, r, s
<1>8. p * (s + r) < r * (q + p)
  BY <1>3, <1>5, <1>7 DEF P!Less
<1>9. p * s < r * q
  BY <1>2, <1>7, <1>8, RatioArithmetic
<1>10. p < q
  BY <1>2, <1>7, <1>9, SmallerRatio
<1> QED
  BY <1>7, <1>9, <1>10 DEF Suspicious, p, q, r, s

\* A node that hangs does nothing.
LEMMA HungNodeRests == hung /\ [Next]_vars => UNCHANGED vars
BY DEF Next, Receive, Overhear, Promiscuous, BetweenFrames, OfNode, Idle,
       M!OnReceivePromiscuousCallback

\* With one manager, a route moves to a neighbour that is heard to request more
\* than it replies only from one whose replies are rarer still, or with a
\* request of the destination's own: on replies, what the node overhears
\* decides, through the counters, the table, the average and the comparison, for
\* all widths of the counters and all neighbours.
THEOREM ConductDecides == Spec => DecisionsFollowConduct
<1> DEFINE Up == \A d \in Dst : protocol = "trust" /\ P!Moves(d) =>
                   \/ ~P!Distrusted(m_routingTable'[d].nextHop)
                   \/ P!Less(P!Effective(m_routingTable[d].nextHop),
                             P!Effective(m_routingTable'[d].nextHop))
                   \/ P!AskedBy(d)
           Follows == \A m \in Started : \A d \in Dst :
             Manager = {m} /\ N!Moves(d) /\ Suspicious(m, m_routingTable'[d].nextHop) =>
               LET old == m_routingTable[d].nextHop
                   new == m_routingTable'[d].nextHop
               IN  \/ /\ Suspicious(m, old)
                      /\ Replies(m, old) * Requests(m, new) < Replies(m, new) * Requests(m, old)
                   \/ N!AskedBy(d)
<1>1. Invariants /\ Invariants' /\ IInv /\ [Next]_vars /\ [Up]_(P!vars) => [Follows]_vars
  <2> SUFFICES ASSUME Invariants, Invariants', IInv, [Next]_vars, [Up]_(P!vars),
                      NEW m \in Started, NEW d \in Dst, Manager = {m}, N!Moves(d),
                      Suspicious(m, m_routingTable'[d].nextHop), ~N!AskedBy(d)
               PROVE  LET old == m_routingTable[d].nextHop
                          new == m_routingTable'[d].nextHop
                      IN  /\ Suspicious(m, old)
                          /\ Replies(m, old) * Requests(m, new)
                               < Replies(m, new) * Requests(m, old)
    OBVIOUS
  <2>1. m_routingTable'[d].nextHop # m_routingTable[d].nextHop
    BY DEF N!Moves
  <2>2. ~hung
    BY <2>1, HungNodeRests DEF vars, nodeVars
  <2>3. Up
    BY <2>1 DEF P!vars
  <2>4. P!Moves(d)
    BY DEF N!Moves, P!Moves, N!HasValidRoute, P!HasValidRoute, N!HasRoute, P!HasRoute
  <2>5. \/ ~P!Distrusted(m_routingTable'[d].nextHop)
        \/ P!Less(P!Effective(m_routingTable[d].nextHop),
                  P!Effective(m_routingTable'[d].nextHop))
    BY <2>3, <2>4, SameAskedBy DEF IInv, ManagersOK
  <2>6. m_routingTable[d].nextHop \in Address
    BY NextHops, AddressAssumption DEF N!Moves, Invariants
  <2>7. m_routingTable'[d].nextHop \in Address
    BY AddressAssumption
    DEF Invariants, P!IInv, P!LeadsToNeighbor, P!HasRoute, P!Searching, N!Moves,
        N!HasValidRoute, N!HasRoute
  <2> QED
    BY <2>2, <2>5, <2>6, <2>7, Conduct
<1>2. Spec => []IInv
  BY InitIInv, NextIInv, PTL DEF Spec
<1>3. P!Spec => P!RoutesMoveToTrust
  BY NodeConstants, P!TrustMovesUp
<1>4. P!RoutesMoveToTrust => [][Up]_(P!vars)
  BY DEF P!RoutesMoveToTrust
<1> HIDE DEF Up
<1> QED
  BY <1>1, <1>2, <1>3, <1>4, SameSpec, Implements, SpecInvariants, PTL
  DEF Spec, ImplementsAodvNode, DecisionsFollowConduct
=============================================================================
