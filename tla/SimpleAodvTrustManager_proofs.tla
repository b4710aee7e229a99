-------------------- MODULE SimpleAodvTrustManager_proofs --------------------
(***************************************************************************)
(* Theorems about the trust managers of a node, for every number of        *)
(* managers, devices and senders and every width of the counters.          *)
(***************************************************************************)
EXTENDS SimpleAodvTrustManager, TLAPS

\* Store returns a map in which only the record it writes is new.
LEMMA StoreType ==
  ASSUME NEW recs \in Records, NEW a \in Address, NEW v \in Trust, ~Negative(v),
         NEW t \in Nat
  PROVE  /\ Store(recs, a, v, t) \in Records
         /\ \A b \in Address : b # a => Store(recs, a, v, t)[b] = recs[b]
         /\ Store(recs, a, v, t)[a] = [trustValue |-> v, timestamp |-> t]
         /\ Has(Store(recs, a, v, t), a)
<1>1. [trustValue |-> v, timestamp |-> t] \in TrustEntry
  BY DEF TrustEntry
<1> QED
  BY <1>1, NoEntryAssumption DEF Store, Records, Has

\* With a value that is not negative AddOrUpdateTrustTableEntry always writes.
LEMMA PutResult ==
  ASSUME NEW recs \in Records, NEW a \in Address, NEW v \in Trust, ~Negative(v),
         NEW t \in Nat
  PROVE  AddOrUpdateTrustTableEntry(recs, a, v, t) = Store(recs, a, v, t)
BY DEF AddOrUpdateTrustTableEntry, AddRecord, UpdateRecord

\* A Purge leaves a map whose records are records of the old one; when it
\* returns, there are none.
LEMMA PurgeResult ==
  ASSUME NEW recs \in Records, NEW t \in Nat, NEW new \in LeftByPurge(recs, t)
  PROVE  /\ new \in Records
         /\ \A a \in Address : Has(new, a) => new[a] = recs[a]
         /\ PurgeReturnsFrom(recs, t) => new = NoRecords
<1>1. CASE PurgeReturnsFrom(recs, t)
  <2>1. new = NoRecords
    BY <1>1 DEF LeftByPurge
  <2>2. NoRecords \in Records /\ \A a \in Address : ~Has(NoRecords, a)
    BY DEF NoRecords, Records, Has
  <2> QED
    BY <2>1, <2>2
<1>2. CASE ~PurgeReturnsFrom(recs, t)
  <2>1. PICK erased \in SUBSET Address :
          new = [a \in Address |-> IF a \in erased THEN NoEntry ELSE recs[a]]
    BY <1>2 DEF LeftByPurge
  <2>2. new \in Records
    BY <2>1 DEF Records
  <2>3. \A a \in Address : Has(new, a) => new[a] = recs[a]
    BY <2>1 DEF Has
  <2> QED
    BY <1>2, <2>2, <2>3
<1> QED
  BY <1>1, <1>2

-----------------------------------------------------------------------------
\* A manager that was never started has heard nobody.  Without this a start
\* could turn old counters without a record into a disagreement.
NewManagersKnowNobody ==
  \A m \in Manager, a \in Address : app[m] = "new" => ~Known(m_trustParameters[m], a)

\* The inductive invariant: the properties the runs check, and the strengthening
\* that a start needs.
IInv ==
  /\ TypeOK
  /\ NewManagersKnowNobody
  /\ TableAgreesWithParameters
  /\ DevicesShareOneListener
  /\ OnlyStartedManagersListen

\* The rating of a known sender is a trust value from 0 to 1.
LEMMA RatingInUnitInterval ==
  ASSUME NEW params \in [Address -> AodvTrustEntry \cup {NoParameters}],
         NEW a \in Address, Known(params, a)
  PROVE  /\ CalculateTrust(params, a) \in Trust
         /\ ~Negative(CalculateTrust(params, a))
         /\ InUnitInterval(CalculateTrust(params, a))
<1>1. params[a] \in AodvTrustEntry
  BY DEF Known
<1>2. params[a].rreq \in Nat /\ params[a].rrep \in Nat
  BY <1>1, CounterModAssumption DEF AodvTrustEntry, Counter
<1> QED
  BY <1>2 DEF CalculateTrust, Known, Trust, Negative, InUnitInterval, Half

\* Counting keeps the counters within their width, concerns the sender only
\* and makes it known.
LEMMA ObserveType ==
  ASSUME NEW params \in [Address -> AodvTrustEntry \cup {NoParameters}],
         NEW a \in Address, NEW t \in MessageType, NEW broadcast \in BOOLEAN
  PROVE  /\ Observe(params, a, t, broadcast)
              \in [Address -> AodvTrustEntry \cup {NoParameters}]
         /\ Known(Observe(params, a, t, broadcast), a)
         /\ \A b \in Address : b # a => Observe(params, a, t, broadcast)[b] = params[b]
<1> DEFINE entry == IF Known(params, a) THEN params[a] ELSE [rreq |-> 0, rrep |-> 0]
<1>1. 0 \in Counter /\ \A c \in Counter : Inc(c) \in Counter
  BY CounterModAssumption DEF Counter, Inc
<1>2. entry \in AodvTrustEntry
  BY <1>1 DEF Known, AodvTrustEntry
<1>3. Count(entry, t, broadcast) \in AodvTrustEntry
  <2> HIDE DEF entry
  <2> QED
    BY <1>1, <1>2 DEF Count, AodvTrustEntry, MessageType
<1>4. Observe(params, a, t, broadcast) = [params EXCEPT ![a] = Count(entry, t, broadcast)]
  BY DEF Observe
<1> HIDE DEF entry
<1> QED
  BY <1>3, <1>4, NoParametersAssumption DEF Known

-----------------------------------------------------------------------------
LEMMA InitIInv == Init => IInv
<1> SUFFICES ASSUME Init PROVE IInv
  OBVIOUS
<1>1. TypeOK
  BY DEF Init, TypeOK, NoRecords, Records
<1>2. TableAgreesWithParameters
  BY DEF Init, TableAgreesWithParameters, NoRecords, Has
<1>3. DevicesShareOneListener /\ OnlyStartedManagersListen /\ NewManagersKnowNobody
  BY DEF Init, DevicesShareOneListener, OnlyStartedManagersListen,
         NewManagersKnowNobody, Known
<1> QED
  BY <1>1, <1>2, <1>3 DEF IInv

\* What one manager's line of TableAgreesWithParameters says.
Agrees(m) ==
  \A a \in Address :
    /\ Has(m_trustTable[m], a) =>
         /\ Known(m_trustParameters[m], a)
         /\ m_trustTable[m][a].trustValue = CalculateTrust(m_trustParameters[m], a)
         /\ InUnitInterval(m_trustTable[m][a].trustValue)
    /\ app[m] = "started" /\ ~hung /\ Known(m_trustParameters[m], a) =>
         Has(m_trustTable[m], a)

\* An overheard message changes the line of the manager that hears it.
LEMMA ReceiveIInv ==
  ASSUME IInv, NEW d \in Device, NEW a \in Address, NEW t \in MessageType,
         NEW broadcast \in BOOLEAN, OnReceivePromiscuousCallback(d, a, t, broadcast)
  PROVE  IInv'
<1> DEFINE m      == promisc[d]
           params == Observe(m_trustParameters[m], a, t, broadcast)
           v      == CalculateTrust(params, a)
           recs   == Store(m_trustTable[m], a, v, now)
<1>0. /\ ~hung /\ m \in Manager
      /\ UNCHANGED <<now, app, promisc, hung>>
      /\ now \in Nat
      /\ m_trustTable[m] \in Records
      /\ m_trustParameters[m] \in [Address -> AodvTrustEntry \cup {NoParameters}]
  BY DEF OnReceivePromiscuousCallback, IInv, TypeOK
<1>1. /\ params \in [Address -> AodvTrustEntry \cup {NoParameters}]
      /\ Known(params, a)
      /\ \A b \in Address : b # a => params[b] = m_trustParameters[m][b]
  BY <1>0, ObserveType
<1>2. m_trustParameters' = [m_trustParameters EXCEPT ![m] = params]
  BY <1>0 DEF OnReceivePromiscuousCallback
<1>3. m_trustParameters'[m] = params
  BY <1>0, <1>2 DEF IInv, TypeOK
<1>4. v \in Trust /\ ~Negative(v) /\ InUnitInterval(v)
  <2> HIDE DEF params
  <2> QED
    BY <1>1, RatingInUnitInterval
<1>5. m_trustTable' = [m_trustTable EXCEPT ![m] = recs]
  <2>1. m_trustTable' = [m_trustTable EXCEPT ![m] =
           AddOrUpdateTrustTableEntry(m_trustTable[m], a, v, now)]
    BY <1>0, <1>3 DEF OnReceivePromiscuousCallback
  <2> HIDE DEF v
  <2> QED
    BY <1>0, <1>4, <2>1, PutResult
<1>6. /\ recs \in Records
      /\ \A b \in Address : b # a => recs[b] = m_trustTable[m][b]
      /\ recs[a] = [trustValue |-> v, timestamp |-> now]
      /\ Has(recs, a)
  <2> HIDE DEF v
  <2> QED
    BY <1>0, <1>4, StoreType
<1> HIDE DEF params, recs
<1>7. TypeOK'
  <2> HIDE DEF m
  <2> QED
    BY <1>0, <1>1, <1>2, <1>5, <1>6 DEF IInv, TypeOK
<1>8. TableAgreesWithParameters'
  <2> SUFFICES ASSUME NEW n \in Manager PROVE Agrees(n)'
    BY DEF TableAgreesWithParameters, Agrees
  <2>0. Agrees(n)
    BY DEF IInv, TableAgreesWithParameters, Agrees
  <2>1. CASE n # m
    <3>1. m_trustTable'[n] = m_trustTable[n] /\ m_trustParameters'[n] = m_trustParameters[n]
      BY <1>2, <1>5, <2>1 DEF IInv, TypeOK
    <3> QED
      BY <1>0, <2>0, <3>1 DEF Agrees
  <2>2. CASE n = m
    <3>1. m_trustTable'[n] = recs /\ m_trustParameters'[n] = params
      BY <1>0, <1>3, <1>5, <2>2 DEF IInv, TypeOK
    <3> SUFFICES ASSUME NEW b \in Address
                 PROVE  /\ Has(recs, b) =>
                             /\ Known(params, b)
                             /\ recs[b].trustValue = CalculateTrust(params, b)
                             /\ InUnitInterval(recs[b].trustValue)
                        /\ app[n] = "started" /\ ~hung /\ Known(params, b) => Has(recs, b)
      BY <1>0, <3>1 DEF Agrees
    <3>2. CASE b = a
      <4>1. recs[b].trustValue = v
        BY <1>6, <3>2
      <4> QED
        BY <1>1, <1>4, <1>6, <3>2, <4>1
    <3>3. CASE b # a
      <4>1. recs[b] = m_trustTable[n][b] /\ params[b] = m_trustParameters[n][b]
        BY <1>1, <1>6, <2>2, <3>3
      <4>2. CalculateTrust(params, b) = CalculateTrust(m_trustParameters[n], b)
        BY <4>1 DEF CalculateTrust, Known
      <4> QED
        BY <2>0, <4>1, <4>2 DEF Agrees, Has, Known
    <3> QED
      BY <3>2, <3>3
  <2> QED
    BY <2>1, <2>2
<1>9. DevicesShareOneListener' /\ OnlyStartedManagersListen'
  BY <1>0 DEF IInv, DevicesShareOneListener, OnlyStartedManagersListen
<1>10. NewManagersKnowNobody'
  <2> SUFFICES ASSUME NEW n \in Manager, NEW b \in Address, app[n] = "new"
               PROVE  ~Known(m_trustParameters'[n], b)
    BY <1>0 DEF NewManagersKnowNobody, Known
  <2>1. promisc[d] # NullCallback /\ app[m] = "started"
    BY <1>0, CallbackAssumption DEF IInv, OnlyStartedManagersListen
  <2>2. m_trustParameters'[n] = m_trustParameters[n]
    BY <1>2, <2>1 DEF IInv, TypeOK
  <2> QED
    BY <2>2 DEF IInv, NewManagersKnowNobody, Known
<1> QED
  BY <1>7, <1>8, <1>9, <1>10 DEF IInv

\* A manager that starts or stops changes its own line, and the callbacks.
LEMMA SwitchIInv ==
  ASSUME IInv, NEW m \in Manager, StartApplication(m) \/ StopApplication(m)
  PROVE  IInv'
<1>0. /\ ~hung /\ now \in Nat /\ m_trustTable[m] \in Records
      /\ UNCHANGED <<now, m_trustParameters>>
  BY DEF StartApplication, StopApplication, IInv, TypeOK
<1>1. PICK cb \in Manager \cup {NullCallback}, s \in {"started", "stopped"} :
        /\ app' = [app EXCEPT ![m] = s]
        /\ SetCallbackAndPurge(m, cb)
        /\ s = "started" => cb = m /\ app[m] = "new"
        /\ s = "stopped" => cb = NullCallback
  BY DEF StartApplication, StopApplication
<1>2. PICK recs \in LeftByPurge(m_trustTable[m], now) :
        m_trustTable' = [m_trustTable EXCEPT ![m] = recs]
  BY <1>1 DEF SetCallbackAndPurge
<1>3. /\ recs \in Records
      /\ \A a \in Address : Has(recs, a) => recs[a] = m_trustTable[m][a]
      /\ ~hung' => recs = NoRecords
  BY <1>0, <1>1, <1>2, PurgeResult DEF SetCallbackAndPurge
<1>4. hung' \in BOOLEAN /\ promisc' \in [Device -> Manager \cup {NullCallback}]
  BY <1>1, DeviceAssumption DEF SetCallbackAndPurge, IInv, TypeOK
<1>5. TypeOK'
  BY <1>0, <1>1, <1>2, <1>3, <1>4 DEF IInv, TypeOK
<1>6. DevicesShareOneListener'
  BY <1>1 DEF SetCallbackAndPurge, DevicesShareOneListener
<1>7. OnlyStartedManagersListen'
  <2> SUFFICES ASSUME NEW d \in Device, promisc'[d] # NullCallback, ~hung'
               PROVE  app'[promisc'[d]] = "started"
    BY DEF OnlyStartedManagersListen
  <2>1. promisc'[d] = cb
    BY <1>1 DEF SetCallbackAndPurge
  <2> QED
    BY <1>1, <2>1 DEF IInv, TypeOK
<1>8. TableAgreesWithParameters'
  <2> SUFFICES ASSUME NEW n \in Manager PROVE Agrees(n)'
    BY DEF TableAgreesWithParameters, Agrees
  <2>0. Agrees(n)
    BY DEF IInv, TableAgreesWithParameters, Agrees
  <2>1. CASE n # m
    <3>1. m_trustTable'[n] = m_trustTable[n] /\ app'[n] = app[n]
      BY <1>1, <1>2, <2>1 DEF IInv, TypeOK
    <3> QED
      BY <1>0, <2>0, <3>1 DEF Agrees
  <2>2. CASE n = m
    <3>1. m_trustTable'[n] = recs /\ app'[n] = s /\ m_trustParameters'[n] = m_trustParameters[n]
      BY <1>0, <1>1, <1>2, <2>2 DEF IInv, TypeOK
    <3>2. ASSUME NEW a \in Address, Has(recs, a)
          PROVE  /\ Known(m_trustParameters[n], a)
                 /\ recs[a].trustValue = CalculateTrust(m_trustParameters[n], a)
                 /\ InUnitInterval(recs[a].trustValue)
      BY <1>3, <2>0, <2>2, <3>2 DEF Agrees, Has
    <3>3. ASSUME NEW a \in Address, s = "started", ~hung',
                 Known(m_trustParameters[n], a)
          PROVE  FALSE
      BY <1>1, <2>2, <3>3 DEF IInv, NewManagersKnowNobody
    <3> QED
      BY <3>1, <3>2, <3>3 DEF Agrees
  <2> QED
    BY <2>1, <2>2
<1>9. NewManagersKnowNobody'
  BY <1>0, <1>1 DEF IInv, TypeOK, NewManagersKnowNobody, Known
<1> QED
  BY <1>5, <1>6, <1>7, <1>8, <1>9 DEF IInv

LEMMA NextIInv == IInv /\ [Next]_vars => IInv'
<1> SUFFICES ASSUME IInv, [Next]_vars PROVE IInv'
  OBVIOUS
<1>1. CASE Tick
  BY <1>1 DEF Tick, IInv, TypeOK, NewManagersKnowNobody, TableAgreesWithParameters,
              DevicesShareOneListener, OnlyStartedManagersListen
<1>2. CASE UNCHANGED vars
  BY <1>2 DEF vars, IInv, TypeOK, NewManagersKnowNobody, TableAgreesWithParameters,
              DevicesShareOneListener, OnlyStartedManagersListen
<1> QED
  BY <1>1, <1>2, ReceiveIInv, SwitchIInv DEF Next, Spin

LEMMA SpecIInv == Spec => []IInv
BY InitIInv, NextIInv, PTL DEF Spec

-----------------------------------------------------------------------------
\* Counters stay within their width and tables hold well-formed records.
THEOREM TypeCorrect == Spec => []TypeOK
<1>1. IInv => TypeOK
  BY DEF IInv
<1> QED
  BY SpecIInv, <1>1, PTL

\* Whatever is overheard, in whatever order managers start and stop, a table
\* shows the rating of the present counters, a number from 0 to 1.
THEOREM TablesAgree == Spec => []TableAgreesWithParameters
<1>1. IInv => TableAgreesWithParameters
  BY DEF IInv
<1> QED
  BY SpecIInv, <1>1, PTL

\* The devices of a node have one listener between them.
THEOREM OneListener == Spec => []DevicesShareOneListener
<1>1. IInv => DevicesShareOneListener
  BY DEF IInv
<1> QED
  BY SpecIInv, <1>1, PTL

\* Only a started manager hears the node.
THEOREM ListenersAreStarted == Spec => []OnlyStartedManagersListen
<1>1. IInv => OnlyStartedManagersListen
  BY DEF IInv
<1> QED
  BY SpecIInv, <1>1, PTL

LEMMA StopsPurge ==
  ASSUME IInv, StoppedManagersRateNobody, NEW m \in Manager,
         StartApplication(m) \/ StopApplication(m)
  PROVE  StoppedManagersRateNobody'
<1>1. /\ now \in Nat /\ m_trustTable[m] \in Records
      /\ app \in [Manager -> {"new", "started", "stopped"}]
      /\ m_trustTable \in [Manager -> Records]
  BY DEF IInv, TypeOK
<1>2. PICK cb \in Manager \cup {NullCallback} : SetCallbackAndPurge(m, cb)
  BY DEF StartApplication, StopApplication
<1>3. PICK recs \in LeftByPurge(m_trustTable[m], now) :
        m_trustTable' = [m_trustTable EXCEPT ![m] = recs]
  BY <1>2 DEF SetCallbackAndPurge
<1>4. ~hung' => recs = NoRecords
  BY <1>1, <1>2, <1>3, PurgeResult DEF SetCallbackAndPurge
<1>5. ~hung /\ \A n \in Manager : n # m => app'[n] = app[n]
  BY <1>1 DEF StartApplication, StopApplication
<1> QED
  BY <1>1, <1>3, <1>4, <1>5 DEF StoppedManagersRateNobody

\* A node that goes on has no ratings of a manager that has stopped: its last
\* purge came to an end, so that it removed every record, and nobody writes to
\* its table any more.
THEOREM StoppedRateNobody == Spec => []StoppedManagersRateNobody
<1>1. Init => StoppedManagersRateNobody
  BY DEF Init, StoppedManagersRateNobody
<1>2. IInv /\ StoppedManagersRateNobody /\ [Next]_vars => StoppedManagersRateNobody'
  <2> SUFFICES ASSUME IInv, StoppedManagersRateNobody, [Next]_vars
               PROVE  StoppedManagersRateNobody'
    OBVIOUS
  <2>1. ASSUME NEW d \in Device, NEW a \in Address, NEW t \in MessageType,
               NEW broadcast \in BOOLEAN, OnReceivePromiscuousCallback(d, a, t, broadcast)
        PROVE  StoppedManagersRateNobody'
    <3>1. app[promisc[d]] = "started" /\ UNCHANGED <<app, hung>>
      BY <2>1 DEF OnReceivePromiscuousCallback, IInv, OnlyStartedManagersListen
    <3>2. \A n \in Manager : n # promisc[d] => m_trustTable'[n] = m_trustTable[n]
      BY <2>1 DEF OnReceivePromiscuousCallback, IInv, TypeOK
    <3> QED
      BY <3>1, <3>2 DEF StoppedManagersRateNobody
  <2>2. CASE Tick
    BY <2>2 DEF Tick, StoppedManagersRateNobody
  <2>3. CASE UNCHANGED vars
    BY <2>3 DEF vars, StoppedManagersRateNobody
  <2> QED
    BY <2>1, <2>2, <2>3, StopsPurge DEF Next, Spin
<1> QED
  BY <1>1, <1>2, SpecIInv, PTL DEF Spec

-----------------------------------------------------------------------------
\* A counter that grows grows by one.
LEMMA IncByOne ==
  ASSUME NEW c \in Counter, Inc(c) > c
  PROVE  Inc(c) = c + 1
<1>1. c \in Nat /\ c < CounterMod
  BY CounterModAssumption DEF Counter
<1>2. CASE c + 1 < CounterMod
  BY <1>1, <1>2, CounterModAssumption DEF Inc
<1>3. CASE c + 1 = CounterMod
  <2>1. CounterMod % CounterMod = 0
    BY CounterModAssumption
  <2> QED
    BY <1>1, <1>3, <2>1 DEF Inc
<1> QED
  BY <1>1, <1>2, <1>3, CounterModAssumption

\* p over q + p grows with p and falls with q.
LEMMA RatioOrder ==
  ASSUME NEW q \in Nat, NEW p \in Nat
  PROVE  /\ ~Less(<<p + 1, q + (p + 1)>>, <<p, q + p>>)
         /\ ~Less(<<p, q + p>>, <<p, (q + 1) + p>>)
BY DEF Less

\* Until a counter wraps, a reply never lowers its sender's rating and no
\* request after the first raises it.
THEOREM RatingsFollow == Spec => RatingsFollowConduct
<1> DEFINE A(m, a) ==
      LET old == m_trustParameters[m][a]
          new == m_trustParameters'[m][a]
      IN  Known(m_trustParameters[m], a) =>
            /\ new.rrep > old.rrep => ~Less(Rating(m, a)', Rating(m, a))
            /\ new.rreq > old.rreq /\ old.rreq > 0 => ~Less(Rating(m, a), Rating(m, a)')
<1>1. IInv /\ [Next]_vars => [\A m \in Manager, a \in Address : A(m, a)]_vars
  <2> SUFFICES ASSUME IInv, Next, NEW m \in Manager, NEW a \in Address,
                      Known(m_trustParameters[m], a)
               PROVE  A(m, a)
    OBVIOUS
  <2> DEFINE old == m_trustParameters[m][a]
             new == m_trustParameters'[m][a]
  <2>1. old \in AodvTrustEntry /\ old.rreq \in Counter /\ old.rrep \in Counter
    BY DEF IInv, TypeOK, Known, AodvTrustEntry
  <2>2. old.rreq \in Nat /\ old.rrep \in Nat
    BY <2>1, CounterModAssumption DEF Counter
  <2>3. CASE new = old
    BY <2>2, <2>3
  <2>4. ASSUME NEW d \in Device, NEW t \in MessageType, NEW broadcast \in BOOLEAN,
               OnReceivePromiscuousCallback(d, a, t, broadcast), promisc[d] = m
        PROVE  A(m, a)
    <3>1. new = Count(old, t, broadcast)
      BY <2>4 DEF OnReceivePromiscuousCallback, Observe, IInv, TypeOK
    <3>2. Known(m_trustParameters'[m], a)
      <4>1. m_trustParameters[m] \in [Address -> AodvTrustEntry \cup {NoParameters}]
        BY DEF IInv, TypeOK
      <4>2. m_trustParameters'[m] = Observe(m_trustParameters[m], a, t, broadcast)
        BY <2>4 DEF OnReceivePromiscuousCallback, IInv, TypeOK
      <4> QED
        BY <4>1, <4>2, ObserveType
    <3>3. CASE t = "RREP" /\ ~broadcast
      <4>1. new.rreq = old.rreq /\ new.rrep = Inc(old.rrep)
        BY <2>1, <3>1, <3>3 DEF Count, AodvTrustEntry
      <4> SUFFICES ASSUME new.rrep > old.rrep
                   PROVE  ~Less(Rating(m, a)', Rating(m, a))
        BY <2>2, <4>1
      <4>2. new.rrep = old.rrep + 1
        BY <2>1, <4>1, IncByOne
      <4>3. CASE old.rreq = 0
        BY <3>2, <4>1, <4>3 DEF Rating, CalculateTrust, Less, Half
      <4>4. CASE old.rreq # 0
        <5>1. /\ Rating(m, a) = <<old.rrep, old.rreq + old.rrep>>
              /\ Rating(m, a)' = <<old.rrep + 1, old.rreq + (old.rrep + 1)>>
          BY <3>2, <4>1, <4>2, <4>4 DEF Rating, CalculateTrust
        <5> QED
          BY <2>2, <5>1, RatioOrder
      <4> QED
        BY <4>3, <4>4
    <3>4. CASE t = "RREQ"
      <4>1. new.rrep = old.rrep /\ new.rreq = Inc(old.rreq)
        BY <2>1, <3>1, <3>4 DEF Count, AodvTrustEntry
      <4> SUFFICES ASSUME new.rreq > old.rreq, old.rreq > 0
                   PROVE  ~Less(Rating(m, a), Rating(m, a)')
        BY <2>2, <4>1
      <4>2. new.rreq = old.rreq + 1
        BY <2>1, <4>1, IncByOne
      <4>3. /\ Rating(m, a) = <<old.rrep, old.rreq + old.rrep>>
            /\ Rating(m, a)' = <<old.rrep, (old.rreq + 1) + old.rrep>>
        BY <2>2, <3>2, <4>1, <4>2 DEF Rating, CalculateTrust
      <4> QED
        BY <2>2, <4>3, RatioOrder
    <3>5. CASE ~(t = "RREP" /\ ~broadcast) /\ t # "RREQ"
      BY <2>3, <3>1, <3>5 DEF Count
    <3> QED
      BY <3>3, <3>4, <3>5
  <2>5. ASSUME NEW d \in Device, NEW b \in Address, NEW t \in MessageType,
               NEW broadcast \in BOOLEAN,
               OnReceivePromiscuousCallback(d, b, t, broadcast)
        PROVE  A(m, a)
    <3>1. CASE promisc[d] = m /\ b = a
      BY <2>4, <2>5, <3>1
    <3>2. CASE promisc[d] # m
      BY <2>3, <2>5, <3>2 DEF OnReceivePromiscuousCallback, IInv, TypeOK
    <3>3. CASE promisc[d] = m /\ b # a
      BY <2>3, <2>5, <3>3 DEF OnReceivePromiscuousCallback, Observe, IInv, TypeOK
    <3> QED
      BY <3>1, <3>2, <3>3
  <2>6. ASSUME m_trustParameters' = m_trustParameters PROVE A(m, a)
    BY <2>3, <2>6
  <2> QED
    BY <2>5, <2>6 DEF Next, StartApplication, StopApplication, Tick, Spin, vars
<1> QED
  BY SpecIInv, <1>1, PTL DEF Spec, RatingsFollowConduct
=============================================================================
