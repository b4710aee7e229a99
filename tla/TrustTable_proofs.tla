------------------------- MODULE TrustTable_proofs -------------------------
(***************************************************************************)
(* Theorems about the trust table for every set of addresses, every set of *)
(* trust values, every life time and every bound on the clock.             *)
(***************************************************************************)
EXTENDS TrustTable, TLAPS

\* Store returns a map in which only the record it writes is new.
LEMMA StoreType ==
  ASSUME NEW recs \in Records, NEW a \in Address, NEW v \in Trust, ~Negative(v),
         NEW t \in Nat
  PROVE  /\ Store(recs, a, v, t) \in Records
         /\ \A b \in Address : b # a => Store(recs, a, v, t)[b] = recs[b]
         /\ Store(recs, a, v, t)[a] = [trustValue |-> v, timestamp |-> t]
         /\ Has(Store(recs, a, v, t), a)
<1>1. [trustValue |-> v, timestamp |-> t] \in TrustEntry
  BY DEF TrustEntry
<1> QED
  BY <1>1, NoEntryAssumption DEF Store, Records, Has

\* A map that a call may leave behind when it runs at time t on recs.
Result(recs, t, new) ==
  /\ new \in Records
  /\ \A a \in Address : new[a] # recs[a] /\ Has(new, a) => new[a].timestamp = t

\* The three writers return a map whose records are old ones, or are stamped
\* with the time of the call.
LEMMA CallResult ==
  ASSUME NEW recs \in Records, NEW a \in Address, NEW v \in Trust, NEW t \in Nat
  PROVE  /\ Result(recs, t, AddRecord(recs, a, v, t))
         /\ Result(recs, t, UpdateRecord(recs, a, v, t))
         /\ Result(recs, t, AddOrUpdateTrustTableEntry(recs, a, v, t))
<1>1. Result(recs, t, recs)
  BY DEF Result
<1>2. ASSUME ~Negative(v) PROVE Result(recs, t, Store(recs, a, v, t))
  <2> DEFINE new == Store(recs, a, v, t)
  <2>1. /\ new \in Records
        /\ \A b \in Address : b # a => new[b] = recs[b]
        /\ new[a] = [trustValue |-> v, timestamp |-> t]
    BY <1>2, StoreType
  <2>2. new[a].timestamp = t
    BY <2>1
  <2> HIDE DEF new
  <2>3. \A b \in Address : new[b] # recs[b] => new[b].timestamp = t
    BY <2>1, <2>2
  <2>4. Result(recs, t, new)
    BY <2>1, <2>3 DEF Result
  <2> QED
    BY <2>4 DEF new
<1>3. Result(recs, t, AddRecord(recs, a, v, t))
  BY <1>1, <1>2 DEF AddRecord
<1>4. Result(recs, t, UpdateRecord(recs, a, v, t))
  BY <1>1, <1>2 DEF UpdateRecord
<1> QED
  BY <1>1, <1>3, <1>4 DEF AddOrUpdateTrustTableEntry

\* RemoveRecord leaves the other records alone.
LEMMA RemoveResult ==
  ASSUME NEW recs \in Records, NEW a \in Address
  PROVE  /\ RemoveRecord(recs, a) \in Records
         /\ ~Has(RemoveRecord(recs, a), a)
         /\ \A b \in Address : b # a => RemoveRecord(recs, a)[b] = recs[b]
BY DEF RemoveRecord, Records, Has

-----------------------------------------------------------------------------
\* Where the iterator is and what it has still to reach: it never reaches a
\* key twice, and has nothing left to reach outside the loop.
IteratorOK ==
  /\ i \notin rest
  /\ i \in {Idle, End} => rest = {}

\* The inductive invariant.
IInv == TypeOK /\ StampedInThePast /\ IteratorOK /\ IteratorCoversRecords

LEMMA InitIInv == Init => IInv
<1> SUFFICES ASSUME Init PROVE IInv
  OBVIOUS
<1>1. TypeOK
  BY DEF Init, TypeOK, NoRecords, Records
<1>2. StampedInThePast
  BY DEF Init, StampedInThePast, NoRecords, Has
<1>3. IteratorOK /\ IteratorCoversRecords
  BY DEF Init, IteratorOK, IteratorCoversRecords
<1> QED
  BY <1>1, <1>2, <1>3 DEF IInv

\* Every call that is not Purge.
LEMMA CallIInv ==
  ASSUME IInv, NEW recs, Result(m_tableRecords, now, recs), Call(recs)
  PROVE  IInv'
<1> USE DEF IInv, Call
<1>1. TypeOK'
  BY DEF TypeOK, Result
<1>2. StampedInThePast'
  <2> SUFFICES ASSUME NEW a \in Address, Has(recs, a)
               PROVE  recs[a].timestamp <= now
    BY DEF StampedInThePast, Has
  <2>1. CASE recs[a] = m_tableRecords[a]
    BY <2>1 DEF StampedInThePast, Has
  <2>2. CASE recs[a] # m_tableRecords[a]
    BY <2>2 DEF Result, TypeOK
  <2> QED
    BY <2>1, <2>2
<1>3. IteratorOK'
  BY DEF IteratorOK
<1>4. IteratorCoversRecords'
  BY DEF IteratorCoversRecords
<1> QED
  BY <1>1, <1>2, <1>3, <1>4

\* Where the iterator arrives when it moves on to the keys S.
LEMMA MoveToFacts ==
  ASSUME NEW S \in SUBSET Address, MoveTo(S)
  PROVE  /\ i' \in Address \cup {End}
         /\ rest' \in SUBSET Address
         /\ i' \notin rest'
         /\ i' = End => rest' = {}
         /\ rest' \cup ({i'} \cap Address) = S
BY IteratorAssumption DEF MoveTo

LEMMA NextIInv == IInv /\ [Next]_vars => IInv'
<1> SUFFICES ASSUME IInv, [Next]_vars PROVE IInv'
  OBVIOUS
<1>0. m_tableRecords \in Records /\ now \in Nat
  BY DEF IInv, TypeOK
<1>1. ASSUME NEW a \in Address, NEW v \in Value,
             Add(a, v) \/ Update(a, v) \/ AddOrUpdate(a, v)
      PROVE  IInv'
  <2>1. v \in Trust
    BY ValueAssumption
  <2> QED
    BY <1>0, <1>1, <2>1, CallResult, CallIInv DEF Add, Update, AddOrUpdate
<1>2. ASSUME NEW a \in Address, Remove(a)
      PROVE  IInv'
  <2>1. Result(m_tableRecords, now, RemoveRecord(m_tableRecords, a))
    BY <1>0, RemoveResult DEF Result, Has
  <2> QED
    BY <1>2, <2>1, CallIInv DEF Remove
<1>3. CASE Tick
  <2>1. TypeOK'
    BY <1>3 DEF Tick, IInv, TypeOK
  <2>2. StampedInThePast'
    <3> SUFFICES ASSUME NEW a \in Address, Has(m_tableRecords, a)
                 PROVE  m_tableRecords[a].timestamp <= now + 1
      BY <1>3 DEF Tick, StampedInThePast, Has
    <3>1. m_tableRecords[a] \in TrustEntry
      BY <1>0 DEF Records, Has
    <3>2. m_tableRecords[a].timestamp \in Nat
      BY <3>1 DEF TrustEntry
    <3> QED
      BY <1>0, <3>2 DEF IInv, StampedInThePast
  <2>3. IteratorOK' /\ IteratorCoversRecords'
    BY <1>3 DEF Tick, IInv, IteratorOK, IteratorCoversRecords, Keys, Has
  <2> QED
    BY <2>1, <2>2, <2>3 DEF IInv
<1>4. CASE PurgeBegin
  <2>1. Keys \in SUBSET Address /\ MoveTo(Keys) /\ Keys' = Keys
    BY <1>4 DEF PurgeBegin, Keys, Has
  <2>2. TypeOK' /\ IteratorOK'
    BY <1>4, <2>1, MoveToFacts, IteratorAssumption
    DEF PurgeBegin, IInv, TypeOK, IteratorOK
  <2>3. StampedInThePast'
    BY <1>4 DEF PurgeBegin, IInv, StampedInThePast, Has
  <2>4. IteratorCoversRecords'
    BY <2>1, MoveToFacts DEF IteratorCoversRecords
  <2> QED
    BY <2>2, <2>3, <2>4 DEF IInv
<1>5. CASE PurgeErase
  <2>1. i \in Address /\ rest \in SUBSET Address /\ MoveTo(rest) /\ now' = now
    BY <1>5 DEF PurgeErase, IInv, TypeOK
  <2>2. /\ m_tableRecords' \in Records
        /\ ~Has(m_tableRecords', i)
        /\ \A b \in Address : b # i => m_tableRecords'[b] = m_tableRecords[b]
    BY <1>0, <1>5, <2>1, RemoveResult DEF PurgeErase
  <2>3. TypeOK' /\ IteratorOK'
    BY <1>0, <2>1, <2>2, MoveToFacts, IteratorAssumption DEF TypeOK, IteratorOK
  <2>4. StampedInThePast'
    BY <2>1, <2>2 DEF IInv, StampedInThePast, Has
  <2>5. Keys = rest \cup {i} /\ i \notin rest
    BY <2>1, IteratorAssumption DEF IInv, IteratorCoversRecords, IteratorOK
  <2>6. Keys' = Keys \ {i}
    BY <2>1, <2>2 DEF Keys, Has
  <2>7. IteratorCoversRecords'
    BY <2>1, <2>5, <2>6, MoveToFacts DEF IteratorCoversRecords
  <2> QED
    BY <2>3, <2>4, <2>7 DEF IInv
<1>6. CASE UNCHANGED vars
  BY <1>6 DEF vars, IInv, TypeOK, StampedInThePast, IteratorOK,
              IteratorCoversRecords, Keys, Has
<1>7. CASE PurgeReturn
  BY <1>7, IteratorAssumption
  DEF PurgeReturn, IInv, TypeOK, StampedInThePast, IteratorOK,
      IteratorCoversRecords, Keys, Has
<1> QED
  BY <1>1, <1>2, <1>3, <1>4, <1>5, <1>6, <1>7 DEF Next, PurgeSpin

LEMMA SpecIInv == Spec => []IInv
BY InitIInv, NextIInv, PTL DEF Spec

-----------------------------------------------------------------------------
\* The type invariant, which includes that no negative trust is ever stored,
\* whatever the callers pass.
THEOREM TypeCorrect == Spec => []TypeOK
<1>1. IInv => TypeOK
  BY DEF IInv
<1> QED
  BY SpecIInv, <1>1, PTL

\* Records never carry a stamp from the future.
THEOREM StampsCorrect == Spec => []StampedInThePast
<1>1. IInv => StampedInThePast
  BY DEF IInv
<1> QED
  BY SpecIInv, <1>1, PTL

\* A running Purge has yet to look at exactly the records that are left.
THEOREM PurgeSkipsNothing == Spec => []IteratorCoversRecords
<1>1. IInv => IteratorCoversRecords
  BY DEF IInv
<1> QED
  BY SpecIInv, <1>1, PTL

\* With the iterator at the end nothing is left to look at, so nothing is left.
LEMMA EndIsEmpty == IInv => PurgeEndsEmpty
<1> SUFFICES ASSUME IInv, i = End PROVE m_tableRecords = NoRecords
  BY DEF PurgeEndsEmpty
<1>1. Keys = {}
  BY IteratorAssumption DEF IInv, IteratorOK, IteratorCoversRecords
<1>2. \A a \in Address : m_tableRecords[a] = NoEntry
  BY <1>1 DEF Keys, Has
<1> QED
  BY <1>2 DEF IInv, TypeOK, Records, NoRecords

\* Purge comes to the end of its loop only with an empty table: a Purge that
\* has a live record to keep does not come back.
THEOREM PurgeOnlyReturnsEmpty == Spec => []PurgeEndsEmpty
BY SpecIInv, EndIsEmpty, PTL

\* A running Purge takes out outdated records only.
THEOREM PurgeIsSelective == Spec => PurgeTakesOnlyOutdated
<1> DEFINE A == i # Idle => \A a \in Address :
                  m_tableRecords'[a] # m_tableRecords[a] =>
                    /\ Outdated(m_tableRecords, a, now)
                    /\ ~Has(m_tableRecords', a)
<1>1. IInv /\ [Next]_vars => [A]_vars
  <2> SUFFICES ASSUME IInv, Next PROVE A
    OBVIOUS
  <2> USE DEF IInv, TypeOK
  <2>1. CASE PurgeErase
    BY <2>1, RemoveResult DEF PurgeErase
  <2>2. CASE Tick \/ PurgeBegin \/ PurgeSpin \/ PurgeReturn
    BY <2>2 DEF Tick, PurgeBegin, PurgeSpin, PurgeReturn, vars
  <2>3. ASSUME i # Idle PROVE ~\E recs : Call(recs)
    BY <2>3 DEF Call
  <2> QED
    BY <2>1, <2>2, <2>3 DEF Next, Add, Update, AddOrUpdate, Remove, Call
<1> QED
  BY SpecIInv, <1>1, PTL DEF Spec, PurgeTakesOnlyOutdated

-----------------------------------------------------------------------------
\* Outside the loop the store is the table.
LEMMA KeptIsTable == m_tableRecords \in Records /\ i = Idle => KeptRecords = m_tableRecords
BY DEF KeptRecords, Records

\* A call that stores a value stores it, or does nothing.
LEMMA CallImplements ==
  ASSUME IInv, NEW a \in Address, NEW v \in Value,
         Add(a, v) \/ Update(a, v) \/ AddOrUpdate(a, v)
  PROVE  [TS!StoreNext]_(TS!svars)
<1>1. m_tableRecords \in Records /\ v \in Trust
  BY ValueAssumption DEF IInv, TypeOK
<1>2. i = Idle /\ i' = Idle /\ now' = now
  BY DEF Add, Update, AddOrUpdate, Call
<1>3. \/ m_tableRecords' = m_tableRecords
      \/ ~Negative(v) /\ m_tableRecords' = Store(m_tableRecords, a, v, now)
  BY DEF Add, Update, AddOrUpdate, Call, AddRecord, UpdateRecord,
         AddOrUpdateTrustTableEntry
<1>4. KeptRecords = m_tableRecords
  BY <1>1, <1>2, KeptIsTable
<1>5. KeptRecords' = m_tableRecords'
  <2>1. m_tableRecords' = [b \in Address |-> m_tableRecords'[b]]
    BY <1>1, <1>3 DEF Store, Records
  <2> QED
    BY <1>2, <2>1 DEF KeptRecords
<1>6. CASE m_tableRecords' = m_tableRecords
  BY <1>2, <1>4, <1>5, <1>6 DEF TS!svars
<1>7. CASE ~Negative(v) /\ m_tableRecords' = Store(m_tableRecords, a, v, now)
  <2>1. TS!Put(a, v)
    BY <1>2, <1>4, <1>5, <1>7 DEF TS!Put, TS!Negative, TS!Store, Negative, Store
  <2> QED
    BY <2>1 DEF TS!StoreNext
<1> QED
  BY <1>3, <1>6, <1>7

\* A record that is removed is dropped.
LEMMA RemoveImplements ==
  ASSUME IInv, NEW a \in Address, Remove(a)
  PROVE  TS!StoreNext
<1>1. /\ m_tableRecords \in Records /\ i = Idle /\ i' = Idle /\ now' = now
      /\ m_tableRecords' = RemoveRecord(m_tableRecords, a)
  BY DEF IInv, TypeOK, Remove, Call
<1>2. m_tableRecords' \in Records
  BY <1>1, RemoveResult
<1>3. KeptRecords = m_tableRecords /\ KeptRecords' = m_tableRecords'
  BY <1>1, <1>2 DEF KeptRecords, Records
<1>4. TS!Drop(a)
  BY <1>1, <1>3 DEF TS!Drop, TS!RemoveRecord, RemoveRecord
<1> QED
  BY <1>4 DEF TS!StoreNext

\* A purge that begins hides the outdated records: the whole effect that the
\* store's user sees.
LEMMA BeginImplements == IInv /\ PurgeBegin => TS!StoreNext
<1> SUFFICES ASSUME IInv, PurgeBegin PROVE TS!StoreNext
  OBVIOUS
<1>1. /\ i = Idle /\ i' # Idle
      /\ UNCHANGED <<m_tableRecords, now>>
  BY IteratorAssumption, MoveToFacts DEF PurgeBegin, Keys
<1>2. KeptRecords = m_tableRecords
  BY <1>1, KeptIsTable DEF IInv, TypeOK
<1>3. KeptRecords' = [a \in Address |-> IF a \in LiveAddresses(m_tableRecords, now)
                                        THEN m_tableRecords[a] ELSE NoEntry]
  BY <1>1 DEF KeptRecords
<1>4. TS!DropOutdated
  BY <1>1, <1>2, <1>3
  DEF TS!DropOutdated, TS!LiveAddresses, TS!Has, TS!Outdated, LiveAddresses, Has, Outdated
<1> QED
  BY <1>4 DEF TS!StoreNext

\* What the loop erases was hidden already.
LEMMA EraseImplements == IInv /\ PurgeErase => UNCHANGED TS!svars
<1> SUFFICES ASSUME IInv, PurgeErase PROVE UNCHANGED TS!svars
  OBVIOUS
<1>1. /\ m_tableRecords \in Records /\ rest \in SUBSET Address
      /\ i \in Address /\ Outdated(m_tableRecords, i, now)
      /\ MoveTo(rest) /\ now' = now
  BY DEF IInv, TypeOK, PurgeErase
<1>2. i # Idle /\ i' # Idle
  BY <1>1, IteratorAssumption, MoveToFacts
<1>3. /\ ~Has(m_tableRecords', i)
      /\ \A a \in Address : a # i => m_tableRecords'[a] = m_tableRecords[a]
  BY <1>1, RemoveResult DEF PurgeErase
<1>4. LiveAddresses(m_tableRecords', now') = LiveAddresses(m_tableRecords, now)
  BY <1>1, <1>3 DEF LiveAddresses, Has, Outdated
<1>5. \A a \in LiveAddresses(m_tableRecords, now) : m_tableRecords'[a] = m_tableRecords[a]
  BY <1>1, <1>3 DEF LiveAddresses
<1>6. KeptRecords' = KeptRecords
  BY <1>2, <1>4, <1>5 DEF KeptRecords
<1> QED
  BY <1>1, <1>6 DEF TS!svars

\* The loop ends with an empty table, so that nothing comes back into sight.
LEMMA ReturnImplements == IInv /\ PurgeReturn => UNCHANGED TS!svars
<1> SUFFICES ASSUME IInv, PurgeReturn PROVE UNCHANGED TS!svars
  OBVIOUS
<1>1. m_tableRecords = NoRecords /\ UNCHANGED <<m_tableRecords, now>>
  BY EndIsEmpty DEF PurgeEndsEmpty, PurgeReturn
<1>2. KeptRecords = NoRecords /\ KeptRecords' = NoRecords
  BY <1>1 DEF KeptRecords, NoRecords
<1> QED
  BY <1>1, <1>2 DEF TS!svars

\* The table implements the store, for every set of addresses and values and
\* every order of the keys: the loop of Purge, taken as a whole, drops the
\* outdated records when it begins and has no other effect, whether it comes
\* back or not.
THEOREM Implements == Spec => ImplementsStore
<1>1. Init => TS!StoreInit
  BY DEF Init, TS!StoreInit, KeptRecords, NoRecords, TS!NoRecords
<1>2. IInv /\ [Next]_vars => [TS!StoreNext]_(TS!svars)
  <2> SUFFICES ASSUME IInv, [Next]_vars PROVE [TS!StoreNext]_(TS!svars)
    OBVIOUS
  <2>1. CASE \E a \in Address, v \in Value : Add(a, v) \/ Update(a, v) \/ AddOrUpdate(a, v)
    BY <2>1, CallImplements
  <2>2. CASE \E a \in Address : Remove(a)
    BY <2>2, RemoveImplements
  <2>3. CASE Tick
    <3>1. i = Idle /\ i' = Idle /\ now' = now + 1 /\ m_tableRecords' = m_tableRecords
      BY <2>3 DEF Tick
    <3>2. UNCHANGED KeptRecords
      BY <3>1 DEF KeptRecords
    <3>3. TS!Advance
      BY <3>1, <3>2 DEF TS!Advance
    <3> QED
      BY <3>3 DEF TS!StoreNext
  <2>4. CASE PurgeBegin
    BY <2>4, BeginImplements
  <2>5. CASE PurgeErase
    BY <2>5, EraseImplements
  <2>6. CASE PurgeReturn
    BY <2>6, ReturnImplements
  <2>7. CASE UNCHANGED vars
    BY <2>7 DEF vars, TS!svars, KeptRecords
  <2> QED
    BY <2>1, <2>2, <2>3, <2>4, <2>5, <2>6, <2>7 DEF Next, PurgeSpin
<1> QED
  BY <1>1, <1>2, SpecIInv, PTL DEF Spec, ImplementsStore
=============================================================================
