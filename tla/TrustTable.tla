----------------------------- MODULE TrustTable -----------------------------
(***************************************************************************)
(* One trust table in a running simulation: the calls its owner makes and  *)
(* the iterator loop of Purge, which is not one step here because the code *)
(* advances the iterator only past a record it erases.  The simulator is   *)
(* single threaded: time moves, and other calls are made, only when no     *)
(* Purge is in progress.                                                   *)
(***************************************************************************)
EXTENDS TrustRecords

CONSTANTS
  Value,    \* the trust values callers pass, negative ones included
  MaxTime,  \* bound on the simulator clock
  Idle,     \* no Purge is running
  End       \* the iterator of a running Purge has reached map::end

ASSUME ValueAssumption == Value \subseteq Trust
ASSUME MaxTimeAssumption == MaxTime \in Nat
ASSUME IteratorAssumption == Idle \notin Address /\ End \notin Address /\ Idle # End

VARIABLES
  m_tableRecords,
  now,   \* Simulator::Now ()
  i,     \* Purge's iterator
  rest   \* the keys the iterator has still to reach

vars == <<m_tableRecords, now, i, rest>>

Keys == {a \in Address : Has(m_tableRecords, a)}

Init ==
  /\ m_tableRecords = NoRecords
  /\ now = 0
  /\ i = Idle
  /\ rest = {}

-----------------------------------------------------------------------------
\* A call that returns at once and changes the records only.
Call(recs) ==
  /\ i = Idle
  /\ m_tableRecords' = recs
  /\ UNCHANGED <<now, i, rest>>

Add(a, v)         == Call(AddRecord(m_tableRecords, a, v, now))
Update(a, v)      == Call(UpdateRecord(m_tableRecords, a, v, now))
AddOrUpdate(a, v) == Call(AddOrUpdateTrustTableEntry(m_tableRecords, a, v, now))
Remove(a)         == Call(RemoveRecord(m_tableRecords, a))

Tick ==
  /\ i = Idle
  /\ now < MaxTime
  /\ now' = now + 1
  /\ UNCHANGED <<m_tableRecords, i, rest>>

\* The iterator moves to one of the keys S, in an order that depends on how
\* addresses compare, or to the end.
MoveTo(S) ==
  \/ S = {} /\ i' = End /\ rest' = {}
  \/ \E a \in S : i' = a /\ rest' = S \ {a}

PurgeBegin ==
  /\ i = Idle
  /\ MoveTo(Keys)
  /\ UNCHANGED <<m_tableRecords, now>>

\* Mutant: erases whatever the iterator stands on.
PurgeErase_AnyRecord ==
  /\ i \in Address
  /\ m_tableRecords' = RemoveRecord(m_tableRecords, i)
  /\ MoveTo(rest)
  /\ UNCHANGED now

\* Mutant: increments the iterator a second time after the erase.
PurgeErase_SkipsOne ==
  /\ i \in Address
  /\ Outdated(m_tableRecords, i, now)
  /\ m_tableRecords' = RemoveRecord(m_tableRecords, i)
  /\ IF rest = {} THEN MoveTo({}) ELSE \E a \in rest : MoveTo(rest \ {a})
  /\ UNCHANGED now

\* Mutant: neither erases nor advances.
PurgeErase_Stands ==
  /\ i \in Address
  /\ Outdated(m_tableRecords, i, now)
  /\ UNCHANGED vars

PurgeErase ==
  /\ i \in Address
  /\ Outdated(m_tableRecords, i, now)
  /\ m_tableRecords' = RemoveRecord(m_tableRecords, i)
  /\ MoveTo(rest)
  /\ UNCHANGED now

\* A record that is not outdated leaves the iterator where it is.
PurgeSpin ==
  /\ i \in Address
  /\ ~Outdated(m_tableRecords, i, now)
  /\ UNCHANGED vars

PurgeReturn ==
  /\ i = End
  /\ i' = Idle
  /\ UNCHANGED <<m_tableRecords, now, rest>>

Purge == PurgeErase \/ PurgeSpin \/ PurgeReturn

Next ==
  \/ \E a \in Address, v \in Value : Add(a, v) \/ Update(a, v) \/ AddOrUpdate(a, v)
  \/ \E a \in Address : Remove(a)
  \/ Tick
  \/ PurgeBegin
  \/ PurgeErase
  \/ PurgeSpin
  \/ PurgeReturn

\* A loop that is running keeps running: nothing preempts it.
Fairness == WF_vars(Purge)

Spec == Init /\ [][Next]_vars /\ Fairness

-----------------------------------------------------------------------------
TypeOK ==
  /\ m_tableRecords \in Records
  /\ now \in Nat
  /\ i \in Address \cup {Idle, End}
  /\ rest \in SUBSET Address

\* No record is stamped later than the clock: an age is never negative, so
\* a record cannot be kept alive by a stamp from the future.
StampedInThePast ==
  \A a \in Address : Has(m_tableRecords, a) => m_tableRecords[a].timestamp <= now

\* While Purge runs, the records are exactly those the iterator has still to
\* look at: the loop never steps over a record and leaves it behind.
IteratorCoversRecords ==
  i # Idle => Keys = rest \cup ({i} \cap Address)

\* Purge reaches the end of its loop with an empty table, never with records
\* left in it: the surviving records it was meant to keep are records it is
\* still standing on.
PurgeEndsEmpty == i = End => m_tableRecords = NoRecords

\* A running Purge takes a record out only if it is outdated, and changes no
\* record it leaves in.
PurgeTakesOnlyOutdated ==
  [][i # Idle => \A a \in Address :
        m_tableRecords'[a] # m_tableRecords[a] =>
          /\ Outdated(m_tableRecords, a, now)
          /\ ~Has(m_tableRecords', a)]_vars

\* A Purge that starts when every record is outdated comes back.
PurgeOfOutdatedReturns ==
  (i # Idle /\ LiveAddresses(m_tableRecords, now) = {}) ~> (i = Idle)

\* A Purge that is called comes back.  trust-table.h, line 115, gives Purge the
\* job of deleting the outdated entries; the code never returns from it
\* when some entry is not outdated.
PurgeReturns == (i # Idle) ~> (i = Idle)

-----------------------------------------------------------------------------
\* The refinement mapping to TrustStore: a running Purge has already dropped
\* the outdated records.
KeptRecords ==
  [a \in Address |->
     IF i # Idle /\ a \notin LiveAddresses(m_tableRecords, now)
     THEN NoEntry ELSE m_tableRecords[a]]

TS == INSTANCE TrustStore WITH store <- KeptRecords, time <- now

\* The table implements the store, Purge's loop being one step of it.
ImplementsStore == TS!StoreInit /\ [][TS!StoreNext]_(TS!svars)
=============================================================================
