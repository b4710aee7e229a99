---------------------------- MODULE TrustRecords ----------------------------
(***************************************************************************)
(* The operations of class TrustTable (trust-routing/model/trust-table.cc) *)
(* as functions of the map m_tableRecords.  The std::map is a function     *)
(* that gives NoEntry for an address without a record.  A TrustEntry holds *)
(* its address as well: it always equals the key, and is left out.         *)
(***************************************************************************)
EXTENDS TrustValue

CONSTANTS
  Address,   \* the addresses of the network's nodes
  LifeTime,  \* m_lifeTime, in simulator time units
  NoEntry    \* what the map gives for an address that has no record

\* Negative values are refused by every operation below.
TrustEntry == [trustValue : {p \in Trust : ~Negative(p)}, timestamp : Nat]

ASSUME LifeTimeAssumption == LifeTime \in Nat
ASSUME NoEntryAssumption  == NoEntry \notin TrustEntry

Records == [Address -> TrustEntry \cup {NoEntry}]

NoRecords == [a \in Address |-> NoEntry]

Has(recs, a) == recs[a] # NoEntry

\* LookupTrustEntry answers whether there is a record, and the record.
LookupTrustEntry(recs, a) == [found |-> Has(recs, a), entry |-> recs[a]]

\* Mutant: stamps the record with the time it will expire.
Store_StampsExpiry(recs, a, v, now) ==
  [recs EXCEPT ![a] = [trustValue |-> v, timestamp |-> now + LifeTime]]

Store(recs, a, v, now) ==
  [recs EXCEPT ![a] = [trustValue |-> v, timestamp |-> now]]

\* map::insert keeps the record that is already there.
AddRecord(recs, a, v, now) ==
  IF Negative(v) \/ Has(recs, a) THEN recs ELSE Store(recs, a, v, now)

\* Mutant: assigns the value and leaves the old timestamp.
UpdateRecord_OldStamp(recs, a, v, now) ==
  IF Negative(v) \/ ~Has(recs, a) THEN recs
  ELSE [recs EXCEPT ![a].trustValue = v]

UpdateRecord(recs, a, v, now) ==
  IF Negative(v) \/ ~Has(recs, a) THEN recs ELSE Store(recs, a, v, now)

RemoveRecord(recs, a) == [recs EXCEPT ![a] = NoEntry]

AddOrUpdateTrustTableEntry(recs, a, v, now) ==
  IF Negative(v) THEN recs
  ELSE IF Has(recs, a) THEN UpdateRecord(recs, a, v, now)
  ELSE AddRecord(recs, a, v, now)

\* The test of Purge's loop body.
Outdated(recs, a, now) == now - recs[a].timestamp > LifeTime

LiveAddresses(recs, now) == {a \in Address : Has(recs, a) /\ ~Outdated(recs, a, now)}

\* What a Purge leaves behind: no records, or, when a live record stops its
\* iterator for good, a table short of the outdated records met before.
PurgeReturnsFrom(recs, now) == LiveAddresses(recs, now) = {}

LeftByPurge(recs, now) ==
  IF PurgeReturnsFrom(recs, now) THEN {NoRecords}
  ELSE {[a \in Address |-> IF a \in erased THEN NoEntry ELSE recs[a]] :
          erased \in SUBSET {a \in Address : Has(recs, a) /\ Outdated(recs, a, now)}}
=============================================================================
