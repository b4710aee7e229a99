----------------------------- MODULE TrustStore -----------------------------
(***************************************************************************)
(* What the trust table promises its users, without saying how: a store    *)
(* that keeps at most one stamped value per address, overwrites it, drops  *)
(* it on request, and drops all outdated values in one indivisible step    *)
(* that touches no other value (trust-table.h, lines 93-118).              *)
(***************************************************************************)
EXTENDS TrustRecords

CONSTANT Value  \* the trust values users put

VARIABLES store, time

svars == <<store, time>>

StoreInit == store = NoRecords /\ time = 0

Put(a, v) ==
  /\ ~Negative(v)
  /\ store' = Store(store, a, v, time)
  /\ UNCHANGED time

Drop(a) == store' = RemoveRecord(store, a) /\ UNCHANGED time

DropOutdated ==
  /\ store' = [a \in Address |->
                 IF a \in LiveAddresses(store, time) THEN store[a] ELSE NoEntry]
  /\ UNCHANGED time

Advance == time' = time + 1 /\ UNCHANGED store

StoreNext ==
  \/ \E a \in Address, v \in Value : Put(a, v)
  \/ \E a \in Address : Drop(a)
  \/ DropOutdated
  \/ Advance

StoreSpec == StoreInit /\ [][StoreNext]_svars
=============================================================================
