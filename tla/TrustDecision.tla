--------------------------- MODULE TrustDecision ----------------------------
(***************************************************************************)
(* How TrustRecvReply (trust-aodv-routing-protocol.cc) compares two next   *)
(* hops: it averages the records that the node's trust managers have for   *)
(* each, and distinguishes four cases.  A function from the node's trust   *)
(* managers to their tables is the parameter tables.                       *)
(***************************************************************************)
EXTENDS TrustRecords, FiniteSets, Folds

\* The managers that have a record for a.
RatedBy(tables, a) == {m \in DOMAIN tables : LookupTrustEntry(tables[m], a).found}

TrustValueSum(tables, a) ==
  MapThenFoldSet(Plus, Zero,
                 LAMBDA m : LookupTrustEntry(tables[m], a).entry.trustValue,
                 LAMBDA S : CHOOSE m \in S : TRUE,
                 RatedBy(tables, a))

\* Mutant: the sum in place of the average.
AvgTrustValue_Sum(tables, a) ==
  LET sum == TrustValueSum(tables, a) IN IF sum[1] # 0 THEN sum ELSE Half

\* The average, one half when the sum is 0: the code tests the sum, and not
\* the number of managers that rate the node.
AvgTrustValue(tables, a) ==
  LET sum == TrustValueSum(tables, a)
  IN  IF sum[1] # 0 THEN DivideBy(sum, Cardinality(RatedBy(tables, a))) ELSE Half

\* What the average means: one half only for a node that nobody rates.
MeanTrust(tables, a) ==
  IF RatedBy(tables, a) = {} THEN Half
  ELSE DivideBy(TrustValueSum(tables, a), Cardinality(RatedBy(tables, a)))

\* Mutant: one half itself is below the threshold.
AboveThreshold_Strict(p) == Less(Half, p)

AboveThreshold(p) == ~Less(p, Half)

\* The first case: the reply is handled as in plain AODV.
LetHopsDecide(old, new) == AboveThreshold(old) /\ AboveThreshold(new)

\* Mutant: deletes the old route without looking at the new next hop's trust.
DiscardOld_Unconditionally(old, new) == ~AboveThreshold(old)

\* The second case, and the fourth when the new next hop has more trust: the
\* old route is deleted first.  Otherwise the reply is discarded.
DiscardOld(old, new) ==
  /\ ~AboveThreshold(old)
  /\ AboveThreshold(new) \/ Less(old, new)
=============================================================================
