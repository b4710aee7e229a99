----------------------------- MODULE MCAodvNode -----------------------------
(* Instance of AodvNode for TLC: a node that runs any of the protocols, two *)
(* neighbours, and further away d, which replies are about and which sends *)
(* requests, and an origin o that is only the latter; ratings of zero,      *)
(* below and above the threshold, and sequence numbers on both sides of the *)
(* wrap of the counter.                                                     *)
EXTENDS AodvNode, TLC

MCRating == {<<0, 1>>, <<2, 5>>}

Symmetry == Permutations(Manager) \cup Permutations(Neighbor)

\* Bound: at most three records; a route to a neighbour expires with at most
\* one; a reverse route has a node without either.
RecordsAndExpiries ==
  Cardinality({<<m, a>> \in Manager \X Neighbor : m_trustTable[m][a] # NoEntry})
    + 2 * Cardinality({a \in Neighbor : HasRoute(m_routingTable, a)
                                          /\ ~HasValidRoute(m_routingTable, a)})

Bound ==
  RecordsAndExpiries <=
    IF \E a \in RemoteOrigin \ Dst : HasRoute(m_routingTable, a) THEN 0 ELSE 3
=============================================================================
