---------------------------- MODULE MCTrustNode -----------------------------
(* Instance of TrustNode for TLC: one manager on one device, two neighbours *)
(* and a destination further away, and counters that wrap at four.          *)
EXTENDS TrustNode, FiniteSetsExt, TLC

Symmetry == Permutations(Neighbor)

Heard(m) == {a \in Neighbor : M!Known(m_trustParameters[m], a)}

\* Bound: a reply is counted once per neighbour, and requests until the counter
\* wraps; when time passes, two messages in all.  Routes to neighbours do not
\* expire, and there are no reverse routes.
Bound ==
  /\ \A m \in Manager :
       /\ \A a \in Heard(m) : Replies(m, a) <= 1
       /\ now > 0 => MapThenSumSet(LAMBDA a : Replies(m, a) + Requests(m, a), Heard(m)) <= 2
  /\ \A a \in RemoteOrigin \ Dst : ~N!HasRoute(m_routingTable, a)
  /\ \A a \in Neighbor : N!HasRoute(m_routingTable, a) => N!HasValidRoute(m_routingTable, a)
=============================================================================
