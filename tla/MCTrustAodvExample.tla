------------------------- MODULE MCTrustAodvExample -------------------------
(* Instance of TrustAodvExample for TLC: the example with and without its   *)
(* prints, ending before, at and after them, and free scripts of up to six  *)
(* calls.                                                                   *)
EXTENDS TrustAodvExample

Examples ==
  <<Main(TRUE, 50000), Main(TRUE, 55000), Main(TRUE, 100000), Main(FALSE, 100000)>>

SomeCalls ==
  {[call |-> "CreateNode"],
   [call |-> "SetManagerType", type |-> "ns3::TrustManager"],
   [call |-> "PrintTrustTableAllAt", time |-> 60000],
   [call |-> "PrintTrustTableAllEvery", time |-> 40000],
   [call |-> "PrintTrustTableAt", time |-> 0, node |-> 1],
   [call |-> "PrintTrustTableEvery", time |-> 30000, node |-> 2],
   [call |-> "InstallPing", node |-> 1, start |-> 30000, stop |-> 90000],
   [call |-> "Stop", time |-> 60000]}
  \cup {[call |-> "SetRoutingHelper", helpers |-> hs] :
          hs \in {<<"trust">>, <<"static", "malicious">>, <<"trust", "selfish">>}}
  \cup {[call |-> "Install", node |-> n] : n \in 1 .. 2}
  \cup {[call |-> "AssignStreams", helper |-> h, nodes |-> c] :
          h \in {"trust", "malicious", "selfish"}, c \in {<<1>>, <<2, 1, 2>>}}
=============================================================================
