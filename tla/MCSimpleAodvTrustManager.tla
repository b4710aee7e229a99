---------------------- MODULE MCSimpleAodvTrustManager ----------------------
(* Instance of SimpleAodvTrustManager for TLC: two managers, two devices    *)
(* and two senders, interchangeable, and counters that wrap at three.       *)
EXTENDS SimpleAodvTrustManager, TLC

Symmetry == Permutations(Manager) \cup Permutations(Address)
=============================================================================
