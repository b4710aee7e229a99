---------------------------- MODULE MCTrustTable ----------------------------
(* Instance of TrustTable for TLC: a negative value, the value zero and a   *)
(* value above one half.                                                    *)
EXTENDS TrustTable

MCValue == {<<-1, 2>>, <<0, 1>>, <<3, 4>>}
=============================================================================
