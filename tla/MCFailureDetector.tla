------------------------- MODULE MCFailureDetector -------------------------
(* Instance of FailureDetector for TLC: two neighbors, checked in order.    *)
EXTENDS FailureDetector

MCLinks == <<"h", "f">>
=============================================================================
