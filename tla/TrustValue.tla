----------------------------- MODULE TrustValue -----------------------------
(***************************************************************************)
(* Trust values.  The code keeps them as doubles; every value it computes  *)
(* is a quotient of packet counters or an average of such quotients, and   *)
(* it only tests a value against 0 and 0.5 and compares two values.  They  *)
(* are exact rationals here: a pair <<numerator, denominator>> with a      *)
(* positive denominator.                                                   *)
(***************************************************************************)
EXTENDS Integers

Trust == Int \X (Nat \ {0})

Zero == <<0, 1>>
Half == <<1, 2>>

\* The double comparison p < q.
Less(p, q) == p[1] * q[2] < q[1] * p[2]

Negative(p) == p[1] < 0

Plus(p, q) == <<p[1] * q[2] + q[1] * p[2], p[2] * q[2]>>

\* p divided by a positive integer.
DivideBy(p, n) == <<p[1], p[2] * n>>

InUnitInterval(p) == 0 <= p[1] /\ p[1] <= p[2]
=============================================================================
