-------------------------- MODULE MCMoveToLocation --------------------------
(* Instances of MoveToLocation for TLC: the drives that the configurations  *)
(* in pyDARA/configs can lead to, those to e1, and drives of at least two  *)
(* and a half tiles that do not go west.                                    *)
EXTENDS MoveToLocation

ToE1 == {<<4, 2>>, <<3, 10>>, <<8, 8>>, <<12, 6>>, <<0, 6>>} \X {<<5, 5>>}

LongAndNotWest ==
  {<<<<0, 0>>, d>> : d \in {c \in (0 .. 7) \X (-7 .. 7) : c[1] + Gap(0, c[2]) >= 5}}

ToE1AndLong == ToE1 \cup LongAndNotWest

\* What the theorem about the wait asks of the drives.
ASSUME MovesAreLong == \A m \in Moves : LongEnough(m)
=============================================================================
