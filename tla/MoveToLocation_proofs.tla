------------------------ MODULE MoveToLocation_proofs ------------------------
(***************************************************************************)
(* Where every drive ends, and for which the others wait long enough.      *)
(*                                                                         *)
(* A drive is an opening, two legs and a closing.  A leg is turns, whole   *)
(* tiles, half tiles and turns; what is left of it determines where the    *)
(* robot is and how long the rest takes.                                   *)
(***************************************************************************)
EXTENDS MoveToLocation, SequenceTheorems, TLAPS

Command == {"open", "spin", "front", "half", "close"}

LEMMA RepeatType ==
  ASSUME NEW n \in Nat, NEW c \in Command
  PROVE  Repeat(n, c) \in Seq(Command) /\ Len(Repeat(n, c)) = n
BY DEF Repeat

\* What is left of a command that is given n times.
LEMMA RepeatStep ==
  ASSUME NEW n \in Nat, NEW c \in Command, NEW s \in Seq(Command)
  PROVE  LET t == Repeat(n, c) \o s IN
         /\ t \in Seq(Command)
         /\ n = 0 => t = s
         /\ n > 0 => t # <<>> /\ Head(t) = c /\ Tail(t) = Repeat(n - 1, c) \o s
<1> DEFINE r == Repeat(n, c)
           q == Repeat(n - 1, c)
           t == r \o s
           u == q \o s
<1>1. /\ r \in Seq(Command) /\ Len(r) = n /\ \A i \in 1 .. n : r[i] = c
  BY RepeatType DEF Repeat
<1> HIDE DEF r
<1>2. /\ t \in Seq(Command) /\ Len(t) = n + Len(s)
      /\ \A i \in 1 .. n + Len(s) : t[i] = IF i <= n THEN c ELSE s[i - n]
  <2>1. /\ t \in Seq(Command) /\ Len(t) = Len(r) + Len(s)
        /\ \A i \in 1 .. Len(r) + Len(s) : t[i] = IF i <= Len(r) THEN r[i] ELSE s[i - Len(r)]
    BY <1>1, ConcatProperties
  <2> HIDE DEF t
  <2> QED
    BY <1>1, <2>1
<1>3. CASE n = 0
  <2>1. r = <<>>
    BY <1>1, <1>3
  <2> QED
    BY <1>2, <1>3, <2>1, ConcatEmptySeq DEF r
<1>4. CASE n > 0
  <2>1. /\ q \in Seq(Command) /\ Len(q) = n - 1 /\ \A i \in 1 .. n - 1 : q[i] = c
    BY <1>4, RepeatType DEF Repeat
  <2> HIDE DEF q
  <2>2. /\ u \in Seq(Command) /\ Len(u) = n - 1 + Len(s)
        /\ \A i \in 1 .. n - 1 + Len(s) : u[i] = IF i <= n - 1 THEN c ELSE s[i - (n - 1)]
    <3>1. /\ u \in Seq(Command) /\ Len(u) = Len(q) + Len(s)
          /\ \A i \in 1 .. Len(q) + Len(s) : u[i] = IF i <= Len(q) THEN q[i] ELSE s[i - Len(q)]
      BY <2>1, ConcatProperties
    <3> HIDE DEF u
    <3> QED
      BY <2>1, <3>1
  <2> HIDE DEF t, u
  <2>3. Len(s) \in Nat
    OBVIOUS
  <2>4. t # <<>> /\ Head(t) = c
    BY <1>2, <1>4, <2>3
  <2>5. /\ Tail(t) \in Seq(Command) /\ Len(Tail(t)) = n - 1 + Len(s)
        /\ \A i \in 1 .. n - 1 + Len(s) : Tail(t)[i] = t[i + 1]
    <3>1. /\ Tail(t) \in Seq(Command) /\ Len(Tail(t)) = Len(t) - 1
          /\ \A i \in 1 .. Len(Tail(t)) : Tail(t)[i] = t[i + 1]
      BY <1>2, <2>4, HeadTailProperties
    <3>2. Len(t) - 1 = n - 1 + Len(s)
      BY <1>2, <2>3
    <3> QED
      BY <3>1, <3>2
  <2>6. \A i \in 1 .. n - 1 + Len(s) : Tail(t)[i] = u[i]
    <3> SUFFICES ASSUME NEW i \in 1 .. n - 1 + Len(s) PROVE Tail(t)[i] = u[i]
      OBVIOUS
    <3>1. i + 1 \in 1 .. n + Len(s) /\ (i + 1) - n = i - (n - 1) /\ (i + 1 <= n <=> i <= n - 1)
      BY <2>3
    <3> QED
      BY <1>2, <2>2, <2>5, <3>1
  <2>7. Tail(t) = u
    BY <2>2, <2>5, <2>6, SeqEqual
  <2> QED
    BY <1>2, <1>4, <2>4, <2>7 DEF t, u, r, q
<1>5. n = 0 \/ n > 0
  OBVIOUS
<1> QED
  BY <1>3, <1>4, <1>5, Zenon

Continues(t, c, rest) == t # <<>> /\ Head(t) = c /\ Tail(t) = rest

LEMMA RepeatNext ==
  ASSUME NEW n \in Nat, NEW c \in Command, NEW s \in Seq(Command)
  PROVE  /\ Repeat(n, c) \o s \in Seq(Command)
         /\ n = 0 => Repeat(n, c) \o s = s
         /\ n > 0 => Continues(Repeat(n, c) \o s, c, Repeat(n - 1, c) \o s)
<1>1. Repeat(n, c) \o s \in Seq(Command)
  BY RepeatStep
<1>2. n = 0 => Repeat(n, c) \o s = s
  BY RepeatStep
<1>3. n > 0 => Continues(Repeat(n, c) \o s, c, Repeat(n - 1, c) \o s)
  BY RepeatStep DEF Continues
<1> QED
  BY <1>1, <1>2, <1>3

-----------------------------------------------------------------------------
\* a turns, b whole tiles, c half tiles, e turns, and what comes then.
Leg(a, b, c, e, later) ==
  Repeat(a, "spin") \o (Repeat(b, "front") \o (Repeat(c, "half") \o (Repeat(e, "spin") \o later)))

LEMMA LegType ==
  ASSUME NEW a \in Nat, NEW b \in Nat, NEW c \in Nat, NEW e \in Nat,
         NEW later \in Seq(Command)
  PROVE  Leg(a, b, c, e, later) \in Seq(Command)
<1>1. {"spin", "front", "half"} \subseteq Command
  BY DEF Command
<1> DEFINE s1 == Repeat(e, "spin") \o later
           s2 == Repeat(c, "half") \o s1
           s3 == Repeat(b, "front") \o s2
<1>2. s1 \in Seq(Command)
  BY <1>1, RepeatStep
<1> HIDE DEF s1
<1>3. s2 \in Seq(Command)
  BY <1>1, <1>2, RepeatStep
<1> HIDE DEF s2
<1>4. s3 \in Seq(Command)
  BY <1>1, <1>3, RepeatStep
<1> HIDE DEF s3
<1>5. Repeat(a, "spin") \o s3 \in Seq(Command)
  BY <1>1, <1>4, RepeatStep
<1> QED
  BY <1>5 DEF Leg, s1, s2, s3

\* The command that a leg goes on with, and the rest of the leg.
LEMMA LegStep ==
  ASSUME NEW a \in Nat, NEW b \in Nat, NEW c \in Nat, NEW e \in Nat,
         NEW later \in Seq(Command)
  PROVE  LET s == Leg(a, b, c, e, later) IN
         /\ a > 0 => Continues(s, "spin", Leg(a - 1, b, c, e, later))
         /\ a = 0 /\ b > 0 =>
              Continues(s, "front", Leg(0, b - 1, c, e, later))
         /\ a = 0 /\ b = 0 /\ c > 0 =>
              Continues(s, "half", Leg(0, 0, c - 1, e, later))
         /\ a = 0 /\ b = 0 /\ c = 0 /\ e > 0 =>
              Continues(s, "spin", Leg(0, 0, 0, e - 1, later))
         /\ a = 0 /\ b = 0 /\ c = 0 /\ e = 0 => s = later
<1>1. "spin" \in Command /\ "front" \in Command /\ "half" \in Command
  BY DEF Command
<1> DEFINE s1 == Repeat(e, "spin") \o later
           s2 == Repeat(c, "half") \o s1
           s3 == Repeat(b, "front") \o s2
           s4 == Repeat(a, "spin") \o s3
<1>2. /\ s1 \in Seq(Command) /\ (e = 0 => s1 = later)
      /\ e > 0 => Continues(s1, "spin", Repeat(e - 1, "spin") \o later)
  BY <1>1, RepeatNext
<1> HIDE DEF s1
<1>3. /\ s2 \in Seq(Command) /\ (c = 0 => s2 = s1)
      /\ c > 0 => Continues(s2, "half", Repeat(c - 1, "half") \o s1)
  BY <1>1, <1>2, RepeatNext
<1> HIDE DEF s2
<1>4. /\ s3 \in Seq(Command) /\ (b = 0 => s3 = s2)
      /\ b > 0 => Continues(s3, "front", Repeat(b - 1, "front") \o s2)
  BY <1>1, <1>3, RepeatNext
<1> HIDE DEF s3
<1>5. /\ s4 \in Seq(Command) /\ (a = 0 => s4 = s3)
      /\ a > 0 => Continues(s4, "spin", Repeat(a - 1, "spin") \o s3)
  BY <1>1, <1>4, RepeatNext
<1> HIDE DEF s4
<1>6. s4 = Leg(a, b, c, e, later)
  BY DEF Leg, s1, s2, s3, s4
<1>7. \A t \in Seq(Command), d \in Command : Repeat(0, d) \o t = t
  <2>1. 0 \in Nat
    OBVIOUS
  <2> QED
    BY <2>1, RepeatNext
<1>8. /\ a > 0 => Repeat(a - 1, "spin") \o s3 = Leg(a - 1, b, c, e, later)
      /\ b > 0 => Repeat(b - 1, "front") \o s2 = Leg(0, b - 1, c, e, later)
      /\ c > 0 => Repeat(c - 1, "half") \o s1 = Leg(0, 0, c - 1, e, later)
      /\ e > 0 => Repeat(e - 1, "spin") \o later = Leg(0, 0, 0, e - 1, later)
  <2>1. a > 0 => Repeat(a - 1, "spin") \o s3 = Leg(a - 1, b, c, e, later)
    BY DEF Leg, s1, s2, s3
  <2>2. b > 0 => Repeat(b - 1, "front") \o s2 = Leg(0, b - 1, c, e, later)
    <3> SUFFICES ASSUME b > 0 PROVE Repeat(b - 1, "front") \o s2 = Leg(0, b - 1, c, e, later)
      OBVIOUS
    <3> DEFINE t == Repeat(b - 1, "front") \o s2
    <3>1. t \in Seq(Command)
      <4>1. b - 1 \in Nat
        OBVIOUS
      <4> QED
        BY <1>1, <1>3, <4>1, RepeatNext
    <3> HIDE DEF t
    <3>2. Repeat(0, "spin") \o t = t /\ Repeat(0, "front") \o t = t /\ Repeat(0, "half") \o t = t
      BY <1>1, <1>7, <3>1
    <3> QED
      BY <3>2 DEF t, Leg, s1, s2
  <2>3. c > 0 => Repeat(c - 1, "half") \o s1 = Leg(0, 0, c - 1, e, later)
    <3> SUFFICES ASSUME c > 0 PROVE Repeat(c - 1, "half") \o s1 = Leg(0, 0, c - 1, e, later)
      OBVIOUS
    <3> DEFINE t == Repeat(c - 1, "half") \o s1
    <3>1. t \in Seq(Command)
      <4>1. c - 1 \in Nat
        OBVIOUS
      <4> QED
        BY <1>1, <1>2, <4>1, RepeatNext
    <3> HIDE DEF t
    <3>2. Repeat(0, "spin") \o t = t /\ Repeat(0, "front") \o t = t /\ Repeat(0, "half") \o t = t
      BY <1>1, <1>7, <3>1
    <3> QED
      BY <3>2 DEF t, Leg, s1
  <2>4. e > 0 => Repeat(e - 1, "spin") \o later = Leg(0, 0, 0, e - 1, later)
    <3> SUFFICES ASSUME e > 0 PROVE Repeat(e - 1, "spin") \o later = Leg(0, 0, 0, e - 1, later)
      OBVIOUS
    <3> DEFINE t == Repeat(e - 1, "spin") \o later
    <3>1. t \in Seq(Command)
      <4>1. e - 1 \in Nat
        OBVIOUS
      <4> QED
        BY <1>1, <4>1, RepeatNext
    <3> HIDE DEF t
    <3>2. Repeat(0, "spin") \o t = t /\ Repeat(0, "front") \o t = t /\ Repeat(0, "half") \o t = t
      BY <1>1, <1>7, <3>1
    <3> QED
      BY <3>2 DEF t, Leg
  <2> QED
    BY <2>1, <2>2, <2>3, <2>4
<1> QED
  BY <1>2, <1>3, <1>4, <1>5, <1>6, <1>8

LEMMA Joined ==
  ASSUME NEW x \in Seq(Command), NEW y \in Seq(Command)
  PROVE  x \o y \in Seq(Command)
BY ConcatProperties

Regroups(x, y, z) == (x \o y) \o z = x \o (y \o z)

LEMMA Regrouped ==
  ASSUME NEW x \in Seq(Command), NEW y \in Seq(Command), NEW z \in Seq(Command)
  PROVE  Regroups(x, y, z)
BY ConcatAssociative DEF Regroups

\* A chain of five sequences may be put together from its end.
Chained(p, q, r, s, t) ==
  /\ (p \o (q \o r)) \o s \in Seq(Command)
  /\ ((p \o (q \o r)) \o s) \o t = p \o (q \o (r \o (s \o t)))

LEMMA FiveRegrouped ==
  ASSUME NEW p \in Seq(Command), NEW q \in Seq(Command), NEW r \in Seq(Command),
         NEW s \in Seq(Command), NEW t \in Seq(Command)
  PROVE  Chained(p, q, r, s, t)
<1>1. q \o r \in Seq(Command)
  BY Joined
<1>2. s \o t \in Seq(Command)
  BY Joined
<1>3. p \o (q \o r) \in Seq(Command)
  BY <1>1, Joined
<1>4. (p \o (q \o r)) \o s \in Seq(Command)
  BY <1>3, Joined
<1>5. Regroups(p \o (q \o r), s, t)
  BY <1>3, Regrouped
<1>6. Regroups(p, q \o r, s \o t)
  BY <1>1, <1>2, Regrouped
<1>7. Regroups(q, r, s \o t)
  BY <1>2, Regrouped
<1> QED
  BY <1>4, <1>5, <1>6, <1>7, Zenon DEF Regroups, Chained

\* Turns, a straight line of d half tiles, turns, as a leg.
StraightIsLeg(a, d, e, later) ==
  LET s == Repeat(a, "spin") \o Straight(d) \o Repeat(e, "spin")
  IN s \in Seq(Command) /\ s \o later = Leg(a, d \div 2, d % 2, e, later)

LEMMA LegOfStraight ==
  ASSUME NEW a \in Nat, NEW d \in Nat, NEW e \in Nat, NEW later \in Seq(Command)
  PROVE  StraightIsLeg(a, d, e, later)
<1>1. "spin" \in Command /\ "front" \in Command /\ "half" \in Command
  BY DEF Command
<1>2. d \div 2 \in Nat /\ d % 2 \in Nat
  OBVIOUS
<1>3. Repeat(a, "spin") \in Seq(Command)
  BY <1>1, RepeatType
<1>4. Repeat(d \div 2, "front") \in Seq(Command)
  BY <1>1, <1>2, RepeatType
<1>5. Repeat(d % 2, "half") \in Seq(Command)
  BY <1>1, <1>2, RepeatType
<1>6. Repeat(e, "spin") \in Seq(Command)
  BY <1>1, RepeatType
<1>7. Chained(Repeat(a, "spin"), Repeat(d \div 2, "front"), Repeat(d % 2, "half"),
              Repeat(e, "spin"), later)
  BY <1>3, <1>4, <1>5, <1>6, FiveRegrouped
<1> QED
  BY <1>7, Zenon DEF Chained, Straight, Leg, StraightIsLeg

\* The two legs of a drive.
Size(d) == IF d < 0 THEN -d ELSE d
XTurns(d) == IF d < 0 THEN 2 ELSE 0
YTurns(d) == IF d > 0 THEN 3 ELSE IF d < 0 THEN 1 ELSE 0
YTurnsBack(d) == IF d > 0 THEN 1 ELSE IF d < 0 THEN 3 ELSE 0

YLeg(d) == Leg(YTurns(d), Size(d) \div 2, Size(d) % 2, YTurnsBack(d), <<"close">>)
XLeg(d, later) == Leg(XTurns(d), Size(d) \div 2, Size(d) % 2, XTurns(d), later)

LEMMA RepeatNone ==
  ASSUME NEW c \in Command, NEW s \in Seq(Command)
  PROVE  Repeat(0, c) \o s = s /\ s \o Repeat(0, c) = s
<1>1. Repeat(0, c) = <<>>
  BY RepeatType
<1> QED
  BY <1>1, ConcatEmptySeq

LEMMA XDrive ==
  ASSUME NEW d \in Int, NEW later \in Seq(Command)
  PROVE  DriveX(d) \in Seq(Command) /\ DriveX(d) \o later = XLeg(d, later)
<1>1. CASE d < 0
  <2>1. Size(d) = -d /\ XTurns(d) = 2
    BY <1>1 DEF Size, XTurns
  <2>2. DriveX(d) = Repeat(2, "spin") \o Straight(-d) \o Repeat(2, "spin")
    BY <1>1 DEF DriveX
  <2>3. -d \in Nat
    BY <1>1
  <2>4. 2 \in Nat
    OBVIOUS
  <2>5. StraightIsLeg(2, -d, 2, later)
    BY <2>3, <2>4, LegOfStraight
  <2> QED
    BY <2>1, <2>2, <2>5, Zenon DEF XLeg, StraightIsLeg
<1>2. CASE d >= 0
  <2>1. d \in Nat /\ Size(d) = d /\ XTurns(d) = 0
    BY <1>2 DEF Size, XTurns
  <2>2. DriveX(d) = Straight(d)
    BY <1>2 DEF DriveX
  <2>3. Straight(d) \in Seq(Command)
    <3>1. "front" \in Command /\ "half" \in Command
      BY DEF Command
    <3>2. d \div 2 \in Nat /\ d % 2 \in Nat
      BY <2>1
    <3>3. Repeat(d \div 2, "front") \in Seq(Command) /\ Repeat(d % 2, "half") \in Seq(Command)
      BY <3>1, <3>2, RepeatType
    <3> QED
      BY <3>3, ConcatProperties DEF Straight
  <2>4. Repeat(0, "spin") \o Straight(d) \o Repeat(0, "spin") = Straight(d)
    <3>1. "spin" \in Command
      BY DEF Command
    <3> QED
      BY <2>3, <3>1, RepeatNone
  <2>5. StraightIsLeg(0, d, 0, later)
    <3>1. d \in Nat
      BY <1>2
    <3>2. 0 \in Nat
      OBVIOUS
    <3> QED
      BY <3>1, <3>2, LegOfStraight
  <2> QED
    BY <2>1, <2>2, <2>3, <2>4, <2>5, Zenon DEF XLeg, StraightIsLeg
<1> QED
  BY <1>1, <1>2

LEMMA CloseType == <<"close">> \in Seq(Command)
BY DEF Command

LEMMA YDrive ==
  ASSUME NEW d \in Int
  PROVE  DriveY(d) \in Seq(Command) /\ DriveY(d) \o <<"close">> = YLeg(d)
<1>1. CASE d > 0
  <2>1. d \in Nat /\ Size(d) = d /\ YTurns(d) = 3 /\ YTurnsBack(d) = 1
    BY <1>1 DEF Size, YTurns, YTurnsBack
  <2>2. DriveY(d) = Repeat(3, "spin") \o Straight(d) \o Repeat(1, "spin")
    BY <1>1 DEF DriveY
  <2>3. d \in Nat
    BY <1>1
  <2>4. 1 \in Nat
    OBVIOUS
  <2>5. 3 \in Nat
    OBVIOUS
  <2>6. StraightIsLeg(3, d, 1, <<"close">>)
    BY <2>3, <2>4, <2>5, CloseType, LegOfStraight
  <2> QED
    BY <2>1, <2>2, <2>6, Zenon DEF YLeg, StraightIsLeg
<1>2. CASE d < 0
  <2>1. -d \in Nat /\ Size(d) = -d /\ YTurns(d) = 1 /\ YTurnsBack(d) = 3
    BY <1>2 DEF Size, YTurns, YTurnsBack
  <2>2. DriveY(d) = Repeat(1, "spin") \o Straight(-d) \o Repeat(3, "spin")
    BY <1>2 DEF DriveY
  <2>3. -d \in Nat
    BY <1>2
  <2>4. 1 \in Nat
    OBVIOUS
  <2>5. 3 \in Nat
    OBVIOUS
  <2>6. StraightIsLeg(1, -d, 3, <<"close">>)
    BY <2>3, <2>4, <2>5, CloseType, LegOfStraight
  <2> QED
    BY <2>1, <2>2, <2>6, Zenon DEF YLeg, StraightIsLeg
<1>3. CASE d = 0
  <2>1. DriveY(d) = <<>>
    BY <1>3 DEF DriveY
  <2>2. DriveY(d) \in Seq(Command) /\ DriveY(d) \o <<"close">> = <<"close">>
    BY <2>1, CloseType, ConcatEmptySeq
  <2>3. Size(d) \div 2 = 0 /\ Size(d) % 2 = 0 /\ YTurns(d) = 0 /\ YTurnsBack(d) = 0
    BY <1>3 DEF Size, YTurns, YTurnsBack
  <2>4. Leg(0, 0, 0, 0, <<"close">>) = <<"close">>
    BY CloseType, LegStep
  <2> QED
    BY <2>2, <2>3, <2>4 DEF YLeg
<1> QED
  BY <1>1, <1>2, <1>3

LEMMA YLegType == ASSUME NEW d \in Int PROVE YLeg(d) \in Seq(Command)
BY YDrive, CloseType, ConcatProperties

LEMMA AllCommands ==
  ASSUME NEW m, m[1] \in Int \X Int, m[2] \in Int \X Int
  PROVE  /\ XLeg(m[2][1] - m[1][1], YLeg(m[2][2] - m[1][2])) \in Seq(Command)
         /\ Commands(m[1], m[2]) =
              <<"open">> \o XLeg(m[2][1] - m[1][1], YLeg(m[2][2] - m[1][2]))
<1> DEFINE x == DriveX(m[2][1] - m[1][1])
           y == DriveY(m[2][2] - m[1][2])
<1>1. m[2][1] - m[1][1] \in Int /\ m[2][2] - m[1][2] \in Int
  OBVIOUS
<1>2. /\ x \in Seq(Command) /\ y \in Seq(Command) /\ y \o <<"close">> = YLeg(m[2][2] - m[1][2])
      /\ YLeg(m[2][2] - m[1][2]) \in Seq(Command)
  BY <1>1, XDrive, YDrive, YLegType
<1>3. x \o YLeg(m[2][2] - m[1][2]) = XLeg(m[2][1] - m[1][1], YLeg(m[2][2] - m[1][2]))
  BY <1>1, <1>2, XDrive
<1>4. <<"open">> \in Seq(Command)
  BY DEF Command
<1>5. Commands(m[1], m[2]) = ((<<"open">> \o x) \o y) \o <<"close">>
  BY DEF Commands
<1>6. ((<<"open">> \o x) \o y) \o <<"close">> = <<"open">> \o (x \o (y \o <<"close">>))
  <2>1. x \in Seq(Command)
    BY <1>2
  <2>2. y \in Seq(Command)
    BY <1>2
  <2> HIDE DEF x, y
  <2>3. <<"open">> \o x \in Seq(Command)
    BY <1>4, <2>1, Joined
  <2>4. y \o <<"close">> \in Seq(Command)
    BY <2>2, CloseType, Joined
  <2>5. Regroups(<<"open">> \o x, y, <<"close">>)
    BY <2>2, <2>3, CloseType, Regrouped
  <2>6. Regroups(<<"open">>, x, y \o <<"close">>)
    BY <1>4, <2>1, <2>4, Regrouped
  <2> QED
    BY <2>5, <2>6, Zenon DEF Regroups
<1>7. x \o YLeg(m[2][2] - m[1][2]) \in Seq(Command)
  <2>1. x \in Seq(Command)
    BY <1>2
  <2>2. YLeg(m[2][2] - m[1][2]) \in Seq(Command)
    BY <1>2
  <2> QED
    BY <2>1, <2>2, Joined
<1> QED
  BY <1>2, <1>3, <1>5, <1>6, <1>7

-----------------------------------------------------------------------------
\* The inductive invariant: what is left of a drive, where the robot is and
\* what time it is belong together.

\* The place n half tiles before goal on the way towards Heading[h + 1].
Behind(goal, n, h) ==
  CASE h = 0 -> <<goal[1] - n, goal[2]>>
    [] h = 1 -> <<goal[1], goal[2] + n>>
    [] h = 2 -> <<goal[1] + n, goal[2]>>
    [] OTHER -> <<goal[1], goal[2] - n>>

LegTime(a, b, c, e) == 124 * (a + e) + 166 * b + 103 * c
XTime(d) == LegTime(XTurns(d), Size(d) \div 2, Size(d) % 2, XTurns(d))
YTime(d) == LegTime(YTurns(d), Size(d) \div 2, Size(d) % 2, YTurnsBack(d))

Across(m) == m[2][1] - m[1][1]
Up(m) == m[2][2] - m[1][2]
Total(m) == 160 + XTime(Across(m)) + YTime(Up(m)) + 160
Corner(m) == <<m[2][1], m[1][2]>>

\* On a leg to goal: the straight line that is left ends there, the turns that
\* are left end in the east, and the time that is left is what is missing.
LegLeft(a, b, c, e, goal, later, rest) ==
  /\ commands = Leg(a, b, c, e, later)
  /\ place = Behind(goal, 2 * b + c, (facing - 1 + a) % 4)
  /\ (facing - 1 + a + e) % 4 = 0
  /\ elapsed + LegTime(a, b, c, e) + rest = Total(move)

OnLeg(goal, later, rest) ==
  \E a, b, c, e \in Nat : LegLeft(a, b, c, e, goal, later, rest)

AtStart ==
  /\ commands = <<"open">> \o XLeg(Across(move), YLeg(Up(move)))
  /\ place = move[1] /\ facing = 1 /\ elapsed = 0
OnXLeg == OnLeg(Corner(move), YLeg(Up(move)), YTime(Up(move)) + 160)
OnYLeg == OnLeg(move[2], <<"close">>, 160)
Arrived ==
  /\ commands = <<>>
  /\ place = move[2] /\ facing = 1 /\ elapsed = Total(move)

DriveInv ==
  /\ move \in Moves /\ facing \in 1 .. 4 /\ elapsed \in Nat
  /\ AtStart \/ OnXLeg \/ OnYLeg \/ Arrived

\* Goals and moves have coordinates.
LEMMA MoveType ==
  ASSUME NEW m \in Moves
  PROVE  /\ m[1] \in Int \X Int /\ m[2] \in Int \X Int /\ Corner(m) \in Int \X Int
         /\ Across(m) \in Int /\ Up(m) \in Int
<1>1. m[1] \in Int \X Int /\ m[2] \in Int \X Int
  BY MovesAssumption
<1> QED
  BY <1>1 DEF Corner, Across, Up

LEMMA Halves ==
  ASSUME NEW n \in Nat
  PROVE  n \div 2 \in Nat /\ n % 2 \in Nat /\ 2 * (n \div 2) + (n % 2) = n
OBVIOUS

LEMMA LegNumbers ==
  ASSUME NEW d \in Int
  PROVE  /\ Size(d) \in Nat /\ Size(d) \div 2 \in Nat /\ Size(d) % 2 \in Nat
         /\ 2 * (Size(d) \div 2) + (Size(d) % 2) = Size(d)
         /\ XTurns(d) \in Nat /\ YTurns(d) \in Nat /\ YTurnsBack(d) \in Nat
<1>1. Size(d) \in Nat
  BY DEF Size
<1>2. XTurns(d) \in Nat /\ YTurns(d) \in Nat /\ YTurnsBack(d) \in Nat
  BY DEF XTurns, YTurns, YTurnsBack
<1> QED
  BY <1>1, <1>2, Halves

LEMMA LegTimeType ==
  ASSUME NEW a \in Nat, NEW b \in Nat, NEW c \in Nat, NEW e \in Nat
  PROVE  LegTime(a, b, c, e) \in Nat
BY DEF LegTime

LEMMA TimesType ==
  ASSUME NEW d \in Int
  PROVE  XTime(d) \in Nat /\ YTime(d) \in Nat
BY LegNumbers, LegTimeType DEF XTime, YTime

\* Where a movement of k half tiles leads.
LEMMA AdvanceTo ==
  ASSUME NEW goal \in Int \X Int, NEW n \in Int, NEW k \in 1 .. 2, facing \in 1 .. 4,
         place = Behind(goal, n, facing - 1), Advance(k)
  PROVE  place' = Behind(goal, n - k, facing - 1)
<1>1. goal[1] \in Int /\ goal[2] \in Int
  OBVIOUS
<1>2. CASE facing = 1
  <2>1. Heading[facing][1] = 1 /\ Heading[facing][2] = 0
    BY <1>2 DEF Heading
  <2> QED
    BY <1>1, <1>2, <2>1 DEF Advance, Behind
<1>3. CASE facing = 2
  <2>1. Heading[facing][1] = 0 /\ Heading[facing][2] = -1
    BY <1>3 DEF Heading
  <2> QED
    BY <1>1, <1>3, <2>1 DEF Advance, Behind
<1>4. CASE facing = 3
  <2>1. Heading[facing][1] = -1 /\ Heading[facing][2] = 0
    BY <1>4 DEF Heading
  <2> QED
    BY <1>1, <1>4, <2>1 DEF Advance, Behind
<1>5. CASE facing = 4
  <2>1. Heading[facing][1] = 0 /\ Heading[facing][2] = 1
    BY <1>5 DEF Heading
  <2> QED
    BY <1>1, <1>5, <2>1 DEF Advance, Behind
<1> QED
  BY <1>2, <1>3, <1>4, <1>5

LEMMA TurnOn ==
  ASSUME NEW f \in 1 .. 4, NEW n \in Nat
  PROVE  /\ (f % 4) + 1 \in 1 .. 4
         /\ n > 0 => (((f % 4) + 1) - 1 + (n - 1)) % 4 = (f - 1 + n) % 4
         /\ (f - 1 + 0) % 4 = f - 1
OBVIOUS

\* The only action that is possible before a given command.
LEMMA Only ==
  ASSUME NEW r, Next
  PROVE  /\ Continues(commands, "open", r) => Open /\ commands' = r
         /\ Continues(commands, "front", r) => Tile /\ commands' = r
         /\ Continues(commands, "half", r) => HalfTile /\ commands' = r
         /\ Continues(commands, "spin", r) => Spin /\ commands' = r
         /\ Continues(commands, "close", r) => Close /\ commands' = r
BY DEF Next, Open, Tile, HalfTile, Spin, Close, Do, Continues

\* One step on a leg, or the end of the leg.
LegOver(goal, later, rest) ==
  commands = later /\ place = goal /\ facing = 1 /\ elapsed + rest = Total(move)

LEMMA OnLegStep ==
  ASSUME NEW goal \in Int \X Int, NEW later \in Seq(Command), NEW rest \in Nat,
         facing \in 1 .. 4, elapsed \in Nat, Total(move) \in Nat,
         OnLeg(goal, later, rest), Next
  PROVE  \/ LegOver(goal, later, rest)
         \/ move' = move /\ facing' \in 1 .. 4 /\ elapsed' \in Nat /\ OnLeg(goal, later, rest)'
<1>1. PICK a \in Nat, b \in Nat, c \in Nat, e \in Nat : LegLeft(a, b, c, e, goal, later, rest)
  BY DEF OnLeg
<1>2. goal[1] \in Int /\ goal[2] \in Int /\ goal = <<goal[1], goal[2]>>
  OBVIOUS
<1>3. CASE a > 0
  <2>1. Continues(commands, "spin", Leg(a - 1, b, c, e, later))
    BY <1>1, <1>3, LegStep DEF LegLeft
  <2>2. Spin /\ commands' = Leg(a - 1, b, c, e, later)
    BY <2>1, Only
  <2>3. /\ facing' = (facing % 4) + 1 /\ place' = place /\ move' = move
        /\ elapsed' = elapsed + 124
    BY <2>2 DEF Spin, Do, Time, Rest
  <2>4. facing' \in 1 .. 4 /\ (facing' - 1 + (a - 1)) % 4 = (facing - 1 + a) % 4
    BY <1>3, <2>3
  <2>5. (facing' - 1 + (a - 1) + e) % 4 = 0
    BY <1>1, <1>3, <2>3, <2>4 DEF LegLeft
  <2>6. elapsed' + LegTime(a - 1, b, c, e) + rest = Total(move)
    BY <1>1, <2>3 DEF LegLeft, LegTime
  <2>7. LegLeft(a - 1, b, c, e, goal, later, rest)'
    BY <1>1, <2>2, <2>3, <2>4, <2>5, <2>6 DEF LegLeft
  <2>8. a - 1 \in Nat
    BY <1>3
  <2>9. OnLeg(goal, later, rest)'
    BY <2>7, <2>8 DEF OnLeg
  <2> QED
    BY <2>3, <2>4, <2>9
<1>4. CASE a = 0 /\ b > 0
  <2>1. Continues(commands, "front", Leg(0, b - 1, c, e, later))
    BY <1>1, <1>4, LegStep DEF LegLeft
  <2>2. Tile /\ commands' = Leg(0, b - 1, c, e, later)
    BY <2>1, Only
  <2>3. /\ Advance(2) /\ facing' = facing /\ move' = move /\ elapsed' = elapsed + 166
    BY <2>2 DEF Tile, Do, Time, Rest
  <2>4. (facing - 1 + a) % 4 = facing - 1 /\ (facing - 1 + 0) % 4 = facing - 1
    BY <1>4
  <2>5. place = Behind(goal, 2 * b + c, facing - 1)
    BY <1>1, <2>4 DEF LegLeft
  <2>6. 2 * b + c \in Int /\ (2 * b + c) - 2 = 2 * (b - 1) + c
    OBVIOUS
  <2>7. place' = Behind(goal, (2 * b + c) - 2, facing - 1)
    BY <2>3, <2>5, <2>6, AdvanceTo
  <2>8. elapsed' + LegTime(0, b - 1, c, e) + rest = Total(move)
    BY <1>1, <1>4, <2>3 DEF LegLeft, LegTime
  <2>9. (facing - 1 + 0 + e) % 4 = 0
    BY <1>1, <1>4 DEF LegLeft
  <2>10. LegLeft(0, b - 1, c, e, goal, later, rest)'
    BY <2>2, <2>3, <2>4, <2>6, <2>7, <2>8, <2>9 DEF LegLeft
  <2>11. b - 1 \in Nat /\ 0 \in Nat
    BY <1>4
  <2>12. OnLeg(goal, later, rest)'
    BY <2>10, <2>11 DEF OnLeg
  <2> QED
    BY <2>3, <2>12
<1>5. CASE a = 0 /\ b = 0 /\ c > 0
  <2>1. Continues(commands, "half", Leg(0, 0, c - 1, e, later))
    BY <1>1, <1>5, LegStep DEF LegLeft
  <2>2. HalfTile /\ commands' = Leg(0, 0, c - 1, e, later)
    BY <2>1, Only
  <2>3. /\ Advance(1) /\ facing' = facing /\ move' = move /\ elapsed' = elapsed + 103
    BY <2>2 DEF HalfTile, Do, Time, Rest
  <2>4. (facing - 1 + a) % 4 = facing - 1 /\ (facing - 1 + 0) % 4 = facing - 1
    BY <1>5
  <2>5. 2 * b + c = c /\ 2 * 0 + (c - 1) = c - 1
    BY <1>5
  <2>6. place = Behind(goal, c, facing - 1)
    BY <1>1, <2>4, <2>5 DEF LegLeft
  <2>7. place' = Behind(goal, c - 1, facing - 1)
    BY <2>3, <2>6, AdvanceTo
  <2>8. elapsed' + LegTime(0, 0, c - 1, e) + rest = Total(move)
    BY <1>1, <1>5, <2>3 DEF LegLeft, LegTime
  <2>9. (facing - 1 + 0 + e) % 4 = 0
    BY <1>1, <1>5 DEF LegLeft
  <2>10. LegLeft(0, 0, c - 1, e, goal, later, rest)'
    BY <2>2, <2>3, <2>4, <2>5, <2>7, <2>8, <2>9 DEF LegLeft
  <2>11. c - 1 \in Nat /\ 0 \in Nat
    BY <1>5
  <2>12. OnLeg(goal, later, rest)'
    BY <2>10, <2>11 DEF OnLeg
  <2> QED
    BY <2>3, <2>12
<1>6. CASE a = 0 /\ b = 0 /\ c = 0 /\ e > 0
  <2>1. Continues(commands, "spin", Leg(0, 0, 0, e - 1, later))
    BY <1>1, <1>6, LegStep DEF LegLeft
  <2>2. Spin /\ commands' = Leg(0, 0, 0, e - 1, later)
    BY <2>1, Only
  <2>3. /\ facing' = (facing % 4) + 1 /\ place' = place /\ move' = move
        /\ elapsed' = elapsed + 124
    BY <2>2 DEF Spin, Do, Time, Rest
  <2>4. facing' \in 1 .. 4
    BY <2>3
  <2>5. (facing' - 1 + 0 + (e - 1)) % 4 = 0
    BY <1>1, <1>6, <2>3, <2>4 DEF LegLeft
  <2>6. elapsed' + LegTime(0, 0, 0, e - 1) + rest = Total(move)
    BY <1>1, <1>6, <2>3 DEF LegLeft, LegTime
  <2>7. 2 * b + c = 0 /\ 2 * 0 + 0 = 0
    BY <1>6
  <2>8. \A h \in Int : Behind(goal, 0, h) = goal
    BY <1>2 DEF Behind
  <2>9. place = goal
    <3>1. (facing - 1 + a) % 4 \in Int
      OBVIOUS
    <3> QED
      BY <1>1, <2>7, <2>8, <3>1 DEF LegLeft
  <2>10. place' = Behind(goal, 2 * 0 + 0, (facing' - 1 + 0) % 4)
    <3>1. (facing' - 1 + 0) % 4 \in Int
      BY <2>4
    <3> QED
      BY <2>3, <2>7, <2>8, <2>9, <3>1
  <2>11. LegLeft(0, 0, 0, e - 1, goal, later, rest)'
    BY <2>2, <2>3, <2>5, <2>6, <2>10 DEF LegLeft
  <2>12. e - 1 \in Nat /\ 0 \in Nat
    BY <1>6
  <2>13. OnLeg(goal, later, rest)'
    BY <2>11, <2>12 DEF OnLeg
  <2> QED
    BY <2>3, <2>4, <2>13
<1>7. CASE a = 0 /\ b = 0 /\ c = 0 /\ e = 0
  <2>1. commands = later
    BY <1>1, <1>7, LegStep DEF LegLeft
  <2>2. (facing - 1 + 0 + 0) % 4 = 0 /\ (facing - 1 + a) % 4 = facing - 1
    BY <1>1, <1>7 DEF LegLeft
  <2>3. facing = 1
    BY <2>2
  <2>4. 2 * b + c = 0 /\ LegTime(a, b, c, e) = 0
    BY <1>7 DEF LegTime
  <2>5. place = Behind(goal, 0, 0)
    <3>1. place = Behind(goal, 2 * b + c, (facing - 1 + a) % 4)
      BY <1>1 DEF LegLeft
    <3>2. (facing - 1 + a) % 4 = 0
      BY <2>2, <2>3
    <3> QED
      BY <2>4, <3>1, <3>2
  <2>6. place = goal
    BY <1>2, <2>5 DEF Behind
  <2>7. elapsed + rest = Total(move)
    <3>1. elapsed + LegTime(a, b, c, e) + rest = Total(move)
      BY <1>1 DEF LegLeft
    <3> QED
      BY <2>4, <3>1
  <2> QED
    BY <2>1, <2>3, <2>6, <2>7 DEF LegOver
<1> QED
  BY <1>3, <1>4, <1>5, <1>6, <1>7

-----------------------------------------------------------------------------
LEMMA TotalType ==
  ASSUME NEW m \in Moves
  PROVE  Total(m) \in Nat /\ YTime(Up(m)) \in Nat
BY MoveType, TimesType DEF Total

\* Each leg leads from where the drive is then to where the next one starts.
XLegOf(m, a, b, c, e) ==
  /\ XLeg(Across(m), YLeg(Up(m))) = Leg(a, b, c, e, YLeg(Up(m)))
  /\ m[1] = Behind(Corner(m), 2 * b + c, a % 4)
  /\ (a + e) % 4 = 0
  /\ XTime(Across(m)) = LegTime(a, b, c, e)

LEMMA XLegExists ==
  ASSUME NEW m \in Moves
  PROVE  \E a, b, c, e \in Nat : XLegOf(m, a, b, c, e)
<1> DEFINE d == Across(m)
           n == Size(d)
           a == XTurns(d)
           e == XTurns(d)
           b == n \div 2
           c == n % 2
<1>1. /\ m[1][1] \in Int /\ m[1][2] \in Int /\ m[2][1] \in Int /\ m[2][2] \in Int
      /\ m[1] = <<m[1][1], m[1][2]>> /\ m[2] = <<m[2][1], m[2][2]>>
  BY MoveType
<1>2. d \in Int
  BY MoveType
<1>3. /\ n \in Nat /\ b \in Nat /\ c \in Nat /\ 2 * b + c = n
      /\ a \in Nat /\ e \in Nat
  BY <1>2, LegNumbers
<1>4. m[1] = Behind(Corner(m), n, a % 4) /\ (a + e) % 4 = 0
  <2>1. CASE d < 0
    <3>1. n = -d /\ a = 2 /\ e = 2
      BY <1>2, <2>1 DEF Size, XTurns
    <3>2. a % 4 = 2 /\ (a + e) % 4 = 0
      BY <3>1
    <3>3. m[1] = Behind(Corner(m), n, 2)
      BY <1>1, <2>1, <3>1 DEF Behind, Corner, Across
    <3> QED
      BY <3>2, <3>3
  <2>2. CASE ~ (d < 0)
    <3>1. n = d /\ a = 0 /\ e = 0
      BY <1>2, <2>2 DEF Size, XTurns
    <3>2. a % 4 = 0 /\ (a + e) % 4 = 0
      BY <3>1
    <3>3. m[1] = Behind(Corner(m), n, 0)
      BY <1>1, <2>2, <3>1 DEF Behind, Corner, Across
    <3> QED
      BY <3>2, <3>3
  <2> QED
    BY <1>2, <2>1, <2>2
<1>5. XLeg(d, YLeg(Up(m))) = Leg(a, b, c, e, YLeg(Up(m)))
  BY DEF XLeg
<1>6. XTime(d) = LegTime(a, b, c, e)
  BY DEF XTime
<1>7. XLegOf(m, a, b, c, e)
  BY <1>3, <1>4, <1>5, <1>6 DEF XLegOf
<1> HIDE DEF a, b, c, e
<1> QED
  BY <1>3, <1>7

YLegOf(m, a, b, c, e) ==
  /\ YLeg(Up(m)) = Leg(a, b, c, e, <<"close">>)
  /\ Corner(m) = Behind(m[2], 2 * b + c, a % 4)
  /\ (a + e) % 4 = 0
  /\ YTime(Up(m)) = LegTime(a, b, c, e)

LEMMA YLegExists ==
  ASSUME NEW m \in Moves
  PROVE  \E a, b, c, e \in Nat : YLegOf(m, a, b, c, e)
<1> DEFINE d == Up(m)
           n == Size(d)
           a == YTurns(d)
           e == YTurnsBack(d)
           b == n \div 2
           c == n % 2
<1>1. /\ m[1][1] \in Int /\ m[1][2] \in Int /\ m[2][1] \in Int /\ m[2][2] \in Int
      /\ m[1] = <<m[1][1], m[1][2]>> /\ m[2] = <<m[2][1], m[2][2]>>
  BY MoveType
<1>2. d \in Int
  BY MoveType
<1>3. /\ n \in Nat /\ b \in Nat /\ c \in Nat /\ 2 * b + c = n
      /\ a \in Nat /\ e \in Nat
  BY <1>2, LegNumbers
<1>4. Corner(m) = Behind(m[2], n, a % 4) /\ (a + e) % 4 = 0
  <2>1. CASE d < 0
    <3>1. n = -d /\ a = 1 /\ e = 3
      BY <1>2, <2>1 DEF Size, YTurns, YTurnsBack
    <3>2. a % 4 = 1 /\ (a + e) % 4 = 0
      BY <3>1
    <3>3. Corner(m) = Behind(m[2], n, 1)
      BY <1>1, <2>1, <3>1 DEF Behind, Corner, Up
    <3> QED
      BY <3>2, <3>3
  <2>2. CASE d > 0
    <3>1. n = d /\ a = 3 /\ e = 1
      BY <1>2, <2>2 DEF Size, YTurns, YTurnsBack
    <3>2. a % 4 = 3 /\ (a + e) % 4 = 0
      BY <3>1
    <3>3. Corner(m) = Behind(m[2], n, 3)
      BY <1>1, <2>2, <3>1 DEF Behind, Corner, Up
    <3> QED
      BY <3>2, <3>3
  <2>3. CASE d = 0
    <3>1. n = 0 /\ a = 0 /\ e = 0
      BY <1>2, <2>3 DEF Size, YTurns, YTurnsBack
    <3>2. a % 4 = 0 /\ (a + e) % 4 = 0
      BY <3>1
    <3>3. Corner(m) = Behind(m[2], n, 0)
      BY <1>1, <2>3, <3>1 DEF Behind, Corner, Up
    <3> QED
      BY <3>2, <3>3
  <2> QED
    BY <1>2, <2>1, <2>2, <2>3
<1>5. YLeg(d) = Leg(a, b, c, e, <<"close">>)
  BY DEF YLeg
<1>6. YTime(d) = LegTime(a, b, c, e)
  BY DEF YTime
<1>7. YLegOf(m, a, b, c, e)
  BY <1>3, <1>4, <1>5, <1>6 DEF YLegOf
<1> HIDE DEF a, b, c, e
<1> QED
  BY <1>3, <1>7

LEMMA YLegStarts ==
  ASSUME move \in Moves, elapsed \in Nat,
         LegOver(Corner(move), YLeg(Up(move)), YTime(Up(move)) + 160)
  PROVE  OnYLeg
<1>1. PICK a \in Nat, b \in Nat, c \in Nat, e \in Nat : YLegOf(move, a, b, c, e)
  BY YLegExists
<1>2. /\ commands = Leg(a, b, c, e, <<"close">>)
      /\ place = Behind(move[2], 2 * b + c, a % 4) /\ facing = 1
  BY <1>1 DEF YLegOf, LegOver
<1>3. (facing - 1 + a) % 4 = a % 4 /\ (facing - 1 + a + e) % 4 = 0
  <2>1. (a + e) % 4 = 0
    BY <1>1 DEF YLegOf
  <2>2. facing - 1 + a = a /\ facing - 1 + a + e = a + e
    BY <1>2
  <2> QED
    BY <2>1, <2>2
<1>4. elapsed + LegTime(a, b, c, e) + 160 = Total(move)
  <2>1. elapsed + (LegTime(a, b, c, e) + 160) = Total(move)
    BY <1>1 DEF LegOver, YLegOf
  <2>2. LegTime(a, b, c, e) \in Nat
    BY LegTimeType
  <2> QED
    BY <2>1, <2>2
<1>5. LegLeft(a, b, c, e, move[2], <<"close">>, 160)
  BY <1>2, <1>3, <1>4 DEF LegLeft
<1> QED
  BY <1>5 DEF OnYLeg, OnLeg

LEMMA DriveStarts == Init => DriveInv
<1> SUFFICES ASSUME Init PROVE DriveInv
  OBVIOUS
<1>1. move \in Moves /\ place = move[1] /\ facing = 1 /\ elapsed = 0
  BY DEF Init
<1>2. commands = <<"open">> \o XLeg(Across(move), YLeg(Up(move)))
  <2>1. commands = Commands(move[1], move[2])
    BY DEF Init
  <2>2. move[1] \in Int \X Int /\ move[2] \in Int \X Int
    BY <1>1, MoveType
  <2> QED
    BY <2>1, <2>2, AllCommands DEF Across, Up
<1> QED
  BY <1>1, <1>2 DEF DriveInv, AtStart

LEMMA OpenStep ==
  ASSUME NEW s \in Seq(Command)
  PROVE  Continues(<<"open">> \o s, "open", s)
<1>1. <<"open">> \in Seq(Command)
  BY DEF Command
<1>2. Head(<<"open">> \o s) = "open" /\ Tail(<<"open">> \o s) = s /\ <<"open">> \o s # <<>>
  OBVIOUS
<1> QED
  BY <1>2 DEF Continues

LEMMA DriveGoesOn == DriveInv /\ [Next]_vars => DriveInv'
<1> SUFFICES ASSUME DriveInv, [Next]_vars PROVE DriveInv'
  OBVIOUS
<1>1. move \in Moves /\ facing \in 1 .. 4 /\ elapsed \in Nat
  BY DEF DriveInv
<1>2. /\ Corner(move) \in Int \X Int /\ move[2] \in Int \X Int
      /\ Total(move) \in Nat /\ YTime(Up(move)) + 160 \in Nat
      /\ YLeg(Up(move)) \in Seq(Command)
      /\ XLeg(Across(move), YLeg(Up(move))) \in Seq(Command)
  <2>1. /\ move[1] \in Int \X Int /\ move[2] \in Int \X Int /\ Corner(move) \in Int \X Int
        /\ Up(move) \in Int
    BY <1>1, MoveType
  <2>2. Total(move) \in Nat /\ YTime(Up(move)) \in Nat
    BY <1>1, TotalType
  <2>3. YLeg(Up(move)) \in Seq(Command)
    BY <2>1, YLegType
  <2>4. XLeg(Across(move), YLeg(Up(move))) \in Seq(Command)
    BY <2>1, AllCommands DEF Across, Up
  <2> QED
    BY <2>1, <2>2, <2>3, <2>4
<1>3. CASE UNCHANGED vars
  BY <1>3 DEF vars, DriveInv, AtStart, OnXLeg, OnYLeg, OnLeg, LegLeft, Arrived
<1>4. CASE Next /\ AtStart
  <2>1. Open /\ commands' = XLeg(Across(move), YLeg(Up(move)))
    BY <1>2, <1>4, OpenStep, Only DEF AtStart
  <2>2. move' = move /\ place' = move[1] /\ facing' = 1 /\ elapsed' = 160
    BY <1>4, <2>1 DEF AtStart, Open, Do, Time
  <2>3. PICK a \in Nat, b \in Nat, c \in Nat, e \in Nat : XLegOf(move, a, b, c, e)
    BY <1>1, XLegExists
  <2>4. /\ commands' = Leg(a, b, c, e, YLeg(Up(move)))
        /\ place' = Behind(Corner(move), 2 * b + c, a % 4)
    BY <2>1, <2>2, <2>3 DEF XLegOf
  <2>5. (facing' - 1 + a) % 4 = a % 4 /\ (facing' - 1 + a + e) % 4 = 0
    <3>1. (a + e) % 4 = 0
      BY <2>3 DEF XLegOf
    <3>2. facing' - 1 + a = a /\ facing' - 1 + a + e = a + e
      BY <2>2
    <3> QED
      BY <3>1, <3>2
  <2>6. elapsed' + LegTime(a, b, c, e) + (YTime(Up(move)) + 160) = Total(move)
    <3>1. XTime(Across(move)) = LegTime(a, b, c, e)
      BY <2>3 DEF XLegOf
    <3>2. LegTime(a, b, c, e) \in Nat /\ YTime(Up(move)) \in Nat
      BY <1>1, LegTimeType, TotalType
    <3>3. Total(move) = 160 + LegTime(a, b, c, e) + YTime(Up(move)) + 160
      BY <3>1 DEF Total
    <3> QED
      BY <2>2, <3>2, <3>3
  <2>7. LegLeft(a, b, c, e, Corner(move), YLeg(Up(move)), YTime(Up(move)) + 160)'
    BY <2>2, <2>4, <2>5, <2>6 DEF LegLeft
  <2>8. OnXLeg'
    BY <2>7 DEF OnXLeg, OnLeg
  <2>9. facing' \in 1 .. 4 /\ elapsed' \in Nat
    BY <2>2
  <2> QED
    BY <1>1, <2>2, <2>8, <2>9 DEF DriveInv
<1>5. CASE Next /\ OnYLeg
  <2>1. \/ LegOver(move[2], <<"close">>, 160)
        \/ move' = move /\ facing' \in 1 .. 4 /\ elapsed' \in Nat /\ OnYLeg'
    BY <1>1, <1>2, <1>5, CloseType, OnLegStep, ZenonT(30) DEF OnYLeg
  <2>2. CASE LegOver(move[2], <<"close">>, 160)
    <3>1. Continues(<<"close">>, "close", <<>>)
      BY DEF Continues
    <3>6. Continues(commands, "close", <<>>)
      BY <2>2, <3>1 DEF LegOver
    <3>2. Close /\ commands' = <<>>
      BY <1>5, <3>6, Only
    <3>3. move' = move /\ place' = move[2] /\ facing' = 1 /\ elapsed' = elapsed + 160
      BY <1>1, <2>2, <3>2 DEF LegOver, Close, Do, Time
    <3>4. elapsed + 160 = Total(move)
      BY <2>2 DEF LegOver
    <3> QED
      BY <1>1, <1>2, <3>2, <3>3, <3>4 DEF DriveInv, Arrived
  <2> QED
    BY <1>1, <2>1, <2>2 DEF DriveInv
<1>6. CASE Next /\ OnXLeg
  <2>1. \/ LegOver(Corner(move), YLeg(Up(move)), YTime(Up(move)) + 160)
        \/ move' = move /\ facing' \in 1 .. 4 /\ elapsed' \in Nat /\ OnXLeg'
    BY <1>1, <1>2, <1>6, OnLegStep DEF OnXLeg
  <2>2. CASE LegOver(Corner(move), YLeg(Up(move)), YTime(Up(move)) + 160)
    BY <1>1, <1>5, <1>6, <2>2, YLegStarts
  <2> QED
    BY <1>1, <2>1, <2>2 DEF DriveInv
<1>7. CASE Next /\ Arrived
  BY <1>7 DEF Next, Open, Tile, HalfTile, Spin, Close, Do, Arrived
<1> QED
  BY <1>3, <1>4, <1>5, <1>6, <1>7 DEF DriveInv

LEMMA DriveAlways == Spec => []DriveInv
BY DriveStarts, DriveGoesOn, PTL DEF Spec

\* Nothing is left to do only at the end.
LEMMA LegIsNotEmpty ==
  ASSUME NEW a \in Nat, NEW b \in Nat, NEW c \in Nat, NEW e \in Nat,
         NEW later \in Seq(Command), later # <<>>
  PROVE  Leg(a, b, c, e, later) # <<>>
<1>1. CASE a > 0
  BY <1>1, LegStep DEF Continues
<1>2. CASE a = 0 /\ b > 0
  BY <1>2, LegStep DEF Continues
<1>3. CASE a = 0 /\ b = 0 /\ c > 0
  BY <1>3, LegStep DEF Continues
<1>4. CASE a = 0 /\ b = 0 /\ c = 0 /\ e > 0
  BY <1>4, LegStep DEF Continues
<1>5. CASE a = 0 /\ b = 0 /\ c = 0 /\ e = 0
  BY <1>5, LegStep
<1> QED
  BY <1>1, <1>2, <1>3, <1>4, <1>5

LEMMA LegIsNotOver ==
  ASSUME NEW goal, NEW later \in Seq(Command), later # <<>>, NEW rest,
         OnLeg(goal, later, rest)
  PROVE  commands # <<>>
BY LegIsNotEmpty DEF OnLeg, LegLeft

LEMMA DoneIsArrived == DriveInv /\ Done => Arrived
<1> SUFFICES ASSUME DriveInv, Done PROVE Arrived
  OBVIOUS
<1>1. move \in Moves /\ commands = <<>>
  BY DEF DriveInv, Done
<1>2. YLeg(Up(move)) \in Seq(Command) /\ YLeg(Up(move)) # <<>>
  <2>1. Up(move) \in Int
    BY <1>1, MoveType
  <2>2. YLeg(Up(move)) \in Seq(Command)
    BY <2>1, YLegType
  <2>3. PICK a \in Nat, b \in Nat, c \in Nat, e \in Nat : YLegOf(move, a, b, c, e)
    BY <1>1, YLegExists
  <2>4. YLeg(Up(move)) = Leg(a, b, c, e, <<"close">>)
    BY <2>3 DEF YLegOf
  <2>5. <<"close">> # <<>>
    OBVIOUS
  <2>6. Leg(a, b, c, e, <<"close">>) # <<>>
    BY <2>5, CloseType, LegIsNotEmpty
  <2> QED
    BY <2>2, <2>4, <2>6
<1>3. ~ AtStart
  <2>1. XLeg(Across(move), YLeg(Up(move))) \in Seq(Command)
    <3>1. move[1] \in Int \X Int /\ move[2] \in Int \X Int
      BY <1>1, MoveType
    <3> QED
      BY <3>1, AllCommands DEF Across, Up
  <2>2. Continues(<<"open">> \o XLeg(Across(move), YLeg(Up(move))), "open",
                  XLeg(Across(move), YLeg(Up(move))))
    BY <2>1, OpenStep
  <2> QED
    BY <1>1, <2>2 DEF AtStart, Continues
<1>4. ~ OnXLeg
  BY <1>1, <1>2, LegIsNotOver DEF OnXLeg
<1>5. ~ OnYLeg
  <2>1. <<"close">> # <<>>
    OBVIOUS
  <2> QED
    BY <1>1, <2>1, CloseType, LegIsNotOver DEF OnYLeg
<1> QED
  BY <1>3, <1>4, <1>5 DEF DriveInv

\* Every drive, of whatever length and direction, ends at its destination with
\* the robot looking east: the commands of moveToLocation take it there.
THEOREM Arrives == Spec => []ArrivesLookingEast
<1>1. DriveInv => ArrivesLookingEast
  BY DoneIsArrived DEF ArrivesLookingEast, Arrived
<1> QED
  BY <1>1, DriveAlways, PTL

-----------------------------------------------------------------------------
\* How long a drive takes, and how long the others think it takes.
LEMMA LegTimes ==
  ASSUME NEW d \in Int
  PROVE  \E b \in Nat, c \in 0 .. 1 :
           /\ Size(d) = 2 * b + c
           /\ XTime(d) = 83 * Size(d) + 20 * c + 248 * XTurns(d)
           /\ YTime(d) = 83 * Size(d) + 20 * c + 124 * (YTurns(d) + YTurnsBack(d))
<1> DEFINE n == Size(d)
           b == n \div 2
           c == n % 2
<1>1. /\ n \in Nat /\ b \in Nat /\ c \in Nat /\ 2 * b + c = n
      /\ XTurns(d) \in Nat /\ YTurns(d) \in Nat /\ YTurnsBack(d) \in Nat
  BY LegNumbers
<1>2. c \in 0 .. 1
  <2>1. \A i \in Nat : i % 2 \in 0 .. 1
    OBVIOUS
  <2> QED
    BY <1>1, <2>1
<1>3. /\ XTime(d) = LegTime(XTurns(d), b, c, XTurns(d))
      /\ YTime(d) = LegTime(YTurns(d), b, c, YTurnsBack(d))
  BY DEF XTime, YTime
<1> HIDE DEF b, c, n
<1>4. /\ XTime(d) = 83 * n + 20 * c + 248 * XTurns(d)
      /\ YTime(d) = 83 * n + 20 * c + 124 * (YTurns(d) + YTurnsBack(d))
  BY <1>1, <1>3 DEF LegTime
<1> QED
  BY <1>1, <1>2, <1>4 DEF n

LEMMA TimeOfDrive ==
  ASSUME NEW m \in Moves
  PROVE  Total(m) < 2 * Second * CalcTimeToWaitForReplacement(m[2], m[1]) <=> LongEnough(m)
<1> DEFINE d == Across(m)
           u == Up(m)
<1>1. /\ m[1][1] \in Int /\ m[1][2] \in Int /\ m[2][1] \in Int /\ m[2][2] \in Int
      /\ d \in Int /\ u \in Int
  BY MoveType
<1>2. PICK h \in Nat, c \in 0 .. 1 :
        Size(d) = 2 * h + c /\ XTime(d) = 83 * Size(d) + 20 * c + 248 * XTurns(d)
  BY <1>1, LegTimes
<1>3. PICK i \in Nat, k \in 0 .. 1 :
        Size(u) = 2 * i + k /\ YTime(u) = 83 * Size(u) + 20 * k + 124 * (YTurns(u) + YTurnsBack(u))
  BY <1>1, LegTimes
<1>4. Size(d) = Gap(m[1][1], m[2][1]) /\ Size(u) = Gap(m[1][2], m[2][2])
  BY <1>1 DEF Size, Gap, Across, Up
<1>5. Gap(m[2][1], m[1][1]) = Size(d) /\ Gap(m[2][2], m[1][2]) = Size(u)
  BY <1>1 DEF Size, Gap, Across, Up
<1>6. Size(d) \in Nat /\ Size(u) \in Nat
  BY <1>1, LegNumbers
<1>7. /\ d < 0 <=> m[2][1] < m[1][1]
      /\ u < 0 <=> m[2][2] < m[1][2]
      /\ u = 0 <=> m[2][2] = m[1][2]
      /\ d # 0 <=> Size(d) # 0
      /\ u # 0 <=> Size(u) # 0
  BY <1>1 DEF Across, Up, Size
<1>8. Total(m) = 320 + XTime(d) + YTime(u)
  <2>1. XTime(d) \in Nat /\ YTime(u) \in Nat
    BY <1>1, TimesType
  <2> QED
    BY <2>1 DEF Total
<1> DEFINE calc == CalcTimeToWaitForReplacement(m[2], m[1])
           turns == Turns(m[2], m[1])
<1>9. calc = turns + Size(d) + Size(u)
  BY <1>5 DEF CalcTimeToWaitForReplacement
<1>10. LongEnough(m) <=>
         CASE d < 0 /\ u < 0 -> TRUE
           [] d < 0 /\ u > 0 -> Size(d) + Size(u) >= 9
           [] d >= 0 /\ u = 0 -> Size(d) + Size(u) >= 5
           [] OTHER -> Size(d) + Size(u) >= 3
  BY <1>4 DEF LongEnough, Across, Up
<1>11. CASE d < 0 /\ u < 0
  <2>1. turns = 8
    BY <1>1, <1>7, <1>11 DEF Turns
  <2>2. XTurns(d) = 2 /\ YTurns(u) + YTurnsBack(u) = 4
    BY <1>1, <1>11 DEF XTurns, YTurns, YTurnsBack
  <2>3. LongEnough(m) <=> TRUE
    BY <1>1, <1>10, <1>11
  <2>4. Total(m) = 320 + 83 * (Size(d) + Size(u)) + 20 * (c + k) + 992
    BY <1>2, <1>3, <1>6, <1>8, <2>2
  <2>5. 2 * Second * calc = 160 * (Size(d) + Size(u)) + 1280
    BY <1>6, <1>9, <2>1 DEF Second
  <2> QED
    BY <1>1, <1>6, <1>7, <1>11, <2>3, <2>4, <2>5
<1>12. CASE d < 0 /\ u > 0
  <2>1. turns = 4
    BY <1>1, <1>7, <1>12 DEF Turns
  <2>2. XTurns(d) = 2 /\ YTurns(u) + YTurnsBack(u) = 4
    BY <1>1, <1>12 DEF XTurns, YTurns, YTurnsBack
  <2>3. LongEnough(m) <=> Size(d) + Size(u) >= 9
    BY <1>1, <1>10, <1>12
  <2>4. Total(m) = 320 + 83 * (Size(d) + Size(u)) + 20 * (c + k) + 992
    BY <1>2, <1>3, <1>6, <1>8, <2>2
  <2>5. 2 * Second * calc = 160 * (Size(d) + Size(u)) + 640
    BY <1>6, <1>9, <2>1 DEF Second
  \* At nine half tiles it is a matter of an eightieth of a second: only one of
  \* the two legs has a half tile then, which takes longer than half a tile does.
  <2>6. Size(d) + Size(u) = 9 => c + k = 1
    BY <1>2, <1>3
  <2>7. Total(m) < 2 * Second * calc <=> Size(d) + Size(u) >= 9
    BY <1>6, <2>4, <2>5, <2>6
  <2> QED
    BY <2>3, <2>7
<1>13. CASE d < 0 /\ u = 0
  <2>1. turns = 4
    BY <1>1, <1>7, <1>13 DEF Turns
  <2>2. XTurns(d) = 2 /\ YTurns(u) + YTurnsBack(u) = 0
    BY <1>1, <1>13 DEF XTurns, YTurns, YTurnsBack
  <2>3. LongEnough(m) <=> Size(d) + Size(u) >= 3
    BY <1>1, <1>10, <1>13
  <2>4. Total(m) = 320 + 83 * (Size(d) + Size(u)) + 20 * (c + k) + 496
    BY <1>2, <1>3, <1>6, <1>8, <2>2
  <2>5. 2 * Second * calc = 160 * (Size(d) + Size(u)) + 640
    BY <1>6, <1>9, <2>1 DEF Second
  <2> QED
    BY <1>1, <1>6, <1>7, <1>13, <2>3, <2>4, <2>5
<1>14. CASE d >= 0 /\ u < 0
  <2>1. turns = 4
    BY <1>1, <1>7, <1>14 DEF Turns
  <2>2. XTurns(d) = 0 /\ YTurns(u) + YTurnsBack(u) = 4
    BY <1>1, <1>14 DEF XTurns, YTurns, YTurnsBack
  <2>3. LongEnough(m) <=> Size(d) + Size(u) >= 3
    BY <1>1, <1>10, <1>14
  <2>4. Total(m) = 320 + 83 * (Size(d) + Size(u)) + 20 * (c + k) + 496
    BY <1>2, <1>3, <1>6, <1>8, <2>2
  <2>5. 2 * Second * calc = 160 * (Size(d) + Size(u)) + 640
    BY <1>6, <1>9, <2>1 DEF Second
  <2> QED
    BY <1>1, <1>6, <1>7, <1>14, <2>3, <2>4, <2>5
<1>15. CASE d >= 0 /\ u > 0
  <2>1. turns = 4
    BY <1>1, <1>7, <1>15 DEF Turns
  <2>2. XTurns(d) = 0 /\ YTurns(u) + YTurnsBack(u) = 4
    BY <1>1, <1>15 DEF XTurns, YTurns, YTurnsBack
  <2>3. LongEnough(m) <=> Size(d) + Size(u) >= 3
    BY <1>1, <1>10, <1>15
  <2>4. Total(m) = 320 + 83 * (Size(d) + Size(u)) + 20 * (c + k) + 496
    BY <1>2, <1>3, <1>6, <1>8, <2>2
  <2>5. 2 * Second * calc = 160 * (Size(d) + Size(u)) + 640
    BY <1>6, <1>9, <2>1 DEF Second
  <2> QED
    BY <1>1, <1>6, <1>7, <1>15, <2>3, <2>4, <2>5
<1>16. CASE d >= 0 /\ u = 0
  <2>1. turns = 0
    BY <1>1, <1>7, <1>16 DEF Turns
  <2>2. XTurns(d) = 0 /\ YTurns(u) + YTurnsBack(u) = 0
    BY <1>1, <1>16 DEF XTurns, YTurns, YTurnsBack
  <2>3. LongEnough(m) <=> Size(d) + Size(u) >= 5
    BY <1>1, <1>10, <1>16
  <2>4. Total(m) = 320 + 83 * (Size(d) + Size(u)) + 20 * (c + k) + 0
    BY <1>2, <1>3, <1>6, <1>8, <2>2
  <2>5. 2 * Second * calc = 160 * (Size(d) + Size(u)) + 0
    BY <1>6, <1>9, <2>1 DEF Second
  <2> QED
    BY <1>1, <1>6, <1>7, <1>16, <2>3, <2>4, <2>5
<1> QED
  BY <1>1, <1>11, <1>12, <1>13, <1>14, <1>15, <1>16

LEMMA CalculatedType ==
  ASSUME NEW m \in Moves
  PROVE  CalcTimeToWaitForReplacement(m[2], m[1]) \in Nat
<1>1. /\ m[1][1] \in Int /\ m[1][2] \in Int /\ m[2][1] \in Int /\ m[2][2] \in Int
  BY MoveType
<1>2. Turns(m[2], m[1]) \in Nat
  BY DEF Turns
<1>3. Gap(m[2][1], m[1][1]) \in Nat /\ Gap(m[2][2], m[1][2]) \in Nat
  BY <1>1 DEF Gap
<1> QED
  BY <1>2, <1>3 DEF CalcTimeToWaitForReplacement

\* LongEnough is exact: a drive is over before the others give up waiting if and
\* only if it is one of those.
THEOREM WaitIsExact == Spec => [](Done => (elapsed < 2 * Calculated <=> LongEnough(move)))
<1>1. DriveInv => (Done => (elapsed < 2 * Calculated <=> LongEnough(move)))
  <2> SUFFICES ASSUME DriveInv, Done PROVE elapsed < 2 * Calculated <=> LongEnough(move)
    OBVIOUS
  <2>1. move \in Moves /\ elapsed = Total(move)
    BY DoneIsArrived DEF DriveInv, Arrived
  <2>2. Total(move) < 2 * Second * CalcTimeToWaitForReplacement(move[2], move[1])
        <=> LongEnough(move)
    BY <2>1, TimeOfDrive
  <2>3. 2 * Second * CalcTimeToWaitForReplacement(move[2], move[1]) = 2 * Calculated
    BY <2>1, CalculatedType DEF Calculated, Second
  <2> QED
    BY <2>1, <2>2, <2>3
<1> QED
  BY <1>1, DriveAlways, PTL

\* The others, who wait 2*t for the message that BC reached, still wait when the
\* robot arrives, on every drive that is long enough.
THEOREM WaitLongEnough ==
  ASSUME \A m \in Moves : LongEnough(m)
  PROVE  Spec => []WaitOutlastsDrive
<1>1. DriveInv /\ (Done => (elapsed < 2 * Calculated <=> LongEnough(move))) => WaitOutlastsDrive
  BY DEF DriveInv, WaitOutlastsDrive
<1> QED
  BY <1>1, DriveAlways, WaitIsExact, PTL
=============================================================================
