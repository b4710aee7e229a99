----------------------------- MODULE Dara_proofs ----------------------------
(***************************************************************************)
(* What holds of DARA-1C for every configuration of nodes and places, any  *)
(* number of deaths, lost messages and suspicions of who lives: the tables *)
(* stay well formed, the best candidate and the time of its drive always   *)
(* exist.  What holds where there is one cut vertex: a finished recovery   *)
(* is true, and none raises.  And what holds where the tables agree, until *)
(* a message is lost or somebody suspected who lives: the neighbors follow *)
(* one another to the place of the dead node, the best first, and never    *)
(* two at a time.  After it, each still leaves its place at most once.     *)
(***************************************************************************)
EXTENDS Dara, FiniteSetTheorems, NaturalsInduction, SequenceTheorems, TLAPS

\* Induction, with the property given as the set of numbers that have it.
LEMMA Least ==
  ASSUME NEW S \in SUBSET Nat, S # {}
  PROVE  \E n \in S : \A m \in S : n <= m
<1>1. PICK n \in S : \A m \in S : ~(<<m, n>> \in OpToRel(<, Nat))
  BY NatLessThanWellFounded, WFMin
<1>2. \A m \in S : ~(m < n)
  BY <1>1 DEF OpToRel
<1> QED
  BY <1>2

LEMMA Numbers ==
  ASSUME NEW G \in SUBSET Nat, 0 \in G, \A n \in G : n + 1 \in G
  PROVE  G = Nat
<1> SUFFICES ASSUME Nat \ G # {} PROVE FALSE
  OBVIOUS
<1>1. PICK n \in Nat \ G : \A m \in Nat \ G : n <= m
  <2>1. Nat \ G \in SUBSET Nat
    OBVIOUS
  <2> QED
    BY <2>1, Least
<1>2. n - 1 \in G
  BY <1>1
<1>3. (n - 1) + 1 = n
  BY <1>1
<1> QED
  BY <1>1, <1>2, <1>3

-----------------------------------------------------------------------------
\* The first and the last of some indexes.
LEMMA FirstIndex ==
  ASSUME NEW n \in Nat, NEW I \in SUBSET (1 .. n), I # {}
  PROVE  Min(I) \in I /\ \A i \in I : Min(I) <= i
<1>1. \E x \in I : \A y \in I : x <= y
  BY Least
<1> QED
  BY <1>1 DEF Min

LEMMA LastIndex ==
  ASSUME NEW n \in Nat, NEW I \in SUBSET (1 .. n), I # {}
  PROVE  Max(I) \in I /\ \A i \in I : i <= Max(I)
<1> DEFINE J == {n - i : i \in I}
<1>1. J \in SUBSET Nat /\ J # {}
  <2>1. \A i \in I : i \in Int /\ i <= n
    OBVIOUS
  <2>2. \A i \in I : n - i \in Nat
    BY <2>1
  <2> QED
    BY <2>2
<1>2. PICK j \in J : \A k \in J : j <= k
  BY <1>1, Least
<1>3. PICK x \in I : j = n - x
  OBVIOUS
<1>4. \A y \in I : x >= y
  <2> TAKE y \in I
  <2>1. n - x <= n - y
    BY <1>2, <1>3
  <2> QED
    BY <2>1
<1> QED
  BY <1>4 DEF Max

\* What the searches by name find.
LEMMA LastNamed ==
  ASSUME NEW S, NEW links \in Seq(S), NEW name \in Names(links)
  PROVE  LET i == SelectLastInSeq(links, LAMBDA l : l.name = name)
         IN  /\ i \in 1 .. Len(links) /\ links[i].name = name
             /\ \A j \in 1 .. Len(links) : links[j].name = name => j <= i
<1> DEFINE I == {i \in 1 .. Len(links) : links[i].name = name}
<1>1. I # {} /\ I \in SUBSET (1 .. Len(links)) /\ Len(links) \in Nat
  BY DEF Names
<1>2. Max(I) \in I /\ \A i \in I : i <= Max(I)
  BY <1>1, LastIndex
<1>3. SelectLastInSeq(links, LAMBDA l : l.name = name) = Max(I)
  BY <1>1 DEF SelectLastInSeq
<1> QED
  BY <1>2, <1>3

LEMMA FirstNamed ==
  ASSUME NEW S, NEW links \in Seq(S), NEW name \in Names(links)
  PROVE  LET i == SelectInSeq(links, LAMBDA l : l.name = name)
         IN  i \in 1 .. Len(links) /\ links[i].name = name
<1> DEFINE I == {i \in 1 .. Len(links) : links[i].name = name}
<1>1. I # {} /\ I \in SUBSET (1 .. Len(links)) /\ Len(links) \in Nat
  BY DEF Names
<1>2. Min(I) \in I
  BY <1>1, FirstIndex
<1>3. SelectInSeq(links, LAMBDA l : l.name = name) = Min(I)
  BY <1>1 DEF SelectInSeq
<1> QED
  BY <1>2, <1>3

LEMMA EntryFound ==
  ASSUME NEW S, NEW links \in Seq(S), NEW name \in Names(links)
  PROVE  EntryOf(links, name) \in S /\ EntryOf(links, name).name = name
<1> DEFINE i == SelectLastInSeq(links, LAMBDA l : l.name = name)
<1>1. i \in 1 .. Len(links) /\ links[i].name = name
  BY LastNamed
<1> HIDE DEF i
<1>2. links[i] \in S
  BY <1>1
<1> QED
  BY <1>1, <1>2 DEF EntryOf, i

-----------------------------------------------------------------------------
\* Before is an order in which some candidates are equally good.
LEMMA DistType ==
  ASSUME NEW c \in Int \X Int, NEW d \in Int \X Int
  PROVE  Dist(c, d) \in Nat
<1>1. \A x, y \in Int : Gap(x, y) \in Nat
  BY DEF Gap
<1>2. c[1] \in Int /\ c[2] \in Int /\ d[1] \in Int /\ d[2] \in Int
  OBVIOUS
<1>3. \A x, y \in Nat : x * x + y * y \in Nat
  OBVIOUS
<1> QED
  BY <1>1, <1>2, <1>3 DEF Dist

LEMMA BeforeOrder ==
  ASSUME NEW goal \in Int \X Int, NEW c \in Candidate, NEW d \in Candidate, NEW e \in Candidate
  PROVE  /\ ~Before(goal, c, c)
         /\ Before(goal, c, d) /\ Before(goal, d, e) => Before(goal, c, e)
         /\ Before(goal, c, d) /\ ~Before(goal, e, d) => Before(goal, c, e)
<1>1. /\ c.numLinks \in Int /\ d.numLinks \in Int /\ e.numLinks \in Int
      /\ Dist(goal, c.coords) \in Int /\ Dist(goal, d.coords) \in Int
      /\ Dist(goal, e.coords) \in Int
  BY DistType DEF Candidate
<1> QED
  BY <1>1 DEF Before

\* The stable sorts have a first element, for any candidates.
Best(goal, c, n, i) ==
  /\ \A j \in 1 .. n : ~Before(goal, c[j], c[i])
  /\ \A j \in 1 .. i - 1 : Before(goal, c[i], c[j])

LEMMA BestExists ==
  ASSUME NEW goal \in Int \X Int, NEW c \in Seq(Candidate), Len(c) > 0
  PROVE  \E i \in 1 .. Len(c) : Best(goal, c, Len(c), i)
<1> DEFINE Works(n) == \E i \in 1 .. n : Best(goal, c, n, i)
           G == {n \in Nat : n \in 1 .. Len(c) => Works(n)}
<1>0. Len(c) \in Nat /\ \A i \in 1 .. Len(c) : c[i] \in Candidate
  OBVIOUS
<1>1. 0 \in G
  OBVIOUS
<1>2. ASSUME NEW n \in G PROVE n + 1 \in G
  <2> SUFFICES ASSUME n + 1 \in 1 .. Len(c) PROVE Works(n + 1)
    BY <1>2
  <2>1. CASE n = 0
    <3>1. ~Before(goal, c[1], c[1])
      BY <1>0, <2>1, BeforeOrder
    <3>2. \A j \in 1 .. 1 : j = 1
      OBVIOUS
    <3>3. \A j \in 1 .. 1 - 1 : FALSE
      OBVIOUS
    <3>4. Best(goal, c, 1, 1)
      BY <3>1, <3>2, <3>3 DEF Best
    <3> QED
      BY <2>1, <3>4
  <2>2. CASE n # 0
    <3>0. n \in 1 .. Len(c)
      BY <2>2, <1>0
    <3>1. PICK i \in 1 .. n : Best(goal, c, n, i)
      BY <1>2, <3>0
    <3>2. \A j \in 1 .. n + 1 : j = n + 1 \/ j \in 1 .. n
      OBVIOUS
    <3>3. c[n + 1] \in Candidate /\ c[i] \in Candidate
          /\ \A j \in 1 .. n : c[j] \in Candidate
      BY <1>0, <3>0
    <3>4. \A j \in 1 .. n : ~Before(goal, c[j], c[i])
      BY <3>1 DEF Best
    <3>5. CASE Before(goal, c[n + 1], c[i])
      <4>1. \A j \in 1 .. n : Before(goal, c[n + 1], c[j])
        BY <3>3, <3>4, <3>5, BeforeOrder
      <4>2. \A j \in 1 .. n : ~Before(goal, c[j], c[n + 1])
        BY <3>3, <3>4, <3>5, BeforeOrder
      <4>3. ~Before(goal, c[n + 1], c[n + 1])
        BY <3>3, BeforeOrder
      <4>4. (n + 1) - 1 = n
        BY <3>0
      <4>5. Best(goal, c, n + 1, n + 1)
        BY <3>2, <4>1, <4>2, <4>3, <4>4 DEF Best
      <4> QED
        BY <4>5
    <3>6. CASE ~Before(goal, c[n + 1], c[i])
      <4>1. Best(goal, c, n + 1, i)
        BY <3>1, <3>2, <3>6 DEF Best
      <4>2. i \in 1 .. n + 1
        OBVIOUS
      <4> QED
        BY <4>1, <4>2
    <3> QED
      BY <3>5, <3>6
  <2> QED
    BY <2>1, <2>2
<1>3. G = Nat
  <2> HIDE DEF G
  <2>1. G \in SUBSET Nat
    BY DEF G
  <2> QED
    BY <1>1, <1>2, <2>1, Numbers
<1> QED
  BY <1>0, <1>3

\* Who is chosen is this node or a neighbor of the dead one.
LEMMA BestCandidate ==
  ASSUME NEW table \in Table, NEW dead \in Names(table.links),
         EntryOf(table.links, dead).links # NoLinks
  PROVE  LET b == FindBestCandidate(table, dead)
         IN  b \in Node /\ (b = table.name \/ b \in Names(EntryOf(table.links, dead).links))
<1> DEFINE e == EntryOf(table.links, dead)
           c == Candidates(table, dead)
           goal == e.coords
           Is(i) == /\ \A j \in DOMAIN c : ~Before(goal, c[j], c[i])
                    /\ \A j \in 1 .. i - 1 : Before(goal, c[i], c[j])
           k == CHOOSE i \in DOMAIN c : Is(i)
           self == [name |-> table.name, coords |-> table.coords, numLinks |-> table.numLinks]
<1>1. e \in Entry /\ goal \in Int \X Int /\ e.links \in Seq(Candidate)
  <2>1. table.links \in Seq(Entry)
    BY DEF Table
  <2>2. e \in Entry
    BY <2>1, EntryFound
  <2> HIDE DEF e
  <2>3. goal \in Int \X Int /\ e.links \in Seq(Candidate) \cup {NoLinks}
    BY <2>2 DEF Entry
  <2> QED
    BY <2>2, <2>3 DEF e
<1>2. self \in Candidate
  BY DEF Table, Candidate
<1> HIDE DEF e, self
<1>3. c = Append(e.links, self)
  BY DEF Candidates, e, self
<1>4. /\ c \in Seq(Candidate) /\ Len(c) = Len(e.links) + 1 /\ DOMAIN c = 1 .. Len(c)
      /\ Len(e.links) \in Nat
      /\ \A i \in 1 .. Len(c) : c[i] = self \/ (i \in DOMAIN e.links /\ c[i] = e.links[i])
  BY <1>1, <1>2, <1>3
<1>5. \E i \in DOMAIN c : Is(i)
  <2> HIDE DEF c, goal
  <2>1. \E i \in 1 .. Len(c) : Best(goal, c, Len(c), i)
    BY <1>1, <1>4, BestExists
  <2> QED
    BY <1>4, <2>1 DEF Best
<1>6. k \in DOMAIN c
  <2> HIDE DEF c, Is
  <2> QED
    BY <1>5
<1>7. FindBestCandidate(table, dead) = c[k].name
  BY DEF FindBestCandidate, e
<1> HIDE DEF c, k
<1>8. c[k].name \in Node
  <2>1. c[k] \in Candidate
    BY <1>4, <1>6
  <2>2. \A x \in Candidate : x.name \in Node
    BY DEF Candidate
  <2> QED
    BY <2>1, <2>2
<1> QED
  BY <1>4, <1>6, <1>7, <1>8 DEF self, Names, e

-----------------------------------------------------------------------------
\* Either every entry of a table has links, or none has: the table that a
\* replacement takes over is the links of the dead node.
Uniform(table) ==
  \/ Knows(table)
  \/ \A i \in DOMAIN table.links : table.links[i].links = NoLinks

\* The place of the best candidate is in the table.
LEMMA CoordsFound ==
  ASSUME NEW table \in Table, Uniform(table), NEW dead \in Names(table.links),
         EntryOf(table.links, dead).links # NoLinks,
         NEW b, b = table.name \/ b \in Names(EntryOf(table.links, dead).links)
  PROVE  GetCoords(table, b) \in Int \X Int
<1> DEFINE links == table.links
           I == {i \in 1 .. Len(links) : links[i].name = b \/ b \in Names(links[i].links)}
           near == SelectInSeq(links, LAMBDA l : l.name = b \/ b \in Names(l.links))
           l == links[near]
<1>1. links \in Seq(Entry) /\ table.coords \in Int \X Int /\ Len(links) \in Nat
  BY DEF Table
<1>2. CASE b = table.name
  BY <1>1, <1>2 DEF GetCoords
<1>3. CASE b # table.name
  <2>1. PICK i \in 1 .. Len(links) : EntryOf(links, dead) = links[i]
    <3>1. SelectLastInSeq(links, LAMBDA x : x.name = dead) \in 1 .. Len(links)
      BY <1>1, LastNamed
    <3> QED
      BY <3>1 DEF EntryOf
  <2>2. i \in I
    BY <1>3, <2>1
  <2>3. I \in SUBSET (1 .. Len(links)) /\ I # {}
    BY <2>2
  <2>4. near = Min(I)
    BY <2>3 DEF SelectInSeq
  <2>5. near \in I
    <3> HIDE DEF I, near
    <3> QED
      BY <1>1, <2>3, <2>4, FirstIndex
  <2>6. near \in 1 .. Len(links) /\ (l.name = b \/ b \in Names(l.links))
    BY <2>5
  <2>7. \A j \in 1 .. Len(links) : links[j] \in Entry
    BY <1>1
  <2>8. l \in Entry /\ l.links # NoLinks
    BY <1>1, <2>1, <2>6, <2>7 DEF Uniform, Knows
  <2>9. l.links \in Seq(Candidate) /\ l.coords \in Int \X Int
    BY <2>8 DEF Entry
  <2> DEFINE k == SelectInSeq(l.links, LAMBDA ll : ll.name = b)
  <2>10. GetCoords(table, b) = IF l.name = b THEN l.coords ELSE l.links[k].coords
    BY <1>3 DEF GetCoords
  <2>11. CASE l.name = b
    BY <2>9, <2>10, <2>11
  <2>12. CASE l.name # b
    <3> HIDE DEF l
    <3>1. k \in 1 .. Len(l.links)
      BY <2>6, <2>9, <2>12, FirstNamed
    <3> HIDE DEF k
    <3>2. l.links[k] \in Candidate
      BY <2>9, <3>1
    <3> QED
      BY <2>10, <2>12, <3>2 DEF Candidate
  <2> QED
    BY <2>11, <2>12
<1> QED
  BY <1>2, <1>3

LEMMA TimeType ==
  ASSUME NEW f \in Int \X Int, NEW b \in Int \X Int
  PROVE  CalcTimeToWaitForReplacement(f, b) \in Nat /\ 2 * CalcTimeToWaitForReplacement(f, b) \in Nat
<1>1. \A x, y \in Int : Gap(x, y) \in Nat
  BY DEF Gap
<1>2. f[1] \in Int /\ f[2] \in Int /\ b[1] \in Int /\ b[2] \in Int
  OBVIOUS
<1>3. Turns(f, b) \in Nat
  BY <1>2 DEF Turns
<1>4. CalcTimeToWaitForReplacement(f, b) \in Nat
  <2>1. Gap(f[1], b[1]) \in Nat /\ Gap(f[2], b[2]) \in Nat
    BY <1>1, <1>2
  <2>2. \A x, y, z \in Nat : x + y + z \in Nat
    OBVIOUS
  <2> QED
    BY <1>3, <2>1, <2>2, Zenon DEF CalcTimeToWaitForReplacement
<1> QED
  BY <1>4

\* One round of the loop of dara1C.
Locals ==
  /\ status \in [Node -> {"idle", "moving", "waiting", "raised"}]
  /\ failed \in [Node -> Node] /\ best \in [Node -> Node]
  /\ coordsFailing \in [Node -> Int \X Int]
  /\ timer \in [Node -> Nat]
  /\ lst_recovery \in [Node -> SUBSET [fn : Node, bc : Node]]

\* n drives, or waits for b.
Round(n, table, dead, goal, b) ==
  /\ EntryOf(table.links, dead).links # NoLinks
  /\ b = FindBestCandidate(table, dead)
  /\ failed' = [failed EXCEPT ![n] = dead]
  /\ coordsFailing' = [coordsFailing EXCEPT ![n] = goal]
  /\ best' = [best EXCEPT ![n] = b]
  /\ status' = [status EXCEPT ![n] = IF b = n THEN "moving" ELSE "waiting"]
  /\ LET t == CalcTimeToWaitForReplacement(goal, GetCoords(table, b)) IN
     timer' = [timer EXCEPT ![n] = IF b = n THEN t ELSE 2 * t]
  /\ lst_recovery' = [lst_recovery EXCEPT ![n] = {}]

LEMMA Rounds ==
  ASSUME NEW n, NEW table, NEW dead, NEW goal, TryToReplace(n, table, dead, goal)
  PROVE  \/ /\ EntryOf(table.links, dead).links = NoLinks
            /\ status' = [status EXCEPT ![n] = "raised"]
            /\ UNCHANGED <<failed, coordsFailing, best, timer, lst_recovery>>
         \/ Round(n, table, dead, goal, FindBestCandidate(table, dead))
BY DEF TryToReplace, Round, locals

\* It is a step of n alone.
LEMMA RoundAlone ==
  ASSUME NEW n, NEW table, NEW dead, NEW goal, TryToReplace(n, table, dead, goal)
  PROVE  /\ \E s : status' = [status EXCEPT ![n] = s]
         /\ \/ coordsFailing' = coordsFailing
            \/ coordsFailing' = [coordsFailing EXCEPT ![n] = goal]
<1>1. CASE Round(n, table, dead, goal, FindBestCandidate(table, dead))
  <2> DEFINE s == IF FindBestCandidate(table, dead) = n THEN "moving" ELSE "waiting"
  <2>1. /\ status' = [status EXCEPT ![n] = s]
        /\ coordsFailing' = [coordsFailing EXCEPT ![n] = goal]
    BY <1>1, Zenon DEF Round
  <2> QED
    BY <2>1, Zenon
<1>2. CASE status' = [status EXCEPT ![n] = "raised"] /\ coordsFailing' = coordsFailing
  BY <1>2, Zenon
<1> QED
  BY <1>1, <1>2, Rounds

LEMMA RoundType ==
  ASSUME Locals, NEW n \in Node, NEW table \in Table, table.name = n, Uniform(table),
         NEW dead \in Names(table.links), NEW goal \in Int \X Int,
         TryToReplace(n, table, dead, goal)
  PROVE  Locals'
<1> USE DEF Locals
<1>1. CASE /\ status' = [status EXCEPT ![n] = "raised"]
           /\ UNCHANGED <<locals, timer, lst_recovery>>
  BY <1>1 DEF locals
<1>2. ASSUME NEW b, Round(n, table, dead, goal, b) PROVE Locals'
  <2>1. /\ EntryOf(table.links, dead).links # NoLinks
        /\ b = FindBestCandidate(table, dead)
        /\ failed' = [failed EXCEPT ![n] = dead]
        /\ coordsFailing' = [coordsFailing EXCEPT ![n] = goal]
        /\ best' = [best EXCEPT ![n] = b]
        /\ status' = [status EXCEPT ![n] = IF b = n THEN "moving" ELSE "waiting"]
        /\ timer' = [timer EXCEPT ![n] =
                       LET t == CalcTimeToWaitForReplacement(goal, GetCoords(table, b))
                       IN  IF b = n THEN t ELSE 2 * t]
        /\ lst_recovery' = [lst_recovery EXCEPT ![n] = {}]
    BY <1>2 DEF Round
  <2>2. b \in Node /\ (b = table.name \/ b \in Names(EntryOf(table.links, dead).links))
    BY <2>1, BestCandidate
  <2>3. GetCoords(table, b) \in Int \X Int
    BY <2>1, <2>2, CoordsFound
  <2> DEFINE t == CalcTimeToWaitForReplacement(goal, GetCoords(table, b))
  <2>4. t \in Nat /\ 2 * t \in Nat
    BY <2>3, TimeType
  <2>5. timer' = [timer EXCEPT ![n] = IF b = n THEN t ELSE 2 * t]
    BY <2>1
  <2> HIDE DEF t
  <2>6. timer' \in [Node -> Nat]
    BY <2>4, <2>5
  <2>7. dead \in Node
    <3>1. table.links \in Seq(Entry)
      BY DEF Table
    <3>2. PICK e \in Entry : e.name = dead
      BY <3>1, EntryFound
    <3> QED
      BY <3>2 DEF Entry
  <2>8. /\ status' \in [Node -> {"idle", "moving", "waiting", "raised"}]
        /\ failed' \in [Node -> Node] /\ best' \in [Node -> Node]
        /\ coordsFailing' \in [Node -> Int \X Int]
        /\ lst_recovery' \in [Node -> SUBSET [fn : Node, bc : Node]]
    BY <2>1, <2>2, <2>7
  <2> QED
    BY <2>6, <2>8
<1> QED
  BY <1>1, <1>2, Rounds DEF locals

-----------------------------------------------------------------------------
\* What is left of a sequence is what was in it.
LEMMA RemoveAtType ==
  ASSUME NEW S, NEW seq \in Seq(S), NEW i \in 1 .. Len(seq)
  PROVE  /\ RemoveAt(seq, i) \in Seq(S)
         /\ \A k \in 1 .. Len(RemoveAt(seq, i)) :
              \E j \in 1 .. Len(seq) : RemoveAt(seq, i)[k] = seq[j]
<1> DEFINE left == SubSeq(seq, 1, i - 1)
           right == SubSeq(seq, i + 1, Len(seq))
<1>1. Len(seq) \in Nat /\ i \in Nat /\ 1 <= i /\ i <= Len(seq)
  OBVIOUS
<1>2. /\ left \in Seq(S) /\ Len(left) = i - 1
      /\ \A k \in 1 .. i - 1 : left[k] = seq[k]
  BY <1>1
<1>3. /\ right \in Seq(S) /\ Len(right) = Len(seq) - i
      /\ \A k \in 1 .. Len(seq) - i : right[k] = seq[i + k]
  BY <1>1
<1> HIDE DEF left, right
<1>4. RemoveAt(seq, i) = left \o right
  BY DEF RemoveAt, left, right
<1>5. /\ left \o right \in Seq(S) /\ Len(left \o right) = Len(seq) - 1
      /\ \A k \in 1 .. i - 1 : (left \o right)[k] = left[k]
      /\ \A k \in i .. Len(seq) - 1 : (left \o right)[k] = right[k - (i - 1)]
  <2>1. /\ left \o right \in Seq(S) /\ Len(left \o right) = Len(left) + Len(right)
        /\ \A k \in 1 .. Len(left) + Len(right) :
             (left \o right)[k] = IF k <= Len(left) THEN left[k] ELSE right[k - Len(left)]
    BY <1>2, <1>3, ConcatProperties
  <2>2. Len(left) + Len(right) = Len(seq) - 1
    BY <1>1, <1>2, <1>3
  <2> QED
    BY <1>1, <1>2, <1>3, <2>1, <2>2
<1>6. ASSUME NEW k \in 1 .. Len(seq) - 1
      PROVE  \E j \in 1 .. Len(seq) : (left \o right)[k] = seq[j]
  <2>1. CASE k <= i - 1
    <3>1. k \in 1 .. i - 1 /\ k \in 1 .. Len(seq)
      BY <1>1, <2>1
    <3>2. (left \o right)[k] = seq[k]
      BY <1>2, <1>5, <3>1
    <3> QED
      BY <3>1, <3>2, Zenon
  <2>2. CASE k >= i
    <3>1. k - (i - 1) \in 1 .. Len(seq) - i /\ i + (k - (i - 1)) = k + 1
      BY <1>1, <2>2
    <3>2. right[k - (i - 1)] = seq[k + 1]
      BY <1>3, <3>1
    <3>3. k \in i .. Len(seq) - 1 /\ k + 1 \in 1 .. Len(seq)
      BY <1>1, <2>2
    <3>4. (left \o right)[k] = seq[k + 1]
      BY <1>5, <3>2, <3>3
    <3> QED
      BY <3>3, <3>4, Zenon
  <2>3. k <= i - 1 \/ k >= i
    BY <1>1
  <2> QED
    BY <2>1, <2>2, <2>3
<1> QED
  BY <1>4, <1>5, <1>6

LEMMA IndexType ==
  ASSUME NEW table \in Table, NEW name, Knows(table), table.links # <<>>
  PROVE  IndexReplacement(table, name) \in Nat /\ IndexReplacement(table, name) >= 1
<1> DEFINE seq == Last(table.links).links
           I == {j \in 1 .. Len(seq) : seq[j].name = name}
           i == SelectLastInSeq(seq, LAMBDA ll : ll.name = name)
<1>1. table.links \in Seq(Entry) /\ Len(table.links) \in 1 .. Len(table.links)
  BY DEF Table
<1>2. Last(table.links) \in Entry /\ seq # NoLinks
  BY <1>1 DEF Last, Knows
<1>3. Len(seq) \in Nat
  BY <1>2 DEF Entry
<1>4. i = IF I # {} THEN Max(I) ELSE 0
  BY DEF SelectLastInSeq
<1>5. I # {} => Max(I) \in 1 .. Len(seq)
  <2>1. I \in SUBSET (1 .. Len(seq))
    OBVIOUS
  <2> HIDE DEF I
  <2> QED
    BY <1>3, <2>1, LastIndex
<1> HIDE DEF I
<1>6. i \in Nat
  BY <1>3, <1>4, <1>5
<1> HIDE DEF i
<1> QED
  BY <1>6 DEF IndexReplacement, i

\* What updateTwoHopTable makes of the table of a node: for a replacement the
\* links of the dead node, for the others an entry with another name, at the
\* same place, and with links that it had.
LEMMA UpdateOwn ==
  ASSUME NEW table \in Table, NEW dead, CanUpdate(table, dead, table.name)
  PROVE  LET new == UpdateTwoHopTable(table, dead, table.name)
             e == EntryOf(table.links, dead)
         IN  /\ new \in Table /\ new.name = table.name /\ Uniform(new)
             /\ e.links \in Seq(Candidate)
             /\ \A j \in DOMAIN new.links :
                  j \in 1 .. Len(e.links) /\ new.links[j] = WithoutLinks(e.links[j])
<1> DEFINE e == EntryOf(table.links, dead)
           i == SelectLastInSeq(table.links, LAMBDA l : l.name = dead)
           links == [j \in DOMAIN e.links |-> WithoutLinks(e.links[j])]
<1>1. table.links \in Seq(Entry) /\ Knows(table) /\ dead \in Names(table.links)
  BY DEF Table, CanUpdate
<1>2. i \in 1 .. Len(table.links) /\ e = table.links[i]
  BY <1>1, LastNamed DEF EntryOf
<1> HIDE DEF i, e
<1>3. e \in Entry /\ e.links # NoLinks
  BY <1>1, <1>2 DEF Knows
<1>4. e.links \in Seq(Candidate)
  BY <1>3 DEF Entry
<1>5. \A j \in DOMAIN e.links : WithoutLinks(e.links[j]) \in Entry
  <2>1. \A c \in Candidate : WithoutLinks(c) \in Entry
    BY DEF WithoutLinks, Candidate, Entry
  <2>2. \A j \in DOMAIN e.links : e.links[j] \in Candidate
    BY <1>4
  <2> QED
    BY <2>1, <2>2
<1>6. links \in Seq(Entry) /\ DOMAIN links = 1 .. Len(e.links)
  <2>1. DOMAIN e.links = 1 .. Len(e.links) /\ Len(e.links) \in Nat
    BY <1>4
  <2> QED
    BY <1>5, <2>1
<1>7. UpdateTwoHopTable(table, dead, table.name) = [table EXCEPT !.links = links]
  BY <1>2 DEF UpdateTwoHopTable, i
<1>8. \A j \in DOMAIN links : links[j].links = NoLinks /\ links[j] = WithoutLinks(e.links[j])
  BY DEF WithoutLinks
<1> HIDE DEF links
<1>9. [table EXCEPT !.links = links] \in Table /\ [table EXCEPT !.links = links].links = links
      /\ [table EXCEPT !.links = links].name = table.name
  BY <1>6 DEF Table
<1> QED
  BY <1>4, <1>6, <1>7, <1>8, <1>9 DEF Uniform, e

LEMMA EntryUpdate ==
  ASSUME NEW Places, NEW Links, NEW name \in Node, NEW degree \in Int, NEW links \in Links,
         NEW e \in [name : Node, coords : Places, numLinks : Int, links : Links]
  PROVE  [e EXCEPT !.name = name, !.numLinks = degree, !.links = links]
           \in [name : Node, coords : Places, numLinks : Int, links : Links]
OBVIOUS

LEMMA EntryRename ==
  ASSUME NEW Places, NEW Links, NEW name \in Node, NEW degree \in Int,
         NEW e \in [name : Node, coords : Places, numLinks : Int, links : Links]
  PROVE  [e EXCEPT !.name = name, !.numLinks = degree]
           \in [name : Node, coords : Places, numLinks : Int, links : Links]
OBVIOUS

\* Where EntryOf finds what it finds.
IndexOf(links, name) == SelectLastInSeq(links, LAMBDA l : l.name = name)

\* The entry of the dead node has got another name.
Renames(table, new, dead, replacement) ==
  LET i == IndexOf(table.links, dead)
      e == table.links[i]
  IN  /\ new \in Table /\ new.name = table.name /\ Knows(new)
      /\ i \in 1 .. Len(table.links) /\ e = EntryOf(table.links, dead)
      /\ Len(new.links) = Len(table.links)
      /\ \A j \in 1 .. Len(table.links) : j # i => new.links[j] = table.links[j]
      /\ new.links[i].name = replacement
      /\ new.links[i].coords = e.coords
      /\ new.links[i].numLinks <= e.numLinks
      /\ \A k \in 1 .. Len(new.links[i].links) :
           \E j \in 1 .. Len(e.links) : new.links[i].links[k] = e.links[j]

LEMMA UpdateOther ==
  ASSUME NEW table \in Table, NEW dead, NEW replacement \in Node \ {table.name},
         CanUpdate(table, dead, replacement)
  PROVE  Renames(table, UpdateTwoHopTable(table, dead, replacement), dead, replacement)
<1> DEFINE i == SelectLastInSeq(table.links, LAMBDA l : l.name = dead)
           e == table.links[i]
           x == IndexReplacement(table, replacement)
           rest == RemoveAt(e.links, x)
           f == [e EXCEPT !.name = replacement, !.numLinks = @ - 1, !.links = rest]
           links == [table.links EXCEPT ![i] = f]
<1>1. table.links \in Seq(Entry) /\ Knows(table) /\ dead \in Names(table.links)
  BY DEF Table, CanUpdate
<1>2. i \in 1 .. Len(table.links) /\ e = EntryOf(table.links, dead)
  BY <1>1, LastNamed DEF EntryOf
<1>3. x <= Len(e.links)
  BY <1>2 DEF CanUpdate
<1>4. UpdateTwoHopTable(table, dead, replacement) = [table EXCEPT !.links = links]
  <2>1. UpdateTwoHopTable(table, dead, replacement) = [table EXCEPT !.links[i] = f]
    BY Zenon DEF UpdateTwoHopTable
  <2> HIDE DEF i, e, x, f
  <2>2. [table EXCEPT !.links[i] = f] = [table EXCEPT !.links = [table.links EXCEPT ![i] = f]]
    BY DEF Table
  <2> QED
    BY <2>1, <2>2
<1>5. x \in Nat /\ x >= 1
  BY <1>1, <1>2, IndexType
<1> HIDE DEF i, x
<1>6. e \in Entry /\ e.links # NoLinks
  BY <1>1, <1>2 DEF Knows
<1> HIDE DEF e
<1>7. e.links \in Seq(Candidate) /\ e.numLinks \in Int
  BY <1>6 DEF Entry
<1>8. /\ rest \in Seq(Candidate)
      /\ \A k \in 1 .. Len(rest) : \E j \in 1 .. Len(e.links) : rest[k] = e.links[j]
  <2>1. x \in 1 .. Len(e.links)
    BY <1>3, <1>5, <1>7
  <2> DEFINE seq == e.links
  <2>2. seq \in Seq(Candidate) /\ x \in 1 .. Len(seq)
    BY <1>7, <2>1
  <2> HIDE DEF seq
  <2>3. /\ RemoveAt(seq, x) \in Seq(Candidate)
        /\ \A k \in 1 .. Len(RemoveAt(seq, x)) :
              \E j \in 1 .. Len(seq) : RemoveAt(seq, x)[k] = seq[j]
    BY <2>2, RemoveAtType
  <2> QED
    BY <2>3, Zenon DEF seq
<1> HIDE DEF rest
<1>9. /\ f \in Entry /\ f.name = replacement /\ f.coords = e.coords
      /\ f.numLinks <= e.numLinks /\ f.links = rest /\ rest # NoLinks
  <2>1. rest # NoLinks
    BY <1>8, NoLinksAssumption
  <2>2. e.numLinks - 1 \in Int /\ e.numLinks - 1 <= e.numLinks
    BY <1>7
  <2>3. f \in Entry
    BY <1>6, <1>8, <2>2, EntryUpdate DEF Entry
  <2>4. /\ f.name = replacement /\ f.coords = e.coords
        /\ f.numLinks = e.numLinks - 1 /\ f.links = rest
    BY <1>6 DEF Entry
  <2> HIDE DEF f
  <2> QED
    BY <2>1, <2>2, <2>3, <2>4
<1> HIDE DEF f
<1>10. /\ links \in Seq(Entry) /\ Len(links) = Len(table.links)
       /\ DOMAIN links = 1 .. Len(table.links)
       /\ links[i] = f /\ \A j \in 1 .. Len(table.links) : j # i => links[j] = table.links[j]
  BY <1>1, <1>2, <1>9
<1>11. \A j \in DOMAIN links : links[j].links # NoLinks
  BY <1>1, <1>9, <1>10 DEF Knows
<1> HIDE DEF links
<1> DEFINE new == UpdateTwoHopTable(table, dead, replacement)
<1>12. new \in Table /\ new.links = links /\ new.name = table.name
  BY <1>4, <1>10 DEF Table
<1> HIDE DEF new
<1>13. Knows(new)
  BY <1>11, <1>12 DEF Knows
<1>14. /\ new.links[i] = f /\ Len(new.links) = Len(table.links)
       /\ \A j \in 1 .. Len(table.links) : j # i => new.links[j] = table.links[j]
  BY <1>10, <1>12
<1>15. /\ new.links[i].name = replacement
       /\ new.links[i].coords = e.coords
       /\ new.links[i].numLinks <= e.numLinks
  BY <1>9, <1>14
<1>16. \A k \in 1 .. Len(new.links[i].links) :
          \E j \in 1 .. Len(e.links) : new.links[i].links[k] = e.links[j]
  <2>1. new.links[i].links = rest
    BY <1>9, <1>14
  <2> QED
    BY <1>8, <2>1
<1> QED
  BY <1>2, <1>12, <1>13, <1>14, <1>15, <1>16, Zenon DEF i, e, new, IndexOf, Renames

-----------------------------------------------------------------------------
\* Nobody waits for itself: an update for another replacement leaves an entry
\* of that name, the next dead node.
OthersAwaited == \A n \in Node : status[n] = "waiting" => best[n] # n

TypeInv == TypeOK /\ OthersAwaited /\ \A n \in Node : Uniform(twoHopTable[n])

Others ==
  /\ alive \subseteq Node
  /\ twoHopTable \in [Node -> Table] /\ \A n \in Node : twoHopTable[n].name = n
  /\ position \in [Node -> Int \X Int]
  /\ late \in [Node -> 0 .. Skew]
  /\ losses \in 0 .. MaxLosses /\ mistakes \in 0 .. MaxMistakes

LEMMA TypeParts == (TypeOK <=> Locals /\ Others) /\ (TypeOK' <=> Locals' /\ Others')
BY DEF TypeOK, Locals, Others

LEMMA RoundAwaits ==
  ASSUME Locals, OthersAwaited, NEW n \in Node, NEW table, NEW dead, NEW goal,
         TryToReplace(n, table, dead, goal)
  PROVE  OthersAwaited'
<1>1. CASE /\ status' = [status EXCEPT ![n] = "raised"] /\ best' = best
  BY <1>1 DEF OthersAwaited, Locals
<1>2. ASSUME NEW b, Round(n, table, dead, goal, b) PROVE OthersAwaited'
  <2>1. /\ best' = [best EXCEPT ![n] = b]
        /\ status' = [status EXCEPT ![n] = IF b = n THEN "moving" ELSE "waiting"]
    BY <1>2 DEF Round
  <2>2. ASSUME NEW m \in Node, status'[m] = "waiting" PROVE best'[m] # m
    <3>1. CASE m = n
      BY <2>1, <2>2, <3>1 DEF Locals
    <3>2. CASE m # n
      BY <2>1, <2>2, <3>2 DEF Locals, OthersAwaited
    <3> QED
      BY <3>1, <3>2
  <2> QED
    BY <2>2 DEF OthersAwaited
<1> QED
  BY <1>1, <1>2, Rounds

\* The neighbors of a node are finitely many.
LEMMA FiniteNames ==
  ASSUME NEW links \in Seq(Entry)
  PROVE  IsFiniteSet(Names(links)) /\ Names(links) \subseteq Node
<1> DEFINE I == 1 .. Len(links)
           f == [i \in I |-> links[i].name]
<1>1. Len(links) \in Nat /\ DOMAIN links = I
  OBVIOUS
<1>2. IsFiniteSet(I)
  BY <1>1, FS_Interval
<1>3. f \in Surjection(I, Names(links))
  <2>1. f \in [I -> Names(links)]
    BY <1>1 DEF Names
  <2>2. \A x \in Names(links) : \E i \in I : f[i] = x
    BY <1>1 DEF Names
  <2> QED
    BY <2>1, <2>2 DEF Surjection
<1>4. IsFiniteSet(Names(links))
  <2> HIDE DEF I, f
  <2> QED
    BY <1>2, <1>3, FS_Surjection
<1>5. \A i \in DOMAIN links : links[i].name \in Node
  <2>1. \A i \in DOMAIN links : links[i] \in Entry
    BY <1>1
  <2>2. \A e \in Entry : e.name \in Node
    BY DEF Entry
  <2> QED
    BY <2>1, <2>2
<1> QED
  BY <1>4, <1>5 DEF Names

LEMMA TypeInit == Init => TypeInv
<1> SUFFICES ASSUME Init PROVE TypeInv
  OBVIOUS
<1>1. \A n \in Node : Configs[n] \in Table /\ Configs[n].name = n /\ Coords(n) \in Int \X Int
  BY ConfigAssumption DEF Coords, Table
<1>2. Skew \in Nat /\ MaxLosses \in Nat /\ MaxMistakes \in Nat
  BY BoundsAssumption
<1>3. Locals /\ OthersAwaited
  BY <1>1 DEF Init, Locals, OthersAwaited
<1>4. /\ alive \subseteq Node
      /\ twoHopTable \in [Node -> Table] /\ \A n \in Node : twoHopTable[n].name = n
      /\ position \in [Node -> Int \X Int]
      /\ late \in [Node -> 0 .. Skew]
      /\ losses \in 0 .. MaxLosses /\ mistakes \in 0 .. MaxMistakes
  BY <1>1, <1>2, ConfigAssumption DEF Init
<1>5. \A n \in Node : Uniform(twoHopTable[n])
  BY ConfigAssumption DEF Init, Uniform
<1> QED
  BY <1>3, <1>4, <1>5, TypeParts DEF TypeInv, Others

\* The detection thread is right or makes a mistake.
LEMMA Starts ==
  ASSUME NEW n \in Node, NEW l \in Node, Detect(n, l) \/ Suspect(n, l)
  PROVE  /\ n \in alive /\ status[n] = "idle"
         /\ IsCutVertex(twoHopTable[n], l) /\ l \in Names(twoHopTable[n].links)
         /\ TryToReplace(n, twoHopTable[n], l, EntryOf(twoHopTable[n].links, l).coords)
         /\ late' = [late EXCEPT ![n] = 0]
         /\ UNCHANGED <<alive, position, twoHopTable, losses>>
<1>1. Idle(n) /\ Dara1C(n, l)
  BY DEF Detect, Suspect
<1>2. IsCutVertex(twoHopTable[n], l)
  BY <1>1 DEF Dara1C
<1>3. l \in Names(twoHopTable[n].links)
  BY <1>2 DEF IsCutVertex
<1> QED
  BY <1>1, <1>2, <1>3, Zenon DEF Idle, Dara1C

LEMMA TypeDetect ==
  ASSUME TypeInv, NEW n \in Node, NEW l \in Node, Detect(n, l) \/ Suspect(n, l)
  PROVE  TypeInv'
<1>1. /\ Locals /\ OthersAwaited
      /\ twoHopTable[n] \in Table /\ twoHopTable[n].name = n /\ Uniform(twoHopTable[n])
  BY TypeParts DEF TypeInv, Others
<1> DEFINE goal == EntryOf(twoHopTable[n].links, l).coords
<1>2. /\ l \in Names(twoHopTable[n].links) /\ twoHopTable[n].links \in Seq(Entry)
      /\ TryToReplace(n, twoHopTable[n], l, goal)
      /\ late' = [late EXCEPT ![n] = 0]
      /\ UNCHANGED <<alive, position, twoHopTable, losses>>
  BY <1>1, Starts DEF Table
<1>3. goal \in Int \X Int
  <2>1. EntryOf(twoHopTable[n].links, l) \in Entry
    BY <1>2, EntryFound
  <2>2. \A e \in Entry : e.coords \in Int \X Int
    BY DEF Entry
  <2> QED
    BY <2>1, <2>2
<1> HIDE DEF goal
<1>5. Locals'
  BY <1>1, <1>2, <1>3, RoundType
<1>6. OthersAwaited'
  BY <1>1, <1>2, RoundAwaits
<1>7. late' \in [Node -> 0 .. Skew]
  BY <1>2, BoundsAssumption DEF TypeInv, TypeOK
<1>8. mistakes' \in 0 .. MaxMistakes
  BY BoundsAssumption DEF Detect, Suspect, TypeInv, TypeOK
<1> QED
  BY <1>1, <1>2, <1>5, <1>6, <1>7, <1>8, TypeParts DEF TypeInv, Others

LEMMA TypeArrive ==
  ASSUME TypeInv, NEW n \in Node, Arrive(n)
  PROVE  TypeInv' /\ losses' >= losses /\ mistakes' = mistakes
<1> DEFINE new == UpdateTwoHopTable(twoHopTable[n], failed[n], n)
<1>1. /\ Locals /\ OthersAwaited /\ UNCHANGED <<alive, failed, coordsFailing, best, timer, late, mistakes>>
      /\ twoHopTable[n] \in Table /\ twoHopTable[n].name = n
  <2>1. UNCHANGED <<alive, failed, coordsFailing, best, timer, late, mistakes>>
    BY Zenon DEF Arrive, locals
  <2> QED
    BY <2>1, TypeParts DEF TypeInv, Others
<1>2. position' \in [Node -> Int \X Int]
  BY DEF Arrive, TypeInv, TypeOK
<1>3. CASE ~CanUpdate(twoHopTable[n], failed[n], n)
  <2>1. /\ status' = [status EXCEPT ![n] = "raised"]
        /\ UNCHANGED <<twoHopTable, lst_recovery, losses>>
    BY <1>3 DEF Arrive
  <2>2. Locals' /\ OthersAwaited'
    BY <1>1, <2>1 DEF Locals, OthersAwaited
  <2>3. losses \in Nat
    BY BoundsAssumption DEF TypeInv, TypeOK
  <2> QED
    BY <1>1, <1>2, <2>1, <2>2, <2>3, TypeParts DEF TypeInv, Others
<1>4. CASE CanUpdate(twoHopTable[n], failed[n], n)
  <2>1. new \in Table /\ new.name = n /\ Uniform(new)
    BY <1>1, <1>4, UpdateOwn
  <2>2. twoHopTable' = [twoHopTable EXCEPT ![n] = new]
    BY <1>4 DEF Arrive
  <2>3. status' = [status EXCEPT ![n] = "idle"]
    BY <1>4 DEF Arrive
  <2>4. PICK lost \in SUBSET (Names(twoHopTable'[n].links) \cap alive) :
          LET told == (Names(twoHopTable'[n].links) \cap alive) \ lost IN
          /\ losses' = losses + Cardinality(lost)
          /\ losses' <= MaxLosses
          /\ lst_recovery' =
               [m \in Node |-> lst_recovery[m] \cup
                  {msg \in {[fn |-> failed[n], bc |-> n]} : m \in told}]
    BY <1>4 DEF Arrive
  <2> HIDE DEF new
  <2>5. twoHopTable'[n].links \in Seq(Entry)
    BY <2>1, <2>2 DEF TypeInv, TypeOK, Table
  <2>6. Cardinality(lost) \in Nat
    <3>1. IsFiniteSet(Names(twoHopTable'[n].links))
      BY <2>5, FiniteNames
    <3> QED
      BY <2>4, <3>1, FS_Subset, FS_CardinalityType
  <2>7. losses' \in 0 .. MaxLosses /\ losses' >= losses
    BY <2>4, <2>6, BoundsAssumption DEF TypeInv, TypeOK
  <2>8. lst_recovery' \in [Node -> SUBSET [fn : Node, bc : Node]]
    <3>1. failed[n] \in Node /\ \A m \in Node : lst_recovery[m] \in SUBSET [fn : Node, bc : Node]
      BY <1>1 DEF Locals
    <3>2. [fn |-> failed[n], bc |-> n] \in [fn : Node, bc : Node]
      BY <3>1
    <3> QED
      BY <2>4, <3>1, <3>2
  <2>9. Locals' /\ OthersAwaited'
    BY <1>1, <2>3, <2>8 DEF Locals, OthersAwaited
  <2>10. /\ twoHopTable' \in [Node -> Table]
         /\ \A m \in Node : twoHopTable'[m].name = m /\ Uniform(twoHopTable'[m])
    <3>1. ASSUME NEW m \in Node
          PROVE  twoHopTable'[m] = IF m = n THEN new ELSE twoHopTable[m]
      BY <2>2 DEF TypeInv, TypeOK
    <3>2. twoHopTable' \in [Node -> Table]
      BY <2>1, <2>2 DEF TypeInv, TypeOK
    <3> QED
      BY <2>1, <3>1, <3>2 DEF TypeInv, TypeOK
  <2> QED
    BY <1>1, <1>2, <2>7, <2>9, <2>10, TypeParts DEF TypeInv, Others
<1> QED
  BY <1>3, <1>4

\* The table that EndWait makes, for somebody else.
LEMMA TableAfterWait ==
  ASSUME TypeInv, NEW n \in Node, status[n] = "waiting",
         CanUpdate(twoHopTable[n], failed[n], best[n])
  PROVE  LET new == UpdateTwoHopTable(twoHopTable[n], failed[n], best[n])
         IN  new \in Table /\ new.name = n /\ Uniform(new) /\ best[n] \in Names(new.links)
<1> DEFINE new == UpdateTwoHopTable(twoHopTable[n], failed[n], best[n])
           i == IndexOf(twoHopTable[n].links, failed[n])
<1>1. /\ twoHopTable[n] \in Table /\ twoHopTable[n].name = n
      /\ best[n] \in Node \ {twoHopTable[n].name}
  BY DEF TypeInv, TypeOK, OthersAwaited
<1>2. /\ new \in Table /\ new.name = n /\ Knows(new)
      /\ i \in 1 .. Len(twoHopTable[n].links) /\ Len(new.links) = Len(twoHopTable[n].links)
      /\ new.links[i].name = best[n]
  <2>1. Renames(twoHopTable[n], new, failed[n], best[n])
    BY <1>1, UpdateOther
  <2> HIDE DEF new
  <2> QED
    BY <1>1, <2>1 DEF Renames
<1> HIDE DEF new, i
<1>3. DOMAIN new.links = 1 .. Len(new.links)
  BY <1>2 DEF Table
<1>4. best[n] \in Names(new.links)
  BY <1>2, <1>3 DEF Names
<1> QED
  BY <1>2, <1>4 DEF Uniform, new

\* The table that EndWait leaves when the update raises.
LEMMA TableByError ==
  ASSUME NEW table \in Table, NEW dead, NEW replacement \in Node
  PROVE  LET new == LeftByError(table, dead, replacement)
         IN  new = table \/ Renames(table, new, dead, replacement)
<1> DEFINE new == LeftByError(table, dead, replacement)
           i == SelectLastInSeq(table.links, LAMBDA l : l.name = dead)
           entry == table.links[i]
           e == [entry EXCEPT !.name = replacement, !.numLinks = @ - 1]
           links == [table.links EXCEPT ![i] = e]
<1> SUFFICES ASSUME new # table PROVE Renames(table, new, dead, replacement)
  OBVIOUS
<1>1. Knows(table) /\ dead \in Names(table.links) /\ new = [table EXCEPT !.links[i] = e]
  BY Zenon DEF LeftByError
<1>2. table.links \in Seq(Entry)
  BY DEF Table
<1>3. i \in 1 .. Len(table.links) /\ entry = EntryOf(table.links, dead)
  BY <1>1, <1>2, LastNamed DEF EntryOf
<1>4. i = IndexOf(table.links, dead)
  BY Zenon DEF IndexOf
<1> HIDE DEF i
<1>5. entry \in Entry /\ entry.links # NoLinks
  BY <1>1, <1>2, <1>3 DEF Knows
<1> HIDE DEF entry
<1>6. /\ e \in Entry /\ e.links = entry.links /\ e.name = replacement
      /\ e.coords = entry.coords /\ e.numLinks <= entry.numLinks
  <2> DEFINE d == entry.numLinks - 1
  <2>1. d \in Int /\ d <= entry.numLinks
    BY <1>5 DEF Entry
  <2>2. e = [entry EXCEPT !.name = replacement, !.numLinks = d]
    OBVIOUS
  <2> HIDE DEF d, e
  <2>3. e \in Entry
    BY <1>5, <2>1, <2>2, EntryRename DEF Entry
  <2>4. /\ e.links = entry.links /\ e.name = replacement /\ e.coords = entry.coords
        /\ e.numLinks = d
    BY <1>5, <2>2 DEF Entry
  <2> QED
    BY <2>1, <2>3, <2>4
<1> HIDE DEF e
<1>7. new = [table EXCEPT !.links = links]
  BY <1>1 DEF Table
<1>8. /\ links \in Seq(Entry) /\ DOMAIN links = 1 .. Len(table.links)
      /\ Len(links) = Len(table.links)
      /\ links[i] = e /\ \A j \in 1 .. Len(table.links) : j # i => links[j] = table.links[j]
  BY <1>2, <1>3, <1>6
<1>9. \A j \in DOMAIN links : links[j].links # NoLinks
  BY <1>1, <1>2, <1>5, <1>6, <1>8 DEF Knows
<1> HIDE DEF links, new
<1>10. new \in Table /\ new.links = links /\ new.name = table.name
  BY <1>7, <1>8 DEF Table
<1>11. Knows(new)
  BY <1>9, <1>10 DEF Knows
<1>12. \A k \in 1 .. Len(new.links[i].links) :
          \E j \in 1 .. Len(entry.links) : new.links[i].links[k] = entry.links[j]
  <2>1. new.links[i].links = entry.links
    BY <1>6, <1>8, <1>10
  <2> QED
    BY <2>1
<1>13. /\ Len(new.links) = Len(table.links) /\ new.links[i] = e
       /\ \A j \in 1 .. Len(table.links) : j # i => new.links[j] = table.links[j]
  BY <1>8, <1>10
<1>14. /\ new.links[i].name = replacement /\ new.links[i].coords = entry.coords
       /\ new.links[i].numLinks <= entry.numLinks
  BY <1>6, <1>13
<1> QED
  BY <1>3, <1>4, <1>10, <1>11, <1>12, <1>13, <1>14, Zenon DEF Renames, entry, new

LEMMA TypeEndWait ==
  ASSUME TypeInv, NEW n \in Node, EndWait(n)
  PROVE  TypeInv'
<1> DEFINE new == UpdateTwoHopTable(twoHopTable[n], failed[n], best[n])
<1>1. UNCHANGED <<alive, position, late, losses, mistakes>>
  BY Zenon DEF EndWait, errors
<1>2. /\ Locals /\ OthersAwaited /\ Others
  BY TypeParts DEF TypeInv
<1>3. CASE ~CanUpdate(twoHopTable[n], failed[n], best[n])
  <2> DEFINE left == LeftByError(twoHopTable[n], failed[n], best[n])
  <2>1. /\ status' = [status EXCEPT ![n] = "raised"]
        /\ twoHopTable' = [twoHopTable EXCEPT ![n] = left]
        /\ failed' = failed /\ best' = best
        /\ coordsFailing' = coordsFailing /\ timer' = timer /\ lst_recovery' = lst_recovery
    BY <1>3, Zenon DEF EndWait, locals
  <2>2. Locals' /\ OthersAwaited'
    BY <1>2, <2>1 DEF Locals, OthersAwaited
  <2>3. Others' /\ \A m \in Node : Uniform(twoHopTable'[m])
    <3>1. left \in Table /\ left.name = n /\ Uniform(left)
      <4>1. /\ twoHopTable[n] \in Table /\ Uniform(twoHopTable[n]) /\ best[n] \in Node
            /\ twoHopTable[n].name = n
        BY <1>2 DEF TypeInv, Others, Locals
      <4> QED
        BY <4>1, TableByError DEF Renames, Uniform
    <3> HIDE DEF left
    <3>2. \A m \in Node : twoHopTable'[m] = IF m = n THEN left ELSE twoHopTable[m]
      BY <1>2, <2>1 DEF Others
    <3>3. twoHopTable' \in [Node -> Table]
      BY <1>2, <2>1, <3>1 DEF Others
    <3> QED
      BY <1>1, <1>2, <3>1, <3>2, <3>3 DEF TypeInv, Others
  <2> QED
    BY <2>2, <2>3, TypeParts DEF TypeInv
<1>4. CASE CanUpdate(twoHopTable[n], failed[n], best[n])
  <2>1. status[n] = "waiting"
    BY Zenon DEF EndWait
  <2>2. new \in Table /\ new.name = n /\ Uniform(new) /\ best[n] \in Names(new.links)
    BY <1>4, <2>1, TableAfterWait
  <2>3. twoHopTable' = [twoHopTable EXCEPT ![n] = new]
    BY <1>4 DEF EndWait
  <2>4. \/ /\ status' = [status EXCEPT ![n] = "idle"]
           /\ failed' = failed /\ best' = best
           /\ coordsFailing' = coordsFailing /\ timer' = timer /\ lst_recovery' = lst_recovery
        \/ TryToReplace(n, twoHopTable'[n], best[n], coordsFailing[n])
    BY <1>4, Zenon DEF EndWait, locals
  <2> HIDE DEF new
  <2>5. ASSUME NEW m \in Node
        PROVE  twoHopTable'[m] = IF m = n THEN new ELSE twoHopTable[m]
    BY <1>2, <2>3 DEF Others
  <2>6. Others' /\ \A m \in Node : Uniform(twoHopTable'[m])
    <3>1. twoHopTable' \in [Node -> Table]
      BY <1>2, <2>2, <2>3 DEF Others
    <3> QED
      BY <1>1, <1>2, <2>2, <2>5, <3>1 DEF TypeInv, Others
  <2>7. twoHopTable'[n] = new
    BY <2>5
  <2>8. CASE TryToReplace(n, twoHopTable'[n], best[n], coordsFailing[n])
    <3>1. TryToReplace(n, new, best[n], coordsFailing[n])
      BY <2>7, <2>8
    <3>2. coordsFailing[n] \in Int \X Int
      BY <1>2 DEF Locals
    <3>3. Locals'
      BY <1>2, <2>2, <3>1, <3>2, RoundType
    <3>4. OthersAwaited'
      BY <1>2, <3>1, RoundAwaits
    <3> QED
      BY <2>6, <3>3, <3>4, TypeParts DEF TypeInv
  <2>9. CASE /\ status' = [status EXCEPT ![n] = "idle"]
             /\ failed' = failed /\ best' = best
             /\ coordsFailing' = coordsFailing /\ timer' = timer /\ lst_recovery' = lst_recovery
    <3>1. Locals' /\ OthersAwaited'
      BY <1>2, <2>9 DEF Locals, OthersAwaited
    <3> QED
      BY <2>6, <3>1, TypeParts DEF TypeInv
  <2> QED
    BY <2>4, <2>8, <2>9
<1> QED
  BY <1>3, <1>4

LEMMA TypeTick ==
  ASSUME TypeInv, Tick
  PROVE  TypeInv'
<1>1. Locals /\ Others /\ OthersAwaited
  BY TypeParts DEF TypeInv
<1>2. UNCHANGED <<alive, position, twoHopTable, status, failed, coordsFailing, best,
                  lst_recovery, losses, mistakes>>
  BY DEF Tick, locals, errors
<1>3. timer' \in [Node -> Nat]
  <2>1. \A n \in Node : timer[n] \in Nat /\ (Busy(n) => timer[n] > 0)
    BY <1>1 DEF Locals, Tick
  <2>2. \A n \in Node : (IF Busy(n) THEN timer[n] - 1 ELSE timer[n]) \in Nat
    BY <2>1
  <2>3. timer' = [n \in Node |-> IF Busy(n) THEN timer[n] - 1 ELSE timer[n]]
    BY DEF Tick
  <2> QED
    BY <2>2, <2>3
<1>4. late' \in [Node -> 0 .. Skew]
  <2>1. Skew \in Nat
    BY BoundsAssumption
  <2>2. \A n \in Node : late[n] \in 0 .. Skew /\ (Overdue(n) => late[n] < Skew)
    BY <1>1 DEF Others, Tick
  <2>3. \A n \in Node : (IF Overdue(n) THEN late[n] + 1 ELSE late[n]) \in 0 .. Skew
    BY <2>1, <2>2
  <2>4. late' = [n \in Node |-> IF Overdue(n) THEN late[n] + 1 ELSE late[n]]
    BY DEF Tick
  <2> QED
    BY <2>3, <2>4
<1>5. Locals' /\ OthersAwaited' /\ Others'
  BY <1>1, <1>2, <1>3, <1>4 DEF Locals, Others, OthersAwaited
<1> QED
  BY <1>2, <1>5, TypeParts DEF TypeInv

LEMMA TypeNext == TypeInv /\ [Next]_vars => TypeInv'
<1> SUFFICES ASSUME TypeInv, [Next]_vars PROVE TypeInv'
  OBVIOUS
<1>1. CASE Tick
  BY <1>1, TypeTick
<1>2. ASSUME NEW n \in Node, Arrive(n) PROVE TypeInv'
  BY <1>2, TypeArrive
<1>3. ASSUME NEW n \in Node, EndWait(n) PROVE TypeInv'
  BY <1>3, TypeEndWait
<1>4. ASSUME NEW n \in Node, NEW l \in Node, Detect(n, l) \/ Suspect(n, l) PROVE TypeInv'
  BY <1>4, TypeDetect
<1>5. ASSUME NEW n \in Node, Crash(n) PROVE TypeInv'
  <2>1. /\ Locals /\ Others /\ OthersAwaited
        /\ alive' = alive \ {n}
        /\ UNCHANGED <<position, twoHopTable, status, failed, coordsFailing, best, timer,
                       lst_recovery, late, losses, mistakes>>
    BY <1>5, TypeParts DEF TypeInv, Crash, locals, errors
  <2>2. Locals' /\ Others' /\ OthersAwaited'
    BY <2>1 DEF Locals, Others, OthersAwaited
  <2> QED
    BY <2>1, <2>2, TypeParts DEF TypeInv
<1>6. CASE UNCHANGED vars
  <2>1. Locals' /\ Others' /\ OthersAwaited' /\ UNCHANGED twoHopTable
    BY <1>6, TypeParts DEF TypeInv, Locals, Others, OthersAwaited, vars, locals, errors
  <2> QED
    BY <2>1, TypeParts DEF TypeInv
<1> QED
  BY <1>1, <1>2, <1>3, <1>4, <1>5, <1>6 DEF Next, Progress

\* What has been lost, or mistaken, stays so.
LEMMA StaysDisturbed ==
  ASSUME TypeInv, [Next]_vars, Undisturbed'
  PROVE  Undisturbed
<1>1. losses \in Nat /\ mistakes \in Nat /\ losses' = 0 /\ mistakes' = 0
  BY BoundsAssumption DEF TypeInv, TypeOK, Undisturbed
<1>2. ASSUME losses' >= losses, mistakes' >= mistakes PROVE Undisturbed
  BY <1>1, <1>2 DEF Undisturbed
<1>3. ASSUME UNCHANGED errors PROVE Undisturbed
  BY <1>1, <1>2, <1>3 DEF errors
<1>4. CASE Tick
  BY <1>3, <1>4 DEF Tick
<1>5. ASSUME NEW n \in Node, Arrive(n) PROVE Undisturbed
  BY <1>1, <1>2, <1>5, TypeArrive
<1>6. ASSUME NEW n \in Node, EndWait(n) PROVE Undisturbed
  BY <1>3, <1>6, Zenon DEF EndWait
<1>7. ASSUME NEW n \in Node, NEW l \in Node, Detect(n, l) \/ Suspect(n, l) PROVE Undisturbed
  <2>1. mistakes' >= mistakes
    BY <1>1, <1>7 DEF Detect, Suspect
  <2>2. losses' = losses
    BY <1>7, Starts
  <2> QED
    BY <1>1, <1>2, <2>1, <2>2
<1>8. ASSUME NEW n \in Node, Crash(n) PROVE Undisturbed
  BY <1>3, <1>8 DEF Crash
<1>9. CASE UNCHANGED vars
  BY <1>3, <1>9 DEF vars
<1> QED
  BY <1>4, <1>5, <1>6, <1>7, <1>8, <1>9 DEF Next, Progress

LEMMA TypeAlways == Spec => []TypeInv
BY TypeInit, TypeNext, PTL DEF Spec

\* Whatever the files say and whoever dies, tables keep their form, the best
\* candidate of a round is a node, the table knows the place it drives from,
\* and nobody notices a death too late (TypeOK; dara1C, updateTwoHopTable).
THEOREM TypeCorrect == Spec => []TypeOK
<1>1. TypeInv => TypeOK
  BY DEF TypeInv
<1> QED
  BY <1>1, TypeAlways, PTL

-----------------------------------------------------------------------------
\* At most one entry is at the place of the hub and no name is listed twice.
Distinct(links, hub) ==
  \A i, j \in DOMAIN links :
    \/ links[i].name = links[j].name
    \/ links[i].coords = hub /\ links[j].coords = hub
    => i = j

\* Who can come to the hub is at its own place and listed nowhere else.
Spares(links, hub) ==
  \A i \in DOMAIN links : links[i].coords = hub =>
    \A j \in DOMAIN links[i].links :
      LET c == links[i].links[j] IN
      /\ c.coords = Coords(c.name) /\ c.numLinks <= 2
      /\ \A k \in DOMAIN links : links[k].name = c.name => k = i

Tidy(links, hub) ==
  /\ \A i \in DOMAIN links : links[i].links # NoLinks
  /\ \A i \in DOMAIN links : links[i].numLinks > 2 => links[i].coords = hub
  /\ Distinct(links, hub) /\ Spares(links, hub)

\* The table of a node that has gone to the hub: nobody there is a cut vertex.
Replaced(links) ==
  \A i \in DOMAIN links :
    links[i].links = NoLinks /\ links[i].numLinks <= 2 /\ links[i].coords = Coords(links[i].name)

LEMMA TidyConfigs ==
  ASSUME NEW h \in Node, OneCutVertex(h), NEW n \in Node
  PROVE  Tidy(Configs[n].links, Coords(h))
<1> DEFINE links == Configs[n].links
<1>1. /\ \A i, j \in DOMAIN links : links[i].name = links[j].name => i = j
      /\ \A i \in DOMAIN links :
            /\ links[i].coords = Coords(links[i].name)
            /\ links[i].numLinks > 2 => links[i].name = h
            /\ links[i].name = h =>
                 \A j \in DOMAIN links[i].links :
                   LET c == links[i].links[j] IN
                   c.coords = Coords(c.name) /\ c.numLinks <= 2 /\ c.name \notin Names(links)
  BY DEF OneCutVertex
<1>2. \A i \in DOMAIN links : links[i].name \in Node /\ links[i].links # NoLinks
  <2>1. links \in Seq(Entry) /\ Knows(Configs[n])
    BY ConfigAssumption DEF Table
  <2>2. \A i \in DOMAIN links : links[i] \in Entry
    BY <2>1
  <2>3. \A e \in Entry : e.name \in Node
    BY DEF Entry
  <2> QED
    BY <2>1, <2>2, <2>3 DEF Knows
<1> HIDE DEF links
<1>3. \A i \in DOMAIN links : links[i].coords = Coords(h) => links[i].name = h
  BY <1>1, <1>2 DEF OneCutVertex
<1>4. Distinct(links, Coords(h))
  BY <1>1, <1>3 DEF Distinct
<1>5. Spares(links, Coords(h))
  <2> SUFFICES ASSUME NEW i \in DOMAIN links, links[i].coords = Coords(h),
                      NEW j \in DOMAIN links[i].links
               PROVE  LET c == links[i].links[j] IN
                      /\ c.coords = Coords(c.name) /\ c.numLinks <= 2
                      /\ \A k \in DOMAIN links : links[k].name = c.name => k = i
    BY DEF Spares
  <2> DEFINE c == links[i].links[j]
  <2>1. c.coords = Coords(c.name) /\ c.numLinks <= 2 /\ c.name \notin Names(links)
    BY <1>1, <1>3
  <2>2. \A k \in DOMAIN links : links[k].name # c.name
    BY <2>1 DEF Names
  <2> QED
    BY <2>1, <2>2
<1>6. \A i \in DOMAIN links : links[i].numLinks > 2 => links[i].coords = Coords(h)
  BY <1>1
<1> QED
  BY <1>2, <1>4, <1>5, <1>6 DEF Tidy, links

\* A rename at the hub by one of its neighbors leaves the table tidy.
LEMMA TidyRename ==
  ASSUME NEW hub, NEW links \in Seq(Entry), NEW new \in Seq(Entry), Tidy(links, hub),
         Len(new) = Len(links),
         NEW i \in 1 .. Len(links), links[i].coords = hub,
         \A j \in 1 .. Len(links) : j # i => new[j] = links[j],
         new[i].name \in Names(links[i].links), new[i].coords = hub,
         new[i].links # NoLinks,
         \A k \in 1 .. Len(new[i].links) :
            \E j \in 1 .. Len(links[i].links) : new[i].links[k] = links[i].links[j]
  PROVE  Tidy(new, hub)
<1>1. DOMAIN links = 1 .. Len(links) /\ DOMAIN new = 1 .. Len(links)
  OBVIOUS
<1>2. \A e \in Entry : e.links # NoLinks => DOMAIN e.links = 1 .. Len(e.links)
  BY DEF Entry
<1>3. DOMAIN links[i].links = 1 .. Len(links[i].links) /\ DOMAIN new[i].links = 1 .. Len(new[i].links)
  <2>1. links[i] \in Entry /\ new[i] \in Entry
    BY <1>1
  <2>2. links[i].links # NoLinks
    BY DEF Tidy
  <2> QED
    BY <1>2, <2>1, <2>2
<1>4. \A k \in DOMAIN links : k # i => links[k].name # new[i].name
  <2>1. PICK j \in DOMAIN links[i].links : links[i].links[j].name = new[i].name
    BY DEF Names
  <2> QED
    BY <1>1, <2>1 DEF Tidy, Spares
<1>5. \A k \in DOMAIN links : k # i => links[k].coords # hub
  BY <1>1 DEF Tidy, Distinct
<1>6. Distinct(new, hub)
  <2> SUFFICES ASSUME NEW a \in DOMAIN new, NEW b \in DOMAIN new, a # b
               PROVE  /\ new[a].name # new[b].name
                      /\ ~(new[a].coords = hub /\ new[b].coords = hub)
    BY DEF Distinct
  <2>1. CASE a = i
    BY <1>1, <1>4, <1>5, <2>1
  <2>2. CASE b = i
    BY <1>1, <1>4, <1>5, <2>2
  <2>3. CASE a # i /\ b # i
    BY <1>1, <2>3 DEF Tidy, Distinct
  <2> QED
    BY <2>1, <2>2, <2>3
<1>7. Spares(new, hub)
  <2> SUFFICES ASSUME NEW a \in DOMAIN new, new[a].coords = hub, NEW j \in DOMAIN new[a].links
               PROVE  LET c == new[a].links[j] IN
                      /\ c.coords = Coords(c.name) /\ c.numLinks <= 2
                      /\ \A k \in DOMAIN new : new[k].name = c.name => k = a
    BY DEF Spares
  <2>1. a = i
    BY <1>1, <1>5
  <2>2. PICK b \in DOMAIN links[i].links : new[i].links[j] = links[i].links[b]
    BY <1>3, <2>1
  <2> DEFINE c == new[a].links[j]
  <2>3. /\ c.coords = Coords(c.name) /\ c.numLinks <= 2
        /\ \A k \in DOMAIN links : links[k].name = c.name => k = i
    BY <1>1, <2>1, <2>2 DEF Tidy, Spares
  <2> HIDE DEF c
  <2>4. \A k \in DOMAIN new : new[k].name = c.name => k = a
    BY <1>1, <2>1, <2>3
  <2> QED
    BY <2>3, <2>4 DEF c
<1>8. \A k \in DOMAIN new : new[k].links # NoLinks /\ (new[k].numLinks > 2 => new[k].coords = hub)
  BY <1>1 DEF Tidy
<1> QED
  BY <1>6, <1>7, <1>8 DEF Tidy

LEMMA EntryAt ==
  ASSUME NEW S, NEW links \in Seq(S), NEW name \in Names(links)
  PROVE  /\ IndexOf(links, name) \in 1 .. Len(links)
         /\ EntryOf(links, name) = links[IndexOf(links, name)]
         /\ links[IndexOf(links, name)].name = name
BY LastNamed DEF IndexOf, EntryOf

\* A node in the loop of dara1C is about the hub, and its best candidate is
\* one of the spares.
Recovering(n, hub) ==
  status[n] \in {"moving", "waiting"} =>
    LET links == twoHopTable[n].links IN
    /\ coordsFailing[n] = hub
    /\ Tidy(links, hub)
    /\ failed[n] \in Names(links) /\ EntryOf(links, failed[n]).coords = hub
    /\ status[n] = "waiting" => best[n] \in Names(EntryOf(links, failed[n]).links)

Good(l) == l.coords = Coords(l.name) \/ position[l.name] = l.coords

\* What a node lists is true, but for the hub while it recovers it.
Truthful(n, hub) ==
  \A i \in DOMAIN twoHopTable[n].links :
    LET l == twoHopTable[n].links[i] IN Good(l) \/ (status[n] # "idle" /\ l.coords = hub)

HubInv(h) ==
  \A n \in Node :
    /\ Tidy(twoHopTable[n].links, Coords(h)) \/ Replaced(twoHopTable[n].links)
    /\ position[n] \in {Coords(n), Coords(h)}
    /\ \A msg \in lst_recovery[n] : position[msg.bc] = Coords(h)
    /\ Recovering(n, Coords(h)) /\ Truthful(n, Coords(h))

\* Nobody's thread ends in this step.
Unraised == \A m \in Node : status'[m] = "raised" => status[m] = "raised"

LEMMA RoundRecovers ==
  ASSUME Locals, NEW hub, NEW n \in Node, NEW table \in Table, table.name = n,
         NEW dead \in Names(table.links), Tidy(table.links, hub),
         EntryOf(table.links, dead).coords = hub,
         TryToReplace(n, table, dead, hub), twoHopTable'[n] = table
  PROVE  /\ Recovering(n, hub)' /\ status'[n] \in {"moving", "waiting"}
         /\ lst_recovery'[n] = {}
         /\ \A m \in Node \ {n} : /\ status'[m] = status[m] /\ failed'[m] = failed[m]
                                /\ best'[m] = best[m] /\ coordsFailing'[m] = coordsFailing[m]
                                /\ lst_recovery'[m] = lst_recovery[m]
<1>1. EntryOf(table.links, dead).links # NoLinks
  <2>1. table.links \in Seq(Entry)
    BY DEF Table
  <2> QED
    BY <2>1, EntryAt DEF Tidy
<1>2. Round(n, table, dead, hub, FindBestCandidate(table, dead))
  BY <1>1, Rounds
<1>3. PICK b \in Node :
       /\ b = FindBestCandidate(table, dead)
       /\ failed' = [failed EXCEPT ![n] = dead]
       /\ coordsFailing' = [coordsFailing EXCEPT ![n] = hub]
       /\ best' = [best EXCEPT ![n] = b]
       /\ status' = [status EXCEPT ![n] = IF b = n THEN "moving" ELSE "waiting"]
       /\ lst_recovery' = [lst_recovery EXCEPT ![n] = {}]
  BY <1>1, <1>2, BestCandidate, Zenon DEF Round
<1>4. b = n \/ b \in Names(EntryOf(table.links, dead).links)
  BY <1>1, <1>3, BestCandidate
<1>5. /\ failed'[n] = dead /\ coordsFailing'[n] = hub /\ best'[n] = b
      /\ status'[n] = IF b = n THEN "moving" ELSE "waiting"
      /\ lst_recovery'[n] = {}
  BY <1>3 DEF Locals
<1>6. Recovering(n, hub)'
  BY <1>4, <1>5 DEF Recovering
<1>7. \A m \in Node \ {n} : /\ status'[m] = status[m] /\ failed'[m] = failed[m]
                          /\ best'[m] = best[m] /\ coordsFailing'[m] = coordsFailing[m]
                          /\ lst_recovery'[m] = lst_recovery[m]
  BY <1>3 DEF Locals
<1> QED
  BY <1>5, <1>6, <1>7

\* Nothing that a node knows, and no place it is true of, has changed.
LEMMA SameNode ==
  ASSUME NEW n \in Node, NEW hub,
         twoHopTable'[n] = twoHopTable[n], status'[n] = status[n], failed'[n] = failed[n],
         best'[n] = best[n], coordsFailing'[n] = coordsFailing[n],
         \A l \in Entry : Good(l) => Good(l)',
         twoHopTable[n].links \in Seq(Entry)
  PROVE  /\ Recovering(n, hub) => Recovering(n, hub)'
         /\ Truthful(n, hub) => Truthful(n, hub)'
<1>1. \A i \in DOMAIN twoHopTable[n].links : twoHopTable[n].links[i] \in Entry
  OBVIOUS
<1> QED
  BY <1>1 DEF Recovering, Truthful

LEMMA HubInit ==
  ASSUME NEW h \in Node, OneCutVertex(h), Init
  PROVE  HubInv(h)
<1> SUFFICES ASSUME NEW n \in Node
             PROVE  /\ Tidy(twoHopTable[n].links, Coords(h)) \/ Replaced(twoHopTable[n].links)
                    /\ position[n] \in {Coords(n), Coords(h)}
                    /\ \A msg \in lst_recovery[n] : position[msg.bc] = Coords(h)
                    /\ Recovering(n, Coords(h)) /\ Truthful(n, Coords(h))
  BY DEF HubInv
<1>1. Tidy(twoHopTable[n].links, Coords(h))
  BY TidyConfigs DEF Init
<1>2. position[n] = Coords(n) /\ lst_recovery[n] = {} /\ status[n] = "idle"
  BY DEF Init
<1>3. Recovering(n, Coords(h))
  BY <1>2 DEF Recovering
<1>4. Truthful(n, Coords(h))
  BY DEF Init, Truthful, Good, OneCutVertex
<1> QED
  BY <1>1, <1>2, <1>3, <1>4

LEMMA HubDetect ==
  ASSUME NEW h \in Node, TypeInv, HubInv(h), NEW n \in Node, NEW l \in Node,
         Detect(n, l) \/ Suspect(n, l)
  PROVE  HubInv(h)' /\ Unraised
<1> DEFINE links == twoHopTable[n].links
           first == SelectInSeq(links, LAMBDA x : x.name = l)
<1>1. /\ Locals /\ twoHopTable[n] \in Table /\ twoHopTable[n].name = n /\ links \in Seq(Entry)
      /\ UNCHANGED <<twoHopTable, position>> /\ status[n] = "idle"
      /\ TryToReplace(n, twoHopTable[n], l, EntryOf(links, l).coords)
  BY Starts, TypeParts DEF TypeInv, Others, Table
<1>2. l \in Names(links) /\ links[first].numLinks > 2
  BY Starts DEF IsCutVertex
<1>3. first \in 1 .. Len(links) /\ links[first].name = l
  BY <1>1, <1>2, FirstNamed
<1> HIDE DEF first
<1>4. Tidy(links, Coords(h))
  <2>1. links[first] \in Entry /\ DOMAIN links = 1 .. Len(links)
    BY <1>1, <1>3
  <2>2. links[first].numLinks \in Int
    BY <2>1 DEF Entry
  <2>3. ~Replaced(links)
    BY <1>2, <1>3, <2>1, <2>2 DEF Replaced
  <2> QED
    BY <2>3 DEF HubInv
<1>5. EntryOf(links, l) = links[first]
  <2>1. /\ IndexOf(links, l) \in 1 .. Len(links) /\ links[IndexOf(links, l)].name = l
        /\ EntryOf(links, l) = links[IndexOf(links, l)]
    BY <1>1, <1>2, EntryAt
  <2> QED
    BY <1>1, <1>3, <1>4, <2>1 DEF Tidy, Distinct
<1>6. EntryOf(links, l).coords = Coords(h)
  BY <1>1, <1>2, <1>3, <1>4, <1>5 DEF Tidy
<1>7. TryToReplace(n, twoHopTable[n], l, Coords(h))
  BY <1>1, <1>6
<1>8. /\ Recovering(n, Coords(h))' /\ status'[n] \in {"moving", "waiting"}
      /\ lst_recovery'[n] = {}
      /\ \A m \in Node \ {n} : /\ status'[m] = status[m] /\ failed'[m] = failed[m]
                             /\ best'[m] = best[m] /\ coordsFailing'[m] = coordsFailing[m]
                             /\ lst_recovery'[m] = lst_recovery[m]
  BY <1>1, <1>2, <1>4, <1>6, <1>7, RoundRecovers
<1>9. \A e : Good(e)' <=> Good(e)
  BY <1>1 DEF Good
<1>10. Truthful(n, Coords(h))'
  <2>1. Truthful(n, Coords(h))
    BY DEF HubInv
  <2>2. status[n] = "idle"
    BY <1>1
  <2>3. \A i \in DOMAIN twoHopTable[n].links : Good(twoHopTable[n].links[i])
    BY <2>1, <2>2 DEF Truthful
  <2> QED
    BY <1>1, <1>9, <2>3 DEF Truthful
<1>11. ASSUME NEW m \in Node \ {n}
       PROVE  Recovering(m, Coords(h))' /\ Truthful(m, Coords(h))'
  <2>1. twoHopTable[m].links \in Seq(Entry)
    BY DEF TypeInv, TypeOK, Table
  <2> QED
    BY <1>1, <1>8, <1>9, <2>1, SameNode DEF HubInv
<1>12. \A m \in Node : /\ Tidy(twoHopTable'[m].links, Coords(h)) \/ Replaced(twoHopTable'[m].links)
                       /\ position'[m] \in {Coords(m), Coords(h)}
                       /\ \A msg \in lst_recovery'[m] : position'[msg.bc] = Coords(h)
  BY <1>1, <1>8 DEF HubInv
<1>13. HubInv(h)'
  BY <1>8, <1>10, <1>11, <1>12 DEF HubInv
<1>14. Unraised
  BY <1>8 DEF Unraised
<1> QED
  BY <1>13, <1>14

\* The node that arrives can always take over, and finds everybody at home.
LEMMA HubArrive ==
  ASSUME NEW h \in Node, TypeInv, HubInv(h), NEW n \in Node, Arrive(n)
  PROVE  HubInv(h)' /\ Unraised
<1> DEFINE hub == Coords(h)
           links == twoHopTable[n].links
           e == EntryOf(links, failed[n])
           new == UpdateTwoHopTable(twoHopTable[n], failed[n], n)
<1>1. /\ twoHopTable[n] \in Table /\ twoHopTable[n].name = n /\ links \in Seq(Entry)
      /\ failed[n] \in Node /\ \A m \in Node : twoHopTable[m].links \in Seq(Entry)
  BY DEF TypeInv, TypeOK, Table
<1>2. status[n] = "moving" /\ UNCHANGED <<failed, coordsFailing, best>>
  BY Zenon DEF Arrive, locals
<1>3. /\ coordsFailing[n] = hub /\ Tidy(links, hub)
      /\ failed[n] \in Names(links) /\ e.coords = hub
  BY <1>2 DEF HubInv, Recovering
<1>4. CanUpdate(twoHopTable[n], failed[n], n)
  BY <1>1, <1>3 DEF CanUpdate, Knows, Tidy
<1>5. position' = [position EXCEPT ![n] = hub]
  BY <1>3 DEF Arrive
<1>6. /\ twoHopTable' = [twoHopTable EXCEPT ![n] = new]
      /\ status' = [status EXCEPT ![n] = "idle"]
  BY <1>4 DEF Arrive
<1>7. \A m \in Node : lst_recovery'[m] \subseteq
                       lst_recovery[m] \cup {[fn |-> failed[n], bc |-> n]}
  <2>1. PICK lost \in SUBSET (Names(twoHopTable'[n].links) \cap alive) :
          lst_recovery' =
            [m \in Node |-> lst_recovery[m] \cup
               {msg \in {[fn |-> failed[n], bc |-> n]} :
                  m \in (Names(twoHopTable'[n].links) \cap alive) \ lost}]
    BY <1>4 DEF Arrive
  <2> QED
    BY <2>1
<1>8. /\ new \in Table /\ e.links \in Seq(Candidate)
      /\ \A j \in DOMAIN new.links :
           j \in 1 .. Len(e.links) /\ new.links[j] = WithoutLinks(e.links[j])
  <2>1. /\ CanUpdate(twoHopTable[n], failed[n], twoHopTable[n].name)
        /\ new = UpdateTwoHopTable(twoHopTable[n], failed[n], twoHopTable[n].name)
    BY <1>1, <1>4
  <2> HIDE DEF new
  <2> QED
    BY <1>1, <2>1, UpdateOwn
<1>9. Replaced(new.links)
  <2>1. PICK i \in DOMAIN links : e = links[i]
    <3>1. IndexOf(links, failed[n]) \in DOMAIN links /\ e = links[IndexOf(links, failed[n])]
      BY <1>1, <1>3, EntryAt
    <3> QED
      BY <3>1
  <2>2. DOMAIN e.links = 1 .. Len(e.links)
    BY <1>8
  <2> HIDE DEF e
  <2>3. \A j \in DOMAIN e.links :
          e.links[j].coords = Coords(e.links[j].name) /\ e.links[j].numLinks <= 2
    BY <1>3, <2>1 DEF Tidy, Spares
  <2> HIDE DEF new
  <2>4. \A j \in DOMAIN new.links : j \in DOMAIN e.links /\ new.links[j] = WithoutLinks(e.links[j])
    BY <1>8, <2>2
  <2>5. \A c : /\ WithoutLinks(c).name = c.name /\ WithoutLinks(c).coords = c.coords
               /\ WithoutLinks(c).numLinks = c.numLinks /\ WithoutLinks(c).links = NoLinks
    BY DEF WithoutLinks
  <2> QED
    BY <2>3, <2>4, <2>5 DEF Replaced
<1> HIDE DEF new, e
<1>10. /\ twoHopTable'[n] = new /\ status'[n] = "idle"
       /\ \A m \in Node \ {n} : twoHopTable'[m] = twoHopTable[m] /\ status'[m] = status[m]
       /\ position'[n] = hub /\ \A m \in Node \ {n} : position'[m] = position[m]
  BY <1>5, <1>6 DEF TypeInv, TypeOK
<1>11. \A l \in Entry : Good(l) => Good(l)'
  <2> SUFFICES ASSUME NEW l \in Entry, Good(l), l.coords # Coords(l.name)
               PROVE  position'[l.name] = l.coords
    BY DEF Good
  <2>1. l.name \in Node
    BY DEF Entry
  <2>2. position[l.name] = l.coords /\ l.coords = hub
    BY <2>1 DEF Good, HubInv
  <2> QED
    BY <1>10, <2>1, <2>2
<1>12. \A m \in Node :
         /\ position'[m] \in {Coords(m), hub}
         /\ \A msg \in lst_recovery'[m] : position'[msg.bc] = hub
  <2>1. \A m \in Node : position'[m] \in {Coords(m), hub} /\ (position[m] = hub => position'[m] = hub)
    BY <1>10 DEF HubInv
  <2>2. \A m \in Node : \A msg \in lst_recovery[m] : msg.bc \in Node /\ position[msg.bc] = hub
    BY DEF HubInv, TypeInv, TypeOK
  <2>3. [fn |-> failed[n], bc |-> n].bc = n
    OBVIOUS
  <2> QED
    BY <1>7, <1>10, <2>1, <2>2, <2>3
<1>13. /\ Replaced(twoHopTable'[n].links)
       /\ Recovering(n, hub)' /\ Truthful(n, hub)'
  <2>1. Replaced(twoHopTable'[n].links)
    BY <1>9, <1>10
  <2>2. Recovering(n, hub)'
    BY <1>10 DEF Recovering
  <2>3. Truthful(n, hub)'
    BY <2>1 DEF Truthful, Good, Replaced
  <2> QED
    BY <2>1, <2>2, <2>3
<1>14. ASSUME NEW m \in Node \ {n}
       PROVE  /\ Tidy(twoHopTable'[m].links, hub) \/ Replaced(twoHopTable'[m].links)
              /\ Recovering(m, hub)' /\ Truthful(m, hub)'
  <2>1. Recovering(m, hub) /\ Truthful(m, hub)
    BY DEF HubInv
  <2>2. Recovering(m, hub)' /\ Truthful(m, hub)'
    BY <1>1, <1>2, <1>10, <1>11, <2>1, SameNode
  <2> QED
    BY <1>10, <2>2 DEF HubInv
<1>15. HubInv(h)'
  BY <1>12, <1>13, <1>14 DEF HubInv
<1>16. Unraised
  BY <1>10 DEF Unraised
<1> QED
  BY <1>15, <1>16

\* A node that has waited renames the entry at the hub, if not more.
LEMMA HubRename ==
  ASSUME NEW h \in Node, TypeInv, HubInv(h), NEW n \in Node, status[n] = "waiting",
         NEW new, Renames(twoHopTable[n], new, failed[n], best[n])
  PROVE  LET i == IndexOf(twoHopTable[n].links, failed[n])
         IN  /\ Tidy(new.links, Coords(h)) /\ new.links[i].coords = Coords(h)
             /\ \A j \in DOMAIN new.links : j # i => Good(new.links[j])
<1> DEFINE hub == Coords(h)
           links == twoHopTable[n].links
           i == IndexOf(links, failed[n])
<1>1. links \in Seq(Entry)
  BY DEF TypeInv, TypeOK, Table
<1>2. /\ Tidy(links, hub)
      /\ failed[n] \in Names(links) /\ EntryOf(links, failed[n]).coords = hub
      /\ best[n] \in Names(EntryOf(links, failed[n]).links)
  BY DEF HubInv, Recovering
<1>3. /\ new \in Table /\ Knows(new)
      /\ i \in 1 .. Len(links) /\ links[i] = EntryOf(links, failed[n])
      /\ Len(new.links) = Len(links)
      /\ \A j \in 1 .. Len(links) : j # i => new.links[j] = links[j]
      /\ new.links[i].name = best[n] /\ new.links[i].coords = links[i].coords
      /\ \A k \in 1 .. Len(new.links[i].links) :
           \E j \in 1 .. Len(links[i].links) : new.links[i].links[k] = links[i].links[j]
  BY Zenon DEF Renames
<1> HIDE DEF i
<1>4. /\ new.links \in Seq(Entry) /\ DOMAIN new.links = 1 .. Len(links)
      /\ DOMAIN links = 1 .. Len(links)
  BY <1>1, <1>3 DEF Table
<1>5. links[i].coords = hub /\ best[n] \in Names(links[i].links)
  BY <1>2, <1>3
<1>6. Tidy(new.links, hub)
  <2>1. new.links[i].links # NoLinks
    BY <1>3, <1>4 DEF Knows
  <2> DEFINE after == new.links
  <2>2. /\ after \in Seq(Entry) /\ Len(after) = Len(links)
        /\ \A j \in 1 .. Len(links) : j # i => after[j] = links[j]
        /\ after[i].name \in Names(links[i].links) /\ after[i].coords = hub
        /\ after[i].links # NoLinks
        /\ \A k \in 1 .. Len(after[i].links) :
             \E j \in 1 .. Len(links[i].links) : after[i].links[k] = links[i].links[j]
    BY <1>3, <1>4, <1>5, <2>1
  <2> HIDE DEF after
  <2>3. Tidy(after, hub)
    BY <1>1, <1>2, <1>3, <1>5, <2>2, TidyRename
  <2> QED
    BY <2>3 DEF after
<1>7. ASSUME NEW j \in DOMAIN new.links, j # i PROVE Good(new.links[j])
  <2>1. j \in DOMAIN links /\ new.links[j] = links[j]
    BY <1>3, <1>4, <1>7
  <2>2. links[j].coords # hub
    BY <1>2, <1>3, <1>4, <1>5, <1>7, <2>1 DEF Tidy, Distinct
  <2>3. Truthful(n, hub)
    BY DEF HubInv
  <2> QED
    BY <2>1, <2>2, <2>3 DEF Truthful
<1> QED
  BY <1>3, <1>5, <1>6, <1>7 DEF i

\* It leaves the loop if it has heard of somebody who is there.
LEMMA HubEndWait ==
  ASSUME NEW h \in Node, TypeInv, HubInv(h), NEW n \in Node, EndWait(n)
  PROVE  /\ HubInv(h)'
         /\ CanUpdate(twoHopTable[n], failed[n], best[n]) => Unraised
<1> DEFINE hub == Coords(h)
           links == twoHopTable[n].links
           i == IndexOf(links, failed[n])
           new == UpdateTwoHopTable(twoHopTable[n], failed[n], best[n])
<1>1. /\ Locals /\ twoHopTable[n] \in Table /\ twoHopTable[n].name = n /\ links \in Seq(Entry)
      /\ \A m \in Node : twoHopTable[m].links \in Seq(Entry)
      /\ best[n] \in Node \ {n}
  <2>1. status[n] = "waiting"
    BY Zenon DEF EndWait
  <2> QED
    BY <2>1, TypeParts DEF TypeInv, Others, OthersAwaited, Locals, Table
<1>2. status[n] = "waiting" /\ position' = position
  BY Zenon DEF EndWait
<1>3. /\ coordsFailing[n] = hub /\ Tidy(links, hub)
      /\ failed[n] \in Names(links) /\ EntryOf(links, failed[n]).coords = hub
      /\ best[n] \in Names(EntryOf(links, failed[n]).links)
  BY <1>2 DEF HubInv, Recovering
<1>4. \A l : Good(l)' <=> Good(l)
  BY <1>2 DEF Good
<1>5. CASE ~CanUpdate(twoHopTable[n], failed[n], best[n])
  <2> DEFINE left == LeftByError(twoHopTable[n], failed[n], best[n])
  <2>1. /\ status' = [status EXCEPT ![n] = "raised"]
        /\ twoHopTable' = [twoHopTable EXCEPT ![n] = left] /\ failed' = failed /\ best' = best
        /\ coordsFailing' = coordsFailing /\ lst_recovery' = lst_recovery
    BY <1>5, Zenon DEF EndWait, locals
  <2>2. left = twoHopTable[n] \/ Renames(twoHopTable[n], left, failed[n], best[n])
    BY <1>1, TableByError
  <2> HIDE DEF left
  <2>3. /\ twoHopTable'[n] = left
        /\ \A m \in Node \ {n} : twoHopTable'[m] = twoHopTable[m]
    BY <2>1 DEF TypeInv, TypeOK
  <2>4. status'[n] = "raised" /\ \A m \in Node \ {n} : status'[m] = status[m]
    BY <1>1, <2>1 DEF Locals
  <2>5. Recovering(n, hub)'
    BY <2>4 DEF Recovering
  <2>6. /\ Tidy(left.links, hub) \/ Replaced(left.links)
        /\ Truthful(n, hub)'
    <3>1. CASE left = twoHopTable[n]
      BY <1>4, <2>3, <2>4, <3>1 DEF HubInv, Truthful
    <3>2. CASE Renames(twoHopTable[n], left, failed[n], best[n])
      <4>1. /\ Tidy(left.links, hub) /\ left.links[i].coords = hub
            /\ \A j \in DOMAIN left.links : j # i => Good(left.links[j])
        BY <1>2, <3>2, HubRename
      <4> QED
        BY <1>4, <2>3, <2>4, <4>1 DEF Truthful
    <3> QED
      BY <2>2, <3>1, <3>2
  <2>7. ASSUME NEW m \in Node \ {n} PROVE Recovering(m, hub)' /\ Truthful(m, hub)'
    <3>1. Recovering(m, hub) /\ Truthful(m, hub)
      BY DEF HubInv
    <3> QED
      BY <1>1, <1>4, <2>1, <2>3, <2>4, <3>1, SameNode
  <2> QED
    BY <1>2, <1>5, <2>1, <2>3, <2>5, <2>6, <2>7 DEF HubInv
<1>6. CASE CanUpdate(twoHopTable[n], failed[n], best[n])
  <2>1. /\ new \in Table /\ new.name = n /\ Knows(new)
        /\ i \in 1 .. Len(links) /\ links[i] = EntryOf(links, failed[n])
        /\ Len(new.links) = Len(links)
        /\ \A j \in 1 .. Len(links) : j # i => new.links[j] = links[j]
        /\ new.links[i].name = best[n] /\ new.links[i].coords = links[i].coords
        /\ \A k \in 1 .. Len(new.links[i].links) :
             \E j \in 1 .. Len(links[i].links) : new.links[i].links[k] = links[i].links[j]
    <3>1. best[n] \in Node \ {twoHopTable[n].name}
      BY <1>1
    <3>2. twoHopTable[n] \in Table
      BY <1>1
    <3>3. Renames(twoHopTable[n], new, failed[n], best[n])
      BY <1>6, <3>1, <3>2, UpdateOther
    <3> HIDE DEF new
    <3> QED
      BY <1>1, <3>3 DEF Renames
  <2>2. twoHopTable' = [twoHopTable EXCEPT ![n] = new]
    BY <1>6 DEF EndWait
  <2>3. \/ /\ IsRecoveredMSGReceived(n)
           /\ status' = [status EXCEPT ![n] = "idle"]
           /\ failed' = failed /\ best' = best
           /\ coordsFailing' = coordsFailing /\ lst_recovery' = lst_recovery
        \/ TryToReplace(n, twoHopTable'[n], best[n], coordsFailing[n])
    BY <1>6, Zenon DEF EndWait, locals
  <2> HIDE DEF new, i
  <2>4. /\ twoHopTable'[n] = new
        /\ \A m \in Node \ {n} : twoHopTable'[m] = twoHopTable[m]
    BY <2>2 DEF TypeInv, TypeOK
  <2>5. /\ new.links \in Seq(Entry) /\ DOMAIN new.links = 1 .. Len(links)
        /\ DOMAIN links = 1 .. Len(links)
    BY <1>1, <2>1 DEF Table
  <2>6. links[i].coords = hub /\ best[n] \in Names(links[i].links)
    BY <1>3, <2>1
  <2>7. Tidy(new.links, hub)
    BY <1>2, <1>6, HubRename, UpdateOther, <1>1 DEF new
  <2>8. \A j \in DOMAIN new.links : j # i => Good(new.links[j])
    BY <1>2, <1>6, HubRename, UpdateOther, <1>1 DEF new, i
  <2>9. \A m \in Node :
          /\ Tidy(twoHopTable'[m].links, hub) \/ Replaced(twoHopTable'[m].links)
          /\ position'[m] \in {Coords(m), hub}
    BY <1>2, <2>4, <2>7 DEF HubInv
  <2>10. CASE /\ IsRecoveredMSGReceived(n)
              /\ status' = [status EXCEPT ![n] = "idle"]
              /\ failed' = failed /\ best' = best
              /\ coordsFailing' = coordsFailing /\ lst_recovery' = lst_recovery
    <3>1. status'[n] = "idle" /\ \A m \in Node \ {n} : status'[m] = status[m]
      BY <1>1, <2>10 DEF Locals
    <3>2. position[best[n]] = hub
      <4>1. [fn |-> failed[n], bc |-> best[n]] \in lst_recovery[n]
        BY <2>10 DEF IsRecoveredMSGReceived
      <4> DEFINE msg == [fn |-> failed[n], bc |-> best[n]]
      <4>2. position[msg.bc] = hub /\ msg.bc = best[n]
        BY <4>1 DEF HubInv
      <4> QED
        BY <4>2
    <3>3. Good(new.links[i])
      BY <2>1, <2>6, <3>2 DEF Good
    <3>4. \A j \in DOMAIN new.links : Good(new.links[j])
      BY <2>8, <3>3
    <3>5. Recovering(n, hub)' /\ Truthful(n, hub)'
      BY <1>4, <2>4, <3>1, <3>4 DEF Recovering, Truthful
    <3>6. ASSUME NEW m \in Node \ {n} PROVE Recovering(m, hub)' /\ Truthful(m, hub)'
      <4>1. Recovering(m, hub) /\ Truthful(m, hub)
        BY DEF HubInv
      <4> QED
        BY <1>1, <1>4, <2>4, <2>10, <3>1, <4>1, SameNode
    <3>7. \A m \in Node : \A msg \in lst_recovery'[m] : position'[msg.bc] = hub
      BY <1>2, <2>10 DEF HubInv
    <3>8. HubInv(h)'
      BY <2>9, <3>5, <3>6, <3>7 DEF HubInv
    <3>9. Unraised
      BY <3>1 DEF Unraised
    <3> QED
      BY <3>8, <3>9
  <2>11. CASE TryToReplace(n, twoHopTable'[n], best[n], coordsFailing[n])
    <3>1. TryToReplace(n, new, best[n], hub)
      BY <1>3, <2>4, <2>11
    <3>2. best[n] \in Names(new.links)
      BY <2>1, <2>5 DEF Names
    <3>3. EntryOf(new.links, best[n]).coords = hub
      <4>1. /\ IndexOf(new.links, best[n]) \in DOMAIN new.links
            /\ EntryOf(new.links, best[n]) = new.links[IndexOf(new.links, best[n])]
            /\ new.links[IndexOf(new.links, best[n])].name = best[n]
        <5> DEFINE after == new.links
        <5>1. after \in Seq(Entry) /\ best[n] \in Names(after) /\ DOMAIN after = 1 .. Len(after)
          BY <2>5, <3>2
        <5> HIDE DEF after
        <5>2. /\ IndexOf(after, best[n]) \in 1 .. Len(after)
              /\ EntryOf(after, best[n]) = after[IndexOf(after, best[n])]
              /\ after[IndexOf(after, best[n])].name = best[n]
          BY <5>1, EntryAt
        <5> QED
          BY <5>1, <5>2, Zenon DEF after
      <4>2. IndexOf(new.links, best[n]) = i
        <5>1. i \in DOMAIN new.links /\ new.links[i].name = best[n]
          BY <2>1, <2>5
        <5>2. Distinct(new.links, hub)
          BY <2>7 DEF Tidy
        <5> QED
          BY <4>1, <5>1, <5>2 DEF Distinct
      <4> QED
        BY <2>1, <2>6, <4>1, <4>2
    <3>4. /\ Recovering(n, hub)' /\ status'[n] \in {"moving", "waiting"}
          /\ lst_recovery'[n] = {}
          /\ \A m \in Node \ {n} : /\ status'[m] = status[m] /\ failed'[m] = failed[m]
                                 /\ best'[m] = best[m] /\ coordsFailing'[m] = coordsFailing[m]
                                 /\ lst_recovery'[m] = lst_recovery[m]
      <4>1. Locals /\ new \in Table /\ new.name = n /\ twoHopTable'[n] = new
        BY <1>1, <2>1, <2>4
      <4> HIDE DEF hub
      <4> QED
        BY <2>7, <3>1, <3>2, <3>3, <4>1, RoundRecovers
    <3>5. Truthful(n, hub)'
      <4>1. new.links[i].coords = hub /\ status'[n] # "idle"
        BY <2>1, <2>6, <3>4
      <4> QED
        BY <1>4, <2>4, <2>8, <4>1 DEF Truthful
    <3>6. ASSUME NEW m \in Node \ {n} PROVE Recovering(m, hub)' /\ Truthful(m, hub)'
      <4>1. Recovering(m, hub) /\ Truthful(m, hub)
        BY DEF HubInv
      <4> QED
        BY <1>1, <1>4, <2>4, <3>4, <4>1, SameNode
    <3>7. \A m \in Node : \A msg \in lst_recovery'[m] : position'[msg.bc] = hub
      BY <1>2, <3>4 DEF HubInv
    <3>8. HubInv(h)'
      BY <2>9, <3>4, <3>5, <3>6, <3>7 DEF HubInv
    <3>9. Unraised
      BY <3>4 DEF Unraised
    <3> QED
      BY <3>8, <3>9
  <2> QED
    BY <2>3, <2>10, <2>11
<1> QED
  BY <1>5, <1>6

LEMMA HubOther ==
  ASSUME NEW h \in Node, TypeInv, HubInv(h),
         UNCHANGED <<position, twoHopTable, status, failed, coordsFailing, best, lst_recovery>>
  PROVE  HubInv(h)' /\ Unraised
<1>1. \A l : Good(l)' <=> Good(l)
  BY DEF Good
<1>2. ASSUME NEW n \in Node
      PROVE  Recovering(n, Coords(h))' /\ Truthful(n, Coords(h))'
  <2>1. Recovering(n, Coords(h)) /\ Truthful(n, Coords(h))
    BY DEF HubInv
  <2>2. twoHopTable[n].links \in Seq(Entry)
    BY DEF TypeInv, TypeOK, Table
  <2> QED
    BY <1>1, <2>1, <2>2, SameNode
<1>3. \A n \in Node : /\ Tidy(twoHopTable'[n].links, Coords(h)) \/ Replaced(twoHopTable'[n].links)
                      /\ position'[n] \in {Coords(n), Coords(h)}
                      /\ \A msg \in lst_recovery'[n] : position'[msg.bc] = Coords(h)
  BY DEF HubInv
<1>4. HubInv(h)'
  BY <1>2, <1>3 DEF HubInv
<1>5. Unraised
  BY DEF Unraised
<1> QED
  BY <1>4, <1>5

LEMMA HubNext ==
  ASSUME NEW h \in Node, TypeInv, HubInv(h), [Next]_vars
  PROVE  HubInv(h)'
<1>1. CASE Tick
  BY <1>1, HubOther DEF Tick, locals
<1>2. ASSUME NEW n \in Node, Arrive(n) PROVE HubInv(h)'
  BY <1>2, HubArrive
<1>3. ASSUME NEW n \in Node, EndWait(n) PROVE HubInv(h)'
  BY <1>3, HubEndWait
<1>4. ASSUME NEW n \in Node, NEW l \in Node, Detect(n, l) \/ Suspect(n, l) PROVE HubInv(h)'
  BY <1>4, HubDetect
<1>5. ASSUME NEW n \in Node, Crash(n) PROVE HubInv(h)'
  BY <1>5, HubOther DEF Crash, locals
<1>6. CASE UNCHANGED vars
  BY <1>6, HubOther DEF vars, locals
<1> QED
  BY <1>1, <1>2, <1>3, <1>4, <1>5, <1>6 DEF Next, Progress

\* Where there is one cut vertex, a node that is out of the loop of dara1C
\* lists nobody where he is not, whoever has died or kept silent since: it
\* leaves the loop on word of the very candidate whose name it has entered
\* (ListedWhereTheyStand; dara1C, updateTwoHopTable).
THEOREM ListsAreTrue ==
  ASSUME NEW h \in Node, OneCutVertex(h)
  PROVE  Spec => []ListedWhereTheyStand
<1>1. Init => HubInv(h)
  BY HubInit
<1>2. TypeInv /\ HubInv(h) /\ [Next]_vars => HubInv(h)'
  BY HubNext
<1>3. TypeInv /\ HubInv(h) => ListedWhereTheyStand
  BY DEF TypeInv, TypeOK, HubInv, Truthful, Good, ListedWhereTheyStand
<1> QED
  BY <1>1, <1>2, <1>3, TypeAlways, PTL DEF Spec

-----------------------------------------------------------------------------
\* Only for a neighbor that has links to look at: a node that has gone to the
\* hub, and lists its new neighbors, has none.
LastInv(h) ==
  \A n \in Node : \A i \in DOMAIN twoHopTable[n].links :
    LET l == twoHopTable[n].links[i] IN
    l.coords = Coords(h) /\ l.links # NoLinks => i = Len(twoHopTable[n].links)

LEMMA LastArrive ==
  ASSUME NEW h \in Node, TypeInv, LastInv(h), NEW n \in Node, Arrive(n)
  PROVE  LastInv(h)'
<1> DEFINE new == UpdateTwoHopTable(twoHopTable[n], failed[n], n)
<1>1. twoHopTable[n] \in Table /\ twoHopTable[n].name = n
  BY DEF TypeInv, TypeOK
<1>2. CASE ~CanUpdate(twoHopTable[n], failed[n], n)
  BY <1>2 DEF Arrive, LastInv
<1>3. CASE CanUpdate(twoHopTable[n], failed[n], n)
  <2>1. \A j \in DOMAIN new.links : new.links[j].links = NoLinks
    <3> DEFINE e == EntryOf(twoHopTable[n].links, failed[n])
    <3>1. /\ CanUpdate(twoHopTable[n], failed[n], twoHopTable[n].name)
          /\ new = UpdateTwoHopTable(twoHopTable[n], failed[n], twoHopTable[n].name)
      BY <1>1, <1>3
    <3> HIDE DEF new
    <3>2. \A j \in DOMAIN new.links : new.links[j] = WithoutLinks(e.links[j])
      BY <1>1, <3>1, UpdateOwn
    <3>3. \A c : WithoutLinks(c).links = NoLinks
      BY DEF WithoutLinks
    <3> QED
      BY <3>2, <3>3
  <2>2. twoHopTable' = [twoHopTable EXCEPT ![n] = new]
    BY <1>3 DEF Arrive
  <2> HIDE DEF new
  <2>3. \A m \in Node : twoHopTable'[m] = IF m = n THEN new ELSE twoHopTable[m]
    BY <2>2 DEF TypeInv, TypeOK
  <2> QED
    BY <2>1, <2>3 DEF LastInv
<1> QED
  BY <1>2, <1>3

LEMMA LastEndWait ==
  ASSUME NEW h \in Node, TypeInv, LastInv(h), NEW n \in Node, EndWait(n),
         CanUpdate(twoHopTable[n], failed[n], best[n])
  PROVE  LastInv(h)'
<1> DEFINE new == UpdateTwoHopTable(twoHopTable[n], failed[n], best[n])
           links == twoHopTable[n].links
<1>1. /\ twoHopTable[n] \in Table /\ best[n] \in Node \ {twoHopTable[n].name}
      /\ links \in Seq(Entry)
  <2>1. status[n] = "waiting"
    BY Zenon DEF EndWait
  <2> QED
    BY <2>1 DEF TypeInv, TypeOK, OthersAwaited, Table
<1>2. Renames(twoHopTable[n], new, failed[n], best[n])
  BY <1>1, UpdateOther
<1>3. twoHopTable' = [twoHopTable EXCEPT ![n] = new]
  BY DEF EndWait
<1> HIDE DEF new
<1>4. \A m \in Node : twoHopTable'[m] = IF m = n THEN new ELSE twoHopTable[m]
  BY <1>3 DEF TypeInv, TypeOK
<1>5. \A j \in DOMAIN links : links[j].links # NoLinks
  BY DEF CanUpdate, Knows
<1>6. /\ new \in Table /\ Len(new.links) = Len(links)
      /\ \A j \in 1 .. Len(links) : new.links[j].coords = links[j].coords
  BY <1>2 DEF Renames
<1>7. DOMAIN new.links = 1 .. Len(links) /\ DOMAIN links = 1 .. Len(links)
  BY <1>1, <1>6 DEF Table
<1>8. \A j \in DOMAIN new.links : new.links[j].coords = Coords(h) => j = Len(new.links)
  BY <1>5, <1>6, <1>7 DEF LastInv
<1> QED
  BY <1>4, <1>8 DEF LastInv

\* The last neighbor is the dead one, and the replacement is among its links.
LEMMA CanRename ==
  ASSUME NEW h \in Node, TypeInv, HubInv(h), LastInv(h),
         NEW n \in Node, status[n] = "waiting"
  PROVE  CanUpdate(twoHopTable[n], failed[n], best[n])
<1> DEFINE links == twoHopTable[n].links
           i == IndexOf(links, failed[n])
           e == links[i]
           k == IndexOf(e.links, best[n])
<1>1. links \in Seq(Entry) /\ DOMAIN links = 1 .. Len(links) /\ Len(links) \in Nat
  <2>1. links \in Seq(Entry)
    BY DEF TypeInv, TypeOK, Table
  <2> QED
    BY <2>1
<1>2. /\ Tidy(links, Coords(h)) /\ failed[n] \in Names(links)
      /\ EntryOf(links, failed[n]).coords = Coords(h)
      /\ best[n] \in Names(EntryOf(links, failed[n]).links)
  BY DEF HubInv, Recovering
<1>3. i \in 1 .. Len(links) /\ EntryOf(links, failed[n]) = e
  BY <1>1, <1>2, EntryAt
<1> HIDE DEF i
<1>4. e \in Entry /\ e.links # NoLinks
  BY <1>1, <1>2, <1>3 DEF Tidy
<1>5. e.links \in Seq(Candidate)
  BY <1>4 DEF Entry
<1>6. i = Len(links)
  BY <1>1, <1>2, <1>3, <1>4 DEF LastInv
<1>7. Last(twoHopTable[n].links) = e
  BY <1>6 DEF Last
<1> HIDE DEF e
<1>8. k \in 1 .. Len(e.links) /\ Len(e.links) \in Nat
  BY <1>2, <1>3, <1>5, EntryAt
<1>9. IndexReplacement(twoHopTable[n], best[n]) = IF k = 0 THEN 1 ELSE k
  BY <1>7 DEF IndexReplacement, IndexOf
<1> HIDE DEF k
<1>10. IndexReplacement(twoHopTable[n], best[n]) <= Len(EntryOf(links, failed[n]).links)
  BY <1>3, <1>8, <1>9
<1>11. Knows(twoHopTable[n])
  BY <1>2 DEF Knows, Tidy
<1>12. \E j \in DOMAIN links : best[n] \in Names(links[j].links)
  BY <1>1, <1>2, <1>3 DEF e
<1> QED
  BY <1>2, <1>10, <1>11, <1>12 DEF CanUpdate

LEMMA LastNext ==
  ASSUME NEW h \in Node, TypeInv, HubInv(h), LastInv(h), [Next]_vars
  PROVE  LastInv(h)' /\ Unraised
<1>1. ASSUME UNCHANGED twoHopTable PROVE LastInv(h)'
  BY <1>1 DEF LastInv
<1>2. CASE Tick
  BY <1>1, <1>2, HubOther DEF Tick, locals
<1>3. ASSUME NEW n \in Node, Arrive(n) PROVE LastInv(h)' /\ Unraised
  BY <1>3, HubArrive, LastArrive
<1>4. ASSUME NEW n \in Node, EndWait(n) PROVE LastInv(h)' /\ Unraised
  <2>1. status[n] = "waiting"
    BY <1>4, Zenon DEF EndWait
  <2>2. CanUpdate(twoHopTable[n], failed[n], best[n])
    BY <2>1, CanRename
  <2>3. Unraised
    BY <1>4, <2>2, HubEndWait
  <2> QED
    BY <1>4, <2>2, <2>3, LastEndWait
<1>5. ASSUME NEW n \in Node, NEW l \in Node, Detect(n, l) \/ Suspect(n, l)
      PROVE  LastInv(h)' /\ Unraised
  <2>1. UNCHANGED twoHopTable
    BY <1>5, Starts
  <2> QED
    BY <1>1, <1>5, <2>1, HubDetect
<1>6. ASSUME NEW n \in Node, Crash(n) PROVE LastInv(h)' /\ Unraised
  BY <1>1, <1>6, HubOther DEF Crash, locals
<1>7. CASE UNCHANGED vars
  BY <1>1, <1>7, HubOther DEF vars, locals
<1> QED
  BY <1>2, <1>3, <1>4, <1>5, <1>6, <1>7 DEF Next, Progress

\* Where there is one cut vertex, and it is the last neighbor in the tables of
\* its neighbors, no recovery ends in an exception: every table knows the
\* neighbors it looks at, and no index is beyond the links that it is used on
\* (NobodyRaises; updateTwoHopTable).
THEOREM NoException ==
  ASSUME NEW h \in Node, OneCutVertex(h), ListedLast(h)
  PROVE  Spec => []NobodyRaises
<1>1. Init => HubInv(h) /\ LastInv(h) /\ NobodyRaises
  <2>1. Init => HubInv(h)
    BY HubInit
  <2>2. Init => LastInv(h)
    BY DEF Init, ListedLast, LastInv
  <2>3. Init => NobodyRaises
    BY DEF Init, NobodyRaises
  <2> QED
    BY <2>1, <2>2, <2>3
<1>2. TypeInv /\ (HubInv(h) /\ LastInv(h) /\ NobodyRaises) /\ [Next]_vars
      => (HubInv(h) /\ LastInv(h) /\ NobodyRaises)'
  <2> SUFFICES ASSUME TypeInv, HubInv(h), LastInv(h), NobodyRaises, [Next]_vars
               PROVE  HubInv(h)' /\ LastInv(h)' /\ NobodyRaises'
    OBVIOUS
  <2>1. HubInv(h)'
    BY HubNext
  <2>2. LastInv(h)' /\ Unraised
    BY LastNext
  <2>3. NobodyRaises'
    BY <2>2 DEF NobodyRaises, Unraised
  <2> QED
    BY <2>1, <2>2, <2>3
<1> QED
  BY <1>1, <1>2, TypeAlways, PTL DEF Spec
-----------------------------------------------------------------------------
\* What the files say of one cut vertex h and its neighbors o.
Files(h, o) == h \in Node /\ OneCutVertex(h) /\ ListedLast(h) /\ Agreement(h, o)

\* The neighbors that may still go to the place of h, and who was there last,
\* when k of them have.
Rest(o, k) == {o[i] : i \in {j \in DOMAIN o : j > k}}
AtHub(h, o, k) == IF k = 0 THEN h ELSE o[k]

\* Nobody is twice in the order.
LEMMA OrderOnce ==
  ASSUME NEW h, NEW o, Files(h, o)
  PROVE  /\ Len(o) \in Nat /\ DOMAIN o = 1 .. Len(o)
         /\ \A i \in 1 .. Len(o) : o[i] \in Node /\ o[i] # h
         /\ \A i, j \in 1 .. Len(o) : o[i] = o[j] => i = j
<1>1. o \in Seq(Node \ {h}) /\ \A i, j \in DOMAIN o : i < j =>
        Before(Coords(h), Configs[o[i]], Configs[o[j]])
  BY DEF Files, Agreement
<1>2. /\ Len(o) \in Nat /\ DOMAIN o = 1 .. Len(o)
      /\ \A i \in 1 .. Len(o) : o[i] \in Node /\ o[i] # h
  BY <1>1
<1>3. \A n \in Node : ~Before(Coords(h), Configs[n], Configs[n])
  <2> TAKE n \in Node
  <2>1. Configs[n].coords \in Int \X Int /\ Configs[n].numLinks \in Int
    BY ConfigAssumption DEF Table
  <2>2. Coords(h) \in Int \X Int
    BY ConfigAssumption DEF Table, Coords, Files
  <2>3. Dist(Coords(h), Configs[n].coords) \in Int
    BY <2>1, <2>2, DistType
  <2> QED
    BY <2>1, <2>3 DEF Before
<1>4. \A i, j \in 1 .. Len(o) : i < j => o[i] # o[j]
  <2> SUFFICES ASSUME NEW i \in 1 .. Len(o), NEW j \in 1 .. Len(o), i < j, o[i] = o[j]
               PROVE  FALSE
    OBVIOUS
  <2>1. Before(Coords(h), Configs[o[i]], Configs[o[i]])
    BY <1>1, <1>2
  <2> QED
    BY <1>2, <1>3, <2>1
<1>5. \A i, j \in 1 .. Len(o) : i = j \/ i < j \/ j < i
  BY <1>2
<1>6. \A i, j \in 1 .. Len(o) : o[i] = o[j] => i = j
  BY <1>4, <1>5
<1> QED
  BY <1>2, <1>6

LEMMA RestStep ==
  ASSUME NEW h, NEW o, Files(h, o), NEW k \in Nat, NEW n \in Rest(o, k)
  PROVE  /\ k + 1 \in 1 .. Len(o) /\ o[k + 1] \in Rest(o, k)
         /\ Rest(o, k + 1) = Rest(o, k) \ {o[k + 1]}
         /\ n # AtHub(h, o, k) /\ AtHub(h, o, k) \in Node /\ Rest(o, k) \subseteq Node
<1>1. /\ Len(o) \in Nat /\ DOMAIN o = 1 .. Len(o)
      /\ \A i \in 1 .. Len(o) : o[i] \in Node /\ o[i] # h
      /\ \A i, j \in 1 .. Len(o) : o[i] = o[j] => i = j
  BY OrderOnce
<1>2. PICK p \in 1 .. Len(o) : p > k /\ n = o[p]
  BY <1>1 DEF Rest
<1>3. k + 1 \in 1 .. Len(o)
  BY <1>1, <1>2
<1>4. \A q \in 1 .. Len(o) : q > k <=> q > k + 1 \/ q = k + 1
  BY <1>1
<1>5. Rest(o, k + 1) = Rest(o, k) \ {o[k + 1]}
  <2>1. \A x : x \in Rest(o, k + 1) <=> \E q \in 1 .. Len(o) : q > k + 1 /\ x = o[q]
    BY <1>1 DEF Rest
  <2>2. \A x : x \in Rest(o, k) <=> \E q \in 1 .. Len(o) : q > k /\ x = o[q]
    BY <1>1 DEF Rest
  <2>3. \A q \in 1 .. Len(o) : q > k + 1 => o[q] # o[k + 1]
    BY <1>1, <1>3
  <2>4. ASSUME NEW x PROVE x \in Rest(o, k + 1) <=> x \in Rest(o, k) \ {o[k + 1]}
    BY <1>4, <2>1, <2>2, <2>3
  <2> QED
    BY <2>4
<1>6. o[k + 1] \in Rest(o, k) /\ Rest(o, k) \subseteq Node
  BY <1>1, <1>3 DEF Rest
<1>7. n # AtHub(h, o, k) /\ AtHub(h, o, k) \in Node
  <2>1. CASE k = 0
    BY <1>1, <1>2, <2>1 DEF AtHub, Files
  <2>2. CASE k # 0
    <3>1. k \in 1 .. Len(o) /\ p # k
      BY <1>1, <1>2, <2>2
    <3> QED
      BY <1>1, <1>2, <2>2, <3>1 DEF AtHub
  <2> QED
    BY <2>1, <2>2
<1> QED
  BY <1>3, <1>5, <1>6, <1>7

\* The file of a neighbor of the hub.
HubFile(h, o, n) ==
  LET links == Configs[n].links
      l == links[Len(links)]
  IN  /\ n \in Node /\ links \in Seq(Entry) /\ Len(links) \in Nat /\ Len(links) > 0
      /\ l.name = h /\ l.coords = Coords(h) /\ l.numLinks = Configs[h].numLinks
      /\ l.links \in Seq(Candidate) /\ Names(l.links) = Range(o) \ {n}
      /\ \A a, b \in DOMAIN l.links : l.links[a].name = l.links[b].name => a = b
      /\ \A a \in DOMAIN l.links :
           /\ l.links[a].coords = Coords(l.links[a].name)
           /\ l.links[a].numLinks = Configs[l.links[a].name].numLinks
           /\ l.links[a].numLinks <= 2

LEMMA HubEntry ==
  ASSUME NEW h, NEW o, Files(h, o), NEW n \in Range(o)
  PROVE  HubFile(h, o, n)
<1> DEFINE links == Configs[n].links
           last == Len(links)
<1>1. n \in Node
  BY OrderOnce DEF Range
<1>2. links \in Seq(Entry) /\ Knows(Configs[n])
  BY <1>1, ConfigAssumption DEF Table
<1>3. last \in Nat /\ DOMAIN links = 1 .. last /\ \A i \in 1 .. last : links[i] \in Entry
  BY <1>2
<1>4. \A i \in 1 .. last : links[i].links \in Seq(Candidate)
  BY <1>2, <1>3 DEF Knows, Entry
<1>5. h \in Names(links)
  BY <1>1 DEF Files, Agreement
<1>6. PICK i \in 1 .. last : links[i].name = h
  BY <1>3, <1>5 DEF Names
<1>7. \A j \in 1 .. last : /\ links[j].coords = Coords(links[j].name)
                           /\ links[j].name = h =>
                                \A a \in DOMAIN links[j].links : links[j].links[a].numLinks <= 2
  BY <1>1, <1>3 DEF Files, OneCutVertex
<1>8. i = last
  BY <1>1, <1>3, <1>6, <1>7 DEF Files, ListedLast
<1>9. \A j \in 1 .. last : links[j].name = h =>
            LET l == links[j] IN
            /\ l.numLinks = Configs[h].numLinks
            /\ Names(l.links) = Range(o) \ {n}
            /\ \A a, b \in DOMAIN l.links : l.links[a].name = l.links[b].name => a = b
            /\ \A a \in DOMAIN l.links : l.links[a].numLinks = Configs[l.links[a].name].numLinks
  <2> SUFFICES ASSUME NEW j \in DOMAIN links, links[j].name = h
               PROVE  LET l == links[j] IN
                      /\ l.numLinks = Configs[h].numLinks
                      /\ Names(l.links) = Range(o) \ {n}
                      /\ \A a, b \in DOMAIN l.links : l.links[a].name = l.links[b].name => a = b
                      /\ \A a \in DOMAIN l.links :
                           l.links[a].numLinks = Configs[l.links[a].name].numLinks
    BY <1>3
  <2> QED
    BY <1>1, Zenon DEF Files, Agreement
<1>10. \A a \in DOMAIN links[i].links : links[i].links[a].coords = Coords(links[i].links[a].name)
  <2>1. \A m \in Node : \A x \in DOMAIN Configs[m].links :
          \A a \in DOMAIN Configs[m].links[x].links :
            Configs[m].links[x].links[a].coords = Coords(Configs[m].links[x].links[a].name)
    BY Zenon DEF Files, Agreement
  <2>2. i \in DOMAIN links
    BY <1>3
  <2> QED
    BY <1>1, <2>1, <2>2, Zenon
<1> HIDE DEF links
<1>11. last > 0
  BY <1>3, <1>6
<1> QED
  BY <1>1, <1>2, <1>3, <1>4, <1>6, <1>7, <1>8, <1>9, <1>10, <1>11, Zenon DEF links, HubFile

\* Nobody is both a neighbor and a neighbor of the hub.
LEMMA HubAlone ==
  ASSUME NEW h, NEW o, Files(h, o), NEW n \in Range(o),
         NEW j \in 1 .. Len(Configs[n].links) - 1
  PROVE  LET l == Configs[n].links[j] IN
         /\ l \in Entry /\ l.links \in Seq(Candidate) /\ l.name # h
         /\ l.name \notin Range(o) \ {n}
         /\ l.coords = Coords(l.name) /\ l.numLinks <= 2
         /\ \A a \in DOMAIN l.links : l.links[a].coords = Coords(l.links[a].name)
<1> DEFINE links == Configs[n].links
           last == Len(links)
           l == links[j]
<1>1. /\ n \in Node /\ links \in Seq(Entry) /\ last \in Nat /\ last > 0
      /\ links[last].name = h /\ Names(links[last].links) = Range(o) \ {n}
  <2>1. HubFile(h, o, n)
    BY HubEntry
  <2> QED
    BY <2>1 DEF HubFile
<1>2. j \in 1 .. last /\ last \in 1 .. last /\ j # last /\ DOMAIN links = 1 .. last
  BY <1>1
<1>3. l \in Entry /\ l.links # NoLinks
  <2>1. Knows(Configs[n])
    BY <1>1, ConfigAssumption
  <2> QED
    BY <1>1, <1>2, <2>1 DEF Knows
<1>4. /\ \A x, y \in 1 .. last : links[x].name = links[y].name => x = y
      /\ \A x \in 1 .. last :
           /\ links[x].coords = Coords(links[x].name)
           /\ links[x].numLinks > 2 => links[x].name = h
      /\ \A a \in DOMAIN links[last].links : links[last].links[a].name \notin Names(links)
  BY <1>1, <1>2 DEF Files, OneCutVertex
<1>5. l.name # h
  BY <1>1, <1>2, <1>4
<1>6. l.name \notin Range(o) \ {n}
  <2>1. l.name \in Names(links)
    BY <1>2 DEF Names
  <2>2. l.name \notin Names(links[last].links)
    BY <1>4, <2>1 DEF Names
  <2> QED
    BY <1>1, <2>2
<1>7. \A x \in 1 .. last : \A a \in DOMAIN links[x].links :
        links[x].links[a].coords = Coords(links[x].links[a].name)
  <2>1. \A m \in Node : \A x \in DOMAIN Configs[m].links :
          \A a \in DOMAIN Configs[m].links[x].links :
            Configs[m].links[x].links[a].coords = Coords(Configs[m].links[x].links[a].name)
    BY Zenon DEF Files, Agreement
  <2> QED
    BY <1>1, <1>2, <2>1
<1>8. l.links \in Seq(Candidate) /\ l.numLinks \in Int
  BY <1>3 DEF Entry
<1>9. l.coords = Coords(l.name) /\ l.numLinks <= 2
  BY <1>2, <1>4, <1>5, <1>8
<1>10. \A a \in DOMAIN l.links : l.links[a].coords = Coords(l.links[a].name)
  BY <1>2, <1>7
<1> QED
  BY <1>3, <1>5, <1>6, <1>8, <1>9, <1>10, Zenon

-----------------------------------------------------------------------------
\* The table of the neighbor n when k others have gone to the hub: its last
\* entry has the name of the k-th, a link less for each, and the others' names.
Shape(table, h, o, n, k) ==
  LET links == Configs[n].links
      last == Len(links)
      e == table.links[last]
  IN
  /\ table \in Table /\ table.name = n
  /\ table.coords = Coords(n) /\ table.numLinks = Configs[n].numLinks
  /\ Len(table.links) = last
  /\ \A i \in 1 .. last - 1 : table.links[i] = links[i]
  /\ e.name = AtHub(h, o, k) /\ e.coords = Coords(h) /\ e.numLinks = Configs[h].numLinks - k
  /\ e.links \in Seq(Candidate) /\ Names(e.links) = Rest(o, k) \ {n}
  /\ \A a, b \in DOMAIN e.links : e.links[a].name = e.links[b].name => a = b
  /\ \A a \in DOMAIN e.links :
       /\ e.links[a].coords = Coords(e.links[a].name)
       /\ e.links[a].numLinks = Configs[e.links[a].name].numLinks

LEMMA RestOfAll ==
  ASSUME NEW h, NEW o, Files(h, o)
  PROVE  /\ Rest(o, 0) = Range(o)
         /\ \A k \in Nat : Rest(o, k) \subseteq Range(o)
<1>1. DOMAIN o = 1 .. Len(o) /\ Len(o) \in Nat
  BY OrderOnce
<1>2. \A i \in 1 .. Len(o) : i > 0
  OBVIOUS
<1> QED
  BY <1>1, <1>2 DEF Rest, Range

LEMMA ShapeStart ==
  ASSUME NEW h, NEW o, Files(h, o), NEW n \in Range(o)
  PROVE  Shape(Configs[n], h, o, n, 0) /\ n \in Rest(o, 0)
<1>1. HubFile(h, o, n)
  BY HubEntry
<1>2. n \in Node
  BY <1>1 DEF HubFile
<1>3. Configs[n] \in Table /\ Configs[n].name = n /\ Configs[n].coords = Coords(n)
  BY <1>2, ConfigAssumption DEF Coords
<1>4. Rest(o, 0) = Range(o)
  BY RestOfAll
<1>5. Configs[h].numLinks - 0 = Configs[h].numLinks
  BY ConfigAssumption DEF Files, Table
<1>6. AtHub(h, o, 0) = h
  BY DEF AtHub
<1> QED
  BY <1>1, <1>3, <1>4, <1>5, <1>6, Zenon DEF Shape, HubFile

\* The last entry is the only one of its name.
LastIs(table, name) ==
  LET last == Len(table.links)
  IN  /\ table.links \in Seq(Entry) /\ last \in Nat /\ last > 0
      /\ DOMAIN table.links = 1 .. last
      /\ table.links[last].name = name
      /\ \A i \in 1 .. last - 1 : table.links[i].name # name

LEMMA ShapeLast ==
  ASSUME NEW h, NEW o, Files(h, o), NEW k \in Nat, NEW n \in Rest(o, k),
         NEW table, Shape(table, h, o, n, k)
  PROVE  LastIs(table, AtHub(h, o, k))
<1> DEFINE links == Configs[n].links
           last == Len(table.links)
<1>1. n \in Range(o) /\ n # AtHub(h, o, k) /\ k + 1 \in 1 .. Len(o) /\ Len(o) \in Nat
  BY RestOfAll, RestStep, OrderOnce
<1>2. HubFile(h, o, n)
  BY <1>1, HubEntry
<1>3. last = Len(links) /\ last \in Nat /\ last > 0 /\ table \in Table
  BY <1>2 DEF HubFile, Shape
<1>4. table.links \in Seq(Entry) /\ DOMAIN table.links = 1 .. last
  BY <1>3 DEF Table
<1>5. table.links[last].name = AtHub(h, o, k)
  BY <1>3 DEF Shape
<1>6. ASSUME NEW i \in 1 .. last - 1 PROVE table.links[i].name # AtHub(h, o, k)
  <2>1. table.links[i] = links[i]
    BY <1>3 DEF Shape
  <2>2. links[i].name # h /\ links[i].name \notin Range(o) \ {n}
    BY <1>1, <1>3, HubAlone
  <2>3. CASE k = 0
    BY <2>1, <2>2, <2>3 DEF AtHub
  <2>4. CASE k # 0
    <3>1. k \in 1 .. Len(o)
      BY <1>1, <2>4
    <3>2. o[k] \in Range(o)
      BY <3>1, OrderOnce DEF Range
    <3> QED
      BY <1>1, <2>1, <2>2, <2>4, <3>2 DEF AtHub
  <2> QED
    BY <2>3, <2>4
<1> QED
  BY <1>3, <1>4, <1>5, <1>6 DEF LastIs

\* Then it is the one that a search for the name finds.
LEMMA LastFound ==
  ASSUME NEW table, NEW name, LastIs(table, name)
  PROVE  /\ name \in Names(table.links)
         /\ IndexOf(table.links, name) = Len(table.links)
         /\ EntryOf(table.links, name) = table.links[Len(table.links)]
         /\ Last(table.links) = table.links[Len(table.links)]
<1> DEFINE last == Len(table.links)
<1>1. /\ table.links \in Seq(Entry) /\ last \in Nat /\ last > 0
      /\ DOMAIN table.links = 1 .. last
      /\ table.links[last].name = name
      /\ \A i \in 1 .. last - 1 : table.links[i].name # name
  BY DEF LastIs
<1>2. name \in Names(table.links)
  BY <1>1 DEF Names
<1>3. /\ IndexOf(table.links, name) \in 1 .. last
      /\ EntryOf(table.links, name) = table.links[IndexOf(table.links, name)]
      /\ table.links[IndexOf(table.links, name)].name = name
  BY <1>1, <1>2, EntryAt
<1>4. \A i \in 1 .. last : table.links[i].name = name => i = last
  BY <1>1
<1>5. IndexOf(table.links, name) = last
  BY <1>3, <1>4
<1>6. Last(table.links) = table.links[last]
  BY DEF Last
<1> QED
  BY <1>2, <1>3, <1>5, <1>6

\* The one cut vertex that n lists, and when it is one.
LEMMA ShapeCut ==
  ASSUME NEW h, NEW o, Files(h, o), NEW k \in Nat, NEW n \in Rest(o, k),
         NEW table, Shape(table, h, o, n, k), NEW l \in Names(table.links)
  PROVE  IsCutVertex(table, l) <=> l = AtHub(h, o, k) /\ Configs[h].numLinks - k > 2
<1> DEFINE last == Len(table.links)
           first == SelectInSeq(table.links, LAMBDA x : x.name = l)
<1>1. LastIs(table, AtHub(h, o, k))
  BY ShapeLast
<1>2. table.links \in Seq(Entry) /\ last \in Nat /\ last > 0
  BY <1>1 DEF LastIs
<1>3. first \in 1 .. last /\ table.links[first].name = l
  BY <1>2, FirstNamed
<1>4. IsCutVertex(table, l) <=> table.links[first].numLinks > 2
  BY DEF IsCutVertex
<1>5. CASE l = AtHub(h, o, k)
  <2>1. first = last
    <3>1. LastIs(table, l)
      BY <1>1, <1>5
    <3>2. \A i \in 1 .. last : table.links[i].name = l => i = last
      BY <3>1, <1>2 DEF LastIs
    <3> HIDE DEF first
    <3> QED
      BY <1>3, <3>2
  <2>2. table.links[last].numLinks = Configs[h].numLinks - k
    BY DEF Shape
  <2> HIDE DEF first
  <2> QED
    BY <1>4, <1>5, <2>1, <2>2
<1>6. CASE l # AtHub(h, o, k)
  <2> HIDE DEF first
  <2>1. first # last
    BY <1>1, <1>3, <1>6 DEF LastIs
  <2>2. first \in 1 .. last - 1
    BY <1>2, <1>3, <2>1
  <2>3. table.links[first] = Configs[n].links[first] /\ last = Len(Configs[n].links)
    BY <2>2 DEF Shape
  <2>4. n \in Range(o)
    BY RestOfAll
  <2>5. Configs[n].links[first].numLinks <= 2 /\ Configs[n].links[first] \in Entry
    BY <2>2, <2>3, <2>4, HubAlone
  <2>6. table.links[first].numLinks \in Int
    BY <2>3, <2>5 DEF Entry
  <2> QED
    BY <1>4, <1>6, <2>3, <2>5, <2>6
<1> QED
  BY <1>5, <1>6

\* The candidates of n are those that are left, each once, as they really are.
TrueCandidates(c, h, o, k) ==
  /\ c \in Seq(Candidate) /\ Len(c) > 0
  /\ \A x : x \in Rest(o, k) <=> \E i \in 1 .. Len(c) : c[i].name = x
  /\ \A i, j \in 1 .. Len(c) : c[i].name = c[j].name => i = j
  /\ \A i \in 1 .. Len(c) : /\ c[i].coords = Coords(c[i].name)
                            /\ c[i].numLinks = Configs[c[i].name].numLinks

LEMMA ShapeCandidates ==
  ASSUME NEW h, NEW o, Files(h, o), NEW k \in Nat, NEW n \in Rest(o, k),
         NEW table, Shape(table, h, o, n, k)
  PROVE  TrueCandidates(Candidates(table, AtHub(h, o, k)), h, o, k)
<1> DEFINE links == table.links[Len(table.links)].links
           self == [name |-> table.name, coords |-> table.coords, numLinks |-> table.numLinks]
           c == Append(links, self)
<1>1. LastIs(table, AtHub(h, o, k))
  BY ShapeLast
<1>2. Candidates(table, AtHub(h, o, k)) = c
  BY <1>1, LastFound DEF Candidates
<1>3. /\ table \in Table /\ table.name = n
      /\ table.coords = Coords(n) /\ table.numLinks = Configs[n].numLinks
      /\ links \in Seq(Candidate) /\ Names(links) = Rest(o, k) \ {n}
      /\ \A a, b \in DOMAIN links : links[a].name = links[b].name => a = b
      /\ \A a \in DOMAIN links : /\ links[a].coords = Coords(links[a].name)
                                 /\ links[a].numLinks = Configs[links[a].name].numLinks
  <2>1. /\ table \in Table /\ table.name = n
        /\ table.coords = Coords(n) /\ table.numLinks = Configs[n].numLinks
        /\ Len(table.links) = Len(Configs[n].links)
    BY Zenon DEF Shape
  <2> DEFINE own == table.links[Len(Configs[n].links)].links
  <2>2. /\ own \in Seq(Candidate) /\ Names(own) = Rest(o, k) \ {n}
        /\ \A a, b \in DOMAIN own : own[a].name = own[b].name => a = b
        /\ \A a \in DOMAIN own : /\ own[a].coords = Coords(own[a].name)
                                 /\ own[a].numLinks = Configs[own[a].name].numLinks
    BY Zenon DEF Shape
  <2>3. own = links
    BY <2>1
  <2> HIDE DEF own, links
  <2> QED
    BY <2>1, <2>2, <2>3
<1>4. self \in Candidate /\ self.name = n /\ self.coords = Coords(n)
      /\ self.numLinks = Configs[n].numLinks
  BY <1>3 DEF Table, Candidate
<1> HIDE DEF links, self
<1>5. /\ c \in Seq(Candidate) /\ Len(c) = Len(links) + 1 /\ Len(links) \in Nat
      /\ DOMAIN links = 1 .. Len(links)
      /\ \A i \in 1 .. Len(links) : c[i] = links[i]
      /\ c[Len(links) + 1] = self
  BY <1>3, <1>4
<1> HIDE DEF c
<1>6. \A i \in 1 .. Len(c) : i \in 1 .. Len(links) \/ i = Len(links) + 1
  BY <1>5
<1>7. \A x : x \in Names(links) <=> \E i \in 1 .. Len(links) : c[i].name = x
  BY <1>5 DEF Names
<1>8. ASSUME NEW x PROVE x \in Rest(o, k) <=> \E i \in 1 .. Len(c) : c[i].name = x
  <2>1. x \in Rest(o, k) <=> x \in Names(links) \/ x = n
    BY <1>3
  <2>2. ASSUME x \in Names(links) PROVE \E i \in 1 .. Len(c) : c[i].name = x
    BY <1>5, <1>7, <2>2
  <2>3. Len(links) + 1 \in 1 .. Len(c) /\ c[Len(links) + 1].name = n
    BY <1>4, <1>5
  <2>4. ASSUME NEW i \in 1 .. Len(c), c[i].name = x PROVE x \in Names(links) \/ x = n
    BY <1>4, <1>5, <1>6, <1>7, <2>4
  <2> QED
    BY <2>1, <2>2, <2>3, <2>4
<1>9. \A i \in 1 .. Len(links) : c[i].name # n
  BY <1>3, <1>7
<1>10. \A i, j \in 1 .. Len(c) : c[i].name = c[j].name => i = j
  <2> TAKE i, j \in 1 .. Len(c)
  <2>1. CASE i \in 1 .. Len(links) /\ j \in 1 .. Len(links)
    BY <1>3, <1>5, <2>1
  <2>2. CASE ~(i \in 1 .. Len(links) /\ j \in 1 .. Len(links))
    BY <1>4, <1>5, <1>6, <1>9, <2>2
  <2> QED
    BY <2>1, <2>2
<1>11. \A i \in 1 .. Len(c) : /\ c[i].coords = Coords(c[i].name)
                              /\ c[i].numLinks = Configs[c[i].name].numLinks
  BY <1>3, <1>4, <1>5, <1>6
<1>12. Len(c) > 0
  BY <1>5
<1>13. TrueCandidates(c, h, o, k)
  BY <1>5, <1>8, <1>10, <1>11, <1>12, Zenon DEF TrueCandidates
<1> QED
  BY <1>2, <1>13

\* The best of them is the next in the order.
LEMMA ShapeBest ==
  ASSUME NEW h, NEW o, Files(h, o), NEW k \in Nat, NEW n \in Rest(o, k),
         NEW table, Shape(table, h, o, n, k)
  PROVE  FindBestCandidate(table, AtHub(h, o, k)) = o[k + 1]
<1> DEFINE c == Candidates(table, AtHub(h, o, k))
           goal == EntryOf(table.links, AtHub(h, o, k)).coords
           Is(i) == /\ \A j \in DOMAIN c : ~Before(goal, c[j], c[i])
                    /\ \A j \in 1 .. i - 1 : Before(goal, c[i], c[j])
           best_ == CHOOSE i \in DOMAIN c : Is(i)
<1>1. FindBestCandidate(table, AtHub(h, o, k)) = c[best_].name
  BY DEF FindBestCandidate
<1>2. goal = Coords(h)
  <2>1. EntryOf(table.links, AtHub(h, o, k)) = table.links[Len(table.links)]
    BY ShapeLast, LastFound
  <2> QED
    BY <2>1 DEF Shape
<1>3. TrueCandidates(c, h, o, k)
  BY ShapeCandidates
<1> HIDE DEF c, goal
<1>4. /\ c \in Seq(Candidate) /\ DOMAIN c = 1 .. Len(c) /\ Len(c) \in Nat
      /\ \A x : x \in Rest(o, k) <=> \E i \in 1 .. Len(c) : c[i].name = x
      /\ \A i, j \in 1 .. Len(c) : c[i].name = c[j].name => i = j
      /\ \A i \in 1 .. Len(c) : /\ c[i].coords = Coords(c[i].name)
                                /\ c[i].numLinks = Configs[c[i].name].numLinks
  BY <1>3 DEF TrueCandidates
<1>5. k + 1 \in 1 .. Len(o) /\ o[k + 1] \in Rest(o, k) /\ Rest(o, k) \subseteq Node
  BY RestStep
<1>6. PICK i \in 1 .. Len(c) : c[i].name = o[k + 1]
  BY <1>4, <1>5
<1>7. ASSUME NEW j \in 1 .. Len(c), j # i PROVE Before(goal, c[i], c[j])
  <2>1. c[j].name \in Rest(o, k) /\ c[j].name # o[k + 1]
    BY <1>4, <1>6, <1>7
  <2>2. PICK p \in 1 .. Len(o) : p > k /\ c[j].name = o[p]
    BY <2>1, OrderOnce DEF Rest
  <2>3. k + 1 < p
    BY <1>5, <2>1, <2>2
  <2>4. Before(Coords(h), Configs[o[k + 1]], Configs[o[p]])
    <3>1. DOMAIN o = 1 .. Len(o)
      BY OrderOnce
    <3> QED
      BY <1>5, <2>3, <3>1 DEF Files, Agreement
  <2>5. /\ c[i].numLinks = Configs[o[k + 1]].numLinks /\ c[j].numLinks = Configs[o[p]].numLinks
        /\ c[i].coords = Configs[o[k + 1]].coords /\ c[j].coords = Configs[o[p]].coords
    BY <1>4, <1>6, <2>2 DEF Coords
  <2> QED
    BY <1>2, <2>4, <2>5 DEF Before
<1>8. \A j \in 1 .. Len(c) : c[j] \in Candidate
  BY <1>4
<1>9. goal \in Int \X Int
  BY <1>2, ConfigAssumption DEF Files, Coords, Table
<1>10. \A j \in 1 .. Len(c) : ~Before(goal, c[j], c[i])
  <2> TAKE j \in 1 .. Len(c)
  <2>1. ~Before(goal, c[i], c[i])
    BY <1>8, <1>9, BeforeOrder
  <2>2. CASE j = i
    BY <2>1, <2>2
  <2>3. CASE j # i
    BY <1>7, <1>8, <1>9, <2>1, <2>3, BeforeOrder
  <2> QED
    BY <2>2, <2>3
<1>11. \A j \in 1 .. i - 1 : j \in 1 .. Len(c) /\ j # i
  BY <1>4
<1>12. i \in DOMAIN c /\ Is(i)
  BY <1>4, <1>7, <1>10, <1>11
<1>13. best_ \in DOMAIN c /\ Is(best_)
  <2> HIDE DEF Is
  <2> QED
    BY <1>12
<1> HIDE DEF best_
<1>14. best_ = i
  BY <1>4, <1>7, <1>13
<1> QED
  BY <1>1, <1>6, <1>14

\* His place is the one that n believes him to be at.
LEMMA ShapeCoords ==
  ASSUME NEW h, NEW o, Files(h, o), NEW k \in Nat, NEW n \in Rest(o, k),
         NEW table, Shape(table, h, o, n, k)
  PROVE  GetCoords(table, o[k + 1]) = Coords(o[k + 1])
<1> DEFINE b == o[k + 1]
           links == table.links
           last == Len(links)
           I == {i \in 1 .. Len(links) : links[i].name = b \/ b \in Names(links[i].links)}
           near == SelectInSeq(links, LAMBDA l : l.name = b \/ b \in Names(l.links))
           l == links[near]
<1>1. LastIs(table, AtHub(h, o, k))
  BY ShapeLast
<1>2. links \in Seq(Entry) /\ last \in Nat /\ last > 0 /\ DOMAIN links = 1 .. last
  BY <1>1 DEF LastIs
<1>3. /\ table.name = n /\ table.coords = Coords(n)
      /\ \A i \in 1 .. last - 1 : links[i] = Configs[n].links[i]
      /\ last = Len(Configs[n].links)
      /\ links[last].name = AtHub(h, o, k) /\ links[last].links \in Seq(Candidate)
      /\ Names(links[last].links) = Rest(o, k) \ {n}
      /\ \A a \in DOMAIN links[last].links :
            links[last].links[a].coords = Coords(links[last].links[a].name)
  BY DEF Shape
<1>4. b \in Rest(o, k) /\ n \in Range(o)
  BY RestStep, RestOfAll
<1>5. b # AtHub(h, o, k)
  BY <1>4, RestStep
<1>6. CASE b = n
  BY <1>3, <1>6 DEF GetCoords
<1>7. CASE b # n
  <2>1. last \in I
    BY <1>2, <1>3, <1>4, <1>7
  <2>2. I \in SUBSET (1 .. Len(links)) /\ I # {}
    BY <2>1
  <2>3. near = Min(I)
    BY <2>2 DEF SelectInSeq
  <2>4. near \in I
    <3> HIDE DEF I, near
    <3> QED
      BY <1>2, <2>2, <2>3, FirstIndex
  <2>5. near \in 1 .. last /\ (l.name = b \/ b \in Names(l.links))
    BY <2>4
  <2> DEFINE a == SelectInSeq(l.links, LAMBDA ll : ll.name = b)
  <2>6. GetCoords(table, b) = IF l.name = b THEN l.coords ELSE l.links[a].coords
    BY <1>3, <1>7 DEF GetCoords
  <2> HIDE DEF near, I
  <2>7. /\ l.links \in Seq(Candidate)
        /\ \A x \in DOMAIN l.links : l.links[x].coords = Coords(l.links[x].name)
        /\ l.name = b => l.coords = Coords(b)
    <3>1. CASE near = last
      BY <1>3, <1>5, <3>1
    <3>2. CASE near # last
      <4>1. near \in 1 .. last - 1
        BY <1>2, <2>5, <3>2
      <4>2. near \in 1 .. Len(Configs[n].links) - 1 /\ l = Configs[n].links[near]
        BY <1>3, <4>1
      <4>3. /\ Configs[n].links[near].links \in Seq(Candidate)
            /\ Configs[n].links[near].coords = Coords(Configs[n].links[near].name)
            /\ \A x \in DOMAIN Configs[n].links[near].links :
                 Configs[n].links[near].links[x].coords
                   = Coords(Configs[n].links[near].links[x].name)
        BY <1>4, <4>2, HubAlone
      <4> QED
        BY <4>2, <4>3
    <3> QED
      BY <3>1, <3>2
  <2> HIDE DEF l
  <2>8. CASE l.name = b
    BY <2>6, <2>7, <2>8
  <2>9. CASE l.name # b
    <3>1. a \in 1 .. Len(l.links) /\ l.links[a].name = b
      BY <2>5, <2>7, <2>9, FirstNamed
    <3> HIDE DEF a
    <3>2. a \in DOMAIN l.links
      BY <2>7, <3>1
    <3> QED
      BY <2>6, <2>7, <2>9, <3>1, <3>2
  <2> QED
    BY <2>8, <2>9
<1> QED
  BY <1>6, <1>7

-----------------------------------------------------------------------------
\* What is left of a sequence, and where.
LEMMA RemoveAtExact ==
  ASSUME NEW S, NEW seq \in Seq(S), NEW i \in 1 .. Len(seq)
  PROVE  /\ RemoveAt(seq, i) \in Seq(S) /\ Len(RemoveAt(seq, i)) = Len(seq) - 1
         /\ \A k \in 1 .. Len(seq) - 1 :
              RemoveAt(seq, i)[k] = seq[IF k < i THEN k ELSE k + 1]
<1> DEFINE left == SubSeq(seq, 1, i - 1)
           right == SubSeq(seq, i + 1, Len(seq))
<1>1. Len(seq) \in Nat /\ i \in Nat /\ 1 <= i /\ i <= Len(seq)
  OBVIOUS
<1>2. /\ left \in Seq(S) /\ Len(left) = i - 1
      /\ \A k \in 1 .. i - 1 : left[k] = seq[k]
  BY <1>1
<1>3. /\ right \in Seq(S) /\ Len(right) = Len(seq) - i
      /\ \A k \in 1 .. Len(seq) - i : right[k] = seq[i + k]
  BY <1>1
<1> HIDE DEF left, right
<1>4. RemoveAt(seq, i) = left \o right
  BY DEF RemoveAt, left, right
<1>5. /\ left \o right \in Seq(S) /\ Len(left \o right) = Len(left) + Len(right)
      /\ \A k \in 1 .. Len(left) + Len(right) :
           (left \o right)[k] = IF k <= Len(left) THEN left[k] ELSE right[k - Len(left)]
  BY <1>2, <1>3, ConcatProperties
<1>6. Len(left) + Len(right) = Len(seq) - 1
  BY <1>1, <1>2, <1>3
<1>7. ASSUME NEW k \in 1 .. Len(seq) - 1
      PROVE  (left \o right)[k] = seq[IF k < i THEN k ELSE k + 1]
  <2>1. CASE k < i
    <3>1. k \in 1 .. i - 1 /\ k <= Len(left)
      BY <1>1, <1>2, <2>1
    <3> QED
      BY <1>2, <1>5, <1>6, <2>1, <3>1
  <2>2. CASE ~(k < i)
    <3>1. ~(k <= Len(left)) /\ k - Len(left) \in 1 .. Len(seq) - i
          /\ i + (k - Len(left)) = k + 1
      BY <1>1, <1>2, <2>2
    <3> DEFINE d == k - Len(left)
    <3>2. (left \o right)[k] = right[d]
      BY <1>5, <1>6, <3>1
    <3>3. right[d] = seq[i + d]
      BY <1>3, <3>1
    <3>4. i + d = k + 1
      BY <3>1
    <3> QED
      BY <2>2, <3>2, <3>3, <3>4
  <2> QED
    BY <2>1, <2>2
<1> QED
  BY <1>4, <1>5, <1>6, <1>7

\* Without its i-th, a list without repetitions has all the names but that one.
Lacks(new, links, name) ==
  /\ new \in Seq(Candidate) /\ Names(new) = Names(links) \ {name}
  /\ \A a, b \in DOMAIN new : new[a].name = new[b].name => a = b
  /\ \A a \in DOMAIN new : \E b \in DOMAIN links : new[a] = links[b]

LEMMA NamesLeft ==
  ASSUME NEW links \in Seq(Candidate), NEW i \in 1 .. Len(links),
         \A a, b \in DOMAIN links : links[a].name = links[b].name => a = b
  PROVE  Lacks(RemoveAt(links, i), links, links[i].name)
<1> DEFINE new == RemoveAt(links, i)
           Old(k) == IF k < i THEN k ELSE k + 1
<1>1. /\ new \in Seq(Candidate) /\ Len(new) = Len(links) - 1
      /\ \A k \in 1 .. Len(links) - 1 : new[k] = links[Old(k)]
  BY RemoveAtExact
<1> HIDE DEF new
<1>2. /\ DOMAIN links = 1 .. Len(links) /\ Len(links) \in Nat
      /\ DOMAIN new = 1 .. Len(links) - 1
  BY <1>1
<1>3. \A k \in 1 .. Len(links) - 1 : Old(k) \in 1 .. Len(links) /\ Old(k) # i
  BY <1>2
<1>4. \A a, b \in 1 .. Len(links) - 1 : Old(a) = Old(b) => a = b
  BY <1>2
<1>5. ASSUME NEW j \in 1 .. Len(links), j # i PROVE \E k \in 1 .. Len(links) - 1 : Old(k) = j
  <2>1. CASE j < i
    BY <1>2, <2>1
  <2>2. CASE ~(j < i)
    <3>1. j - 1 \in 1 .. Len(links) - 1 /\ ~(j - 1 < i) /\ (j - 1) + 1 = j
      BY <1>2, <1>5, <2>2
    <3>2. Old(j - 1) = j
      BY <3>1
    <3> QED
      BY <3>1, <3>2
  <2> QED
    BY <2>1, <2>2
<1> HIDE DEF Old
<1>6. \A a, b \in DOMAIN new : new[a].name = new[b].name => a = b
  <2> SUFFICES ASSUME NEW a \in DOMAIN new, NEW b \in DOMAIN new, new[a].name = new[b].name
               PROVE  a = b
    OBVIOUS
  <2>1. links[Old(a)].name = links[Old(b)].name
    BY <1>1, <1>2
  <2>2. Old(a) = Old(b)
    BY <1>2, <1>3, <2>1
  <2> QED
    BY <1>2, <1>4, <2>2
<1>7. \A a \in DOMAIN new : \E b \in DOMAIN links : new[a] = links[b]
  BY <1>1, <1>2, <1>3
<1>8. Names(new) = Names(links) \ {links[i].name}
  <2>1. ASSUME NEW a \in DOMAIN new PROVE new[a].name \in Names(links) \ {links[i].name}
    BY <1>1, <1>2, <1>3 DEF Names
  <2>2. ASSUME NEW j \in DOMAIN links, links[j].name # links[i].name
        PROVE  \E a \in DOMAIN new : new[a].name = links[j].name
    <3>1. j \in 1 .. Len(links) /\ j # i
      BY <1>2, <2>2
    <3>2. PICK a \in 1 .. Len(links) - 1 : Old(a) = j
      BY <1>5, <3>1
    <3> QED
      BY <1>1, <1>2, <3>2
  <2> QED
    BY <2>1, <2>2 DEF Names
<1> QED
  BY <1>1, <1>6, <1>7, <1>8 DEF Lacks, new

\* n gives the entry to the next in the order.
LEMMA ShapeUpdate ==
  ASSUME NEW h, NEW o, Files(h, o), NEW k \in Nat, NEW n \in Rest(o, k), n # o[k + 1],
         NEW table, Shape(table, h, o, n, k), CanUpdate(table, AtHub(h, o, k), o[k + 1])
  PROVE  /\ Shape(UpdateTwoHopTable(table, AtHub(h, o, k), o[k + 1]), h, o, n, k + 1)
         /\ n \in Rest(o, k + 1)
<1> DEFINE b == o[k + 1]
           dead == AtHub(h, o, k)
           last == Len(table.links)
           e == table.links[last]
           r == IndexReplacement(table, b)
           new == UpdateTwoHopTable(table, dead, b)
           ne == [e EXCEPT !.name = b, !.numLinks = @ - 1, !.links = RemoveAt(@, r)]
<1>1. LastIs(table, dead)
  BY ShapeLast
<1>2. table.links \in Seq(Entry) /\ last \in Nat /\ last > 0 /\ DOMAIN table.links = 1 .. last
  BY <1>1 DEF LastIs
<1>3. /\ IndexOf(table.links, dead) = last /\ Last(table.links) = e
  BY <1>1, LastFound
<1>4. /\ table \in Table /\ table.name = n
      /\ table.coords = Coords(n) /\ table.numLinks = Configs[n].numLinks
      /\ last = Len(Configs[n].links)
      /\ \A i \in 1 .. last - 1 : table.links[i] = Configs[n].links[i]
      /\ e.name = dead /\ e.coords = Coords(h) /\ e.numLinks = Configs[h].numLinks - k
      /\ e.links \in Seq(Candidate) /\ Names(e.links) = Rest(o, k) \ {n}
      /\ \A x, y \in DOMAIN e.links : e.links[x].name = e.links[y].name => x = y
      /\ \A x \in DOMAIN e.links : /\ e.links[x].coords = Coords(e.links[x].name)
                                   /\ e.links[x].numLinks = Configs[e.links[x].name].numLinks
  <2>1. /\ table \in Table /\ table.name = n
        /\ table.coords = Coords(n) /\ table.numLinks = Configs[n].numLinks
        /\ last = Len(Configs[n].links)
    BY Zenon DEF Shape
  <2>2. /\ \A i \in 1 .. Len(Configs[n].links) - 1 : table.links[i] = Configs[n].links[i]
        /\ LET f == table.links[Len(Configs[n].links)] IN
           /\ f.name = dead /\ f.coords = Coords(h) /\ f.numLinks = Configs[h].numLinks - k
           /\ f.links \in Seq(Candidate) /\ Names(f.links) = Rest(o, k) \ {n}
           /\ \A x, y \in DOMAIN f.links : f.links[x].name = f.links[y].name => x = y
           /\ \A x \in DOMAIN f.links : /\ f.links[x].coords = Coords(f.links[x].name)
                                     /\ f.links[x].numLinks = Configs[f.links[x].name].numLinks
    BY Zenon DEF Shape
  <2>3. e = table.links[Len(Configs[n].links)]
    BY <2>1
  <2> HIDE DEF e, last
  <2> QED
    BY <2>1, <2>2, <2>3
<1>5. b \in Rest(o, k) /\ Rest(o, k + 1) = Rest(o, k) \ {b} /\ Rest(o, k) \subseteq Node
  BY RestStep
<1>6. b \in Names(e.links)
  BY <1>4, <1>5
<1>7. /\ IndexOf(e.links, b) \in 1 .. Len(e.links) /\ e.links[IndexOf(e.links, b)].name = b
  <2>1. e.links \in Seq(Candidate)
    BY <1>4
  <2> HIDE DEF e, b
  <2> QED
    BY <1>6, <2>1, EntryAt
<1>8. r = IndexOf(e.links, b)
  <2>1. r = IF IndexOf(e.links, b) = 0 THEN 1 ELSE IndexOf(e.links, b)
    BY <1>3 DEF IndexReplacement, IndexOf
  <2>2. IndexOf(e.links, b) # 0
    <3> HIDE DEF e
    <3> QED
      BY <1>4, <1>7
  <2> QED
    BY <2>1, <2>2
<1>9. Lacks(RemoveAt(e.links, r), e.links, b)
  BY <1>4, <1>7, <1>8, NamesLeft
<1>10. Renames(table, new, dead, b)
  <2>1. b \in Node \ {table.name}
    BY <1>4, <1>5
  <2> QED
    BY <2>1, <1>4, UpdateOther
<1>11. new = [table EXCEPT !.links[last] = ne]
  <2>1. b # table.name
    BY <1>4
  <2>2. SelectLastInSeq(table.links, LAMBDA l : l.name = dead) = last
    BY <1>3 DEF IndexOf
  <2> HIDE DEF r, last
  <2> QED
    BY <2>1, <2>2 DEF UpdateTwoHopTable, r
<1> HIDE DEF r, new
<1>12. new.links = [table.links EXCEPT ![last] = ne]
  BY <1>4, <1>11 DEF Table
<1>13. new.links[last] = ne
  BY <1>2, <1>12
<1>14. \A i \in 1 .. last - 1 : new.links[i] = table.links[i]
  BY <1>2, <1>12
<1>15. new \in Table /\ new.name = n /\ Len(new.links) = last
  BY <1>4, <1>10 DEF Renames
<1>16. new.coords = table.coords /\ new.numLinks = table.numLinks
  BY <1>4, <1>11 DEF Table
<1>17. /\ ne.name = b /\ ne.coords = e.coords /\ ne.numLinks = e.numLinks - 1
       /\ ne.links = RemoveAt(e.links, r)
  <2>1. e \in Entry
    BY <1>2
  <2> HIDE DEF e
  <2> QED
    BY <2>1 DEF Entry
<1> HIDE DEF ne
<1>18. Configs[h].numLinks \in Int
  BY ConfigAssumption DEF Files, Table
<1>19. ne.numLinks = Configs[h].numLinks - (k + 1)
  <2> HIDE DEF e
  <2>1. e.numLinks = Configs[h].numLinks - k
    BY <1>4
  <2>2. ne.numLinks = e.numLinks - 1
    BY <1>17
  <2> QED
    BY <1>18, <2>1, <2>2
<1>20. AtHub(h, o, k + 1) = b
  BY DEF AtHub
<1>21. /\ ne.links \in Seq(Candidate) /\ Names(ne.links) = Rest(o, k + 1) \ {n}
       /\ \A x, y \in DOMAIN ne.links : ne.links[x].name = ne.links[y].name => x = y
       /\ \A x \in DOMAIN ne.links : /\ ne.links[x].coords = Coords(ne.links[x].name)
                                    /\ ne.links[x].numLinks = Configs[ne.links[x].name].numLinks
  <2>1. /\ ne.links \in Seq(Candidate) /\ Names(ne.links) = Names(e.links) \ {b}
        /\ \A x, y \in DOMAIN ne.links : ne.links[x].name = ne.links[y].name => x = y
        /\ \A x \in DOMAIN ne.links : \E y \in DOMAIN e.links : ne.links[x] = e.links[y]
    BY <1>9, <1>17 DEF Lacks
  <2>2. Names(ne.links) = Rest(o, k + 1) \ {n}
    BY <1>4, <1>5, <2>1
  <2> HIDE DEF e
  <2>3. \A x \in DOMAIN ne.links : /\ ne.links[x].coords = Coords(ne.links[x].name)
                                   /\ ne.links[x].numLinks = Configs[ne.links[x].name].numLinks
    BY <1>4, <2>1
  <2> QED
    BY <2>1, <2>2, <2>3
<1>22. ne.coords = Coords(h) /\ new.coords = Coords(n) /\ new.numLinks = Configs[n].numLinks
  BY <1>4, <1>16, <1>17
<1>23. \A i \in 1 .. last - 1 : new.links[i] = Configs[n].links[i]
  BY <1>4, <1>14
<1>24. n \in Rest(o, k + 1)
  BY <1>5
<1>25. Shape(new, h, o, n, k + 1)
  <2> DEFINE own == Len(Configs[n].links)
  <2>1. new.links[own] = ne /\ Len(new.links) = own
    BY <1>4, <1>13, <1>15
  <2>2. \A i \in 1 .. own - 1 : new.links[i] = Configs[n].links[i]
    BY <1>4, <1>23
  <2>3. ne.name = AtHub(h, o, k + 1)
    BY <1>17, <1>20
  <2> QED
    BY <1>15, <1>19, <1>21, <1>22, <2>1, <2>2, <2>3, Zenon DEF Shape
<1> QED
  BY <1>24, <1>25 DEF new

\* The next in the order takes the entry's links for its own.
LEMMA ShapeOwn ==
  ASSUME NEW h, NEW o, Files(h, o), NEW k \in Nat, NEW n \in Rest(o, k), n = o[k + 1],
         NEW table, Shape(table, h, o, n, k)
  PROVE  LET new == UpdateTwoHopTable(table, AtHub(h, o, k), n)
         IN  /\ Names(new.links) = Rest(o, k + 1)
             /\ \A j \in DOMAIN new.links : new.links[j].numLinks <= 2
<1> DEFINE dead == AtHub(h, o, k)
           last == Len(table.links)
           e == table.links[last]
           new == UpdateTwoHopTable(table, dead, n)
<1>1. LastIs(table, dead)
  BY ShapeLast
<1>2. IndexOf(table.links, dead) = last
  BY <1>1, LastFound
<1>3. /\ table \in Table /\ table.name = n /\ e.links \in Seq(Candidate)
      /\ Names(e.links) = Rest(o, k) \ {n}
      /\ \A x \in DOMAIN e.links : e.links[x].numLinks = Configs[e.links[x].name].numLinks
  BY DEF Shape
<1>4. new = [table EXCEPT !.links = [j \in DOMAIN e.links |-> WithoutLinks(e.links[j])]]
  <2>1. SelectLastInSeq(table.links, LAMBDA l : l.name = dead) = last
    BY <1>2 DEF IndexOf
  <2> HIDE DEF last
  <2> QED
    BY <1>3, <2>1 DEF UpdateTwoHopTable
<1> HIDE DEF new, e
<1>5. new.links = [j \in DOMAIN e.links |-> WithoutLinks(e.links[j])]
  BY <1>3, <1>4 DEF Table
<1>6. /\ DOMAIN new.links = DOMAIN e.links
      /\ \A j \in DOMAIN e.links : /\ new.links[j].name = e.links[j].name
                                   /\ new.links[j].numLinks = e.links[j].numLinks
  BY <1>5 DEF WithoutLinks
<1>7. Names(new.links) = Names(e.links)
  BY <1>6 DEF Names
<1>8. Names(e.links) = Rest(o, k + 1)
  BY <1>3, RestStep
<1>9. n \in Range(o)
  BY RestOfAll
<1>10. ASSUME NEW j \in DOMAIN e.links PROVE e.links[j].numLinks <= 2
  <2> DEFINE l == Configs[n].links[Len(Configs[n].links)]
  <2>1. HubFile(h, o, n)
    BY <1>9, HubEntry
  <2>2. /\ Names(l.links) = Range(o) \ {n}
        /\ \A x \in DOMAIN l.links : /\ l.links[x].numLinks = Configs[l.links[x].name].numLinks
                                     /\ l.links[x].numLinks <= 2
    BY <2>1 DEF HubFile
  <2> HIDE DEF l
  <2>3. e.links[j].name \in Range(o) \ {n}
    <3>1. e.links[j].name \in Names(e.links)
      BY DEF Names
    <3> QED
      BY <1>3, <3>1, RestOfAll
  <2>4. PICK x \in DOMAIN l.links : l.links[x].name = e.links[j].name
    BY <2>2, <2>3 DEF Names
  <2> QED
    BY <1>3, <2>2, <2>4
<1> QED
  BY <1>6, <1>7, <1>8, <1>10 DEF new

-----------------------------------------------------------------------------
\* The nodes in a recovery of the hub.  k have gone there before.
DeadUpTo(h, o, k) == \A i \in 0 .. k : AtHub(h, o, i) \notin alive

\* The time that n gives the k + 1st, and how much of it has passed.
RoundTime(h, o, n, k) == IF o[k + 1] = n THEN Drive(h, o[k + 1]) ELSE 2 * Drive(h, o[k + 1])
Age(h, o, n, k) == IF status[n] = "idle" THEN late[n] ELSE RoundTime(h, o, n, k) - timer[n]

\* n has seen them all die, and replaces the last by the next.
Pursues(h, o, n, k) ==
  /\ failed[n] = AtHub(h, o, k) /\ best[n] = o[k + 1] /\ coordsFailing[n] = Coords(h)
  /\ status[n] = IF n = o[k + 1] THEN "moving" ELSE "waiting"
  /\ timer[n] <= RoundTime(h, o, n, k) /\ late[n] = 0
  /\ DeadUpTo(h, o, k)
  /\ position[AtHub(h, o, k)] = Coords(h) => Configs[h].numLinks - k > 2

Home(h, o, n, k) ==
  /\ n \in Rest(o, k)
  /\ Shape(twoHopTable[n], h, o, n, k)
  /\ status[n] = "idle" => position[AtHub(h, o, k)] = Coords(h) /\ DeadUpTo(h, o, k - 1)
  /\ status[n] # "idle" => Pursues(h, o, n, k)

Moved(n) == position[n] # Coords(n)

\* A neighbor still at home.
Waits(o, n) == n \in Range(o) /\ n \in alive /\ ~Moved(n)

\* m knows that the i-th is at the hub, or is about to.
Heard(h, o, m, k, i) ==
  \/ k >= i
  \/ /\ k = i - 1 /\ status[m] = "waiting"
     /\ [fn |-> AtHub(h, o, i - 1), bc |-> o[i]] \in lst_recovery[m]

Gone(h, o, st, i) ==
  /\ position[o[i]] = Coords(h) /\ status[o[i]] = "idle"
  /\ Names(twoHopTable[o[i]].links) = Rest(o, i)
  /\ \A j \in DOMAIN twoHopTable[o[i]].links : twoHopTable[o[i]].links[j].numLinks <= 2
  /\ DeadUpTo(h, o, i - 1)
  /\ \A m \in Node : Waits(o, m) => Heard(h, o, m, st[m], i)

Elsewhere(n) == status[n] = "idle" /\ twoHopTable[n] = Configs[n] /\ position[n] = Coords(n)

\* How far n, at the k + 1st, may be ahead of m, at the j + 1st.
InStep(h, o, n, k, m, j) ==
  /\ k = j /\ status[n] # "idle" =>
       Age(h, o, n, k) <= Age(h, o, m, j) + (IF status[m] = "idle" THEN k ELSE k + 1) * Skew
  /\ j < k => /\ k = j + 1 /\ status[m] = "waiting"
              /\ Age(h, o, n, k) + timer[m] <= k * Skew

Chase(h, o, st) ==
  /\ IsFiniteSet(Node \ alive) /\ Cardinality(Node \ alive) <= MaxCrashes
  /\ \A n \in Node \ Range(o) : Elsewhere(n)
  /\ \A n \in Range(o) : ~Moved(n) => Home(h, o, n, st[n])
  /\ \A i \in DOMAIN o : Moved(o[i]) => Gone(h, o, st, i)
  /\ \A n, m \in Node : Waits(o, n) /\ Waits(o, m) /\ n # m => InStep(h, o, n, st[n], m, st[m])

Known(h, o, st) ==
  /\ Files(h, o) /\ st \in [Range(o) -> Nat]
  /\ TypeInv /\ HubInv(h) /\ LastInv(h) /\ Chase(h, o, st)

\* What holds of a neighbor at home.
LEMMA AtHome ==
  ASSUME NEW h, NEW o, NEW st, Known(h, o, st), NEW n \in Range(o), ~Moved(n)
  PROVE  /\ n \in Node /\ st[n] \in Nat /\ Home(h, o, n, st[n])
         /\ st[n] + 1 \in 1 .. Len(o) /\ o[st[n] + 1] \in Node
         /\ Drive(h, o[st[n] + 1]) \in Nat
         /\ RoundTime(h, o, n, st[n]) \in Nat
         /\ timer[n] \in Nat /\ late[n] \in 0 .. Skew
         /\ Age(h, o, n, st[n]) \in Nat
<1>1. st[n] \in Nat /\ Home(h, o, n, st[n])
  BY DEF Known, Chase
<1>2. n \in Node /\ \A i \in 1 .. Len(o) : o[i] \in Node
  BY OrderOnce DEF Known, Range
<1>3. st[n] + 1 \in 1 .. Len(o)
  BY <1>1, RestStep DEF Known, Home
<1>4. o[st[n] + 1] \in Node
  BY <1>2, <1>3
<1>5. \A m \in Node : Coords(m) \in Int \X Int
  BY ConfigAssumption DEF Coords, Table
<1>6. Drive(h, o[st[n] + 1]) \in Nat
  BY <1>4, <1>5, TimeType DEF Known, Files, Drive
<1>7. timer[n] \in Nat /\ late[n] \in 0 .. Skew
  BY <1>2 DEF Known, TypeInv, TypeOK
<1>8. RoundTime(h, o, n, st[n]) \in Nat
  BY <1>6 DEF RoundTime
<1>9. Age(h, o, n, st[n]) \in Nat
  <2>1. CASE status[n] = "idle"
    BY <1>7, <2>1, BoundsAssumption DEF Age
  <2>2. CASE status[n] # "idle"
    <3>1. timer[n] <= RoundTime(h, o, n, st[n])
      BY <1>1, <2>2 DEF Home, Pursues
    <3> QED
      BY <1>7, <1>8, <2>2, <3>1 DEF Age
  <2> QED
    BY <2>1, <2>2
<1> QED
  BY <1>1, <1>2, <1>3, <1>4, <1>6, <1>7, <1>8, <1>9

\* A node that can move is not where the hub is.
LEMMA PlacesDiffer ==
  ASSUME NEW h, NEW o, Files(h, o), NEW n \in Range(o)
  PROVE  n \in Node /\ n # h /\ Coords(n) # Coords(h)
<1>1. n \in Node /\ n # h
  BY OrderOnce DEF Range
<1> QED
  BY <1>1 DEF Files, OneCutVertex

\* Nobody else ever has a cut vertex to replace.
LEMMA OthersRest ==
  ASSUME NEW h, NEW o, NEW st, Known(h, o, st), NEW n \in Node, n \in Range(o) => Moved(n)
  PROVE  status[n] = "idle" /\ DeadCutVertices(n) = {}
<1>1. twoHopTable[n].links \in Seq(Entry)
  BY DEF Known, TypeInv, TypeOK, Table
<1>2. CASE n \notin Range(o)
  <2>1. status[n] = "idle" /\ twoHopTable[n] = Configs[n]
    BY <1>2 DEF Known, Chase, Elsewhere
  <2>2. h \notin Names(Configs[n].links)
    BY <1>2 DEF Known, Files, Agreement
  <2>3. \A i \in DOMAIN Configs[n].links :
          Configs[n].links[i].numLinks > 2 => Configs[n].links[i].name = h
    BY DEF Known, Files, OneCutVertex
  <2>4. \A i \in DOMAIN Configs[n].links : ~(Configs[n].links[i].numLinks > 2)
    BY <2>2, <2>3 DEF Names
  <2>5. ASSUME NEW l \in Names(twoHopTable[n].links) PROVE ~IsCutVertex(twoHopTable[n], l)
    <3> DEFINE first == SelectInSeq(twoHopTable[n].links, LAMBDA x : x.name = l)
    <3>1. first \in 1 .. Len(twoHopTable[n].links)
      BY <1>1, FirstNamed
    <3> HIDE DEF first
    <3>2. first \in DOMAIN twoHopTable[n].links
      BY <1>1, <3>1
    <3>3. ~(twoHopTable[n].links[first].numLinks > 2)
      BY <2>1, <2>4, <3>2
    <3> QED
      BY <3>3 DEF IsCutVertex, first
  <2> QED
    BY <2>1, <2>5 DEF DeadCutVertices, CutVerticesOf
<1>3. CASE n \in Range(o)
  <2>1. PICK i \in DOMAIN o : n = o[i]
    BY <1>3 DEF Range
  <2>2. /\ status[n] = "idle"
        /\ \A j \in DOMAIN twoHopTable[n].links : twoHopTable[n].links[j].numLinks <= 2
    BY <1>3, <2>1 DEF Known, Chase, Gone
  <2>3. \A j \in DOMAIN twoHopTable[n].links : ~(twoHopTable[n].links[j].numLinks > 2)
    <3>1. \A j \in DOMAIN twoHopTable[n].links : twoHopTable[n].links[j].numLinks \in Int
      <4>1. \A j \in DOMAIN twoHopTable[n].links : twoHopTable[n].links[j] \in Entry
        BY <1>1
      <4>2. \A l \in Entry : l.numLinks \in Int
        BY DEF Entry
      <4> QED
        BY <4>1, <4>2
    <3> QED
      BY <2>2, <3>1
  <2>4. ASSUME NEW l \in Names(twoHopTable[n].links) PROVE ~IsCutVertex(twoHopTable[n], l)
    <3> DEFINE first == SelectInSeq(twoHopTable[n].links, LAMBDA x : x.name = l)
    <3>1. first \in 1 .. Len(twoHopTable[n].links)
      BY <1>1, FirstNamed
    <3> HIDE DEF first
    <3>2. first \in DOMAIN twoHopTable[n].links
      BY <1>1, <3>1
    <3>3. ~(twoHopTable[n].links[first].numLinks > 2)
      BY <2>3, <3>2
    <3> QED
      BY <3>3 DEF IsCutVertex, first
  <2> QED
    BY <2>2, <2>4 DEF DeadCutVertices, CutVerticesOf
<1> QED
  BY <1>2, <1>3

\* A neighbor out of the loop has the hub to replace when whoever is there is
\* dead and the entry still shows a cut vertex.
LEMMA HomeNotices ==
  ASSUME NEW h, NEW o, NEW st, Known(h, o, st), NEW n \in Range(o), ~Moved(n),
         status[n] = "idle", NEW l
  PROVE  l \in DeadCutVertices(n) <=> /\ l = AtHub(h, o, st[n]) /\ l \notin alive
                                      /\ Configs[h].numLinks - st[n] > 2
<1> DEFINE k == st[n]
           hub == AtHub(h, o, k)
<1>1. /\ n \in Node /\ k \in Nat /\ n \in Rest(o, k) /\ Shape(twoHopTable[n], h, o, n, k)
      /\ position[hub] = Coords(h)
  BY AtHome DEF Home
<1>2. Files(h, o)
  BY DEF Known
<1>3. hub \in Names(twoHopTable[n].links)
  BY <1>1, <1>2, ShapeLast, LastFound
<1>4. n \in Names(twoHopTable[hub].links)
  <2>1. CASE k = 0
    <3>1. hub = h /\ h \in Node
      BY <1>2, <2>1 DEF AtHub, Files
    <3>2. h \notin Range(o)
      BY <1>2, PlacesDiffer
    <3>3. twoHopTable[h] = Configs[h]
      BY <3>1, <3>2 DEF Known, Chase, Elsewhere
    <3> QED
      BY <1>2, <3>1, <3>3 DEF Files, Agreement
  <2>2. CASE k # 0
    <3>1. hub = o[k] /\ k \in DOMAIN o
      <4>1. k + 1 \in 1 .. Len(o) /\ Len(o) \in Nat /\ DOMAIN o = 1 .. Len(o)
        BY <1>1, <1>2, RestStep, OrderOnce
      <4> QED
        BY <1>1, <2>2, <4>1 DEF AtHub
    <3>2. Moved(o[k])
      <4>1. o[k] \in Range(o)
        BY <3>1 DEF Range
      <4> QED
        BY <1>1, <1>2, <3>1, <4>1, PlacesDiffer DEF Moved
    <3>3. Names(twoHopTable[o[k]].links) = Rest(o, k)
      BY <3>1, <3>2 DEF Known, Chase, Gone
    <3> QED
      BY <1>1, <3>1, <3>3
  <2> QED
    BY <2>1, <2>2
<1>5. Silent(n, hub) <=> hub \notin alive
  BY <1>4 DEF Silent
<1> HIDE DEF hub, k
<1>6. ASSUME l \in Names(twoHopTable[n].links)
      PROVE  IsCutVertex(twoHopTable[n], l) <=> l = hub /\ Configs[h].numLinks - k > 2
  BY <1>1, <1>2, <1>6, ShapeCut DEF hub
<1>7. l \in DeadCutVertices(n) <=> /\ l \in Names(twoHopTable[n].links)
                                   /\ Silent(n, l) /\ IsCutVertex(twoHopTable[n], l)
  BY DEF DeadCutVertices, CutVerticesOf
<1> QED
  BY <1>3, <1>5, <1>6, <1>7 DEF hub, k

\* One round of the loop of dara1C at the hub.
Enters(h, o, n, k) ==
  /\ failed' = [failed EXCEPT ![n] = AtHub(h, o, k)]
  /\ coordsFailing' = [coordsFailing EXCEPT ![n] = Coords(h)]
  /\ best' = [best EXCEPT ![n] = o[k + 1]]
  /\ status' = [status EXCEPT ![n] = IF n = o[k + 1] THEN "moving" ELSE "waiting"]
  /\ timer' = [timer EXCEPT ![n] = RoundTime(h, o, n, k)]
  /\ lst_recovery' = [lst_recovery EXCEPT ![n] = {}]

LEMMA EntersRound ==
  ASSUME NEW h, NEW o, Files(h, o), NEW k \in Nat, NEW n \in Rest(o, k),
         NEW table, Shape(table, h, o, n, k),
         TryToReplace(n, table, AtHub(h, o, k), Coords(h))
  PROVE  Enters(h, o, n, k)
<1> DEFINE dead == AtHub(h, o, k)
           b == FindBestCandidate(table, dead)
           t == CalcTimeToWaitForReplacement(Coords(h), GetCoords(table, b))
<1>1. EntryOf(table.links, dead).links # NoLinks
  <2>1. EntryOf(table.links, dead) = table.links[Len(table.links)]
    BY ShapeLast, LastFound
  <2>2. table.links[Len(table.links)].links \in Seq(Candidate)
    BY DEF Shape
  <2> QED
    BY <2>1, <2>2, NoLinksAssumption
<1>2. b = o[k + 1]
  BY ShapeBest
<1>3. t = Drive(h, o[k + 1])
  BY <1>2, ShapeCoords DEF Drive
<1>4. /\ failed' = [failed EXCEPT ![n] = dead]
      /\ coordsFailing' = [coordsFailing EXCEPT ![n] = Coords(h)]
      /\ best' = [best EXCEPT ![n] = b]
      /\ status' = [status EXCEPT ![n] = IF b = n THEN "moving" ELSE "waiting"]
      /\ timer' = [timer EXCEPT ![n] = IF b = n THEN t ELSE 2 * t]
      /\ lst_recovery' = [lst_recovery EXCEPT ![n] = {}]
  <2>1. Round(n, table, dead, Coords(h), b)
    BY <1>1, Rounds
  <2> QED
    BY <2>1, Zenon DEF Round
<1> HIDE DEF t, b
<1>5. (IF b = n THEN t ELSE 2 * t) = RoundTime(h, o, n, k)
  BY <1>2, <1>3 DEF RoundTime
<1>6. (IF b = n THEN "moving" ELSE "waiting") = (IF n = o[k + 1] THEN "moving" ELSE "waiting")
  BY <1>2
<1> QED
  BY <1>2, <1>4, <1>5, <1>6 DEF Enters

\* A drive outlasts what the notices of that many deaths can differ by.
LEMMA DriveExceeds ==
  ASSUME NEW h, NEW o, NEW st, Known(h, o, st), LongDrives(h, o),
         NEW k \in Nat, k + 1 \in 1 .. Len(o), DeadUpTo(h, o, k)
  PROVE  /\ k * Skew \in Nat /\ (k + 1) * Skew = k * Skew + Skew
         /\ (k + 1) * Skew < Drive(h, o[k + 1])
<1> DEFINE f == [i \in 0 .. k |-> AtHub(h, o, i)]
<1>1. /\ Files(h, o) /\ Len(o) \in Nat /\ DOMAIN o = 1 .. Len(o)
      /\ \A i \in 1 .. Len(o) : o[i] \in Node /\ o[i] # h
      /\ \A i, j \in 1 .. Len(o) : o[i] = o[j] => i = j
  BY OrderOnce DEF Known
<1>2. \A i \in 0 .. k : i = 0 \/ i \in 1 .. Len(o)
  BY <1>1
<1>3. f \in Injection(0 .. k, Node \ alive)
  <2>1. \A i \in 0 .. k : AtHub(h, o, i) \in Node \ alive
    BY <1>1, <1>2 DEF AtHub, DeadUpTo, Files
  <2>2. \A i, j \in 0 .. k : AtHub(h, o, i) = AtHub(h, o, j) => i = j
    BY <1>1, <1>2 DEF AtHub
  <2> QED
    BY <2>1, <2>2 DEF Injection, IsInjective
<1>4. IsFiniteSet(Node \ alive) /\ Cardinality(Node \ alive) <= MaxCrashes
  BY DEF Known, Chase
<1>5. Cardinality(0 .. k) <= Cardinality(Node \ alive)
  BY <1>3, <1>4, FS_Injection
<1>6. Cardinality(0 .. k) = k + 1
  BY FS_Interval
<1>7. Cardinality(Node \ alive) \in Nat /\ Skew \in Nat /\ MaxCrashes \in Nat
  BY <1>4, FS_CardinalityType, BoundsAssumption
<1>8. k + 1 <= MaxCrashes
  BY <1>4, <1>5, <1>6, <1>7
<1>9. k * Skew \in Nat /\ (k + 1) * Skew = k * Skew + Skew
  BY <1>7
<1>10. Drive(h, o[k + 1]) > (k + 1) * Skew
  BY <1>1, <1>8 DEF LongDrives
<1>11. Drive(h, o[k + 1]) \in Nat
  <2>1. \A m \in Node : Coords(m) \in Int \X Int
    BY ConfigAssumption DEF Coords, Table
  <2> QED
    BY <1>1, <2>1, TimeType DEF Files, Drive
<1> QED
  BY <1>7, <1>9, <1>10, <1>11

\* When a round of n is over, everybody else is in it too, or is ahead of n
\* if that has waited; and nobody is under way any more that n has waited for.
LEMMA RoundOver ==
  ASSUME NEW h, NEW o, NEW st, Known(h, o, st), LongDrives(h, o),
         NEW n, Waits(o, n), status[n] # "idle", timer[n] = 0,
         NEW m, Waits(o, m), n # m
  PROVE  \/ /\ st[m] = st[n] /\ status[m] = IF m = o[st[n] + 1] THEN "moving" ELSE "waiting"
            /\ ~(status[n] = "waiting" /\ m = o[st[n] + 1])
         \/ st[m] = st[n] + 1 /\ status[n] = "waiting"
<1> DEFINE k == st[n]
           j == st[m]
           room == k * Skew
           t == Drive(h, o[k + 1])
<1>1. /\ n \in Range(o) /\ n \in Node /\ m \in Range(o) /\ m \in Node
      /\ k \in Nat /\ Home(h, o, n, k) /\ k + 1 \in 1 .. Len(o)
      /\ j \in Nat /\ Home(h, o, m, j) /\ t \in Nat
      /\ timer[m] \in Nat /\ late[m] \in 0 .. Skew /\ Age(h, o, m, j) \in Nat
  BY AtHome DEF Waits
<1>2. /\ InStep(h, o, n, k, m, j) /\ InStep(h, o, m, j, n, k)
  BY <1>1 DEF Known, Chase
<1>3. Pursues(h, o, n, k)
  BY <1>1 DEF Home
<1>4. /\ room \in Nat /\ (k + 1) * Skew = room + Skew /\ room + Skew < t /\ Skew \in Nat
  <2>1. DeadUpTo(h, o, k)
    BY <1>3 DEF Pursues
  <2>2. Skew \in Nat
    BY BoundsAssumption
  <2>3. /\ k * Skew \in Nat /\ (k + 1) * Skew = k * Skew + Skew
        /\ (k + 1) * Skew < Drive(h, o[k + 1])
    BY <1>1, <2>1, DriveExceeds
  <2> QED
    BY <2>2, <2>3
<1> HIDE DEF room
<1>5. Age(h, o, n, k) = RoundTime(h, o, n, k)
  <2>1. RoundTime(h, o, n, k) \in Nat
    BY <1>1, AtHome DEF Waits
  <2> QED
    BY <2>1 DEF Age
<1>6. RoundTime(h, o, n, k) = IF status[n] = "waiting" THEN 2 * t ELSE t
  BY <1>3 DEF RoundTime, Pursues
<1> HIDE DEF k, t
<1>7. CASE j = k
  <2>1. Age(h, o, n, k) <= Age(h, o, m, j) + (IF status[m] = "idle" THEN k ELSE k + 1) * Skew
    BY <1>2, <1>7 DEF InStep
  <2>2. status[m] # "idle"
    <3> SUFFICES ASSUME status[m] = "idle" PROVE FALSE
      OBVIOUS
    <3>1. Age(h, o, m, j) = late[m]
      BY DEF Age
    <3>2. Age(h, o, n, k) <= late[m] + room
      BY <2>1, <3>1 DEF room
    <3>3. late[m] \in Nat /\ late[m] <= Skew
      BY <1>1, <1>4
    <3>4. Age(h, o, n, k) < t
      BY <1>1, <1>4, <3>2, <3>3, <1>5, <1>6
    <3>5. Age(h, o, n, k) = t \/ Age(h, o, n, k) = 2 * t
      BY <1>5, <1>6
    <3> QED
      BY <1>1, <3>4, <3>5
  <2>3. Pursues(h, o, m, k)
    BY <1>1, <1>7, <2>2 DEF Home
  <2>4. status[m] = IF m = o[k + 1] THEN "moving" ELSE "waiting"
    BY <2>3 DEF Pursues
  <2>5. ASSUME status[n] = "waiting", m = o[k + 1] PROVE FALSE
    <3>1. Age(h, o, m, j) = t - timer[m]
      BY <1>7, <2>2, <2>5 DEF Age, RoundTime, t
    <3>2. Age(h, o, n, k) <= (t - timer[m]) + (room + Skew)
      BY <1>4, <2>1, <2>2, <3>1
    <3> QED
      BY <1>1, <1>4, <1>5, <1>6, <2>5, <3>2
  <2> QED
    BY <1>7, <2>4, <2>5 DEF k
<1>8. CASE j < k
  <2>1. Age(h, o, n, k) + timer[m] <= room
    BY <1>2, <1>8 DEF InStep, room
  <2> QED
    BY <1>1, <1>4, <1>5, <1>6, <2>1
<1>9. CASE k < j
  <2>1. j = k + 1 /\ status[n] = "waiting"
    BY <1>2, <1>9 DEF InStep
  <2> QED
    BY <2>1 DEF k
<1>10. j = k \/ j < k \/ k < j
  BY <1>1
<1> QED
  BY <1>7, <1>8, <1>9, <1>10

\* Who has waited in vain has waited for somebody dead.
LEMMA InVain ==
  ASSUME NEW h, NEW o, NEW st, Known(h, o, st), LongDrives(h, o),
         NEW n, Waits(o, n), status[n] = "waiting", timer[n] = 0,
         ~IsRecoveredMSGReceived(n)
  PROVE  o[st[n] + 1] \notin alive /\ ~Moved(o[st[n] + 1])
<1> DEFINE k == st[n]
           b == o[k + 1]
<1>1. /\ n \in Node /\ k \in Nat /\ Home(h, o, n, k) /\ k + 1 \in 1 .. Len(o) /\ b \in Node
  BY AtHome DEF Waits
<1>2. Pursues(h, o, n, k)
  BY <1>1 DEF Home
<1>3. failed[n] = AtHub(h, o, k) /\ best[n] = b /\ n # b
  BY <1>2 DEF Pursues
<1>4. b \in Range(o) /\ k + 1 \in DOMAIN o
  BY <1>1, OrderOnce DEF Known, Range
<1>5. ~Moved(b)
  <2> SUFFICES ASSUME Moved(b) PROVE FALSE
    OBVIOUS
  <2>1. Gone(h, o, st, k + 1)
    BY <1>4 DEF Known, Chase
  <2>2. Heard(h, o, n, k, k + 1)
    BY <1>1, <2>1 DEF Gone
  <2>3. (k + 1) - 1 = k /\ ~(k >= k + 1)
    BY <1>1
  <2>4. [fn |-> AtHub(h, o, k), bc |-> b] \in lst_recovery[n]
    BY <2>2, <2>3 DEF Heard
  <2> QED
    BY <1>3, <2>4 DEF IsRecoveredMSGReceived
<1>6. b \notin alive
  <2> SUFFICES ASSUME b \in alive PROVE FALSE
    OBVIOUS
  <2>1. Waits(o, b)
    BY <1>4, <1>5 DEF Waits
  <2>2. st[b] = k + 1
    BY <1>3, <2>1, RoundOver
  <2>3. b \in Rest(o, k + 1)
    <3>1. Home(h, o, b, st[b])
      BY <1>4, <1>5, AtHome
    <3> QED
      BY <2>2, <3>1 DEF Home
  <2>4. b \notin Rest(o, k + 1)
    BY <1>1, RestStep DEF Known, Home
  <2> QED
    BY <2>3, <2>4
<1> QED
  BY <1>5, <1>6

-----------------------------------------------------------------------------
\* What a step leaves alone.
LEMMA HomeKept ==
  ASSUME NEW h, NEW o, NEW m, NEW k, Home(h, o, m, k), alive' \subseteq alive,
         twoHopTable'[m] = twoHopTable[m], status'[m] = status[m], failed'[m] = failed[m],
         best'[m] = best[m], coordsFailing'[m] = coordsFailing[m],
         status[m] = "idle" \/ late'[m] = late[m],
         timer'[m] = timer[m] \/ timer'[m] <= RoundTime(h, o, m, k),
         position'[AtHub(h, o, k)] = position[AtHub(h, o, k)]
  PROVE  Home(h, o, m, k)'
<1>1. \A i : DeadUpTo(h, o, i) => DeadUpTo(h, o, i)'
  BY DEF DeadUpTo
<1>2. m \in Rest(o, k) /\ Shape(twoHopTable'[m], h, o, m, k)
  BY DEF Home
<1>3. CASE status[m] = "idle"
  BY <1>1, <1>2, <1>3 DEF Home
<1>4. CASE status[m] # "idle"
  <2>1. Pursues(h, o, m, k)
    BY <1>4 DEF Home
  <2>2. Pursues(h, o, m, k)'
    <3>1. RoundTime(h, o, m, k)' = RoundTime(h, o, m, k)
      BY DEF RoundTime
    <3> QED
      BY <1>1, <1>4, <2>1, <3>1 DEF Pursues
  <2> QED
    BY <1>2, <1>4, <2>2 DEF Home
<1> QED
  BY <1>3, <1>4

LEMMA GoneKept ==
  ASSUME NEW h, NEW o, NEW st, NEW new, NEW i, Gone(h, o, st, i), alive' \subseteq alive,
         position'[o[i]] = position[o[i]], status'[o[i]] = status[o[i]],
         twoHopTable'[o[i]] = twoHopTable[o[i]],
         \A m \in Node : Waits(o, m)' =>
           Waits(o, m) /\ (Heard(h, o, m, st[m], i) => Heard(h, o, m, new[m], i)')
  PROVE  Gone(h, o, new, i)'
<1>1. DeadUpTo(h, o, i - 1) => DeadUpTo(h, o, i - 1)'
  BY DEF DeadUpTo
<1>2. \A m \in Node : Waits(o, m)' => Heard(h, o, m, new[m], i)'
  BY DEF Gone
<1> QED
  BY <1>1, <1>2 DEF Gone

LEMMA AgeKept ==
  ASSUME NEW h, NEW o, NEW n, NEW k,
         status'[n] = status[n], timer'[n] = timer[n], late'[n] = late[n]
  PROVE  Age(h, o, n, k)' = Age(h, o, n, k)
BY DEF Age

LEMMA InStepKept ==
  ASSUME NEW h, NEW o, NEW n, NEW k, NEW m, NEW j, InStep(h, o, n, k, m, j),
         status'[n] = status[n], timer'[n] = timer[n], late'[n] = late[n],
         status'[m] = status[m], timer'[m] = timer[m], late'[m] = late[m]
  PROVE  InStep(h, o, n, k, m, j)'
<1>1. Age(h, o, n, k)' = Age(h, o, n, k) /\ Age(h, o, m, j)' = Age(h, o, m, j)
  BY AgeKept
<1> QED
  BY <1>1 DEF InStep

LEMMA HeardKept ==
  ASSUME NEW h, NEW o, NEW m, NEW k, NEW i, Heard(h, o, m, k, i),
         status'[m] = status[m], lst_recovery[m] \subseteq lst_recovery'[m]
  PROVE  Heard(h, o, m, k, i)'
BY DEF Heard

\* A death takes nobody out of step.
LEMMA ChaseCrash ==
  ASSUME NEW h, NEW o, NEW st, Known(h, o, st), NEW c \in Node, Crash(c)
  PROVE  Chase(h, o, st)'
<1>1. /\ c \in alive /\ alive' = alive \ {c} /\ Cardinality(Node \ alive) < MaxCrashes
      /\ position' = position /\ twoHopTable' = twoHopTable /\ status' = status
      /\ failed' = failed /\ best' = best /\ coordsFailing' = coordsFailing
      /\ timer' = timer /\ lst_recovery' = lst_recovery /\ late' = late
  BY DEF Crash, locals
<1>2. IsFiniteSet(Node \ alive')  /\ Cardinality(Node \ alive') <= MaxCrashes
  <2>1. Node \ alive' = (Node \ alive) \cup {c} /\ c \notin Node \ alive
    BY <1>1
  <2>2. IsFiniteSet(Node \ alive)
    BY DEF Known, Chase
  <2>3. /\ IsFiniteSet((Node \ alive) \cup {c})
        /\ Cardinality((Node \ alive) \cup {c}) = Cardinality(Node \ alive) + 1
    BY <2>1, <2>2, FS_AddElement
  <2>4. Cardinality(Node \ alive) \in Nat /\ MaxCrashes \in Nat
    BY <2>2, FS_CardinalityType, BoundsAssumption
  <2>5. Cardinality(Node \ alive') = Cardinality(Node \ alive) + 1
    BY <2>1, <2>3
  <2> QED
    BY <1>1, <2>1, <2>3, <2>4, <2>5
<1>3. \A n : Waits(o, n)' => Waits(o, n)
  BY <1>1 DEF Waits, Moved
<1>4. \A n \in Node \ Range(o) : Elsewhere(n)'
  BY <1>1 DEF Known, Chase, Elsewhere
<1>5. ASSUME NEW n \in Range(o), ~Moved(n)' PROVE Home(h, o, n, st[n])'
  <2>1. ~Moved(n)
    BY <1>1, <1>5 DEF Moved
  <2>2. Home(h, o, n, st[n])
    BY <2>1 DEF Known, Chase
  <2> QED
    BY <1>1, <2>2, HomeKept
<1>6. ASSUME NEW i \in DOMAIN o, Moved(o[i])' PROVE Gone(h, o, st, i)'
  <2>1. Gone(h, o, st, i)
    BY <1>1, <1>6 DEF Known, Chase, Moved
  <2>2. \A m : Heard(h, o, m, st[m], i) => Heard(h, o, m, st[m], i)'
    BY <1>1 DEF Heard
  <2> QED
    BY <1>1, <1>3, <2>1, <2>2, GoneKept
<1>7. ASSUME NEW n \in Node, NEW m \in Node, Waits(o, n)', Waits(o, m)', n # m
      PROVE  InStep(h, o, n, st[n], m, st[m])'
  <2>1. InStep(h, o, n, st[n], m, st[m])
    BY <1>3, <1>7 DEF Known, Chase
  <2> QED
    BY <1>1, <2>1, InStepKept
<1> QED
  BY <1>2, <1>4, <1>5, <1>6, <1>7 DEF Chase

\* Who notices a death has not been left behind, and leaves nobody behind.
LEMMA ChaseDetect ==
  ASSUME NEW h, NEW o, NEW st, Known(h, o, st), LongDrives(h, o),
         NEW n \in Node, NEW l \in Node, Detect(n, l)
  PROVE  Chase(h, o, st)'
<1> DEFINE k == st[n]
<1>1. /\ n \in alive /\ status[n] = "idle" /\ l \in DeadCutVertices(n)
      /\ TryToReplace(n, twoHopTable[n], l, EntryOf(twoHopTable[n].links, l).coords)
      /\ late' = [late EXCEPT ![n] = 0]
      /\ alive' = alive /\ position' = position /\ twoHopTable' = twoHopTable
  BY Starts DEF Detect
<1>2. n \in Range(o) /\ ~Moved(n)
  BY <1>1, OthersRest
<1>3. /\ k \in Nat /\ Home(h, o, n, k) /\ n \in Rest(o, k) /\ Shape(twoHopTable[n], h, o, n, k)
      /\ RoundTime(h, o, n, k) \in Nat /\ late[n] \in 0 .. Skew
      /\ position[AtHub(h, o, k)] = Coords(h) /\ DeadUpTo(h, o, k - 1)
      /\ k + 1 \in 1 .. Len(o)
  BY <1>1, <1>2, AtHome DEF Home
<1>4. l = AtHub(h, o, k) /\ l \notin alive /\ Configs[h].numLinks - k > 2
  BY <1>1, <1>2, HomeNotices
<1>5. EntryOf(twoHopTable[n].links, l).coords = Coords(h)
  <2>1. EntryOf(twoHopTable[n].links, l) = twoHopTable[n].links[Len(twoHopTable[n].links)]
    BY <1>3, <1>4, ShapeLast, LastFound DEF Known
  <2> QED
    BY <1>3, <2>1 DEF Shape
<1>6. Enters(h, o, n, k)
  BY <1>1, <1>3, <1>4, <1>5, EntersRound DEF Known
<1>7. /\ failed'[n] = AtHub(h, o, k) /\ best'[n] = o[k + 1] /\ coordsFailing'[n] = Coords(h)
      /\ status'[n] = (IF n = o[k + 1] THEN "moving" ELSE "waiting")
      /\ timer'[n] = RoundTime(h, o, n, k) /\ late'[n] = 0
      /\ \A m \in Node \ {n} :
           /\ failed'[m] = failed[m] /\ best'[m] = best[m] /\ coordsFailing'[m] = coordsFailing[m]
           /\ status'[m] = status[m] /\ timer'[m] = timer[m] /\ late'[m] = late[m]
           /\ lst_recovery'[m] = lst_recovery[m]
  BY <1>1, <1>6 DEF Enters, Known, TypeInv, TypeOK
<1>8. DeadUpTo(h, o, k)
  <2>1. \A i \in 0 .. k : i = k \/ i \in 0 .. k - 1
    BY <1>3
  <2> QED
    BY <1>3, <1>4, <2>1 DEF DeadUpTo
<1> HIDE DEF k
<1>9. Home(h, o, n, k)'
  <2>1. DeadUpTo(h, o, k)'
    BY <1>1, <1>8 DEF DeadUpTo
  <2>2. Pursues(h, o, n, k)'
    <3>1. RoundTime(h, o, n, k)' = RoundTime(h, o, n, k)
      BY DEF RoundTime
    <3> QED
      BY <1>1, <1>3, <1>4, <1>7, <2>1, <3>1 DEF Pursues
  <2>3. status'[n] # "idle"
    BY <1>7
  <2> QED
    BY <1>1, <1>3, <2>2, <2>3 DEF Home
<1>10. \A m \in Range(o) : m \in Node
  BY OrderOnce DEF Known, Range
<1>11. \A m \in Range(o) : ~Moved(m)' => Home(h, o, m, st[m])'
  <2> SUFFICES ASSUME NEW m \in Range(o), ~Moved(m)' PROVE Home(h, o, m, st[m])'
    OBVIOUS
  <2>1. CASE m = n
    BY <1>9, <2>1 DEF k
  <2>2. CASE m # n
    <3>1. Home(h, o, m, st[m])
      BY <1>1 DEF Known, Chase, Moved
    <3> QED
      BY <1>1, <1>7, <1>10, <2>2, <3>1, HomeKept
  <2> QED
    BY <2>1, <2>2
<1>12. \A i \in DOMAIN o : Moved(o[i])' => Gone(h, o, st, i)'
  <2> SUFFICES ASSUME NEW i \in DOMAIN o, Moved(o[i])' PROVE Gone(h, o, st, i)'
    OBVIOUS
  <2>1. Moved(o[i]) /\ Gone(h, o, st, i)
    BY <1>1 DEF Known, Chase, Moved
  <2>2. o[i] \in Node \ {n}
    BY <1>2, <1>10, <2>1 DEF Range
  <2>3. ASSUME NEW m \in Node, Waits(o, m)'
        PROVE  Waits(o, m) /\ (Heard(h, o, m, st[m], i) => Heard(h, o, m, st[m], i)')
    <3>1. Waits(o, m)
      BY <1>1, <2>3 DEF Waits, Moved
    <3>2. CASE m = n
      BY <1>1, <3>1, <3>2 DEF Heard
    <3>3. CASE m # n
      BY <1>7, <3>1, <3>3 DEF Heard
    <3> QED
      BY <3>2, <3>3
  <2> QED
    BY <1>1, <1>7, <2>1, <2>2, <2>3, GoneKept
<1>13. ASSUME NEW a \in Node, NEW b \in Node, Waits(o, a)', Waits(o, b)', a # b
       PROVE  InStep(h, o, a, st[a], b, st[b])'
  <2>1. Waits(o, a) /\ Waits(o, b)
    BY <1>1, <1>13 DEF Waits, Moved
  <2>2. InStep(h, o, a, st[a], b, st[b])
    BY <1>13, <2>1 DEF Known, Chase
  <2>3. /\ st[a] \in Nat /\ st[b] \in Nat /\ Skew \in Nat
        /\ Age(h, o, a, st[a]) \in Nat /\ Age(h, o, b, st[b]) \in Nat
        /\ timer[b] \in Nat /\ late[n] \in Nat /\ late[n] <= Skew
    BY <1>3, <2>1, AtHome, BoundsAssumption DEF Waits
  <2>4. k * Skew \in Nat /\ (k + 1) * Skew = k * Skew + Skew
    BY <1>3, <1>8, DriveExceeds
  <2> DEFINE room == k * Skew
             more == (k + 1) * Skew
  <2>5. Age(h, o, n, k)' = 0 /\ Age(h, o, n, k) = late[n]
    BY <1>1, <1>3, <1>7 DEF Age
  <2>6. CASE a = n
    <3>1. /\ Age(h, o, b, st[b])' = Age(h, o, b, st[b])
          /\ status'[b] = status[b] /\ timer'[b] = timer[b]
      BY <1>7, <1>13, <2>6, AgeKept
    <3>2. 0 <= Age(h, o, b, st[b]) + (IF status[b] = "idle" THEN room ELSE more)
      BY <2>3, <2>4
    <3>3. ASSUME st[b] < k
          PROVE  k = st[b] + 1 /\ status[b] = "waiting" /\ timer[b] <= room
      <4>1. /\ k = st[b] + 1 /\ status[b] = "waiting" /\ late[n] + timer[b] <= room
        BY <2>2, <2>5, <2>6, <3>3 DEF InStep, k
      <4> QED
        BY <2>3, <2>4, <4>1
    <3>4. 0 + timer[b] = timer[b]
      BY <2>3
    <3> QED
      BY <2>5, <2>6, <3>1, <3>2, <3>3, <3>4 DEF InStep, k
  <2>7. CASE b = n
    <3>1. Age(h, o, a, st[a])' = Age(h, o, a, st[a]) /\ status'[a] = status[a]
      BY <1>7, <1>13, <2>7, AgeKept
    <3>2. ~(k < st[a])
      BY <1>1, <2>2, <2>7 DEF InStep, k
    <3>3. ASSUME st[a] = k, status[a] # "idle" PROVE Age(h, o, a, st[a]) <= 0 + more
      <4>1. Age(h, o, a, st[a]) <= late[n] + room
        BY <1>1, <2>2, <2>5, <2>7, <3>3 DEF InStep, k
      <4> QED
        BY <2>3, <2>4, <4>1
    <3>4. status'[n] # "idle"
      BY <1>7
    <3> QED
      BY <2>5, <2>7, <3>1, <3>2, <3>3, <3>4 DEF InStep, k
  <2>8. CASE a # n /\ b # n
    BY <1>7, <1>13, <2>2, <2>8, InStepKept
  <2> QED
    BY <2>6, <2>7, <2>8
<1>14. IsFiniteSet(Node \ alive') /\ Cardinality(Node \ alive') <= MaxCrashes
  BY <1>1 DEF Known, Chase
<1>15. \A m \in Node \ Range(o) : Elsewhere(m)'
  BY <1>1, <1>2, <1>7 DEF Known, Chase, Elsewhere
<1> QED
  BY <1>11, <1>12, <1>13, <1>14, <1>15 DEF Chase

\* Time passes for all in a round alike, and for those that are to begin one.
LEMMA ChaseTick ==
  ASSUME NEW h, NEW o, NEW st, Known(h, o, st), Tick
  PROVE  Chase(h, o, st)'
<1>1. /\ timer' = [n \in Node |-> IF Busy(n) THEN timer[n] - 1 ELSE timer[n]]
      /\ late' = [n \in Node |-> IF Overdue(n) THEN late[n] + 1 ELSE late[n]]
      /\ alive' = alive /\ position' = position /\ twoHopTable' = twoHopTable
      /\ status' = status /\ failed' = failed /\ best' = best
      /\ coordsFailing' = coordsFailing /\ lst_recovery' = lst_recovery
  BY DEF Tick, locals
<1>2. \A n \in Node : /\ timer'[n] = IF Busy(n) THEN timer[n] - 1 ELSE timer[n]
                      /\ late'[n] = IF Overdue(n) THEN late[n] + 1 ELSE late[n]
  BY <1>1
<1>3. \A m \in Range(o) : m \in Node
  BY OrderOnce DEF Known, Range
<1>4. ASSUME NEW n \in Range(o), ~Moved(n)' PROVE Home(h, o, n, st[n])'
  <2>1. ~Moved(n)
    BY <1>1, <1>4 DEF Moved
  <2>2. Home(h, o, n, st[n]) /\ timer[n] \in Nat /\ RoundTime(h, o, n, st[n]) \in Nat
    BY <2>1, AtHome
  <2>3. status[n] = "idle" \/ late'[n] = late[n]
    BY <1>2, <1>3 DEF Overdue
  <2>4. timer'[n] = timer[n] \/ timer'[n] <= RoundTime(h, o, n, st[n])
    <3>1. CASE Busy(n)
      <4>1. timer[n] <= RoundTime(h, o, n, st[n])
        BY <2>2, <3>1 DEF Busy, Home, Pursues
      <4>2. timer'[n] = timer[n] - 1
        BY <1>2, <1>3, <3>1
      <4> QED
        BY <2>2, <4>1, <4>2
    <3>2. CASE ~Busy(n)
      BY <1>2, <1>3, <3>2
    <3> QED
      BY <3>1, <3>2
  <2> QED
    BY <1>1, <2>2, <2>3, <2>4, HomeKept
<1>5. \A m : Waits(o, m)' => Waits(o, m)
  BY <1>1 DEF Waits, Moved
<1>6. ASSUME NEW i \in DOMAIN o, Moved(o[i])' PROVE Gone(h, o, st, i)'
  <2>1. Gone(h, o, st, i)
    BY <1>1, <1>6 DEF Known, Chase, Moved
  <2>2. \A m : Heard(h, o, m, st[m], i) => Heard(h, o, m, st[m], i)'
    BY <1>1 DEF Heard
  <2> QED
    BY <1>1, <1>5, <2>1, <2>2, GoneKept
<1>7. ASSUME NEW n, Waits(o, n)
      PROVE  /\ n \in Node /\ Age(h, o, n, st[n]) \in Nat /\ timer[n] \in Nat
             /\ status[n] # "idle" => /\ Age(h, o, n, st[n])' = Age(h, o, n, st[n]) + 1
                                      /\ timer'[n] = timer[n] - 1
             /\ status[n] = "idle" =>
                  /\ Overdue(n) => Age(h, o, n, st[n])' = Age(h, o, n, st[n]) + 1
                  /\ ~Overdue(n) => Age(h, o, n, st[n])' = Age(h, o, n, st[n])
  <2>1. /\ n \in Node /\ Home(h, o, n, st[n]) /\ Age(h, o, n, st[n]) \in Nat
        /\ timer[n] \in Nat /\ RoundTime(h, o, n, st[n]) \in Nat
    BY <1>7, AtHome DEF Waits
  <2>2. CASE status[n] = "idle"
    BY <1>1, <1>2, <2>1, <2>2 DEF Age
  <2>3. CASE status[n] # "idle"
    <3>1. Busy(n)
      BY <1>7, <2>1, <2>3 DEF Home, Pursues, Busy, Waits
    <3>2. timer'[n] = timer[n] - 1
      BY <1>2, <2>1, <3>1
    <3>3. RoundTime(h, o, n, st[n])' = RoundTime(h, o, n, st[n])
      BY DEF RoundTime
    <3> QED
      BY <1>1, <2>1, <2>3, <3>2, <3>3 DEF Age
  <2> QED
    BY <2>1, <2>2, <2>3
<1>8. ASSUME NEW a \in Node, NEW b \in Node, Waits(o, a), Waits(o, b), a # b,
             st[a] = st[b], status[a] # "idle", status[b] = "idle"
      PROVE  Overdue(b)
  <2> DEFINE k == st[a]
             hub == AtHub(h, o, k)
  <2>1. Pursues(h, o, a, k) /\ k \in Nat
    BY <1>8, AtHome DEF Waits, Home
  <2>2. position[AtHub(h, o, st[b])] = Coords(h)
    BY <1>8, AtHome DEF Waits, Home
  <2>3. hub \notin alive /\ Configs[h].numLinks - k > 2
    <3>1. k \in 0 .. k
      BY <2>1
    <3> QED
      BY <1>8, <2>1, <2>2, <3>1 DEF Pursues, DeadUpTo
  <2>4. hub \in DeadCutVertices(b)
    BY <1>8, <2>3, HomeNotices DEF Waits
  <2> QED
    BY <1>8, <2>4 DEF Overdue, Waits
<1>9. ASSUME NEW a \in Node, NEW b \in Node, Waits(o, a)', Waits(o, b)', a # b
      PROVE  InStep(h, o, a, st[a], b, st[b])'
  <2> DEFINE k == st[a]
             j == st[b]
             ages == Age(h, o, a, k)
             others == Age(h, o, b, j)
             room == k * Skew
             more == (k + 1) * Skew
  <2>1. Waits(o, a) /\ Waits(o, b)
    BY <1>5, <1>9
  <2>2. InStep(h, o, a, k, b, j)
    BY <1>9, <2>1 DEF Known, Chase
  <2>3. /\ k \in Nat /\ j \in Nat /\ ages \in Nat /\ others \in Nat /\ timer[b] \in Nat
        /\ room \in Int /\ more \in Int
    <3>1. k \in Nat /\ j \in Nat
      BY <2>1, AtHome DEF Waits
    <3> QED
      BY <1>7, <2>1, <3>1, BoundsAssumption
  <2>4. ASSUME k = j, status'[a] # "idle"
        PROVE  ages' <= others' + (IF status'[b] = "idle" THEN room ELSE more)
    <3>1. status'[a] = status[a] /\ status'[b] = status[b]
      BY <1>1
    <3>2. ages' = ages + 1
      BY <1>7, <2>1, <2>4, <3>1
    <3>3. others' = others + 1
      BY <1>7, <1>8, <1>9, <2>1, <2>4, <3>1
    <3> DEFINE allowed == IF status[b] = "idle" THEN room ELSE more
    <3>4. ages <= others + allowed
      BY <2>2, <2>4, <3>1 DEF InStep
    <3>5. allowed \in Int
      BY <2>3
    <3>6. allowed = IF status'[b] = "idle" THEN room ELSE more
      BY <3>1
    <3> HIDE DEF ages, others, allowed
    <3>7. ages' <= others' + allowed
      BY <2>3, <3>2, <3>3, <3>4, <3>5
    <3> QED
      BY <3>6, <3>7
  <2>5. ASSUME j < k
        PROVE  k = j + 1 /\ status'[b] = "waiting" /\ ages' + timer'[b] <= room
    <3>1. k = j + 1 /\ status[b] = "waiting" /\ ages + timer[b] <= room
      BY <2>2, <2>5 DEF InStep
    <3>2. timer'[b] = timer[b] - 1 /\ status'[b] = status[b]
      BY <1>1, <1>7, <2>1, <3>1
    <3>3. ages' = ages + 1 \/ ages' = ages
      BY <1>7, <2>1
    <3> HIDE DEF ages, room
    <3> QED
      BY <2>3, <3>1, <3>2, <3>3
  <2> QED
    BY <2>4, <2>5 DEF InStep
<1>10. IsFiniteSet(Node \ alive') /\ Cardinality(Node \ alive') <= MaxCrashes
  BY <1>1 DEF Known, Chase
<1>11. \A m \in Node \ Range(o) : Elsewhere(m)'
  BY <1>1 DEF Known, Chase, Elsewhere
<1> QED
  BY <1>4, <1>6, <1>9, <1>10, <1>11 DEF Chase

\* Who has waited goes on to the next round, or out of the loop.
LEMMA WaitEnds ==
  ASSUME NEW h, NEW o, NEW st, Known(h, o, st), LongDrives(h, o),
         NEW n \in Node, EndWait(n)
  PROVE  LET k == st[n] IN
         /\ Waits(o, n) /\ status[n] = "waiting" /\ timer[n] = 0 /\ Pursues(h, o, n, k)
         /\ n \in Rest(o, k + 1) /\ Shape(twoHopTable'[n], h, o, n, k + 1)
         /\ alive' = alive /\ position' = position /\ late' = late
         /\ \A m \in Node \ {n} : twoHopTable'[m] = twoHopTable[m]
         /\ \/ /\ IsRecoveredMSGReceived(n)
               /\ status' = [status EXCEPT ![n] = "idle"]
               /\ failed' = failed /\ best' = best /\ coordsFailing' = coordsFailing
               /\ timer' = timer /\ lst_recovery' = lst_recovery
            \/ ~IsRecoveredMSGReceived(n) /\ Enters(h, o, n, k + 1)
<1> DEFINE k == st[n]
           new == UpdateTwoHopTable(twoHopTable[n], failed[n], best[n])
<1>1. /\ n \in alive /\ status[n] = "waiting" /\ timer[n] = 0
      /\ alive' = alive /\ position' = position /\ late' = late
  BY Zenon DEF EndWait
<1>2. n \in Range(o) /\ ~Moved(n)
  BY <1>1, OthersRest
<1>3. Waits(o, n)
  BY <1>1, <1>2 DEF Waits
<1>4. /\ k \in Nat /\ Home(h, o, n, k) /\ n \in Rest(o, k) /\ Shape(twoHopTable[n], h, o, n, k)
  BY <1>2, AtHome DEF Home
<1>5. Pursues(h, o, n, k)
  BY <1>1, <1>4 DEF Home
<1>6. /\ failed[n] = AtHub(h, o, k) /\ best[n] = o[k + 1] /\ coordsFailing[n] = Coords(h)
      /\ n # o[k + 1]
  BY <1>1, <1>5 DEF Pursues
<1>7. CanUpdate(twoHopTable[n], failed[n], best[n])
  <2>1. h \in Node /\ TypeInv /\ HubInv(h) /\ LastInv(h)
    BY DEF Known, Files
  <2> QED
    BY <1>1, <2>1, CanRename
<1>8. Files(h, o)
  BY DEF Known
<1>9. Shape(new, h, o, n, k + 1) /\ n \in Rest(o, k + 1)
  BY <1>4, <1>6, <1>7, <1>8, ShapeUpdate
<1>10. twoHopTable' = [twoHopTable EXCEPT ![n] = new]
  BY <1>7 DEF EndWait
<1>11. \/ /\ IsRecoveredMSGReceived(n)
          /\ status' = [status EXCEPT ![n] = "idle"]
          /\ failed' = failed /\ best' = best /\ coordsFailing' = coordsFailing
          /\ timer' = timer /\ lst_recovery' = lst_recovery
       \/ ~IsRecoveredMSGReceived(n) /\ TryToReplace(n, twoHopTable'[n], best[n], coordsFailing[n])
  BY <1>7, Zenon DEF EndWait, locals
<1> HIDE DEF new
<1>12. twoHopTable'[n] = new /\ \A m \in Node \ {n} : twoHopTable'[m] = twoHopTable[m]
  BY <1>10 DEF Known, TypeInv, TypeOK
<1>13. ASSUME TryToReplace(n, twoHopTable'[n], best[n], coordsFailing[n])
       PROVE  Enters(h, o, n, k + 1)
  <2>1. AtHub(h, o, k + 1) = best[n]
    BY <1>4, <1>6 DEF AtHub
  <2>2. TryToReplace(n, new, AtHub(h, o, k + 1), Coords(h))
    BY <1>6, <1>12, <1>13, <2>1
  <2>3. k + 1 \in Nat
    BY <1>4
  <2> QED
    BY <1>8, <1>9, <2>2, <2>3, EntersRound
<1> QED
  BY <1>1, <1>3, <1>5, <1>9, <1>11, <1>12, <1>13

LEMMA ChaseEndWait ==
  ASSUME NEW h, NEW o, NEW st, Known(h, o, st), LongDrives(h, o),
         NEW n \in Node, EndWait(n)
  PROVE  Chase(h, o, [st EXCEPT ![n] = st[n] + 1])'
<1> DEFINE k == st[n]
           new == [st EXCEPT ![n] = st[n] + 1]
<1>1. /\ Waits(o, n) /\ status[n] = "waiting" /\ timer[n] = 0 /\ Pursues(h, o, n, k)
      /\ n \in Rest(o, k + 1) /\ Shape(twoHopTable'[n], h, o, n, k + 1)
      /\ alive' = alive /\ position' = position /\ late' = late
      /\ \A m \in Node \ {n} : twoHopTable'[m] = twoHopTable[m]
  BY WaitEnds
<1>2. \/ /\ IsRecoveredMSGReceived(n)
         /\ status' = [status EXCEPT ![n] = "idle"]
         /\ failed' = failed /\ best' = best /\ coordsFailing' = coordsFailing
         /\ timer' = timer /\ lst_recovery' = lst_recovery
      \/ ~IsRecoveredMSGReceived(n) /\ Enters(h, o, n, k + 1)
  BY WaitEnds, Zenon
<1>3. /\ k \in Nat /\ Home(h, o, n, k) /\ k + 1 \in 1 .. Len(o) /\ o[k + 1] \in Node
      /\ RoundTime(h, o, n, k) \in Nat /\ Drive(h, o[k + 1]) \in Nat
      /\ n \in Range(o) /\ Files(h, o)
  BY <1>1, AtHome DEF Waits, Known
<1>4. \A m \in Node \ {n} :
           /\ failed'[m] = failed[m] /\ best'[m] = best[m] /\ coordsFailing'[m] = coordsFailing[m]
           /\ status'[m] = status[m] /\ timer'[m] = timer[m] /\ late'[m] = late[m]
           /\ lst_recovery'[m] = lst_recovery[m]
  BY <1>1, <1>2 DEF Enters, Known, TypeInv, TypeOK
<1>5. late[n] = 0 /\ DeadUpTo(h, o, k) /\ failed[n] = AtHub(h, o, k) /\ best[n] = o[k + 1]
      /\ n # o[k + 1]
  BY <1>1 DEF Pursues
<1>6. /\ new \in [Range(o) -> Nat] /\ new[n] = k + 1
      /\ \A m \in Range(o) : m # n => new[m] = st[m]
  BY <1>3 DEF Known
<1> HIDE DEF k, new
<1>7. AtHub(h, o, k + 1) = o[k + 1]
  BY <1>3 DEF AtHub
<1>8. \/ status'[n] = "idle" /\ timer'[n] = 0 /\ position[o[k + 1]] = Coords(h)
      \/ Pursues(h, o, n, k + 1)' /\ timer'[n] = RoundTime(h, o, n, k + 1)
         /\ RoundTime(h, o, n, k + 1) \in Nat /\ status'[n] # "idle"
  <2>1. CASE /\ IsRecoveredMSGReceived(n)
             /\ status' = [status EXCEPT ![n] = "idle"]
             /\ timer' = timer
    <3> DEFINE msg == [fn |-> failed[n], bc |-> best[n]]
    <3>1. msg \in lst_recovery[n] /\ msg.bc = o[k + 1]
      BY <1>5, <2>1 DEF IsRecoveredMSGReceived
    <3>2. position[msg.bc] = Coords(h)
      BY <3>1 DEF Known, HubInv
    <3>3. status'[n] = "idle" /\ timer'[n] = 0
      BY <1>1, <2>1 DEF Known, TypeInv, TypeOK
    <3> QED
      BY <3>1, <3>2, <3>3
  <2>2. CASE ~IsRecoveredMSGReceived(n) /\ Enters(h, o, n, k + 1)
    <3>1. o[k + 1] \notin alive /\ ~Moved(o[k + 1])
      BY <1>1, <2>2, InVain DEF k
    <3>2. position[o[k + 1]] # Coords(h)
      <4>1. o[k + 1] \in Range(o)
        BY <1>3, OrderOnce DEF Range
      <4> QED
        BY <1>3, <3>1, <4>1, PlacesDiffer DEF Moved
    <3>3. DeadUpTo(h, o, k + 1)'
      <4>1. \A i \in 0 .. k + 1 : i \in 0 .. k \/ i = k + 1
        BY <1>3
      <4> QED
        BY <1>1, <1>5, <1>7, <3>1, <4>1 DEF DeadUpTo
    <3>4. /\ failed'[n] = AtHub(h, o, k + 1) /\ best'[n] = o[(k + 1) + 1]
          /\ coordsFailing'[n] = Coords(h)
          /\ status'[n] = (IF n = o[(k + 1) + 1] THEN "moving" ELSE "waiting")
          /\ timer'[n] = RoundTime(h, o, n, k + 1)
      BY <2>2 DEF Enters, Known, TypeInv, TypeOK
    <3>5. RoundTime(h, o, n, k + 1) \in Nat
      <4>1. (k + 1) + 1 \in 1 .. Len(o) /\ \A i \in 1 .. Len(o) : o[i] \in Node
        BY <1>1, <1>3, RestStep, OrderOnce
      <4>2. \A m \in Node : Coords(m) \in Int \X Int
        BY ConfigAssumption DEF Coords, Table
      <4>3. Drive(h, o[(k + 1) + 1]) \in Nat
        BY <1>3, <4>1, <4>2, TimeType DEF Drive, Files
      <4> QED
        BY <4>3 DEF RoundTime
    <3>6. RoundTime(h, o, n, k + 1)' = RoundTime(h, o, n, k + 1)
      BY DEF RoundTime
    <3>7. timer'[n] <= RoundTime(h, o, n, k + 1)
      BY <3>4, <3>5
    <3>8. Pursues(h, o, n, k + 1)'
      BY <1>1, <1>5, <1>7, <3>2, <3>3, <3>4, <3>6, <3>7 DEF Pursues
    <3> QED
      BY <3>4, <3>5, <3>8
  <2> QED
    BY <1>2, <2>1, <2>2
<1>9. Home(h, o, n, k + 1)'
  <2>1. DeadUpTo(h, o, (k + 1) - 1)'
    <3>1. (k + 1) - 1 = k
      BY <1>3
    <3> QED
      BY <1>1, <1>5, <3>1 DEF DeadUpTo
  <2>2. status'[n] = "idle" => position'[AtHub(h, o, k + 1)] = Coords(h)
    BY <1>1, <1>7, <1>8
  <2>3. status'[n] # "idle" => Pursues(h, o, n, k + 1)'
    BY <1>8
  <2> QED
    BY <1>1, <2>1, <2>2, <2>3 DEF Home
<1>10. Age(h, o, n, k + 1)' = 0
  <2>1. CASE status'[n] = "idle"
    BY <1>1, <1>5, <2>1 DEF Age
  <2>2. CASE status'[n] # "idle"
    <3>1. timer'[n] = RoundTime(h, o, n, k + 1) /\ RoundTime(h, o, n, k + 1) \in Nat
      BY <1>8, <2>2
    <3>2. RoundTime(h, o, n, k + 1)' = RoundTime(h, o, n, k + 1)
      BY DEF RoundTime
    <3> QED
      BY <2>2, <3>1, <3>2 DEF Age
  <2> QED
    BY <2>1, <2>2
<1>11. \A m \in Range(o) : m \in Node
  BY <1>3, OrderOnce DEF Range
<1>12. \A m \in Range(o) : ~Moved(m)' => Home(h, o, m, new[m])'
  <2> SUFFICES ASSUME NEW m \in Range(o), ~Moved(m)' PROVE Home(h, o, m, new[m])'
    OBVIOUS
  <2>1. CASE m = n
    BY <1>6, <1>9, <2>1
  <2>2. CASE m # n
    <3>1. Home(h, o, m, st[m])
      BY <1>1 DEF Known, Chase, Moved
    <3>2. Home(h, o, m, st[m])'
      BY <1>1, <1>4, <1>11, <2>2, <3>1, HomeKept
    <3> QED
      BY <1>6, <2>2, <3>2
  <2> QED
    BY <2>1, <2>2
<1>13. \A i \in DOMAIN o : Moved(o[i])' => Gone(h, o, new, i)'
  <2> SUFFICES ASSUME NEW i \in DOMAIN o, Moved(o[i])' PROVE Gone(h, o, new, i)'
    OBVIOUS
  <2>1. Moved(o[i]) /\ Gone(h, o, st, i)
    BY <1>1 DEF Known, Chase, Moved
  <2>2. o[i] \in Node \ {n} /\ i \in Nat
    <3>1. DOMAIN o = 1 .. Len(o)
      BY <1>3, OrderOnce
    <3> QED
      BY <1>1, <1>11, <2>1, <3>1 DEF Range, Waits
  <2>3. ASSUME NEW m \in Node, Waits(o, m)'
        PROVE  Waits(o, m) /\ (Heard(h, o, m, st[m], i) => Heard(h, o, m, new[m], i)')
    <3>1. Waits(o, m)
      BY <1>1, <2>3 DEF Waits, Moved
    <3>2. CASE m = n
      <4>1. ASSUME Heard(h, o, m, k, i) PROVE k + 1 >= i
        BY <1>3, <2>2, <4>1 DEF Heard
      <4> QED
        BY <1>6, <3>1, <3>2, <4>1 DEF Heard, k
    <3>3. CASE m # n
      <4>1. new[m] = st[m]
        BY <1>6, <3>1, <3>3 DEF Waits
      <4> QED
        BY <1>4, <3>1, <3>3, <4>1 DEF Heard
    <3> QED
      BY <3>2, <3>3
  <2> QED
    BY <1>1, <1>4, <2>1, <2>2, <2>3, GoneKept
<1>14. /\ k * Skew \in Nat /\ (k + 1) * Skew = k * Skew + Skew /\ Skew \in Nat
       /\ (k + 2) * Skew = (k + 1) * Skew + Skew
  <2>1. k * Skew \in Nat /\ (k + 1) * Skew = k * Skew + Skew /\ Skew \in Nat
    BY <1>3, <1>5, DriveExceeds, BoundsAssumption
  <2>2. \A x, y \in Nat : (x + 2) * y = (x + 1) * y + y
    OBVIOUS
  <2> QED
    BY <1>3, <2>1, <2>2
<1>15. ASSUME NEW a \in Node, NEW b \in Node, Waits(o, a)', Waits(o, b)', a # b
       PROVE  InStep(h, o, a, new[a], b, new[b])'
  <2> DEFINE room == (k + 1) * Skew
             more == (k + 2) * Skew
  <2>1. Waits(o, a) /\ Waits(o, b)
    BY <1>1, <1>15 DEF Waits, Moved
  <2>2. InStep(h, o, a, st[a], b, st[b])
    BY <1>15, <2>1 DEF Known, Chase
  <2>3. /\ st[a] \in Nat /\ st[b] \in Nat
        /\ Age(h, o, a, st[a]) \in Nat /\ Age(h, o, b, st[b]) \in Nat /\ timer[b] \in Nat
    BY <2>1, AtHome DEF Waits
  <2>4. room \in Nat /\ more = room + Skew /\ more \in Nat
    BY <1>14
  <2>5. (k + 1) + 1 = k + 2 /\ ~(k + 1 < k) /\ ~(k + 1 <= k)
    BY <1>3
  <2>6. CASE a = n
    <3>1. /\ Age(h, o, b, st[b])' = Age(h, o, b, st[b])
          /\ status'[b] = status[b] /\ timer'[b] = timer[b]
          /\ new[a] = k + 1 /\ new[b] = st[b]
      BY <1>4, <1>6, <1>15, <2>1, <2>6, AgeKept DEF Waits
    <3>2. \/ st[b] = k /\ status[b] = "waiting"
          \/ st[b] = k + 1
      BY <1>1, <1>15, <2>1, <2>6, RoundOver DEF k
    <3>3. CASE st[b] = k /\ status[b] = "waiting"
      <4>1. Pursues(h, o, b, k)
        BY <2>1, <3>3, AtHome DEF Waits, Home
      <4>2. RoundTime(h, o, b, k) = RoundTime(h, o, n, k)
        BY <1>5, <3>3, <4>1 DEF Pursues, RoundTime
      <4>3. Age(h, o, b, k) = RoundTime(h, o, n, k) - timer[b]
        BY <3>3, <4>2 DEF Age
      <4>4. Age(h, o, n, k) = RoundTime(h, o, n, k)
        BY <1>1, <1>3 DEF Age
      <4>5. Age(h, o, n, k) <= Age(h, o, b, k) + room
        BY <1>1, <2>2, <2>6, <3>3 DEF InStep, k
      <4>6. timer[b] <= room
        BY <1>3, <2>3, <2>4, <4>3, <4>4, <4>5
      <4>7. 0 + timer[b] = timer[b]
        BY <2>3
      <4>8. k < k + 1 /\ k # k + 1
        BY <1>3
      <4> HIDE DEF room
      <4>9. Age(h, o, n, k + 1)' + timer'[b] <= room
        BY <1>10, <3>1, <4>6, <4>7
      <4> QED
        BY <2>6, <3>1, <3>3, <4>8, <4>9 DEF InStep, room
    <3>4. CASE st[b] = k + 1
      <4>1. 0 <= Age(h, o, b, st[b]) + (IF status[b] = "idle" THEN room ELSE more)
        BY <2>3, <2>4
      <4>2. ~(k + 1 < k + 1)
        BY <1>3
      <4> QED
        BY <1>10, <2>5, <2>6, <3>1, <3>4, <4>1, <4>2 DEF InStep
    <3> QED
      BY <3>2, <3>3, <3>4
  <2>7. CASE b = n
    <3>1. /\ Age(h, o, a, st[a])' = Age(h, o, a, st[a]) /\ status'[a] = status[a]
          /\ new[b] = k + 1 /\ new[a] = st[a]
      BY <1>4, <1>6, <1>15, <2>1, <2>7, AgeKept DEF Waits
    <3>2. st[a] = k \/ st[a] = k + 1
      BY <1>1, <1>15, <2>1, <2>7, RoundOver DEF k
    <3>3. CASE st[a] = k
      <4>1. k # k + 1 /\ ~(k + 1 < k)
        BY <1>3
      <4> QED
        BY <3>1, <3>3, <4>1 DEF InStep
    <3>4. CASE st[a] = k + 1
      <4>1. Age(h, o, a, k + 1) + timer[n] <= room
        <5>1. k < k + 1
          BY <1>3
        <5> QED
          BY <2>2, <2>7, <3>4, <5>1 DEF InStep, k
      <4>2. Age(h, o, a, k + 1) <= 0 + (IF status'[n] = "idle" THEN room ELSE more)
        BY <1>1, <1>14, <2>3, <2>4, <3>4, <4>1
      <4>3. ~(k + 1 < k + 1)
        BY <1>3
      <4> QED
        BY <1>10, <2>5, <2>7, <3>1, <3>4, <4>2, <4>3 DEF InStep
    <3> QED
      BY <3>2, <3>3, <3>4
  <2>8. CASE a # n /\ b # n
    <3>1. new[a] = st[a] /\ new[b] = st[b]
      BY <1>6, <2>1, <2>8 DEF Waits
    <3> QED
      BY <1>4, <1>15, <2>2, <2>8, <3>1, InStepKept
  <2> QED
    BY <2>6, <2>7, <2>8
<1>16. IsFiniteSet(Node \ alive') /\ Cardinality(Node \ alive') <= MaxCrashes
  BY <1>1 DEF Known, Chase
<1>17. \A m \in Node \ Range(o) : Elsewhere(m)'
  BY <1>1, <1>3, <1>4 DEF Known, Chase, Elsewhere
<1>18. Chase(h, o, new)'
  BY <1>12, <1>13, <1>15, <1>16, <1>17 DEF Chase
<1> QED
  BY <1>18 DEF new

\* Who arrives finds nobody else under way, and tells all that wait.
LEMMA Arrival ==
  ASSUME NEW h, NEW o, NEW st, Known(h, o, st), losses' = 0,
         NEW n \in Node, Arrive(n)
  PROVE  LET k == st[n] IN
         /\ Waits(o, n) /\ status[n] = "moving" /\ timer[n] = 0 /\ Pursues(h, o, n, k)
         /\ Names(twoHopTable'[n].links) = Rest(o, k + 1)
         /\ \A j \in DOMAIN twoHopTable'[n].links : twoHopTable'[n].links[j].numLinks <= 2
         /\ position'[n] = Coords(h) /\ status'[n] = "idle"
         /\ alive' = alive /\ failed' = failed /\ best' = best /\ coordsFailing' = coordsFailing
         /\ timer' = timer /\ late' = late
         /\ \A m \in Node \ {n} : /\ twoHopTable'[m] = twoHopTable[m]
                                  /\ status'[m] = status[m] /\ position'[m] = position[m]
         /\ \A m \in Node : lst_recovery[m] \subseteq lst_recovery'[m]
         /\ \A m \in Rest(o, k + 1) \cap alive :
              [fn |-> AtHub(h, o, k), bc |-> n] \in lst_recovery'[m]
<1> DEFINE k == st[n]
           new == UpdateTwoHopTable(twoHopTable[n], failed[n], n)
<1>1. /\ n \in alive /\ status[n] = "moving" /\ timer[n] = 0
      /\ position' = [position EXCEPT ![n] = coordsFailing[n]]
      /\ alive' = alive /\ failed' = failed /\ best' = best /\ coordsFailing' = coordsFailing
      /\ timer' = timer /\ late' = late
  BY Zenon DEF Arrive, locals
<1>2. n \in Range(o) /\ ~Moved(n)
  BY <1>1, OthersRest
<1>3. Waits(o, n)
  BY <1>1, <1>2 DEF Waits
<1>4. /\ k \in Nat /\ Home(h, o, n, k) /\ n \in Rest(o, k) /\ Shape(twoHopTable[n], h, o, n, k)
  BY <1>2, AtHome DEF Home
<1>5. Pursues(h, o, n, k)
  BY <1>1, <1>4 DEF Home
<1>6. /\ failed[n] = AtHub(h, o, k) /\ coordsFailing[n] = Coords(h) /\ n = o[k + 1]
  BY <1>1, <1>5 DEF Pursues
<1>7. CanUpdate(twoHopTable[n], failed[n], n)
  <2> SUFFICES ASSUME ~CanUpdate(twoHopTable[n], failed[n], n) PROVE FALSE
    OBVIOUS
  <2>1. status' = [status EXCEPT ![n] = "raised"]
    BY Zenon DEF Arrive
  <2>2. status'[n] = "raised"
    BY <2>1 DEF Known, TypeInv, TypeOK
  <2>3. Unraised
    <3>1. h \in Node /\ TypeInv /\ HubInv(h)
      BY DEF Known, Files
    <3> QED
      BY <3>1, HubArrive
  <2> QED
    BY <1>1, <2>2, <2>3 DEF Unraised
<1>8. /\ twoHopTable' = [twoHopTable EXCEPT ![n] = new]
      /\ status' = [status EXCEPT ![n] = "idle"]
  BY <1>7 DEF Arrive
<1>9. \E lost \in SUBSET (Names(twoHopTable'[n].links) \cap alive) :
        /\ losses' = losses + Cardinality(lost)
        /\ lst_recovery' =
             [m \in Node |-> lst_recovery[m] \cup
                {msg \in {[fn |-> failed[n], bc |-> n]} :
                   m \in (Names(twoHopTable'[n].links) \cap alive) \ lost}]
  BY <1>7, Zenon DEF Arrive
<1>10. PICK lost \in SUBSET (Names(twoHopTable'[n].links) \cap alive) :
        /\ losses' = losses + Cardinality(lost)
        /\ lst_recovery' =
             [m \in Node |-> lst_recovery[m] \cup
                {msg \in {[fn |-> failed[n], bc |-> n]} :
                   m \in (Names(twoHopTable'[n].links) \cap alive) \ lost}]
  BY <1>9
<1>11. Files(h, o) /\ TypeInv
  BY DEF Known
<1>12. /\ Names(new.links) = Rest(o, k + 1)
       /\ \A j \in DOMAIN new.links : new.links[j].numLinks <= 2
  <2> DEFINE own == UpdateTwoHopTable(twoHopTable[n], AtHub(h, o, k), n)
  <2>1. /\ Names(own.links) = Rest(o, k + 1)
        /\ \A j \in DOMAIN own.links : own.links[j].numLinks <= 2
    <3> HIDE DEF k
    <3> QED
      BY <1>4, <1>6, <1>11, ShapeOwn, Zenon DEF k
  <2>2. own = new
    BY <1>6
  <2> HIDE DEF own, new
  <2> QED
    BY <2>1, <2>2
<1> HIDE DEF new, k
<1>13. /\ twoHopTable'[n] = new /\ status'[n] = "idle" /\ position'[n] = Coords(h)
       /\ \A m \in Node \ {n} : /\ twoHopTable'[m] = twoHopTable[m]
                                /\ status'[m] = status[m] /\ position'[m] = position[m]
  BY <1>1, <1>6, <1>8 DEF Known, TypeInv, TypeOK
<1>14. lost = {}
  <2>1. TypeInv'
    BY <1>11, TypeArrive
  <2>2. twoHopTable'[n].links \in Seq(Entry)
    BY <2>1 DEF TypeInv, TypeOK, Table
  <2>3. losses \in 0 .. MaxLosses
    BY <1>11 DEF TypeInv, TypeOK
  <2> DEFINE links == twoHopTable'[n].links
  <2> HIDE DEF links
  <2>4. IsFiniteSet(Names(links))
    BY <2>2, FiniteNames DEF links
  <2>5. lost \subseteq Names(links)
    BY DEF links
  <2>6. IsFiniteSet(lost)
    BY <2>4, <2>5, FS_Subset
  <2>7. Cardinality(lost) \in Nat /\ losses' = losses + Cardinality(lost)
    BY <1>10, <2>6, FS_CardinalityType
  <2>8. Cardinality(lost) = 0
    BY <2>3, <2>7
  <2> QED
    BY <2>6, <2>8, FS_EmptySet
<1>15. \A m \in Node : lst_recovery'[m] = lst_recovery[m] \cup
         {msg \in {[fn |-> failed[n], bc |-> n]} : m \in Rest(o, k + 1) \cap alive}
  BY <1>10, <1>12, <1>13, <1>14
<1>16. \A m \in Rest(o, k + 1) \cap alive :
         [fn |-> AtHub(h, o, k), bc |-> n] \in lst_recovery'[m]
  <2>1. Rest(o, k + 1) \subseteq Node
    BY <1>4, <1>11, RestStep
  <2> QED
    BY <1>6, <1>15, <2>1
<1>17. \A m \in Node : lst_recovery[m] \subseteq lst_recovery'[m]
  BY <1>15
<1> QED
  BY <1>1, <1>3, <1>5, <1>12, <1>13, <1>16, <1>17 DEF k

LEMMA ChaseArrive ==
  ASSUME NEW h, NEW o, NEW st, Known(h, o, st), LongDrives(h, o), losses' = 0,
         NEW n \in Node, Arrive(n)
  PROVE  Chase(h, o, st)'
<1> DEFINE k == st[n]
<1>1. /\ Waits(o, n) /\ status[n] = "moving" /\ timer[n] = 0 /\ Pursues(h, o, n, k)
      /\ Names(twoHopTable'[n].links) = Rest(o, k + 1)
      /\ \A j \in DOMAIN twoHopTable'[n].links : twoHopTable'[n].links[j].numLinks <= 2
      /\ position'[n] = Coords(h) /\ status'[n] = "idle"
      /\ alive' = alive /\ failed' = failed /\ best' = best /\ coordsFailing' = coordsFailing
      /\ timer' = timer /\ late' = late
      /\ \A m \in Node \ {n} : /\ twoHopTable'[m] = twoHopTable[m]
                               /\ status'[m] = status[m] /\ position'[m] = position[m]
      /\ \A m \in Node : lst_recovery[m] \subseteq lst_recovery'[m]
      /\ \A m \in Rest(o, k + 1) \cap alive :
           [fn |-> AtHub(h, o, k), bc |-> n] \in lst_recovery'[m]
  BY Arrival
<1>2. /\ k \in Nat /\ Home(h, o, n, k) /\ k + 1 \in 1 .. Len(o) /\ n \in Range(o) /\ Files(h, o)
      /\ n \in Rest(o, k) /\ n \in alive /\ ~Moved(n)
  BY <1>1, AtHome DEF Waits, Known, Home
<1>3. n = o[k + 1] /\ DeadUpTo(h, o, k)
  BY <1>1 DEF Pursues
<1>4. /\ Len(o) \in Nat /\ DOMAIN o = 1 .. Len(o)
      /\ \A i \in 1 .. Len(o) : o[i] \in Node /\ o[i] # h
      /\ \A i, j \in 1 .. Len(o) : o[i] = o[j] => i = j
  BY <1>2, OrderOnce
<1> HIDE DEF k
<1>5. \A m \in Range(o) : m \in Node
  BY <1>4 DEF Range
<1>6. Moved(n)'
  BY <1>1, <1>2, PlacesDiffer DEF Moved
<1>7. \A m \in Node : Waits(o, m)' => Waits(o, m) /\ m # n
  BY <1>1, <1>6 DEF Waits, Moved
<1>8. ASSUME NEW m \in Range(o), ~Moved(m)' PROVE Home(h, o, m, st[m])'
  <2> DEFINE j == st[m]
  <2>1. m # n /\ m \in Node /\ ~Moved(m)
    BY <1>1, <1>5, <1>6, <1>8 DEF Moved
  <2>2. /\ j \in Nat /\ Home(h, o, m, j) /\ j + 1 \in 1 .. Len(o)
    BY <2>1, AtHome
  <2>3. AtHub(h, o, j) # n /\ AtHub(h, o, j) \in Node
    <3>1. AtHub(h, o, j) \in Node
      BY <1>2, <2>2, RestStep DEF Home
    <3>2. ASSUME AtHub(h, o, j) = n PROVE FALSE
      <4>1. CASE status[m] = "idle"
        <5>1. position[n] = Coords(h)
          BY <2>2, <3>2, <4>1 DEF Home
        <5> QED
          BY <1>2, <5>1, PlacesDiffer DEF Moved
      <4>2. CASE status[m] # "idle"
        <5>1. DeadUpTo(h, o, j) /\ j \in 0 .. j
          BY <2>2, <4>2 DEF Home, Pursues
        <5> QED
          BY <1>2, <3>2, <5>1 DEF DeadUpTo
      <4> QED
        BY <4>1, <4>2
    <3> QED
      BY <3>1, <3>2
  <2>4. position'[AtHub(h, o, j)] = position[AtHub(h, o, j)]
    BY <1>1, <2>3
  <2> QED
    BY <1>1, <2>1, <2>2, <2>4, HomeKept
<1>9. \A i \in DOMAIN o : Moved(o[i])' => Gone(h, o, st, i)'
  <2> SUFFICES ASSUME NEW i \in DOMAIN o, Moved(o[i])' PROVE Gone(h, o, st, i)'
    OBVIOUS
  <2>1. CASE o[i] = n
    <3>1. i = k + 1 /\ i - 1 = k
      BY <1>2, <1>3, <1>4, <2>1
    <3>2. DeadUpTo(h, o, i - 1)'
      BY <1>1, <1>3, <3>1 DEF DeadUpTo
    <3>3. ASSUME NEW m \in Node, Waits(o, m)' PROVE Heard(h, o, m, st[m], i)'
      <4>1. Waits(o, m) /\ m # n /\ m \in alive
        BY <1>7, <3>3 DEF Waits
      <4>2. st[m] = k /\ status[m] = "waiting"
        BY <1>1, <1>3, <4>1, RoundOver DEF k
      <4>3. m \in Rest(o, k + 1)
        <5>1. m \in Rest(o, k)
          BY <4>1, <4>2, AtHome DEF Waits, Home
        <5> QED
          BY <1>2, <1>3, <4>1, <5>1, RestStep
      <4>4. [fn |-> AtHub(h, o, k), bc |-> n] \in lst_recovery'[m]
        BY <1>1, <4>1, <4>3
      <4>5. status'[m] = "waiting"
        BY <1>1, <4>1, <4>2
      <4> QED
        BY <2>1, <3>1, <4>2, <4>4, <4>5 DEF Heard
    <3> QED
      BY <1>1, <2>1, <3>1, <3>2, <3>3 DEF Gone
  <2>2. CASE o[i] # n
    <3>1. o[i] \in Node \ {n}
      BY <1>4, <2>2
    <3>2. Moved(o[i]) /\ Gone(h, o, st, i)
      BY <1>1, <3>1 DEF Known, Chase, Moved
    <3>3. ASSUME NEW m \in Node, Waits(o, m)'
          PROVE  Waits(o, m) /\ (Heard(h, o, m, st[m], i) => Heard(h, o, m, st[m], i)')
      <4>1. Waits(o, m) /\ m \in Node \ {n}
        BY <1>7, <3>3
      <4> QED
        BY <1>1, <4>1, HeardKept
    <3> QED
      BY <1>1, <3>1, <3>2, <3>3, GoneKept
  <2> QED
    BY <2>1, <2>2
<1>10. ASSUME NEW a \in Node, NEW b \in Node, Waits(o, a)', Waits(o, b)', a # b
       PROVE  InStep(h, o, a, st[a], b, st[b])'
  <2>1. Waits(o, a) /\ Waits(o, b) /\ a # n /\ b # n
    BY <1>7, <1>10
  <2>2. InStep(h, o, a, st[a], b, st[b])
    BY <1>10, <2>1 DEF Known, Chase
  <2> QED
    BY <1>1, <2>1, <2>2, InStepKept
<1>11. IsFiniteSet(Node \ alive') /\ Cardinality(Node \ alive') <= MaxCrashes
  BY <1>1 DEF Known, Chase
<1>12. \A m \in Node \ Range(o) : Elsewhere(m)'
  BY <1>1, <1>2 DEF Known, Chase, Elsewhere
<1> QED
  BY <1>8, <1>9, <1>10, <1>11, <1>12 DEF Chase

-----------------------------------------------------------------------------
\* At first the hub is where its neighbors expect it.
LEMMA ChaseInit ==
  ASSUME NEW h, NEW o, Files(h, o), Init
  PROVE  Chase(h, o, [n \in Range(o) |-> 0])
<1> DEFINE st == [n \in Range(o) |-> 0]
<1>1. /\ alive = Node /\ position = [n \in Node |-> Coords(n)] /\ twoHopTable = Configs
      /\ status = [n \in Node |-> "idle"]
  BY DEF Init
<1>2. \A n \in Range(o) : n \in Node
  BY PlacesDiffer
<1>3. \A n \in Range(o) : st[n] = 0
  OBVIOUS
<1>4. IsFiniteSet(Node \ alive) /\ Cardinality(Node \ alive) <= MaxCrashes
  <2>1. Node \ alive = {}
    BY <1>1
  <2>2. IsFiniteSet({}) /\ Cardinality({}) = 0
    BY FS_EmptySet
  <2> QED
    BY <2>1, <2>2, BoundsAssumption
<1>5. \A n \in Node : Elsewhere(n) /\ ~Moved(n)
  BY <1>1 DEF Elsewhere, Moved
<1>6. ASSUME NEW n \in Range(o) PROVE Home(h, o, n, 0)
  <2>1. Shape(Configs[n], h, o, n, 0) /\ n \in Rest(o, 0)
    BY ShapeStart
  <2>2. position[AtHub(h, o, 0)] = Coords(h)
    BY <1>1 DEF AtHub, Files
  <2>3. DeadUpTo(h, o, 0 - 1)
    BY DEF DeadUpTo
  <2>4. status[n] = "idle" /\ twoHopTable[n] = Configs[n]
    BY <1>1, <1>2
  <2> QED
    BY <2>1, <2>2, <2>3, <2>4 DEF Home
<1>7. ASSUME NEW n \in Node, NEW m \in Node, Waits(o, n), Waits(o, m)
      PROVE  InStep(h, o, n, st[n], m, st[m])
  <2>1. st[n] = 0 /\ st[m] = 0 /\ status[n] = "idle"
    BY <1>1, <1>3, <1>7 DEF Waits
  <2> HIDE DEF st
  <2> QED
    BY <2>1 DEF InStep
<1>8. \A i \in DOMAIN o : ~Moved(o[i])
  BY <1>2, <1>5 DEF Range
<1> HIDE DEF st
<1> QED
  BY <1>3, <1>4, <1>5, <1>6, <1>7, <1>8 DEF Chase, st

LEMMA ChaseStutter ==
  ASSUME NEW h, NEW o, NEW st, Known(h, o, st), UNCHANGED vars
  PROVE  Chase(h, o, st)'
<1>1. /\ alive' = alive /\ position' = position /\ twoHopTable' = twoHopTable /\ status' = status
      /\ failed' = failed /\ best' = best /\ coordsFailing' = coordsFailing
      /\ timer' = timer /\ lst_recovery' = lst_recovery /\ late' = late
  BY DEF vars, locals
<1>2. \A n : Waits(o, n)' => Waits(o, n)
  BY <1>1 DEF Waits, Moved
<1>3. IsFiniteSet(Node \ alive') /\ Cardinality(Node \ alive') <= MaxCrashes
  BY <1>1 DEF Known, Chase
<1>4. \A n \in Node \ Range(o) : Elsewhere(n)'
  BY <1>1 DEF Known, Chase, Elsewhere
<1>5. ASSUME NEW n \in Range(o), ~Moved(n)' PROVE Home(h, o, n, st[n])'
  <2>1. Home(h, o, n, st[n])
    BY <1>1, <1>5 DEF Known, Chase, Moved
  <2> QED
    BY <1>1, <2>1, HomeKept
<1>6. ASSUME NEW i \in DOMAIN o, Moved(o[i])' PROVE Gone(h, o, st, i)'
  <2>1. Gone(h, o, st, i)
    BY <1>1, <1>6 DEF Known, Chase, Moved
  <2>2. \A m : Heard(h, o, m, st[m], i) => Heard(h, o, m, st[m], i)'
    BY <1>1 DEF Heard
  <2> QED
    BY <1>1, <1>2, <2>1, <2>2, GoneKept
<1>7. ASSUME NEW n \in Node, NEW m \in Node, Waits(o, n)', Waits(o, m)', n # m
      PROVE  InStep(h, o, n, st[n], m, st[m])'
  <2>1. InStep(h, o, n, st[n], m, st[m])
    BY <1>2, <1>7 DEF Known, Chase
  <2> QED
    BY <1>1, <2>1, InStepKept
<1> QED
  BY <1>3, <1>4, <1>5, <1>6, <1>7 DEF Chase

\* Some number of replacements is what each neighbor believes in.
Chasing(h, o) == Undisturbed => \E st \in [Range(o) -> Nat] : Chase(h, o, st)

LEMMA ChaseNext ==
  ASSUME NEW h, NEW o, Files(h, o), LongDrives(h, o),
         TypeInv, HubInv(h), LastInv(h), Chasing(h, o), [Next]_vars
  PROVE  Chasing(h, o)'
<1> SUFFICES ASSUME Undisturbed' PROVE Chasing(h, o)'
  BY DEF Chasing
<1>0. Undisturbed /\ losses' = 0
  BY StaysDisturbed DEF Undisturbed
<1>1. PICK st \in [Range(o) -> Nat] : Chase(h, o, st)
  BY <1>0 DEF Chasing
<1>2. Known(h, o, st)
  BY <1>1 DEF Known
<1>3. ASSUME Chase(h, o, st)' PROVE Chasing(h, o)'
  BY <1>1, <1>3 DEF Chasing
<1>4. CASE Tick
  BY <1>2, <1>3, <1>4, ChaseTick
<1>5. ASSUME NEW n \in Node, Arrive(n) PROVE Chasing(h, o)'
  <2>1. losses' = 0
    BY <1>0
  <2>2. Chase(h, o, st)'
    BY <1>2, <1>5, <2>1, ChaseArrive
  <2> QED
    BY <1>3, <2>2
<1>6. ASSUME NEW n \in Node, EndWait(n) PROVE Chasing(h, o)'
  <2> DEFINE new == [st EXCEPT ![n] = st[n] + 1]
  <2>1. n \in Range(o)
    <3>1. Waits(o, n)
      BY <1>2, <1>6, WaitEnds
    <3> QED
      BY <3>1 DEF Waits
  <2>2. new \in [Range(o) -> Nat]
    BY <1>1, <2>1
  <2>3. Chase(h, o, new)'
    BY <1>2, <1>6, ChaseEndWait
  <2> HIDE DEF new
  <2> QED
    BY <2>2, <2>3 DEF Chasing
<1>7. ASSUME NEW n \in Node, NEW l \in Node, Detect(n, l) PROVE Chasing(h, o)'
  BY <1>2, <1>3, <1>7, ChaseDetect
<1>8. ASSUME NEW n \in Node, Crash(n) PROVE Chasing(h, o)'
  BY <1>2, <1>3, <1>8, ChaseCrash
<1>9. CASE UNCHANGED vars
  BY <1>2, <1>3, <1>9, ChaseStutter
<1>10. ASSUME NEW n \in Node, NEW l \in Node, Suspect(n, l) PROVE FALSE
  <2>1. mistakes = 0 /\ mistakes' = 0 /\ mistakes' = mistakes + 1
    BY <1>0, <1>10 DEF Suspect, Undisturbed
  <2> QED
    BY <2>1
<1> QED
  BY <1>4, <1>5, <1>6, <1>7, <1>8, <1>9, <1>10 DEF Next, Progress

LEMMA ChaseAlways ==
  ASSUME NEW h \in Node, NEW o, OneCutVertex(h), ListedLast(h), Agreement(h, o),
         LongDrives(h, o)
  PROVE  Spec => [](TypeInv /\ HubInv(h) /\ LastInv(h) /\ Chasing(h, o))
<1>1. Files(h, o)
  BY DEF Files
<1>2. Init => HubInv(h) /\ LastInv(h) /\ Chasing(h, o)
  <2>1. Init => HubInv(h)
    BY HubInit
  <2>2. Init => LastInv(h)
    BY DEF Init, ListedLast, LastInv
  <2>3. ASSUME Init PROVE Chasing(h, o)
    <3>1. [n \in Range(o) |-> 0] \in [Range(o) -> Nat]
      OBVIOUS
    <3>2. Chase(h, o, [n \in Range(o) |-> 0])
      BY <1>1, <2>3, ChaseInit
    <3> QED
      BY <3>1, <3>2 DEF Chasing
  <2> QED
    BY <2>1, <2>2, <2>3
<1>3. TypeInv /\ (HubInv(h) /\ LastInv(h) /\ Chasing(h, o)) /\ [Next]_vars
      => (HubInv(h) /\ LastInv(h) /\ Chasing(h, o))'
  <2> SUFFICES ASSUME TypeInv, HubInv(h), LastInv(h), Chasing(h, o), [Next]_vars
               PROVE  HubInv(h)' /\ LastInv(h)' /\ Chasing(h, o)'
    OBVIOUS
  <2>1. HubInv(h)'
    BY HubNext
  <2>2. LastInv(h)'
    BY LastNext
  <2>3. Chasing(h, o)'
    BY <1>1, ChaseNext
  <2> QED
    BY <2>1, <2>2, <2>3
<1> QED
  BY <1>2, <1>3, TypeAlways, PTL DEF Spec

-----------------------------------------------------------------------------
\* Who is not at home, or not going to stay there, has seen everybody die that
\* was to go to the hub before it.
LEMMA AtHubOrHome ==
  ASSUME NEW h, NEW o, NEW st, Known(h, o, st), NEW n \in Node
  PROVE  \/ Destination(n) = Coords(n)
         \/ /\ Destination(n) = Coords(h)
            /\ \E i \in 1 .. Len(o) : n = o[i] /\ DeadUpTo(h, o, i - 1)
<1>1. CASE n \notin Range(o)
  <2>1. status[n] = "idle" /\ position[n] = Coords(n)
    BY <1>1 DEF Known, Chase, Elsewhere
  <2> QED
    BY <2>1 DEF Destination
<1>2. CASE n \in Range(o) /\ Moved(n)
  <2>1. PICK i \in DOMAIN o : n = o[i]
    BY <1>2 DEF Range
  <2>2. position[n] = Coords(h) /\ status[n] = "idle" /\ DeadUpTo(h, o, i - 1)
    BY <1>2, <2>1 DEF Known, Chase, Gone
  <2>3. i \in 1 .. Len(o)
    BY <2>1, OrderOnce DEF Known
  <2> QED
    BY <2>1, <2>2, <2>3 DEF Destination
<1>3. CASE n \in Range(o) /\ ~Moved(n) /\ status[n] # "moving"
  BY <1>3 DEF Destination, Moved
<1>4. CASE n \in Range(o) /\ ~Moved(n) /\ status[n] = "moving"
  <2> DEFINE k == st[n]
  <2>1. k \in Nat /\ k + 1 \in 1 .. Len(o) /\ Home(h, o, n, k)
    BY <1>4, AtHome
  <2>2. Pursues(h, o, n, k)
    BY <1>4, <2>1 DEF Home
  <2>3. n = o[k + 1] /\ coordsFailing[n] = Coords(h) /\ DeadUpTo(h, o, k)
    BY <1>4, <2>2 DEF Pursues
  <2>4. (k + 1) - 1 = k
    BY <2>1
  <2> QED
    BY <1>4, <2>1, <2>3, <2>4 DEF Destination
<1> QED
  BY <1>1, <1>2, <1>3, <1>4

LEMMA ChaseSeparates ==
  ASSUME NEW h, NEW o, NEW st, Known(h, o, st)
  PROVE  NoTwoAtOnePlace
<1> SUFFICES ASSUME NEW n \in alive, NEW m \in alive, n # m, Destination(n) = Destination(m)
             PROVE  FALSE
  BY DEF NoTwoAtOnePlace
<1>1. n \in Node /\ m \in Node /\ h \in Node
  BY DEF Known, TypeInv, TypeOK, Files
<1>2. \A a, b \in Node : Coords(a) = Coords(b) => a = b
  BY DEF Known, Files, OneCutVertex
<1>3. /\ Len(o) \in Nat
      /\ \A i, j \in 1 .. Len(o) : i < j => AtHub(h, o, i) = o[i] /\ i \in 0 .. j - 1
      /\ \A j \in 1 .. Len(o) : 0 \in 0 .. j - 1
      /\ AtHub(h, o, 0) = h
  BY OrderOnce DEF Known, AtHub
<1>4. ASSUME NEW j \in 1 .. Len(o), DeadUpTo(h, o, j - 1)
      PROVE  h \notin alive /\ \A i \in 1 .. Len(o) : i < j => o[i] \notin alive
  BY <1>3, <1>4 DEF DeadUpTo
<1>5. CASE Destination(n) = Coords(n) /\ Destination(m) = Coords(m)
  BY <1>1, <1>2, <1>5
<1>6. CASE \E i \in 1 .. Len(o) : n = o[i] /\ DeadUpTo(h, o, i - 1)
  <2>1. PICK i \in 1 .. Len(o) : n = o[i] /\ DeadUpTo(h, o, i - 1)
    BY <1>6
  <2>2. h \notin alive
    BY <1>4, <2>1
  <2>3. CASE Destination(n) = Coords(n)
    <3>1. n # h /\ m # h
      BY <2>2
    <3>2. Destination(m) = Coords(m) \/ Destination(m) = Coords(h)
      BY <1>1, AtHubOrHome
    <3>3. Coords(n) # Coords(m) /\ Coords(n) # Coords(h)
      BY <1>1, <1>2, <3>1
    <3> QED
      BY <2>3, <3>2, <3>3
  <2>4. CASE Destination(n) = Coords(h)
    <3>1. Destination(m) # Coords(m)
      BY <1>1, <1>2, <2>2, <2>4
    <3>2. PICK j \in 1 .. Len(o) : m = o[j] /\ DeadUpTo(h, o, j - 1)
      BY <1>1, <3>1, AtHubOrHome
    <3>3. i < j \/ j < i
      BY <1>3, <2>1, <3>2
    <3> QED
      BY <1>4, <2>1, <3>2, <3>3
  <2> QED
    BY <1>1, <2>3, <2>4, AtHubOrHome
<1>7. CASE \E i \in 1 .. Len(o) : m = o[i] /\ DeadUpTo(h, o, i - 1)
  <2>1. h \notin alive
    BY <1>4, <1>7
  <2> QED
    BY <1>1, <1>2, <1>6, <1>7, <2>1, AtHubOrHome
<1> QED
  BY <1>1, <1>5, <1>6, <1>7, AtHubOrHome

LEMMA ChaseChoosesBest ==
  ASSUME NEW h, NEW o, NEW st, Known(h, o, st)
  PROVE  MoverIsBestLiving
<1> SUFFICES ASSUME NEW n \in alive, status[n] = "moving", NEW m \in alive,
                    NEW g \in Names(Configs[m].links), Coords(g) = coordsFailing[n]
             PROVE  ~Before(Coords(g), Configs[m], Configs[n])
  BY DEF MoverIsBestLiving
<1> DEFINE k == st[n]
<1>1. n \in Node /\ m \in Node /\ h \in Node
  BY DEF Known, TypeInv, TypeOK, Files
<1>2. n \in Range(o) /\ ~Moved(n)
  BY <1>1, OthersRest
<1>3. k \in Nat /\ k + 1 \in 1 .. Len(o) /\ Home(h, o, n, k)
  BY <1>2, AtHome
<1>4. n = o[k + 1] /\ coordsFailing[n] = Coords(h) /\ DeadUpTo(h, o, k)
  BY <1>3 DEF Home, Pursues
<1>5. g = h
  <2>1. Configs[m].links \in Seq(Entry)
    BY <1>1, ConfigAssumption DEF Table
  <2>2. g \in Node
    <3>1. PICK a \in DOMAIN Configs[m].links : g = Configs[m].links[a].name
      BY DEF Names
    <3>2. Configs[m].links[a] \in Entry
      BY <2>1, <3>1
    <3> QED
      BY <3>1, <3>2 DEF Entry
  <2> QED
    BY <1>1, <1>4, <2>2 DEF Known, Files, OneCutVertex
<1>6. /\ Len(o) \in Nat /\ DOMAIN o = 1 .. Len(o)
      /\ \A i, j \in DOMAIN o : i < j => Before(Coords(h), Configs[o[i]], Configs[o[j]])
  BY OrderOnce DEF Known, Files, Agreement
<1>7. PICK i \in 1 .. Len(o) : m = o[i]
  <2>1. m \in Range(o)
    BY <1>1, <1>5 DEF Known, Files, Agreement
  <2> QED
    BY <1>6, <2>1 DEF Range
<1> HIDE DEF k
<1>8. i = k + 1 \/ k + 1 < i
  <2>1. ASSUME i <= k PROVE FALSE
    <3>1. i \in 0 .. k /\ AtHub(h, o, i) = m
      BY <1>3, <1>7, <2>1 DEF AtHub
    <3> QED
      BY <1>4, <3>1 DEF DeadUpTo
  <2> QED
    BY <1>3, <1>7, <2>1
<1>9. /\ Configs[n].numLinks \in Int /\ Configs[m].numLinks \in Int
      /\ Dist(Coords(h), Configs[n].coords) \in Int /\ Dist(Coords(h), Configs[m].coords) \in Int
  <2>1. \A a \in Node : Configs[a].numLinks \in Int /\ Configs[a].coords \in Int \X Int
    BY ConfigAssumption DEF Table
  <2>2. \A a \in Node : Coords(a) \in Int \X Int
    BY <2>1 DEF Coords
  <2>3. \A a \in Node : Dist(Coords(h), Configs[a].coords) \in Nat
    BY <1>1, <2>1, <2>2, DistType
  <2> QED
    BY <1>1, <2>1, <2>3
<1>10. CASE i = k + 1
  <2>1. n = m
    BY <1>4, <1>7, <1>10
  <2> QED
    BY <1>5, <1>9, <2>1 DEF Before
<1>11. CASE k + 1 < i
  <2>1. Before(Coords(h), Configs[n], Configs[m])
    BY <1>3, <1>4, <1>6, <1>7, <1>11
  <2> QED
    BY <1>5, <1>9, <2>1 DEF Before
<1> QED
  BY <1>8, <1>10, <1>11

\* Where the files agree and drives are long, one node, never two, stands at the
\* place of the dead cut vertex or is on its way there, until the first message is
\* lost or the first living node suspected: in whatever order the neighbors notice
\* and whoever dies under way or after it has arrived, who waits long enough hears
\* of the arrival, and who hears nothing has waited for somebody dead
\* (NoTwoAtOnePlace; dara1C).
THEOREM OneAtEachPlace ==
  ASSUME NEW h \in Node, NEW o, OneCutVertex(h), ListedLast(h), Agreement(h, o),
         LongDrives(h, o)
  PROVE  Spec => []NoTwoAtOnePlace
<1>1. ASSUME TypeInv, HubInv(h), LastInv(h), Chasing(h, o) PROVE NoTwoAtOnePlace
  <2> SUFFICES ASSUME Undisturbed PROVE NoTwoAtOnePlace
    BY DEF NoTwoAtOnePlace
  <2>1. PICK st \in [Range(o) -> Nat] : Chase(h, o, st)
    BY <1>1 DEF Chasing
  <2>2. Known(h, o, st)
    BY <1>1, <2>1 DEF Known, Files
  <2> QED
    BY <2>2, ChaseSeparates
<1>2. Spec => [](TypeInv /\ HubInv(h) /\ LastInv(h) /\ Chasing(h, o))
  BY ChaseAlways
<1> QED
  BY <1>1, <1>2, PTL

\* Under the same hypotheses, and as long, the node on its way is the best of the
\* neighbors of the dead node that are still alive: all the tables lead through the
\* candidates in the same order, and nobody is passed over who lives
\* (MoverIsBestLiving; findBestCandidate).
THEOREM BestLivingMoves ==
  ASSUME NEW h \in Node, NEW o, OneCutVertex(h), ListedLast(h), Agreement(h, o),
         LongDrives(h, o)
  PROVE  Spec => []MoverIsBestLiving
<1>1. ASSUME TypeInv, HubInv(h), LastInv(h), Chasing(h, o) PROVE MoverIsBestLiving
  <2> SUFFICES ASSUME Undisturbed PROVE MoverIsBestLiving
    BY DEF MoverIsBestLiving
  <2>1. PICK st \in [Range(o) -> Nat] : Chase(h, o, st)
    BY <1>1 DEF Chasing
  <2>2. Known(h, o, st)
    BY <1>1, <2>1 DEF Known, Files
  <2> QED
    BY <2>2, ChaseChoosesBest
<1>2. Spec => [](TypeInv /\ HubInv(h) /\ LastInv(h) /\ Chasing(h, o))
  BY ChaseAlways
<1> QED
  BY <1>1, <1>2, PTL

\* Under the same hypotheses, and as long, a node that has waited and heard nothing
\* gives up only somebody dead: it takes no candidate that lives for the next dead
\* node, and its table loses none (dara1C, isRecoveredMSGReceived).
THEOREM OnlyTheDeadAreGivenUp ==
  ASSUME NEW h \in Node, NEW o, OneCutVertex(h), ListedLast(h), Agreement(h, o),
         LongDrives(h, o)
  PROVE  Spec => [][\A n \in Node :
                      Undisturbed /\ EndWait(n) /\ ~IsRecoveredMSGReceived(n)
                      => best[n] \notin alive]_vars
<1>1. ASSUME TypeInv, HubInv(h), LastInv(h), Chasing(h, o), Undisturbed,
             NEW n \in Node, EndWait(n), ~IsRecoveredMSGReceived(n)
      PROVE  best[n] \notin alive
  <2>1. PICK st \in [Range(o) -> Nat] : Chase(h, o, st)
    BY <1>1 DEF Chasing
  <2>2. Known(h, o, st)
    BY <1>1, <2>1 DEF Known, Files
  <2>3. Waits(o, n) /\ status[n] = "waiting" /\ timer[n] = 0 /\ Pursues(h, o, n, st[n])
    BY <1>1, <2>2, WaitEnds
  <2>4. best[n] = o[st[n] + 1]
    BY <2>3 DEF Pursues
  <2> QED
    BY <1>1, <2>2, <2>3, <2>4, InVain
<1>2. Spec => [](TypeInv /\ HubInv(h) /\ LastInv(h) /\ Chasing(h, o))
  BY ChaseAlways
<1>3. TypeInv /\ HubInv(h) /\ LastInv(h) /\ Chasing(h, o)
      => [\A n \in Node : Undisturbed /\ EndWait(n) /\ ~IsRecoveredMSGReceived(n)
                          => best[n] \notin alive]_vars
  BY <1>1
<1> QED
  BY <1>2, <1>3, PTL
-----------------------------------------------------------------------------
\* What holds of a node that has left its place, or may, however it was misled:
\* it is one that the files name, and once it has left it sees no cut vertex.
Once(h) ==
  \A n \in Node :
    /\ status[n] \in {"moving", "waiting"} => n \in Heirs[h] /\ position[n] = Coords(n)
    /\ position[n] # Coords(n) =>
         \A i \in DOMAIN twoHopTable[n].links : twoHopTable[n].links[i].links = NoLinks
    /\ \A i \in DOMAIN twoHopTable[n].links :
         twoHopTable[n].links[i].numLinks > 2 => n \in Heirs[h]

LEMMA OnceInit ==
  ASSUME NEW h, NEW o, Files(h, o), Init
  PROVE  Once(h)
<1> SUFFICES ASSUME NEW n \in Node,
                    NEW i \in DOMAIN Configs[n].links, Configs[n].links[i].numLinks > 2
             PROVE  n \in Heirs[h]
  BY DEF Init, Once
<1>1. Configs[n].links[i].name = h
  BY DEF Files, OneCutVertex
<1>2. h \in Node /\ h \in Names(Configs[n].links) /\ Configs[h].numLinks > 2
  BY <1>1 DEF Files, Agreement, Names
<1> QED
  BY <1>2 DEF Heirs, CutVertices

\* Who begins a recovery is at home, and one of those that may.
LEMMA OnceDetect ==
  ASSUME NEW h \in Node, TypeInv, HubInv(h), Once(h), NEW n \in Node, NEW l \in Node,
         Detect(n, l) \/ Suspect(n, l)
  PROVE  Once(h)' /\ status[n] = "idle"
<1> DEFINE links == twoHopTable[n].links
           first == SelectInSeq(links, LAMBDA x : x.name = l)
<1>1. /\ twoHopTable' = twoHopTable /\ position' = position /\ status[n] = "idle"
      /\ l \in Names(links) /\ IsCutVertex(twoHopTable[n], l) /\ links \in Seq(Entry)
      /\ TryToReplace(n, twoHopTable[n], l, EntryOf(links, l).coords)
  BY Starts DEF TypeInv, TypeOK, Table
<1>2. first \in 1 .. Len(links)
  BY <1>1, FirstNamed
<1>3. links[first].numLinks > 2
  BY <1>1 DEF IsCutVertex
<1> HIDE DEF first
<1>4. first \in DOMAIN links /\ links[first] \in Entry
  BY <1>1, <1>2
<1>5. links[first].numLinks \in Int
  BY <1>4 DEF Entry
<1>6. links[first].links # NoLinks
  <2>1. ~Replaced(links)
    BY <1>3, <1>4, <1>5 DEF Replaced
  <2>2. Tidy(links, Coords(h))
    BY <2>1 DEF HubInv
  <2> QED
    BY <1>4, <2>2 DEF Tidy
<1>7. n \in Heirs[h] /\ position[n] = Coords(n)
  BY <1>3, <1>4, <1>6 DEF Once
<1>8. \A m \in Node \ {n} : status'[m] = status[m]
  <2>1. \E s : status' = [status EXCEPT ![n] = s]
    BY <1>1, RoundAlone
  <2> QED
    BY <2>1 DEF TypeInv, TypeOK
<1> QED
  BY <1>1, <1>7, <1>8 DEF Once, Heirs, Coords

LEMMA OnceArrive ==
  ASSUME NEW h \in Node, TypeInv, HubInv(h), Once(h), NEW n \in Node, Arrive(n)
  PROVE  Once(h)'
<1> DEFINE new == UpdateTwoHopTable(twoHopTable[n], failed[n], n)
           e == EntryOf(twoHopTable[n].links, failed[n])
<1>1. /\ status[n] = "moving" /\ position' = [position EXCEPT ![n] = coordsFailing[n]]
      /\ twoHopTable[n] \in Table /\ twoHopTable[n].name = n
  BY Zenon DEF Arrive, TypeInv, TypeOK
<1>2. n \in Heirs[h]
  BY <1>1 DEF Once
<1>3. \A m \in Node \ {n} : position'[m] = position[m]
  BY <1>1 DEF TypeInv, TypeOK
<1>4. CASE ~CanUpdate(twoHopTable[n], failed[n], n)
  <2>1. status' = [status EXCEPT ![n] = "raised"]
    BY <1>4, Zenon DEF Arrive
  <2>2. status'[n] = "raised"
    BY <2>1 DEF TypeInv, TypeOK
  <2> QED
    BY <1>1, <2>2, HubArrive DEF Unraised
<1>5. CASE CanUpdate(twoHopTable[n], failed[n], n)
  <2>1. /\ twoHopTable' = [twoHopTable EXCEPT ![n] = new]
        /\ status' = [status EXCEPT ![n] = "idle"]
    BY <1>5, Zenon DEF Arrive
  <2>2. \A j \in DOMAIN new.links : new.links[j].links = NoLinks
    <3>1. /\ CanUpdate(twoHopTable[n], failed[n], twoHopTable[n].name)
          /\ new = UpdateTwoHopTable(twoHopTable[n], failed[n], twoHopTable[n].name)
      BY <1>1, <1>5
    <3> HIDE DEF new
    <3>2. \A j \in DOMAIN new.links : new.links[j] = WithoutLinks(e.links[j])
      BY <1>1, <3>1, UpdateOwn
    <3>3. \A c : WithoutLinks(c).links = NoLinks
      BY DEF WithoutLinks
    <3> QED
      BY <3>2, <3>3
  <2> HIDE DEF new
  <2>3. /\ twoHopTable'[n] = new /\ status'[n] = "idle"
        /\ \A m \in Node \ {n} : twoHopTable'[m] = twoHopTable[m] /\ status'[m] = status[m]
    BY <2>1 DEF TypeInv, TypeOK
  <2> QED
    BY <1>2, <1>3, <2>2, <2>3 DEF Once, Heirs, Coords
<1> QED
  BY <1>4, <1>5

LEMMA OnceEndWait ==
  ASSUME NEW h, TypeInv, Once(h), NEW n \in Node, EndWait(n)
  PROVE  Once(h)' /\ status[n] = "waiting"
<1>1. status[n] = "waiting" /\ position' = position
  BY Zenon DEF EndWait
<1>2. n \in Heirs[h] /\ position[n] = Coords(n)
  BY <1>1 DEF Once
<1>3. \A m \in Node \ {n} : status'[m] = status[m] /\ twoHopTable'[m] = twoHopTable[m]
  <2>1. \E s : status' = [status EXCEPT ![n] = s]
    <3>1. \/ TryToReplace(n, twoHopTable'[n], best[n], coordsFailing[n])
          \/ status' = [status EXCEPT ![n] = "idle"]
          \/ status' = [status EXCEPT ![n] = "raised"]
      BY Zenon DEF EndWait
    <3> QED
      BY <3>1, RoundAlone
  <2>2. \E table : twoHopTable' = [twoHopTable EXCEPT ![n] = table]
    BY Zenon DEF EndWait
  <2> QED
    BY <2>1, <2>2 DEF TypeInv, TypeOK
<1> QED
  BY <1>1, <1>2, <1>3 DEF Once, Heirs, Coords

LEMMA OnceNext ==
  ASSUME NEW h \in Node, TypeInv, HubInv(h), Once(h), [Next]_vars
  PROVE  Once(h)'
<1>1. ASSUME UNCHANGED <<position, status, twoHopTable>> PROVE Once(h)'
  BY <1>1 DEF Once, Heirs, Coords
<1>2. CASE Tick
  BY <1>1, <1>2 DEF Tick
<1>3. ASSUME NEW n \in Node, Arrive(n) PROVE Once(h)'
  BY <1>3, OnceArrive
<1>4. ASSUME NEW n \in Node, EndWait(n) PROVE Once(h)'
  BY <1>4, OnceEndWait
<1>5. ASSUME NEW n \in Node, NEW l \in Node, Detect(n, l) \/ Suspect(n, l) PROVE Once(h)'
  BY <1>5, OnceDetect
<1>6. ASSUME NEW n \in Node, Crash(n) PROVE Once(h)'
  BY <1>1, <1>6 DEF Crash
<1>7. CASE UNCHANGED vars
  BY <1>1, <1>7 DEF vars
<1> QED
  BY <1>2, <1>3, <1>4, <1>5, <1>6, <1>7 DEF Next, Progress

\* A node under way has left its own place for that of the hub, which is dead
\* while nobody has been misled.
MoversOK(h) ==
  \A n \in Node : status[n] = "moving" =>
    /\ n \in Heirs[h] /\ (Undisturbed => h \notin alive)
    /\ position[n] = Coords(n) /\ coordsFailing[n] = Coords(h) /\ Coords(n) # Coords(h)

LEMMA Movers ==
  ASSUME NEW h, NEW o, Files(h, o), TypeInv, HubInv(h), LastInv(h), Chasing(h, o), Once(h)
  PROVE  MoversOK(h)
<1> SUFFICES ASSUME NEW n \in Node, status[n] = "moving"
             PROVE  /\ n \in Heirs[h] /\ (Undisturbed => h \notin alive)
                    /\ position[n] = Coords(n) /\ coordsFailing[n] = Coords(h)
                    /\ Coords(n) # Coords(h)
  BY DEF MoversOK
<1>1. n \in Heirs[h] /\ position[n] = Coords(n)
  BY DEF Once
<1>2. coordsFailing[n] = Coords(h)
  BY DEF HubInv, Recovering
<1>3. Coords(n) # Coords(h)
  <2>1. n \in Range(o)
    BY <1>1 DEF Heirs, Files, Agreement
  <2> QED
    BY <2>1, PlacesDiffer
<1>4. ASSUME Undisturbed PROVE h \notin alive
  <2>1. PICK st \in [Range(o) -> Nat] : Chase(h, o, st)
    BY <1>4 DEF Chasing
  <2>2. Known(h, o, st)
    BY <2>1 DEF Known
  <2>3. n \in Range(o) /\ ~Moved(n)
    BY <2>2, OthersRest
  <2>4. st[n] \in Nat /\ Home(h, o, n, st[n])
    BY <2>2, <2>3, AtHome
  <2>5. DeadUpTo(h, o, st[n])
    BY <2>4 DEF Home, Pursues
  <2>6. 0 \in 0 .. st[n] /\ AtHub(h, o, 0) = h
    BY <2>4 DEF AtHub
  <2> QED
    BY <2>5, <2>6 DEF DeadUpTo
<1> QED
  BY <1>1, <1>2, <1>3, <1>4

\* One step of the robots.
LEMMA StepMaps ==
  ASSUME NEW h \in Node, TypeInv, MoversOK(h), MoversOK(h)', NoTwoAtOnePlace', MoverIsBestLiving',
         [Next]_vars
  PROVE  [Abstract!Move]_(Abstract!places)
<1>0. TypeOK /\ (Undisturbed' => Undisturbed) /\ Abstract!MayDisturb
  BY StaysDisturbed DEF TypeInv, Abstract!MayDisturb
<1>1. ASSUME alive' = alive, position' = position,
             \A n \in Node : Destination(n)' = Destination(n)
      PROVE  [Abstract!Move]_(Abstract!places)
  <2>1. CASE Undisturbed'
    <3>1. (~Undisturbed)' = ~Undisturbed
      BY <1>0, <2>1
    <3> QED
      BY <1>1, <3>1, Zenon DEF Abstract!places
  <2>2. CASE ~Undisturbed'
    <3>1. Abstract!Disturb
      BY <1>1, <2>2, Zenon DEF Abstract!Disturb
    <3> QED
      BY <3>1 DEF Abstract!Move
  <2> QED
    BY <2>1, <2>2
\* What a round of the loop does.
<1>2. ASSUME NEW n \in Node, n \in alive, status[n] # "moving", alive' = alive, position' = position,
             \A m \in Node \ {n} : status'[m] = status[m] /\ coordsFailing'[m] = coordsFailing[m]
      PROVE  [Abstract!Move]_(Abstract!places)
  <2>1. \A m \in Node \ {n} : Destination(m)' = Destination(m)
    BY <1>2 DEF Destination
  <2>2. Destination(n) = position[n]
    BY <1>2 DEF Destination
  <2>3. CASE status'[n] # "moving"
    <3>1. Destination(n)' = Destination(n)
      BY <1>2, <2>2, <2>3 DEF Destination
    <3>2. \A m \in Node : Destination(m)' = Destination(m)
      BY <2>1, <3>1
    <3> QED
      BY <1>1, <1>2, <3>2
  <2>4. CASE status'[n] = "moving"
    <3>1. /\ n \in Heirs[h] /\ (Undisturbed' => h \notin alive)
          /\ position[n] = Coords(n) /\ Destination(n)' = Coords(h) /\ coordsFailing'[n] = Coords(h)
          /\ Coords(n) # Coords(h)
      BY <1>2, <2>4 DEF MoversOK, Destination, Heirs, Coords
    <3>2. ASSUME NEW m \in alive, Undisturbed' PROVE Destination(m) # Coords(h)
      <4>1. CASE m = n
        BY <2>2, <3>1, <4>1
      <4>2. CASE m # n
        <5>1. m \in Node /\ m \in alive' /\ n \in alive'
          BY <1>0, <1>2 DEF TypeOK
        <5> QED
          BY <2>1, <3>1, <3>2, <4>2, <5>1 DEF NoTwoAtOnePlace
      <4> QED
        BY <4>1, <4>2
    <3>3. ASSUME NEW m \in alive, Undisturbed', m \in Heirs[h] PROVE <<h, m, n>> \notin Better
      <4>1. h \in Names(Configs[m].links) /\ m \in alive' /\ n \in alive'
        BY <1>2, <3>3 DEF Heirs
      <4>2. ~Before(Coords(h), Configs[m], Configs[n])
        BY <2>4, <3>1, <3>3, <4>1 DEF MoverIsBestLiving, Coords
      <4> QED
        BY <4>2 DEF Better
    <3>4. [m \in Node |-> Destination(m)]'
            = [[m \in Node |-> Destination(m)] EXCEPT ![n] = Homes[h]]
      BY <2>1, <3>1 DEF Homes
    <3>5. Undisturbed' => Abstract!Succeeds(n, h)
      BY <1>0, <3>1, <3>2, <3>3 DEF Abstract!Succeeds, Homes, TypeOK
    <3>6. Abstract!SetOut(n, h)
      BY <1>0, <1>2, <2>2, <3>1, <3>4, <3>5 DEF Abstract!SetOut, Homes
    <3> QED
      BY <1>2, <3>1, <3>6 DEF Abstract!Move
  <2> QED
    BY <2>3, <2>4
<1>3. ASSUME NEW n \in Node, NEW l \in Node, Detect(n, l) \/ Suspect(n, l)
      PROVE  [Abstract!Move]_(Abstract!places)
  <2>1. /\ n \in alive /\ status[n] = "idle" /\ alive' = alive /\ position' = position
        /\ TryToReplace(n, twoHopTable[n], l, EntryOf(twoHopTable[n].links, l).coords)
    BY <1>3, Starts
  <2>2. \A m \in Node \ {n} : status'[m] = status[m] /\ coordsFailing'[m] = coordsFailing[m]
    <3>1. /\ \E s : status' = [status EXCEPT ![n] = s]
          /\ \/ coordsFailing' = coordsFailing
             \/ \E c : coordsFailing' = [coordsFailing EXCEPT ![n] = c]
      BY <2>1, RoundAlone
    <3> QED
      BY <1>0, <3>1 DEF TypeOK
  <2> QED
    BY <1>2, <2>1, <2>2
<1>4. ASSUME NEW n \in Node, EndWait(n) PROVE [Abstract!Move]_(Abstract!places)
  <2>1. /\ n \in alive /\ status[n] = "waiting" /\ alive' = alive /\ position' = position
        /\ \/ TryToReplace(n, twoHopTable'[n], best[n], coordsFailing[n])
           \/ /\ \E s : status' = [status EXCEPT ![n] = s]
              /\ coordsFailing' = coordsFailing
    BY <1>4, Zenon DEF EndWait, locals
  <2>2. \A m \in Node \ {n} : status'[m] = status[m] /\ coordsFailing'[m] = coordsFailing[m]
    <3>1. /\ \E s : status' = [status EXCEPT ![n] = s]
          /\ \/ coordsFailing' = coordsFailing
             \/ \E c : coordsFailing' = [coordsFailing EXCEPT ![n] = c]
      BY <2>1, RoundAlone
    <3> QED
      BY <1>0, <3>1 DEF TypeOK
  <2> QED
    BY <1>2, <2>1, <2>2
<1>5. ASSUME NEW n \in Node, Arrive(n) PROVE [Abstract!Move]_(Abstract!places)
  <2>1. /\ n \in alive /\ status[n] = "moving" /\ alive' = alive /\ coordsFailing' = coordsFailing
        /\ position' = [position EXCEPT ![n] = coordsFailing[n]]
        /\ status' = [status EXCEPT ![n] = "idle"] \/ status' = [status EXCEPT ![n] = "raised"]
    BY <1>5 DEF Arrive, locals
  <2>2. \A m \in Node : Destination(m)' = Destination(m)
    BY <1>0, <2>1 DEF Destination, TypeOK
  <2>3. Destination(n) = coordsFailing[n] /\ position[n] # coordsFailing[n]
    BY <2>1 DEF Destination, MoversOK
  <2>4. Abstract!GetThere(n)
    BY <1>0, <2>1, <2>2, <2>3 DEF Abstract!GetThere
  <2> QED
    BY <2>1, <2>4 DEF Abstract!Move
<1>6. ASSUME NEW n \in Node, Crash(n) PROVE [Abstract!Move]_(Abstract!places)
  <2>1. /\ n \in alive /\ alive' = alive \ {n} /\ UNCHANGED <<position, status, coordsFailing>>
        /\ losses' = losses /\ mistakes' = mistakes
    BY <1>6 DEF Crash, locals, errors
  <2>2. \A m \in Node : Destination(m)' = Destination(m)
    BY <2>1 DEF Destination
  <2>3. (~Undisturbed)' = ~Undisturbed
    BY <2>1 DEF Undisturbed
  <2>4. Abstract!Die(n)
    BY <2>1, <2>2, <2>3 DEF Abstract!Die
  <2> QED
    BY <2>1, <2>4 DEF Abstract!Move
<1>7. ASSUME UNCHANGED <<alive, position, status, coordsFailing>>
      PROVE  [Abstract!Move]_(Abstract!places)
  <2>1. \A m \in Node : Destination(m)' = Destination(m)
    BY <1>7 DEF Destination
  <2> QED
    BY <1>1, <1>7, <2>1
<1>8. CASE Tick
  BY <1>7, <1>8 DEF Tick, locals
<1>9. CASE UNCHANGED vars
  BY <1>7, <1>9 DEF vars, locals
<1> QED
  BY <1>3, <1>4, <1>5, <1>6, <1>8, <1>9 DEF Next, Progress

\* Under the same hypotheses, whatever the tables, waits and messages do and
\* whoever is suspected, what is seen of the robots is the succession of the
\* abstract specification: a node leaves its place once, for that of a cut vertex
\* it was a neighbor of, and goes there; and until the first message is lost or the
\* first living node suspected, the cut vertex is dead, nobody who lives has its
\* place or is heading for it, and the best of the living neighbors goes (dara1C).
THEOREM Implements ==
  ASSUME NEW h \in Node, NEW o, OneCutVertex(h), ListedLast(h), Agreement(h, o),
         LongDrives(h, o)
  PROVE  Spec => ImplementsSuccession
<1> DEFINE Inv == TypeInv /\ HubInv(h) /\ LastInv(h) /\ Chasing(h, o)
           Seen == TypeInv /\ MoversOK(h) /\ NoTwoAtOnePlace /\ MoverIsBestLiving
<1>0. Files(h, o)
  BY DEF Files
<1>1. Spec => []Inv
  BY ChaseAlways
<1>2. Init => Once(h)
  BY <1>0, OnceInit
<1>3. ASSUME Inv, Undisturbed PROVE \E st : Known(h, o, st)
  <2>1. PICK st \in [Range(o) -> Nat] : Chase(h, o, st)
    BY <1>3 DEF Chasing
  <2> QED
    BY <1>0, <1>3, <2>1 DEF Known
<1>4. Inv /\ Once(h) /\ [Next]_vars => Once(h)'
  BY OnceNext
<1>5. ASSUME Inv, Once(h) PROVE Seen
  <2>1. MoversOK(h)
    BY <1>0, <1>5, Movers
  <2>2. NoTwoAtOnePlace /\ MoverIsBestLiving
    <3>1. CASE Undisturbed
      BY <1>3, <1>5, <3>1, ChaseSeparates, ChaseChoosesBest
    <3>2. CASE ~Undisturbed
      BY <3>2 DEF NoTwoAtOnePlace, MoverIsBestLiving
    <3> QED
      BY <3>1, <3>2
  <2> QED
    BY <1>5, <2>1, <2>2
<1>6. Seen /\ Seen' /\ [Next]_vars => [Abstract!Move]_(Abstract!places)
  BY StepMaps
<1>7. Init => Abstract!Begin
  <2>1. ASSUME Init PROVE [n \in Node |-> Destination(n)] = Homes /\ Undisturbed
    BY <2>1 DEF Init, Destination, Homes, Undisturbed
  <2> QED
    BY <2>1 DEF Init, Abstract!Begin, Homes
<1> HIDE DEF Inv, Seen
<1> QED
  BY <1>1, <1>2, <1>4, <1>5, <1>6, <1>7, PTL DEF Spec, ImplementsSuccession, Abstract!SuccessionSpec
=============================================================================
