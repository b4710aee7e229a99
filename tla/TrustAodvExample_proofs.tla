----------------------- MODULE TrustAodvExample_proofs -----------------------
(***************************************************************************)
(* Theorems about the helpers, for every list of calls, and about the      *)
(* example, with and without its prints and for every end of it.           *)
(***************************************************************************)
EXTENDS TrustAodvExample, FiniteSetTheorems, SequenceTheorems, TLAPS

\* Every set of numbers has a least one.
LEMMA Smallest ==
  ASSUME NEW S \in SUBSET Nat, S # {}
  PROVE  \E n \in S : \A m \in S : n <= m
<1>1. PICK n \in S : \A m \in S : ~(<<m, n>> \in OpToRel(<, Nat))
  BY NatLessThanWellFounded, WFMin
<1>2. \A m \in S : ~(m < n)
  BY <1>1 DEF OpToRel
<1> QED
  BY <1>2

\* Induction up to a bound, with the property given as the set of numbers that
\* have it.
LEMMA UpTo ==
  ASSUME NEW b \in Nat, NEW G, 1 \in G, \A n \in G : n \in 1 .. b - 1 => n + 1 \in G
  PROVE  1 .. b \subseteq G
<1> SUFFICES ASSUME (1 .. b) \ G # {} PROVE FALSE
  OBVIOUS
<1>1. (1 .. b) \ G \in SUBSET Nat
  OBVIOUS
<1>2. PICK n \in (1 .. b) \ G : \A m \in (1 .. b) \ G : n <= m
  BY <1>1, Smallest
<1>3. n # 1 /\ n \in Int
  BY <1>2
<1>4. n - 1 \in 1 .. b - 1 /\ (n - 1) + 1 = n /\ ~(n <= n - 1) /\ n - 1 \in 1 .. b
  BY <1>2, <1>3
<1>5. n - 1 \in G
  BY <1>2, <1>4
<1> QED
  BY <1>2, <1>4, <1>5

LEMMA MinIsLeast ==
  ASSUME NEW I \in SUBSET Nat, I # {}
  PROVE  Min(I) \in I /\ \A i \in I : Min(I) <= i
<1>1. \E x \in I : \A y \in I : x <= y
  BY Smallest
<1> QED
  BY <1>1 DEF Min

LEMMA MaxIsGreatest ==
  ASSUME NEW b \in Nat, NEW I \in SUBSET (1 .. b), I # {}
  PROVE  Max(I) \in I /\ \A i \in I : i <= Max(I)
<1> DEFINE J == {b - i : i \in I}
<1>1. \A i \in I : i \in Int /\ b - i \in Nat
  OBVIOUS
<1>2. PICK j \in J : \A k \in J : j <= k
  <2>1. J \in SUBSET Nat /\ J # {}
    BY <1>1
  <2> HIDE DEF J
  <2> QED
    BY <2>1, Smallest
<1>3. PICK x \in I : j = b - x
  OBVIOUS
<1>4. \A y \in I : x >= y
  <2> TAKE y \in I
  <2>1. b - x <= b - y
    BY <1>2, <1>3
  <2> QED
    BY <1>1, <2>1
<1> QED
  BY <1>4 DEF Max

-----------------------------------------------------------------------------
\* A concatenation has what its parts have, and once only if they do.
Concatenation(ss, f, n) == f = [i \in 1 .. n |-> IF i = 1 THEN ss[i] ELSE f[i - 1] \o ss[i]]

LEMMA ConcatenationExists ==
  ASSUME NEW ss, NEW b \in Nat \ {0}
  PROVE  \E f : Concatenation(ss, f, b)
<1> DEFINE G == {n \in 1 .. b : \E f : Concatenation(ss, f, n)}
<1>1. 1 \in G
  <2>1. Concatenation(ss, [i \in 1 .. 1 |-> ss[i]], 1)
    BY DEF Concatenation
  <2> QED
    BY <2>1
<1>2. ASSUME NEW n \in G, n \in 1 .. b - 1 PROVE n + 1 \in G
  <2>1. PICK f : Concatenation(ss, f, n)
    BY <1>2
  <2> DEFINE g == [i \in 1 .. n + 1 |-> IF i = n + 1 THEN f[n] \o ss[i] ELSE f[i]]
  <2>2. \A i \in 1 .. n + 1 : g[i] = IF i = 1 THEN ss[i] ELSE g[i - 1] \o ss[i]
    <3> TAKE i \in 1 .. n + 1
    <3>1. CASE i = n + 1
      <4>1. i # 1 /\ i - 1 = n /\ n \in 1 .. n + 1 /\ n # n + 1
        BY <1>2, <3>1
      <4> QED
        BY <3>1, <4>1
    <3>2. CASE i # n + 1
      <4>1. i \in 1 .. n
        BY <1>2, <3>2
      <4>2. f[i] = IF i = 1 THEN ss[i] ELSE f[i - 1] \o ss[i]
        BY <2>1, <4>1 DEF Concatenation
      <4>3. i # 1 => i - 1 \in 1 .. n + 1 /\ i - 1 # n + 1
        BY <4>1
      <4> QED
        BY <3>2, <4>2, <4>3
    <3> QED
      BY <3>1, <3>2
  <2>3. Concatenation(ss, g, n + 1)
    <3> DEFINE h == [i \in 1 .. n + 1 |-> IF i = 1 THEN ss[i] ELSE g[i - 1] \o ss[i]]
    <3>1. \A i \in 1 .. n + 1 : g[i] = h[i]
      BY <2>2
    <3>2. g = h
      BY <3>1
    <3> QED
      BY <3>2, Zenon DEF Concatenation
  <2>4. n + 1 \in 1 .. b
    BY <1>2
  <2> HIDE DEF g
  <2> QED
    BY <2>3, <2>4
<1>3. 1 .. b \subseteq G
  <2> HIDE DEF G
  <2> QED
    BY <1>1, <1>2, UpTo
<1> QED
  BY <1>3

\* What a concatenation t of the first n parts has.
Once(ss, n) ==
  \A i, j \in 1 .. n : \A k \in 1 .. Len(ss[i]), l \in 1 .. Len(ss[j]) :
    ss[i][k] = ss[j][l] => i = j /\ k = l

Joins(S, ss, n, t) ==
  /\ t \in Seq(S)
  /\ \A j \in 1 .. Len(t) : \E i \in 1 .. n : \E k \in 1 .. Len(ss[i]) : t[j] = ss[i][k]
  /\ \A i \in 1 .. n : \A k \in 1 .. Len(ss[i]) : \E j \in 1 .. Len(t) : t[j] = ss[i][k]
  /\ Once(ss, n) => \A i, j \in 1 .. Len(t) : t[i] = t[j] => i = j

LEMMA JoinOne ==
  ASSUME NEW S, NEW ss \in Seq(Seq(S)), Len(ss) > 0
  PROVE  Joins(S, ss, 1, ss[1])
<1>1. 1 \in 1 .. Len(ss) /\ ss[1] \in Seq(S) /\ Len(ss[1]) \in Nat
  OBVIOUS
<1>2. \A i \in 1 .. 1 : i = 1
  OBVIOUS
<1> QED
  BY <1>1, <1>2 DEF Joins, Once

LEMMA JoinMore ==
  ASSUME NEW S, NEW ss \in Seq(Seq(S)), NEW n \in 1 .. Len(ss) - 1, NEW t, Joins(S, ss, n, t)
  PROVE  Joins(S, ss, n + 1, t \o ss[n + 1])
<1> DEFINE u == ss[n + 1]
           new == t \o u
           a == Len(t)
<1>1. n \in Nat /\ n + 1 \in 1 .. Len(ss) /\ u \in Seq(S) /\ Len(u) \in Nat
  OBVIOUS
<1>2. t \in Seq(S) /\ a \in Nat
  BY DEF Joins
<1>3. /\ new \in Seq(S) /\ Len(new) = a + Len(u)
      /\ \A j \in 1 .. a : new[j] = t[j]
      /\ \A k \in 1 .. Len(u) : new[a + k] = u[k]
  BY <1>1, <1>2
<1>4. \A j \in 1 .. Len(new) : j \in 1 .. a \/ (j - a \in 1 .. Len(u) /\ j = a + (j - a))
  BY <1>1, <1>2, <1>3
<1>5. \A i \in 1 .. n + 1 : i = n + 1 \/ i \in 1 .. n
  BY <1>1
<1>6. /\ \A i \in 1 .. n : i \in 1 .. n + 1
      /\ \A j \in 1 .. a : j \in 1 .. Len(new)
      /\ \A k \in 1 .. Len(u) : a + k \in 1 .. Len(new)
  BY <1>1, <1>2, <1>3
<1> HIDE DEF new, u, a
<1>7. \A j \in 1 .. Len(new) : \E i \in 1 .. n + 1 : \E k \in 1 .. Len(ss[i]) : new[j] = ss[i][k]
  <2> TAKE j \in 1 .. Len(new)
  <2>1. CASE j \in 1 .. a
    <3>1. PICK i \in 1 .. n : \E k \in 1 .. Len(ss[i]) : t[j] = ss[i][k]
      BY <2>1 DEF Joins, a
    <3> QED
      BY <1>3, <1>6, <2>1, <3>1
  <2>2. CASE j - a \in 1 .. Len(u) /\ j = a + (j - a)
    <3>1. new[j] = u[j - a]
      BY <1>3, <2>2
    <3>2. n + 1 \in 1 .. n + 1
      BY <1>1
    <3> QED
      BY <2>2, <3>1, <3>2 DEF u
  <2> QED
    BY <1>4, <2>1, <2>2
<1>8. \A i \in 1 .. n + 1 : \A k \in 1 .. Len(ss[i]) : \E j \in 1 .. Len(new) : new[j] = ss[i][k]
  <2> TAKE i \in 1 .. n + 1
  <2> TAKE k \in 1 .. Len(ss[i])
  <2>1. CASE i \in 1 .. n
    <3>1. PICK j \in 1 .. a : t[j] = ss[i][k]
      BY <2>1 DEF Joins, a
    <3> QED
      BY <1>3, <1>6, <3>1
  <2>2. CASE i = n + 1
    BY <1>3, <1>6, <2>2 DEF u
  <2> QED
    BY <1>5, <2>1, <2>2
<1>9. ASSUME Once(ss, n + 1), NEW i \in 1 .. Len(new), NEW j \in 1 .. Len(new), new[i] = new[j]
      PROVE  i = j
  <2>1. Once(ss, n)
    <3> SUFFICES ASSUME NEW x \in 1 .. n, NEW y \in 1 .. n, NEW k \in 1 .. Len(ss[x]),
                        NEW l \in 1 .. Len(ss[y]), ss[x][k] = ss[y][l]
                 PROVE  x = y /\ k = l
      BY DEF Once
    <3>1. x \in 1 .. n + 1 /\ y \in 1 .. n + 1
      BY <1>6
    <3> QED
      BY <1>9, <3>1 DEF Once
  <2>2. \A x, y \in 1 .. a : t[x] = t[y] => x = y
    BY <2>1 DEF Joins, a
  <2>3. \A x, y \in 1 .. Len(u) : u[x] = u[y] => x = y
    <3>1. n + 1 \in 1 .. n + 1
      BY <1>1
    <3> QED
      BY <1>9, <3>1 DEF Once, u
  <2>4. ASSUME NEW x \in 1 .. a, NEW y \in 1 .. Len(u), t[x] = u[y] PROVE FALSE
    <3>1. PICK m \in 1 .. n : \E k \in 1 .. Len(ss[m]) : t[x] = ss[m][k]
      BY DEF Joins, a
    <3>2. PICK k \in 1 .. Len(ss[m]) : t[x] = ss[m][k]
      BY <3>1
    <3>3. m \in 1 .. n + 1 /\ n + 1 \in 1 .. n + 1 /\ m # n + 1
      BY <1>1
    <3> QED
      BY <1>9, <2>4, <3>2, <3>3 DEF Once, u
  <2>5. CASE i \in 1 .. a /\ j \in 1 .. a
    BY <1>3, <1>9, <2>2, <2>5
  <2>6. CASE i \in 1 .. a /\ j \notin 1 .. a
    <3>1. j - a \in 1 .. Len(u) /\ new[i] = t[i] /\ new[j] = u[j - a]
      BY <1>3, <1>4, <2>6
    <3> QED
      BY <1>9, <2>4, <2>6, <3>1
  <2>7. CASE i \notin 1 .. a /\ j \in 1 .. a
    <3>1. i - a \in 1 .. Len(u) /\ new[j] = t[j] /\ new[i] = u[i - a]
      BY <1>3, <1>4, <2>7
    <3> QED
      BY <1>9, <2>4, <2>7, <3>1
  <2>8. CASE i \notin 1 .. a /\ j \notin 1 .. a
    <3>1. /\ i - a \in 1 .. Len(u) /\ i = a + (i - a)
          /\ j - a \in 1 .. Len(u) /\ j = a + (j - a)
      BY <1>4, <2>8
    <3>2. new[i] = u[i - a] /\ new[j] = u[j - a]
      BY <1>3, <3>1
    <3>3. i - a = j - a
      BY <1>9, <2>3, <3>1, <3>2
    <3> QED
      BY <3>1, <3>3
  <2> QED
    BY <2>5, <2>6, <2>7, <2>8
<1> QED
  BY <1>3, <1>7, <1>8, <1>9 DEF Joins, new, u

LEMMA FlattenJoins ==
  ASSUME NEW S, NEW ss \in Seq(Seq(S))
  PROVE  Joins(S, ss, Len(ss), FlattenSeq(ss))
<1>1. CASE Len(ss) = 0
  <2>1. FlattenSeq(ss) = ss
    BY <1>1 DEF FlattenSeq
  <2>2. ss = << >>
    BY <1>1
  <2> QED
    BY <1>1, <2>1, <2>2 DEF Joins
<1>2. CASE Len(ss) # 0
  <2> DEFINE b == Len(ss)
             f == CHOOSE f : Concatenation(ss, f, b)
             G == {n \in 1 .. b : Joins(S, ss, n, f[n])}
  <2>1. b \in Nat \ {0}
    BY <1>2
  <2>2. FlattenSeq(ss) = f[b]
    BY <1>2 DEF FlattenSeq, Concatenation
  <2> HIDE DEF b
  <2>3. Concatenation(ss, f, b)
    <3>1. \E g : Concatenation(ss, g, b)
      BY <2>1, ConcatenationExists
    <3> QED
      BY <3>1
  <2> HIDE DEF f
  <2>4. 1 \in G
    <3>1. 1 \in 1 .. b /\ f[1] = ss[1]
      BY <2>1, <2>3 DEF Concatenation
    <3>2. Joins(S, ss, 1, ss[1])
      BY <2>1, JoinOne DEF b
    <3> QED
      BY <3>1, <3>2
  <2>5. ASSUME NEW n \in G, n \in 1 .. b - 1 PROVE n + 1 \in G
    <3>1. n + 1 \in 1 .. b /\ n + 1 # 1 /\ (n + 1) - 1 = n
      BY <2>1, <2>5
    <3>2. f[n + 1] = f[n] \o ss[n + 1]
      BY <2>3, <3>1 DEF Concatenation
    <3>3. Joins(S, ss, n + 1, f[n] \o ss[n + 1])
      BY <2>5, JoinMore DEF b
    <3> QED
      BY <3>1, <3>2, <3>3
  <2>6. b \in G
    <3> HIDE DEF G
    <3>1. 1 .. b \subseteq G
      BY <2>1, <2>4, <2>5, UpTo
    <3> QED
      BY <2>1, <3>1
  <2> QED
    BY <2>2, <2>6 DEF b
<1> QED
  BY <1>1, <1>2

-----------------------------------------------------------------------------
\* What the variables hold.  The provers are not told that "aodv" is in STRING.
Name == STRING \cup {"aodv", "static", "ns3::V4Ping", "ns3::SimpleAodvTrustManager"}
App ==
  [kind : {"manager", "ping"}, type : Name, start : Nat, stop : Nat,
   state : {"new", "running", "stopped"}]
Protocol == [kind : Name, stream : Nat \cup {NoStream}]
NodeObject == [routing : Seq(Protocol), apps : Seq(App)]
Request == [of : SUBSET Nat, time : Nat, repeats : BOOLEAN]
Handler ==
  [what : {"initialize"}, node : Nat]
  \cup [what : {"start", "end"}, node : Nat, app : Nat]
  \cup [what : {"print"}, node : Nat, out : Nat, interval : Nat]
  \cup [what : {"stop"}]
SimEvent == [time : Nat, uid : Nat, do : Handler]

ScriptTyped ==
  /\ script \in {Free} \cup DOMAIN Script /\ calls \in Nat
  /\ managerType \in Name /\ stack \in [helpers : Seq(Name), managerType : Name]
  /\ nodes \in Seq(NodeObject) /\ nextStream \in Nat
  /\ requests \in Seq(Request) /\ printed \in Seq(Seq(Nat)) /\ Len(printed) = Len(requests)
  /\ phase \in {"setup", "running", "over"}

\* An event is for somebody who is there.
HasTarget(d) ==
  /\ d.what # "stop" => d.node \in DOMAIN nodes
  /\ d.what \in {"start", "end"} => d.app \in DOMAIN nodes[d.node].apps
  /\ d.what = "print" => d.out \in DOMAIN requests

Numbered(S, u) == \A e \in S : e.uid <= u /\ \A f \in S : e.uid = f.uid => e = f

\* The queue is an order, and nothing in it is late.  Nodes come at time 0.
QueueTyped ==
  /\ now \in Nat /\ uid \in Nat /\ events \in SUBSET SimEvent
  /\ Numbered(events, uid)
  /\ \A e \in events :
       e.time >= now /\ HasTarget(e.do) /\ (e.do.what = "initialize" => e.time = 0)
  /\ phase = "setup" => now = 0

Typed == ScriptTyped /\ QueueTyped

-----------------------------------------------------------------------------
IsPrint(e, r, n) == e.do.what = "print" /\ e.do.out = r /\ e.do.node = n

\* For the request r node n has printed k times, and does so again at the time
\* asked for, if ever.
PrintedTimes(r, n, k) ==
  LET q == requests[r] IN
  /\ Lines(r, n) = k * Cardinality(Managers(n))
  /\ phase = "setup" => k = 0
  /\ \/ /\ q.repeats /\ k * q.time <= now
        /\ \E e \in events : IsPrint(e, r, n) /\ e.time = (k + 1) * q.time
     \/ /\ ~q.repeats /\ k = 0
        /\ \E e \in events : IsPrint(e, r, n) /\ e.time = q.time
     \/ /\ ~q.repeats /\ k = 1 /\ q.time <= now
        /\ ~ \E e \in events : IsPrint(e, r, n)

RequestOK(r) ==
  LET q == requests[r] IN
  /\ q.of \subseteq DOMAIN nodes
  /\ q.repeats => q.time > 0
  /\ \A n \in q.of : \E k \in Nat : PrintedTimes(r, n, k)
  /\ \A i \in DOMAIN printed[r] : printed[r][i] \in q.of
  /\ phase = "setup" => printed[r] = <<>>

PrintOK(e) ==
  LET q == requests[e.do.out] IN
  /\ e.do.node \in q.of
  /\ e.do.interval = IF q.repeats THEN q.time ELSE 0
  /\ \A f \in events : IsPrint(f, e.do.out, e.do.node) => f = e

PrintsOK ==
  /\ \A r \in DOMAIN requests : RequestOK(r)
  /\ \A e \in events : e.do.what = "print" => PrintOK(e)

-----------------------------------------------------------------------------
\* Node n was not initialized yet.
Unborn(n) == \E e \in events : e.do.what = "initialize" /\ e.do.node = n

Does(e, what, n, k) == e.do.what = what /\ e.do.node = n /\ e.do.app = k

AppOK(n, k) ==
  LET a == nodes[n].apps[k] IN
  /\ Unborn(n) => a.state = "new"
  /\ a.state = "running" => a.start <= now
  /\ ~Unborn(n) /\ a.start < a.stop =>
       /\ a.state = "new" => \E e \in events : Does(e, "start", n, k)
       /\ a.state # "stopped" => \E e \in events : Does(e, "end", n, k)

TurnOK(e) ==
  LET a == nodes[e.do.node].apps[e.do.app] IN
  /\ ~Unborn(e.do.node)
  /\ e.time = IF e.do.what = "start" THEN a.start ELSE a.stop
  /\ e.do.what = "start" /\ a.start < a.stop => a.state = "new"

AppsOK ==
  /\ \A n \in DOMAIN nodes : \A k \in DOMAIN nodes[n].apps : AppOK(n, k)
  /\ phase = "setup" => \A n \in DOMAIN nodes : Unborn(n)
  /\ \A e \in events :
       /\ e.do.what \in {"start", "end"} => TurnOK(e)
       /\ e.do.what \in {"initialize", "start", "end"} => \A f \in events : f.do = e.do => f = e

\* The pings of the example.
IsExamplePing(n, start, stop) ==
  \/ n \in 1 .. size /\ start = (n - 1) * 10000 /\ stop = 49999
  \/ n = Node(4) /\ start = 60000 /\ stop = 69999

ExamplePings ==
  script # Free => \A n \in DOMAIN nodes : \A k \in DOMAIN nodes[n].apps :
    LET a == nodes[n].apps[k] IN
    a.kind = "ping" => IsExamplePing(n, a.start, a.stop)
-----------------------------------------------------------------------------
\* The queue.
Nth(new, i) == [time |-> new[i].time, uid |-> uid + i, do |-> new[i].do]

Duty == [time : Nat, do : Handler]

LEMMA Scheduled ==
  ASSUME uid \in Nat, NEW others \in SUBSET SimEvent, Numbered(others, uid),
         NEW new \in Seq(Duty), Schedule(others, new)
  PROVE  /\ uid' \in Nat /\ events' \in SUBSET SimEvent /\ Numbered(events, uid)'
         /\ others \subseteq events'
         /\ \A i \in 1 .. Len(new) :
              Nth(new, i) \in events' /\ Nth(new, i).time = new[i].time /\ Nth(new, i).do = new[i].do
         /\ \A e \in events' : e \in others \/ \E i \in 1 .. Len(new) : e = Nth(new, i)
<1>1. DOMAIN new = 1 .. Len(new) /\ Len(new) \in Nat /\ \A i \in 1 .. Len(new) : new[i] \in Duty
  OBVIOUS
<1>2. events' = others \cup {Nth(new, i) : i \in 1 .. Len(new)} /\ uid' = uid + Len(new)
  BY <1>1 DEF Schedule, Nth
<1>3. \A i \in 1 .. Len(new) : Nth(new, i) \in SimEvent /\ Nth(new, i).uid = uid + i
  BY <1>1 DEF Nth, SimEvent, Duty
<1>4. \A e \in others : e.uid \in Nat /\ e.uid <= uid
  BY DEF SimEvent, Numbered
<1>5. Numbered(events, uid)'
  <2>1. \A e \in events' : e.uid <= uid'
    BY <1>1, <1>2, <1>3, <1>4
  <2>2. ASSUME NEW e \in events', NEW f \in events', e.uid = f.uid PROVE e = f
    <3>1. CASE e \in others /\ f \in others
      BY <2>2, <3>1 DEF Numbered
    <3>2. CASE e \notin others \/ f \notin others
      <4>1. \A i, j \in 1 .. Len(new) : uid + i = uid + j => i = j
        OBVIOUS
      <4>2. \A i \in 1 .. Len(new) : ~(uid + i <= uid)
        OBVIOUS
      <4>3. e \in others \/ \E i \in 1 .. Len(new) : e = Nth(new, i)
        BY <1>2
      <4>4. f \in others \/ \E i \in 1 .. Len(new) : f = Nth(new, i)
        BY <1>2
      <4> QED
        BY <1>3, <1>4, <2>2, <3>2, <4>1, <4>2, <4>3, <4>4
    <3> QED
      BY <3>1, <3>2
  <2> QED
    BY <2>1, <2>2 DEF Numbered
<1>6. \A i \in 1 .. Len(new) : Nth(new, i).time = new[i].time /\ Nth(new, i).do = new[i].do
  BY DEF Nth
<1> QED
  BY <1>1, <1>2, <1>3, <1>5, <1>6

LEMMA DueIsFirst ==
  ASSUME events \in SUBSET SimEvent, uid \in Nat, Numbered(events, uid), events # {}
  PROVE  Due \in events /\ \A e \in events : Due.time <= e.time
<1>0. \A e \in events : e.time \in Nat /\ e.uid \in Nat
  BY DEF SimEvent
<1>1. PICK t \in {e.time : e \in events} : \A u \in {e.time : e \in events} : t <= u
  <2>1. {e.time : e \in events} \in SUBSET Nat /\ {e.time : e \in events} # {}
    BY <1>0
  <2> QED
    BY <2>1, Smallest
<1> DEFINE first == {e \in events : e.time = t}
<1>2. PICK u \in {e.uid : e \in first} : \A v \in {e.uid : e \in first} : u <= v
  <2>1. {e.uid : e \in first} \in SUBSET Nat /\ {e.uid : e \in first} # {}
    BY <1>0, <1>1
  <2> QED
    BY <2>1, Smallest
<1>3. PICK d \in first : d.uid = u
  BY <1>2
<1>4. \A f \in events \ {d} : Earlier(d, f)
  <2> TAKE f \in events \ {d}
  <2>1. d.time <= f.time /\ d.time = t
    BY <1>1, <1>3
  <2>2. CASE f.time = t
    <3>1. d.uid <= f.uid
      BY <1>2, <1>3, <2>2
    <3>2. d.uid # f.uid
      BY <1>3 DEF Numbered
    <3> QED
      BY <1>0, <1>3, <2>1, <2>2, <3>1, <3>2 DEF Earlier
  <2>3. CASE f.time # t
    BY <1>0, <1>3, <2>1, <2>3 DEF Earlier
  <2> QED
    BY <2>2, <2>3
<1>5. Due \in events /\ \A f \in events \ {Due} : Earlier(Due, f)
  BY <1>3, <1>4, Zenon DEF Due
<1> QED
  BY <1>0, <1>5 DEF Earlier


-----------------------------------------------------------------------------
\* The calls.
Asks(who, time, repeats) ==
  /\ who \in Seq(Nat) /\ time \in Nat /\ repeats \in BOOLEAN
  /\ \A i \in 1 .. Len(who) : who[i] \in DOMAIN nodes
  /\ \A i, j \in 1 .. Len(who) : who[i] = who[j] => i = j
  /\ repeats => time > 0
  /\ Ask(who, time, repeats)

LEMMA Performed ==
  ASSUME ScriptTyped, NEW c \in HelperCall, Perform(c)
  PROVE  \/ CreateNode
         \/ \E tid \in STRING : SetManagerType(tid)
         \/ \E helpers \in Seq(STRING) : SetRoutingHelper(helpers)
         \/ \E n \in Nat : Install(n)
         \/ \E helper \in STRING, ns \in Seq(Nat) : AssignStreams(helper, ns)
         \/ \E who, time, repeats : Asks(who, time, repeats)
         \/ /\ c.call = "InstallPing" /\ c.node \in Nat /\ c.start \in Nat /\ c.stop \in Nat
            /\ InstallPing(c.node, c.start, c.stop)
         \/ \E time \in Nat : Stop(time)
<1>0. nodes \in Seq(NodeObject) /\ DOMAIN nodes = 1 .. Len(nodes) /\ Len(nodes) \in Nat
  BY DEF ScriptTyped
<1>1. ASSUME NEW time \in Nat, NEW repeats \in BOOLEAN, repeats => time > 0,
             Ask(AllNodes, time, repeats)
      PROVE  Asks(AllNodes, time, repeats)
  <2>1. AllNodes \in Seq(Nat) /\ Len(AllNodes) = Len(nodes) /\ \A i \in 1 .. Len(nodes) : AllNodes[i] = i
    BY <1>0 DEF AllNodes
  <2> HIDE DEF AllNodes
  <2> QED
    BY <1>0, <1>1, <2>1 DEF Asks
<1>2. ASSUME NEW time \in Nat, NEW repeats \in BOOLEAN, repeats => time > 0,
             NEW n \in Nat, n \in DOMAIN nodes, Ask(<<n>>, time, repeats)
      PROVE  Asks(<<n>>, time, repeats)
  <2>1. <<n>> \in Seq(Nat) /\ Len(<<n>>) = 1 /\ <<n>>[1] = n /\ \A i \in 1 .. 1 : i = 1
    OBVIOUS
  <2> QED
    BY <1>2, <2>1 DEF Asks
<1>3. CASE c \in [call : {"CreateNode"}]
  BY <1>3 DEF Perform
<1>4. CASE c \in [call : {"SetManagerType"}, type : STRING]
  BY <1>4 DEF Perform
<1>5. CASE c \in [call : {"SetRoutingHelper"}, helpers : Seq(STRING)]
  BY <1>5 DEF Perform
<1>6. CASE c \in [call : {"Install"}, node : Nat]
  BY <1>6 DEF Perform
<1>7. CASE c \in [call : {"AssignStreams"}, helper : STRING, nodes : Seq(Nat)]
  BY <1>7 DEF Perform
<1>8. CASE c \in [call : {"PrintTrustTableAllAt"}, time : Nat]
  <2>1. PrintTrustTableAllAt(c.time) /\ c.time \in Nat
    BY <1>8 DEF Perform
  <2> QED
    BY <1>1, <2>1 DEF PrintTrustTableAllAt
<1>9. CASE c \in [call : {"PrintTrustTableAllEvery"}, time : Nat \ {0}]
  <2>0. c.call = "PrintTrustTableAllEvery" /\ c.time \in Nat \ {0}
    BY <1>9
  <2>1. PrintTrustTableAllEvery(c.time) /\ c.time \in Nat /\ c.time > 0
    BY <2>0 DEF Perform
  <2> QED
    BY <1>1, <2>1 DEF PrintTrustTableAllEvery
<1>10. CASE c \in [call : {"PrintTrustTableAt"}, time : Nat, node : Nat]
  <2>1. PrintTrustTableAt(c.time, c.node) /\ c.time \in Nat /\ c.node \in Nat
    BY <1>10 DEF Perform
  <2> QED
    BY <1>2, <2>1 DEF PrintTrustTableAt
<1>11. CASE c \in [call : {"PrintTrustTableEvery"}, time : Nat \ {0}, node : Nat]
  <2>0. c.call = "PrintTrustTableEvery" /\ c.time \in Nat \ {0} /\ c.node \in Nat
    BY <1>11
  <2>1. PrintTrustTableEvery(c.time, c.node) /\ c.time \in Nat /\ c.time > 0 /\ c.node \in Nat
    BY <2>0 DEF Perform
  <2> QED
    BY <1>2, <2>1 DEF PrintTrustTableEvery
<1>12. CASE c \in [call : {"InstallPing"}, node : Nat, start : Nat, stop : Nat]
  BY <1>12 DEF Perform
<1>13. CASE c \in [call : {"Stop"}, time : Nat]
  BY <1>13 DEF Perform
<1> QED
  BY <1>3, <1>4, <1>5, <1>6, <1>7, <1>8, <1>9, <1>10, <1>11, <1>12, <1>13 DEF HelperCall

LEMMA NextIsACall ==
  ASSUME ScriptTyped
  PROVE  \A c \in NextCall : c \in HelperCall
<1>1. ASSUME script # Free PROVE \A i \in DOMAIN Script[script] : Script[script][i] \in HelperCall
  <2>1. script \in DOMAIN Script
    BY <1>1 DEF ScriptTyped
  <2>2. Script[script] \in Seq(HelperCall)
    BY <2>1, CallsAssumption
  <2> QED
    BY <2>2
<1> QED
  BY <1>1, CallsAssumption DEF NextCall


-----------------------------------------------------------------------------
\* What a step does to the applications: none goes, and what comes is of new.
AppsGrow(new) ==
  /\ DOMAIN nodes \subseteq DOMAIN nodes'
  /\ \A n \in DOMAIN nodes : DOMAIN nodes[n].apps \subseteq DOMAIN nodes'[n].apps
  /\ \A n \in DOMAIN nodes' : \A k \in DOMAIN nodes'[n].apps :
       IF n \in DOMAIN nodes /\ k \in DOMAIN nodes[n].apps
       THEN nodes'[n].apps[k] = nodes[n].apps[k]
       ELSE <<n, nodes'[n].apps[k]>> \in new

\* What a call may add.
NewApps(c) ==
  {p \in Nat \X App : /\ p[2].state = "new"
                      /\ p[2].kind = "ping" => /\ c.call = "InstallPing" /\ p[1] = c.node
                                               /\ p[2].start = c.start /\ p[2].stop = c.stop}

LEMMA NodesTyped ==
  ASSUME ScriptTyped
  PROVE  /\ DOMAIN nodes = 1 .. Len(nodes) /\ Len(nodes) \in Nat
         /\ \A n \in DOMAIN nodes :
              /\ nodes[n] \in NodeObject /\ n \in Nat
              /\ nodes[n].routing \in Seq(Protocol) /\ nodes[n].apps \in Seq(App)
              /\ DOMAIN nodes[n].apps = 1 .. Len(nodes[n].apps) /\ Len(nodes[n].apps) \in Nat
              /\ DOMAIN nodes[n].routing = 1 .. Len(nodes[n].routing)
              /\ Len(nodes[n].routing) \in Nat
              /\ \A k \in DOMAIN nodes[n].apps : nodes[n].apps[k] \in App
              /\ \A i \in DOMAIN nodes[n].routing : nodes[n].routing[i] \in Protocol
<1>1. nodes \in Seq(NodeObject) /\ DOMAIN nodes = 1 .. Len(nodes) /\ Len(nodes) \in Nat
  BY DEF ScriptTyped
<1>2. \A n \in DOMAIN nodes : nodes[n] \in NodeObject /\ n \in Nat
  BY <1>1
<1>3. \A n \in DOMAIN nodes : nodes[n].routing \in Seq(Protocol) /\ nodes[n].apps \in Seq(App)
  BY <1>2 DEF NodeObject
<1> QED
  BY <1>1, <1>2, <1>3

LEMMA AppsStay ==
  ASSUME ScriptTyped, NEW new, DOMAIN nodes' = DOMAIN nodes,
         \A n \in DOMAIN nodes : nodes'[n].apps = nodes[n].apps
  PROVE  AppsGrow(new)
BY DEF AppsGrow

\* One node gets more applications.
LEMMA AppsAdded ==
  ASSUME ScriptTyped, NEW new, NEW n \in DOMAIN nodes, NEW it \in NodeObject,
         NEW more \in Seq(App), \A k \in 1 .. Len(more) : <<n, more[k]>> \in new,
         it.apps = nodes[n].apps \o more, nodes' = [nodes EXCEPT ![n] = it]
  PROVE  nodes' \in Seq(NodeObject) /\ AppsGrow(new)
<1> DEFINE was == nodes[n].apps
<1>1. was \in Seq(App) /\ DOMAIN was = 1 .. Len(was) /\ Len(was) \in Nat
  BY NodesTyped
<1>2. /\ DOMAIN (was \o more) = 1 .. Len(was) + Len(more)
      /\ \A k \in 1 .. Len(was) + Len(more) :
           (was \o more)[k] = IF k \in 1 .. Len(was) THEN was[k] ELSE more[k - Len(was)]
  BY <1>1
<1>3. /\ DOMAIN nodes' = DOMAIN nodes
      /\ nodes'[n] = it /\ \A m \in DOMAIN nodes \ {n} : nodes'[m] = nodes[m]
  BY DEF ScriptTyped
<1>4. nodes' \in Seq(NodeObject)
  <2>1. n \in 1 .. Len(nodes) /\ nodes \in Seq(NodeObject)
    BY NodesTyped DEF ScriptTyped
  <2>2. [nodes EXCEPT ![n] = it] \in Seq(NodeObject)
    BY <2>1, ExceptSeq
  <2> QED
    BY <2>2
<1>5. \A k \in DOMAIN nodes'[n].apps :
        IF k \in DOMAIN was THEN nodes'[n].apps[k] = was[k] ELSE <<n, nodes'[n].apps[k]>> \in new
  <2>1. \A k \in 1 .. Len(was) + Len(more) : k \notin 1 .. Len(was) => k - Len(was) \in 1 .. Len(more)
    BY <1>1
  <2>2. \A k \in 1 .. Len(was) + Len(more) :
          IF k \in 1 .. Len(was) THEN it.apps[k] = was[k] ELSE it.apps[k] = more[k - Len(was)]
    BY <1>2
  <2>3. \A k \in 1 .. Len(was) + Len(more) :
          k \notin 1 .. Len(was) => <<n, more[k - Len(was)]>> \in new
    BY <2>1
  <2> QED
    BY <1>1, <1>2, <1>3, <2>2, <2>3
<1>6. DOMAIN was \subseteq DOMAIN nodes'[n].apps
  BY <1>1, <1>2, <1>3
<1>7. AppsGrow(new)
  <2>1. \A m \in DOMAIN nodes : DOMAIN nodes[m].apps \subseteq DOMAIN nodes'[m].apps
    BY <1>3, <1>6
  <2>2. ASSUME NEW m \in DOMAIN nodes', NEW k \in DOMAIN nodes'[m].apps
        PROVE  IF m \in DOMAIN nodes /\ k \in DOMAIN nodes[m].apps
               THEN nodes'[m].apps[k] = nodes[m].apps[k]
               ELSE <<m, nodes'[m].apps[k]>> \in new
    <3>1. CASE m = n
      BY <1>3, <1>5, <2>2, <3>1
    <3>2. CASE m # n
      BY <1>3, <2>2, <3>2
    <3> QED
      BY <3>1, <3>2
  <2> QED
    BY <1>3, <2>1, <2>2 DEF AppsGrow
<1> QED
  BY <1>4, <1>7

\* A node n is given the stream of the place i in the list.
Place(helper, ns, i) == Cardinality({j \in Matched(helper, ns) : j < i})

Given(helper, ns, n, m, i) ==
  /\ m \in DOMAIN nodes[n].routing
  /\ i \in Matched(helper, ns) /\ ns[i] = n
  /\ nodes'[n] = [nodes[n] EXCEPT !.routing[m].stream = nextStream + Place(helper, ns, i)]

LEMMA StreamsGiven ==
  ASSUME ScriptTyped, NEW helper, NEW ns \in Seq(Nat), AssignStreams(helper, ns)
  PROVE  /\ DOMAIN nodes' = DOMAIN nodes
         /\ \A n \in DOMAIN nodes :
              nodes'[n] = nodes[n] \/ \E m, i : Given(helper, ns, n, m, i)
<1> DEFINE given == Matched(helper, ns)
<1>1. given \subseteq 1 .. Len(ns) /\ Len(ns) \in Nat
  BY DEF Matched
<1>2. \A i \in given : Matching(helper, ns[i]) # {}
  BY DEF Matched
<1>3. ASSUME NEW n \in DOMAIN nodes, NEW i0 \in given, ns[i0] = n
      PROVE  \E m, i : Given(helper, ns, n, m, i)
  <2> DEFINE here == {i \in given : ns[i] = n}
             i == Max(here)
             m == Min(Matching(helper, n))
  <2>1. here \in SUBSET (1 .. Len(ns)) /\ here # {}
    BY <1>1, <1>3
  <2>2. i \in here
    BY <1>1, <2>1, MaxIsGreatest, Zenon
  <2>3. Matching(helper, n) \in SUBSET Nat /\ Matching(helper, n) # {}
        /\ Matching(helper, n) \subseteq DOMAIN nodes[n].routing
    <3>1. DOMAIN nodes[n].routing \subseteq Nat
      BY NodesTyped
    <3> QED
      BY <1>2, <1>3, <3>1 DEF Matching
  <2>4. m \in DOMAIN nodes[n].routing
    BY <2>3, MinIsLeast
  <2>5. nodes'[n] = [nodes[n] EXCEPT !.routing[m].stream =
                       nextStream + Cardinality({j \in given : j < i})]
    BY <1>3 DEF AssignStreams, WithStreams
  <2> HIDE DEF m, i
  <2>6. Given(helper, ns, n, m, i)
    BY <2>2, <2>4, <2>5 DEF Given, Place
  <2> QED
    BY <2>6
<1>4. DOMAIN nodes' = DOMAIN nodes
  BY DEF AssignStreams, WithStreams
<1>5. \A n \in DOMAIN nodes : (\E i \in given : ns[i] = n) \/ nodes'[n] = nodes[n]
  BY DEF AssignStreams, WithStreams
<1> QED
  BY <1>3, <1>4, <1>5

LEMMA GivenIsTyped ==
  ASSUME ScriptTyped, NEW helper, NEW ns \in Seq(Nat), NEW n \in DOMAIN nodes,
         NEW m, NEW i, Given(helper, ns, n, m, i)
  PROVE  /\ Place(helper, ns, i) \in Nat
         /\ nodes'[n] \in NodeObject /\ nodes'[n].apps = nodes[n].apps
         /\ DOMAIN nodes'[n].routing = DOMAIN nodes[n].routing
         /\ nodes'[n].routing[m].stream = nextStream + Place(helper, ns, i)
         /\ \A l \in DOMAIN nodes[n].routing \ {m} : nodes'[n].routing[l] = nodes[n].routing[l]
<1> DEFINE before == {j \in Matched(helper, ns) : j < i}
           at == nextStream + Cardinality(before)
<1>1. Cardinality(before) \in Nat
  <2>1. before \subseteq 1 .. Len(ns) /\ Len(ns) \in Nat
    BY DEF Matched
  <2>2. IsFiniteSet(1 .. Len(ns))
    BY <2>1, FS_Interval
  <2> HIDE DEF before
  <2>3. IsFiniteSet(before)
    BY <2>1, <2>2, FS_Subset
  <2> QED
    BY <2>3, FS_CardinalityType
<1>2. at \in Nat
  BY <1>1 DEF ScriptTyped
<1>3. nodes[n] \in NodeObject /\ nodes[n].routing \in Seq(Protocol) /\ m \in DOMAIN nodes[n].routing
      /\ nodes[n].routing[m] \in Protocol
  BY NodesTyped DEF Given
<1>4. nodes'[n] = [nodes[n] EXCEPT !.routing[m].stream = at]
  BY DEF Given, Place
<1> HIDE DEF at
<1>5. [nodes[n].routing[m] EXCEPT !.stream = at] \in Protocol
  BY <1>2, <1>3 DEF Protocol
<1> DEFINE r == [nodes[n].routing EXCEPT ![m].stream = at]
<1>6. r \in Seq(Protocol) /\ DOMAIN r = DOMAIN nodes[n].routing /\ r[m].stream = at
      /\ \A l \in DOMAIN nodes[n].routing \ {m} : r[l] = nodes[n].routing[l]
  BY <1>3, <1>5 DEF Protocol
<1>7. nodes'[n] \in NodeObject /\ nodes'[n].apps = nodes[n].apps /\ nodes'[n].routing = r
  <2>1. nodes'[n] = [nodes[n] EXCEPT !.routing = r]
    BY <1>3, <1>4 DEF NodeObject
  <2> HIDE DEF r
  <2> QED
    BY <1>3, <1>6, <2>1 DEF NodeObject
<1> QED
  BY <1>1, <1>6, <1>7 DEF at, Place

LEMMA CallEffect ==
  ASSUME ScriptTyped, NEW c \in HelperCall, Perform(c)
  PROVE  nodes' \in Seq(NodeObject) /\ AppsGrow(NewApps(c))
<1> DEFINE new == NewApps(c)
<1>0. nodes \in Seq(NodeObject) /\ stack \in [helpers : Seq(Name), managerType : Name]
  BY DEF ScriptTyped
<1>1. ASSUME UNCHANGED nodes PROVE nodes' \in Seq(NodeObject) /\ AppsGrow(new)
  BY <1>0, <1>1, AppsStay
<1>2. CASE CreateNode
  <2> DEFINE one == [routing |-> << >>, apps |-> << >>]
  <2>1. one \in NodeObject
    BY DEF NodeObject
  <2>2. one.apps = << >>
    OBVIOUS
  <2>3. nodes' = Append(nodes, one)
    BY <1>2 DEF CreateNode
  <2> HIDE DEF one
  <2>4. /\ nodes' \in Seq(NodeObject) /\ DOMAIN nodes' = 1 .. Len(nodes) + 1
        /\ DOMAIN nodes = 1 .. Len(nodes) /\ Len(nodes) \in Nat
        /\ nodes'[Len(nodes) + 1] = one /\ \A n \in DOMAIN nodes : nodes'[n] = nodes[n]
    BY <1>0, <2>1, <2>3
  <2>5. \A n \in DOMAIN nodes' : n \in DOMAIN nodes \/ nodes'[n] = one
    BY <2>4
  <2>6. DOMAIN nodes \subseteq DOMAIN nodes'
    BY <2>4
  <2>7. DOMAIN one.apps = {}
    BY <2>2
  <2> QED
    BY <2>4, <2>5, <2>6, <2>7 DEF AppsGrow
<1>3. CASE \E n \in Nat : Install(n)
  <2>1. PICK n \in Nat : Install(n)
    BY <1>3
  <2> DEFINE trust == {i \in DOMAIN stack.helpers : stack.helpers[i] = "trust"}
             r == [i \in DOMAIN stack.helpers |-> Agent(stack.helpers[i])]
             more == [i \in 1 .. Cardinality(trust) |-> Manager(stack.managerType)]
  <2>2. n \in DOMAIN nodes /\ nodes[n] \in NodeObject
    BY <2>1, NodesTyped DEF Install
  <2>3. nodes' = [nodes EXCEPT ![n].routing = r, ![n].apps = @ \o more]
    BY <2>1 DEF Install
  <2>4. stack.helpers \in Seq(Name) /\ DOMAIN stack.helpers = 1 .. Len(stack.helpers)
        /\ Len(stack.helpers) \in Nat
    BY <1>0
  <2>5. r \in Seq(Protocol)
    <3>1. \A i \in DOMAIN stack.helpers : stack.helpers[i] \in Name
      BY <2>4
    <3>2. ASSUME NEW h \in Name PROVE Agent(h) \in Protocol
      <4>1. CASE h = "trust"
        <5>1. "aodv" \in Name
          BY DEF Name
        <5> QED
          BY <4>1, <5>1 DEF Agent, Protocol
      <4>2. CASE h # "trust"
        BY <4>2 DEF Agent, Protocol
      <4> QED
        BY <4>1, <4>2
    <3> QED
      BY <2>4, <3>1, <3>2
  <2>6. Manager(stack.managerType) \in App /\ <<n, Manager(stack.managerType)>> \in new
    <3>1. stack.managerType \in Name
      BY <1>0
    <3>2. Manager(stack.managerType) \in App
      BY <3>1 DEF Manager, App
    <3>3. Manager(stack.managerType).kind = "manager" /\ Manager(stack.managerType).state = "new"
      BY DEF Manager
    <3> QED
      BY <3>2, <3>3 DEF NewApps
  <2>7. Cardinality(trust) \in Nat
    <3>1. trust \subseteq 1 .. Len(stack.helpers)
      BY <2>4
    <3>2. IsFiniteSet(1 .. Len(stack.helpers))
      BY <2>4, FS_Interval
    <3> HIDE DEF trust
    <3>3. IsFiniteSet(trust)
      BY <3>1, <3>2, FS_Subset
    <3> QED
      BY <3>3, FS_CardinalityType
  <2>8. more \in Seq(App) /\ \A k \in 1 .. Len(more) : <<n, more[k]>> \in new
    <3> HIDE DEF trust, new
    <3> QED
      BY <2>6, <2>7
  <2> HIDE DEF r, more
  <2>9. PICK it, added : it = [[nodes[n] EXCEPT !.routing = r] EXCEPT !.apps = @ \o more] /\ added = more
    OBVIOUS
  <2>10. it \in NodeObject /\ it.apps = nodes[n].apps \o added
    <3>1. nodes[n].apps \o more \in Seq(App)
      BY <2>2, <2>8 DEF NodeObject
    <3> QED
      BY <2>2, <2>5, <2>9, <3>1 DEF NodeObject
  <2>11. nodes' = [nodes EXCEPT ![n] = it]
    BY <1>0, <2>2, <2>3, <2>9
  <2>12. added \in Seq(App) /\ \A k \in 1 .. Len(added) : <<n, added[k]>> \in new
    BY <2>8, <2>9
  <2> QED
    BY <2>2, <2>10, <2>11, <2>12, AppsAdded
<1>4. CASE \E helper \in STRING, ns \in Seq(Nat) : AssignStreams(helper, ns)
  <2>1. PICK helper \in STRING, ns \in Seq(Nat) : AssignStreams(helper, ns)
    BY <1>4
  <2>2. \A n \in DOMAIN nodes : nodes'[n] \in NodeObject /\ nodes'[n].apps = nodes[n].apps
    BY <2>1, StreamsGiven, GivenIsTyped, NodesTyped
  <2>3. DOMAIN nodes' = DOMAIN nodes
    BY <2>1, StreamsGiven
  <2>4. nodes' = [n \in 1 .. Len(nodes) |-> nodes'[n]]
    <3>1. nodes' = [n \in DOMAIN nodes |-> nodes'[n]]
      BY <2>1 DEF AssignStreams, WithStreams
    <3> QED
      BY <3>1, NodesTyped
  <2>5. nodes' \in Seq(NodeObject)
    BY <2>2, <2>4, NodesTyped
  <2> QED
    BY <2>2, <2>3, <2>5, AppsStay
<1>5. CASE /\ c.call = "InstallPing" /\ c.node \in Nat /\ c.start \in Nat /\ c.stop \in Nat
           /\ InstallPing(c.node, c.start, c.stop)
  <2> DEFINE n == c.node
             ping == [kind |-> "ping", type |-> "ns3::V4Ping", start |-> c.start, stop |-> c.stop,
                      state |-> "new"]
             more == <<ping>>
  <2>1. n \in DOMAIN nodes /\ nodes[n] \in NodeObject
    BY <1>5, NodesTyped DEF InstallPing
  <2>2. ping \in App
    <3>1. c.start \in Nat /\ c.stop \in Nat
      BY <1>5
    <3>2. \A t \in Name :
            [kind |-> "ping", type |-> t, start |-> c.start, stop |-> c.stop, state |-> "new"] \in App
      BY <3>1 DEF App
    <3>3. "ns3::V4Ping" \in Name
      BY Zenon DEF Name
    <3> QED
      BY <3>2, <3>3, Zenon
  <2>3. <<n, ping>> \in new
    BY <1>5, <2>2 DEF NewApps
  <2>4. nodes' = [nodes EXCEPT ![n].apps = Append(@, ping)]
    BY <1>5 DEF InstallPing
  <2> HIDE DEF ping
  <2>5. more \in Seq(App) /\ \A k \in 1 .. Len(more) : <<n, more[k]>> \in new
    BY <2>2, <2>3
  <2>6. nodes[n].apps \in Seq(App) /\ nodes[n].apps \o more \in Seq(App)
    BY <2>1, <2>5 DEF NodeObject
  <2>7. Append(nodes[n].apps, ping) = nodes[n].apps \o more
    BY <2>2, <2>6, AppendIsConcat
  <2> HIDE DEF more
  <2>8. PICK it, added : it = [nodes[n] EXCEPT !.apps = nodes[n].apps \o more] /\ added = more
    OBVIOUS
  <2>9. it \in NodeObject /\ it.apps = nodes[n].apps \o added
    BY <2>1, <2>6, <2>8 DEF NodeObject
  <2>10. nodes' = [nodes EXCEPT ![n] = it]
    BY <1>0, <2>1, <2>4, <2>7, <2>8
  <2>11. added \in Seq(App) /\ \A k \in 1 .. Len(added) : <<n, added[k]>> \in new
    BY <2>5, <2>8
  <2> QED
    BY <2>1, <2>9, <2>10, <2>11, AppsAdded
<1>6. CASE \E tid \in STRING : SetManagerType(tid)
  BY <1>1, <1>6 DEF SetManagerType
<1>7. CASE \E helpers \in Seq(STRING) : SetRoutingHelper(helpers)
  BY <1>1, <1>7 DEF SetRoutingHelper
<1>8. CASE \E who, time, repeats : Asks(who, time, repeats)
  BY <1>1, <1>8 DEF Asks, Ask
<1>9. CASE \E time \in Nat : Stop(time)
  BY <1>1, <1>9 DEF Stop
<1> QED
  BY <1>2, <1>3, <1>4, <1>5, <1>6, <1>7, <1>8, <1>9, Performed

-----------------------------------------------------------------------------
\* Nobody that an event is for goes away.
Grows ==
  /\ DOMAIN nodes \subseteq DOMAIN nodes'
  /\ \A n \in DOMAIN nodes : DOMAIN nodes[n].apps \subseteq DOMAIN nodes'[n].apps
  /\ DOMAIN requests \subseteq DOMAIN requests'

LEMMA TargetsStay ==
  ASSUME Grows, NEW d, HasTarget(d)
  PROVE  HasTarget(d)'
BY DEF HasTarget, Grows

LEMMA QueueKept ==
  ASSUME QueueTyped, Grows,
         UNCHANGED <<queue, now>>, phase' = "setup" => phase = "setup"
  PROVE  QueueTyped'
<1>1. events' = events /\ uid' = uid /\ now' = now
  BY DEF queue
<1>2. ASSUME NEW e \in events PROVE HasTarget(e.do)'
  BY TargetsStay DEF QueueTyped
<1> QED
  BY <1>1, <1>2 DEF QueueTyped, Numbered

LEMMA QueueScheduled ==
  ASSUME QueueTyped, Grows,
         NEW others \in SUBSET events, NEW duties \in Seq(Duty), Schedule(others, duties),
         now' \in Nat, \A e \in others : e.time >= now',
         \A i \in 1 .. Len(duties) :
           /\ duties[i].time >= now' /\ HasTarget(duties[i].do)'
           /\ duties[i].do.what = "initialize" => duties[i].time = 0,
         phase' = "setup" => now' = 0
  PROVE  QueueTyped'
<1>1. uid \in Nat /\ events \in SUBSET SimEvent /\ others \in SUBSET SimEvent
      /\ Numbered(others, uid)
  BY DEF QueueTyped, Numbered
<1>2. ASSUME NEW e \in events PROVE HasTarget(e.do)'
  BY TargetsStay DEF QueueTyped
<1>3. /\ uid' \in Nat /\ events' \in SUBSET SimEvent /\ Numbered(events, uid)'
      /\ \A i \in 1 .. Len(duties) :
           Nth(duties, i).time = duties[i].time /\ Nth(duties, i).do = duties[i].do
      /\ \A e \in events' : e \in others \/ \E i \in 1 .. Len(duties) : e = Nth(duties, i)
  BY <1>1, Scheduled
<1>4. ASSUME NEW e \in events'
      PROVE  e.time >= now' /\ HasTarget(e.do)' /\ (e.do.what = "initialize" => e.time = 0)
  <2>1. CASE e \in others
    BY <1>2, <2>1 DEF QueueTyped
  <2>2. CASE e \notin others
    <3>1. PICK i \in 1 .. Len(duties) : e = Nth(duties, i)
      BY <1>3, <2>2
    <3>2. e.time = duties[i].time /\ e.do = duties[i].do
      BY <1>3, <3>1
    <3> QED
      BY <3>2
  <2> QED
    BY <2>1, <2>2
<1> QED
  BY <1>3, <1>4 DEF QueueTyped

-----------------------------------------------------------------------------
\* What the variables hold is kept by the calls of a script.
LEMMA MatchedIsFinite ==
  ASSUME NEW helper, NEW ns \in Seq(Nat)
  PROVE  IsFiniteSet(Matched(helper, ns)) /\ Cardinality(Matched(helper, ns)) \in Nat
<1>1. Matched(helper, ns) \subseteq 1 .. Len(ns) /\ Len(ns) \in Nat
  BY DEF Matched
<1>2. IsFiniteSet(1 .. Len(ns))
  BY <1>1, FS_Interval
<1>3. IsFiniteSet(Matched(helper, ns))
  BY <1>1, <1>2, FS_Subset
<1> QED
  BY <1>3, FS_CardinalityType

IsAskedOf(duty, n, time, repeats) ==
  /\ duty.time = time /\ duty.do.what = "print" /\ duty.do.node = n
  /\ duty.do.out = Len(requests) + 1
  /\ duty.do.interval = IF repeats THEN time ELSE 0

LEMMA AskIsTyped ==
  ASSUME Typed, NEW who, NEW time, NEW repeats, Asks(who, time, repeats)
  PROVE  /\ requests' \in Seq(Request) /\ Len(requests') = Len(requests) + 1
         /\ requests'[Len(requests) + 1] = [of |-> Range(who), time |-> time, repeats |-> repeats]
         /\ \A r \in DOMAIN requests : requests'[r] = requests[r]
         /\ printed' \in Seq(Seq(Nat)) /\ Len(printed') = Len(printed) + 1
         /\ printed'[Len(requests) + 1] = << >>
         /\ \A r \in DOMAIN printed : printed'[r] = printed[r]
         /\ \E duties \in Seq(Duty) :
              /\ Schedule(events, duties) /\ Len(duties) = Len(who)
              /\ \A i \in 1 .. Len(who) : IsAskedOf(duties[i], who[i], time, repeats)
<1>1. /\ who \in Seq(Nat) /\ DOMAIN who = 1 .. Len(who) /\ Len(who) \in Nat
      /\ time \in Nat /\ repeats \in BOOLEAN
  BY DEF Asks
<1>2. /\ requests \in Seq(Request) /\ DOMAIN requests = 1 .. Len(requests) /\ Len(requests) \in Nat
      /\ printed \in Seq(Seq(Nat)) /\ Len(printed) = Len(requests)
      /\ DOMAIN printed = 1 .. Len(printed)
  BY DEF Typed, ScriptTyped
<1> DEFINE q == [of |-> Range(who), time |-> time, repeats |-> repeats]
           out == Len(requests) + 1
           Of(n) == [what |-> "print", node |-> n, out |-> out,
                     interval |-> IF repeats THEN time ELSE 0]
           d == [i \in DOMAIN who |-> [time |-> time, do |-> Of(who[i])]]
<1>3. requests' = Append(requests, q) /\ printed' = Append(printed, << >>) /\ Schedule(events, d)
  BY DEF Asks, Ask
<1>4. q \in Request
  <2>1. Range(who) \subseteq Nat
    BY <1>1 DEF Range
  <2> QED
    BY <1>1, <2>1 DEF Request
<1>5. out \in Nat
  BY <1>2
<1>6. \A i \in 1 .. Len(who) : IsAskedOf(d[i], who[i], time, repeats)
  BY <1>1 DEF IsAskedOf
<1>7. d \in Seq(Duty) /\ Len(d) = Len(who)
  <2>1. ASSUME NEW i \in 1 .. Len(who) PROVE [time |-> time, do |-> Of(who[i])] \in Duty
    <3>1. who[i] \in Nat /\ (IF repeats THEN time ELSE 0) \in Nat
      BY <1>1
    <3>2. Of(who[i]) \in Handler
      BY <1>5, <3>1 DEF Handler
    <3> QED
      BY <1>1, <3>2 DEF Duty
  <2> HIDE DEF Of
  <2> QED
    BY <1>1, <2>1
<1> HIDE DEF q, d
<1>8. /\ requests' \in Seq(Request) /\ Len(requests') = Len(requests) + 1
      /\ requests'[Len(requests) + 1] = q
      /\ \A r \in DOMAIN requests : requests'[r] = requests[r]
  BY <1>2, <1>3, <1>4
<1>9. /\ printed' \in Seq(Seq(Nat)) /\ Len(printed') = Len(printed) + 1
      /\ printed'[Len(requests) + 1] = << >>
      /\ \A r \in DOMAIN printed : printed'[r] = printed[r]
  BY <1>2, <1>3
<1> QED
  BY <1>3, <1>6, <1>7, <1>8, <1>9 DEF q

LEMMA CallTyped ==
  ASSUME Typed, Call
  PROVE  Typed'
<1>1. PICK c \in NextCall : Perform(c)
  BY DEF Call
<1>2. c \in HelperCall
  BY NextIsACall DEF Typed
<1>3. /\ script' = script /\ phase' = phase /\ now' = now /\ calls' \in Nat
      /\ phase = "setup" /\ now = 0
  BY DEF Call, Typed, ScriptTyped, QueueTyped
<1>4. nodes' \in Seq(NodeObject) /\ AppsGrow(NewApps(c))
  BY <1>1, <1>2, CallEffect DEF Typed
<1> DEFINE OtherTyped ==
      /\ managerType \in Name /\ stack \in [helpers : Seq(Name), managerType : Name]
      /\ nextStream \in Nat
      /\ requests \in Seq(Request) /\ printed \in Seq(Seq(Nat)) /\ Len(printed) = Len(requests)
<1>5. OtherTyped /\ QueueTyped
  BY DEF Typed, ScriptTyped
<1>6. ASSUME UNCHANGED <<queue, requests>> PROVE QueueTyped'
  BY <1>3, <1>4, <1>5, <1>6, QueueKept DEF AppsGrow, Grows
<1>7. ASSUME NEW duties \in Seq(Duty), Schedule(events, duties),
             DOMAIN requests \subseteq DOMAIN requests',
             \A i \in 1 .. Len(duties) :
               /\ duties[i].time \in Nat /\ HasTarget(duties[i].do)'
               /\ duties[i].do.what = "initialize" => duties[i].time = 0
      PROVE  QueueTyped'
  <2>1. \A e \in events : e.time >= now'
    BY <1>3, <1>5 DEF QueueTyped
  <2>2. now' \in Nat /\ now' = 0
    BY <1>3
  <2>3. \A i \in 1 .. Len(duties) : duties[i].time >= now'
    BY <1>7, <2>2
  <2> QED
    BY <1>4, <1>5, <1>7, <2>1, <2>2, <2>3, QueueScheduled DEF AppsGrow, Grows
<1>8. OtherTyped' /\ QueueTyped'
  <2>1. CASE CreateNode
    <3>1. OtherTyped'
      BY <1>5, <2>1 DEF CreateNode
    <3>2. PICK d : d = [time |-> 0, do |-> [what |-> "initialize", node |-> Len(nodes')]]
      OBVIOUS
    <3>3. Len(nodes') \in Nat /\ Len(nodes') \in DOMAIN nodes'
      <4>1. nodes' = Append(nodes, [routing |-> << >>, apps |-> << >>])
        BY <2>1 DEF CreateNode
      <4>2. Len(nodes') = Len(nodes) + 1 /\ DOMAIN nodes' = 1 .. Len(nodes) + 1
        BY <1>4, <4>1 DEF Typed, ScriptTyped
      <4> QED
        BY <4>2 DEF Typed, ScriptTyped
    <3>4. d \in Duty
      BY <3>2, <3>3 DEF Duty, Handler
    <3>5. HasTarget(d.do)'
      BY <3>2, <3>3 DEF HasTarget
    <3>6. Schedule(events, <<d>>)
      BY <2>1, <3>2 DEF CreateNode
    <3>7. requests' = requests
      BY <2>1 DEF CreateNode
    <3>8. d.time = 0 /\ d.time \in Nat
      BY <3>2
    <3>9. <<d>> \in Seq(Duty) /\ \A i \in 1 .. Len(<<d>>) : <<d>>[i] = d
      BY <3>4
    <3>10. \A i \in 1 .. Len(<<d>>) :
             /\ <<d>>[i].time \in Nat /\ HasTarget(<<d>>[i].do)'
             /\ <<d>>[i].do.what = "initialize" => <<d>>[i].time = 0
      BY <3>5, <3>8, <3>9
    <3> QED
      BY <1>7, <3>1, <3>6, <3>7, <3>9, <3>10
  <2>2. CASE \E tid \in STRING : SetManagerType(tid)
    BY <1>5, <1>6, <2>2 DEF SetManagerType, Name
  <2>3. CASE \E helpers \in Seq(STRING) : SetRoutingHelper(helpers)
    <3>1. PICK helpers \in Seq(STRING) : SetRoutingHelper(helpers)
      BY <2>3
    <3>2. helpers \in Seq(Name)
      BY DEF Name
    <3> QED
      BY <1>5, <1>6, <3>1, <3>2 DEF SetRoutingHelper
  <2>4. CASE \E n \in Nat : Install(n)
    BY <1>5, <1>6, <2>4 DEF Install
  <2>5. CASE \E helper \in STRING, ns \in Seq(Nat) : AssignStreams(helper, ns)
    <3>1. PICK helper \in STRING, ns \in Seq(Nat) : AssignStreams(helper, ns)
      BY <2>5
    <3>2. nextStream' \in Nat
      BY <1>5, <3>1, MatchedIsFinite DEF AssignStreams
    <3> QED
      BY <1>5, <1>6, <3>1, <3>2 DEF AssignStreams
  <2>6. CASE \E who, time, repeats : Asks(who, time, repeats)
    <3>1. PICK who, time, repeats : Asks(who, time, repeats)
      BY <2>6
    <3>2. PICK duties \in Seq(Duty) :
            /\ Schedule(events, duties) /\ Len(duties) = Len(who)
            /\ \A i \in 1 .. Len(who) : IsAskedOf(duties[i], who[i], time, repeats)
      BY <3>1, AskIsTyped
    <3>3. /\ managerType' = managerType /\ stack' = stack /\ nextStream' = nextStream
          /\ nodes' = nodes /\ time \in Nat /\ \A i \in 1 .. Len(who) : who[i] \in DOMAIN nodes
      BY <3>1 DEF Asks, Ask
    <3>4. /\ requests' \in Seq(Request) /\ Len(requests') = Len(requests) + 1
          /\ printed' \in Seq(Seq(Nat)) /\ Len(printed') = Len(printed) + 1
      BY <3>1, AskIsTyped
    <3>5. DOMAIN requests \subseteq DOMAIN requests' /\ Len(requests) + 1 \in DOMAIN requests'
      BY <1>5, <3>4
    <3>6. \A i \in 1 .. Len(duties) :
            /\ duties[i].time \in Nat /\ HasTarget(duties[i].do)'
            /\ duties[i].do.what # "initialize"
      BY <3>2, <3>3, <3>5 DEF HasTarget, IsAskedOf
    <3>7. OtherTyped'
      BY <1>5, <3>3, <3>4
    <3> QED
      BY <1>7, <3>2, <3>5, <3>6, <3>7
  <2>7. CASE /\ c.call = "InstallPing" /\ c.node \in Nat /\ c.start \in Nat /\ c.stop \in Nat
             /\ InstallPing(c.node, c.start, c.stop)
    BY <1>5, <1>6, <2>7 DEF InstallPing
  <2>8. CASE \E time \in Nat : Stop(time)
    <3>1. PICK time \in Nat : Stop(time)
      BY <2>8
    <3>2. PICK d : d = [time |-> time, do |-> [what |-> "stop"]]
      OBVIOUS
    <3>3. d \in Duty
      BY <3>2 DEF Duty, Handler
    <3>4. HasTarget(d.do)'
      BY <3>2 DEF HasTarget
    <3>5. Schedule(events, <<d>>)
      BY <3>1, <3>2 DEF Stop
    <3>6. d.time \in Nat /\ d.do.what # "initialize"
      BY <3>2
    <3>7. <<d>> \in Seq(Duty) /\ \A i \in 1 .. Len(<<d>>) : <<d>>[i] = d
      BY <3>3
    <3>8. OtherTyped' /\ requests' = requests
      BY <1>5, <3>1 DEF Stop
    <3> QED
      BY <1>7, <3>4, <3>5, <3>6, <3>7, <3>8
  <2> QED
    BY <1>1, <1>2, <2>1, <2>2, <2>3, <2>4, <2>5, <2>6, <2>7, <2>8, Performed DEF Typed
<1> QED
  BY <1>3, <1>4, <1>8 DEF Typed, ScriptTyped

-----------------------------------------------------------------------------
\* The events.
Runs(d) ==
  CASE d.do.what = "initialize" -> Initialize(d.do.node)
    [] d.do.what = "start"      -> Turn(d.do.node, d.do.app, "running")
    [] d.do.what = "end"        -> Turn(d.do.node, d.do.app, "stopped")
    [] d.do.what = "print"      -> PrintEvery(d.do)
    [] d.do.what = "stop"       -> /\ phase' = "over"
                                   /\ Schedule(After, <<>>)
                                   /\ UNCHANGED <<nodes, printed>>

\* The event d is the next.
Next1(d) ==
  /\ d = Due /\ d \in events /\ d \in SimEvent /\ HasTarget(d.do)
  /\ now' = d.time /\ now' \in Nat /\ now' >= now
  /\ After = events \ {d} /\ \A e \in After : e.time >= now'
  /\ phase = "running" /\ Runs(d) /\ UNCHANGED setup

LEMMA EventRuns ==
  ASSUME Typed, Event
  PROVE  \E d : Next1(d)
<1>1. PICK d : d = Due
  OBVIOUS
<1>2. events \in SUBSET SimEvent /\ uid \in Nat /\ Numbered(events, uid) /\ events # {}
  BY DEF Typed, QueueTyped, Event
<1>3. d \in events /\ \A e \in events : d.time <= e.time
  BY <1>1, <1>2, DueIsFirst
<1>4. d \in SimEvent /\ d.time \in Nat
  BY <1>2, <1>3 DEF SimEvent
<1>5. HasTarget(d.do) /\ d.time >= now
  BY <1>3 DEF Typed, QueueTyped
<1>6. now' = d.time /\ phase = "running" /\ UNCHANGED setup
  BY <1>1 DEF Event
<1>7. Runs(d)
  BY <1>1, Zenon DEF Event, Runs
<1>8. After = events \ {d}
  BY <1>1 DEF After
<1>9. \A e \in After : e.time >= now'
  BY <1>2, <1>3, <1>4, <1>6, <1>8 DEF SimEvent
<1>10. Next1(d)
  BY <1>1, <1>3, <1>4, <1>5, <1>6, <1>7, <1>8, <1>9 DEF Next1
<1> QED
  BY <1>10

LEMMA WhatRuns ==
  ASSUME NEW d, Next1(d)
  PROVE  \/ d.do.what = "initialize" /\ d.do.node \in Nat /\ Initialize(d.do.node)
         \/ /\ d.do.what \in {"start", "end"} /\ d.do.node \in Nat /\ d.do.app \in Nat
            /\ Turn(d.do.node, d.do.app, IF d.do.what = "start" THEN "running" ELSE "stopped")
         \/ /\ d.do.what = "print" /\ d.do.node \in Nat /\ d.do.out \in Nat /\ d.do.interval \in Nat
            /\ PrintEvery(d.do)
         \/ /\ d.do.what = "stop" /\ phase' = "over" /\ Schedule(After, << >>)
            /\ UNCHANGED <<nodes, printed>>
<1>1. d.do \in Handler /\ Runs(d)
  BY DEF Next1, SimEvent
<1>2. CASE d.do \in [what : {"initialize"}, node : Nat]
  BY <1>1, <1>2 DEF Runs
<1>3. CASE d.do \in [what : {"start", "end"}, node : Nat, app : Nat]
  <2>1. d.do.what \in {"start", "end"} /\ d.do.node \in Nat /\ d.do.app \in Nat
    BY <1>3
  <2>2. CASE d.do.what = "start"
    BY <1>1, <2>1, <2>2 DEF Runs
  <2>3. CASE d.do.what = "end"
    BY <1>1, <2>1, <2>3 DEF Runs
  <2> QED
    BY <2>1, <2>2, <2>3
<1>4. CASE d.do \in [what : {"print"}, node : Nat, out : Nat, interval : Nat]
  BY <1>1, <1>4 DEF Runs
<1>5. CASE d.do \in [what : {"stop"}]
  BY <1>1, <1>5 DEF Runs
<1> QED
  BY <1>1, <1>2, <1>3, <1>4, <1>5 DEF Handler

\* The turns of a node.
TurnsOf(n) == [k \in DOMAIN nodes[n].apps |-> Turns(n, k)]

IsTurn(d, n, k) ==
  LET a == nodes[n].apps[k] IN
  /\ d.do.node = n /\ d.do.app = k
  /\ \/ d.do.what = "start" /\ d.time = a.start
     \/ d.do.what = "end" /\ d.time = a.stop /\ a.stop # 0

LEMMA TurnsTyped ==
  ASSUME ScriptTyped, NEW n \in DOMAIN nodes, NEW k \in DOMAIN nodes[n].apps
  PROVE  LET a == nodes[n].apps[k]
             s == Turns(n, k)
         IN  /\ s \in Seq(Duty) /\ Len(s) \in {1, 2} /\ (Len(s) = 2 <=> a.stop # 0)
             /\ IsTurn(s[1], n, k) /\ s[1].do.what = "start"
             /\ a.stop # 0 => IsTurn(s[2], n, k) /\ s[2].do.what = "end"
<1> DEFINE a == nodes[n].apps[k]
           first == [time |-> a.start, do |-> [what |-> "start", node |-> n, app |-> k]]
           second == [time |-> a.stop, do |-> [what |-> "end", node |-> n, app |-> k]]
<1>1. a \in App /\ n \in Nat /\ k \in Nat
  BY NodesTyped
<1>2. a.start \in Nat /\ a.stop \in Nat
  BY <1>1 DEF App
<1>3. first \in Duty /\ second \in Duty
  BY <1>1, <1>2 DEF Duty, Handler
<1>4. Turns(n, k) = <<first>> \o IF a.stop = 0 THEN << >> ELSE <<second>>
  BY DEF Turns
<1>5. IsTurn(first, n, k) /\ first.do.what = "start"
  BY DEF IsTurn
<1>6. a.stop # 0 => IsTurn(second, n, k) /\ second.do.what = "end"
  BY DEF IsTurn
<1> HIDE DEF first, second
<1>7. CASE a.stop = 0
  <2>1. Turns(n, k) = <<first>>
    BY <1>4, <1>7
  <2> QED
    BY <1>3, <1>5, <1>7, <2>1
<1>8. CASE a.stop # 0
  <2>1. Turns(n, k) = <<first>> \o <<second>>
    BY <1>4, <1>8
  <2>2. <<first>> \in Seq(Duty) /\ <<second>> \in Seq(Duty) /\ Len(<<first>>) = 1 /\ Len(<<second>>) = 1
        /\ <<first>>[1] = first /\ <<second>>[1] = second
    BY <1>3
  <2>3. Turns(n, k) \in Seq(Duty) /\ Len(Turns(n, k)) = 2
        /\ Turns(n, k)[1] = first /\ Turns(n, k)[2] = second
    BY <2>1, <2>2
  <2> QED
    BY <1>5, <1>6, <1>8, <2>3
<1> QED
  BY <1>7, <1>8

\* The duties that come of a node's applications: their starts and stops, each once.
LEMMA Initialized ==
  ASSUME ScriptTyped, NEW n \in DOMAIN nodes, Initialize(n)
  PROVE  \E s \in Seq(Duty) :
           /\ Schedule(After, s)
           /\ \A i \in 1 .. Len(s) : \E k \in DOMAIN nodes[n].apps : IsTurn(s[i], n, k)
           /\ \A k \in DOMAIN nodes[n].apps :
                /\ \E i \in 1 .. Len(s) : IsTurn(s[i], n, k) /\ s[i].do.what = "start"
                /\ nodes[n].apps[k].stop # 0 =>
                     \E i \in 1 .. Len(s) : IsTurn(s[i], n, k) /\ s[i].do.what = "end"
           /\ \A i, j \in 1 .. Len(s) : s[i].do = s[j].do => i = j
<1> DEFINE ss == TurnsOf(n)
           s == FlattenSeq(ss)
           K == DOMAIN nodes[n].apps
<1>1. K = 1 .. Len(nodes[n].apps) /\ Len(nodes[n].apps) \in Nat
  BY NodesTyped
<1>2. ss \in Seq(Seq(Duty)) /\ Len(ss) = Len(nodes[n].apps) /\ \A k \in K : ss[k] = Turns(n, k)
  <2>1. \A k \in K : Turns(n, k) \in Seq(Duty)
    BY TurnsTyped
  <2> QED
    BY <1>1, <2>1 DEF TurnsOf
<1>3. Schedule(After, s)
  BY DEF Initialize, TurnsOf
<1> HIDE DEF ss
<1>4. Joins(Duty, ss, Len(ss), s)
  BY <1>2, FlattenJoins
<1>5. PICK t : t = s
  OBVIOUS
<1>6. \A k \in K : \A i \in 1 .. Len(ss[k]) :
        /\ IsTurn(ss[k][i], n, k) /\ i \in {1, 2}
        /\ ss[k][i].do.what = "start" <=> i = 1
        /\ ss[k][i].do.what = "end" <=> i = 2
  <2> TAKE k \in K
  <2> TAKE i \in 1 .. Len(ss[k])
  <2>0. /\ Len(ss[k]) \in {1, 2} /\ (Len(ss[k]) = 2 <=> nodes[n].apps[k].stop # 0)
        /\ ss[k] = Turns(n, k)
    BY <1>2, TurnsTyped
  <2>1. i = 1 \/ (i = 2 /\ nodes[n].apps[k].stop # 0)
    <3>1. \A x \in {1, 2} : \A y \in 1 .. x : y = 1 \/ (y = 2 /\ x = 2)
      OBVIOUS
    <3> QED
      BY <2>0, <3>1
  <2> QED
    BY <1>2, <2>1, TurnsTyped
<1>7. \A i, j \in K : \A x \in 1 .. Len(ss[i]), y \in 1 .. Len(ss[j]) :
        ss[i][x].do = ss[j][y].do => i = j /\ x = y
  <2> TAKE i, j \in K
  <2> TAKE x \in 1 .. Len(ss[i]), y \in 1 .. Len(ss[j])
  <2> HAVE ss[i][x].do = ss[j][y].do
  <2>1. IsTurn(ss[i][x], n, i) /\ IsTurn(ss[j][y], n, j)
    BY <1>6
  <2>2. i = j
    BY <2>1 DEF IsTurn
  <2>3. x = 1 <=> y = 1
    BY <1>6
  <2>4. x \in {1, 2} /\ y \in {1, 2}
    BY <1>6
  <2> QED
    BY <2>2, <2>3, <2>4
<1>8. Once(ss, Len(ss))
  <2>1. 1 .. Len(ss) = K
    BY <1>1, <1>2
  <2> HIDE DEF K
  <2> QED
    BY <1>7, <2>1 DEF Once
<1> HIDE DEF s, K
<1>9. /\ t \in Seq(Duty)
      /\ \A j \in 1 .. Len(t) : \E i \in K : \E k \in 1 .. Len(ss[i]) : t[j] = ss[i][k]
      /\ \A i \in K : \A k \in 1 .. Len(ss[i]) : \E j \in 1 .. Len(t) : t[j] = ss[i][k]
      /\ \A i, j \in 1 .. Len(t) : t[i] = t[j] => i = j
  BY <1>1, <1>2, <1>4, <1>5, <1>8 DEF Joins
<1>10. \A i \in 1 .. Len(t) : \E k \in K : IsTurn(t[i], n, k)
  BY <1>6, <1>9
<1>11. ASSUME NEW k \in K
       PROVE  /\ \E i \in 1 .. Len(t) : IsTurn(t[i], n, k) /\ t[i].do.what = "start"
              /\ nodes[n].apps[k].stop # 0 =>
                   \E i \in 1 .. Len(t) : IsTurn(t[i], n, k) /\ t[i].do.what = "end"
  <2>1. 1 \in 1 .. Len(ss[k])
    BY <1>2, TurnsTyped DEF K
  <2>2. nodes[n].apps[k].stop # 0 => 2 \in 1 .. Len(ss[k])
    BY <1>2, TurnsTyped DEF K
  <2>3. \E i \in 1 .. Len(t) : t[i] = ss[k][1]
    BY <1>9, <2>1
  <2>4. nodes[n].apps[k].stop # 0 => \E i \in 1 .. Len(t) : t[i] = ss[k][2]
    BY <1>9, <2>2
  <2>5. IsTurn(ss[k][1], n, k) /\ ss[k][1].do.what = "start"
    BY <1>6, <2>1
  <2>6. nodes[n].apps[k].stop # 0 => IsTurn(ss[k][2], n, k) /\ ss[k][2].do.what = "end"
    BY <1>6, <2>2
  <2> QED
    BY <2>3, <2>4, <2>5, <2>6
<1>12. ASSUME NEW i \in 1 .. Len(t), NEW j \in 1 .. Len(t), t[i].do = t[j].do PROVE i = j
  <2>1. PICK x \in K : \E k \in 1 .. Len(ss[x]) : t[i] = ss[x][k]
    BY <1>9
  <2>2. PICK k \in 1 .. Len(ss[x]) : t[i] = ss[x][k]
    BY <2>1
  <2>3. PICK y \in K : \E l \in 1 .. Len(ss[y]) : t[j] = ss[y][l]
    BY <1>9
  <2>4. PICK l \in 1 .. Len(ss[y]) : t[j] = ss[y][l]
    BY <2>3
  <2>5. x = y /\ k = l
    BY <1>7, <1>12, <2>2, <2>4
  <2> QED
    BY <1>9, <2>2, <2>4, <2>5
<1> QED
  BY <1>3, <1>5, <1>9, <1>10, <1>11, <1>12 DEF K

-----------------------------------------------------------------------------
\* What the variables hold is kept by the events.
\* The application j of m when application k of n is turned.
TurnedTo(state, n, k, m, j) ==
  IF m = n /\ j = k THEN [nodes[m].apps[j] EXCEPT !.state = state] ELSE nodes[m].apps[j]

LEMMA TurnEffect ==
  ASSUME ScriptTyped, NEW n \in DOMAIN nodes, NEW k \in DOMAIN nodes[n].apps,
         NEW state \in {"running", "stopped"}, Turn(n, k, state)
  PROVE  /\ nodes' \in Seq(NodeObject) /\ DOMAIN nodes' = DOMAIN nodes
         /\ \A m \in DOMAIN nodes :
              /\ DOMAIN nodes'[m].apps = DOMAIN nodes[m].apps
              /\ nodes'[m].routing = nodes[m].routing
              /\ \A j \in DOMAIN nodes[m].apps :
                   nodes'[m].apps[j] = TurnedTo(state, n, k, m, j)
<1> DEFINE was == nodes[n].apps
<1>1. /\ nodes \in Seq(NodeObject) /\ n \in 1 .. Len(nodes) /\ nodes[n] \in NodeObject
      /\ was \in Seq(App) /\ k \in 1 .. Len(was) /\ was[k] \in App
  BY NodesTyped DEF ScriptTyped
<1>2. PICK a, s, it : /\ a = [was[k] EXCEPT !.state = state]
                      /\ s = [was EXCEPT ![k] = a]
                      /\ it = [nodes[n] EXCEPT !.apps = s]
  OBVIOUS
<1>3. a \in App
  BY <1>1, <1>2 DEF App
<1>4. /\ s \in Seq(App) /\ DOMAIN s = DOMAIN was
      /\ \A j \in DOMAIN was : s[j] = IF j = k THEN a ELSE was[j]
  BY <1>1, <1>2, <1>3
<1>5. it \in NodeObject /\ it.apps = s /\ it.routing = nodes[n].routing
  BY <1>1, <1>2, <1>4 DEF NodeObject
<1>6. nodes' = [nodes EXCEPT ![n] = it]
  <2>1. nodes' = [nodes EXCEPT ![n].apps[k].state = state]
    BY DEF Turn
  <2>2. [nodes[n] EXCEPT !.apps[k].state = state] = it
    BY <1>1, <1>2 DEF NodeObject
  <2> QED
    BY <1>1, <2>1, <2>2
<1>7. nodes' \in Seq(NodeObject)
  <2>1. [nodes EXCEPT ![n] = it] \in Seq(NodeObject)
    BY <1>1, <1>5, ExceptSeq
  <2> QED
    BY <1>6, <2>1
<1>8. DOMAIN nodes' = DOMAIN nodes /\ nodes'[n] = it /\ \A m \in DOMAIN nodes \ {n} : nodes'[m] = nodes[m]
  BY <1>1, <1>6
<1>9. ASSUME NEW m \in DOMAIN nodes
      PROVE  /\ DOMAIN nodes'[m].apps = DOMAIN nodes[m].apps
             /\ nodes'[m].routing = nodes[m].routing
             /\ \A j \in DOMAIN nodes[m].apps :
                  nodes'[m].apps[j] = TurnedTo(state, n, k, m, j)
  <2>1. CASE m = n
    <3>1. nodes'[m].apps = s /\ nodes'[m].routing = nodes[m].routing
      BY <1>5, <1>8, <2>1
    <3> QED
      BY <1>2, <1>4, <2>1, <3>1 DEF TurnedTo
  <2>2. CASE m # n
    BY <1>8, <2>2 DEF TurnedTo
  <2> QED
    BY <2>1, <2>2
<1> QED
  BY <1>7, <1>8, <1>9

\* A turn changes nothing but the state.
LEMMA TurnKeeps ==
  ASSUME ScriptTyped, NEW state, NEW n, NEW k, NEW m \in DOMAIN nodes,
         NEW j \in DOMAIN nodes[m].apps
  PROVE  /\ TurnedTo(state, n, k, m, j).kind = nodes[m].apps[j].kind
         /\ TurnedTo(state, n, k, m, j).start = nodes[m].apps[j].start
         /\ TurnedTo(state, n, k, m, j).stop = nodes[m].apps[j].stop
<1>1. PICK a \in App : a = nodes[m].apps[j]
  BY NodesTyped
<1>2. LET b == [a EXCEPT !.state = state]
      IN  b.kind = a.kind /\ b.start = a.start /\ b.stop = a.stop
  BY DEF App
<1>3. CASE m = n /\ j = k
  BY <1>1, <1>2, <1>3 DEF TurnedTo
<1>4. CASE ~(m = n /\ j = k)
  BY <1>4 DEF TurnedTo
<1> QED
  BY <1>3, <1>4

\* The lines that a print adds.
LEMMA PrintEffect ==
  ASSUME ScriptTyped, NEW d, d.node \in DOMAIN nodes, d.out \in DOMAIN requests, PrintEvery(d)
  PROVE  /\ Cardinality(Managers(d.node)) \in Nat
         /\ printed' \in Seq(Seq(Nat)) /\ Len(printed') = Len(printed)
         /\ \A r \in DOMAIN printed \ {d.out} : printed'[r] = printed[r]
         /\ DOMAIN printed[d.out] = 1 .. Len(printed[d.out]) /\ Len(printed[d.out]) \in Nat
         /\ DOMAIN printed'[d.out] = 1 .. Len(printed[d.out]) + Cardinality(Managers(d.node))
         /\ \A i \in DOMAIN printed'[d.out] :
              printed'[d.out][i] = IF i \in DOMAIN printed[d.out] THEN printed[d.out][i] ELSE d.node
<1> DEFINE r == d.out
           M == Cardinality(Managers(d.node))
<1>1. /\ printed \in Seq(Seq(Nat)) /\ r \in 1 .. Len(printed) /\ printed[r] \in Seq(Nat)
      /\ DOMAIN printed[r] = 1 .. Len(printed[r]) /\ Len(printed[r]) \in Nat
      /\ DOMAIN printed = 1 .. Len(printed)
  BY DEF ScriptTyped
<1>2. M \in Nat
  <2>1. Managers(d.node) \subseteq 1 .. Len(nodes[d.node].apps) /\ Len(nodes[d.node].apps) \in Nat
    BY NodesTyped DEF Managers
  <2>2. IsFiniteSet(1 .. Len(nodes[d.node].apps))
    BY <2>1, FS_Interval
  <2>3. IsFiniteSet(Managers(d.node))
    BY <2>1, <2>2, FS_Subset
  <2> QED
    BY <2>3, FS_CardinalityType
<1> HIDE DEF M
<1>3. PICK lines : lines = [i \in 1 .. M |-> d.node]
  OBVIOUS
<1>4. lines \in Seq(Nat) /\ Len(lines) = M /\ \A i \in 1 .. M : lines[i] = d.node
  <2>1. d.node \in Nat
    BY NodesTyped
  <2> QED
    BY <1>2, <1>3, <2>1
<1>5. printed' = [printed EXCEPT ![r] = printed[r] \o lines]
  BY <1>1, <1>3 DEF PrintEvery, M
<1>6. PICK new : new = printed[r] \o lines
  OBVIOUS
<1>7. /\ new \in Seq(Nat) /\ DOMAIN new = 1 .. Len(printed[r]) + M
      /\ \A i \in DOMAIN new : new[i] = IF i \in DOMAIN printed[r] THEN printed[r][i] ELSE d.node
  <2>1. /\ new \in Seq(Nat) /\ DOMAIN new = 1 .. Len(printed[r]) + M
        /\ \A i \in 1 .. Len(printed[r]) + M :
             new[i] = IF i \in 1 .. Len(printed[r]) THEN printed[r][i] ELSE lines[i - Len(printed[r])]
    <3>0. PICK old \in Seq(Nat) : old = printed[r]
      BY <1>1
    <3>1. /\ old \o lines \in Seq(Nat) /\ Len(old \o lines) = Len(old) + Len(lines)
          /\ \A i \in 1 .. Len(old) + Len(lines) :
               (old \o lines)[i] = IF i <= Len(old) THEN old[i] ELSE lines[i - Len(old)]
      BY <1>4, ConcatProperties
    <3>2. \A i \in 1 .. Len(printed[r]) + M : i \in 1 .. Len(printed[r]) <=> i <= Len(printed[r])
      BY <1>1, <1>2
    <3> QED
      BY <1>1, <1>4, <1>6, <3>0, <3>1, <3>2
  <2>2. \A i \in 1 .. Len(printed[r]) + M :
          i \notin 1 .. Len(printed[r]) => lines[i - Len(printed[r])] = d.node
    BY <1>1, <1>2, <1>4
  <2> QED
    BY <1>1, <2>1, <2>2
<1>8. printed' \in Seq(Seq(Nat)) /\ Len(printed') = Len(printed)
      /\ \A s \in 1 .. Len(printed) : printed'[s] = IF s = r THEN new ELSE printed[s]
  <2>1. printed' = [printed EXCEPT ![r] = new]
    BY <1>5, <1>6
  <2>2. /\ [printed EXCEPT ![r] = new] \in Seq(Seq(Nat))
        /\ Len([printed EXCEPT ![r] = new]) = Len(printed)
        /\ \A s \in 1 .. Len(printed) : [printed EXCEPT ![r] = new][s] = IF s = r THEN new ELSE printed[s]
    BY <1>1, <1>7, ExceptSeq
  <2> QED
    BY <2>1, <2>2
<1> QED
  BY <1>1, <1>2, <1>7, <1>8 DEF M

LEMMA EventTyped ==
  ASSUME Typed, NEW d, Next1(d)
  PROVE  Typed'
<1>1. /\ script' = script /\ calls' = calls /\ managerType' = managerType /\ stack' = stack
      /\ nextStream' = nextStream /\ requests' = requests
      /\ now' = d.time /\ now' \in Nat /\ \A e \in After : e.time >= now'
      /\ After \in SUBSET events /\ HasTarget(d.do) /\ phase = "running"
  BY DEF Next1, setup
<1>2. ScriptTyped /\ QueueTyped
  BY DEF Typed
<1>3. ASSUME nodes' \in Seq(NodeObject), printed' \in Seq(Seq(Nat)), Len(printed') = Len(printed),
             phase' \in {"setup", "running", "over"}
      PROVE  ScriptTyped'
  BY <1>1, <1>2, <1>3 DEF ScriptTyped
<1>4. ASSUME Grows, phase' # "setup", NEW s \in Seq(Duty), Schedule(After, s),
             \A i \in 1 .. Len(s) :
               s[i].time >= now' /\ HasTarget(s[i].do)' /\ s[i].do.what # "initialize"
      PROVE  QueueTyped'
  BY <1>1, <1>2, <1>4, QueueScheduled
<1>5. << >> \in Seq(Duty) /\ \A i \in 1 .. Len(<< >>) : FALSE
  OBVIOUS
<1>6. ASSUME UNCHANGED nodes PROVE Grows
  BY <1>1, <1>6 DEF Grows
<1>7. CASE d.do.what = "initialize" /\ d.do.node \in Nat /\ Initialize(d.do.node)
  <2>1. PICK n : n = d.do.node
    OBVIOUS
  <2>2. n \in DOMAIN nodes
    BY <1>1, <1>7, <2>1 DEF HasTarget
  <2>3. nodes' = nodes /\ printed' = printed /\ phase' = phase
    BY <1>7 DEF Initialize
  <2>4. PICK s \in Seq(Duty) : /\ Schedule(After, s)
                               /\ \A i \in 1 .. Len(s) : \E k \in DOMAIN nodes[n].apps : IsTurn(s[i], n, k)
    <3>1. Initialize(n)
      BY <1>7, <2>1
    <3> QED
      BY <1>2, <2>2, <3>1, Initialized
  <2>5. \A i \in 1 .. Len(s) : HasTarget(s[i].do)' /\ s[i].do.what # "initialize"
    BY <2>2, <2>3, <2>4 DEF HasTarget, IsTurn
  <2>6. \A i \in 1 .. Len(s) : s[i].time >= now'
    <3>1. now' = 0
      BY <1>1, <1>2, <1>7 DEF QueueTyped, Next1
    <3>2. \A k \in DOMAIN nodes[n].apps : nodes[n].apps[k].start \in Nat /\ nodes[n].apps[k].stop \in Nat
      BY <1>2, <2>2, NodesTyped DEF App
    <3> QED
      BY <2>4, <3>1, <3>2 DEF IsTurn
  <2> QED
    BY <1>1, <1>2, <1>3, <1>4, <1>6, <2>3, <2>4, <2>5, <2>6 DEF Typed, ScriptTyped
<1>8. CASE /\ d.do.what \in {"start", "end"} /\ d.do.node \in Nat /\ d.do.app \in Nat
           /\ Turn(d.do.node, d.do.app, IF d.do.what = "start" THEN "running" ELSE "stopped")
  <2>1. PICK n, k, state : n = d.do.node /\ k = d.do.app
                           /\ state = IF d.do.what = "start" THEN "running" ELSE "stopped"
    OBVIOUS
  <2>2. n \in DOMAIN nodes /\ k \in DOMAIN nodes[n].apps /\ state \in {"running", "stopped"}
    BY <1>1, <1>8, <2>1 DEF HasTarget
  <2>3. Turn(n, k, state)
    BY <1>8, <2>1
  <2>4. printed' = printed /\ phase' = phase /\ Schedule(After, << >>)
    BY <2>3 DEF Turn
  <2>5. nodes' \in Seq(NodeObject) /\ DOMAIN nodes' = DOMAIN nodes
        /\ \A m \in DOMAIN nodes : DOMAIN nodes'[m].apps = DOMAIN nodes[m].apps
    BY <1>2, <2>2, <2>3, TurnEffect
  <2>6. Grows
    BY <1>1, <2>5 DEF Grows
  <2> QED
    BY <1>1, <1>2, <1>3, <1>4, <1>5, <2>4, <2>5, <2>6 DEF Typed, ScriptTyped
<1>9. CASE /\ d.do.what = "print" /\ d.do.node \in Nat /\ d.do.out \in Nat /\ d.do.interval \in Nat
           /\ PrintEvery(d.do)
  <2>1. nodes' = nodes /\ phase' = phase
    BY <1>9 DEF PrintEvery
  <2>2. d.do.node \in DOMAIN nodes /\ d.do.out \in DOMAIN requests
    BY <1>1, <1>9 DEF HasTarget
  <2>3. printed' \in Seq(Seq(Nat)) /\ Len(printed') = Len(printed)
    BY <1>2, <1>9, <2>2, PrintEffect
  <2>4. CASE d.do.interval = 0
    <3>1. Schedule(After, << >>)
      BY <1>9, <2>4 DEF PrintEvery
    <3> QED
      BY <1>1, <1>2, <1>3, <1>4, <1>5, <1>6, <2>1, <2>3, <3>1 DEF Typed, ScriptTyped
  <2>5. CASE d.do.interval # 0
    <3>1. PICK again : again = [time |-> now' + d.do.interval, do |-> d.do]
      OBVIOUS
    <3>2. Schedule(After, <<again>>)
      BY <1>9, <2>5, <3>1 DEF PrintEvery
    <3>3. again \in Duty /\ again.time >= now' /\ again.do = d.do /\ again.do.what # "initialize"
      <4>1. d.do \in Handler
        BY DEF Next1, SimEvent
      <4> QED
        BY <1>1, <1>9, <3>1, <4>1 DEF Duty
    <3>4. HasTarget(again.do)'
      BY <1>1, <1>6, <2>1, <3>3, TargetsStay
    <3>5. <<again>> \in Seq(Duty) /\ \A i \in 1 .. Len(<<again>>) : <<again>>[i] = again
      BY <3>3
    <3>6. QueueTyped'
      BY <1>1, <1>4, <1>6, <2>1, <3>2, <3>3, <3>4, <3>5
    <3> QED
      BY <1>1, <1>2, <1>3, <2>1, <2>3, <3>6 DEF Typed, ScriptTyped
  <2> QED
    BY <2>4, <2>5
<1>10. CASE /\ d.do.what = "stop" /\ phase' = "over" /\ Schedule(After, << >>)
            /\ UNCHANGED <<nodes, printed>>
  BY <1>1, <1>2, <1>3, <1>4, <1>5, <1>6, <1>10 DEF Typed, ScriptTyped
<1> QED
  BY <1>7, <1>8, <1>9, <1>10, WhatRuns

-----------------------------------------------------------------------------
\* What the variables hold.
LEMMA InitTyped ==
  ASSUME Init
  PROVE  Typed
<1>1. managerType = "ns3::SimpleAodvTrustManager" /\ managerType \in Name
  BY DEF Init, Name
<1>2. stack = [helpers |-> <<"static">>, managerType |-> managerType] /\ <<"static">> \in Seq(Name)
  BY DEF Init, Name
<1>3. stack \in [helpers : Seq(Name), managerType : Name]
  BY <1>1, <1>2
<1>4. ScriptTyped
  BY <1>1, <1>3 DEF Init, ScriptTyped
<1>5. QueueTyped
  BY DEF Init, QueueTyped, Numbered
<1> QED
  BY <1>4, <1>5 DEF Typed

LEMMA NextTyped ==
  ASSUME Typed, [Next]_vars
  PROVE  Typed'
<1>1. CASE Call
  BY <1>1, CallTyped
<1>2. CASE Event
  BY <1>2, EventRuns, EventTyped
<1>3. ASSUME UNCHANGED <<setup, nodes, printed, now, queue>>,
             phase' \in {"running", "over", phase}
      PROVE  Typed'
  <2>1. ScriptTyped'
    BY <1>3 DEF Typed, ScriptTyped, setup
  <2>2. Grows /\ UNCHANGED <<queue, now>>
    BY <1>3 DEF Grows, setup
  <2>3. phase' = "setup" => phase = "setup"
    BY <1>3
  <2> QED
    BY <2>1, <2>2, <2>3, QueueKept DEF Typed
<1>4. CASE Run
  BY <1>3, <1>4 DEF Run
<1>5. CASE Return
  BY <1>3, <1>5 DEF Return
<1>6. CASE UNCHANGED vars
  BY <1>3, <1>6 DEF vars
<1> QED
  BY <1>1, <1>2, <1>4, <1>5, <1>6 DEF Next

-----------------------------------------------------------------------------
\* The random streams.
Drawn(n, i) == nodes[n].routing[i].stream

StreamsApart ==
  \A n \in DOMAIN nodes : \A i \in DOMAIN nodes[n].routing :
    Drawn(n, i) # NoStream =>
      /\ Drawn(n, i) < nextStream
      /\ \A m \in DOMAIN nodes : \A j \in DOMAIN nodes[m].routing :
           Drawn(m, j) = Drawn(n, i) => m = n /\ j = i

LEMMA ApartIsSeparate ==
  ASSUME StreamsApart
  PROVE  StreamsAreSeparate
<1>1. \A p \in Protocols : \E n \in DOMAIN nodes : \E i \in DOMAIN nodes[n].routing : p = <<n, i>>
  BY DEF Protocols
<1>2. \A n, i : StreamOf(<<n, i>>) = Drawn(n, i)
  BY DEF StreamOf, Drawn
<1>3. ASSUME NEW p \in Protocols, StreamOf(p) # NoStream
      PROVE  StreamOf(p) < nextStream /\ \A q \in Protocols \ {p} : StreamOf(q) # StreamOf(p)
  <2>1. PICK n \in DOMAIN nodes : \E i \in DOMAIN nodes[n].routing : p = <<n, i>>
    BY <1>1
  <2>2. PICK i \in DOMAIN nodes[n].routing : p = <<n, i>>
    BY <2>1
  <2>3. /\ Drawn(n, i) < nextStream
        /\ \A m \in DOMAIN nodes : \A j \in DOMAIN nodes[m].routing :
             Drawn(m, j) = Drawn(n, i) => m = n /\ j = i
    BY <1>2, <1>3, <2>2 DEF StreamsApart
  <2>4. ASSUME NEW q \in Protocols \ {p} PROVE StreamOf(q) # StreamOf(p)
    <3>1. PICK m \in DOMAIN nodes : \E j \in DOMAIN nodes[m].routing : q = <<m, j>>
      BY <1>1
    <3>2. PICK j \in DOMAIN nodes[m].routing : q = <<m, j>>
      BY <3>1
    <3> QED
      BY <1>2, <2>2, <2>3, <2>4, <3>2
  <2> QED
    BY <1>2, <2>2, <2>3, <2>4
<1> QED
  BY <1>3 DEF StreamsAreSeparate

\* No stream is given away by a step that is not AssignStreams.
LEMMA StreamsStay ==
  ASSUME StreamsApart, nextStream' = nextStream,
         \A n \in DOMAIN nodes' : \A i \in DOMAIN nodes'[n].routing :
           Drawn(n, i)' # NoStream =>
             n \in DOMAIN nodes /\ i \in DOMAIN nodes[n].routing /\ Drawn(n, i)' = Drawn(n, i)
  PROVE  StreamsApart'
BY DEF StreamsApart

LEMMA CountsGrow ==
  ASSUME NEW helper, NEW ns \in Seq(Nat), NEW i \in Matched(helper, ns)
  PROVE  /\ Place(helper, ns, i) \in Nat
         /\ Place(helper, ns, i) < Cardinality(Matched(helper, ns))
         /\ \A j \in Matched(helper, ns) : Place(helper, ns, i) = Place(helper, ns, j) => i = j
<1> DEFINE M == Matched(helper, ns)
           Before(k) == {l \in M : l < k}
<1>1. M \subseteq Nat /\ IsFiniteSet(M)
  <2>1. M \subseteq 1 .. Len(ns) /\ Len(ns) \in Nat
    BY DEF Matched
  <2> QED
    BY <2>1, MatchedIsFinite
<1> HIDE DEF M
<1>2. \A k \in M : Before(k) \subseteq M /\ k \notin Before(k)
  BY <1>1
<1>3. \A k \in M : IsFiniteSet(Before(k)) /\ Cardinality(Before(k)) \in Nat
  <2> TAKE k \in M
  <2>1. IsFiniteSet(Before(k))
    BY <1>1, <1>2, FS_Subset
  <2> QED
    BY <2>1, FS_CardinalityType
<1>4. \A S \in SUBSET M : S # M => Cardinality(S) < Cardinality(M)
  <2> TAKE S \in SUBSET M
  <2> HAVE S # M
  <2>1. Cardinality(S) <= Cardinality(M) /\ Cardinality(S) # Cardinality(M)
    BY <1>1, FS_Subset
  <2>2. Cardinality(S) \in Nat /\ Cardinality(M) \in Nat
    BY <1>1, FS_Subset, FS_CardinalityType
  <2> QED
    BY <2>1, <2>2
<1>5. ASSUME NEW j \in M, NEW k \in M, j < k PROVE Cardinality(Before(j)) < Cardinality(Before(k))
  <2>1. Before(j) \subseteq Before(k) /\ Before(j) # Before(k)
    <3>1. \A l \in M : l < j => l < k
      BY <1>1, <1>5
    <3>2. j \in Before(k) /\ j \notin Before(j)
      BY <1>1, <1>5
    <3> QED
      BY <3>1, <3>2
  <2> DEFINE B == Before(j)
             C == Before(k)
  <2>2. IsFiniteSet(B) /\ IsFiniteSet(C) /\ Cardinality(B) \in Nat /\ Cardinality(C) \in Nat
    BY <1>3
  <2>3. B \subseteq C /\ B # C
    BY <2>1
  <2> HIDE DEF B, C
  <2>4. Cardinality(B) <= Cardinality(C) /\ Cardinality(B) # Cardinality(C)
    BY <2>2, <2>3, FS_Subset
  <2>5. Cardinality(B) < Cardinality(C)
    BY <2>2, <2>4
  <2> QED
    BY <2>5 DEF B, C
<1>6. Cardinality(Before(i)) < Cardinality(M)
  <2>1. Before(i) \in SUBSET M /\ Before(i) # M
    BY <1>2 DEF M
  <2> HIDE DEF Before
  <2> QED
    BY <1>4, <2>1
<1>7. ASSUME NEW j \in M, Cardinality(Before(i)) = Cardinality(Before(j)) PROVE i = j
  <2>1. i \in M /\ i \in Nat /\ j \in Nat
    BY <1>1 DEF M
  <2>2. Cardinality(Before(i)) \in Nat /\ Cardinality(Before(j)) \in Nat
    BY <1>3, <2>1
  <2> DEFINE x == Cardinality(Before(i))
             y == Cardinality(Before(j))
  <2>3. i < j => x < y
    BY <1>5, <2>1
  <2>4. j < i => y < x
    BY <1>5, <2>1
  <2>5. x = y /\ x \in Nat
    BY <1>7, <2>2
  <2> HIDE DEF x, y
  <2> QED
    BY <2>1, <2>3, <2>4, <2>5
<1>8. Cardinality(Before(i)) \in Nat
  BY <1>3 DEF M
<1> QED
  BY <1>6, <1>7, <1>8 DEF M, Place

LEMMA StreamsAssigned ==
  ASSUME ScriptTyped, StreamsApart, NEW helper, NEW ns \in Seq(Nat), AssignStreams(helper, ns)
  PROVE  StreamsApart'
<1> DEFINE Count(k) == Place(helper, ns, k)
           Old(n, i) == Drawn(n, i)' = Drawn(n, i) /\ i \in DOMAIN nodes[n].routing
           New(n, k) == k \in Matched(helper, ns) /\ ns[k] = n
<1>1. DOMAIN nodes' = DOMAIN nodes /\ nextStream \in Nat
  BY StreamsGiven DEF ScriptTyped
<1>2. nextStream' = nextStream + Cardinality(Matched(helper, ns)) /\ Cardinality(Matched(helper, ns)) \in Nat
  BY MatchedIsFinite DEF AssignStreams
<1>3. ASSUME NEW n \in DOMAIN nodes
      PROVE  \/ \A i \in DOMAIN nodes'[n].routing : Old(n, i)
             \/ \E m, k : /\ New(n, k) /\ m \in DOMAIN nodes[n].routing
                          /\ Drawn(n, m)' = nextStream + Count(k)
                          /\ \A i \in DOMAIN nodes'[n].routing \ {m} : Old(n, i)
  <2>1. CASE nodes'[n] = nodes[n]
    BY <2>1 DEF Drawn
  <2>2. CASE \E m, k : Given(helper, ns, n, m, k)
    <3>1. PICK m, k : Given(helper, ns, n, m, k)
      BY <2>2
    <3>2. /\ DOMAIN nodes'[n].routing = DOMAIN nodes[n].routing
          /\ nodes'[n].routing[m].stream = nextStream + Count(k)
          /\ \A l \in DOMAIN nodes[n].routing \ {m} : nodes'[n].routing[l] = nodes[n].routing[l]
      BY <3>1, GivenIsTyped
    <3>3. New(n, k) /\ m \in DOMAIN nodes[n].routing
      BY <3>1 DEF Given
    <3>4. Drawn(n, m)' = nextStream + Count(k)
      BY <3>2 DEF Drawn
    <3>5. \A i \in DOMAIN nodes'[n].routing \ {m} : Old(n, i)
      BY <3>2 DEF Drawn
    <3> HIDE DEF Count, New, Old
    <3> QED
      BY <3>3, <3>4, <3>5
  <2> QED
    BY <2>1, <2>2, StreamsGiven
<1>4. \A n, k : New(n, k) => /\ Count(k) \in Nat /\ Count(k) < Cardinality(Matched(helper, ns))
                             /\ \A m, l : New(m, l) /\ Count(l) = Count(k) => l = k /\ m = n
  <2> TAKE n, k
  <2> HAVE New(n, k)
  <2>1. /\ Count(k) \in Nat /\ Count(k) < Cardinality(Matched(helper, ns))
        /\ \A j \in Matched(helper, ns) : Count(k) = Count(j) => k = j
    BY CountsGrow
  <2> HIDE DEF Count
  <2> QED
    BY <2>1
<1> HIDE DEF Count, New
<1>5. \A n \in DOMAIN nodes : \A i \in DOMAIN nodes[n].routing :
        Drawn(n, i) # NoStream => Drawn(n, i) \in Nat /\ Drawn(n, i) < nextStream
  BY NodesTyped DEF StreamsApart, Drawn, Protocol
<1>6. ASSUME NEW n \in DOMAIN nodes, NEW i \in DOMAIN nodes'[n].routing, Drawn(n, i)' # NoStream
      PROVE  Drawn(n, i)' < nextStream'
  BY <1>1, <1>2, <1>3, <1>4, <1>5, <1>6
<1>7. ASSUME NEW n \in DOMAIN nodes, NEW i \in DOMAIN nodes'[n].routing, Drawn(n, i)' # NoStream,
             NEW m \in DOMAIN nodes, NEW j \in DOMAIN nodes'[m].routing, Drawn(m, j)' = Drawn(n, i)'
      PROVE  m = n /\ j = i
  <2>1. ASSUME Old(n, i), Old(m, j) PROVE m = n /\ j = i
    BY <1>7, <2>1 DEF StreamsApart
  <2>2. ASSUME NEW x \in DOMAIN nodes, NEW y, Old(x, y), Drawn(x, y)' # NoStream,
               NEW z, NEW k, New(z, k)
        PROVE  Drawn(x, y)' # nextStream + Count(k)
    <3>1. Drawn(x, y)' \in Nat /\ Drawn(x, y)' < nextStream
      BY <1>5, <2>2
    <3>2. Count(k) \in Nat
      BY <1>4, <2>2
    <3> QED
      BY <1>1, <3>1, <3>2
  <2>3. CASE m = n
    BY <1>3, <1>7, <2>1, <2>2, <2>3
  <2>4. CASE m # n
    <3>1. Old(n, i) \/ \E k : New(n, k) /\ Drawn(n, i)' = nextStream + Count(k)
      BY <1>3
    <3>2. Old(m, j) \/ \E l : New(m, l) /\ Drawn(m, j)' = nextStream + Count(l)
      BY <1>3
    <3>3. ASSUME NEW k, New(n, k), NEW l, New(m, l)
          PROVE  nextStream + Count(k) # nextStream + Count(l)
      <4>1. Count(k) # Count(l) /\ Count(k) \in Nat /\ Count(l) \in Nat
        BY <1>4, <2>4, <3>3
      <4> QED
        BY <1>1, <4>1
    <3> QED
      BY <1>7, <2>1, <2>2, <3>1, <3>2, <3>3
  <2> QED
    BY <2>3, <2>4
<1> QED
  BY <1>1, <1>6, <1>7 DEF StreamsApart

LEMMA StreamsCalled ==
  ASSUME ScriptTyped, StreamsApart, NEW c \in HelperCall, Perform(c)
  PROVE  StreamsApart'
<1>1. ASSUME UNCHANGED <<nodes, nextStream>> PROVE StreamsApart'
  BY <1>1 DEF StreamsApart, Drawn
<1>2. ASSUME nextStream' = nextStream, DOMAIN nodes' = DOMAIN nodes,
             \A n \in DOMAIN nodes : nodes'[n].routing = nodes[n].routing
      PROVE  StreamsApart'
  BY <1>2 DEF StreamsApart, Drawn
<1>3. CASE CreateNode
  <2>1. nodes' = Append(nodes, [routing |-> << >>, apps |-> << >>]) /\ nextStream' = nextStream
    BY <1>3 DEF CreateNode
  <2>2. \A n \in DOMAIN nodes' :
          \/ n \in DOMAIN nodes /\ nodes'[n] = nodes[n]
          \/ nodes'[n] = [routing |-> << >>, apps |-> << >>]
    BY <2>1 DEF ScriptTyped
  <2>3. \A n \in DOMAIN nodes' : \A i \in DOMAIN nodes'[n].routing :
          n \in DOMAIN nodes /\ i \in DOMAIN nodes[n].routing /\ Drawn(n, i)' = Drawn(n, i)
    <3>1. [routing |-> << >>, apps |-> << >>].routing = << >> /\ DOMAIN << >> = {}
      OBVIOUS
    <3> QED
      BY <2>2, <3>1 DEF Drawn
  <2> QED
    BY <2>1, <2>3, StreamsStay
<1>4. CASE \E n \in Nat : Install(n)
  <2>1. PICK n \in Nat : Install(n)
    BY <1>4
  <2>2. n \in DOMAIN nodes /\ nodes \in Seq(NodeObject) /\ nodes[n] \in NodeObject
    BY <2>1, NodesTyped DEF Install, ScriptTyped
  <2> DEFINE r == [i \in DOMAIN stack.helpers |-> Agent(stack.helpers[i])]
             more == [i \in 1 .. Cardinality({i \in DOMAIN stack.helpers : stack.helpers[i] = "trust"}) |->
                        Manager(stack.managerType)]
  <2>3. nodes' = [nodes EXCEPT ![n].routing = r, ![n].apps = @ \o more] /\ nextStream' = nextStream
    BY <2>1 DEF Install
  <2>4. /\ DOMAIN nodes' = DOMAIN nodes /\ nodes'[n].routing = r
        /\ \A m \in DOMAIN nodes \ {n} : nodes'[m] = nodes[m]
    <3> HIDE DEF r, more
    <3> QED
      BY <2>2, <2>3 DEF NodeObject
  <2>5. \A i \in DOMAIN r : r[i].stream = NoStream
    BY DEF Agent
  <2> HIDE DEF r, more
  <2>6. \A m \in DOMAIN nodes' : \A i \in DOMAIN nodes'[m].routing :
          Drawn(m, i)' # NoStream =>
            m \in DOMAIN nodes /\ i \in DOMAIN nodes[m].routing /\ Drawn(m, i)' = Drawn(m, i)
    BY <2>4, <2>5 DEF Drawn
  <2> QED
    BY <2>3, <2>6, StreamsStay
<1>5. CASE \E helper \in STRING, ns \in Seq(Nat) : AssignStreams(helper, ns)
  BY <1>5, StreamsAssigned
<1>6. CASE /\ c.call = "InstallPing" /\ c.node \in Nat /\ c.start \in Nat /\ c.stop \in Nat
           /\ InstallPing(c.node, c.start, c.stop)
  <2>1. PICK n, app : n = c.node /\ app = [kind |-> "ping", type |-> "ns3::V4Ping", start |-> c.start,
                                           stop |-> c.stop, state |-> "new"]
    OBVIOUS
  <2>2. n \in DOMAIN nodes /\ nodes \in Seq(NodeObject) /\ nodes[n] \in NodeObject
    BY <1>6, <2>1, NodesTyped DEF InstallPing, ScriptTyped
  <2>3. nodes' = [nodes EXCEPT ![n].apps = Append(@, app)] /\ nextStream' = nextStream
    BY <1>6, <2>1 DEF InstallPing
  <2>4. DOMAIN nodes' = DOMAIN nodes /\ \A m \in DOMAIN nodes : nodes'[m].routing = nodes[m].routing
    BY <2>2, <2>3 DEF NodeObject
  <2> QED
    BY <1>2, <2>3, <2>4
<1>7. CASE \E tid \in STRING : SetManagerType(tid)
  BY <1>1, <1>7 DEF SetManagerType
<1>8. CASE \E helpers \in Seq(STRING) : SetRoutingHelper(helpers)
  BY <1>1, <1>8 DEF SetRoutingHelper
<1>9. CASE \E who, time, repeats : Asks(who, time, repeats)
  BY <1>1, <1>9 DEF Asks, Ask
<1>10. CASE \E time \in Nat : Stop(time)
  BY <1>1, <1>10 DEF Stop
<1> QED
  BY <1>3, <1>4, <1>5, <1>6, <1>7, <1>8, <1>9, <1>10, Performed

LEMMA StreamsKept ==
  ASSUME Typed, StreamsApart, [Next]_vars
  PROVE  StreamsApart'
<1>1. CASE Call
  <2>1. PICK c \in NextCall : Perform(c)
    BY <1>1 DEF Call
  <2>2. c \in HelperCall
    BY NextIsACall DEF Typed
  <2> QED
    BY <2>1, <2>2, StreamsCalled DEF Typed
<1>2. ASSUME nextStream' = nextStream, DOMAIN nodes' = DOMAIN nodes,
             \A n \in DOMAIN nodes : nodes'[n].routing = nodes[n].routing
      PROVE  StreamsApart'
  BY <1>2 DEF StreamsApart, Drawn
<1>3. CASE Event
  <2>1. PICK d : Next1(d)
    BY <1>3, EventRuns
  <2>2. nextStream' = nextStream /\ HasTarget(d.do)
    BY <2>1 DEF Next1, setup
  <2>3. CASE UNCHANGED nodes
    BY <1>2, <2>2, <2>3
  <2>4. CASE /\ d.do.what \in {"start", "end"} /\ d.do.node \in Nat /\ d.do.app \in Nat
             /\ Turn(d.do.node, d.do.app, IF d.do.what = "start" THEN "running" ELSE "stopped")
    <3>1. PICK n, k, state : n = d.do.node /\ k = d.do.app
                             /\ state = IF d.do.what = "start" THEN "running" ELSE "stopped"
      OBVIOUS
    <3>2. n \in DOMAIN nodes /\ k \in DOMAIN nodes[n].apps /\ state \in {"running", "stopped"}
      BY <2>2, <2>4, <3>1 DEF HasTarget
    <3>3. Turn(n, k, state)
      BY <2>4, <3>1
    <3> QED
      BY <1>2, <2>2, <3>2, <3>3, TurnEffect DEF Typed
  <2> QED
    BY <2>1, <2>3, <2>4, WhatRuns DEF Initialize, PrintEvery
<1>4. CASE Run
  BY <1>2, <1>4 DEF Run, setup
<1>5. CASE Return
  BY <1>2, <1>5 DEF Return, setup
<1>6. CASE UNCHANGED vars
  BY <1>2, <1>6 DEF vars, setup
<1> QED
  BY <1>1, <1>3, <1>4, <1>5, <1>6 DEF Next

\* However the calls of the helpers are chained and repeated in a script, no two
\* protocols draw from the same random stream, and none draws from one that will
\* be given away again (AssignStreams of the three helpers).
THEOREM StreamsAreAlwaysSeparate == Spec => []StreamsAreSeparate
<1>1. Init => Typed /\ StreamsApart
  <2>1. Init => StreamsApart
    BY DEF Init, StreamsApart
  <2> QED
    BY <2>1, InitTyped
<1>2. Typed /\ StreamsApart /\ [Next]_vars => Typed' /\ StreamsApart'
  BY NextTyped, StreamsKept
<1>3. StreamsApart => StreamsAreSeparate
  BY ApartIsSeparate
<1> QED
  BY <1>1, <1>2, <1>3, PTL DEF Spec

-----------------------------------------------------------------------------
\* The prints.
LEMMA ManagersCounted ==
  ASSUME ScriptTyped, NEW n \in DOMAIN nodes
  PROVE  Cardinality(Managers(n)) \in Nat
<1>1. Managers(n) \subseteq 1 .. Len(nodes[n].apps) /\ Len(nodes[n].apps) \in Nat
  BY NodesTyped DEF Managers
<1>2. IsFiniteSet(1 .. Len(nodes[n].apps))
  BY <1>1, FS_Interval
<1>3. IsFiniteSet(Managers(n))
  BY <1>1, <1>2, FS_Subset
<1> QED
  BY <1>3, FS_CardinalityType

\* While the script runs nothing is printed.
Waiting(r) ==
  LET q == requests[r] IN
  /\ q.of \subseteq DOMAIN nodes
  /\ q.repeats => q.time > 0
  /\ printed[r] = << >>
  /\ \A n \in q.of : \E e \in events : IsPrint(e, r, n) /\ e.time = q.time

LEMMA NoLines ==
  ASSUME NEW r, NEW n, \A i \in DOMAIN printed[r] : printed[r][i] # n
  PROVE  Lines(r, n) = 0
<1>1. {i \in DOMAIN printed[r] : printed[r][i] = n} = {}
  OBVIOUS
<1> QED
  BY <1>1, FS_EmptySet DEF Lines

WaitingMeansOK ==
  ScriptTyped /\ phase = "setup" /\ now = 0 =>
    \A r \in DOMAIN requests : RequestOK(r) <=> Waiting(r)

LEMMA WaitingIsOK == WaitingMeansOK
<1> SUFFICES ASSUME ScriptTyped, NEW r \in DOMAIN requests, phase = "setup", now = 0
             PROVE  RequestOK(r) <=> Waiting(r)
  BY DEF WaitingMeansOK
<1>1. requests[r] \in Request
  BY DEF ScriptTyped
<1>2. requests[r].time \in Nat /\ requests[r].repeats \in BOOLEAN
  BY <1>1 DEF Request
<1>3. ASSUME RequestOK(r) PROVE Waiting(r)
  <2>1. ASSUME NEW n \in requests[r].of
        PROVE  \E e \in events : IsPrint(e, r, n) /\ e.time = requests[r].time
    <3>1. PICK k \in Nat : PrintedTimes(r, n, k)
      BY <1>3 DEF RequestOK
    <3>2. k = 0 /\ (0 + 1) * requests[r].time = requests[r].time
      BY <1>2, <3>1 DEF PrintedTimes
    <3> QED
      BY <3>1, <3>2 DEF PrintedTimes
  <2> QED
    BY <1>3, <2>1 DEF RequestOK, Waiting
<1>4. ASSUME Waiting(r) PROVE RequestOK(r)
  <2>1. ASSUME NEW n \in requests[r].of PROVE PrintedTimes(r, n, 0)
    <3>1. n \in DOMAIN nodes
      BY <1>4 DEF Waiting
    <3>2. Cardinality(Managers(n)) \in Nat
      BY <3>1, ManagersCounted
    <3>3. \A i \in DOMAIN printed[r] : printed[r][i] # n
      <4>1. printed[r] = << >>
        BY <1>4 DEF Waiting
      <4> QED
        BY <4>1
    <3>4. Lines(r, n) = 0 * Cardinality(Managers(n))
      BY <3>2, <3>3, NoLines
    <3>5. (0 + 1) * requests[r].time = requests[r].time /\ 0 * requests[r].time <= now
      BY <1>2
    <3>6. \E e \in events : IsPrint(e, r, n) /\ e.time = requests[r].time
      BY <1>4 DEF Waiting
    <3> QED
      BY <1>2, <3>4, <3>5, <3>6 DEF PrintedTimes
  <2>2. \A n \in requests[r].of : \E k \in Nat : PrintedTimes(r, n, k)
    BY <2>1
  <2>3. DOMAIN << >> = {}
    OBVIOUS
  <2> QED
    BY <1>4, <2>2, <2>3 DEF RequestOK, Waiting
<1> QED
  BY <1>3, <1>4

LEMMA WaitingIsOKNext == WaitingMeansOK'
BY WaitingIsOK, PTL

\* A call that asks for nothing leaves the requests and their events alone.
LEMMA PrintsUntouched ==
  ASSUME Typed, PrintsOK, phase = "setup", phase' = "setup", now' = 0, ScriptTyped',
         DOMAIN nodes \subseteq DOMAIN nodes', UNCHANGED <<requests, printed>>,
         events \subseteq events', \A e \in events' : e.do.what = "print" => e \in events
  PROVE  PrintsOK'
<1>1. now = 0 /\ ScriptTyped
  BY DEF Typed, QueueTyped
<1>2. ASSUME NEW r \in DOMAIN requests' PROVE RequestOK(r)'
  <2>1. Waiting(r)
    BY <1>1, WaitingIsOK DEF PrintsOK, WaitingMeansOK
  <2>2. Waiting(r)'
    BY <2>1 DEF Waiting, IsPrint
  <2> QED
    BY <2>2, WaitingIsOKNext DEF WaitingMeansOK
<1>3. ASSUME NEW e \in events', e.do.what = "print" PROVE PrintOK(e)'
  <2>1. e \in events /\ PrintOK(e)
    BY <1>3 DEF PrintsOK
  <2> QED
    BY <2>1 DEF PrintOK, IsPrint
<1> QED
  BY <1>2, <1>3 DEF PrintsOK

LEMMA PrintsAsked ==
  ASSUME Typed, PrintsOK, phase = "setup", phase' = "setup", now' = 0, ScriptTyped',
         NEW who, NEW time, NEW repeats, Asks(who, time, repeats)
  PROVE  PrintsOK'
<1> DEFINE out == Len(requests) + 1
<1>1. now = 0 /\ ScriptTyped /\ DOMAIN requests = 1 .. Len(requests) /\ Len(requests) \in Nat
      /\ DOMAIN printed = DOMAIN requests
  BY DEF Typed, QueueTyped, ScriptTyped
<1>2. /\ who \in Seq(Nat) /\ DOMAIN who = 1 .. Len(who) /\ nodes' = nodes /\ time \in Nat
      /\ repeats \in BOOLEAN /\ repeats => time > 0
      /\ \A i \in 1 .. Len(who) : who[i] \in DOMAIN nodes
      /\ \A i, j \in 1 .. Len(who) : who[i] = who[j] => i = j
  BY DEF Asks, Ask
<1>3. /\ DOMAIN requests' = 1 .. out
      /\ requests'[out] = [of |-> Range(who), time |-> time, repeats |-> repeats]
      /\ \A r \in DOMAIN requests : requests'[r] = requests[r]
      /\ printed'[out] = << >>
      /\ \A r \in DOMAIN requests : printed'[r] = printed[r]
  BY <1>1, AskIsTyped
<1>4. PICK duties \in Seq(Duty) :
        /\ Schedule(events, duties) /\ Len(duties) = Len(who)
        /\ \A i \in 1 .. Len(who) : IsAskedOf(duties[i], who[i], time, repeats)
  BY AskIsTyped
<1>5. uid \in Nat /\ events \in SUBSET SimEvent /\ Numbered(events, uid)
  BY DEF Typed, QueueTyped
<1>6. /\ events \subseteq events'
      /\ \A i \in 1 .. Len(who) : Nth(duties, i) \in events' /\ Nth(duties, i).time = time
                                  /\ IsPrint(Nth(duties, i), out, who[i])
                                  /\ Nth(duties, i).do.interval = IF repeats THEN time ELSE 0
      /\ \A e \in events' : e \in events \/ \E i \in 1 .. Len(who) : e = Nth(duties, i)
  BY <1>4, <1>5, Scheduled DEF IsAskedOf, IsPrint
<1> HIDE DEF out
<1>7. out \notin DOMAIN requests /\ out \in DOMAIN requests'
      /\ \A r \in DOMAIN requests' : r \in DOMAIN requests \/ r = out
  BY <1>1, <1>3 DEF out
<1>8. ASSUME NEW r \in DOMAIN requests' PROVE RequestOK(r)'
  <2>1. CASE r \in DOMAIN requests
    <3>1. Waiting(r)
      BY <1>1, <2>1, WaitingIsOK DEF PrintsOK, WaitingMeansOK
    <3>2. Waiting(r)'
      BY <1>2, <1>3, <1>6, <2>1, <3>1 DEF Waiting, IsPrint
    <3> QED
      BY <3>2, WaitingIsOKNext DEF WaitingMeansOK
  <2>2. CASE r = out
    <3>1. \A n \in Range(who) : \E i \in 1 .. Len(who) : n = who[i]
      BY <1>2 DEF Range
    <3>2. requests'[r].of = Range(who) /\ requests'[r].time = time /\ requests'[r].repeats = repeats
      BY <1>3, <2>2
    <3>3. Range(who) \subseteq DOMAIN nodes'
      BY <1>2, <3>1
    <3>4. \A n \in Range(who) : \E e \in events' : IsPrint(e, r, n) /\ e.time = time
      BY <1>6, <2>2, <3>1
    <3>5. Waiting(r)'
      <4>1. /\ requests'[r].of \subseteq DOMAIN nodes'
            /\ requests'[r].repeats => requests'[r].time > 0
            /\ printed'[r] = << >>
        BY <1>2, <1>3, <2>2, <3>2, <3>3
      <4>2. \A n \in requests'[r].of : \E e \in events' :
              (e.do.what = "print" /\ e.do.out = r /\ e.do.node = n) /\ e.time = requests'[r].time
        BY <3>2, <3>4 DEF IsPrint
      <4> QED
        BY <4>1, <4>2 DEF Waiting, IsPrint
    <3> QED
      BY <3>5, WaitingIsOKNext DEF WaitingMeansOK
  <2> QED
    BY <1>7, <2>1, <2>2
<1>9. \A e \in events : e.do.what = "print" => e.do.out \in DOMAIN requests
  BY DEF Typed, QueueTyped, HasTarget
<1>10. ASSUME NEW e \in events', e.do.what = "print" PROVE PrintOK(e)'
  <2>1. CASE e \in events
    <3>1. PrintOK(e) /\ e.do.out \in DOMAIN requests
      BY <1>9, <1>10, <2>1 DEF PrintsOK
    <3>2. \A f \in events' : IsPrint(f, e.do.out, e.do.node) => f \in events
      BY <1>6, <1>7, <3>1 DEF IsPrint
    <3> QED
      BY <1>3, <3>1, <3>2 DEF PrintOK, IsPrint
  <2>2. CASE e \notin events
    <3>1. PICK i \in 1 .. Len(who) : e = Nth(duties, i)
      BY <1>6, <2>2
    <3>2. e.do.out = out /\ e.do.node = who[i] /\ e.do.interval = IF repeats THEN time ELSE 0
      BY <1>6, <3>1 DEF IsPrint
    <3>3. who[i] \in Range(who)
      BY <1>2 DEF Range
    <3>4. requests'[out].of = Range(who) /\ requests'[out].time = time /\ requests'[out].repeats = repeats
      BY <1>3
    <3>5. ASSUME NEW f \in events', IsPrint(f, out, who[i]) PROVE f = e
      <4>1. f \notin events
        BY <1>7, <1>9, <3>5 DEF IsPrint
      <4>2. PICK j \in 1 .. Len(who) : f = Nth(duties, j)
        BY <1>6, <4>1
      <4>3. who[j] = who[i]
        BY <1>6, <3>5, <4>2 DEF IsPrint
      <4> QED
        BY <1>2, <3>1, <4>2, <4>3
    <3> QED
      BY <3>2, <3>3, <3>4, <3>5 DEF PrintOK, IsPrint
  <2> QED
    BY <2>1, <2>2
<1> QED
  BY <1>8, <1>10 DEF PrintsOK

LEMMA PrintsCalled ==
  ASSUME Typed, PrintsOK, Call
  PROVE  PrintsOK'
<1>1. PICK c \in NextCall : Perform(c)
  BY DEF Call
<1>2. c \in HelperCall
  BY NextIsACall DEF Typed
<1>3. phase = "setup" /\ phase' = "setup" /\ now' = 0
  BY DEF Call, Typed, QueueTyped
<1>4. ScriptTyped'
  BY CallTyped DEF Typed
<1>5. DOMAIN nodes \subseteq DOMAIN nodes'
  BY <1>1, <1>2, CallEffect DEF Typed, AppsGrow
<1>6. ASSUME UNCHANGED <<requests, printed, queue>> PROVE PrintsOK'
  <2>1. events' = events
    BY <1>6 DEF queue
  <2> QED
    BY <1>3, <1>4, <1>5, <1>6, <2>1, PrintsUntouched
<1>7. ASSUME UNCHANGED <<requests, printed>>, NEW d \in Duty, d.do.what # "print",
             Schedule(events, <<d>>)
      PROVE  PrintsOK'
  <2>1. <<d>> \in Seq(Duty) /\ Len(<<d>>) = 1 /\ <<d>>[1] = d /\ \A i \in 1 .. 1 : i = 1
    OBVIOUS
  <2>2. uid \in Nat /\ events \in SUBSET SimEvent /\ Numbered(events, uid)
    BY DEF Typed, QueueTyped
  <2>3. /\ events \subseteq events'
        /\ \A i \in 1 .. Len(<<d>>) : Nth(<<d>>, i).do = <<d>>[i].do
        /\ \A e \in events' : e \in events \/ \E i \in 1 .. Len(<<d>>) : e = Nth(<<d>>, i)
    BY <1>7, <2>1, <2>2, Scheduled
  <2>4. \A e \in events' : e.do.what = "print" => e \in events
    BY <1>7, <2>1, <2>3
  <2> QED
    BY <1>3, <1>4, <1>5, <1>7, <2>3, <2>4, PrintsUntouched
<1>8. CASE CreateNode
  <2>1. PICK d : d = [time |-> 0, do |-> [what |-> "initialize", node |-> Len(nodes')]]
    OBVIOUS
  <2>2. Len(nodes') \in Nat
    BY <1>4 DEF ScriptTyped
  <2>3. d \in Duty /\ d.do.what # "print"
    BY <2>1, <2>2 DEF Duty, Handler
  <2> QED
    BY <1>7, <1>8, <2>1, <2>3 DEF CreateNode
<1>9. CASE \E time \in Nat : Stop(time)
  <2>1. PICK time \in Nat : Stop(time)
    BY <1>9
  <2>2. PICK d : d = [time |-> time, do |-> [what |-> "stop"]]
    OBVIOUS
  <2>3. d \in Duty /\ d.do.what # "print"
    BY <2>2 DEF Duty, Handler
  <2> QED
    BY <1>7, <2>1, <2>2, <2>3 DEF Stop
<1>10. CASE \E who, time, repeats : Asks(who, time, repeats)
  BY <1>3, <1>4, <1>10, PrintsAsked
<1>11. CASE \E tid \in STRING : SetManagerType(tid)
  BY <1>6, <1>11 DEF SetManagerType
<1>12. CASE \E helpers \in Seq(STRING) : SetRoutingHelper(helpers)
  BY <1>6, <1>12 DEF SetRoutingHelper
<1>13. CASE \E n \in Nat : Install(n)
  BY <1>6, <1>13 DEF Install
<1>14. CASE \E helper \in STRING, ns \in Seq(Nat) : AssignStreams(helper, ns)
  BY <1>6, <1>14 DEF AssignStreams
<1>15. CASE /\ c.call = "InstallPing" /\ c.node \in Nat /\ c.start \in Nat /\ c.stop \in Nat
            /\ InstallPing(c.node, c.start, c.stop)
  BY <1>6, <1>15 DEF InstallPing
<1> QED
  BY <1>1, <1>2, <1>8, <1>9, <1>10, <1>11, <1>12, <1>13, <1>14, <1>15, Performed DEF Typed

LEMMA ManagersStay ==
  ASSUME NEW n, DOMAIN nodes'[n].apps = DOMAIN nodes[n].apps,
         \A k \in DOMAIN nodes[n].apps : nodes'[n].apps[k].kind = nodes[n].apps[k].kind
  PROVE  Managers(n)' = Managers(n)
BY DEF Managers

LEMMA LinesStay ==
  ASSUME NEW r, NEW n, printed'[r] = printed[r]
  PROVE  Lines(r, n)' = Lines(r, n)
BY DEF Lines

\* An event that prints nothing.
LEMMA NothingPrinted ==
  ASSUME Typed, PrintsOK, NEW d, Next1(d), d.do.what # "print",
         DOMAIN nodes' = DOMAIN nodes, \A n \in DOMAIN nodes : Managers(n)' = Managers(n),
         printed' = printed, phase' # "setup",
         After \subseteq events', \A e \in events' : e.do.what = "print" => e \in After
  PROVE  PrintsOK'
<1>1. /\ requests' = requests /\ now' \in Nat /\ now \in Nat /\ now <= now'
      /\ After = events \ {d} /\ d \in events /\ requests \in Seq(Request)
  BY DEF Next1, setup, Typed, QueueTyped, ScriptTyped
<1>2. \A e \in events : e.do.what = "print" => e \in events'
  BY <1>1
<1>3. ASSUME NEW r \in DOMAIN requests PROVE RequestOK(r)'
  <2>0. requests[r] \in Request
    BY <1>1
  <2>1. requests[r].time \in Nat /\ RequestOK(r)
    BY <2>0 DEF Request, PrintsOK
  <2>2. ASSUME NEW n \in requests[r].of PROVE \E k \in Nat : PrintedTimes(r, n, k)'
    <3>1. PICK k \in Nat : PrintedTimes(r, n, k)
      BY <2>1 DEF RequestOK
    <3>2. n \in DOMAIN nodes
      BY <2>1 DEF RequestOK
    <3>3. Lines(r, n)' = k * Cardinality(Managers(n)')
      BY <3>1, <3>2, LinesStay DEF PrintedTimes
    <3>4. CASE /\ requests[r].repeats /\ k * requests[r].time <= now
               /\ \E e \in events : IsPrint(e, r, n) /\ e.time = (k + 1) * requests[r].time
      <4>1. k * requests[r].time \in Nat
        BY <2>1
      <4>2. k * requests[r].time <= now'
        BY <1>1, <3>4, <4>1
      <4>3. \E e \in events' : IsPrint(e, r, n) /\ e.time = (k + 1) * requests[r].time
        BY <1>2, <3>4 DEF IsPrint
      <4>4. PrintedTimes(r, n, k)'
        BY <1>1, <3>3, <3>4, <4>2, <4>3 DEF PrintedTimes, IsPrint
      <4> QED
        BY <4>4
    <3>5. CASE /\ ~requests[r].repeats /\ k = 0
               /\ \E e \in events : IsPrint(e, r, n) /\ e.time = requests[r].time
      <4>1. \E e \in events' : IsPrint(e, r, n) /\ e.time = requests[r].time
        BY <1>2, <3>5 DEF IsPrint
      <4>2. PrintedTimes(r, n, k)'
        BY <1>1, <3>3, <3>5, <4>1 DEF PrintedTimes, IsPrint
      <4> QED
        BY <4>2
    <3>6. CASE /\ ~requests[r].repeats /\ k = 1 /\ requests[r].time <= now
               /\ ~ \E e \in events : IsPrint(e, r, n)
      <4>1. ~ \E e \in events' : IsPrint(e, r, n)
        BY <1>1, <3>6 DEF IsPrint
      <4>2. requests[r].time <= now'
        BY <1>1, <2>1, <3>6
      <4>3. PrintedTimes(r, n, k)'
        BY <1>1, <3>3, <3>6, <4>1, <4>2 DEF PrintedTimes, IsPrint
      <4> QED
        BY <4>3
    <3> QED
      BY <3>1, <3>4, <3>5, <3>6 DEF PrintedTimes
  <2> QED
    BY <1>1, <2>1, <2>2 DEF RequestOK
<1>4. ASSUME NEW e \in events', e.do.what = "print" PROVE PrintOK(e)'
  <2>1. e \in events /\ PrintOK(e)
    BY <1>1, <1>4 DEF PrintsOK
  <2>2. \A f \in events' : f.do.what = "print" => f \in events
    BY <1>1
  <2> QED
    BY <1>1, <2>1, <2>2 DEF PrintOK, IsPrint
<1> QED
  BY <1>1, <1>3, <1>4 DEF PrintsOK

LEMMA LinesAdded ==
  ASSUME ScriptTyped, NEW d, d.node \in DOMAIN nodes, d.out \in DOMAIN requests, PrintEvery(d),
         NEW n
  PROVE  /\ Lines(d.out, n) \in Nat
         /\ Lines(d.out, n)' = Lines(d.out, n) + IF n = d.node THEN Cardinality(Managers(n)) ELSE 0
<1> DEFINE M == Cardinality(Managers(d.node))
           L == Len(printed[d.out])
           old == {i \in DOMAIN printed[d.out] : printed[d.out][i] = n}
           new == {i \in DOMAIN printed'[d.out] : printed'[d.out][i] = n}
           added == L + 1 .. L + M
<1>1. /\ M \in Nat /\ L \in Nat /\ DOMAIN printed[d.out] = 1 .. L
      /\ DOMAIN printed'[d.out] = 1 .. L + M
      /\ \A i \in 1 .. L + M : printed'[d.out][i] = IF i \in 1 .. L THEN printed[d.out][i] ELSE d.node
  BY PrintEffect
<1>2. Lines(d.out, n) = Cardinality(old) /\ Lines(d.out, n)' = Cardinality(new)
  BY DEF Lines
<1> HIDE DEF M, L
<1>3. \A i : i \in 1 .. L + M <=> i \in 1 .. L \/ i \in added
  BY <1>1
<1>4. \A i \in added : i \notin 1 .. L
  BY <1>1
<1>5. IsFiniteSet(old) /\ Cardinality(old) \in Nat
  <2>0. 1 \in Int /\ L \in Int
    BY <1>1
  <2>1. IsFiniteSet(1 .. L)
    BY <2>0, FS_Interval
  <2>2. old \subseteq 1 .. L
    BY <1>1
  <2> HIDE DEF old
  <2>3. IsFiniteSet(old)
    BY <2>1, <2>2, FS_Subset
  <2> QED
    BY <2>3, FS_CardinalityType
<1>6. CASE n = d.node
  <2>1. new = old \cup added
    BY <1>1, <1>3, <1>4, <1>6
  <2>2. old \cap added = {}
    BY <1>1, <1>4
  <2>3. IsFiniteSet(added) /\ Cardinality(added) = M
    <3>1. L + 1 \in Int /\ L + M \in Int
      BY <1>1
    <3>2. /\ IsFiniteSet(L + 1 .. L + M)
          /\ Cardinality(L + 1 .. L + M) = IF L + 1 > L + M THEN 0 ELSE (L + M) - (L + 1) + 1
      BY <3>1, FS_Interval
    <3> QED
      BY <1>1, <3>2
  <2> HIDE DEF old, added, new
  <2>4. Cardinality(new) = Cardinality(old) + M
    <3>1. Cardinality(old \cup added) =
            Cardinality(old) + Cardinality(added) - Cardinality(old \cap added)
      BY <1>5, <2>3, FS_Union
    <3>2. Cardinality(old \cap added) = 0
      BY <2>2, FS_EmptySet
    <3> QED
      BY <1>1, <1>5, <2>1, <2>3, <3>1, <3>2
  <2> QED
    BY <1>2, <1>5, <1>6, <2>4 DEF M
<1>7. CASE n # d.node
  <2>1. new = old
    BY <1>1, <1>3, <1>4, <1>7
  <2> HIDE DEF old, new
  <2> QED
    BY <1>2, <1>5, <1>7, <2>1
<1> QED
  BY <1>6, <1>7

\* A print, of the node n for the request r.
LEMMA Printed ==
  ASSUME Typed, PrintsOK, NEW d, Next1(d), d.do.what = "print", PrintEvery(d.do),
         NEW n, n = d.do.node, NEW r, r = d.do.out
  PROVE  PrintsOK'
<1> DEFINE q == requests[r]
<1>1. /\ requests' = requests /\ nodes' = nodes /\ phase' = phase /\ phase = "running"
      /\ now' = d.time /\ now' \in Nat /\ now \in Nat /\ now <= now'
      /\ After = events \ {d} /\ d \in events /\ events \in SUBSET SimEvent
      /\ n \in DOMAIN nodes /\ r \in DOMAIN requests /\ d.do \in Handler
      /\ uid \in Nat /\ Numbered(events, uid) /\ ScriptTyped
  BY DEF Next1, setup, Typed, QueueTyped, HasTarget, PrintEvery, SimEvent
<1>2. /\ n \in q.of /\ d.do.interval = IF q.repeats THEN q.time ELSE 0
      /\ \A f \in events : IsPrint(f, r, n) => f = d
      /\ IsPrint(d, r, n)
  BY <1>1 DEF PrintsOK, PrintOK, IsPrint
<1>3. /\ \A s \in DOMAIN requests : requests[s] \in Request /\ requests[s].time \in Nat
      /\ q.repeats \in BOOLEAN /\ (q.repeats => q.time > 0) /\ DOMAIN printed = DOMAIN requests
  <2>1. \A s \in DOMAIN requests : requests[s] \in Request
    BY <1>1 DEF ScriptTyped
  <2>2. \A s \in DOMAIN requests : requests[s].time \in Nat /\ requests[s].repeats \in BOOLEAN
    BY <2>1 DEF Request
  <2>3. q.repeats => q.time > 0
    BY <1>1 DEF PrintsOK, RequestOK
  <2>4. DOMAIN printed = DOMAIN requests
    BY <1>1 DEF ScriptTyped
  <2> QED
    BY <1>1, <2>1, <2>2, <2>3, <2>4
<1>4. /\ \A s \in DOMAIN requests \ {r} : printed'[s] = printed[s]
      /\ \A m : Lines(r, m)' = Lines(r, m) + IF m = n THEN Cardinality(Managers(m)) ELSE 0
      /\ \A m : Lines(r, m) \in Nat
  BY <1>1, <1>3, PrintEffect, LinesAdded
\* The next print.
<1>5. \/ ~q.repeats /\ events' = After
      \/ /\ q.repeats
         /\ \E f : /\ events' = After \cup {f} /\ f.time = now' + q.time /\ f.do = d.do
  <2>1. CASE ~q.repeats
    <3>1. Schedule(After, << >>)
      BY <1>2, <2>1 DEF PrintEvery
    <3> QED
      BY <2>1, <3>1 DEF Schedule
  <2>2. CASE q.repeats
    <3>1. d.do.interval = q.time /\ d.do.interval # 0
      BY <1>1, <1>2, <1>3, <2>2
    <3>2. PICK g : g = [time |-> now' + q.time, do |-> d.do]
      OBVIOUS
    <3>3. Schedule(After, <<g>>)
      BY <3>1, <3>2 DEF PrintEvery
    <3>4. g \in Duty
      BY <1>1, <1>3, <3>2 DEF Duty
    <3>9. PICK new : new = <<g>>
      OBVIOUS
    <3>5. new \in Seq(Duty) /\ Len(new) = 1 /\ new[1] = g
      BY <3>9, <3>4
    <3>6. After \in SUBSET SimEvent /\ Numbered(After, uid)
      BY <1>1 DEF Numbered
    <3>7. /\ After \subseteq events'
          /\ \A i \in 1 .. Len(new) :
               Nth(new, i) \in events' /\ Nth(new, i).time = new[i].time /\ Nth(new, i).do = new[i].do
          /\ \A e \in events' : e \in After \/ \E i \in 1 .. Len(new) : e = Nth(new, i)
      BY <1>1, <3>9, <3>3, <3>5, <3>6, Scheduled
    <3>8. /\ events' = After \cup {Nth(new, 1)}
          /\ Nth(new, 1).time = g.time /\ Nth(new, 1).do = g.do
      <4>1. 1 \in 1 .. Len(new) /\ \A i \in 1 .. Len(new) : i = 1
        BY <3>5
      <4> QED
        BY <3>5, <3>7, <4>1
    <3> QED
      BY <2>2, <3>2, <3>8
  <2> QED
    BY <1>3, <2>1, <2>2
<1>6. ASSUME NEW s \in DOMAIN requests, NEW m, <<s, m>> # <<r, n>>, NEW e
      PROVE  IsPrint(e, s, m) => (e \in events' <=> e \in events)
  <2>1. ~IsPrint(d, s, m)
    BY <1>2, <1>6 DEF IsPrint
  <2>2. \A f : f.do = d.do => ~IsPrint(f, s, m)
    BY <2>1 DEF IsPrint
  <2> QED
    BY <1>1, <1>5, <2>1, <2>2
<1>7. ASSUME NEW m \in DOMAIN nodes, NEW s \in DOMAIN requests, <<s, m>> # <<r, n>>,
             NEW k \in Nat, PrintedTimes(s, m, k)
      PROVE  PrintedTimes(s, m, k)'
  <2>1. Lines(s, m)' = Lines(s, m) /\ Managers(m)' = Managers(m)
    <3>1. CASE s = r
      <4>1. m # n
        BY <1>7, <3>1
      <4>2. Lines(r, m)' = Lines(r, m) + 0 /\ Lines(r, m) \in Nat
        BY <1>4, <4>1
      <4> QED
        BY <1>1, <3>1, <4>2 DEF Managers
    <3>2. CASE s # r
      BY <1>1, <1>4, <3>2, LinesStay DEF Managers
    <3> QED
      BY <3>1, <3>2
  <2>2. requests[s].time \in Nat /\ k * requests[s].time \in Nat
    BY <1>3
  <2>3. \A x \in Nat : x <= now => x <= now'
    BY <1>1
  <2>4. /\ k * requests[s].time <= now => k * requests[s].time <= now'
        /\ requests[s].time <= now => requests[s].time <= now'
    BY <2>2, <2>3
  <2>5. \A e : (e.do.what = "print" /\ e.do.out = s /\ e.do.node = m) => (e \in events' <=> e \in events)
    BY <1>6, <1>7 DEF IsPrint
  <2> QED
    BY <1>1, <1>7, <2>1, <2>4, <2>5 DEF PrintedTimes, IsPrint
<1>8. \E k \in Nat : PrintedTimes(r, n, k)'
  <2>1. PICK k \in Nat : PrintedTimes(r, n, k)
    BY <1>1, <1>2 DEF PrintsOK, RequestOK
  <2> DEFINE M == Cardinality(Managers(n))
  <2>2. M \in Nat /\ Managers(n)' = Managers(n)
    BY <1>1, ManagersCounted DEF Managers
  <2>3. Lines(r, n)' = Lines(r, n) + M /\ Lines(r, n) = k * M
    BY <1>4, <2>1 DEF PrintedTimes
  <2>4. Lines(r, n)' = (k + 1) * Cardinality(Managers(n)')
    <3> HIDE DEF M
    <3>1. k * M + M = (k + 1) * M
      BY <2>2
    <3> QED
      BY <2>2, <2>3, <3>1 DEF M
  <2>5. CASE q.repeats
    <3>1. d.time = (k + 1) * q.time
      BY <1>2, <2>1, <2>5 DEF PrintedTimes
    <3>2. (k + 1) * q.time + q.time = ((k + 1) + 1) * q.time
      BY <1>1, <1>3
    <3>3. PICK f : f \in events' /\ f.time = now' + q.time /\ f.do = d.do
      BY <1>5, <2>5
    <3>4. IsPrint(f, r, n) /\ f.time = ((k + 1) + 1) * q.time
      BY <1>1, <1>2, <3>1, <3>2, <3>3 DEF IsPrint
    <3>5. (k + 1) * q.time <= now'
      BY <1>1, <3>1
    <3>6. PrintedTimes(r, n, k + 1)'
      BY <1>1, <2>4, <2>5, <3>3, <3>4, <3>5 DEF PrintedTimes, IsPrint
    <3> QED
      BY <3>6
  <2>6. CASE ~q.repeats
    <3>1. k = 0 /\ d.time = q.time
      BY <1>1, <1>2, <2>1, <2>6 DEF PrintedTimes
    <3>2. events' = After
      BY <1>5, <2>6
    <3>3. ~ \E e \in events' : IsPrint(e, r, n)
      BY <1>1, <1>2, <3>2
    <3>4. q.time <= now'
      BY <1>1, <3>1
    <3>5. k + 1 = 1
      BY <3>1
    <3>6. PrintedTimes(r, n, k + 1)'
      BY <1>1, <2>4, <2>6, <3>3, <3>4, <3>5 DEF PrintedTimes, IsPrint
    <3> QED
      BY <3>6
  <2> QED
    BY <1>3, <2>5, <2>6
<1>9. ASSUME NEW s \in DOMAIN requests PROVE RequestOK(s)'
  <2>1. RequestOK(s)
    BY <1>9 DEF PrintsOK
  <2>2. ASSUME NEW m \in requests[s].of PROVE \E k \in Nat : PrintedTimes(s, m, k)'
    <3>1. CASE s = r /\ m = n
      BY <1>8, <3>1
    <3>2. CASE ~(s = r /\ m = n)
      <4>1. PICK k \in Nat : PrintedTimes(s, m, k)
        BY <2>1 DEF RequestOK
      <4>2. m \in DOMAIN nodes
        BY <2>1 DEF RequestOK
      <4>3. PrintedTimes(s, m, k)'
        BY <1>7, <3>2, <4>1, <4>2
      <4> QED
        BY <4>3
    <3> QED
      BY <3>1, <3>2
  <2>3. \A i \in DOMAIN printed'[s] : printed'[s][i] \in requests[s].of
    <3>1. CASE s = r
      <4>1. \A i \in DOMAIN printed'[r] :
              printed'[r][i] = IF i \in DOMAIN printed[r] THEN printed[r][i] ELSE n
        BY <1>1, PrintEffect
      <4> QED
        BY <1>2, <2>1, <3>1, <4>1 DEF RequestOK
    <3>2. CASE s # r
      BY <1>4, <2>1, <3>2 DEF RequestOK
    <3> QED
      BY <3>1, <3>2
  <2> QED
    BY <1>1, <2>1, <2>2, <2>3 DEF RequestOK
<1>10. ASSUME NEW e \in events', e.do.what = "print" PROVE PrintOK(e)'
  <2>1. CASE IsPrint(e, r, n)
    <3>1. e \notin After
      BY <1>1, <1>2, <2>1
    <3>2. e.do = d.do /\ \A f \in events' : f \in After \/ f = e
      BY <1>5, <1>10, <3>1
    <3>3. \A f \in After : ~IsPrint(f, r, n)
      BY <1>1, <1>2
    <3> QED
      BY <1>1, <1>2, <2>1, <3>2, <3>3 DEF PrintOK, IsPrint
  <2>2. CASE ~IsPrint(e, r, n)
    <3>1. e \in events
      BY <1>1, <1>2, <1>5, <1>10, <2>2 DEF IsPrint
    <3>2. PrintOK(e) /\ e.do.out \in DOMAIN requests
      BY <1>10, <3>1 DEF PrintsOK, Typed, QueueTyped, HasTarget
    <3>3. <<e.do.out, e.do.node>> # <<r, n>>
      BY <1>10, <2>2 DEF IsPrint
    <3>4. \A f \in events' : IsPrint(f, e.do.out, e.do.node) => f \in events
      BY <1>6, <3>2, <3>3
    <3> QED
      BY <1>1, <3>2, <3>4 DEF PrintOK, IsPrint
  <2> QED
    BY <2>1, <2>2
<1> QED
  BY <1>1, <1>9, <1>10 DEF PrintsOK

LEMMA PrintsKept ==
  ASSUME Typed, PrintsOK, [Next]_vars
  PROVE  PrintsOK'
<1>1. CASE Call
  BY <1>1, PrintsCalled
<1>2. CASE Event
  <2>1. PICK d : Next1(d)
    BY <1>2, EventRuns
  <2>2. /\ HasTarget(d.do) /\ phase = "running" /\ ScriptTyped
        /\ uid \in Nat /\ After \in SUBSET SimEvent /\ Numbered(After, uid)
    BY <2>1 DEF Next1, Typed, QueueTyped, Numbered
  <2>3. ASSUME NEW s \in Seq(Duty), Schedule(After, s), \A i \in 1 .. Len(s) : s[i].do.what # "print"
        PROVE  After \subseteq events' /\ \A e \in events' : e.do.what = "print" => e \in After
    <3>1. /\ After \subseteq events'
          /\ \A i \in 1 .. Len(s) : Nth(s, i).do = s[i].do
          /\ \A e \in events' : e \in After \/ \E i \in 1 .. Len(s) : e = Nth(s, i)
      BY <2>2, <2>3, Scheduled
    <3> QED
      BY <2>3, <3>1
  <2>4. << >> \in Seq(Duty) /\ \A i \in 1 .. Len(<< >>) : FALSE
    OBVIOUS
  <2>5. CASE d.do.what = "initialize" /\ d.do.node \in Nat /\ Initialize(d.do.node)
    <3>1. PICK n : n = d.do.node
      OBVIOUS
    <3>2. n \in DOMAIN nodes /\ Initialize(n)
      BY <2>2, <2>5, <3>1 DEF HasTarget
    <3>3. PICK s \in Seq(Duty) : /\ Schedule(After, s)
                                 /\ \A i \in 1 .. Len(s) : \E k \in DOMAIN nodes[n].apps : IsTurn(s[i], n, k)
      BY <2>2, <3>2, Initialized
    <3>4. \A i \in 1 .. Len(s) : s[i].do.what # "print"
      BY <3>3 DEF IsTurn
    <3>5. nodes' = nodes /\ printed' = printed /\ phase' = phase
      BY <3>2 DEF Initialize
    <3>6. \A n1 \in DOMAIN nodes : Managers(n1)' = Managers(n1)
      BY <3>5 DEF Managers
    <3> QED
      BY <2>1, <2>2, <2>3, <2>5, <3>3, <3>4, <3>5, <3>6, NothingPrinted
  <2>6. CASE /\ d.do.what \in {"start", "end"} /\ d.do.node \in Nat /\ d.do.app \in Nat
             /\ Turn(d.do.node, d.do.app, IF d.do.what = "start" THEN "running" ELSE "stopped")
    <3>1. PICK n, k, state : n = d.do.node /\ k = d.do.app
                             /\ state = IF d.do.what = "start" THEN "running" ELSE "stopped"
      OBVIOUS
    <3>2. n \in DOMAIN nodes /\ k \in DOMAIN nodes[n].apps /\ state \in {"running", "stopped"}
      BY <2>2, <2>6, <3>1 DEF HasTarget
    <3>3. Turn(n, k, state)
      BY <2>6, <3>1
    <3>4. printed' = printed /\ phase' = phase /\ Schedule(After, << >>)
      BY <3>3 DEF Turn
    <3>5. /\ DOMAIN nodes' = DOMAIN nodes
          /\ \A m \in DOMAIN nodes :
               /\ DOMAIN nodes'[m].apps = DOMAIN nodes[m].apps
               /\ \A j \in DOMAIN nodes[m].apps :
                    nodes'[m].apps[j] = TurnedTo(state, n, k, m, j)
      BY <2>2, <3>2, <3>3, TurnEffect
    <3>6. ASSUME NEW m \in DOMAIN nodes PROVE Managers(m)' = Managers(m)
      <4>1. ASSUME NEW j \in DOMAIN nodes[m].apps PROVE nodes'[m].apps[j].kind = nodes[m].apps[j].kind
        BY <2>2, <3>5, TurnKeeps
      <4> QED
        BY <3>5, <4>1, ManagersStay
    <3>7. After \subseteq events' /\ \A e \in events' : e.do.what = "print" => e \in After
      BY <2>3, <2>4, <3>4
    <3> QED
      BY <2>1, <2>2, <2>6, <3>4, <3>5, <3>6, <3>7, NothingPrinted
  <2>7. CASE /\ d.do.what = "print" /\ d.do.node \in Nat /\ d.do.out \in Nat /\ d.do.interval \in Nat
             /\ PrintEvery(d.do)
    BY <2>1, <2>7, Printed
  <2>8. CASE /\ d.do.what = "stop" /\ phase' = "over" /\ Schedule(After, << >>)
             /\ UNCHANGED <<nodes, printed>>
    <3>1. \A n \in DOMAIN nodes : Managers(n)' = Managers(n)
      BY <2>8 DEF Managers
    <3>2. After \subseteq events' /\ \A e \in events' : e.do.what = "print" => e \in After
      BY <2>3, <2>4, <2>8
    <3> QED
      BY <2>1, <2>8, <3>1, <3>2, NothingPrinted
  <2> QED
    BY <2>1, <2>5, <2>6, <2>7, <2>8, WhatRuns
<1>3. ASSUME UNCHANGED <<setup, nodes, printed, now, queue>>, phase' = "setup" => phase = "setup"
      PROVE  PrintsOK'
  <2>1. nodes' = nodes /\ printed' = printed /\ now' = now /\ requests' = requests /\ events' = events
    BY <1>3 DEF setup, queue
  <2>2. \A r, n, k : PrintedTimes(r, n, k) => PrintedTimes(r, n, k)'
    BY <1>3, <2>1 DEF PrintedTimes, Lines, Managers, IsPrint
  <2>3. \A r \in DOMAIN requests : RequestOK(r)'
    BY <1>3, <2>1, <2>2 DEF PrintsOK, RequestOK
  <2>4. \A e \in events : e.do.what = "print" => PrintOK(e)'
    BY <2>1 DEF PrintsOK, PrintOK, IsPrint
  <2> QED
    BY <2>1, <2>3, <2>4 DEF PrintsOK
<1>4. CASE Run
  BY <1>3, <1>4 DEF Run
<1>5. CASE Return
  BY <1>3, <1>5 DEF Return
<1>6. CASE UNCHANGED vars
  BY <1>3, <1>6 DEF vars
<1> QED
  BY <1>1, <1>2, <1>4, <1>5, <1>6 DEF Next

LEMMA CountsCompare ==
  ASSUME NEW k \in Nat, NEW t \in Int, NEW each \in Nat
  PROVE  (k <= t => k * each <= each * t) /\ (t <= k => k * each >= each * t)
OBVIOUS

LEMMA Divided ==
  ASSUME NEW k \in Nat, NEW time \in Nat, time > 0, NEW t \in Int
  PROVE  /\ t \div time \in Int
         /\ k * time <= t => k <= t \div time
         /\ t < (k + 1) * time => t \div time <= k
OBVIOUS

LEMMA PrintsComplete ==
  ASSUME Typed, PrintsOK
  PROVE  PrintsAreComplete
<1> SUFFICES ASSUME NEW r \in DOMAIN requests, NEW n \in DOMAIN nodes
             PROVE  LET asked == requests[r]
                        each == Cardinality(Managers(n))
                    IN  IF n \in asked.of
                        THEN /\ Lines(r, n) <= each * TimesDue(asked, now)
                             /\ phase # "setup" => Lines(r, n) >= each * TimesDue(asked, now - 1)
                        ELSE Lines(r, n) = 0
  BY DEF PrintsAreComplete
<1> DEFINE q == requests[r]
           each == Cardinality(Managers(n))
<1>1. RequestOK(r)
  BY DEF PrintsOK
<1>2. CASE n \notin q.of
  <2>1. \A i \in DOMAIN printed[r] : printed[r][i] # n
    BY <1>1, <1>2 DEF RequestOK
  <2> QED
    BY <1>2, <2>1, NoLines
<1>3. CASE n \in q.of
  <2>1. PICK k \in Nat : PrintedTimes(r, n, k)
    BY <1>1, <1>3 DEF RequestOK
  <2>2. each \in Nat /\ now \in Nat
    BY ManagersCounted DEF Typed, QueueTyped
  <2>3. q.time \in Nat /\ (q.repeats => q.time > 0)
    <3>1. q \in Request
      BY DEF Typed, ScriptTyped
    <3> QED
      BY <1>1, <3>1 DEF Request, RequestOK
  <2>4. Lines(r, n) = k * each
    BY <2>1 DEF PrintedTimes
  <2>5. /\ TimesDue(q, now) \in Int /\ TimesDue(q, now - 1) \in Int
        /\ k <= TimesDue(q, now) /\ TimesDue(q, now - 1) <= k
    <3>1. \A e \in events : e.time \in Nat /\ e.time >= now
      BY DEF Typed, QueueTyped, SimEvent
    <3>2. CASE q.repeats
      <4>1. k * q.time <= now /\ \E e \in events : e.time = (k + 1) * q.time
        BY <2>1, <3>2 DEF PrintedTimes
      <4>2. (k + 1) * q.time >= now
        BY <3>1, <4>1
      <4>3. (k + 1) * q.time \in Nat
        BY <2>3
      <4>4. now - 1 < (k + 1) * q.time /\ now - 1 \in Int
        BY <2>2, <4>2, <4>3
      <4>5. k <= now \div q.time /\ now \div q.time \in Int
        BY <2>2, <2>3, <3>2, <4>1, Divided
      <4>6. (now - 1) \div q.time <= k /\ (now - 1) \div q.time \in Int
        BY <2>3, <3>2, <4>4, Divided
      <4> QED
        BY <3>2, <4>5, <4>6 DEF TimesDue
    <3>3. CASE ~q.repeats
      <4>1. \/ k = 0 /\ \E e \in events : e.time = q.time
            \/ k = 1 /\ q.time <= now
        BY <2>1, <3>3 DEF PrintedTimes
      <4>2. \/ k = 0 /\ q.time >= now
            \/ k = 1 /\ q.time <= now
        BY <3>1, <4>1
      <4> QED
        BY <2>2, <2>3, <3>3, <4>2 DEF TimesDue
    <3> QED
      BY <3>2, <3>3
  <2> HIDE DEF each
  <2>6. Lines(r, n) <= each * TimesDue(q, now) /\ Lines(r, n) >= each * TimesDue(q, now - 1)
    BY <2>2, <2>4, <2>5, CountsCompare
  <2> QED
    BY <1>3, <2>6 DEF each
<1> QED
  BY <1>2, <1>3

\* Whatever a script asks to be printed, every manager of a node prints its
\* table as often as was asked, no more and, up to the present instant, no less
\* (PrintTrustTableAllAt, PrintTrustTableAllEvery and their events).
THEOREM PrintsAreAlwaysComplete == Spec => []PrintsAreComplete
<1>1. Init => Typed /\ PrintsOK
  <2>1. Init => PrintsOK
    BY DEF Init, PrintsOK
  <2> QED
    BY <2>1, InitTyped
<1>2. Typed /\ PrintsOK /\ [Next]_vars => Typed' /\ PrintsOK'
  BY NextTyped, PrintsKept
<1>3. Typed /\ PrintsOK => PrintsAreComplete
  BY PrintsComplete
<1> QED
  BY <1>1, <1>2, <1>3, PTL DEF Spec

-----------------------------------------------------------------------------
\* The applications.  While the script runs, none has begun.
NoneBegun ==
  /\ \A n \in DOMAIN nodes : Unborn(n) /\ \A k \in DOMAIN nodes[n].apps : nodes[n].apps[k].state = "new"
  /\ \A e \in events : e.do.what \notin {"start", "end"}
  /\ \A e \in events : e.do.what = "initialize" => \A f \in events : f.do = e.do => f = e

LEMMA BegunLater ==
  ASSUME Typed, AppsOK, phase = "setup"
  PROVE  NoneBegun
<1>1. \A n \in DOMAIN nodes : Unborn(n)
  BY DEF AppsOK
<1>2. \A n \in DOMAIN nodes : \A k \in DOMAIN nodes[n].apps : nodes[n].apps[k].state = "new"
  BY <1>1 DEF AppsOK, AppOK
<1>3. ASSUME NEW e \in events PROVE e.do.what \notin {"start", "end"}
  <2> SUFFICES ASSUME e.do.what \in {"start", "end"} PROVE FALSE
    OBVIOUS
  <2>1. ~Unborn(e.do.node)
    BY DEF AppsOK, TurnOK
  <2>2. e.do.node \in DOMAIN nodes
    BY DEF Typed, QueueTyped, HasTarget
  <2> QED
    BY <1>1, <2>1, <2>2
<1> QED
  BY <1>1, <1>2, <1>3 DEF AppsOK, NoneBegun

NoneBegunIsOK == NoneBegun => AppsOK

LEMMA BegunIsOK == NoneBegunIsOK
<1> SUFFICES ASSUME NoneBegun PROVE AppsOK
  BY DEF NoneBegunIsOK
<1>1. ASSUME NEW n \in DOMAIN nodes, NEW k \in DOMAIN nodes[n].apps PROVE AppOK(n, k)
  <2>1. Unborn(n) /\ nodes[n].apps[k].state = "new"
    BY DEF NoneBegun
  <2> QED
    BY <2>1 DEF AppOK
<1> QED
  BY <1>1 DEF AppsOK, NoneBegun

LEMMA BegunIsOKNext == NoneBegunIsOK'
BY BegunIsOK, PTL

LEMMA AppsCalled ==
  ASSUME Typed, AppsOK, Call
  PROVE  AppsOK'
<1>1. PICK c \in NextCall : Perform(c)
  BY DEF Call
<1>2. c \in HelperCall
  BY NextIsACall DEF Typed
<1>3. phase = "setup" /\ ScriptTyped /\ NoneBegun
  BY BegunLater DEF Call, Typed
<1>4. nodes' \in Seq(NodeObject) /\ AppsGrow(NewApps(c))
  BY <1>1, <1>2, <1>3, CallEffect
<1>5. \A n \in DOMAIN nodes' : \A k \in DOMAIN nodes'[n].apps : nodes'[n].apps[k].state = "new"
  <2>1. \A p \in NewApps(c) : p[2].state = "new"
    BY DEF NewApps
  <2> TAKE n \in DOMAIN nodes'
  <2> TAKE k \in DOMAIN nodes'[n].apps
  <2>2. CASE n \in DOMAIN nodes /\ k \in DOMAIN nodes[n].apps
    BY <1>3, <1>4, <2>2 DEF AppsGrow, NoneBegun
  <2>3. CASE ~(n \in DOMAIN nodes /\ k \in DOMAIN nodes[n].apps)
    <3>1. <<n, nodes'[n].apps[k]>> \in NewApps(c)
      BY <1>4, <2>3 DEF AppsGrow
    <3> QED
      BY <2>1, <3>1
  <2> QED
    BY <2>2, <2>3
<1>6. uid \in Nat /\ events \in SUBSET SimEvent /\ Numbered(events, uid)
      /\ \A e \in events : HasTarget(e.do)
  BY DEF Typed, QueueTyped
<1>7. ASSUME DOMAIN nodes' = DOMAIN nodes, events \subseteq events',
             \A e \in events' : e.do.what \in {"initialize", "start", "end"} => e \in events
      PROVE  AppsOK'
  <2>1. NoneBegun'
    BY <1>3, <1>5, <1>7 DEF NoneBegun, Unborn
  <2> QED
    BY <2>1, BegunIsOKNext DEF NoneBegunIsOK
<1>8. ASSUME DOMAIN nodes' = DOMAIN nodes, UNCHANGED queue PROVE AppsOK'
  BY <1>7, <1>8 DEF queue
<1>9. CASE CreateNode
  <2> DEFINE N == Len(nodes')
  <2>1. N \in Nat /\ DOMAIN nodes' = DOMAIN nodes \cup {N} /\ N \notin DOMAIN nodes
    <3>1. nodes' = Append(nodes, [routing |-> << >>, apps |-> << >>])
      BY <1>9 DEF CreateNode
    <3> QED
      BY <1>3, <1>4, <3>1 DEF ScriptTyped
  <2>2. PICK d : d = [time |-> 0, do |-> [what |-> "initialize", node |-> N]]
    OBVIOUS
  <2>3. d \in Duty /\ d.do.what = "initialize" /\ d.do.node = N
    BY <2>1, <2>2 DEF Duty, Handler
  <2>4. PICK s : s = <<d>>
    OBVIOUS
  <2>5. s \in Seq(Duty) /\ Len(s) = 1 /\ s[1] = d /\ \A i \in 1 .. Len(s) : i = 1
    BY <2>3, <2>4
  <2>6. Schedule(events, s)
    BY <1>9, <2>2, <2>4 DEF CreateNode
  <2>7. /\ events \subseteq events'
        /\ \A i \in 1 .. Len(s) : Nth(s, i) \in events' /\ Nth(s, i).do = s[i].do
        /\ \A e \in events' : e \in events \/ \E i \in 1 .. Len(s) : e = Nth(s, i)
    BY <1>6, <2>5, <2>6, Scheduled
  <2>8. PICK g : g \in events' /\ g.do = d.do /\ \A e \in events' : e \in events \/ e = g
    <3>1. 1 \in 1 .. Len(s)
      BY <2>5
    <3> QED
      BY <2>5, <2>7, <3>1
  <2> HIDE DEF N
  <2>9. \A n \in DOMAIN nodes' : Unborn(n)'
    BY <1>3, <2>1, <2>3, <2>7, <2>8 DEF NoneBegun, Unborn
  <2>10. \A e \in events' : e.do.what \notin {"start", "end"}
    BY <1>3, <2>3, <2>8 DEF NoneBegun
  <2>11. ASSUME NEW e \in events', e.do.what = "initialize", NEW f \in events', f.do = e.do
         PROVE  f = e
    <3>1. CASE e \in events /\ f \in events
      BY <1>3, <2>11, <3>1 DEF NoneBegun
    <3>2. \A x \in events : x.do.what = "initialize" => x.do.node # N
      BY <1>6, <2>1 DEF HasTarget
    <3> QED
      BY <2>3, <2>8, <2>11, <3>1, <3>2
  <2>12. NoneBegun'
    BY <1>5, <2>9, <2>10, <2>11 DEF NoneBegun
  <2> QED
    BY <2>12, BegunIsOKNext DEF NoneBegunIsOK
<1>10. CASE \E who, time, repeats : Asks(who, time, repeats)
  <2>1. PICK who, time, repeats : Asks(who, time, repeats)
    BY <1>10
  <2>2. nodes' = nodes
    BY <2>1 DEF Asks, Ask
  <2>3. PICK s \in Seq(Duty) :
          /\ Schedule(events, s) /\ Len(s) = Len(who)
          /\ \A i \in 1 .. Len(who) : IsAskedOf(s[i], who[i], time, repeats)
    BY <2>1, AskIsTyped
  <2>4. /\ events \subseteq events'
        /\ \A i \in 1 .. Len(s) : Nth(s, i).do = s[i].do
        /\ \A e \in events' : e \in events \/ \E i \in 1 .. Len(s) : e = Nth(s, i)
    BY <1>6, <2>3, Scheduled
  <2>5. \A e \in events' : e \in events \/ e.do.what = "print"
    BY <2>3, <2>4 DEF IsAskedOf
  <2> QED
    BY <1>7, <2>2, <2>4, <2>5
<1>11. CASE \E time \in Nat : Stop(time)
  <2>1. PICK time \in Nat : Stop(time)
    BY <1>11
  <2>2. PICK d, s : d = [time |-> time, do |-> [what |-> "stop"]] /\ s = <<d>>
    OBVIOUS
  <2>3. d \in Duty /\ d.do.what = "stop"
    BY <2>2 DEF Duty, Handler
  <2>4. s \in Seq(Duty) /\ \A i \in 1 .. Len(s) : s[i] = d
    BY <2>2, <2>3
  <2>5. Schedule(events, s) /\ nodes' = nodes
    BY <2>1, <2>2 DEF Stop
  <2>6. /\ events \subseteq events'
        /\ \A i \in 1 .. Len(s) : Nth(s, i).do = s[i].do
        /\ \A e \in events' : e \in events \/ \E i \in 1 .. Len(s) : e = Nth(s, i)
    BY <1>6, <2>4, <2>5, Scheduled
  <2> QED
    BY <1>7, <2>3, <2>4, <2>5, <2>6
<1>12. CASE \E tid \in STRING : SetManagerType(tid)
  BY <1>8, <1>12 DEF SetManagerType
<1>13. CASE \E helpers \in Seq(STRING) : SetRoutingHelper(helpers)
  BY <1>8, <1>13 DEF SetRoutingHelper
<1>14. CASE \E n \in Nat : Install(n)
  <2>1. DOMAIN nodes' = DOMAIN nodes /\ UNCHANGED queue
    BY <1>3, <1>14 DEF Install, ScriptTyped
  <2> QED
    BY <1>8, <2>1
<1>15. CASE \E helper \in STRING, ns \in Seq(Nat) : AssignStreams(helper, ns)
  <2>1. DOMAIN nodes' = DOMAIN nodes /\ UNCHANGED queue
    BY <1>15 DEF AssignStreams, WithStreams
  <2> QED
    BY <1>8, <2>1
<1>16. CASE /\ c.call = "InstallPing" /\ c.node \in Nat /\ c.start \in Nat /\ c.stop \in Nat
            /\ InstallPing(c.node, c.start, c.stop)
  <2>1. PICK app : nodes' = [nodes EXCEPT ![c.node].apps = Append(@, app)] /\ UNCHANGED queue
    BY <1>16 DEF InstallPing
  <2>2. DOMAIN nodes' = DOMAIN nodes
    BY <1>3, <2>1 DEF ScriptTyped
  <2> QED
    BY <1>8, <2>1, <2>2
<1> QED
  BY <1>1, <1>2, <1>3, <1>9, <1>10, <1>11, <1>12, <1>13, <1>14, <1>15, <1>16, Performed

\* The events that turn, or let turn, an application.
Turning(e) == e.do.what \in {"initialize", "start", "end"}

\* An event that has nothing to do with the applications.
LEMMA AppsLeftAlone ==
  ASSUME AppsOK, nodes' = nodes, now \in Nat, now' \in Nat, now <= now', ScriptTyped,
         phase' = "setup" => phase = "setup",
         \A e : Turning(e) => (e \in events' <=> e \in events)
  PROVE  AppsOK'
<1>1. \A n : Unborn(n)' <=> Unborn(n)
  BY DEF Unborn, Turning
<1>2. \A n, k : \A w \in {"start", "end"} :
        (\E e \in events : Does(e, w, n, k)) => \E e \in events' : Does(e, w, n, k)
  BY DEF Does, Turning
<1>3. ASSUME NEW n \in DOMAIN nodes, NEW k \in DOMAIN nodes[n].apps PROVE AppOK(n, k)'
  <2>1. AppOK(n, k) /\ nodes[n].apps[k].start \in Nat
    BY NodesTyped DEF AppsOK, App
  <2>2. nodes[n].apps[k].start <= now => nodes[n].apps[k].start <= now'
    BY <2>1
  <2>3. /\ (\E e \in events : Does(e, "start", n, k)) => \E e \in events' : Does(e, "start", n, k)
        /\ (\E e \in events : Does(e, "end", n, k)) => \E e \in events' : Does(e, "end", n, k)
    BY <1>2
  <2> QED
    BY <1>1, <2>1, <2>2, <2>3 DEF AppOK, Does
<1>4. ASSUME NEW e \in events', e.do.what \in {"start", "end"} PROVE TurnOK(e)'
  <2>1. TurnOK(e)
    BY <1>4 DEF AppsOK, Turning
  <2> QED
    BY <1>1, <2>1 DEF TurnOK
<1>5. ASSUME NEW e \in events', Turning(e), NEW f \in events', f.do = e.do PROVE f = e
  <2>1. Turning(f)
    BY <1>5 DEF Turning
  <2> QED
    BY <1>5, <2>1 DEF AppsOK, Turning
<1>6. phase' = "setup" => \A n \in DOMAIN nodes' : Unborn(n)'
  BY <1>1 DEF AppsOK
<1> QED
  BY <1>3, <1>4, <1>5, <1>6 DEF AppsOK, Turning

\* A node is initialized.
LEMMA AppsScheduled ==
  ASSUME Typed, AppsOK, NEW d, Next1(d), d.do.what = "initialize",
         NEW n, n = d.do.node, Initialize(n)
  PROVE  AppsOK'
<1>1. /\ now' \in Nat /\ now \in Nat /\ now <= now' /\ phase' # "setup" /\ nodes' = nodes
      /\ After = events \ {d} /\ d \in events /\ n \in DOMAIN nodes /\ ScriptTyped
      /\ uid \in Nat /\ After \in SUBSET SimEvent /\ Numbered(After, uid)
  BY DEF Next1, Typed, QueueTyped, HasTarget, Numbered, Initialize
<1>2. Unborn(n) /\ \A e \in After : e.do # d.do
  BY <1>1 DEF Unborn, AppsOK
<1>3. PICK s \in Seq(Duty) :
        /\ Schedule(After, s)
        /\ \A i \in 1 .. Len(s) : \E k \in DOMAIN nodes[n].apps : IsTurn(s[i], n, k)
        /\ \A k \in DOMAIN nodes[n].apps :
             /\ \E i \in 1 .. Len(s) : IsTurn(s[i], n, k) /\ s[i].do.what = "start"
             /\ nodes[n].apps[k].stop # 0 =>
                  \E i \in 1 .. Len(s) : IsTurn(s[i], n, k) /\ s[i].do.what = "end"
        /\ \A i, j \in 1 .. Len(s) : s[i].do = s[j].do => i = j
  BY <1>1, Initialized
<1>4. /\ After \subseteq events'
      /\ \A i \in 1 .. Len(s) :
           Nth(s, i) \in events' /\ Nth(s, i).time = s[i].time /\ Nth(s, i).do = s[i].do
      /\ \A e \in events' : e \in After \/ \E i \in 1 .. Len(s) : e = Nth(s, i)
  BY <1>1, <1>3, Scheduled
<1>5. \A i \in 1 .. Len(s) : s[i].do.what \in {"start", "end"} /\ s[i].do.node = n
                             /\ s[i].do.app \in DOMAIN nodes[n].apps
  BY <1>3 DEF IsTurn
\* Who was initialized yet.
<1>6. ~Unborn(n)'
  <2> SUFFICES ASSUME NEW e \in events', e.do.what = "initialize", e.do.node = n PROVE FALSE
    BY DEF Unborn
  <2>1. e \in After
    BY <1>4, <1>5
  <2>2. d.do \in Handler /\ e.do \in Handler
    BY <1>1, <2>1 DEF Next1, SimEvent
  <2>3. \A x \in Handler : x.what = "initialize" => x = [what |-> "initialize", node |-> x.node]
    BY DEF Handler
  <2>4. e.do = d.do
    BY <2>2, <2>3
  <2> QED
    BY <1>2, <2>1, <2>4
<1>7. \A m : m # n => (Unborn(m)' <=> Unborn(m))
  <2> TAKE m
  <2> HAVE m # n
  <2>1. ASSUME NEW e, e.do.what = "initialize", e.do.node = m PROVE e \in events' <=> e \in events
    BY <1>1, <1>4, <1>5, <2>1
  <2> QED
    BY <2>1 DEF Unborn
\* No turn of the node was in the queue.
<1>8. \A e \in events : e.do.what \in {"start", "end"} => e.do.node # n /\ e \in After
  BY <1>1, <1>2 DEF AppsOK, TurnOK
<1>9. ASSUME NEW m \in DOMAIN nodes, NEW k \in DOMAIN nodes[m].apps PROVE AppOK(m, k)'
  <2>1. AppOK(m, k) /\ nodes[m].apps[k] \in App
    BY <1>1, NodesTyped DEF AppsOK
  <2>2. nodes[m].apps[k].start \in Nat /\ nodes[m].apps[k].stop \in Nat
    BY <2>1 DEF App
  <2>3. CASE m = n
    <3>1. nodes[m].apps[k].state = "new"
      BY <1>2, <2>1, <2>3 DEF AppOK
    <3>2. \E e \in events' : Does(e, "start", n, k)
      BY <1>3, <1>4, <2>3 DEF Does, IsTurn
    <3>3. ASSUME nodes[m].apps[k].stop # 0 PROVE \E e \in events' : Does(e, "end", n, k)
      <4>1. PICK i \in 1 .. Len(s) : IsTurn(s[i], n, k) /\ s[i].do.what = "end"
        BY <1>3, <2>3, <3>3
      <4> QED
        BY <1>4, <4>1 DEF Does, IsTurn
    <3>4. nodes[m].apps[k].start < nodes[m].apps[k].stop => nodes[m].apps[k].stop # 0
      BY <2>2
    <3> QED
      BY <1>1, <1>6, <2>3, <3>1, <3>2, <3>3, <3>4 DEF AppOK, Does
  <2>4. CASE m # n
    <3>1. \A w \in {"start", "end"} :
            (\E e \in events : Does(e, w, m, k)) => \E e \in events' : Does(e, w, m, k)
      BY <1>4, <1>8 DEF Does
    <3>2. /\ (\E e \in events : Does(e, "start", m, k)) => \E e \in events' : Does(e, "start", m, k)
          /\ (\E e \in events : Does(e, "end", m, k)) => \E e \in events' : Does(e, "end", m, k)
      BY <3>1
    <3>3. Unborn(m)' <=> Unborn(m)
      BY <1>7, <2>4
    <3>4. nodes[m].apps[k].start <= now => nodes[m].apps[k].start <= now'
      BY <1>1, <2>2
    <3> QED
      BY <1>1, <2>1, <3>2, <3>3, <3>4 DEF AppOK, Does
  <2> QED
    BY <2>3, <2>4
<1>10. ASSUME NEW e \in events', e.do.what \in {"start", "end"} PROVE TurnOK(e)'
  <2>1. CASE e \in After
    <3>1. TurnOK(e) /\ e.do.node # n
      BY <1>1, <1>8, <1>10, <2>1 DEF AppsOK
    <3>2. ~Unborn(e.do.node)'
      BY <1>7, <3>1 DEF TurnOK
    <3> QED
      BY <1>1, <3>1, <3>2 DEF TurnOK
  <2>2. CASE e \notin After
    <3>1. PICK i \in 1 .. Len(s) : e = Nth(s, i)
      BY <1>4, <2>2
    <3>2. e.time = s[i].time /\ e.do = s[i].do
      BY <1>4, <3>1
    <3>3. PICK k \in DOMAIN nodes[n].apps : IsTurn(s[i], n, k)
      BY <1>3
    <3>4. e.do.node = n /\ e.do.app = k
          /\ e.time = IF e.do.what = "start" THEN nodes[n].apps[k].start ELSE nodes[n].apps[k].stop
      BY <3>2, <3>3 DEF IsTurn
    <3>5. nodes[n].apps[k].state = "new"
      BY <1>1, <1>2 DEF AppsOK, AppOK
    <3> QED
      BY <1>1, <1>6, <3>4, <3>5 DEF TurnOK
  <2> QED
    BY <2>1, <2>2
<1>11. ASSUME NEW e \in events', Turning(e), NEW f \in events', f.do = e.do PROVE f = e
  <2>1. CASE e \in After /\ f \in After
    BY <1>1, <1>11, <2>1 DEF AppsOK, Turning
  <2>2. CASE e \notin After /\ f \notin After
    <3>1. PICK i \in 1 .. Len(s) : e = Nth(s, i)
      BY <1>4, <2>2
    <3>2. PICK j \in 1 .. Len(s) : f = Nth(s, j)
      BY <1>4, <2>2
    <3>3. s[i].do = s[j].do
      BY <1>4, <1>11, <3>1, <3>2
    <3> QED
      BY <1>3, <3>1, <3>2, <3>3
  <2>3. ASSUME NEW x \in After, NEW i \in 1 .. Len(s), x.do = s[i].do PROVE FALSE
    BY <1>1, <1>5, <1>8, <2>3
  <2> QED
    BY <1>4, <1>11, <2>1, <2>2, <2>3
<1> QED
  BY <1>1, <1>9, <1>10, <1>11 DEF AppsOK, Turning

\* An application starts or stops.
LEMMA AppsTurned ==
  ASSUME Typed, AppsOK, NEW d, Next1(d), d.do.what \in {"start", "end"},
         NEW n, n = d.do.node, NEW k, k = d.do.app,
         NEW state \in {"running", "stopped"}, state = "running" <=> d.do.what = "start",
         Turn(n, k, state)
  PROVE  AppsOK'
<1>1. /\ now' = d.time /\ now' \in Nat /\ now \in Nat /\ now <= now'
      /\ phase' # "setup" /\ n \in DOMAIN nodes /\ k \in DOMAIN nodes[n].apps
      /\ After = events \ {d} /\ d \in events /\ d \in SimEvent /\ ScriptTyped
      /\ \A e \in events : e \in SimEvent
      /\ \A e \in After : e.time >= now'
  BY DEF Next1, Typed, QueueTyped, HasTarget, Turn
<1>2. events' = After
  BY DEF Turn, Schedule
<1>3. TurnOK(d) /\ \A e \in After : e.do # d.do
  BY <1>1 DEF AppsOK
<1>4. /\ DOMAIN nodes' = DOMAIN nodes
      /\ \A m \in DOMAIN nodes :
           /\ DOMAIN nodes'[m].apps = DOMAIN nodes[m].apps
           /\ \A j \in DOMAIN nodes[m].apps :
                nodes'[m].apps[j] = TurnedTo(state, n, k, m, j)
  <2>1. ScriptTyped /\ n \in DOMAIN nodes /\ k \in DOMAIN nodes[n].apps
    BY <1>1
  <2> QED
    BY <2>1, TurnEffect
<1>5. \A m \in DOMAIN nodes : \A j \in DOMAIN nodes[m].apps :
        /\ nodes[m].apps[j].start \in Nat /\ nodes[m].apps[j].stop \in Nat
        /\ nodes'[m].apps[j].start = nodes[m].apps[j].start
        /\ nodes'[m].apps[j].stop = nodes[m].apps[j].stop
        /\ nodes'[m].apps[j].state = IF m = n /\ j = k THEN state ELSE nodes[m].apps[j].state
  <2> TAKE m \in DOMAIN nodes
  <2> TAKE j \in DOMAIN nodes[m].apps
  <2>1. nodes[m].apps[j] \in App
    BY <1>1, NodesTyped
  <2>2. CASE m = n /\ j = k
    <3>1. nodes'[m].apps[j] = [nodes[m].apps[j] EXCEPT !.state = state]
      BY <1>4, <2>2 DEF TurnedTo
    <3> QED
      BY <2>1, <2>2, <3>1 DEF App
  <2>3. CASE ~(m = n /\ j = k)
    <3>1. nodes'[m].apps[j] = nodes[m].apps[j]
      BY <1>4, <2>3 DEF TurnedTo
    <3> QED
      BY <2>1, <2>3, <3>1 DEF App
  <2> QED
    BY <2>2, <2>3
<1>6. \A m : Unborn(m)' <=> Unborn(m)
  BY <1>1, <1>2 DEF Unborn
<1>7. \A e, w, m, j : ~(m = n /\ j = k /\ w = d.do.what) /\ Does(e, w, m, j) =>
        (e \in events' <=> e \in events)
  BY <1>1, <1>2 DEF Does
<1>8. ASSUME NEW m \in DOMAIN nodes, NEW j \in DOMAIN nodes[m].apps PROVE AppOK(m, j)'
  <2>1. AppOK(m, j)
    BY DEF AppsOK
  <2>2. CASE m = n /\ j = k /\ d.do.what = "start"
    <3>1. d.time = nodes[n].apps[k].start /\ ~Unborn(n) /\ state = "running"
          /\ (nodes[n].apps[k].start < nodes[n].apps[k].stop => nodes[n].apps[k].state = "new")
      BY <1>3, <2>2 DEF TurnOK
    <3>2. nodes[n].apps[k].start < nodes[n].apps[k].stop => \E e \in events : Does(e, "end", n, k)
      BY <2>1, <2>2, <3>1 DEF AppOK
    <3>3. nodes[n].apps[k].start < nodes[n].apps[k].stop => \E e \in events' : Does(e, "end", n, k)
      BY <1>7, <2>2, <3>2
    <3>4. nodes[n].apps[k].start <= now'
      BY <1>1, <3>1
    <3>5. nodes'[n].apps[k].state = "running" /\ nodes'[n].apps[k].start = nodes[n].apps[k].start
          /\ nodes'[n].apps[k].stop = nodes[n].apps[k].stop
      BY <1>1, <1>5, <3>1
    <3>6. ~Unborn(n)'
      BY <1>6, <3>1
    <3> QED
      BY <2>2, <3>3, <3>4, <3>5, <3>6 DEF AppOK, Does
  <2>3. CASE m = n /\ j = k /\ d.do.what = "end"
    <3>1. nodes'[n].apps[k].state = "stopped"
      BY <1>1, <1>5, <2>3
    <3>2. ~Unborn(n)'
      BY <1>3, <1>6 DEF TurnOK
    <3> QED
      BY <2>3, <3>1, <3>2 DEF AppOK
  <2>4. CASE ~(m = n /\ j = k)
    <3>1. /\ (\E e \in events : Does(e, "start", m, j)) => \E e \in events' : Does(e, "start", m, j)
          /\ (\E e \in events : Does(e, "end", m, j)) => \E e \in events' : Does(e, "end", m, j)
      BY <1>7, <2>4
    <3>2. nodes[m].apps[j].start <= now => nodes[m].apps[j].start <= now'
      BY <1>1, <1>5
    <3>3. Unborn(m)' <=> Unborn(m)
      BY <1>6
    <3>4. nodes'[m].apps[j] = nodes[m].apps[j]
      BY <1>4, <2>4 DEF TurnedTo
    <3> QED
      BY <2>1, <3>1, <3>2, <3>3, <3>4 DEF AppOK, Does
  <2> QED
    BY <2>2, <2>3, <2>4
<1>9. ASSUME NEW e \in events', e.do.what \in {"start", "end"} PROVE TurnOK(e)'
  <2>1. TurnOK(e) /\ e \in After
    BY <1>1, <1>2, <1>9 DEF AppsOK
  <2>2. ~Unborn(e.do.node)'
    BY <1>6, <2>1 DEF TurnOK
  <2>3. e.do.node \in DOMAIN nodes /\ e.do.app \in DOMAIN nodes[e.do.node].apps
    BY <1>1, <1>9, <2>1 DEF Typed, QueueTyped, HasTarget
  <2>4. CASE e.do.node = n /\ e.do.app = k /\ e.do.what = "start"
    <3>1. d.do.what = "end"
      <4>1. e.do \in Handler /\ d.do \in Handler
        BY <1>1, <2>1 DEF SimEvent
      <4>2. \A x \in Handler : x.what = "start" => x = [what |-> "start", node |-> x.node, app |-> x.app]
        BY DEF Handler
      <4> QED
        BY <1>3, <2>1, <2>4, <4>1, <4>2
    <3>2. d.time = nodes[n].apps[k].stop /\ e.time = nodes[n].apps[k].start
      BY <1>3, <2>1, <2>4, <3>1 DEF TurnOK
    <3>3. ~(nodes[n].apps[k].start < nodes[n].apps[k].stop)
      BY <1>1, <1>5, <2>1, <3>2
    <3>4. ~(nodes'[n].apps[k].start < nodes'[n].apps[k].stop)
          /\ nodes'[n].apps[k].start = nodes[n].apps[k].start
      BY <1>1, <1>5, <3>3
    <3> QED
      BY <2>2, <2>4, <3>2, <3>4 DEF TurnOK
  <2>5. CASE ~(e.do.node = n /\ e.do.app = k /\ e.do.what = "start")
    BY <1>5, <2>1, <2>2, <2>3, <2>5 DEF TurnOK
  <2> QED
    BY <2>4, <2>5
<1>10. ASSUME NEW e \in events', Turning(e), NEW f \in events', f.do = e.do PROVE f = e
  BY <1>1, <1>2, <1>10 DEF AppsOK, Turning
<1> QED
  BY <1>1, <1>4, <1>8, <1>9, <1>10 DEF AppsOK, Turning

LEMMA AppsKept ==
  ASSUME Typed, AppsOK, [Next]_vars
  PROVE  AppsOK'
<1>1. CASE Call
  BY <1>1, AppsCalled
<1>2. CASE Event
  <2>1. PICK d : Next1(d)
    BY <1>2, EventRuns
  <2>2. /\ HasTarget(d.do) /\ phase = "running" /\ ScriptTyped /\ d \in events /\ After = events \ {d}
        /\ now \in Nat /\ now' \in Nat /\ now <= now'
        /\ uid \in Nat /\ After \in SUBSET SimEvent /\ Numbered(After, uid)
    BY <2>1 DEF Next1, Typed, QueueTyped, Numbered
  <2>3. CASE d.do.what = "initialize" /\ d.do.node \in Nat /\ Initialize(d.do.node)
    <3>1. PICK n : n = d.do.node
      OBVIOUS
    <3>2. Initialize(n)
      BY <2>3, <3>1
    <3> QED
      BY <2>1, <2>3, <3>1, <3>2, AppsScheduled
  <2>4. CASE /\ d.do.what \in {"start", "end"} /\ d.do.node \in Nat /\ d.do.app \in Nat
             /\ Turn(d.do.node, d.do.app, IF d.do.what = "start" THEN "running" ELSE "stopped")
    <3>1. PICK n, k, state : n = d.do.node /\ k = d.do.app
                             /\ state = IF d.do.what = "start" THEN "running" ELSE "stopped"
      OBVIOUS
    <3>2. state \in {"running", "stopped"} /\ (state = "running" <=> d.do.what = "start")
      BY <3>1
    <3>3. Turn(n, k, state)
      BY <2>4, <3>1
    <3> QED
      BY <2>1, <2>4, <3>1, <3>2, <3>3, AppsTurned
  <2>5. ASSUME d.do.what \in {"print", "stop"}, nodes' = nodes, phase' # "setup",
               After \subseteq events', \A e \in events' : Turning(e) => e \in After
        PROVE  AppsOK'
    <3>1. \A e : Turning(e) => (e \in events' <=> e \in events)
      BY <2>2, <2>5 DEF Turning
    <3> QED
      BY <2>2, <2>5, <3>1, AppsLeftAlone
  <2>6. CASE /\ d.do.what = "print" /\ d.do.node \in Nat /\ d.do.out \in Nat /\ d.do.interval \in Nat
             /\ PrintEvery(d.do)
    <3>1. nodes' = nodes /\ phase' # "setup" /\ d.do \in Handler
      BY <2>1, <2>2, <2>6 DEF PrintEvery, Next1, SimEvent
    <3>2. CASE d.do.interval = 0
      <4>1. events' = After
        BY <2>6, <3>2 DEF PrintEvery, Schedule
      <4> QED
        BY <2>5, <2>6, <3>1, <4>1
    <3>3. CASE d.do.interval # 0
      <4>1. PICK g : g = [time |-> now' + d.do.interval, do |-> d.do]
        OBVIOUS
      <4>2. g \in Duty /\ g.do = d.do
        BY <2>2, <2>6, <3>1, <4>1 DEF Duty
      <4>3. PICK new : new = <<g>>
        OBVIOUS
      <4>4. Schedule(After, new)
        BY <2>6, <3>3, <4>1, <4>3 DEF PrintEvery
      <4>5. new \in Seq(Duty) /\ \A i \in 1 .. Len(new) : new[i] = g
        BY <4>2, <4>3
      <4>6. /\ After \subseteq events'
            /\ \A i \in 1 .. Len(new) : Nth(new, i).do = new[i].do
            /\ \A e \in events' : e \in After \/ \E i \in 1 .. Len(new) : e = Nth(new, i)
        BY <2>2, <4>4, <4>5, Scheduled
      <4>7. \A e \in events' : Turning(e) => e \in After
        BY <2>6, <4>2, <4>5, <4>6 DEF Turning
      <4> QED
        BY <2>5, <2>6, <3>1, <4>6, <4>7
    <3> QED
      BY <3>2, <3>3
  <2>7. CASE /\ d.do.what = "stop" /\ phase' = "over" /\ Schedule(After, << >>)
             /\ UNCHANGED <<nodes, printed>>
    <3>1. events' = After
      BY <2>7 DEF Schedule
    <3> QED
      BY <2>5, <2>7, <3>1
  <2> QED
    BY <2>1, <2>3, <2>4, <2>6, <2>7, WhatRuns
<1>3. ASSUME UNCHANGED <<setup, nodes, printed, now, queue>>, phase' = "setup" => phase = "setup"
      PROVE  AppsOK'
  <2>1. nodes' = nodes /\ now' = now /\ events' = events
    BY <1>3 DEF queue
  <2>2. ScriptTyped /\ now \in Nat /\ now' \in Nat /\ now <= now'
    BY <2>1 DEF Typed, QueueTyped
  <2> QED
    BY <1>3, <2>1, <2>2, AppsLeftAlone
<1>4. CASE Run
  BY <1>3, <1>4 DEF Run
<1>5. CASE Return
  BY <1>3, <1>5 DEF Return
<1>6. CASE UNCHANGED vars
  BY <1>3, <1>6 DEF vars
<1> QED
  BY <1>1, <1>2, <1>4, <1>5, <1>6 DEF Next

-----------------------------------------------------------------------------
\* The calls of the example.
ExampleCall ==
  [call : {"CreateNode"}]
  \cup [call : {"Install"}, node : Nat]
  \cup [call : {"SetRoutingHelper"}, helpers : {<<"trust">>, <<"malicious">>}]
  \cup [call : {"PrintTrustTableAllAt"}, time : Nat]
  \cup {c \in [call : {"InstallPing"}, node : Nat, start : Nat, stop : Nat] :
          IsExamplePing(c.node, c.start, c.stop)}
  \cup [call : {"Stop"}, time : Nat]

LEMMA ExampleCallPings ==
  ASSUME NEW c \in ExampleCall, c.call = "InstallPing"
  PROVE  IsExamplePing(c.node, c.start, c.stop)
BY DEF ExampleCall

LEMMA StackCalls ==
  ASSUME NEW p \in BOOLEAN
  PROVE  InstallInternetStack(p) \in Seq(ExampleCall)
<1>1. <<[call |-> "SetRoutingHelper", helpers |-> <<"trust">>]>> \in Seq(ExampleCall)
  <2>1. PICK a : a = [call |-> "SetRoutingHelper", helpers |-> <<"trust">>]
    OBVIOUS
  <2>2. a \in ExampleCall
    BY <2>1 DEF ExampleCall
  <2> QED
    BY <2>1, <2>2
<1>2. <<[call |-> "SetRoutingHelper", helpers |-> <<"malicious">>]>> \in Seq(ExampleCall)
  <2>1. PICK a : a = [call |-> "SetRoutingHelper", helpers |-> <<"malicious">>]
    OBVIOUS
  <2>2. a \in ExampleCall
    BY <2>1 DEF ExampleCall
  <2> QED
    BY <2>1, <2>2
<1>3. ASSUME NEW s \in Seq(Nat) PROVE InstallOn(s) \in Seq(ExampleCall)
  <2>1. \A i \in DOMAIN s : [call |-> "Install", node |-> Node(s[i])] \in ExampleCall
    BY DEF ExampleCall, Node
  <2>2. DOMAIN s = 1 .. Len(s) /\ Len(s) \in Nat
    OBVIOUS
  <2> QED
    BY <2>1, <2>2 DEF InstallOn
<1>4. ASSUME NEW t \in Nat PROVE PrintAt(t) \in Seq(ExampleCall)
  <2>1. PICK a : a = [call |-> "PrintTrustTableAllAt", time |-> t]
    OBVIOUS
  <2>2. a \in ExampleCall
    BY <2>1 DEF ExampleCall
  <2> QED
    BY <2>1, <2>2 DEF PrintAt
<1>5. InstallOn(<<0, 1, 2, 3, 4, 5>>) \in Seq(ExampleCall) /\ InstallOn(<<6>>) \in Seq(ExampleCall)
  <2>1. <<0, 1, 2, 3, 4, 5>> \in Seq(Nat) /\ <<6>> \in Seq(Nat)
    OBVIOUS
  <2> QED
    BY <1>3, <2>1
<1>6. (IF p THEN PrintAt(55000) \o PrintAt(75000) ELSE << >>) \in Seq(ExampleCall)
  <2>1. PrintAt(55000) \in Seq(ExampleCall) /\ PrintAt(75000) \in Seq(ExampleCall)
    BY <1>4
  <2> QED
    BY <2>1
<1> QED
  BY <1>1, <1>2, <1>5, <1>6 DEF InstallInternetStack

LEMMA PingCalls == InstallApplications \in Seq(ExampleCall)
<1>1. ASSUME NEW k \in 1 .. size PROVE PingsOf(k - 1) \in Seq(ExampleCall)
  <2>1. PICK a : a = Ping(k - 1, (k - 1) * 10000, 49999)
    OBVIOUS
  <2>2. a \in ExampleCall
    BY <2>1 DEF ExampleCall, Ping, Node, IsExamplePing, size
  <2>3. PingsOf(k - 1) = [j \in 1 .. size - 1 |-> a] /\ size - 1 \in Nat
    BY <2>1 DEF PingsOf, size
  <2> QED
    BY <2>2, <2>3
<1> DEFINE parts == [k \in 1 .. size |-> PingsOf(k - 1)]
<1>2. parts \in Seq(Seq(ExampleCall))
  BY <1>1 DEF size
<1> HIDE DEF parts
<1>3. FlattenSeq(parts) \in Seq(ExampleCall)
  BY <1>2, FlattenJoins DEF Joins
<1>4. <<Ping(4, 60000, 69999)>> \in Seq(ExampleCall)
  <2>1. PICK a : a = Ping(4, 60000, 69999)
    OBVIOUS
  <2>2. a \in ExampleCall
    BY <2>1 DEF ExampleCall, Ping, Node, IsExamplePing, size
  <2> QED
    BY <2>1, <2>2
<1> QED
  BY <1>3, <1>4 DEF InstallApplications, parts

LEMMA MainCalls ==
  ASSUME NEW p \in BOOLEAN, NEW t \in Nat
  PROVE  Main(p, t) \in Seq(ExampleCall)
<1>1. CreateNodes \in Seq(ExampleCall)
  <2>1. PICK a : a = [call |-> "CreateNode"]
    OBVIOUS
  <2>2. a \in ExampleCall
    BY <2>1 DEF ExampleCall
  <2>3. CreateNodes = [i \in 1 .. size |-> a] /\ size \in Nat
    BY <2>1 DEF CreateNodes, size
  <2> QED
    BY <2>2, <2>3
<1>2. <<[call |-> "Stop", time |-> t]>> \in Seq(ExampleCall)
  <2>1. PICK a : a = [call |-> "Stop", time |-> t]
    OBVIOUS
  <2>2. a \in ExampleCall
    BY <2>1 DEF ExampleCall
  <2> QED
    BY <2>1, <2>2
<1> QED
  BY <1>1, <1>2, StackCalls, PingCalls DEF Main

\* Every list of calls is that of the example, however long it is to run.
ScriptsAreExamples ==
  \A i \in DOMAIN Script : \E p \in BOOLEAN : \E t \in Nat : Script[i] = Main(p, t)

LEMMA ExamplePingsKept ==
  ASSUME ScriptsAreExamples, Typed, ExamplePings, [Next]_vars
  PROVE  ExamplePings'
<1>1. ScriptTyped
  BY DEF Typed
<1>2. CASE Call
  <2>1. PICK c \in NextCall : Perform(c)
    BY <1>2 DEF Call
  <2>2. c \in HelperCall
    BY <1>1, NextIsACall
  <2>3. AppsGrow(NewApps(c))
    BY <1>1, <2>1, <2>2, CallEffect
  <2>4. script' = script
    BY <1>2 DEF Call
  <2>5. ASSUME script # Free PROVE c \in ExampleCall
    <3>1. script \in DOMAIN Script
      BY <1>1, <2>5 DEF ScriptTyped
    <3>2. PICK p \in BOOLEAN, t \in Nat : Script[script] = Main(p, t)
      BY <3>1 DEF ScriptsAreExamples
    <3>3. PICK s : s = Script[script]
      OBVIOUS
    <3>4. s \in Seq(ExampleCall)
      BY <3>2, <3>3, MainCalls
    <3>5. \E i \in DOMAIN s : c = s[i]
      BY <2>1, <2>5, <3>3 DEF NextCall
    <3> QED
      BY <3>4, <3>5
  <2>6. ASSUME script # Free, NEW n \in DOMAIN nodes', NEW k \in DOMAIN nodes'[n].apps,
               nodes'[n].apps[k].kind = "ping"
        PROVE  IsExamplePing(n, nodes'[n].apps[k].start, nodes'[n].apps[k].stop)
    <3>1. CASE n \in DOMAIN nodes /\ k \in DOMAIN nodes[n].apps
      <4>1. nodes'[n].apps[k] = nodes[n].apps[k]
        BY <2>3, <3>1 DEF AppsGrow
      <4> QED
        BY <2>6, <3>1, <4>1 DEF ExamplePings
    <3>2. CASE ~(n \in DOMAIN nodes /\ k \in DOMAIN nodes[n].apps)
      <4>1. PICK a : a = nodes'[n].apps[k]
        OBVIOUS
      <4>2. <<n, a>> \in NewApps(c)
        BY <2>3, <3>2, <4>1 DEF AppsGrow
      <4>3. c.call = "InstallPing" /\ n = c.node /\ a.start = c.start /\ a.stop = c.stop
        BY <2>6, <4>1, <4>2 DEF NewApps
      <4> QED
        BY <2>5, <2>6, <4>1, <4>3, ExampleCallPings
    <3> QED
      BY <3>1, <3>2
  <2> QED
    BY <2>4, <2>6 DEF ExamplePings
<1>3. ASSUME script' = script, DOMAIN nodes' = DOMAIN nodes,
             \A n \in DOMAIN nodes :
               /\ DOMAIN nodes'[n].apps = DOMAIN nodes[n].apps
               /\ \A k \in DOMAIN nodes[n].apps :
                    /\ nodes'[n].apps[k].kind = nodes[n].apps[k].kind
                    /\ nodes'[n].apps[k].start = nodes[n].apps[k].start
                    /\ nodes'[n].apps[k].stop = nodes[n].apps[k].stop
      PROVE  ExamplePings'
  BY <1>3 DEF ExamplePings
<1>4. CASE Event
  <2>1. PICK d : Next1(d)
    BY <1>4, EventRuns
  <2>2. HasTarget(d.do) /\ script' = script
    BY <2>1 DEF Next1, setup
  <2>3. ASSUME nodes' = nodes PROVE ExamplePings'
    BY <1>3, <2>2, <2>3
  <2>4. CASE d.do.what = "initialize" /\ d.do.node \in Nat /\ Initialize(d.do.node)
    BY <2>3, <2>4 DEF Initialize
  <2>5. CASE /\ d.do.what \in {"start", "end"} /\ d.do.node \in Nat /\ d.do.app \in Nat
             /\ Turn(d.do.node, d.do.app, IF d.do.what = "start" THEN "running" ELSE "stopped")
    <3>1. PICK n, k, state : n = d.do.node /\ k = d.do.app
                             /\ state = IF d.do.what = "start" THEN "running" ELSE "stopped"
      OBVIOUS
    <3>2. n \in DOMAIN nodes /\ k \in DOMAIN nodes[n].apps /\ state \in {"running", "stopped"}
      BY <2>2, <2>5, <3>1 DEF HasTarget
    <3>3. Turn(n, k, state)
      BY <2>5, <3>1
    <3>4. /\ DOMAIN nodes' = DOMAIN nodes
          /\ \A m \in DOMAIN nodes :
               /\ DOMAIN nodes'[m].apps = DOMAIN nodes[m].apps
               /\ \A j \in DOMAIN nodes[m].apps :
                    nodes'[m].apps[j] = TurnedTo(state, n, k, m, j)
      BY <1>1, <3>2, <3>3, TurnEffect
    <3>5. ASSUME NEW m \in DOMAIN nodes, NEW j \in DOMAIN nodes[m].apps
          PROVE  /\ nodes'[m].apps[j].kind = nodes[m].apps[j].kind
                 /\ nodes'[m].apps[j].start = nodes[m].apps[j].start
                 /\ nodes'[m].apps[j].stop = nodes[m].apps[j].stop
      BY <1>1, <3>4, TurnKeeps
    <3> QED
      BY <1>3, <2>2, <3>4, <3>5
  <2>6. CASE /\ d.do.what = "print" /\ d.do.node \in Nat /\ d.do.out \in Nat /\ d.do.interval \in Nat
             /\ PrintEvery(d.do)
    BY <2>3, <2>6 DEF PrintEvery
  <2>7. CASE /\ d.do.what = "stop" /\ phase' = "over" /\ Schedule(After, << >>)
             /\ UNCHANGED <<nodes, printed>>
    BY <2>3, <2>7
  <2> QED
    BY <2>1, <2>4, <2>5, <2>6, <2>7, WhatRuns
<1>5. CASE Run
  BY <1>3, <1>5 DEF Run, setup
<1>6. CASE Return
  BY <1>3, <1>6 DEF Return, setup
<1>7. CASE UNCHANGED vars
  BY <1>3, <1>7 DEF vars, setup
<1> QED
  BY <1>2, <1>4, <1>5, <1>6, <1>7 DEF Next

LEMMA InFifties ==
  ASSUME NEW t \in 50000 .. 59999
  PROVE  t \in Nat /\ 50000 <= t /\ t <= 59999
OBVIOUS

LEMMA LateStarters ==
  ASSUME Typed, AppsOK, ExamplePings
  PROVE  OnlyLateStartersPing
<1> SUFFICES ASSUME script # Free, now \in 50000 .. 59999, NEW n \in DOMAIN nodes,
                    NEW k \in DOMAIN nodes[n].apps,
                    nodes[n].apps[k].kind = "ping", nodes[n].apps[k].state = "running"
             PROVE  n \in {Node(5), Node(6)}
  BY DEF OnlyLateStartersPing, Pinging
<1>1. AppOK(n, k) /\ IsExamplePing(n, nodes[n].apps[k].start, nodes[n].apps[k].stop)
  BY DEF AppsOK, ExamplePings
<1>2. ~Unborn(n) /\ nodes[n].apps[k].start <= now
  BY <1>1 DEF AppOK
<1>3. now \in Nat /\ 50000 <= now /\ now <= 59999
  BY InFifties
<1>4. CASE n \in 1 .. size /\ nodes[n].apps[k].start = (n - 1) * 10000 /\ nodes[n].apps[k].stop = 49999
  <2>1. ~(nodes[n].apps[k].start < nodes[n].apps[k].stop)
    <3> SUFFICES ASSUME nodes[n].apps[k].start < nodes[n].apps[k].stop PROVE FALSE
      OBVIOUS
    <3>1. PICK e \in events : Does(e, "end", n, k)
      BY <1>1, <1>2 DEF AppOK
    <3>2. e.time = nodes[n].apps[k].stop
      <4>1. e.do.what = "end" /\ e.do.node = n /\ e.do.app = k
        BY <3>1 DEF Does
      <4>2. TurnOK(e)
        BY <4>1 DEF AppsOK
      <4> QED
        BY <4>1, <4>2 DEF TurnOK
    <3>3. e.time >= now
      BY DEF Typed, QueueTyped
    <3> QED
      BY <1>4, <1>3, <3>2, <3>3
  <2>2. n \in 1 .. 7 /\ ~((n - 1) * 10000 < 49999)
    BY <1>4, <2>1 DEF size
  <2> QED
    BY <2>2 DEF Node
<1>5. CASE n = Node(4) /\ nodes[n].apps[k].start = 60000 /\ nodes[n].apps[k].stop = 69999
  BY <1>2, <1>5, <1>3
<1> QED
  BY <1>1, <1>4, <1>5 DEF IsExamplePing

\* However long the example is to run, and whether or not it prints, nodes 5
\* and 6 alone ping from 50 s to 60 s, and no other ping is late: every other
\* start comes before its stop, and the stop was not lost (InstallApplications,
\* and the turns of ns-3's applications).
THEOREM LateStartersAlonePing ==
  ASSUME ScriptsAreExamples
  PROVE  Spec => []OnlyLateStartersPing
<1>1. Init => Typed /\ AppsOK /\ ExamplePings
  <2>1. ASSUME Init PROVE AppsOK /\ ExamplePings
    BY <2>1 DEF Init, AppsOK, ExamplePings
  <2> QED
    BY <2>1, InitTyped
<1>2. Typed /\ AppsOK /\ ExamplePings /\ [Next]_vars => Typed' /\ AppsOK' /\ ExamplePings'
  BY NextTyped, AppsKept, ExamplePingsKept
<1>3. Typed /\ AppsOK /\ ExamplePings => OnlyLateStartersPing
  BY LateStarters
<1> QED
  BY <1>1, <1>2, <1>3, PTL DEF Spec
=============================================================================
