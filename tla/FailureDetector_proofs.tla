----------------------- MODULE FailureDetector_proofs -----------------------
(***************************************************************************)
(* Proofs about FailureDetector: whom dara1C can be called for, whatever   *)
(* the intervals, the number of links and the messages lost.               *)
(***************************************************************************)
EXTENDS FailureDetector, FiniteSetTheorems, TLAPS

\* Times are numbers, one by one.
LEMMA Times ==
  /\ Interval \in Nat /\ failureThreshold \in Nat /\ Pause \in Nat /\ Day \in Nat
  /\ Recovery \in Nat /\ Lag \in Nat /\ MaxAge \in Nat /\ MaxLosses \in Nat
  /\ failureThreshold < Day
BY TimesAssumption, SMTT(30)

\* A time does not look longer than it was, and an age no older than it is.
LEMMA SecondsOfAge ==
  ASSUME NEW d \in Nat, Seconds(d) > failureThreshold
  PROVE  d > failureThreshold
<1>1. Day \in Nat /\ failureThreshold \in Nat /\ Day > 0
  BY Times
<1>2. d % Day <= d
  BY <1>1, SMT
<1> QED
  BY <1>1, <1>2 DEF Seconds

LEMMA OlderIsAge == ASSUME NEW a \in 0 .. MaxAge PROVE Older(a) \in 0 .. MaxAge
BY Times DEF Older

LEMMA LinkAt == ASSUME NEW i \in 1 .. Len(Links) PROVE Links[i] \in Link
BY LinksAssumption DEF Link

\* What the type invariant needs to be inductive: a recovery is under way
\* for a link that exists.
RecoversALink == thread = "recovering" => next <= Len(Links)

TypeInv == TypeOK /\ RecoversALink

LEMMA InitType == Init => TypeInv
<1>1. Len(Links) \in Nat
  BY LinksAssumption
<1> QED
  BY <1>1, Times DEF Init, TypeInv, TypeOK, RecoversALink

LEMMA StepType == TypeInv /\ [Next]_vars => TypeInv'
<1> SUFFICES ASSUME TypeInv, [Next]_vars PROVE TypeInv'
  OBVIOUS
<1> USE DEF TypeInv, TypeOK, RecoversALink
<1>0. Len(Links) \in Nat
  BY LinksAssumption
<1>1. CASE \E l \in Link : Die(l)
  BY <1>1 DEF Die
<1>2. ASSUME NEW l \in Link, Heartbeat(l) PROVE TypeInv'
  <2>1. toSend' \in [Link -> 0 .. Interval]
    BY <1>2, Times DEF Heartbeat
  <2>2. age' \in [Link -> 0 .. MaxAge]
    <3>1. 0 \in 0 .. MaxAge
      BY Times
    <3> QED
      BY <1>2, <3>1 DEF Heartbeat
  <2>3. suspected' \subseteq Link
    BY <1>2 DEF Heartbeat
  <2>4. losses' \in 0 .. MaxLosses
    BY <1>2, Times DEF Heartbeat
  <2>5. UNCHANGED <<up, rAge, thread, timer, next>> /\ called' = {}
    BY <1>2 DEF Heartbeat
  <2> QED
    BY <2>1, <2>2, <2>3, <2>4, <2>5
<1>3. CASE BeginPass
  BY <1>0, <1>3, Times DEF BeginPass
<1>4. CASE Check
  <2>1. Links[next] \in Link
    BY <1>4, LinkAt DEF Check
  <2>2. next + 1 \in 1 .. Len(Links) + 1
    BY <1>0, <1>4 DEF Check
  <2>3. called' \subseteq Link /\ suspected' \subseteq Link
    BY <1>4, <2>1 DEF Check
  <2>4. next' \in 1 .. Len(Links) + 1
    BY <1>4, <2>2 DEF Check
  <2>5. thread' \in {"sleeping", "checking", "recovering"} /\ timer' \in Nat
    BY <1>4, Times DEF Check
  <2>6. RecoversALink'
    BY <1>4 DEF Check
  <2> QED
    BY <1>4, <2>3, <2>4, <2>5, <2>6 DEF Check
<1>5. CASE EndRecovery
  <2>1. next \in 1 .. Len(Links) /\ next + 1 \in 1 .. Len(Links) + 1
    BY <1>0, <1>5 DEF EndRecovery
  <2>2. up' \subseteq Link
    BY <1>5, <2>1, LinkAt DEF EndRecovery
  <2>3. toSend' \in [Link -> 0 .. Interval]
    BY <1>5 DEF EndRecovery
  <2> QED
    BY <1>5, <2>1, <2>2, <2>3 DEF EndRecovery
<1>6. CASE EndPass
  BY <1>6, Times DEF EndPass
<1>7. CASE Tick
  <2>1. toSend' \in [Link -> 0 .. Interval]
    <3>1. ASSUME NEW l \in Link, l \in up PROVE toSend[l] - 1 \in 0 .. Interval
      BY <1>7, <3>1, Times DEF Tick
    <3> QED
      BY <1>7, <3>1 DEF Tick
  <2>2. age' \in [Link -> 0 .. MaxAge] /\ rAge' \in 0 .. MaxAge
    BY <1>7, OlderIsAge DEF Tick
  <2>3. timer' \in Nat
    BY <1>7 DEF Tick
  <2> QED
    BY <1>7, <2>1, <2>2, <2>3 DEF Tick
<1>8. CASE UNCHANGED vars
  BY <1>8 DEF vars
<1> QED
  BY <1>1, <1>2, <1>3, <1>4, <1>5, <1>6, <1>7, <1>8 DEF Next

\* Every variable keeps to its type, in every detector.
THEOREM TypeCorrect == Spec => []TypeOK
<1>1. TypeInv => TypeOK
  BY DEF TypeInv
<1> QED
  BY InitType, StepType, <1>1, PTL DEF Spec

-----------------------------------------------------------------------------
\* The call of dara1C is the step at which a suspicion is explained; no other
\* step leaves a link called.
LEMMA StepExplained ==
  TypeInv /\ SuspicionIsExplained /\ [Next]_vars => SuspicionIsExplained'
<1> SUFFICES ASSUME TypeInv, SuspicionIsExplained, [Next]_vars PROVE SuspicionIsExplained'
  OBVIOUS
<1> USE DEF SuspicionIsExplained
<1>1. CASE Check
  <2> SUFFICES ASSUME NEW l \in called', ~(age[l] < rAge)
               PROVE  age[l] > failureThreshold
    BY <1>1 DEF Check
  <2>1. l = Links[next] /\ LooksFailed(l) /\ l \in Link
    BY <1>1, LinkAt DEF Check, TypeInv, TypeOK
  <2>2. age[l] \in Nat /\ rAge \in Nat /\ age[l] - rAge \in Nat
    BY <2>1 DEF TypeInv, TypeOK
  <2>3. age[l] - rAge > failureThreshold
    BY <2>1, <2>2, SecondsOfAge DEF LooksFailed
  <2> QED
    BY <2>2, <2>3, Times
<1>2. CASE UNCHANGED vars
  BY <1>2 DEF vars
<1>3. CASE ~Check /\ Next
  BY <1>3 DEF Next, Die, Heartbeat, BeginPass, EndRecovery, EndPass, Tick
<1> QED
  BY <1>1, <1>2, <1>3

\* Whoever dara1C is called for has been silent for longer than the threshold
\* or has been heard of since the pass began: a node that was heard of before
\* the pass, within the threshold, is never replaced.
THEOREM SuspicionExplained == Spec => []SuspicionIsExplained
<1>1. Init => SuspicionIsExplained
  BY DEF Init, SuspicionIsExplained
<1> QED
  BY InitType, StepType, StepExplained, <1>1, PTL DEF Spec

-----------------------------------------------------------------------------
\* A silence cannot last so long that delta.seconds has lost a day of it.
RoundFitsInDay == failureThreshold + Pass + Pause < Day

\* The cut vertices among the first k links.
CutBefore(k) == {l \in CutVertex : \E i \in DOMAIN Links : i <= k /\ Links[i] = l}

\* The links that this pass is through with; in a recovery, that of the link
\* it is for included.
Done == IF thread = "recovering" THEN next ELSE next - 1

\* What a sleep still takes; and what a pass has taken, and its recovery will.
PassBounded ==
  /\ thread = "sleeping" => timer <= Pause
  /\ thread # "sleeping" =>
       rAge + (IF thread = "recovering" THEN timer ELSE 0)
         <= Lag + Recovery * Cardinality(CutBefore(Done))

\* How old a stamp can be without a call of dara1C: between two passes; in a
\* pass, for the links that it is through with; and for the others.
AgeBounded ==
  \A l \in Link \ suspected :
    /\ thread = "sleeping" => age[l] <= failureThreshold + Pass + (Pause - timer)
    /\ thread # "sleeping" =>
         /\ age[l] - rAge <= failureThreshold + Pass + Pause
         /\ \A i \in DOMAIN Links : i <= Done /\ Links[i] = l => age[l] - rAge <= failureThreshold

\* The inductive invariant of SilenceIsNoticed.
SilenceInv == TypeInv /\ PassBounded /\ AgeBounded

\* Recoveries are counted without harm to the prover: as many as cut vertices.
LEMMA CutBeforeFacts ==
  ASSUME NEW k \in Nat
  PROVE  /\ IsFiniteSet(CutBefore(k))
         /\ Cardinality(CutBefore(k)) \in Nat
         /\ Cardinality(CutVertex) \in Nat
         /\ Cardinality(CutBefore(k)) <= Cardinality(CutVertex)
<1>1. CutBefore(k) \in SUBSET CutVertex
  BY DEF CutBefore
<1> QED
  BY <1>1, CutVertexAssumption, FS_Subset, FS_CardinalityType

\* One link more: one cut vertex more, if it is one.
LEMMA CutBeforeNext ==
  ASSUME NEW k \in Nat, k + 1 \in DOMAIN Links
  PROVE  /\ Links[k + 1] \in CutVertex =>
              Cardinality(CutBefore(k + 1)) = Cardinality(CutBefore(k)) + 1
         /\ Cardinality(CutBefore(k)) <= Cardinality(CutBefore(k + 1))
<1> DEFINE l == Links[k + 1]
<1>0. DOMAIN Links \subseteq Nat
  BY LinksAssumption
<1>1. l \notin CutBefore(k)
  BY <1>0, LinksOnceAssumption DEF CutBefore
<1>2. CutBefore(k + 1) = CutBefore(k) \cup ({l} \cap CutVertex)
  BY <1>0 DEF CutBefore
<1>3. IsFiniteSet(CutBefore(k)) /\ Cardinality(CutBefore(k)) \in Nat
  BY CutBeforeFacts
<1>4. CASE l \in CutVertex
  <2>1. CutBefore(k + 1) = CutBefore(k) \cup {l}
    BY <1>2, <1>4
  <2> QED
    BY <1>1, <1>3, <2>1, FS_AddElement
<1>5. CASE l \notin CutVertex
  <2>1. CutBefore(k + 1) = CutBefore(k)
    BY <1>2, <1>5
  <2> QED
    BY <1>3, <1>5, <2>1
<1> QED
  BY <1>4, <1>5

\* What recoveries take, in numbers the prover need not multiply.
LEMMA RecoveryTimes ==
  ASSUME NEW m \in Nat, NEW n \in Nat, m <= n
  PROVE  /\ Recovery * m \in Nat /\ Recovery * n \in Nat
         /\ Recovery * m <= Recovery * n
         /\ Recovery * (m + 1) = Recovery * m + Recovery
<1>1. Recovery \in Nat
  BY Times
<1> QED
  BY <1>1

\* A pass is never longer than Pass.
LEMMA PassIsLong ==
  ASSUME TypeInv, PassBounded, thread # "sleeping"
  PROVE  Pass \in Nat /\ rAge <= Pass
<1>1. Done \in Nat /\ rAge \in Nat /\ timer \in Nat /\ Lag \in Nat
  BY Times DEF Done, TypeInv, TypeOK
<1> DEFINE m == Cardinality(CutBefore(Done))
           n == Cardinality(CutVertex)
<1>2. m \in Nat /\ n \in Nat /\ m <= n
  BY <1>1, CutBeforeFacts
<1> HIDE DEF m, n
<1>3. Recovery * m \in Nat /\ Recovery * n \in Nat /\ Recovery * m <= Recovery * n
  BY <1>2, RecoveryTimes
<1>4. rAge <= Lag + Recovery * m
  BY <1>1, <1>3 DEF PassBounded, m
<1> QED
  BY <1>1, <1>3, <1>4 DEF Pass, n

LEMMA Numbers ==
  ASSUME TypeInv
  PROVE  /\ Len(Links) \in Nat /\ DOMAIN Links = 1 .. Len(Links)
         /\ failureThreshold \in Nat /\ Pause \in Nat /\ Lag \in Nat /\ Recovery \in Nat
         /\ MaxAge \in Nat /\ Day \in Nat /\ Pass \in Nat
         /\ rAge \in 0 .. MaxAge /\ timer \in Nat /\ next \in Nat /\ Done \in Nat
         /\ \A l \in Link : age[l] \in 0 .. MaxAge
<1>1. Recovery * Cardinality(CutVertex) \in Nat
  BY CutBeforeFacts, RecoveryTimes
<1> QED
  BY <1>1, Times, LinksAssumption, SMTT(30) DEF Pass, Done, TypeInv, TypeOK

\* A link that is looked at and not called for.
LEMMA NotCalled ==
  ASSUME RoundFitsInDay, TypeInv, NEW l \in Link, ~LooksFailed(l),
         age[l] - rAge <= failureThreshold + Pass + Pause
  PROVE  age[l] - rAge <= failureThreshold
<1>1. /\ age[l] \in Nat /\ rAge \in Nat /\ Day \in Nat /\ failureThreshold \in Nat
      /\ Pass \in Nat /\ Pause \in Nat
  BY Numbers
<1>2. CASE age[l] - rAge < 0
  BY <1>1, <1>2
<1>3. CASE age[l] - rAge >= 0
  <2>1. age[l] - rAge \in 0 .. Day - 1
    BY <1>1, <1>3 DEF RoundFitsInDay
  <2>2. (age[l] - rAge) % Day = age[l] - rAge
    BY <1>1, <2>1
  <2> QED
    BY <1>1, <2>2 DEF LooksFailed, Seconds
<1> QED
  BY <1>1, <1>2, <1>3

LEMMA CheckSilence ==
  ASSUME RoundFitsInDay, SilenceInv, Check
  PROVE  PassBounded' /\ AgeBounded'
<1> DEFINE l == Links[next]
           c(k) == Cardinality(CutBefore(k))
<1>0. SilenceInv => TypeInv
  BY DEF SilenceInv
<1>1. /\ thread = "checking" /\ thread' # "sleeping"
      /\ Done = next - 1 /\ Done \in Nat /\ Done + 1 = next /\ next \in DOMAIN Links
      /\ l \in Link
      /\ UNCHANGED <<age, rAge>>
  BY <1>0, Numbers, LinkAt, SMTT(30) DEF Check, Done
<1>2. Done' = next
  BY <1>0, Numbers, SMTT(30) DEF Check, Done
<1>3. /\ c(Done) \in Nat /\ c(Done + 1) \in Nat
      /\ c(Done) <= c(Done + 1)
      /\ l \in CutVertex => c(Done + 1) = c(Done) + 1
  BY <1>1, CutBeforeFacts, CutBeforeNext
<1>4. PassBounded'
  <2> DEFINE m == c(Done)
             n == c(Done + 1)
  <2>1. rAge <= Lag + Recovery * m
    BY <1>0, <1>1, Numbers DEF SilenceInv, PassBounded
  <2>2. CutBefore(Done)' = CutBefore(Done + 1)
    BY <1>1, <1>2 DEF CutBefore
  <2>3. PassBounded' <=> rAge + (IF thread' = "recovering" THEN timer' ELSE 0) <= Lag + Recovery * n
    BY <1>1, <2>2 DEF PassBounded
  <2>4. m \in Nat /\ n \in Nat /\ m <= n /\ (l \in CutVertex => n = m + 1)
    BY <1>3
  <2> HIDE DEF m, n
  <2>5. /\ Recovery * m \in Nat /\ Recovery * n \in Nat /\ Recovery * m <= Recovery * n
        /\ Recovery * (m + 1) = Recovery * m + Recovery
    BY <2>4, RecoveryTimes
  <2>6. thread' = "recovering" => l \in CutVertex /\ timer' = Recovery
    BY <1>1 DEF Check
  <2>7. l \in CutVertex => Recovery * n = Recovery * m + Recovery
    BY <2>4, <2>5
  <2>8. rAge \in Nat /\ Lag \in Nat /\ Recovery \in Nat
    BY <1>0, Numbers
  <2> DEFINE u == Recovery * m
             v == Recovery * n
  <2>9. u \in Nat /\ v \in Nat /\ u <= v /\ rAge <= Lag + u
        /\ (l \in CutVertex => v = u + Recovery)
    BY <2>1, <2>5, <2>7
  <2>10. PassBounded' <=> rAge + (IF thread' = "recovering" THEN timer' ELSE 0) <= Lag + v
    BY <2>3
  <2> HIDE DEF u, v
  <2> QED
    BY <2>6, <2>8, <2>9, <2>10
<1>5. AgeBounded'
  <2> SUFFICES ASSUME NEW k \in Link \ suspected'
               PROVE  /\ age[k] - rAge <= failureThreshold + Pass + Pause
                      /\ \A i \in DOMAIN Links : i <= next /\ Links[i] = k
                           => age[k] - rAge <= failureThreshold
    BY <1>1, <1>2 DEF AgeBounded
  <2>1. k \notin suspected /\ (k = l => ~LooksFailed(l))
    BY <1>1 DEF Check
  <2>2. /\ age[k] - rAge <= failureThreshold + Pass + Pause
        /\ \A i \in DOMAIN Links : i <= Done /\ Links[i] = k => age[k] - rAge <= failureThreshold
    BY <1>1, <2>1 DEF SilenceInv, AgeBounded
  <2>3. \A i \in DOMAIN Links : i <= next => i <= Done \/ i = next
    BY <1>0, <1>1, Numbers, SMTT(30)
  <2>4. k = l => age[k] - rAge <= failureThreshold
    BY <1>0, <1>1, <2>1, <2>2, NotCalled
  <2> QED
    BY <2>2, <2>3, <2>4
<1> QED
  BY <1>4, <1>5

LEMMA BeginSilence ==
  ASSUME SilenceInv, BeginPass
  PROVE  PassBounded' /\ AgeBounded'
<1>1. /\ thread = "sleeping" /\ timer = 0 /\ thread' = "checking" /\ rAge' = 0
      /\ next' = 1 /\ UNCHANGED <<age, timer, suspected>> /\ Done' = 0
  BY DEF BeginPass, Done
<1>2. CutBefore(Done)' = CutBefore(0)
  BY <1>1 DEF CutBefore
<1>3. Recovery * Cardinality(CutBefore(0)) \in Nat
  BY CutBeforeFacts, RecoveryTimes
<1>4. PassBounded'
  BY <1>1, <1>2, <1>3, Numbers DEF PassBounded, SilenceInv
<1>5. AgeBounded'
  BY <1>1, Numbers DEF AgeBounded, SilenceInv
<1> QED
  BY <1>4, <1>5

LEMMA EndRecoverySilence ==
  ASSUME SilenceInv, EndRecovery
  PROVE  PassBounded' /\ AgeBounded'
<1>1. /\ thread = "recovering" /\ timer = 0 /\ thread' = "checking"
      /\ UNCHANGED <<age, rAge, suspected>> /\ Done' = Done
  BY Numbers DEF EndRecovery, Done, SilenceInv
<1>2. CutBefore(Done)' = CutBefore(Done)
  BY <1>1 DEF CutBefore
<1>3. PassBounded'
  BY <1>1, <1>2, Numbers DEF PassBounded, SilenceInv
<1>4. AgeBounded'
  BY <1>1 DEF AgeBounded, SilenceInv
<1> QED
  BY <1>3, <1>4

\* When a pass ends it is through with every link.
LEMMA EndPassSilence ==
  ASSUME SilenceInv, EndPass
  PROVE  PassBounded' /\ AgeBounded'
<1>0. TypeInv /\ PassBounded
  BY DEF SilenceInv
<1>1. /\ thread = "checking" /\ next > Len(Links) /\ Done = next - 1
      /\ thread' = "sleeping" /\ timer' = Pause
      /\ UNCHANGED <<age, suspected>>
  BY DEF EndPass, Done
<1>2. rAge <= Pass
  BY <1>0, <1>1, PassIsLong
<1>3. AgeBounded'
  <2> SUFFICES ASSUME NEW l \in Link \ suspected
               PROVE  age[l] <= failureThreshold + Pass + (Pause - Pause)
    BY <1>1 DEF AgeBounded
  <2>1. PICK i \in DOMAIN Links : Links[i] = l
    BY DEF Link
  <2>2. i <= Done
    BY <1>0, <1>1, Numbers, SMTT(30)
  <2>3. age[l] - rAge <= failureThreshold
    BY <1>1, <2>1, <2>2 DEF SilenceInv, AgeBounded
  <2> QED
    BY <1>0, <1>2, <2>3, Numbers, SMTT(30)
<1>4. PassBounded'
  BY <1>0, <1>1, Numbers DEF PassBounded
<1> QED
  BY <1>3, <1>4

\* The link that is heard of is young; the others are as old as they were.
LEMMA HeartbeatSilence ==
  ASSUME SilenceInv, NEW k \in Link, Heartbeat(k)
  PROVE  PassBounded' /\ AgeBounded'
<1>0. TypeInv
  BY DEF SilenceInv
<1>1. UNCHANGED <<rAge, thread, timer, next>> /\ Done' = Done
  BY DEF Heartbeat, Done
<1>2. CutBefore(Done)' = CutBefore(Done)
  BY <1>1 DEF CutBefore
<1>3. PassBounded'
  BY <1>1, <1>2 DEF PassBounded, SilenceInv
<1>4. ASSUME NEW l \in Link \ suspected'
      PROVE  age'[l] = 0 \/ (l \notin suspected /\ age'[l] = age[l])
  BY <1>0 DEF Heartbeat, TypeInv, TypeOK
<1>5. AgeBounded'
  <2> SUFFICES ASSUME NEW l \in Link \ suspected'
               PROVE  /\ thread = "sleeping" => age'[l] <= failureThreshold + Pass + (Pause - timer)
                      /\ thread # "sleeping" =>
                           /\ age'[l] - rAge <= failureThreshold + Pass + Pause
                           /\ \A i \in DOMAIN Links : i <= Done /\ Links[i] = l
                                => age'[l] - rAge <= failureThreshold
    BY <1>1 DEF AgeBounded
  <2>1. CASE age'[l] = 0
    BY <1>0, <2>1, Numbers, SMTT(30) DEF SilenceInv, PassBounded
  <2>2. CASE l \notin suspected /\ age'[l] = age[l]
    BY <2>2 DEF SilenceInv, AgeBounded
  <2> QED
    BY <1>4, <2>1, <2>2
<1> QED
  BY <1>3, <1>5

LEMMA SecondLess ==
  \A r, s, t \in Nat, u, b \in Int : s <= r + 1 /\ u = t - 1 /\ r + t <= b => s + u <= b
OBVIOUS

\* A second more of a sleep is one less of what is left of it; in a pass it
\* does not change how long before the pass a link was heard of.
LEMMA TickSilence ==
  ASSUME SilenceInv, Tick
  PROVE  PassBounded' /\ AgeBounded'
<1>0. TypeInv
  BY DEF SilenceInv
<1>1. /\ UNCHANGED <<thread, next, suspected>> /\ Done' = Done
      /\ rAge' = Older(rAge) /\ \A l \in Link : age'[l] = Older(age[l])
      /\ thread = "checking" => rAge < Lag
      /\ thread # "checking" => timer > 0 /\ timer' = timer - 1
  BY DEF Tick, Done
<1>2. CutBefore(Done)' = CutBefore(Done)
  BY <1>1 DEF CutBefore
<1>3. Recovery * Cardinality(CutBefore(Done)) \in Nat
  BY <1>0, Numbers, CutBeforeFacts, RecoveryTimes
<1>4. PassBounded'
  <2>1. rAge' <= rAge + 1 /\ rAge' \in Nat
    BY <1>0, <1>1, Numbers DEF Older
  <2>2. CASE thread = "sleeping"
    BY <1>0, <1>1, <2>2, Numbers DEF PassBounded, SilenceInv
  <2>3. CASE thread = "checking"
    BY <1>0, <1>1, <1>2, <1>3, <2>1, <2>3, Numbers, SMTT(30) DEF PassBounded
  <2>4. CASE thread = "recovering"
    <3> DEFINE u == Recovery * Cardinality(CutBefore(Done))
    <3>1. rAge + timer <= Lag + u
      BY <2>4 DEF PassBounded, SilenceInv
    <3>2. PassBounded' <=> rAge' + timer' <= Lag + u
      BY <1>1, <1>2, <2>4 DEF PassBounded
    <3>3. u \in Nat
      BY <1>3
    <3>4. timer \in Nat /\ timer' = timer - 1 /\ rAge \in Nat /\ Lag \in Nat
      BY <1>0, <1>1, <2>4, Numbers
    <3>5. timer' \in Int /\ Lag + u \in Int
      BY <3>3, <3>4
    <3> HIDE DEF u
    <3>6. rAge' + timer' <= Lag + u
      BY <2>1, <3>1, <3>4, <3>5, SecondLess, Zenon
    <3> QED
      BY <3>2, <3>6, Zenon
  <2> QED
    BY <1>0, <2>2, <2>3, <2>4 DEF TypeInv, TypeOK
<1>5. ASSUME NEW l \in Link
      PROVE  /\ age'[l] <= age[l] + 1
             /\ age'[l] - rAge' <= age[l] - rAge \/ age'[l] - rAge' <= 0
  <2>1. age[l] \in 0 .. MaxAge /\ rAge \in 0 .. MaxAge /\ MaxAge \in Nat
    BY <1>0, Numbers
  <2>2. \A a, r \in 0 .. MaxAge :
          /\ Older(a) <= a + 1
          /\ Older(a) - Older(r) <= a - r \/ Older(a) - Older(r) <= 0
    BY <2>1 DEF Older
  <2>3. age'[l] = Older(age[l]) /\ rAge' = Older(rAge)
    BY <1>1
  <2> QED
    BY <2>1, <2>2, <2>3
<1>6. age' \in [Link -> 0 .. MaxAge] /\ rAge' \in 0 .. MaxAge
  BY <1>0, OlderIsAge DEF Tick, TypeInv, TypeOK
<1>7. AgeBounded'
  <2> SUFFICES ASSUME NEW l \in Link \ suspected
               PROVE  /\ thread = "sleeping" => age'[l] <= failureThreshold + Pass + (Pause - timer')
                      /\ thread # "sleeping" =>
                           /\ age'[l] - rAge' <= failureThreshold + Pass + Pause
                           /\ \A i \in DOMAIN Links : i <= Done /\ Links[i] = l
                                => age'[l] - rAge' <= failureThreshold
    BY <1>1 DEF AgeBounded
  <2>1. age'[l] \in Nat /\ rAge' \in Nat /\ age[l] \in Nat /\ rAge \in Nat
    BY <1>0, <1>6, Numbers
  <2>2. /\ failureThreshold \in Nat /\ Pass \in Nat /\ Pause \in Nat /\ timer \in Nat
    BY <1>0, Numbers
  <2>3. CASE thread = "sleeping"
    <3>1. age[l] <= failureThreshold + Pass + (Pause - timer)
      BY <2>3 DEF SilenceInv, AgeBounded
    <3>2. timer' = timer - 1 /\ age'[l] <= age[l] + 1
      BY <1>1, <1>5, <2>3
    <3> QED
      BY <2>1, <2>2, <2>3, <3>1, <3>2
  <2>4. CASE thread # "sleeping"
    <3>1. /\ age[l] - rAge <= failureThreshold + Pass + Pause
          /\ \A i \in DOMAIN Links : i <= Done /\ Links[i] = l => age[l] - rAge <= failureThreshold
      BY <2>4 DEF SilenceInv, AgeBounded
    <3>2. \A b \in Nat : age[l] - rAge <= b => age'[l] - rAge' <= b
      BY <1>5, <2>1
    <3>3. failureThreshold + Pass + Pause \in Nat
      BY <2>2
    <3> QED
      BY <2>2, <2>4, <3>1, <3>2, <3>3
  <2> QED
    BY <2>3, <2>4
<1> QED
  BY <1>4, <1>7

LEMMA StepSilence == ASSUME RoundFitsInDay, SilenceInv, [Next]_vars PROVE SilenceInv'
<1>1. TypeInv'
  BY StepType DEF SilenceInv
<1>2. CASE \/ UNCHANGED vars
           \/ \E l \in Link : Die(l)
  <2>1. UNCHANGED <<age, rAge, thread, timer, next, suspected>>
    BY <1>2 DEF vars, Die
  <2>2. CutBefore(Done)' = CutBefore(Done) /\ Done' = Done
    BY <2>1 DEF CutBefore, Done
  <2> QED
    BY <1>1, <2>1, <2>2 DEF SilenceInv, PassBounded, AgeBounded
<1> QED
  BY <1>1, <1>2, HeartbeatSilence, BeginSilence, CheckSilence, EndRecoverySilence,
     EndPassSilence, TickSilence
  DEF Next, SilenceInv

\* Silence is noticed, for every list of links and every set of cut vertices,
\* if the threshold, a pass and a sleep together take less than a day: beyond,
\* delta.seconds has forgotten a day of the silence.
THEOREM SilenceNoticed == RoundFitsInDay => (Spec => []SilenceIsNoticed)
<1> SUFFICES ASSUME RoundFitsInDay PROVE Spec => []SilenceIsNoticed
  OBVIOUS
<1>1. Init => SilenceInv
  <2> SUFFICES ASSUME Init PROVE SilenceInv
    OBVIOUS
  <2>1. TypeInv
    BY InitType
  <2> QED
    BY <2>1, Numbers DEF Init, SilenceInv, PassBounded, AgeBounded
<1>2. SilenceInv /\ [Next]_vars => SilenceInv'
  BY StepSilence
<1>3. SilenceInv => SilenceIsNoticed
  <2> SUFFICES ASSUME SilenceInv, NEW l \in Link \ suspected
               PROVE  age[l] <= failureThreshold + Pass + Pause + Pass
    BY Numbers, SMTT(30) DEF SilenceIsNoticed, SilenceInv
  <2>1. TypeInv /\ PassBounded
    BY DEF SilenceInv
  <2>2. CASE thread = "sleeping"
    BY <2>1, <2>2, Numbers, SMTT(30) DEF SilenceInv, AgeBounded
  <2>3. CASE thread # "sleeping"
    <3>1. rAge <= Pass
      BY <2>1, <2>3, PassIsLong
    <3> QED
      BY <2>1, <2>3, <3>1, Numbers, SMTT(30) DEF SilenceInv, AgeBounded
  <2> QED
    BY <2>2, <2>3
<1> QED
  BY <1>1, <1>2, <1>3, PTL DEF Spec
=============================================================================
