-------------------------- MODULE FailureDetector --------------------------
(***************************************************************************)
(* The failure detection of one DARA-1C node (pyDara.py): neighbors send   *)
(* heartbeats, the receive thread stamps them, and the detection thread    *)
(* goes through its links every few seconds and calls dara1C for those     *)
(* whose stamp looks old.  Dara says what dara1C does; here it takes time, *)
(* and leaves the entry it was called for to a replacement.                *)
(*                                                                         *)
(* Clocks are kept as ages, in seconds: age of the last heartbeat of each  *)
(* link (of the start, if there was none), rAge of the time rnow at which  *)
(* the pass through the links began.                                       *)
(***************************************************************************)
EXTENDS Integers, Sequences, FiniteSets

CONSTANTS
  Links,       \* the neighbors, in the order of the table
  CutVertex,   \* those that dara1C replaces
  Interval, failureThreshold, Pause, \* of sending, for suspecting, of checking
  Day,         \* the seconds of a day
  Recovery,    \* how long a replacement takes
  Lag,         \* how long a pass may take besides
  MaxAge,      \* bound: ages are not told apart beyond
  MaxLosses    \* bound: the heartbeats that are lost

Link == {Links[i] : i \in DOMAIN Links}

ASSUME TimesAssumption ==
  /\ {Interval, failureThreshold, Pause, Day, Recovery, Lag, MaxAge, MaxLosses} \subseteq Nat
  /\ failureThreshold < Day
ASSUME LinksAssumption == Links \in Seq(Link)
\* The tables of configs/ list a neighbor once.
ASSUME LinksOnceAssumption ==
  \A i, j \in DOMAIN Links : Links[i] = Links[j] => i = j
ASSUME CutVertexAssumption == IsFiniteSet(CutVertex)

VARIABLES
  up,        \* the links whose node is alive
  toSend,    \* how long until a node sends again
  age, rAge,
  thread,    \* sleeping, checking links, or in dara1C
  timer,     \* until the sleep or the recovery ends
  next,      \* the index of the link to check
  called,    \* the link for which this step calls dara1C
  suspected, \* the links for which it was called since they were heard of
  losses

vars == <<up, toSend, age, rAge, thread, timer, next, called, suspected, losses>>

Init ==
  /\ up = Link
  /\ toSend \in [Link -> 0 .. Interval]
  /\ age = [l \in Link |-> 0]
  /\ rAge = 0
  /\ thread = "sleeping" /\ timer = 0 /\ next = 1
  /\ called = {} /\ suspected = {}
  /\ losses = 0

-----------------------------------------------------------------------------
Die(l) ==
  /\ l \in up
  /\ up' = up \ {l}
  /\ called' = {}
  /\ UNCHANGED <<toSend, age, rAge, thread, timer, next, suspected, losses>>

\* l sends; the receive thread stamps its entry, unless the message is lost.
Heartbeat(l) ==
  /\ l \in up /\ toSend[l] = 0
  /\ toSend' = [toSend EXCEPT ![l] = Interval]
  /\ \/ age' = [age EXCEPT ![l] = 0] /\ suspected' = suspected \ {l} /\ UNCHANGED losses
     \/ losses < MaxLosses /\ losses' = losses + 1 /\ UNCHANGED <<age, suspected>>
  /\ called' = {}
  /\ UNCHANGED <<up, rAge, thread, timer, next>>

BeginPass ==
  /\ thread = "sleeping" /\ timer = 0
  /\ rAge' = 0 /\ next' = 1 /\ thread' = "checking"
  /\ called' = {}
  /\ UNCHANGED <<up, toSend, age, timer, suspected, losses>>

\* The field seconds of a timedelta, which is never negative.
Seconds(delta) == delta % Day

\* Mutant: suspects at the threshold already.
LooksFailed_AtThreshold(l) == Seconds(age[l] - rAge) >= failureThreshold

\* rnow minus lastHB is longer than the threshold.
LooksFailed(l) == Seconds(age[l] - rAge) > failureThreshold

\* The next link is looked at.
Check ==
  /\ thread = "checking" /\ next <= Len(Links)
  /\ LET l == Links[next] IN
     IF LooksFailed(l)
     THEN /\ called' = {l} /\ suspected' = suspected \cup {l}
          /\ thread' = IF l \in CutVertex THEN "recovering" ELSE "checking"
          /\ timer' = IF l \in CutVertex THEN Recovery ELSE timer
          /\ next' = IF l \in CutVertex THEN next ELSE next + 1
     ELSE called' = {} /\ next' = next + 1 /\ UNCHANGED <<suspected, thread, timer>>
  /\ UNCHANGED <<up, toSend, age, rAge, losses>>

\* Mutant: leaves the loop over the links after a recovery.
EndRecovery_EndsPass ==
  /\ thread = "recovering" /\ timer = 0
  /\ thread' = "checking" /\ next' = Len(Links) + 1
  /\ up' \in {up \cup {Links[next]}, up \ {Links[next]}}
  /\ \E t \in 0 .. Interval : toSend' = [toSend EXCEPT ![Links[next]] = t]
  /\ called' = {}
  /\ UNCHANGED <<age, rAge, timer, suspected, losses>>

\* dara1C returns.  The entry belongs to a replacement, alive or not, which
\* sends heartbeats of its own; the stamp is still the dead node's.
EndRecovery ==
  /\ thread = "recovering" /\ timer = 0
  /\ thread' = "checking" /\ next' = next + 1
  /\ up' \in {up \cup {Links[next]}, up \ {Links[next]}}
  /\ \E t \in 0 .. Interval : toSend' = [toSend EXCEPT ![Links[next]] = t]
  /\ called' = {}
  /\ UNCHANGED <<age, rAge, timer, suspected, losses>>

EndPass ==
  /\ thread = "checking" /\ next > Len(Links)
  /\ thread' = "sleeping" /\ timer' = Pause
  /\ called' = {}
  /\ UNCHANGED <<up, toSend, age, rAge, next, suspected, losses>>

Older(a) == IF a < MaxAge THEN a + 1 ELSE a

\* Mutant: sleeps on when it should wake.
Tick_Oversleeps ==
  /\ \A l \in up : toSend[l] > 0
  /\ IF thread = "checking" THEN rAge < Lag /\ UNCHANGED timer ELSE timer' = timer - 1
  /\ toSend' = [l \in Link |-> IF l \in up THEN toSend[l] - 1 ELSE toSend[l]]
  /\ age' = [l \in Link |-> Older(age[l])]
  /\ rAge' = Older(rAge)
  /\ called' = {}
  /\ UNCHANGED <<up, thread, next, suspected, losses>>

\* A second passes, unless something is due.
Tick ==
  /\ \A l \in up : toSend[l] > 0
  /\ IF thread = "checking" THEN rAge < Lag /\ UNCHANGED timer
     ELSE timer > 0 /\ timer' = timer - 1
  /\ toSend' = [l \in Link |-> IF l \in up THEN toSend[l] - 1 ELSE toSend[l]]
  /\ age' = [l \in Link |-> Older(age[l])]
  /\ rAge' = Older(rAge)
  /\ called' = {}
  /\ UNCHANGED <<up, thread, next, suspected, losses>>

Next ==
  \/ \E l \in Link : Die(l) \/ Heartbeat(l)
  \/ BeginPass \/ Check \/ EndRecovery \/ EndPass
  \/ Tick

Spec == Init /\ [][Next]_vars

-----------------------------------------------------------------------------
TypeOK ==
  /\ up \subseteq Link
  /\ toSend \in [Link -> 0 .. Interval]
  /\ age \in [Link -> 0 .. MaxAge] /\ rAge \in 0 .. MaxAge
  /\ thread \in {"sleeping", "checking", "recovering"}
  /\ timer \in Nat
  /\ next \in 1 .. Len(Links) + 1
  /\ called \subseteq Link
  /\ suspected \subseteq Link
  /\ losses \in 0 .. MaxLosses

\* "If delta is more than 2 * HB_interval ... maybe it is failed" (pyDara.py,
\* lines 102-104): dara1C is called for nodes that have died and no others,
\* even if one heartbeat is lost.  It takes passes that take no time.
SuspectsOnlyTheDead == called \cap up = {}

\* What is true of passes that take time: whoever dara1C is called for has
\* been silent too long, or has been heard of since the pass began.
SuspicionIsExplained ==
  \A l \in called : age[l] > failureThreshold \/ age[l] < rAge

\* How long a pass through the links may take.
Pass == Lag + Recovery * Cardinality(CutVertex)

\* A pass that has just missed a silent link, a sleep and another pass: no
\* link stays silent for longer without a call of dara1C, whatever becomes
\* of the other links.
SilenceIsNoticed ==
  \A l \in Link :
    age[l] > failureThreshold + Pass + Pause + Pass => l \in suspected
=============================================================================
