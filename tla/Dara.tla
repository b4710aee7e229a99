-------------------------------- MODULE Dara --------------------------------
(***************************************************************************)
(* Recovery from the death of a cut vertex by DARA-1C, as pyDara.py runs   *)
(* it on every node: the node that its table names best drives to the      *)
(* place of the dead one and says so to its new neighbors; the others wait *)
(* twice the time of the drive, and go on to the next candidate if they    *)
(* heard nothing.                                                          *)
(*                                                                         *)
(* Time passes in seconds.  Heartbeats and the failure detection thread    *)
(* (see FailureDetector) are kept to what they tell this one: within Skew  *)
(* seconds of each other the neighbors of a dead node notice; and a node   *)
(* may take any neighbor that lives for dead, at any time.  A message      *)
(* arrives at once or is lost.                                             *)
(***************************************************************************)
EXTENDS DaraTable, FiniteSets

CONSTANTS
  Node,
  Configs,     \* the table that each node loads
  Skew,        \* how much later than others a node may notice a death
  MaxCrashes,  \* bound: the nodes that die
  MaxLosses,   \* bound: the messages that are lost
  MaxMistakes  \* bound: how often a node is taken for dead that is not

Candidate == [name : Node, coords : Int \X Int, numLinks : Int]

\* A neighbor and its neighbors, and what a file, or later a node, holds.
Entry ==
  [name : Node, coords : Int \X Int, numLinks : Int, links : Seq(Candidate) \cup {NoLinks}]
Table == [name : Node, coords : Int \X Int, numLinks : Int, links : Seq(Entry)]

ASSUME NoLinksAssumption == NoLinks \notin Seq(Candidate)
\* The files say of every neighbor who its neighbors are.
ASSUME ConfigAssumption ==
  /\ Configs \in [Node -> Table]
  /\ \A n \in Node : Configs[n].name = n /\ Knows(Configs[n])
ASSUME BoundsAssumption == {Skew, MaxCrashes, MaxLosses, MaxMistakes} \subseteq Nat

VARIABLES
  alive,
  position,      \* where the nodes are
  twoHopTable,
  status,        \* what dara1C is doing: idle, moving, waiting, or it raised
  failed,        \* failedNodeName
  coordsFailing, \* coordsFailingNode
  best,          \* bestNodeName
  timer,         \* until it arrives or has waited
  lst_recovery,  \* the messages since the wait began
  late,          \* for how long a dead cut vertex has gone unnoticed
  losses,
  mistakes

locals == <<failed, coordsFailing, best>>
errors == <<losses, mistakes>>
vars == <<alive, position, twoHopTable, status, locals, timer, lst_recovery, late, errors>>

Coords(n) == Configs[n].coords

Init ==
  /\ alive = Node
  /\ position = [n \in Node |-> Coords(n)]
  /\ twoHopTable = Configs
  /\ status = [n \in Node |-> "idle"]
  /\ failed = [n \in Node |-> n]
  /\ best = [n \in Node |-> n]
  /\ coordsFailing = [n \in Node |-> Coords(n)]
  /\ timer = [n \in Node |-> 0]
  /\ lst_recovery = [n \in Node |-> {}]
  /\ late = [n \in Node |-> 0]
  /\ losses = 0
  /\ mistakes = 0

-----------------------------------------------------------------------------
\* The neighbors of n that n would replace.
CutVerticesOf(n) == {l \in Names(twoHopTable[n].links) : IsCutVertex(twoHopTable[n], l)}

\* l sends n no heartbeats: it is dead, or has left for other neighbors.
Silent(n, l) == l \notin alive \/ n \notin Names(twoHopTable[l].links)

DeadCutVertices(n) == {l \in CutVerticesOf(n) : Silent(n, l)}

Crash(n) ==
  /\ n \in alive
  /\ Cardinality(Node \ alive) < MaxCrashes
  /\ alive' = alive \ {n}
  /\ UNCHANGED <<position, twoHopTable, status, locals, timer, lst_recovery, late, errors>>

\* Mutant: waits only as long as the drive takes.
TryToReplace_WaitsOnce(n, table, dead, goal) ==
  \E b \in Node :
    /\ EntryOf(table.links, dead).links # NoLinks
    /\ b = FindBestCandidate(table, dead)
    /\ failed' = [failed EXCEPT ![n] = dead]
    /\ coordsFailing' = [coordsFailing EXCEPT ![n] = goal]
    /\ best' = [best EXCEPT ![n] = b]
    /\ status' = [status EXCEPT ![n] = IF b = n THEN "moving" ELSE "waiting"]
    /\ timer' = [timer EXCEPT ![n] = CalcTimeToWaitForReplacement(goal, GetCoords(table, b))]
    /\ lst_recovery' = [lst_recovery EXCEPT ![n] = {}]

\* One round of the loop of dara1C: n moves if it is the best candidate and
\* waits for the best candidate otherwise.  It looks at no earlier message.
TryToReplace(n, table, dead, goal) ==
  \/ /\ EntryOf(table.links, dead).links = NoLinks
     /\ status' = [status EXCEPT ![n] = "raised"]
     /\ UNCHANGED <<locals, timer, lst_recovery>>
  \/ /\ EntryOf(table.links, dead).links # NoLinks
     /\ \E b \in {FindBestCandidate(table, dead)} :
       /\ failed' = [failed EXCEPT ![n] = dead]
       /\ coordsFailing' = [coordsFailing EXCEPT ![n] = goal]
       /\ best' = [best EXCEPT ![n] = b]
       /\ status' = [status EXCEPT ![n] = IF b = n THEN "moving" ELSE "waiting"]
       /\ LET t == CalcTimeToWaitForReplacement(goal, GetCoords(table, b)) IN
          timer' = [timer EXCEPT ![n] = IF b = n THEN t ELSE 2 * t]
       /\ lst_recovery' = [lst_recovery EXCEPT ![n] = {}]

\* The failure detection thread of n is not in dara1C.
Idle(n) == n \in alive /\ status[n] = "idle"

\* It calls dara1C for l, which returns at once unless l is a cut vertex.
Dara1C(n, l) ==
  /\ IsCutVertex(twoHopTable[n], l)
  /\ TryToReplace(n, twoHopTable[n], l, EntryOf(twoHopTable[n].links, l).coords)
  /\ late' = [late EXCEPT ![n] = 0]
  /\ UNCHANGED <<alive, position, twoHopTable, losses>>

\* The thread has not heard l for longer than the threshold, and rightly so.
Detect(n, l) == Idle(n) /\ l \in DeadCutVertices(n) /\ Dara1C(n, l) /\ UNCHANGED mistakes

\* The thread takes l for dead, which sends heartbeats to n: one of them was
\* stamped after the thread had looked at the clock, several were lost, or the
\* entry of l still has the stamps of a dead node whose place l has taken.
Suspect(n, l) ==
  /\ mistakes < MaxMistakes
  /\ Idle(n) /\ ~Silent(n, l) /\ Dara1C(n, l)
  /\ mistakes' = mistakes + 1

\* Mutant: the links of the dead node are not told.
Arrive_TellsNobody(n) ==
  /\ n \in alive /\ status[n] = "moving" /\ timer[n] = 0
  /\ position' = [position EXCEPT ![n] = coordsFailing[n]]
  /\ CanUpdate(twoHopTable[n], failed[n], n)
  /\ twoHopTable' = [twoHopTable EXCEPT ![n] = UpdateTwoHopTable(@, failed[n], n)]
  /\ status' = [status EXCEPT ![n] = "idle"]
  /\ UNCHANGED <<alive, locals, timer, lst_recovery, late, errors>>

\* Mutant: drives to where the dead node lived, not to where it died.
Arrive_WhereItLived(n) ==
  /\ n \in alive /\ status[n] = "moving" /\ timer[n] = 0
  /\ position' = [position EXCEPT ![n] = Coords(failed[n])]
  /\ IF CanUpdate(twoHopTable[n], failed[n], n)
     THEN /\ twoHopTable' = [twoHopTable EXCEPT ![n] = UpdateTwoHopTable(@, failed[n], n)]
          /\ status' = [status EXCEPT ![n] = "idle"]
          /\ \E lost \in SUBSET (Names(twoHopTable'[n].links) \cap alive) :
               LET told == (Names(twoHopTable'[n].links) \cap alive) \ lost IN
               /\ losses' = losses + Cardinality(lost)
               /\ losses' <= MaxLosses
               /\ lst_recovery' =
                    [m \in Node |-> lst_recovery[m] \cup
                       {msg \in {[fn |-> failed[n], bc |-> n]} : m \in told}]
     ELSE /\ status' = [status EXCEPT ![n] = "raised"]
          /\ UNCHANGED <<twoHopTable, lst_recovery, losses>>
  /\ UNCHANGED <<alive, locals, timer, late, mistakes>>

\* n has arrived.  It takes over the links of the dead node and tells them.
Arrive(n) ==
  /\ n \in alive /\ status[n] = "moving" /\ timer[n] = 0
  /\ position' = [position EXCEPT ![n] = coordsFailing[n]]
  /\ IF CanUpdate(twoHopTable[n], failed[n], n)
     THEN /\ twoHopTable' = [twoHopTable EXCEPT ![n] = UpdateTwoHopTable(@, failed[n], n)]
          /\ status' = [status EXCEPT ![n] = "idle"]
          /\ \E lost \in SUBSET (Names(twoHopTable'[n].links) \cap alive) :
               LET told == (Names(twoHopTable'[n].links) \cap alive) \ lost IN
               /\ losses' = losses + Cardinality(lost)
               /\ losses' <= MaxLosses
               /\ lst_recovery' =
                    [m \in Node |-> lst_recovery[m] \cup
                       {msg \in {[fn |-> failed[n], bc |-> n]} : m \in told}]
     ELSE /\ status' = [status EXCEPT ![n] = "raised"]
          /\ UNCHANGED <<twoHopTable, lst_recovery, losses>>
  /\ UNCHANGED <<alive, locals, timer, late, mistakes>>

\* Mutant: any message will do.
IsRecoveredMSGReceived_AnyOne(n) == lst_recovery[n] # {}

IsRecoveredMSGReceived(n) == [fn |-> failed[n], bc |-> best[n]] \in lst_recovery[n]

\* n has waited.  It gives the entry of the dead node to the best candidate,
\* heard of or not; if not, the best candidate is the next dead node.
EndWait(n) ==
  /\ n \in alive /\ status[n] = "waiting" /\ timer[n] = 0
  /\ IF CanUpdate(twoHopTable[n], failed[n], best[n])
     THEN /\ twoHopTable' = [twoHopTable EXCEPT
                               ![n] = UpdateTwoHopTable(@, failed[n], best[n])]
          /\ IF IsRecoveredMSGReceived(n)
             THEN /\ status' = [status EXCEPT ![n] = "idle"]
                  /\ UNCHANGED <<locals, timer, lst_recovery>>
             ELSE TryToReplace(n, twoHopTable'[n], best[n], coordsFailing[n])
     ELSE /\ twoHopTable' = [twoHopTable EXCEPT
                               ![n] = LeftByError(@, failed[n], best[n])]
          /\ status' = [status EXCEPT ![n] = "raised"]
          /\ UNCHANGED <<locals, timer, lst_recovery>>
  /\ UNCHANGED <<alive, position, late, errors>>

Busy(n) == n \in alive /\ status[n] \in {"moving", "waiting"}

Overdue(n) == n \in alive /\ status[n] = "idle" /\ DeadCutVertices(n) # {}

\* A second passes, unless somebody is due.
Tick ==
  /\ \E n \in Node : Busy(n) \/ Overdue(n)
  /\ \A n \in Node : /\ Busy(n) => timer[n] > 0
                     /\ Overdue(n) => late[n] < Skew
  /\ timer' = [n \in Node |-> IF Busy(n) THEN timer[n] - 1 ELSE timer[n]]
  /\ late' = [n \in Node |-> IF Overdue(n) THEN late[n] + 1 ELSE late[n]]
  /\ UNCHANGED <<alive, position, twoHopTable, status, locals, lst_recovery, errors>>

Progress ==
  \/ Tick
  \/ \E n \in Node : Arrive(n) \/ EndWait(n)
  \/ \E n, l \in Node : Detect(n, l)

Next ==
  \/ Progress
  \/ \E n \in Node : Crash(n)
  \/ \E n, l \in Node : Suspect(n, l)

\* Time goes on, and what is due is done before it does.
Fairness == WF_vars(Progress)

Spec == Init /\ [][Next]_vars /\ Fairness

-----------------------------------------------------------------------------
TypeOK ==
  /\ alive \subseteq Node
  /\ twoHopTable \in [Node -> Table] /\ \A n \in Node : twoHopTable[n].name = n
  /\ position \in [Node -> Int \X Int]
  /\ status \in [Node -> {"idle", "moving", "waiting", "raised"}]
  /\ failed \in [Node -> Node] /\ best \in [Node -> Node]
  /\ coordsFailing \in [Node -> Int \X Int]
  /\ timer \in [Node -> Nat]
  /\ late \in [Node -> 0 .. Skew]
  /\ losses \in 0 .. MaxLosses /\ mistakes \in 0 .. MaxMistakes
  /\ lst_recovery \in [Node -> SUBSET [fn : Node, bc : Node]]

Destination(n) == IF status[n] = "moving" THEN coordsFailing[n] ELSE position[n]

\* No message has been lost yet, and nobody taken for dead who lives.
Undisturbed == losses = 0 /\ mistakes = 0

\* Undisturbed nodes that agree on the degrees send one node, never two, to the
\* place of a dead one, whoever dies on the way (dara1C).
NoTwoAtOnePlace ==
  Undisturbed => \A n, m \in alive : n # m => Destination(n) # Destination(m)

\* Every lost message, and every suspicion of somebody who lives, brings at most
\* one node too many to a place: a node that is misled goes itself in the end,
\* and sends no other.
FewAtOnePlace ==
  \A n \in alive :
    Cardinality({m \in alive : Destination(m) = Destination(n)}) <= 1 + losses + mistakes

\* While nodes are undisturbed the one under way is the best of the living
\* neighbors of the dead node, by the degrees and places they really have
\* (findBestCandidate).
MoverIsBestLiving ==
  Undisturbed =>
    \A n \in alive : status[n] = "moving" =>
      \A m \in alive : \A h \in Names(Configs[m].links) :
        Coords(h) = coordsFailing[n] => ~Before(Coords(h), Configs[m], Configs[n])

\* A node that has ended a recovery lists at the place of the dead node
\* somebody who did get there, messages lost or not (updateTwoHopTable).
ListedWhereTheyStand ==
  \A n \in alive : status[n] = "idle" =>
    \A i \in DOMAIN twoHopTable[n].links :
      LET l == twoHopTable[n].links[i] IN
      l.coords # Coords(l.name) => position[l.name] = l.coords

\* No node's failure detection thread ends in an exception.
NobodyRaises == \A n \in Node : status[n] # "raised"

\* Candidates run out: again and again every node is out of the loop of
\* dara1C with no dead cut vertex left to replace.
RecoveriesEnd == []<>(\A n \in Node : ~Busy(n) /\ ~Overdue(n))

CutVertices == {h \in Node : Configs[h].numLinks > 2}

\* After the death of a cut vertex somebody comes to live at its place, or
\* nobody alive lists a cut vertex there: its neighbors or its replacements
\* have died, and each death has taken a link from the entry.
CutVerticesAreReplaced ==
  \A h \in CutVertices :
    h \notin alive ~> \/ \E n \in alive : position[n] = Coords(h)
                     \/ \A n \in alive : \A i \in DOMAIN twoHopTable[n].links :
                          LET l == twoHopTable[n].links[i] IN
                          ~(l.coords = Coords(h) /\ l.numLinks > 2)

-----------------------------------------------------------------------------
\* Who may go to whose place, and who rather than who, by the files.
Homes == [n \in Node |-> Coords(n)]
Heirs ==
  [h \in Node |-> {n \in Node : h \in CutVertices /\ h \in Names(Configs[n].links)}]
Better == {t \in Node \X Node \X Node : Before(Coords(t[1]), Configs[t[2]], Configs[t[3]])}

Abstract == INSTANCE Succession WITH
  Home <- Homes, destination <- [n \in Node |-> Destination(n)], disturbed <- ~Undisturbed

\* However tables, waits and messages work, what is seen of the robots is a
\* succession: a node leaves its place once, for that of a cut vertex it was a
\* neighbor of, and gets there; and as long as no message was lost and nobody
\* suspected who lives, the cut vertex is dead, nobody who lives is going to its
\* place and nobody who lives is better (dara1C).
ImplementsSuccession == Abstract!SuccessionSpec

-----------------------------------------------------------------------------
\* Only h has more than two neighbors, and no two of them are neighbors of each
\* other; the files agree on where the nodes are and list nobody twice.  So it
\* is in pyDARA/configs, whatever the degrees of e2 and s2 in e4.json.
OneCutVertex(h) ==
  /\ \A n, m \in Node : Coords(n) = Coords(m) => n = m
  /\ \A n \in Node :
       LET links == Configs[n].links IN
       /\ \A i, j \in DOMAIN links : links[i].name = links[j].name => i = j
       /\ \A i \in DOMAIN links :
            /\ links[i].coords = Coords(links[i].name)
            /\ links[i].numLinks > 2 => links[i].name = h
            /\ links[i].name = h =>
                 \A j \in DOMAIN links[i].links :
                   LET c == links[i].links[j] IN
                   c.coords = Coords(c.name) /\ c.numLinks <= 2 /\ c.name \notin Names(links)

\* A neighbor of h lists it last, as e2.json does.  The update takes an index
\* in the links of the last neighbor for one in the links of the dead one.
ListedLast(h) ==
  \A n \in Node : \A i \in DOMAIN Configs[n].links :
    Configs[n].links[i].coords = Coords(h) => i = Len(Configs[n].links)

\* The files agree on h and its neighbors o, which come in the order in which
\* they would replace it, no two of them equal: who they are, how many neighbors
\* each has and where they live, in all two-hop tables.  So do pyDARA/configs,
\* but for the degrees of e2 and s2 in e4.json.
Agreement(h, o) ==
  /\ o \in Seq(Node \ {h})
  /\ \A i, j \in DOMAIN o : i < j => Before(Coords(h), Configs[o[i]], Configs[o[j]])
  /\ Range(o) \subseteq Names(Configs[h].links)
  /\ \A n \in Node :
       LET links == Configs[n].links IN
       /\ h \in Names(links) <=> n \in Range(o)
       /\ \A i \in DOMAIN links : \A j \in DOMAIN links[i].links :
            links[i].links[j].coords = Coords(links[i].links[j].name)
       /\ \A i \in DOMAIN links : links[i].name = h =>
            LET l == links[i] IN
            /\ l.numLinks = Configs[h].numLinks
            /\ Names(l.links) = Range(o) \ {n}
            /\ \A a, b \in DOMAIN l.links : l.links[a].name = l.links[b].name => a = b
            /\ \A a \in DOMAIN l.links : l.links[a].numLinks = Configs[l.links[a].name].numLinks

Drive(h, n) == CalcTimeToWaitForReplacement(Coords(h), Coords(n))

\* The i-th drive takes longer than i deaths, each noticed within Skew seconds
\* of the others, can set the waits of the neighbors apart.
LongDrives(h, o) == \A i \in DOMAIN o : i <= MaxCrashes => Drive(h, o[i]) > i * Skew
=============================================================================
