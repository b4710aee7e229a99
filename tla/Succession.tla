----------------------------- MODULE Succession -----------------------------
(***************************************************************************)
(* What DARA-1C promises of the robots, without tables, messages or waits. *)
(* A robot leaves its own place once, for that of one cut vertex, and      *)
(* turns for nobody.  Until it is disturbed, by a lost message or the      *)
(* suspicion of a node that lives, it goes only to a place whose node is   *)
(* dead, where nobody else stands or is on its way to, and only if it is   *)
(* the best of the living.                                                 *)
(***************************************************************************)
CONSTANTS
  Node,
  Home,   \* the place where each node begins
  Heirs,  \* for each node, those who may go to its place
  Better  \* <<h, m, n>>: m is to go to the place of h rather than n

VARIABLES
  alive,
  position,
  destination,  \* where each node is on its way to, or stays
  disturbed

places == <<alive, position, destination, disturbed>>

\* Everybody is at home.
Begin == alive = Node /\ position = Home /\ destination = Home /\ ~disturbed

\* At home or elsewhere, or on its way.
Die(n) ==
  /\ alive' = alive \ {n}
  /\ UNCHANGED <<position, destination, disturbed>>

\* A message is lost or a living node suspected, by the way; it stays so.
MayDisturb == disturbed => disturbed'

Disturb == disturbed' /\ UNCHANGED <<alive, position, destination>>

\* h is dead, nobody is or goes where it was, and n is the best of the living.
Succeeds(n, h) ==
  /\ h \notin alive
  /\ \A m \in alive : /\ destination[m] # Home[h]
                      /\ m \in Heirs[h] => <<h, m, n>> \notin Better

\* n goes to the place of h.
SetOut(n, h) ==
  /\ n \in Heirs[h]
  /\ position[n] = Home[n] /\ destination[n] = Home[n]
  /\ MayDisturb
  /\ ~disturbed' => Succeeds(n, h)
  /\ destination' = [destination EXCEPT ![n] = Home[h]]
  /\ UNCHANGED <<alive, position>>

GetThere(n) ==
  /\ position[n] # destination[n]
  /\ MayDisturb
  /\ position' = [position EXCEPT ![n] = destination[n]]
  /\ UNCHANGED <<alive, destination>>

\* Only the living move.
Move ==
  \/ Disturb
  \/ \E n \in alive : Die(n) \/ GetThere(n) \/ \E h \in Node : SetOut(n, h)

SuccessionSpec == Begin /\ [][Move]_places
=============================================================================
