----------------------------- MODULE DaraTable -----------------------------
(***************************************************************************)
(* The two-hop table of a DARA-1C node and what pyDara.py computes from    *)
(* it: who is a cut vertex, who replaces it, how long that takes and what  *)
(* the table becomes.                                                      *)
(*                                                                         *)
(* A table is [name, coords, numLinks, links].  Its links are entries of   *)
(* the same four fields, whose own links have no links: NoLinks stands for *)
(* the missing key.  Places are counted in half tiles.  A name determines  *)
(* its ip, so only names are kept.                                         *)
(***************************************************************************)
EXTENDS Integers, SequencesExt

CONSTANT NoLinks

Gap(a, b) == IF a < b THEN b - a ELSE a - b

\* The square of the distance: distances are only compared.
Dist(c1, c2) == Gap(c1[1], c2[1]) * Gap(c1[1], c2[1]) + Gap(c1[2], c2[2]) * Gap(c1[2], c2[2])

\* Mutant: forgets the turns back to the east.
Turns_OneWay(f, b) ==
  CASE f[1] < b[1] /\ f[2] < b[2] -> 2 + 3
    [] f[1] < b[1] /\ f[2] = b[2] -> 2
    [] f[1] < b[1] /\ f[2] > b[2] -> 2 + 1
    [] f[1] >= b[1] /\ f[2] > b[2] -> 3
    [] f[1] >= b[1] /\ f[2] < b[2] -> 1
    [] OTHER -> 0

\* The turns that a drive from b to f is thought to take, in quarters.
Turns(f, b) ==
  CASE f[1] < b[1] /\ f[2] < b[2] -> 2 + 3 + 3
    [] f[1] < b[1] /\ f[2] = b[2] -> 2 + 2
    [] f[1] < b[1] /\ f[2] > b[2] -> 2 + 1 + 1
    [] f[1] >= b[1] /\ f[2] # b[2] -> 1 + 3
    [] OTHER -> 0

\* One second per turn, two per tile.
CalcTimeToWaitForReplacement(f, b) == Turns(f, b) + Gap(f[1], b[1]) + Gap(f[2], b[2])

Names(links) == {links[i].name : i \in DOMAIN links}

\* The last entry of that name: the loops over links do not stop at a match.
EntryOf(links, name) == links[SelectLastInSeq(links, LAMBDA l : l.name = name)]

\* Mutant: counts the links of the node itself.
IsCutVertex_OwnLinks(table, name) == name \in Names(table.links) /\ table.numLinks > 2

\* The entry of a cut vertex has many links: the first entry of that name, here.
IsCutVertex(table, name) ==
  /\ name \in Names(table.links)
  /\ table.links[SelectInSeq(table.links, LAMBDA l : l.name = name)].numLinks > 2

\* Every link of the node has links to look at.
Knows(table) == \A i \in DOMAIN table.links : table.links[i].links # NoLinks

-----------------------------------------------------------------------------
\* The candidates to replace a neighbor: its links and this node.
Candidates(table, failed) ==
  Append(EntryOf(table.links, failed).links,
         [name |-> table.name, coords |-> table.coords, numLinks |-> table.numLinks])

\* The least degree, then the shortest way.  The code sorts degrees as strings:
\* they are numbers here, which is the same while they have one digit.
Before(goal, c, d) ==
  \/ c.numLinks < d.numLinks
  \/ c.numLinks = d.numLinks /\ Dist(goal, c.coords) < Dist(goal, d.coords)

\* Both sorts are stable: of equal candidates the first is taken.
FindBestCandidate(table, failed) ==
  LET goal == EntryOf(table.links, failed).coords
      lst_candidates == Candidates(table, failed)
      i == CHOOSE i \in DOMAIN lst_candidates :
             /\ \A j \in DOMAIN lst_candidates : ~Before(goal, lst_candidates[j], lst_candidates[i])
             /\ \A j \in 1 .. i - 1 : Before(goal, lst_candidates[i], lst_candidates[j])
  IN lst_candidates[i].name

\* A neighbor is found before the neighbors of the neighbors after it.
GetCoords(table, name) ==
  LET near == SelectInSeq(table.links,
                LAMBDA l : l.name = name \/ name \in Names(l.links))
      l == table.links[near]
  IN CASE name = table.name -> table.coords
       [] OTHER -> IF l.name = name THEN l.coords
                   ELSE l.links[SelectInSeq(l.links, LAMBDA ll : ll.name = name)].coords

-----------------------------------------------------------------------------
\* Mutant: counts on past the replacement.
IndexReplacement_PastIt(table, replacement) ==
  1 + SelectLastInSeq(Last(table.links).links, LAMBDA ll : ll.name = replacement)

\* The index at which updateTwoHopTable removes the replacement: where it is
\* in the links of the last neighbor, the first index if it is not there.
IndexReplacement(table, replacement) ==
  LET i == SelectLastInSeq(Last(table.links).links, LAMBDA ll : ll.name = replacement)
  IN IF i = 0 THEN 1 ELSE i

\* The update raises no exception.
CanUpdate(table, dead, replacement) ==
  /\ Knows(table)
  /\ dead \in Names(table.links)
  /\ \/ replacement = table.name
     \/ /\ \E i \in DOMAIN table.links : replacement \in Names(table.links[i].links)
        /\ IndexReplacement(table, replacement) <= Len(EntryOf(table.links, dead).links)

\* What is left when the update raises: if the index is the reason, the entry
\* of the dead node has been given the new name and degree.
LeftByError(table, dead, replacement) ==
  LET i == SelectLastInSeq(table.links, LAMBDA l : l.name = dead)
      entry == table.links[i]
  IN IF /\ Knows(table) /\ dead \in Names(table.links) /\ replacement # table.name
        /\ \E j \in DOMAIN table.links : replacement \in Names(table.links[j].links)
     THEN [table EXCEPT !.links[i] =
             [entry EXCEPT !.name = replacement, !.numLinks = @ - 1]]
     ELSE table

WithoutLinks(l) ==
  [name |-> l.name, coords |-> l.coords, numLinks |-> l.numLinks, links |-> NoLinks]

\* Mutant: the replacement takes over the whole entry of the dead node.
UpdateTwoHopTable_TakesTheName(table, dead, replacement) ==
  LET i == SelectLastInSeq(table.links, LAMBDA l : l.name = dead)
      entry == table.links[i]
  IN IF replacement = table.name
     THEN [entry EXCEPT !.links = [j \in DOMAIN entry.links |-> WithoutLinks(entry.links[j])]]
     ELSE [table EXCEPT !.links[i] =
             [entry EXCEPT !.name = replacement,
                           !.numLinks = @ - 1,
                           !.links = RemoveAt(@, IndexReplacement(table, replacement))]]

\* Mutant: leaves the replacement among the links of the entry it is given.
UpdateTwoHopTable_RenamesOnly(table, dead, replacement) ==
  LET i == SelectLastInSeq(table.links, LAMBDA l : l.name = dead)
      entry == table.links[i]
  IN IF replacement = table.name
     THEN [table EXCEPT !.links = [j \in DOMAIN entry.links |-> WithoutLinks(entry.links[j])]]
     ELSE [table EXCEPT !.links[i] = [entry EXCEPT !.name = replacement]]

\* The replacement takes over the links of the dead node; for the others
\* the entry of the dead node, at its place, gets the replacement's name.
UpdateTwoHopTable(table, dead, replacement) ==
  LET i == SelectLastInSeq(table.links, LAMBDA l : l.name = dead)
      entry == table.links[i]
  IN IF replacement = table.name
     THEN [table EXCEPT !.links = [j \in DOMAIN entry.links |-> WithoutLinks(entry.links[j])]]
     ELSE [table EXCEPT !.links[i] =
             [entry EXCEPT !.name = replacement,
                           !.numLinks = @ - 1,
                           !.links = RemoveAt(@, IndexReplacement(table, replacement))]]
=============================================================================
