------------------------------- MODULE MCDara -------------------------------
(* Instances of Dara for TLC.  AgreeingConfigs are pyDARA/configs/*.json,   *)
(* in half tiles, with e2 and s2 in e4.json given the degrees that all      *)
(* other files give them.  HubLast puts a hub h among neighbors on one      *)
(* line; d, which has a neighbor f beside the hub and so lists the hub      *)
(* last, is the nearest and the last to be chosen.  The others drive for 2, *)
(* 3 and 4 ticks: a tick stands for the five seconds between two polls.     *)
EXTENDS Dara

At(n) == CASE n = "e1" -> <<5, 5>> [] n = "e2" -> <<4, 2>> [] n = "e3" -> <<8, 0>>
           [] n = "e4" -> <<3, 10>> [] n = "e5" -> <<8, 8>>
           [] n = "s1" -> <<12, 6>> [] n = "s2" -> <<0, 6>>

C(n, d) == [name |-> n, coords |-> At(n), numLinks |-> d]
L(n, d, links) == [name |-> n, coords |-> At(n), numLinks |-> d, links |-> links]

E1(links) == <<L("e1", 5, links)>>
AgreeingConfigs ==
  [n \in {"e1", "e2", "e3", "e4", "e5", "s1", "s2"} |->
    CASE n = "e1" -> L(n, 5, <<L("e2", 2, <<C("e3", 1)>>), L("s1", 1, <<>>),
                               L("e5", 1, <<>>), L("e4", 1, <<>>), L("s2", 1, <<>>)>>)
      [] n = "e2" -> L(n, 2, <<L("e3", 1, <<>>)>> \o
                             E1(<<C("s1", 1), C("e5", 1), C("e4", 1), C("s2", 1)>>))
      [] n = "e3" -> L(n, 1, <<L("e2", 2, <<C("e1", 5)>>)>>)
      [] n = "e4" -> L(n, 1, E1(<<C("s1", 1), C("e5", 1), C("e2", 2), C("s2", 1)>>))
      [] n = "e5" -> L(n, 1, E1(<<C("s1", 1), C("e4", 1), C("e2", 2), C("s2", 1)>>))
      [] n = "s1" -> L(n, 1, E1(<<C("e5", 1), C("e4", 1), C("e2", 2), C("s2", 1)>>))
      [] n = "s2" -> L(n, 1, E1(<<C("e5", 1), C("e4", 1), C("e2", 2), C("s1", 1)>>))]

StarAt(n) == CASE n = "h" -> <<0, 0>> [] n = "a" -> <<-2, 0>> [] n = "b" -> <<-3, 0>>
               [] n = "c" -> <<-4, 0>> [] n = "d" -> <<-1, 0>> [] n = "f" -> <<1, 0>>
StarDegree(n) == CASE n = "h" -> 4 [] n = "d" -> 2 [] OTHER -> 1
S(n) == [name |-> n, coords |-> StarAt(n), numLinks |-> StarDegree(n)]
T(n, links) ==
  [name |-> n, coords |-> StarAt(n), numLinks |-> StarDegree(n), links |-> links]

\* The neighbors of the hub but one.
Others(n) == SelectSeq(<<S("d"), S("b"), S("a"), S("c")>>, LAMBDA c : c.name # n)
HubLast ==
  [n \in {"h", "a", "b", "c", "d", "f"} |->
    CASE n = "h" -> T(n, <<T("a", <<>>), T("b", <<>>), T("c", <<>>), T("d", <<S("f")>>)>>)
      [] n = "d" -> T(n, <<T("f", <<>>), T("h", Others("d"))>>)
      [] n = "f" -> T(n, <<T("d", <<S("h")>>)>>)
      [] OTHER -> T(n, <<T("h", Others(n))>>)]

\* What the theorems of Dara_proofs ask of the files; the files' agreement and
\* the drives matter to what they say of undisturbed nodes.
ASSUME FilesAgree ==
  \E h \in Node : \E o \in SetToSeqs(Names(Configs[h].links)) :
    /\ OneCutVertex(h) /\ ListedLast(h) /\ Agreement(h, o)
    /\ LongDrives(h, o)
=============================================================================
