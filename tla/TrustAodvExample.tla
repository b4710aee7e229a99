-------------------------- MODULE TrustAodvExample --------------------------
(***************************************************************************)
(* The script of trust-aodv-example.cc: seven nodes, six with the trust    *)
(* helper and a malicious one, that all ping each other for 50 s, and then *)
(* one ping whose route is looked at in the tables of 55 s and 75 s.  Times *)
(* are in milliseconds.  Places, radio, addresses and traces are left out. *)
(***************************************************************************)
EXTENDS AodvHelpers

size == 7

\* The source counts nodes from 0.
Node(i) == i + 1

CreateNodes == [i \in 1 .. size |-> [call |-> "CreateNode"]]

InstallOn(is) == [k \in DOMAIN is |-> [call |-> "Install", node |-> Node(is[k])]]

PrintAt(time) == <<[call |-> "PrintTrustTableAllAt", time |-> time]>>

InstallInternetStack(printRoutes) ==
  <<[call |-> "SetRoutingHelper", helpers |-> <<"trust">>]>> \o
  InstallOn(<<0, 1, 2, 3, 4, 5>>) \o
  <<[call |-> "SetRoutingHelper", helpers |-> <<"malicious">>]>> \o
  InstallOn(<<6>>) \o
  IF printRoutes THEN PrintAt(55000) \o PrintAt(75000) ELSE <<>>

Ping(i, start, stop) ==
  [call |-> "InstallPing", node |-> Node(i), start |-> start, stop |-> stop]

\* Mutant: counts the nodes from 1 when it comes to their start.
PingsOf_OneLater(i) == [j \in 1 .. size - 1 |-> Ping(i, (i + 1) * 10000, 49999)]

\* Node i pings all the others.
PingsOf(i) == [j \in 1 .. size - 1 |-> Ping(i, i * 10000, 49999)]

InstallApplications ==
  FlattenSeq([k \in 1 .. size |-> PingsOf(k - 1)]) \o <<Ping(4, 60000, 69999)>>

Main(printRoutes, totalTime) ==
  CreateNodes \o InstallInternetStack(printRoutes) \o InstallApplications \o
  <<[call |-> "Stop", time |-> totalTime]>>

-----------------------------------------------------------------------------
Pinging(n) ==
  \E k \in DOMAIN nodes[n].apps :
    nodes[n].apps[k].kind = "ping" /\ nodes[n].apps[k].state = "running"

\* From 50 s on, when all pings but the one to be looked at should be over,
\* nodes 5 and 6 alone still ping: they start after their stop, and nothing
\* stops them any more (InstallApplications).
OnlyLateStartersPing ==
  script # Free /\ now \in 50000 .. 59999 =>
    \A n \in DOMAIN nodes : Pinging(n) => n \in {Node(5), Node(6)}
=============================================================================
