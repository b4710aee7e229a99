---------------------------- MODULE AodvHelpers -----------------------------
(***************************************************************************)
(* The helpers of trust-aodv and trust-routing in the scripts that call    *)
(* them: a script builds nodes, installs stacks, asks for random streams   *)
(* and for printed tables, and then runs the simulation, whose events are  *)
(* what the calls, and the events before them, have scheduled.             *)
(*                                                                         *)
(* A script makes the calls of a list, or any calls of FreeCall.  What a   *)
(* node does with its protocols is left to AodvNode and TrustNode.         *)
(***************************************************************************)
EXTENDS Integers, FiniteSetsExt, SequencesExt

CONSTANTS
  Script,    \* the lists of calls that scripts may consist of, numbered
  FreeCall,  \* the calls of a script that may do anything
  MaxCalls,  \* bound: how many of them it makes
  MaxTime    \* bound on the simulator clock

ASSUME BoundsAssumption == {MaxCalls, MaxTime} \subseteq Nat

\* What a script may call.  Tables that are printed every 0 s would be all that
\* is ever done.
HelperCall ==
  [call : {"CreateNode"}]
  \cup [call : {"SetManagerType"}, type : STRING]
  \cup [call : {"SetRoutingHelper"}, helpers : Seq(STRING)]
  \cup [call : {"Install"}, node : Nat]
  \cup [call : {"AssignStreams"}, helper : STRING, nodes : Seq(Nat)]
  \cup [call : {"PrintTrustTableAllAt"}, time : Nat]
  \cup [call : {"PrintTrustTableAllEvery"}, time : Nat \ {0}]
  \cup [call : {"PrintTrustTableAt"}, time : Nat, node : Nat]
  \cup [call : {"PrintTrustTableEvery"}, time : Nat \ {0}, node : Nat]
  \cup [call : {"InstallPing"}, node : Nat, start : Nat, stop : Nat]
  \cup [call : {"Stop"}, time : Nat]

ASSUME CallsAssumption == FreeCall \subseteq HelperCall /\ Script \in Seq(Seq(HelperCall))

VARIABLES
  script,       \* the number of the list, or Free
  calls,        \* how many it has made
  managerType,  \* what the script's TrustAodvHelper creates managers of
  stack,        \* the copies of the helpers that the InternetStackHelper holds
  nodes,        \* NodeList: the routing protocols and applications of each node
  nextStream,   \* the first random stream that was not given away
  requests,     \* the tables that were asked for
  printed,      \* what the output stream of each request holds
  phase,        \* the script runs, the simulator runs, or it is over
  now, events,  \* Simulator: the clock, and the events with the numbers they got
  uid           \* the last number

Free == 0

queue == <<events, uid>>
setup == <<script, calls, managerType, stack, nextStream, requests>>
vars == <<setup, nodes, printed, phase, now, queue>>

Init ==
  /\ script \in {Free} \cup DOMAIN Script
  /\ calls = 0
  /\ managerType = "ns3::SimpleAodvTrustManager"
  /\ stack = [helpers |-> <<"static">>, managerType |-> managerType]
  /\ nodes = <<>>
  /\ nextStream = 0
  /\ requests = <<>>
  /\ printed = <<>>
  /\ phase = "setup"
  /\ now = 0
  /\ events = {}
  /\ uid = 0

\* New events, at their times, in the order in which they are scheduled.
Schedule(others, new) ==
  /\ events' = others \cup
       {[time |-> new[i].time, uid |-> uid + i, do |-> new[i].do] : i \in DOMAIN new}
  /\ uid' = uid + Len(new)

-----------------------------------------------------------------------------
\* The calls of a script, on the nodes 1, 2, ...

CreateNode ==
  /\ nodes' = Append(nodes, [routing |-> <<>>, apps |-> <<>>])
  /\ Schedule(events, <<[time |-> 0, do |-> [what |-> "initialize", node |-> Len(nodes')]]>>)
  /\ UNCHANGED <<managerType, stack, nextStream, requests, printed>>

SetManagerType(tid) ==
  /\ managerType' = tid
  /\ UNCHANGED <<stack, nodes, nextStream, requests, printed, queue>>

\* The stack keeps copies: what is set on a helper later is lost on it.
SetRoutingHelper(helpers) ==
  /\ stack' = [helpers |-> helpers, managerType |-> managerType]
  /\ UNCHANGED <<managerType, nodes, nextStream, requests, printed, queue>>

NoStream == -1

\* The protocol that a helper creates.  That of the trust helper is plain AODV.
Agent(helper) ==
  [kind |-> IF helper = "trust" THEN "aodv" ELSE helper, stream |-> NoStream]

\* The manager that the trust helper adds to the node as well.
Manager(tid) == [kind |-> "manager", type |-> tid, start |-> 0, stop |-> 0, state |-> "new"]

\* Each helper of the stack creates its protocol, in the order of priority.
Install(n) ==
  LET trust == {i \in DOMAIN stack.helpers : stack.helpers[i] = "trust"} IN
  /\ n \in DOMAIN nodes
  /\ nodes[n].routing = <<>>
  /\ nodes' = [nodes EXCEPT
       ![n].routing = [i \in DOMAIN stack.helpers |-> Agent(stack.helpers[i])],
       ![n].apps = @ \o [i \in 1 .. Cardinality(trust) |-> Manager(stack.managerType)]]
  /\ UNCHANGED <<managerType, stack, nextStream, requests, printed, queue>>

\* The malicious and the selfish protocol are subclasses of aodv's.
Casts(helper, kind) ==
  IF helper = "trust" THEN kind \in {"aodv", "malicious", "selfish"} ELSE kind = helper

Matching(helper, n) == {i \in DOMAIN nodes[n].routing : Casts(helper, nodes[n].routing[i].kind)}

\* The places in the container c whose nodes are given a stream.
Matched(helper, c) == {i \in DOMAIN c : Matching(helper, c[i]) # {}}

\* Each of these places is given the next stream, and a node in several of them
\* keeps the last that it gets.  In a list of protocols the first that matches
\* is the only one to get it.
WithStreams(helper, c) ==
  LET given == Matched(helper, c)
      Latest(n) == Max({i \in given : c[i] = n})
  IN  [n \in DOMAIN nodes |->
         IF \E i \in given : c[i] = n
         THEN [nodes[n] EXCEPT !.routing[Min(Matching(helper, n))].stream =
                 nextStream + Cardinality({i \in given : i < Latest(n)})]
         ELSE nodes[n]]

\* Mutant: a protocol in a list gets a stream and does not count.
AssignStreams_ListsNotCounted(helper, c) ==
  /\ \A i \in DOMAIN c : c[i] \in DOMAIN nodes /\ nodes[c[i]].routing # <<>>
  /\ nodes' = WithStreams(helper, c)
  /\ nextStream' = nextStream +
       Cardinality({i \in Matched(helper, c) : Len(nodes[c[i]].routing) = 1})
  /\ UNCHANGED <<managerType, stack, requests, printed, queue>>

\* The script chains its calls: each begins where the last one ended.
AssignStreams(helper, c) ==
  /\ \A i \in DOMAIN c : c[i] \in DOMAIN nodes /\ nodes[c[i]].routing # <<>>
  /\ nodes' = WithStreams(helper, c)
  /\ nextStream' = nextStream + Cardinality(Matched(helper, c))
  /\ UNCHANGED <<managerType, stack, requests, printed, queue>>

\* The tables of the nodes c are asked for, each time on a stream of its own.
Ask(c, time, repeats) ==
  LET out == Len(requests) + 1
      Of(n) == [what |-> "print", node |-> n, out |-> out,
                interval |-> IF repeats THEN time ELSE 0]
  IN
  /\ requests' = Append(requests, [of |-> Range(c), time |-> time, repeats |-> repeats])
  /\ printed' = Append(printed, <<>>)
  /\ Schedule(events, [i \in DOMAIN c |-> [time |-> time, do |-> Of(c[i])]])
  /\ UNCHANGED <<managerType, stack, nodes, nextStream>>

AllNodes == [i \in 1 .. Len(nodes) |-> i]

PrintTrustTableAllAt(time)    == Ask(AllNodes, time, FALSE)
PrintTrustTableAllEvery(time) == Ask(AllNodes, time, TRUE)
PrintTrustTableAt(time, n)    == n \in DOMAIN nodes /\ Ask(<<n>>, time, FALSE)
PrintTrustTableEvery(time, n) == n \in DOMAIN nodes /\ Ask(<<n>>, time, TRUE)

\* A ping application, with its times.
InstallPing(n, start, stop) ==
  /\ n \in DOMAIN nodes
  /\ nodes' = [nodes EXCEPT ![n].apps = Append(@,
       [kind |-> "ping", type |-> "ns3::V4Ping", start |-> start, stop |-> stop, state |-> "new"])]
  /\ UNCHANGED <<managerType, stack, nextStream, requests, printed, queue>>

Stop(time) ==
  /\ Schedule(events, <<[time |-> time, do |-> [what |-> "stop"]]>>)
  /\ UNCHANGED <<managerType, stack, nodes, nextStream, requests, printed>>

Perform(c) ==
  CASE c.call = "CreateNode"              -> CreateNode
    [] c.call = "SetManagerType"          -> SetManagerType(c.type)
    [] c.call = "SetRoutingHelper"        -> SetRoutingHelper(c.helpers)
    [] c.call = "Install"                 -> Install(c.node)
    [] c.call = "AssignStreams"           -> AssignStreams(c.helper, c.nodes)
    [] c.call = "PrintTrustTableAllAt"    -> PrintTrustTableAllAt(c.time)
    [] c.call = "PrintTrustTableAllEvery" -> PrintTrustTableAllEvery(c.time)
    [] c.call = "PrintTrustTableAt"       -> PrintTrustTableAt(c.time, c.node)
    [] c.call = "PrintTrustTableEvery"    -> PrintTrustTableEvery(c.time, c.node)
    [] c.call = "InstallPing"             -> InstallPing(c.node, c.start, c.stop)
    [] c.call = "Stop"                    -> Stop(c.time)

NextCall ==
  IF script # Free THEN {Script[script][i] : i \in DOMAIN Script[script] \cap {calls + 1}}
  ELSE IF calls < MaxCalls THEN FreeCall ELSE {}

Call ==
  /\ phase = "setup"
  /\ \E c \in NextCall : Perform(c)
  /\ calls' = calls + 1
  /\ UNCHANGED <<script, phase, now>>

\* A script that is free runs the simulation whenever it likes.
Run ==
  /\ phase = "setup"
  /\ script # Free => NextCall = {}
  /\ phase' = "running"
  /\ UNCHANGED <<setup, nodes, printed, now, queue>>

-----------------------------------------------------------------------------
\* The events.  One that runs is out of the queue, and the clock has its time.

\* The next event: the earliest, and among those of a time the oldest.
Earlier(e, f) == e.time < f.time \/ (e.time = f.time /\ e.uid < f.uid)

Due == CHOOSE e \in events : \A f \in events \ {e} : Earlier(e, f)

After == events \ {Due}

\* The start of the k-th application of n, and its stop if it has one.
Turns(n, k) ==
  LET a == nodes[n].apps[k] IN
  <<[time |-> a.start, do |-> [what |-> "start", node |-> n, app |-> k]]>> \o
  IF a.stop = 0 THEN <<>>
  ELSE <<[time |-> a.stop, do |-> [what |-> "end", node |-> n, app |-> k]]>>

\* A node that is initialized schedules the turns of its applications.
Initialize(n) ==
  /\ Schedule(After, FlattenSeq([k \in DOMAIN nodes[n].apps |-> Turns(n, k)]))
  /\ UNCHANGED <<nodes, printed, phase>>

\* An application starts whatever has become of its stop.
Turn(n, k, state) ==
  /\ nodes' = [nodes EXCEPT ![n].apps[k].state = state]
  /\ Schedule(After, <<>>)
  /\ UNCHANGED <<printed, phase>>

Managers(n) == {k \in DOMAIN nodes[n].apps : nodes[n].apps[k].kind = "manager"}

\* Mutant: prints once, whatever was asked for.
PrintEvery_Once(e) ==
  /\ printed' = [printed EXCEPT
       ![e.out] = @ \o [i \in 1 .. Cardinality(Managers(e.node)) |-> e.node]]
  /\ Schedule(After, <<>>)
  /\ UNCHANGED <<nodes, phase>>

\* Print, and PrintEvery, which schedules itself again: every manager among
\* the applications that the node has by now prints its table.
PrintEvery(e) ==
  /\ printed' = [printed EXCEPT
       ![e.out] = @ \o [i \in 1 .. Cardinality(Managers(e.node)) |-> e.node]]
  /\ Schedule(After, IF e.interval = 0 THEN <<>>
                     ELSE <<[time |-> now' + e.interval, do |-> e]>>)
  /\ UNCHANGED <<nodes, phase>>

Event ==
  /\ phase = "running"
  /\ events # {}
  /\ Due.time <= MaxTime
  /\ now' = Due.time
  /\ LET e == Due.do IN
     CASE e.what = "initialize" -> Initialize(e.node)
       [] e.what = "start"      -> Turn(e.node, e.app, "running")
       [] e.what = "end"        -> Turn(e.node, e.app, "stopped")
       [] e.what = "print"      -> PrintEvery(e)
       [] e.what = "stop"       -> /\ phase' = "over"
                                   /\ Schedule(After, <<>>)
                                   /\ UNCHANGED <<nodes, printed>>
  /\ UNCHANGED setup

\* The simulator returns when nothing is left to do.
Return ==
  /\ phase = "running"
  /\ events = {}
  /\ phase' = "over"
  /\ UNCHANGED <<setup, nodes, printed, now, queue>>

Next == Call \/ Run \/ Event \/ Return

Spec == Init /\ [][Next]_vars

-----------------------------------------------------------------------------
\* How often a request is due at time t, for each node it is about.
TimesDue(r, t) == IF r.repeats THEN t \div r.time ELSE IF r.time <= t THEN 1 ELSE 0

Lines(r, n) == Cardinality({i \in DOMAIN printed[r] : printed[r][i] = n})

\* Every manager prints its table as often as it was asked to, no more and, up
\* to the present instant, no less: managers that came after the request
\* print too, and nodes that came after it never do (PrintTrustTableAllAt,
\* PrintTrustTableAllEvery).
PrintsAreComplete ==
  \A r \in DOMAIN requests, n \in DOMAIN nodes :
    LET asked == requests[r]
        each == Cardinality(Managers(n))
    IN  IF n \in asked.of
        THEN /\ Lines(r, n) <= each * TimesDue(asked, now)
             /\ phase # "setup" => Lines(r, n) >= each * TimesDue(asked, now - 1)
        ELSE Lines(r, n) = 0

Protocols == UNION {{<<n, i>> : i \in DOMAIN nodes[n].routing} : n \in DOMAIN nodes}

StreamOf(p) == nodes[p[1]].routing[p[2]].stream

\* However the helpers' calls are chained and repeated, no two protocols draw
\* from the same random stream, and no stream in use will be given away again
\* (AssignStreams of the three helpers).
StreamsAreSeparate ==
  \A p \in Protocols : StreamOf(p) # NoStream =>
    /\ StreamOf(p) < nextStream
    /\ \A q \in Protocols \ {p} : StreamOf(q) # StreamOf(p)
=============================================================================
