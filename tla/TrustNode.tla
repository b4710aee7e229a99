----------------------------- MODULE TrustNode ------------------------------
(***************************************************************************)
(* A node that runs the trust routing protocol and has trust managers      *)
(* installed: AodvNode composed with SimpleAodvTrustManager.  The two meet *)
(* in the managers' tables, which TrustRecvReply reads, and in the frames, *)
(* which a device hands to the protocol stack first and to its promiscuous *)
(* callback next, without another event in between.                        *)
(*                                                                         *)
(* AodvNode takes its ratings from nowhere; here they come from what was   *)
(* overheard, and this module implements that one.                         *)
(***************************************************************************)
EXTENDS Integers, FiniteSets

CONSTANTS
  Address, LifeTime, NoEntry,
  Manager, Device, FirstDevice, NullCallback, NoParameters, CounterMod, MaxTime,
  Self, NoRoute, Nowhere, SeqnoMod, HopMod,
  Neighbor, Dst, RemoteOrigin, Seqno, Hop, Ttl, HelloSeqno, RreqSeqno, RreqHop

ASSUME ManagerAssumption    == Manager # {} /\ IsFiniteSet(Manager)
ASSUME DeviceAssumption     == FirstDevice \in Device
ASSUME CallbackAssumption   == NullCallback \notin Manager
ASSUME TimeAssumption       == LifeTime \in Nat /\ MaxTime \in Nat
ASSUME CounterModAssumption == CounterMod \in Nat \ {0}
ASSUME SeqnoModAssumption   == SeqnoMod \in Nat \ {0}
ASSUME HopModAssumption     == HopMod \in Nat \ {0, 1}
ASSUME AddressAssumption ==
  Neighbor \cup Dst \cup RemoteOrigin \subseteq Address \ {Self, Nowhere}
ASSUME MessageAssumption ==
  /\ Seqno \cup HelloSeqno \cup RreqSeqno \subseteq 0 .. SeqnoMod - 1
  /\ Hop \cup RreqHop \subseteq 0 .. HopMod - 1
  /\ Ttl \subseteq Nat

VARIABLES
  now, app, promisc, m_trustParameters, m_trustTable, hung,
  protocol, m_routingTable, m_addressReqTimer, ipForward, sent, data,
  pending   \* the frame that the promiscuous callback has still to see

managerVars == <<now, app, promisc, m_trustParameters, hung>>
nodeVars == <<protocol, m_routingTable, m_addressReqTimer, ipForward, sent, data>>
vars == <<managerVars, m_trustTable, nodeVars, pending>>

M == INSTANCE SimpleAodvTrustManager

\* The ratings that counters give.
Ratings ==
  {M!Half} \cup {<<rrep, rreq + rrep>> : rrep \in M!Counter, rreq \in M!Counter \ {0}}

\* AodvNode knows no time: its records are all stamped 0.
Untimed ==
  [m \in Manager |->
     [a \in Address |-> IF M!Has(m_trustTable[m], a)
                        THEN [m_trustTable[m][a] EXCEPT !.timestamp = 0] ELSE NoEntry]]

ASSUME NoParametersAssumption == NoParameters \notin M!AodvTrustEntry
ASSUME NoEntryAssumption      == NoEntry \notin M!TrustEntry

N == INSTANCE AodvNode WITH Protocol <- {"trust"}, Rating <- Ratings, m_trustTable <- Untimed

ASSUME NoRouteAssumption == NoRoute \notin N!Route

Init == M!Init /\ N!Init /\ pending = {}

-----------------------------------------------------------------------------
\* A frame as the callback sees it.  ns-3's TypeHeader keeps the type it was
\* constructed with, a request, when it reads an unknown one; the callback
\* does not ask whether the header is valid.
Frame(d, a, t, broadcast) ==
  [device |-> d, from |-> a, type |-> IF t = "unknown" THEN "RREQ" ELSE t,
   broadcast |-> broadcast]

\* Requests and hellos are broadcast, and so may be a report of errors.
Broadcast(msg) ==
  CASE msg.type = "RREQ" -> {TRUE}
    [] msg.type = "RREP" -> {N!IsHello(msg)}
    [] OTHER -> BOOLEAN

Idle == ~hung /\ pending = {}

\* A frame that the next step shows to the callback, if there is one.
Show(frame) == pending' = IF promisc[frame.device] = NullCallback THEN {} ELSE {frame}

\* A message for the node arrives at device d: the routing protocol first.
Receive(d, sender, msg) ==
  /\ Idle
  /\ UNCHANGED m_trustTable
  /\ N!RecvAodv(msg, sender)
  /\ \E broadcast \in Broadcast(msg) : Show(Frame(d, sender, msg.type, broadcast))
  /\ UNCHANGED managerVars

\* A message for another node is overheard: the callback alone sees it.
Overhear(d, sender, t) ==
  /\ Idle
  /\ promisc[d] # NullCallback
  /\ Show(Frame(d, sender, t, FALSE))
  /\ N!Quiet
  /\ UNCHANGED <<managerVars, m_trustTable, m_routingTable, m_addressReqTimer>>

\* Mutant: drops the routes over the sender when it is rated below one half.
Promiscuous_DropsRoutes ==
  \E frame \in pending :
    /\ M!OnReceivePromiscuousCallback(frame.device, frame.from, frame.type, frame.broadcast)
    /\ pending' = {}
    /\ N!Quiet
    /\ m_routingTable' =
         [a \in Address |->
            IF /\ N!HasRoute(m_routingTable, a)
               /\ m_routingTable[a].nextHop = frame.from
               /\ M!Less(M!CalculateTrust(m_trustParameters'[promisc[frame.device]], frame.from),
                         M!Half)
            THEN NoRoute ELSE m_routingTable[a]]
    /\ UNCHANGED m_addressReqTimer

\* The callback rates the sender of the frame.
Promiscuous ==
  \E frame \in pending :
    /\ M!OnReceivePromiscuousCallback(frame.device, frame.from, frame.type, frame.broadcast)
    /\ pending' = {}
    /\ N!Quiet
    /\ UNCHANGED <<m_routingTable, m_addressReqTimer>>

\* A step of a manager, or of the clock, between two frames.
BetweenFrames(step) ==
  /\ Idle
  /\ step
  /\ N!Quiet
  /\ UNCHANGED <<m_routingTable, m_addressReqTimer, pending>>

\* A step of ns-3's part of the node.
OfNode(step) == Idle /\ UNCHANGED <<managerVars, m_trustTable, pending>> /\ step

Next ==
  \/ \E d \in Device, sender \in Neighbor : \E msg \in N!Message(sender) : Receive(d, sender, msg)
  \/ \E d \in Device, sender \in Neighbor, t \in {"RREP", "RERR", "RREP_ACK"} :
       Overhear(d, sender, t)
  \/ Promiscuous
  \/ \E m \in Manager : BetweenFrames(M!StartApplication(m)) \/ BetweenFrames(M!StopApplication(m))
  \/ BetweenFrames(M!Tick)
  \/ \E dst \in Dst \cup {Self} : OfNode(N!RouteInput(dst))
  \/ \E d \in Dst \cup RemoteOrigin :
       OfNode(N!SendRequest(d)) \/ OfNode(N!RouteRequestTimerExpire(d))
  \/ \E d \in Address : OfNode(N!Expire(d)) \/ OfNode(N!PurgeRoute(d))
  \/ M!Spin /\ UNCHANGED vars

Spec == Init /\ [][Next]_vars

-----------------------------------------------------------------------------
\* The node behaves as AodvNode says it may: what the managers store and purge
\* while they count, start and stop is within what the theorems about AodvNode
\* allow, and nothing but a message for the node touches a route.
ImplementsAodvNode == N!Spec

Started == {m \in Manager : app[m] = "started"}

\* Without a started manager the node is a plain AODV node: whatever managers
\* counted before they stopped, a reply has the effect it has in ns-3.
PlainWithoutManagers ==
  [][\A d \in Device, sender \in Neighbor :
       \A rrep \in N!Rrep \cup N!Hello(sender) :
         Started = {} /\ Receive(d, sender, rrep) =>
           m_routingTable' = N!RecvReply(N!UpdateRouteToNeighbor(m_routingTable, sender),
                                         rrep, sender)]_vars

Replies(m, a) == m_trustParameters[m][a].rrep
Requests(m, a) == m_trustParameters[m][a].rreq

\* The manager has counted more requests than replies of a, and some replies:
\* one that never replied is rated 0, which counts as not rated.
Suspicious(m, a) ==
  /\ M!Known(m_trustParameters[m], a)
  /\ Requests(m, a) > Replies(m, a)
  /\ Replies(m, a) > 0

\* The decisions follow what was overheard: with one manager, started, a valid
\* route moves to a suspicious neighbour only from another one whose replies
\* make a smaller part of its messages, or with a request of the destination's
\* own, on which there is no decision.
DecisionsFollowConduct ==
  [][\A m \in Started : \A d \in Dst :
       Manager = {m} /\ N!Moves(d) /\ Suspicious(m, m_routingTable'[d].nextHop) =>
         LET old == m_routingTable[d].nextHop
             new == m_routingTable'[d].nextHop
         IN  \/ /\ Suspicious(m, old)
                /\ Replies(m, old) * Requests(m, new) < Replies(m, new) * Requests(m, old)
             \/ N!AskedBy(d)]_vars
=============================================================================
