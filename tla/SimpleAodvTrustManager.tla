----------------------- MODULE SimpleAodvTrustManager -----------------------
(***************************************************************************)
(* The trust managers of one node (simple-aodv-trust-manager.cc): each is  *)
(* an application that hooks the promiscuous receive callback of the       *)
(* node's devices, counts the AODV messages it overhears per sender, and   *)
(* rates the sender in its own trust table.  A device has one callback,    *)
(* so managers take it from each other.                                    *)
(*                                                                         *)
(* Frames that are not AODV leave at the early returns and change nothing; *)
(* they are left out.  So are the error and hello counters of a            *)
(* AodvTrustEntry: the code never reads them.                              *)
(***************************************************************************)
EXTENDS TrustRecords

CONSTANTS
  Manager,       \* the trust managers installed on the node
  Device,        \* its devices, the loopback devices apart
  FirstDevice,   \* the first of them in the node's list
  NullCallback,  \* no promiscuous callback
  NoParameters,  \* no AodvTrustEntry for an address
  CounterMod,    \* 2^16: the counters are uint16_t
  MaxTime        \* bound on the simulator clock

ASSUME DeviceAssumption     == FirstDevice \in Device
ASSUME CallbackAssumption   == NullCallback \notin Manager
ASSUME CounterModAssumption == CounterMod \in Nat \ {0}
ASSUME MaxTimeAssumption    == MaxTime \in Nat

Counter == 0 .. CounterMod - 1

AodvTrustEntry == [rreq : Counter, rrep : Counter]

ASSUME NoParametersAssumption == NoParameters \notin AodvTrustEntry

MessageType == {"RREQ", "RREP", "RERR", "RREP_ACK"}

VARIABLES
  now,
  app,                \* what has been called: nothing, Start, or Stop
  promisc,            \* the callback of each device
  m_trustParameters,  \* per manager
  m_trustTable,       \* per manager
  hung                \* a Purge never returns, and no event runs any more

vars == <<now, app, promisc, m_trustParameters, m_trustTable, hung>>

Init ==
  /\ now = 0
  /\ app = [m \in Manager |-> "new"]
  /\ promisc = [d \in Device |-> NullCallback]
  /\ m_trustParameters = [m \in Manager |-> [a \in Address |-> NoParameters]]
  /\ m_trustTable = [m \in Manager |-> NoRecords]
  /\ hung = FALSE

-----------------------------------------------------------------------------
Known(params, a) == params[a] # NoParameters

\* Mutant: rates with the requests over the sum.
CalculateTrust_Inverted(params, a) ==
  IF ~Known(params, a) THEN Zero
  ELSE IF params[a].rreq # 0
       THEN <<params[a].rreq, params[a].rreq + params[a].rrep>>
       ELSE Half

CalculateTrust(params, a) ==
  IF ~Known(params, a) THEN Zero
  ELSE IF params[a].rreq # 0
       THEN <<params[a].rrep, params[a].rreq + params[a].rrep>>
       ELSE Half

\* Mutant: a counter that is wider than its type.
Inc_TooFar(c) == c + 1

\* The increment of a uint16_t.
Inc(c) == (c + 1) % CounterMod

\* A message of type t is counted; a broadcast reply, which is a hello, is not.
Count(entry, t, broadcast) ==
  CASE t = "RREQ"                -> [entry EXCEPT !.rreq = Inc(@)]
    [] t = "RREP" /\ ~broadcast  -> [entry EXCEPT !.rrep = Inc(@)]
    [] OTHER                     -> entry

Observe(params, a, t, broadcast) ==
  LET entry == IF Known(params, a) THEN params[a] ELSE [rreq |-> 0, rrep |-> 0]
  IN  [params EXCEPT ![a] = Count(entry, t, broadcast)]

\* Mutant: rates the sender before the new counters are saved.
OnReceivePromiscuousCallback_RatesFirst(d, a, t, broadcast) ==
  LET m == promisc[d] IN
  /\ ~hung
  /\ m # NullCallback
  /\ m_trustParameters' = [m_trustParameters EXCEPT ![m] = Observe(@, a, t, broadcast)]
  /\ m_trustTable' = [m_trustTable EXCEPT ![m] =
       AddOrUpdateTrustTableEntry(@, a, CalculateTrust(m_trustParameters[m], a), now)]
  /\ UNCHANGED <<now, app, promisc, hung>>

\* Device d receives an AODV message of type t whose IPv4 source is a.
OnReceivePromiscuousCallback(d, a, t, broadcast) ==
  LET m == promisc[d] IN
  /\ ~hung
  /\ m # NullCallback
  /\ m_trustParameters' = [m_trustParameters EXCEPT ![m] = Observe(@, a, t, broadcast)]
  /\ m_trustTable' = [m_trustTable EXCEPT ![m] =
       AddOrUpdateTrustTableEntry(@, a, CalculateTrust(m_trustParameters'[m], a), now)]
  /\ UNCHANGED <<now, app, promisc, hung>>

\* Mutant: sets the callback of the first device only.
SetCallbackAndPurge_FirstOnly(m, cb) ==
  /\ promisc' = [promisc EXCEPT ![FirstDevice] = cb]
  /\ hung' = ~PurgeReturnsFrom(m_trustTable[m], now)
  /\ \E recs \in LeftByPurge(m_trustTable[m], now) :
       m_trustTable' = [m_trustTable EXCEPT ![m] = recs]

\* The loop of StartApplication and StopApplication: it sets the callback of
\* a device and then purges, before it comes to the next device.
SetCallbackAndPurge(m, cb) ==
  /\ hung' = ~PurgeReturnsFrom(m_trustTable[m], now)
  /\ promisc' = IF hung' THEN [promisc EXCEPT ![FirstDevice] = cb]
                         ELSE [d \in Device |-> cb]
  /\ \E recs \in LeftByPurge(m_trustTable[m], now) :
       m_trustTable' = [m_trustTable EXCEPT ![m] = recs]

StartApplication(m) ==
  /\ ~hung
  /\ app[m] = "new"
  /\ app' = [app EXCEPT ![m] = "started"]
  /\ SetCallbackAndPurge(m, m)
  /\ UNCHANGED <<now, m_trustParameters>>

\* Mutant: takes the callback away without purging.
StopApplication_KeepsRecords(m) ==
  /\ ~hung
  /\ app[m] = "started"
  /\ app' = [app EXCEPT ![m] = "stopped"]
  /\ promisc' = [d \in Device |-> NullCallback]
  /\ UNCHANGED <<now, m_trustParameters, m_trustTable, hung>>

\* Mutant: leaves the callback of the other devices alone.
StopApplication_FirstDeviceOnly(m) ==
  /\ ~hung
  /\ app[m] = "started"
  /\ app' = [app EXCEPT ![m] = "stopped"]
  /\ promisc' = [promisc EXCEPT ![FirstDevice] = NullCallback]
  /\ hung' = ~PurgeReturnsFrom(m_trustTable[m], now)
  /\ \E recs \in LeftByPurge(m_trustTable[m], now) :
       m_trustTable' = [m_trustTable EXCEPT ![m] = recs]
  /\ UNCHANGED <<now, m_trustParameters>>

\* The callback is cleared whichever manager it belongs to.
StopApplication(m) ==
  /\ ~hung
  /\ app[m] = "started"
  /\ app' = [app EXCEPT ![m] = "stopped"]
  /\ SetCallbackAndPurge(m, NullCallback)
  /\ UNCHANGED <<now, m_trustParameters>>

Tick ==
  /\ ~hung
  /\ now < MaxTime
  /\ now' = now + 1
  /\ UNCHANGED <<app, promisc, m_trustParameters, m_trustTable, hung>>

\* The Purge that hangs keeps looping.
Spin == hung /\ UNCHANGED vars

Next ==
  \/ \E m \in Manager : StartApplication(m) \/ StopApplication(m)
  \/ \E d \in Device, a \in Address, t \in MessageType, broadcast \in BOOLEAN :
       OnReceivePromiscuousCallback(d, a, t, broadcast)
  \/ Tick
  \/ Spin

Spec == Init /\ [][Next]_vars

-----------------------------------------------------------------------------
\* Every rating in a table is a number from 0 to 1, computed from counters
\* that stay within their width.
TypeOK ==
  /\ now \in Nat
  /\ app \in [Manager -> {"new", "started", "stopped"}]
  /\ promisc \in [Device -> Manager \cup {NullCallback}]
  /\ m_trustParameters \in [Manager -> [Address -> AodvTrustEntry \cup {NoParameters}]]
  /\ m_trustTable \in [Manager -> Records]
  /\ hung \in BOOLEAN

\* The table and the counters tell the same story: a record in the table is
\* the rating of the counters as they are now, however many messages ago it
\* was written, and a started manager has a record for every address it has
\* counters for.
TableAgreesWithParameters ==
  \A m \in Manager, a \in Address :
    /\ Has(m_trustTable[m], a) =>
         /\ Known(m_trustParameters[m], a)
         /\ m_trustTable[m][a].trustValue = CalculateTrust(m_trustParameters[m], a)
         /\ InUnitInterval(m_trustTable[m][a].trustValue)
    /\ app[m] = "started" /\ ~hung /\ Known(m_trustParameters[m], a) =>
         Has(m_trustTable[m], a)

\* The devices of a node are hooked together: no manager hears the node on
\* one device while another hears it, or nobody does, on the next.
DevicesShareOneListener ==
  ~hung => \A d, e \in Device : promisc[d] = promisc[e]

\* A manager that is not started is deaf: a stopped manager's ratings are
\* final, although its callback was set on every device and another manager
\* may have been started, or stopped, since.
OnlyStartedManagersListen ==
  \A d \in Device :
    promisc[d] # NullCallback => app[promisc[d]] = "started" \/ hung

\* A stop that returns leaves no records behind: the ratings of a node that
\* goes on are never those of a manager that has stopped counting.
StoppedManagersRateNobody ==
  \A m \in Manager : app[m] = "stopped" /\ ~hung => m_trustTable[m] = NoRecords

Rating(m, a) == CalculateTrust(m_trustParameters[m], a)

\* Until a counter wraps, replies never lower the rating of the node that
\* sends them, and requests never raise it once the node is past its first
\* request.
RatingsFollowConduct ==
  [][\A m \in Manager, a \in Address :
       LET old == m_trustParameters[m][a]
           new == m_trustParameters'[m][a]
       IN  Known(m_trustParameters[m], a) =>
             /\ new.rrep > old.rrep => ~Less(Rating(m, a)', Rating(m, a))
             /\ new.rreq > old.rreq /\ old.rreq > 0 => ~Less(Rating(m, a), Rating(m, a)')
    ]_vars
=============================================================================
