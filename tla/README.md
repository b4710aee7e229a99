# A verification development for the Dependability Validation Framework

The repository holds two systems. In `ns-3.32/` are two modules for the network
simulator ns-3: a trust management framework (`trust-routing`) and a routing
protocol, a variant of AODV, that uses it (`trust-aodv`), together with two
badly behaved variants of AODV to try it against. In `pyDARA/` is a program for
small robots that recovers the connection of a network when a node dies, by
DARA-1C: one of the dead node's neighbours drives to its place.

Model checking is done with TLC, proofs with TLAPS. `PROJECT.json` lists the
components, the runs, what each definition translates, the hazards and the
theorems.

## 1. The system

| Part | State | Operations | Talks to |
|---|---|---|---|
| Trust table (`trust-table.cc`, `trust-entry.cc`) | `m_tableRecords`: address to value and time stamp | add, update, add or update, remove, look up, purge | called by managers (write) and by the routing protocol (read) |
| Trust manager (`simple-aodv-trust-manager.cc`, `aodv-trust-entry.cc`) | `m_trustParameters`: counters per sender; its trust table; the promiscuous callback of each device, shared with other managers | start, stop, receive a frame, calculate trust | hooks the node's devices; writes its table |
| Trust routing (`trust-aodv-routing-protocol.cc`) | ns-3's routing table and request timers | receive an AODV packet; weigh a RREP by trust | reads the tables of all managers of the node; calls ns-3's `RecvReply` |
| Malicious routing | the same | forwards RREPs with a forged hop count | |
| Selfish routing | the same, and whether the interface forwards | drops RREQs, RREPs and data at random | |
| Helpers and the example script (`*-helper.cc`, `trust-aodv-example.cc`) | the protocols and applications of the nodes, the next random stream, the simulator's queue of events | install a stack, assign streams, ask for printed tables, run | create protocols and managers before the simulation, print their tables in it |
| DARA-1C (`pyDara.py`) | the two-hop table; the list of recovery messages | detect, choose a replacement, drive, tell, wait, update the table | recovery messages between nodes |
| Heartbeats (`pyDara.py`) | `lastHB` in the entries of the two-hop table | send, receive, check | three threads of one process share the table without a lock |
| Robot (`moveToLocation`, `irobot_create.py`) | place and heading | drive, spin, stop | blocks the detection thread while it drives |

The ns-3 side is single threaded: events are atomic, and the hard parts are
their order, the loops inside them, counters that wrap, and the state that two
classes share. The robots' side is concurrent twice over: threads on a node,
and nodes that act on their own copies of a table, with messages that may be
lost, deaths at any time and waits measured in seconds.

What makes each part correct:

- *Trust table*: at most one stamped value per address; no negative value; a
  purge removes the outdated records and nothing else, and comes back.
- *Trust manager*: the table always shows the rating of the present counters;
  ratings stay in [0, 1] and follow conduct; managers on one node do not leave
  some devices unheard, and one that is stopped neither hears nor rates.
- *Routing*: a reply moves a route only to a trusted next hop or a more trusted
  one; a reply never costs a route; a search always has a timer; sequence
  numbers go back only where that is the protocol's intent; a node's own routes
  are true, whatever it sends.
- *Trust node*: replies move routes by the conduct that the managers overhear, and
  without a started manager the node is a plain AODV node.
- *Helpers*: every table that was asked for is written, no random stream is
  given away twice, and applications are over when the script says so.
- *DARA-1C*: one node, the best of the living, goes to the place of a dead cut
  vertex, and no more than every lost message and false suspicion accounts for;
  the others list who really got there; recoveries end.
- *Failure detection*: only the dead are suspected, and no silence is missed.
- *Robot*: it arrives, looks east, and does so before the others give it up.

Section 5 says which of these hold and which do not.

## 2. The modules

| Module | Models | Uses |
|---|---|---|
| `TrustValue` | trust values as exact rationals | |
| `TrustRecords` | the operations of `TrustTable` as functions of the map | `TrustValue` |
| `TrustStore` | what a trust table promises: the abstract specification | `TrustRecords` |
| `TrustTable` | one table in a simulation; `Purge` as a loop | `TrustRecords`, instance of `TrustStore` |
| `SimpleAodvTrustManager` | the managers of one node | `TrustRecords` |
| `AodvRoutes` | what each AODV message does to a routing table | |
| `TrustDecision` | the average of ratings and the four cases | `TrustRecords` |
| `AodvNode` | a node under one of the three protocols | `AodvRoutes`, `TrustDecision` |
| `TrustNode` | a trust node with its managers | instances of `AodvNode` and `SimpleAodvTrustManager` |
| `AodvHelpers` | scripts that use the helpers, and the simulator's events | |
| `TrustAodvExample` | the example script | `AodvHelpers` |
| `DaraTable` | the two-hop table: choice, time, update | |
| `Succession` | what is seen of the robots in a recovery: the abstract specification | |
| `Dara` | the recovery, on all nodes | `DaraTable`, instance of `Succession` |
| `FailureDetector` | the threads of one node | |
| `MoveToLocation` | the robot's commands | `DaraTable` |

`MC...` modules give instances to TLC and `..._proofs` modules hold theorems. A
definition that begins with "Mutant:" in its comment is a plausible mistake in
the definition below it; it is used to show that a property can fail.

### Trust table

`m_tableRecords` is a function from addresses to records or `NoEntry`; the time
is a counter. The operations that return at once are one action each, with the
early return on a negative value and the refusal of `map::insert`. `Purge` is
not one action: `i` is its iterator, `rest` the keys still to come, and
`PurgeErase`, `PurgeSpin` and `PurgeReturn` are what an iteration can do. Keys
come in any order, since ns-3 orders addresses by their bytes.

Doubles are rationals. The values that occur are quotients of 16-bit counters
and sums of a few of them divided by small numbers, and the code compares them
with 0 and 0.5 and with each other; quotients of counters that are equal to
0.5, or equal to each other, are so as doubles too. Averages of several
managers may differ in the last bit from the rational; a tie could then be
broken otherwise in the fourth case, which no property depends on.

### Trust manager

A frame is a message type, a sender and whether the reply is broadcast.
Frames that are not AODV leave early and are left out. A start or stop sets the
callback of each device and purges before the next device; when the purge
hangs, the simulation does (`hung`), with the first device set. `LeftByPurge`
gives what a purge leaves in the table in both cases; `TrustTable` shows in
detail why. A manager starts once and stops once, as ns-3 schedules it; a stop that is
scheduled before the start, which would find nothing to stop, is left out.

### Routing

`AodvRoutes` is the part of `RecvReply` that the selfish and the malicious
protocol copy and the trust protocol calls, and what ns-3's handlers of the
other messages do to the table. `AodvNode` composes it with `TrustDecision` and
the managers' tables; a node runs one of the protocols of the constant
`Protocol`, chosen at the start. `RecvAodv` is one action for a message of any
type: a reply, a hello, a request for this node or another, fresh or seen
before, a report of errors, an acknowledgement, or a type that is not known.
`UpdateRouteToNeighbor` comes first in all of them. `sent` is the reply that
the step sent on. `RouteInput` is a data packet: `data` is what became of it,
and `ipForward` the setting of the interface, which the selfish protocol may
turn off before it calls ns-3's `RouteInput` and puts back to what it was. The rest of ns-3's AODV that changes the same state is marked
external: searches and their timers, expiry. An address may be the destination of replies and the
origin of requests (`Dst` and `RemoteOrigin` overlap). Left out: interfaces, precursors,
the packets that wait for a route, and life times, for which `Expire` at any
moment stands. Random drops are choices.

The managers' tables change by `Rate`, which may give any rating at any moment,
and by `Forget`, a purge; both more than `SimpleAodvTrustManager` does. What
holds here holds for every manager.

### Trust node

`TrustNode` has an instance of `SimpleAodvTrustManager` and one of `AodvNode`
on common tables. A device hands a frame to the protocol stack first and to its
promiscuous callback next, in the same event: `Receive` is the first half and
leaves the frame in `pending`, `Promiscuous` the second, and nothing else moves
in between. `Overhear` is a frame for somebody else, which only the callback
sees. Each step of the managers, of the clock and of ns-3's part of the node is
an action of its own between frames. `Untimed` is the refinement mapping:
`AodvNode` knows no time, so that records lose their stamps.

### Helpers and the example

`AodvHelpers` models a script from the outside: the calls it makes (`Perform`),
then the events of the simulation. The simulator's queue is a set of events
with the time and the number each was scheduled under; the earliest, and among
those the oldest, is next. A script makes the calls of one of the lists in
`Script`, or any calls of `FreeCall` in any order. `TrustAodvExample` is the
list that `AodvExample::Run` makes. The periodic events of ns-3's own protocols
are left out, so nothing is claimed about whether a simulation ends.

### DARA-1C

A node's `status` is where `dara1C` is: idle, moving, waiting, or dead of an
exception. The inner call of `dara1C` and another turn of its loop do the same,
so both are `TryToReplace`. `Arrive` is the end of the drive, the update and the
messages; `EndWait` is the end of the wait, the update and the look at the
messages. `CanUpdate` collects the conditions under which the update raises no
exception. Messages before a wait are forgotten, as the time stamps make the
code do. Time is in seconds and only passes when nobody is due; up to `Skew`
seconds may pass before a node notices a death that another has noticed: the
detection threads poll every five seconds (`pyDara.py:120`), each in its own time.

Heartbeats are reduced to what the detection thread makes of them. `Silent` says
who rightly looks dead: the dead, and who has left for other neighbours. `Detect`
is the call of `dara1C` for those, within `Skew` seconds. `Suspect` is the call for
somebody who lives and does send heartbeats, at any time: for one of the reasons
`FailureDetector` has (a heartbeat stamped after the pass began, or a link that was
long silent since heartbeats were lost), or because an entry still has the stamps
of the dead node whose place its new owner has taken (`pyDara.py:564`). Both run
`Dara1C`. `mistakes` counts the latter and `losses` the recovery messages that are
lost; a history in which both are 0 is `Undisturbed`.

`Succession` is what somebody sees who watches the robots and knows nothing of
tables, waits and messages: who is alive, where each stands, where it is heading,
and whether the history was `disturbed`. A robot sets out once, from its own place
for that of a cut vertex it is a neighbor of; it gets there; it never turns. Until
it is disturbed, the cut vertex is dead, nobody who lives is there or heading
there, and no neighbor who lives is better by the files. `Dara` implements it with
`Destination` for the heading: who is best is there a matter of each node's own
table, and who else is on the way a matter of waits.

`FailureDetector` has the threads in detail, with ages in place of time stamps,
and `dara1C` reduced to its duration. A difference of time stamps is taken
modulo a day, as the field `seconds` of a Python `timedelta` is. The two
modules meet where `Detect` and `Suspect` stand for a check that finds a link silent.

`MoveToLocation` counts places in half tiles and time in eightieths of a second,
so that 1.575 s, 1.05 s and 0.7875 s are whole numbers.

## 3. Runs

Bounds are in the `.cfg` files and named in the modules.

| Run | Shows | Bounds, and why they are enough |
|---|---|---|
| `trust_table` | refinement of `TrustStore`, time stamps, purge | three addresses: a purge can meet a record, step over one and leave one; life time 1 in a clock of 0 to 3: records outdated and fresh at once |
| `trust_manager` | agreement of table and counters, callbacks | two managers, two devices, two senders; counters modulo 3 so that they wrap; life time 0, which is what the code leaves `m_lifeTime` at |
| `aodv_node` | replies, hellos, requests and data under the three protocols | two neighbours, a destination behind them that also sends requests, and a mere origin; two managers, ratings 0 and 2/5 (and none, which counts as 1/2): both sides of the threshold, and averages below it that differ; sequence numbers 7 and 0 modulo 8: both sides of the wrap; hop counts 0 and 2: shorter, equal and longer. `Bound` keeps records, expired neighbours and a reverse route from all occurring at once, up to three of the first two |
| `trust_node` | manager and protocol together | one manager, one device, two neighbours; counters modulo 4, so that ratings on both sides of 1/2 and equal ones occur; a reply is counted once per neighbour (`Bound`), which is enough for a suspicious neighbour and a less suspicious one; a clock of 0 and 1, so that a purge at the stop meets outdated and fresh records |
| `example_script` | helpers | the example for 50, 55 and 100 s, with its prints, and without: before, at and after the events of interest; free scripts of up to six calls on two nodes with eleven kinds of calls, enough to install a list, assign streams twice and print before and after |
| `dara_agreeing` | one replacement, the best | the seven shipped nodes, with the degrees in `e4.json` put right; one death, skew 5, nobody disturbed. With two deaths the hypothesis on the drives is not met (section 5) |
| `dara_losses` | refinement of `Succession`; what disturbances cost; recoveries end | a hub and five others on a line, so that two recoveries can overlap; drives of 2, 3 and 4 ticks, each tick for the five seconds between two polls, and skew 1; two deaths, a lost message and a suspicion of a node that lives: together they can make the node give up a replacement that lives and one that died |
| `failure_detector` | suspicion | the code's 5, 10 and 5 seconds; two links, so that one holds up the other; ages up to one more than the bound in `SilenceIsNoticed` |
| `drives` | the drive | all quadrants, whole and half tiles; the drives that the shipped positions lead to and, to the east, north and south, all from two and a half to seven tiles |

Deadlock is checked except where a run comes to an end: the managers' clock and
their stops, recoveries that are over, drives that are done, scripts that have returned.

The other three runs each show one statement of the repository's texts
violated; section 5 lists them.

## 4. Fairness

Liveness is claimed twice. In `TrustTable` a purge that has begun goes on
(`WF_vars(Purge)`): the simulator runs one event at a time, and nothing can
stop a loop in it. In `Dara` time passes and what is due is done
(`WF_vars(Progress)`): threads run and sleeps end. Nothing is assumed about
deaths, losses and mistakes (`Suspect`, like `Crash`, is not in `Progress`), and none
happens for ever because of their bounds.
`FailureDetector` states its promptness as safety, by the ages, and needs none.

## 5. Results

What holds, by model checking:

- The table implements `TrustStore`, a purge being one step of it, as long as
  one looks at the records that are kept; but see the first finding.
- Managers: agreement of ratings and counters, one listener on all devices, no
  stopped manager that listens or rates, and ratings that follow conduct, until
  a counter wraps.
- Routing: `RoutesMoveToTrust`, `RepliesKeepRoutes`, `SearchesHaveTimers`,
  `SeqnosGoForward`, `NeverAdvertisesShorter`, `RepliesLeaveBetterRoute`,
  `HellosRenewUnlessDistrusted`. The last says
  what becomes of a hello of a distrusted neighbour: it is discarded, and the
  route to that neighbour is not renewed by it. `RoutesMoveToTrust` is about
  replies: requests are handed to ns-3 unweighed (`trust-aodv-routing-protocol.cc:102`),
  and a fresh request of d's own moves a valid route to d to whoever passed it on,
  trusted or not. The property names that step, `AskedBy`, and excepts no other.
- The trust node: it implements `AodvNode`, so that the theorems about that
  module are about nodes with real managers; without a started manager it is a
  plain AODV node; with one, a route moves to a suspicious neighbour only from
  a more suspicious one, or at a request of its destination's own.
- Helpers: each manager prints as often as it was asked to, streams are never
  shared, and after 50 s nobody but nodes 5 and 6 of the example pings. Those
  two do: their pings start at 50 s and 60 s, after the stop that was scheduled
  for 49.999 s (`trust-aodv-example.cc:278`), and go on to the end.
- DARA-1C, where the nodes' tables agree and drives are long (both proved for
  all such files): the recovery implements `Succession`, and until a message is
  lost or somebody who lives is suspected, one robot goes to the place of the dead,
  and the best. After that more may meet: at most one more for every lost message
  and every suspicion (`FewAtOnePlace`, checked on a star). Recoveries end, nobody is
  listed where it did not arrive, and a dead cut vertex is replaced or no longer
  counted as one, disturbed or not.
- Detection: every suspicion is explained by silence or by a heartbeat after
  the pass began; no silence goes unnoticed longer than two passes and a pause.
- Drives: the robot ends at the place of the dead node, looking east, and on
  the drives of `drives` it does so before the others give it up.

What does not, each shown by a run of its own:

| Run | Text | Code |
|---|---|---|
| `purge_spins` | `trust-table.h:115`, "Delete all outdated entries" | `Purge` loops for ever at a record that is not outdated |
| `rated_zero_is_unrated` | `trust-aodv-routing-protocol.cc:190`, the four cases | the average is left at 0.5 when the sum is 0: a next hop that all managers rate 0 is treated as one at the threshold |
| `slow_pass_suspects` | `pyDara.py:102`, "if delta is more than 2 * HB_interval" | a heartbeat stamped after the pass began gives a negative difference, whose `seconds` are a day less a second |

The property of the last run holds with `Lag` 0, when a pass takes no time;
`SuspicionIsExplained` is what is left of it when it takes some.

Other differences that the models show when a run's bounds or inputs are
changed, and that no run is spent on:

- `SimpleAodvTrustManager`: the first request of a node that has replied twice
  raises its rating from 1/2 to 2/3 (`simple-aodv-trust-manager.cc:150`), and
  the counters, 16 bits wide, go back to 0 (`aodv-trust-entry.cc:80`). This is
  why `RatingsFollowConduct` is about later requests and counters that grew.
- `AodvNode`: the malicious protocol sends the hop count 1
  (`malicious-aodv-routing-protocol.cc:257`), where `trust-aodv.rst:55` has it
  reduced by one; the selfish one sends the true count, where the comment in
  `selfish-aodv-routing-protocol.h:60` has a forged one.
- `AodvHelpers`: `trust-aodv.rst:59` has helpers for the overridden protocols
  and says the example uses them; `TrustAodvHelper` creates ns-3's plain
  `aodv::RoutingProtocol` (`trust-aodv-helper.cc:35`), so that the example rates
  nodes and weighs no trust, and `TrustNode` is not what it runs.
- `TrustNode`: a message of a type that AODV does not have is dropped by the
  protocol and counted as a request by the manager
  (`simple-aodv-trust-manager.cc:90` reads the type without asking whether it
  is valid).
- `Dara`: with `e4.json` as shipped, `e4` finds itself the best candidate for
  `e1` and the others find `e5`, and two nodes drive there. A node that has
  moved keeps its old coordinates in its table (`pyDara.py:559`). If it did not
  list the dead node last, it deletes the wrong second-hop link and stays among
  its own neighbours (`pyDara.py:549`). If its new neighbour is itself a cut
  vertex, the update of the table ends its thread with an exception
  (`pyDara.py:551`): the hub of `dara_losses` has no such neighbour. And where
  a drive takes no longer than neighbours can notice a death apart, the first
  gives up a candidate that is under way (`LongDrives`, section 6): so in the
  shipped files, when two nodes die and five seconds lie between the polls of
  the others, since the second drive to the place of `e1` is reckoned at 10 s,
  no more than twice those five.
- `MoveToLocation`: the drive from `e2` to `e1` is reckoned at 8 s and takes
  14.85 s (`pyDara.py:302`); for one tile to the east the others wait 4 s and
  the robot needs 6.075 s (`pyDara.py:246`). `WaitOutlastsDrive` is therefore
  about drives of some length.

## 6. Proofs

The theorems hold for every value of the constants that the named assumptions
of the modules allow.

`TrustTable_proofs` begins with lemmas about the operations on the map, and
`SimpleAodvTrustManager_proofs` with those that the managers and the routing
protocols need. For the table the inductive invariant is `TypeOK`, `StampedInThePast`,
`IteratorCoversRecords` and `IteratorOK`, which says that the iterator is never
among the keys still to come and that outside the loop there are none. Without
it an erase could take away a key that the iterator would meet again. From it
follow `PurgeEndsEmpty` and, as an action property, `PurgeTakesOnlyOutdated`.
`Implements` is the refinement of `TrustStore`: the outdated records are out of
sight from the first step of the loop, an erase takes away nothing that is in
sight, and by `PurgeEndsEmpty` nothing comes back into sight at the end.

`SimpleAodvTrustManager_proofs`: the invariants of the run, strengthened by
`NewManagersKnowNobody`. Without it a start could turn counters that have no
record into a disagreement. `RatingsFollowConduct` is proved from it and a
lemma on quotients, `RatioOrder`; `StoppedRateNobody` from the fact that a purge
that comes back leaves no record.

`AodvNode_proofs`: `TypeOK` and `SearchesHaveTimers`, strengthened by
`LeadsToNeighbor`: every route leads to a neighbour unless it is being searched,
so that a reply that travels on has a receiver. Lemmas say what a reply
(`ReplyRoutes`), a request, a report of errors and the route to a neighbour can
do to a table. `TrustMovesUp` and `KeepsRoutes` go through the four cases of
the decision, the former also through the requests, of which only d's own, not seen
before, moves the route to d; `BetterRoutesStay` and `HonestCounts` through the circumstances
in which an entry is updated, hop counts that wrap included; `HellosRenew`
rests on both sides of the decision being the same neighbour. `SeqnosForward` needs that the
average of a neighbour's ratings is a number and that it is not below itself.
The sum of ratings is a fold, for which the library has no induction that the
prover can use; `Induction`, `SumType` and `SumOf` do it for finite sets of managers
(`ManagerAssumption`) by a smallest counterexample.

`TrustNode_proofs`: `Implements` says that a trust node with its managers
implements `AodvNode`, so that the theorems above are about it, too. The
invariant is that counters and records are well formed, that nobody but
neighbours is on record, and that the frame that waits for the callback came
from one. A callback is then a `Rate` with a rating that counters give, a start
or a stop is a `Forget`, since a purge only drops records, and a step that
`AodvNode` does not see is a `Forget` of nothing, for which there must be a
manager (`ManagerAssumption`). `ManagersImplemented` is the other half: such a
node also implements `SimpleAodvTrustManager`. So the invariants of both modules
hold of it, and the proof takes them from the instances of the two proof modules,
whose assumptions it shows first. `PlainAodv` rests on the next hops of
`AodvNode`'s invariant and on the average of no ratings; `ConductDecides` on the
agreement of table and counters, and on what an average of one rating is.

`FailureDetector_proofs`: `TypeOK`, strengthened by the fact that a recovery is
under way for a link that exists, and `SuspicionIsExplained`, which rests on
the arithmetic of a difference modulo a day: if the age is not below that of
the pass, the difference is itself. `SilenceNoticed` bounds the length of a pass
by the recoveries it has begun, one for each cut vertex among the links it is
through with (`PassBounded`), and the age of every link that is not suspected
by where the pass is (`AgeBounded`). Its hypothesis is that the threshold, a pass
and a sleep together take less than a day (`RoundFitsInDay`): after longer
silences `delta.seconds` starts again from 0. It uses that a neighbor is in the
table once.

`Dara_proofs`: `TypeCorrect` says for any files that the stable sorts have a
first element, that its place is found in the tables, and that an update leaves
a table; its invariant adds to `TypeOK` that nobody waits for itself and that a
table is uniform, that is, all of its entries have links or none has
(`Uniform`): where a node has moved, the new entries have none, and a search of
them raises an exception. The next two theorems are about files with one cut
vertex (`OneCutVertex`): the others have at most two neighbors and are no
neighbors of each other, as in `pyDARA/configs`. Their invariant, `HubInv`, is
that in a table one entry at most is at the place of the cut vertex, that no other
has many links and that its candidates are listed nowhere else (`Tidy`), that
only a node that stands there has sent a message, and that a node that waits
does so for that place. Then a message that is found says the truth, whatever is
lost and whoever is suspected. Without a message the best candidate becomes the dead node of the next
round, and the list is not yet final. `NoException` further asks that the
neighbors list the cut vertex last (`ListedLast`, and `LastInv`): only then the index that
`updateTwoHopTable` takes from the links of the last neighbor fits the entry of the
dead one.

`OneAtEachPlace`, `BestLivingMoves` and `OnlyTheDeadAreGivenUp` are about files that
also agree on the neighbors of the cut vertex, down to their degrees
(`Agreement`), so that all order them alike and no two are equal, and for drives
that are long (`LongDrives`): the i-th replacement takes longer than i times `Skew`.
What they say, they say while the nodes are `Undisturbed`. TLC shows that the drives
matter: in `HubLast` the first takes two ticks, and with a `Skew` of two, even
undisturbed and with one death, two nodes meet at the place of the hub; with a
`Skew` of one they do not. A neighbor that has noticed last arrives when the
first to notice has ended its wait. The invariant, `Chase`, counts for every neighbor
the replacements that it believes in. Its table then is its file but for the last
entry, which bears the name of the replacement, has that many links less and as
candidates those that come after (`Shape`), so that the next in order is its best
(`ShapeBest`). A node in a recovery has seen all earlier ones die (`DeadUpTo`). What
makes it inductive is a bound on how far two neighbors can be apart in a recovery,
in rounds and in seconds (`InStep`): it grows by at most `Skew` with every
replacement, and a wait doubles the drive, so that nobody ends a wait while a
living candidate is under way (`RoundOver`), or before its message (`Heard`,
`InVain`). Since the dead are at most `MaxCrashes`, only the first `MaxCrashes` drives
need be long (`DriveExceeds`). TLC checked `Chase` on the instance of `MCDara` before
it was proved. The first lost message or false suspicion ends it, for good
(`StaysDisturbed`); hence the invariant, `Chasing`, is that `Chase` holds of a history
that is undisturbed.

`Implements` is the refinement of `Succession`, for every set of files that satisfies these
hypotheses and any number of losses and mistakes. A round of the loop that ends in a drive
is a `SetOut`, one that ends in a wait is not seen or a `Disturb`, `Arrive` is a `GetThere`
and a death a `Die`. That a robot sets out once, and from home, is an invariant of all
histories, `Once`: a node in a recovery is still at home, and a node that has left it has
a table without second hops, in which it finds no cut vertex. While undisturbed, `Chase`
says that the hub is dead; that nobody else is there or heading there, and that nobody
better lives, is said by the two theorems above of the state after the step. The other
robots do not change their minds in it, so that it held before, as `SetOut` asks.

`MCDara` has the hypotheses as an `ASSUME`, so that TLC finds those on the files true
of both sets of files it is given, and that on the drives of `pyDARA/configs`. The shipped degrees of `e4.json`
satisfy `OneCutVertex` and `ListedLast`, too, but not `Agreement`: they exchange
those of `e2` and `s2`, and two nodes drive to the place of `e1` (section 5).

`MoveToLocation_proofs`: a drive is an opening, two legs and a closing; a leg is
turns, tiles, half tiles and turns. The invariant (`DriveInv`) is that the
straight line that is left of a leg ends at its end, that the turns that are left
end in the east, and that the time that is left is what is missing from the whole.
`Arrives` follows for all drives. `WaitIsExact` settles which drives are long
enough for the wait, to the half tile: to the north west it takes nine half tiles,
and there an eightieth of a second decides. `MCMoveToLocation` has the hypothesis of
`WaitLongEnough` as an `ASSUME` about the drives it is given.

`TrustAodvExample_proofs` is about the helpers and the script. `Typed` says what
the nodes and the queue of events are made of. It needs that the events ever
scheduled have different numbers (`Numbered`), so that the next event is one and not
several. `StreamsAreAlwaysSeparate` strengthens the property by `StreamsApart`:
the streams given away lie below the next one. `PrintsAreAlwaysComplete` and the
first are about every script, the free ones included. `PrintsOK` counts, for every
request and node, how often it has printed (`PrintedTimes`): each time a line for
each of its managers, and the next print is in the queue for the time after that,
or, if it was not to repeat, there is none. That no print comes too early follows
from the number of prints, that none is late from the queue, whose earliest event is
always next. `LateStartersAlonePing` says of the example script, for all its arguments (`ScriptsAreExamples`), that
nobody pings after 50 s but those who began too late to be stopped: `AppsOK` says of an
application of an initialized node that is to start before it stops that its start is
in the queue while it is new, and its stop until it has stopped; `ExamplePings` lists
the pings that the script sets up. The pings, and the events of a node that is
initialized, are a concatenation of sequences, a recursion for which the library has no
induction that the prover can use: `FlattenJoins` goes by a least counterexample
instead.

Model-checked only: the liveness properties `RecoveriesEnd`,
`CutVerticesAreReplaced` and `PurgeOfOutdatedReturns`, since the prover does not
do fairness. So is `FewAtOnePlace`. All other properties of the passing runs are theorems. Where nodes
are disturbed what is proved is the types, the truth of the lists, the absence of
exceptions and that robots move once; where tables disagree, the first three of these.

## 7. Not modelled

The format of printed tables; `GetTrust` in `trust-manager-helper.h:145`, which
returns nothing because of a variable that shadows another (line 152): it has
no state, and no caller; the attributes that the helpers hand on to ns-3;
places, radio, addresses and traces of the example; the emulation script
(`scratch/tap-wifi-virtual-machine.cc`), which only makes calls of ns-3's
set-up; the container scripts; the HTTP endpoints; the serial protocol of the
robot and the sensors that are not read; the packet replay script; the text
form of messages and time stamps. `childMoveOptimizer` is empty in the code: the
neighbours that a replacement leaves behind are not told, and nothing is
claimed about them.

## 8. Plan

Written so far, in this order: trust table, managers, routing of one node,
DARA-1C, failure detection, the drive; then the other messages and data packets
of the routing protocols, the trust node, the helpers and the example; last the
abstract recovery.

Left to model:

1. `AodvNetwork`: several `AodvNode`s that exchange replies, some malicious or
   selfish; whether routes form loops, with `DeleteRoute` in the decision
   forgetting sequence numbers.
2. `Dara` with `FailureDetector` in place of `Detect` and `Suspect`, on three nodes.

Left to prove: `FewAtOnePlace`, the number of robots that a disturbed recovery sends to one
place.
