----------------------------- MODULE Discovery ------------------------------
(***************************************************************************)
(* The registry of nodes that the bootstrap nodes keep                     *)
(* (src/discovery/DiscoveryService.ts).  Every bootstrap node holds the    *)
(* list in memory; it learns of nodes from the registrations sent to it,   *)
(* from gossip about registrations and deletions (libp2p pubsub), and from *)
(* the lists that two bootstrap nodes send each other when they connect.   *)
(* A cron job asks every listed node for its status and deletes those that *)
(* do not answer.                                                          *)
(*                                                                         *)
(* A list is modelled as the set of its ids.  The status of an id is asked *)
(* from the address it was registered with, so what answers is whatever    *)
(* process of that node runs at the time, under that id or a later one.    *)
(***************************************************************************)
EXTENDS Naturals, Relation

CONSTANTS
  Bootstraps,   \* bootstrap nodes
  Others,       \* nodes that register at a bootstrap node
  Ids,          \* ids of registrations; uuid/v4 draws each at most once
  None,         \* no id, no node
  EmitSelf,     \* does pubsub deliver a message to its own publisher?
  Flaky,        \* may the status request to a running node fail?
  MaxBreaks,    \* how often a link breaks at most (a bound)
  MaxStarts     \* how often the process of a node starts at most (a bound)

ASSUME DiscoveryAssumption ==
  /\ Bootstraps \cap Others = {}
  /\ None \notin Bootstraps \cup Others \cup Ids
  /\ EmitSelf \in BOOLEAN
  /\ Flaky \in BOOLEAN
  /\ MaxBreaks \in Nat
  /\ MaxStarts \in Nat

Nodes == Bootstraps \cup Others

VARIABLES
  phase,            \* how far the process of each node is
  starts,           \* how often it has started
  nodeId,           \* the id it is registered under in this life
  owner,            \* the node each drawn id belongs to
  home,             \* the bootstrap node that took a registration, while it lives
  registeredNodes,  \* the list of each bootstrap node
  scan,             \* the run of checkNodesStatus in progress, if any
  links,            \* pairs of connected bootstrap nodes
  breaks,           \* how often a link has broken
  dialing,          \* <<b, c>>: b, connected to c, is dialing it to send its list
  lists,            \* lists on their way
  gossip,           \* pubsub messages on their way
  timers,           \* deletion messages whose three seconds are running
  doomed            \* ids of which a status check failed or whose node said goodbye

process == <<phase, starts, nodeId, owner, home>>
network == <<links, breaks, dialing, lists, gossip>>
vars == <<process, registeredNodes, scan, network, timers, doomed>>

Idle == [on |-> FALSE, left |-> {}, down |-> {}, same |-> FALSE]

Message == [topic : {"node_registration", "node_deletion"}, id : Ids \cup {None},
            to : Bootstraps]

TypeOK ==
  /\ phase \in [Nodes -> {"off", "starting", "joined", "up"}]
  /\ starts \in [Nodes -> 0 .. MaxStarts]
  /\ nodeId \in [Nodes -> Ids \cup {None}]
  /\ owner \in [Ids -> Nodes \cup {None}]
  /\ home \in [Ids -> Bootstraps \cup {None}]
  /\ registeredNodes \in [Bootstraps -> SUBSET Ids]
  /\ scan \in [Bootstraps -> [on : BOOLEAN, left : SUBSET Ids, down : SUBSET Ids,
                              same : BOOLEAN]]
  /\ links \subseteq SUBSET Bootstraps
  /\ breaks \in 0 .. MaxBreaks
  /\ dialing \subseteq Bootstraps \X Bootstraps
  /\ lists \subseteq [from : Bootstraps, to : Bootstraps, ids : SUBSET Ids]
  /\ gossip \subseteq Message
  /\ timers \subseteq Message
  /\ doomed \subseteq Ids

Init ==
  /\ phase = [n \in Nodes |-> "off"]
  /\ starts = [n \in Nodes |-> 0]
  /\ nodeId = [n \in Nodes |-> None]
  /\ owner = [i \in Ids |-> None]
  /\ home = [i \in Ids |-> None]
  /\ registeredNodes = [b \in Bootstraps |-> {}]
  /\ scan = [b \in Bootstraps |-> Idle]
  /\ links = {}
  /\ breaks = 0
  /\ dialing = {}
  /\ lists = {}
  /\ gossip = {}
  /\ timers = {}
  /\ doomed = {}
-----------------------------------------------------------------------------
(***************************************************************************)
(* Helpers.                                                                *)
(***************************************************************************)
\* bootstrapNodeStarted: the node is subscribed and has its stream handler.
Started(b) == phase[b] \in {"joined", "up"}

\* <<b, c>>: a message of b reaches c, as subscribed nodes relay it over their links.
Reaches == TransitiveClosure(
  [p \in Bootstraps \X Bootstraps |-> Started(p[2]) /\ {p[1], p[2]} \in links], Bootstraps)

\* Who gets what b publishes by pubsub.
Audience(b) == {c \in Bootstraps \ {b} : Reaches[<<b, c>>]} \cup (IF EmitSelf THEN {b} ELSE {})

\* Mutant: the message is built before the id is known.
PublishedWithoutId(topic, ids, b) == {[topic |-> topic, to |-> c] : c \in Audience(b)}

\* Messages with the same content that are on their way to the same node at the
\* same time count as one: carrying them out twice is no different.
Published(topic, ids, b) ==
  {[topic |-> topic, id |-> i, to |-> c] : i \in ids, c \in Audience(b)}

\* Mutant: the list that arrives replaces the node's own.
MergedReplacing(b, ids) == ids

\* What the handler of /node_list_retrieval/1.0.0 makes of b's list.
Merged(b, ids) == registeredNodes[b] \cup ids

\* Mutants: nodes are removed by their address; by gossip only.
RemainingByAddress(b, down) ==
  {i \in registeredNodes[b] : \A j \in down : owner[i] # owner[j]}
RemainingByGossip(b, down) == registeredNodes[b]

\* What the scan leaves of b's list as it is after the awaits.
Remaining(b, down) == registeredNodes[b] \ down

\* The list becomes a new array: a scan s in progress goes on over the old one.
Detached(s) == [s EXCEPT !.same = FALSE]

Replace(b, ids) ==
  /\ registeredNodes' = [registeredNodes EXCEPT ![b] = ids]
  /\ scan' = [scan EXCEPT ![b] = Detached(@)]

\* An id is pushed on the array that a scan s in progress may be going over.
Grown(s, id) == IF s.on /\ s.same THEN [s EXCEPT !.left = @ \cup {id}] ELSE s

Push(b, id) ==
  /\ registeredNodes' = [registeredNodes EXCEPT ![b] = @ \cup {id}]
  /\ scan' = [scan EXCEPT ![b] = Grown(@, id)]

\* The process of n ends: what it kept in memory and its connections are gone.
Stop(n) ==
  /\ phase' = [phase EXCEPT ![n] = "off"]
  /\ nodeId' = [nodeId EXCEPT ![n] = None]
  /\ home' = [i \in Ids |-> IF home[i] = n THEN None ELSE home[i]]
  /\ registeredNodes' = [b \in Bootstraps |-> IF b = n THEN {} ELSE registeredNodes[b]]
  /\ scan' = [b \in Bootstraps |-> IF b = n THEN Idle ELSE scan[b]]
  /\ links' = {l \in links : n \notin l}
  /\ dialing' = {d \in dialing : n \notin {d[1], d[2]}}
  /\ lists' = {m \in lists : n \notin {m.from, m.to}}
  /\ timers' = {m \in timers : m.to # n}
  /\ UNCHANGED <<starts, owner, breaks>>
-----------------------------------------------------------------------------
(***************************************************************************)
(* Starting a node.  The hooks of onApplicationBootstrap run before        *)
(* app.listen opens the HTTP port.                                         *)
(***************************************************************************)
Start(n) ==
  /\ phase[n] = "off"
  /\ starts[n] < MaxStarts
  /\ starts' = [starts EXCEPT ![n] = @ + 1]
  /\ phase' = [phase EXCEPT ![n] = "starting"]
  /\ UNCHANGED <<nodeId, owner, home, registeredNodes, scan, network, timers, doomed>>

\* libp2pNode.start() resolved: the stream handler and the subscriptions are
\* set, and bootstrapNodeStarted.
Join(b) ==
  /\ phase[b] = "starting"
  /\ phase' = [phase EXCEPT ![b] = "joined"]
  /\ UNCHANGED <<starts, nodeId, owner, home, registeredNodes, scan, network, timers, doomed>>

\* registerSelf of a bootstrap node only publishes.
RegisterSelf(b, id) ==
  /\ phase[b] = "joined"
  /\ nodeId[b] = None
  /\ owner[id] = None
  /\ owner' = [owner EXCEPT ![id] = b]
  /\ nodeId' = [nodeId EXCEPT ![b] = id]
  /\ gossip' = gossip \cup Published("node_registration", {id}, b)
  /\ UNCHANGED <<phase, starts, home, registeredNodes, scan, links, breaks, dialing, lists,
                 timers, doomed>>

\* Mutant: the bootstrap node leaves it to pubsub to tell itself.
TakeRegistrationByGossip(b, id) ==
  /\ home' = [home EXCEPT ![id] = b]
  /\ gossip' = gossip \cup Published("node_registration", {id}, b)
  /\ UNCHANGED <<registeredNodes, scan>>

\* POST nodes, as the bootstrap node b handles it: a node with a new id is
\* listed, and the others are told.
TakeRegistration(b, id) ==
  /\ home' = [home EXCEPT ![id] = b]
  /\ Push(b, id)
  /\ gossip' = gossip \cup Published("node_registration", {id}, b)

\* registerSelf of another node, at the bootstrap node b that it chose, with its
\* answer.
RegisterNode(s, b, id) ==
  /\ phase[s] = "starting"
  /\ nodeId[s] = None
  /\ phase[b] = "up"
  /\ owner[id] = None
  /\ owner' = [owner EXCEPT ![id] = s]
  /\ nodeId' = [nodeId EXCEPT ![s] = id]
  /\ TakeRegistration(b, id)
  /\ UNCHANGED <<phase, starts, links, breaks, dialing, lists, timers, doomed>>

\* The HTTP port is open.
Listen(n) ==
  /\ phase[n] = IF n \in Bootstraps THEN "joined" ELSE "starting"
  /\ nodeId[n] # None
  /\ phase' = [phase EXCEPT ![n] = "up"]
  /\ UNCHANGED <<starts, nodeId, owner, home, registeredNodes, scan, network, timers, doomed>>

\* The process dies, or its start fails because no bootstrap node answers.
Crash(n) ==
  /\ phase[n] # "off"
  /\ Stop(n)
  /\ gossip' = {m \in gossip : m.to # n}
  /\ UNCHANGED doomed

\* onApplicationShutdown: a bootstrap node announces its deletion and stops; a
\* node that has no id yet announces that of nobody.
Shutdown(b) ==
  /\ Started(b)
  /\ Stop(b)
  /\ gossip' = {m \in gossip \cup Published("node_deletion", {nodeId[b]}, b) : m.to # b}
  /\ doomed' = doomed \cup ({nodeId[b]} \ {None})
-----------------------------------------------------------------------------
(***************************************************************************)
(* Messages between bootstrap nodes.                                       *)
(***************************************************************************)
\* peer:connect is emitted on both sides.
Connect(b, c) ==
  /\ b # c
  /\ "off" \notin {phase[b], phase[c]}
  /\ {b, c} \notin links
  /\ links' = links \cup {{b, c}}
  /\ dialing' = dialing \cup {<<b, c>>, <<c, b>>}
  /\ UNCHANGED <<process, registeredNodes, scan, breaks, lists, gossip, timers, doomed>>

\* dialProtocol resolves when the other side has its handler, and the list is
\* read then; otherwise it rejects and nothing is sent.
SendList(b, c) ==
  /\ <<b, c>> \in dialing
  /\ dialing' = dialing \ {<<b, c>>}
  /\ lists' = IF Started(c)
              THEN lists \cup {[from |-> b, to |-> c, ids |-> registeredNodes[b]]}
              ELSE lists
  /\ UNCHANGED <<process, registeredNodes, scan, links, breaks, gossip, timers, doomed>>

\* The handler of /node_list_retrieval/1.0.0 appends the list to its own.
ReceiveList(m) ==
  /\ m \in lists
  /\ lists' = lists \ {m}
  /\ Replace(m.to, Merged(m.to, m.ids))
  /\ UNCHANGED <<process, links, breaks, dialing, gossip, timers, doomed>>

\* The node is pushed on the list, and the list made unique by id: a new array.
ReceiveRegistration(m) ==
  /\ m \in gossip /\ m.topic = "node_registration"
  /\ gossip' = gossip \ {m}
  /\ registeredNodes' = [registeredNodes EXCEPT ![m.to] = @ \cup {m.id}]
  /\ scan' = [scan EXCEPT ![m.to] = Detached(Grown(@, m.id))]
  /\ UNCHANGED <<process, links, breaks, dialing, lists, timers, doomed>>

\* A deletion is carried out three seconds later.
ReceiveDeletion(m) ==
  /\ m \in gossip /\ m.topic = "node_deletion"
  /\ gossip' = gossip \ {m}
  /\ timers' = timers \cup {m}
  /\ UNCHANGED <<process, registeredNodes, scan, links, breaks, dialing, lists, doomed>>

DeletionTimeout(m) ==
  /\ m \in timers
  /\ timers' = timers \ {m}
  /\ Replace(m.to, registeredNodes[m.to] \ {m.id})
  /\ UNCHANGED <<process, network, doomed>>

\* A link breaks, with the lists on it.  (A pubsub message that is lost is one
\* that never arrives.)
BreakLink(l) ==
  /\ l \in links
  /\ breaks < MaxBreaks
  /\ breaks' = breaks + 1
  /\ links' = links \ {l}
  /\ dialing' = {d \in dialing : {d[1], d[2]} # l}
  /\ lists' = {m \in lists : {m.from, m.to} # l}
  /\ UNCHANGED <<process, registeredNodes, scan, gossip, timers, doomed>>
-----------------------------------------------------------------------------
(***************************************************************************)
(* checkNodesStatus: once a minute, never twice at a time.                 *)
(***************************************************************************)
StartScan(b) ==
  /\ Started(b)
  /\ ~scan[b].on
  /\ registeredNodes[b] # {}
  /\ scan' = [scan EXCEPT ![b] = [on |-> TRUE, left |-> registeredNodes[b],
                                  down |-> {}, same |-> TRUE]]
  /\ UNCHANGED <<process, registeredNodes, network, timers, doomed>>

\* The GET of the status of id ends: the ids it adds to those to be removed.
StatusOf(id) ==
  (IF phase[owner[id]] = "up" THEN {{}} ELSE {{id}}) \cup (IF Flaky THEN {{id}} ELSE {})

\* One status request of the loop.
Asked(s, id, new) == [s EXCEPT !.left = @ \ {id}, !.down = @ \cup new]

CheckNode(b, id) ==
  /\ scan[b].on
  /\ id \in scan[b].left
  /\ scan[b].left # {id}
  /\ \E new \in StatusOf(id) :
       /\ scan' = [scan EXCEPT ![b] = Asked(@, id, new)]
       /\ doomed' = doomed \cup new
  /\ UNCHANGED <<process, registeredNodes, network, timers>>

\* The last one: the nodes that are down are removed from the list as it now
\* is, and their deletion is published.
CheckLastNode(b, id) ==
  /\ scan[b].on
  /\ scan[b].left = {id}
  /\ \E new \in StatusOf(id) :
       LET down == scan[b].down \cup new IN
       /\ registeredNodes' = [registeredNodes EXCEPT ![b] = Remaining(b, down)]
       /\ gossip' = gossip \cup Published("node_deletion", down, b)
       /\ doomed' = doomed \cup new
  /\ scan' = [scan EXCEPT ![b] = Idle]
  /\ UNCHANGED <<process, links, breaks, dialing, lists, timers>>

Scanning(b) == \E id \in Ids : CheckNode(b, id) \/ CheckLastNode(b, id)

Delivery ==
  \/ \E m \in gossip : ReceiveRegistration(m) \/ ReceiveDeletion(m)
  \/ \E m \in lists : ReceiveList(m)

Next ==
  \/ \E n \in Nodes : Start(n) \/ Listen(n) \/ Crash(n)
  \/ \E b \in Bootstraps : Join(b) \/ Shutdown(b) \/ StartScan(b) \/ Scanning(b)
  \/ \E b \in Bootstraps, id \in Ids : RegisterSelf(b, id)
  \/ \E s \in Others, b \in Bootstraps, id \in Ids : RegisterNode(s, b, id)
  \/ \E b, c \in Bootstraps : Connect(b, c) \/ SendList(b, c)
  \/ \E m \in timers : DeletionTimeout(m)
  \/ \E l \in links : BreakLink(l)
  \/ Delivery

Spec == Init /\ [][Next]_vars

\* Messages arrive, timers fire, the cron job runs, status requests end.
FairSpec ==
  /\ Spec
  /\ \A m \in Message : /\ WF_vars(ReceiveRegistration(m))
                        /\ WF_vars(ReceiveDeletion(m))
                        /\ WF_vars(DeletionTimeout(m))
  /\ \A b \in Bootstraps : WF_vars(StartScan(b)) /\ WF_vars(Scanning(b))
-----------------------------------------------------------------------------
(***************************************************************************)
(* Properties.                                                             *)
(***************************************************************************)
\* However registrations, gossip, list exchanges, scans, deletion timers and the
\* ends of processes interleave, the bootstrap nodes implement the registry: one
\* that stays alive drops an id only if a status check of it failed somewhere, or
\* its node said goodbye (the scan removes from the list as it is after its
\* awaits, not from the array it went over), and lists only registered ids.
Drawn == {i \in Ids : owner[i] # None}

Registry == INSTANCE Registry WITH
  Keepers <- Bootstraps, issued <- Drawn, listed <- registeredNodes

RegistrySpec == Registry!Spec

\* A node that runs, whose registration was taken by a bootstrap node that has
\* not stopped since, is in the list of that bootstrap node, unless a status
\* check of it failed.
RegistrationIsKept ==
  \A s \in Others :
    phase[s] = "up" /\ nodeId[s] \notin doomed =>
      LET b == home[nodeId[s]] IN b # None => nodeId[s] \in registeredNodes[b]

\* A node that has ceased to answer for good leaves the list of every bootstrap
\* node that stays: gossip and the lists of peers may bring it back, the scans
\* outlast them.  (A node that runs again at its address, under another id, has
\* not ceased to answer.)
DeadNodesLeave ==
  \A b \in Bootstraps, id \in Ids :
    (<>[](owner[id] # None /\ phase[owner[id]] # "up") /\ <>[](phase[b] = "up"))
      => <>[](id \notin registeredNodes[b])

\* readme.md: a node registers itself "so that other nodes can make requests to
\* it": a node that runs is in the list of the bootstrap node that took its
\* registration and has not stopped since.
RunningNodeIsListed ==
  \A s \in Others :
    phase[s] = "up" =>
      LET b == home[nodeId[s]] IN b # None => nodeId[s] \in registeredNodes[b]
=============================================================================
