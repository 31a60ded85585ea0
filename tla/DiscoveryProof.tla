--------------------------- MODULE DiscoveryProof ---------------------------
(***************************************************************************)
(* Proofs about Discovery, for every set of bootstrap nodes, other nodes   *)
(* and ids, with any number of starts and broken links.                    *)
(*                                                                         *)
(* The inductive invariant follows an id wherever it travels: what a list, *)
(* a message or a scan in progress knows was drawn, and what a scan, a     *)
(* message or a timer is about to remove is doomed.                        *)
(***************************************************************************)
EXTENDS Discovery, TLAPS

USE DEF process, network, vars, Nodes

\* A scan that knows some ids, and is to remove some.
ScanOf(known, down) == {s \in [on : BOOLEAN, left : SUBSET Ids, down : SUBSET Ids,
                               same : BOOLEAN] : s.left \subseteq known /\ s.down \subseteq down}

\* The id a node has was drawn, and a node that runs has one.
ProcessOK ==
  /\ phase \in [Nodes -> {"off", "starting", "joined", "up"}]
  /\ starts \in [Nodes -> 0 .. MaxStarts]
  /\ nodeId \in [Nodes -> Ids \cup {None}]
  /\ owner \in [Ids -> Nodes \cup {None}]
  /\ home \in [Ids -> Bootstraps \cup {None}]
  /\ \A n \in Nodes : nodeId[n] \in Drawn \cup {None}
  /\ \A n \in Nodes : phase[n] = "up" => nodeId[n] # None

\* Lists and scans know drawn ids only, and a scan removes doomed ones only.
ListsOK ==
  /\ registeredNodes \in [Bootstraps -> SUBSET Ids]
  /\ scan \in [Bootstraps -> ScanOf(Drawn, doomed)]
  /\ doomed \subseteq Drawn
  /\ \A b \in Bootstraps : registeredNodes[b] \subseteq Drawn

\* So do the messages on their way and the timers.
Sound(m) == IF m.topic = "node_registration" THEN m.id \in Drawn
            ELSE m.id \in doomed \cup {None}

MessagesOK ==
  /\ gossip \subseteq Message
  /\ timers \subseteq Message
  /\ lists \subseteq [from : Bootstraps, to : Bootstraps, ids : SUBSET Ids]
  /\ \A m \in lists : m.ids \subseteq Drawn
  /\ \A m \in gossip : Sound(m)
  /\ \A m \in timers : m.id \in doomed \cup {None}

LinksOK ==
  /\ links \subseteq SUBSET Bootstraps
  /\ breaks \in 0 .. MaxBreaks
  /\ dialing \subseteq Bootstraps \X Bootstraps

\* A registration stays with the bootstrap node that took it.
KeptOK ==
  \A id \in Ids : home[id] # None => id \in registeredNodes[home[id]] \cup doomed

Inv == ProcessOK /\ ListsOK /\ MessagesOK /\ LinksOK /\ KeptOK
-----------------------------------------------------------------------------
(***************************************************************************)
(* Helpers.                                                                *)
(***************************************************************************)
\* What is published goes to bootstrap nodes, under the topic and with the ids given.
LEMMA PublishedFacts ==
  ASSUME NEW topic \in {"node_registration", "node_deletion"},
         NEW ids \in SUBSET (Ids \cup {None}), NEW b \in Bootstraps
  PROVE  /\ Published(topic, ids, b) \subseteq Message
         /\ \A m \in Published(topic, ids, b) : m.topic = topic /\ m.id \in ids
<1>1. Audience(b) \subseteq Bootstraps
  BY DEF Audience
<1>2. ASSUME NEW m \in Published(topic, ids, b)
      PROVE  m \in Message /\ m.topic = topic /\ m.id \in ids
  <2>1. PICK i \in ids, c \in Audience(b) : m = [topic |-> topic, id |-> i, to |-> c]
    BY <1>2 DEF Published
  <2> QED BY <2>1, <1>1 DEF Message
<1> QED BY <1>2

\* What happens to a scan in progress.
LEMMA ScanFacts ==
  ASSUME NEW known \in SUBSET Ids, NEW down \in SUBSET Ids
  PROVE  /\ Idle \in ScanOf(known, down)
         /\ \A s \in ScanOf(known, down) :
              /\ Detached(s) \in ScanOf(known, down)
              /\ \A id \in known : Grown(s, id) \in ScanOf(known, down)
              /\ \A id \in Ids, new \in SUBSET down : Asked(s, id, new) \in ScanOf(known, down)
         /\ \A k \in SUBSET known, d \in SUBSET down : ScanOf(k, d) \subseteq ScanOf(known, down)
  BY DEF ScanOf, Idle, Detached, Grown, Asked

\* The invariant holds before any node has started.
LEMMA InitInv == Init => Inv
  BY DiscoveryAssumption
  DEF Init, Inv, ProcessOK, ListsOK, MessagesOK, LinksOK, KeptOK, ScanOf, Drawn, Idle

\* Ids stay drawn, and doomed.
LEMMA Grows == ASSUME Inv, [Next]_vars PROVE Drawn \subseteq Drawn' /\ doomed \subseteq doomed'
<1>1. ASSUME NEW n \in Nodes, NEW id \in Ids, n # None, owner' = [owner EXCEPT ![id] = n]
      PROVE  Drawn \subseteq Drawn'
  BY <1>1 DEF Drawn, Inv, ProcessOK
<1>2. UNCHANGED owner => UNCHANGED Drawn
  BY DEF Drawn
<1>3. (\E b \in Bootstraps, id \in Ids : RegisterSelf(b, id)
         \/ \E s \in Others : RegisterNode(s, b, id)) => Drawn \subseteq Drawn' /\ UNCHANGED doomed
  BY <1>1, DiscoveryAssumption DEF RegisterSelf, RegisterNode
<1>4. (\/ \E n \in Nodes : Start(n) \/ Listen(n) \/ Crash(n)
       \/ \E b \in Bootstraps : Join(b) \/ Shutdown(b) \/ StartScan(b) \/ Scanning(b)
       \/ \E b, c \in Bootstraps : Connect(b, c) \/ SendList(b, c)
       \/ \E m \in timers : DeletionTimeout(m)
       \/ \E l \in links : BreakLink(l)
       \/ Delivery \/ UNCHANGED vars) => UNCHANGED owner /\ doomed \subseteq doomed'
  BY DEF Start, Listen, Crash, Stop, Join, Shutdown, StartScan, Scanning, CheckNode,
         CheckLastNode, Connect, SendList, DeletionTimeout, BreakLink, Delivery,
         ReceiveRegistration, ReceiveDeletion, ReceiveList
<1> QED BY <1>2, <1>3, <1>4 DEF Next

\* What processes know of themselves.
LEMMA ProcessStep == ASSUME Inv, [Next]_vars PROVE ProcessOK'
<1> USE DiscoveryAssumption DEF Inv, ProcessOK
<1>1. ASSUME NEW n \in Nodes, Start(n) \/ Listen(n) PROVE ProcessOK'
  BY <1>1 DEF Start, Listen, Drawn
<1>2. ASSUME NEW b \in Bootstraps, Join(b) PROVE ProcessOK'
  BY <1>2 DEF Join, Drawn
<1>3. ASSUME NEW b \in Bootstraps, NEW id \in Ids, RegisterSelf(b, id) PROVE ProcessOK'
  BY <1>3 DEF RegisterSelf, Drawn
<1>4. ASSUME NEW s \in Others, NEW b \in Bootstraps, NEW id \in Ids, RegisterNode(s, b, id)
      PROVE  ProcessOK'
  BY <1>4 DEF RegisterNode, TakeRegistration, Drawn
<1>5. ASSUME NEW n \in Nodes, Stop(n) PROVE ProcessOK'
  BY <1>5 DEF Stop, Drawn
<1>6. (\/ \E b \in Bootstraps : StartScan(b) \/ Scanning(b)
       \/ \E b, c \in Bootstraps : Connect(b, c) \/ SendList(b, c)
       \/ \E m \in timers : DeletionTimeout(m)
       \/ \E l \in links : BreakLink(l)
       \/ Delivery \/ UNCHANGED vars) => UNCHANGED process
  BY DEF StartScan, Scanning, CheckNode, CheckLastNode, Connect, SendList,
         DeletionTimeout, BreakLink, Delivery, ReceiveRegistration, ReceiveDeletion,
         ReceiveList
<1>7. UNCHANGED process => ProcessOK'
  BY DEF Drawn
<1> QED BY <1>1, <1>2, <1>3, <1>4, <1>5, <1>6, <1>7 DEF Next, Crash, Shutdown

\* What lists and scans know.
LEMMA ListsStep == ASSUME Inv, [Next]_vars PROVE ListsOK'
<1> USE DEF Inv, ListsOK
<1>0. Drawn \subseteq Drawn' /\ Drawn \subseteq Ids /\ Drawn' \subseteq Ids /\ doomed \subseteq doomed'
  BY Grows DEF Drawn
<1>15. ASSUME doomed' \subseteq Drawn'
      PROVE  /\ Idle \in ScanOf(Drawn', doomed')
             /\ \A b \in Bootstraps :
                  /\ scan[b] \in ScanOf(Drawn', doomed')
                  /\ Detached(scan[b]) \in ScanOf(Drawn', doomed')
                  /\ \A id \in Drawn' : /\ Grown(scan[b], id) \in ScanOf(Drawn', doomed')
                                        /\ Detached(Grown(scan[b], id)) \in ScanOf(Drawn', doomed')
                  /\ \A id \in Ids, new \in SUBSET doomed' :
                       Asked(scan[b], id, new) \in ScanOf(Drawn', doomed')
  BY <1>0, <1>15, ScanFacts
<1>1. ASSUME NEW b \in Bootstraps, NEW id \in Drawn', Push(b, id), UNCHANGED doomed
      PROVE  ListsOK'
  BY <1>0, <1>1, <1>15 DEF Push
<1>2. ASSUME NEW b \in Bootstraps, NEW ids \in SUBSET Drawn', Replace(b, ids), UNCHANGED doomed
      PROVE  ListsOK'
  BY <1>0, <1>2, <1>15 DEF Replace
<1>3. ASSUME NEW n \in Nodes, Stop(n), doomed' \subseteq Drawn' PROVE ListsOK'
  BY <1>0, <1>3, <1>15 DEF Stop
<1>4. ASSUME NEW m \in gossip, ReceiveRegistration(m) PROVE ListsOK'
  <2>1. m.to \in Bootstraps /\ m.id \in Drawn'
    BY <1>0, <1>4 DEF MessagesOK, Message, Sound, ReceiveRegistration
  <2> QED BY <1>0, <1>4, <1>15, <2>1 DEF ReceiveRegistration
<1>5. ASSUME NEW b \in Bootstraps, StartScan(b) PROVE ListsOK'
  BY <1>0, <1>5, <1>15 DEF StartScan, ScanOf
<1>6. ASSUME NEW b \in Bootstraps, NEW id \in Ids, CheckNode(b, id) PROVE ListsOK'
  <2>1. PICK new \in {{}, {id}} :
          /\ scan' = [scan EXCEPT ![b] = Asked(@, id, new)]
          /\ doomed' = doomed \cup new
    BY <1>6 DEF CheckNode, StatusOf
  <2>2. id \in Drawn
    BY <1>6 DEF CheckNode, ScanOf
  <2> QED BY <1>0, <1>6, <1>15, <2>1, <2>2 DEF CheckNode
<1>7. ASSUME NEW b \in Bootstraps, NEW id \in Ids, CheckLastNode(b, id) PROVE ListsOK'
  <2>1. PICK new \in {{}, {id}} :
          /\ registeredNodes' = [registeredNodes EXCEPT ![b] = Remaining(b, scan[b].down \cup new)]
          /\ doomed' = doomed \cup new
    BY <1>7 DEF CheckLastNode, StatusOf
  <2>2. id \in Drawn
    BY <1>7 DEF CheckLastNode, ScanOf
  <2> QED BY <1>0, <1>7, <1>15, <2>1, <2>2 DEF CheckLastNode, Remaining
<1>8. (\/ \E n \in Nodes : Start(n) \/ Listen(n)
       \/ \E b \in Bootstraps : Join(b) \/ \E id \in Ids : RegisterSelf(b, id)
       \/ \E b, c \in Bootstraps : Connect(b, c) \/ SendList(b, c)
       \/ \E l \in links : BreakLink(l)
       \/ \E m \in gossip : ReceiveDeletion(m)
       \/ UNCHANGED vars) => UNCHANGED <<registeredNodes, scan, doomed>>
  BY DEF Start, Listen, Join, RegisterSelf, Connect, SendList, BreakLink, ReceiveDeletion
<1>9. UNCHANGED <<registeredNodes, scan, doomed>> => ListsOK'
  BY <1>0, <1>15
<1>10. ASSUME NEW s \in Others, NEW b \in Bootstraps, NEW id \in Ids, RegisterNode(s, b, id)
       PROVE  ListsOK'
  <2>1. id \in Drawn'
    BY <1>10, DiscoveryAssumption DEF RegisterNode, Drawn, ProcessOK
  <2> QED BY <2>1, <1>1, <1>10 DEF RegisterNode, TakeRegistration
<1>11. ASSUME NEW n \in Nodes, Crash(n) PROVE ListsOK'
  BY <1>0, <1>3, <1>11 DEF Crash
<1>12. ASSUME NEW b \in Bootstraps, Shutdown(b) PROVE ListsOK'
  <2>1. nodeId[b] \in Drawn \cup {None}
    BY DEF ProcessOK
  <2> QED BY <2>1, <1>0, <1>3, <1>12 DEF Shutdown
<1>13. ASSUME NEW m \in lists, ReceiveList(m) PROVE ListsOK'
  <2>1. m.to \in Bootstraps /\ m.ids \subseteq Drawn
    BY DEF MessagesOK
  <2> QED BY <2>1, <1>0, <1>2, <1>13 DEF ReceiveList, Merged
<1>14. ASSUME NEW m \in timers, DeletionTimeout(m) PROVE ListsOK'
  <2>1. m.to \in Bootstraps
    BY DEF MessagesOK, Message
  <2> QED BY <2>1, <1>0, <1>2, <1>14 DEF DeletionTimeout
<1> QED BY <1>4, <1>5, <1>6, <1>7, <1>8, <1>9, <1>10, <1>11, <1>12, <1>13, <1>14
        DEF Next, Scanning, Delivery

\* What is on its way.
LEMMA MessagesStep == ASSUME Inv, [Next]_vars PROVE MessagesOK'
<1> USE DEF Inv, MessagesOK
<1>0. Drawn \subseteq Drawn' /\ doomed \subseteq doomed' /\ doomed \subseteq Drawn /\ Drawn \subseteq Ids
  BY Grows DEF Drawn, ListsOK
<1>1. ASSUME NEW m, Sound(m) PROVE Sound(m)'
  BY <1>0, <1>1 DEF Sound
<1>2. ASSUME NEW b \in Bootstraps, NEW topic \in {"node_registration", "node_deletion"},
             NEW ids \in SUBSET (Ids \cup {None}), gossip' \subseteq gossip \cup Published(topic, ids, b),
             IF topic = "node_registration" THEN ids \subseteq Drawn'
             ELSE ids \subseteq doomed' \cup {None},
             timers' \subseteq timers, lists' \subseteq lists
      PROVE  MessagesOK'
  <2>1. \A m \in Published(topic, ids, b) : m \in Message /\ Sound(m)'
    BY <1>2, PublishedFacts DEF Sound
  <2> QED BY <1>0, <1>1, <1>2, <2>1
<1>3. ASSUME NEW b \in Bootstraps, NEW id \in Ids,
             RegisterSelf(b, id) \/ \E s \in Others : RegisterNode(s, b, id)
      PROVE  MessagesOK'
  <2>1. id \in Drawn'
    BY <1>3, DiscoveryAssumption DEF RegisterSelf, RegisterNode, Drawn, ProcessOK
  <2> QED BY <2>1, <1>2, <1>3 DEF RegisterSelf, RegisterNode, TakeRegistration
<1>4. ASSUME NEW b \in Bootstraps, Shutdown(b) PROVE MessagesOK'
  <2>1. nodeId[b] \in Ids \cup {None} /\ {nodeId[b]} \subseteq doomed' \cup {None}
    BY <1>4 DEF Shutdown, ProcessOK
  <2>2. gossip' \subseteq gossip \cup Published("node_deletion", {nodeId[b]}, b)
    BY <1>4 DEF Shutdown
  <2>3. timers' \subseteq timers /\ lists' \subseteq lists
    BY <1>4 DEF Shutdown, Stop
  <2>4. {nodeId[b]} \in SUBSET (Ids \cup {None})
    BY <2>1
  <2> QED BY <2>1, <2>2, <2>3, <2>4, <1>2
<1>5. ASSUME NEW b \in Bootstraps, NEW id \in Ids, CheckLastNode(b, id) PROVE MessagesOK'
  <2>1. PICK new \in {{}, {id}} :
          /\ gossip' = gossip \cup Published("node_deletion", scan[b].down \cup new, b)
          /\ doomed' = doomed \cup new
    BY <1>5 DEF CheckLastNode, StatusOf
  <2>2. scan[b].down \cup new \subseteq doomed' /\ doomed' \subseteq Ids
    BY <2>1, <1>0 DEF ListsOK, ScanOf
  <2>3. scan[b].down \cup new \in SUBSET (Ids \cup {None})
    BY <2>2
  <2>4. timers' \subseteq timers /\ lists' \subseteq lists
    BY <1>5 DEF CheckLastNode
  <2> QED BY <2>1, <2>2, <2>3, <2>4, <1>2
<1>6. ASSUME NEW b \in Bootstraps, NEW c \in Bootstraps, SendList(b, c) PROVE MessagesOK'
  BY <1>0, <1>1, <1>6 DEF SendList, ListsOK
<1>7. ASSUME NEW m \in gossip, ReceiveDeletion(m) PROVE MessagesOK'
  BY <1>0, <1>1, <1>7 DEF ReceiveDeletion, Sound
<1>8. (\/ \E n \in Nodes : Start(n) \/ Listen(n) \/ Crash(n)
       \/ \E b \in Bootstraps : Join(b) \/ StartScan(b) \/ \E id \in Ids : CheckNode(b, id)
       \/ \E b, c \in Bootstraps : Connect(b, c)
       \/ \E m \in timers : DeletionTimeout(m)
       \/ \E m \in gossip : ReceiveRegistration(m)
       \/ \E m \in lists : ReceiveList(m)
       \/ \E l \in links : BreakLink(l)
       \/ UNCHANGED vars) => gossip' \subseteq gossip /\ timers' \subseteq timers /\ lists' \subseteq lists
  BY DEF Start, Listen, Crash, Stop, Join, StartScan, CheckNode, Connect, DeletionTimeout,
         ReceiveRegistration, ReceiveList, BreakLink
<1>9. gossip' \subseteq gossip /\ timers' \subseteq timers /\ lists' \subseteq lists => MessagesOK'
  BY <1>0, <1>1
<1> QED BY <1>3, <1>4, <1>5, <1>6, <1>7, <1>8, <1>9 DEF Next, Scanning, Delivery

\* Links join bootstrap nodes.
LEMMA LinksStep == ASSUME Inv, [Next]_vars PROVE LinksOK'
<1> USE DEF Inv, LinksOK
<1>1. ASSUME NEW b \in Bootstraps, NEW c \in Bootstraps, Connect(b, c) \/ SendList(b, c)
      PROVE  LinksOK'
  BY <1>1 DEF Connect, SendList
<1>2. ASSUME NEW l \in links, BreakLink(l) PROVE LinksOK'
  BY <1>2, DiscoveryAssumption DEF BreakLink
<1>3. ASSUME NEW n \in Nodes, Stop(n) PROVE LinksOK'
  BY <1>3 DEF Stop
<1>4. (\/ \E n \in Nodes : Start(n) \/ Listen(n)
       \/ \E b \in Bootstraps : Join(b) \/ StartScan(b) \/ Scanning(b)
                                 \/ \E id \in Ids : RegisterSelf(b, id)
       \/ \E s \in Others, b \in Bootstraps, id \in Ids : RegisterNode(s, b, id)
       \/ \E m \in timers : DeletionTimeout(m)
       \/ Delivery \/ UNCHANGED vars) => UNCHANGED <<links, breaks, dialing>>
  BY DEF Start, Listen, Join, StartScan, Scanning, CheckNode, CheckLastNode, RegisterSelf,
         RegisterNode, DeletionTimeout, Delivery, ReceiveRegistration, ReceiveDeletion,
         ReceiveList
<1> QED BY <1>1, <1>2, <1>3, <1>4 DEF Next, Crash, Shutdown

\* A registration stays in the list of the bootstrap node that took it: whatever
\* is removed from a list is doomed.
LEMMA KeptStep == ASSUME Inv, [Next]_vars PROVE KeptOK'
<1> USE DEF Inv, KeptOK
<1>0. /\ doomed \subseteq doomed'
      /\ home \in [Ids -> Bootstraps \cup {None}]
      /\ registeredNodes \in [Bootstraps -> SUBSET Ids]
      /\ None \notin Ids /\ None \notin Bootstraps
  BY Grows, DiscoveryAssumption DEF ProcessOK, ListsOK
<1>1. ASSUME NEW b \in Bootstraps, NEW gone,
             registeredNodes' = [registeredNodes EXCEPT ![b] = @ \ gone],
             gone \cap Ids \subseteq doomed', UNCHANGED home
      PROVE  KeptOK'
  BY <1>0, <1>1
<1>2. ASSUME NEW b \in Bootstraps, NEW ids,
             registeredNodes' = [registeredNodes EXCEPT ![b] = @ \cup ids], UNCHANGED home
      PROVE  KeptOK'
  BY <1>0, <1>2
<1>3. ASSUME NEW s \in Others, NEW b \in Bootstraps, NEW id \in Ids, RegisterNode(s, b, id)
      PROVE  KeptOK'
  BY <1>0, <1>3 DEF RegisterNode, TakeRegistration, Push
<1>4. ASSUME NEW m \in gossip, ReceiveRegistration(m) PROVE KeptOK'
  <2>1. m.to \in Bootstraps
    BY DEF MessagesOK, Message
  <2> QED BY <2>1, <1>2, <1>4 DEF ReceiveRegistration
<1>5. ASSUME NEW m \in lists, ReceiveList(m) PROVE KeptOK'
  <2>1. m.to \in Bootstraps
    BY DEF MessagesOK
  <2> QED BY <2>1, <1>2, <1>5 DEF ReceiveList, Merged, Replace
<1>6. ASSUME NEW m \in timers, DeletionTimeout(m) PROVE KeptOK'
  <2>1. m.to \in Bootstraps /\ {m.id} \cap Ids \subseteq doomed'
    BY <1>0 DEF MessagesOK, Message
  <2>2. registeredNodes' = [registeredNodes EXCEPT ![m.to] = @ \ {m.id}] /\ UNCHANGED home
    BY <1>6 DEF DeletionTimeout, Replace
  <2> QED BY <2>1, <2>2, <1>1
<1>7. ASSUME NEW b \in Bootstraps, NEW id \in Ids, CheckLastNode(b, id) PROVE KeptOK'
  <2>1. PICK new \in {{}, {id}} :
          /\ registeredNodes' = [registeredNodes EXCEPT ![b] = @ \ (scan[b].down \cup new)]
          /\ doomed' = doomed \cup new
    BY <1>7 DEF CheckLastNode, StatusOf, Remaining
  <2>2. (scan[b].down \cup new) \cap Ids \subseteq doomed' /\ UNCHANGED home
    BY <2>1, <1>7 DEF CheckLastNode, ListsOK, ScanOf
  <2> QED BY <2>1, <2>2, <1>1
<1>8. ASSUME NEW n \in Nodes, Stop(n) PROVE KeptOK'
  BY <1>0, <1>8 DEF Stop
<1>9. (\/ \E n \in Nodes : Start(n) \/ Listen(n)
       \/ \E b \in Bootstraps : Join(b) \/ StartScan(b)
                                 \/ \E id \in Ids : RegisterSelf(b, id) \/ CheckNode(b, id)
       \/ \E b, c \in Bootstraps : Connect(b, c) \/ SendList(b, c)
       \/ \E l \in links : BreakLink(l)
       \/ \E m \in gossip : ReceiveDeletion(m)
       \/ UNCHANGED vars) => UNCHANGED <<home, registeredNodes>>
  BY DEF Start, Listen, Join, StartScan, RegisterSelf, CheckNode, Connect, SendList, BreakLink,
         ReceiveDeletion
<1>10. UNCHANGED <<home, registeredNodes>> => KeptOK'
  BY <1>0
<1> QED BY <1>3, <1>4, <1>5, <1>6, <1>7, <1>8, <1>9, <1>10
        DEF Next, Scanning, Delivery, Crash, Shutdown
-----------------------------------------------------------------------------
(***************************************************************************)
(* The invariant, and what follows from it.                                *)
(***************************************************************************)
\* Every reachable state satisfies the invariant.
THEOREM Invariance == Spec => []Inv
<1>1. Inv /\ [Next]_vars => Inv'
  BY ProcessStep, ListsStep, MessagesStep, LinksStep, KeptStep DEF Inv
<1> QED BY <1>1, InitInv, PTL DEF Spec

\* Type correctness: whatever the variables hold has the shape TypeOK gives.
THEOREM TypeCorrectness == Spec => []TypeOK
<1>1. Inv => TypeOK
  <2>1. ASSUME Inv PROVE doomed \subseteq Ids
    BY <2>1 DEF Inv, ListsOK, Drawn
  <2>2. ASSUME Inv PROVE scan \in [Bootstraps -> [on : BOOLEAN, left : SUBSET Ids,
                                                 down : SUBSET Ids, same : BOOLEAN]]
    BY <2>2 DEF Inv, ListsOK, ScanOf
  <2> QED BY <2>1, <2>2 DEF Inv, ProcessOK, ListsOK, MessagesOK, LinksOK, TypeOK
<1> QED BY <1>1, Invariance, PTL

\* A node that runs stays in the list of the bootstrap node that took its
\* registration, unless a status check of it failed (POST nodes against
\* checkNodesStatus, gossip and list exchanges).
THEOREM RegistrationsAreKept == Spec => []RegistrationIsKept
<1>1. Inv => RegistrationIsKept
  BY DiscoveryAssumption DEF Inv, ProcessOK, KeptOK, Drawn, RegistrationIsKept
<1> QED BY <1>1, Invariance, PTL
-----------------------------------------------------------------------------
(***************************************************************************)
(* Discovery implements the registry.                                      *)
(***************************************************************************)
\* The registry starts empty.
LEMMA RegistryInit == Init => Registry!Init
  BY DEF Init, Registry!Init, Drawn

\* Every step is a step of the registry, or leaves it as it is.
LEMMA RegistryStep == ASSUME Inv, [Next]_vars PROVE [Registry!Next]_(Registry!registry)
<1> USE DEF Inv, Registry!registry
<1>0. Drawn \subseteq Drawn' /\ doomed \subseteq doomed' /\ doomed \subseteq Drawn /\ Drawn \subseteq Ids
  BY Grows DEF Drawn, ListsOK
<1>1. ASSUME NEW b \in Bootstraps, NEW n \in Nodes, NEW id \in Ids, owner[id] = None,
             owner' = [owner EXCEPT ![id] = n],
             registeredNodes' \in {registeredNodes, [registeredNodes EXCEPT ![b] = @ \cup {id}]},
             UNCHANGED doomed
      PROVE  Registry!Next
  <2>1. id \notin Drawn /\ Drawn' = Drawn \cup {id}
    BY <1>1, DiscoveryAssumption DEF Drawn, ProcessOK
  <2> QED BY <2>1, <1>1 DEF Registry!Register, Registry!Next
<1>2. ASSUME NEW b \in Bootstraps, NEW id \in Ids,
             RegisterSelf(b, id) \/ \E s \in Others : RegisterNode(s, b, id)
      PROVE  Registry!Next
  BY <1>1, <1>2 DEF RegisterSelf, RegisterNode, TakeRegistration, Push
<1>3. ASSUME NEW b \in Bootstraps, NEW ids \in SUBSET Drawn,
             registeredNodes' = [registeredNodes EXCEPT ![b] = @ \cup ids],
             UNCHANGED <<owner, doomed>>
      PROVE  Registry!Next
  BY <1>3 DEF Registry!Learn, Registry!Next, Drawn
<1>4. ASSUME NEW m \in gossip, ReceiveRegistration(m) PROVE Registry!Next
  <2>1. m.to \in Bootstraps /\ m.id \in Drawn
    BY <1>4 DEF MessagesOK, Message, Sound, ReceiveRegistration
  <2>2. /\ {m.id} \in SUBSET Drawn
        /\ registeredNodes' = [registeredNodes EXCEPT ![m.to] = @ \cup {m.id}]
        /\ UNCHANGED <<owner, doomed>>
    BY <2>1, <1>4 DEF ReceiveRegistration
  <2> QED BY <2>1, <2>2, <1>3
<1>5. ASSUME NEW m \in lists, ReceiveList(m) PROVE Registry!Next
  <2>1. m.to \in Bootstraps /\ m.ids \subseteq Drawn
    BY DEF MessagesOK
  <2> QED BY <2>1, <1>3, <1>5 DEF ReceiveList, Merged, Replace
<1>6. ASSUME NEW b \in Bootstraps, NEW down \in SUBSET Drawn, NEW gone,
             doomed' = doomed \cup down, gone \cap Ids \subseteq doomed',
             registeredNodes' = [registeredNodes EXCEPT ![b] = @ \ gone], UNCHANGED owner
      PROVE  Registry!Next
  <2>1. registeredNodes' = [registeredNodes EXCEPT ![b] = @ \ (gone \cap Ids)]
    BY <1>6 DEF ListsOK
  <2>2. Registry!Drop(b)
    BY <2>1, <1>6 DEF Registry!Drop, Drawn
  <2> QED BY <2>2 DEF Registry!Next
<1>7. ASSUME NEW m \in timers, DeletionTimeout(m) PROVE Registry!Next
  <2>1. m.to \in Bootstraps /\ {m.id} \cap Ids \subseteq doomed
    BY DiscoveryAssumption DEF MessagesOK, Message
  <2>2. /\ doomed' = doomed \cup {}
        /\ registeredNodes' = [registeredNodes EXCEPT ![m.to] = @ \ {m.id}]
        /\ UNCHANGED owner
    BY <2>1, <1>7 DEF DeletionTimeout, Replace
  <2> QED BY <2>1, <2>2, <1>6
<1>8. ASSUME NEW b \in Bootstraps, NEW id \in Ids, CheckLastNode(b, id) PROVE Registry!Next
  <2>1. PICK new \in {{}, {id}} :
          /\ registeredNodes' = [registeredNodes EXCEPT ![b] = @ \ (scan[b].down \cup new)]
          /\ doomed' = doomed \cup new
    BY <1>8 DEF CheckLastNode, StatusOf, Remaining
  <2>2. new \in SUBSET Drawn /\ scan[b].down \subseteq doomed
    BY <1>8 DEF CheckLastNode, ListsOK, ScanOf
  <2>3. (scan[b].down \cup new) \cap Ids \subseteq doomed' /\ UNCHANGED owner
    BY <2>1, <2>2, <1>8 DEF CheckLastNode
  <2> QED BY <2>1, <2>2, <2>3, <1>6
<1>9. ASSUME NEW b \in Bootstraps, NEW id \in Ids, CheckNode(b, id)
      PROVE  [Registry!Next]_(Registry!registry)
  <2>1. doomed' = doomed \/ doomed' = doomed \cup {id}
    BY <1>9 DEF CheckNode, StatusOf
  <2>2. id \in Drawn /\ UNCHANGED <<Drawn, registeredNodes>>
    BY <1>9 DEF CheckNode, ListsOK, ScanOf, Drawn
  <2> QED BY <2>1, <2>2 DEF Registry!Judge, Registry!Next
<1>10. ASSUME NEW b \in Bootstraps, NEW own \in SUBSET Drawn, Stop(b), doomed' = doomed \cup own
       PROVE  Registry!Next
  <2>1. registeredNodes' = [registeredNodes EXCEPT ![b] = {}]
    BY <1>10 DEF Stop, ListsOK
  <2> QED BY <2>1, <1>10 DEF Stop, Registry!Forget, Registry!Next, Drawn
<1>11. ASSUME NEW b \in Bootstraps, Shutdown(b) PROVE Registry!Next
  <2>1. {nodeId[b]} \ {None} \subseteq Drawn
    BY DEF ProcessOK
  <2> QED BY <2>1, <1>10, <1>11 DEF Shutdown
<1>12. ASSUME NEW n \in Nodes, Crash(n) PROVE [Registry!Next]_(Registry!registry)
  <2>1. CASE n \in Bootstraps
    <3>1. Stop(n) /\ doomed' = doomed \cup {} /\ {} \in SUBSET Drawn
      BY <1>12 DEF Crash
    <3>2. Registry!Next
      BY <3>1, <2>1, <1>10
    <3> QED BY <3>2
  <2>2. CASE n \notin Bootstraps
    <3>1. registeredNodes' = registeredNodes
      BY <2>2, <1>12 DEF Crash, Stop, ListsOK
    <3> QED BY <3>1, <1>12 DEF Crash, Stop, Drawn
  <2> QED BY <2>1, <2>2
<1>13. (\/ \E n \in Nodes : Start(n) \/ Listen(n)
        \/ \E b \in Bootstraps : Join(b) \/ StartScan(b)
        \/ \E b, c \in Bootstraps : Connect(b, c) \/ SendList(b, c)
        \/ \E l \in links : BreakLink(l)
        \/ \E m \in gossip : ReceiveDeletion(m)
        \/ UNCHANGED vars) => UNCHANGED Registry!registry
  BY DEF Start, Listen, Join, StartScan, Connect, SendList, BreakLink, ReceiveDeletion, Drawn
<1> QED BY <1>2, <1>4, <1>5, <1>7, <1>8, <1>9, <1>11, <1>12, <1>13
        DEF Next, Scanning, Delivery

\* The bootstrap nodes implement the registry: they list registered ids only, and
\* one that lives drops only doomed ones.
THEOREM ImplementsRegistry == Spec => RegistrySpec
<1>1. Inv /\ [Next]_vars => [Registry!Next]_(Registry!registry)
  BY RegistryStep
<1> QED BY <1>1, RegistryInit, Invariance, PTL DEF Spec, RegistrySpec, Registry!Spec
=============================================================================
