------------------------------ MODULE FileKeys ------------------------------
(***************************************************************************)
(* How a data mart gets the key of a file from a node of its data          *)
(* validator: getFileKey (src/file/FileService.ts), for a file it has      *)
(* bought, and purchaseData (src/purchase/PurchaseService.ts), which pays  *)
(* billing first.  Both go over the nodes of the data validator that the   *)
(* registry lists, and ask them for the file.                              *)
(*                                                                         *)
(* One file and one data validator; its nodes start, stop, get and lose    *)
(* the file, and enter and leave the registry, while calls are in progress.*)
(* The nodes of a list are asked in any order.                             *)
(***************************************************************************)
CONSTANTS
  Lookups,    \* requests for the key of a file, each sent at most once
  Purchases,  \* purchases of the file, each sent at most once
  Nodes,      \* nodes of the data validator
  None        \* no node

ASSUME FileKeysAssumption ==
  /\ Lookups \cap Purchases = {}
  /\ None \notin Nodes

Calls == Lookups \cup Purchases

VARIABLES
  listed,   \* nodes that getNodesByAddressAndType finds
  status,   \* what each node would answer
  pc,       \* where each call is
  nodes,    \* dataValidatorNodes of each call
  reply,    \* what the nodes have answered each call
  chosen,   \* nodePossessingFile of each call
  payment   \* what billing knows of the payment of each call

environment == <<listed, status>>
vars == <<environment, pc, nodes, reply, chosen, payment>>

Waiting == {"account", "search", "pay", "fetch"}

\* Answered by 404, 503, or 500 for want of an account, of the key or of billing.
Failed == {"notFound", "unavailable", "noAccount", "noKey", "noBilling"}

\* The last line: a call that searches has a node left to ask.
TypeOK ==
  /\ listed \subseteq Nodes
  /\ status \in [Nodes -> {"has", "lacks", "down"}]
  /\ pc \in [Calls -> Waiting \cup Failed \cup {"idle", "key"}]
  /\ nodes \in [Calls -> SUBSET Nodes]
  /\ reply \in [Calls -> [Nodes -> {"none", "yes", "no"}]]
  /\ chosen \in [Calls -> Nodes \cup {None}]
  /\ payment \in [Calls -> {"none", "sent", "charged", "refused"}]
  /\ \A r \in Calls : pc[r] = "search" => \E n \in nodes[r] : reply[r][n] = "none"

Init ==
  /\ listed \in SUBSET Nodes
  /\ status \in [Nodes -> {"has", "lacks", "down"}]
  /\ pc = [r \in Calls |-> "idle"]
  /\ nodes = [r \in Calls |-> {}]
  /\ reply = [r \in Calls |-> [n \in Nodes |-> "none"]]
  /\ chosen = [r \in Calls |-> None]
  /\ payment = [r \in Calls |-> "none"]
-----------------------------------------------------------------------------
Goto(r, p) == pc' = [pc EXCEPT ![r] = p]

\* Mutant: the check of the empty list is dropped.
WithNodesUnchecked(list) == "search"

\* Where a call goes with the list it got: an empty one is answered by 404.
WithNodes(list) == IF list = {} THEN "notFound" ELSE "search"

\* The list of the registry, as it is now, is what the call goes over.
FindNodes(r) ==
  /\ Goto(r, WithNodes(listed))
  /\ nodes' = [nodes EXCEPT ![r] = listed]

Unasked(r) == {n \in nodes[r] : reply[r][n] = "none"}

Answers(r, n, answer) == reply' = [reply EXCEPT ![r][n] = answer]

\* A request to node n: it succeeds only if the node runs and has the file, and
\* may fail all the same.
Succeeds(n) == status[n] = "has"
-----------------------------------------------------------------------------
(***************************************************************************)
(* getFileKey.  (A request with an invalid signature changes nothing.)     *)
(***************************************************************************)
GetFileKey(r) ==
  /\ pc[r] = "idle"
  /\ FindNodes(r)
  /\ UNCHANGED <<environment, reply, chosen, payment>>

\* lookForNodeWhichHasFile: checkIfNodeHasFile answers false when the request
\* fails, and the loop ends after the first node in either case.
LookForNodeWhichHasFile(r, n) ==
  /\ pc[r] = "search"
  /\ n \in Unasked(r)
  /\ \/ /\ Succeeds(n)
        /\ Answers(r, n, "yes")
        /\ chosen' = [chosen EXCEPT ![r] = n]
        /\ Goto(r, "fetch")
     \/ /\ Answers(r, n, "no")
        /\ Goto(r, "unavailable")
        /\ UNCHANGED chosen
  /\ UNCHANGED <<environment, nodes, payment>>

FetchKey(r) ==
  /\ pc[r] = "fetch"
  /\ \/ Succeeds(chosen[r]) /\ Goto(r, "key")
     \/ Goto(r, "noKey")
  /\ UNCHANGED <<environment, nodes, reply, chosen, payment>>
-----------------------------------------------------------------------------
(***************************************************************************)
(* purchaseData.                                                           *)
(***************************************************************************)
PurchaseData(r) ==
  /\ pc[r] = "idle"
  /\ Goto(r, "account")
  /\ UNCHANGED <<environment, nodes, reply, chosen, payment>>

\* getDefaultAccount has read the database.
DefaultAccountRead(r) ==
  /\ pc[r] = "account"
  /\ \/ Goto(r, "noAccount") /\ UNCHANGED nodes
     \/ FindNodes(r)
  /\ UNCHANGED <<environment, reply, chosen, payment>>

\* Mutant: the loop ends after the first node.
LoopEndsAtOnce(r, n, answer) == TRUE

\* The loop goes on to the next node, if there is one, until a node has the file.
LoopEnds(r, n, answer) == answer = "yes" \/ Unasked(r) = {n}

\* Mutant: nodePossessingFile is set before the node is asked.
PossessingFileEagerly(r, n, answer) == n

\* nodePossessingFile once node n has answered: set only after a success.
PossessingFile(r, n, answer) == IF answer = "yes" THEN n ELSE chosen[r]

\* With a node that has the file, billing is asked to be paid.
SearchNode(r, n) ==
  /\ pc[r] = "search"
  /\ n \in Unasked(r)
  /\ \E answer \in {"yes", "no"} :
       LET found == PossessingFile(r, n, answer) IN
       /\ answer = "yes" => Succeeds(n)
       /\ Answers(r, n, answer)
       /\ chosen' = [chosen EXCEPT ![r] = found]
       /\ IF ~LoopEnds(r, n, answer) THEN UNCHANGED <<pc, payment>>
          ELSE IF found = None   THEN Goto(r, "unavailable") /\ UNCHANGED payment
          ELSE Goto(r, "pay") /\ payment' = [payment EXCEPT ![r] = "sent"]
  /\ UNCHANGED <<environment, nodes>>

\* Billing handles a payment, whether or not the node still waits.
BillingDecides(r) ==
  /\ payment[r] = "sent"
  /\ \E outcome \in {"charged", "refused"} :
       payment' = [payment EXCEPT ![r] = outcome]
  /\ UNCHANGED <<environment, pc, nodes, reply, chosen>>

\* Mutant: any answer of billing is taken for a success.
PaymentAnswered(r) == payment[r] \in {"charged", "refused"}

\* payForDataPurchase resolves: billing answered with a 2xx status.
PaymentResolved(r) == payment[r] = "charged"

Paid(r) ==
  /\ pc[r] = "pay"
  /\ PaymentResolved(r)
  /\ Goto(r, "fetch")
  /\ UNCHANGED <<environment, nodes, reply, chosen, payment>>

\* Billing refused, or the connection broke.
PaymentFails(r) ==
  /\ pc[r] = "pay"
  /\ Goto(r, "noBilling")
  /\ UNCHANGED <<environment, nodes, reply, chosen, payment>>

\* The key of a paid file; when the request fails the same catch answers as
\* when the payment does.
FetchPaidKey(r) ==
  /\ pc[r] = "fetch"
  /\ \/ Succeeds(chosen[r]) /\ Goto(r, "key")
     \/ Goto(r, "noBilling")
  /\ UNCHANGED <<environment, nodes, reply, chosen, payment>>
-----------------------------------------------------------------------------
\* The registry and the nodes of the data validator change.
EnvironmentChanges ==
  /\ \E n \in Nodes :
       \/ /\ listed' \in {listed \cup {n}, listed \ {n}}
          /\ UNCHANGED status
       \/ /\ \E s \in {"has", "lacks", "down"} : status' = [status EXCEPT ![n] = s]
          /\ UNCHANGED listed
  /\ UNCHANGED <<pc, nodes, reply, chosen, payment>>

Next ==
  \/ \E r \in Lookups :
       \/ GetFileKey(r) \/ FetchKey(r)
       \/ \E n \in Nodes : LookForNodeWhichHasFile(r, n)
  \/ \E r \in Purchases :
       \/ PurchaseData(r) \/ DefaultAccountRead(r) \/ BillingDecides(r)
       \/ Paid(r) \/ PaymentFails(r) \/ FetchPaidKey(r)
       \/ \E n \in Nodes : SearchNode(r, n)
  \/ EnvironmentChanges

Spec == Init /\ [][Next]_vars
-----------------------------------------------------------------------------
(***************************************************************************)
(* Properties.                                                             *)
(***************************************************************************)
\* A data mart is charged only for a file of which a listed node has answered
\* that it has it, and the key is fetched from that node and from no other,
\* whatever becomes of the nodes between the search, the payment and the key.
ChargedForFoundFile ==
  \A r \in Calls :
    payment[r] # "none" => chosen[r] \in nodes[r] /\ reply[r][chosen[r]] = "yes"

\* purchaseData gives no key away: a data mart that got one has been charged.
KeyIsPaid == \A r \in Purchases : pc[r] = "key" => payment[r] = "charged"

\* purchaseData gives up only after every node that was listed when it began has
\* been asked and has failed: a node that is down, or has lost the file, hides
\* no other one.
PurchaseTriesEveryNode ==
  \A r \in Purchases :
    pc[r] = "unavailable" => \A n \in nodes[r] : reply[r][n] = "no"

\* What lookForNodeWhichHasFile logs of a node without the file: "trying next
\* one".  No answer 503 leaves a listed node unasked.
NextNodeIsTried ==
  \A r \in Lookups :
    pc[r] = "unavailable" => \A n \in nodes[r] : reply[r][n] = "no"
=============================================================================
