--------------------------- MODULE FileKeysProof ---------------------------
(***************************************************************************)
(* The invariants of FileKeys hold for any number of lookups, purchases    *)
(* and nodes: a data mart is charged for a file that was found, gets no    *)
(* key unless it was charged, and is told that no node has the file only   *)
(* after every listed node was asked.                                      *)
(***************************************************************************)
EXTENDS FileKeys, TLAPS

\* Before the search ends nothing is known but refusals, and billing has not
\* been asked; a purchase gets past its payment only when charged.
Stage(r) ==
  /\ pc[r] \in {"idle", "account"} => \A n \in Nodes : reply[r][n] = "none"
  /\ pc[r] \in {"idle", "account", "search"} =>
       chosen[r] = None /\ \A n \in Nodes : reply[r][n] # "yes"
  /\ payment[r] # "none" =>
       r \in Purchases /\ pc[r] \in {"pay", "fetch", "key", "noBilling"}
  /\ r \in Purchases /\ pc[r] \in {"fetch", "key"} => payment[r] = "charged"

IndInv ==
  /\ TypeOK
  /\ \A r \in Calls : Stage(r)
  /\ ChargedForFoundFile
  /\ PurchaseTriesEveryNode

-----------------------------------------------------------------------------
LEMMA InitIndInv == Init => IndInv
  BY FileKeysAssumption
  DEF Init, IndInv, TypeOK, Stage, ChargedForFoundFile, PurchaseTriesEveryNode,
      Calls, Waiting, Failed

\* An answer is kept among the answers of the call.
LEMMA AnswerFacts ==
  ASSUME TypeOK, NEW r \in Calls, NEW n \in Nodes, NEW answer \in {"yes", "no"},
         Answers(r, n, answer)
  PROVE  /\ reply' \in [Calls -> [Nodes -> {"none", "yes", "no"}]]
         /\ \A q \in Calls : q # r => reply'[q] = reply[q]
<1>1. reply \in [Calls -> [Nodes -> {"none", "yes", "no"}]]
  BY DEF TypeOK
<1>2. reply' = [reply EXCEPT ![r] = [reply[r] EXCEPT ![n] = answer]]
  BY DEF Answers
<1>3. [reply[r] EXCEPT ![n] = answer] \in [Nodes -> {"none", "yes", "no"}]
  BY <1>1
<1> QED BY <1>1, <1>2, <1>3

LEMMA GetFileKeyStep ==
  ASSUME NEW r \in Lookups, IndInv, GetFileKey(r)
  PROVE  IndInv'
<1> USE DEF IndInv, Calls, Goto, environment
<1>1. TypeOK'
  BY FileKeysAssumption
  DEF TypeOK, Stage, GetFileKey, FindNodes, WithNodes, Waiting, Failed
<1>2. ASSUME NEW q \in Calls PROVE Stage(q)'
  <2>1. CASE q = r
    BY <2>1, FileKeysAssumption
    DEF TypeOK, Stage, GetFileKey, FindNodes, WithNodes
  <2>2. CASE q # r
    BY <2>2, FileKeysAssumption
    DEF TypeOK, Stage, GetFileKey, FindNodes, WithNodes
  <2> QED BY <2>1, <2>2
<1>3. ChargedForFoundFile'
  BY FileKeysAssumption
  DEF TypeOK, Stage, ChargedForFoundFile, GetFileKey, FindNodes, WithNodes
<1>4. PurchaseTriesEveryNode'
  BY FileKeysAssumption
  DEF TypeOK, Stage, PurchaseTriesEveryNode, GetFileKey, FindNodes, WithNodes
<1> QED BY <1>1, <1>2, <1>3, <1>4

LEMMA LookForNodeStep ==
  ASSUME NEW r \in Lookups, NEW n \in Nodes, IndInv, LookForNodeWhichHasFile(r, n)
  PROVE  IndInv'
<1> USE DEF IndInv, Calls, Goto, environment
<1>1. TypeOK'
  <2>1. reply' \in [Calls -> [Nodes -> {"none", "yes", "no"}]]
        /\ \A q \in Calls : q # r => reply'[q] = reply[q]
    <3>1. PICK answer \in {"yes", "no"} : Answers(r, n, answer)
      BY DEF LookForNodeWhichHasFile
    <3>2. TypeOK /\ r \in Calls
      OBVIOUS
    <3> QED BY <3>1, <3>2, AnswerFacts
  <2>2. ASSUME NEW q \in Calls, pc'[q] = "search"
        PROVE  q # r /\ pc[q] = "search" /\ reply'[q] = reply[q]
    <3>1. pc' = [pc EXCEPT ![r] = "fetch"] \/ pc' = [pc EXCEPT ![r] = "unavailable"]
      BY DEF LookForNodeWhichHasFile
    <3>2. q # r /\ pc[q] = "search"
      BY <2>2, <3>1 DEF TypeOK
    <3> QED BY <3>2, <2>1
  <2>3. \A q \in Calls :
          pc'[q] = "search" => \E m \in nodes'[q] : reply'[q][m] = "none"
    BY <2>2 DEF TypeOK, LookForNodeWhichHasFile
  <2>4. pc' \in [Calls -> Waiting \cup Failed \cup {"idle", "key"}]
    BY DEF TypeOK, LookForNodeWhichHasFile, Waiting, Failed
  <2>5. chosen' \in [Calls -> Nodes \cup {None}]
    BY DEF TypeOK, LookForNodeWhichHasFile
  <2>6. UNCHANGED <<listed, status, nodes, payment>>
    BY DEF LookForNodeWhichHasFile
  <2> QED
    BY <2>1, <2>3, <2>4, <2>5, <2>6 DEF TypeOK
<1>2. ASSUME NEW q \in Calls PROVE Stage(q)'
  <2>1. CASE q = r
    BY <2>1, FileKeysAssumption
    DEF TypeOK, Stage, LookForNodeWhichHasFile, Unasked, Answers, Succeeds
  <2>2. CASE q # r
    BY <2>2, FileKeysAssumption
    DEF TypeOK, Stage, LookForNodeWhichHasFile, Unasked, Answers, Succeeds
  <2> QED BY <2>1, <2>2
<1>3. ChargedForFoundFile'
  BY FileKeysAssumption
  DEF TypeOK, Stage, ChargedForFoundFile, LookForNodeWhichHasFile, Unasked,
      Answers, Succeeds
<1>4. PurchaseTriesEveryNode'
  BY FileKeysAssumption
  DEF TypeOK, Stage, PurchaseTriesEveryNode, LookForNodeWhichHasFile, Unasked,
      Answers, Succeeds
<1> QED BY <1>1, <1>2, <1>3, <1>4

LEMMA FetchKeyStep ==
  ASSUME NEW r \in Lookups, IndInv, FetchKey(r)
  PROVE  IndInv'
<1> USE DEF IndInv, Calls, Goto, environment
<1>1. TypeOK'
  BY FileKeysAssumption DEF TypeOK, Stage, FetchKey, Waiting, Failed
<1>2. ASSUME NEW q \in Calls PROVE Stage(q)'
  <2>1. CASE q = r
    BY <2>1, FileKeysAssumption DEF TypeOK, Stage, FetchKey
  <2>2. CASE q # r
    BY <2>2, FileKeysAssumption DEF TypeOK, Stage, FetchKey
  <2> QED BY <2>1, <2>2
<1>3. ChargedForFoundFile'
  BY FileKeysAssumption DEF TypeOK, Stage, ChargedForFoundFile, FetchKey
<1>4. PurchaseTriesEveryNode'
  BY FileKeysAssumption DEF TypeOK, Stage, PurchaseTriesEveryNode, FetchKey
<1> QED BY <1>1, <1>2, <1>3, <1>4

LEMMA PurchaseDataStep ==
  ASSUME NEW r \in Purchases, IndInv, PurchaseData(r)
  PROVE  IndInv'
<1> USE DEF IndInv, Calls, Goto, environment
<1>1. TypeOK'
  BY FileKeysAssumption DEF TypeOK, Stage, PurchaseData, Waiting, Failed
<1>2. ASSUME NEW q \in Calls PROVE Stage(q)'
  <2>1. CASE q = r
    BY <2>1, FileKeysAssumption DEF TypeOK, Stage, PurchaseData
  <2>2. CASE q # r
    BY <2>2, FileKeysAssumption DEF TypeOK, Stage, PurchaseData
  <2> QED BY <2>1, <2>2
<1>3. ChargedForFoundFile'
  BY FileKeysAssumption DEF TypeOK, Stage, ChargedForFoundFile, PurchaseData
<1>4. PurchaseTriesEveryNode'
  BY FileKeysAssumption DEF TypeOK, Stage, PurchaseTriesEveryNode, PurchaseData
<1> QED BY <1>1, <1>2, <1>3, <1>4

LEMMA DefaultAccountStep ==
  ASSUME NEW r \in Purchases, IndInv, DefaultAccountRead(r)
  PROVE  IndInv'
<1> USE DEF IndInv, Calls, Goto, environment
<1>1. TypeOK'
  BY FileKeysAssumption
  DEF TypeOK, Stage, DefaultAccountRead, FindNodes, WithNodes, Waiting, Failed
<1>2. ASSUME NEW q \in Calls PROVE Stage(q)'
  <2>1. CASE q = r
    BY <2>1, FileKeysAssumption
    DEF TypeOK, Stage, DefaultAccountRead, FindNodes, WithNodes
  <2>2. CASE q # r
    BY <2>2, FileKeysAssumption
    DEF TypeOK, Stage, DefaultAccountRead, FindNodes, WithNodes
  <2> QED BY <2>1, <2>2
<1>3. ChargedForFoundFile'
  BY FileKeysAssumption
  DEF TypeOK, Stage, ChargedForFoundFile, DefaultAccountRead, FindNodes,
      WithNodes
<1>4. PurchaseTriesEveryNode'
  BY FileKeysAssumption
  DEF TypeOK, Stage, PurchaseTriesEveryNode, DefaultAccountRead, FindNodes,
      WithNodes
<1> QED BY <1>1, <1>2, <1>3, <1>4

LEMMA SearchNodeStep ==
  ASSUME NEW r \in Purchases, NEW n \in Nodes, IndInv, SearchNode(r, n)
  PROVE  IndInv'
<1> USE DEF IndInv, Calls, Goto, environment
<1>1. TypeOK'
  BY FileKeysAssumption
  DEF TypeOK, Stage, SearchNode, Unasked, Answers, LoopEnds, PossessingFile,
      Waiting, Failed
<1>2. ASSUME NEW q \in Calls PROVE Stage(q)'
  <2>1. CASE q = r
    BY <2>1, FileKeysAssumption
    DEF TypeOK, Stage, SearchNode, Unasked, Answers, LoopEnds, PossessingFile
  <2>2. CASE q # r
    BY <2>2, FileKeysAssumption
    DEF TypeOK, Stage, SearchNode, Unasked, Answers, LoopEnds, PossessingFile
  <2> QED BY <2>1, <2>2
<1>3. ChargedForFoundFile'
  BY FileKeysAssumption
  DEF TypeOK, Stage, ChargedForFoundFile, SearchNode, Unasked, Answers,
      LoopEnds, PossessingFile
<1>4. PurchaseTriesEveryNode'
  BY FileKeysAssumption
  DEF TypeOK, Stage, PurchaseTriesEveryNode, SearchNode, Unasked, Answers,
      LoopEnds, PossessingFile
<1> QED BY <1>1, <1>2, <1>3, <1>4

LEMMA BillingStep ==
  ASSUME NEW r \in Purchases, IndInv, BillingDecides(r)
  PROVE  IndInv'
<1> USE DEF IndInv, Calls, Goto, environment
<1>1. TypeOK'
  BY FileKeysAssumption DEF TypeOK, Stage, BillingDecides, Waiting, Failed
<1>2. ASSUME NEW q \in Calls PROVE Stage(q)'
  <2>1. CASE q = r
    BY <2>1, FileKeysAssumption DEF TypeOK, Stage, BillingDecides
  <2>2. CASE q # r
    BY <2>2, FileKeysAssumption DEF TypeOK, Stage, BillingDecides
  <2> QED BY <2>1, <2>2
<1>3. ChargedForFoundFile'
  BY FileKeysAssumption DEF TypeOK, Stage, ChargedForFoundFile, BillingDecides
<1>4. PurchaseTriesEveryNode'
  BY FileKeysAssumption
  DEF TypeOK, Stage, PurchaseTriesEveryNode, BillingDecides
<1> QED BY <1>1, <1>2, <1>3, <1>4

LEMMA PaidStep ==
  ASSUME NEW r \in Purchases, IndInv, Paid(r)
  PROVE  IndInv'
<1> USE DEF IndInv, Calls, Goto, environment
<1>1. TypeOK'
  BY FileKeysAssumption
  DEF TypeOK, Stage, Paid, PaymentResolved, Waiting, Failed
<1>2. ASSUME NEW q \in Calls PROVE Stage(q)'
  <2>1. CASE q = r
    BY <2>1, FileKeysAssumption DEF TypeOK, Stage, Paid, PaymentResolved
  <2>2. CASE q # r
    BY <2>2, FileKeysAssumption DEF TypeOK, Stage, Paid, PaymentResolved
  <2> QED BY <2>1, <2>2
<1>3. ChargedForFoundFile'
  BY FileKeysAssumption
  DEF TypeOK, Stage, ChargedForFoundFile, Paid, PaymentResolved
<1>4. PurchaseTriesEveryNode'
  BY FileKeysAssumption
  DEF TypeOK, Stage, PurchaseTriesEveryNode, Paid, PaymentResolved
<1> QED BY <1>1, <1>2, <1>3, <1>4

LEMMA PaymentFailsStep ==
  ASSUME NEW r \in Purchases, IndInv, PaymentFails(r)
  PROVE  IndInv'
<1> USE DEF IndInv, Calls, Goto, environment
<1>1. TypeOK'
  BY FileKeysAssumption DEF TypeOK, Stage, PaymentFails, Waiting, Failed
<1>2. ASSUME NEW q \in Calls PROVE Stage(q)'
  <2>1. CASE q = r
    BY <2>1, FileKeysAssumption DEF TypeOK, Stage, PaymentFails
  <2>2. CASE q # r
    BY <2>2, FileKeysAssumption DEF TypeOK, Stage, PaymentFails
  <2> QED BY <2>1, <2>2
<1>3. ChargedForFoundFile'
  BY FileKeysAssumption DEF TypeOK, Stage, ChargedForFoundFile, PaymentFails
<1>4. PurchaseTriesEveryNode'
  BY FileKeysAssumption DEF TypeOK, Stage, PurchaseTriesEveryNode, PaymentFails
<1> QED BY <1>1, <1>2, <1>3, <1>4

LEMMA FetchPaidKeyStep ==
  ASSUME NEW r \in Purchases, IndInv, FetchPaidKey(r)
  PROVE  IndInv'
<1> USE DEF IndInv, Calls, Goto, environment
<1>1. TypeOK'
  BY FileKeysAssumption DEF TypeOK, Stage, FetchPaidKey, Waiting, Failed
<1>2. ASSUME NEW q \in Calls PROVE Stage(q)'
  <2>1. CASE q = r
    BY <2>1, FileKeysAssumption DEF TypeOK, Stage, FetchPaidKey
  <2>2. CASE q # r
    BY <2>2, FileKeysAssumption DEF TypeOK, Stage, FetchPaidKey
  <2> QED BY <2>1, <2>2
<1>3. ChargedForFoundFile'
  BY FileKeysAssumption DEF TypeOK, Stage, ChargedForFoundFile, FetchPaidKey
<1>4. PurchaseTriesEveryNode'
  BY FileKeysAssumption DEF TypeOK, Stage, PurchaseTriesEveryNode, FetchPaidKey
<1> QED BY <1>1, <1>2, <1>3, <1>4

LEMMA EnvironmentStep ==
  ASSUME IndInv, EnvironmentChanges
  PROVE  IndInv'
BY DEF IndInv, TypeOK, Stage, ChargedForFoundFile, PurchaseTriesEveryNode,
       EnvironmentChanges

-----------------------------------------------------------------------------
\* Every reachable state satisfies the inductive invariant.
THEOREM Invariance == Spec => []IndInv
<1>1. ASSUME IndInv, [Next]_vars PROVE IndInv'
  <2>1. CASE UNCHANGED vars
    BY <1>1, <2>1 DEF vars, environment, IndInv, TypeOK, Stage,
       ChargedForFoundFile, PurchaseTriesEveryNode
  <2>2. CASE Next
    BY <1>1, <2>2, GetFileKeyStep, LookForNodeStep, FetchKeyStep,
       PurchaseDataStep, DefaultAccountStep,
       SearchNodeStep, BillingStep, PaidStep, PaymentFailsStep, FetchPaidKeyStep,
       EnvironmentStep DEF Next
  <2> QED BY <1>1, <2>1, <2>2
<1> QED BY <1>1, InitIndInv, PTL DEF Spec

\* The variables keep their types, and a search that goes on has a node left.
THEOREM TypeCorrectness == Spec => []TypeOK
BY Invariance, PTL DEF IndInv

\* Billing is asked only about a file that a listed node answered it has, and
\* the key is fetched from that node.
THEOREM FoundBeforeCharged == Spec => []ChargedForFoundFile
BY Invariance, PTL DEF IndInv

\* purchaseData answers with a key only to a data mart that billing charged.
THEOREM KeysArePaid == Spec => []KeyIsPaid
<1>1. IndInv => KeyIsPaid
  BY DEF IndInv, Stage, KeyIsPaid, Calls
<1> QED BY <1>1, Invariance, PTL

\* purchaseData answers 503 only after every listed node was asked and failed.
THEOREM EveryNodeIsTried == Spec => []PurchaseTriesEveryNode
BY Invariance, PTL DEF IndInv
=============================================================================
