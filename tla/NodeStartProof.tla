--------------------------- MODULE NodeStartProof ---------------------------
(***************************************************************************)
(* Proofs about NodeStart, over the invariant of Accounts: every step of   *)
(* the node is a step of Accounts, or leaves its variables as they are.    *)
(***************************************************************************)
EXTENDS NodeStart, OneChoiceProof

\* What the hook of DiscoveryModule knows of the accounts.
HookOK ==
  /\ \A a \in registered \cup walletAddresses : Registered(a)
  /\ before \subseteq LocalAddresses
  /\ hook \in {"post", "done"} => before \subseteq walletAddresses
  /\ hook = "done" => registered = walletAddresses
  /\ inOrder /\ hook \in {"findAll", "post", "done"} => Serving
  /\ inOrder /\ InitialAddress # None /\ hook \in {"post", "done"} => walletAddresses # {}

NodeInv == Inv /\ NodeTypeOK /\ HookOK

\* The invariant holds when the process starts for the first time.
LEMMA NodeInitInv == NodeInit => NodeInv
<1> SUFFICES ASSUME NodeInit PROVE NodeInv
  OBVIOUS
<1>1. Inv
  BY InitInv DEF NodeInit
<1>2. NodeTypeOK /\ HookOK
  BY DEF NodeInit, NodeTypeOK, HookOK, LocalAddresses
<1> QED BY <1>1, <1>2 DEF NodeInv

\* A step of the node is one of Accounts.
LEMMA NodeStepIsStep == ASSUME [NodeNext]_nodeVars PROVE Step
<1>1. UNCHANGED <<docs, dbQueue, billing, pc, address, copy, rest, found>> /\ UNCHANGED overlap
        => UNCHANGED state
  BY DEF state, billing
<1>2. CASE NodeNext
  BY <1>1, <1>2 DEF NodeNext, RestartNode, Restart, Step
<1>3. CASE UNCHANGED nodeVars
  BY <1>3 DEF nodeVars, vars, Step, state
<1> QED BY <1>2, <1>3

\* Once the hook of AccountModule is done it stays done, while the process lives.
LEMMA ServingStays == ASSUME Inv, ClientRequest \/ Work, Serving PROVE Serving'
<1> USE AccountsAssumption DEF Serving, Inv, TypeOK, Callers
<1>1. CASE ClientRequest
  BY <1>1 DEF ClientRequest, IssueSetDefault, IssueRegisterServiceNode, IssueRegisterOther
<1>2. CASE Work
  <2>1. ~ InitialAccount
    BY DEF InitialAccount, Runs
  <2>2. ASSUME NEW r \in Callers,
               \/ RegistrationStatus(r) \/ RegistrationAccepted(r) \/ RegistrationRefused(r)
               \/ RegistrationLost(r) \/ FindByAddress(r) \/ FindAll(r) \/ SaveFind(r) \/ SaveWrite(r)
        PROVE  r # Boot /\ pc'[Boot] = pc[Boot]
    <3>1. r # Boot
      BY <2>2 DEF RegistrationStatus, RegistrationAccepted, RegistrationRefused,
         RegistrationLost, FindByAddress, FindAll, SaveFind, SaveWrite, Runs
    <3>2. \E p : pc' = [pc EXCEPT ![r] = p]
      BY <2>2 DEF RegistrationStatus, RegistrationAccepted, RegistrationRefused, RegistrationLost,
         FindByAddress, FindAll, SaveFind, SaveWrite, SaveRest, KnownServiceNode, SaveNew, Save, End
    <3> QED BY <3>1, <3>2
  <2>3. (\E q \in requests : BillingRegisters(q)) => UNCHANGED pc
    BY DEF BillingRegisters
  <2> QED BY <1>2, <2>1, <2>2, <2>3 DEF Work
<1> QED BY <1>1, <1>2

\* A step keeps the invariant.
LEMMA NodeStepInv == ASSUME NodeInv, [NodeNext]_nodeVars PROVE NodeInv'
<1> USE DEF NodeInv
<1>1. /\ Inv'
      /\ \A a \in Addresses : Registered(a) => Registered(a)'
      /\ LocalAddresses \subseteq LocalAddresses'
  BY NodeStepIsStep, StepInv, OnlyThese DEF SameKey, LocalAddresses
<1>2. \A a \in LocalAddresses : a \in Addresses /\ Registered(a)
  BY DEF Inv, TypeOK, DocsOK, LocalAddresses, Account
<1>3. CASE (ClientRequest \/ Work) /\ UNCHANGED <<inOrder, discovery>>
  BY <1>1, <1>3, ServingStays DEF discovery, HookOK, NodeTypeOK
<1>4. ASSUME UNCHANGED <<docs, role, pc, inOrder>>, GetIpAddress \/ ReadAccounts \/ RegisterSelf
      PROVE  NodeInv'
  <2>1. Serving /\ InitialAddress # None => LocalAddresses # {}
    BY DEF Inv, BootOK, BootedHasAccount, LocalAddresses
  <2>2. CASE GetIpAddress
    BY <1>1, <1>4, <2>2 DEF GetIpAddress, HookOK, NodeTypeOK, Serving
  <2>3. CASE ReadAccounts
    BY <1>1, <1>2, <1>4, <2>1, <2>3 DEF ReadAccounts, HookOK, NodeTypeOK, Serving
  <2>4. CASE RegisterSelf
    BY <1>1, <1>4, <2>4 DEF RegisterSelf, HookOK, NodeTypeOK, Serving
  <2> QED BY <1>4, <2>2, <2>3, <2>4
<1>5. CASE RestartNode /\ UNCHANGED inOrder
  BY <1>1, <1>2, <1>5 DEF RestartNode, HookOK, NodeTypeOK, LocalAddresses
<1>6. CASE UNCHANGED nodeVars
  BY <1>1, <1>6 DEF nodeVars, vars, discovery, HookOK, NodeTypeOK, Serving, LocalAddresses
<1> QED BY <1>3, <1>4, <1>5, <1>6 DEF NodeNext, billing

\* Every reachable state of the node satisfies the invariant.
THEOREM NodeInvariance == NodeSpec => []NodeInv
  BY NodeInitInv, NodeStepInv, PTL DEF NodeSpec

\* Type correctness of what the hook of DiscoveryModule keeps.
THEOREM NodeTypeCorrectness == NodeSpec => []NodeTypeOK
  BY NodeInvariance, PTL DEF NodeInv

\* A node registers at the bootstrap nodes under addresses of service nodes only,
\* whatever crashes or fails (registerSelf).
THEOREM AddressesAreAccounts == NodeSpec => []RegisteredAddressesAreAccounts
<1>1. NodeInv => RegisteredAddressesAreAccounts
  BY DEF NodeInv, HookOK, Registered, RegisteredAddressesAreAccounts
<1> QED BY <1>1, NodeInvariance, PTL

\* Once it listens, it is registered under all addresses it had when it started
\* (getAllLocalAccounts in registerSelf).
THEOREM StartIsSound == NodeSpec => []StoredAccountsAreFound
<1>1. NodeInv => StoredAccountsAreFound
  BY DEF NodeInv, HookOK, StoredAccountsAreFound, Listening
<1> QED BY <1>1, NodeInvariance, PTL

\* What holds of the accounts alone holds of them in a node, whose hooks may fail and
\* run in any order.
THEOREM AccountsInNode ==
  NodeSpec => [](LocalAccountsAreRegistered /\ BootedHasAccount /\ OneChosenDefault)
<1>1. NodeInit => ChoiceInv
  BY ChoiceInitInv DEF NodeInit
<1>2. ChoiceInv /\ [NodeNext]_nodeVars => ChoiceInv'
  BY NodeStepIsStep, ChoiceStepInv
<1>3. ChoiceInv => LocalAccountsAreRegistered /\ BootedHasAccount /\ OneChosenDefault
  BY OneChoice DEF ChoiceInv, DefaultInv, Inv, DocsOK, Registered, BootOK, LocalAccountsAreRegistered
<1> QED BY <1>1, <1>2, <1>3, PTL DEF NodeSpec
=============================================================================
