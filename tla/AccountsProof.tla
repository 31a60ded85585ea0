--------------------------- MODULE AccountsProof ----------------------------
(***************************************************************************)
(* Proofs about Accounts, for every set of addresses, requests and ids.    *)
(*                                                                         *)
(* An account comes to be stored in three steps, of which billing makes    *)
(* one: the inductive invariant says at each of them what is already known *)
(* of the address and of the id, whoever else is at work.                  *)
(***************************************************************************)
EXTENDS Accounts, WellFoundedInduction, SequenceTheorems, TLAPS

USE DEF billing, Callers

Registered(a) == role[a] = "service"

\* Some document has the id and the address of account c.
Stored(c) == \E d \in docs : d.id = c.id /\ d.address = c.address

\* No document has the id of account c, or one that has its address too.
Fits(c) == \A d \in docs : d.id = c.id => d.address = c.address

DocsOK ==
  /\ \A d \in docs : Registered(d.address)
  /\ \A d, e \in docs : d.id = e.id => d = e

RoleOf(r) == IF pc[r] = "postService" THEN "service" ELSE "other"

\* A caller has one registration at most on its way, or one answer, and it is
\* about its own address.
BillingOK ==
  /\ \A q \in requests : q.by # None =>
       /\ pc[q.by] \in {"postService", "postOther"}
       /\ q.address = address[q.by] /\ q.role = RoleOf(q.by)
       /\ answer[q.by] = "none"
  /\ \A r \in Callers : answer[r] # "none" => pc[r] \in {"postService", "postOther"}
  /\ \A r \in Callers : answer[r] = "accepted" => role[address[r]] = RoleOf(r)

\* What a caller is about to save.
SaveOK(r) ==
  /\ copy[r] # None => Registered(copy[r].address) /\ Fits(copy[r])
  /\ \A c \in rest[r] : Registered(c.address) /\ Stored(c)
  /\ pc[r] \in {"findAll", "saveFind", "saveWrite"} => copy[r] # None
  /\ pc[r] = "findAll" => Stored(copy[r])
  /\ pc[r] = "saveWrite" =>
       IF found[r] = None THEN \A d \in docs : d.id # copy[r].id
       ELSE /\ found[r].id = copy[r].id /\ found[r].address = copy[r].address
            /\ Stored(copy[r])
  /\ pc[r] \in InBilling \cup {"byAddress", "findAll"} => address[r] \in Addresses

\* Two callers are about to save accounts with the same id only if it is stored.
Distinct ==
  \A q, r \in Callers :
    q # r /\ copy[q] # None /\ copy[r] # None /\ copy[q].id = copy[r].id
      => \E d \in docs : d.id = copy[r].id

BootOK ==
  /\ pc[Boot] \notin {"byAddress", "findAll", "postOther"}
  /\ address[Boot] = InitialAddress
  /\ BootedHasAccount

SavesOK == Distinct /\ \A r \in Callers : SaveOK(r)

Inv == TypeOK /\ DocsOK /\ BillingOK /\ SavesOK /\ BootOK

\* The variables of Accounts but for the history.
state == <<overlap, docs, dbQueue, role, requests, answer, pc, address, copy, rest, found>>

\* A step of Accounts, in whatever process.
Step ==
  /\ ClientRequest \/ Work \/ StartAgain \/ UNCHANGED state
  /\ History \/ UNCHANGED <<docs, flagged>>
  /\ UNCHANGED overlap
-----------------------------------------------------------------------------
(***************************************************************************)
(* Helpers.                                                                *)
(***************************************************************************)
\* The first document of a set is one of it.
LEMMA FirstFacts ==
  ASSUME NEW S \in SUBSET Account, S # {} PROVE First(S) \in S
<1> DEFINE T == {d.id : d \in S}
<1>1. T \subseteq Nat /\ T # {}
  <2>1. \A d \in S : d.id \in Nat
    BY AccountsAssumption DEF Account
  <2>2. PICK d \in S : TRUE
    OBVIOUS
  <2>3. d.id \in T
    OBVIOUS
  <2> QED BY <2>1, <2>3
<1>2. PICK x \in T : \A y \in T : ~ (<<y, x>> \in OpToRel(<, Nat))
  BY <1>1, WFMin, NatLessThanWellFounded
<1>3. \A y \in T : x <= y
  <2> SUFFICES ASSUME NEW y \in T PROVE x <= y
    OBVIOUS
  <2>1. x \in Nat /\ y \in Nat /\ ~ (y < x)
    BY <1>1, <1>2 DEF OpToRel
  <2> QED BY <2>1
<1>4. \E d \in S : \A e \in S : d.id <= e.id
  BY <1>3
<1> QED BY <1>4 DEF First

\* The invariant holds when the process starts for the first time.
LEMMA InitInv == Init => Inv
<1> SUFFICES ASSUME Init PROVE Inv
  OBVIOUS
<1> USE AccountsAssumption DEF Init
<1>1. TypeOK
  BY DEF TypeOK, InDatabase, InBilling, Ended
<1>2. DocsOK /\ BillingOK
  BY DEF DocsOK, BillingOK
<1>3. SavesOK
  BY DEF SavesOK, Distinct, SaveOK, InBilling
<1>4. BootOK
  BY DEF BootOK, BootedHasAccount, Serving
<1> QED BY <1>1, <1>2, <1>3, <1>4 DEF Inv

\* The queue of the database.
LEMMA QueueFacts ==
  ASSUME NEW r \in Callers, NEW q \in Seq(Callers)
  PROVE  /\ Append(q, r) \in Seq(Callers)
         /\ q # << >> => Tail(q) \in Seq(Callers)
  OBVIOUS

\* The history is a set of ids.
LEMMA HistoryType == ASSUME docs' \subseteq Account, flagged \subseteq Ids, History
                     PROVE  flagged' \subseteq Ids
  BY DEF History, Account

\* Saving an account changes what the caller is about to do.
LEMMA SaveType ==
  ASSUME TypeOK, NEW r \in Callers, NEW account \in Account, NEW later \in SUBSET Account,
         NEW queue \in Seq(Callers), Save(r, account, later, queue)
  PROVE  /\ copy' \in [Callers -> Account \cup {None}]
         /\ rest' \in [Callers -> SUBSET Account]
         /\ pc' \in [Callers -> InDatabase \cup InBilling \cup Ended \cup {"idle"}]
         /\ dbQueue' \in Seq(Callers)
  BY QueueFacts DEF TypeOK, Save, InDatabase

\* Type correctness is kept by a step.
LEMMA TypeStep == ASSUME Inv, Step PROVE TypeOK'
<1> USE DEF Inv, TypeOK, InDatabase, InBilling, Ended
<1> DEFINE Untouched == UNCHANGED <<docs, role>>
           Typed == /\ docs' \subseteq Account
                    /\ dbQueue' \in Seq(Callers)
                    /\ role' \in [Addresses -> {"none", "service", "other"}]
                    /\ requests' \subseteq Request
                    /\ answer' \in [Callers -> {"none", "accepted", "refused"}]
                    /\ pc' \in [Callers -> InDatabase \cup InBilling \cup Ended \cup {"idle"}]
                    /\ address' \in [Callers -> Addresses \cup {None}]
                    /\ copy' \in [Callers -> Account \cup {None}]
                    /\ rest' \in [Callers -> SUBSET Account]
                    /\ found' \in [Callers -> Account \cup {None}]
<1>1. ASSUME NEW r \in Callers, NEW a \in Addresses, r \in Calls, IssueSetDefault(r, a) PROVE Typed
  BY <1>1, QueueFacts DEF IssueSetDefault
<1>2. ASSUME NEW r \in Callers, NEW a \in Addresses, r \in Calls,
             IssueRegisterServiceNode(r, a) \/ IssueRegisterOther(r, a) PROVE Typed
  BY <1>2 DEF IssueRegisterServiceNode, IssueRegisterOther, Post, Request
<1>3. ASSUME InitialAccount PROVE Typed
  BY <1>3, QueueFacts DEF InitialAccount, Runs
<1>4. ASSUME NEW r \in Callers, address[r] \in Addresses, NEW default \in BOOLEAN, SaveNew(r, default)
      PROVE  /\ copy' \in [Callers -> Account \cup {None}]
             /\ rest' \in [Callers -> SUBSET Account]
             /\ pc' \in [Callers -> InDatabase \cup InBilling \cup Ended \cup {"idle"}]
             /\ dbQueue' \in Seq(Callers)
  <2>1. PICK id \in FreshIds : Save(r, LocalAccount(id, address[r], default), {}, dbQueue)
    BY <1>4 DEF SaveNew
  <2>2. LocalAccount(id, address[r], default) \in Account
    BY <1>4 DEF LocalAccount, Account, FreshIds
  <2> QED BY <2>1, <2>2, SaveType
<1>5. ASSUME NEW r \in Callers, RegistrationStatus(r) PROVE Typed
  <2>1. address[r] \in Addresses
    BY <1>5 DEF RegistrationStatus, SavesOK, SaveOK
  <2>2. CASE KnownServiceNode(r) /\ UNCHANGED requests
    BY <2>1, <2>2, <1>4, <1>5 DEF RegistrationStatus, KnownServiceNode
  <2>3. CASE ~ (KnownServiceNode(r) /\ UNCHANGED requests)
    BY <2>1, <2>3, <1>5 DEF RegistrationStatus, Post, Request, End
  <2> QED BY <2>2, <2>3
<1>6. ASSUME NEW q \in requests, BillingRegisters(q) PROVE Typed
  BY <1>6 DEF BillingRegisters, Request
<1>7. ASSUME NEW r \in Callers, RegistrationAccepted(r) PROVE Typed
  <2>1. CASE pc[r] = "postService" /\ SaveNew(r, FALSE)
    <3>1. address[r] \in Addresses
      BY <2>1 DEF SavesOK, SaveOK
    <3> QED BY <3>1, <2>1, <1>4, <1>7 DEF RegistrationAccepted
  <2>2. CASE End(r, "done")
    BY <2>2, <1>7 DEF RegistrationAccepted, End
  <2> QED BY <2>1, <2>2, <1>7 DEF RegistrationAccepted
<1>8. ASSUME NEW r \in Callers, RegistrationRefused(r) \/ RegistrationLost(r) PROVE Typed
  BY <1>8 DEF RegistrationRefused, RegistrationLost, End, Forsaken, Request
<1>9. ASSUME NEW r \in Callers, FindByAddress(r) PROVE Typed
  <2>1. OfAddress(docs, address[r]) # {} => First(OfAddress(docs, address[r])) \in Account
    BY FirstFacts DEF OfAddress
  <2>2. Tail(dbQueue) \in Seq(Callers)
    BY <1>9, QueueFacts DEF FindByAddress, Runs
  <2>3. CASE OfAddress(docs, address[r]) = {}
    BY <2>2, <2>3, <1>9 DEF FindByAddress
  <2>4. CASE OfAddress(docs, address[r]) # {}
    <3> DEFINE mine == First(OfAddress(docs, address[r]))
    <3>1. mine \in Account /\ Append(Tail(dbQueue), r) \in Seq(Callers)
      BY <2>1, <2>2, <2>4, QueueFacts
    <3>2. /\ copy' = [copy EXCEPT ![r] = mine]
          /\ pc' = [pc EXCEPT ![r] = "findAll"]
          /\ dbQueue' = Append(Tail(dbQueue), r)
          /\ UNCHANGED <<docs, billing, address, rest, found>>
      BY <2>4, <1>9 DEF FindByAddress
    <3> HIDE DEF mine
    <3> QED BY <3>1, <3>2
  <2> QED BY <2>3, <2>4
<1>10. ASSUME NEW r \in Callers, FindAll(r) PROVE Typed
  <2>1. copy[r] \in Account
    BY <1>10 DEF FindAll, Runs, SavesOK, SaveOK
  <2>2. [copy[r] EXCEPT !.default = TRUE] \in Account /\ Cleared(address[r]) \in SUBSET Account
    <3>1. [copy[r] EXCEPT !.default = TRUE] \in Account
      BY <2>1 DEF Account
    <3>2. \A d \in docs : [d EXCEPT !.default = FALSE] \in Account
      BY DEF Account
    <3> QED BY <3>1, <3>2 DEF Cleared
  <2>3. Tail(dbQueue) \in Seq(Callers)
    BY <1>10, QueueFacts DEF FindAll, Runs
  <2>4. Save(r, [copy[r] EXCEPT !.default = TRUE], Cleared(address[r]), Tail(dbQueue))
    BY <1>10 DEF FindAll, Saves
  <2> HIDE DEF TypeOK
  <2>5. TypeOK
    OBVIOUS
  <2>6. /\ copy' \in [Callers -> Account \cup {None}]
        /\ rest' \in [Callers -> SUBSET Account]
        /\ pc' \in [Callers -> InDatabase \cup InBilling \cup Ended \cup {"idle"}]
        /\ dbQueue' \in Seq(Callers)
    BY <2>2, <2>3, <2>4, <2>5, SaveType
  <2> QED BY <2>5, <2>6, <1>10 DEF FindAll, TypeOK
<1>11. ASSUME NEW r \in Callers, SaveFind(r) PROVE Typed
  <2>1. LET same == {d \in docs : d.id = copy[r].id} IN same # {} => First(same) \in Account
    BY FirstFacts
  <2> QED BY <2>1, <1>11, QueueFacts DEF SaveFind, Runs
<1>12. ASSUME NEW r \in Callers, SaveWrite(r) PROVE Typed
  <2>1. copy[r] \in Account
    BY <1>12 DEF SaveWrite, Runs, SavesOK, SaveOK
  <2>2. docs' \subseteq Account
    BY <2>1, <1>12 DEF SaveWrite
  <2>3. Tail(dbQueue) \in Seq(Callers)
    BY <1>12, QueueFacts DEF SaveWrite, Runs
  <2>4. CASE rest[r] = {}
    BY <2>2, <2>3, <2>4, <1>12 DEF SaveWrite, SaveRest
  <2>5. CASE rest[r] # {}
    <3>1. First(rest[r]) \in Account /\ rest[r] \ {First(rest[r])} \in SUBSET Account
      BY <2>5, FirstFacts
    <3>2. Save(r, First(rest[r]), rest[r] \ {First(rest[r])}, Tail(dbQueue))
      BY <2>5, <1>12 DEF SaveWrite, SaveRest
    <3> HIDE DEF TypeOK
    <3>3. TypeOK
      OBVIOUS
    <3>4. /\ copy' \in [Callers -> Account \cup {None}]
          /\ rest' \in [Callers -> SUBSET Account]
          /\ pc' \in [Callers -> InDatabase \cup InBilling \cup Ended \cup {"idle"}]
          /\ dbQueue' \in Seq(Callers)
      BY <2>3, <3>1, <3>2, <3>3, SaveType
    <3> QED BY <2>2, <3>3, <3>4, <1>12 DEF SaveWrite, TypeOK
  <2> QED BY <2>4, <2>5
<1>13. ASSUME StartAgain PROVE Typed
  <2>1. <<Boot>> \in Seq(Callers)
    OBVIOUS
  <2> QED BY <2>1, <1>13 DEF StartAgain, Forsaken, Request
<1>14. ASSUME UNCHANGED state PROVE Typed
  BY <1>14 DEF state
<1>15. Typed
  BY <1>1, <1>2, <1>3, <1>5, <1>6, <1>7, <1>8, <1>9, <1>10, <1>11, <1>12, <1>13, <1>14
  DEF Step, ClientRequest, Work
<1>16. flagged' \subseteq Ids
  BY <1>15, HistoryType DEF Step
<1> QED BY <1>15, <1>16 DEF Step
-----------------------------------------------------------------------------
(***************************************************************************)
(* What is stored, and what is about to be.                                *)
(***************************************************************************)
SameKey(d, e) == d.id = e.id /\ d.address = e.address

\* A write keeps the id and the address of every document, and adds at most an
\* account whose id no document had.
LEMMA WriteFacts ==
  ASSUME Inv, NEW r \in Callers, SaveWrite(r)
  PROVE  /\ DocsOK'
         /\ \A d \in docs : \E e \in docs' : SameKey(e, d)
         /\ \A e \in docs' : \/ \E d \in docs : SameKey(d, e)
                             \/ e = copy[r] /\ \A d \in docs : d.id # e.id
         /\ docs' # {}
<1> USE DEF Inv, SameKey
<1>0. /\ copy[r] \in Account /\ docs \subseteq Account
      /\ Registered(copy[r].address) /\ UNCHANGED role
      /\ \A d \in docs : Registered(d.address)
      /\ \A d, e \in docs : d.id = e.id => d = e
      /\ IF found[r] = None THEN \A d \in docs : d.id # copy[r].id
         ELSE /\ found[r].id = copy[r].id /\ found[r].address = copy[r].address
              /\ Stored(copy[r])
  BY DEF SaveWrite, Runs, SavesOK, SaveOK, TypeOK, DocsOK, Account
<1>1. CASE found[r] = None
  <2>1. docs' = docs \cup {copy[r]}
    BY <1>1 DEF SaveWrite
  <2> QED BY <1>0, <1>1, <2>1 DEF DocsOK, Registered
<1>2. CASE found[r] # None /\ found[r] \in docs
  <2>1. docs' = (docs \ {found[r]}) \cup {copy[r]}
    BY <1>2 DEF SaveWrite
  <2> QED BY <1>0, <1>2, <2>1 DEF DocsOK, Registered
<1>3. CASE found[r] # None /\ found[r] \notin docs
  <2>1. docs' = docs
    BY <1>3 DEF SaveWrite
  <2> QED BY <1>0, <1>3, <2>1 DEF DocsOK, Registered, Stored
<1> QED BY <1>1, <1>2, <1>3

\* Only billing changes a role, and only that of an address without one; only a
\* write changes the documents.
LEMMA OnlyThese ==
  ASSUME Inv, Step
  PROVE  /\ \A a \in Addresses : Registered(a) => Registered(a)'
         /\ \A d \in docs : \E e \in docs' : SameKey(e, d)
         /\ DocsOK'
<1>1. ASSUME NEW r \in Callers, SaveWrite(r)
      PROVE  UNCHANGED role /\ DocsOK' /\ \A d \in docs : \E e \in docs' : SameKey(e, d)
  BY <1>1, WriteFacts DEF SaveWrite
<1>2. ASSUME NEW q \in requests, BillingRegisters(q)
      PROVE  UNCHANGED docs /\ \A a \in Addresses : Registered(a) => Registered(a)'
  BY <1>2 DEF BillingRegisters, Registered, Inv, TypeOK
<1>3. (\/ ClientRequest \/ InitialAccount
       \/ \E r \in Callers :
            \/ RegistrationStatus(r) \/ RegistrationAccepted(r) \/ RegistrationRefused(r)
            \/ RegistrationLost(r) \/ FindByAddress(r) \/ FindAll(r) \/ SaveFind(r)
       \/ StartAgain \/ UNCHANGED state) => UNCHANGED <<docs, role>>
  BY DEF ClientRequest, IssueSetDefault, IssueRegisterServiceNode, IssueRegisterOther,
         InitialAccount, RegistrationStatus, RegistrationAccepted, RegistrationRefused,
         RegistrationLost, FindByAddress, FindAll, SaveFind, StartAgain, state
<1>4. \/ UNCHANGED <<docs, role>>
      \/ \E r \in Callers : SaveWrite(r)
      \/ \E q \in requests : BillingRegisters(q)
  BY <1>3 DEF Step, Work
<1>5. CASE UNCHANGED <<docs, role>>
  BY <1>5 DEF SameKey, Registered, Inv, DocsOK
<1>6. CASE \E r \in Callers : SaveWrite(r)
  BY <1>1, <1>6 DEF Registered
<1>7. CASE \E q \in requests : BillingRegisters(q)
  BY <1>2, <1>7 DEF SameKey, Inv, DocsOK, TypeOK, Account
<1> QED BY <1>4, <1>5, <1>6, <1>7

\* Nobody but the caller itself changes where it is.
Same(q) == /\ pc'[q] = pc[q] /\ copy'[q] = copy[q] /\ rest'[q] = rest[q]
           /\ found'[q] = found[q] /\ address'[q] = address[q]

\* A caller that does nothing keeps what it knows, if no document gets its id.
LEMMA SaveOKKept ==
  ASSUME Inv, Step, NEW q \in Callers, Same(q),
         \A e \in docs' : copy[q] # None /\ e.id = copy[q].id => \E d \in docs : SameKey(d, e)
  PROVE  SaveOK(q)'
<1> USE DEF Inv
<1>1. SaveOK(q) /\ copy[q] \in Account \cup {None} /\ rest[q] \subseteq Account
  BY DEF SavesOK, TypeOK
<1>2. /\ \A a \in Addresses : role[a] = "service" => role'[a] = "service"
      /\ \A d \in docs : \E e \in docs' : SameKey(e, d)
  BY OnlyThese DEF Registered
<1>3. copy[q] # None => role'[copy[q].address] = "service"
                        /\ \A e \in docs' : e.id = copy[q].id => e.address = copy[q].address
  BY <1>1, <1>2 DEF SaveOK, Account, Registered, Fits, SameKey
<1>4. \A c \in rest[q] : role'[c.address] = "service"
                         /\ \E e \in docs' : e.id = c.id /\ e.address = c.address
  BY <1>1, <1>2 DEF SaveOK, Account, Registered, Stored, SameKey
<1>5. copy[q] # None /\ Stored(copy[q]) => \E e \in docs' : e.id = copy[q].id /\ e.address = copy[q].address
  BY <1>1, <1>2 DEF Stored, SameKey
<1>6. copy[q] # None /\ (\A d \in docs : d.id # copy[q].id) => \A e \in docs' : e.id # copy[q].id
  BY DEF SameKey
<1> QED BY <1>1, <1>3, <1>4, <1>5, <1>6 DEF SaveOK, Registered, Fits, Stored, Same

\* Ids stay apart when one caller at a time takes a new account.
LEMMA DistinctKept ==
  ASSUME Inv, Step, NEW r \in Callers, \A q \in Callers \ {r} : copy'[q] = copy[q],
         \/ copy'[r] = copy[r]
         \/ \E d \in docs' : d.id = copy'[r].id
         \/ \A q \in Callers \ {r} : copy[q] # None => copy[q].id # copy'[r].id
  PROVE  Distinct'
<1>1. \A d \in docs : \E e \in docs' : e.id = d.id
  BY OnlyThese DEF SameKey
<1>2. Distinct
  BY DEF Inv, SavesOK
<1> SUFFICES ASSUME NEW p \in Callers, NEW q \in Callers, p # q, copy'[p] # None, copy'[q] # None,
                    copy'[p].id = copy'[q].id
             PROVE  \E d \in docs' : d.id = copy'[q].id
  BY DEF Distinct
<1>3. CASE copy'[p] = copy[p] /\ copy'[q] = copy[q]
  BY <1>1, <1>2, <1>3 DEF Distinct
<1>4. CASE p = r \/ q = r
  BY <1>3, <1>4
<1> QED BY <1>3, <1>4
\* A step keeps what callers know of the accounts they are about to save, when it
\* is that of a caller r that leaves the documents alone.
LEMMA SavesKept ==
  ASSUME Inv, Step, NEW r \in Callers, UNCHANGED docs, \A q \in Callers \ {r} : Same(q),
         SaveOK(r)',
         \/ copy'[r] = copy[r]
         \/ \E d \in docs' : d.id = copy'[r].id
         \/ \A q \in Callers \ {r} : copy[q] # None => copy[q].id # copy'[r].id
  PROVE  SavesOK'
<1>1. \A q \in Callers \ {r} : SaveOK(q)'
  BY SaveOKKept DEF SameKey
<1>2. Distinct'
  BY DistinctKept DEF Same
<1> QED BY <1>1, <1>2 DEF SavesOK

\* A new account: its id is that of no document, and of no caller.
LEMMA NewAccount ==
  ASSUME Inv, Step, NEW r \in Callers, NEW default \in BOOLEAN, SaveNew(r, default),
         address[r] \in Addresses, Registered(address[r]), UNCHANGED <<docs, role, address, found>>
  PROVE  SavesOK'
<1>1. PICK id \in FreshIds : Save(r, LocalAccount(id, address[r], default), {}, dbQueue)
  BY DEF SaveNew
<1> DEFINE new == LocalAccount(id, address[r], default)
<1>2. /\ new.id = id /\ new.address = address[r] /\ new # None
      /\ id \in Ids
      /\ \A d \in docs : d.id # id
      /\ \A q \in Callers : copy[q] # None => copy[q].id # id
  BY NoneIsNoAccount DEF FreshIds, LocalAccount, Account
<1>3. /\ copy' = [copy EXCEPT ![r] = new]
      /\ rest' = [rest EXCEPT ![r] = {}]
      /\ pc' = [pc EXCEPT ![r] = "saveFind"]
  BY <1>1 DEF Save
<1> HIDE DEF new
<1>4. \A q \in Callers \ {r} : Same(q)
  BY <1>3 DEF Same, Inv, TypeOK
<1>5. copy'[r] = new /\ rest'[r] = {} /\ pc'[r] = "saveFind"
  BY <1>3 DEF Inv, TypeOK
<1>6. SaveOK(r)'
  BY <1>2, <1>5 DEF SaveOK, Registered, Fits, InBilling
<1> QED BY <1>2, <1>4, <1>5, <1>6, SavesKept

\* What callers know of the accounts they are about to save.
LEMMA SavesStep == ASSUME Inv, Step PROVE SavesOK'
<1> USE DEF Inv, TypeOK
<1>0. \A r \in Callers : SaveOK(r)
  BY DEF SavesOK
<1>1. ASSUME NEW r \in Callers, NEW a \in Addresses,
             IssueSetDefault(r, a) \/ IssueRegisterServiceNode(r, a) \/ IssueRegisterOther(r, a)
      PROVE  SavesOK'
  <2>1. SaveOK(r)'
    BY <1>0, <1>1 DEF IssueSetDefault, IssueRegisterServiceNode, IssueRegisterOther, SaveOK,
       Registered, Fits, Stored, InBilling
  <2>2. UNCHANGED <<docs, copy>> /\ \A q \in Callers \ {r} : Same(q)
    BY <1>1 DEF IssueSetDefault, IssueRegisterServiceNode, IssueRegisterOther, Same
  <2> QED BY <2>1, <2>2, SavesKept
<1>2. ASSUME InitialAccount PROVE SavesOK'
  <2>1. Boot \in Callers /\ (InitialAddress # None => address[Boot] \in Addresses)
    BY AccountsAssumption DEF BootOK
  <2>2. SaveOK(Boot)'
    BY <1>0, <1>2, <2>1 DEF InitialAccount, SaveOK, Registered, Fits, Stored, InBilling
  <2>3. UNCHANGED <<docs, copy>> /\ \A q \in Callers \ {Boot} : Same(q)
    BY <1>2 DEF InitialAccount, Same
  <2> QED BY <2>1, <2>2, <2>3, SavesKept
<1>3. ASSUME NEW r \in Callers, NEW p \in Ended \cup {"postService"}, pc' = [pc EXCEPT ![r] = p],
             pc[r] \in InBilling,
             UNCHANGED <<docs, role, copy, rest, found, address>>
      PROVE  SavesOK'
  <2>1. SaveOK(r)'
    BY <1>0, <1>3 DEF SaveOK, Registered, Fits, Stored, InBilling, Ended
  <2>2. \A q \in Callers \ {r} : Same(q)
    BY <1>3 DEF Same
  <2> QED BY <1>3, <2>1, <2>2, SavesKept
<1>4. ASSUME NEW r \in Callers, RegistrationStatus(r) PROVE SavesOK'
  <2>1. address[r] \in Addresses
    BY <1>0, <1>4 DEF RegistrationStatus, SaveOK, InBilling
  <2>2. CASE role[address[r]] = "service" /\ KnownServiceNode(r)
    BY <2>1, <2>2, <1>4, NewAccount DEF RegistrationStatus, KnownServiceNode, Registered
  <2>3. CASE ~ (role[address[r]] = "service" /\ KnownServiceNode(r))
    BY <2>3, <1>3, <1>4 DEF RegistrationStatus, End, InBilling, Ended
  <2> QED BY <2>2, <2>3
<1>5. ASSUME NEW r \in Callers, RegistrationAccepted(r) PROVE SavesOK'
  <2>1. CASE pc[r] = "postService" /\ SaveNew(r, FALSE)
    <3>1. address[r] \in Addresses /\ Registered(address[r])
      BY <1>0, <1>5, <2>1 DEF RegistrationAccepted, Accepted, SaveOK, InBilling, BillingOK,
         RoleOf, Registered
    <3> QED BY <3>1, <2>1, <1>5, NewAccount DEF RegistrationAccepted
  <2>2. CASE pc[r] = "postOther" /\ End(r, "done")
    BY <2>2, <1>3, <1>5 DEF RegistrationAccepted, End, InBilling, Ended
  <2> QED BY <2>1, <2>2, <1>5 DEF RegistrationAccepted
<1>6. ASSUME NEW r \in Callers, RegistrationRefused(r) \/ RegistrationLost(r) PROVE SavesOK'
  BY <1>3, <1>6 DEF RegistrationRefused, RegistrationLost, End, InBilling, Ended
<1>7. ASSUME NEW r \in Callers, FindByAddress(r) PROVE SavesOK'
  <2> DEFINE mine == OfAddress(docs, address[r])
  <2>1. CASE mine = {}
    <3>1. SaveOK(r)'
      BY <1>0, <1>7, <2>1 DEF FindByAddress, SaveOK, Registered, Fits, Stored, InBilling
    <3>2. UNCHANGED <<docs, copy>> /\ \A q \in Callers \ {r} : Same(q)
      BY <1>7, <2>1 DEF FindByAddress, Same
    <3> QED BY <3>1, <3>2, SavesKept
  <2>2. CASE mine # {}
    <3>1. First(mine) \in mine
      BY <2>2, FirstFacts DEF OfAddress
    <3> DEFINE d == First(mine)
    <3>2. /\ copy' = [copy EXCEPT ![r] = d]
          /\ pc' = [pc EXCEPT ![r] = "findAll"]
          /\ UNCHANGED <<docs, role, address, rest, found>>
      BY <1>7, <2>2 DEF FindByAddress
    <3>3. d \in docs /\ d # None /\ Registered(d.address) /\ \A e \in docs : e.id = d.id => e = d
      BY <3>1, NoneIsNoAccount DEF OfAddress, DocsOK
    <3>4. address[r] \in Addresses
      BY <1>0, <1>7 DEF FindByAddress, Runs, SaveOK
    <3> HIDE DEF d
    <3>5. SaveOK(r)'
      BY <1>0, <3>2, <3>3, <3>4 DEF SaveOK, Registered, Fits, Stored
    <3>6. \A q \in Callers \ {r} : Same(q)
      BY <3>2 DEF Same
    <3>7. \E e \in docs' : e.id = copy'[r].id
      BY <3>2, <3>3
    <3> QED BY <3>2, <3>5, <3>6, <3>7, SavesKept
  <2> QED BY <2>1, <2>2
<1>8. ASSUME NEW r \in Callers, FindAll(r) PROVE SavesOK'
  <2>1. copy[r] \in Account /\ Stored(copy[r]) /\ address[r] \in Addresses
    BY <1>0, <1>8 DEF FindAll, Runs, SaveOK
  <2> DEFINE new == [copy[r] EXCEPT !.default = TRUE]
  <2>2. /\ copy' = [copy EXCEPT ![r] = new]
        /\ rest' = [rest EXCEPT ![r] = Cleared(address[r])]
        /\ pc' = [pc EXCEPT ![r] = "saveFind"]
        /\ UNCHANGED <<docs, role, address, found>>
    BY <1>8 DEF FindAll, Saves, Save
  <2>3. new.id = copy[r].id /\ new.address = copy[r].address /\ new # None
    BY <2>1, NoneIsNoAccount DEF Account
  <2>4. \A c \in Cleared(address[r]) : \E d \in docs : SameKey(d, c)
    BY DEF Cleared, SameKey, Account
  <2> HIDE DEF new
  <2>5. \A c \in Cleared(address[r]) : Registered(c.address) /\ Stored(c)
    BY <2>4 DEF DocsOK, SameKey, Stored
  <2>6. SaveOK(r)'
    <3>1. copy'[r] = new /\ rest'[r] = Cleared(address[r]) /\ pc'[r] = "saveFind"
      BY <2>2
    <3>2. Registered(new.address) /\ Fits(new)
      BY <1>0, <2>1, <2>3, NoneIsNoAccount DEF SaveOK, Fits
    <3> QED BY <2>2, <2>3, <2>5, <3>1, <3>2 DEF SaveOK, Registered, Fits, Stored, InBilling
  <2>7. \A q \in Callers \ {r} : Same(q)
    BY <2>2 DEF Same
  <2>8. \E e \in docs' : e.id = copy'[r].id
    BY <2>1, <2>2, <2>3 DEF Stored
  <2> QED BY <2>2, <2>6, <2>7, <2>8, SavesKept
<1>9. ASSUME NEW r \in Callers, SaveFind(r) PROVE SavesOK'
  <2> DEFINE same == {d \in docs : d.id = copy[r].id}
             read == IF same = {} THEN None ELSE First(same)
  <2>1. /\ found' = [found EXCEPT ![r] = read]
        /\ pc' = [pc EXCEPT ![r] = "saveWrite"]
        /\ UNCHANGED <<docs, role, address, copy, rest>>
    BY <1>9 DEF SaveFind
  <2>2. same # {} => read \in same /\ read # None
    BY FirstFacts, NoneIsNoAccount
  <2>3. IF read = None THEN \A d \in docs : d.id # copy[r].id
        ELSE read \in docs /\ read.id = copy[r].id
    BY <2>2
  <2>4. copy[r] # None /\ Fits(copy[r]) /\ SaveOK(r)
    BY <1>0, <1>9 DEF SaveFind, Runs, SaveOK
  <2> HIDE DEF read
  <2>5. SaveOK(r)'
    BY <2>1, <2>3, <2>4 DEF SaveOK, Registered, Fits, Stored, InBilling
  <2>6. \A q \in Callers \ {r} : Same(q)
    BY <2>1 DEF Same
  <2> QED BY <2>1, <2>5, <2>6, SavesKept
<1>10. ASSUME NEW r \in Callers, SaveWrite(r) PROVE SavesOK'
  <2>1. /\ \A e \in docs' : \/ \E d \in docs : SameKey(d, e)
                            \/ e = copy[r] /\ \A d \in docs : d.id # e.id
        /\ \A d \in docs : \E e \in docs' : SameKey(e, d)
        /\ DocsOK'
    BY <1>10, WriteFacts
  <2>2. UNCHANGED <<role, address, found>> /\ pc[r] = "saveWrite" /\ copy[r] # None
    BY <1>0, <1>10 DEF SaveWrite, Runs, SaveOK
  <2>3. \A q \in Callers \ {r} : Same(q)
    BY <1>10 DEF SaveWrite, SaveRest, Save, Same
  <2>4. ASSUME NEW q \in Callers \ {r} PROVE SaveOK(q)'
    <3>1. \A e \in docs' : copy[q] # None /\ e.id = copy[q].id => \E d \in docs : SameKey(d, e)
      BY <2>1, <2>2 DEF SavesOK, Distinct
    <3> QED BY <2>3, <3>1, SaveOKKept
  <2>5. /\ \A c \in rest[r] : role'[c.address] = "service" /\ \E e \in docs' : SameKey(e, c)
        /\ \A d, e \in docs' : d.id = e.id => d = e
    BY <1>0, <2>1, <2>2 DEF SaveOK, Registered, Stored, SameKey, DocsOK
  <2>6. CASE rest[r] = {}
    <3>1. copy' = copy /\ rest' = rest /\ pc'[r] = "done"
      BY <1>10, <2>6 DEF SaveWrite, SaveRest
    <3>2. \A e \in docs' : e.id = copy[r].id => e.address = copy[r].address
      BY <1>0, <2>1, <2>2 DEF SaveOK, Fits, SameKey
    <3>3. SaveOK(r)'
      BY <1>0, <2>2, <2>6, <3>1, <3>2 DEF SaveOK, Registered, Fits, InBilling
    <3>4. Distinct'
      BY <2>3, <3>1, DistinctKept DEF Same
    <3> QED BY <2>4, <3>3, <3>4 DEF SavesOK
  <2>7. CASE rest[r] # {}
    <3> DEFINE next == First(rest[r])
    <3>1. next \in rest[r] /\ next # None
      BY <2>7, FirstFacts, NoneIsNoAccount
    <3>2. /\ copy' = [copy EXCEPT ![r] = next]
          /\ rest' = [rest EXCEPT ![r] = rest[r] \ {next}]
          /\ pc' = [pc EXCEPT ![r] = "saveFind"]
      BY <1>10, <2>7 DEF SaveWrite, SaveRest, Save
    <3> HIDE DEF next
    <3>3. /\ copy'[r] = next /\ rest'[r] \subseteq rest[r] /\ pc'[r] = "saveFind"
      BY <3>2
    <3>4. SaveOK(r)'
      BY <2>5, <3>1, <3>3 DEF SaveOK, Registered, Fits, Stored, SameKey, InBilling
    <3>5. Distinct'
      BY <2>3, <2>5, <3>1, <3>3, DistinctKept DEF Same, SameKey
    <3> QED BY <2>4, <3>4, <3>5 DEF SavesOK
  <2> QED BY <2>6, <2>7
<1>11. ASSUME NEW m \in requests, BillingRegisters(m) PROVE SavesOK'
  <2>1. UNCHANGED <<docs, copy>> /\ \A q \in Callers : Same(q)
    BY <1>11 DEF BillingRegisters, Same
  <2>2. \A q \in Callers : SaveOK(q)'
    BY <2>1, SaveOKKept DEF SameKey
  <2> QED BY <2>1, <2>2, SavesKept
<1>12. ASSUME StartAgain PROVE SavesOK'
  <2>1. ASSUME NEW q \in Callers PROVE SaveOK(q)'
    BY <1>0, <1>12 DEF StartAgain, Active, SaveOK, Registered, Fits, Stored, InDatabase, InBilling
  <2>2. \A q \in Callers : copy'[q] = copy[q] \/ copy'[q] = None
    BY <1>12 DEF StartAgain
  <2>3. Distinct'
    BY <2>2, <1>12 DEF SavesOK, Distinct, StartAgain
  <2> QED BY <2>1, <2>3 DEF SavesOK
<1>13. ASSUME UNCHANGED state PROVE SavesOK'
  BY <1>13 DEF state, SavesOK, Distinct, SaveOK, Registered, Fits, Stored
<1> QED BY <1>1, <1>2, <1>4, <1>5, <1>6, <1>7, <1>8, <1>9, <1>10, <1>11, <1>12, <1>13
        DEF Step, ClientRequest, Work
\* A caller has one registration at most on its way, and its answer is about it.
LEMMA BillingStep == ASSUME Inv, Step PROVE BillingOK'
<1> USE DEF Inv, TypeOK, BillingOK, RoleOf
<1>1. ASSUME NEW r \in Calls, NEW a \in Addresses, IssueSetDefault(r, a) PROVE BillingOK'
  BY <1>1 DEF IssueSetDefault, MayIssue
<1>2. ASSUME NEW r \in Calls, NEW a \in Addresses, IssueRegisterServiceNode(r, a) PROVE BillingOK'
  BY <1>2 DEF IssueRegisterServiceNode, MayIssue
<1>3. ASSUME NEW r \in Calls, NEW a \in Addresses, IssueRegisterOther(r, a) PROVE BillingOK'
  BY <1>3, AccountsAssumption DEF IssueRegisterOther, MayIssue, Post
<1>4. ASSUME InitialAccount PROVE BillingOK'
  BY <1>4 DEF InitialAccount, Runs
<1>5. ASSUME NEW r \in Callers, NEW p \in {"saveFind", "done", "error", "unreachable"},
             pc' = [pc EXCEPT ![r] = p], pc[r] = "status", UNCHANGED <<role, requests, answer, address>>
      PROVE  BillingOK'
  BY <1>5
<1>6. ASSUME NEW r \in Callers, RegistrationStatus(r) PROVE BillingOK'
  <2>1. CASE pc' = [pc EXCEPT ![r] = "postService"] /\ Post(r, address[r], "service")
    BY <1>6, <2>1, AccountsAssumption DEF RegistrationStatus, Post
  <2>2. CASE UNCHANGED requests
    <3>1. pc[r] = "status" /\ UNCHANGED <<role, answer, address>>
      BY <1>6 DEF RegistrationStatus
    <3>2. CASE KnownServiceNode(r)
      <4>1. pc' = [pc EXCEPT ![r] = "saveFind"]
        BY <3>2 DEF KnownServiceNode, SaveNew, Save
      <4> QED BY <4>1, <3>1, <2>2, <1>5
    <3>3. CASE End(r, "error") \/ End(r, "unreachable")
      <4>1. PICK p \in {"error", "unreachable"} : pc' = [pc EXCEPT ![r] = p]
        BY <3>3 DEF End
      <4> QED BY <4>1, <3>1, <2>2, <1>5
    <3>4. CASE pc' = [pc EXCEPT ![r] = "postService"] /\ Post(r, address[r], "service")
      BY <3>4, <2>1
    <3> QED BY <1>6, <3>2, <3>3, <3>4 DEF RegistrationStatus
  <2> QED BY <1>6, <2>1, <2>2 DEF RegistrationStatus
<1>7. ASSUME NEW q \in requests, BillingRegisters(q) PROVE BillingOK'
  <2>1. \A m \in requests : m.by = q.by /\ m.by # None => m = q
    BY DEF Request
  <2>2. UNCHANGED <<pc, address>> /\ requests' = requests \ {q}
    BY <1>7 DEF BillingRegisters
  <2>3. \A r \in Callers : r # q.by => answer'[r] = answer[r]
    BY <1>7 DEF BillingRegisters
  <2>4. \A m \in requests' : m.by # None => m.by # q.by /\ m.by \in Callers
    BY <2>1, <2>2 DEF Request
  <2>5. \A a \in Addresses : role[a] # "none" => role'[a] = role[a]
    BY <1>7 DEF BillingRegisters
  <2>6. \A r \in Callers : answer[r] = "accepted" => address[r] \in Addresses
    BY DEF SavesOK, SaveOK, InBilling
  <2>7. q.by # None /\ answer'[q.by] = "accepted" => role'[q.address] = q.role
    BY <1>7 DEF BillingRegisters, Request
  <2>8. \A r \in Callers : answer'[r] = "accepted" => role'[address[r]] = RoleOf(r)
    <3> SUFFICES ASSUME NEW r \in Callers, answer'[r] = "accepted" PROVE role'[address[r]] = RoleOf(r)
      OBVIOUS
    <3>1. CASE r = q.by
      BY <3>1, <2>7, AccountsAssumption
    <3>2. CASE r # q.by
      BY <3>2, <2>3, <2>5, <2>6
    <3> QED BY <3>1, <3>2
  <2>9. \A m \in requests' : m.by # None =>
          /\ pc'[m.by] \in {"postService", "postOther"}
          /\ m.address = address'[m.by] /\ m.role = RoleOf(m.by)'
          /\ answer'[m.by] = "none"
    BY <2>2, <2>3, <2>4
  <2>10. \A r \in Callers : answer'[r] # "none" => pc'[r] \in {"postService", "postOther"}
    <3> SUFFICES ASSUME NEW r \in Callers, answer'[r] # "none"
                 PROVE  pc[r] \in {"postService", "postOther"}
      BY <2>2
    <3>1. CASE r = q.by
      BY <3>1, AccountsAssumption
    <3>2. CASE r # q.by
      BY <3>2, <2>3
    <3> QED BY <3>1, <3>2
  <2>11. \A r \in Callers : answer'[r] = "accepted" => role'[address'[r]] = RoleOf(r)'
    BY <2>2, <2>8
  <2> QED BY <2>9, <2>10, <2>11
<1>8. ASSUME NEW r \in Callers, NEW p \in {"saveFind", "done", "conflict"},
             pc' = [pc EXCEPT ![r] = p], answer[r] # "none", answer' = [answer EXCEPT ![r] = "none"],
             UNCHANGED <<role, requests, address>>
      PROVE  BillingOK'
  BY <1>8
<1>9. ASSUME NEW r \in Callers, RegistrationAccepted(r) PROVE BillingOK'
  BY <1>8, <1>9 DEF RegistrationAccepted, Accepted, SaveNew, Save, End
<1>10. ASSUME NEW r \in Callers, RegistrationRefused(r) PROVE BillingOK'
  BY <1>8, <1>10 DEF RegistrationRefused, End
<1>11. ASSUME NEW r \in Callers, RegistrationLost(r) PROVE BillingOK'
  BY <1>11, AccountsAssumption DEF RegistrationLost, End, Forsaken, Request
<1>12. ASSUME NEW r \in Callers, FindByAddress(r) \/ FindAll(r) \/ SaveFind(r) \/ SaveWrite(r)
       PROVE  BillingOK'
  <2>1. PICK p \in {"error", "findAll", "saveFind", "saveWrite", "done"} :
          pc' = [pc EXCEPT ![r] = p] /\ pc[r] \notin {"postService", "postOther"}
    BY <1>12 DEF FindByAddress, FindAll, SaveFind, SaveWrite, SaveRest, Save, Runs
  <2>2. UNCHANGED <<role, requests, answer, address>>
    BY <1>12 DEF FindByAddress, FindAll, SaveFind, SaveWrite
  <2> QED BY <2>1, <2>2
<1>13. ASSUME StartAgain PROVE BillingOK'
  BY <1>13, AccountsAssumption DEF StartAgain, Forsaken, Active, InBilling, Request
<1>14. ASSUME UNCHANGED state PROVE BillingOK'
  BY <1>14 DEF state
<1> QED BY <1>1, <1>2, <1>3, <1>4, <1>6, <1>7, <1>9, <1>10, <1>11, <1>12, <1>13, <1>14
        DEF Step, ClientRequest, Work

\* The hook registers the initial account, and the process serves with an account.
LEMMA BootStep == ASSUME Inv, Step PROVE BootOK'
<1> USE AccountsAssumption DEF Inv, TypeOK, BootOK, BootedHasAccount, Serving
<1>1. docs # {} => docs' # {}
  BY OnlyThese
<1>2. ASSUME UNCHANGED <<pc, address>> \/ (UNCHANGED address /\ pc'[Boot] = pc[Boot]) PROVE BootOK'
  BY <1>1, <1>2
<1>3. ASSUME NEW r \in Calls, NEW a \in Addresses,
             IssueSetDefault(r, a) \/ IssueRegisterServiceNode(r, a) \/ IssueRegisterOther(r, a)
      PROVE  BootOK'
  <2>1. r # Boot /\ pc'[Boot] = pc[Boot] /\ address'[Boot] = address[Boot]
    BY <1>3 DEF IssueSetDefault, IssueRegisterServiceNode, IssueRegisterOther
  <2> QED BY <1>1, <2>1
<1>4. ASSUME InitialAccount PROVE BootOK'
  BY <1>4 DEF InitialAccount
<1>5. ASSUME NEW r \in Callers, RegistrationStatus(r) PROVE BootOK'
  <2>1. PICK p \in {"postService", "saveFind", "error", "unreachable"} :
          pc' = [pc EXCEPT ![r] = p] /\ UNCHANGED <<docs, address>>
    BY <1>5 DEF RegistrationStatus, KnownServiceNode, SaveNew, Save, End
  <2> QED BY <2>1, <1>1
<1>6. ASSUME NEW r \in Callers, RegistrationAccepted(r) PROVE BootOK'
  <2>1. UNCHANGED address /\ \/ pc' = [pc EXCEPT ![r] = "saveFind"]
                             \/ pc[r] = "postOther" /\ pc' = [pc EXCEPT ![r] = "done"]
    BY <1>6 DEF RegistrationAccepted, SaveNew, Save, End
  <2> QED BY <2>1, <1>1
<1>7. ASSUME NEW r \in Callers, RegistrationRefused(r) \/ RegistrationLost(r) PROVE BootOK'
  <2>1. PICK p \in {"conflict", "unreachable"} : pc' = [pc EXCEPT ![r] = p] /\ UNCHANGED address
    BY <1>7 DEF RegistrationRefused, RegistrationLost, End
  <2> QED BY <2>1, <1>1
<1>8. ASSUME NEW r \in Callers, FindByAddress(r) \/ FindAll(r) PROVE BootOK'
  <2>1. r # Boot /\ UNCHANGED address
    BY <1>8 DEF FindByAddress, FindAll, Runs
  <2>2. pc'[Boot] = pc[Boot]
    BY <1>8, <2>1 DEF FindByAddress, FindAll, Save
  <2> QED BY <2>1, <2>2, <1>2
<1>9. ASSUME NEW r \in Callers, SaveFind(r) PROVE BootOK'
  BY <1>1, <1>9 DEF SaveFind
<1>10. ASSUME NEW r \in Callers, SaveWrite(r) PROVE BootOK'
  <2>1. docs' # {}
    BY <1>10, WriteFacts
  <2>2. PICK p \in {"done", "saveFind"} : pc' = [pc EXCEPT ![r] = p] /\ UNCHANGED address
    BY <1>10 DEF SaveWrite, SaveRest, Save
  <2> QED BY <2>1, <2>2
<1>11. ASSUME NEW q \in requests, BillingRegisters(q) PROVE BootOK'
  BY <1>2, <1>11 DEF BillingRegisters
<1>12. ASSUME StartAgain PROVE BootOK'
  BY <1>12 DEF StartAgain
<1>13. ASSUME UNCHANGED state PROVE BootOK'
  BY <1>2, <1>13 DEF state
<1> QED BY <1>3, <1>4, <1>5, <1>6, <1>7, <1>8, <1>9, <1>10, <1>11, <1>12, <1>13
        DEF Step, ClientRequest, Work
-----------------------------------------------------------------------------
(***************************************************************************)
(* The invariant, and what follows from it.                                *)
(***************************************************************************)
\* A step of Accounts, in whatever process, keeps the invariant.
LEMMA StepInv == ASSUME Inv, Step PROVE Inv'
  BY TypeStep, OnlyThese, BillingStep, SavesStep, BootStep DEF Inv

\* Every reachable state satisfies the invariant.
THEOREM Invariance == Spec => []Inv
<1>1. Inv /\ [Next]_vars => Inv'
  BY StepInv DEF Step, state, Next, Restart, vars
<1> QED BY <1>1, InitInv, PTL DEF Spec

\* Type correctness: whatever the variables hold has the shape TypeOK gives.
THEOREM TypeCorrectness == Spec => []TypeOK
  BY Invariance, PTL DEF Inv

\* No local account is stored that billing has not registered as that of a service
\* node, and no two under one id (registerServiceNodeAccount, save).
THEOREM AccountsAreRegistered == Spec => []LocalAccountsAreRegistered
<1>1. Inv => LocalAccountsAreRegistered
  BY DEF Inv, DocsOK, Registered, LocalAccountsAreRegistered
<1> QED BY <1>1, Invariance, PTL

\* A node that was given an initial account serves only with an account.
THEOREM InitialAccountIsStored == Spec => []BootedHasAccount
<1>1. Inv => BootedHasAccount
  BY DEF Inv, BootOK
<1> QED BY <1>1, Invariance, PTL
=============================================================================
