------------------------- MODULE DefaultAccountProof --------------------------
(***************************************************************************)
(* Proofs about the default account, for every set of addresses, requests  *)
(* and ids: what the loop of saves of setDefaultAccount does while nobody  *)
(* else is at work.                                                        *)
(*                                                                         *)
(* A call first chooses (it saves its own account as the default one) and  *)
(* then clears (it saves the others, as it read them, without the flag).   *)
(***************************************************************************)
EXTENDS AccountsProof

Saving(r) == pc[r] \in {"saveFind", "saveWrite"}

\* The account that r saves has a document: r is in a loop of setDefaultAccount.
Known(r) == \E d \in docs : d.id = copy[r].id

Choosing(r) == Saving(r) /\ Known(r) /\ copy[r].address = address[r]
Clearing(r) == Saving(r) /\ copy[r].address # address[r]

\* What a caller saves, and in which order.
LoopOK ==
  \A r \in Callers :
    /\ Saving(r) /\ (rest[r] # {} \/ Clearing(r)) => Known(r)
    /\ Choosing(r) => copy[r].default
    /\ Clearing(r) => ~copy[r].default
    /\ pc[r] = "findAll" => copy[r].address = address[r]
    /\ \A c \in rest[r] : ~c.default /\ c.address # address[r]
    /\ ~Saving(r) => rest[r] = {}
    /\ r = Boot /\ Saving(r) => ~Known(r)

\* Without overlap, one caller is at work at a time, ...
OneAtWork == ~overlap => \A p, q \in Callers : Active(p) /\ Active(q) => p = q

\* ... what it has read is still there, and of the default accounts of other
\* addresses it is going to save each.
EffectOK ==
  ~overlap => \A r \in Callers :
    /\ pc[r] = "saveWrite" /\ found[r] # None => found[r] \in docs
    /\ Clearing(r) => \E d \in docs : d.default /\ d.address = address[r]
    /\ Saving(r) /\ Known(r) =>
         \A d \in docs : d.default /\ d.address # address[r]
                          => d.id = copy[r].id \/ \E c \in rest[r] : c.id = d.id

DefaultInv == Inv /\ LoopOK /\ OneAtWork /\ EffectOK
-----------------------------------------------------------------------------
(***************************************************************************)
(* What a step does to the callers and to the documents.                   *)
(***************************************************************************)
\* The caller is not in the loop of saves, nor about to enter it.
Outside(r) == pc[r] \notin {"findAll", "saveFind", "saveWrite"}

\* The caller is about to save an account that it has just registered.
Registers(r) ==
  /\ pc[r] \in InBilling
  /\ pc'[r] = "saveFind"
  /\ rest'[r] = {}
  /\ copy'[r].address = address'[r]
  /\ \A d \in docs : d.id # copy'[r].id

\* The caller has found the account that is to be the default one.
Finds(r) ==
  /\ pc[r] = "byAddress"
  /\ pc'[r] = "findAll"
  /\ copy'[r].address = address'[r]
  /\ rest'[r] = rest[r]

\* A new account is of an id that no document has.
LEMMA SaveNewRegisters ==
  ASSUME Inv, NEW r \in Callers, NEW default \in BOOLEAN, SaveNew(r, default),
         pc[r] \in InBilling, UNCHANGED <<address, found>>
  PROVE  Registers(r) /\ \A q \in Callers \ {r} : Same(q)
<1>1. PICK id \in FreshIds : Save(r, LocalAccount(id, address[r], default), {}, dbQueue)
  BY DEF SaveNew
<1> DEFINE new == LocalAccount(id, address[r], default)
<1>2. new.id = id /\ new.address = address[r] /\ \A d \in docs : d.id # id
  BY DEF FreshIds, LocalAccount
<1>3. /\ copy' = [copy EXCEPT ![r] = new]
      /\ rest' = [rest EXCEPT ![r] = {}]
      /\ pc' = [pc EXCEPT ![r] = "saveFind"]
  BY <1>1 DEF Save
<1> HIDE DEF new
<1> QED BY <1>2, <1>3 DEF Registers, Same, Inv, TypeOK

\* A step is that of one caller at most, or the process starts again.
LEMMA Moves ==
  ASSUME Inv, Step
  PROVE  \/ StartAgain
         \/ UNCHANGED docs /\ \A q \in Callers : Same(q)
         \/ \E r \in Callers :
              /\ \A q \in Callers \ {r} : Same(q)
              /\ \/ UNCHANGED docs
                    /\ Outside(r) /\ Outside(r)' /\ pc[r] # "lost" /\ rest'[r] = rest[r]
                 \/ UNCHANGED docs /\ (Registers(r) \/ Finds(r))
                 \/ FindAll(r) \/ SaveFind(r) \/ SaveWrite(r)
<1> USE DEF Inv, TypeOK
<1> DEFINE Quiet(r) == /\ \A q \in Callers \ {r} : Same(q)
                       /\ UNCHANGED docs
                       /\ Outside(r) /\ Outside(r)' /\ pc[r] # "lost" /\ rest'[r] = rest[r]
           Others(r) == \A q \in Callers \ {r} : Same(q)
<1>1. ASSUME NEW r \in Callers, NEW a \in Addresses,
             IssueSetDefault(r, a) \/ IssueRegisterServiceNode(r, a) \/ IssueRegisterOther(r, a)
      PROVE  Quiet(r)
  BY <1>1 DEF IssueSetDefault, IssueRegisterServiceNode, IssueRegisterOther, MayIssue, Same,
     Outside
<1>2. ASSUME InitialAccount PROVE Quiet(Boot)
  BY <1>2 DEF InitialAccount, Runs, Same, Outside
<1>3. ASSUME NEW r \in Callers, NEW p \in Ended \cup {"postService"}, pc' = [pc EXCEPT ![r] = p],
             pc[r] \in InBilling, UNCHANGED <<docs, copy, rest, found, address>>
      PROVE  Quiet(r)
  BY <1>3 DEF Same, Outside, Ended, InBilling
<1>4. ASSUME NEW r \in Callers, RegistrationStatus(r)
      PROVE  Quiet(r) \/ (Others(r) /\ UNCHANGED docs /\ Registers(r))
  <2>1. CASE KnownServiceNode(r)
    BY <2>1, <1>4, SaveNewRegisters DEF RegistrationStatus, KnownServiceNode, InBilling
  <2>2. CASE ~KnownServiceNode(r)
    BY <2>2, <1>3, <1>4 DEF RegistrationStatus, End, InBilling, Ended
  <2> QED BY <2>1, <2>2
<1>5. ASSUME NEW r \in Callers, RegistrationAccepted(r)
      PROVE  Quiet(r) \/ (Others(r) /\ UNCHANGED docs /\ Registers(r))
  <2>1. CASE pc[r] = "postService" /\ SaveNew(r, FALSE)
    BY <2>1, <1>5, SaveNewRegisters DEF RegistrationAccepted, InBilling
  <2>2. CASE pc[r] = "postOther" /\ End(r, "done")
    BY <2>2, <1>3, <1>5 DEF RegistrationAccepted, End, InBilling, Ended
  <2> QED BY <2>1, <2>2, <1>5 DEF RegistrationAccepted
<1>6. ASSUME NEW r \in Callers, RegistrationRefused(r) \/ RegistrationLost(r) PROVE Quiet(r)
  BY <1>3, <1>6 DEF RegistrationRefused, RegistrationLost, End, InBilling, Ended
<1>7. ASSUME NEW r \in Callers, FindByAddress(r)
      PROVE  Quiet(r) \/ (Others(r) /\ UNCHANGED docs /\ Finds(r))
  <2> DEFINE mine == OfAddress(docs, address[r])
  <2>1. CASE mine = {}
    BY <2>1, <1>7 DEF FindByAddress, Runs, Same, Outside
  <2>2. CASE mine # {}
    <3> DEFINE d == First(mine)
    <3>1. d.address = address[r]
      <4>1. mine \in SUBSET Account /\ \A e \in mine : e.address = address[r]
        BY DEF OfAddress
      <4> HIDE DEF mine
      <4> QED BY <2>2, <4>1, FirstFacts
    <3>2. /\ copy' = [copy EXCEPT ![r] = d]
          /\ pc' = [pc EXCEPT ![r] = "findAll"]
          /\ pc[r] = "byAddress"
          /\ UNCHANGED <<docs, address, rest, found>>
      BY <1>7, <2>2 DEF FindByAddress, Runs
    <3> HIDE DEF d
    <3> QED BY <3>1, <3>2 DEF Same, Finds
  <2> QED BY <2>1, <2>2
<1>8. ASSUME NEW r \in Callers, FindAll(r) \/ SaveFind(r) \/ SaveWrite(r) PROVE Others(r)
  <2>1. FindAll(r) => Others(r)
    BY DEF FindAll, Save, Same
  <2>2. SaveFind(r) => Others(r)
    BY DEF SaveFind, Same
  <2>3. SaveWrite(r) => Others(r)
    BY DEF SaveWrite, SaveRest, Save, Same
  <2> QED BY <1>8, <2>1, <2>2, <2>3
<1>9. ASSUME NEW q \in requests, BillingRegisters(q) PROVE UNCHANGED docs /\ \A r \in Callers : Same(r)
  BY <1>9 DEF BillingRegisters, Same
<1>10. ASSUME UNCHANGED state PROVE UNCHANGED docs /\ \A r \in Callers : Same(r)
  BY <1>10 DEF state, Same
<1> DEFINE Nobody == UNCHANGED docs /\ \A q \in Callers : Same(q)
           Somebody == \E r \in Callers :
             \/ Quiet(r)
             \/ Others(r) /\ \/ UNCHANGED docs /\ (Registers(r) \/ Finds(r))
                             \/ FindAll(r) \/ SaveFind(r) \/ SaveWrite(r)
<1> HIDE DEF Quiet, Others, Inv, TypeOK
<1>11. CASE ClientRequest
  <2>1. Somebody
    BY <1>1, <1>11 DEF ClientRequest, Callers
  <2> QED BY <2>1 DEF Quiet, Others
<1>12. CASE Work
  <2>1. InitialAccount => Somebody
    BY <1>2 DEF Callers
  <2>2. ASSUME NEW r \in Callers,
               \/ RegistrationStatus(r) \/ RegistrationAccepted(r) \/ RegistrationRefused(r)
               \/ RegistrationLost(r) \/ FindByAddress(r) \/ FindAll(r) \/ SaveFind(r) \/ SaveWrite(r)
        PROVE  Somebody
    BY <1>4, <1>5, <1>6, <1>7, <1>8, <2>2
  <2>3. (\E q \in requests : BillingRegisters(q)) => Nobody
    BY <1>9
  <2>4. Somebody \/ Nobody
    BY <1>12, <2>1, <2>2, <2>3 DEF Work
  <2> QED BY <2>4 DEF Quiet, Others
<1>13. CASE UNCHANGED state
  BY <1>10, <1>13
<1> QED BY <1>11, <1>12, <1>13 DEF Step

\* What setDefaultAccount is going to save.
LEMMA FindAllFacts ==
  ASSUME Inv, NEW r \in Callers, FindAll(r)
  PROVE  /\ UNCHANGED <<docs, address, found>>
         /\ pc[r] = "findAll" /\ pc'[r] = "saveFind"
         /\ Stored(copy[r])
         /\ copy'[r].default /\ copy'[r].id = copy[r].id /\ copy'[r].address = copy[r].address
         /\ \A c \in rest'[r] : ~c.default /\ c.address # address[r]
         /\ \A d \in docs : d.address # address[r] => \E c \in rest'[r] : c.id = d.id
<1> USE DEF Inv, TypeOK
<1> DEFINE new == [copy[r] EXCEPT !.default = TRUE]
<1>1. copy[r] \in Account /\ Stored(copy[r]) /\ pc[r] = "findAll"
  BY DEF FindAll, Runs, SavesOK, SaveOK
<1>2. /\ copy' = [copy EXCEPT ![r] = new]
      /\ rest' = [rest EXCEPT ![r] = Cleared(address[r])]
      /\ pc' = [pc EXCEPT ![r] = "saveFind"]
      /\ UNCHANGED <<docs, address, found>>
  BY DEF FindAll, Saves, Save
<1>3. new.default /\ new.id = copy[r].id /\ new.address = copy[r].address
  BY <1>1 DEF Account
<1> DEFINE unmarked(d) == [d EXCEPT !.default = FALSE]
<1>4. \A d \in docs : /\ ~unmarked(d).default
                      /\ unmarked(d).address = d.address /\ unmarked(d).id = d.id
  BY DEF Account
<1>5. Cleared(address[r]) = {unmarked(d) : d \in {e \in docs : e.address # address[r]}}
  BY DEF Cleared, OfAddress
<1> HIDE DEF unmarked
<1>6. /\ \A c \in Cleared(address[r]) : ~c.default /\ c.address # address[r]
      /\ \A d \in docs : d.address # address[r] => \E c \in Cleared(address[r]) : c.id = d.id
  BY <1>4, <1>5
<1> HIDE DEF new
<1> QED BY <1>1, <1>2, <1>3, <1>6

\* What save() reads first.
LEMMA SaveFindFacts ==
  ASSUME Inv, NEW r \in Callers, SaveFind(r)
  PROVE  /\ UNCHANGED <<docs, address, copy, rest>>
         /\ pc[r] = "saveFind" /\ pc'[r] = "saveWrite"
         /\ Known(r) => found'[r] \in docs /\ found'[r] # None
         /\ ~Known(r) => found'[r] = None
<1> USE DEF Inv, TypeOK
<1> DEFINE same == {d \in docs : d.id = copy[r].id}
           read == IF same = {} THEN None ELSE First(same)
<1>1. /\ found' = [found EXCEPT ![r] = read]
      /\ pc' = [pc EXCEPT ![r] = "saveWrite"]
      /\ pc[r] = "saveFind"
      /\ UNCHANGED <<docs, address, copy, rest>>
  BY DEF SaveFind, Runs
<1>2. same # {} => read \in same /\ read # None
  BY FirstFacts, NoneIsNoAccount
<1>3. /\ Known(r) => read \in docs /\ read # None
      /\ ~Known(r) => read = None
  BY <1>2 DEF Known
<1> HIDE DEF read
<1> QED BY <1>1, <1>3

\* What save() writes, and how the loop goes on.
LEMMA SaveWriteFacts ==
  ASSUME Inv, NEW r \in Callers, SaveWrite(r)
  PROVE  /\ UNCHANGED address
         /\ pc[r] = "saveWrite" /\ copy[r] \in Account
         /\ \/ ~Known(r) /\ docs' = docs \cup {copy[r]}
            \/ /\ Known(r) /\ found[r] # None
               /\ found[r].id = copy[r].id /\ found[r].address = copy[r].address
               /\ \/ found[r] \in docs /\ docs' = (docs \ {found[r]}) \cup {copy[r]}
                  \/ found[r] \notin docs /\ docs' = docs
         /\ \/ rest[r] = {} /\ pc'[r] = "done" /\ rest'[r] = {} /\ copy'[r] = copy[r]
            \/ /\ pc'[r] = "saveFind"
               /\ copy'[r] \in rest[r]
               /\ rest'[r] = rest[r] \ {copy'[r]}
         /\ found'[r] = found[r]
<1> USE DEF Inv, TypeOK
<1>1. /\ pc[r] = "saveWrite" /\ copy[r] \in Account
      /\ IF found[r] = None THEN \A d \in docs : d.id # copy[r].id
         ELSE /\ found[r].id = copy[r].id /\ found[r].address = copy[r].address
              /\ Stored(copy[r])
  BY DEF SaveWrite, Runs, SavesOK, SaveOK
<1>2. \/ ~Known(r) /\ docs' = docs \cup {copy[r]}
      \/ /\ Known(r) /\ found[r] # None
         /\ found[r].id = copy[r].id /\ found[r].address = copy[r].address
         /\ \/ found[r] \in docs /\ docs' = (docs \ {found[r]}) \cup {copy[r]}
            \/ found[r] \notin docs /\ docs' = docs
  BY <1>1 DEF SaveWrite, Known, Stored
<1>3. CASE rest[r] = {}
  BY <1>1, <1>2, <1>3 DEF SaveWrite, SaveRest
<1>4. CASE rest[r] # {}
  <2> DEFINE next == First(rest[r])
  <2>1. next \in rest[r]
    BY <1>4, FirstFacts
  <2>2. /\ copy' = [copy EXCEPT ![r] = next]
        /\ rest' = [rest EXCEPT ![r] = rest[r] \ {next}]
        /\ pc' = [pc EXCEPT ![r] = "saveFind"]
        /\ UNCHANGED <<address, found>>
    BY <1>4 DEF SaveWrite, SaveRest, Save
  <2> HIDE DEF next
  <2> QED BY <1>1, <1>2, <2>1, <2>2
<1> QED BY <1>3, <1>4

\* Whether the account of an idle caller has a document does not change: nobody
\* else inserts one of its id.
LEMMA KnownKept ==
  ASSUME Inv, Step, NEW q \in Callers, Same(q), copy[q] # None
  PROVE  Known(q)' <=> Known(q)
<1>1. Known(q) => Known(q)'
  BY OnlyThese DEF Known, SameKey, Same
<1>2. ASSUME NEW r \in Callers, SaveWrite(r), Known(q)' PROVE Known(q)
  <2>1. r # q /\ copy[r] # None
    BY <1>2, SaveWriteFacts, NoneIsNoAccount DEF Same
  <2>2. PICK e \in docs' : e.id = copy[q].id
    BY <1>2 DEF Known, Same
  <2>3. \/ \E d \in docs : SameKey(d, e)
        \/ e = copy[r] /\ \A d \in docs : d.id # e.id
    BY <1>2, WriteFacts
  <2> QED BY <2>1, <2>2, <2>3 DEF Known, SameKey, Inv, SavesOK, Distinct
<1>3. UNCHANGED docs => (Known(q)' => Known(q))
  BY DEF Known, Same
<1>4. UNCHANGED docs \/ \E r \in Callers : SaveWrite(r)
  BY Moves DEF StartAgain, FindAll, SaveFind
<1> QED BY <1>1, <1>2, <1>3, <1>4

\* What a caller saves, and in which order, is kept by a step.
LEMMA LoopStep == ASSUME Inv, LoopOK, Step PROVE LoopOK'
<1> DEFINE P(r) == /\ Saving(r) /\ (rest[r] # {} \/ Clearing(r)) => Known(r)
                   /\ Choosing(r) => copy[r].default
                   /\ Clearing(r) => ~copy[r].default
                   /\ pc[r] = "findAll" => copy[r].address = address[r]
                   /\ \A c \in rest[r] : ~c.default /\ c.address # address[r]
                   /\ ~Saving(r) => rest[r] = {}
                   /\ r = Boot /\ Saving(r) => ~Known(r)
<1>0. \A r \in Callers : P(r)
  BY DEF LoopOK
<1>1. ASSUME NEW q \in Callers, Same(q) PROVE P(q)'
  <2>1. Saving(q) => copy[q] # None
    BY DEF Inv, SavesOK, SaveOK, Saving
  <2>2. /\ Saving(q)' <=> Saving(q)
        /\ Clearing(q)' <=> Clearing(q)
        /\ Saving(q) => (Known(q)' <=> Known(q))
    BY <1>1, <2>1, KnownKept DEF Saving, Clearing, Same
  <2>3. Choosing(q)' <=> Choosing(q)
    BY <1>1, <2>2 DEF Choosing, Same
  <2> QED BY <1>0, <1>1, <2>2, <2>3 DEF Same
<1>2. ASSUME StartAgain, NEW q \in Callers PROVE P(q)'
  BY <1>2 DEF StartAgain, Active, Saving, Choosing, Clearing, InDatabase
<1>3. ASSUME NEW r \in Callers, Outside(r), Outside(r)', rest'[r] = rest[r] PROVE P(r)'
  BY <1>0, <1>3 DEF Outside, Saving, Choosing, Clearing
<1>4. ASSUME NEW r \in Callers, UNCHANGED docs, Registers(r) PROVE P(r)'
  BY <1>4 DEF Registers, Saving, Choosing, Clearing, Known
<1>5. ASSUME NEW r \in Callers, Finds(r) PROVE P(r)'
  BY <1>0, <1>5 DEF Finds, Saving, Choosing, Clearing
<1>6. ASSUME NEW r \in Callers, FindAll(r) PROVE P(r)'
  <2>1. copy'[r].address = address'[r] /\ Known(r)' /\ r # Boot
    BY <1>0, <1>6, FindAllFacts DEF Known, Stored, Inv, BootOK
  <2> QED BY <1>6, <2>1, FindAllFacts DEF Saving, Choosing, Clearing
<1>7. ASSUME NEW r \in Callers, SaveFind(r) PROVE P(r)'
  BY <1>0, <1>7, SaveFindFacts DEF Saving, Choosing, Clearing, Known
<1>8. ASSUME NEW r \in Callers, SaveWrite(r) PROVE P(r)'
  <2>1. CASE rest[r] = {} /\ pc'[r] = "done" /\ rest'[r] = {}
    BY <2>1 DEF Saving, Choosing, Clearing
  <2>2. CASE pc'[r] = "saveFind" /\ copy'[r] \in rest[r] /\ rest'[r] = rest[r] \ {copy'[r]}
    <3>1. Saving(r) /\ UNCHANGED address
      BY <1>8, SaveWriteFacts DEF Saving
    <3>2. r # Boot /\ ~copy'[r].default /\ copy'[r].address # address[r]
      BY <1>0, <2>2, <3>1
    <3>3. Known(r)'
      BY <2>2, OnlyThese DEF Inv, SavesOK, SaveOK, Stored, Known, SameKey
    <3> QED BY <1>0, <2>2, <3>1, <3>2, <3>3 DEF Saving, Choosing, Clearing
  <2> QED BY <1>8, <2>1, <2>2, SaveWriteFacts
<1>9. \A q \in Callers : P(q)'
  BY <1>1, <1>2, <1>3, <1>4, <1>5, <1>6, <1>7, <1>8, Moves
<1> QED BY <1>9 DEF LoopOK

-----------------------------------------------------------------------------
(***************************************************************************)
(* Without overlap.                                                        *)
(***************************************************************************)
\* A request starts when no other is at work, and the hook before all of them.
LEMMA OneAtWorkStep == ASSUME Inv, OneAtWork, Step PROVE OneAtWork'
<1> SUFFICES ASSUME ~overlap PROVE \A p, q \in Callers : Active(p)' /\ Active(q)' => p = q
  BY DEF Step, OneAtWork
<1> USE DEF Inv, TypeOK, Active
<1>0. \A p, q \in Callers : Active(p) /\ Active(q) => p = q
  BY DEF OneAtWork
<1>1. ASSUME NEW r \in Callers, Active(r), NEW x, pc' = [pc EXCEPT ![r] = x]
      PROVE  \A p, q \in Callers : Active(p)' /\ Active(q)' => p = q
  BY <1>0, <1>1
<1>2. ASSUME NEW r \in Calls, NEW a \in Addresses,
             IssueSetDefault(r, a) \/ IssueRegisterServiceNode(r, a) \/ IssueRegisterOther(r, a)
      PROVE  \A p, q \in Callers : Active(p)' /\ Active(q)' => p = q
  <2>1. \A q \in Callers : ~Active(q)
    BY <1>2 DEF IssueSetDefault, IssueRegisterServiceNode, IssueRegisterOther, MayIssue, Serving,
       Callers, InDatabase, InBilling
  <2>2. \E x : pc' = [pc EXCEPT ![r] = x]
    BY <1>2 DEF IssueSetDefault, IssueRegisterServiceNode, IssueRegisterOther
  <2> QED BY <2>1, <2>2 DEF Callers
<1>3. ASSUME InitialAccount PROVE \A p, q \in Callers : Active(p)' /\ Active(q)' => p = q
  <2>1. Boot \in Callers /\ Active(Boot) /\ \E x : pc' = [pc EXCEPT ![Boot] = x]
    BY <1>3 DEF InitialAccount, Runs, Callers, InDatabase
  <2> QED BY <2>1, <1>1
<1>4. ASSUME NEW r \in Callers,
             \/ RegistrationStatus(r) \/ RegistrationAccepted(r) \/ RegistrationRefused(r)
             \/ RegistrationLost(r)
      PROVE  \A p, q \in Callers : Active(p)' /\ Active(q)' => p = q
  <2>1. Active(r)
    BY <1>4 DEF RegistrationStatus, RegistrationAccepted, RegistrationRefused, RegistrationLost, InBilling
  <2>2. \E x : pc' = [pc EXCEPT ![r] = x]
    BY <1>4 DEF RegistrationStatus, RegistrationAccepted, RegistrationRefused, RegistrationLost,
       KnownServiceNode, SaveNew, Save, End
  <2> QED BY <2>1, <2>2, <1>1
<1>5. ASSUME NEW r \in Callers, FindByAddress(r) \/ FindAll(r) \/ SaveFind(r) \/ SaveWrite(r)
      PROVE  \A p, q \in Callers : Active(p)' /\ Active(q)' => p = q
  <2>1. Active(r)
    BY <1>5 DEF FindByAddress, FindAll, SaveFind, SaveWrite, Runs, InDatabase
  <2>2. \E x : pc' = [pc EXCEPT ![r] = x]
    BY <1>5 DEF FindByAddress, FindAll, SaveFind, SaveWrite, SaveRest, Save
  <2> QED BY <2>1, <2>2, <1>1
<1>6. ASSUME StartAgain PROVE \A p, q \in Callers : Active(p)' /\ Active(q)' => p = q
  BY <1>6 DEF StartAgain, InDatabase, InBilling
<1>7. (\E q \in requests : BillingRegisters(q)) \/ UNCHANGED state => UNCHANGED pc
  BY DEF BillingRegisters, state
<1>8. CASE ClientRequest
  BY <1>2, <1>8 DEF ClientRequest
<1>9. CASE Work
  BY <1>0, <1>3, <1>4, <1>5, <1>7, <1>9 DEF Work
<1> QED BY <1>0, <1>6, <1>7, <1>8, <1>9 DEF Step

\* What a caller that does nothing knows is kept while the documents stay.
LEMMA SavingKept ==
  ASSUME NEW q \in Callers, Same(q), UNCHANGED docs
  PROVE  /\ Saving(q)' <=> Saving(q)
         /\ Known(q)' <=> Known(q)
         /\ Choosing(q)' <=> Choosing(q)
         /\ Clearing(q)' <=> Clearing(q)
  BY DEF Same, Saving, Known, Choosing, Clearing

\* A caller that is alone at work replaces what it read.
LEMMA EffectStep == ASSUME Inv, LoopOK, OneAtWork, EffectOK, Step PROVE EffectOK'
<1> SUFFICES ASSUME ~overlap PROVE EffectOK'
  BY DEF Step, EffectOK
<1> DEFINE P(r) == /\ pc[r] = "saveWrite" /\ found[r] # None => found[r] \in docs
                   /\ Clearing(r) => \E d \in docs : d.default /\ d.address = address[r]
                   /\ Saving(r) /\ Known(r) =>
                        \A d \in docs : d.default /\ d.address # address[r]
                                         => d.id = copy[r].id \/ \E c \in rest[r] : c.id = d.id
<1>0. \A r \in Callers : P(r)
  BY DEF EffectOK
<1>1. ASSUME NEW q \in Callers, Same(q), UNCHANGED docs PROVE P(q)'
  <2>1. P(q) /\ (Saving(q)' <=> Saving(q)) /\ (Known(q)' <=> Known(q)) /\ (Clearing(q)' <=> Clearing(q))
    BY <1>0, <1>1, SavingKept
  <2> QED BY <1>1, <2>1 DEF Same
<1>2. ASSUME NEW q \in Callers, ~Saving(q)' PROVE P(q)'
  BY <1>2 DEF Saving, Clearing
<1>3. ASSUME NEW r \in Callers, UNCHANGED docs, Registers(r) PROVE P(r)'
  BY <1>3 DEF Registers, Saving, Clearing, Known
<1>4. ASSUME NEW r \in Callers, FindAll(r) PROVE P(r)'
  BY <1>4, FindAllFacts DEF LoopOK, Saving, Clearing
<1>5. ASSUME NEW r \in Callers, SaveFind(r) PROVE P(r)'
  BY <1>0, <1>5, SaveFindFacts DEF Saving, Clearing, Known
<1>6. ASSUME NEW r \in Callers, SaveWrite(r), pc'[r] = "saveFind" PROVE P(r)'
  <2>1. /\ UNCHANGED address /\ pc[r] = "saveWrite" /\ Saving(r)
        /\ copy'[r] \in rest[r] /\ rest'[r] = rest[r] \ {copy'[r]}
    BY <1>6, SaveWriteFacts DEF Saving
  <2>2. Known(r) /\ copy'[r].address # address[r]
    BY <2>1 DEF LoopOK
  <2>3. /\ found[r] \in docs /\ docs' = (docs \ {found[r]}) \cup {copy[r]}
        /\ found[r].id = copy[r].id /\ found[r].address = copy[r].address
    BY <1>0, <1>6, <2>1, <2>2, SaveWriteFacts
  <2>4. \E d \in docs' : d.default /\ d.address = address'[r]
    <3>1. CASE Choosing(r)
      BY <2>1, <2>3, <3>1 DEF LoopOK, Choosing
    <3>2. CASE Clearing(r)
      <4>1. PICK d \in docs : d.default /\ d.address = address[r]
        BY <1>0, <3>2
      <4> QED BY <2>1, <2>3, <3>2, <4>1 DEF Clearing
    <3> QED BY <2>1, <2>2, <3>1, <3>2 DEF Choosing, Clearing
  <2>5. ASSUME NEW d \in docs', d.default, d.address # address'[r]
        PROVE  d.id = copy'[r].id \/ \E c \in rest'[r] : c.id = d.id
    <3>1. d # copy[r]
      BY <2>1, <2>2, <2>5 DEF LoopOK, Choosing, Clearing
    <3>2. d \in docs /\ d # found[r]
      BY <2>3, <2>5, <3>1
    <3>3. d.id # copy[r].id
      BY <2>3, <3>2 DEF Inv, DocsOK
    <3>4. PICK c \in rest[r] : c.id = d.id
      BY <1>0, <2>1, <2>2, <2>5, <3>2, <3>3
    <3> QED BY <2>1, <3>4
  <2> QED BY <1>6, <2>4, <2>5
<1>7. ASSUME NEW r \in Callers, FindAll(r) \/ SaveFind(r) \/ SaveWrite(r), NEW q \in Callers \ {r},
             Same(q)
      PROVE  P(q)'
  <2>1. Active(r)
    BY <1>7 DEF FindAll, SaveFind, SaveWrite, Runs, Active, InDatabase
  <2>2. ~Saving(q)'
    BY <1>7, <2>1 DEF OneAtWork, Active, Saving, Same, InDatabase
  <2> QED BY <1>2, <2>2
<1>8. ASSUME NEW r \in Callers, SaveWrite(r) PROVE P(r)'
  BY <1>2, <1>6, <1>8, SaveWriteFacts DEF Saving
<1>9. ASSUME StartAgain, NEW q \in Callers PROVE ~Saving(q)'
  BY <1>9 DEF StartAgain, Active, Saving, InDatabase
<1>10. ASSUME NEW r \in Callers, \A q \in Callers \ {r} : Same(q),
              \/ UNCHANGED docs /\ (Outside(r)' \/ Registers(r) \/ Finds(r))
              \/ FindAll(r) \/ SaveFind(r) \/ SaveWrite(r),
              NEW q \in Callers
       PROVE  P(q)'
  <2>1. Outside(r)' \/ Finds(r) => ~Saving(r)'
    BY DEF Outside, Finds, Saving
  <2>2. CASE q = r
    BY <1>2, <1>3, <1>4, <1>5, <1>8, <1>10, <2>1, <2>2
  <2>3. CASE q # r
    BY <1>1, <1>7, <1>10, <2>3
  <2> QED BY <2>2, <2>3
<1>11. \A q \in Callers : P(q)'
  BY <1>1, <1>2, <1>9, <1>10, Moves
<1> QED BY <1>11 DEF EffectOK
-----------------------------------------------------------------------------
(***************************************************************************)
(* The invariant, and what follows from it.                                *)
(***************************************************************************)
\* A step of Accounts, in whatever process, keeps the invariant.
LEMMA DefaultStepInv == ASSUME DefaultInv, Step PROVE DefaultInv'
  BY StepInv, LoopStep, OneAtWorkStep, EffectStep DEF DefaultInv

\* It holds when the process starts for the first time.
LEMMA DefaultInitInv == Init => DefaultInv
<1> SUFFICES ASSUME Init PROVE DefaultInv
  OBVIOUS
<1>1. \A r \in Callers : ~Saving(r) /\ pc[r] # "findAll" /\ rest[r] = {} /\ found[r] = None
  BY DEF Init, Saving
<1>2. LoopOK /\ EffectOK
  BY <1>1 DEF LoopOK, EffectOK, Choosing, Clearing
<1>3. OneAtWork
  BY DEF Init, OneAtWork, Active, InDatabase, InBilling
<1> QED BY <1>2, <1>3, InitInv DEF DefaultInv

\* Every step of Accounts is one of these.
LEMMA NextIsStep == ASSUME [Next]_vars PROVE Step
  BY DEF Step, state, Next, Restart, vars

\* Every reachable state satisfies the invariant.
THEOREM DefaultInvariance == Spec => []DefaultInv
<1>1. DefaultInv /\ [Next]_vars => DefaultInv'
  BY NextIsStep, DefaultStepInv
<1> QED BY <1>1, DefaultInitInv, PTL DEF Spec

\* While requests do not overlap, setDefaultAccount always leaves a default account
\* in the database, also between two of its saves.
THEOREM DefaultIsNeverLost == Spec => DefaultIsKept
<1>1. ASSUME DefaultInv, Next, ~overlap, NEW d \in docs, d.default
      PROVE  \E e \in docs' : e.default
  <2>1. Step
    BY <1>1, NextIsStep
  <2>2. CASE docs' = docs
    BY <1>1, <2>2
  <2>3. CASE docs' # docs
    <3>1. PICK r \in Callers : SaveWrite(r)
      BY <1>1, <2>1, <2>3, Moves DEF DefaultInv, StartAgain, FindAll, SaveFind
    <3>2. CASE ~Known(r)
      BY <1>1, <3>1, <3>2, SaveWriteFacts DEF DefaultInv
    <3>3. CASE Known(r)
      <4>1. /\ pc[r] = "saveWrite" /\ found[r] \in docs /\ found[r].address = copy[r].address
            /\ docs' = (docs \ {found[r]}) \cup {copy[r]}
        BY <1>1, <3>1, <3>3, SaveWriteFacts DEF DefaultInv, EffectOK
      <4>2. CASE Choosing(r)
        BY <1>1, <4>1, <4>2 DEF DefaultInv, LoopOK
      <4>3. CASE Clearing(r)
        BY <1>1, <4>1, <4>3 DEF DefaultInv, EffectOK, Clearing
      <4> QED BY <3>3, <4>1, <4>2, <4>3 DEF Choosing, Clearing, Saving
    <3> QED BY <3>2, <3>3
  <2> QED BY <2>2, <2>3
<1>2. DefaultInv /\ [Next]_vars
        => [~overlap /\ (\E d \in docs : d.default) => (\E d \in docs' : d.default)]_docs
  BY <1>1 DEF vars
<1> QED BY <1>2, DefaultInvariance, PTL DEF Spec, DefaultIsKept

\* While requests do not overlap, the default account of the node after a successful
\* setDefaultAccount is of the address that the request was about (getDefaultAccount).
THEOREM DefaultTakesItsEffect == Spec => DefaultTakesEffect
<1> DEFINE Effect(r) == ~overlap /\ pc[r] = "saveWrite" /\ found[r] # None /\ pc'[r] = "done"
                          => DefaultAccount'.address = address[r]
<1>1. ASSUME DefaultInv, Next, ~overlap, NEW r \in Calls, pc[r] = "saveWrite", found[r] # None,
             pc'[r] = "done"
      PROVE  DefaultAccount'.address = address[r]
  <2>1. Step /\ Inv /\ r \in Callers
    BY <1>1, NextIsStep DEF DefaultInv, Callers
  <2>2. SaveWrite(r)
    BY <1>1, <2>1, AccountsAssumption, Moves
       DEF StartAgain, Same, Outside, Registers, Finds, FindAll, SaveFind, Runs, InBilling
  <2>3. /\ found[r] \in docs /\ found[r].id = copy[r].id /\ found[r].address = copy[r].address
        /\ Known(r) /\ rest[r] = {} /\ UNCHANGED address
        /\ docs' = (docs \ {found[r]}) \cup {copy[r]}
    <3>1. found[r] \in docs
      BY <1>1, <2>1 DEF DefaultInv, EffectOK
    <3>2. found[r].id = copy[r].id
      BY <1>1, <2>1 DEF Inv, SavesOK, SaveOK
    <3> QED BY <1>1, <2>1, <2>2, <3>1, <3>2, SaveWriteFacts DEF Known
  <2> DEFINE marked == {d \in docs' : d.default}
  <2>4. \A d \in marked : d.address = address[r]
    <3> SUFFICES ASSUME NEW d \in docs', d.default, d.address # address[r] PROVE FALSE
      OBVIOUS
    <3>1. d # copy[r]
      BY <1>1, <2>1, <2>3 DEF DefaultInv, LoopOK, Choosing, Clearing, Saving
    <3>2. d \in docs /\ d # found[r] /\ d.id # copy[r].id
      BY <2>1, <2>3, <3>1 DEF Inv, DocsOK
    <3> QED BY <1>1, <2>1, <2>3, <3>2 DEF DefaultInv, EffectOK, Saving
  <2>5. marked # {}
    <3>1. CASE Choosing(r)
      BY <1>1, <2>1, <2>3, <3>1 DEF DefaultInv, LoopOK
    <3>2. CASE Clearing(r)
      <4>1. PICK d \in docs : d.default /\ d.address = address[r]
        BY <1>1, <2>1, <3>2 DEF DefaultInv, EffectOK
      <4> QED BY <2>3, <3>2, <4>1 DEF Clearing
    <3> QED BY <1>1, <2>3, <3>1, <3>2 DEF Choosing, Clearing, Saving
  <2>6. marked \in SUBSET Account
    BY <2>1, StepInv DEF Inv, TypeOK
  <2>7. DefaultAccount' = First(marked)
    BY <2>5 DEF DefaultAccount
  <2> HIDE DEF marked
  <2> QED BY <2>4, <2>5, <2>6, <2>7, FirstFacts
<1>2. DefaultInv /\ [Next]_vars => [\A r \in Calls : Effect(r)]_vars
  BY <1>1
<1> QED BY <1>2, DefaultInvariance, PTL DEF Spec, DefaultTakesEffect
=============================================================================
