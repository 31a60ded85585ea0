---------------------------- MODULE OneChoiceProof ----------------------------
(***************************************************************************)
(* Proofs about calls of setDefaultAccount that overlap, for every set of  *)
(* addresses, requests and ids.                                            *)
(*                                                                         *)
(* Whoever chooses last clears everybody else's choice, because what it    *)
(* read includes every account that could be chosen before it chose.  This *)
(* rests on the order in which the database runs its operations: of two    *)
(* callers that are about to choose, the one that read the accounts first  *)
(* chooses first.                                                          *)
(***************************************************************************)
EXTENDS DefaultAccountProof

\* A caller is in the queue of the database once, and not without an operation.
In(s, x)         == \E i \in DOMAIN s : s[i] = x
Ordered(s, x, y) == \E i, j \in DOMAIN s : i < j /\ s[i] = x /\ s[j] = y
Once(s)          == \A i, j \in DOMAIN s : s[i] = s[j] => i = j

QueueOK == Once(dbQueue) /\ \A r \in Callers : In(dbQueue, r) <=> pc[r] \in InDatabase

\* A default account that a call has chosen.
Chosen(d) == d.default /\ d.id \notin flagged

WillSave(r, id) == \E c \in rest[r] : c.id = id

\* Caller r has still to save the account of this id without the flag, and the save
\* will take effect.
Clears(r, id) ==
  /\ Saving(r)
  /\ \/ WillSave(r, id)
     \/ Clearing(r) /\ copy[r].id = id /\ (pc[r] = "saveFind" \/ found[r] \in docs)

\* Caller q is about to choose an account that p did not read, ...
Unread(p, q) == Choosing(q) /\ copy[q].address # address[p] /\ ~WillSave(p, copy[q].id)

\* ... and will be done with it after p.
Later(p, q) ==
  \/ pc[p] = "saveWrite" /\ pc[q] = "saveFind"
  \/ pc[p] = pc[q] /\ Ordered(dbQueue, p, q)

\* A caller that is about to choose clears all choices made until it has chosen.
ChoicesOK ==
  \A p \in Callers : Choosing(p) =>
    /\ \A d \in docs : Chosen(d) /\ d.address # address[p] => WillSave(p, d.id)
    /\ \A q \in Callers : Unread(p, q) => Later(p, q)

\* Of two choices one is going to be cleared, unless a crash prevents it.
ClearedOK ==
  (\A r \in Calls : pc[r] # "lost") =>
    \A d, e \in docs : Chosen(d) /\ Chosen(e) /\ d.address # e.address
      => \E r \in Callers : Clears(r, d.id) \/ Clears(r, e.id)

ChoiceInv == DefaultInv /\ QueueOK /\ ChoicesOK /\ ClearedOK
-----------------------------------------------------------------------------
(***************************************************************************)
(* The order in which the database runs its operations.                    *)
(***************************************************************************)
\* A sequence that gets longer.
LEMMA OnAppend ==
  ASSUME NEW S, NEW s \in Seq(S), NEW r \in S
  PROVE  /\ \A x : In(Append(s, r), x) <=> In(s, x) \/ x = r
         /\ \A x, y : Ordered(s, x, y) => Ordered(Append(s, r), x, y)
         /\ \A x : In(s, x) => Ordered(Append(s, r), x, r)
         /\ Once(s) /\ ~In(s, r) => Once(Append(s, r))
<1> DEFINE t == Append(s, r)
           n == Len(s)
<1>1. /\ n \in Nat /\ DOMAIN s = 1 .. n /\ DOMAIN t = 1 .. n + 1
      /\ \A i \in 1 .. n : t[i] = s[i]
      /\ t[n + 1] = r
  OBVIOUS
<1> HIDE DEF t, n
<1>2. \A i \in DOMAIN t : i = n + 1 \/ i \in DOMAIN s
  BY <1>1
<1>3. \A x : In(t, x) <=> In(s, x) \/ x = r
  BY <1>1, <1>2 DEF In
<1>4. \A x, y : Ordered(s, x, y) => Ordered(t, x, y)
  BY <1>1 DEF Ordered
<1>5. \A x : In(s, x) => Ordered(t, x, r)
  BY <1>1 DEF In, Ordered
<1>6. Once(s) /\ ~In(s, r) => Once(t)
  BY <1>1, <1>2 DEF Once, In
<1> QED BY <1>3, <1>4, <1>5, <1>6 DEF t

\* A sequence that loses its first element.
LEMMA OnTail ==
  ASSUME NEW S, NEW s \in Seq(S), s # << >>, Once(s)
  PROVE  /\ \A x : In(Tail(s), x) <=> In(s, x) /\ x # Head(s)
         /\ \A x, y : Ordered(s, x, y) /\ x # Head(s) => Ordered(Tail(s), x, y)
         /\ \A x : ~Ordered(s, x, Head(s))
         /\ Once(Tail(s))
         /\ Head(s) \in S /\ Tail(s) \in Seq(S) /\ In(s, Head(s))
<1> DEFINE t == Tail(s)
           n == Len(s)
<1>1. /\ n \in Nat /\ n > 0 /\ DOMAIN s = 1 .. n /\ DOMAIN t = 1 .. n - 1
      /\ \A i \in 1 .. n - 1 : t[i] = s[i + 1]
      /\ Head(s) = s[1] /\ s[1] \in S /\ t \in Seq(S)
  OBVIOUS
<1> HIDE DEF t, n
<1>2. \A i \in DOMAIN s : i = 1 \/ (i - 1 \in DOMAIN t /\ t[i - 1] = s[i])
  BY <1>1
<1>3. \A x : In(t, x) <=> In(s, x) /\ x # Head(s)
  <2>1. ASSUME NEW x, In(t, x) PROVE In(s, x) /\ x # Head(s)
    <3>1. PICK i \in DOMAIN t : t[i] = x
      BY <2>1 DEF In
    <3>2. i + 1 \in DOMAIN s /\ s[i + 1] = x /\ i + 1 # 1 /\ 1 \in DOMAIN s
      BY <1>1, <3>1
    <3> QED BY <1>1, <3>2 DEF In, Once
  <2>2. ASSUME NEW x, In(s, x), x # Head(s) PROVE In(t, x)
    BY <1>1, <1>2, <2>2 DEF In
  <2> QED BY <2>1, <2>2
<1>4. ASSUME NEW x, NEW y, Ordered(s, x, y), x # Head(s) PROVE Ordered(t, x, y)
  <2>1. PICK i \in DOMAIN s, j \in DOMAIN s : i < j /\ s[i] = x /\ s[j] = y
    BY <1>4 DEF Ordered
  <2>2. i - 1 \in DOMAIN t /\ j - 1 \in DOMAIN t /\ t[i - 1] = x /\ t[j - 1] = y /\ i - 1 < j - 1
    BY <1>1, <1>2, <1>4, <2>1
  <2> QED BY <2>2 DEF Ordered
<1>5. ASSUME NEW x, Ordered(s, x, Head(s)) PROVE FALSE
  <2>1. PICK i \in DOMAIN s, j \in DOMAIN s : i < j /\ s[j] = s[1]
    BY <1>1, <1>5 DEF Ordered
  <2>2. 1 \in DOMAIN s /\ j = 1
    BY <1>1, <2>1 DEF Once
  <2> QED BY <1>1, <2>1, <2>2
<1>6. Once(t)
  <2> SUFFICES ASSUME NEW i \in DOMAIN t, NEW j \in DOMAIN t, t[i] = t[j] PROVE i = j
    BY DEF Once
  <2>1. i + 1 \in DOMAIN s /\ j + 1 \in DOMAIN s /\ s[i + 1] = s[j + 1] /\ i \in Int /\ j \in Int
    BY <1>1
  <2>2. i + 1 = j + 1
    BY <2>1 DEF Once
  <2> QED BY <2>1, <2>2
<1>7. In(s, Head(s))
  BY <1>1 DEF In
<1> QED BY <1>1, <1>3, <1>4, <1>5, <1>6, <1>7 DEF t

\* What a step does to the queue: nobody enters or leaves it but one caller.
QueueMove(r) ==
  /\ \A q \in Callers \ {r} : pc'[q] = pc[q]
  /\ \/ /\ pc[r] \notin InDatabase
        /\ \/ dbQueue' = dbQueue /\ pc'[r] \notin InDatabase
           \/ dbQueue' = Append(dbQueue, r) /\ pc'[r] \in InDatabase
     \/ /\ pc[r] \in InDatabase /\ pc'[r] # pc[r] /\ dbQueue # << >> /\ Head(dbQueue) = r
        /\ \/ dbQueue' = Tail(dbQueue) /\ pc'[r] \notin InDatabase
           \/ dbQueue' = Append(Tail(dbQueue), r) /\ pc'[r] \in InDatabase

\* A step is such a move, or the process starts again.
LEMMA QueueMoves ==
  ASSUME Inv, Step
  PROVE  \/ StartAgain
         \/ UNCHANGED <<dbQueue, pc>>
         \/ \E r \in Callers : QueueMove(r)
<1> USE DEF Inv, TypeOK
<1>1. ASSUME NEW r \in Calls, NEW a \in Addresses,
             IssueSetDefault(r, a) \/ IssueRegisterServiceNode(r, a) \/ IssueRegisterOther(r, a)
      PROVE  r \in Callers /\ QueueMove(r)
  BY <1>1 DEF IssueSetDefault, IssueRegisterServiceNode, IssueRegisterOther, MayIssue, QueueMove,
     InDatabase, Callers
<1>2. InitialAccount => Boot \in Callers /\ QueueMove(Boot)
  BY DEF InitialAccount, Runs, QueueMove, InDatabase, Callers
<1>3. ASSUME NEW r \in Callers,
             \/ RegistrationStatus(r) \/ RegistrationAccepted(r) \/ RegistrationRefused(r)
             \/ RegistrationLost(r)
      PROVE  QueueMove(r)
  <2>1. pc[r] \notin InDatabase
    BY <1>3 DEF RegistrationStatus, RegistrationAccepted, RegistrationRefused, RegistrationLost,
       InDatabase
  <2>2. \/ \E x \in Ended \cup {"postService"} : pc' = [pc EXCEPT ![r] = x] /\ dbQueue' = dbQueue
        \/ pc' = [pc EXCEPT ![r] = "saveFind"] /\ dbQueue' = Append(dbQueue, r)
    BY <1>3 DEF RegistrationStatus, RegistrationAccepted, RegistrationRefused, RegistrationLost,
       KnownServiceNode, SaveNew, Save, End, Ended
  <2> QED BY <2>1, <2>2 DEF QueueMove, InDatabase, Ended
<1>4. ASSUME NEW r \in Callers, FindByAddress(r) \/ FindAll(r) \/ SaveFind(r) \/ SaveWrite(r)
      PROVE  QueueMove(r)
  <2>1. /\ pc[r] \in {"byAddress", "findAll", "saveFind", "saveWrite"}
        /\ dbQueue # << >> /\ Head(dbQueue) = r
    BY <1>4 DEF FindByAddress, FindAll, SaveFind, SaveWrite, Runs
  <2>2. \/ \E x \in {"error", "done"} : pc' = [pc EXCEPT ![r] = x] /\ dbQueue' = Tail(dbQueue)
        \/ \E x \in {"findAll", "saveFind", "saveWrite"} :
             x # pc[r] /\ pc' = [pc EXCEPT ![r] = x] /\ dbQueue' = Append(Tail(dbQueue), r)
    BY <1>4 DEF FindByAddress, FindAll, SaveFind, SaveWrite, SaveRest, Save, Runs
  <2> QED BY <2>1, <2>2 DEF QueueMove, InDatabase
<1>5. (\E q \in requests : BillingRegisters(q)) \/ UNCHANGED state => UNCHANGED <<dbQueue, pc>>
  BY DEF BillingRegisters, state
<1> HIDE DEF Inv, TypeOK
<1>6. ClientRequest => \E r \in Callers : QueueMove(r)
  BY <1>1 DEF ClientRequest
<1>7. Work => UNCHANGED <<dbQueue, pc>> \/ \E r \in Callers : QueueMove(r)
  BY <1>2, <1>3, <1>4, <1>5 DEF Work
<1> QED BY <1>5, <1>6, <1>7 DEF Step

\* The queue is that of the callers whose operations are pending.
LEMMA QueueStep == ASSUME Inv, QueueOK, Step PROVE QueueOK'
<1>1. CASE StartAgain
  <2>1. dbQueue' = <<Boot>> /\ \A r \in Callers : pc'[r] \in InDatabase <=> r = Boot
    BY <1>1 DEF StartAgain, Active, InDatabase
  <2>2. Once(<<Boot>>) /\ \A r \in Callers : In(<<Boot>>, r) <=> r = Boot
    BY DEF Once, In
  <2> QED BY <2>1, <2>2 DEF QueueOK
<1>2. CASE UNCHANGED <<dbQueue, pc>>
  BY <1>2 DEF QueueOK
<1>3. ASSUME NEW r \in Callers, QueueMove(r) PROVE QueueOK'
  <2>1. dbQueue \in Seq(Callers) /\ Once(dbQueue)
    BY DEF Inv, TypeOK, QueueOK
  <2>2. CASE pc[r] \notin InDatabase
    <3>1. /\ ~In(dbQueue, r)
          /\ \/ dbQueue' = dbQueue /\ pc'[r] \notin InDatabase
             \/ dbQueue' = Append(dbQueue, r) /\ pc'[r] \in InDatabase
      BY <1>3, <2>2 DEF QueueMove, QueueOK
    <3>2. /\ \A q \in Callers : In(Append(dbQueue, r), q) <=> In(dbQueue, q) \/ q = r
          /\ Once(Append(dbQueue, r))
      BY <2>1, <3>1, OnAppend
    <3>3. \A q \in Callers : In(dbQueue', q) <=> pc'[q] \in InDatabase
      BY <1>3, <3>1, <3>2 DEF QueueMove, QueueOK
    <3> QED BY <2>1, <3>1, <3>2, <3>3 DEF QueueOK
  <2>3. CASE pc[r] \in InDatabase
    <3> DEFINE t == Tail(dbQueue)
    <3>1. /\ t \in Seq(Callers) /\ Once(t) /\ ~In(t, r)
          /\ \A q \in Callers \ {r} : In(t, q) <=> In(dbQueue, q)
      BY <1>3, <2>1, <2>3, OnTail DEF QueueMove
    <3>2. /\ \A q \in Callers : In(Append(t, r), q) <=> In(t, q) \/ q = r
          /\ Once(Append(t, r))
      BY <3>1, OnAppend
    <3>3. \/ dbQueue' = t /\ pc'[r] \notin InDatabase
          \/ dbQueue' = Append(t, r) /\ pc'[r] \in InDatabase
      BY <1>3, <2>3 DEF QueueMove
    <3> HIDE DEF t
    <3>4. \A q \in Callers \ {r} : pc'[q] = pc[q] /\ (In(dbQueue, q) <=> pc[q] \in InDatabase)
      BY <1>3 DEF QueueMove, QueueOK
    <3>5. \A q \in Callers : In(dbQueue', q) <=> pc'[q] \in InDatabase
      <4>1. CASE dbQueue' = t /\ pc'[r] \notin InDatabase
        BY <3>1, <3>4, <4>1
      <4>2. CASE dbQueue' = Append(t, r) /\ pc'[r] \in InDatabase
        BY <3>1, <3>2, <3>4, <4>2
      <4> QED BY <3>3, <4>1, <4>2
    <3> QED BY <3>1, <3>2, <3>3, <3>5 DEF QueueOK
  <2> QED BY <2>2, <2>3
<1> QED BY <1>1, <1>2, <1>3, QueueMoves

\* Callers that wait keep their order.
LEMMA OrderKept ==
  ASSUME Inv, QueueOK, Step, NEW p \in Callers, NEW q \in Callers, Saving(p), pc'[p] = pc[p],
         Ordered(dbQueue, p, q)
  PROVE  Ordered(dbQueue, p, q)'
<1>1. dbQueue \in Seq(Callers) /\ Once(dbQueue)
  BY DEF Inv, TypeOK, QueueOK
<1>2. ~StartAgain
  BY DEF StartAgain, Active, Saving, InDatabase
<1>3. ASSUME NEW r \in Callers, QueueMove(r), pc[r] \notin InDatabase PROVE Ordered(dbQueue, p, q)'
  <2>1. dbQueue' = dbQueue \/ dbQueue' = Append(dbQueue, r)
    BY <1>3 DEF QueueMove
  <2>2. Ordered(Append(dbQueue, r), p, q)
    BY <1>1, OnAppend
  <2> QED BY <2>1, <2>2
<1>4. ASSUME NEW r \in Callers, QueueMove(r), pc[r] \in InDatabase PROVE Ordered(dbQueue, p, q)'
  <2> DEFINE t == Tail(dbQueue)
  <2>1. dbQueue # << >> /\ p # Head(dbQueue) /\ (dbQueue' = t \/ dbQueue' = Append(t, r))
    BY <1>4 DEF QueueMove
  <2>2. t \in Seq(Callers) /\ Ordered(t, p, q)
    BY <1>1, <2>1, OnTail
  <2>3. Ordered(Append(t, r), p, q)
    BY <2>2, OnAppend
  <2> HIDE DEF t
  <2> QED BY <2>1, <2>2, <2>3
<1> QED BY <1>2, <1>3, <1>4, QueueMoves

\* The caller whose operation runs is the first, ...
LEMMA RunningIsFirst ==
  ASSUME Inv, QueueOK, NEW r \in Callers, FindAll(r) \/ SaveFind(r) \/ SaveWrite(r)
  PROVE  /\ dbQueue # << >> /\ Head(dbQueue) = r
         /\ \A p : ~Ordered(dbQueue, p, r)
<1>1. dbQueue \in Seq(Callers) /\ Once(dbQueue)
  BY DEF Inv, TypeOK, QueueOK
<1>2. dbQueue # << >> /\ Head(dbQueue) = r
  BY DEF FindAll, SaveFind, SaveWrite, Runs
<1> QED BY <1>1, <1>2, OnTail

\* ... and issues its next one as the last.
LEMMA NextIsLast ==
  ASSUME Inv, QueueOK, NEW r \in Callers, NEW p \in Callers \ {r}, Saving(p),
         FindAll(r) \/ SaveFind(r)
  PROVE  Ordered(dbQueue, p, r)'
<1>1. dbQueue \in Seq(Callers) /\ Once(dbQueue) /\ In(dbQueue, p)
  BY DEF Inv, TypeOK, QueueOK, Saving, InDatabase
<1>2. dbQueue # << >> /\ Head(dbQueue) = r /\ dbQueue' = Append(Tail(dbQueue), r)
  BY DEF FindAll, SaveFind, Runs, Save
<1>3. Tail(dbQueue) \in Seq(Callers) /\ In(Tail(dbQueue), p)
  BY <1>1, <1>2, OnTail
<1> QED BY <1>2, <1>3, OnAppend
-----------------------------------------------------------------------------
(***************************************************************************)
(* When calls of setDefaultAccount overlap.                                *)
(***************************************************************************)
\* An account becomes a chosen one in the first save of setDefaultAccount only,
\* whether or not a registration had stored it as a default one.
LEMMA ChosenStep ==
  ASSUME Inv, LoopOK, Step, NEW d \in docs', Chosen(d)'
  PROVE  \/ d \in docs /\ Chosen(d)
         \/ \E r \in Callers : SaveWrite(r) /\ Choosing(r) /\ d = copy[r]
<1>1. d.default /\ d.id \notin flagged' /\ \A c \in docs' : c.id = d.id => c = d
  BY OnlyThese DEF Chosen, DocsOK
<1>2. CASE d \in docs /\ UNCHANGED flagged
  BY <1>1, <1>2 DEF Chosen
<1>3. CASE d \in docs /\ History /\ d.id \notin flagged
  BY <1>1, <1>3 DEF Chosen
<1>4. CASE d \in docs /\ History /\ d.id \in flagged
  <2>1. PICK r \in Callers : /\ SaveWrite(r) /\ found[r] # None /\ copy[r].default
                            /\ copy[r] \in docs' /\ copy[r].id = d.id
    BY <1>1, <1>4 DEF History
  <2>2. d = copy[r] /\ pc[r] = "saveWrite"
    BY <1>1, <2>1, SaveWriteFacts
  <2>3. Known(r)
    BY <1>4, <2>1 DEF Known
  <2>4. Choosing(r)
    BY <2>1, <2>2, <2>3 DEF LoopOK, Choosing, Clearing, Saving
  <2> QED BY <2>1, <2>2, <2>4
<1>5. CASE d \notin docs
  <2>1. History
    BY <1>5 DEF Step
  <2>2. ~ \A e \in docs : e.id # d.id
    <3>1. \A q \in Callers : SaveWrite(q) /\ found[q] # None => Known(q)
      BY SaveWriteFacts DEF Inv, SavesOK, SaveOK, Stored, Known
    <3>2. ASSUME \A e \in docs : e.id # d.id
          PROVE  \E q \in Callers : SaveWrite(q) /\ found[q] # None /\ copy[q].id = d.id
      BY <1>1, <2>1, <3>2 DEF History
    <3> QED BY <3>1, <3>2 DEF Known
  <2>3. PICK r \in Callers : SaveWrite(r)
    BY <1>5, Moves DEF StartAgain, FindAll, SaveFind
  <2>4. d = copy[r] /\ pc[r] = "saveWrite"
    BY <1>5, <2>3, SaveWriteFacts
  <2>5. Known(r)
    BY <2>2, <2>4 DEF Known
  <2>6. Choosing(r)
    BY <1>1, <2>4, <2>5 DEF LoopOK, Choosing, Clearing, Saving
  <2> QED BY <2>3, <2>4, <2>6
<1> QED BY <1>2, <1>3, <1>4, <1>5 DEF Step

\* Only the restart of the process keeps a caller from clearing a default account.
LEMMA ClearsKept ==
  ASSUME Inv, LoopOK, Step, ~StartAgain, NEW d \in docs, d \in docs', d.default,
         NEW q \in Callers, Clears(q, d.id)
  PROVE  Clears(q, d.id)'
<1>1. Saving(q) /\ (WillSave(q, d.id) \/ (Clearing(q) /\ copy[q].id = d.id))
  BY DEF Clears
<1>2. pc[q] = "saveWrite" /\ found[q] \in docs /\ copy[q].id = d.id => found[q] = d
  BY NoneIsNoAccount DEF Inv, TypeOK, DocsOK, SavesOK, SaveOK
<1>3. CASE Same(q)
  <2>1. (Saving(q)' <=> Saving(q)) /\ (Clearing(q)' <=> Clearing(q))
    BY <1>3 DEF Same, Saving, Clearing
  <2>2. WillSave(q, d.id) => WillSave(q, d.id)'
    BY <1>3 DEF Same, WillSave
  <2>3. Clearing(q) /\ copy[q].id = d.id /\ pc[q] # "saveFind" /\ found[q] \in docs
          => found'[q] \in docs'
    BY <1>2, <1>3 DEF Same, Clearing, Saving
  <2> QED BY <1>3, <2>1, <2>2, <2>3 DEF Clears, Same
<1>4. CASE SaveFind(q)
  <2>1. Clearing(q) => Known(q)
    BY DEF LoopOK, Clearing
  <2> QED BY <1>1, <1>4, <2>1, SaveFindFacts DEF Clears, WillSave, Saving, Clearing
<1>5. CASE SaveWrite(q)
  <2>1. WillSave(q, d.id)
    <3>1. ASSUME Clearing(q), copy[q].id = d.id, found[q] \in docs PROVE FALSE
      <4>1. found[q] = d /\ found[q] \in docs /\ ~copy[q].default
        BY <1>2, <1>5, <3>1, SaveWriteFacts DEF LoopOK
      <4>2. docs' = (docs \ {found[q]}) \cup {copy[q]}
        <5>1. Known(q)
          BY <3>1 DEF LoopOK, Clearing
        <5> QED BY <1>5, <4>1, <5>1, SaveWriteFacts
      <4> QED BY <4>1, <4>2
    <3>2. pc[q] = "saveWrite"
      BY <1>5, SaveWriteFacts
    <3> QED BY <3>1, <3>2 DEF Clears
  <2>2. PICK c \in rest[q] : c.id = d.id
    BY <2>1 DEF WillSave
  <2>3. /\ pc'[q] = "saveFind" /\ UNCHANGED address
        /\ copy'[q] \in rest[q] /\ rest'[q] = rest[q] \ {copy'[q]}
    BY <1>5, <2>2, SaveWriteFacts
  <2>4. Clearing(q)'
    BY <2>3 DEF LoopOK, Clearing, Saving
  <2>5. CASE c = copy'[q]
    BY <2>2, <2>3, <2>4, <2>5 DEF Clears, Saving
  <2>6. CASE c # copy'[q]
    BY <2>2, <2>3, <2>6 DEF Clears, WillSave, Saving
  <2> QED BY <2>5, <2>6
<1>6. ~Outside(q) /\ pc[q] \in {"saveFind", "saveWrite"}
  BY <1>1 DEF Outside, Saving
<1> QED BY <1>3, <1>4, <1>5, <1>6, Moves DEF Registers, Finds, FindAll, Runs, InBilling

\* A caller that is about to choose was, or has just read the accounts.
LEMMA ChoosingStep ==
  ASSUME Inv, LoopOK, Step, NEW p \in Callers, Choosing(p)'
  PROVE  FindAll(p) \/ (Choosing(p) /\ (SaveFind(p) \/ Same(p)))
<1>1. Saving(p)' /\ Known(p)' /\ copy'[p].address = address'[p]
  BY DEF Choosing
<1>2. ~StartAgain
  BY <1>1 DEF StartAgain, Active, Saving, InDatabase
<1>3. ~Outside(p)' /\ ~Finds(p)
  BY <1>1 DEF Outside, Finds, Saving
<1>4. UNCHANGED docs => ~Registers(p)
  BY <1>1 DEF Registers, Known
<1>5. ~SaveWrite(p)
  <2> SUFFICES ASSUME SaveWrite(p) PROVE FALSE
    OBVIOUS
  <2>1. copy'[p] \in rest[p] /\ UNCHANGED address
    BY <1>1, SaveWriteFacts DEF Saving
  <2> QED BY <1>1, <2>1 DEF LoopOK
<1>6. ASSUME SaveFind(p) PROVE Choosing(p)
  BY <1>1, <1>6, SaveFindFacts DEF Choosing, Saving, Known
<1>7. ASSUME Same(p) PROVE Choosing(p)
  <2>1. Saving(p) /\ copy[p] # None
    BY <1>1, <1>7 DEF Same, Saving, Inv, SavesOK, SaveOK
  <2> QED BY <1>1, <1>7, <2>1, KnownKept DEF Same, Choosing
<1>8. FindAll(p) \/ SaveFind(p) \/ Same(p)
  BY <1>2, <1>3, <1>4, <1>5, Moves
<1> QED BY <1>6, <1>7, <1>8

\* A caller that is about to choose has to clear what others choose before it.
LEMMA ChoicesStep == ASSUME Inv, LoopOK, QueueOK, ChoicesOK, Step PROVE ChoicesOK'
<1> SUFFICES ASSUME NEW p \in Callers, Choosing(p)'
             PROVE  /\ \A d \in docs' : Chosen(d)' /\ d.address # address'[p] => WillSave(p, d.id)'
                    /\ \A q \in Callers : Unread(p, q)' => Later(p, q)'
  BY DEF ChoicesOK
<1>1. FindAll(p) \/ (Choosing(p) /\ (SaveFind(p) \/ Same(p)))
  BY ChoosingStep
<1>2. ASSUME Choosing(p)
      PROVE  /\ \A d \in docs : Chosen(d) /\ d.address # address[p] => WillSave(p, d.id)
             /\ \A q \in Callers : Unread(p, q) => Later(p, q)
  BY <1>2 DEF ChoicesOK
<1>3. ASSUME Choosing(p), SaveFind(p) \/ Same(p)
      PROVE  address'[p] = address[p] /\ \A id : WillSave(p, id)' <=> WillSave(p, id)
  BY <1>3, SaveFindFacts DEF Same, WillSave
<1>4. ASSUME NEW q \in Callers, FindAll(q) \/ SaveFind(q) \/ SaveWrite(q),
             FindAll(p) \/ SaveFind(p)
      PROVE  p = q
  BY <1>4 DEF FindAll, SaveFind, SaveWrite, Runs
<1>5. ASSUME NEW d \in docs', Chosen(d)', d.address # address'[p] PROVE WillSave(p, d.id)'
  <2>1. CASE FindAll(p)
    BY <1>5, <2>1, FindAllFacts DEF WillSave
  <2>2. CASE Choosing(p) /\ (SaveFind(p) \/ Same(p)) /\ d \in docs /\ Chosen(d)
    BY <1>2, <1>3, <2>2, <1>5
  <2>3. CASE Choosing(p) /\ SaveFind(p) /\ ~(d \in docs /\ Chosen(d))
    <3>1. PICK r \in Callers : SaveWrite(r)
      BY <1>5, <2>3, ChosenStep
    <3>2. pc[p] = "saveFind" /\ pc[r] = "saveWrite" /\ r = p
      BY <1>4, <2>3, <3>1, SaveFindFacts, SaveWriteFacts
    <3> QED BY <3>2
  <2>4. CASE Choosing(p) /\ Same(p) /\ ~(d \in docs /\ Chosen(d))
    <3>1. PICK r \in Callers : SaveWrite(r) /\ Choosing(r) /\ d = copy[r]
      BY <1>5, <2>4, ChosenStep
    <3>2. pc[r] = "saveWrite" /\ ~Ordered(dbQueue, p, r)
      BY <3>1, SaveWriteFacts, RunningIsFirst
    <3>3. WillSave(p, d.id)
      BY <1>2, <1>3, <1>5, <2>4, <3>1, <3>2 DEF Unread, Later
    <3> QED BY <1>3, <2>4, <3>3
  <2> QED BY <1>1, <2>1, <2>2, <2>3, <2>4
<1>6. ASSUME NEW q \in Callers, Unread(p, q)' PROVE Later(p, q)'
  <2>1. p # q
    BY <1>6 DEF Unread, Choosing
  <2>2. FindAll(q) \/ (Choosing(q) /\ (SaveFind(q) \/ Same(q)))
    BY <1>6, ChoosingStep DEF Unread
  <2>3. CASE FindAll(p)
    <3>1. Choosing(q) /\ Same(q)
      BY <1>4, <2>1, <2>2, <2>3
    <3>2. PICK d \in docs : d.id = copy[q].id
      BY <3>1 DEF Choosing, Known
    <3>3. d.address = copy[q].address
      BY <3>1, <3>2 DEF Choosing, Saving, Inv, SavesOK, SaveOK, Fits
    <3>4. WillSave(p, d.id)'
      BY <1>6, <2>3, <3>1, <3>3, FindAllFacts DEF Unread, Same, WillSave
    <3> QED BY <1>6, <3>1, <3>2, <3>4 DEF Unread, Same
  <2>4. CASE Choosing(p) /\ SaveFind(p)
    <3>1. Choosing(q) /\ Same(q)
      BY <1>4, <2>1, <2>2, <2>4
    <3>2. Later(p, q)
      BY <1>2, <1>3, <1>6, <2>4, <3>1 DEF Unread, Same
    <3>3. pc[p] = "saveFind" /\ pc'[p] = "saveWrite"
      BY <2>4, SaveFindFacts
    <3> QED BY <3>1, <3>2, <3>3 DEF Later, Same
  <2>5. CASE Choosing(p) /\ Same(p) /\ FindAll(q)
    <3>1. Saving(p) /\ pc'[p] = pc[p] /\ pc'[q] = "saveFind"
      BY <2>5, FindAllFacts DEF Choosing, Same
    <3>2. Ordered(dbQueue, p, q)'
      BY <2>1, <2>5, <3>1, NextIsLast
    <3> QED BY <3>1, <3>2 DEF Saving, Later
  <2>6. CASE Choosing(p) /\ Same(p) /\ Choosing(q) /\ SaveFind(q)
    <3>1. /\ pc'[p] = pc[p] /\ Saving(p) /\ pc[q] = "saveFind" /\ pc'[q] = "saveWrite"
          /\ copy'[q] = copy[q]
      BY <2>6, SaveFindFacts DEF Same, Choosing
    <3>2. Later(p, q)
      BY <1>2, <1>3, <1>6, <2>6, SaveFindFacts DEF Unread
    <3>3. ~Ordered(dbQueue, p, q) /\ Ordered(dbQueue, p, q)'
      BY <2>1, <2>6, <3>1, RunningIsFirst, NextIsLast
    <3> QED BY <3>1, <3>2, <3>3 DEF Later
  <2>7. CASE Choosing(p) /\ Same(p) /\ Choosing(q) /\ Same(q)
    <3>1. /\ pc'[p] = pc[p] /\ pc'[q] = pc[q] /\ Saving(p) /\ copy'[q] = copy[q]
      BY <2>7 DEF Same, Choosing
    <3>2. Later(p, q)
      BY <1>2, <1>3, <1>6, <2>7 DEF Unread, Same
    <3>3. Ordered(dbQueue, p, q) => Ordered(dbQueue, p, q)'
      BY <3>1, OrderKept
    <3> QED BY <3>1, <3>2, <3>3 DEF Later
  <2> QED BY <1>1, <2>2, <2>3, <2>4, <2>5, <2>6, <2>7
<1> QED BY <1>5, <1>6

\* Of two choices one is going to be cleared.
LEMMA ClearedStep == ASSUME Inv, LoopOK, ChoicesOK, ClearedOK, Step PROVE ClearedOK'
<1> SUFFICES ASSUME \A r \in Calls : pc'[r] # "lost",
                    NEW d \in docs', NEW e \in docs', Chosen(d)', Chosen(e)', d.address # e.address
             PROVE  \E r \in Callers : Clears(r, d.id)' \/ Clears(r, e.id)'
  BY DEF ClearedOK
<1>1. Boot \notin Calls /\ Calls \subseteq Callers
  BY AccountsAssumption DEF Callers
<1>2. \A r \in Calls : pc[r] # "lost"
  <2>1. ASSUME StartAgain, NEW r \in Calls PROVE pc[r] # "lost"
    BY <1>1, <2>1 DEF StartAgain
  <2>2. ASSUME ~StartAgain, NEW r \in Calls PROVE pc[r] # "lost"
    BY <1>1, <2>2, Moves DEF Same, Registers, Finds, FindAll, SaveFind, SaveWrite, Runs, InBilling
  <2> QED BY <2>1, <2>2
<1>3. d.default /\ e.default
  BY DEF Chosen
<1>4. ASSUME d \in docs, Chosen(d), e \in docs, Chosen(e)
      PROVE  \E r \in Callers : Clears(r, d.id) \/ Clears(r, e.id)
  BY <1>2, <1>4 DEF ClearedOK
<1>5. CASE StartAgain
  <2>1. docs' = docs
    BY <1>5 DEF StartAgain
  <2>2. PICK r \in Callers : Clears(r, d.id) \/ Clears(r, e.id)
    <3>1. ASSUME NEW r \in Callers, SaveWrite(r) PROVE FALSE
      <4>1. pc[r] = "saveWrite" /\ pc'[r] \in {"done", "saveFind"}
        BY <3>1 DEF SaveWrite, SaveRest, Save, Runs, Inv, TypeOK
      <4>2. pc'[r] \in {"bootAll", "lost"}
        BY <1>5, <4>1 DEF StartAgain, Active, InDatabase
      <4> QED BY <4>1, <4>2
    <3> QED BY <1>4, <3>1, ChosenStep
  <2>3. Saving(r) /\ (rest[r] # {} \/ Clearing(r))
    BY <2>2 DEF Clears, WillSave
  <2>4. r # Boot /\ Active(r)
    BY <2>3 DEF LoopOK, Saving, Active, InDatabase
  <2>5. r \in Calls /\ pc'[r] = "lost"
    BY <1>5, <2>4 DEF StartAgain, Callers
  <2> QED BY <2>5
<1>6. CASE ~StartAgain /\ d \in docs /\ Chosen(d) /\ e \in docs /\ Chosen(e)
  BY <1>3, <1>4, <1>6, ClearsKept
<1>7. ASSUME ~StartAgain, NEW x \in docs', NEW y \in docs', ~(x \in docs /\ Chosen(x)),
             Chosen(x)', Chosen(y)', x.address # y.address
      PROVE  \E r \in Callers : Clears(r, y.id)'
  <2>1. PICK r \in Callers : SaveWrite(r) /\ Choosing(r) /\ x = copy[r]
    BY <1>7, ChosenStep
  <2>2. y \in docs /\ Chosen(y)
    <3>1. ASSUME ~(y \in docs /\ Chosen(y)) PROVE FALSE
      <4>1. PICK q \in Callers : SaveWrite(q) /\ y = copy[q]
        BY <1>7, <3>1, ChosenStep
      <4>2. q = r
        BY <2>1, <4>1 DEF SaveWrite, Runs
      <4> QED BY <1>7, <2>1, <4>1, <4>2
    <3> QED BY <3>1
  <2>3. WillSave(r, y.id)
    BY <1>7, <2>1, <2>2 DEF ChoicesOK, Choosing
  <2>4. Clears(r, y.id)
    BY <2>1, <2>3 DEF Clears, Choosing
  <2> QED BY <1>7, <2>2, <2>4, ClearsKept DEF Chosen
<1> QED BY <1>5, <1>6, <1>7
-----------------------------------------------------------------------------
(***************************************************************************)
(* The invariant, and what follows from it.                                *)
(***************************************************************************)
\* A step of Accounts, in whatever process, keeps the invariant.
LEMMA ChoiceStepInv == ASSUME ChoiceInv, Step PROVE ChoiceInv'
  BY DefaultStepInv, QueueStep, ChoicesStep, ClearedStep DEF ChoiceInv, DefaultInv

\* It holds when the process starts for the first time.
LEMMA ChoiceInitInv == Init => ChoiceInv
<1> SUFFICES ASSUME Init PROVE ChoiceInv
  OBVIOUS
<1>1. ChoicesOK /\ ClearedOK
  BY DEF Init, ChoicesOK, ClearedOK, Choosing, Saving
<1>2. QueueOK
  <2>1. dbQueue = <<Boot>> /\ \A r \in Callers : pc[r] \in InDatabase <=> r = Boot
    BY DEF Init, InDatabase
  <2>2. Once(<<Boot>>) /\ \A r \in Callers : In(<<Boot>>, r) <=> r = Boot
    BY DEF Once, In
  <2> QED BY <2>1, <2>2 DEF QueueOK
<1> QED BY <1>1, <1>2, DefaultInitInv DEF ChoiceInv

\* Every reachable state satisfies the invariant.
THEOREM ChoiceInvariance == Spec => []ChoiceInv
<1>1. ChoiceInv /\ [Next]_vars => ChoiceInv'
  BY NextIsStep, ChoiceStepInv
<1> QED BY <1>1, ChoiceInitInv, PTL DEF Spec

\* Once nobody is at work, nobody is left to clear a choice: there is one at most.
LEMMA OneChoice == ChoiceInv => OneChosenDefault
<1> SUFFICES ASSUME ChoiceInv, \A r \in Callers : ~Active(r) /\ pc[r] # "lost",
                    NEW d \in docs, NEW e \in docs, d.default, e.default,
                    {d.id, e.id} \cap flagged = {}
             PROVE  d.address = e.address
  BY DEF OneChosenDefault
<1>1. \A r \in Calls : pc[r] # "lost"
  BY DEF Callers
<1>2. Chosen(d) /\ Chosen(e)
  BY DEF Chosen
<1>3. \A r \in Callers : \A id : ~Clears(r, id)
  BY DEF Clears, Saving, Active, InDatabase
<1> QED BY <1>1, <1>2, <1>3 DEF ChoiceInv, ClearedOK

\* However calls of setDefaultAccount overlap, those that have ended leave the default
\* accounts of one address at most, registrations apart.
THEOREM OnlyOneChoiceStays == Spec => []OneChosenDefault
  BY ChoiceInvariance, OneChoice, PTL
=============================================================================
