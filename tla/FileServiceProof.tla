-------------------------- MODULE FileServiceProof --------------------------
(***************************************************************************)
(* Proofs about FileService, for every set of calls and files, for clients *)
(* whose requests overlap and for those whose requests do not.             *)
(*                                                                         *)
(* The five fields that an upload fills in are copied about: a handler     *)
(* reads them, waits, and writes them back.  The inductive invariant says  *)
(* of every copy what RecordedUploadIsPaid says of the database, and       *)
(* relates the stage of a call (its pc) to the storage and to billing.     *)
(* For clients whose requests do not overlap it adds that a copy about to  *)
(* be written is at least as recent as the record it replaces.             *)
(***************************************************************************)
EXTENDS FileService, TLAPS

\* A call that has not reached the storage, or not even been sent.
Early == AllKinds \cup {"idle"}

\* A call that holds a record it is going to write.
Holding == {"billing", "saveFind", "saveWrite"}

\* A record that says "uploaded", or that shows an object, is that of a paid
\* upload of file f.
Backed(record, f) ==
  record # None /\ (record.uploadedToDds \/ record.ddsId # None) =>
    LET d == record.ddsId IN
    /\ record.uploadedToDds
    /\ d \in Calls
    /\ d \in stubFiles
    /\ target[d] = f
    /\ payment[d] = "charged"
    /\ record.storagePrice = d
    /\ record.dataOwnerAddress = WalletOf(d)

StoreBacked == \A f \in Files : Backed(store[f], f)
CopyBacked  == \A r \in Calls : Backed(copy[r], target[r])

\* What the stage of a call says of the storage, of billing and of its copy.
StagesOK ==
  \A r \in Calls :
    /\ payment[r] # "none" => r \in stubFiles
    /\ pc[r] \in Early => /\ payment[r] = "none"
                          /\ r \notin stubFiles
                          /\ copy[r] = None
    /\ pc[r] \in Waiting => target[r] \in Files
    /\ pc[r] \in Holding => copy[r] # None
    /\ pc[r] = "billing" => ownerSent[r] = copy[r].dataOwnerAddress
    /\ pc[r] \in {"extension", "notice"} => r \notin stubFiles

Inv == TypeOK /\ StagesOK /\ StoreBacked /\ CopyBacked

\* Only drawn ids have records.
AllocatedOK ==
  /\ \A f \in Files : store[f] # None => f \in allocated
  /\ \A r \in Calls : pc[r] \in Holding \cup {"create"} => target[r] \in allocated

\* A record keeps the upload, the deletion and the data owner that an older one
\* shows.
AtLeast(record, old) ==
  old # None => /\ record # None
                /\ old.uploadedToDds => record.uploadedToDds
                /\ old.deletedLocally => record.deletedLocally
                /\ old.dataOwnerAddress # None
                     => record.dataOwnerAddress = old.dataOwnerAddress

\* Requests that do not overlap: one call at a time is about a file, and what
\* it is going to write is not stale.
SerialOK ==
  ~Overlap =>
    /\ \A q, r \in Calls : Active(q) /\ Active(r) /\ target[q] = target[r] => q = r
    /\ \A r \in Calls : pc[r] = "create" => store[target[r]] = None
    /\ \A r \in Calls : pc[r] \in Holding => AtLeast(copy[r], store[target[r]])

IInv == Inv /\ AllocatedOK /\ SerialOK
-----------------------------------------------------------------------------
(***************************************************************************)
(* Type correctness and the record of a paid upload.                       *)
(***************************************************************************)
USE DEF Active, Runs, Finish, Save, UploadFile, PayForDataUpload, files, paying,
        billing, identity, Failed, Confirmed

\* The stages of a call.
LEMMA StageNames ==
  /\ AllKinds \subseteq Waiting \cup Ended
  /\ {"done", "billing", "saveFind", "saveWrite", "extension", "notice", "lost", "idle"}
       \subseteq Waiting \cup Ended
  BY DEF AllKinds, Waiting, Ended

\* What the steps of a call share: how the queue is typed.
LEMMA QueueType ==
  ASSUME NEW r \in Calls, NEW q \in Seq(Calls)
  PROVE  /\ Append(q, r) \in Seq(Calls)
         /\ q # << >> => Tail(q) \in Seq(Calls)
  OBVIOUS

\* A call whose database operation runs is about a file.
LEMMA RunningCall ==
  ASSUME TypeOK, StagesOK, NEW r \in Calls,
         NEW p \in AllKinds \cup {"saveFind", "saveWrite"}, Runs(r, p)
  PROVE  target[r] \in Files /\ Tail(dbQueue) \in Seq(Calls) /\ pc[r] = p
  BY QueueType DEF TypeOK, StagesOK, AllKinds, Waiting

\* The records that the handlers compute are records.
LEMMA NewRecordType ==
  \A owner \in Owners \cup {None} : NewLocalFileRecord(owner) \in LocalFileRecord
  BY DEF LocalFileRecord, NewLocalFileRecord

\* So are the changes that the handlers make to a record.
LEMMA RecordType ==
  ASSUME NEW record \in LocalFileRecord, NEW r \in Calls
  PROVE  /\ Failed(record) \in LocalFileRecord
         /\ [record EXCEPT !.deletedLocally = TRUE] \in LocalFileRecord
         /\ WalletOf(r) \in Owners \cup {None} => Confirmed(record, r) \in LocalFileRecord
  BY DEF LocalFileRecord

\* The invariant holds when the service starts.
LEMMA InitInv == Init => Inv
<1> SUFFICES ASSUME Init PROVE Inv
  OBVIOUS
<1>1. TypeOK
  <2>1. << >> \in Seq(Calls)
    OBVIOUS
  <2> QED BY <2>1 DEF Init, TypeOK, Ended
<1>2. StagesOK
  BY DEF Init, StagesOK, Early, Holding, Waiting, AllKinds
<1>3. StoreBacked /\ CopyBacked
  BY DEF Init, StoreBacked, CopyBacked, Backed
<1> QED BY <1>1, <1>2, <1>3 DEF Inv

\* No step leaves the types: one case per action of the next-state relation.
LEMMA TypeStep == ASSUME TypeOK, StagesOK, [Next]_vars PROVE TypeOK'
<1> USE FileServiceAssumption, StageNames
<1>1. ASSUME NEW r \in Calls, NEW kind \in Kinds, NEW f \in Files, Issue(r, kind, f)
      PROVE  TypeOK'
  BY <1>1, QueueType DEF TypeOK, Issue
<1>2. ASSUME NEW r \in Calls, CreateLocalFileRecord(r) PROVE TypeOK'
  <2>1. target[r] \in Files /\ Tail(dbQueue) \in Seq(Calls)
    BY <1>2, RunningCall DEF CreateLocalFileRecord, AllKinds
  <2>2. \A owner \in {None, GivenOwner} : NewLocalFileRecord(owner) \in LocalFileRecord
    BY NewRecordType DEF Owners
  <2>3. CASE Finish(r) /\ UNCHANGED tempFiles
    BY <2>1, <2>3, <1>2 DEF TypeOK, CreateLocalFileRecord
  <2>4. ASSUME NEW owner \in {None, GivenOwner},
               Save(r, NewLocalFileRecord(owner), Tail(dbQueue)),
               tempFiles' = tempFiles \cup {target[r]},
               UNCHANGED <<store, stubFiles, billing, identity, found>>
        PROVE  TypeOK'
    BY <2>1, <2>2, <2>4, QueueType DEF TypeOK
  <2> QED BY <2>3, <2>4, <1>2 DEF CreateLocalFileRecord
<1>3. ASSUME NEW r \in Calls, WriteFileChunk(r) PROVE TypeOK'
  <2>1. target[r] \in Files /\ Tail(dbQueue) \in Seq(Calls)
    BY <1>3, RunningCall DEF WriteFileChunk, AllKinds
  <2>2. Finish(r) /\ tempFiles' \subseteq Files
    BY <2>1, <1>3 DEF WriteFileChunk, TypeOK
  <2> QED BY <2>1, <2>2 DEF TypeOK
<1>4. ASSUME NEW r \in Calls, DeleteLocalFileRecord(r) PROVE TypeOK'
  <2> DEFINE old == store[target[r]]
             new == [old EXCEPT !.deletedLocally = TRUE]
  <2>1. target[r] \in Files /\ Tail(dbQueue) \in Seq(Calls)
    BY <1>4, RunningCall DEF DeleteLocalFileRecord, AllKinds
  <2>2. CASE Finish(r) /\ UNCHANGED tempFiles
    BY <2>1, <2>2 DEF TypeOK
  <2>3. CASE /\ old # None
             /\ tempFiles' = tempFiles \ {target[r]}
             /\ Save(r, new, Tail(dbQueue))
             /\ UNCHANGED <<store, stubFiles, billing, identity, found>>
    <3>1. old \in LocalFileRecord
      BY <2>1, <2>3 DEF TypeOK
    <3> HIDE DEF old
    <3>2. new \in LocalFileRecord
      BY <3>1 DEF LocalFileRecord
    <3> HIDE DEF new
    <3> QED BY <3>2, <2>1, <2>3, QueueType DEF TypeOK
  <2> QED BY <2>2, <2>3, <1>4 DEF DeleteLocalFileRecord
<1>5. ASSUME NEW r \in Calls, UploadLocalFileToDds(r) PROVE TypeOK'
  <2> DEFINE old == store[target[r]]
             new == Failed(old)
  <2>1. target[r] \in Files /\ Tail(dbQueue) \in Seq(Calls)
    BY <1>5, RunningCall DEF UploadLocalFileToDds, AllKinds
  <2>2. CASE Finish(r) /\ UNCHANGED tempFiles
    BY <2>1, <2>2 DEF TypeOK
  <2>3. CASE /\ old # None
             /\ Save(r, new, Tail(dbQueue))
             /\ UNCHANGED <<store, files, billing, identity, found>>
    <3>1. old \in LocalFileRecord
      BY <2>1, <2>3 DEF TypeOK
    <3> HIDE DEF old
    <3>2. new \in LocalFileRecord
      BY <3>1 DEF LocalFileRecord
    <3> HIDE DEF new
    <3> QED BY <3>2, <2>1, <2>3, QueueType DEF TypeOK
  <2>4. CASE /\ old # None
             /\ stubFiles' = stubFiles \cup {r}
             /\ payment' = [payment EXCEPT ![r] = "sent"]
             /\ ownerSent' = [ownerSent EXCEPT ![r] = old.dataOwnerAddress]
             /\ UNCHANGED <<extension, notice>>
             /\ copy' = [copy EXCEPT ![r] = old]
             /\ pc' = [pc EXCEPT ![r] = "billing"]
             /\ dbQueue' = Tail(dbQueue)
             /\ UNCHANGED <<store, tempFiles, identity, found>>
    <3>1. old \in LocalFileRecord
      BY <2>1, <2>4 DEF TypeOK
    <3> HIDE DEF old
    <3>2. old.dataOwnerAddress \in Owners \cup {None}
      BY <3>1 DEF LocalFileRecord
    <3> QED BY <3>1, <3>2, <2>1, <2>4 DEF TypeOK
  <2> QED BY <2>2, <2>3, <2>4, <1>5 DEF UploadLocalFileToDds
<1>6. ASSUME NEW r \in Calls, PaymentSucceeds(r) PROVE TypeOK'
  <2>1. copy[r] \in LocalFileRecord /\ WalletOf(r) \in Owners \cup {None}
    BY <1>6 DEF PaymentSucceeds, StagesOK, Holding, TypeOK, WalletOf, Owners
  <2> DEFINE new == Confirmed(copy[r], r)
  <2>2. new \in LocalFileRecord
    BY <2>1, RecordType
  <2>3. Save(r, new, dbQueue) /\ UNCHANGED <<store, files, billing, identity, found>>
    BY <1>6 DEF PaymentSucceeds
  <2> HIDE DEF new
  <2> QED BY <2>2, <2>3, QueueType DEF TypeOK
<1>7. ASSUME NEW r \in Calls, PaymentFails(r) PROVE TypeOK'
  <2>1. copy[r] \in LocalFileRecord
    BY <1>7 DEF PaymentFails, StagesOK, Holding, TypeOK
  <2> QED BY <2>1, <1>7, QueueType, RecordType DEF TypeOK, PaymentFails
<1>8. ASSUME NEW r \in Calls, SaveFind(r) PROVE TypeOK'
  <2>1. target[r] \in Files /\ Tail(dbQueue) \in Seq(Calls)
    BY <1>8, RunningCall DEF SaveFind
  <2> QED BY <2>1, <1>8, QueueType DEF TypeOK, SaveFind
<1>9. ASSUME NEW r \in Calls, SaveWrite(r) PROVE TypeOK'
  <2>1. target[r] \in Files /\ Tail(dbQueue) \in Seq(Calls)
    BY <1>9, RunningCall DEF SaveWrite
  <2> QED BY <2>1, <1>9 DEF TypeOK, SaveWrite
<1>10. ASSUME NEW r \in Calls, BillingDecides(r) PROVE TypeOK'
  BY <1>10 DEF TypeOK, BillingDecides
<1>11. ASSUME NEW r \in Calls, ExtendFileStorageDuration(r) PROVE TypeOK'
  <2>1. target[r] \in Files /\ Tail(dbQueue) \in Seq(Calls)
    BY <1>11, RunningCall DEF ExtendFileStorageDuration, AllKinds
  <2>2. CASE Finish(r) /\ UNCHANGED tempFiles
    BY <2>1, <2>2 DEF TypeOK
  <2>3. CASE /\ ShowsObject(target[r])
             /\ extension' = [extension EXCEPT ![r] = "sent"]
             /\ copy' = [copy EXCEPT ![r] = store[target[r]]]
             /\ pc' = [pc EXCEPT ![r] = "extension"]
             /\ dbQueue' = Tail(dbQueue)
             /\ UNCHANGED <<store, files, paying, notice, identity, found>>
    <3>1. store[target[r]] \in LocalFileRecord
      BY <2>1, <2>3 DEF TypeOK, ShowsObject
    <3> QED BY <3>1, <2>1, <2>3 DEF TypeOK
  <2> QED BY <2>2, <2>3, <1>11 DEF ExtendFileStorageDuration
<1>12. ASSUME NEW r \in Calls,
              \/ NotifyPaymentStatus(r) \/ ExtensionEnds(r)
              \/ ExtensionDecided(r) \/ NoticeDecided(r)
       PROVE  TypeOK'
  BY <1>12 DEF TypeOK, NotifyPaymentStatus, ExtensionEnds, ExtensionDecided, NoticeDecided
<1>13. CASE Crash
  BY <1>13 DEF TypeOK, Crash
<1>14. CASE UNCHANGED vars
  BY <1>14 DEF TypeOK, vars
<1> QED
  BY <1>1, <1>2, <1>3, <1>4, <1>5, <1>6, <1>7, <1>8, <1>9, <1>10, <1>11, <1>12,
     <1>13, <1>14
  DEF Next, DatabaseStep, RequestEnds, Elsewhere

\* No step breaks what pc says of a call's object, payment and file.
LEMMA StagesStep == ASSUME TypeOK, StagesOK, [Next]_vars PROVE StagesOK'
<1> USE FileServiceAssumption DEF Early, Holding, AllKinds, Waiting
<1>1. ASSUME NEW r \in Calls, NEW kind \in Kinds, NEW f \in Files, Issue(r, kind, f)
      PROVE  StagesOK'
  BY <1>1 DEF TypeOK, StagesOK, Issue
<1>2. ASSUME NEW r \in Calls, CreateLocalFileRecord(r) PROVE StagesOK'
  <2>1. target[r] \in Files /\ pc[r] = "create"
    BY <1>2, RunningCall DEF CreateLocalFileRecord
  <2>2. \A owner \in {None, GivenOwner} : NewLocalFileRecord(owner) # None
    BY NoneIsNoRecord, NewRecordType DEF Owners
  <2>3. CASE Finish(r) /\ UNCHANGED tempFiles
    BY <2>1, <2>3, <1>2 DEF TypeOK, StagesOK, CreateLocalFileRecord
  <2>4. ASSUME NEW owner \in {None, GivenOwner},
               Save(r, NewLocalFileRecord(owner), Tail(dbQueue)),
               UNCHANGED <<store, stubFiles, billing, identity, found>>
        PROVE  StagesOK'
    BY <2>1, <2>2, <2>4 DEF TypeOK, StagesOK
  <2> QED BY <2>3, <2>4, <1>2 DEF CreateLocalFileRecord
<1>3. ASSUME NEW r \in Calls, WriteFileChunk(r) PROVE StagesOK'
  BY <1>3 DEF TypeOK, StagesOK, WriteFileChunk
<1>4. ASSUME NEW r \in Calls, DeleteLocalFileRecord(r) PROVE StagesOK'
  <2> DEFINE old == store[target[r]]
             new == [old EXCEPT !.deletedLocally = TRUE]
  <2>1. target[r] \in Files /\ pc[r] = "delete"
    BY <1>4, RunningCall DEF DeleteLocalFileRecord
  <2>2. CASE Finish(r) /\ UNCHANGED tempFiles
    BY <2>1, <2>2 DEF TypeOK, StagesOK
  <2>3. CASE /\ old # None
             /\ Save(r, new, Tail(dbQueue))
             /\ UNCHANGED <<store, stubFiles, billing, identity, found>>
    <3>1. old \in LocalFileRecord
      BY <2>1, <2>3 DEF TypeOK
    <3> HIDE DEF old
    <3>2. new # None
      BY <3>1, NoneIsNoRecord DEF LocalFileRecord
    <3> HIDE DEF new
    <3> QED BY <3>2, <2>1, <2>3 DEF TypeOK, StagesOK
  <2> QED BY <2>2, <2>3, <1>4 DEF DeleteLocalFileRecord
<1>5. ASSUME NEW r \in Calls, UploadLocalFileToDds(r) PROVE StagesOK'
  <2> DEFINE old == store[target[r]]
             new == Failed(old)
  <2>1. target[r] \in Files /\ pc[r] = "upload"
    BY <1>5, RunningCall DEF UploadLocalFileToDds
  <2>2. CASE Finish(r) /\ UNCHANGED tempFiles
    BY <2>1, <2>2 DEF TypeOK, StagesOK
  <2>3. CASE /\ old # None
             /\ Save(r, new, Tail(dbQueue))
             /\ UNCHANGED <<store, files, billing, identity, found>>
    <3>1. old \in LocalFileRecord
      BY <2>1, <2>3 DEF TypeOK
    <3> HIDE DEF old
    <3>2. new # None
      BY <3>1, NoneIsNoRecord DEF LocalFileRecord
    <3> HIDE DEF new
    <3> QED BY <3>2, <2>1, <2>3 DEF TypeOK, StagesOK
  <2>4. CASE /\ old # None
             /\ stubFiles' = stubFiles \cup {r}
             /\ payment' = [payment EXCEPT ![r] = "sent"]
             /\ ownerSent' = [ownerSent EXCEPT ![r] = old.dataOwnerAddress]
             /\ copy' = [copy EXCEPT ![r] = old]
             /\ pc' = [pc EXCEPT ![r] = "billing"]
             /\ UNCHANGED identity
    BY <2>1, <2>4 DEF TypeOK, StagesOK
  <2> QED BY <2>2, <2>3, <2>4, <1>5 DEF UploadLocalFileToDds
<1>6. ASSUME NEW r \in Calls, PaymentSucceeds(r) PROVE StagesOK'
  <2> DEFINE new == Confirmed(copy[r], r)
  <2>1. copy[r] \in LocalFileRecord /\ WalletOf(r) \in Owners \cup {None}
    BY <1>6 DEF PaymentSucceeds, StagesOK, TypeOK, WalletOf, Owners
  <2>2. new # None
    BY <2>1, NoneIsNoRecord DEF LocalFileRecord
  <2>3. copy' = [copy EXCEPT ![r] = new]
    BY <1>6 DEF PaymentSucceeds
  <2> HIDE DEF new
  <2> QED BY <2>2, <2>3, <1>6 DEF TypeOK, StagesOK, PaymentSucceeds
<1>7. ASSUME NEW r \in Calls, PaymentFails(r) PROVE StagesOK'
  <2> DEFINE new == Failed(copy[r])
  <2>1. copy[r] \in LocalFileRecord
    BY <1>7 DEF PaymentFails, StagesOK, TypeOK
  <2>2. new # None
    BY <2>1, NoneIsNoRecord DEF LocalFileRecord
  <2>3. copy' = [copy EXCEPT ![r] = new]
    BY <1>7 DEF PaymentFails
  <2> HIDE DEF new
  <2> QED BY <2>2, <2>3, <1>7 DEF TypeOK, StagesOK, PaymentFails
<1>8. ASSUME NEW r \in Calls, SaveFind(r) PROVE StagesOK'
  BY <1>8 DEF TypeOK, StagesOK, SaveFind
<1>9. ASSUME NEW r \in Calls, SaveWrite(r) PROVE StagesOK'
  BY <1>9 DEF TypeOK, StagesOK, SaveWrite
<1>10. ASSUME NEW r \in Calls, BillingDecides(r) PROVE StagesOK'
  BY <1>10 DEF TypeOK, StagesOK, BillingDecides
<1>11. ASSUME NEW r \in Calls, ExtendFileStorageDuration(r) PROVE StagesOK'
  <2>1. target[r] \in Files /\ Tail(dbQueue) \in Seq(Calls)
    BY <1>11, RunningCall DEF ExtendFileStorageDuration, AllKinds
  <2> QED BY <2>1, <1>11 DEF TypeOK, StagesOK, ExtendFileStorageDuration, ShowsObject
<1>12. ASSUME NEW r \in Calls,
              \/ NotifyPaymentStatus(r) \/ ExtensionEnds(r)
              \/ ExtensionDecided(r) \/ NoticeDecided(r)
       PROVE  StagesOK'
  BY <1>12 DEF TypeOK, StagesOK, NotifyPaymentStatus, ExtensionEnds, ExtensionDecided, NoticeDecided
<1>13. CASE Crash
  BY <1>13 DEF TypeOK, StagesOK, Crash
<1>14. CASE UNCHANGED vars
  BY <1>14 DEF StagesOK, vars
<1> QED
  BY <1>1, <1>2, <1>3, <1>4, <1>5, <1>6, <1>7, <1>8, <1>9, <1>10, <1>11, <1>12,
     <1>13, <1>14
  DEF Next, DatabaseStep, RequestEnds, Elsewhere

\* What is true of the facts a paid upload rests on stays true: billing takes
\* nothing back, and the object, the file and the data owner of a call that was
\* charged do not change any more.
LEMMA PaidForEver ==
  ASSUME TypeOK, StagesOK, [Next]_vars, NEW d \in Calls, payment[d] = "charged"
  PROVE  /\ payment'[d] = "charged"
         /\ d \in stubFiles => d \in stubFiles'
         /\ target'[d] = target[d]
         /\ WalletOf(d)' = WalletOf(d)
<1> USE DEF TypeOK, StagesOK, Early, AllKinds
<1>1. ASSUME NEW r \in Calls, NEW kind \in Kinds, NEW f \in Files, Issue(r, kind, f)
      PROVE  UNCHANGED <<payment, stubFiles, ownerSent>> /\ target'[d] = target[d]
  BY <1>1 DEF Issue
<1>2. ASSUME NEW r \in Calls, UploadLocalFileToDds(r)
      PROVE  /\ UNCHANGED target
             /\ payment'[d] = payment[d]
             /\ ownerSent'[d] = ownerSent[d]
             /\ stubFiles \subseteq stubFiles'
  BY <1>2 DEF UploadLocalFileToDds
<1>3. ASSUME NEW r \in Calls, BillingDecides(r)
      PROVE  UNCHANGED <<target, stubFiles, ownerSent>> /\ payment'[d] = payment[d]
  BY <1>3 DEF BillingDecides
<1>4. ASSUME NEW r \in Calls,
             \/ CreateLocalFileRecord(r) \/ WriteFileChunk(r) \/ DeleteLocalFileRecord(r)
             \/ SaveFind(r) \/ SaveWrite(r) \/ RequestEnds(r)
             \/ ExtendFileStorageDuration(r) \/ ExtensionDecided(r) \/ NoticeDecided(r)
      PROVE  UNCHANGED <<target, payment, stubFiles, ownerSent>>
  BY <1>4 DEF CreateLocalFileRecord, WriteFileChunk, DeleteLocalFileRecord, SaveFind,
              SaveWrite, RequestEnds, PaymentSucceeds, PaymentFails,
              ExtendFileStorageDuration, NotifyPaymentStatus, ExtensionEnds, ExtensionDecided, NoticeDecided
<1>5. Crash \/ UNCHANGED vars => UNCHANGED <<target, payment, stubFiles, ownerSent>>
  BY DEF Crash, vars
<1> QED BY <1>1, <1>2, <1>3, <1>4, <1>5 DEF Next, DatabaseStep, Elsewhere, WalletOf

\* Two records that show the same upload, or both none.
SameUpload(a, b) ==
  /\ a.uploadedToDds = b.uploadedToDds
  /\ a.ddsId = b.ddsId
  /\ a.storagePrice = b.storagePrice
  /\ a.dataOwnerAddress = b.dataOwnerAddress

\* The only writer of the database is the second half of save().
LEMMA StoreSteps ==
  ASSUME TypeOK, StagesOK, [Next]_vars, NEW f \in Files
  PROVE  \/ store'[f] = store[f]
         \/ \E r \in Calls : SaveWrite(r) /\ target[r] = f /\ store'[f] = copy[r]
<1>1. ASSUME NEW r \in Calls, SaveWrite(r)
      PROVE  store'[f] = store[f] \/ (target[r] = f /\ store'[f] = copy[r])
  BY <1>1 DEF SaveWrite, TypeOK
<1>2. ASSUME NEW r \in Calls,
             \/ CreateLocalFileRecord(r) \/ WriteFileChunk(r) \/ DeleteLocalFileRecord(r)
             \/ UploadLocalFileToDds(r) \/ SaveFind(r) \/ RequestEnds(r)
             \/ ExtendFileStorageDuration(r) \/ Elsewhere(r) \/ \E kind \in Kinds, g \in Files : Issue(r, kind, g)
      PROVE  UNCHANGED store
  BY <1>2 DEF CreateLocalFileRecord, WriteFileChunk, DeleteLocalFileRecord, SaveFind,
              UploadLocalFileToDds, RequestEnds, PaymentSucceeds, PaymentFails,
              ExtendFileStorageDuration, Elsewhere, BillingDecides,
              NotifyPaymentStatus, ExtensionEnds, ExtensionDecided, NoticeDecided, Issue
<1>3. Crash \/ UNCHANGED vars => UNCHANGED store
  BY DEF Crash, vars
<1> QED BY <1>1, <1>2, <1>3 DEF Next, DatabaseStep

\* Where a copy comes from: a new record, the record in the database, the copy
\* the call had, or that copy with the answer of billing filled in.
LEMMA CopySteps ==
  ASSUME TypeOK, StagesOK, [Next]_vars, NEW q \in Calls
  PROVE  \/ copy'[q] = copy[q] /\ (target'[q] = target[q] \/ copy[q] = None)
         \/ /\ target'[q] = target[q]
            /\ ~copy'[q].uploadedToDds /\ copy'[q].ddsId = None
         \/ /\ target'[q] = target[q]
            /\ target[q] \in Files
            /\ store[target[q]] # None
            /\ SameUpload(copy'[q], store[target[q]])
         \/ /\ target'[q] = target[q]
            /\ copy[q] # None
            /\ SameUpload(copy'[q], copy[q])
         \/ /\ target'[q] = target[q]
            /\ payment[q] = "charged"
            /\ copy'[q].uploadedToDds
            /\ copy'[q].ddsId = q
            /\ copy'[q].storagePrice = q
            /\ copy'[q].dataOwnerAddress = WalletOf(q)
<1> DEFINE Goal ==
         \/ copy'[q] = copy[q] /\ (target'[q] = target[q] \/ copy[q] = None)
         \/ /\ target'[q] = target[q]
            /\ ~copy'[q].uploadedToDds /\ copy'[q].ddsId = None
         \/ /\ target'[q] = target[q]
            /\ target[q] \in Files
            /\ store[target[q]] # None
            /\ SameUpload(copy'[q], store[target[q]])
         \/ /\ target'[q] = target[q]
            /\ copy[q] # None
            /\ SameUpload(copy'[q], copy[q])
         \/ /\ target'[q] = target[q]
            /\ payment[q] = "charged"
            /\ copy'[q].uploadedToDds
            /\ copy'[q].ddsId = q
            /\ copy'[q].storagePrice = q
            /\ copy'[q].dataOwnerAddress = WalletOf(q)
<1>1. ASSUME NEW r \in Calls, NEW kind \in Kinds, NEW f \in Files, Issue(r, kind, f)
      PROVE  Goal
  BY <1>1 DEF Issue, StagesOK, TypeOK, Early
<1>2. ASSUME NEW r \in Calls, CreateLocalFileRecord(r) PROVE Goal
  <2>1. \A owner : /\ ~NewLocalFileRecord(owner).uploadedToDds
                    /\ NewLocalFileRecord(owner).ddsId = None
    BY DEF NewLocalFileRecord
  <2> QED BY <2>1, <1>2 DEF CreateLocalFileRecord, TypeOK
<1>3. ASSUME NEW r \in Calls, DeleteLocalFileRecord(r) PROVE Goal
  <2> DEFINE old == store[target[r]]
             new == [old EXCEPT !.deletedLocally = TRUE]
  <2>1. target[r] \in Files
    BY <1>3, RunningCall DEF DeleteLocalFileRecord, AllKinds
  <2>2. CASE UNCHANGED <<copy, identity>>
    BY <2>2
  <2>3. CASE old # None /\ copy' = [copy EXCEPT ![r] = new] /\ UNCHANGED identity
    <3>1. old \in LocalFileRecord
      BY <2>1, <2>3 DEF TypeOK
    <3>2. SameUpload(new, old)
      BY <3>1 DEF LocalFileRecord, SameUpload
    <3> HIDE DEF new
    <3> QED BY <3>2, <2>1, <2>3 DEF TypeOK
  <2> QED BY <2>2, <2>3, <1>3 DEF DeleteLocalFileRecord
<1>4. ASSUME NEW r \in Calls, UploadLocalFileToDds(r) PROVE Goal
  <2> DEFINE old == store[target[r]]
             new == Failed(old)
  <2>1. target[r] \in Files
    BY <1>4, RunningCall DEF UploadLocalFileToDds, AllKinds
  <2>2. CASE UNCHANGED <<copy, identity>>
    BY <2>2
  <2>3. CASE old # None /\ copy' = [copy EXCEPT ![r] = new] /\ UNCHANGED identity
    <3>1. old \in LocalFileRecord
      BY <2>1, <2>3 DEF TypeOK
    <3>2. SameUpload(new, old)
      BY <3>1 DEF LocalFileRecord, SameUpload
    <3> HIDE DEF new
    <3> QED BY <3>2, <2>1, <2>3 DEF TypeOK
  <2>4. CASE old # None /\ copy' = [copy EXCEPT ![r] = old] /\ UNCHANGED identity
    BY <2>1, <2>4 DEF TypeOK, SameUpload
  <2> QED BY <2>2, <2>3, <2>4, <1>4 DEF UploadLocalFileToDds
<1>5. ASSUME NEW r \in Calls, PaymentFails(r) PROVE Goal
  <2> DEFINE new == Failed(copy[r])
  <2>1. copy[r] \in LocalFileRecord /\ copy[r] # None
    BY <1>5 DEF PaymentFails, StagesOK, TypeOK, Holding
  <2>2. SameUpload(new, copy[r])
    BY <2>1 DEF LocalFileRecord, SameUpload
  <2>3. copy' = [copy EXCEPT ![r] = new] /\ UNCHANGED target
    BY <1>5 DEF PaymentFails
  <2> HIDE DEF new
  <2> QED BY <2>1, <2>2, <2>3 DEF TypeOK
<1>6. ASSUME NEW r \in Calls, PaymentSucceeds(r) PROVE Goal
  <2> DEFINE new == Confirmed(copy[r], r)
  <2>1. copy[r] \in LocalFileRecord
    BY <1>6 DEF PaymentSucceeds, StagesOK, TypeOK, Holding
  <2>2. new.uploadedToDds /\ new.ddsId = r /\ new.storagePrice = r /\ new.dataOwnerAddress = WalletOf(r)
    BY <2>1 DEF LocalFileRecord
  <2>3. copy' = [copy EXCEPT ![r] = new] /\ UNCHANGED target /\ payment[r] = "charged"
    BY <1>6 DEF PaymentSucceeds, PaymentResolves
  <2> HIDE DEF new
  <2> QED BY <2>2, <2>3 DEF TypeOK
<1>7. ASSUME NEW r \in Calls,
             \/ WriteFileChunk(r) \/ SaveFind(r) \/ SaveWrite(r) \/ BillingDecides(r)
             \/ NotifyPaymentStatus(r) \/ ExtensionEnds(r)
             \/ ExtensionDecided(r) \/ NoticeDecided(r)
      PROVE  UNCHANGED <<copy, target>>
  BY <1>7 DEF WriteFileChunk, SaveFind, SaveWrite, BillingDecides,
              NotifyPaymentStatus, ExtensionEnds, ExtensionDecided, NoticeDecided
<1>8. ASSUME NEW r \in Calls, ExtendFileStorageDuration(r) PROVE Goal
  <2>1. target[r] \in Files
    BY <1>8, RunningCall DEF ExtendFileStorageDuration, AllKinds
  <2> QED BY <2>1, <1>8 DEF ExtendFileStorageDuration, ShowsObject, TypeOK, SameUpload
<1>9. Crash \/ UNCHANGED vars => UNCHANGED <<copy, target>>
  BY DEF Crash, vars
<1> QED BY <1>1, <1>2, <1>3, <1>4, <1>5, <1>6, <1>7, <1>8, <1>9
        DEF Next, DatabaseStep, RequestEnds, Elsewhere

\* No step makes a record, or a copy of one, claim an upload that is not paid
\* for: the database gets copies, and copies are made by CopySteps.
LEMMA BackedStep == ASSUME Inv, [Next]_vars PROVE StoreBacked' /\ CopyBacked'
<1> USE DEF Inv
<1>1. ASSUME NEW record, NEW f, Backed(record, f)
      PROVE  record # None /\ (record.uploadedToDds \/ record.ddsId # None) =>
               LET d == record.ddsId IN
               /\ record.uploadedToDds
               /\ d \in Calls /\ d \in stubFiles' /\ target'[d] = f
               /\ payment'[d] = "charged" /\ record.storagePrice = d
               /\ record.dataOwnerAddress = WalletOf(d)'
  BY <1>1, PaidForEver DEF Backed
<1>2. ASSUME NEW f \in Files PROVE Backed(store[f], f)'
  <2>1. CASE store'[f] = store[f]
    BY <2>1, <1>1 DEF StoreBacked, Backed, WalletOf
  <2>2. ASSUME NEW r \in Calls, target[r] = f, store'[f] = copy[r]
        PROVE  Backed(store[f], f)'
    BY <2>2, <1>1 DEF CopyBacked, Backed, WalletOf
  <2> QED BY <2>1, <2>2, StoreSteps
<1>3. ASSUME NEW q \in Calls PROVE Backed(copy[q], target[q])'
  <2>1. CASE copy'[q] = copy[q] /\ (target'[q] = target[q] \/ copy[q] = None)
    BY <2>1, <1>1 DEF CopyBacked, Backed, WalletOf
  <2>2. CASE ~copy'[q].uploadedToDds /\ copy'[q].ddsId = None
    BY <2>2 DEF Backed
  <2>3. CASE /\ target'[q] = target[q]
             /\ target[q] \in Files
             /\ store[target[q]] # None
             /\ SameUpload(copy'[q], store[target[q]])
    <3>1. Backed(store[target[q]], target[q])
      BY <2>3 DEF StoreBacked
    <3> QED BY <3>1, <2>3, PaidForEver DEF Backed, SameUpload
  <2>4. CASE /\ target'[q] = target[q]
             /\ copy[q] # None
             /\ SameUpload(copy'[q], copy[q])
    <3>1. Backed(copy[q], target[q])
      BY DEF CopyBacked
    <3> QED BY <3>1, <2>4, PaidForEver DEF Backed, SameUpload
  <2>5. CASE /\ target'[q] = target[q]
             /\ payment[q] = "charged"
             /\ copy'[q].uploadedToDds
             /\ copy'[q].ddsId = q
             /\ copy'[q].storagePrice = q
             /\ copy'[q].dataOwnerAddress = WalletOf(q)
    <3>1. q \in stubFiles
      BY <2>5 DEF StagesOK
    <3> QED BY <3>1, <2>5, PaidForEver DEF Backed, WalletOf
  <2> QED BY <2>1, <2>2, <2>3, <2>4, <2>5, CopySteps
<1> QED BY <1>2, <1>3 DEF StoreBacked, CopyBacked

\* TypeOK, StagesOK and what is said of records hold in every state.
THEOREM Invariance == Spec => []Inv
<1>1. Inv /\ [Next]_vars => Inv'
  BY TypeStep, StagesStep, BackedStep DEF Inv
<1> QED BY InitInv, <1>1, PTL DEF Spec

\* Type correctness.
THEOREM TypeCorrectness == Spec => []TypeOK
<1>1. Inv => TypeOK
  BY DEF Inv
<1> QED BY Invariance, <1>1, PTL

\* A record that says "uploaded" is that of a paid upload of its file, for every
\* client and whatever crashes: processDataUploading writes back a record it
\* read before it waited for billing.
THEOREM UploadsArePaid == Spec => []RecordedUploadIsPaid
<1>1. Inv => RecordedUploadIsPaid
  BY DEF Inv, StoreBacked, Backed, RecordedUploadIsPaid
<1> QED BY Invariance, <1>1, PTL
-----------------------------------------------------------------------------
(***************************************************************************)
(* The extension of the storage.                                           *)
(***************************************************************************)
\* A call that has asked for an extension keeps the record it found, and it told
\* the storage only of what billing has charged.
ExtensionsOK ==
  \A r \in Calls :
    /\ extension[r] # "none" => /\ pc[r] \in {"extension", "notice", "done", "lost"}
                                /\ copy[r] # None
                                /\ copy[r].ddsId # None
    /\ notice[r] # "none" => /\ pc[r] \in {"notice", "done", "lost"}
                             /\ extension[r] = "charged"

\* No step breaks it: a call that asked for an extension writes no record.
LEMMA ExtensionStep ==
  ASSUME TypeOK, ExtensionsOK, [Next]_vars PROVE ExtensionsOK'
<1> USE FileServiceAssumption DEF TypeOK, ExtensionsOK
<1>1. ASSUME NEW r \in Calls, NEW kind \in Kinds, NEW f \in Files, Issue(r, kind, f)
      PROVE  ExtensionsOK'
  BY <1>1 DEF Issue
<1>2. ASSUME NEW r \in Calls, CreateLocalFileRecord(r) \/ WriteFileChunk(r)
                              \/ DeleteLocalFileRecord(r)
      PROVE  ExtensionsOK'
  <2>1. pc[r] \in {"create", "chunk", "delete"} /\ UNCHANGED <<extension, notice>>
    BY <1>2 DEF CreateLocalFileRecord, WriteFileChunk, DeleteLocalFileRecord
  <2>2. \A q \in Calls : q # r => copy'[q] = copy[q] /\ pc'[q] = pc[q]
    BY <1>2 DEF CreateLocalFileRecord, WriteFileChunk, DeleteLocalFileRecord
  <2> QED BY <2>1, <2>2
<1>3. ASSUME NEW r \in Calls, UploadLocalFileToDds(r) \/ PaymentSucceeds(r)
                              \/ PaymentFails(r)
      PROVE  ExtensionsOK'
  <2>1. pc[r] \in {"upload", "billing"} /\ UNCHANGED <<extension, notice>>
    BY <1>3 DEF UploadLocalFileToDds, PaymentSucceeds, PaymentFails
  <2>2. \A q \in Calls : q # r => copy'[q] = copy[q] /\ pc'[q] = pc[q]
    BY <1>3 DEF UploadLocalFileToDds, PaymentSucceeds, PaymentFails
  <2> QED BY <2>1, <2>2
<1>4. ASSUME NEW r \in Calls, SaveFind(r) \/ SaveWrite(r) PROVE ExtensionsOK'
  BY <1>4 DEF SaveFind, SaveWrite
<1>5. ASSUME NEW r \in Calls, ExtendFileStorageDuration(r) PROVE ExtensionsOK'
  <2>1. pc[r] = "extend" /\ UNCHANGED notice
    BY <1>5 DEF ExtendFileStorageDuration
  <2>2. CASE Finish(r)
    BY <2>1, <2>2
  <2>3. CASE /\ ShowsObject(target[r])
             /\ extension' = [extension EXCEPT ![r] = "sent"]
             /\ copy' = [copy EXCEPT ![r] = store[target[r]]]
             /\ pc' = [pc EXCEPT ![r] = "extension"]
    BY <2>1, <2>3 DEF ShowsObject
  <2> QED BY <2>2, <2>3, <1>5 DEF ExtendFileStorageDuration
<1>6. ASSUME NEW r \in Calls, NotifyPaymentStatus(r) \/ ExtensionEnds(r)
      PROVE  ExtensionsOK'
  BY <1>6 DEF NotifyPaymentStatus, ExtensionEnds
<1>7. ASSUME NEW r \in Calls, Elsewhere(r) PROVE ExtensionsOK'
  BY <1>7 DEF Elsewhere, BillingDecides, ExtensionDecided, NoticeDecided
<1>8. CASE Crash
  BY <1>8 DEF Crash
<1>9. CASE UNCHANGED vars
  BY <1>9 DEF vars
<1> QED BY <1>1, <1>2, <1>3, <1>4, <1>5, <1>6, <1>7, <1>8, <1>9
        DEF Next, DatabaseStep, RequestEnds

\* It gives the property, with what is known of copies.
LEMMA ExtensionsImply == Inv /\ ExtensionsOK => ExtensionIsPaid
  BY DEF Inv, ExtensionsOK, CopyBacked, Backed, ExtensionIsPaid

\* An extension is charged only for an object that is stored, whose upload was
\* charged, and that was made from the file of the data validator who pays; the
\* storage hears only of extensions that are charged.
THEOREM ExtensionsArePaid == Spec => []ExtensionIsPaid
<1>1. Init => ExtensionsOK
  BY DEF Init, ExtensionsOK
<1>2. Inv /\ ExtensionsOK /\ [Next]_vars => ExtensionsOK'
  BY ExtensionStep DEF Inv
<1> QED BY Invariance, ExtensionsImply, <1>1, <1>2, PTL DEF Spec
-----------------------------------------------------------------------------
(***************************************************************************)
(* Clients whose requests do not overlap.                                  *)
(***************************************************************************)
\* A record that differs from an older one in what a handler changes keeps what
\* the older one shows; so does one that differs from such a record.
LEMMA AtLeastFacts ==
  /\ \A a, b, c : AtLeast(a, b) /\ AtLeast(b, c) => AtLeast(a, c)
  /\ \A a \in LocalFileRecord : AtLeast(a, a)
<1>1. \A a, b, c : AtLeast(a, b) /\ AtLeast(b, c) => AtLeast(a, c)
  BY DEF AtLeast
<1>2. \A a \in LocalFileRecord : AtLeast(a, a)
  BY NoneIsNoRecord DEF AtLeast
<1> QED BY <1>1, <1>2

\* How a call comes to hold a copy: it keeps what its older copy or the record
\* in the database shows, or the call has created its file.
LEMMA HoldingSteps ==
  ASSUME TypeOK, StagesOK, [Next]_vars, NEW q \in Calls, pc'[q] \in Holding
  PROVE  /\ target'[q] = target[q]
         /\ \/ pc[q] \in Holding /\ AtLeast(copy'[q], copy[q])
            \/ /\ pc[q] \in {"delete", "upload"}
               /\ store[target[q]] # None
               /\ AtLeast(copy'[q], store[target[q]])
            \/ pc[q] = "create"
<1> USE DEF Holding
<1> DEFINE Goal == /\ target'[q] = target[q]
                   /\ \/ pc[q] \in Holding /\ AtLeast(copy'[q], copy[q])
                      \/ /\ pc[q] \in {"delete", "upload"}
                         /\ store[target[q]] # None
                         /\ AtLeast(copy'[q], store[target[q]])
                      \/ pc[q] = "create"
           Same == pc'[q] = pc[q] /\ copy'[q] = copy[q] /\ target'[q] = target[q]
<1>0. ASSUME Same PROVE Goal
  BY <1>0, NoneIsNoRecord, AtLeastFacts DEF TypeOK, StagesOK
<1>1. ASSUME NEW r \in Calls, NEW kind \in Kinds, NEW f \in Files, Issue(r, kind, f)
      PROVE  Goal
  <2>1. q # r
    BY <1>1, FileServiceAssumption DEF Issue, TypeOK, AllKinds
  <2> QED BY <2>1, <1>0, <1>1 DEF Issue, TypeOK
<1>2. ASSUME NEW r \in Calls, CreateLocalFileRecord(r) PROVE Goal
  <2>1. CASE q = r
    BY <2>1, <1>2 DEF CreateLocalFileRecord
  <2>2. CASE q # r
    BY <2>2, <1>0, <1>2 DEF CreateLocalFileRecord, TypeOK
  <2> QED BY <2>1, <2>2
<1>3. ASSUME NEW r \in Calls, DeleteLocalFileRecord(r) PROVE Goal
  <2> DEFINE old == store[target[r]]
             new == [old EXCEPT !.deletedLocally = TRUE]
  <2>1. CASE q # r
    BY <2>1, <1>0, <1>3 DEF DeleteLocalFileRecord, TypeOK
  <2>2. CASE q = r
    <3>1. target[r] \in Files /\ pc[r] = "delete"
      BY <1>3, RunningCall DEF DeleteLocalFileRecord, AllKinds
    <3>2. old # None /\ copy' = [copy EXCEPT ![r] = new] /\ UNCHANGED target
      BY <2>2, <1>3 DEF DeleteLocalFileRecord, TypeOK
    <3>3. old \in LocalFileRecord
      BY <3>1, <3>2 DEF TypeOK
    <3>4. AtLeast(new, old)
      BY <3>3, NoneIsNoRecord DEF LocalFileRecord, AtLeast
    <3> HIDE DEF new
    <3> QED BY <2>2, <3>1, <3>2, <3>4 DEF TypeOK
  <2> QED BY <2>1, <2>2
<1>4. ASSUME NEW r \in Calls, UploadLocalFileToDds(r) PROVE Goal
  <2> DEFINE old == store[target[r]]
             new == Failed(old)
  <2>1. CASE q # r
    BY <2>1, <1>0, <1>4 DEF UploadLocalFileToDds, TypeOK
  <2>2. CASE q = r
    <3>1. target[r] \in Files /\ pc[r] = "upload"
      BY <1>4, RunningCall DEF UploadLocalFileToDds, AllKinds
    <3>2. /\ old # None
          /\ UNCHANGED target
          /\ copy' = [copy EXCEPT ![r] = new] \/ copy' = [copy EXCEPT ![r] = old]
      BY <2>2, <1>4 DEF UploadLocalFileToDds, TypeOK
    <3>3. old \in LocalFileRecord
      BY <3>1, <3>2 DEF TypeOK
    <3>4. AtLeast(new, old) /\ AtLeast(old, old)
      BY <3>3, NoneIsNoRecord DEF LocalFileRecord, AtLeast
    <3> HIDE DEF new
    <3> QED BY <2>2, <3>1, <3>2, <3>4 DEF TypeOK
  <2> QED BY <2>1, <2>2
<1>5. ASSUME NEW r \in Calls, PaymentFails(r) PROVE Goal
  <2> DEFINE new == Failed(copy[r])
  <2>1. copy[r] \in LocalFileRecord /\ pc[r] = "billing"
    BY <1>5 DEF PaymentFails, StagesOK, TypeOK
  <2>2. AtLeast(new, copy[r])
    BY <2>1, NoneIsNoRecord DEF LocalFileRecord, AtLeast
  <2>3. copy' = [copy EXCEPT ![r] = new] /\ UNCHANGED target
    BY <1>5 DEF PaymentFails
  <2> HIDE DEF new
  <2>4. CASE q = r
    BY <2>1, <2>2, <2>3, <2>4 DEF TypeOK
  <2>5. CASE q # r
    BY <2>5, <1>0, <1>5 DEF PaymentFails, TypeOK
  <2> QED BY <2>4, <2>5
<1>6. ASSUME NEW r \in Calls, PaymentSucceeds(r) PROVE Goal
  <2> DEFINE new == Confirmed(copy[r], r)
  <2>1. copy[r] \in LocalFileRecord /\ pc[r] = "billing"
    BY <1>6 DEF PaymentSucceeds, StagesOK, TypeOK
  <2>2. WalletOf(r) \in Owners \cup {None}
    BY <1>6 DEF TypeOK, WalletOf, Owners
  <2>3. AtLeast(new, copy[r])
    <3>1. ownerSent[r] = copy[r].dataOwnerAddress
      BY <2>1 DEF StagesOK
    <3> QED BY <2>1, <2>2, <3>1, NoneIsNoRecord DEF LocalFileRecord, AtLeast, WalletOf
  <2>4. copy' = [copy EXCEPT ![r] = new] /\ UNCHANGED target
    BY <1>6 DEF PaymentSucceeds
  <2> HIDE DEF new
  <2>5. CASE q = r
    BY <2>1, <2>3, <2>4, <2>5 DEF TypeOK
  <2>6. CASE q # r
    BY <2>6, <1>0, <1>6 DEF PaymentSucceeds, TypeOK
  <2> QED BY <2>5, <2>6
<1>7. ASSUME NEW r \in Calls, WriteFileChunk(r) \/ SaveWrite(r) PROVE Goal
  BY <1>7, <1>0 DEF WriteFileChunk, SaveWrite, TypeOK
<1>8. ASSUME NEW r \in Calls, SaveFind(r) PROVE Goal
  <2>1. UNCHANGED <<copy, target>> /\ (pc'[q] = pc[q] \/ pc[q] = "saveFind")
    BY <1>8 DEF SaveFind, TypeOK
  <2>2. pc[q] \in Holding
    BY <2>1
  <2> QED BY <2>1, <2>2, NoneIsNoRecord, AtLeastFacts DEF TypeOK, StagesOK
<1>9. ASSUME NEW r \in Calls, BillingDecides(r) PROVE Goal
  BY <1>9, <1>0 DEF BillingDecides
<1>10. ASSUME NEW r \in Calls,
              \/ ExtendFileStorageDuration(r)
              \/ NotifyPaymentStatus(r) \/ ExtensionEnds(r)
              \/ ExtensionDecided(r) \/ NoticeDecided(r)
       PROVE  Goal
  BY <1>10, <1>0 DEF ExtendFileStorageDuration, NotifyPaymentStatus, ExtensionEnds,
                     ExtensionDecided, NoticeDecided, TypeOK
<1>11. CASE Crash
  BY <1>11, <1>0 DEF Crash, TypeOK
<1>12. CASE UNCHANGED vars
  BY <1>12, <1>0 DEF vars
<1> QED BY <1>1, <1>2, <1>3, <1>4, <1>5, <1>6, <1>7, <1>8, <1>9, <1>10, <1>11,
        <1>12
        DEF Next, DatabaseStep, RequestEnds, Elsewhere

\* A call at work was at work before the step, about the same file, or it has
\* just been issued.
LEMMA ActiveSteps ==
  ASSUME TypeOK, StagesOK, [Next]_vars, NEW q \in Calls, Active(q)'
  PROVE  \/ Active(q) /\ target'[q] = target[q] /\ (pc'[q] = "create" => pc[q] = "create")
         \/ \E kind \in Kinds, f \in Files : Issue(q, kind, f)
<1> USE DEF AllKinds, Waiting
<1>1. ASSUME NEW r \in Calls, NEW kind \in Kinds, NEW f \in Files, Issue(r, kind, f), q # r
      PROVE  Active(q) /\ target'[q] = target[q] /\ pc'[q] = pc[q]
  BY <1>1 DEF Issue, TypeOK
<1>2. ASSUME NEW r \in Calls, DatabaseStep(r) \/ RequestEnds(r)
      PROVE  Active(q) /\ target'[q] = target[q] /\ (pc'[q] = "create" => pc[q] = "create")
  BY <1>2 DEF DatabaseStep, RequestEnds, CreateLocalFileRecord, WriteFileChunk,
              DeleteLocalFileRecord, UploadLocalFileToDds, SaveFind, SaveWrite,
              PaymentSucceeds, PaymentFails, ExtendFileStorageDuration,
              NotifyPaymentStatus, ExtensionEnds, TypeOK
<1>3. ASSUME NEW r \in Calls, Elsewhere(r) PROVE UNCHANGED <<pc, target>>
  BY <1>3 DEF Elsewhere, BillingDecides, ExtensionDecided, NoticeDecided
<1>4. CASE Crash
  BY <1>4 DEF Crash, TypeOK
<1>5. CASE UNCHANGED vars
  BY <1>5 DEF vars
<1> QED BY <1>1, <1>2, <1>3, <1>4, <1>5 DEF Next

\* Drawn ids stay drawn.
LEMMA AllocatedGrows == ASSUME [Next]_vars PROVE allocated \subseteq allocated'
<1>1. ASSUME NEW r \in Calls, NEW kind \in Kinds, NEW f \in Files, Issue(r, kind, f)
      PROVE  allocated \subseteq allocated'
  BY <1>1 DEF Issue
<1>2. ASSUME NEW r \in Calls, DatabaseStep(r) \/ RequestEnds(r) \/ Elsewhere(r)
      PROVE  UNCHANGED allocated
  BY <1>2 DEF DatabaseStep, RequestEnds, CreateLocalFileRecord, WriteFileChunk,
              DeleteLocalFileRecord, UploadLocalFileToDds, SaveFind, SaveWrite,
              PaymentSucceeds, PaymentFails, ExtendFileStorageDuration,
              Elsewhere, BillingDecides, NotifyPaymentStatus, ExtensionEnds,
              ExtensionDecided, NoticeDecided
<1>3. Crash \/ UNCHANGED vars => UNCHANGED allocated
  BY DEF Crash, vars
<1> QED BY <1>1, <1>2, <1>3 DEF Next

\* No step makes a call, or a record, be about an id that was not drawn.
LEMMA AllocatedStep == ASSUME Inv, AllocatedOK, [Next]_vars PROVE AllocatedOK'
<1> USE DEF Inv
<1>1. ASSUME NEW f \in Files, store'[f] # None PROVE f \in allocated'
  <2>1. CASE store'[f] = store[f]
    BY <2>1, <1>1, AllocatedGrows DEF AllocatedOK
  <2>2. ASSUME NEW r \in Calls, SaveWrite(r), target[r] = f PROVE f \in allocated'
    BY <2>2, AllocatedGrows DEF AllocatedOK, SaveWrite, Holding
  <2> QED BY <2>1, <2>2, StoreSteps
<1>2. ASSUME NEW q \in Calls, pc'[q] \in Holding PROVE target'[q] \in allocated'
  <2>1. CASE pc[q] \in {"delete", "upload"} /\ store[target[q]] # None
    <3>1. target[q] \in Files
      BY <2>1 DEF StagesOK, Waiting, AllKinds
    <3> QED BY <3>1, <2>1, <1>2, HoldingSteps, AllocatedGrows DEF AllocatedOK
  <2>2. CASE pc[q] \in Holding \cup {"create"}
    BY <2>2, <1>2, HoldingSteps, AllocatedGrows DEF AllocatedOK
  <2> QED BY <2>1, <2>2, <1>2, HoldingSteps
<1>3. ASSUME NEW q \in Calls, pc'[q] = "create" PROVE target'[q] \in allocated'
  <2>1. Active(q)'
    BY <1>3 DEF Waiting, AllKinds
  <2>2. ASSUME NEW kind \in Kinds, NEW f \in Files, Issue(q, kind, f)
        PROVE  target'[q] \in allocated'
    BY <2>2, <1>3 DEF Issue, TypeOK
  <2> QED BY <2>1, <2>2, <1>3, ActiveSteps, AllocatedGrows DEF AllocatedOK
<1> QED BY <1>1, <1>2, <1>3 DEF AllocatedOK

\* While requests do not overlap, no step lets a call at work hold a copy that
\* shows less than the record in the database.
LEMMA SerialStep ==
  ASSUME Inv, AllocatedOK, SerialOK, [Next]_vars PROVE SerialOK'
<1> SUFFICES ASSUME ~Overlap
             PROVE  /\ \A q, r \in Calls :
                         Active(q)' /\ Active(r)' /\ target'[q] = target'[r] => q = r
                    /\ \A r \in Calls : pc'[r] = "create" => store'[target'[r]] = None
                    /\ \A r \in Calls : pc'[r] \in Holding
                                         => AtLeast(copy'[r], store'[target'[r]])
  BY DEF SerialOK, AtLeast
<1> USE DEF Inv
<1>1. \A q, r \in Calls : Active(q) /\ Active(r) /\ target[q] = target[r] => q = r
  BY DEF SerialOK
<1>2. ASSUME NEW q \in Calls, NEW r \in Calls,
             Active(q)', Active(r)', target'[q] = target'[r]
      PROVE  q = r
  <2>1. ASSUME NEW a \in Calls, NEW b \in Calls, NEW kind \in Kinds, NEW f \in Files,
               Issue(a, kind, f), Active(b)', target'[a] = target'[b], a # b
        PROVE  FALSE
    BY <2>1 DEF Issue, TypeOK
  <2> QED BY <2>1, <1>1, <1>2, ActiveSteps
\* Only the call that works on a file writes its record.
<1>3. ASSUME NEW q \in Calls, Active(q), target[q] \in Files, ~SaveWrite(q)
      PROVE  store'[target[q]] = store[target[q]]
  <2>1. ASSUME NEW r \in Calls, SaveWrite(r), target[r] = target[q] PROVE FALSE
    BY <2>1, <1>1, <1>3 DEF SaveWrite, Waiting
  <2> QED BY <2>1, <1>3, StoreSteps
<1>4. ASSUME NEW q \in Calls, SaveWrite(q) PROVE pc'[q] = "done"
  BY <1>4 DEF SaveWrite, TypeOK
<1>5. ASSUME NEW q \in Calls, pc'[q] = "create" PROVE store'[target'[q]] = None
  <2>1. Active(q)' /\ ~SaveWrite(q)
    BY <1>5, <1>4 DEF Waiting, AllKinds
  <2>2. CASE Active(q) /\ target'[q] = target[q] /\ pc[q] = "create"
    BY <2>1, <2>2, <1>3 DEF StagesOK, SerialOK
  <2>3. ASSUME NEW kind \in Kinds, NEW f \in Files, Issue(q, kind, f)
        PROVE  store'[target'[q]] = None
    BY <2>3, <1>5 DEF Issue, AllocatedOK, TypeOK
  <2> QED BY <2>1, <2>2, <2>3, <1>5, ActiveSteps
<1>6. ASSUME NEW q \in Calls, pc'[q] \in Holding
      PROVE  AtLeast(copy'[q], store'[target'[q]])
  <2>1. pc[q] \in Waiting /\ target'[q] = target[q] /\ target[q] \in Files
    BY <1>6, HoldingSteps DEF Holding, Waiting, AllKinds, StagesOK
  <2>2. store'[target'[q]] = store[target[q]]
    BY <2>1, <1>3, <1>4, <1>6 DEF Holding
  <2>3. CASE pc[q] \in Holding /\ AtLeast(copy'[q], copy[q])
    BY <2>2, <2>3, AtLeastFacts DEF SerialOK
  <2>4. CASE AtLeast(copy'[q], store[target[q]])
    BY <2>2, <2>4
  <2>5. CASE pc[q] = "create"
    BY <2>2, <2>5 DEF SerialOK, AtLeast
  <2> QED BY <2>3, <2>4, <2>5, <1>6, HoldingSteps
<1> QED BY <1>2, <1>5, <1>6

\* The whole invariant holds in every state.
THEOREM SerialInvariance == Spec => []IInv
<1>1. Init => AllocatedOK /\ SerialOK
  BY DEF Init, AllocatedOK, SerialOK, Holding, Waiting, AllKinds
<1>2. IInv /\ [Next]_vars => IInv'
  BY TypeStep, StagesStep, BackedStep, AllocatedStep, SerialStep DEF IInv, Inv
<1> QED BY InitInv, <1>1, <1>2, PTL DEF Spec, IInv

\* While requests do not overlap, what is written keeps what it replaces: save()
\* writes what was read by the same call, and nobody wrote the record since.
LEMMA StoreKeeps ==
  ASSUME ~Overlap, IInv, [Next]_vars, NEW f \in Files PROVE AtLeast(store'[f], store[f])
<1>1. ASSUME NEW r \in Calls, SaveWrite(r), target[r] = f PROVE AtLeast(copy[r], store[f])
  BY <1>1 DEF IInv, SerialOK, SaveWrite, Holding
<1>2. store'[f] = store[f] => AtLeast(store'[f], store[f])
  BY AtLeastFacts DEF IInv, Inv, TypeOK, AtLeast
<1> QED BY <1>1, <1>2, StoreSteps DEF IInv, Inv

\* While the requests for a file do not overlap, no step loses a record, an
\* upload or a deletion that a record shows.
THEOREM NothingIsLost == ~Overlap => (Spec => NoLostUpdate)
<1> SUFFICES ASSUME ~Overlap PROVE Spec => NoLostUpdate
  OBVIOUS
<1> DEFINE Kept(f) == store[f] # None =>
                        /\ store'[f] # None
                        /\ store[f].uploadedToDds => store'[f].uploadedToDds
                        /\ store[f].deletedLocally => store'[f].deletedLocally
<1>1. IInv /\ [Next]_vars => [\A f \in Files : Kept(f)]_vars
  BY StoreKeeps DEF AtLeast
<1> QED BY <1>1, SerialInvariance, PTL DEF NoLostUpdate, Spec

\* What save() found is still what is stored when it writes.
CurrentOK == \A r \in Calls : pc[r] = "saveWrite" => found[r] = store[target[r]]

\* An upload that ended with a confirmed payment shows in a record.
VisibleOK ==
  \A r \in Calls :
    pc[r] = "done" /\ copy[r] # None /\ copy[r].ddsId = r =>
      /\ target[r] \in Files
      /\ store[target[r]] # None
      /\ store[target[r]].uploadedToDds
      /\ ownerSent[r] = None => store[target[r]].dataOwnerAddress = r

\* A call about to write read the record a moment ago, and it is the only one at
\* work on the file: nothing has come in between.
LEMMA CurrentStep ==
  ASSUME ~Overlap, IInv, CurrentOK, [Next]_vars PROVE CurrentOK'
<1> USE DEF IInv, Inv
<1> SUFFICES ASSUME NEW q \in Calls, pc'[q] = "saveWrite"
             PROVE  found'[q] = store'[target'[q]]
  BY DEF CurrentOK
<1>1. /\ target'[q] = target[q]
      /\ \/ pc[q] = "saveWrite" /\ found'[q] = found[q]
         \/ pc[q] = "saveFind" /\ found'[q] = store[target[q]]
  <2> USE DEF TypeOK, AllKinds
  <2>1. ASSUME NEW r \in Calls, NEW kind \in Kinds, NEW f \in Files, Issue(r, kind, f)
        PROVE  UNCHANGED found /\ target'[q] = target[q] /\ pc'[q] = pc[q]
    BY <2>1, FileServiceAssumption DEF Issue
  <2>2. ASSUME NEW r \in Calls, SaveFind(r)
        PROVE  /\ target'[q] = target[q]
               /\ q # r => pc'[q] = pc[q] /\ found'[q] = found[q]
               /\ q = r => pc[q] = "saveFind" /\ found'[q] = store[target[q]]
    BY <2>2 DEF SaveFind
  <2>3. ASSUME NEW r \in Calls,
               \/ CreateLocalFileRecord(r) \/ WriteFileChunk(r) \/ DeleteLocalFileRecord(r)
               \/ UploadLocalFileToDds(r) \/ ExtendFileStorageDuration(r) \/ SaveWrite(r)
               \/ RequestEnds(r) \/ Elsewhere(r)
        PROVE  UNCHANGED <<found, target>> /\ pc'[q] = pc[q]
    BY <2>3 DEF CreateLocalFileRecord, WriteFileChunk, DeleteLocalFileRecord,
                UploadLocalFileToDds, ExtendFileStorageDuration, SaveWrite, RequestEnds,
                PaymentSucceeds, PaymentFails, NotifyPaymentStatus, ExtensionEnds,
                Elsewhere, BillingDecides, ExtensionDecided, NoticeDecided
  <2>4. Crash \/ UNCHANGED vars => UNCHANGED <<found, target>> /\ pc'[q] = pc[q]
    BY DEF Crash, vars
  <2> QED BY <2>1, <2>2, <2>3, <2>4 DEF Next, DatabaseStep
<1>2. Active(q) /\ target[q] \in Files
  BY <1>1 DEF StagesOK, Waiting
<1>3. ASSUME NEW r \in Calls, SaveWrite(r) PROVE target[r] # target[q]
  <2>1. pc'[r] = "done" /\ Active(r)
    BY <1>3 DEF SaveWrite, TypeOK, Waiting
  <2> QED BY <2>1, <1>2 DEF SerialOK
<1>4. store'[target[q]] = store[target[q]]
  BY <1>2, <1>3, StoreSteps
<1> QED BY <1>1, <1>4 DEF CurrentOK

\* How a call comes to its end with a copy: it writes it, it ended before, or it
\* is one that made no object.
LEMMA DoneSteps ==
  ASSUME TypeOK, StagesOK, [Next]_vars, NEW q \in Calls, pc'[q] = "done", copy'[q] # None
  PROVE  /\ UNCHANGED <<copy[q], target[q], ownerSent[q]>>
         /\ pc[q] = "done" \/ SaveWrite(q) \/ q \notin stubFiles
<1> USE DEF TypeOK, StagesOK, Early, AllKinds
<1>1. ASSUME NEW r \in Calls, NEW kind \in Kinds, NEW f \in Files, Issue(r, kind, f)
      PROVE  UNCHANGED <<copy[q], target[q], ownerSent[q]>> /\ pc[q] = "done"
  BY <1>1, FileServiceAssumption DEF Issue
<1>2. ASSUME NEW r \in Calls,
             \/ CreateLocalFileRecord(r) \/ WriteFileChunk(r) \/ DeleteLocalFileRecord(r)
             \/ UploadLocalFileToDds(r) \/ ExtendFileStorageDuration(r)
      PROVE  UNCHANGED <<copy[q], target[q], ownerSent[q]>> /\ (pc[q] = "done" \/ q \notin stubFiles)
  <2>1. CASE q = r
    BY <2>1, <1>2 DEF CreateLocalFileRecord, WriteFileChunk, DeleteLocalFileRecord,
                UploadLocalFileToDds, ExtendFileStorageDuration
  <2>2. CASE q # r
    BY <2>2, <1>2 DEF CreateLocalFileRecord, WriteFileChunk, DeleteLocalFileRecord,
                UploadLocalFileToDds, ExtendFileStorageDuration
  <2> QED BY <2>1, <2>2
<1>3. ASSUME NEW r \in Calls, SaveFind(r) \/ SaveWrite(r)
      PROVE  /\ UNCHANGED <<copy[q], target[q], ownerSent[q]>>
             /\ pc[q] = "done" \/ SaveWrite(q)
  BY <1>3 DEF SaveFind, SaveWrite
<1>4. ASSUME NEW r \in Calls, RequestEnds(r)
      PROVE  /\ UNCHANGED <<copy[q], target[q], ownerSent[q]>>
             /\ pc[q] = "done" \/ q \notin stubFiles
  BY <1>4 DEF RequestEnds, PaymentSucceeds, PaymentFails, NotifyPaymentStatus, ExtensionEnds
<1>5. ASSUME NEW r \in Calls, Elsewhere(r) PROVE UNCHANGED <<copy, target, ownerSent, pc>>
  BY <1>5 DEF Elsewhere, BillingDecides, ExtensionDecided, NoticeDecided
<1>6. Crash \/ UNCHANGED vars
        => UNCHANGED <<copy[q], target[q], ownerSent[q]>> /\ pc[q] = "done"
  BY DEF Crash, vars
<1> QED BY <1>1, <1>2, <1>3, <1>4, <1>5, <1>6 DEF Next, DatabaseStep

\* What has been shown stays, and the write of a paid upload is not dropped.
LEMMA VisibleStep ==
  ASSUME ~Overlap, IInv, CurrentOK, VisibleOK, [Next]_vars PROVE VisibleOK'
<1> USE DEF IInv, Inv
<1> SUFFICES ASSUME NEW q \in Calls, pc'[q] = "done", copy'[q] # None, copy'[q].ddsId = q
             PROVE  /\ target'[q] \in Files
                    /\ store'[target'[q]] # None
                    /\ store'[target'[q]].uploadedToDds
                    /\ ownerSent'[q] = None => store'[target'[q]].dataOwnerAddress = q
  BY DEF VisibleOK
<1>1. /\ UNCHANGED <<copy[q], target[q], ownerSent[q]>>
      /\ pc[q] = "done" \/ SaveWrite(q) \/ q \notin stubFiles
  BY DoneSteps
<1>2. /\ q \in stubFiles
      /\ copy[q].uploadedToDds
      /\ copy[q].dataOwnerAddress = WalletOf(q)
  BY <1>1, FileServiceAssumption DEF CopyBacked, Backed
<1>3. CASE pc[q] = "done"
  <2>1. /\ target[q] \in Files
        /\ store[target[q]] # None
        /\ store[target[q]].uploadedToDds
        /\ ownerSent[q] = None => store[target[q]].dataOwnerAddress = q
    BY <1>1, <1>3 DEF VisibleOK
  <2>2. AtLeast(store'[target[q]], store[target[q]])
    BY <2>1, StoreKeeps
  <2> QED BY <1>1, <2>1, <2>2, FileServiceAssumption DEF AtLeast
<1>4. CASE SaveWrite(q)
  <2>1. target[q] \in Files /\ found[q] = store[target[q]]
    BY <1>4, RunningCall DEF SaveWrite, CurrentOK
  <2>2. store'[target[q]] = copy[q]
    BY <2>1, <1>4 DEF SaveWrite, TypeOK
  <2> QED BY <1>1, <1>2, <2>1, <2>2 DEF WalletOf
<1> QED BY <1>1, <1>2, <1>3, <1>4

\* While the requests for a file do not overlap, an upload whose payment the node
\* saw confirmed ends with a record that shows it, and whatever is written later
\* keeps it, with the wallet that billing made for its data owner.
THEOREM PaidUploadsAreVisible == ~Overlap => (Spec => []PaidUploadIsVisible)
<1> SUFFICES ASSUME ~Overlap PROVE Spec => []PaidUploadIsVisible
  OBVIOUS
<1>1. Init => CurrentOK /\ VisibleOK
  BY DEF Init, CurrentOK, VisibleOK
<1>2. IInv /\ CurrentOK /\ VisibleOK /\ [Next]_vars => CurrentOK' /\ VisibleOK'
  BY CurrentStep, VisibleStep
<1>3. VisibleOK => PaidUploadIsVisible
  BY DEF VisibleOK, PaidUploadIsVisible
<1> QED BY <1>1, <1>2, <1>3, SerialInvariance, PTL DEF Spec
-----------------------------------------------------------------------------
(***************************************************************************)
(* Clients that delete nothing: what a client that polls the status sees.  *)
(***************************************************************************)
\* A record whose upload has neither succeeded nor failed.
Pending(record) == ~record.uploadedToDds /\ ~record.failed

\* The call that makes a file, and has not saved its record yet: nobody else
\* saves a record that is still pending.
Creating(r) == pc[r] = "create" \/ (pc[r] \in {"saveFind", "saveWrite"} /\ Pending(copy[r]))

\* A record is pending only until an upload saves one that is not: a file has one
\* creator, who comes before everybody else.
SettledOK ==
  /\ \A r \in Calls : pc[r] # "delete"
  /\ \A r \in Calls : Creating(r) => store[target[r]] = None
  /\ \A r \in Calls : pc[r] \in Holding /\ ~Creating(r) => store[target[r]] # None
  /\ \A q, r \in Calls : Creating(q) /\ Creating(r) /\ target[q] = target[r] => q = r

\* What a call that is going to write has done: it goes on creating, it settled
\* the record it had, or it read a record that is there.
LEMMA SavingSteps ==
  ASSUME TypeOK, StagesOK, [Next]_vars, NEW q \in Calls, pc[q] # "delete",
         pc'[q] \in Holding
  PROVE  /\ target'[q] = target[q]
         /\ \/ pc[q] = pc'[q] /\ copy'[q] = copy[q]
            \/ pc[q] = "saveFind" /\ pc'[q] = "saveWrite" /\ copy'[q] = copy[q]
            \/ pc[q] = "create" /\ pc'[q] = "saveFind"
            \/ pc[q] = "upload" /\ store[target[q]] # None
               /\ (pc'[q] = "billing" \/ ~Pending(copy'[q]))
            \/ pc[q] = "billing" /\ pc'[q] = "saveFind" /\ ~Pending(copy'[q])
<1> USE DEF Holding
<1> DEFINE Goal ==
         /\ target'[q] = target[q]
         /\ \/ pc[q] = pc'[q] /\ copy'[q] = copy[q]
            \/ pc[q] = "saveFind" /\ pc'[q] = "saveWrite" /\ copy'[q] = copy[q]
            \/ pc[q] = "create" /\ pc'[q] = "saveFind"
            \/ pc[q] = "upload" /\ store[target[q]] # None
               /\ (pc'[q] = "billing" \/ ~Pending(copy'[q]))
            \/ pc[q] = "billing" /\ pc'[q] = "saveFind" /\ ~Pending(copy'[q])
<1>1. ASSUME NEW r \in Calls, NEW kind \in Kinds, NEW f \in Files, Issue(r, kind, f)
      PROVE  Goal
  BY <1>1, FileServiceAssumption DEF Issue, TypeOK, AllKinds
<1>2. ASSUME NEW r \in Calls,
             \/ CreateLocalFileRecord(r) \/ WriteFileChunk(r) \/ DeleteLocalFileRecord(r)
             \/ ExtendFileStorageDuration(r) \/ SaveFind(r) \/ SaveWrite(r)
             \/ NotifyPaymentStatus(r) \/ ExtensionEnds(r) \/ Elsewhere(r)
      PROVE  Goal
  BY <1>2 DEF CreateLocalFileRecord, WriteFileChunk, DeleteLocalFileRecord, SaveFind, SaveWrite,
              ExtendFileStorageDuration, NotifyPaymentStatus, ExtensionEnds, Elsewhere,
              BillingDecides, ExtensionDecided, NoticeDecided, TypeOK
<1>3. ASSUME NEW r \in Calls, UploadLocalFileToDds(r) PROVE Goal
  <2> DEFINE old == store[target[r]]
             new == Failed(old)
  <2>1. CASE q # r
    BY <2>1, <1>3 DEF UploadLocalFileToDds, TypeOK
  <2>2. CASE q = r
    <3>1. target[r] \in Files /\ pc[r] = "upload"
      BY <1>3, RunningCall DEF UploadLocalFileToDds, AllKinds
    <3>2. /\ old # None
          /\ UNCHANGED target
          /\ \/ copy' = [copy EXCEPT ![r] = new]
             \/ pc' = [pc EXCEPT ![r] = "billing"]
      BY <2>2, <1>3 DEF UploadLocalFileToDds, TypeOK
    <3>3. old \in LocalFileRecord
      BY <3>1, <3>2 DEF TypeOK
    <3>4. new.failed
      BY <3>3 DEF LocalFileRecord
    <3> HIDE DEF new
    <3> QED BY <2>2, <3>1, <3>2, <3>4 DEF TypeOK, Pending
  <2> QED BY <2>1, <2>2
<1>4. ASSUME NEW r \in Calls, NEW new, copy[r] \in LocalFileRecord => ~Pending(new),
             pc[r] = "billing", Save(r, new, dbQueue), UNCHANGED target
      PROVE  Goal
  <2>1. copy[r] \in LocalFileRecord
    BY <1>4 DEF StagesOK, TypeOK
  <2> QED BY <1>4, <2>1 DEF TypeOK
<1>5. ASSUME NEW r \in Calls, PaymentSucceeds(r) \/ PaymentFails(r) PROVE Goal
  <2>1. copy[r] \in LocalFileRecord
          => ~Pending(Confirmed(copy[r], r)) /\ ~Pending(Failed(copy[r]))
    BY DEF LocalFileRecord, Pending
  <2>2. pc[r] = "billing" /\ UNCHANGED target
    BY <1>5 DEF PaymentSucceeds, PaymentFails
  <2>3. Save(r, Confirmed(copy[r], r), dbQueue) \/ Save(r, Failed(copy[r]), dbQueue)
    BY <1>5 DEF PaymentSucceeds, PaymentFails
  <2> HIDE DEF Save, Confirmed, Failed
  <2> QED BY <1>4, <2>1, <2>2, <2>3
<1>6. Crash \/ UNCHANGED vars => Goal
  BY DEF Crash, vars, TypeOK
<1> QED BY <1>1, <1>2, <1>3, <1>5, <1>6 DEF Next, DatabaseStep, RequestEnds

\* No step gives a file a second creator, or a record before its creator.
LEMMA SettledStep ==
  ASSUME "delete" \notin Kinds, Inv, AllocatedOK, SettledOK, [Next]_vars PROVE SettledOK'
<1> USE DEF Inv
\* Whoever is creating a file was so before, or has just drawn its id.
<1>1. ASSUME NEW q \in Calls, Creating(q)'
      PROVE  \/ Creating(q) /\ target'[q] = target[q]
             \/ \E f \in Files : Issue(q, "create", f) /\ target'[q] = f
  <2>1. CASE pc'[q] = "create"
    <3>1. Active(q)'
      BY <2>1 DEF Waiting, AllKinds
    <3>2. ASSUME NEW kind \in Kinds, NEW f \in Files, Issue(q, kind, f)
          PROVE  Issue(q, "create", f) /\ target'[q] = f
      BY <3>2, <2>1 DEF Issue, TypeOK
    <3> QED BY <2>1, <3>1, <3>2, ActiveSteps DEF Creating
  <2>2. CASE pc'[q] \in {"saveFind", "saveWrite"} /\ Pending(copy'[q])
    <3>1. pc[q] # "delete" /\ pc'[q] \in Holding
      BY <2>2 DEF SettledOK, Holding
    <3> QED BY <2>2, <3>1, SavingSteps DEF Creating
  <2> QED BY <1>1, <2>1, <2>2 DEF Creating
\* A record appears only when its creator writes it.
<1>2. ASSUME NEW f \in Files, store'[f] # store[f]
      PROVE  \E r \in Calls :
               SaveWrite(r) /\ target[r] = f /\ store'[f] = copy[r] /\ pc'[r] = "done"
                 /\ (store[f] = None => Creating(r))
  <2>1. PICK r \in Calls : SaveWrite(r) /\ target[r] = f /\ store'[f] = copy[r]
    BY <1>2, StoreSteps
  <2> QED BY <2>1 DEF SaveWrite, SettledOK, Holding, TypeOK
<1>3. ASSUME NEW q \in Calls, Creating(q)' PROVE store'[target'[q]] = None
  <2>1. CASE Creating(q) /\ target'[q] = target[q]
    <3>1. target[q] \in Files /\ store[target[q]] = None
      BY <2>1 DEF SettledOK, Creating, StagesOK, Waiting, AllKinds
    <3>2. ASSUME NEW r \in Calls, SaveWrite(r), target[r] = target[q], pc'[r] = "done",
                 Creating(r)
          PROVE  FALSE
      BY <2>1, <3>2, <1>3 DEF SettledOK, Creating
    <3> QED BY <2>1, <3>1, <3>2, <1>2
  <2>2. ASSUME NEW f \in Files, Issue(q, "create", f), target'[q] = f
        PROVE  store'[target'[q]] = None
    BY <2>2 DEF AllocatedOK, Issue
  <2> QED BY <1>1, <1>3, <2>1, <2>2
<1>4. ASSUME NEW f \in Files, store[f] # None PROVE store'[f] # None
  <2>1. ASSUME NEW r \in Calls, SaveWrite(r) PROVE copy[r] # None
    BY <2>1 DEF SaveWrite, StagesOK, Holding
  <2> QED BY <1>4, <2>1, StoreSteps
<1>5. ASSUME NEW q \in Calls, pc'[q] \in Holding, ~Creating(q)' PROVE store'[target'[q]] # None
  <2>1. /\ pc[q] # "delete"
        /\ pc[q] \in Holding /\ ~Creating(q) => store[target[q]] # None
    BY DEF SettledOK
  <2>2. target'[q] = target[q] /\ pc[q] \in Waiting
    BY <1>5, <2>1, SavingSteps DEF Waiting, AllKinds, Holding
  <2>3. target[q] \in Files
    BY <2>2 DEF StagesOK
  <2>4. CASE store[target[q]] # None
    BY <2>2, <2>3, <2>4, <1>4
  <2>5. CASE pc[q] = "create" /\ pc'[q] = "saveFind"
    <3>1. PICK r \in Calls : CreateLocalFileRecord(r) /\ r = q
      BY <2>5 DEF Next, vars, Issue, DatabaseStep, CreateLocalFileRecord, WriteFileChunk,
              DeleteLocalFileRecord, UploadLocalFileToDds, SaveFind, SaveWrite, RequestEnds,
              PaymentSucceeds, PaymentFails, ExtendFileStorageDuration, NotifyPaymentStatus,
              ExtensionEnds, Elsewhere, BillingDecides, ExtensionDecided, NoticeDecided,
              Crash, TypeOK, Waiting
    <3>2. \A owner : Pending(NewLocalFileRecord(owner))
      BY DEF Pending, NewLocalFileRecord
    <3>3. Pending(copy'[q])
      BY <3>1, <3>2, <2>5 DEF CreateLocalFileRecord, TypeOK
    <3> QED BY <3>3, <2>5, <1>5 DEF Creating
  <2>6. CASE pc[q] = pc'[q] /\ copy'[q] = copy[q]
    BY <2>1, <2>4, <2>6, <1>5 DEF Creating
  <2>7. CASE pc[q] = "saveFind" /\ pc'[q] = "saveWrite" /\ copy'[q] = copy[q]
    BY <2>1, <2>4, <2>7, <1>5 DEF Creating, Holding
  <2>8. CASE pc[q] = "billing"
    BY <2>1, <2>4, <2>8 DEF Creating, Holding
  <2> QED BY <1>5, <2>1, <2>4, <2>5, <2>6, <2>7, <2>8, SavingSteps
<1>6. ASSUME NEW q \in Calls, NEW r \in Calls, Creating(q)', Creating(r)',
             target'[q] = target'[r]
      PROVE  q = r
  <2>1. \A p \in Calls : Creating(p) => target[p] \in allocated
    BY DEF Creating, AllocatedOK, Holding
  <2>2. CASE Creating(q) /\ target'[q] = target[q] /\ Creating(r) /\ target'[r] = target[r]
    BY <2>2, <1>6 DEF SettledOK
  <2>3. ASSUME NEW a \in Calls, NEW b \in Calls, NEW f \in Files, Issue(a, "create", f),
               target'[a] = f, target'[b] = f, a # b,
               \/ Creating(b) /\ target'[b] = target[b]
               \/ \E g \in Files : Issue(b, "create", g)
        PROVE  FALSE
    BY <2>1, <2>3 DEF Issue, TypeOK
  <2> QED BY <1>1, <1>6, <2>2, <2>3
<1>7. ASSUME NEW q \in Calls PROVE pc'[q] # "delete"
  <2>1. pc[q] # "delete"
    BY DEF SettledOK
  <2>2. ASSUME NEW r \in Calls, NEW kind \in Kinds, NEW f \in Files, Issue(r, kind, f)
        PROVE  pc'[q] # "delete"
    BY <2>1, <2>2 DEF Issue, TypeOK
  <2>3. ASSUME NEW r \in Calls, DatabaseStep(r) \/ RequestEnds(r) \/ Elsewhere(r)
        PROVE  pc'[q] # "delete"
    BY <2>1, <2>3 DEF DatabaseStep, CreateLocalFileRecord, WriteFileChunk,
              DeleteLocalFileRecord, UploadLocalFileToDds, SaveFind, SaveWrite, RequestEnds,
              PaymentSucceeds, PaymentFails, ExtendFileStorageDuration, NotifyPaymentStatus,
              ExtensionEnds, Elsewhere, BillingDecides, ExtensionDecided, NoticeDecided, TypeOK
  <2>4. Crash \/ UNCHANGED vars => pc'[q] # "delete"
    BY <2>1 DEF Crash, vars
  <2> QED BY <2>2, <2>3, <2>4 DEF Next
<1> HIDE DEF Creating
<1>8. SettledOK' <=> /\ \A r \in Calls : pc'[r] # "delete"
                     /\ \A r \in Calls : Creating(r)' => store'[target'[r]] = None
                     /\ \A r \in Calls : pc'[r] \in Holding /\ ~Creating(r)'
                                            => store'[target'[r]] # None
                     /\ \A q, r \in Calls :
                          Creating(q)' /\ Creating(r)' /\ target'[q] = target'[r] => q = r
  BY DEF SettledOK, Creating, Pending
<1> QED BY <1>3, <1>5, <1>6, <1>7, <1>8

\* However uploads overlap and whatever crashes, as long as nobody deletes the
\* file the status of its upload never goes back to "pending": every save of an
\* upload settles the record, and the only save that does not is the first one.
THEOREM SettledForGood == "delete" \notin Kinds => (Spec => SettledStaysSettled)
<1> SUFFICES ASSUME "delete" \notin Kinds PROVE Spec => SettledStaysSettled
  OBVIOUS
<1> DEFINE Settles(f) == store[f] # None /\ UploadStatus(store[f]) # "pending"
                           => UploadStatus(store'[f]) # "pending"
<1>1. Init => SettledOK
  BY DEF Init, SettledOK, Creating, Holding
<1>2. IInv /\ SettledOK /\ [Next]_vars => SettledOK'
  BY SettledStep DEF IInv
<1>3. ASSUME IInv, SettledOK, [Next]_vars, NEW f \in Files PROVE Settles(f)
  <2>1. ASSUME NEW r \in Calls, SaveWrite(r), target[r] = f, store[f] # None
        PROVE  ~Pending(copy[r])
    BY <1>3, <2>1 DEF SaveWrite, SettledOK, Creating
  <2>2. \A record : UploadStatus(record) = "pending" <=> Pending(record)
    BY DEF UploadStatus, Pending
  <2> QED BY <1>3, <2>1, <2>2, StoreSteps DEF IInv, Inv
<1>4. IInv /\ SettledOK /\ [Next]_vars => [\A f \in Files : Settles(f)]_vars
  BY <1>3
<1> QED BY <1>1, <1>2, <1>4, SerialInvariance, PTL DEF SettledStaysSettled, Spec
-----------------------------------------------------------------------------
(***************************************************************************)
(* FileService implements the ledger of uploads.                           *)
(***************************************************************************)
\* What a file shows changes only when a record is written.
LEMMA SameLedger ==
  /\ UNCHANGED <<payment, stubFiles, target>>
       => UNCHANGED <<LedgerStage, LedgerOrigin>>
  /\ UNCHANGED store => UNCHANGED LedgerPublished
  BY DEF LedgerStage, LedgerOrigin, LedgerPublished

\* The ledger starts empty.
LEMMA LedgerInit == Init => Ledger!Init
  BY DEF Init, Ledger!Init, LedgerStage, LedgerOrigin, LedgerPublished

\* Every step is a step of the ledger, or leaves the ledger as it is.
LEMMA LedgerStep ==
  ASSUME IInv, [Next]_vars PROVE [Ledger!Next]_(Ledger!ledger)
<1> USE DEF IInv, Inv, Ledger!ledger
<1>1. ASSUME NEW r \in Calls, NEW kind \in Kinds, NEW f \in Files, Issue(r, kind, f)
      PROVE  UNCHANGED Ledger!ledger
  <2>1. r \notin stubFiles
    BY <1>1 DEF Issue, StagesOK, Early
  <2>2. UNCHANGED <<payment, stubFiles, store>> /\ \A q \in Calls : q # r => target'[q] = target[q]
    BY <1>1 DEF Issue, TypeOK
  <2>3. LedgerOrigin' = LedgerOrigin
    BY <2>1, <2>2 DEF LedgerOrigin
  <2> QED BY <2>2, <2>3 DEF LedgerStage, LedgerPublished
<1>2. ASSUME NEW r \in Calls, UploadLocalFileToDds(r)
      PROVE  [Ledger!Next]_(Ledger!ledger)
  <2>1. target[r] \in Files /\ payment[r] = "none" /\ r \notin stubFiles
    BY <1>2, RunningCall DEF UploadLocalFileToDds, StagesOK, Early, AllKinds
  <2>2. CASE UNCHANGED <<payment, stubFiles, target, store>>
    BY <2>2, SameLedger
  <2>3. CASE /\ stubFiles' = stubFiles \cup {r}
             /\ payment' = [payment EXCEPT ![r] = "sent"]
             /\ UNCHANGED <<target, store>>
    <3>1. LedgerStage[r] = "none"
      BY <2>1 DEF LedgerStage
    <3>2. LedgerStage' = [LedgerStage EXCEPT ![r] = "stored"]
      BY <2>1, <2>3 DEF LedgerStage, TypeOK
    <3>3. LedgerOrigin' = [LedgerOrigin EXCEPT ![r] = target[r]]
      BY <2>1, <2>3 DEF LedgerOrigin
    <3>4. Ledger!Store(target[r], r)
      BY <3>1, <3>2, <3>3, <2>3, SameLedger DEF Ledger!Store
    <3> QED BY <3>4, <2>1 DEF Ledger!Next
  <2> QED BY <2>2, <2>3, <1>2 DEF UploadLocalFileToDds
<1>3. ASSUME NEW r \in Calls, BillingDecides(r)
      PROVE  [Ledger!Next]_(Ledger!ledger)
  <2>1. payment[r] = "sent" /\ r \in stubFiles
    BY <1>3 DEF BillingDecides, StagesOK
  <2>2. UNCHANGED <<stubFiles, target, store>>
    BY <1>3 DEF BillingDecides
  <2>3. UNCHANGED <<LedgerOrigin, LedgerPublished>>
    BY <2>2 DEF LedgerOrigin, LedgerPublished
  <2>4. CASE payment' = [payment EXCEPT ![r] = "charged"]
    <3>1. LedgerStage[r] = "stored"
      BY <2>1 DEF LedgerStage
    <3>2. LedgerStage' = [LedgerStage EXCEPT ![r] = "charged"]
      BY <2>1, <2>2, <2>4 DEF LedgerStage, TypeOK
    <3>3. Ledger!Charge(r)
      BY <3>1, <3>2, <2>3 DEF Ledger!Charge
    <3> QED BY <3>3 DEF Ledger!Next
  <2>5. CASE payment' = [payment EXCEPT ![r] = "refused"]
    <3>1. LedgerStage' = LedgerStage
      BY <2>1, <2>2, <2>5 DEF LedgerStage, TypeOK
    <3> QED BY <3>1, <2>3
  <2> QED BY <2>4, <2>5, <1>3 DEF BillingDecides
<1>4. ASSUME NEW r \in Calls, SaveWrite(r)
      PROVE  [Ledger!Next]_(Ledger!ledger)
  <2> DEFINE f == target[r]
  <2>1. f \in Files /\ copy[r] # None
    BY <1>4, RunningCall DEF SaveWrite, StagesOK, Holding
  <2>2. UNCHANGED <<LedgerStage, LedgerOrigin>>
    BY <1>4, SameLedger DEF SaveWrite
  <2>3. CASE store' = store
    BY <2>2, <2>3, SameLedger
  <2>4. CASE store' = [store EXCEPT ![f] = copy[r]] /\ copy[r].uploadedToDds
    <3> DEFINE d == copy[r].ddsId
    <3>1. /\ d \in Calls
          /\ LedgerStage[d] = "charged"
          /\ LedgerOrigin[d] = f
      BY <2>1, <2>4 DEF CopyBacked, Backed, LedgerStage, LedgerOrigin
    <3>2. LedgerPublished' = [LedgerPublished EXCEPT ![f] = d]
      BY <2>1, <2>4 DEF LedgerPublished, TypeOK
    <3>3. Ledger!Publish(f, d)
      BY <3>1, <3>2, <2>2 DEF Ledger!Publish
    <3> QED BY <3>1, <3>3, <2>1 DEF Ledger!Next
  <2>5. CASE store' = [store EXCEPT ![f] = copy[r]] /\ ~copy[r].uploadedToDds
    <3>1. LedgerPublished' = [LedgerPublished EXCEPT ![f] = None]
      BY <2>1, <2>5 DEF LedgerPublished, TypeOK
    <3>2. CASE Overlap
      BY <3>1, <3>2, <2>1, <2>2 DEF Ledger!Next, Ledger!Withdraw
    <3>3. CASE ~Overlap
      <4>1. AtLeast(copy[r], store[f])
        BY <3>3, <1>4 DEF SerialOK, SaveWrite, Holding
      <4>2. LedgerPublished[f] = None
        BY <4>1, <2>1, <2>5 DEF AtLeast, LedgerPublished
      <4>3. LedgerPublished' = LedgerPublished
        BY <3>1, <4>2, <2>1 DEF LedgerPublished
      <4> QED BY <4>3, <2>2
    <3> QED BY <3>2, <3>3
  <2> QED BY <2>3, <2>4, <2>5, <1>4 DEF SaveWrite
<1>5. ASSUME NEW r \in Calls,
             \/ CreateLocalFileRecord(r) \/ WriteFileChunk(r) \/ DeleteLocalFileRecord(r)
             \/ SaveFind(r) \/ RequestEnds(r) \/ ExtendFileStorageDuration(r)
             \/ ExtensionDecided(r) \/ NoticeDecided(r)
      PROVE  UNCHANGED <<payment, stubFiles, target, store>>
  BY <1>5 DEF CreateLocalFileRecord, WriteFileChunk, DeleteLocalFileRecord, SaveFind,
              RequestEnds, PaymentSucceeds, PaymentFails, ExtendFileStorageDuration,
              NotifyPaymentStatus, ExtensionEnds, ExtensionDecided, NoticeDecided
<1>6. Crash \/ UNCHANGED vars => UNCHANGED <<payment, stubFiles, target, store>>
  BY DEF Crash, vars
<1> QED BY <1>1, <1>2, <1>3, <1>4, <1>5, <1>6, SameLedger
        DEF Next, DatabaseStep, Elsewhere

\* The refinement: for every client, an object is stored before it is charged
\* and charged before its file shows it, and only for the file it was made from;
\* while requests do not overlap, a file never stops showing an upload.
THEOREM ImplementsLedger == Spec => LedgerSpec
  BY LedgerInit, LedgerStep, SerialInvariance, PTL DEF LedgerSpec, Ledger!Spec, Spec
=============================================================================
