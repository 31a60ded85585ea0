---------------------------- MODULE FileService -----------------------------
(***************************************************************************)
(* The local files of a service node, from creation to upload and deletion *)
(* (src/file/FileService.ts), over the Nedb database that keeps their      *)
(* records (src/file/LocalFileRecordRepository.ts), the temporary files on *)
(* disk, the storage stub (src/dds-api/DdsApiClient.ts) and the billing    *)
(* service (src/billing-api/BillingApiClient.ts).                          *)
(*                                                                         *)
(* A step is what the event loop runs between two operations that really   *)
(* wait: a database operation or a call of the billing service.  Database  *)
(* operations run one at a time in the order they were issued (the Nedb    *)
(* executor); what follows the await of such an operation runs in the same *)
(* step, up to the next database operation or billing call it issues.      *)
(*                                                                         *)
(* uuid/v4 never repeats, so the storage object that an upload call makes, *)
(* the price quoted for it and the data owner wallet that billing makes    *)
(* for it are named after that call.                                       *)
(***************************************************************************)
EXTENDS Sequences

CONSTANTS
  Calls,        \* requests that clients send, each at most once
  Files,        \* ids of local files
  Kinds,        \* kinds of request that clients send
  Overlap,      \* may clients send a request for a file that has one in progress?
  GivenOwner,   \* the data owner a client may name when it creates a file
  None,         \* an absent value: undefined, null, or the owner "0x0"
  Crashable     \* may the process crash and restart?

AllKinds == {"create", "chunk", "delete", "upload", "extend"}

ASSUME FileServiceAssumption ==
  /\ None \notin Calls \cup Files \cup {GivenOwner}
  /\ GivenOwner \notin Calls
  /\ Kinds \subseteq AllKinds
  /\ Overlap \in BOOLEAN
  /\ Crashable \in BOOLEAN

VARIABLES
  store,        \* the Nedb records of local files
  dbQueue,      \* the Nedb executor: calls in the order of their pending operation
  tempFiles,    \* files present in TEMPORARY_FILES_DIRECTORY
  stubFiles,    \* objects present in DDS_STUB_FILES_DIRECTORY
  payment,      \* what billing knows of the payment of each upload call
  ownerSent,    \* the data owner named in the payment request of each upload call
  extension,    \* what billing knows of the payment of each extension call
  notice,       \* what the storage knows of that payment
  allocated,    \* file ids that were drawn
  pc,           \* where each call is
  target,       \* the local file each call is about
  copy,         \* the localFile object each call holds
  found         \* the document that save() read, to be replaced by copy

vars == <<store, dbQueue, tempFiles, stubFiles, payment, ownerSent, extension,
          notice, allocated, pc, target, copy, found>>

files    == <<tempFiles, stubFiles>>
paying   == <<payment, ownerSent>>
billing  == <<payment, ownerSent, extension, notice>>
identity == <<allocated, target>>

Owners == Calls \cup {GivenOwner}

LocalFileRecord ==
  [uploadedToDds : BOOLEAN, failed : BOOLEAN, deletedLocally : BOOLEAN,
   ddsId : Calls \cup {None}, storagePrice : Calls \cup {None},
   dataOwnerAddress : Owners \cup {None}]

ASSUME NoneIsNoRecord == None \notin LocalFileRecord

Waiting == AllKinds \cup {"billing", "saveFind", "saveWrite", "extension", "notice"}
Ended   == {"idle", "done", "lost"}

TypeOK ==
  /\ store \in [Files -> LocalFileRecord \cup {None}]
  /\ dbQueue \in Seq(Calls)
  /\ tempFiles \subseteq Files
  /\ stubFiles \subseteq Calls
  /\ payment \in [Calls -> {"none", "sent", "charged", "refused"}]
  /\ ownerSent \in [Calls -> Owners \cup {None}]
  /\ extension \in [Calls -> {"none", "sent", "charged", "refused"}]
  /\ notice \in [Calls -> {"none", "sent", "taken", "refused"}]
  /\ allocated \subseteq Files
  /\ pc \in [Calls -> Waiting \cup Ended]
  /\ target \in [Calls -> Files \cup {None}]
  /\ copy \in [Calls -> LocalFileRecord \cup {None}]
  /\ found \in [Calls -> LocalFileRecord \cup {None}]

Init ==
  /\ store = [f \in Files |-> None]
  /\ dbQueue = << >>
  /\ tempFiles = {}
  /\ stubFiles = {}
  /\ payment = [r \in Calls |-> "none"]
  /\ ownerSent = [r \in Calls |-> None]
  /\ extension = [r \in Calls |-> "none"]
  /\ notice = [r \in Calls |-> "none"]
  /\ allocated = {}
  /\ pc = [r \in Calls |-> "idle"]
  /\ target = [r \in Calls |-> None]
  /\ copy = [r \in Calls |-> None]
  /\ found = [r \in Calls |-> None]
-----------------------------------------------------------------------------
(***************************************************************************)
(* Helpers.                                                                *)
(***************************************************************************)
Active(r) == pc[r] \in Waiting

\* r's database operation is at the head of the executor's queue.
Runs(r, p) == dbQueue # << >> /\ Head(dbQueue) = r /\ pc[r] = p

\* Call r is answered, or its background task ends, after a database operation.
Finish(r) ==
  /\ pc' = [pc EXCEPT ![r] = "done"]
  /\ dbQueue' = Tail(dbQueue)
  /\ UNCHANGED <<store, stubFiles, billing, identity, copy, found>>

\* localFileRecordRepository.save(record): issues the findOne of save().
Save(r, record, queue) ==
  /\ pc' = [pc EXCEPT ![r] = "saveFind"]
  /\ copy' = [copy EXCEPT ![r] = record]
  /\ dbQueue' = Append(queue, r)

\* Mutant: the object is not written.
UploadFileUnwritten(r) == UNCHANGED stubFiles

\* ddsApiClient.uploadFile: the object is written into the stub directory, under
\* a new id and for a new price.
UploadFile(r) == stubFiles' = stubFiles \cup {r}

\* The request to billing names the data owner of the record, if it has one.
PayForDataUpload(r, record) ==
  /\ payment' = [payment EXCEPT ![r] = "sent"]
  /\ ownerSent' = [ownerSent EXCEPT ![r] = record.dataOwnerAddress]
  /\ UNCHANGED <<extension, notice>>

\* Mutant: the flags of a new record are left out.
NewRecordWithoutFlags(owner) ==
  [uploadedToDds |-> None, failed |-> None, deletedLocally |-> None,
   ddsId |-> None, storagePrice |-> None, dataOwnerAddress |-> owner]

\* The record of a new file; its data owner is optional.
NewLocalFileRecord(owner) ==
  [uploadedToDds |-> FALSE, failed |-> FALSE, deletedLocally |-> FALSE,
   ddsId |-> None, storagePrice |-> None, dataOwnerAddress |-> owner]

\* The address in billing's answer: that of a new wallet unless the request
\* named a data owner.
WalletOf(r) == IF ownerSent[r] = None THEN r ELSE ownerSent[r]

\* Mutant: a promise that resolves with any answer.
PaymentAnswered(r) == payment[r] # "sent"

\* billingApiClient.payForDataUpload resolves: billing has confirmed.
PaymentResolves(r) == payment[r] = "charged"

\* Mutant: the data owner that billing answered is not kept.
ConfirmedWithoutOwner(record, r) ==
  [record EXCEPT !.failed = FALSE, !.storagePrice = r, !.ddsId = r,
                 !.uploadedToDds = TRUE]

\* Mutant: "failed" is reset, "uploadedToDds" is not set.
ConfirmedUnflagged(record, r) ==
  [record EXCEPT !.failed = FALSE, !.storagePrice = r, !.ddsId = r,
                 !.dataOwnerAddress = WalletOf(r)]

\* What processDataUploading makes of the record it read once it is paid ...
Confirmed(record, r) ==
  [record EXCEPT !.failed = FALSE, !.storagePrice = r, !.ddsId = r,
                 !.uploadedToDds = TRUE, !.dataOwnerAddress = WalletOf(r)]

\* Mutants: nothing is recorded; a fresh record is marked.
FailedSilently(record) == record
FailedAfresh(record)   == [NewLocalFileRecord(None) EXCEPT !.failed = TRUE]

\* ... and when anything fails.
Failed(record) == [record EXCEPT !.failed = TRUE]

\* localFileRecordRepository.findByDdsId: the record of f shows an object.
ShowsObject(f) == store[f] # None /\ store[f].ddsId # None

\* What GET local/:id/is-fully-uploaded answers for a record.
UploadStatus(record) ==
  IF record.uploadedToDds THEN "uploaded"
  ELSE IF record.failed THEN "failed" ELSE "pending"
-----------------------------------------------------------------------------
(***************************************************************************)
(* Requests.                                                               *)
(***************************************************************************)
\* A client sends a request; its handler issues its first database operation.
Issue(r, kind, f) ==
  /\ kind \in Kinds
  /\ pc[r] = "idle"
  /\ Overlap \/ \A q \in Calls : target[q] = f => ~Active(q)
  /\ kind = "create" => f \notin allocated
  /\ allocated' = IF kind = "create" THEN allocated \cup {f} ELSE allocated
  /\ pc' = [pc EXCEPT ![r] = kind]
  /\ target' = [target EXCEPT ![r] = f]
  /\ dbQueue' = Append(dbQueue, r)
  /\ UNCHANGED <<store, files, billing, copy, found>>

\* The default account is known: the empty temporary file is made, and the
\* record is saved.  Without an account, or if the file cannot be opened, the
\* call fails.
CreateLocalFileRecord(r) ==
  /\ Runs(r, "create")
  /\ \/ Finish(r) /\ UNCHANGED tempFiles
     \/ /\ tempFiles' = tempFiles \cup {target[r]}
        /\ \E owner \in {None, GivenOwner} :
             Save(r, NewLocalFileRecord(owner), Tail(dbQueue))
        /\ UNCHANGED <<store, stubFiles, billing, identity, found>>

\* No record: 404.  Otherwise appendFileSync makes the file when it is missing,
\* or throws; deletedLocally is not looked at.
WriteFileChunk(r) ==
  /\ Runs(r, "chunk")
  /\ \/ Finish(r) /\ UNCHANGED tempFiles
     \/ /\ store[target[r]] # None
        /\ tempFiles' = tempFiles \cup {target[r]}
        /\ Finish(r)

\* No record: 404.  Already deleted: 409.  No temporary file, or unlinkSync
\* throws: the call ends and the record stays as it is.  Otherwise the file is
\* unlinked and the record, as it was read, is saved with deletedLocally set.
DeleteLocalFileRecord(r) ==
  LET f == target[r] IN
  /\ Runs(r, "delete")
  /\ \/ Finish(r) /\ UNCHANGED tempFiles
     \/ /\ store[f] # None
        /\ ~store[f].deletedLocally
        /\ f \in tempFiles
        /\ tempFiles' = tempFiles \ {f}
        /\ Save(r, [store[f] EXCEPT !.deletedLocally = TRUE], Tail(dbQueue))
        /\ UNCHANGED <<store, stubFiles, billing, identity, found>>

\* No record: 404.  Invalid signature: 403.  No temporary file: readFileSync
\* throws.  Otherwise the background task processDataUploading is started.  It
\* runs until it waits: either it fails before the payment (the stub directory
\* cannot be written), or the object is in the storage and the
\* payment request for it is on its way.
UploadLocalFileToDds(r) ==
  LET f == target[r] IN
  /\ Runs(r, "upload")
  /\ \/ Finish(r) /\ UNCHANGED tempFiles
     \/ /\ store[f] # None
        /\ f \in tempFiles
        /\ Save(r, Failed(store[f]), Tail(dbQueue))
        /\ UNCHANGED <<store, files, billing, identity, found>>
     \/ /\ store[f] # None
        /\ f \in tempFiles
        /\ UploadFile(r)
        /\ PayForDataUpload(r, store[f])
        /\ copy' = [copy EXCEPT ![r] = store[f]]
        /\ pc' = [pc EXCEPT ![r] = "billing"]
        /\ dbQueue' = Tail(dbQueue)
        /\ UNCHANGED <<store, tempFiles, identity, found>>

\* Billing answered: the task fills in the record it read and saves it.
PaymentSucceeds(r) ==
  /\ pc[r] = "billing"
  /\ PaymentResolves(r)
  /\ Save(r, Confirmed(copy[r], r), dbQueue)
  /\ UNCHANGED <<store, files, billing, identity, found>>

\* Billing refused, or the connection broke (which says nothing of what billing
\* does with the request): the task marks the record it read as failed.
PaymentFails(r) ==
  /\ pc[r] = "billing"
  /\ Save(r, Failed(copy[r]), dbQueue)
  /\ UNCHANGED <<store, files, billing, identity, found>>

\* The client names the object of target[r], for which the stub has quoted a
\* price at once.  When no record shows the object a TypeError ends the call;
\* otherwise billing is asked to charge the data validator of the record.
ExtendFileStorageDuration(r) ==
  LET f == target[r] IN
  /\ Runs(r, "extend")
  /\ \/ Finish(r) /\ UNCHANGED tempFiles
     \/ /\ ShowsObject(f)
        /\ extension' = [extension EXCEPT ![r] = "sent"]
        /\ copy' = [copy EXCEPT ![r] = store[f]]
        /\ pc' = [pc EXCEPT ![r] = "extension"]
        /\ dbQueue' = Tail(dbQueue)
        /\ UNCHANGED <<store, files, paying, notice, identity, found>>

\* Billing has confirmed the extension: the storage is told.
NotifyPaymentStatus(r) ==
  /\ pc[r] = "extension"
  /\ extension[r] = "charged"
  /\ notice' = [notice EXCEPT ![r] = "sent"]
  /\ pc' = [pc EXCEPT ![r] = "notice"]
  /\ UNCHANGED <<store, dbQueue, files, paying, extension, identity, copy, found>>

\* The storage has answered, or one of the two requests failed: the client gets
\* its answer, and nothing is undone.
ExtensionEnds(r) ==
  /\ pc[r] \in {"extension", "notice"}
  /\ pc' = [pc EXCEPT ![r] = "done"]
  /\ UNCHANGED <<store, dbQueue, files, billing, identity, copy, found>>

\* save(): findOne, then insert or update.
SaveFind(r) ==
  /\ Runs(r, "saveFind")
  /\ found' = [found EXCEPT ![r] = store[target[r]]]
  /\ pc' = [pc EXCEPT ![r] = "saveWrite"]
  /\ dbQueue' = Append(Tail(dbQueue), r)
  /\ UNCHANGED <<store, files, billing, identity, copy>>

\* Mutant: save() does not resolve when its update matches nothing.
SaveWriteUnresolved(r) ==
  LET f == target[r] IN
  /\ Runs(r, "saveWrite")
  /\ store' = IF store[f] = found[r] THEN [store EXCEPT ![f] = copy[r]] ELSE store
  /\ pc' = IF store[f] = found[r] THEN [pc EXCEPT ![r] = "done"] ELSE pc
  /\ dbQueue' = Tail(dbQueue)
  /\ UNCHANGED <<files, billing, identity, copy, found>>

\* The insert needs the id to be absent; the update replaces the document that
\* equals, field by field, the one that was found.  Otherwise nothing changes,
\* and save() resolves all the same.
SaveWrite(r) ==
  LET f == target[r] IN
  /\ Runs(r, "saveWrite")
  /\ store' = IF store[f] = found[r] THEN [store EXCEPT ![f] = copy[r]] ELSE store
  /\ pc' = [pc EXCEPT ![r] = "done"]
  /\ dbQueue' = Tail(dbQueue)
  /\ UNCHANGED <<files, billing, identity, copy, found>>
-----------------------------------------------------------------------------
(***************************************************************************)
(* The billing service and the process as a whole.                         *)
(***************************************************************************)
\* Billing handles the payment of an upload or of an extension, and the storage
\* a notice, whether or not the node still waits.
BillingDecides(r) ==
  /\ payment[r] = "sent"
  /\ \E outcome \in {"charged", "refused"} :
       payment' = [payment EXCEPT ![r] = outcome]
  /\ UNCHANGED <<store, dbQueue, files, ownerSent, extension, notice, identity, pc,
                 copy, found>>

ExtensionDecided(r) ==
  /\ extension[r] = "sent"
  /\ \E outcome \in {"charged", "refused"} :
       extension' = [extension EXCEPT ![r] = outcome]
  /\ UNCHANGED <<store, dbQueue, files, paying, notice, identity, pc, copy, found>>

NoticeDecided(r) ==
  /\ notice[r] = "sent"
  /\ \E outcome \in {"taken", "refused"} : notice' = [notice EXCEPT ![r] = outcome]
  /\ UNCHANGED <<store, dbQueue, files, paying, extension, identity, pc, copy, found>>

\* The process stops and starts again: disk and database stay, calls are lost.
Crash ==
  /\ Crashable
  /\ \E r \in Calls : Active(r)
  /\ pc' = [r \in Calls |-> IF Active(r) THEN "lost" ELSE pc[r]]
  /\ dbQueue' = << >>
  /\ UNCHANGED <<store, files, billing, identity, copy, found>>

DatabaseStep(r) ==
  \/ CreateLocalFileRecord(r) \/ WriteFileChunk(r) \/ DeleteLocalFileRecord(r)
  \/ UploadLocalFileToDds(r) \/ ExtendFileStorageDuration(r)
  \/ SaveFind(r) \/ SaveWrite(r)

RequestEnds(r) ==
  \/ PaymentSucceeds(r) \/ PaymentFails(r)
  \/ NotifyPaymentStatus(r) \/ ExtensionEnds(r)

Elsewhere(r) == BillingDecides(r) \/ ExtensionDecided(r) \/ NoticeDecided(r)

Next ==
  \/ \E r \in Calls, kind \in Kinds, f \in Files : Issue(r, kind, f)
  \/ \E r \in Calls : DatabaseStep(r) \/ RequestEnds(r) \/ Elsewhere(r)
  \/ Crash

Spec == Init /\ [][Next]_vars

\* The executor drains its queue, and an HTTP request to billing or to the storage
\* ends, with an answer or an error.
FairSpec ==
  /\ Spec
  /\ WF_vars(\E r \in Calls : DatabaseStep(r))
  /\ \A r \in Calls : WF_vars(RequestEnds(r))
-----------------------------------------------------------------------------
(***************************************************************************)
(* Properties.                                                             *)
(***************************************************************************)
\* Whatever clients send and however calls overlap or the process crashes, a
\* record that says "uploaded" carries the price and the object of one and the
\* same upload call of that file, billing charged that call, the object is in
\* the storage, and the data owner is the one billing answered to that call:
\* processDataUploading fills in the five fields of a record it read earlier.
RecordedUploadIsPaid ==
  \A f \in Files :
    store[f] # None /\ store[f].uploadedToDds =>
      LET r == store[f].ddsId IN
      /\ r \in stubFiles
      /\ target[r] = f
      /\ payment[r] = "charged"
      /\ store[f].storagePrice = r
      /\ store[f].dataOwnerAddress = WalletOf(r)

\* Nobody pays to keep what was never his: whatever overlaps, billing is asked to
\* charge an extension only of an object that is stored, that was made from the
\* file whose data validator pays, and whose upload was charged; and the storage
\* is told only of an extension that billing has charged.
ExtensionIsPaid ==
  \A r \in Calls :
    extension[r] # "none" =>
      LET d == copy[r].ddsId IN
      /\ d \in stubFiles
      /\ target[d] = target[r]
      /\ payment[d] = "charged"
      /\ notice[r] # "none" => extension[r] = "charged"

\* FileService implements the ledger of uploads: objects are the uploads of
\* calls, and a file shows an upload when its record is uploadedToDds.  Only
\* overlapping requests of clients can make a file withdraw an upload.
LedgerStage ==
  [r \in Calls |-> IF payment[r] = "charged" THEN "charged"
                   ELSE IF r \in stubFiles THEN "stored" ELSE "none"]
LedgerOrigin    == [r \in Calls |-> IF r \in stubFiles THEN target[r] ELSE None]
LedgerPublished ==
  [f \in Files |-> IF store[f] # None /\ store[f].uploadedToDds THEN store[f].ddsId
                   ELSE None]

Ledger == INSTANCE UploadLedger WITH
  Objects <- Calls, Withdrawals <- Overlap,
  stage <- LedgerStage, origin <- LedgerOrigin, published <- LedgerPublished

\* Every behaviour of FileService is one of the ledger: stored before charged,
\* charged before published, published only for the file it was made from, and
\* (for clients whose requests do not overlap) shown for ever.
LedgerSpec == Ledger!Spec

\* While the requests for a file do not overlap, the read-modify-write that
\* every handler does on a record loses nothing, whatever is lost in a crash:
\* the record stays, and so do an upload and a deletion it shows.
NoLostUpdate ==
  [][\A f \in Files : store[f] # None =>
       /\ store'[f] # None
       /\ store[f].uploadedToDds => store'[f].uploadedToDds
       /\ store[f].deletedLocally => store'[f].deletedLocally]_vars

\* While the requests for a file do not overlap, an upload whose payment the
\* node saw confirmed shows in the record once the background task has ended,
\* and the wallet billing made for it is still named there: nobody else holds
\* the key of that wallet.
PaidUploadIsVisible ==
  \A r \in Calls :
    pc[r] = "done" /\ copy[r] # None /\ copy[r].ddsId = r =>
      /\ store[target[r]].uploadedToDds
      /\ ownerSent[r] = None => store[target[r]].dataOwnerAddress = r

\* However uploads overlap, as long as nobody deletes the file, GET
\* local/:id/is-fully-uploaded never goes back to "pending" after it answered
\* "uploaded" or "failed".
SettledStaysSettled ==
  [][\A f \in Files :
       store[f] # None /\ UploadStatus(store[f]) # "pending"
         => UploadStatus(store'[f]) # "pending"]_vars

\* An upload that got as far as the payment leads, without a crash and without
\* deletions, to an answer other than "pending": a client that polls the status
\* stops polling, also when saves of overlapping uploads are dropped.
UploadSettles ==
  \A r \in Calls, f \in Files :
    pc[r] = "billing" /\ target[r] = f
      ~> store[f] # None /\ UploadStatus(store[f]) # "pending"

\* Without a crash every request, and every background upload, ends: no call waits
\* for ever behind the others in the executor's queue, and save() resolves also
\* when its update matches nothing.
EveryCallEnds == \A r \in Calls : Active(r) ~> ~Active(r)

\* The message of the 409 that deleteLocalFileRecord answers: a record that is
\* deletedLocally "has already been deleted", so its temporary file is gone.
DeletedMeansGone ==
  \A f \in Files :
    store[f] # None /\ store[f].deletedLocally => f \notin tempFiles
=============================================================================
