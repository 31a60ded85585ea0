# Specifications of the service node

TLA+ models of the service node of `src/`, the properties they have been
checked for with TLC, and proofs checked with TLAPS.

A service node stands between data validators, data marts and two outside
services: the distributed data storage ("DDS", today a stub that writes to a
directory) and the billing service.  Data validators send it files, which it
uploads and pays for; data marts buy the keys of files through it.  Nodes find
one another through a registry kept by bootstrap nodes.

## 1. Inventory

| Component | State it keeps | Operations | Talks to |
|---|---|---|---|
| File service (`file/FileService.ts`, `LocalFileRecordRepository.ts`) | Nedb records of local files, temporary files on disk | create a local file, write a chunk, upload (answered at once, goes on as a background task), delete, status; storage extension; key of a file | accounts, storage stub, billing, discovery, data validator nodes |
| Storage stub (`dds-api/`) | files in `DDS_STUB_FILES_DIRECTORY` | upload; extension; download | |
| Billing client (`billing-api/`) | none here; wallets, payments and roles in the billing service | pay, register, read | billing over HTTP |
| Accounts (`account/`) | Nedb documents of accounts, one or more marked default | register (three types), set the default account, initial account at the start | billing |
| Start of a node (`main.ts`, `AppModule.ts`, `utils/ip.ts`) | none | runs the hooks of the modules, then opens the HTTP port | accounts, discovery |
| Discovery (`discovery/`) | list of nodes in memory, libp2p connections | register, scan (cron), gossip about registrations and deletions, list exchange on connect, start, shutdown | other bootstrap nodes (pubsub, streams), every node (status) |
| Purchase (`purchase/`, `data-validator-api/`) | none | pay for a file and fetch its key | accounts, discovery, billing, data validator nodes |
| Transactions, pagination, web3, config, logging | none | reads, conversions | billing |

What makes each of them correct, and what is hard about it:

- **File service.**  A record that says "uploaded" must belong to an upload that
  was stored and paid for; a payment must not vanish from the records; a client
  that polls the status must get an answer.  Hard: every handler reads a record,
  waits, and writes the record it read; `save()` is a `findOne` and an `update`
  that silently does nothing when another save came between; an extension pays
  and then tells the storage, with no way back; the upload runs on
  after the request was answered; billing may charge and its answer be lost; the
  process may die anywhere.
- **Accounts.**  Only accounts that billing has registered as service nodes are
  stored; the default account is what was asked for, and there is always one once
  there was one.  Hard: `setDefaultAccount` is a loop of independent saves; the
  registration in billing and the local save are two steps.
- **Start.**  A node that listens can be found by its accounts.  Hard: two hooks
  of two modules, one of which stores an account and the other reads them, either
  of which may fail and end the process.
- **Discovery.**  A registered node stays listed while it answers; a dead one
  leaves.  Hard: the scan waits for a status request per node over an array that
  handlers push on or replace; deletions are delayed by three seconds; lists sent
  before a deletion arrive after it; the HTTP port opens after the registration.
- **Purchase and keys.**  Nobody pays for a file that no node has, and no key is
  given away unpaid.  Hard: nodes come and go between the search, the payment and
  the key.

`PROJECT.json` lists the hazards one by one, at their lines.

## 2. Modules

| Module | Models | Instance for TLC | Proofs |
|---|---|---|---|
| `UploadLedger` | abstract: what uploads promise to whoever pays | through `FileService` | `FileServiceProof` |
| `FileService` | local files: creation, chunks, deletion, upload, extension, `save()`, billing, crash | `MCFileService` | `FileServiceProof` |
| `Accounts` | local accounts, registration, default account, start of the process | `MCAccounts` | `AccountsProof`, `DefaultAccountProof`, `OneChoiceProof` |
| `NodeStart` | composes `Accounts` with the hook that registers the node | `MCNodeStart` | `NodeStartProof` |
| `Registry` | abstract: what the bootstrap nodes promise together | through `Discovery` | `DiscoveryProof` |
| `Discovery` | the registry of several bootstrap nodes | `MCDiscovery` | `DiscoveryProof` |
| `FileKeys` | `getFileKey` and `purchaseData` over changing nodes | `MCFileKeys` | `FileKeysProof` |

Operators commented "Mutant" are the forms that a plausible bug would give the
operator defined next to them; no specification uses them.

### Granularity

Node runs one callback at a time.  A step of a model is what runs between two
operations that really wait: a database operation, an HTTP request, a timer, a
message.  Code that awaits something already resolved (the storage stub, an
`async` function without I/O) goes on in the same step: its continuation runs
in the microtask queue, before the event loop takes anything else.

Nedb keeps one queue of operations and runs them one at a time in the order
they were issued.  `dbQueue` is that queue.  A handler that waits for the
database is identified by its place in the queue and by `pc`; when its operation
is at the head (`Runs(r, ...)`), operation and continuation make one step, which
ends by issuing the next operation or call.  Each of `FileService` and
`Accounts` has the queue to itself: in the program they share one database,
but no operation of one touches a document of the other, so sharing it could
only order operations that commute.

### FileService

`store` holds the records, by file; a record keeps the six fields that the
handlers change, or read to decide something.  `tempFiles` and `stubFiles` are the two directories.  Every
request is a member of `Calls`: `target` is the file it is about, `copy` the
JavaScript object `localFile` it holds, `found` the document that its `save()`
read.  A price, an object id and a wallet that an upload call makes are named
after that call, because `uuid/v4`, the random price and the new wallet do not
repeat.  `payment` and `ownerSent` are what billing knows.

- `CreateLocalFileRecord`, `WriteFileChunk`, `DeleteLocalFileRecord`,
  `UploadLocalFileToDds` are the handlers after their first database operation,
  with every early return and with file operations that throw.
- `UploadLocalFileToDds` goes as far as `processDataUploading` runs without
  waiting: the storage stub has the object and the payment request is sent.
- `PaymentSucceeds`, `PaymentFails` are the two ends of that task.  A failure
  may come while billing still has the request (`payment = "sent"`) or has
  charged: `BillingDecides` does not ask whether anybody waits.
- `ExtendFileStorageDuration` pays for the object that the record of the file
  shows, `NotifyPaymentStatus` tells the storage once billing has confirmed, and
  `ExtensionEnds` is the end of either request: no `try` surrounds them, so a
  failure of the second leaves the first as it is.  `extension` and `notice` are
  what billing and the storage know of it.
- `SaveFind`, `SaveWrite` are `save()`.  The update's query is the document that
  was found, all its fields; `SaveWrite` therefore compares `store[f]` with
  `found[r]`.
- `Crash` loses the calls and the queue, and keeps disk, database and billing.

`Overlap` says whether clients may send a request for a file while another one,
or an upload in the background, is in progress for it.  With `Overlap = FALSE`
they wait for the answer and poll the status, as the endpoints invite them to.

### Accounts

`docs` is a set of documents; its ids are numbers because Nedb lists documents
in the order of their ids, and `getDefaultAccount` takes the first.
`role` is what billing has, `requests` the registrations on their way.  `Boot`
is the hook `InitialAccountRegistrationHandler`; requests of clients come when it
is done, since `app.listen` calls the hooks first.  `Restart` is a crash, or
the start after a hook that failed.  `rest` holds the accounts that
`setDefaultAccount` still has to save, as it read them.  `overlap`, chosen in
the initial state, says whether requests of clients may overlap: in its
behaviours without overlap most properties of the default account are stated.
With overlap one thing remains true, and `OneChosenDefault` states it: when
everything has ended, the accounts that calls of `setDefaultAccount` chose and
nobody cleared are of one address.  (Each call first sets its own account and then
clears those of other addresses: the one that was set earlier is cleared after the other was
set.  An address that was registered twice has two accounts, and both may stay
chosen: the one with the smaller id is what `findByAddress` gives, and an account
that is stored later may have a smaller id.)  `flagged` is history:
the documents that a registration stored as default ones and that no such call
has chosen or cleared since.  A document leaves it as soon as a call chooses it, so
`OneChosenDefault` speaks of it from then on.

### NodeStart

`NodeStart` extends `Accounts` with the hook of `DiscoveryModule`: the IP
address, which a service may fail to tell; the accounts; the registration, whose
answer may be lost.  Nothing in `AppModule` fixes how Nest orders the hooks of
two modules, so `inOrder`, chosen in the initial state, says whether that of
`AccountModule` ends first; otherwise they interleave.  Requests come when both
are done; a start that fails ends the process (`RestartNode`).  `before` is
history: the addresses stored when the process started.  The bootstrap node that
takes the registration is in `Discovery`; here it answers or does not.
The registration of a node that is a bootstrap node itself is only published,
and "registered" says no more of it than that.

### Discovery

One list per bootstrap node, as a set of ids: order and duplicates of a list
are left out (they make a scan ask a node twice, and nothing else).
A `scan` holds the ids the loop has still to ask (`left`), those found down,
and whether the array it goes over is still the node's list (`same`): `push`
reaches the loop only while it is.  The last status request, the filter and the
publications are one step (`CheckLastNode`).  `home` and `doomed` are history:
which bootstrap node took a registration, and of which ids a check failed or a
goodbye was said.  `Registry` is the abstract specification: it knows neither
messages nor scans, only ids that are registered, learnt, found down and
dropped.  `Discovery` implements it with its own lists (`RegistrySpec`).  A status request is answered by whatever process runs
at the address, hence by `phase[owner[id]]` and not by the id.

A publication goes to everyone its publisher `Reaches` over links
(`Audience`), since gossipsub relays messages over several hops; this is
libp2p's doing and marked external.  No checked instance has the three bootstrap
nodes that a relay takes; the theorems of `DiscoveryProof` hold for any number
of them.

### FileKeys

One file, one data validator, its nodes.  `Lookups` call `getFileKey`,
`Purchases` call `purchaseData`.  `nodes` is the array the call got from the
registry, `reply` what each node answered; `purchaseData` goes on while
`LoopEnds` is false, and has found a node when `nodePossessingFile` (`chosen`)
is set.  Nodes and registry change at any
time (`EnvironmentChanges`).

## 3. Runs

| Run | Instance | Properties | What it shows |
|---|---|---|---|
| `files_any` | 2 files, 4 calls of all kinds, overlapping, crashes | `TypeOK`, `RecordedUploadIsPaid`, `ExtensionIsPaid`, `LedgerSpec` | whatever clients do, a record that says "uploaded" is backed by one stored and charged upload of that file, and so is what an extension is paid for; the ledger is implemented (with withdrawals) |
| `files_serial` | 1 file, 5 calls, not overlapping, crashes | `PaidUploadIsVisible`, `NoLostUpdate`, `LedgerSpec` | with well-behaved clients nothing is lost, and a file never stops showing an upload |
| `files_settles` | 1 file, 4 calls (create, upload, extend), overlapping, fair | `UploadSettles`, `EveryCallEnds`, `SettledStaysSettled` | polling ends, and does not start again |
| `files_deleted` | 1 file, 3 calls | `DeletedMeansGone` | violated: see 4 |
| `registry_gossip` | 2 bootstrap nodes, 1 other, 2 ids, a link that breaks once | `TypeOK`, `RegistrationIsKept`, `RegistrySpec` | no interleaving of the message handlers and the scan loses a node |
| `registry_restarts` | 1 bootstrap node that hears itself, 2 others, 2 starts each, 3 ids, status requests that may fail | `RegistrationIsKept`, `RegistrySpec` | the same over several lives of a node |
| `registry_live` | 2 bootstrap nodes, 1 other, 2 ids, one start each, no link breaks, fair | `DeadNodesLeave` | a node that has ceased to answer for good leaves every list for good |
| `registry_listed` | 1 bootstrap node, 1 other | `RunningNodeIsListed` | violated: see 4 |
| `accounts` | 2 addresses, 3 calls, restarts, with and without overlap | `TypeOK`, `LocalAccountsAreRegistered`, `BootedHasAccount`, `OneChosenDefault`, `DefaultTakesEffect`, `DefaultIsKept` | what is stored is registered; the initial account survives a crash between registration and save; overlapping changes of the default account leave the choice of one address at most; the loop of saves has its effect and never leaves the node without a default account, unless two requests overlap |
| `node_start` | 2 addresses, 2 calls, restarts, both orders of the hooks | `NodeTypeOK`, `RegisteredAddressesAreAccounts`, `StoredAccountsAreFound` | a node is registered under registered accounts only, and a listening one under all it had when it started |
| `keys_any` | 3 nodes, 1 lookup, 1 purchase | `TypeOK`, `ChargedForFoundFile`, `KeyIsPaid`, `PurchaseTriesEveryNode` | payment, search and key of a purchase agree although the nodes change |
| `keys_next` | 2 nodes, 1 lookup, 1 purchase | `NextNodeIsTried` | violated: see 4 |

### Bounds

`FileService`: an upload needs a creation first, a lost save needs two more
calls, and a fourth one to interfere with both; five calls without overlap are a
creation, a chunk, two uploads and a deletion.  With four overlapping calls an
extension can meet two uploads that compete for the record of its file.  Two files are enough for a
record to take what belongs to another.  Each call is sent once, so the calls bound the
behaviours; crashes are not bounded.  `Accounts`: the hook makes the first
account, one call another one, and two calls compete for the default; `Ids` has
one id for every account these can make.  `NodeStart`: the same with two calls,
one to add an account after the start and one to change the default.  `Discovery`: `MaxStarts` and
`MaxBreaks` bound lives and broken links; one other node and two bootstrap
nodes suffice for gossip about a node to meet lists and scans about the same
node, and the ids (`Ids`) bound the registrations.  `registry_restarts` has
three ids for three of the five lives it allows; a life beyond them starts and
does not register.  `registry_live` allows one start of each node and no broken
link, so two bootstrap nodes exchange lists once in each direction: the scans
are shown to win against a list that brings a dead id back, but only finitely
often.  An instance with a second connection or a second life does not finish
in useful time, and with unbounded reconnections two nodes could hand a
dead id back and forth.  `FileKeys`: calls do not interact, three nodes let a search fail twice and then
succeed.  Calls, files, nodes and ids (but not those of accounts, which are ordered) are
interchangeable: `SYMMETRY` is used in runs of safety properties and never where
a liveness property is checked.

Deadlock is not checked: clients may stop sending requests, and a model whose
calls are used up has nothing left to do.

### Fairness

`FileService!FairSpec`: Nedb's executor goes on as long as its queue is not
empty (weak fairness of the step of the database), and an HTTP request to billing or
to the storage ends, with an answer or an error.  The second is what the operating system's TCP does; the
axios instance has no timeout of its own, so a billing service that keeps the
connection open and never answers is outside the assumption.  Nothing is
assumed of clients or of billing's decision, and the liveness runs have no
crash: after one nobody takes an upload up again.

`Discovery!FairSpec`: a message that pubsub has taken arrives, a timer fires, the
cron job runs once a minute and each of its status requests ends.  Nodes need not start,
connect or exchange lists.  `DeadNodesLeave` asks for nothing from gossip: the
scans of each bootstrap node suffice, which the mutant of its run shows.
Its premise is that whatever runs at the address of the id has stopped answering for good:
an id of an earlier life stays listed while a later one answers at the same
address, and the property does not say otherwise.

## 4. Disagreements between the code and its texts

- `DeletedMeansGone` (code): `writeFileChunk` does not look at `deletedLocally`, and
  `appendFileSync` makes the file again.  From then on every DELETE answers that
  it "has already been deleted" and the file stays.
- `RunningNodeIsListed` (readme): a node registers itself before its port is
  open.  A bootstrap node whose scan reaches it in between removes it, and it never
  registers again.
- `NextNodeIsTried` (code): the loop of `lookForNodeWhichHasFile` ends after
  the first node, after logging "trying next one".

Three more were met while modelling and have no run: the CONFLICT thrown by
`registerServiceNodeAccount` for an address with another role is answered as
500 "Unknown error ..." by the catch of `registerAccount` (in `Accounts`, the
outcome "error" of `RegistrationStatus`); a key request that fails after a
successful payment is answered with "Billing API is unreachable" (in
`FileKeys`, `FetchPaidKey`); `readme.md` calls `DDS_STUB_FILES_DIRECTORY`
unused, while uploads are written there and `getFile` reads them.

Behaviours that no text forbids, and that the models have, are in the list
of hazards with a note: two overlapping `setDefaultAccount` calls can leave
no default account; an upload that a crash interrupts stays "pending"; a retry
after a lost answer pays again, and so does a retry of an extension that
was paid but of which the storage could not be told; a deletion whose process
dies between `unlink` and `save` leaves a record whose file is gone and
which does not say so; the registration of an account that billing already
knows adds a second default account; the id of a node's earlier life stays
listed while the node answers under a later one; a data mart that has paid
gets no key when the node that had the file is gone or fails.  No property forbids
them, because the code does not.

## 5. Proofs

All theorems hold for any values of the constants that satisfy the assumptions
named in the modules (the absent value is none of the others, the sets of two
sorts of callers or nodes do not meet, the numbers are natural numbers).  Each
proof module states an inductive invariant, shows that the initial states have
it and that every action keeps it, part by part, and derives the properties.

### FileServiceProof

- `TypeCorrectness`: `Spec => []TypeOK`;
- `UploadsArePaid`: `Spec => []RecordedUploadIsPaid`;
- `ExtensionsArePaid`: `Spec => []ExtensionIsPaid`;
- `NothingIsLost`: `~Overlap => (Spec => NoLostUpdate)`;
- `PaidUploadsAreVisible`: `~Overlap => (Spec => []PaidUploadIsVisible)`;
- `SettledForGood`: `"delete" \notin Kinds => (Spec => SettledStaysSettled)`;
- `ImplementsLedger`: `Spec => LedgerSpec`.

`RecordedUploadIsPaid` is not inductive: it says nothing of the copies that
calls hold, and those are what gets written.  `Inv` adds `CopyBacked`, the same
statement of every copy, and `StagesOK`, what `pc` implies: a call that has not
reached the storage has no object and no payment, so nothing in the database
can name it, and a call that is about to save holds a copy.  The argument: the
database only changes by `SaveWrite`, which writes a copy (`StoreSteps`); a copy
is a new record, the record in the database, an older copy, or such a copy with
what billing answered to this very call (`CopySteps`); and what is said of a
charged call stays true (`PaidForEver`).  `ExtensionsOK` adds that the copy of
an extension is the record it was started from, which was backed then.

`NoLostUpdate` needs that a copy is not stale.  `SerialOK` says, for
`Overlap = FALSE`, that only one call at work is about a file, that a file
whose creation is in progress has no record, and that the copy a call is going
to save shows at least what the record shows (`AtLeast`).  `IInv` is `Inv`,
`AllocatedOK` (only drawn ids have records, so a creation meets none) and
`SerialOK`.

`PaidUploadIsVisible` speaks of a call that has ended, whose copy nobody looks at
any more: `VisibleOK` says that the record shows at least what the copy of a call
shows that billing has confirmed and that has saved it.  Later calls for the
file start from that record, and a save replaces the record by a copy that shows at
least as much (`StoreKeeps`), so it stays true.

`SettledForGood` is about calls that do overlap.  A copy may then be staler than the
record, and is saved only if the record is still what `save()` read; what must
not happen is that such a copy is "pending".  `SettledOK` says that a call
about to save a pending copy is the creation of the record (`Creating`), that there is
no record before it has saved, and that there is one for every other call
that holds a copy.  The hypothesis is that clients do not
send deletions: the copy of a deletion that meets an upload is the one pending copy
which may replace a settled record.  Crashes are allowed.

`ImplementsLedger` maps each step to a step of the ledger or to a stutter
(`LedgerStep`): the start of the background task stores an object,
`BillingDecides` charges it, `SaveWrite` publishes or (only with `Overlap`)
withdraws.

### DiscoveryProof

- `TypeCorrectness`: `Spec => []TypeOK`;
- `RegistrationsAreKept`: `Spec => []RegistrationIsKept`;
- `ImplementsRegistry`: `Spec => RegistrySpec`.

The invariant follows an id wherever it travels: what lists, scans and messages
know was drawn, and what a scan, a deletion message or a timer is about to
remove is doomed (`ListsOK`, `MessagesOK`).  So no step can take an id that is
not doomed from a list, whatever array the scan went over, and the registration
stays with the bootstrap node that took it (`KeptOK`).  `RegistryStep` maps
registrations to `Register`, lists and gossip to `Learn`, status checks to
`Judge`, the end of a scan and the timers to `Drop`, and the end of a process to
`Forget`.

### AccountsProof

- `TypeCorrectness`, `AccountsAreRegistered`, `InitialAccountIsStored`:
  `Spec =>` `[]TypeOK`, `[]LocalAccountsAreRegistered`, `[]BootedHasAccount`.

An account comes to be stored in several steps, in any of which others are at
work.  `BillingOK` says that a caller has one request or one answer at most, about
its own address and role; `SaveOK` that what a caller is about to save is
registered, and that its id is either new or that of a document with the same
address; `Distinct` that two callers never draw the same new id.  With overlap
`found` may be stale; then the update matches nothing, which keeps all of this.
`BootOK` says how far the hook is.

### DefaultAccountProof and OneChoiceProof

- `DefaultIsNeverLost`: `Spec => DefaultIsKept`;
- `DefaultTakesItsEffect`: `Spec => DefaultTakesEffect`;
- `OnlyOneChoiceStays`: `Spec => []OneChosenDefault`.

A call of `setDefaultAccount` first *chooses* (`Choosing`: it saves its own account
as a default one) and then *clears* (`Clearing`: it saves the others without the
flag).  `LoopOK` says which copies it holds at each point, and that all of them
have documents, which tells it from a registration (`Known`).

Without overlap one caller is at work (`OneAtWork`), so the document it read is
still there; `EffectOK` then says that a caller that clears has stored its
choice already, and that every other default account is its copy or among `rest`.
The first keeps the node from being without a default account, and at the end of
the loop the second leaves only the choice.

With overlap a save may match nothing, and a call may miss an account that was
stored after it read them all.  `ClearedOK` says that of two choices of
different addresses, some caller still has one to clear, and that its save will
take effect: it has yet to read the document, or what it has read is still there.
It is kept because nobody else can replace that document and leave it a choice.
When a call makes its choice, the other one must be among those it is going to clear,
which is `ChoicesOK`: what a call read includes every choice made before
its own.  This is true because of the queue of the database.  An account that a call
`p` did not read was stored later, so a call `q` that chooses it read the accounts
later than `p`; `Later` says that `q` is then behind `p` in the same operation, or one
operation behind, and so it stays until `p` has chosen (`OrderKept`,
`NextIsLast`).  `QueueOK` says that a caller is in the queue once, if it waits for the
database.

Proving `OneChosenDefault` corrected it.  An earlier form said that one *account* at
most stays chosen; the proof failed for two accounts of the same address,
and TLC found the behaviour from a state with such a pair, which the bounds of the
run do not reach.  The code clears the accounts of other addresses, and what it
promises is one address.

### NodeStartProof

- `NodeTypeCorrectness`: `NodeSpec => []NodeTypeOK`;
- `AddressesAreAccounts`: `NodeSpec => []RegisteredAddressesAreAccounts`;
- `StartIsSound`: `NodeSpec => []StoredAccountsAreFound`;
- `AccountsInNode`: `NodeSpec =>` `[]LocalAccountsAreRegistered`,
  `[]BootedHasAccount` and `[]OneChosenDefault`.

Every step of `NodeStart` is one of `Accounts` or leaves its variables alone
(`NodeStepIsStep`), so the invariants of `AccountsProof` and `OneChoiceProof` hold
there too.
`HookOK` adds what the other hook has read: documents never leave the database,
and their addresses never change, so what was stored when the process started is
among what was read.

### FileKeysProof

- `TypeCorrectness`, `FoundBeforeCharged`, `KeysArePaid`, `EveryNodeIsTried`:
  `Spec =>` `[]TypeOK`, `[]ChargedForFoundFile`, `[]KeyIsPaid`,
  `[]PurchaseTriesEveryNode`.

`Stage` says what is known of a call where it is: until the search ends, no node
has answered "yes", none is chosen and billing has not been asked; a purchase
past its payment was charged.

### Only model-checked

Liveness (`UploadSettles`, `EveryCallEnds`, `DeadNodesLeave`): the provers have no
rule for fairness.  Every safety property of a passing run is a theorem.

## 6. What is not modelled, and why

- `getFile`, `getFiles`, `getFileInfo`, balances, data owners and transactions
  read and change nothing.
- The seconds that `keepUntil` is turned into: the storage stub does not keep
  them, and no decision of the node depends on them.
- Contents of files, names, sizes, metadata: no decision depends on them.  Nedb
  drops undefined fields, and its `update` never matches a document when a field
  of the query is undefined; the request types make the fields
  concerned (`additional`, billing's `privateKey`) mandatory, so records with an
  undefined field are left out.
- The private key of the data owner's wallet travels with the address in
  billing's answer and is written in the same assignment block as it.
- Signatures and the validation of requests: a rejected request is one whose
  handler ends at once, or that was never sent.
- Every stored account has `accountType` "SERVICE_NODE"; the check of
  `setDefaultAccount` for another type is never true.
- Pagination (two numbers handed to reads of billing), configuration, logging,
  dependency injection.
- A node that is not a bootstrap node keeps an empty list; `purchaseData` and
  `getFileKey` answer 404 there (`FindNodes` with nothing listed).

## 7. Plan

1. A composition of `Discovery` with `FileKeys`: the list a purchase uses is that
   of the bootstrap node it runs on.
2. The steps that the liveness properties rest on, as action properties with
   theorems: what a status check, a timer or the end of a save brings nearer.
