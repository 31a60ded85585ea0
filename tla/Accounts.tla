------------------------------ MODULE Accounts ------------------------------
(***************************************************************************)
(* The local accounts of a service node and which of them is the default   *)
(* (src/account/AccountService.ts), over the Nedb database that keeps them *)
(* (src/account/AccountRepository.ts) and the billing service with which   *)
(* accounts are registered; the registration of the initial account when   *)
(* the process starts (src/account/InitialAccountRegistrationHandler.ts).  *)
(*                                                                         *)
(* A step is what the event loop runs between two operations that really   *)
(* wait.  Database operations run one at a time in the order they were     *)
(* issued, as in FileService.tla.  Only accounts of service nodes are ever *)
(* stored, so their accountType is left out.                               *)
(***************************************************************************)
EXTENDS Naturals, Sequences

CONSTANTS
  Calls,           \* requests that clients send, each at most once
  Boot,            \* the registration of the initial account, when the process starts
  Addresses,       \* addresses of accounts
  Ids,             \* ids of documents, in the order in which Nedb lists them (a bound)
  InitialAddress,  \* that of INITIAL_ACCOUNT_PRIVATE_KEY, or None without one
  Crashable,       \* may the process crash?
  None             \* an absent value

ASSUME AccountsAssumption ==
  /\ Boot \notin Calls
  /\ Ids \subseteq Nat
  /\ InitialAddress \in Addresses \cup {None}
  /\ None \notin Addresses \cup Calls \cup {Boot}
  /\ Crashable \in BOOLEAN

Callers == Calls \cup {Boot}

VARIABLES
  overlap,    \* do clients send requests while another one is in progress?
  docs,       \* the Nedb documents of local accounts
  dbQueue,    \* the Nedb executor: callers in the order of their pending operation
  role,       \* what billing has each address registered as
  requests,   \* registrations on their way to billing
  answer,     \* what billing answered to the registration of each caller
  pc,         \* where each caller is
  address,    \* the address each call is about
  copy,       \* the account object each caller is about to save
  rest,       \* the account objects it has to save after that
  found,      \* the document that save() read, to be replaced by copy
  flagged     \* history: ids stored as default by a registration, not chosen or cleared since

vars == <<overlap, docs, dbQueue, role, requests, answer, pc, address, copy, rest, found, flagged>>

billing == <<role, requests, answer>>

Account == [id : Ids, address : Addresses, default : BOOLEAN]

Request == [by : Callers \cup {None}, address : Addresses, role : {"service", "other"}]

ASSUME NoneIsNoAccount == None \notin Account

InDatabase == {"bootAll", "byAddress", "findAll", "saveFind", "saveWrite"}
InBilling  == {"status", "postService", "postOther"}

\* Answered, answered by 409, by 500 "Billing API is unreachable" or by another
\* 500; or the process died.
Ended == {"done", "conflict", "unreachable", "error", "lost"}

TypeOK ==
  /\ overlap \in BOOLEAN
  /\ docs \subseteq Account
  /\ dbQueue \in Seq(Callers)
  /\ role \in [Addresses -> {"none", "service", "other"}]
  /\ requests \subseteq Request
  /\ answer \in [Callers -> {"none", "accepted", "refused"}]
  /\ pc \in [Callers -> InDatabase \cup InBilling \cup Ended \cup {"idle"}]
  /\ address \in [Callers -> Addresses \cup {None}]
  /\ copy \in [Callers -> Account \cup {None}]
  /\ rest \in [Callers -> SUBSET Account]
  /\ found \in [Callers -> Account \cup {None}]
  /\ flagged \subseteq Ids

\* The first start of the process.  Accounts may be registered already.
Init ==
  /\ overlap \in BOOLEAN
  /\ docs = {}
  /\ dbQueue = <<Boot>>
  /\ role \in [Addresses -> {"none", "service", "other"}]
  /\ requests = {}
  /\ answer = [r \in Callers |-> "none"]
  /\ pc = [r \in Callers |-> IF r = Boot THEN "bootAll" ELSE "idle"]
  /\ address = [r \in Callers |-> IF r = Boot THEN InitialAddress ELSE None]
  /\ copy = [r \in Callers |-> None]
  /\ rest = [r \in Callers |-> {}]
  /\ found = [r \in Callers |-> None]
  /\ flagged = {}
-----------------------------------------------------------------------------
(***************************************************************************)
(* Helpers.                                                                *)
(***************************************************************************)
Active(r) == pc[r] \in InDatabase \cup InBilling

\* The port is open once the hooks of onApplicationBootstrap are done.
Serving == pc[Boot] = "done"

Runs(r, p) == dbQueue # << >> /\ Head(dbQueue) = r /\ pc[r] = p

\* find() lists documents in the order of their ids; findOne() gives the first.
First(S) == CHOOSE d \in S : \A e \in S : d.id <= e.id

OfAddress(S, a) == {d \in S : d.address = a}

\* getDefaultAccount of a node that has accounts.
DefaultAccount ==
  LET marked == {d \in docs : d.default} IN
  First(IF marked = {} THEN docs ELSE marked)

\* uuid/v4, or Nedb, draws an id that no document has or will have.
FreshIds == Ids \ {d.id : d \in docs \cup {copy[r] : r \in {q \in Callers : copy[q] # None}}}

\* accountRepository.save(account): issues the findOne of save().
Save(r, account, later, queue) ==
  /\ copy' = [copy EXCEPT ![r] = account]
  /\ rest' = [rest EXCEPT ![r] = later]
  /\ pc' = [pc EXCEPT ![r] = "saveFind"]
  /\ dbQueue' = Append(queue, r)

\* Mutant: the flag is left to be set later.
LocalAccountUnflagged(id, a, default) == [id |-> id, address |-> a]

LocalAccount(id, a, default) == [id |-> id, address |-> a, default |-> default]

\* The caller saves a new account.
SaveNew(r, default) ==
  \E id \in FreshIds : Save(r, LocalAccount(id, address[r], default), {}, dbQueue)

\* The caller's HTTP request, or its hook, ends.
End(r, outcome) ==
  /\ pc' = [pc EXCEPT ![r] = outcome]
  /\ UNCHANGED <<dbQueue, copy, rest>>

\* A registration is sent to billing.
Post(r, a, as) == requests' = requests \cup {[by |-> r, address |-> a, role |-> as]}

\* Nobody waits any more for the answer to the requests of these callers.
Forsaken(gone) ==
  {IF q.by \in gone THEN [q EXCEPT !.by = None] ELSE q : q \in requests}
-----------------------------------------------------------------------------
(***************************************************************************)
(* Requests, and the hook of the process that starts.                      *)
(***************************************************************************)
MayIssue(r) ==
  /\ Serving
  /\ pc[r] = "idle"
  /\ overlap \/ \A q \in Calls : ~Active(q)

IssueSetDefault(r, a) ==
  /\ MayIssue(r)
  /\ pc' = [pc EXCEPT ![r] = "byAddress"]
  /\ address' = [address EXCEPT ![r] = a]
  /\ dbQueue' = Append(dbQueue, r)
  /\ UNCHANGED <<docs, billing, copy, rest, found>>

\* registerServiceNodeAccount: billing is asked for the status first.
IssueRegisterServiceNode(r, a) ==
  /\ MayIssue(r)
  /\ pc' = [pc EXCEPT ![r] = "status"]
  /\ address' = [address EXCEPT ![r] = a]
  /\ UNCHANGED <<docs, dbQueue, billing, copy, rest, found>>

\* registerDataValidatorAccount, registerDataMartAccount.
IssueRegisterOther(r, a) ==
  /\ MayIssue(r)
  /\ pc' = [pc EXCEPT ![r] = "postOther"]
  /\ address' = [address EXCEPT ![r] = a]
  /\ Post(r, a, "other")
  /\ UNCHANGED <<docs, dbQueue, role, answer, copy, rest, found>>

\* onApplicationBootstrap: the initial account is registered if there is a key
\* for it and no local account.
InitialAccount ==
  /\ Runs(Boot, "bootAll")
  /\ pc' = [pc EXCEPT ![Boot] =
              IF docs = {} /\ InitialAddress # None THEN "status" ELSE "done"]
  /\ dbQueue' = Tail(dbQueue)
  /\ UNCHANGED <<docs, billing, address, copy, rest, found>>
-----------------------------------------------------------------------------
(***************************************************************************)
(* Registration.  An address keeps the role it is registered with, so the  *)
(* two questions is_registered and getAccountRole make one step.           *)
(***************************************************************************)
\* Mutant: an account that billing knows already is taken to be stored here.
KnownTakenForStored(r) == End(r, "done")

\* An account that billing has as that of a service node becomes a default one.
KnownServiceNode(r) == SaveNew(r, TRUE)

\* Billing answers the status: not registered yet, registered as a service
\* node, or as something else (the exception thrown for it is not an AxiosError:
\* registerAccount answers "Unknown error"); or it does not answer.
RegistrationStatus(r) ==
  /\ pc[r] = "status"
  /\ \/ /\ role[address[r]] = "none"
        /\ pc' = [pc EXCEPT ![r] = "postService"]
        /\ Post(r, address[r], "service")
        /\ UNCHANGED <<dbQueue, copy, rest>>
     \/ /\ role[address[r]] = "service"
        /\ KnownServiceNode(r)
        /\ UNCHANGED requests
     \/ /\ role[address[r]] = "other"
        /\ End(r, "error")
        /\ UNCHANGED requests
     \/ /\ End(r, "unreachable")
        /\ UNCHANGED requests
  /\ UNCHANGED <<docs, role, answer, address, found>>

\* Billing handles a registration, whether or not the node still waits; it
\* refuses an address that is registered (400).
BillingRegisters(q) ==
  LET free == role[q.address] = "none" IN
  /\ q \in requests
  /\ requests' = requests \ {q}
  /\ role' = IF free THEN [role EXCEPT ![q.address] = q.role] ELSE role
  /\ answer' = IF q.by = None THEN answer
               ELSE [answer EXCEPT ![q.by] = IF free THEN "accepted" ELSE "refused"]
  /\ UNCHANGED <<docs, dbQueue, pc, address, copy, rest, found>>

\* Mutant: any answer will do.
AnsweredAnyhow(r) == answer[r] # "none"

\* The request resolves: an answer other than 2xx would reject it.
Accepted(r) == answer[r] = "accepted"

\* The account of a service node is saved, not as the default one.
RegistrationAccepted(r) ==
  /\ Accepted(r)
  /\ \/ pc[r] = "postService" /\ SaveNew(r, FALSE)
     \/ pc[r] = "postOther" /\ End(r, "done")
  /\ answer' = [answer EXCEPT ![r] = "none"]
  /\ UNCHANGED <<docs, role, requests, address, found>>

RegistrationRefused(r) ==
  /\ pc[r] \in {"postService", "postOther"}
  /\ answer[r] = "refused"
  /\ End(r, "conflict")
  /\ answer' = [answer EXCEPT ![r] = "none"]
  /\ UNCHANGED <<docs, role, requests, address, found>>

\* The connection breaks, which says nothing of what billing does.
RegistrationLost(r) ==
  /\ pc[r] \in {"postService", "postOther"}
  /\ End(r, "unreachable")
  /\ requests' = Forsaken({r})
  /\ answer' = [answer EXCEPT ![r] = "none"]
  /\ UNCHANGED <<docs, role, address, found>>
-----------------------------------------------------------------------------
(***************************************************************************)
(* setDefaultAccount.                                                      *)
(***************************************************************************)
\* No account: a TypeError, answered by 500.
FindByAddress(r) ==
  LET mine == OfAddress(docs, address[r]) IN
  /\ Runs(r, "byAddress")
  /\ \/ /\ mine = {}
        /\ pc' = [pc EXCEPT ![r] = "error"]
        /\ dbQueue' = Tail(dbQueue)
        /\ UNCHANGED copy
     \/ /\ mine # {}
        /\ copy' = [copy EXCEPT ![r] = First(mine)]
        /\ pc' = [pc EXCEPT ![r] = "findAll"]
        /\ dbQueue' = Append(Tail(dbQueue), r)
  /\ UNCHANGED <<docs, billing, address, rest, found>>

\* Mutant: the other accounts are not cleared.
ClearedNever(a) == {}

\* The accounts of other addresses, as they were found, without the flag.
Cleared(a) == {[d EXCEPT !.default = FALSE] : d \in docs \ OfAddress(docs, a)}

\* Mutant: one loop saves all accounts, in the order of find().
SavesInOneLoop(account, others) ==
  LET all == {account} \cup others IN <<First(all), all \ {First(all)}>>

\* The account to be saved first, and the others.
Saves(account, others) == <<account, others>>

\* The account becomes the default one, then the others stop being it.
FindAll(r) ==
  LET saves == Saves([copy[r] EXCEPT !.default = TRUE], Cleared(address[r])) IN
  /\ Runs(r, "findAll")
  /\ Save(r, saves[1], saves[2], Tail(dbQueue))
  /\ UNCHANGED <<docs, billing, address, found>>
-----------------------------------------------------------------------------
(***************************************************************************)
(* save(), and the process as a whole.                                     *)
(***************************************************************************)
\* findOne, then insert or update.
SaveFind(r) ==
  LET same == {d \in docs : d.id = copy[r].id} IN
  /\ Runs(r, "saveFind")
  /\ found' = [found EXCEPT ![r] = IF same = {} THEN None ELSE First(same)]
  /\ pc' = [pc EXCEPT ![r] = "saveWrite"]
  /\ dbQueue' = Append(Tail(dbQueue), r)
  /\ UNCHANGED <<docs, billing, address, copy, rest>>

\* The loop of setDefaultAccount: the next account, if any, is saved.
SaveRest(r) ==
  \/ /\ rest[r] = {}
     /\ pc' = [pc EXCEPT ![r] = "done"]
     /\ dbQueue' = Tail(dbQueue)
     /\ UNCHANGED <<copy, rest>>
  \/ /\ rest[r] # {}
     /\ Save(r, First(rest[r]), rest[r] \ {First(rest[r])}, Tail(dbQueue))

\* The document that was found is replaced if it is still the same, field by
\* field, and the loop goes on.
SaveWrite(r) ==
  /\ Runs(r, "saveWrite")
  /\ docs' = IF found[r] = None THEN docs \cup {copy[r]}
             ELSE IF found[r] \in docs THEN (docs \ {found[r]}) \cup {copy[r]} ELSE docs
  /\ SaveRest(r)
  /\ UNCHANGED <<billing, address, found>>

\* The process ends, with whatever its callers were doing, and starts again.
StartAgain ==
  LET gone == {r \in Callers : Active(r)} IN
  /\ pc' = [r \in Callers |-> IF r = Boot THEN "bootAll"
                              ELSE IF r \in gone THEN "lost" ELSE pc[r]]
  /\ dbQueue' = <<Boot>>
  /\ requests' = Forsaken(gone)
  /\ answer' = [r \in Callers |-> "none"]
  /\ copy' = [r \in Callers |-> IF r \in gone \cup {Boot} THEN None ELSE copy[r]]
  /\ rest' = [r \in Callers |-> {}]
  /\ found' = [r \in Callers |-> IF r \in gone \cup {Boot} THEN None ELSE found[r]]
  /\ UNCHANGED <<docs, role, address>>

\* After a crash, or because its hook failed.
Restart == (Crashable \/ pc[Boot] \in {"conflict", "unreachable", "error"}) /\ StartAgain

ClientRequest ==
  \E r \in Calls, a \in Addresses :
    IssueSetDefault(r, a) \/ IssueRegisterServiceNode(r, a) \/ IssueRegisterOther(r, a)

Work ==
  \/ InitialAccount
  \/ \E r \in Callers :
       \/ RegistrationStatus(r) \/ RegistrationAccepted(r) \/ RegistrationRefused(r)
       \/ RegistrationLost(r) \/ FindByAddress(r) \/ FindAll(r)
       \/ SaveFind(r) \/ SaveWrite(r)
  \/ \E q \in requests : BillingRegisters(q)

\* Registrations insert documents; the default accounts that are saved over a
\* document are those that setDefaultAccount chooses.
History ==
  LET inserted == {d \in docs' : d.default /\ \A e \in docs : e.id # d.id}
      chosen   == {copy[r] : r \in {q \in Callers : SaveWrite(q) /\ found[q] # None /\ copy[q].default}}
      cleared  == {d \in docs' : ~d.default}
  IN flagged' = (flagged \cup {d.id : d \in inserted})
                  \ {d.id : d \in cleared \cup (chosen \cap docs')}

Next == (ClientRequest \/ Work \/ Restart) /\ History /\ UNCHANGED overlap

Spec == Init /\ [][Next]_vars
-----------------------------------------------------------------------------
(***************************************************************************)
(* Properties.                                                             *)
(***************************************************************************)
\* Whatever overlaps, breaks or crashes, an account is stored here only when
\* billing has it registered as that of a service node, and there is one
\* document per id: a registration that billing refused, or took for something
\* else, leaves no local account behind.
LocalAccountsAreRegistered ==
  \A d \in docs :
    /\ role[d.address] = "service"
    /\ \A e \in docs : e.id = d.id => e = d

\* The process was given a key for the initial account: once it serves requests
\* it has an account, also when an earlier start crashed, or lost billing's
\* answer, between the registration and the save.
BootedHasAccount ==
  Serving /\ InitialAddress # None => docs # {}

\* While requests do not overlap, a PATCH of the default account that succeeds
\* has its effect: getDefaultAccount answers that address, also when a crash
\* had left several accounts marked, or registrations have added some.
DefaultTakesEffect ==
  [][\A r \in Calls :
       ~overlap /\ pc[r] = "saveWrite" /\ found[r] # None /\ pc'[r] = "done"
         => DefaultAccount'.address = address[r]]_vars

\* However calls of setDefaultAccount overlap, with each other and with
\* registrations, they never leave two of their choices behind: once all calls
\* have ended, and none was lost in a crash, the default accounts are of one
\* address, apart from those that a registration stored as such and no call has
\* chosen since.  (None may be left; and an address that was registered twice has
\* two accounts, which are not cleared of each other.)
OneChosenDefault ==
  (\A r \in Callers : ~Active(r) /\ pc[r] # "lost") =>
    \A d, e \in docs : d.default /\ e.default /\ {d.id, e.id} \cap flagged = {}
                        => d.address = e.address

\* While requests do not overlap, a node that has a default account never is
\* without one, not even between the saves of setDefaultAccount or when it
\* crashes there.
DefaultIsKept ==
  [][~overlap /\ (\E d \in docs : d.default) => (\E d \in docs' : d.default)]_docs
=============================================================================
