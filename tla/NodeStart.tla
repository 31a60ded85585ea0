----------------------------- MODULE NodeStart ------------------------------
(***************************************************************************)
(* The start of a node: the hooks of AccountModule and of DiscoveryModule  *)
(* (onApplicationBootstrap), both of which end before the HTTP port opens. *)
(* The first may register and store an account (Accounts.tla), the second  *)
(* reads the accounts that are stored and registers the node under their   *)
(* addresses (src/discovery/DiscoveryService.ts), by which data marts look *)
(* for it.  What becomes of that registration is the subject of            *)
(* Discovery.tla.                                                          *)
(*                                                                         *)
(* In which order Nest runs the hooks of two modules, or both at a time,   *)
(* is its own affair: nothing in the code relies on it, or sets it.        *)
(***************************************************************************)
EXTENDS Accounts

VARIABLES
  inOrder,          \* does the hook of AccountModule end before the other starts?
  hook,             \* where the hook of DiscoveryModule is
  walletAddresses,  \* the addresses it has read
  registered,       \* those that this life of the node is registered under
  before            \* history: the addresses stored when the process started

discovery == <<hook, walletAddresses, registered, before>>
nodeVars == <<vars, inOrder, discovery>>

NodeTypeOK ==
  /\ inOrder \in BOOLEAN
  /\ hook \in {"ipAddress", "findAll", "post", "done", "failed"}
  /\ walletAddresses \subseteq Addresses
  /\ registered \subseteq Addresses
  /\ before \subseteq Addresses

NodeInit ==
  /\ Init
  /\ inOrder \in BOOLEAN
  /\ hook = "ipAddress"
  /\ walletAddresses = {}
  /\ registered = {}
  /\ before = {}
-----------------------------------------------------------------------------
\* getIpAddress: the service that tells the address may be out of reach.
GetIpAddress ==
  /\ hook = "ipAddress"
  /\ inOrder => pc[Boot] = "done"
  /\ hook' \in {"findAll", "failed"}
  /\ UNCHANGED <<walletAddresses, registered, before>>

\* Mutants: the accounts are sent as they are; the default account only is sent.
LocalAddressesUnmapped == docs
DefaultAddressOnly == {d.address : d \in {e \in docs : e.default}}

\* getAllLocalAccounts().map(account => account.address)
LocalAddresses == {d.address : d \in docs}

\* The accounts are read before the bootstrap node is chosen.  (The place of this
\* read among the operations of the database is left open.)
ReadAccounts ==
  /\ hook = "findAll"
  /\ walletAddresses' = LocalAddresses
  /\ hook' = "post"
  /\ UNCHANGED <<registered, before>>

\* POST nodes: a bootstrap node registers the node, and its answer may get lost;
\* or it does not.  (A bootstrap node publishes its registration instead, and goes
\* on.)
RegisterSelf ==
  /\ hook = "post"
  /\ \/ registered' = walletAddresses /\ hook' \in {"done", "failed"}
     \/ UNCHANGED registered /\ hook' = "failed"
  /\ UNCHANGED <<walletAddresses, before>>

\* The process starts again, after a crash or because one of its hooks failed.
RestartNode ==
  /\ Restart \/ (hook = "failed" /\ StartAgain)
  /\ hook' = "ipAddress"
  /\ walletAddresses' = {}
  /\ registered' = {}
  /\ before' = {d.address : d \in docs}

\* app.listen comes after both hooks.
Listening == Serving /\ hook = "done"

NodeNext ==
  /\ \/ Listening /\ ClientRequest /\ UNCHANGED discovery
     \/ Work /\ UNCHANGED discovery
     \/ (GetIpAddress \/ ReadAccounts \/ RegisterSelf)
        /\ UNCHANGED <<docs, dbQueue, billing, pc, address, copy, rest, found>>
     \/ RestartNode
  /\ History
  /\ UNCHANGED <<overlap, inOrder>>

NodeSpec == NodeInit /\ [][NodeNext]_nodeVars
-----------------------------------------------------------------------------
(***************************************************************************)
(* Properties.                                                             *)
(***************************************************************************)
\* Whatever crashes, fails or overlaps, a node is never registered under an
\* address that billing does not have as that of a service node, not even while
\* the account of that address is still being stored.
RegisteredAddressesAreAccounts ==
  \A a \in registered : role[a] = "service"

\* A node that listens can be found by every address it had an account for when
\* it started, also when earlier starts failed half-way; and if the accounts come
\* first, one that was given an initial account can be found.  (It cannot by the
\* accounts that it got since: they are registered at the next start.)
StoredAccountsAreFound ==
  Listening =>
    /\ before \subseteq registered
    /\ inOrder /\ InitialAddress # None => registered # {}
=============================================================================
