------------------------------ MODULE Registry ------------------------------
(***************************************************************************)
(* What the bootstrap nodes promise together to whoever looks for a node:  *)
(* every keeper has a list, which may be older than that of another; a     *)
(* keeper lists only what was registered somewhere, and as long as it      *)
(* lives it drops only what a status check found down or what said         *)
(* goodbye.  Discovery.tla implements this module.                         *)
(***************************************************************************)
CONSTANTS
  Keepers,      \* those who keep a list
  Ids           \* ids of registrations

VARIABLES
  issued,       \* ids that were drawn
  doomed,       \* ids found down, or taken back
  listed        \* the list of each keeper

registry == <<issued, doomed, listed>>

Init ==
  /\ issued = {}
  /\ doomed = {}
  /\ listed = [k \in Keepers |-> {}]

\* An id is drawn; one keeper may list it at once.
Register(k, id) ==
  /\ id \notin issued
  /\ issued' = issued \cup {id}
  /\ listed' \in {listed, [listed EXCEPT ![k] = @ \cup {id}]}
  /\ UNCHANGED doomed

Learn(k) ==
  /\ \E ids \in SUBSET issued : listed' = [listed EXCEPT ![k] = @ \cup ids]
  /\ UNCHANGED <<issued, doomed>>

\* An id is found down.
Judge(id) ==
  /\ id \in issued
  /\ doomed' = doomed \cup {id}
  /\ UNCHANGED <<issued, listed>>

\* Ids that were found down, the last of them just now, are dropped.
Drop(k) ==
  /\ \E down \in SUBSET issued : doomed' = doomed \cup down
  /\ \E gone \in SUBSET doomed' : listed' = [listed EXCEPT ![k] = @ \ gone]
  /\ UNCHANGED issued

\* The keeper stops, perhaps with a goodbye.
Forget(k) ==
  /\ \E own \in SUBSET issued : doomed' = doomed \cup own
  /\ listed' = [listed EXCEPT ![k] = {}]
  /\ UNCHANGED issued

Next ==
  \/ \E k \in Keepers : Learn(k) \/ Drop(k) \/ Forget(k)
  \/ \E k \in Keepers, id \in Ids : Register(k, id)
  \/ \E id \in Ids : Judge(id)

Spec == Init /\ [][Next]_registry
=============================================================================
