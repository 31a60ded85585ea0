---------------------------- MODULE UploadLedger ----------------------------
(***************************************************************************)
(* What the upload of local files promises to the data validator that pays *)
(* for it: an object is stored before it is charged, charged before it is  *)
(* published as the upload of a local file, and published only for the     *)
(* file it was made from.  FileService.tla implements this module.         *)
(***************************************************************************)
CONSTANTS
  Files,        \* local files
  Objects,      \* objects in the distributed data storage
  None,         \* "no file" and "no object"
  Withdrawals   \* may a file stop showing an upload it has shown?

VARIABLES
  stage,        \* how far each object is
  origin,       \* the file each stored object was made from
  published     \* the object each file is shown to be uploaded as

ledger == <<stage, origin, published>>

LedgerTypeOK ==
  /\ stage \in [Objects -> {"none", "stored", "charged"}]
  /\ origin \in [Objects -> Files \cup {None}]
  /\ published \in [Files -> Objects \cup {None}]

Init ==
  /\ stage = [o \in Objects |-> "none"]
  /\ origin = [o \in Objects |-> None]
  /\ published = [f \in Files |-> None]

Store(f, o) ==
  /\ stage[o] = "none"
  /\ stage' = [stage EXCEPT ![o] = "stored"]
  /\ origin' = [origin EXCEPT ![o] = f]
  /\ UNCHANGED published

Charge(o) ==
  /\ stage[o] = "stored"
  /\ stage' = [stage EXCEPT ![o] = "charged"]
  /\ UNCHANGED <<origin, published>>

Publish(f, o) ==
  /\ stage[o] = "charged"
  /\ origin[o] = f
  /\ published' = [published EXCEPT ![f] = o]
  /\ UNCHANGED <<stage, origin>>

Withdraw(f) ==
  /\ Withdrawals
  /\ published' = [published EXCEPT ![f] = None]
  /\ UNCHANGED <<stage, origin>>

Next ==
  \/ \E f \in Files, o \in Objects : Store(f, o) \/ Publish(f, o)
  \/ \E o \in Objects : Charge(o)
  \/ \E f \in Files : Withdraw(f)

Spec == Init /\ [][Next]_ledger
=============================================================================
