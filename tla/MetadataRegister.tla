-------------------------- MODULE MetadataRegister --------------------------
(***************************************************************************)
(* What the OTA metadata area promises its users: one register holding a   *)
(* sequence number and a metadata value.  A store replaces the value and   *)
(* raises the sequence number by one, in a single step; nothing else ever  *)
(* changes it, and power loss in the middle of a store leaves either the   *)
(* old or the new record.  Only a record of a firmware older than the A/B  *)
(* extension may be lost, and only until the first store completes.        *)
(* MetadataStore implements the register with two flash sectors.           *)
(***************************************************************************)
EXTENDS Naturals

CONSTANTS Payload,      \* the metadata values (every field but the sequence)
          DefaultRec,   \* what a blank metadata area reads as
          Legacy        \* the records an older firmware may have left

VARIABLE reg

Init == reg \in Legacy \cup {DefaultRec}

Store(v) ==
  /\ reg.ext
  /\ reg' = [seq |-> reg.seq + 1, val |-> v, ext |-> TRUE]

(* The first record this firmware completes.                               *)
First ==
  /\ reg \in Legacy \cup {DefaultRec}
  /\ reg' \in [seq : Nat, val : Payload, ext : {TRUE}]

(* An old record is lost to an older one, or to the default.               *)
Lose ==
  /\ reg \in Legacy
  /\ reg' \in {r \in Legacy : r.seq < reg.seq} \cup {DefaultRec}

Next == (\E v \in Payload : Store(v)) \/ First \/ Lose

Spec == Init /\ [][Next]_reg
=============================================================================
