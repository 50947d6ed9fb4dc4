---------------------------- MODULE ResourceArbiter ----------------------------
(***************************************************************************)
(* The state of the resource arbiter is who holds each resource.  All its  *)
(* operations run with interrupts off under the lock of the OSAL, so each  *)
(* is one function of that state.  A caller may leave its name out; it     *)
(* then holds resources as Anonymous and releases what anyone holds.       *)
(***************************************************************************)

Nobody == "nobody"        \* the resource is not in active_resources
Anonymous == "anonymous"  \* the owner argument is NULL

(* A mutant: some of the resources are enough.                             *)
MayAcquireSome(held, wanted) == \E r \in wanted : held[r] = Nobody

(* All of the resources or none.                                           *)
MayAcquire(held, wanted) == \A r \in wanted : held[r] = Nobody

Acquired(held, wanted, owner) ==
  [r \in DOMAIN held |-> IF r \in wanted THEN owner ELSE held[r]]

(* resource_arbiter_owner_matches.                                         *)
OwnerMatches(owner, holder) == owner = Anonymous \/ owner = holder

(* A mutant: whoever holds it.                                             *)
ReleasedAnyone(held, given, owner) ==
  [r \in DOMAIN held |-> IF r \in given THEN Nobody ELSE held[r]]

Released(held, given, owner) ==
  [r \in DOMAIN held |->
     IF r \in given /\ OwnerMatches(owner, held[r]) THEN Nobody ELSE held[r]]
=============================================================================
