--------------------------- MODULE MCMetadataStore ---------------------------
(***************************************************************************)
(* MetadataStore on a two-value payload, long enough for every sector to   *)
(* be rewritten several times; the records an older firmware left may be   *)
(* in both sectors, in one or in none.                                     *)
(***************************************************************************)
EXTENDS MetadataStore

CONSTANTS v1, v2

MCPayload == {v1, v2}
MCDefaultRec == [seq |-> 0, val |-> v1, ext |-> TRUE]
MCUpgraded == [v \in MCPayload |-> v1]
MCLegacy == {[seq |-> n, val |-> v, ext |-> FALSE] : n \in 1..3, v \in MCPayload}
=============================================================================
