--------------------------- MODULE MCTriggerCommands ---------------------------
(* A table of two words over a buffer of zeros, whose parts can be chosen  *)
(* by length; the parameters of the sequence and of the tap may be spoilt. *)
EXTENDS TriggerCommands

OneTable == {<<1, 2>>}
Spoiling == {<<"SET_SEQ", FALSE>>, <<"SET_BISS", FALSE>>, <<"CONFIGURE_BISS", TRUE>>}
NoPosts == {}
=============================================================================
