------------------------------ MODULE MCTriggerFB ------------------------------
(* Every event with a value that matters.                                  *)
EXTENDS TriggerFB

Valued == {"CONFIGURE_SEQ", "SET_SEQ", "SET_ENC", "SET_BISS",
           "SAMPLE_STATE", "CLOCK_FREQ", "CLOCK_STATE"}
AllEvents == {e \in Events : e[1] \in Valued \/ e[2]}
=============================================================================
