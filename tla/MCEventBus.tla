------------------------------- MODULE MCEventBus -------------------------------
(* A ring of three slots and more events than it holds.                    *)
EXTENDS EventBus

SomeTypes == {"BEGIN", "END"}
SomeBlocks == {1, 2}
=============================================================================
