------------------------------ MODULE MCHandles ------------------------------
EXTENDS Handles, TLC

CONSTANTS j1, j2

MCBloomBits == j1 :> {1, 2} @@ j2 :> {2, 3}
MCOperations == {enable_joiner, set_commissioner_dataset, command(TRUE), diagnostic_get}
=============================================================================
