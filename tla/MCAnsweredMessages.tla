------------------------- MODULE MCAnsweredMessages -------------------------
(* AnsweredMessages with more messages than the record has room for, so that *)
(* expiry, crowding out, reuse of an ID and a reopened session all happen.   *)
EXTENDS AnsweredMessages, TLC

Symmetry == Permutations(Devices)
=============================================================================
