---------------------------- MODULE MCRecordLayer ----------------------------
(* RecordLayer with a window smaller than the range of sequence numbers, so  *)
(* that records fall out of it on both sides of its boundary.                *)
EXTENDS RecordLayer
=============================================================================
