--------------------------- MODULE MCRequestBatch ---------------------------
(***************************************************************************)
(* RequestBatch with two workers and batches that are longer than a wave.  *)
(***************************************************************************)
EXTENDS RequestBatch

=============================================================================
