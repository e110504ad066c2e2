--------------------------- MODULE MCBatchRunner ---------------------------
(* Small instances of the batch runner for TLC. *)
EXTENDS BatchRunner, TLC

\* Batch ids are drawn at random and workers are alike: sound for safety.
Interchangeable == Permutations(Batches) \cup Permutations(Workers)
=============================================================================
