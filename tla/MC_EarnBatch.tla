--------------------------- MODULE MC_EarnBatch ---------------------------
(* Up to five earns in sub-batches of two: three sub-batches, the last one *)
(* short, so that a failure can hit the first, a middle or the last one.   *)
EXTENDS EarnBatch

MCMaxEarns == 5
MCBatchSize == 2
=============================================================================
