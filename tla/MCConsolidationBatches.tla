----------------------- MODULE MCConsolidationBatches -----------------------
(* Model values for the runs of ConsolidationBatches.                      *)
EXTENDS ConsolidationBatches, TLC

CONSTANTS w1, w2

Workers == {w1, w2}
Interchangeable == Permutations(Workers)

=============================================================================
