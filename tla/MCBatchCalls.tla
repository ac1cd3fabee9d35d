--------------------------------- MODULE MCBatchCalls -------------------------------
(* BatchCalls on small batches.                                            *)
EXTENDS BatchCalls
MCCounts == {0, 4, 5}
MCHardware == {1, 3}
================================================================================
