------------------------------ MODULE MCBatchPool ------------------------------
(* Instances of BatchPool for TLC: every number of pieces up to MCPieces,  *)
(* every width the callers can pass and every set of rejected pieces.      *)
EXTENDS BatchPool, TLC

CONSTANTS MCPieces, MCWidths

MCRequests == UNION {[chunks : {n}, want : MCWidths, bad : SUBSET (0..(n - 1))] :
                     n \in 0..MCPieces}

(* For liveness: a call that wants every worker, and one that leaves a     *)
(* background thread out and rejects a piece.                              *)
MCLiveRequests == {[chunks |-> 2, want |-> 3, bad |-> {}],
                   [chunks |-> 2, want |-> 2, bad |-> {0}]}

MCSymmetry == Permutations(Callers)
================================================================================
