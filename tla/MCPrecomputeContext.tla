-------------------------- MODULE MCPrecomputeContext --------------------------
(* Instances of PrecomputeContext for TLC.                                 *)
EXTENDS PrecomputeContext, TLC

CONSTANTS w8, w8glv

(* adaptive_glv drops the psi tables of a window below glv_min_window_bits *)
MCAdapt == [s \in Shapes |-> IF s = w8glv THEN w8 ELSE s]
================================================================================
