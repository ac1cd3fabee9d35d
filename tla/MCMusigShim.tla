------------------------------ MODULE MCMusigShim ------------------------------
(* The caller's structs are interchangeable.                               *)
EXTENDS MusigShim, TLC

MCSymmetry == Permutations(Caches) \cup Permutations(Sessions)
================================================================================
