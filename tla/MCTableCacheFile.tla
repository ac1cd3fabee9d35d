--------------------------- MODULE MCTableCacheFile ----------------------------
(* Instances of TableCacheFile for TLC: two processes of one shape and one *)
(* of another, whose files have different lengths.                         *)
EXTENDS TableCacheFile, TLC

CONSTANTS p1, p2, p3, wide, narrow

MCSize == (wide :> 3) @@ (narrow :> 2)
MCMinSize == (wide :> 2) @@ (narrow :> 2)
MCShape == (p1 :> wide) @@ (p2 :> wide) @@ (p3 :> narrow)
================================================================================
