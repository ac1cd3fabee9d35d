------------------------------- MODULE CombTable -------------------------------
(***************************************************************************)
(* The Lim-Lee comb of src/cpu/src/ecmult_gen_comb.cpp: its table, the     *)
(* multiplication that reads it, its cache file, and the process-wide      *)
(* context that is built under std::call_once.                             *)
(*                                                                         *)
(* Points are those of SmallGroup; OffCurve stands for coordinates that    *)
(* are no point, such as the (0, 0) left where a file ends.  The digest of *)
(* a file is the entries it was computed from.  Damage strikes the entries *)
(* or the end of a file, never its header, which no digest covers.         *)
(***************************************************************************)
EXTENDS SmallGroup

CONSTANTS Bits,            (* 256: the width of a scalar                   *)
          MaxTeeth,        (* 20                                           *)
          Callers,         (* threads that use the process-wide context    *)
          OffCurve, NoFile

ASSUME CombAssumption ==
  /\ Bits \in Nat /\ Order <= 2^Bits
  /\ MaxTeeth \in 2..Bits

VARIABLES own,        (* a CombGenContext of the application               *)
          usable,     (* its last init() or load_cache() succeeded         *)
          file,       (* the cache file                                    *)
          g_comb_ctx, g_comb_once, g_comb_init_teeth,
          calling     (* what each caller does with g_comb_ctx             *)

combVars == <<own, usable, file, g_comb_ctx, g_comb_once, g_comb_init_teeth, calling>>

NotInitialized == [teeth |-> 0, spacing |-> 0, table |-> <<>>]

CombInit ==
  /\ own = NotInitialized /\ usable = FALSE /\ file = NoFile
  /\ g_comb_ctx = NotInitialized /\ g_comb_once = FALSE
  /\ g_comb_init_teeth = MaxTeeth
  /\ calling = [c \in Callers |-> "idle"]

-----------------------------------------------------------------------------
(* The table: entry i, at place i + 1, is the sum of the bases whose bits  *)
(* are set in i.                                                           *)

AcceptedTeeth == 2..MaxTeeth
Spacing(teeth) == (Bits + teeth - 1) \div teeth

Bit(k, pos) == (k \div 2^pos) % 2
LowestBit(i) == CHOOSE j \in 0..i : Bit(i, j) = 1 /\ \A l \in 0..(j - 1) : Bit(i, l) = 0

BuiltTable(teeth, spacing) ==
  LET base(j) == (2^(j * spacing)) % Order
      entry[i \in 0..(2^teeth - 1)] ==
        IF i = 0 THEN 0 ELSE Plus(entry[i - 2^LowestBit(i)], base(LowestBit(i)))
  IN  [i \in 1..2^teeth |-> entry[i - 1]]

Context(teeth) == [teeth |-> teeth, spacing |-> Spacing(teeth),
                   table |-> BuiltTable(teeth, Spacing(teeth))]

(* Broken variant: the bits past the top of the scalar wrap around.        *)
ExtractCombIndexWraps(ctx, k, b) ==
  LET bit(j) == Bit(k, (b + j * ctx.spacing) % Bits)
  IN  MapThenSumSet(LAMBDA j : 2^j * bit(j), 0..(ctx.teeth - 1))

ExtractCombIndex(ctx, k, b) ==
  LET bit(j) == IF b + j * ctx.spacing < Bits THEN Bit(k, b + j * ctx.spacing) ELSE 0
      part == [j \in 0..(ctx.teeth - 1) |-> 2^j * bit(j)]
  IN  MapThenSumSet(LAMBDA j : part[j], 0..(ctx.teeth - 1))

(* mul() passes over index 0, mul_ct() adds whatever entry 0 holds.        *)
MulCt(ctx, k) ==
  LET R[b \in 0..ctx.spacing] ==
        IF b = ctx.spacing THEN 0
        ELSE Plus(Times(2, R[b + 1]), ctx.table[ExtractCombIndex(ctx, k, b) + 1])
  IN  R[0]

Mul(ctx, k) == MulCt([ctx EXCEPT !.table[1] = 0], k)

Ready(ctx) == ctx.teeth > 0

-----------------------------------------------------------------------------
(* A context of the application and the cache file.                        *)

(* A refused number of teeth throws and leaves the context as it was.      *)
InitContext ==
  /\ \E teeth \in AcceptedTeeth : own' = Context(teeth)
  /\ usable' = TRUE
  /\ UNCHANGED <<file, g_comb_ctx, g_comb_once, g_comb_init_teeth, calling>>

SaveCache ==
  /\ Ready(own)
  /\ file' = [teeth |-> own.teeth, spacing |-> own.spacing, count |-> Len(own.table),
              entries |-> own.table, digest |-> own.table, digested |-> TRUE]
  /\ UNCHANGED <<own, usable, g_comb_ctx, g_comb_once, g_comb_init_teeth, calling>>

(* One entry changes on the disk, the file is cut, or it is deleted.       *)
Damage ==
  /\ file # NoFile
  /\ file.entries = file.digest /\ file.digested
  /\ \/ \E i \in DOMAIN file.entries, P \in Scalar \cup {OffCurve} :
          file' = [file EXCEPT !.entries[i] = P]
     \/ \E n \in 0..Len(file.entries) :
          file' = [file EXCEPT !.entries = SubSeq(@, 1, n), !.digested = FALSE]
     \/ file' = NoFile
  /\ UNCHANGED <<own, usable, g_comb_ctx, g_comb_once, g_comb_init_teeth, calling>>

HeaderAccepted ==
  /\ file # NoFile
  /\ file.teeth \in AcceptedTeeth /\ file.spacing \in 1..Bits
  /\ file.count = 2^file.teeth

(* Where the file ends early, the rest of the table is read as zeros.      *)
TableRead == [i \in 1..file.count |->
                IF i \in DOMAIN file.entries THEN file.entries[i] ELSE OffCurve]

Complete == Len(file.entries) = file.count

(* Broken variant: the digest is not compared.                             *)
CacheAcceptedUndigested ==
  /\ Complete /\ file.digested
  /\ \A i \in DOMAIN file.entries : file.entries[i] # OffCurve

CacheAccepted ==
  /\ Complete
  /\ file.digested /\ file.digest = file.entries
  /\ \A i \in DOMAIN file.entries : file.entries[i] # OffCurve

(* A missing file or a refused header leaves the context as it was.  Else  *)
(* the number of teeth is set before the entries are read, and stays when  *)
(* the table is then given up.                                             *)
LoadCache ==
  /\ HeaderAccepted
  /\ own' = [teeth |-> file.teeth, spacing |-> file.spacing,
             table |-> IF CacheAccepted \/ ~Complete THEN TableRead ELSE <<>>]
  /\ usable' = CacheAccepted
  /\ UNCHANGED <<file, g_comb_ctx, g_comb_once, g_comb_init_teeth, calling>>

-----------------------------------------------------------------------------
(* The process-wide context: a caller sets the number of teeth, or not,    *)
(* and goes through call_once().                                           *)

OwnUnchanged == UNCHANGED <<own, usable, file>>

InitCombGen(c) ==
  /\ calling[c] = "idle"
  /\ \E teeth \in 1..(MaxTeeth + 1) : g_comb_init_teeth' = teeth
  /\ calling' = [calling EXCEPT ![c] = "once"]
  /\ UNCHANGED <<g_comb_ctx, g_comb_once>> /\ OwnUnchanged

CombGenMul(c) ==
  /\ calling[c] = "idle"
  /\ calling' = [calling EXCEPT ![c] = "once"]
  /\ UNCHANGED <<g_comb_ctx, g_comb_once, g_comb_init_teeth>> /\ OwnUnchanged

(* call_once() lets one caller in; the others wait for it.                 *)
DoInitComb(c) ==
  /\ calling[c] = "once" /\ ~g_comb_once
  /\ g_comb_init_teeth \in AcceptedTeeth
  /\ g_comb_ctx' = Context(g_comb_init_teeth)
  /\ g_comb_once' = TRUE
  /\ calling' = [calling EXCEPT ![c] = "using"]
  /\ UNCHANGED g_comb_init_teeth /\ OwnUnchanged

(* init() throws: the flag stays unset and the caller gets the exception.  *)
DoInitCombThrows(c) ==
  /\ calling[c] = "once" /\ ~g_comb_once
  /\ g_comb_init_teeth \notin AcceptedTeeth
  /\ calling' = [calling EXCEPT ![c] = "idle"]
  /\ UNCHANGED <<g_comb_ctx, g_comb_once, g_comb_init_teeth>> /\ OwnUnchanged

AlreadyDone(c) ==
  /\ calling[c] = "once" /\ g_comb_once
  /\ calling' = [calling EXCEPT ![c] = "using"]
  /\ UNCHANGED <<g_comb_ctx, g_comb_once, g_comb_init_teeth>> /\ OwnUnchanged

Multiplied(c) ==
  /\ calling[c] = "using"
  /\ calling' = [calling EXCEPT ![c] = "idle"]
  /\ UNCHANGED <<g_comb_ctx, g_comb_once, g_comb_init_teeth>> /\ OwnUnchanged

CombFileNext == InitContext \/ SaveCache \/ Damage \/ LoadCache

CombOnceNext ==
  \E c \in Callers : \/ InitCombGen(c) \/ CombGenMul(c) \/ DoInitComb(c)
                     \/ DoInitCombThrows(c) \/ AlreadyDone(c) \/ Multiplied(c)

CombNext == CombFileNext \/ CombOnceNext

CombSpec == CombInit /\ [][CombNext]_combVars

-----------------------------------------------------------------------------
Multiplies(ctx) == \A k \in Scalar : Mul(ctx, k) = k /\ MulCt(ctx, k) = k

(* The table of a context whose last init() or load_cache() succeeded is   *)
(* the one that init() builds for its number of teeth, and so is the       *)
(* process-wide one for every caller that got past call_once(), whatever   *)
(* was saved, damaged, refused or raced before.                            *)
TableIsBuilt ==
  /\ usable => own.teeth \in AcceptedTeeth /\ own = Context(own.teeth)
  /\ \A c \in Callers : calling[c] = "using" =>
       g_comb_ctx.teeth \in AcceptedTeeth /\ g_comb_ctx = Context(g_comb_ctx.teeth)

(* Such a context multiplies: mul() and mul_ct() give k G for every k and  *)
(* every number of teeth, also one that does not divide the width.         *)
CombIsMultiple ==
  /\ usable => Multiplies(own)
  /\ g_comb_once => Multiplies(g_comb_ctx)

(* "Is context initialized?": a context that says it is ready has every    *)
(* entry that mul() may read (ecmult_gen_comb.hpp).                        *)
ReadyHasTable ==
  Ready(own) => /\ Len(own.table) = 2^own.teeth
                /\ \A i \in DOMAIN own.table : own.table[i] # OffCurve
================================================================================
