-------------------------------- MODULE BatchVerify --------------------------------
(***************************************************************************)
(* ecdsa_batch_verify_opaque_columns() and its Schnorr twin                *)
(* (src/cpu/src/batch_verify.cpp), with the hook that hands a batch to a   *)
(* GPU (src/gpu/src/gpu_engine_hook.cpp): callers verify batches at the    *)
(* same time while the hook is installed and removed.  The hook's provider *)
(* probes for a device once and serves one caller at a time; whatever goes *)
(* wrong there is a decline, and the call goes on to the CPU.              *)
(*                                                                         *)
(* A row is valid, invalid or does not parse.  The worker pool is what     *)
(* module ParallelFor promises: TRUE exactly if every chunk is.            *)
(***************************************************************************)
EXTENDS Integers, Sequences

CONSTANTS Callers,      (* threads that verify batches                     *)
          Nobody,       (* the owner of a free mutex                       *)
          ChunkRows     (* rows the device takes at once                   *)

ASSUME BatchVerifyAssumption ==
  /\ Nobody \notin Callers /\ ChunkRows \in Nat \ {0}

VARIABLES
  hook,      (* is g_gpu_columns_hook set                                  *)
  mutex,     (* who holds g_engine_gpu_backend_mtx                         *)
  probed,    (* probed, in engine_gpu_backend()                            *)
  backend,   (* did the probe leave a backend                              *)
  batch,     (* batch[c]: the rows of c's call                             *)
  wants,     (* wants[c]: out_results is not null                          *)
  out,       (* out[c]: out_results; -1 is what a byte held before         *)
  row,       (* row[c]: the rows the device or the locate loop has done    *)
  vpc,       (* vpc[c]: where c is                                         *)
  verdict    (* verdict[c]: what c's last call returned                    *)

verifyVars == <<hook, mutex, probed, backend, batch, wants, out, row, vpc, verdict>>
provider == <<mutex, probed, backend>>
arguments == <<batch, wants>>

RowKinds == {"valid", "invalid", "unparsable"}
Filled(c, byte) == [i \in DOMAIN batch[c] |-> byte]
AllValid(c) == \A i \in DOMAIN batch[c] : batch[c][i] = "valid"
RowByte(c, i) == IF batch[c][i] = "valid" THEN 1 ELSE 0

Go(c, place) == vpc' = [vpc EXCEPT ![c] = place]
Return(c, result) ==
  /\ Go(c, "done") /\ verdict' = [verdict EXCEPT ![c] = result]
  /\ row' = [row EXCEPT ![c] = 0]

(* The provider is linked and has installed its hook.                      *)
VerifyInit ==
  /\ hook = TRUE /\ mutex = Nobody /\ probed = FALSE /\ backend = FALSE
  /\ batch = [c \in Callers |-> <<>>] /\ wants = [c \in Callers |-> TRUE]
  /\ out = [c \in Callers |-> <<>>] /\ row = [c \in Callers |-> 0]
  /\ vpc = [c \in Callers |-> "idle"] /\ verdict = [c \in Callers |-> FALSE]

-----------------------------------------------------------------------------
(* install_gpu_columns_verify_hook(): it is removed, or installed again.   *)
InstallHook ==
  /\ hook' = ~hook
  /\ UNCHANGED <<provider, arguments, out, row, vpc, verdict>>

(* A call that is refused, its columns null or too long: no row of it can  *)
(* be read, and all its results are zeroed.                                *)
VerifyRefused(c, n, results) ==
  /\ vpc[c] \in {"idle", "done"} /\ n > 0
  /\ batch' = [batch EXCEPT ![c] = [i \in 1..n |-> "unparsable"]]
  /\ wants' = [wants EXCEPT ![c] = results]
  /\ out' = [out EXCEPT ![c] = [i \in 1..n |-> IF results THEN 0 ELSE -1]]
  /\ Return(c, FALSE)
  /\ UNCHANGED <<hook, provider>>

(* A call with these rows; no rows at all verify.                          *)
VerifyCall(c, rows, results) ==
  /\ vpc[c] \in {"idle", "done"}
  /\ batch' = [batch EXCEPT ![c] = rows] /\ wants' = [wants EXCEPT ![c] = results]
  /\ out' = [out EXCEPT ![c] = [i \in DOMAIN rows |-> -1]]
  /\ IF rows = <<>> THEN Return(c, TRUE) ELSE Go(c, "load") /\ UNCHANGED <<row, verdict>>
  /\ UNCHANGED <<hook, provider>>

(* The hook is loaded once, and called even if it is removed meanwhile.    *)
LoadHook(c) ==
  /\ vpc[c] = "load"
  /\ Go(c, IF wants[c] /\ hook THEN "hook" ELSE "pool")
  /\ UNCHANGED <<hook, provider, arguments, out, row, verdict>>

-----------------------------------------------------------------------------
(* engine_gpu_columns_hook()                                               *)

(* The lock, and under it the probe, made by the first call only.  Without *)
(* a backend the call is declined.                                         *)
LockAndProbe(c) ==
  /\ vpc[c] = "hook" /\ mutex = Nobody
  /\ probed' = TRUE
  /\ backend' \in IF probed THEN {backend} ELSE BOOLEAN
  /\ IF backend' THEN mutex' = c /\ Go(c, "device") ELSE UNCHANGED mutex /\ Go(c, "pool")
  /\ UNCHANGED <<hook, arguments, out, row, verdict>>

(* gpu_columns_available() probes in the same way, and only then.          *)
AvailableQuery ==
  /\ mutex = Nobody
  /\ probed' = TRUE
  /\ backend' \in IF probed THEN {backend} ELSE BOOLEAN
  /\ UNCHANGED <<hook, mutex, arguments, out, row, vpc, verdict>>

(* The backend's verify_lbtc_columns() first zeroes the results...         *)
DeviceStart(c) ==
  /\ vpc[c] = "device"
  /\ out' = [out EXCEPT ![c] = Filled(c, 0)]
  /\ Go(c, "chunks")
  /\ UNCHANGED <<hook, provider, arguments, row, verdict>>

(* ...and then verifies and downloads each chunk.                          *)
DeviceChunk(c) ==
  /\ vpc[c] = "chunks" /\ row[c] < Len(batch[c])
  /\ out' = [out EXCEPT ![c] = [i \in DOMAIN batch[c] |->
                IF row[c] < i /\ i <= row[c] + ChunkRows THEN RowByte(c, i) ELSE out[c][i]]]
  /\ row' = [row EXCEPT ![c] = @ + ChunkRows]
  /\ UNCHANGED <<hook, provider, arguments, vpc, verdict>>

(* An operational error at any point, or an exception: a decline.          *)
DeviceFails(c) ==
  /\ vpc[c] \in {"device", "chunks"}
  /\ vpc[c] = "chunks" => row[c] < Len(batch[c])
  /\ mutex' = Nobody /\ Go(c, "pool")
  /\ row' = [row EXCEPT ![c] = 0]
  /\ UNCHANGED <<hook, probed, backend, arguments, out, verdict>>

(* The verdict of the device: are all its results set.                     *)
DeviceEnd(c) ==
  /\ vpc[c] = "chunks" /\ row[c] >= Len(batch[c])
  /\ mutex' = Nobody
  /\ Return(c, \A i \in DOMAIN batch[c] : out[c][i] # 0)
  /\ UNCHANGED <<hook, probed, backend, arguments, out>>

-----------------------------------------------------------------------------
(* verify_opaque_bounded()                                                 *)

(* The fast check of all chunks on the pool.                               *)
PoolRun(c) ==
  /\ vpc[c] = "pool"
  /\ IF AllValid(c)
       THEN /\ out' = IF wants[c] THEN [out EXCEPT ![c] = Filled(c, 1)] ELSE out
            /\ Return(c, TRUE)
       ELSE Go(c, "locate") /\ UNCHANGED <<out, row, verdict>>
  /\ UNCHANGED <<hook, provider, arguments>>

(* Broken variant: a row that does not parse is passed over.               *)
LocateSkips(c) ==
  /\ vpc[c] = "locate" /\ row[c] < Len(batch[c])
  /\ LET i == row[c] + 1 IN
       out' = IF wants[c] /\ batch[c][i] # "unparsable" THEN [out EXCEPT ![c][i] = RowByte(c, i)] ELSE out
  /\ row' = [row EXCEPT ![c] = @ + 1]
  /\ UNCHANGED <<hook, provider, arguments, vpc, verdict>>

(* One row after the other, parsed and verified alone.                     *)
Locate(c) ==
  /\ vpc[c] = "locate" /\ row[c] < Len(batch[c])
  /\ LET i == row[c] + 1 IN
       out' = IF wants[c] THEN [out EXCEPT ![c][i] = RowByte(c, i)] ELSE out
  /\ row' = [row EXCEPT ![c] = @ + 1]
  /\ UNCHANGED <<hook, provider, arguments, vpc, verdict>>

(* ok_all is what the rows said, and not what the pool said.               *)
LocateEnd(c) ==
  /\ vpc[c] = "locate" /\ row[c] >= Len(batch[c])
  /\ Return(c, AllValid(c))
  /\ UNCHANGED <<hook, provider, arguments, out>>

(* What an open call does next.                                            *)
VerifyStep(c) ==
  \/ LoadHook(c) \/ LockAndProbe(c)
  \/ DeviceStart(c) \/ DeviceChunk(c) \/ DeviceFails(c) \/ DeviceEnd(c)
  \/ PoolRun(c) \/ Locate(c) \/ LocateEnd(c)

-----------------------------------------------------------------------------
(* Every variable keeps its type; no result is written outside the batch.  *)
VerifyTypeOK ==
  /\ hook \in BOOLEAN /\ mutex \in Callers \cup {Nobody}
  /\ probed \in BOOLEAN /\ backend \in BOOLEAN
  /\ batch \in [Callers -> Seq(RowKinds)] /\ wants \in [Callers -> BOOLEAN]
  /\ DOMAIN out = Callers /\ \A c \in Callers : out[c] \in [DOMAIN batch[c] -> {-1, 0, 1}]
  /\ row \in [Callers -> Nat]
  /\ vpc \in [Callers -> {"idle", "load", "hook", "device", "chunks", "pool", "locate", "done"}]
  /\ verdict \in [Callers -> BOOLEAN]

(* The results of the first n rows are the rows.                           *)
ResultsUpTo(c, n) == \A i \in DOMAIN batch[c] : i <= n => out[c][i] = RowByte(c, i)

(* Whatever the path a call took (device, declined device, pool, locate),  *)
(* it returns TRUE exactly if every row is valid, and its results are      *)
(* exactly the rows: nothing of an earlier call or of a declined attempt.  *)
TrueVerdict == \A c \in Callers : vpc[c] = "done" =>
  /\ verdict[c] <=> AllValid(c)
  /\ wants[c] => ResultsUpTo(c, Len(batch[c]))

-----------------------------------------------------------------------------
(* The inductive invariant: the results of the rows the device or the      *)
(* locate loop is done with.                                               *)
RowsDone == \A c \in Callers :
  /\ vpc[c] \in {"hook", "device", "chunks"} => wants[c]
  /\ vpc[c] \notin {"chunks", "locate"} => row[c] = 0
  /\ vpc[c] \in {"chunks", "locate"} /\ wants[c] => ResultsUpTo(c, row[c])

VerifyInv == VerifyTypeOK /\ TrueVerdict /\ RowsDone
================================================================================
