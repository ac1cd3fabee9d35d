--------------------------------- MODULE BatchSign ---------------------------------
(***************************************************************************)
(* ufsecp_ecdsa_sign_batch() and ufsecp_schnorr_sign_batch(), which share  *)
(* batch_parallel() (src/cpu/src/impl/ufsecp_ecdsa.cpp): one call that     *)
(* signs every row of a batch on threads of its own.  Rows are cut into    *)
(* chunks, a thread each; the first error is kept in an atomic, and a      *)
(* thread that sees one zeroes its slots instead of signing.               *)
(*                                                                         *)
(* A slot of the output is what it held before the call ("junk"), zeros or *)
(* a signature.  What can fail is a row: its key does not parse, or its    *)
(* signature is degenerate.                                                *)
(***************************************************************************)
EXTENDS Integers

CONSTANTS Counts,              (* the batch sizes that are tried           *)
          Hardware,            (* what hardware_concurrency() may say      *)
          MayFail,             (* bound: the rows that may fail            *)
          MaxBatchN,           (* kMaxBatchN                               *)
          MaxParallelThreads   (* kMaxParallelThreads                      *)

ASSUME BatchSignAssumption ==
  /\ Counts \subseteq Nat /\ Hardware \subseteq Nat
  /\ MaxBatchN \in Nat \ {0} /\ MaxParallelThreads \in Nat \ {0}

VARIABLES
  count,      (* rows of the batch                                         *)
  hw,         (* hardware_concurrency()                                    *)
  keys,       (* keys[i]: the result of sign_one(i)                        *)
  sigs,       (* sigs64_out                                                *)
  firstErr,   (* first_err                                                 *)
  active,     (* n_active: the threads that were started                   *)
  at,         (* at[t]: the row of thread t; rows of a serial call: at[0]  *)
  worker,     (* worker[t]: where thread t is                              *)
  pc,         (* where the calling thread is                               *)
  ret         (* the result of the call                                    *)

signVars == <<count, hw, keys, sigs, firstErr, active, at, worker, pc, ret>>
input == <<count, hw, keys>>

Rows == 0..(count - 1)
Threads == 0..(MaxParallelThreads - 1)
Errors == {"BAD_KEY", "INTERNAL"}
Smaller(a, b) == IF a <= b THEN a ELSE b

Zeroed == [i \in Rows |-> "zero"]

(* n_threads, the size of a chunk, and the rows of a thread.               *)
NThreads == Smaller(IF hw > 1 THEN Smaller(hw, count) ELSE 1, MaxParallelThreads)
Chunk == (count + NThreads - 1) \div NThreads
Start(t) == t * Chunk
End(t) == Smaller(Start(t) + Chunk, count)

SignInit ==
  /\ count \in Counts /\ hw \in Hardware
  /\ keys \in [Rows -> {"OK"} \cup Errors]
  /\ \A i \in Rows \ MayFail : keys[i] = "OK"
  /\ sigs = [i \in Rows |-> "junk"]
  /\ firstErr = "OK" /\ active = 0
  /\ at = [t \in Threads |-> 0] /\ worker = [t \in Threads |-> "none"]
  /\ pc = "idle" /\ ret = "none"

-----------------------------------------------------------------------------
(* Broken variant: the output is not zeroed before it is written.          *)
SignCallKeepsOutput ==
  /\ pc = "idle"
  /\ IF count = 0 \/ count > MaxBatchN
       THEN pc' = "done" /\ ret' = "BAD_INPUT"
       ELSE pc' = (IF NThreads <= 1 THEN "serial" ELSE "spawn") /\ UNCHANGED ret
  /\ UNCHANGED <<input, sigs, firstErr, active, at, worker>>

(* An empty batch and one that is too large are refused.  Otherwise the    *)
(* whole output is zeroed first.                                           *)
SignCall ==
  /\ pc = "idle"
  /\ IF count = 0 \/ count > MaxBatchN
       THEN pc' = "done" /\ ret' = "BAD_INPUT" /\ UNCHANGED sigs
       ELSE /\ pc' = IF NThreads <= 1 THEN "serial" ELSE "spawn"
            /\ sigs' = Zeroed /\ UNCHANGED ret
  /\ UNCHANGED <<input, firstErr, active, at, worker>>

(* Broken variant: the slots before the row that failed stay signed.       *)
SerialRowKeepsSlots ==
  /\ pc = "serial" /\ at[0] < count
  /\ IF keys[at[0]] = "OK"
       THEN /\ sigs' = [sigs EXCEPT ![at[0]] = "sig"]
            /\ at' = [at EXCEPT ![0] = @ + 1]
            /\ UNCHANGED <<pc, ret>>
       ELSE pc' = "done" /\ ret' = keys[at[0]] /\ UNCHANGED <<sigs, at>>
  /\ UNCHANGED <<input, firstErr, active, worker>>

(* One row on the calling thread.  Its error ends the call and zeroes the  *)
(* output.                                                                 *)
SerialRow ==
  /\ pc = "serial" /\ at[0] < count
  /\ IF keys[at[0]] = "OK"
       THEN /\ sigs' = [sigs EXCEPT ![at[0]] = "sig"]
            /\ at' = [at EXCEPT ![0] = @ + 1]
            /\ UNCHANGED <<pc, ret>>
       ELSE sigs' = Zeroed /\ pc' = "done" /\ ret' = keys[at[0]] /\ at' = [at EXCEPT ![0] = 0]
  /\ UNCHANGED <<input, firstErr, active, worker>>

SerialEnd ==
  /\ pc = "serial" /\ at[0] >= count
  /\ pc' = "done" /\ ret' = "OK" /\ at' = [at EXCEPT ![0] = 0]
  /\ UNCHANGED <<input, sigs, firstErr, active, worker>>

(* Start one more thread, or stop when its chunk would be empty.           *)
Spawn ==
  /\ pc = "spawn" /\ active < NThreads /\ Start(active) < End(active)
  /\ worker' = [worker EXCEPT ![active] = "loop"]
  /\ at' = [at EXCEPT ![active] = Start(active)]
  /\ active' = active + 1
  /\ UNCHANGED <<input, sigs, firstErr, pc, ret>>

SpawnEnd ==
  /\ pc = "spawn" /\ (active = NThreads \/ Start(active) >= End(active))
  /\ pc' = "join"
  /\ UNCHANGED <<input, sigs, firstErr, active, at, worker, ret>>

(* The system has no thread left: std::thread throws, and the exception    *)
(* leaves the call or destroys threads that run: nothing is returned.      *)
SpawnFails ==
  /\ pc = "spawn" /\ active < NThreads /\ Start(active) < End(active)
  /\ pc' = "terminated"
  /\ UNCHANGED <<input, sigs, firstErr, active, at, worker, ret>>

-----------------------------------------------------------------------------
Running(t) == pc # "terminated" /\ worker[t] # "none"

(* The relaxed load at the head of the loop may miss an error that another *)
(* thread stores at the same time: that is the load before the store.      *)
LoadError(t) ==
  /\ Running(t) /\ worker[t] = "loop" /\ at[t] < End(t)
  /\ IF firstErr # "OK"
       THEN /\ sigs' = [sigs EXCEPT ![at[t]] = "zero"]
            /\ at' = [at EXCEPT ![t] = @ + 1] /\ UNCHANGED worker
       ELSE worker' = [worker EXCEPT ![t] = "sign"] /\ UNCHANGED <<sigs, at>>
  /\ UNCHANGED <<input, firstErr, active, pc, ret>>

(* Broken variant: an error is only stored for a key that does not parse.  *)
SignRowLosesError(t) ==
  /\ Running(t) /\ worker[t] = "sign"
  /\ IF keys[at[t]] = "OK"
       THEN /\ sigs' = [sigs EXCEPT ![at[t]] = "sig"]
            /\ at' = [at EXCEPT ![t] = @ + 1]
            /\ worker' = [worker EXCEPT ![t] = "loop"] /\ UNCHANGED firstErr
       ELSE /\ firstErr' = IF firstErr = "OK" /\ keys[at[t]] = "BAD_KEY" THEN "BAD_KEY" ELSE firstErr
            /\ worker' = [worker EXCEPT ![t] = "zeroing"] /\ UNCHANGED <<sigs, at>>
  /\ UNCHANGED <<input, active, pc, ret>>

(* sign_one(), and the exchange that keeps the first error only.           *)
SignRow(t) ==
  /\ Running(t) /\ worker[t] = "sign"
  /\ IF keys[at[t]] = "OK"
       THEN /\ sigs' = [sigs EXCEPT ![at[t]] = "sig"]
            /\ at' = [at EXCEPT ![t] = @ + 1]
            /\ worker' = [worker EXCEPT ![t] = "loop"] /\ UNCHANGED firstErr
       ELSE /\ firstErr' = IF firstErr = "OK" THEN keys[at[t]] ELSE firstErr
            /\ worker' = [worker EXCEPT ![t] = "zeroing"] /\ UNCHANGED <<sigs, at>>
  /\ UNCHANGED <<input, active, pc, ret>>

(* The rest of the chunk of a thread whose row failed.                     *)
ZeroRest(t) ==
  /\ Running(t) /\ worker[t] = "zeroing"
  /\ sigs' = [i \in Rows |-> IF at[t] < i /\ i < End(t) THEN "zero" ELSE sigs[i]]
  /\ worker' = [worker EXCEPT ![t] = "exit"]
  /\ UNCHANGED <<input, firstErr, active, at, pc, ret>>

Exit(t) ==
  /\ Running(t) /\ worker[t] = "loop" /\ at[t] >= End(t)
  /\ worker' = [worker EXCEPT ![t] = "exit"]
  /\ UNCHANGED <<input, sigs, firstErr, active, at, pc, ret>>

(* The locals of the call and the threads that have ended.                 *)
Gone ==
  /\ firstErr' = "OK" /\ active' = 0
  /\ at' = [t \in Threads |-> 0]
  /\ worker' = [t \in Threads |-> IF worker[t] = "exit" THEN "none" ELSE worker[t]]

(* Broken variant: one thread of every chunk that was planned is awaited.  *)
JoinPlanned ==
  /\ pc = "join"
  /\ \A t \in Threads : t < NThreads => worker[t] = "exit"
  /\ sigs' = IF firstErr = "OK" THEN sigs ELSE Zeroed
  /\ ret' = firstErr /\ pc' = "done"
  /\ Gone
  /\ UNCHANGED input

(* Every started thread is joined; only then the error is read.            *)
Join ==
  /\ pc = "join"
  /\ \A t \in Threads : t < active => worker[t] = "exit"
  /\ sigs' = IF firstErr = "OK" THEN sigs ELSE Zeroed
  /\ ret' = firstErr /\ pc' = "done"
  /\ Gone
  /\ UNCHANGED input

SignNext ==
  \/ SignCall \/ SerialRow \/ SerialEnd
  \/ Spawn \/ SpawnEnd \/ SpawnFails \/ Join
  \/ \E t \in Threads : LoadError(t) \/ SignRow(t) \/ ZeroRest(t) \/ Exit(t)

-----------------------------------------------------------------------------
(* Every variable keeps its type, and nothing of the old output is left    *)
(* once the rows are being signed.                                         *)
SignTypeOK ==
  /\ count \in Counts /\ hw \in Hardware
  /\ keys \in [Rows -> {"OK"} \cup Errors]
  /\ sigs \in [Rows -> {"junk", "zero", "sig"}]
  /\ firstErr \in {"OK"} \cup Errors
  /\ active \in 0..MaxParallelThreads
  /\ at \in [Threads -> 0..count]
  /\ worker \in [Threads -> {"none", "loop", "sign", "zeroing", "exit"}]
  /\ pc \in {"idle", "serial", "spawn", "join", "done", "terminated"}
  /\ ret \in {"none", "OK", "BAD_INPUT"} \cup Errors
  /\ pc # "idle" /\ ret # "BAD_INPUT" => \A i \in Rows : sigs[i] # "junk"

(* A batch is signed as a whole or not at all: OK with every slot signed,  *)
(* or the error of one of its rows with every slot zero, and no thread is  *)
(* left that could still write (the fail-closed rule of the header).       *)
FailClosed == pc = "done" /\ ret # "BAD_INPUT" =>
  /\ \/ ret = "OK" /\ \A i \in Rows : keys[i] = "OK" /\ sigs[i] = "sig"
     \/ /\ ret \in Errors /\ \E i \in Rows : keys[i] = ret
        /\ \A i \in Rows : sigs[i] = "zero"
  /\ \A t \in Threads : worker[t] = "none"

-----------------------------------------------------------------------------
(* The inductive invariant.                                                *)

(* The threads that were started share all rows before the next chunk, and *)
(* after the last of them all rows.                                        *)
Tiled ==
  /\ pc \in {"spawn", "join"} => \A i \in Rows : i < Start(active) =>
       \E t \in Threads : t < active /\ Start(t) <= i /\ i < End(t)
  /\ pc = "join" => Start(active) >= count
  /\ \A t \in Threads : t >= active => worker[t] = "none"
  /\ \A t \in Threads : worker[t] # "none" => pc \in {"spawn", "join", "terminated"}
  /\ pc \in {"serial", "spawn", "join", "terminated"} => count # 0
  /\ pc = "spawn" => active <= NThreads

(* Without an error, what is behind a thread is signed; a thread is gone   *)
(* early only with an error.                                               *)
SignedBehind ==
  /\ firstErr # "OK" => \E i \in Rows : keys[i] = firstErr
  /\ \A t \in Threads :
       /\ worker[t] = "sign" => at[t] < End(t) /\ at[t] < count
       /\ worker[t] = "zeroing" => firstErr # "OK"
       /\ worker[t] = "exit" => firstErr # "OK" \/ at[t] >= End(t)
       /\ worker[t] # "none" /\ firstErr = "OK" =>
            \A i \in Rows : Start(t) <= i /\ i < at[t] => keys[i] = "OK" /\ sigs[i] = "sig"
  /\ pc = "serial" => \A i \in Rows : i < at[0] => keys[i] = "OK" /\ sigs[i] = "sig"
  /\ pc \in {"idle", "serial"} => active = 0
  /\ pc = "idle" => at[0] = 0
  /\ pc # "done" => ret = "none"

SignInv == SignTypeOK /\ FailClosed /\ Tiled /\ SignedBehind
================================================================================
