----------------------------- MODULE BatchPoolThrow ----------------------------
(***************************************************************************)
(* BatchWorkerPool when a chunk function throws in the caller's own share  *)
(* of the work, as verify_opaque_bounded() does when its scratch vectors   *)
(* cannot grow.  run() has no handler: the exception leaves drain() and    *)
(* run(), the guard of job_m_ releases it, and neither the wait for the    *)
(* participants nor the reset of fn_ happens.  (The same exception in a    *)
(* background thread ends the process.)                                    *)
(***************************************************************************)
EXTENDS MCBatchPool

Throw(c) ==
  /\ pc[c] = "exec"
  /\ job_m' = None
  /\ Goto(c, "idle")
  /\ UNCHANGED <<m, done_m, pool, seen, tfn, idx, ghost, spurious, dtor>>

ThrowNext == Next \/ \E c \in Callers : Throw(c)

ThrowSpec == Init /\ [][ThrowNext]_vars

(* run() "Blocks until complete": when a call is over, however it ended,   *)
(* no thread still works for it.                                           *)
CompleteWhenOver == \A c \in Callers : pc[c] = "idle" =>
  \A t \in Threads : pc[t] \in Draining => tfn[t] # c
================================================================================
