------------------------------ MODULE ParallelFor ------------------------------
(***************************************************************************)
(* What BatchWorkerPool::run promises to its callers, without threads,     *)
(* locks or chunks handed out by a cursor: a call names a range cut in     *)
(* chunks, every chunk is run at most once while the call is open, and the *)
(* answer is TRUE exactly when every chunk was run and none was rejected,  *)
(* FALSE only when a rejected chunk was run.                               *)
(***************************************************************************)
EXTENDS Integers

CONSTANTS Callers,    (* threads that call run()                           *)
          Requests,   (* [chunks, want, bad] records a caller may ask for  *)
          MaxCalls    (* how many calls a caller makes                     *)

VARIABLES open,       (* open[c]: c is inside run()                        *)
          call,       (* call[c]: the request of c's last call             *)
          calls,      (* calls[c]: number of calls c has made              *)
          ran,        (* ran[c]: the chunks of that call already run       *)
          res         (* res[c]: the answer of c's last call               *)

vars == <<open, call, calls, ran, res>>

Init ==
  /\ open = [c \in Callers |-> FALSE]
  /\ call = [c \in Callers |-> [chunks |-> 0, want |-> 1, bad |-> {}]]
  /\ calls = [c \in Callers |-> 0]
  /\ ran = [c \in Callers |-> {}]
  /\ res = [c \in Callers |-> "none"]

Call(c, r) ==
  /\ ~open[c]
  /\ calls[c] < MaxCalls
  /\ open' = [open EXCEPT ![c] = TRUE]
  /\ call' = [call EXCEPT ![c] = r]
  /\ calls' = [calls EXCEPT ![c] = @ + 1]
  /\ ran' = [ran EXCEPT ![c] = {}]
  /\ res' = [res EXCEPT ![c] = "none"]

RunChunk(c, i) ==
  /\ open[c]
  /\ i < call[c].chunks
  /\ i \notin ran[c]
  /\ ran' = [ran EXCEPT ![c] = @ \cup {i}]
  /\ UNCHANGED <<open, call, calls, res>>

ReturnTrue(c) ==
  /\ open[c]
  /\ ran[c] = 0..(call[c].chunks - 1)
  /\ ran[c] \cap call[c].bad = {}
  /\ open' = [open EXCEPT ![c] = FALSE]
  /\ res' = [res EXCEPT ![c] = "true"]
  /\ UNCHANGED <<call, calls, ran>>

ReturnFalse(c) ==
  /\ open[c]
  /\ ran[c] \cap call[c].bad # {}
  /\ open' = [open EXCEPT ![c] = FALSE]
  /\ res' = [res EXCEPT ![c] = "false"]
  /\ UNCHANGED <<call, calls, ran>>

Next ==
  \E c \in Callers :
    \/ \E r \in Requests : Call(c, r)
    \/ \E i \in 0..(call[c].chunks - 1) : RunChunk(c, i)
    \/ ReturnTrue(c)
    \/ ReturnFalse(c)

Spec == Init /\ [][Next]_vars
================================================================================
