------------------------------- MODULE BatchPool -------------------------------
(***************************************************************************)
(* BatchWorkerPool (src/cpu/include/secp256k1/detail/batch_pool.hpp): the  *)
(* persistent pool under every multi-threaded batch verification.          *)
(*                                                                         *)
(* One pool object, from the end of its constructor to the end of its      *)
(* destructor.  A step of the model is one lock-protected section, one     *)
(* atomic read-modify-write or one call of the chunk function.  The        *)
(* mutexes m_ and done_m_ are variables because what the condition         *)
(* variables need from them is that a waiter cannot be overtaken between   *)
(* evaluating its predicate and going to sleep.                            *)
(*                                                                         *)
(* The range [0,n) in steal-sized pieces is the set 0..chunks-1: the       *)
(* cursor next_ counts pieces, and s >= n is next >= chunks.  The chunk    *)
(* function is the set of pieces it rejects.                               *)
(***************************************************************************)
EXTENDS Integers, FiniteSets

CONSTANTS
  Callers,      (* threads that call run()                                 *)
  None,         (* no thread, no function                                  *)
  NWorkers,     (* n_workers_: the background threads and the caller       *)
  Requests,     (* the calls a caller may make                             *)
  MaxCalls,     (* bound: calls made by each caller                        *)
  MaxSpurious   (* bound: spurious wake-ups of condition variables, total  *)

Background == 1..(NWorkers - 1)       \* worker_loop(id), id = 1..n_workers_-1
Threads == Callers \cup Background

ASSUME PoolAssumption ==
  /\ NWorkers \in Nat \ {0}
  /\ Callers \cap Nat = {}
  /\ None \notin Callers \cup Nat
  /\ MaxCalls \in Nat
  /\ MaxSpurious \in Nat
  /\ Requests \subseteq [chunks : Nat, want : Nat, bad : SUBSET Nat]

VARIABLES
  pc,           (* where each thread is                                    *)
  job_m,        (* holder of job_m_                                        *)
  m,            (* holder of m_, None between lock-protected sections      *)
  done_m,       (* holder of done_m_                                       *)
  fn,           (* fn_: the caller whose chunk function it points to       *)
  chunks,       (* n_ and steal_                                           *)
  next,         (* next_                                                   *)
  ok,           (* ok_                                                     *)
  pending,      (* pending_                                                *)
  want,         (* want_                                                   *)
  gen,          (* gen_                                                    *)
  stop,         (* stop_                                                   *)
  seen,         (* seen[w]: worker w's local seen                          *)
  tfn,          (* tfn[t]: the function reference drain() took             *)
  idx,          (* idx[t]: the piece t is at                               *)
  call,         (* call[c]: the arguments of c's last run()                *)
  res,          (* res[c]: what that run() returned                        *)
  ran,          (* ran[c]: the pieces of that call already run             *)
  calls,        (* calls[c]: calls made, bounded by MaxCalls               *)
  spurious,     (* spurious wake-ups so far, bounded by MaxSpurious        *)
  dtor          (* progress of the destructor                              *)

pool   == <<fn, chunks, next, ok, pending, want, gen, stop>>
ghost  == <<call, res, ran, calls>>
vars   == <<pc, job_m, m, done_m, pool, seen, tfn, idx, ghost, spurious, dtor>>

Goto(t, to) == pc' = [pc EXCEPT ![t] = to]

Init ==
  /\ pc = [t \in Threads |-> IF t \in Callers THEN "idle" ELSE "pred"]
  /\ job_m = None /\ m = None /\ done_m = None
  /\ fn = None /\ chunks = 0 /\ next = 0 /\ ok = TRUE
  /\ pending = 0 /\ want = 0 /\ gen = 0 /\ stop = FALSE
  /\ seen = [w \in Background |-> 0]
  /\ tfn = [t \in Threads |-> None]
  /\ idx = [t \in Threads |-> 0]
  /\ call = [c \in Callers |-> [chunks |-> 0, want |-> 1, bad |-> {}]]
  /\ res = [c \in Callers |-> "none"]
  /\ ran = [c \in Callers |-> {}]
  /\ calls = [c \in Callers |-> 0]
  /\ spurious = 0
  /\ dtor = "no"

-----------------------------------------------------------------------------
(* run(): the caller's side                                                *)

Serial(r) == r.want <= 1 \/ NWorkers <= 1 \/ r.chunks <= 1

(* A thread enters run().  Release is only allowed with nobody inside, so  *)
(* no call starts once the destructor has.                                 *)
Call(c, r) ==
  /\ pc[c] = "idle" /\ dtor = "no" /\ calls[c] < MaxCalls
  /\ call' = [call EXCEPT ![c] = r]
  /\ calls' = [calls EXCEPT ![c] = @ + 1]
  /\ ran' = [ran EXCEPT ![c] = {}]
  /\ res' = [res EXCEPT ![c] = "none"]
  /\ idx' = [idx EXCEPT ![c] = 0]
  /\ Goto(c, IF Serial(r) THEN "serial" ELSE "lock")
  /\ UNCHANGED <<job_m, m, done_m, pool, seen, tfn, spurious, dtor>>

SerialChunk(c) ==
  /\ pc[c] = "serial" /\ idx[c] < call[c].chunks
  /\ ran' = [ran EXCEPT ![c] = @ \cup {idx[c]}]
  /\ idx' = [idx EXCEPT ![c] = @ + 1]
  /\ Goto(c, IF idx[c] \in call[c].bad THEN "reject" ELSE "serial")
  /\ UNCHANGED <<job_m, m, done_m, pool, seen, tfn, call, res, calls, spurious, dtor>>

SerialReturn(c) ==
  /\ \/ pc[c] = "serial" /\ idx[c] >= call[c].chunks
     \/ pc[c] = "reject"
  /\ res' = [res EXCEPT ![c] = IF pc[c] = "serial" THEN "true" ELSE "false"]
  /\ Goto(c, "idle")
  /\ UNCHANGED <<job_m, m, done_m, pool, seen, tfn, idx, call, ran, calls, spurious, dtor>>

(* One job at a time.                                                      *)
LockJob(c) ==
  /\ pc[c] = "lock" /\ job_m = None
  /\ job_m' = c
  /\ Goto(c, "post")
  /\ UNCHANGED <<m, done_m, pool, seen, tfn, idx, ghost, spurious, dtor>>

(* Broken variant: a new job inherits ok_ from the previous one.           *)
PostKeepsOk(c) ==
  /\ pc[c] = "post" /\ m = None
  /\ fn' = c
  /\ chunks' = call[c].chunks
  /\ next' = 0
  /\ want' = IF call[c].want < NWorkers THEN call[c].want ELSE NWorkers
  /\ pending' = want' - 1
  /\ gen' = gen + 1
  /\ Goto(c, "notify")
  /\ UNCHANGED <<job_m, m, done_m, ok, stop, seen, tfn, idx, ghost, spurious, dtor>>

(* The section under m_ that publishes the job.                            *)
Post(c) ==
  /\ pc[c] = "post" /\ m = None
  /\ fn' = c
  /\ chunks' = call[c].chunks
  /\ next' = 0
  /\ ok' = TRUE
  /\ want' = IF call[c].want < NWorkers THEN call[c].want ELSE NWorkers
  /\ pending' = want' - 1
  /\ gen' = gen + 1
  /\ Goto(c, "notify")
  /\ UNCHANGED <<job_m, m, done_m, stop, seen, tfn, idx, ghost, spurious, dtor>>

WakeAll(to) ==
  [t \in Threads |-> IF t \in Background /\ pc[t] = "waiting" THEN "pred"
                     ELSE IF t = to THEN "enter" ELSE pc[t]]

NotifyAll(c) ==
  /\ pc[c] = "notify"
  /\ pc' = WakeAll(c)
  /\ UNCHANGED <<job_m, m, done_m, pool, seen, tfn, idx, ghost, spurious, dtor>>

-----------------------------------------------------------------------------
(* drain(): shared by the caller and the participating workers             *)

(* Where a thread goes when drain() returns.                               *)
AfterDrain(t) == IF t \in Callers THEN "await" ELSE "dec"

DrainEnter(t) ==
  /\ pc[t] = "enter"
  /\ tfn' = [tfn EXCEPT ![t] = fn]
  /\ Goto(t, "ok")
  /\ UNCHANGED <<job_m, m, done_m, pool, seen, idx, ghost, spurious, dtor>>

DrainTestOk(t) ==
  /\ pc[t] = "ok"
  /\ Goto(t, IF ok THEN "fetch" ELSE AfterDrain(t))
  /\ UNCHANGED <<job_m, m, done_m, pool, seen, tfn, idx, ghost, spurious, dtor>>

(* Broken variant: next_ is a plain counter, and the increments of two     *)
(* threads that read it together are one increment.                        *)
DrainFetchRacy(t) ==
  /\ pc[t] = "fetch"
  /\ idx' = [idx EXCEPT ![t] = next]
  /\ next' = IF \E u \in Threads \ {t} : pc[u] = "fetch" THEN next ELSE next + 1
  /\ Goto(t, IF next >= chunks THEN AfterDrain(t) ELSE "exec")
  /\ UNCHANGED <<job_m, m, done_m, fn, chunks, ok, pending, want, gen, stop,
                 seen, tfn, ghost, spurious, dtor>>

DrainFetch(t) ==
  /\ pc[t] = "fetch"
  /\ idx' = [idx EXCEPT ![t] = next]
  /\ next' = next + 1
  /\ Goto(t, IF next >= chunks THEN AfterDrain(t) ELSE "exec")
  /\ UNCHANGED <<job_m, m, done_m, fn, chunks, ok, pending, want, gen, stop,
                 seen, tfn, ghost, spurious, dtor>>

DrainExec(t) ==
  /\ pc[t] = "exec"
  /\ ran' = [ran EXCEPT ![tfn[t]] = @ \cup {idx[t]}]
  /\ IF idx[t] \in call[tfn[t]].bad
       THEN ok' = FALSE /\ Goto(t, AfterDrain(t))
       ELSE ok' = ok /\ Goto(t, "ok")
  /\ UNCHANGED <<job_m, m, done_m, fn, chunks, next, pending, want, gen, stop,
                 seen, tfn, idx, call, res, calls, spurious, dtor>>

-----------------------------------------------------------------------------
(* run(): waiting for the workers and returning                            *)

(* Broken variants: the caller leaves when one participant is still        *)
(* running, or when all pieces have been handed out.                       *)
AwaitPredEarly(c) ==
  /\ pc[c] = "await" /\ done_m = None
  /\ IF pending <= 1
       THEN Goto(c, "clear") /\ UNCHANGED done_m
       ELSE Goto(c, "awaitblock") /\ done_m' = c
  /\ UNCHANGED <<job_m, m, pool, seen, tfn, idx, ghost, spurious, dtor>>

AwaitPredHandedOut(c) ==
  /\ pc[c] = "await" /\ done_m = None
  /\ IF pending = 0 \/ next >= chunks
       THEN Goto(c, "clear") /\ UNCHANGED done_m
       ELSE Goto(c, "awaitblock") /\ done_m' = c
  /\ UNCHANGED <<job_m, m, pool, seen, tfn, idx, ghost, spurious, dtor>>

(* cv_done_.wait: the predicate is evaluated with done_m_ held, and the    *)
(* mutex is only given up by going to sleep.                               *)
AwaitPred(c) ==
  /\ pc[c] = "await" /\ done_m = None
  /\ IF pending = 0
       THEN Goto(c, "clear") /\ UNCHANGED done_m
       ELSE Goto(c, "awaitblock") /\ done_m' = c
  /\ UNCHANGED <<job_m, m, pool, seen, tfn, idx, ghost, spurious, dtor>>

AwaitBlock(c) ==
  /\ pc[c] = "awaitblock"
  /\ Goto(c, "awaiting")
  /\ done_m' = None
  /\ UNCHANGED <<job_m, m, pool, seen, tfn, idx, ghost, spurious, dtor>>

Clear(c) ==
  /\ pc[c] = "clear" /\ m = None
  /\ fn' = None
  /\ Goto(c, "ret")
  /\ UNCHANGED <<job_m, m, done_m, chunks, next, ok, pending, want, gen, stop,
                 seen, tfn, idx, ghost, spurious, dtor>>

(* Broken variant: success is read off the cursor instead of ok_.          *)
ReturnByCursor(c) ==
  /\ pc[c] = "ret"
  /\ res' = [res EXCEPT ![c] = IF next >= chunks THEN "true" ELSE "false"]
  /\ job_m' = None
  /\ Goto(c, "idle")
  /\ UNCHANGED <<m, done_m, pool, seen, tfn, idx, call, ran, calls, spurious, dtor>>

Return(c) ==
  /\ pc[c] = "ret"
  /\ res' = [res EXCEPT ![c] = IF ok THEN "true" ELSE "false"]
  /\ job_m' = None
  /\ Goto(c, "idle")
  /\ UNCHANGED <<m, done_m, pool, seen, tfn, idx, call, ran, calls, spurious, dtor>>

-----------------------------------------------------------------------------
(* worker_loop(id)                                                         *)

(* Broken variant: id <= want_ takes one worker too many.                  *)
PredOneMore(w) ==
  /\ pc[w] = "pred" /\ m = None
  /\ \/ /\ stop
        /\ Goto(w, "exited")
        /\ UNCHANGED <<m, seen>>
     \/ /\ ~stop /\ gen # seen[w]
        /\ seen' = [seen EXCEPT ![w] = gen]
        /\ Goto(w, IF w <= want THEN "enter" ELSE "pred")
        /\ UNCHANGED m
     \/ /\ ~stop /\ gen = seen[w]
        /\ m' = w
        /\ Goto(w, "block")
        /\ UNCHANGED seen
  /\ UNCHANGED <<job_m, done_m, pool, tfn, idx, ghost, spurious, dtor>>

(* cv_start_.wait and, once it lets go, the decision to take part: all     *)
(* under m_.                                                               *)
Pred(w) ==
  /\ pc[w] = "pred" /\ m = None
  /\ \/ /\ stop
        /\ Goto(w, "exited")
        /\ UNCHANGED <<m, seen>>
     \/ /\ ~stop /\ gen # seen[w]
        /\ seen' = [seen EXCEPT ![w] = gen]
        /\ Goto(w, IF w < want THEN "enter" ELSE "pred")
        /\ UNCHANGED m
     \/ /\ ~stop /\ gen = seen[w]
        /\ m' = w
        /\ Goto(w, "block")
        /\ UNCHANGED seen
  /\ UNCHANGED <<job_m, done_m, pool, tfn, idx, ghost, spurious, dtor>>

Block(w) ==
  /\ pc[w] = "block"
  /\ m' = None
  /\ Goto(w, "waiting")
  /\ UNCHANGED <<job_m, done_m, pool, seen, tfn, idx, ghost, spurious, dtor>>

(* pending_.fetch_sub(1) == 1 decides who signals.                         *)
Dec(w) ==
  /\ pc[w] = "dec"
  /\ pending' = pending - 1
  /\ Goto(w, IF pending = 1 THEN "signal" ELSE "pred")
  /\ UNCHANGED <<job_m, m, done_m, fn, chunks, next, ok, want, gen, stop,
                 seen, tfn, idx, ghost, spurious, dtor>>

(* Broken variant: the last participant signals without done_m_.           *)
SignalUnlocked(w) ==
  /\ pc[w] = "signal"
  /\ LET asleep == {c \in Callers : pc[c] = "awaiting"} IN
     \/ /\ asleep = {}
        /\ Goto(w, "pred")
     \/ \E c \in asleep : pc' = [pc EXCEPT ![w] = "pred", ![c] = "await"]
  /\ UNCHANGED <<job_m, m, done_m, pool, seen, tfn, idx, ghost, spurious, dtor>>

(* notify_one under done_m_: some sleeping caller, if there is one.        *)
Signal(w) ==
  /\ pc[w] = "signal" /\ done_m = None
  /\ LET asleep == {c \in Callers : pc[c] = "awaiting"} IN
     \/ /\ asleep = {}
        /\ Goto(w, "pred")
     \/ \E c \in asleep : pc' = [pc EXCEPT ![w] = "pred", ![c] = "await"]
  /\ UNCHANGED <<job_m, m, done_m, pool, seen, tfn, idx, ghost, spurious, dtor>>

(* A condition variable may wake a thread that nobody notified.            *)
SpuriousWake(t) ==
  /\ pc[t] \in {"waiting", "awaiting"}
  /\ spurious < MaxSpurious
  /\ spurious' = spurious + 1
  /\ Goto(t, IF t \in Callers THEN "await" ELSE "pred")
  /\ UNCHANGED <<job_m, m, done_m, pool, seen, tfn, idx, ghost, dtor>>

-----------------------------------------------------------------------------
(* ~BatchWorkerPool, reached through release_batch_worker_pool().  Its     *)
(* precondition: no thread is inside a batch-verify call.                  *)

(* Broken variants: the pool is released while a call is in flight, and    *)
(* stop_ is set without m_.                                                *)
DtorStopInFlight ==
  /\ dtor = "no" /\ m = None
  /\ stop' = TRUE
  /\ gen' = gen + 1
  /\ dtor' = "notify"
  /\ UNCHANGED <<pc, job_m, m, done_m, fn, chunks, next, ok, pending, want,
                 seen, tfn, idx, ghost, spurious>>

DtorStopUnlocked ==
  /\ dtor = "no"
  /\ \A c \in Callers : pc[c] = "idle"
  /\ stop' = TRUE
  /\ gen' = gen + 1
  /\ dtor' = "notify"
  /\ UNCHANGED <<pc, job_m, m, done_m, fn, chunks, next, ok, pending, want,
                 seen, tfn, idx, ghost, spurious>>

DtorStop ==
  /\ dtor = "no" /\ m = None
  /\ \A c \in Callers : pc[c] = "idle"
  /\ stop' = TRUE
  /\ gen' = gen + 1
  /\ dtor' = "notify"
  /\ UNCHANGED <<pc, job_m, m, done_m, fn, chunks, next, ok, pending, want,
                 seen, tfn, idx, ghost, spurious>>

DtorNotify ==
  /\ dtor = "notify"
  /\ pc' = WakeAll(None)
  /\ dtor' = "join"
  /\ UNCHANGED <<job_m, m, done_m, pool, seen, tfn, idx, ghost, spurious>>

DtorJoin ==
  /\ dtor = "join"
  /\ \A w \in Background : pc[w] = "exited"
  /\ dtor' = "gone"
  /\ UNCHANGED <<pc, job_m, m, done_m, pool, seen, tfn, idx, ghost, spurious>>

Gone == dtor = "gone" /\ UNCHANGED vars

-----------------------------------------------------------------------------
Drain(t) == DrainEnter(t) \/ DrainTestOk(t) \/ DrainFetch(t) \/ DrainExec(t)

Run(c) ==
  \/ SerialChunk(c) \/ SerialReturn(c) \/ LockJob(c) \/ Post(c) \/ NotifyAll(c)
  \/ AwaitPred(c) \/ AwaitBlock(c) \/ Clear(c) \/ Return(c)

WorkerLoop(w) == Pred(w) \/ Block(w) \/ Dec(w) \/ Signal(w)

Dtor == DtorStop \/ DtorNotify \/ DtorJoin

Next ==
  \/ \E c \in Callers : Run(c) \/ \E r \in Requests : Call(c, r)
  \/ \E w \in Background : WorkerLoop(w)
  \/ \E t \in Threads : Drain(t) \/ SpuriousWake(t)
  \/ Dtor
  \/ Gone

Spec == Init /\ [][Next]_vars

(* Threads are scheduled and chunk functions return.  Nothing makes a      *)
(* caller call, or anybody release the pool.                               *)
Fairness ==
  /\ \A c \in Callers : WF_vars(Run(c) \/ Drain(c))
  /\ \A w \in Background : WF_vars(WorkerLoop(w) \/ Drain(w))
  /\ WF_vars(DtorNotify \/ DtorJoin)

FairSpec == Spec /\ Fairness

-----------------------------------------------------------------------------
CallerPCs == {"idle", "serial", "reject", "lock", "post", "notify", "enter",
              "ok", "fetch", "exec", "await", "awaitblock", "awaiting",
              "clear", "ret"}
WorkerPCs == {"pred", "block", "waiting", "enter", "ok", "fetch", "exec",
              "dec", "signal", "exited"}
Draining == {"ok", "fetch", "exec"}

(* Every variable keeps its type; in particular pending_ never wraps.      *)
TypeOK ==
  /\ pc \in [Threads -> CallerPCs \cup WorkerPCs]
  /\ \A c \in Callers : pc[c] \in CallerPCs
  /\ \A w \in Background : pc[w] \in WorkerPCs
  /\ job_m \in Callers \cup {None}
  /\ m \in Background \cup {None}
  /\ done_m \in Callers \cup {None}
  /\ fn \in Callers \cup {None}
  /\ chunks \in Nat /\ next \in Nat /\ ok \in BOOLEAN
  /\ pending \in Nat /\ want \in Nat /\ gen \in Nat /\ stop \in BOOLEAN
  /\ seen \in [Background -> Nat]
  /\ tfn \in [Threads -> Callers \cup {None}]
  /\ idx \in [Threads -> Nat]
  /\ call \in [Callers -> [chunks : Nat, want : Nat, bad : SUBSET Nat]]
  /\ res \in [Callers -> {"none", "true", "false"}]
  /\ ran \in [Callers -> SUBSET Nat]
  /\ calls \in [Callers -> 0..MaxCalls]
  /\ spurious \in 0..MaxSpurious
  /\ dtor \in {"no", "notify", "join", "gone"}

(* A thread inside drain() works for a call that is still inside run(),    *)
(* and it is the one the pool's state describes: neither fn_ nor the       *)
(* caller's stack can disappear under a worker ("Blocks until complete").  *)
NoDanglingFunction ==
  \A t \in Threads : pc[t] \in Draining =>
    /\ tfn[t] \in Callers
    /\ fn = tfn[t] /\ job_m = tfn[t]
    /\ pc[tfn[t]] \in Draining \cup {"notify", "enter", "await", "awaitblock", "awaiting"}

(* Every piece is run by at most one thread, once.                         *)
NoPieceTwice ==
  \A t \in Threads : pc[t] = "exec" =>
    /\ idx[t] \notin ran[tfn[t]]
    /\ idx[t] < call[tfn[t]].chunks
    /\ \A u \in Threads \ {t} : pc[u] = "exec" => idx[u] # idx[t]

(* The answer does not depend on the threads: TRUE means that every piece  *)
(* was run and accepted, FALSE that a rejected piece was run (fail-closed, *)
(* and identical to a serial run).                                         *)
AnswerIsSerial ==
  \A c \in Callers :
    /\ res[c] = "true" => /\ ran[c] = 0..(call[c].chunks - 1)
                          /\ ran[c] \cap call[c].bad = {}
    /\ res[c] = "false" => ran[c] \cap call[c].bad # {}

(* The job fields are rewritten only when no worker can be reading them    *)
(* outside m_: a posted job finds every background thread out of drain().  *)
QuietAtPost ==
  (\E c \in Callers : pc[c] \in {"post", "clear", "ret"}) =>
    \A w \in Background : pc[w] \notin Draining \cup {"enter", "dec"}

(* The destructor never joins a worker that still has a job.               *)
NoJobAtJoin ==
  dtor # "no" => \A t \in Threads : pc[t] \notin Draining \cup {"enter", "dec"}

-----------------------------------------------------------------------------
(* The inductive invariant behind the safety properties (BatchPool_proofs) *)

Busy  == Draining \cup {"enter", "dec"}
Live  == Draining \cup {"notify", "enter", "await", "awaitblock", "awaiting"}
InJob == Live \cup {"post", "clear", "ret"}

(* The participants that have not counted themselves down yet.             *)
Owed == {w \in Background : w < want /\ (seen[w] # gen \/ pc[w] \in Busy)}

(* job_m_ is held from the lock to the return, fn_ is the holder's, and a  *)
(* busy worker is a participant of the live job.                           *)
JobInv ==
  /\ \A c \in Callers : pc[c] \in InJob <=> job_m = c
  /\ \A c \in Callers : pc[c] \in Live \cup {"clear"} => fn = c
  /\ \A c \in Callers : pc[c] \in Live \cup {"clear", "ret"} => chunks = call[c].chunks
  /\ \A w \in Background : pc[w] \in Busy =>
       /\ fn \in Callers /\ pc[fn] \in Live
       /\ w < want /\ seen[w] = gen
  /\ \A t \in Threads : pc[t] \in Draining => tfn[t] = fn
  /\ \A c \in Callers : pc[c] \in InJob \cup {"lock"} => ~Serial(call[c])

(* pending_ counts the participants still owed, and is zero outside a job. *)
PendingInv ==
  /\ \A w \in Background : seen[w] <= gen
  /\ ~stop => pending = Cardinality(Owed)
  /\ pending # 0 => job_m \in Callers /\ pc[job_m] \in Live

(* The pieces below the cursor have been run or are being run, and ok_     *)
(* says whether a rejected one has been run.                               *)
HandedOut ==
  \A c \in Callers : pc[c] \in Live \cup {"clear", "ret"} =>
    /\ \A i \in ran[c] : i < next /\ i < chunks
    /\ \A i \in 0..(next - 1) : i < chunks =>
         i \in ran[c] \/ \E t \in Threads : pc[t] = "exec" /\ idx[t] = i
    /\ ok <=> ran[c] \cap call[c].bad = {}

(* A piece being run was handed to that thread alone.                      *)
Claimed ==
  \A t \in Threads : pc[t] = "exec" =>
    /\ idx[t] < next /\ idx[t] < chunks /\ idx[t] \notin ran[fn]
    /\ \A u \in Threads \ {t} : pc[u] = "exec" => idx[u] # idx[t]

(* The caller leaves drain() only when there is nothing left to hand out.  *)
Exhausted ==
  \A c \in Callers : pc[c] \in {"await", "awaitblock", "awaiting", "clear", "ret"} =>
    ~ok \/ next >= chunks

Untouched == \A c \in Callers : pc[c] \in {"lock", "post"} => ran[c] = {}

SerialInv ==
  /\ \A c \in Callers : pc[c] = "serial" =>
       /\ ran[c] = 0..(idx[c] - 1) /\ idx[c] <= call[c].chunks
       /\ ran[c] \cap call[c].bad = {}
  /\ \A c \in Callers : pc[c] = "reject" => ran[c] \cap call[c].bad # {}

AnswerInv == \A c \in Callers : pc[c] # "idle" => res[c] = "none"

DtorInv ==
  /\ stop <=> dtor # "no"
  /\ stop => \A c \in Callers : pc[c] = "idle"

IInv == /\ TypeOK /\ JobInv /\ PendingInv
        /\ HandedOut /\ Claimed /\ Exhausted /\ Untouched
        /\ SerialInv /\ AnswerIsSerial /\ AnswerInv /\ DtorInv

-----------------------------------------------------------------------------
(* Every call returns, however the workers sleep and wake.                 *)
EveryCallReturns == \A c \in Callers : pc[c] # "idle" ~> pc[c] = "idle"

(* The destructor's join comes to an end.                                  *)
ReleaseEnds == dtor # "no" ~> dtor = "gone"

(* The pool keeps what ParallelFor promises to each caller.                *)
Promise == INSTANCE ParallelFor WITH open <- [c \in Callers |-> pc[c] # "idle"]
ParallelForSpec == Promise!Spec
================================================================================
