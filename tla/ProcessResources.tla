---------------------------- MODULE ProcessResources ----------------------------
(***************************************************************************)
(* The two process-wide resources that are built on first use and can be   *)
(* released: the batch worker pool (detail/batch_pool.hpp) and the tables  *)
(* of the fused double multiplication (src/cpu/src/point.cpp), with        *)
(* release_process_resources() (src/cpu/src/process_resources.cpp).        *)
(*                                                                         *)
(* Each is an atomic pointer and a mutex taken to create and to release.   *)
(* A verification uses the tables; a batch verification uses the pool,     *)
(* whose worker (one stands for all) uses the tables for it while the      *)
(* caller does too.  Inside a job the pool is BatchPool's; what matters    *)
(* here is that run() returns after the worker is done.  The contract is   *)
(* that no other thread is in the library while one releases.              *)
(***************************************************************************)
EXTENDS Integers

CONSTANTS Users,        (* threads that call the library                   *)
          Worker,       (* the background threads of the pool              *)
          Nobody,
          MaxReleases   (* bound: calls of release_process_resources()     *)

ASSUME ResourcesAssumption ==
  /\ Worker \notin Users /\ Nobody \notin Users \cup {Worker}
  /\ MaxReleases \in Nat

Actors == Users \cup {Worker}
Kinds == {"pool", "tables"}

VARIABLES
  ptr,       (* ptr[r]: the atomic pointer, 0 for null                     *)
  init_m,    (* init_m[r]: holder of the mutex                             *)
  live,      (* live[r]: objects constructed and not deleted               *)
  built,     (* built[r]: objects constructed so far; they are numbered    *)
  at, kind,  (* what each actor does, and to which resource                *)
  held,      (* held[a][r]: the pointer the actor has                      *)
  job,       (* the user whose job the pool runs                           *)
  pending,   (* the worker still has work of that job                      *)
  releases

resourceVars == <<ptr, init_m, live, built, at, kind, held, job, pending, releases>>

Nothing == [r \in Kinds |-> 0]

ResourcesInit ==
  /\ ptr = Nothing /\ built = Nothing
  /\ init_m = [r \in Kinds |-> Nobody]
  /\ live = [r \in Kinds |-> {}]
  /\ at = [a \in Actors |-> "out"] /\ kind = [a \in Actors |-> "tables"]
  /\ held = [a \in Actors |-> Nothing]
  /\ job = Nobody /\ pending = FALSE /\ releases = 0

Step(a, to, r) == at' = [at EXCEPT ![a] = to] /\ kind' = [kind EXCEPT ![a] = r]
Goto(a, to) == at' = [at EXCEPT ![a] = to] /\ UNCHANGED kind
Takes(a, r, p) == held' = [held EXCEPT ![a][r] = p]

Releasing(a) == at[a] \in {"unpublish", "delete"}

(* verify(), or a batch verification.                                      *)
Enter(a) ==
  /\ a \in Users /\ at[a] = "out"
  /\ \A b \in Users : ~Releasing(b)
  /\ \E r \in Kinds : Step(a, "load", r)
  /\ UNCHANGED <<ptr, init_m, live, built, held, job, pending, releases>>

-----------------------------------------------------------------------------
(* batch_worker_pool() and get_dual_mul_gen_tables().                      *)

Load(a) ==
  /\ at[a] = "load"
  /\ IF ptr[kind[a]] # 0
     THEN Goto(a, "use") /\ Takes(a, kind[a], ptr[kind[a]])
     ELSE Goto(a, "lock") /\ UNCHANGED held
  /\ UNCHANGED <<ptr, init_m, live, built, job, pending, releases>>

Lock(a) ==
  /\ at[a] = "lock" /\ init_m[kind[a]] = Nobody
  /\ init_m' = [init_m EXCEPT ![kind[a]] = a]
  /\ Goto(a, "check")
  /\ UNCHANGED <<ptr, live, built, held, job, pending, releases>>

(* Broken variant: the pointer is not loaded again under the lock.         *)
CheckNothing(a) ==
  /\ at[a] = "check"
  /\ Goto(a, "build")
  /\ UNCHANGED <<ptr, init_m, live, built, held, job, pending, releases>>

Check(a) ==
  /\ at[a] = "check"
  /\ IF ptr[kind[a]] # 0
     THEN /\ Goto(a, "use") /\ Takes(a, kind[a], ptr[kind[a]])
          /\ init_m' = [init_m EXCEPT ![kind[a]] = Nobody]
     ELSE Goto(a, "build") /\ UNCHANGED <<held, init_m>>
  /\ UNCHANGED <<ptr, live, built, job, pending, releases>>

Build(a) ==
  /\ at[a] = "build"
  /\ built' = [built EXCEPT ![kind[a]] = @ + 1]
  /\ live' = [live EXCEPT ![kind[a]] = @ \cup {built[kind[a]] + 1}]
  /\ Takes(a, kind[a], built[kind[a]] + 1)
  /\ Goto(a, "store")
  /\ UNCHANGED <<ptr, init_m, job, pending, releases>>

Publish(a) ==
  /\ at[a] = "store"
  /\ ptr' = [ptr EXCEPT ![kind[a]] = held[a][kind[a]]]
  /\ init_m' = [init_m EXCEPT ![kind[a]] = Nobody]
  /\ Goto(a, "use")
  /\ UNCHANGED <<live, built, held, job, pending, releases>>

-----------------------------------------------------------------------------
(* Use.                                                                    *)

(* run(): one job at a time; the caller takes part.                        *)
RunJob(a) ==
  /\ at[a] = "use" /\ kind[a] = "pool" /\ job = Nobody
  /\ job' = a /\ pending' = TRUE
  /\ Step(a, "load", "tables")
  /\ UNCHANGED <<ptr, init_m, live, built, held, releases>>

WorkerTakes ==
  /\ pending /\ at[Worker] = "out"
  /\ Step(Worker, "load", "tables")
  /\ UNCHANGED <<ptr, init_m, live, built, held, job, pending, releases>>

Leaves(a) == Goto(a, "out") /\ held' = [held EXCEPT ![a] = Nothing]

UsedTables(a) ==
  /\ at[a] = "use" /\ kind[a] = "tables"
  /\ IF a = job THEN Goto(a, "wait") /\ UNCHANGED held ELSE Leaves(a)
  /\ pending' = (pending /\ a # Worker)
  /\ UNCHANGED <<ptr, init_m, live, built, job, releases>>

(* Broken variant: run() returns while the worker is at it.                *)
RunReturnsEarly(a) ==
  /\ at[a] = "wait"
  /\ job' = Nobody /\ Leaves(a)
  /\ UNCHANGED <<ptr, init_m, live, built, pending, releases>>

RunReturns(a) ==
  /\ at[a] = "wait" /\ ~pending
  /\ job' = Nobody /\ Leaves(a)
  /\ UNCHANGED <<ptr, init_m, live, built, pending, releases>>

-----------------------------------------------------------------------------
(* release_process_resources(): the pool, then the tables.                 *)

Release(a) ==
  /\ a \in Users /\ \A b \in Users : at[b] = "out"
  /\ releases < MaxReleases /\ releases' = releases + 1
  /\ Step(a, "unpublish", "pool")
  /\ UNCHANGED <<ptr, init_m, live, built, held, job, pending>>

(* The exchange with null, under the mutex.                                *)
Unpublish(a) ==
  /\ at[a] = "unpublish" /\ init_m[kind[a]] = Nobody
  /\ Takes(a, kind[a], ptr[kind[a]])
  /\ ptr' = [ptr EXCEPT ![kind[a]] = 0]
  /\ Goto(a, "delete")
  /\ UNCHANGED <<init_m, live, built, job, pending, releases>>

(* The destructor of the pool joins its workers.                           *)
Delete(a) ==
  /\ at[a] = "delete"
  /\ kind[a] = "pool" => at[Worker] = "out"
  /\ live' = [live EXCEPT ![kind[a]] = @ \ {held[a][kind[a]]}]
  /\ held' = [held EXCEPT ![a] = Nothing]
  /\ IF kind[a] = "pool" THEN Step(a, "unpublish", "tables") ELSE Goto(a, "out")
  /\ UNCHANGED <<ptr, init_m, built, job, pending, releases>>

ResourcesNext ==
  \/ WorkerTakes
  \/ \E a \in Actors :
       \/ Enter(a) \/ Load(a) \/ Lock(a) \/ Check(a) \/ Build(a) \/ Publish(a)
       \/ RunJob(a) \/ UsedTables(a) \/ RunReturns(a)
       \/ Release(a) \/ Unpublish(a) \/ Delete(a)

ResourcesSpec == ResourcesInit /\ [][ResourcesNext]_resourceVars

-----------------------------------------------------------------------------
(* Nobody uses an object that was deleted: the tables under a verification *)
(* or under a worker, the pool under the user whose job it runs.           *)
ResourcesAlive ==
  \A a \in Actors :
    /\ at[a] = "use" => held[a][kind[a]] \in live[kind[a]]
    /\ job = a => held[a]["pool"] \in live["pool"]

(* Built once however many threads race for the first use, and never lost: *)
(* a live object is the only one of its kind, and is published, about to   *)
(* be published or about to be deleted.  So nothing is left after a        *)
(* release, which process_resources_active() reports.                      *)
OneInstance ==
  \A r \in Kinds :
    /\ \A p \in live[r] : live[r] = {p}
    /\ \A p \in live[r] : \/ p = ptr[r]
                          \/ \E a \in Actors : /\ at[a] \in {"store", "delete"}
                                               /\ kind[a] = r /\ held[a][r] = p
================================================================================
