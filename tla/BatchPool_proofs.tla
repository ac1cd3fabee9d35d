---------------------------- MODULE BatchPool_proofs ----------------------------
(***************************************************************************)
(* Proofs about BatchPool: IInv is inductive (one lemma per action), the   *)
(* safety properties follow from it, and the pool implements ParallelFor.  *)
(***************************************************************************)
EXTENDS BatchPool, FiniteSetTheorems, TLAPS

(* The kinds of threads are disjoint, and the parameters are numbers. *)
LEMMA ThreadFacts ==
  /\ Callers \cap Background = {} /\ Background \subseteq Nat
  /\ None \notin Callers /\ None \notin Background
  /\ MaxCalls \in Nat /\ MaxSpurious \in Nat /\ NWorkers \in Nat
BY PoolAssumption DEF Background

(* A request is a record of a length, a width and the rejected pieces. *)
LEMMA RequestFacts ==
  ASSUME NEW r \in Requests
  PROVE  r \in [chunks : Nat, want : Nat, bad : SUBSET Nat]
BY PoolAssumption

(* The size of 1..k. *)
LEMMA IntervalCardinality ==
  ASSUME NEW k \in Nat
  PROVE  Cardinality(1..k) = k
<1>1. Cardinality(1..k) = IF 1 > k THEN 0 ELSE k - 1 + 1
  BY FS_Interval
<1> QED BY <1>1

USE ThreadFacts DEF Threads, CallerPCs, WorkerPCs, Draining, Busy, Live, InJob

(* A thread in drain() works on the live job. *)
LEMMA DrainFacts ==
  ASSUME TypeOK, JobInv, NEW t \in Threads, pc[t] \in Draining \cup {"enter"}
  PROVE  /\ fn \in Callers /\ pc[fn] \in Live /\ job_m = fn
         /\ pc[t] \in Draining => tfn[t] = fn
BY DEF TypeOK, JobInv

(* A positive count of owed participants means that there is one. *)
LEMMA OwedFacts ==
  ASSUME TypeOK
  PROVE  /\ IsFiniteSet(Owed)
         /\ Cardinality(Owed) \in Nat
         /\ Cardinality(Owed) = 0 <=> Owed = {}
<1>1. IsFiniteSet(Background)
  BY FS_Interval DEF Background
<1>2. IsFiniteSet(Owed)
  BY <1>1, FS_Subset DEF Owed
<1> QED BY <1>2, FS_CardinalityType, FS_EmptySet

(* With pending_ zero no participant is busy. *)
LEMMA NoBusy ==
  ASSUME IInv, pending = 0
  PROVE  \A w \in Background : pc[w] \notin Busy
<1> SUFFICES ASSUME NEW w \in Background, pc[w] \in Busy PROVE FALSE
  OBVIOUS
<1>1. w \in Owed
  BY DEF IInv, JobInv, Owed
<1>2. ~stop
  BY DEF IInv, JobInv, DtorInv
<1> QED BY <1>1, <1>2, OwedFacts DEF IInv, PendingInv

(* The participant that counts down was still owed. *)
LEMMA DecOwed ==
  ASSUME IInv, NEW w \in Background, pc[w] = "dec"
  PROVE  w \in Owed /\ ~stop /\ pending = Cardinality(Owed) /\ pending # 0
<1>1. w \in Owed
  BY DEF IInv, JobInv, Owed
<1>2. ~stop
  BY DEF IInv, JobInv, DtorInv
<1> QED BY <1>1, <1>2, OwedFacts DEF IInv, PendingInv

(* IInv is kept by a caller entering run(). *)
LEMMA CallStep ==
  ASSUME IInv, NEW c \in Callers, NEW r \in Requests, Call(c, r)
  PROVE  IInv'
<1> USE DEF Call, Serial, Goto, pool, ghost
<1>1. TypeOK'
  BY RequestFacts DEF IInv, TypeOK
<1>2. JobInv'
  BY DEF IInv, TypeOK, JobInv, DtorInv
<1>3. PendingInv'
  <2>1. Owed' = Owed
    BY DEF IInv, TypeOK, JobInv, Owed
  <2>2. QED BY <2>1 DEF IInv, TypeOK, JobInv, PendingInv, DtorInv
<1>4. HandedOut'
  BY DEF IInv, TypeOK, JobInv, HandedOut
<1>5. Claimed'
  BY DEF IInv, TypeOK, JobInv, Claimed
<1>6. Exhausted'
  BY DEF IInv, TypeOK, JobInv, Exhausted
<1>7. Untouched'
  BY DEF IInv, TypeOK, JobInv, Untouched
<1>8. SerialInv'
  <2>1. ASSUME NEW d \in Callers, d # c PROVE pc'[d] = pc[d] /\ idx'[d] = idx[d] /\ ran'[d] = ran[d] /\ call'[d] = call[d]
    BY <2>1 DEF IInv, TypeOK
  <2>2. pc'[c] # "reject" /\ idx'[c] = 0 /\ ran'[c] = {} /\ call'[c] = r
    BY DEF IInv, TypeOK
  <2>3. r.chunks \in Nat
    BY RequestFacts
  <2>4. /\ ran'[c] = 0..(idx'[c] - 1) /\ idx'[c] <= call'[c].chunks
        /\ ran'[c] \cap call'[c].bad = {}
    <3>1. 0..(0 - 1) = {}
      OBVIOUS
    <3>2. ran'[c] = 0..(idx'[c] - 1) /\ ran'[c] \cap call'[c].bad = {}
      BY <2>2, <3>1
    <3> QED BY <2>2, <2>3, <3>2
  <2> QED BY <2>1, <2>2, <2>4 DEF IInv, SerialInv
<1>9. AnswerIsSerial'
  BY DEF IInv, TypeOK, JobInv, SerialInv, AnswerIsSerial, AnswerInv
<1>10. AnswerInv'
  BY DEF IInv, TypeOK, AnswerInv
<1>11. DtorInv'
  BY DEF IInv, TypeOK, DtorInv
<1> QED BY <1>1, <1>2, <1>3, <1>4, <1>5, <1>6, <1>7, <1>8, <1>9, <1>10, <1>11 DEF IInv

(* IInv is kept by one piece of the serial fast path. *)
LEMMA SerialChunkStep ==
  ASSUME IInv, NEW c \in Callers, SerialChunk(c)
  PROVE  IInv'
<1> USE DEF SerialChunk, Goto, pool, ghost
<1>1. TypeOK'
  BY DEF IInv, TypeOK, PendingInv
<1>2. JobInv'
  BY DEF IInv, TypeOK, JobInv, DtorInv
<1>3. PendingInv'
  <2>1. Owed' = Owed
    BY DEF IInv, TypeOK, JobInv, Owed
  <2>2. QED BY <2>1 DEF IInv, TypeOK, JobInv, PendingInv, DtorInv
<1>4. HandedOut'
  BY DEF IInv, TypeOK, JobInv, HandedOut
<1>5. Claimed'
  <2>1. ASSUME NEW t \in Threads, pc'[t] = "exec"
        PROVE  pc[t] = "exec" /\ t # c /\ idx'[t] = idx[t] /\ ran'[fn] = ran[fn]
    <3>1. pc[t] = "exec" /\ t # c
      BY <2>1 DEF IInv, TypeOK
    <3>2. fn \in Callers /\ pc[fn] \in Live
      BY <3>1, DrainFacts DEF IInv
    <3> QED BY <3>1, <3>2 DEF IInv, TypeOK
  <2> QED BY <2>1 DEF IInv, Claimed
<1>6. Exhausted'
  BY DEF IInv, TypeOK, JobInv, Exhausted
<1>7. Untouched'
  BY DEF IInv, TypeOK, JobInv, Untouched
<1>8. SerialInv'
  <2>1. ASSUME NEW d \in Callers, d # c PROVE pc'[d] = pc[d] /\ idx'[d] = idx[d] /\ ran'[d] = ran[d] /\ call'[d] = call[d]
    BY <2>1 DEF IInv, TypeOK
  <2>2. /\ idx[c] \in Nat /\ idx'[c] = idx[c] + 1 /\ call'[c] = call[c]
        /\ ran'[c] = ran[c] \cup {idx[c]} /\ call[c].chunks \in Nat
        /\ pc'[c] = IF idx[c] \in call[c].bad THEN "reject" ELSE "serial"
    BY DEF IInv, TypeOK
  <2>3. ran[c] = 0..(idx[c] - 1) /\ ran[c] \cap call[c].bad = {}
    BY DEF IInv, SerialInv
  <2>4. (0..(idx[c] - 1)) \cup {idx[c]} = 0..(idx[c] + 1 - 1)
    BY <2>2
  <2>5. CASE idx[c] \in call[c].bad
    BY <2>1, <2>2, <2>5 DEF IInv, SerialInv
  <2>6. CASE idx[c] \notin call[c].bad
    <3>1. ran'[c] = 0..(idx'[c] - 1) /\ ran'[c] \cap call[c].bad = {}
      <4>1. ran'[c] \cap call[c].bad = {}
        BY <2>2, <2>3, <2>6
      <4>2. ran'[c] = 0..(idx[c] + 1 - 1)
        BY <2>2, <2>3, <2>4
      <4> QED BY <2>2, <4>1, <4>2
    <3>2. pc'[c] = "serial" /\ idx'[c] <= call[c].chunks
      BY <2>2, <2>6
    <3> QED BY <2>1, <2>2, <3>1, <3>2 DEF IInv, SerialInv
  <2> QED BY <2>5, <2>6
<1>9. AnswerIsSerial'
  BY DEF IInv, TypeOK, JobInv, SerialInv, AnswerIsSerial, AnswerInv
<1>10. AnswerInv'
  BY DEF IInv, TypeOK, AnswerInv
<1>11. DtorInv'
  BY DEF IInv, TypeOK, DtorInv
<1> QED BY <1>1, <1>2, <1>3, <1>4, <1>5, <1>6, <1>7, <1>8, <1>9, <1>10, <1>11 DEF IInv

(* IInv is kept by the end of the serial fast path. *)
LEMMA SerialReturnStep ==
  ASSUME IInv, NEW c \in Callers, SerialReturn(c)
  PROVE  IInv'
<1> USE DEF SerialReturn, Goto, pool, ghost
<1>1. TypeOK'
  BY DEF IInv, TypeOK, PendingInv
<1>2. JobInv'
  BY DEF IInv, TypeOK, JobInv, DtorInv
<1>3. PendingInv'
  <2>1. Owed' = Owed
    BY DEF IInv, TypeOK, JobInv, Owed
  <2>2. QED BY <2>1 DEF IInv, TypeOK, JobInv, PendingInv, DtorInv
<1>4. HandedOut'
  BY DEF IInv, TypeOK, JobInv, HandedOut
<1>5. Claimed'
  BY DEF IInv, TypeOK, JobInv, Claimed
<1>6. Exhausted'
  BY DEF IInv, TypeOK, JobInv, Exhausted
<1>7. Untouched'
  BY DEF IInv, TypeOK, JobInv, Untouched
<1>8. SerialInv'
  BY DEF IInv, TypeOK, JobInv, SerialInv
<1>9. AnswerIsSerial'
  BY DEF IInv, TypeOK, JobInv, SerialInv, AnswerIsSerial, AnswerInv
<1>10. AnswerInv'
  BY DEF IInv, TypeOK, AnswerInv
<1>11. DtorInv'
  BY DEF IInv, TypeOK, DtorInv
<1> QED BY <1>1, <1>2, <1>3, <1>4, <1>5, <1>6, <1>7, <1>8, <1>9, <1>10, <1>11 DEF IInv

(* IInv is kept by taking job_m_. *)
LEMMA LockJobStep ==
  ASSUME IInv, NEW c \in Callers, LockJob(c)
  PROVE  IInv'
<1> USE DEF LockJob, Goto, pool, ghost
<1>1. TypeOK'
  BY DEF IInv, TypeOK, PendingInv
<1>2. JobInv'
  BY DEF IInv, TypeOK, JobInv, DtorInv
<1>3. PendingInv'
  <2>1. Owed' = Owed
    BY DEF IInv, TypeOK, JobInv, Owed
  <2>2. QED BY <2>1 DEF IInv, TypeOK, JobInv, PendingInv, DtorInv
<1>4. HandedOut'
  BY DEF IInv, TypeOK, JobInv, HandedOut
<1>5. Claimed'
  BY DEF IInv, TypeOK, JobInv, Claimed
<1>6. Exhausted'
  BY DEF IInv, TypeOK, JobInv, Exhausted
<1>7. Untouched'
  BY DEF IInv, TypeOK, JobInv, Untouched
<1>8. SerialInv'
  BY DEF IInv, TypeOK, SerialInv
<1>9. AnswerIsSerial'
  BY DEF IInv, TypeOK, JobInv, SerialInv, AnswerIsSerial, AnswerInv
<1>10. AnswerInv'
  BY DEF IInv, TypeOK, AnswerInv
<1>11. DtorInv'
  BY DEF IInv, TypeOK, DtorInv
<1> QED BY <1>1, <1>2, <1>3, <1>4, <1>5, <1>6, <1>7, <1>8, <1>9, <1>10, <1>11 DEF IInv

(* IInv is kept by publishing a job. *)
LEMMA PostStep ==
  ASSUME IInv, NEW c \in Callers, Post(c)
  PROVE  IInv'
<1> USE DEF Post, Goto, pool, ghost
<1>1. TypeOK'
  <2>1. want' \in Nat /\ want' >= 1 /\ pending' \in Nat
    BY DEF IInv, TypeOK, JobInv, Serial
  <2> QED BY <2>1 DEF IInv, TypeOK
<1>2. JobInv'
  BY DEF IInv, TypeOK, JobInv, DtorInv
<1>3. PendingInv'
  <2>1. want' \in Nat /\ want' >= 1 /\ want' <= NWorkers
    BY DEF IInv, TypeOK, JobInv, Serial
  <2>2. pc' = [pc EXCEPT ![c] = "notify"] /\ seen' = seen /\ \A w \in Background : seen[w] <= gen /\ seen[w] \in Nat
    BY DEF IInv, TypeOK, PendingInv
  <2>3. gen' = gen + 1 /\ gen \in Nat
    BY DEF IInv, TypeOK
  <2>4. Owed' = 1..(want' - 1)
    <3>1. \A w \in Background : seen'[w] # gen'
      <4> TAKE w \in Background
      <4>1. seen'[w] = seen[w] /\ seen[w] <= gen /\ seen[w] \in Nat
        BY <2>2
      <4> QED BY <2>3, <4>1
    <3>2. 1..(want' - 1) \subseteq Background
      BY <2>1 DEF Background
    <3>3. \A w \in Background : w < want' <=> w \in 1..(want' - 1)
      BY <2>1 DEF Background
    <3>4. Owed' = {w \in Background : w < want'}
      BY <3>1 DEF Owed
    <3> QED BY <3>2, <3>3, <3>4
  <2>5. Cardinality(Owed') = want' - 1
    <3>1. want' - 1 \in Nat
      BY <2>1
    <3> QED BY <2>4, <3>1, IntervalCardinality
  <2>6. job_m' \in Callers /\ pc'[job_m'] = "notify"
    BY DEF IInv, TypeOK, JobInv
  <2>7. \A w \in Background : seen'[w] <= gen'
    BY <2>2, <2>3
  <2> QED BY <2>5, <2>6, <2>7 DEF PendingInv
<1>4. HandedOut'
  <2>1. \A d \in Callers : pc'[d] \in Live \cup {"clear", "ret"} => d = c
    BY DEF IInv, TypeOK, JobInv
  <2>2. ran[c] = {} /\ ran' = ran /\ next' = 0 /\ ok' = TRUE /\ call' = call
    BY DEF IInv, Untouched
  <2>3. 0..(0 - 1) = {}
    OBVIOUS
  <2> QED BY <2>1, <2>2, <2>3 DEF HandedOut
<1>5. Claimed'
  BY DEF IInv, TypeOK, JobInv, Claimed
<1>6. Exhausted'
  BY DEF IInv, TypeOK, JobInv, Exhausted
<1>7. Untouched'
  BY DEF IInv, TypeOK, JobInv, Untouched
<1>8. SerialInv'
  BY DEF IInv, TypeOK, SerialInv
<1>9. AnswerIsSerial'
  BY DEF IInv, TypeOK, JobInv, SerialInv, AnswerIsSerial, AnswerInv
<1>10. AnswerInv'
  BY DEF IInv, TypeOK, AnswerInv
<1>11. DtorInv'
  BY DEF IInv, TypeOK, DtorInv
<1> QED BY <1>1, <1>2, <1>3, <1>4, <1>5, <1>6, <1>7, <1>8, <1>9, <1>10, <1>11 DEF IInv

(* IInv is kept by waking the workers for a job. *)
LEMMA NotifyAllStep ==
  ASSUME IInv, NEW c \in Callers, NotifyAll(c)
  PROVE  IInv'
<1> USE DEF NotifyAll, WakeAll, Goto, pool, ghost
<1>1. TypeOK'
  BY DEF IInv, TypeOK, PendingInv
<1>2. JobInv'
  BY DEF IInv, TypeOK, JobInv, DtorInv
<1>3. PendingInv'
  <2>1. Owed' = Owed
    BY DEF IInv, TypeOK, JobInv, Owed
  <2>2. QED BY <2>1 DEF IInv, TypeOK, JobInv, PendingInv, DtorInv
<1>4. HandedOut'
  BY DEF IInv, TypeOK, JobInv, HandedOut
<1>5. Claimed'
  BY DEF IInv, TypeOK, JobInv, Claimed
<1>6. Exhausted'
  BY DEF IInv, TypeOK, JobInv, Exhausted
<1>7. Untouched'
  BY DEF IInv, TypeOK, JobInv, Untouched
<1>8. SerialInv'
  BY DEF IInv, TypeOK, SerialInv
<1>9. AnswerIsSerial'
  BY DEF IInv, TypeOK, JobInv, SerialInv, AnswerIsSerial, AnswerInv
<1>10. AnswerInv'
  BY DEF IInv, TypeOK, AnswerInv
<1>11. DtorInv'
  BY DEF IInv, TypeOK, DtorInv
<1> QED BY <1>1, <1>2, <1>3, <1>4, <1>5, <1>6, <1>7, <1>8, <1>9, <1>10, <1>11 DEF IInv

(* IInv is kept by testing pending_ under done_m_. *)
LEMMA AwaitPredStep ==
  ASSUME IInv, NEW c \in Callers, AwaitPred(c)
  PROVE  IInv'
<1> USE DEF AwaitPred, Goto, pool, ghost
<1>1. TypeOK'
  BY DEF IInv, TypeOK, PendingInv
<1>2. JobInv'
  <2>1. CASE pending = 0
    <3>1. \A w \in Background : pc[w] \notin Busy
      BY <2>1, NoBusy DEF IInv, DtorInv
    <3> QED BY <2>1, <3>1 DEF IInv, TypeOK, JobInv
  <2>2. CASE pending # 0
    BY <2>2 DEF IInv, TypeOK, JobInv
  <2> QED BY <2>1, <2>2
<1>3. PendingInv'
  <2>1. Owed' = Owed
    BY DEF IInv, TypeOK, JobInv, Owed
  <2>2. QED BY <2>1 DEF IInv, TypeOK, JobInv, PendingInv, DtorInv
<1>4. HandedOut'
  BY DEF IInv, TypeOK, JobInv, HandedOut
<1>5. Claimed'
  BY DEF IInv, TypeOK, JobInv, Claimed
<1>6. Exhausted'
  BY DEF IInv, TypeOK, JobInv, Exhausted
<1>7. Untouched'
  BY DEF IInv, TypeOK, JobInv, Untouched
<1>8. SerialInv'
  <2>1. \A d \in Callers : pc'[d] \in {"serial", "reject"} => pc'[d] = pc[d]
    BY DEF IInv, TypeOK
  <2> QED BY <2>1 DEF IInv, SerialInv
<1>9. AnswerIsSerial'
  BY DEF IInv, TypeOK, JobInv, SerialInv, AnswerIsSerial, AnswerInv
<1>10. AnswerInv'
  BY DEF IInv, TypeOK, AnswerInv
<1>11. DtorInv'
  BY DEF IInv, TypeOK, DtorInv
<1> QED BY <1>1, <1>2, <1>3, <1>4, <1>5, <1>6, <1>7, <1>8, <1>9, <1>10, <1>11 DEF IInv

(* IInv is kept by going to sleep on cv_done_. *)
LEMMA AwaitBlockStep ==
  ASSUME IInv, NEW c \in Callers, AwaitBlock(c)
  PROVE  IInv'
<1> USE DEF AwaitBlock, Goto, pool, ghost
<1>1. TypeOK'
  BY DEF IInv, TypeOK, PendingInv
<1>2. JobInv'
  BY DEF IInv, TypeOK, JobInv, DtorInv
<1>3. PendingInv'
  <2>1. Owed' = Owed
    BY DEF IInv, TypeOK, JobInv, Owed
  <2>2. QED BY <2>1 DEF IInv, TypeOK, JobInv, PendingInv, DtorInv
<1>4. HandedOut'
  BY DEF IInv, TypeOK, JobInv, HandedOut
<1>5. Claimed'
  BY DEF IInv, TypeOK, JobInv, Claimed
<1>6. Exhausted'
  BY DEF IInv, TypeOK, JobInv, Exhausted
<1>7. Untouched'
  BY DEF IInv, TypeOK, JobInv, Untouched
<1>8. SerialInv'
  BY DEF IInv, TypeOK, SerialInv
<1>9. AnswerIsSerial'
  BY DEF IInv, TypeOK, JobInv, SerialInv, AnswerIsSerial, AnswerInv
<1>10. AnswerInv'
  BY DEF IInv, TypeOK, AnswerInv
<1>11. DtorInv'
  BY DEF IInv, TypeOK, DtorInv
<1> QED BY <1>1, <1>2, <1>3, <1>4, <1>5, <1>6, <1>7, <1>8, <1>9, <1>10, <1>11 DEF IInv

(* IInv is kept by clearing fn_. *)
LEMMA ClearStep ==
  ASSUME IInv, NEW c \in Callers, Clear(c)
  PROVE  IInv'
<1> USE DEF Clear, Goto, pool, ghost
<1>1. TypeOK'
  BY DEF IInv, TypeOK, PendingInv
<1>2. JobInv'
  BY DEF IInv, TypeOK, JobInv, DtorInv
<1>3. PendingInv'
  <2>1. Owed' = Owed
    BY DEF IInv, TypeOK, JobInv, Owed
  <2>2. QED BY <2>1 DEF IInv, TypeOK, JobInv, PendingInv, DtorInv
<1>4. HandedOut'
  BY DEF IInv, TypeOK, JobInv, HandedOut
<1>5. Claimed'
  BY DEF IInv, TypeOK, JobInv, Claimed
<1>6. Exhausted'
  BY DEF IInv, TypeOK, JobInv, Exhausted
<1>7. Untouched'
  BY DEF IInv, TypeOK, JobInv, Untouched
<1>8. SerialInv'
  BY DEF IInv, TypeOK, SerialInv
<1>9. AnswerIsSerial'
  BY DEF IInv, TypeOK, JobInv, SerialInv, AnswerIsSerial, AnswerInv
<1>10. AnswerInv'
  BY DEF IInv, TypeOK, AnswerInv
<1>11. DtorInv'
  BY DEF IInv, TypeOK, DtorInv
<1> QED BY <1>1, <1>2, <1>3, <1>4, <1>5, <1>6, <1>7, <1>8, <1>9, <1>10, <1>11 DEF IInv

(* IInv is kept by the end of run(). *)
LEMMA ReturnStep ==
  ASSUME IInv, NEW c \in Callers, Return(c)
  PROVE  IInv'
<1> USE DEF Return, Goto, pool, ghost
<1>1. TypeOK'
  BY DEF IInv, TypeOK, PendingInv
<1>2. JobInv'
  BY DEF IInv, TypeOK, JobInv, DtorInv
<1>3. PendingInv'
  <2>1. Owed' = Owed
    BY DEF IInv, TypeOK, JobInv, Owed
  <2>2. QED BY <2>1 DEF IInv, TypeOK, JobInv, PendingInv, DtorInv
<1>4. HandedOut'
  <2>1. \A d \in Callers : pc'[d] \notin Live \cup {"clear", "ret"}
    BY DEF IInv, TypeOK, JobInv
  <2> QED BY <2>1 DEF HandedOut
<1>5. Claimed'
  BY DEF IInv, TypeOK, JobInv, Claimed
<1>6. Exhausted'
  BY DEF IInv, TypeOK, JobInv, Exhausted
<1>7. Untouched'
  BY DEF IInv, TypeOK, JobInv, Untouched
<1>8. SerialInv'
  BY DEF IInv, TypeOK, SerialInv
<1>9. AnswerIsSerial'
  <2>1. \A w \in Background : pc[w] \notin Busy
    BY DEF IInv, TypeOK, JobInv
  <2>2. \A d \in Callers : pc[d] # "exec"
    BY DEF IInv, TypeOK, JobInv
  <2>3. chunks = call[c].chunks /\ chunks \in Nat /\ next \in Nat /\ ran[c] \subseteq Nat
    BY DEF IInv, TypeOK, JobInv
  <2>4. ok <=> ran[c] \cap call[c].bad = {}
    BY DEF IInv, HandedOut
  <2>5. ASSUME ok PROVE ran[c] = 0..(chunks - 1)
    <3>1. next >= chunks
      BY <2>5 DEF IInv, Exhausted
    <3>2. \A i \in 0..(chunks - 1) : i \in ran[c]
      <4> TAKE i \in 0..(chunks - 1)
      <4>1. i \in 0..(next - 1) /\ i < chunks
        BY <2>3, <3>1
      <4>2. i \in ran[c] \/ \E t \in Threads : pc[t] = "exec" /\ idx[t] = i
        BY <4>1 DEF IInv, HandedOut
      <4> QED BY <2>1, <2>2, <4>2
    <3>3. \A i \in ran[c] : i \in 0..(chunks - 1)
      BY <2>3 DEF IInv, HandedOut
    <3> QED BY <3>2, <3>3
  <2> QED BY <2>3, <2>4, <2>5 DEF IInv, TypeOK, AnswerIsSerial
<1>10. AnswerInv'
  BY DEF IInv, TypeOK, AnswerInv
<1>11. DtorInv'
  BY DEF IInv, TypeOK, DtorInv
<1> QED BY <1>1, <1>2, <1>3, <1>4, <1>5, <1>6, <1>7, <1>8, <1>9, <1>10, <1>11 DEF IInv

(* IInv is kept by a worker leaving cv_start_.wait. *)
LEMMA PredStep ==
  ASSUME IInv, NEW w \in Background, Pred(w)
  PROVE  IInv'
<1> USE DEF Pred, Goto, pool, ghost
<1>1. TypeOK'
  BY DEF IInv, TypeOK, PendingInv
<1>2. JobInv'
  <2>1. CASE stop
    BY <2>1 DEF IInv, TypeOK, JobInv
  <2>2. CASE ~stop /\ gen # seen[w] /\ w < want
    <3>1. w \in Owed
      BY <2>2 DEF Owed
    <3>2. pending # 0
      BY <2>2, <3>1, OwedFacts DEF IInv, PendingInv
    <3>3. fn \in Callers /\ pc[fn] \in Live
      BY <3>2 DEF IInv, TypeOK, JobInv, PendingInv
    <3>4. pc' = [pc EXCEPT ![w] = "enter"] /\ seen' = [seen EXCEPT ![w] = gen]
      BY <2>2 DEF IInv, TypeOK
    <3>5. w \notin Callers
      OBVIOUS
    <3> QED BY <2>2, <3>3, <3>4, <3>5 DEF IInv, TypeOK, JobInv
  <2>3. CASE ~stop /\ gen # seen[w] /\ ~(w < want)
    BY <2>3 DEF IInv, TypeOK, JobInv
  <2>4. CASE ~stop /\ gen = seen[w]
    BY <2>4 DEF IInv, TypeOK, JobInv
  <2> QED BY <2>1, <2>2, <2>3, <2>4
<1>3. PendingInv'
  <2>1. pending' = pending /\ gen' = gen /\ want' = want /\ stop' = stop
    OBVIOUS
  <2>2. \A v \in Background : seen'[v] <= gen
    BY DEF IInv, TypeOK, PendingInv
  <2>3. pending' # 0 => job_m' \in Callers /\ pc'[job_m'] \in Live
    BY DEF IInv, TypeOK, PendingInv
  <2>4. ASSUME ~stop PROVE Owed' = Owed
    <3>1. \A v \in Background \ {w} : pc'[v] = pc[v] /\ seen'[v] = seen[v]
      BY DEF IInv, TypeOK
    <3>2. w < want => (seen'[w] # gen \/ pc'[w] \in Busy <=> seen[w] # gen \/ pc[w] \in Busy)
      BY <2>4 DEF IInv, TypeOK
    <3> QED BY <2>1, <3>1, <3>2 DEF Owed
  <2> QED BY <2>1, <2>2, <2>3, <2>4 DEF IInv, PendingInv
<1>4. HandedOut'
  BY DEF IInv, TypeOK, JobInv, HandedOut
<1>5. Claimed'
  BY DEF IInv, TypeOK, JobInv, Claimed
<1>6. Exhausted'
  BY DEF IInv, TypeOK, JobInv, Exhausted
<1>7. Untouched'
  BY DEF IInv, TypeOK, JobInv, Untouched
<1>8. SerialInv'
  BY DEF IInv, TypeOK, SerialInv
<1>9. AnswerIsSerial'
  BY DEF IInv, TypeOK, JobInv, SerialInv, AnswerIsSerial, AnswerInv
<1>10. AnswerInv'
  BY DEF IInv, TypeOK, AnswerInv
<1>11. DtorInv'
  BY DEF IInv, TypeOK, DtorInv
<1> QED BY <1>1, <1>2, <1>3, <1>4, <1>5, <1>6, <1>7, <1>8, <1>9, <1>10, <1>11 DEF IInv

(* IInv is kept by a worker going to sleep. *)
LEMMA BlockStep ==
  ASSUME IInv, NEW w \in Background, Block(w)
  PROVE  IInv'
<1> USE DEF Block, Goto, pool, ghost
<1>1. TypeOK'
  BY DEF IInv, TypeOK, PendingInv
<1>2. JobInv'
  BY DEF IInv, TypeOK, JobInv, DtorInv
<1>3. PendingInv'
  <2>1. Owed' = Owed
    BY DEF IInv, TypeOK, JobInv, Owed
  <2>2. QED BY <2>1 DEF IInv, TypeOK, JobInv, PendingInv, DtorInv
<1>4. HandedOut'
  BY DEF IInv, TypeOK, JobInv, HandedOut
<1>5. Claimed'
  BY DEF IInv, TypeOK, JobInv, Claimed
<1>6. Exhausted'
  BY DEF IInv, TypeOK, JobInv, Exhausted
<1>7. Untouched'
  BY DEF IInv, TypeOK, JobInv, Untouched
<1>8. SerialInv'
  BY DEF IInv, TypeOK, SerialInv
<1>9. AnswerIsSerial'
  BY DEF IInv, TypeOK, JobInv, SerialInv, AnswerIsSerial, AnswerInv
<1>10. AnswerInv'
  BY DEF IInv, TypeOK, AnswerInv
<1>11. DtorInv'
  BY DEF IInv, TypeOK, DtorInv
<1> QED BY <1>1, <1>2, <1>3, <1>4, <1>5, <1>6, <1>7, <1>8, <1>9, <1>10, <1>11 DEF IInv

(* IInv is kept by a participant counting itself down. *)
LEMMA DecStep ==
  ASSUME IInv, NEW w \in Background, Dec(w)
  PROVE  IInv'
<1> USE DEF Dec, Goto, pool, ghost
<1>1. TypeOK'
  <2>1. pending # 0
    BY DecOwed
  <2> QED BY <2>1 DEF IInv, TypeOK
<1>2. JobInv'
  BY DEF IInv, TypeOK, JobInv, DtorInv
<1>3. PendingInv'
  <2>1. w \in Owed /\ ~stop /\ pending = Cardinality(Owed)
    BY DecOwed
  <2>2. pc'[w] \notin Busy /\ seen[w] = gen /\ \A v \in Background \ {w} : pc'[v] = pc[v]
    BY DEF IInv, TypeOK, JobInv
  <2>3. Owed' = Owed \ {w}
    BY <2>2 DEF Owed
  <2>4. Cardinality(Owed') = pending - 1
    <3>1. IsFiniteSet(Owed)
      BY OwedFacts DEF IInv
    <3>2. Cardinality(Owed \ {w}) = Cardinality(Owed) - 1
      BY <2>1, <3>1, FS_RemoveElement
    <3> QED BY <2>1, <2>3, <3>2
  <2>5. pending # 0
    BY DecOwed
  <2>6. job_m' \in Callers /\ pc'[job_m'] \in Live
    BY <2>5 DEF IInv, TypeOK, PendingInv
  <2> QED BY <2>4, <2>6 DEF IInv, PendingInv
<1>4. HandedOut'
  BY DEF IInv, TypeOK, JobInv, HandedOut
<1>5. Claimed'
  BY DEF IInv, TypeOK, JobInv, Claimed
<1>6. Exhausted'
  BY DEF IInv, TypeOK, JobInv, Exhausted
<1>7. Untouched'
  BY DEF IInv, TypeOK, JobInv, Untouched
<1>8. SerialInv'
  BY DEF IInv, TypeOK, SerialInv
<1>9. AnswerIsSerial'
  BY DEF IInv, TypeOK, JobInv, SerialInv, AnswerIsSerial, AnswerInv
<1>10. AnswerInv'
  BY DEF IInv, TypeOK, AnswerInv
<1>11. DtorInv'
  BY DEF IInv, TypeOK, DtorInv
<1> QED BY <1>1, <1>2, <1>3, <1>4, <1>5, <1>6, <1>7, <1>8, <1>9, <1>10, <1>11 DEF IInv

(* IInv is kept by the notify_one of the last participant. *)
LEMMA SignalStep ==
  ASSUME IInv, NEW w \in Background, Signal(w)
  PROVE  IInv'
<1> USE DEF Signal, Goto, pool, ghost
<1>1. TypeOK'
  <2>1. CASE pc' = [pc EXCEPT ![w] = "pred"]
    BY <2>1 DEF IInv, TypeOK
  <2>2. ASSUME NEW d \in Callers, pc' = [pc EXCEPT ![w] = "pred", ![d] = "await"]
        PROVE  TypeOK'
    BY <2>2 DEF IInv, TypeOK
  <2> QED BY <2>1, <2>2
<1>2. JobInv'
  BY DEF IInv, TypeOK, JobInv, DtorInv
<1>3. PendingInv'
  <2>1. Owed' = Owed
    BY DEF IInv, TypeOK, JobInv, Owed
  <2>2. QED BY <2>1 DEF IInv, TypeOK, JobInv, PendingInv, DtorInv
<1>4. HandedOut'
  BY DEF IInv, TypeOK, JobInv, HandedOut
<1>5. Claimed'
  BY DEF IInv, TypeOK, JobInv, Claimed
<1>6. Exhausted'
  BY DEF IInv, TypeOK, JobInv, Exhausted
<1>7. Untouched'
  BY DEF IInv, TypeOK, JobInv, Untouched
<1>8. SerialInv'
  BY DEF IInv, TypeOK, SerialInv
<1>9. AnswerIsSerial'
  BY DEF IInv, TypeOK, JobInv, SerialInv, AnswerIsSerial, AnswerInv
<1>10. AnswerInv'
  BY DEF IInv, TypeOK, AnswerInv
<1>11. DtorInv'
  BY DEF IInv, TypeOK, DtorInv
<1> QED BY <1>1, <1>2, <1>3, <1>4, <1>5, <1>6, <1>7, <1>8, <1>9, <1>10, <1>11 DEF IInv

(* IInv is kept by taking *fn_. *)
LEMMA DrainEnterStep ==
  ASSUME IInv, NEW t \in Threads, DrainEnter(t)
  PROVE  IInv'
<1> USE DEF DrainEnter, AfterDrain, Goto, pool, ghost
<1>1. TypeOK'
  BY DEF IInv, TypeOK, PendingInv
<1>2. JobInv'
  BY DEF IInv, TypeOK, JobInv, DtorInv
<1>3. PendingInv'
  <2>1. Owed' = Owed
    BY DEF IInv, TypeOK, JobInv, Owed
  <2>2. QED BY <2>1 DEF IInv, TypeOK, JobInv, PendingInv, DtorInv
<1>4. HandedOut'
  BY DEF IInv, TypeOK, JobInv, HandedOut
<1>5. Claimed'
  BY DEF IInv, TypeOK, JobInv, Claimed
<1>6. Exhausted'
  BY DEF IInv, TypeOK, JobInv, Exhausted
<1>7. Untouched'
  BY DEF IInv, TypeOK, JobInv, Untouched
<1>8. SerialInv'
  BY DEF IInv, TypeOK, SerialInv
<1>9. AnswerIsSerial'
  BY DEF IInv, TypeOK, JobInv, SerialInv, AnswerIsSerial, AnswerInv
<1>10. AnswerInv'
  BY DEF IInv, TypeOK, AnswerInv
<1>11. DtorInv'
  BY DEF IInv, TypeOK, DtorInv
<1> QED BY <1>1, <1>2, <1>3, <1>4, <1>5, <1>6, <1>7, <1>8, <1>9, <1>10, <1>11 DEF IInv

(* IInv is kept by the early-out test. *)
LEMMA DrainTestOkStep ==
  ASSUME IInv, NEW t \in Threads, DrainTestOk(t)
  PROVE  IInv'
<1> USE DEF DrainTestOk, AfterDrain, Goto, pool, ghost
<1>1. TypeOK'
  BY DEF IInv, TypeOK, PendingInv
<1>2. JobInv'
  BY DEF IInv, TypeOK, JobInv, DtorInv
<1>3. PendingInv'
  <2>1. Owed' = Owed
    BY DEF IInv, TypeOK, JobInv, Owed
  <2>2. QED BY <2>1 DEF IInv, TypeOK, JobInv, PendingInv, DtorInv
<1>4. HandedOut'
  BY DEF IInv, TypeOK, JobInv, HandedOut
<1>5. Claimed'
  BY DEF IInv, TypeOK, JobInv, Claimed
<1>6. Exhausted'
  BY DEF IInv, TypeOK, JobInv, Exhausted
<1>7. Untouched'
  BY DEF IInv, TypeOK, JobInv, Untouched
<1>8. SerialInv'
  BY DEF IInv, TypeOK, SerialInv
<1>9. AnswerIsSerial'
  BY DEF IInv, TypeOK, JobInv, SerialInv, AnswerIsSerial, AnswerInv
<1>10. AnswerInv'
  BY DEF IInv, TypeOK, AnswerInv
<1>11. DtorInv'
  BY DEF IInv, TypeOK, DtorInv
<1> QED BY <1>1, <1>2, <1>3, <1>4, <1>5, <1>6, <1>7, <1>8, <1>9, <1>10, <1>11 DEF IInv

(* IInv is kept by claiming a piece. *)
LEMMA DrainFetchStep ==
  ASSUME IInv, NEW t \in Threads, DrainFetch(t)
  PROVE  IInv'
<1> USE DEF DrainFetch, AfterDrain, Goto, pool, ghost
<1>1. TypeOK'
  BY DEF IInv, TypeOK, PendingInv
<1>2. JobInv'
  BY DEF IInv, TypeOK, JobInv, DtorInv
<1>3. PendingInv'
  <2>1. Owed' = Owed
    BY DEF IInv, TypeOK, JobInv, Owed
  <2>2. QED BY <2>1 DEF IInv, TypeOK, JobInv, PendingInv, DtorInv
<1>4. HandedOut'
  BY DEF IInv, TypeOK, JobInv, HandedOut
<1>5. Claimed'
  <2>1. \A u \in Threads \ {t} : pc'[u] = pc[u] /\ idx'[u] = idx[u]
    BY DEF IInv, TypeOK
  <2>2. \A u \in Threads : pc[u] = "exec" => idx[u] < next /\ idx[u] \in Nat
    BY DEF IInv, TypeOK, Claimed
  <2>3. ASSUME pc'[t] = "exec" PROVE idx'[t] = next /\ next < chunks /\ next \notin ran[fn]
    <3>1. next < chunks /\ idx'[t] = next
      BY <2>3 DEF IInv, TypeOK
    <3>2. fn \in Callers /\ pc[fn] \in Live
      BY DrainFacts DEF IInv
    <3>3. ran[fn] \subseteq Nat /\ \A i \in ran[fn] : i < next
      BY <3>2 DEF IInv, TypeOK, HandedOut
    <3> QED BY <3>1, <3>3 DEF IInv, TypeOK
  <2>4. next \in Nat /\ next' = next + 1
    BY DEF IInv, TypeOK
  <2>5. ASSUME NEW u \in Threads, pc'[u] = "exec", u # t
        PROVE  idx'[u] < next' /\ idx'[u] < chunks /\ idx'[u] \notin ran[fn]
               /\ \A v \in Threads \ {u} : pc'[v] = "exec" => idx'[v] # idx'[u]
    BY <2>1, <2>2, <2>3, <2>4, <2>5 DEF IInv, Claimed
  <2>6. ASSUME pc'[t] = "exec"
        PROVE  idx'[t] < next' /\ idx'[t] < chunks /\ idx'[t] \notin ran[fn]
               /\ \A v \in Threads \ {t} : pc'[v] = "exec" => idx'[v] # idx'[t]
    BY <2>1, <2>2, <2>3, <2>4, <2>6
  <2> QED BY <2>5, <2>6 DEF Claimed
<1>6. Exhausted'
  BY DEF IInv, TypeOK, JobInv, Exhausted
<1>7. Untouched'
  BY DEF IInv, TypeOK, JobInv, Untouched
<1>8. SerialInv'
  BY DEF IInv, TypeOK, SerialInv
<1>9. AnswerIsSerial'
  BY DEF IInv, TypeOK, JobInv, SerialInv, AnswerIsSerial, AnswerInv
<1>10. AnswerInv'
  BY DEF IInv, TypeOK, AnswerInv
<1>11. DtorInv'
  BY DEF IInv, TypeOK, DtorInv
<1> QED BY <1>1, <1>2, <1>3, <1>4, <1>5, <1>6, <1>7, <1>8, <1>9, <1>10, <1>11 DEF IInv

(* IInv is kept by one call of the chunk function. *)
LEMMA DrainExecStep ==
  ASSUME IInv, NEW t \in Threads, DrainExec(t)
  PROVE  IInv'
<1> USE DEF DrainExec, AfterDrain, Goto, pool, ghost
<1>1. TypeOK'
  <2>1. tfn[t] \in Callers /\ idx[t] \in Nat
    BY DrainFacts DEF IInv, TypeOK
  <2>2. ran' \in [Callers -> SUBSET Nat]
    BY <2>1 DEF IInv, TypeOK
  <2>3. ok' \in BOOLEAN
    BY DEF IInv, TypeOK
  <2>4. /\ pc' \in [Threads -> CallerPCs \cup WorkerPCs]
        /\ \A d \in Callers : pc'[d] \in CallerPCs
        /\ \A w \in Background : pc'[w] \in WorkerPCs
    <3>1. pc' = [pc EXCEPT ![t] = pc'[t]] /\ pc'[t] \in {"ok", IF t \in Callers THEN "await" ELSE "dec"}
      BY DEF IInv, TypeOK
    <3>2. \A d \in Callers : pc[d] \in CallerPCs /\ (d = t => pc'[d] \in CallerPCs)
      BY <3>1 DEF IInv, TypeOK
    <3>3. \A w \in Background : pc[w] \in WorkerPCs /\ (w = t => pc'[w] \in WorkerPCs)
      BY <3>1 DEF IInv, TypeOK
    <3> QED BY <3>1, <3>2, <3>3 DEF IInv, TypeOK
  <2> QED BY <2>2, <2>3, <2>4 DEF IInv, TypeOK
<1>2. JobInv'
  BY DEF IInv, TypeOK, JobInv, DtorInv
<1>3. PendingInv'
  <2>1. Owed' = Owed
    BY DEF IInv, TypeOK, JobInv, Owed
  <2>2. QED BY <2>1 DEF IInv, TypeOK, JobInv, PendingInv, DtorInv
<1>4. HandedOut'
  <2>1. tfn[t] = fn /\ fn \in Callers /\ pc[fn] \in Live /\ \A d \in Callers : pc[d] \in InJob => d = fn
    BY DrainFacts DEF IInv, JobInv
  <2>2. \A d \in Callers : pc'[d] \in Live \cup {"clear", "ret"} => d = fn
    BY <2>1 DEF IInv, TypeOK, JobInv
  <2>3. ran'[fn] = ran[fn] \cup {idx[t]} /\ idx[t] < next /\ idx[t] < chunks
    BY <2>1 DEF IInv, TypeOK, Claimed
  <2>4. \A u \in Threads \ {t} : pc'[u] = pc[u]
    BY DEF IInv, TypeOK
  <2>5. \A i \in ran'[fn] : i < next /\ i < chunks
    BY <2>1, <2>3 DEF IInv, HandedOut
  <2>6. \A i \in 0..(next - 1) : i < chunks => i \in ran'[fn] \/ \E u \in Threads : pc'[u] = "exec" /\ idx[u] = i
    BY <2>1, <2>3, <2>4 DEF IInv, HandedOut
  <2>7. ok' <=> ran'[fn] \cap call[fn].bad = {}
    <3>1. ok <=> ran[fn] \cap call[fn].bad = {}
      BY <2>1 DEF IInv, HandedOut
    <3>2. CASE idx[t] \in call[fn].bad
      <4>1. ok' = FALSE
        BY <2>1, <3>2
      <4> QED BY <2>3, <3>2, <4>1
    <3>3. CASE idx[t] \notin call[fn].bad
      <4>1. ok' = ok
        BY <2>1, <3>3
      <4> QED BY <2>3, <3>1, <3>3, <4>1
    <3> QED BY <3>2, <3>3
  <2> QED BY <2>2, <2>5, <2>6, <2>7 DEF HandedOut
<1>5. Claimed'
  <2>1. tfn[t] = fn /\ fn \in Callers /\ ran'[fn] = ran[fn] \cup {idx[t]}
    BY DrainFacts DEF IInv, TypeOK
  <2>2. \A u \in Threads : pc'[u] = "exec" => pc[u] = "exec" /\ u # t
    BY DEF IInv, TypeOK
  <2> QED BY <2>1, <2>2 DEF IInv, Claimed
<1>6. Exhausted'
  BY DEF IInv, TypeOK, JobInv, Exhausted
<1>7. Untouched'
  <2>1. tfn[t] = fn /\ fn \in Callers /\ pc[fn] \in Live
    BY DrainFacts DEF IInv
  <2>2. ASSUME NEW d \in Callers, pc'[d] \in {"lock", "post"} PROVE pc[d] = pc'[d] /\ ran'[d] = ran[d]
    BY <2>1, <2>2 DEF IInv, TypeOK
  <2> QED BY <2>2 DEF IInv, Untouched
<1>8. SerialInv'
  <2>1. tfn[t] = fn /\ fn \in Callers /\ pc[fn] \in Live
    BY DrainFacts DEF IInv
  <2>2. ASSUME NEW d \in Callers, pc'[d] \in {"serial", "reject"} PROVE pc[d] = pc'[d] /\ ran'[d] = ran[d]
    BY <2>1, <2>2 DEF IInv, TypeOK
  <2> QED BY <2>2 DEF IInv, SerialInv
<1>9. AnswerIsSerial'
  <2>1. tfn[t] = fn /\ fn \in Callers /\ pc[fn] \in Live
    BY DrainFacts DEF IInv
  <2>2. res[fn] = "none"
    BY <2>1 DEF IInv, AnswerInv
  <2>3. \A d \in Callers \ {fn} : ran'[d] = ran[d]
    BY <2>1 DEF IInv, TypeOK
  <2> QED BY <2>2, <2>3 DEF IInv, AnswerIsSerial
<1>10. AnswerInv'
  BY DEF IInv, TypeOK, AnswerInv
<1>11. DtorInv'
  BY DEF IInv, TypeOK, DtorInv
<1> QED BY <1>1, <1>2, <1>3, <1>4, <1>5, <1>6, <1>7, <1>8, <1>9, <1>10, <1>11 DEF IInv

(* IInv is kept by a spurious wake-up. *)
LEMMA SpuriousWakeStep ==
  ASSUME IInv, NEW t \in Threads, SpuriousWake(t)
  PROVE  IInv'
<1> USE DEF SpuriousWake, Goto, pool, ghost
<1>1. TypeOK'
  BY DEF IInv, TypeOK, PendingInv
<1>2. JobInv'
  BY DEF IInv, TypeOK, JobInv, DtorInv
<1>3. PendingInv'
  <2>1. Owed' = Owed
    BY DEF IInv, TypeOK, JobInv, Owed
  <2>2. QED BY <2>1 DEF IInv, TypeOK, JobInv, PendingInv, DtorInv
<1>4. HandedOut'
  BY DEF IInv, TypeOK, JobInv, HandedOut
<1>5. Claimed'
  BY DEF IInv, TypeOK, JobInv, Claimed
<1>6. Exhausted'
  BY DEF IInv, TypeOK, JobInv, Exhausted
<1>7. Untouched'
  BY DEF IInv, TypeOK, JobInv, Untouched
<1>8. SerialInv'
  BY DEF IInv, TypeOK, JobInv, SerialInv
<1>9. AnswerIsSerial'
  BY DEF IInv, TypeOK, JobInv, SerialInv, AnswerIsSerial, AnswerInv
<1>10. AnswerInv'
  BY DEF IInv, TypeOK, AnswerInv
<1>11. DtorInv'
  BY DEF IInv, TypeOK, DtorInv
<1> QED BY <1>1, <1>2, <1>3, <1>4, <1>5, <1>6, <1>7, <1>8, <1>9, <1>10, <1>11 DEF IInv

(* IInv is kept by setting stop_. *)
LEMMA DtorStopStep ==
  ASSUME IInv, DtorStop
  PROVE  IInv'
<1> USE DEF DtorStop, Goto, pool, ghost
<1>1. TypeOK'
  BY DEF IInv, TypeOK, PendingInv
<1>2. JobInv'
  BY DEF IInv, TypeOK, JobInv, DtorInv
<1>3. PendingInv'
  <2>1. pending = 0 /\ stop'
    BY DEF IInv, TypeOK, PendingInv
  <2> QED BY <2>1 DEF IInv, TypeOK, PendingInv
<1>4. HandedOut'
  BY DEF IInv, TypeOK, JobInv, HandedOut
<1>5. Claimed'
  BY DEF IInv, TypeOK, JobInv, Claimed
<1>6. Exhausted'
  BY DEF IInv, TypeOK, JobInv, Exhausted
<1>7. Untouched'
  BY DEF IInv, TypeOK, JobInv, Untouched
<1>8. SerialInv'
  BY DEF IInv, TypeOK, JobInv, SerialInv
<1>9. AnswerIsSerial'
  BY DEF IInv, TypeOK, JobInv, SerialInv, AnswerIsSerial, AnswerInv
<1>10. AnswerInv'
  BY DEF IInv, TypeOK, AnswerInv
<1>11. DtorInv'
  BY DEF IInv, TypeOK, DtorInv
<1> QED BY <1>1, <1>2, <1>3, <1>4, <1>5, <1>6, <1>7, <1>8, <1>9, <1>10, <1>11 DEF IInv

(* IInv is kept by the wake-up of the destructor. *)
LEMMA DtorNotifyStep ==
  ASSUME IInv, DtorNotify
  PROVE  IInv'
<1> USE DEF DtorNotify, WakeAll, Goto, pool, ghost
<1>1. TypeOK'
  BY DEF IInv, TypeOK, PendingInv
<1>2. JobInv'
  BY DEF IInv, TypeOK, JobInv, DtorInv
<1>3. PendingInv'
  <2>1. Owed' = Owed
    BY DEF IInv, TypeOK, JobInv, Owed
  <2>2. QED BY <2>1 DEF IInv, TypeOK, JobInv, PendingInv, DtorInv
<1>4. HandedOut'
  <2>1. \A u \in Threads : (pc'[u] \in {"pred", "waiting"} /\ pc[u] \in {"pred", "waiting"}) \/ pc'[u] = pc[u]
    BY DEF IInv, TypeOK
  <2>2. \A d \in Callers : pc'[d] = pc[d]
    BY DEF IInv, TypeOK
  <2> QED BY <2>1, <2>2 DEF IInv, HandedOut
<1>5. Claimed'
  BY DEF IInv, TypeOK, JobInv, Claimed
<1>6. Exhausted'
  BY DEF IInv, TypeOK, JobInv, Exhausted
<1>7. Untouched'
  BY DEF IInv, TypeOK, JobInv, Untouched
<1>8. SerialInv'
  BY DEF IInv, TypeOK, JobInv, SerialInv
<1>9. AnswerIsSerial'
  BY DEF IInv, TypeOK, JobInv, SerialInv, AnswerIsSerial, AnswerInv
<1>10. AnswerInv'
  BY DEF IInv, TypeOK, AnswerInv
<1>11. DtorInv'
  BY DEF IInv, TypeOK, DtorInv
<1> QED BY <1>1, <1>2, <1>3, <1>4, <1>5, <1>6, <1>7, <1>8, <1>9, <1>10, <1>11 DEF IInv

(* IInv is kept by the join of the destructor. *)
LEMMA DtorJoinStep ==
  ASSUME IInv, DtorJoin
  PROVE  IInv'
<1> USE DEF DtorJoin, Goto, pool, ghost
<1>1. TypeOK'
  BY DEF IInv, TypeOK, PendingInv
<1>2. JobInv'
  BY DEF IInv, TypeOK, JobInv, DtorInv
<1>3. PendingInv'
  <2>1. Owed' = Owed
    BY DEF IInv, TypeOK, JobInv, Owed
  <2>2. QED BY <2>1 DEF IInv, TypeOK, JobInv, PendingInv, DtorInv
<1>4. HandedOut'
  BY DEF IInv, TypeOK, JobInv, HandedOut
<1>5. Claimed'
  BY DEF IInv, TypeOK, JobInv, Claimed
<1>6. Exhausted'
  BY DEF IInv, TypeOK, JobInv, Exhausted
<1>7. Untouched'
  BY DEF IInv, TypeOK, JobInv, Untouched
<1>8. SerialInv'
  BY DEF IInv, TypeOK, JobInv, SerialInv
<1>9. AnswerIsSerial'
  BY DEF IInv, TypeOK, JobInv, SerialInv, AnswerIsSerial, AnswerInv
<1>10. AnswerInv'
  BY DEF IInv, TypeOK, AnswerInv
<1>11. DtorInv'
  BY DEF IInv, TypeOK, DtorInv
<1> QED BY <1>1, <1>2, <1>3, <1>4, <1>5, <1>6, <1>7, <1>8, <1>9, <1>10, <1>11 DEF IInv

-----------------------------------------------------------------------------
(* A new pool satisfies IInv. *)
LEMMA InitIInv == Init => IInv
<1> SUFFICES ASSUME Init PROVE IInv
  OBVIOUS
<1> USE DEF Init
<1>1. TypeOK
  <2>1. call \in [Callers -> [chunks : Nat, want : Nat, bad : SUBSET Nat]]
    OBVIOUS
  <2>2. calls \in [Callers -> 0..MaxCalls] /\ spurious \in 0..MaxSpurious
    OBVIOUS
  <2>3. /\ pc \in [Threads -> CallerPCs \cup WorkerPCs]
        /\ \A c \in Callers : pc[c] \in CallerPCs
        /\ \A w \in Background : pc[w] \in WorkerPCs
    OBVIOUS
  <2> QED BY <2>1, <2>2, <2>3 DEF TypeOK
<1>2. JobInv
  BY DEF JobInv
<1>3. PendingInv
  <2>1. Owed = {}
    BY DEF Owed
  <2>2. Cardinality(Owed) = 0
    BY <2>1, FS_EmptySet
  <2> QED BY <2>2 DEF PendingInv
<1>4. HandedOut /\ Claimed /\ Exhausted /\ Untouched
  BY DEF HandedOut, Claimed, Exhausted, Untouched
<1>5. SerialInv /\ AnswerIsSerial /\ AnswerInv /\ DtorInv
  BY DEF SerialInv, AnswerIsSerial, AnswerInv, DtorInv
<1> QED BY <1>1, <1>2, <1>3, <1>4, <1>5 DEF IInv

(* IInv only depends on the variables. *)
LEMMA StutterIInv == IInv /\ UNCHANGED vars => IInv'
<1> SUFFICES ASSUME IInv, UNCHANGED vars PROVE IInv'
  OBVIOUS
<1> USE DEF vars, pool, ghost
<1>1. Owed' = Owed
  BY DEF Owed
<1>2. TypeOK' /\ JobInv' /\ PendingInv'
  BY <1>1 DEF IInv, TypeOK, JobInv, PendingInv
<1>3. HandedOut' /\ Claimed' /\ Exhausted' /\ Untouched'
  BY DEF IInv, HandedOut, Claimed, Exhausted, Untouched
<1>4. SerialInv' /\ AnswerIsSerial' /\ AnswerInv' /\ DtorInv'
  BY DEF IInv, SerialInv, AnswerIsSerial, AnswerInv, DtorInv
<1> QED BY <1>2, <1>3, <1>4 DEF IInv

(* IInv is inductive. *)
LEMMA NextIInv == IInv /\ [Next]_vars => IInv'
<1> SUFFICES ASSUME IInv, [Next]_vars PROVE IInv'
  OBVIOUS
<1>1. CASE \E c \in Callers : Run(c) \/ \E r \in Requests : Call(c, r)
  BY <1>1, CallStep, SerialChunkStep, SerialReturnStep, LockJobStep, PostStep, NotifyAllStep,
     AwaitPredStep, AwaitBlockStep, ClearStep, ReturnStep DEF Run
<1>2. CASE \E w \in Background : WorkerLoop(w)
  BY <1>2, PredStep, BlockStep, DecStep, SignalStep DEF WorkerLoop
<1>3. CASE \E t \in Threads : Drain(t) \/ SpuriousWake(t)
  BY <1>3, DrainEnterStep, DrainTestOkStep, DrainFetchStep, DrainExecStep, SpuriousWakeStep DEF Drain
<1>4. CASE Dtor
  BY <1>4, DtorStopStep, DtorNotifyStep, DtorJoinStep DEF Dtor
<1>5. CASE Gone \/ UNCHANGED vars
  BY <1>5, StutterIInv DEF Gone
<1> QED BY <1>1, <1>2, <1>3, <1>4, <1>5 DEF Next

(* IInv holds in every reachable state of the pool.                        *)
THEOREM Invariance == Spec => []IInv
BY InitIInv, NextIInv, PTL DEF Spec

(* Type correctness: in particular pending_ never goes below zero.         *)
THEOREM TypeCorrect == Spec => []TypeOK
<1>1. IInv => TypeOK
  BY DEF IInv
<1> QED BY <1>1, Invariance, PTL

(* Blocks until complete: no worker ever uses the chunk function of a call *)
(* that has returned, for any number of threads and calls.                 *)
THEOREM NoDangling == Spec => []NoDanglingFunction
<1>1. IInv => NoDanglingFunction
  BY DEF IInv, TypeOK, JobInv, NoDanglingFunction
<1> QED BY <1>1, Invariance, PTL

(* The cursor hands every piece to one thread only.                        *)
THEOREM EachPieceOnce == Spec => []NoPieceTwice
<1>1. IInv => NoPieceTwice
  <2> SUFFICES ASSUME IInv PROVE NoPieceTwice
    OBVIOUS
  <2>1. \A t \in Threads : pc[t] = "exec" => tfn[t] = fn /\ fn \in Callers /\ chunks = call[fn].chunks
    BY DEF IInv, TypeOK, JobInv
  <2> QED BY <2>1 DEF IInv, Claimed, NoPieceTwice
<1> QED BY <1>1, Invariance, PTL

(* The answer of run() is the serial one, whatever the schedule.           *)
THEOREM SerialAnswer == Spec => []AnswerIsSerial
<1>1. IInv => AnswerIsSerial
  BY DEF IInv
<1> QED BY <1>1, Invariance, PTL

(* The job fields are only rewritten while the workers are out of drain(). *)
THEOREM PostsWhenQuiet == Spec => []QuietAtPost
<1>1. IInv => QuietAtPost
  BY DEF IInv, TypeOK, JobInv, QuietAtPost
<1> QED BY <1>1, Invariance, PTL

(* The destructor finds no worker with a job.                              *)
THEOREM ReleasesWhenIdle == Spec => []NoJobAtJoin
<1>1. IInv => NoJobAtJoin
  BY DEF IInv, TypeOK, JobInv, DtorInv, NoJobAtJoin
<1> QED BY <1>1, Invariance, PTL

-----------------------------------------------------------------------------
(* Refinement of ParallelFor                                               *)

(* A new pool is a ParallelFor nobody has called. *)
LEMMA InitPromise == Init => Promise!Init
BY DEF Init, Promise!Init

(* A piece run by drain() or by the serial loop is one the call had left.  *)
LEMMA ChunkPromise ==
  ASSUME IInv, NEW c \in Callers, NEW i \in Nat, pc[c] # "idle",
         i < call[c].chunks, i \notin ran[c],
         ran' = [ran EXCEPT ![c] = @ \cup {i}],
         \A d \in Callers : pc'[d] = "idle" <=> pc[d] = "idle",
         UNCHANGED <<call, calls, res>>
  PROVE  Promise!Next
<1>1. i \in 0..(call[c].chunks - 1)
  BY DEF IInv, TypeOK
<1>2. Promise!RunChunk(c, i)
  BY DEF Promise!RunChunk
<1> QED BY <1>1, <1>2 DEF Promise!Next

(* A return is one of the two returns of ParallelFor.                      *)
LEMMA ReturnPromise ==
  ASSUME IInv, IInv', NEW c \in Callers, pc[c] # "idle",
         pc' = [pc EXCEPT ![c] = "idle"],
         res'[c] \in {"true", "false"}, res' = [res EXCEPT ![c] = res'[c]],
         UNCHANGED <<call, calls, ran>>
  PROVE  Promise!Next
<1>1. [d \in Callers |-> pc'[d] # "idle"] = [[d \in Callers |-> pc[d] # "idle"] EXCEPT ![c] = FALSE]
  BY DEF IInv, TypeOK
<1>2. CASE res'[c] = "true"
  <2>1. ran[c] = 0..(call[c].chunks - 1) /\ ran[c] \cap call[c].bad = {}
    BY <1>2 DEF IInv, AnswerIsSerial
  <2>2. Promise!ReturnTrue(c)
    BY <1>1, <1>2, <2>1 DEF Promise!ReturnTrue
  <2> QED BY <2>2 DEF Promise!Next
<1>3. CASE res'[c] = "false"
  <2>1. ran[c] \cap call[c].bad # {}
    BY <1>3 DEF IInv, AnswerIsSerial
  <2>2. Promise!ReturnFalse(c)
    BY <1>1, <1>3, <2>1 DEF Promise!ReturnFalse
  <2> QED BY <2>2 DEF Promise!Next
<1> QED BY <1>2, <1>3

(* A step that opens and closes no call and runs no piece is a stutter.    *)
LEMMA StutterPromise ==
  ASSUME \A d \in Callers : pc'[d] = "idle" <=> pc[d] = "idle", UNCHANGED ghost
  PROVE  UNCHANGED Promise!vars
BY DEF Promise!vars, ghost

(* Every step of the pool is a step of ParallelFor or a stutter. *)
LEMMA StepPromise == IInv /\ IInv' /\ [Next]_vars => [Promise!Next]_(Promise!vars)
<1> SUFFICES ASSUME IInv, IInv', [Next]_vars PROVE [Promise!Next]_(Promise!vars)
  OBVIOUS
<1> USE DEF Goto
<1>1. ASSUME NEW c \in Callers, NEW r \in Requests, Call(c, r) PROVE Promise!Next
  <2>1. [d \in Callers |-> pc'[d] # "idle"] = [[d \in Callers |-> pc[d] # "idle"] EXCEPT ![c] = TRUE]
    BY <1>1 DEF Call, IInv, TypeOK
  <2>2. Promise!Call(c, r)
    BY <1>1, <2>1 DEF Call, Promise!Call
  <2> QED BY <2>2 DEF Promise!Next
<1>2. ASSUME NEW c \in Callers, SerialChunk(c) PROVE Promise!Next
  <2>1. idx[c] \in Nat /\ idx[c] \notin ran[c]
    BY <1>2 DEF SerialChunk, IInv, TypeOK, SerialInv
  <2>2. \A d \in Callers : pc'[d] = "idle" <=> pc[d] = "idle"
    BY <1>2 DEF SerialChunk, IInv, TypeOK
  <2> QED BY <1>2, <2>1, <2>2, ChunkPromise DEF SerialChunk
<1>3. ASSUME NEW c \in Callers, SerialReturn(c) \/ Return(c) PROVE Promise!Next
  BY <1>3, ReturnPromise DEF SerialReturn, Return, IInv, TypeOK
<1>4. ASSUME NEW c \in Callers, LockJob(c) \/ Post(c) \/ NotifyAll(c) \/ AwaitPred(c)
                                \/ AwaitBlock(c) \/ Clear(c)
      PROVE  UNCHANGED Promise!vars
  <2>1. \A d \in Callers : pc'[d] = "idle" <=> pc[d] = "idle"
    <3>1. CASE NotifyAll(c)
      BY <3>1 DEF NotifyAll, WakeAll, IInv, TypeOK
    <3>2. CASE LockJob(c) \/ Post(c) \/ AwaitPred(c) \/ AwaitBlock(c) \/ Clear(c)
      <4>1. pc[c] # "idle" /\ pc'[c] # "idle" /\ pc' = [pc EXCEPT ![c] = pc'[c]]
        <5>1. CASE LockJob(c) \/ Post(c)
          BY <5>1 DEF LockJob, Post, IInv, TypeOK
        <5>2. CASE AwaitPred(c)
          BY <5>2 DEF AwaitPred, IInv, TypeOK
        <5>3. CASE AwaitBlock(c) \/ Clear(c)
          BY <5>3 DEF AwaitBlock, Clear, IInv, TypeOK
        <5> QED BY <3>2, <5>1, <5>2, <5>3
      <4> QED BY <4>1 DEF IInv, TypeOK
    <3> QED BY <1>4, <3>1, <3>2
  <2>2. UNCHANGED ghost
    BY <1>4 DEF LockJob, Post, NotifyAll, AwaitPred, AwaitBlock, Clear
  <2> QED BY <2>1, <2>2, StutterPromise
<1>5. ASSUME NEW w \in Background, WorkerLoop(w) PROVE UNCHANGED Promise!vars
  <2>1. \A d \in Callers : pc'[d] = "idle" <=> pc[d] = "idle"
    BY <1>5 DEF WorkerLoop, Pred, Block, Dec, Signal, IInv, TypeOK
  <2>2. UNCHANGED ghost
    BY <1>5 DEF WorkerLoop, Pred, Block, Dec, Signal
  <2> QED BY <2>1, <2>2, StutterPromise
<1>6. ASSUME NEW t \in Threads, DrainExec(t) PROVE Promise!Next
  <2>1. /\ tfn[t] = fn /\ fn \in Callers /\ pc[fn] # "idle" /\ idx[t] \in Nat
        /\ chunks = call[fn].chunks
    BY <1>6, DrainFacts DEF DrainExec, IInv, TypeOK, JobInv
  <2>2. idx[t] < call[fn].chunks /\ idx[t] \notin ran[fn]
    BY <1>6, <2>1 DEF DrainExec, IInv, Claimed
  <2>3. \A d \in Callers : pc'[d] = "idle" <=> pc[d] = "idle"
    BY <1>6 DEF DrainExec, AfterDrain, IInv, TypeOK
  <2> QED BY <1>6, <2>1, <2>2, <2>3, ChunkPromise DEF DrainExec
<1>7. ASSUME NEW t \in Threads, DrainEnter(t) \/ DrainTestOk(t) \/ DrainFetch(t) \/ SpuriousWake(t)
      PROVE  UNCHANGED Promise!vars
  <2>1. \A d \in Callers : pc'[d] = "idle" <=> pc[d] = "idle"
    BY <1>7 DEF DrainEnter, DrainTestOk, DrainFetch, SpuriousWake, AfterDrain, IInv, TypeOK
  <2>2. UNCHANGED ghost
    BY <1>7 DEF DrainEnter, DrainTestOk, DrainFetch, SpuriousWake
  <2> QED BY <2>1, <2>2, StutterPromise
<1>8. ASSUME Dtor \/ Gone \/ UNCHANGED vars PROVE UNCHANGED Promise!vars
  <2>1. \A d \in Callers : pc'[d] = "idle" <=> pc[d] = "idle"
    BY <1>8 DEF Dtor, DtorStop, DtorNotify, DtorJoin, WakeAll, Gone, vars, IInv, TypeOK
  <2>2. UNCHANGED ghost
    BY <1>8 DEF Dtor, DtorStop, DtorNotify, DtorJoin, Gone, vars
  <2> QED BY <2>1, <2>2, StutterPromise
<1> QED BY <1>1, <1>2, <1>3, <1>4, <1>5, <1>6, <1>7, <1>8 DEF Next, Run, Drain

(* The pool implements ParallelFor, for any number of threads and calls.   *)
THEOREM KeepsPromise == Spec => ParallelForSpec
BY InitPromise, StepPromise, Invariance, PTL DEF Spec, ParallelForSpec, Promise!Spec
================================================================================
