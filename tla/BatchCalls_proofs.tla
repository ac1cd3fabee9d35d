-------------------------- MODULE BatchCalls_proofs ---------------------------
(***************************************************************************)
(* Proofs about batches. For batches of any size, any number of threads    *)
(* and any number of callers: a batch is signed as a whole or not at all,  *)
(* and a verification returns the truth on every path.                     *)
(*                                                                         *)
(* For any group, entries, digests, cutoffs and pool: what a verification  *)
(* computes. A Schnorr batch that is accepted has weights under which its  *)
(* defects cancel, so all valid rows or at least two invalid ones; an      *)
(* ECDSA batch is exactly its rows, whatever inversion, split and path it  *)
(* takes.                                                                  *)
(***************************************************************************)
EXTENDS BatchCalls, BatchEquations, SmallGroup_proofs

(***************************************************************************)
(* Signing and verifying calls.                                            *)
(***************************************************************************)

(* Chunks of count/n rows, rounded up, times n cover all rows.             *)
LEMMA RoundedUp ==
  ASSUME NEW m \in Nat, NEW n \in Nat \ {0}
  PROVE  /\ (m + n - 1) \div n \in Nat
         /\ n * ((m + n - 1) \div n) >= m
<1> DEFINE q == (m + n - 1) \div n
<1>1. q \in Int /\ n * q <= m + n - 1 /\ m + n - 1 < n * q + n
  OBVIOUS
<1> QED
  BY <1>1

(* The numbers the chunks are computed with.                               *)
LEMMA ChunkFacts ==
  ASSUME SignTypeOK, count # 0
  PROVE  /\ count \in Nat \ {0} /\ NThreads \in Nat \ {0} /\ NThreads <= MaxParallelThreads
         /\ Chunk \in Nat /\ NThreads * Chunk >= count
         /\ \A t \in Threads : /\ t \in Nat /\ Start(t) \in Nat /\ End(t) \in Nat
                               /\ End(t) <= count /\ Start(t + 1) = Start(t) + Chunk
                               /\ Start(t) + Chunk <= count => End(t) = Start(t) + Chunk
                               /\ Start(t) + Chunk > count => End(t) = count
<1>1. count \in Nat \ {0} /\ hw \in Nat
  BY BatchSignAssumption DEF SignTypeOK
<1>2. NThreads \in Nat \ {0} /\ NThreads <= MaxParallelThreads
  BY <1>1, BatchSignAssumption DEF NThreads, Smaller
<1>3. Chunk \in Nat /\ NThreads * Chunk >= count
  BY <1>1, <1>2, RoundedUp DEF Chunk
<1>4. ASSUME NEW t \in Threads
      PROVE  /\ t \in Nat /\ Start(t) \in Nat /\ Start(t + 1) = Start(t) + Chunk
  BY <1>3, BatchSignAssumption DEF Start, Threads
<1>5. ASSUME NEW t \in Threads
      PROVE  /\ End(t) \in Nat /\ End(t) <= count
             /\ Start(t) + Chunk <= count => End(t) = Start(t) + Chunk
             /\ Start(t) + Chunk > count => End(t) = count
  BY <1>1, <1>3, <1>4 DEF End, Smaller
<1> QED
  BY <1>1, <1>2, <1>3, <1>4, <1>5

(* While the batch and the machine stay the same, so do its chunks.        *)
LEMMA Fixed ==
  ASSUME UNCHANGED input
  PROVE  /\ count' = count /\ hw' = hw /\ keys' = keys /\ Rows' = Rows /\ NThreads' = NThreads
         /\ \A t : Start(t)' = Start(t) /\ End(t)' = End(t)
BY DEF input, Rows, NThreads, Start, End, Chunk

LEMMA SignInitInv == SignInit => SignInv
<1> SUFFICES ASSUME SignInit PROVE SignInv
  OBVIOUS
<1>1. SignTypeOK
  BY BatchSignAssumption DEF SignInit, SignTypeOK, Rows, Threads
<1>2. FailClosed /\ Tiled /\ SignedBehind
  BY BatchSignAssumption DEF SignInit, FailClosed, Tiled, SignedBehind, Errors, Threads
<1> QED
  BY <1>1, <1>2 DEF SignInv

LEMMA SignStutter == SignInv /\ UNCHANGED signVars => SignInv'
<1> SUFFICES ASSUME SignInv, UNCHANGED signVars PROVE SignInv'
  OBVIOUS
<1>1. UNCHANGED input /\ Rows' = Rows /\ NThreads' = NThreads /\ \A t \in Threads : Start(t)' = Start(t) /\ End(t)' = End(t)
  BY Fixed DEF signVars, input
<1>2. SignTypeOK'
  BY <1>1 DEF signVars, input, SignInv, SignTypeOK
<1>3. FailClosed'
  BY <1>1 DEF signVars, input, SignInv, FailClosed
<1>4. Tiled'
  <2>1. Start(active)' = Start(active)
    BY DEF signVars, Start, Chunk, NThreads
  <2> QED
    BY <1>1, <2>1 DEF signVars, input, SignInv, Tiled
<1>5. SignedBehind'
  BY <1>1 DEF signVars, input, SignInv, SignedBehind
<1> QED
  BY <1>2, <1>3, <1>4, <1>5 DEF SignInv

(* SignInv is kept by the start of a call.                                  *)
LEMMA SignCallStep ==
  ASSUME SignInv, SignCall
  PROVE  SignInv'
<1> USE DEF SignCall
<1>0. UNCHANGED input
  OBVIOUS
<1>a. /\ count' = count /\ hw' = hw /\ keys' = keys /\ Rows' = Rows /\ NThreads' = NThreads
      /\ \A u : Start(u)' = Start(u) /\ End(u)' = End(u)
  BY <1>0, Fixed
<1>b. SignTypeOK /\ FailClosed /\ Tiled /\ SignedBehind
  BY DEF SignInv
<1>c. /\ 0 \in Threads /\ active \in Nat /\ count \in Nat
      /\ \A i \in Rows : i \in Nat /\ i < count
      /\ \A u \in Threads : at[u] \in 0..count /\ (at[u] < count => at[u] \in Rows /\ at[u] + 1 \in 0..count)
  BY <1>b, BatchSignAssumption DEF SignTypeOK, Threads, Rows
<1>d. count # 0 =>
       /\ count \in Nat \ {0} /\ NThreads \in Nat \ {0} /\ NThreads <= MaxParallelThreads
       /\ Chunk \in Nat /\ NThreads * Chunk >= count
       /\ \A u \in Threads : /\ u \in Nat /\ Start(u) \in Nat /\ End(u) \in Nat
                             /\ End(u) <= count /\ Start(u + 1) = Start(u) + Chunk
                             /\ Start(u) + Chunk <= count => End(u) = Start(u) + Chunk
                             /\ Start(u) + Chunk > count => End(u) = count
  BY <1>b, ChunkFacts
<1> HIDE DEF input
<1>1. SignTypeOK'
  BY <1>a, <1>b DEF SignTypeOK, Zeroed, input
<1>2. FailClosed'
  BY <1>a, <1>b DEF FailClosed, input
<1>3. Tiled'
  <2>1. CASE count = 0
    BY <2>1, <1>a, <1>b, <1>c DEF Tiled, SignedBehind
  <2>2. CASE count # 0
    <3>1. Start(0) = 0 /\ active = 0
      BY <2>2, <1>b, <1>d DEF Start, SignedBehind
    <3> QED
      BY <2>2, <3>1, <1>a, <1>b, <1>c, <1>d DEF Tiled
  <2> QED
    BY <2>1, <2>2
<1>4. SignedBehind'
  <2>1. \A i \in Rows : ~(i < at[0]) \/ pc' # "serial"
    BY <1>c, <1>b DEF SignedBehind
  <2> QED
    BY <2>1, <1>a, <1>b, <1>c DEF SignedBehind, Tiled
<1> QED
  BY <1>1, <1>2, <1>3, <1>4 DEF SignInv

(* SignInv is kept by a row signed by the caller.                           *)
LEMMA SerialRowStep ==
  ASSUME SignInv, SerialRow
  PROVE  SignInv'
<1> USE DEF SerialRow
<1>0. UNCHANGED input
  OBVIOUS
<1>a. /\ count' = count /\ hw' = hw /\ keys' = keys /\ Rows' = Rows /\ NThreads' = NThreads
      /\ \A u : Start(u)' = Start(u) /\ End(u)' = End(u)
  BY <1>0, Fixed
<1>b. SignTypeOK /\ FailClosed /\ Tiled /\ SignedBehind
  BY DEF SignInv
<1>c. /\ 0 \in Threads /\ active \in Nat /\ count \in Nat
      /\ \A i \in Rows : i \in Nat /\ i < count
      /\ \A u \in Threads : at[u] \in 0..count /\ (at[u] < count => at[u] \in Rows /\ at[u] + 1 \in 0..count)
  BY <1>b, BatchSignAssumption DEF SignTypeOK, Threads, Rows
<1>d. count # 0 =>
       /\ count \in Nat \ {0} /\ NThreads \in Nat \ {0} /\ NThreads <= MaxParallelThreads
       /\ Chunk \in Nat /\ NThreads * Chunk >= count
       /\ \A u \in Threads : /\ u \in Nat /\ Start(u) \in Nat /\ End(u) \in Nat
                             /\ End(u) <= count /\ Start(u + 1) = Start(u) + Chunk
                             /\ Start(u) + Chunk <= count => End(u) = Start(u) + Chunk
                             /\ Start(u) + Chunk > count => End(u) = count
  BY <1>b, ChunkFacts
<1> HIDE DEF input
<1>1. SignTypeOK'
  <2>1. at[0] \in Rows /\ at[0] + 1 \in 0..count /\ keys[at[0]] \in {"OK"} \cup Errors
    BY <1>b, <1>c DEF SignTypeOK
  <2>2. sigs' \in [Rows -> {"zero", "sig"}] \/ sigs' = [sigs EXCEPT ![at[0]] = "sig"]
    BY DEF Zeroed
  <2> QED
    BY <2>1, <2>2, <1>a, <1>b, <1>c DEF SignTypeOK, Zeroed, input
<1>2. FailClosed'
  <2>1. at[0] \in Rows /\ keys[at[0]] \in {"OK"} \cup Errors
    BY <1>b, <1>c DEF SignTypeOK
  <2> QED
    BY <2>1, <1>a, <1>b, <1>c DEF FailClosed, Zeroed, Tiled, Errors
<1>3. Tiled'
  BY <1>a, <1>b DEF Tiled, input
<1>4. SignedBehind'
  BY <1>a, <1>b, <1>c DEF SignedBehind, SignTypeOK, Tiled, input
<1> QED
  BY <1>1, <1>2, <1>3, <1>4 DEF SignInv

(* SignInv is kept by the end of a serial call.                             *)
LEMMA SerialEndStep ==
  ASSUME SignInv, SerialEnd
  PROVE  SignInv'
<1> USE DEF SerialEnd
<1>0. UNCHANGED input
  OBVIOUS
<1>a. /\ count' = count /\ hw' = hw /\ keys' = keys /\ Rows' = Rows /\ NThreads' = NThreads
      /\ \A u : Start(u)' = Start(u) /\ End(u)' = End(u)
  BY <1>0, Fixed
<1>b. SignTypeOK /\ FailClosed /\ Tiled /\ SignedBehind
  BY DEF SignInv
<1>c. /\ 0 \in Threads /\ active \in Nat /\ count \in Nat
      /\ \A i \in Rows : i \in Nat /\ i < count
      /\ \A u \in Threads : at[u] \in 0..count /\ (at[u] < count => at[u] \in Rows /\ at[u] + 1 \in 0..count)
  BY <1>b, BatchSignAssumption DEF SignTypeOK, Threads, Rows
<1>d. count # 0 =>
       /\ count \in Nat \ {0} /\ NThreads \in Nat \ {0} /\ NThreads <= MaxParallelThreads
       /\ Chunk \in Nat /\ NThreads * Chunk >= count
       /\ \A u \in Threads : /\ u \in Nat /\ Start(u) \in Nat /\ End(u) \in Nat
                             /\ End(u) <= count /\ Start(u + 1) = Start(u) + Chunk
                             /\ Start(u) + Chunk <= count => End(u) = Start(u) + Chunk
                             /\ Start(u) + Chunk > count => End(u) = count
  BY <1>b, ChunkFacts
<1> HIDE DEF input
<1>1. SignTypeOK'
  <2>1. at' \in [Threads -> 0..count]
    BY <1>b, <1>c DEF SignTypeOK
  <2> QED
    BY <2>1, <1>a, <1>b, <1>c DEF SignTypeOK, SignedBehind, input
<1>2. FailClosed'
  <2>1. \A i \in Rows : i < at[0]
    BY <1>b, <1>c DEF SignTypeOK
  <2> QED
    BY <2>1, <1>a, <1>b DEF FailClosed, SignedBehind, Tiled
<1>3. Tiled'
  BY <1>a, <1>b DEF Tiled, input
<1>4. SignedBehind'
  BY <1>a, <1>b, <1>c DEF SignedBehind, SignTypeOK, Tiled, input
<1> QED
  BY <1>1, <1>2, <1>3, <1>4 DEF SignInv

(* SignInv is kept by a thread that starts.                                 *)
LEMMA SpawnStep ==
  ASSUME SignInv, Spawn
  PROVE  SignInv'
<1> USE DEF Spawn
<1>0. UNCHANGED input
  OBVIOUS
<1>a. /\ count' = count /\ hw' = hw /\ keys' = keys /\ Rows' = Rows /\ NThreads' = NThreads
      /\ \A u : Start(u)' = Start(u) /\ End(u)' = End(u)
  BY <1>0, Fixed
<1>b. SignTypeOK /\ FailClosed /\ Tiled /\ SignedBehind
  BY DEF SignInv
<1>c. /\ 0 \in Threads /\ active \in Nat /\ count \in Nat
      /\ \A i \in Rows : i \in Nat /\ i < count
      /\ \A u \in Threads : at[u] \in 0..count /\ (at[u] < count => at[u] \in Rows /\ at[u] + 1 \in 0..count)
  BY <1>b, BatchSignAssumption DEF SignTypeOK, Threads, Rows
<1>d. count # 0 =>
       /\ count \in Nat \ {0} /\ NThreads \in Nat \ {0} /\ NThreads <= MaxParallelThreads
       /\ Chunk \in Nat /\ NThreads * Chunk >= count
       /\ \A u \in Threads : /\ u \in Nat /\ Start(u) \in Nat /\ End(u) \in Nat
                             /\ End(u) <= count /\ Start(u + 1) = Start(u) + Chunk
                             /\ Start(u) + Chunk <= count => End(u) = Start(u) + Chunk
                             /\ Start(u) + Chunk > count => End(u) = count
  BY <1>b, ChunkFacts
<1> HIDE DEF input
<1>e. /\ count # 0 /\ active \in Threads /\ active + 1 <= MaxParallelThreads
      /\ Start(active) \in Nat /\ Start(active) < count /\ End(active) <= count
  BY <1>b, <1>c, <1>d, BatchSignAssumption DEF Tiled, Threads
<1>1. SignTypeOK'
  <2>1. active + 1 \in 0..MaxParallelThreads /\ Start(active) \in 0..count
    BY <1>c, <1>e, BatchSignAssumption
  <2> QED
    BY <2>1, <1>a, <1>b, <1>c, <1>e DEF SignTypeOK, input
<1>2. FailClosed'
  BY <1>a, <1>b DEF FailClosed, input
<1>3. Tiled'
  <2>1. Start(active + 1) = Start(active) + Chunk /\ Start(active)' = Start(active + 1)
    <3>1. Start(active)' = active' * Chunk
      BY <1>0 DEF Start, Chunk, NThreads, input
    <3> QED
      BY <3>1, <1>d, <1>e DEF Start
  <2>2. ASSUME NEW i \in Rows, i < Start(active + 1)
        PROVE  \E t \in Threads : t < active + 1 /\ Start(t) <= i /\ i < End(t)
    <3>1. CASE i < Start(active)
      <4>1. PICK t \in Threads : t < active /\ Start(t) <= i /\ i < End(t)
        BY <3>1, <1>b DEF Tiled
      <4> QED
        BY <4>1, <1>c DEF Threads
    <3>2. CASE i >= Start(active)
      <4>1. i < End(active)
        BY <2>1, <2>2, <3>2, <1>c, <1>d, <1>e
      <4> QED
        BY <4>1, <3>2, <1>c, <1>e
    <3> QED
      BY <3>1, <3>2, <1>c, <1>e
  <2>3. /\ \A t \in Threads : t >= active + 1 => worker'[t] = "none"
        /\ \A t \in Threads : worker'[t] # "none" => pc' \in {"spawn", "join", "terminated"}
    BY <1>b, <1>c, <1>e DEF Tiled, SignTypeOK, Threads
  <2> QED
    BY <2>1, <2>2, <2>3, <1>a, <1>b, <1>c, <1>d, <1>e DEF Tiled
<1>4. SignedBehind'
  <2>1. /\ at'[active] = Start(active) /\ worker'[active] = "loop"
        /\ \A t \in Threads : t # active => at'[t] = at[t] /\ worker'[t] = worker[t]
    BY <1>b, <1>e DEF SignTypeOK
  <2>2. \A i \in Rows : ~(Start(active) <= i /\ i < Start(active))
    BY <1>c, <1>e
  <2> QED
    BY <2>1, <2>2, <1>a, <1>b DEF SignedBehind
<1> QED
  BY <1>1, <1>2, <1>3, <1>4 DEF SignInv

(* SignInv is kept by the end of the spawn loop.                            *)
LEMMA SpawnEndStep ==
  ASSUME SignInv, SpawnEnd \/ SpawnFails
  PROVE  SignInv'
<1> USE DEF SpawnEnd, SpawnFails
<1>0. UNCHANGED input
  OBVIOUS
<1>a. /\ count' = count /\ hw' = hw /\ keys' = keys /\ Rows' = Rows /\ NThreads' = NThreads
      /\ \A u : Start(u)' = Start(u) /\ End(u)' = End(u)
  BY <1>0, Fixed
<1>b. SignTypeOK /\ FailClosed /\ Tiled /\ SignedBehind
  BY DEF SignInv
<1>c. /\ 0 \in Threads /\ active \in Nat /\ count \in Nat
      /\ \A i \in Rows : i \in Nat /\ i < count
      /\ \A u \in Threads : at[u] \in 0..count /\ (at[u] < count => at[u] \in Rows /\ at[u] + 1 \in 0..count)
  BY <1>b, BatchSignAssumption DEF SignTypeOK, Threads, Rows
<1>d. count # 0 =>
       /\ count \in Nat \ {0} /\ NThreads \in Nat \ {0} /\ NThreads <= MaxParallelThreads
       /\ Chunk \in Nat /\ NThreads * Chunk >= count
       /\ \A u \in Threads : /\ u \in Nat /\ Start(u) \in Nat /\ End(u) \in Nat
                             /\ End(u) <= count /\ Start(u + 1) = Start(u) + Chunk
                             /\ Start(u) + Chunk <= count => End(u) = Start(u) + Chunk
                             /\ Start(u) + Chunk > count => End(u) = count
  BY <1>b, ChunkFacts
<1> HIDE DEF input
<1>1. SignTypeOK'
  BY <1>a, <1>b DEF SignTypeOK, input
<1>2. FailClosed'
  BY <1>a, <1>b DEF FailClosed, input
<1>3. Tiled'
  <2>1. CASE SpawnEnd
    <3>1. count # 0 /\ (active < NThreads => active \in Threads)
      BY <2>1, <1>b, <1>c, <1>d, BatchSignAssumption DEF Tiled, SpawnEnd, Threads
    <3>2. Start(active) >= count
      <4>1. CASE active = NThreads
        BY <4>1, <3>1, <1>d DEF Start
      <4>2. CASE active < NThreads /\ Start(active) >= End(active)
        BY <4>2, <3>1, <1>d
      <4> QED
        <5>1. active = NThreads \/ Start(active) >= End(active)
          BY <2>1 DEF SpawnEnd
        <5>2. active <= NThreads
          BY <1>b DEF Tiled
        <5> QED
          BY <5>1, <5>2, <4>1, <4>2, <1>c, <1>d, <3>1
    <3> QED
      BY <2>1, <3>1, <3>2, <1>a, <1>b DEF Tiled, SpawnEnd
  <2>2. CASE SpawnFails
    BY <2>2, <1>a, <1>b DEF Tiled, SpawnFails
  <2> QED
    BY <2>1, <2>2
<1>4. SignedBehind'
  BY <1>a, <1>b DEF SignedBehind, input
<1> QED
  BY <1>1, <1>2, <1>3, <1>4 DEF SignInv

(* SignInv is kept by the load of first_err.                                *)
LEMMA LoadErrorStep ==
  ASSUME SignInv, NEW t \in Threads, LoadError(t)
  PROVE  SignInv'
<1> USE DEF LoadError, Running
<1>0. UNCHANGED input
  OBVIOUS
<1>a. /\ count' = count /\ hw' = hw /\ keys' = keys /\ Rows' = Rows /\ NThreads' = NThreads
      /\ \A u : Start(u)' = Start(u) /\ End(u)' = End(u)
  BY <1>0, Fixed
<1>b. SignTypeOK /\ FailClosed /\ Tiled /\ SignedBehind
  BY DEF SignInv
<1>c. /\ 0 \in Threads /\ active \in Nat /\ count \in Nat
      /\ \A i \in Rows : i \in Nat /\ i < count
      /\ \A u \in Threads : at[u] \in 0..count /\ (at[u] < count => at[u] \in Rows /\ at[u] + 1 \in 0..count)
  BY <1>b, BatchSignAssumption DEF SignTypeOK, Threads, Rows
<1>d. count # 0 =>
       /\ count \in Nat \ {0} /\ NThreads \in Nat \ {0} /\ NThreads <= MaxParallelThreads
       /\ Chunk \in Nat /\ NThreads * Chunk >= count
       /\ \A u \in Threads : /\ u \in Nat /\ Start(u) \in Nat /\ End(u) \in Nat
                             /\ End(u) <= count /\ Start(u + 1) = Start(u) + Chunk
                             /\ Start(u) + Chunk <= count => End(u) = Start(u) + Chunk
                             /\ Start(u) + Chunk > count => End(u) = count
  BY <1>b, ChunkFacts
<1> HIDE DEF input
<1>e. /\ count # 0 /\ pc # "done" /\ pc # "serial" /\ pc # "idle" /\ at[t] \in 0..count
      /\ at[t] < End(t) => at[t] \in Rows /\ at[t] + 1 \in 0..count
  <2>1. count # 0 /\ pc # "done" /\ pc # "serial" /\ pc # "idle"
    BY <1>b DEF Tiled
  <2>2. at[t] < End(t) => at[t] < count
    BY <2>1, <1>c, <1>d
  <2> QED
    BY <2>1, <2>2, <1>c
<1>1. SignTypeOK'
  BY <1>a, <1>b, <1>e DEF SignTypeOK, input
<1>2. FailClosed'
  BY <1>e DEF FailClosed
<1>3. Tiled'
  BY <1>a, <1>b, <1>e DEF Tiled, SignTypeOK
<1>4. SignedBehind'
  <2>1. CASE firstErr # "OK"
    BY <2>1, <1>a, <1>b, <1>c, <1>e DEF SignedBehind, SignTypeOK
  <2>2. CASE firstErr = "OK"
    <3>1. /\ worker'[t] = "sign" /\ at' = at /\ sigs' = sigs
          /\ \A u \in Threads : u # t => worker'[u] = worker[u]
      BY <2>2, <1>b DEF SignTypeOK
    <3>2. at[t] < End(t) /\ at[t] < count
      BY <1>e, <1>c
    <3> QED
      BY <2>2, <3>1, <3>2, <1>a, <1>b, <1>e DEF SignedBehind
  <2> QED
    BY <2>1, <2>2
<1> QED
  BY <1>1, <1>2, <1>3, <1>4 DEF SignInv

(* SignInv is kept by a row signed by a thread.                             *)
LEMMA SignRowStep ==
  ASSUME SignInv, NEW t \in Threads, SignRow(t)
  PROVE  SignInv'
<1> USE DEF SignRow, Running
<1>0. UNCHANGED input
  OBVIOUS
<1>a. /\ count' = count /\ hw' = hw /\ keys' = keys /\ Rows' = Rows /\ NThreads' = NThreads
      /\ \A u : Start(u)' = Start(u) /\ End(u)' = End(u)
  BY <1>0, Fixed
<1>b. SignTypeOK /\ FailClosed /\ Tiled /\ SignedBehind
  BY DEF SignInv
<1>c. /\ 0 \in Threads /\ active \in Nat /\ count \in Nat
      /\ \A i \in Rows : i \in Nat /\ i < count
      /\ \A u \in Threads : at[u] \in 0..count /\ (at[u] < count => at[u] \in Rows /\ at[u] + 1 \in 0..count)
  BY <1>b, BatchSignAssumption DEF SignTypeOK, Threads, Rows
<1>d. count # 0 =>
       /\ count \in Nat \ {0} /\ NThreads \in Nat \ {0} /\ NThreads <= MaxParallelThreads
       /\ Chunk \in Nat /\ NThreads * Chunk >= count
       /\ \A u \in Threads : /\ u \in Nat /\ Start(u) \in Nat /\ End(u) \in Nat
                             /\ End(u) <= count /\ Start(u + 1) = Start(u) + Chunk
                             /\ Start(u) + Chunk <= count => End(u) = Start(u) + Chunk
                             /\ Start(u) + Chunk > count => End(u) = count
  BY <1>b, ChunkFacts
<1> HIDE DEF input
<1>e. /\ count # 0 /\ pc # "done" /\ pc # "serial" /\ pc # "idle" /\ at[t] \in 0..count
      /\ at[t] < End(t) => at[t] \in Rows /\ at[t] + 1 \in 0..count
  <2>1. count # 0 /\ pc # "done" /\ pc # "serial" /\ pc # "idle"
    BY <1>b DEF Tiled
  <2>2. at[t] < End(t) => at[t] < count
    BY <2>1, <1>c, <1>d
  <2> QED
    BY <2>1, <2>2, <1>c
<1>f. at[t] < End(t) /\ at[t] \in Rows /\ at[t] + 1 \in 0..count /\ keys[at[t]] \in {"OK"} \cup Errors
  BY <1>b, <1>e DEF SignedBehind, SignTypeOK
<1>1. SignTypeOK'
  BY <1>a, <1>b, <1>e, <1>f DEF SignTypeOK, input
<1>2. FailClosed'
  BY <1>e DEF FailClosed
<1>3. Tiled'
  BY <1>a, <1>b, <1>e DEF Tiled, SignTypeOK
<1>4. SignedBehind'
  <2>1. CASE keys[at[t]] = "OK"
    <3>1. /\ sigs' = [sigs EXCEPT ![at[t]] = "sig"] /\ firstErr' = firstErr
          /\ worker'[t] = "loop" /\ at'[t] = at[t] + 1
          /\ \A u \in Threads : u # t => worker'[u] = worker[u] /\ at'[u] = at[u]
      BY <2>1, <1>b DEF SignTypeOK
    <3>2. /\ sigs'[at[t]] = "sig"
          /\ \A i \in Rows : sigs[i] = "sig" => sigs'[i] = "sig"
          /\ \A i \in Rows : i < at[t] + 1 => i < at[t] \/ i = at[t]
      BY <3>1, <1>b, <1>c, <1>e, <1>f DEF SignTypeOK
    <3>3. ASSUME NEW u \in Threads, firstErr = "OK", worker'[u] # "none", NEW i \in Rows, Start(u) <= i, i < at'[u]
          PROVE  keys[i] = "OK" /\ sigs'[i] = "sig"
      BY <2>1, <3>1, <3>2, <3>3, <1>b DEF SignedBehind
    <3>4. \A u \in Threads :
            /\ worker'[u] = "sign" => at'[u] < End(u) /\ at'[u] < count
            /\ worker'[u] = "zeroing" => firstErr # "OK"
            /\ worker'[u] = "exit" => firstErr # "OK" \/ at'[u] >= End(u)
      BY <3>1, <1>b DEF SignedBehind
    <3>5. (firstErr # "OK" => \E i \in Rows : keys[i] = firstErr) /\ pc' = pc /\ ret' = "none"
      BY <1>b, <1>e DEF SignedBehind
    <3> QED
      BY <3>1, <3>3, <3>4, <3>5, <1>a, <1>e DEF SignedBehind
  <2>2. CASE keys[at[t]] # "OK"
    <3>1. /\ firstErr' # "OK" /\ \E i \in Rows : keys[i] = firstErr'
      BY <2>2, <1>b, <1>f DEF SignedBehind
    <3> QED
      BY <2>2, <3>1, <1>a, <1>b, <1>e DEF SignedBehind, SignTypeOK
  <2> QED
    BY <2>1, <2>2
<1> QED
  BY <1>1, <1>2, <1>3, <1>4 DEF SignInv

(* SignInv is kept by the zeroing of a chunk.                               *)
LEMMA ZeroRestStep ==
  ASSUME SignInv, NEW t \in Threads, ZeroRest(t)
  PROVE  SignInv'
<1> USE DEF ZeroRest, Running
<1>0. UNCHANGED input
  OBVIOUS
<1>a. /\ count' = count /\ hw' = hw /\ keys' = keys /\ Rows' = Rows /\ NThreads' = NThreads
      /\ \A u : Start(u)' = Start(u) /\ End(u)' = End(u)
  BY <1>0, Fixed
<1>b. SignTypeOK /\ FailClosed /\ Tiled /\ SignedBehind
  BY DEF SignInv
<1>c. /\ 0 \in Threads /\ active \in Nat /\ count \in Nat
      /\ \A i \in Rows : i \in Nat /\ i < count
      /\ \A u \in Threads : at[u] \in 0..count /\ (at[u] < count => at[u] \in Rows /\ at[u] + 1 \in 0..count)
  BY <1>b, BatchSignAssumption DEF SignTypeOK, Threads, Rows
<1>d. count # 0 =>
       /\ count \in Nat \ {0} /\ NThreads \in Nat \ {0} /\ NThreads <= MaxParallelThreads
       /\ Chunk \in Nat /\ NThreads * Chunk >= count
       /\ \A u \in Threads : /\ u \in Nat /\ Start(u) \in Nat /\ End(u) \in Nat
                             /\ End(u) <= count /\ Start(u + 1) = Start(u) + Chunk
                             /\ Start(u) + Chunk <= count => End(u) = Start(u) + Chunk
                             /\ Start(u) + Chunk > count => End(u) = count
  BY <1>b, ChunkFacts
<1> HIDE DEF input
<1>e. /\ count # 0 /\ pc # "done" /\ pc # "serial" /\ pc # "idle" /\ at[t] \in 0..count
      /\ at[t] < End(t) => at[t] \in Rows /\ at[t] + 1 \in 0..count
  <2>1. count # 0 /\ pc # "done" /\ pc # "serial" /\ pc # "idle"
    BY <1>b DEF Tiled
  <2>2. at[t] < End(t) => at[t] < count
    BY <2>1, <1>c, <1>d
  <2> QED
    BY <2>1, <2>2, <1>c
<1>1. SignTypeOK'
  BY <1>a, <1>b, <1>e DEF SignTypeOK, input
<1>2. FailClosed'
  BY <1>e DEF FailClosed
<1>3. Tiled'
  BY <1>a, <1>b, <1>e DEF Tiled, SignTypeOK
<1>4. SignedBehind'
  <2>1. firstErr # "OK" /\ firstErr' = firstErr
    BY <1>b DEF SignedBehind
  <2> QED
    BY <2>1, <1>a, <1>b, <1>e DEF SignedBehind, SignTypeOK
<1> QED
  BY <1>1, <1>2, <1>3, <1>4 DEF SignInv

(* SignInv is kept by the end of a thread.                                  *)
LEMMA ExitStep ==
  ASSUME SignInv, NEW t \in Threads, Exit(t)
  PROVE  SignInv'
<1> USE DEF Exit, Running
<1>0. UNCHANGED input
  OBVIOUS
<1>a. /\ count' = count /\ hw' = hw /\ keys' = keys /\ Rows' = Rows /\ NThreads' = NThreads
      /\ \A u : Start(u)' = Start(u) /\ End(u)' = End(u)
  BY <1>0, Fixed
<1>b. SignTypeOK /\ FailClosed /\ Tiled /\ SignedBehind
  BY DEF SignInv
<1>c. /\ 0 \in Threads /\ active \in Nat /\ count \in Nat
      /\ \A i \in Rows : i \in Nat /\ i < count
      /\ \A u \in Threads : at[u] \in 0..count /\ (at[u] < count => at[u] \in Rows /\ at[u] + 1 \in 0..count)
  BY <1>b, BatchSignAssumption DEF SignTypeOK, Threads, Rows
<1>d. count # 0 =>
       /\ count \in Nat \ {0} /\ NThreads \in Nat \ {0} /\ NThreads <= MaxParallelThreads
       /\ Chunk \in Nat /\ NThreads * Chunk >= count
       /\ \A u \in Threads : /\ u \in Nat /\ Start(u) \in Nat /\ End(u) \in Nat
                             /\ End(u) <= count /\ Start(u + 1) = Start(u) + Chunk
                             /\ Start(u) + Chunk <= count => End(u) = Start(u) + Chunk
                             /\ Start(u) + Chunk > count => End(u) = count
  BY <1>b, ChunkFacts
<1> HIDE DEF input
<1>e. /\ count # 0 /\ pc # "done" /\ pc # "serial" /\ pc # "idle" /\ at[t] \in 0..count
      /\ at[t] < End(t) => at[t] \in Rows /\ at[t] + 1 \in 0..count
  <2>1. count # 0 /\ pc # "done" /\ pc # "serial" /\ pc # "idle"
    BY <1>b DEF Tiled
  <2>2. at[t] < End(t) => at[t] < count
    BY <2>1, <1>c, <1>d
  <2> QED
    BY <2>1, <2>2, <1>c
<1>1. SignTypeOK'
  BY <1>a, <1>b, <1>e DEF SignTypeOK, input
<1>2. FailClosed'
  BY <1>e DEF FailClosed
<1>3. Tiled'
  BY <1>a, <1>b, <1>e DEF Tiled, SignTypeOK
<1>4. SignedBehind'
  BY <1>a, <1>b, <1>d, <1>e DEF SignedBehind, SignTypeOK
<1> QED
  BY <1>1, <1>2, <1>3, <1>4 DEF SignInv

(* SignInv is kept by the join.                                             *)
LEMMA JoinStep ==
  ASSUME SignInv, Join
  PROVE  SignInv'
<1> USE DEF Join, Gone
<1>0. UNCHANGED input
  OBVIOUS
<1>a. /\ count' = count /\ hw' = hw /\ keys' = keys /\ Rows' = Rows /\ NThreads' = NThreads
      /\ \A u : Start(u)' = Start(u) /\ End(u)' = End(u)
  BY <1>0, Fixed
<1>b. SignTypeOK /\ FailClosed /\ Tiled /\ SignedBehind
  BY DEF SignInv
<1>c. /\ 0 \in Threads /\ active \in Nat /\ count \in Nat
      /\ \A i \in Rows : i \in Nat /\ i < count
      /\ \A u \in Threads : at[u] \in 0..count /\ (at[u] < count => at[u] \in Rows /\ at[u] + 1 \in 0..count)
  BY <1>b, BatchSignAssumption DEF SignTypeOK, Threads, Rows
<1>d. count # 0 =>
       /\ count \in Nat \ {0} /\ NThreads \in Nat \ {0} /\ NThreads <= MaxParallelThreads
       /\ Chunk \in Nat /\ NThreads * Chunk >= count
       /\ \A u \in Threads : /\ u \in Nat /\ Start(u) \in Nat /\ End(u) \in Nat
                             /\ End(u) <= count /\ Start(u + 1) = Start(u) + Chunk
                             /\ Start(u) + Chunk <= count => End(u) = Start(u) + Chunk
                             /\ Start(u) + Chunk > count => End(u) = count
  BY <1>b, ChunkFacts
<1> HIDE DEF input
<1>1. SignTypeOK'
  <2>1. 0 \in 0..MaxParallelThreads /\ 0 \in 0..count
    BY <1>c, BatchSignAssumption
  <2>2. sigs' \in [Rows -> {"junk", "zero", "sig"}] /\ \A i \in Rows : sigs'[i] # "junk"
    BY <1>b DEF SignTypeOK, SignedBehind, Zeroed
  <2>3. at' \in [Threads -> 0..count] /\ worker' \in [Threads -> {"none", "loop", "sign", "zeroing", "exit"}]
    BY <2>1, <1>b DEF SignTypeOK
  <2> QED
    BY <2>1, <2>2, <2>3, <1>a, <1>b DEF SignTypeOK, input
<1>2. FailClosed'
  <2>1. \A u \in Threads : worker'[u] = "none"
    BY <1>b, <1>c DEF Tiled, SignTypeOK, Threads
  <2>2. CASE firstErr = "OK"
    <3>1. ASSUME NEW i \in Rows PROVE keys[i] = "OK" /\ sigs[i] = "sig"
      <4>1. PICK u \in Threads : u < active /\ Start(u) <= i /\ i < End(u)
        <5>1. Start(active) \in Int
          BY <1>b, <1>c, <1>d DEF Tiled, Start
        <5>2. i < Start(active)
          BY <1>b, <1>c, <5>1 DEF Tiled
        <5> QED
          BY <5>2, <1>b DEF Tiled
      <4>2. worker[u] = "exit" /\ at[u] >= End(u)
        BY <4>1, <2>2, <1>b DEF SignedBehind
      <4>3. i < at[u]
        BY <4>1, <4>2, <1>b, <1>c, <1>d DEF SignTypeOK, Tiled
      <4> QED
        BY <4>1, <4>2, <4>3, <2>2, <1>b DEF SignedBehind
    <3> QED
      BY <2>1, <2>2, <3>1, <1>a DEF FailClosed
  <2>3. CASE firstErr # "OK"
    BY <2>1, <2>3, <1>a, <1>b DEF FailClosed, SignedBehind, SignTypeOK, Zeroed
  <2> QED
    BY <2>2, <2>3
<1>3. Tiled'
  <2>1. \A u \in Threads : worker'[u] = "none"
    BY <1>b, <1>c DEF Tiled, SignTypeOK, Threads
  <2> QED
    BY <2>1 DEF Tiled
<1>4. SignedBehind'
  <2>1. \A u \in Threads : worker'[u] = "none"
    BY <1>b, <1>c DEF Tiled, SignTypeOK, Threads
  <2> QED
    BY <2>1 DEF SignedBehind
<1> QED
  BY <1>1, <1>2, <1>3, <1>4 DEF SignInv

LEMMA SignStep ==
  ASSUME SignInv, SignNext
  PROVE  SignInv'
<1>1. CASE SignCall
  BY <1>1, SignCallStep
<1>2. CASE SerialRow
  BY <1>2, SerialRowStep
<1>3. CASE SerialEnd
  BY <1>3, SerialEndStep
<1>4. CASE Spawn
  BY <1>4, SpawnStep
<1>5. CASE SpawnEnd \/ SpawnFails
  BY <1>5, SpawnEndStep
<1>6. CASE Join
  BY <1>6, JoinStep
<1>7. CASE \E t \in Threads : LoadError(t) \/ SignRow(t) \/ ZeroRest(t) \/ Exit(t)
  BY <1>7, LoadErrorStep, SignRowStep, ZeroRestStep, ExitStep
<1> QED
  BY <1>1, <1>2, <1>3, <1>4, <1>5, <1>6, <1>7 DEF SignNext

-----------------------------------------------------------------------------
(* A step of a caller changes only what is its own.                        *)
LEMMA RowBytes ==
  ASSUME VerifyTypeOK, NEW c \in Callers
  PROVE  /\ \A i \in DOMAIN batch[c] : RowByte(c, i) \in {0, 1}
         /\ \A i \in DOMAIN batch[c] : RowByte(c, i) = 1 <=> batch[c][i] = "valid"
         /\ Len(batch[c]) \in Nat /\ DOMAIN batch[c] = 1..Len(batch[c]) /\ row[c] \in Nat
BY DEF VerifyTypeOK, RowByte

(* What is said of rows that stay the same stays the same.                 *)
LEMMA SameRows ==
  ASSUME NEW o, batch'[o] = batch[o]
  PROVE  /\ AllValid(o)' <=> AllValid(o)
         /\ \A i : RowByte(o, i)' = RowByte(o, i)
BY DEF AllValid, RowByte

LEMMA SameResults ==
  ASSUME NEW o, batch'[o] = batch[o], out'[o] = out[o], row'[o] = row[o]
  PROVE  /\ ResultsUpTo(o, row[o])' <=> ResultsUpTo(o, row[o])
         /\ ResultsUpTo(o, Len(batch[o]))' <=> ResultsUpTo(o, Len(batch[o]))
BY SameRows DEF ResultsUpTo

LEMMA VerifyInitInv == VerifyInit => VerifyInv
<1> SUFFICES ASSUME VerifyInit PROVE VerifyInv
  OBVIOUS
<1>1. <<>> \in Seq(RowKinds) /\ DOMAIN <<>> = {}
  OBVIOUS
<1>2. \A c \in Callers : out[c] \in [DOMAIN batch[c] -> {-1, 0, 1}]
  BY <1>1 DEF VerifyInit
<1>3. batch \in [Callers -> Seq(RowKinds)]
  BY <1>1 DEF VerifyInit
<1>4. VerifyTypeOK
  BY <1>1, <1>2, <1>3, BatchVerifyAssumption DEF VerifyInit, VerifyTypeOK
<1> QED
  BY <1>4 DEF VerifyInit, VerifyInv, TrueVerdict, RowsDone

LEMMA VerifyStutter == VerifyInv /\ UNCHANGED verifyVars => VerifyInv'
<1> SUFFICES ASSUME VerifyInv, UNCHANGED verifyVars PROVE VerifyInv'
  OBVIOUS
<1>1. VerifyTypeOK'
  BY DEF verifyVars, VerifyInv, VerifyTypeOK
<1>2. TrueVerdict' /\ RowsDone'
  BY SameRows, SameResults DEF verifyVars, VerifyInv, TrueVerdict, RowsDone
<1> QED
  BY <1>1, <1>2 DEF VerifyInv

(* VerifyInv is kept by the hook and its query.                             *)
LEMMA InstallHookStep ==
  ASSUME VerifyInv, InstallHook \/ AvailableQuery
  PROVE  VerifyInv'
<1> USE DEF InstallHook, AvailableQuery, Go, Return, provider, arguments
<1>1. VerifyTypeOK'
  BY DEF VerifyInv, VerifyTypeOK
<1>2. TrueVerdict' /\ RowsDone'
  BY SameRows, SameResults DEF VerifyInv, TrueVerdict, RowsDone
<1> QED
  BY <1>1, <1>2 DEF VerifyInv

(* VerifyInv is kept by a new call.                                         *)
LEMMA VerifyCallStep ==
  ASSUME VerifyInv, NEW c \in Callers, NEW given \in Seq(RowKinds), NEW results \in BOOLEAN, VerifyCall(c, given, results)
  PROVE  VerifyInv'
<1> USE DEF VerifyCall, Go, Return, provider, arguments
<1>a. VerifyTypeOK /\ TrueVerdict /\ RowsDone
  BY DEF VerifyInv
<1>b. /\ \A i \in DOMAIN batch[c] : RowByte(c, i) \in {0, 1}
      /\ \A i \in DOMAIN batch[c] : RowByte(c, i) = 1 <=> batch[c][i] = "valid"
      /\ Len(batch[c]) \in Nat /\ DOMAIN batch[c] = 1..Len(batch[c]) /\ row[c] \in Nat
  BY <1>a, RowBytes
<1>q. DOMAIN given = 1..Len(given) /\ Len(given) \in Nat /\ (Len(given) = 0 => given = <<>>)
  OBVIOUS
<1>p. /\ batch' = [batch EXCEPT ![c] = given] /\ wants' = [wants EXCEPT ![c] = results]
      /\ out' = [out EXCEPT ![c] = [i \in DOMAIN given |-> -1]]
      /\ hook' = hook /\ mutex' = mutex /\ probed' = probed /\ backend' = backend
  OBVIOUS
<1>r. /\ batch'[c] = given /\ wants'[c] = results
      /\ row[c] = 0
  BY <1>a, <1>p DEF VerifyTypeOK, RowsDone
<1>u. /\ row' \in [Callers -> Nat] /\ verdict' \in [Callers -> BOOLEAN]
      /\ vpc' \in [Callers -> {"idle", "load", "hook", "device", "chunks", "pool", "locate", "done"}]
      /\ vpc'[c] \in {"done", "load"} /\ row'[c] = 0
      /\ vpc'[c] = "done" => given = <<>> /\ verdict'[c] = TRUE
      /\ \A o \in Callers \ {c} : row'[o] = row[o] /\ vpc'[o] = vpc[o] /\ verdict'[o] = verdict[o]
  <2>1. CASE given = <<>>
    <3>1. /\ vpc' = [vpc EXCEPT ![c] = "done"] /\ verdict' = [verdict EXCEPT ![c] = TRUE]
          /\ row' = [row EXCEPT ![c] = 0]
      BY <2>1
    <3> QED
      BY <3>1, <2>1, <1>a DEF VerifyTypeOK
  <2>2. CASE given # <<>>
    <3>1. /\ vpc' = [vpc EXCEPT ![c] = "load"] /\ verdict' = verdict /\ row' = row
      BY <2>2
    <3> QED
      BY <3>1, <2>2, <1>r, <1>a DEF VerifyTypeOK
  <2> QED
    BY <2>1, <2>2
<1>1. VerifyTypeOK'
  <2>1. \A o \in Callers : out'[o] \in [DOMAIN batch'[o] -> {-1, 0, 1}]
    <3> SUFFICES ASSUME NEW o \in Callers PROVE out'[o] \in [DOMAIN batch'[o] -> {-1, 0, 1}]
      OBVIOUS
    <3>1. CASE o = c
      BY <3>1, <1>a, <1>r, <1>p DEF VerifyTypeOK
    <3>2. CASE o # c
      BY <3>2, <1>a, <1>p DEF VerifyTypeOK
    <3> QED
      BY <3>1, <3>2
  <2>2. batch' \in [Callers -> Seq(RowKinds)] /\ wants' \in [Callers -> BOOLEAN]
    BY <1>a, <1>p DEF VerifyTypeOK
  <2> QED
    BY <1>a, <1>p, <1>u, <2>1, <2>2 DEF VerifyTypeOK
<1>c. \A o \in Callers \ {c} : /\ batch'[o] = batch[o] /\ wants'[o] = wants[o] /\ out'[o] = out[o]
                              /\ row'[o] = row[o] /\ vpc'[o] = vpc[o] /\ verdict'[o] = verdict[o]
  BY <1>a, <1>p, <1>u DEF VerifyTypeOK
<1>2. TrueVerdict'
  <2>1. ASSUME NEW o \in Callers \ {c}, vpc'[o] = "done"
        PROVE  /\ verdict'[o] <=> AllValid(o)'
               /\ wants'[o] => ResultsUpTo(o, Len(batch[o]))'
    BY <2>1, <1>a, <1>c, SameRows, SameResults DEF TrueVerdict
  <2>2. ASSUME vpc'[c] = "done"
        PROVE  /\ verdict'[c] <=> AllValid(c)'
               /\ wants'[c] => ResultsUpTo(c, Len(batch[c]))'
    <3>1. batch'[c] = <<>> /\ verdict'[c] = TRUE
      BY <2>2, <1>r, <1>u
    <3>2. AllValid(c)' /\ ResultsUpTo(c, Len(batch[c]))'
      BY <3>1 DEF AllValid, ResultsUpTo
    <3> QED
      BY <3>1, <3>2
  <2> QED
    BY <2>1, <2>2 DEF TrueVerdict
<1>3. RowsDone'
  <2>1. ASSUME NEW o \in Callers \ {c}
        PROVE  /\ vpc'[o] \in {"hook", "device", "chunks"} => wants'[o]
               /\ vpc'[o] \notin {"chunks", "locate"} => row'[o] = 0
               /\ vpc'[o] \in {"chunks", "locate"} /\ wants'[o] => ResultsUpTo(o, row[o])'
    BY <2>1, <1>a, <1>c, SameResults DEF RowsDone
  <2>2. /\ vpc'[c] \in {"hook", "device", "chunks"} => wants'[c]
        /\ vpc'[c] \notin {"chunks", "locate"} => row'[c] = 0
    BY <1>u
  <2>3. vpc'[c] \in {"chunks", "locate"} /\ wants'[c] => ResultsUpTo(c, row[c])'
    BY <1>u
  <2> QED
    BY <2>1, <2>2, <2>3 DEF RowsDone
<1> QED
  BY <1>1, <1>2, <1>3 DEF VerifyInv

(* VerifyInv is kept by a refused call.                                     *)
LEMMA VerifyRefusedStep ==
  ASSUME VerifyInv, NEW c \in Callers, NEW n \in Nat, NEW results \in BOOLEAN, VerifyRefused(c, n, results)
  PROVE  VerifyInv'
<1> USE DEF VerifyRefused, Go, Return, provider, arguments
<1>a. VerifyTypeOK /\ TrueVerdict /\ RowsDone
  BY DEF VerifyInv
<1>b. /\ \A i \in DOMAIN batch[c] : RowByte(c, i) \in {0, 1}
      /\ \A i \in DOMAIN batch[c] : RowByte(c, i) = 1 <=> batch[c][i] = "valid"
      /\ Len(batch[c]) \in Nat /\ DOMAIN batch[c] = 1..Len(batch[c]) /\ row[c] \in Nat
  BY <1>a, RowBytes
<1>p. /\ batch' = [batch EXCEPT ![c] = [i \in 1..n |-> "unparsable"]]
      /\ wants' = [wants EXCEPT ![c] = results]
      /\ out' = [out EXCEPT ![c] = [i \in 1..n |-> IF results THEN 0 ELSE -1]]
      /\ n > 0
  OBVIOUS
<1>r. batch'[c] = [i \in 1..n |-> "unparsable"] /\ wants'[c] = results
      /\ out'[c] = [i \in 1..n |-> IF results THEN 0 ELSE -1]
  BY <1>a, <1>p DEF VerifyTypeOK
<1>s. batch'[c] \in Seq(RowKinds) /\ DOMAIN batch'[c] = 1..n
  BY <1>r DEF RowKinds
<1>1. VerifyTypeOK'
  <2>1. \A o \in Callers : out'[o] \in [DOMAIN batch'[o] -> {-1, 0, 1}]
    <3> SUFFICES ASSUME NEW o \in Callers PROVE out'[o] \in [DOMAIN batch'[o] -> {-1, 0, 1}]
      OBVIOUS
    <3>1. CASE o = c
      BY <3>1, <1>r
    <3>2. CASE o # c
      BY <3>2, <1>a, <1>p DEF VerifyTypeOK
    <3> QED
      BY <3>1, <3>2
  <2>2. batch' \in [Callers -> Seq(RowKinds)] /\ wants' \in [Callers -> BOOLEAN]
    BY <1>a, <1>p, <1>r, <1>s DEF VerifyTypeOK
  <2>3. /\ vpc' \in [Callers -> {"idle", "load", "hook", "device", "chunks", "pool", "locate", "done"}]
        /\ row' \in [Callers -> Nat] /\ verdict' \in [Callers -> BOOLEAN]
    BY <1>a DEF VerifyTypeOK
  <2> QED
    BY <1>a, <2>1, <2>2, <2>3 DEF VerifyTypeOK
<1>c. \A o \in Callers \ {c} : /\ batch'[o] = batch[o] /\ wants'[o] = wants[o] /\ out'[o] = out[o]
                              /\ row'[o] = row[o] /\ vpc'[o] = vpc[o] /\ verdict'[o] = verdict[o]
  BY <1>a DEF VerifyTypeOK
<1>2. TrueVerdict'
  <2>1. ASSUME NEW o \in Callers \ {c}, vpc'[o] = "done"
        PROVE  /\ verdict'[o] <=> AllValid(o)'
               /\ wants'[o] => ResultsUpTo(o, Len(batch[o]))'
    BY <2>1, <1>a, <1>c, SameRows, SameResults DEF TrueVerdict
  <2>2. ASSUME vpc'[c] = "done"
        PROVE  /\ verdict'[c] <=> AllValid(c)'
               /\ wants'[c] => ResultsUpTo(c, Len(batch[c]))'
    <3>1. ~verdict'[c]
      BY <1>a DEF VerifyTypeOK
    <3>2. 1 \in DOMAIN batch'[c] /\ batch'[c][1] = "unparsable"
      BY <1>r, <1>s, <1>p
    <3>3. ~AllValid(c)'
      BY <3>2 DEF AllValid
    <3>4. ASSUME wants'[c], NEW i \in DOMAIN batch'[c]
          PROVE  out'[c][i] = RowByte(c, i)'
      BY <3>4, <1>r, <1>s DEF RowByte
    <3>5. wants'[c] => ResultsUpTo(c, Len(batch[c]))'
      BY <3>4 DEF ResultsUpTo
    <3> QED
      BY <3>1, <3>3, <3>5
  <2> QED
    BY <2>1, <2>2 DEF TrueVerdict
<1>3. RowsDone'
  <2>1. ASSUME NEW o \in Callers \ {c}
        PROVE  /\ vpc'[o] \in {"hook", "device", "chunks"} => wants'[o]
               /\ vpc'[o] \notin {"chunks", "locate"} => row'[o] = 0
               /\ vpc'[o] \in {"chunks", "locate"} /\ wants'[o] => ResultsUpTo(o, row[o])'
    BY <2>1, <1>a, <1>c, SameResults DEF RowsDone
  <2>2. /\ vpc'[c] \in {"hook", "device", "chunks"} => wants'[c]
        /\ vpc'[c] \notin {"chunks", "locate"} => row'[c] = 0
    BY <1>a, <1>b DEF VerifyTypeOK, RowsDone
  <2>3. vpc'[c] \in {"chunks", "locate"} /\ wants'[c] => ResultsUpTo(c, row[c])'
    BY <1>a, <1>b, SameRows DEF VerifyTypeOK, RowsDone
  <2> QED
    BY <2>1, <2>2, <2>3 DEF RowsDone
<1> QED
  BY <1>1, <1>2, <1>3 DEF VerifyInv

(* VerifyInv is kept by the load of the hook.                               *)
LEMMA LoadHookStep ==
  ASSUME VerifyInv, NEW c \in Callers, LoadHook(c)
  PROVE  VerifyInv'
<1> USE DEF LoadHook, Go, Return, provider, arguments
<1>a. VerifyTypeOK /\ TrueVerdict /\ RowsDone
  BY DEF VerifyInv
<1>b. /\ \A i \in DOMAIN batch[c] : RowByte(c, i) \in {0, 1}
      /\ \A i \in DOMAIN batch[c] : RowByte(c, i) = 1 <=> batch[c][i] = "valid"
      /\ Len(batch[c]) \in Nat /\ DOMAIN batch[c] = 1..Len(batch[c]) /\ row[c] \in Nat
  BY <1>a, RowBytes
<1>1. VerifyTypeOK'
  BY <1>a, <1>b, BatchVerifyAssumption DEF VerifyTypeOK
<1>c. \A o \in Callers \ {c} : /\ batch'[o] = batch[o] /\ wants'[o] = wants[o] /\ out'[o] = out[o]
                              /\ row'[o] = row[o] /\ vpc'[o] = vpc[o] /\ verdict'[o] = verdict[o]
  BY <1>a DEF VerifyTypeOK
<1>2. TrueVerdict'
  <2>1. ASSUME NEW o \in Callers \ {c}, vpc'[o] = "done"
        PROVE  /\ verdict'[o] <=> AllValid(o)'
               /\ wants'[o] => ResultsUpTo(o, Len(batch[o]))'
    BY <2>1, <1>a, <1>c, SameRows, SameResults DEF TrueVerdict
  <2>2. ASSUME vpc'[c] = "done"
        PROVE  /\ verdict'[c] <=> AllValid(c)'
               /\ wants'[c] => ResultsUpTo(c, Len(batch[c]))'
    BY <2>2, <1>a, <1>b DEF VerifyTypeOK
  <2> QED
    BY <2>1, <2>2 DEF TrueVerdict
<1>3. RowsDone'
  <2>1. ASSUME NEW o \in Callers \ {c}
        PROVE  /\ vpc'[o] \in {"hook", "device", "chunks"} => wants'[o]
               /\ vpc'[o] \notin {"chunks", "locate"} => row'[o] = 0
               /\ vpc'[o] \in {"chunks", "locate"} /\ wants'[o] => ResultsUpTo(o, row[o])'
    BY <2>1, <1>a, <1>c, SameResults DEF RowsDone
  <2>2. /\ vpc'[c] \in {"hook", "device", "chunks"} => wants'[c]
        /\ vpc'[c] \notin {"chunks", "locate"} => row'[c] = 0
    BY <1>a, <1>b DEF VerifyTypeOK, RowsDone
  <2>3. vpc'[c] \in {"chunks", "locate"} /\ wants'[c] => ResultsUpTo(c, row[c])'
    BY <1>a, <1>b, SameRows DEF VerifyTypeOK, RowsDone
  <2> QED
    BY <2>1, <2>2, <2>3 DEF RowsDone
<1> QED
  BY <1>1, <1>2, <1>3 DEF VerifyInv

(* VerifyInv is kept by the probe.                                          *)
LEMMA LockAndProbeStep ==
  ASSUME VerifyInv, NEW c \in Callers, LockAndProbe(c)
  PROVE  VerifyInv'
<1> USE DEF LockAndProbe, Go, Return, provider, arguments
<1>a. VerifyTypeOK /\ TrueVerdict /\ RowsDone
  BY DEF VerifyInv
<1>b. /\ \A i \in DOMAIN batch[c] : RowByte(c, i) \in {0, 1}
      /\ \A i \in DOMAIN batch[c] : RowByte(c, i) = 1 <=> batch[c][i] = "valid"
      /\ Len(batch[c]) \in Nat /\ DOMAIN batch[c] = 1..Len(batch[c]) /\ row[c] \in Nat
  BY <1>a, RowBytes
<1>1. VerifyTypeOK'
  BY <1>a, <1>b, BatchVerifyAssumption DEF VerifyTypeOK
<1>c. \A o \in Callers \ {c} : /\ batch'[o] = batch[o] /\ wants'[o] = wants[o] /\ out'[o] = out[o]
                              /\ row'[o] = row[o] /\ vpc'[o] = vpc[o] /\ verdict'[o] = verdict[o]
  BY <1>a DEF VerifyTypeOK
<1>2. TrueVerdict'
  <2>1. ASSUME NEW o \in Callers \ {c}, vpc'[o] = "done"
        PROVE  /\ verdict'[o] <=> AllValid(o)'
               /\ wants'[o] => ResultsUpTo(o, Len(batch[o]))'
    BY <2>1, <1>a, <1>c, SameRows, SameResults DEF TrueVerdict
  <2>2. ASSUME vpc'[c] = "done"
        PROVE  /\ verdict'[c] <=> AllValid(c)'
               /\ wants'[c] => ResultsUpTo(c, Len(batch[c]))'
    BY <2>2, <1>a, <1>b DEF VerifyTypeOK
  <2> QED
    BY <2>1, <2>2 DEF TrueVerdict
<1>3. RowsDone'
  <2>1. ASSUME NEW o \in Callers \ {c}
        PROVE  /\ vpc'[o] \in {"hook", "device", "chunks"} => wants'[o]
               /\ vpc'[o] \notin {"chunks", "locate"} => row'[o] = 0
               /\ vpc'[o] \in {"chunks", "locate"} /\ wants'[o] => ResultsUpTo(o, row[o])'
    BY <2>1, <1>a, <1>c, SameResults DEF RowsDone
  <2>2. /\ vpc'[c] \in {"hook", "device", "chunks"} => wants'[c]
        /\ vpc'[c] \notin {"chunks", "locate"} => row'[c] = 0
    BY <1>a, <1>b DEF VerifyTypeOK, RowsDone
  <2>3. vpc'[c] \in {"chunks", "locate"} /\ wants'[c] => ResultsUpTo(c, row[c])'
    BY <1>a, <1>b, SameRows DEF VerifyTypeOK, RowsDone
  <2> QED
    BY <2>1, <2>2, <2>3 DEF RowsDone
<1> QED
  BY <1>1, <1>2, <1>3 DEF VerifyInv

(* VerifyInv is kept by the start of the device.                            *)
LEMMA DeviceStartStep ==
  ASSUME VerifyInv, NEW c \in Callers, DeviceStart(c)
  PROVE  VerifyInv'
<1> USE DEF DeviceStart, Filled, Go, Return, provider, arguments
<1>a. VerifyTypeOK /\ TrueVerdict /\ RowsDone
  BY DEF VerifyInv
<1>b. /\ \A i \in DOMAIN batch[c] : RowByte(c, i) \in {0, 1}
      /\ \A i \in DOMAIN batch[c] : RowByte(c, i) = 1 <=> batch[c][i] = "valid"
      /\ Len(batch[c]) \in Nat /\ DOMAIN batch[c] = 1..Len(batch[c]) /\ row[c] \in Nat
  BY <1>a, RowBytes
<1>1. VerifyTypeOK'
  BY <1>a, <1>b, BatchVerifyAssumption DEF VerifyTypeOK
<1>c. \A o \in Callers \ {c} : /\ batch'[o] = batch[o] /\ wants'[o] = wants[o] /\ out'[o] = out[o]
                              /\ row'[o] = row[o] /\ vpc'[o] = vpc[o] /\ verdict'[o] = verdict[o]
  BY <1>a DEF VerifyTypeOK
<1>2. TrueVerdict'
  <2>1. ASSUME NEW o \in Callers \ {c}, vpc'[o] = "done"
        PROVE  /\ verdict'[o] <=> AllValid(o)'
               /\ wants'[o] => ResultsUpTo(o, Len(batch[o]))'
    BY <2>1, <1>a, <1>c, SameRows, SameResults DEF TrueVerdict
  <2>2. ASSUME vpc'[c] = "done"
        PROVE  /\ verdict'[c] <=> AllValid(c)'
               /\ wants'[c] => ResultsUpTo(c, Len(batch[c]))'
    BY <2>2, <1>a, <1>b DEF VerifyTypeOK
  <2> QED
    BY <2>1, <2>2 DEF TrueVerdict
<1>3. RowsDone'
  <2>1. ASSUME NEW o \in Callers \ {c}
        PROVE  /\ vpc'[o] \in {"hook", "device", "chunks"} => wants'[o]
               /\ vpc'[o] \notin {"chunks", "locate"} => row'[o] = 0
               /\ vpc'[o] \in {"chunks", "locate"} /\ wants'[o] => ResultsUpTo(o, row[o])'
    BY <2>1, <1>a, <1>c, SameResults DEF RowsDone
  <2>2. /\ vpc'[c] \in {"hook", "device", "chunks"} => wants'[c]
        /\ vpc'[c] \notin {"chunks", "locate"} => row'[c] = 0
    BY <1>a, <1>b DEF VerifyTypeOK, RowsDone
  <2>3. vpc'[c] \in {"chunks", "locate"} /\ wants'[c] => ResultsUpTo(c, row[c])'
    <3>1. row'[c] = 0
      BY <1>a DEF RowsDone
    <3> QED
      BY <3>1, <1>b DEF ResultsUpTo
  <2> QED
    BY <2>1, <2>2, <2>3 DEF RowsDone
<1> QED
  BY <1>1, <1>2, <1>3 DEF VerifyInv

(* VerifyInv is kept by a chunk of the device.                              *)
LEMMA DeviceChunkStep ==
  ASSUME VerifyInv, NEW c \in Callers, DeviceChunk(c)
  PROVE  VerifyInv'
<1> USE DEF DeviceChunk, Go, Return, provider, arguments
<1>a. VerifyTypeOK /\ TrueVerdict /\ RowsDone
  BY DEF VerifyInv
<1>b. /\ \A i \in DOMAIN batch[c] : RowByte(c, i) \in {0, 1}
      /\ \A i \in DOMAIN batch[c] : RowByte(c, i) = 1 <=> batch[c][i] = "valid"
      /\ Len(batch[c]) \in Nat /\ DOMAIN batch[c] = 1..Len(batch[c]) /\ row[c] \in Nat
  BY <1>a, RowBytes
<1>p. /\ batch'[c] = batch[c] /\ wants'[c] = wants[c] /\ row'[c] = row[c] + ChunkRows
      /\ out'[c] = [i \in DOMAIN batch[c] |->
                IF row[c] < i /\ i <= row[c] + ChunkRows THEN RowByte(c, i) ELSE out[c][i]]
      /\ ChunkRows \in Nat
  BY <1>a, BatchVerifyAssumption DEF VerifyTypeOK
<1>1. VerifyTypeOK'
  <2>1. \A o \in Callers : out'[o] \in [DOMAIN batch'[o] -> {-1, 0, 1}]
    <3> SUFFICES ASSUME NEW o \in Callers PROVE out'[o] \in [DOMAIN batch'[o] -> {-1, 0, 1}]
      OBVIOUS
    <3>0. out[o] \in [DOMAIN batch[o] -> {-1, 0, 1}]
      BY <1>a DEF VerifyTypeOK
    <3>1. CASE o = c
      BY <3>0, <3>1, <1>b, <1>p
    <3>2. CASE o # c
      BY <3>0, <3>2, <1>p, <1>a DEF VerifyTypeOK
    <3> QED
      BY <3>1, <3>2
  <2> QED
    BY <1>a, <1>b, <1>p, <2>1, BatchVerifyAssumption DEF VerifyTypeOK
<1>c. \A o \in Callers \ {c} : /\ batch'[o] = batch[o] /\ wants'[o] = wants[o] /\ out'[o] = out[o]
                              /\ row'[o] = row[o] /\ vpc'[o] = vpc[o] /\ verdict'[o] = verdict[o]
  BY <1>a DEF VerifyTypeOK
<1>2. TrueVerdict'
  <2>1. ASSUME NEW o \in Callers \ {c}, vpc'[o] = "done"
        PROVE  /\ verdict'[o] <=> AllValid(o)'
               /\ wants'[o] => ResultsUpTo(o, Len(batch[o]))'
    BY <2>1, <1>a, <1>c, SameRows, SameResults DEF TrueVerdict
  <2>2. ASSUME vpc'[c] = "done"
        PROVE  /\ verdict'[c] <=> AllValid(c)'
               /\ wants'[c] => ResultsUpTo(c, Len(batch[c]))'
    BY <2>2, <1>a, <1>b DEF VerifyTypeOK
  <2> QED
    BY <2>1, <2>2 DEF TrueVerdict
<1>3. RowsDone'
  <2>1. ASSUME NEW o \in Callers \ {c}
        PROVE  /\ vpc'[o] \in {"hook", "device", "chunks"} => wants'[o]
               /\ vpc'[o] \notin {"chunks", "locate"} => row'[o] = 0
               /\ vpc'[o] \in {"chunks", "locate"} /\ wants'[o] => ResultsUpTo(o, row[o])'
    BY <2>1, <1>a, <1>c, SameResults DEF RowsDone
  <2>2. /\ vpc'[c] \in {"hook", "device", "chunks"} => wants'[c]
        /\ vpc'[c] \notin {"chunks", "locate"} => row'[c] = 0
    BY <1>a, <1>b DEF VerifyTypeOK, RowsDone
  <2>3. vpc'[c] \in {"chunks", "locate"} /\ wants'[c] => ResultsUpTo(c, row[c])'
    <3> SUFFICES ASSUME wants[c] PROVE ResultsUpTo(c, row[c])'
      BY <1>p
    <3>1. ResultsUpTo(c, row[c])
      BY <1>a DEF RowsDone
    <3>2. \A i \in DOMAIN batch[c] : i <= row[c] + ChunkRows => out'[c][i] = RowByte(c, i)
      BY <3>1, <1>b, <1>p DEF ResultsUpTo
    <3>3. \A i \in DOMAIN batch[c] : RowByte(c, i)' = RowByte(c, i)
      BY <1>p, SameRows
    <3> QED
      BY <3>2, <3>3, <1>p DEF ResultsUpTo
  <2> QED
    BY <2>1, <2>2, <2>3 DEF RowsDone
<1> QED
  BY <1>1, <1>2, <1>3 DEF VerifyInv

(* VerifyInv is kept by an operational error.                               *)
LEMMA DeviceFailsStep ==
  ASSUME VerifyInv, NEW c \in Callers, DeviceFails(c)
  PROVE  VerifyInv'
<1> USE DEF DeviceFails, Go, Return, provider, arguments
<1>a. VerifyTypeOK /\ TrueVerdict /\ RowsDone
  BY DEF VerifyInv
<1>b. /\ \A i \in DOMAIN batch[c] : RowByte(c, i) \in {0, 1}
      /\ \A i \in DOMAIN batch[c] : RowByte(c, i) = 1 <=> batch[c][i] = "valid"
      /\ Len(batch[c]) \in Nat /\ DOMAIN batch[c] = 1..Len(batch[c]) /\ row[c] \in Nat
  BY <1>a, RowBytes
<1>1. VerifyTypeOK'
  BY <1>a, <1>b, BatchVerifyAssumption DEF VerifyTypeOK
<1>c. \A o \in Callers \ {c} : /\ batch'[o] = batch[o] /\ wants'[o] = wants[o] /\ out'[o] = out[o]
                              /\ row'[o] = row[o] /\ vpc'[o] = vpc[o] /\ verdict'[o] = verdict[o]
  BY <1>a DEF VerifyTypeOK
<1>2. TrueVerdict'
  <2>1. ASSUME NEW o \in Callers \ {c}, vpc'[o] = "done"
        PROVE  /\ verdict'[o] <=> AllValid(o)'
               /\ wants'[o] => ResultsUpTo(o, Len(batch[o]))'
    BY <2>1, <1>a, <1>c, SameRows, SameResults DEF TrueVerdict
  <2>2. ASSUME vpc'[c] = "done"
        PROVE  /\ verdict'[c] <=> AllValid(c)'
               /\ wants'[c] => ResultsUpTo(c, Len(batch[c]))'
    BY <2>2, <1>a, <1>b DEF VerifyTypeOK
  <2> QED
    BY <2>1, <2>2 DEF TrueVerdict
<1>3. RowsDone'
  <2>1. ASSUME NEW o \in Callers \ {c}
        PROVE  /\ vpc'[o] \in {"hook", "device", "chunks"} => wants'[o]
               /\ vpc'[o] \notin {"chunks", "locate"} => row'[o] = 0
               /\ vpc'[o] \in {"chunks", "locate"} /\ wants'[o] => ResultsUpTo(o, row[o])'
    BY <2>1, <1>a, <1>c, SameResults DEF RowsDone
  <2>2. /\ vpc'[c] \in {"hook", "device", "chunks"} => wants'[c]
        /\ vpc'[c] \notin {"chunks", "locate"} => row'[c] = 0
    BY <1>a, <1>b DEF VerifyTypeOK, RowsDone
  <2>3. vpc'[c] \in {"chunks", "locate"} /\ wants'[c] => ResultsUpTo(c, row[c])'
    BY <1>a, <1>b, SameRows DEF VerifyTypeOK, RowsDone
  <2> QED
    BY <2>1, <2>2, <2>3 DEF RowsDone
<1> QED
  BY <1>1, <1>2, <1>3 DEF VerifyInv

(* VerifyInv is kept by the device's verdict.                               *)
LEMMA DeviceEndStep ==
  ASSUME VerifyInv, NEW c \in Callers, DeviceEnd(c)
  PROVE  VerifyInv'
<1> USE DEF DeviceEnd, Go, Return, provider, arguments
<1>a. VerifyTypeOK /\ TrueVerdict /\ RowsDone
  BY DEF VerifyInv
<1>b. /\ \A i \in DOMAIN batch[c] : RowByte(c, i) \in {0, 1}
      /\ \A i \in DOMAIN batch[c] : RowByte(c, i) = 1 <=> batch[c][i] = "valid"
      /\ Len(batch[c]) \in Nat /\ DOMAIN batch[c] = 1..Len(batch[c]) /\ row[c] \in Nat
  BY <1>a, RowBytes
<1>1. VerifyTypeOK'
  BY <1>a, <1>b, BatchVerifyAssumption DEF VerifyTypeOK
<1>c. \A o \in Callers \ {c} : /\ batch'[o] = batch[o] /\ wants'[o] = wants[o] /\ out'[o] = out[o]
                              /\ row'[o] = row[o] /\ vpc'[o] = vpc[o] /\ verdict'[o] = verdict[o]
  BY <1>a DEF VerifyTypeOK
<1>2. TrueVerdict'
  <2>1. ASSUME NEW o \in Callers \ {c}, vpc'[o] = "done"
        PROVE  /\ verdict'[o] <=> AllValid(o)'
               /\ wants'[o] => ResultsUpTo(o, Len(batch[o]))'
    BY <2>1, <1>a, <1>c, SameRows, SameResults DEF TrueVerdict
  <2>2. ASSUME vpc'[c] = "done"
        PROVE  /\ verdict'[c] <=> AllValid(c)'
               /\ wants'[c] => ResultsUpTo(c, Len(batch[c]))'
    <3>1. ResultsUpTo(c, row[c]) /\ row[c] >= Len(batch[c]) /\ wants[c]
      BY <1>a DEF RowsDone
    <3>2. \A i \in DOMAIN batch[c] : i <= row[c] /\ out[c][i] = RowByte(c, i)
      BY <3>1, <1>b DEF ResultsUpTo
    <3>3. verdict'[c] <=> \A i \in DOMAIN batch[c] : out[c][i] # 0
      BY <1>a DEF VerifyTypeOK
    <3>4. verdict'[c] <=> AllValid(c)
      BY <3>2, <3>3, <1>b DEF AllValid
    <3>5. ResultsUpTo(c, Len(batch[c]))
      BY <3>2 DEF ResultsUpTo
    <3> QED
      BY <3>4, <3>5, SameRows, SameResults DEF ResultsUpTo
  <2> QED
    BY <2>1, <2>2 DEF TrueVerdict
<1>3. RowsDone'
  <2>1. ASSUME NEW o \in Callers \ {c}
        PROVE  /\ vpc'[o] \in {"hook", "device", "chunks"} => wants'[o]
               /\ vpc'[o] \notin {"chunks", "locate"} => row'[o] = 0
               /\ vpc'[o] \in {"chunks", "locate"} /\ wants'[o] => ResultsUpTo(o, row[o])'
    BY <2>1, <1>a, <1>c, SameResults DEF RowsDone
  <2>2. /\ vpc'[c] \in {"hook", "device", "chunks"} => wants'[c]
        /\ vpc'[c] \notin {"chunks", "locate"} => row'[c] = 0
    BY <1>a, <1>b DEF VerifyTypeOK, RowsDone
  <2>3. vpc'[c] \in {"chunks", "locate"} /\ wants'[c] => ResultsUpTo(c, row[c])'
    BY <1>a, <1>b, SameRows DEF VerifyTypeOK, RowsDone
  <2> QED
    BY <2>1, <2>2, <2>3 DEF RowsDone
<1> QED
  BY <1>1, <1>2, <1>3 DEF VerifyInv

(* VerifyInv is kept by the pool's verdict.                                 *)
LEMMA PoolRunStep ==
  ASSUME VerifyInv, NEW c \in Callers, PoolRun(c)
  PROVE  VerifyInv'
<1> USE DEF PoolRun, Filled, Go, Return, provider, arguments
<1>a. VerifyTypeOK /\ TrueVerdict /\ RowsDone
  BY DEF VerifyInv
<1>b. /\ \A i \in DOMAIN batch[c] : RowByte(c, i) \in {0, 1}
      /\ \A i \in DOMAIN batch[c] : RowByte(c, i) = 1 <=> batch[c][i] = "valid"
      /\ Len(batch[c]) \in Nat /\ DOMAIN batch[c] = 1..Len(batch[c]) /\ row[c] \in Nat
  BY <1>a, RowBytes
<1>p. /\ batch' = batch /\ wants' = wants /\ row[c] = 0
      /\ out' = out \/ out' = [out EXCEPT ![c] = [i \in DOMAIN batch[c] |-> 1]]
      /\ row' = row \/ row' = [row EXCEPT ![c] = 0]
      /\ vpc' = [vpc EXCEPT ![c] = "done"] \/ vpc' = [vpc EXCEPT ![c] = "locate"]
      /\ hook' = hook /\ mutex' = mutex /\ probed' = probed /\ backend' = backend
      /\ verdict' = verdict \/ verdict' = [verdict EXCEPT ![c] = TRUE]
  <2>1. row[c] = 0
    BY <1>a DEF RowsDone
  <2>2. CASE AllValid(c)
    BY <2>1, <2>2
  <2>3. CASE ~AllValid(c)
    BY <2>1, <2>3
  <2> QED
    BY <2>2, <2>3
<1>1. VerifyTypeOK'
  <2>1. \A o \in Callers : out'[o] \in [DOMAIN batch'[o] -> {-1, 0, 1}]
    <3> SUFFICES ASSUME NEW o \in Callers PROVE out'[o] \in [DOMAIN batch'[o] -> {-1, 0, 1}]
      OBVIOUS
    <3>0. out[o] \in [DOMAIN batch[o] -> {-1, 0, 1}]
      BY <1>a DEF VerifyTypeOK
    <3>1. CASE o = c
      BY <3>0, <3>1, <1>b, <1>p, <1>a DEF VerifyTypeOK
    <3>2. CASE o # c
      BY <3>0, <3>2, <1>p, <1>a DEF VerifyTypeOK
    <3> QED
      BY <3>1, <3>2
  <2> QED
    BY <1>a, <1>b, <1>p, <2>1, BatchVerifyAssumption DEF VerifyTypeOK
<1>c. \A o \in Callers \ {c} : /\ batch'[o] = batch[o] /\ wants'[o] = wants[o] /\ out'[o] = out[o]
                              /\ row'[o] = row[o] /\ vpc'[o] = vpc[o] /\ verdict'[o] = verdict[o]
  BY <1>a, <1>p DEF VerifyTypeOK
<1>2. TrueVerdict'
  <2>1. ASSUME NEW o \in Callers \ {c}, vpc'[o] = "done"
        PROVE  /\ verdict'[o] <=> AllValid(o)'
               /\ wants'[o] => ResultsUpTo(o, Len(batch[o]))'
    BY <2>1, <1>a, <1>c, SameRows, SameResults DEF TrueVerdict
  <2>2. ASSUME vpc'[c] = "done"
        PROVE  /\ verdict'[c] <=> AllValid(c)'
               /\ wants'[c] => ResultsUpTo(c, Len(batch[c]))'
    <3>1. AllValid(c)
      BY <2>2, <1>a DEF VerifyTypeOK
    <3>2. verdict'[c] /\ (wants[c] => out'[c] = [i \in DOMAIN batch[c] |-> 1])
      BY <3>1, <1>a DEF VerifyTypeOK
    <3>3. \A i \in DOMAIN batch[c] : RowByte(c, i) = 1
      BY <3>1 DEF AllValid, RowByte
    <3>4. AllValid(c)' /\ \A i \in DOMAIN batch[c] : RowByte(c, i)' = 1
      BY <3>1, <3>3, <1>p, SameRows
    <3> QED
      BY <3>2, <3>4, <1>p DEF ResultsUpTo
  <2> QED
    BY <2>1, <2>2 DEF TrueVerdict
<1>3. RowsDone'
  <2>1. ASSUME NEW o \in Callers \ {c}
        PROVE  /\ vpc'[o] \in {"hook", "device", "chunks"} => wants'[o]
               /\ vpc'[o] \notin {"chunks", "locate"} => row'[o] = 0
               /\ vpc'[o] \in {"chunks", "locate"} /\ wants'[o] => ResultsUpTo(o, row[o])'
    BY <2>1, <1>a, <1>c, SameResults DEF RowsDone
  <2>2. /\ vpc'[c] \in {"hook", "device", "chunks"} => wants'[c]
        /\ vpc'[c] \notin {"chunks", "locate"} => row'[c] = 0
    <3>1. vpc'[c] \in {"done", "locate"} /\ row'[c] = 0
      BY <1>a, <1>p DEF VerifyTypeOK
    <3> QED
      BY <3>1
  <2>3. vpc'[c] \in {"chunks", "locate"} /\ wants'[c] => ResultsUpTo(c, row[c])'
    <3>1. row'[c] = 0
      BY <1>a, <1>p DEF VerifyTypeOK
    <3> QED
      BY <3>1, <1>b, <1>p DEF ResultsUpTo
  <2> QED
    BY <2>1, <2>2, <2>3 DEF RowsDone
<1> QED
  BY <1>1, <1>2, <1>3 DEF VerifyInv

(* VerifyInv is kept by a row of the locate loop.                           *)
LEMMA LocateStep ==
  ASSUME VerifyInv, NEW c \in Callers, Locate(c)
  PROVE  VerifyInv'
<1> USE DEF Locate, Go, Return, provider, arguments
<1>a. VerifyTypeOK /\ TrueVerdict /\ RowsDone
  BY DEF VerifyInv
<1>b. /\ \A i \in DOMAIN batch[c] : RowByte(c, i) \in {0, 1}
      /\ \A i \in DOMAIN batch[c] : RowByte(c, i) = 1 <=> batch[c][i] = "valid"
      /\ Len(batch[c]) \in Nat /\ DOMAIN batch[c] = 1..Len(batch[c]) /\ row[c] \in Nat
  BY <1>a, RowBytes
<1>p. /\ batch' = batch /\ wants' = wants /\ row[c] + 1 \in DOMAIN batch[c]
      /\ row' = [row EXCEPT ![c] = row[c] + 1]
      /\ out' = IF wants[c] THEN [out EXCEPT ![c] = [out[c] EXCEPT ![row[c] + 1] = RowByte(c, row[c] + 1)]]
                ELSE out
  BY <1>b
<1>q. RowByte(c, row[c] + 1) \in {0, 1}
  BY <1>p, <1>b
<1>1. VerifyTypeOK'
  <2>1. \A o \in Callers : out'[o] \in [DOMAIN batch'[o] -> {-1, 0, 1}]
    <3> SUFFICES ASSUME NEW o \in Callers PROVE out'[o] \in [DOMAIN batch'[o] -> {-1, 0, 1}]
      OBVIOUS
    <3>0. out[o] \in [DOMAIN batch[o] -> {-1, 0, 1}]
      BY <1>a DEF VerifyTypeOK
    <3>1. CASE o = c
      BY <3>0, <3>1, <1>b, <1>p, <1>q, <1>a DEF VerifyTypeOK
    <3>2. CASE o # c
      BY <3>0, <3>2, <1>p, <1>a DEF VerifyTypeOK
    <3> QED
      BY <3>1, <3>2
  <2> QED
    BY <1>a, <1>b, <1>p, <2>1, BatchVerifyAssumption DEF VerifyTypeOK
<1>c. \A o \in Callers \ {c} : /\ batch'[o] = batch[o] /\ wants'[o] = wants[o] /\ out'[o] = out[o]
                              /\ row'[o] = row[o] /\ vpc'[o] = vpc[o] /\ verdict'[o] = verdict[o]
  BY <1>a DEF VerifyTypeOK
<1>2. TrueVerdict'
  <2>1. ASSUME NEW o \in Callers \ {c}, vpc'[o] = "done"
        PROVE  /\ verdict'[o] <=> AllValid(o)'
               /\ wants'[o] => ResultsUpTo(o, Len(batch[o]))'
    BY <2>1, <1>a, <1>c, SameRows, SameResults DEF TrueVerdict
  <2>2. ASSUME vpc'[c] = "done"
        PROVE  /\ verdict'[c] <=> AllValid(c)'
               /\ wants'[c] => ResultsUpTo(c, Len(batch[c]))'
    BY <2>2, <1>a, <1>b DEF VerifyTypeOK
  <2> QED
    BY <2>1, <2>2 DEF TrueVerdict
<1>3. RowsDone'
  <2>1. ASSUME NEW o \in Callers \ {c}
        PROVE  /\ vpc'[o] \in {"hook", "device", "chunks"} => wants'[o]
               /\ vpc'[o] \notin {"chunks", "locate"} => row'[o] = 0
               /\ vpc'[o] \in {"chunks", "locate"} /\ wants'[o] => ResultsUpTo(o, row[o])'
    BY <2>1, <1>a, <1>c, SameResults DEF RowsDone
  <2>2. /\ vpc'[c] \in {"hook", "device", "chunks"} => wants'[c]
        /\ vpc'[c] \notin {"chunks", "locate"} => row'[c] = 0
    BY <1>a, <1>b DEF VerifyTypeOK, RowsDone
  <2>3. vpc'[c] \in {"chunks", "locate"} /\ wants'[c] => ResultsUpTo(c, row[c])'
    <3> SUFFICES ASSUME wants[c] PROVE ResultsUpTo(c, row[c])'
      BY <1>p
    <3>1. ResultsUpTo(c, row[c])
      BY <1>a DEF RowsDone
    <3>2. out[c] \in [DOMAIN batch[c] -> {-1, 0, 1}]
      BY <1>a DEF VerifyTypeOK
    <3>3. out'[c] = [out[c] EXCEPT ![row[c] + 1] = RowByte(c, row[c] + 1)] /\ row'[c] = row[c] + 1
      BY <1>p, <1>a DEF VerifyTypeOK
    <3>4. \A i \in DOMAIN batch[c] : i <= row[c] + 1 => out'[c][i] = RowByte(c, i)
      BY <3>1, <3>2, <3>3, <1>b DEF ResultsUpTo
    <3>5. \A i \in DOMAIN batch[c] : RowByte(c, i)' = RowByte(c, i)
      BY <1>p, SameRows
    <3> QED
      BY <3>3, <3>4, <3>5, <1>p DEF ResultsUpTo
  <2> QED
    BY <2>1, <2>2, <2>3 DEF RowsDone
<1> QED
  BY <1>1, <1>2, <1>3 DEF VerifyInv

(* VerifyInv is kept by the end of the locate loop.                         *)
LEMMA LocateEndStep ==
  ASSUME VerifyInv, NEW c \in Callers, LocateEnd(c)
  PROVE  VerifyInv'
<1> USE DEF LocateEnd, Go, Return, provider, arguments
<1>a. VerifyTypeOK /\ TrueVerdict /\ RowsDone
  BY DEF VerifyInv
<1>b. /\ \A i \in DOMAIN batch[c] : RowByte(c, i) \in {0, 1}
      /\ \A i \in DOMAIN batch[c] : RowByte(c, i) = 1 <=> batch[c][i] = "valid"
      /\ Len(batch[c]) \in Nat /\ DOMAIN batch[c] = 1..Len(batch[c]) /\ row[c] \in Nat
  BY <1>a, RowBytes
<1>1. VerifyTypeOK'
  <2>1. verdict' \in [Callers -> BOOLEAN]
    BY <1>a DEF VerifyTypeOK, AllValid
  <2> QED
    BY <1>a, <1>b, <2>1 DEF VerifyTypeOK
<1>c. \A o \in Callers \ {c} : /\ batch'[o] = batch[o] /\ wants'[o] = wants[o] /\ out'[o] = out[o]
                              /\ row'[o] = row[o] /\ vpc'[o] = vpc[o] /\ verdict'[o] = verdict[o]
  BY <1>a DEF VerifyTypeOK
<1>2. TrueVerdict'
  <2>1. ASSUME NEW o \in Callers \ {c}, vpc'[o] = "done"
        PROVE  /\ verdict'[o] <=> AllValid(o)'
               /\ wants'[o] => ResultsUpTo(o, Len(batch[o]))'
    BY <2>1, <1>a, <1>c, SameRows, SameResults DEF TrueVerdict
  <2>2. ASSUME vpc'[c] = "done"
        PROVE  /\ verdict'[c] <=> AllValid(c)'
               /\ wants'[c] => ResultsUpTo(c, Len(batch[c]))'
    <3>1. wants[c] => ResultsUpTo(c, row[c])
      BY <1>a DEF RowsDone
    <3>2. \A i \in DOMAIN batch[c] : i <= row[c]
      BY <1>b
    <3>3. verdict'[c] <=> AllValid(c)
      BY <1>a DEF VerifyTypeOK
    <3>4. wants[c] => ResultsUpTo(c, Len(batch[c]))
      BY <3>1, <3>2, <1>b DEF ResultsUpTo
    <3>5. AllValid(c)' <=> AllValid(c)
      BY SameRows
    <3>6. ResultsUpTo(c, Len(batch[c]))' <=> ResultsUpTo(c, Len(batch[c]))
      BY SameRows DEF ResultsUpTo
    <3> QED
      BY <3>3, <3>4, <3>5, <3>6
  <2> QED
    BY <2>1, <2>2 DEF TrueVerdict
<1>3. RowsDone'
  <2>1. ASSUME NEW o \in Callers \ {c}
        PROVE  /\ vpc'[o] \in {"hook", "device", "chunks"} => wants'[o]
               /\ vpc'[o] \notin {"chunks", "locate"} => row'[o] = 0
               /\ vpc'[o] \in {"chunks", "locate"} /\ wants'[o] => ResultsUpTo(o, row[o])'
    BY <2>1, <1>a, <1>c, SameResults DEF RowsDone
  <2>2. /\ vpc'[c] \in {"hook", "device", "chunks"} => wants'[c]
        /\ vpc'[c] \notin {"chunks", "locate"} => row'[c] = 0
    BY <1>a, <1>b DEF VerifyTypeOK, RowsDone
  <2>3. vpc'[c] \in {"chunks", "locate"} /\ wants'[c] => ResultsUpTo(c, row[c])'
    BY <1>a, <1>b, SameRows DEF VerifyTypeOK, RowsDone
  <2> QED
    BY <2>1, <2>2, <2>3 DEF RowsDone
<1> QED
  BY <1>1, <1>2, <1>3 DEF VerifyInv

-----------------------------------------------------------------------------
(* VerifyInv is kept by every step of an open call.                        *)
LEMMA VerifyStepInv ==
  ASSUME VerifyInv, NEW c \in Callers, VerifyStep(c)
  PROVE  VerifyInv'
<1>1. CASE LoadHook(c)
  BY <1>1, LoadHookStep
<1>2. CASE LockAndProbe(c)
  BY <1>2, LockAndProbeStep
<1>3. CASE DeviceStart(c)
  BY <1>3, DeviceStartStep
<1>4. CASE DeviceChunk(c)
  BY <1>4, DeviceChunkStep
<1>5. CASE DeviceFails(c)
  BY <1>5, DeviceFailsStep
<1>6. CASE DeviceEnd(c)
  BY <1>6, DeviceEndStep
<1>7. CASE PoolRun(c)
  BY <1>7, PoolRunStep
<1>8. CASE Locate(c)
  BY <1>8, LocateStep
<1>9. CASE LocateEnd(c)
  BY <1>9, LocateEndStep
<1> QED
  BY <1>1, <1>2, <1>3, <1>4, <1>5, <1>6, <1>7, <1>8, <1>9 DEF VerifyStep

(* The columns of a call are rows, and a signer that ended is at rest.     *)
LEMMA SignedRows ==
  ASSUME SignTypeOK
  PROVE  count \in Nat /\ Columns \subseteq Seq(RowKinds)
<1>1. count \in Nat
  BY BatchSignAssumption DEF SignTypeOK
<1>2. Signed \in [1..count -> RowKinds]
  BY <1>1 DEF Signed, AsRow, RowKinds
<1>3. [Signed EXCEPT ![count] = "unparsable"] \in [1..count -> RowKinds]
  BY <1>2 DEF RowKinds
<1>4. \A f \in [1..count -> RowKinds] : f \in Seq(RowKinds)
  BY <1>1
<1> QED
  BY <1>1, <1>2, <1>3, <1>4 DEF Columns

LEMMA SignerAtRest == SignInv /\ SignNext => pc # "done"
<1> SUFFICES ASSUME SignInv, SignNext PROVE pc # "done"
  OBVIOUS
<1>1. \A t \in Threads : worker[t] # "none" => pc # "done"
  BY DEF SignInv, Tiled
<1>2. ASSUME NEW t \in Threads, LoadError(t) \/ SignRow(t) \/ ZeroRest(t) \/ Exit(t)
      PROVE  worker[t] # "none"
  BY <1>2 DEF LoadError, SignRow, ZeroRest, Exit, Running
<1>3. CASE \E t \in Threads : LoadError(t) \/ SignRow(t) \/ ZeroRest(t) \/ Exit(t)
  BY <1>1, <1>2, <1>3
<1>4. CASE SignCall \/ SerialRow \/ SerialEnd \/ Spawn \/ SpawnEnd \/ SpawnFails \/ Join
  BY <1>4 DEF SignCall, SerialRow, SerialEnd, Spawn, SpawnEnd, SpawnFails, Join
<1> QED
  BY <1>3, <1>4 DEF SignNext

(* What was signed verifies, and of what was not nothing does, because the *)
(* signer fails closed and the verdict is the truth.                       *)
LEMMA RoundTripFollows == SignInv /\ VerifyInv /\ SignedFirst => RoundTrip
<1> SUFFICES ASSUME SignInv, VerifyInv, SignedFirst,
                    NEW c \in Callers, vpc[c] = "done", batch[c] = Signed
             PROVE  /\ verdict[c] <=> ret = "OK"
                    /\ wants[c] => \A i \in 1..count : out[c][i] = IF ret = "OK" THEN 1 ELSE 0
  BY DEF RoundTrip
<1>1. pc = "done" /\ ret # "BAD_INPUT"
  BY DEF SignedFirst
<1>2. count \in Nat
  BY SignedRows DEF SignInv
<1>3. /\ DOMAIN batch[c] = 1..count /\ Len(batch[c]) = count
      /\ \A i \in 1..count : batch[c][i] = AsRow(sigs[i - 1]) /\ i - 1 \in Rows
  BY <1>2 DEF Signed, Rows
<1>4. /\ verdict[c] <=> AllValid(c)
      /\ wants[c] => \A i \in 1..count : out[c][i] = RowByte(c, i)
  BY <1>2, <1>3 DEF VerifyInv, TrueVerdict, ResultsUpTo
<1>5. CASE ret = "OK" /\ \A i \in Rows : sigs[i] = "sig"
  <2>1. \A i \in 1..count : batch[c][i] = "valid"
    BY <1>3, <1>5 DEF AsRow
  <2>2. AllValid(c) /\ \A i \in 1..count : RowByte(c, i) = 1
    BY <2>1, <1>3 DEF AllValid, RowByte
  <2> QED
    BY <2>2, <1>4, <1>5
<1>6. CASE ret # "OK" /\ (\E i \in Rows : keys[i] = ret) /\ \A i \in Rows : sigs[i] = "zero"
  <2>1. \A i \in 1..count : batch[c][i] = "invalid"
    BY <1>3, <1>6 DEF AsRow
  <2>2. 1 \in 1..count
    BY <1>6, <1>2 DEF Rows
  <2>3. ~AllValid(c) /\ \A i \in 1..count : RowByte(c, i) = 0
    BY <2>1, <2>2, <1>3 DEF AllValid, RowByte
  <2> QED
    BY <2>3, <1>4, <1>6
<1> QED
  BY <1>1, <1>5, <1>6 DEF SignInv, FailClosed, Errors

-----------------------------------------------------------------------------
(* The signer and the verifiers together.                                  *)
LEMMA InitInv == Init => IInv
<1> SUFFICES ASSUME Init PROVE IInv
  OBVIOUS
<1>1. SignInv /\ VerifyInv
  BY SignInitInv, VerifyInitInv DEF Init
<1>2. SignedFirst
  BY DEF Init, VerifyInit, SignedFirst
<1> QED
  BY <1>1, <1>2 DEF IInv

LEMMA NextInv == IInv /\ [Next]_vars => IInv'
<1> SUFFICES ASSUME IInv, [Next]_vars PROVE SignInv' /\ VerifyInv' /\ SignedFirst'
  BY DEF IInv
<1>0. SignInv /\ VerifyInv /\ SignedFirst /\ SignTypeOK
  BY DEF IInv, SignInv
<1>1. CASE SignNext /\ UNCHANGED verifyVars
  <2>1. SignInv' /\ VerifyInv'
    BY <1>0, <1>1, SignStep, VerifyStutter
  <2>2. pc # "done"
    BY <1>0, <1>1, SignerAtRest
  <2>3. SignedFirst'
    BY <1>0, <1>1, <2>2 DEF SignedFirst, verifyVars
  <2> QED
    BY <2>1, <2>3
<1>2. ASSUME NEW c \in Callers, Verify(c), UNCHANGED signVars
      PROVE  SignInv' /\ VerifyInv' /\ SignedFirst'
  <2>1. VerifyInv'
    BY <1>0, <1>2, SignedRows, VerifyCallStep, VerifyRefusedStep DEF Verify
  <2>2. SignedFirst'
    BY <1>2 DEF Verify, SignedFirst, signVars
  <2> QED
    BY <1>0, <1>2, <2>1, <2>2, SignStutter
<1>3. ASSUME NEW c \in Callers, VerifyStep(c), UNCHANGED signVars
      PROVE  SignInv' /\ VerifyInv' /\ SignedFirst'
  <2>1. VerifyInv'
    BY <1>0, <1>3, VerifyStepInv
  <2>2. vpc[c] # "idle"
    BY <1>3 DEF VerifyStep, LoadHook, LockAndProbe, DeviceStart, DeviceChunk, DeviceFails,
                DeviceEnd, PoolRun, Locate, LocateEnd
  <2>3. SignedFirst'
    BY <1>0, <1>3, <2>2 DEF SignedFirst, signVars
  <2> QED
    BY <1>0, <1>3, <2>1, <2>3, SignStutter
<1>4. CASE (InstallHook \/ AvailableQuery) /\ UNCHANGED signVars
  <2>1. SignInv' /\ VerifyInv'
    BY <1>0, <1>4, SignStutter, InstallHookStep
  <2>2. SignedFirst'
    BY <1>0, <1>4 DEF SignedFirst, signVars, InstallHook, AvailableQuery
  <2> QED
    BY <2>1, <2>2
<1>5. CASE UNCHANGED vars
  <2>1. UNCHANGED signVars /\ UNCHANGED verifyVars
    BY <1>5 DEF vars
  <2>2. SignedFirst'
    BY <1>0, <2>1 DEF SignedFirst, signVars, verifyVars
  <2> QED
    BY <1>0, <2>1, <2>2, SignStutter, VerifyStutter
<1> QED
  BY <1>1, <1>2, <1>3, <1>4, <1>5 DEF Next

(* The inductive invariant holds of every behaviour.                       *)
THEOREM Invariance == Spec => []IInv
<1>1. Init => IInv
  BY InitInv
<1>2. IInv /\ [Next]_vars => IInv'
  BY NextInv
<1> QED
  BY <1>1, <1>2, PTL DEF Spec

(* The variables of both sides keep their types: in particular no device   *)
(* writes a result outside the batch.                                      *)
THEOREM Types == Spec => [](SignTypeOK /\ VerifyTypeOK)
<1>1. IInv => SignTypeOK /\ VerifyTypeOK
  BY DEF IInv, SignInv, VerifyInv
<1> QED
  BY Invariance, <1>1, PTL

(* sign_batch() is all or nothing: OK with every slot signed, or the error *)
(* of a row with every slot zero, on any number of threads, wherever the   *)
(* rows that fail are and in whatever order the threads find them.         *)
THEOREM SignedAsAWhole == Spec => []FailClosed
<1>1. IInv => FailClosed
  BY DEF IInv, SignInv
<1> QED
  BY Invariance, <1>1, PTL

(* A column verification returns the truth and writes exactly the rows'    *)
(* results, on the device, after a declined device, and on the pool.       *)
THEOREM VerdictsAreTrue == Spec => []TrueVerdict
<1>1. IInv => TrueVerdict
  BY DEF IInv, VerifyInv
<1> QED
  BY Invariance, <1>1, PTL

(* A batch that was signed verifies, and of one that was not no row does.  *)
THEOREM SignedThenVerified == Spec => []RoundTrip
<1>1. IInv => RoundTrip
  BY RoundTripFollows DEF IInv
<1> QED
  BY Invariance, <1>1, PTL

-----------------------------------------------------------------------------
(***************************************************************************)
(* What the equations of a batch say.                                      *)
(***************************************************************************)

LEMMA LengthOf ==
  ASSUME NEW n \in Nat, NEW V, NEW f \in [1..n -> V]
  PROVE  Len(f) = n /\ DOMAIN f = 1..n /\ f \in Seq(V)
<1>1. f \in Seq(V) /\ DOMAIN f = 1..n
  BY SeqDef
<1> QED  BY <1>1, LenProperties

LEMMA MaxOfTwo ==
  ASSUME NEW a \in Int, NEW b \in Int
  PROVE  Max({a, b}) = IF a >= b THEN a ELSE b
<1> DEFINE m == IF a >= b THEN a ELSE b
           IsMax(x) == x \in {a, b} /\ \A y \in {a, b} : x >= y
<1>1. IsMax(m)
  OBVIOUS
<1>2. \A x : IsMax(x) => x = m
  OBVIOUS
<1>3. Max({a, b}) = CHOOSE x : IsMax(x)
  BY Zenon DEF Max
<1> HIDE DEF m, IsMax
<1>4. IsMax(CHOOSE x : IsMax(x))
  BY <1>1, Zenon
<1>5. Max({a, b}) = m
  BY <1>2, <1>3, <1>4
<1> QED  BY <1>5 DEF m

LEMMA MinOfTwo ==
  ASSUME NEW a \in Int, NEW b \in Int
  PROVE  Min({a, b}) = IF a <= b THEN a ELSE b
<1> DEFINE m == IF a <= b THEN a ELSE b
           IsMin(x) == x \in {a, b} /\ \A y \in {a, b} : x <= y
<1>1. IsMin(m)
  OBVIOUS
<1>2. \A x : IsMin(x) => x = m
  OBVIOUS
<1>3. Min({a, b}) = CHOOSE x : IsMin(x)
  BY Zenon DEF Min
<1> HIDE DEF m, IsMin
<1>4. IsMin(CHOOSE x : IsMin(x))
  BY <1>1, Zenon
<1>5. Min({a, b}) = m
  BY <1>2, <1>3, <1>4
<1> QED  BY <1>5 DEF m

-----------------------------------------------------------------------------
(* Schnorr.                                                                *)

LEMMA SchnorrEntryType ==
  ASSUME NEW en \in SchnorrEntries
  PROVE  /\ en.r \in Scalar /\ en.s \in Scalar /\ en.key \in Scalar /\ en.e \in Scalar
         /\ en.r # 0 => Even(en.r) = en.r
         /\ en.key # 0 => Even(en.key) = en.key
<1>1. en \in [r : XOnly, s : NonZero, key : XOnly, e : Scalar]
  BY BatchEquationsAssumption
<1>2. en.r \in XOnly /\ en.s \in NonZero /\ en.key \in XOnly /\ en.e \in Scalar
  BY <1>1
<1>3. \A x \in XOnly : x \in Scalar /\ (x # 0 => HasEvenY(x))
  BY NonZeroType, ZeroAndOne DEF XOnly
<1> QED  BY <1>2, <1>3, NonZeroType DEF Even

(* What an equation is off by, and what its row adds to the batch.         *)
Defect(en) == Plus(en.s, Plus(Neg(Times(en.e, en.key)), Neg(en.r)))
Lifts(entries) == \A i \in DOMAIN entries : entries[i].r # 0 /\ entries[i].key # 0
Terms(entries, ws) == [i \in DOMAIN entries |-> Times(ws[i], Defect(entries[i]))]

LEMMA DefectType == ASSUME NEW en \in SchnorrEntries PROVE Defect(en) \in Scalar
<1>1. en.r \in Scalar /\ en.s \in Scalar /\ en.key \in Scalar /\ en.e \in Scalar
  BY SchnorrEntryType
<1> DEFINE t == Times(en.e, en.key)
           a == Neg(t)
           b == Neg(en.r)
<1>2. t \in Scalar
  BY <1>1, TimesLaws
<1> HIDE DEF t
<1>3. a \in Scalar /\ b \in Scalar
  BY <1>1, <1>2, PlusLaws
<1> HIDE DEF a, b
<1>4. Plus(a, b) \in Scalar
  BY <1>3, PlusLaws
<1>5. Plus(en.s, Plus(a, b)) \in Scalar
  BY <1>1, <1>4, PlusLaws
<1> QED  BY <1>5 DEF Defect, a, b, t

LEMMA DefectOfValid ==
  ASSUME NEW en \in SchnorrEntries
  PROVE  SchnorrVerifies(en) <=> en.r # 0 /\ en.key # 0 /\ Defect(en) = 0
<1> DEFINE t == Times(en.e, en.key)
           q == Plus(en.r, t)
<1>1. en.r \in Scalar /\ en.s \in Scalar /\ t \in Scalar
  BY SchnorrEntryType, TimesLaws
<1>2. ASSUME en.r # 0, en.key # 0
      PROVE  SchnorrVerifies(en) <=> en.s = q
  BY <1>2, SchnorrEntryType DEF SchnorrVerifies, SchnorrVerify
<1>3. SchnorrVerifies(en) => en.r # 0 /\ en.key # 0
  BY DEF SchnorrVerifies, SchnorrVerify
<1>4. q \in Scalar /\ q = Plus(t, en.r) /\ Neg(q) = Plus(Neg(t), Neg(en.r))
  <2> HIDE DEF t
  <2> QED  BY <1>1, PlusLaws
<1>5. Defect(en) = Plus(en.s, Neg(q))
  BY <1>4 DEF Defect
<1>6. Defect(en) = 0 <=> en.s = q
  <2> HIDE DEF t, q
  <2> QED  BY <1>1, <1>4, <1>5, MinusIsPlusNeg
<1> QED  BY <1>2, <1>3, <1>6

LEMMA PreparedIsAll ==
  ASSUME NEW n \in Nat, NEW entries, DOMAIN entries = 1..n
  PROVE  Prepared(entries) = DOMAIN entries <=> Lifts(entries)
<1>1. ASSUME Lifts(entries) PROVE Prepared(entries) = DOMAIN entries
  <2>1. \A i \in 1..n : \A j \in 1..i : j \in 1..n
    OBVIOUS
  <2> QED  BY <1>1, <2>1 DEF Prepared, Lifts
<1>2. ASSUME Prepared(entries) = DOMAIN entries PROVE Lifts(entries)
  <2>1. \A i \in 1..n : i \in 1..i
    OBVIOUS
  <2> QED  BY <1>2, <2>1 DEF Prepared, Lifts
<1> QED  BY <1>1, <1>2

(* The slots of a batch do not depend on what the scratch held before.     *)
LEMMA WrittenSlots ==
  ASSUME scratch \in Seq(Scalar), NEW n \in Nat, NEW entries \in [1..n -> SchnorrEntries],
         NEW ws \in [1..n -> Scalar]
  PROVE  LET slots == Written(entries, ws)
         IN  /\ slots \in Seq(Scalar) /\ Len(slots) >= 2 * n
             /\ Lifts(entries) =>
                  \A i \in 1..n :
                    /\ slots[i] = Neg(Times(Times(ws[i], entries[i].e), entries[i].key))
                    /\ slots[n + i] = Neg(Times(ws[i], entries[i].r))
<1> DEFINE m == Max({Len(scratch), 2 * n})
           done == Prepared(entries)
           a(i) == Neg(Times(Times(ws[i], entries[i].e), entries[i].key))
           b(i) == Neg(Times(ws[i], entries[i].r))
           slot(i) == IF i \in done THEN a(i)
                      ELSE IF i - n \in done THEN b(i - n)
                      ELSE IF i \in DOMAIN scratch THEN scratch[i] ELSE 0
           slots == [i \in 1..m |-> slot(i)]
<1>1. Len(entries) = n /\ DOMAIN entries = 1..n
  BY LengthOf
<1>2. Written(entries, ws) = slots
  BY <1>1 DEF Written
<1>3. m \in Nat /\ m >= 2 * n
  <2>1. Len(scratch) \in Nat /\ 2 * n \in Nat
    BY LenProperties
  <2> QED  BY <2>1, MaxOfTwo
<1>4. ASSUME NEW i \in 1..n
      PROVE  a(i) \in Scalar /\ b(i) \in Scalar
  <2> DEFINE en == entries[i]
             w == ws[i]
             t == Times(w, en.e)
             u == Times(t, en.key)
             v == Times(w, en.r)
  <2>1. en.r \in Scalar /\ en.key \in Scalar /\ en.e \in Scalar /\ w \in Scalar
    BY SchnorrEntryType
  <2> HIDE DEF en, w
  <2>2. t \in Scalar /\ v \in Scalar
    BY <2>1, TimesLaws
  <2> HIDE DEF t
  <2>3. u \in Scalar
    BY <2>1, <2>2, TimesLaws
  <2> HIDE DEF u, v
  <2>4. Neg(u) \in Scalar /\ Neg(v) \in Scalar
    BY <2>2, <2>3, PlusLaws
  <2> QED  BY <2>4 DEF u, v, t, en, w
<1>5. done \subseteq 1..n
  BY <1>1 DEF Prepared
<1>6. \A i \in DOMAIN scratch : scratch[i] \in Scalar
  BY ElementOfSeq, LenProperties
<1>7. \A i \in 1..m : slot(i) \in Scalar
  <2> HIDE DEF a, b, done, m
  <2> QED  BY <1>4, <1>5, <1>6, ZeroAndOne
<1>8. slots \in [1..m -> Scalar]
  <2> HIDE DEF slot
  <2> QED  BY <1>7
<1>9. slots \in Seq(Scalar) /\ Len(slots) = m
  <2> HIDE DEF slots, m
  <2> QED  BY <1>3, <1>8, LengthOf
<1>10. ASSUME Lifts(entries), NEW i \in 1..n
       PROVE  slots[i] = a(i) /\ slots[n + i] = b(i)
  <2>1. done = 1..n
    BY <1>1, <1>10, PreparedIsAll
  <2>2. i \in 1..m /\ n + i \in 1..m /\ n + i \notin 1..n /\ (n + i) - n = i
    BY <1>3
  <2> HIDE DEF a, b, done, m
  <2> QED  BY <2>1, <2>2
<1> HIDE DEF slots, m
<1> QED  BY <1>2, <1>3, <1>9, <1>10

LEMMA TermSplits ==
  ASSUME NEW w \in Scalar, NEW s \in Scalar, NEW e \in Scalar, NEW k \in Scalar, NEW r \in Scalar
  PROVE  LET g == Times(w, s)
             a == Neg(Times(Times(w, e), k))
             b == Neg(Times(w, r))
             t == Times(w, Plus(s, Plus(Neg(Times(e, k)), Neg(r))))
         IN  /\ g \in Scalar /\ a \in Scalar /\ b \in Scalar /\ t \in Scalar
             /\ Plus(a, b) \in Scalar /\ t = Plus(g, Plus(a, b))
<1> DEFINE g == Times(w, s)
           a == Neg(Times(Times(w, e), k))
           b == Neg(Times(w, r))
           u == Times(e, k)
           nu == Neg(u)
           nr == Neg(r)
           p == Plus(nu, nr)
           t == Times(w, Plus(s, p))
<1>1. u \in Scalar
  BY TimesLaws
<1>2. a = Neg(Times(w, u))
  BY TimesAssociates
<1> HIDE DEF u, a
<1>4. nu \in Scalar /\ nr \in Scalar /\ a = Times(w, nu) /\ b = Times(w, nr)
  BY <1>1, <1>2, TimesLaws, PlusLaws
<1> HIDE DEF nu, nr, b
<1>5. p \in Scalar /\ Times(w, p) = Plus(a, b)
  <2>1. p \in Scalar
    BY <1>4, PlusLaws
  <2>2. Times(w, p) = Plus(Times(w, nu), Times(w, nr))
    BY <1>4, TimesDistributes
  <2> QED  BY <1>4, <2>1, <2>2
<1> HIDE DEF p
<1>6. t = Plus(g, Times(w, p))
  BY <1>5, TimesDistributes
<1>7. g \in Scalar /\ Times(w, p) \in Scalar /\ a \in Scalar /\ b \in Scalar
  BY <1>4, <1>5, TimesLaws
<1>8. Plus(a, b) \in Scalar /\ t = Plus(g, Plus(a, b)) /\ t \in Scalar
  <2> HIDE DEF g, t
  <2> QED  BY <1>5, <1>6, <1>7, PlusLaws
<1> QED  BY <1>7, <1>8 DEF t, p, nu, nr, u, a, b

(* The equation of a batch, in what its rows are off by.                   *)
LEMMA EquationOfDefects ==
  ASSUME scratch \in Seq(Scalar), NEW n \in Nat, NEW entries \in [1..n -> SchnorrEntries],
         NEW ws \in [1..n -> Scalar]
  PROVE  /\ EquationHolds(entries, ws, Written(entries, ws))
              <=> Lifts(entries) /\ ModSum(Terms(entries, ws), 1..n) = 0
         /\ \A i \in 1..n : Terms(entries, ws)[i] \in Scalar
<1> DEFINE I == 1..n
           slots == Written(entries, ws)
           used == SubSeq(slots, 1, 2 * n)
           J == (n + 1)..(2 * n)
           g == [i \in I |-> Times(ws[i], entries[i].s)]
           a == [i \in I |-> Neg(Times(Times(ws[i], entries[i].e), entries[i].key))]
           b == [i \in I |-> Neg(Times(ws[i], entries[i].r))]
           ab == [i \in I |-> Plus(a[i], b[i])]
           terms == Terms(entries, ws)
<1>1. Len(entries) = n /\ DOMAIN entries = I /\ IsFiniteSet(I)
  BY LengthOf, FS_Interval
<1>2. slots \in Seq(Scalar) /\ Len(slots) >= 2 * n
  BY WrittenSlots
<1>3. ASSUME NEW i \in I
      PROVE  /\ g[i] \in Scalar /\ a[i] \in Scalar /\ b[i] \in Scalar /\ ab[i] \in Scalar
             /\ ab[i] = Plus(a[i], b[i]) /\ terms[i] \in Scalar /\ terms[i] = Plus(g[i], ab[i])
  <2> DEFINE w == ws[i]
             s == entries[i].s
             e == entries[i].e
             k == entries[i].key
             r == entries[i].r
  <2>1. r \in Scalar /\ s \in Scalar /\ k \in Scalar /\ e \in Scalar /\ w \in Scalar
    BY SchnorrEntryType
  <2>2. /\ terms[i] = Times(w, Plus(s, Plus(Neg(Times(e, k)), Neg(r))))
        /\ g[i] = Times(w, s) /\ a[i] = Neg(Times(Times(w, e), k)) /\ b[i] = Neg(Times(w, r))
        /\ ab[i] = Plus(a[i], b[i])
    BY <1>1 DEF Terms, Defect
  <2> HIDE DEF w, s, e, k, r, g, a, b, ab, terms
  <2> DEFINE x == Times(w, s)
             y == Neg(Times(Times(w, e), k))
             z == Neg(Times(w, r))
  <2>3. LET t == Times(w, Plus(s, Plus(Neg(Times(e, k)), Neg(r))))
        IN  /\ x \in Scalar /\ y \in Scalar /\ z \in Scalar /\ t \in Scalar
            /\ Plus(y, z) \in Scalar /\ t = Plus(x, Plus(y, z))
    BY <2>1, TermSplits
  <2> QED  BY <2>2, <2>3
<1>4. Prepared(entries) = DOMAIN entries <=> Lifts(entries)
  BY <1>1, PreparedIsAll
<1>5. EquationHolds(entries, ws, slots)
        <=> Prepared(entries) = DOMAIN entries /\ Plus(Sum(g), Sum(used)) = 0
  BY <1>1 DEF EquationHolds
<1>6. ASSUME Lifts(entries)
      PROVE  Sum(used) = ModSum(ab, I)
  <2>1. \A i \in I : slots[i] = a[i] /\ slots[n + i] = b[i]
    BY <1>6, WrittenSlots
  <2> HIDE DEF slots
  <2>2. \A i \in 1..(2 * n) : slots[i] \in Scalar
    BY <1>2, ElementOfSeq
  <2>3. 2 * n \in Int /\ (1 <= 2 * n => (2 * n - 1) + 1 = 2 * n) /\ (~(1 <= 2 * n) => 2 * n = 0)
    OBVIOUS
  <2>4. used \in Seq(Scalar) /\ Len(used) = 2 * n /\ \A i \in 1..(2 * n) : used[i] = slots[i]
    BY <2>2, <2>3, SubSeqProperties
  <2>5. DOMAIN used = 1..(2 * n)
    BY <2>4, LenProperties
  <2> HIDE DEF used
  <2>6. Sum(used) = ModSum(used, 1..(2 * n))
    BY <2>5, SumIsModSum
  <2>7. 1..(2 * n) = I \cup J /\ I \cap J = {} /\ IsFiniteSet(J)
    BY FS_Interval
  <2>8. \A i \in I \cup J : used[i] \in Scalar
    BY <2>2, <2>4, <2>7
  <2>9. \A i \in I : i \in 1..(2 * n) /\ n + i \in 1..(2 * n) /\ n + i \in J
    OBVIOUS
  <2> DEFINE p == [i \in I |-> n + i]
  <2>10. p \in Bijection(I, J)
    <3>1. p \in [I -> J] /\ \A i, j \in I : p[i] = p[j] => i = j
      BY <2>9
    <3>2. \A j \in J : j - n \in I /\ p[j - n] = j
      OBVIOUS
    <3> HIDE DEF p
    <3> QED  BY <3>1, <3>2 DEF Bijection, Injection, IsInjective, Surjection
  <2>11. \A i \in I : b[i] = used[p[i]]
    <3>1. \A i \in I : p[i] = n + i
      OBVIOUS
    <3> HIDE DEF b, p
    <3> QED  BY <2>1, <2>4, <2>9, <3>1
  <2> HIDE DEF p, a, b, ab, I, J
  <2>12. ModSum(b, I) = ModSum(used, J)
    BY <1>1, <2>8, <2>10, <2>11, ModSumRenamed
  <2>13. ModSum(a, I) = ModSum(used, I)
    <3>1. \A i \in I : a[i] \in Scalar /\ a[i] = used[i]
      BY <1>3, <2>1, <2>4, <2>9
    <3> QED  BY <1>1, <3>1, ModSumSame
  <2>14. ModSum(used, I \cup J) = Plus(ModSum(used, I), ModSum(used, J))
    BY <1>1, <2>7, <2>8, ModSumUnion
  <2>15. ModSum(ab, I) = Plus(ModSum(a, I), ModSum(b, I))
    BY <1>1, <1>3, ModSumPlus
  <2> QED  BY <2>6, <2>7, <2>12, <2>13, <2>14, <2>15
<1>7. Sum(g) = ModSum(g, I)
  <2>1. DOMAIN g = I
    OBVIOUS
  <2> QED  BY <2>1, SumIsModSum
<1>8. ModSum(terms, I) = Plus(ModSum(g, I), ModSum(ab, I))
  <2> HIDE DEF terms, g, ab, a, b, I
  <2> QED  BY <1>1, <1>3, ModSumPlus
<1> HIDE DEF terms, g, ab, a, b, slots, used
<1>9. \A i \in I : terms[i] \in Scalar
  BY <1>3
<1> QED  BY <1>4, <1>5, <1>6, <1>7, <1>8, <1>9 DEF terms, slots

LEMMA BatchOfValid ==
  ASSUME scratch \in Seq(Scalar), NEW n \in Nat, NEW entries \in [1..n -> SchnorrEntries],
         NEW ws \in [1..n -> NonZero]
  PROVE  LET holds == EquationHolds(entries, ws, Written(entries, ws))
             invalid == SchnorrIdentifyInvalid(entries)
         IN  /\ invalid = {} => holds
             /\ \A i \in 1..n : invalid = {i} => ~holds
<1> DEFINE I == 1..n
           t == Terms(entries, ws)
           invalid == SchnorrIdentifyInvalid(entries)
<1>1. IsFiniteSet(I) /\ DOMAIN entries = I /\ \A i \in I : ws[i] \in Scalar /\ ws[i] # 0
  <2>1. IsFiniteSet(I)
    BY FS_Interval
  <2>2. \A i \in I : ws[i] \in NonZero
    OBVIOUS
  <2> QED  BY <2>1, <2>2, NonZeroType
<1>2. /\ EquationHolds(entries, ws, Written(entries, ws)) <=> Lifts(entries) /\ ModSum(t, I) = 0
      /\ \A i \in I : t[i] \in Scalar
  <2>1. ws \in [1..n -> Scalar]
    BY <1>1
  <2> QED  BY <2>1, EquationOfDefects
<1>3. \A i \in I : Defect(entries[i]) \in Scalar /\ t[i] = Times(ws[i], Defect(entries[i]))
  BY <1>1, DefectType DEF Terms
<1>4. \A i \in I : i \notin invalid <=> entries[i].r # 0 /\ entries[i].key # 0 /\ Defect(entries[i]) = 0
  BY <1>1, DefectOfValid DEF SchnorrIdentifyInvalid
<1>5. \A i \in I : i \notin invalid => t[i] = 0
  BY <1>1, <1>3, <1>4, TimesLaws
<1> HIDE DEF t, invalid, I
<1>6. ASSUME invalid = {}
      PROVE  Lifts(entries) /\ ModSum(t, I) = 0
  BY <1>1, <1>4, <1>5, <1>6, ModSumOfZeros DEF Lifts
<1>7. ASSUME NEW i \in I, invalid = {i}, Lifts(entries)
      PROVE  ModSum(t, I) # 0
  <2>1. \A j \in I \ {i} : t[j] = 0
    BY <1>5, <1>7
  <2>2. ModSum(t, I \ {i}) = 0
    <3>1. IsFiniteSet(I \ {i})
      BY <1>1, FS_Subset
    <3> QED  BY <2>1, <3>1, ModSumOfZeros
  <2>3. ModSum(t, I) = t[i]
    <3>1. ModSum(t, I) = Plus(t[i], ModSum(t, I \ {i})) /\ t[i] \in Scalar
      BY <1>1, <1>2, ModSumTakes
    <3> QED  BY <2>2, <3>1, PlusLaws
  <2>4. Defect(entries[i]) \in NonZero /\ ws[i] \in NonZero
    BY <1>1, <1>3, <1>4, <1>7, NonZeroType DEF Lifts
  <2>5. t[i] \in NonZero
    BY <1>3, <2>4, NonZeroTimes
  <2> QED  BY <2>3, <2>5, NonZeroType
<1> QED  BY <1>2, <1>6, <1>7 DEF t, invalid, I

(* At most one value of the weight of an invalid row lets it through.      *)
LEMMA WeightsOfInvalid ==
  ASSUME scratch \in Seq(Scalar), NEW n \in Nat, NEW entries \in [1..n -> SchnorrEntries],
         NEW ws \in [1..n -> NonZero], NEW i \in SchnorrIdentifyInvalid(entries),
         NEW v \in NonZero, NEW w \in NonZero,
         LET f == [ws EXCEPT ![i] = v] IN EquationHolds(entries, f, Written(entries, f)),
         LET f == [ws EXCEPT ![i] = w] IN EquationHolds(entries, f, Written(entries, f))
  PROVE  v = w
<1> DEFINE I == 1..n
           vs == [ws EXCEPT ![i] = v]
           wss == [ws EXCEPT ![i] = w]
           defect == Defect(entries[i])
           tv == Terms(entries, vs)
           tw == Terms(entries, wss)
<1>1. IsFiniteSet(I) /\ DOMAIN entries = I /\ i \in I /\ (\A j \in I : ws[j] \in Scalar)
      /\ v \in Scalar /\ w \in Scalar
  BY LengthOf, FS_Interval, NonZeroType DEF SchnorrIdentifyInvalid
<1>2. vs \in [1..n -> Scalar] /\ wss \in [1..n -> Scalar]
  BY <1>1
<1>3. /\ Lifts(entries) /\ ModSum(tv, I) = 0 /\ ModSum(tw, I) = 0
      /\ \A j \in I : tv[j] \in Scalar /\ tw[j] \in Scalar
  <2>1. EquationHolds(entries, vs, Written(entries, vs)) /\ EquationHolds(entries, wss, Written(entries, wss))
    OBVIOUS
  <2> HIDE DEF vs, wss
  <2> QED  BY <1>2, <2>1, EquationOfDefects
<1>4. defect \in NonZero
  BY <1>1, <1>3, DefectOfValid, DefectType, NonZeroType DEF SchnorrIdentifyInvalid, Lifts
<1>5. tv[i] = Times(v, defect) /\ tw[i] = Times(w, defect) /\ \A j \in I \ {i} : tv[j] = tw[j]
  BY <1>1 DEF Terms
<1> HIDE DEF tv, tw, I, defect
<1>6. /\ Plus(tv[i], ModSum(tv, I \ {i})) = 0 /\ Plus(tw[i], ModSum(tw, I \ {i})) = 0
      /\ tv[i] \in Scalar /\ tw[i] \in Scalar
  BY <1>1, <1>3, ModSumTakes
<1>7. IsFiniteSet(I \ {i})
  BY <1>1, FS_Subset
<1>8. ModSum(tv, I \ {i}) = ModSum(tw, I \ {i}) /\ ModSum(tv, I \ {i}) \in Scalar
  <2>1. \A j \in I \ {i} : tv[j] \in Scalar /\ tv[j] = tw[j]
    BY <1>3, <1>5
  <2> QED  BY <1>7, <2>1, ModSumSame, ModSumTakes
<1> DEFINE rest == ModSum(tv, I \ {i})
           x == tv[i]
           y == tw[i]
<1>12. Plus(x, rest) = 0 /\ Plus(y, rest) = 0 /\ rest \in Scalar /\ x \in Scalar /\ y \in Scalar
  BY <1>6, <1>8
<1> HIDE DEF rest, x, y
<1>13. Plus(rest, x) = 0 /\ Plus(rest, y) = 0
  BY <1>12, PlusLaws
<1>9. Plus(rest, tv[i]) = 0 /\ Plus(rest, tw[i]) = 0 /\ rest \in Scalar
  BY <1>12, <1>13 DEF x, y
<1> HIDE DEF rest
<1>10. tv[i] = tw[i]
  BY <1>6, <1>9, PlusCancels
<1>11. defect \in Scalar /\ Times(defect, v) = Times(defect, w)
  BY <1>1, <1>4, <1>5, <1>10, NonZeroType, TimesLaws
<1> QED  BY <1>1, <1>4, <1>11, TimesCancels

Weights(digests) == [i \in DOMAIN digests |-> BatchWeight(digests[i])]

LEMMA WeightsType ==
  ASSUME NEW n \in Nat, NEW digests \in [1..n -> Digests]
  PROVE  Weights(digests) \in [1..n -> NonZero]
<1>1. \A x \in Digests : BatchWeight(x) \in NonZero
  BY BatchEquationsAssumption, ModIsScalar, NonZeroType, ZeroAndOne DEF BatchWeight
<1> QED  BY <1>1 DEF Weights

(* The verdict of the last batch is a matter of its rows and digests; the  *)
(* scratch it was computed in can have held anything.                      *)
LastBatch(c) ==
  \E n \in Nat \ {0} :
    /\ c.entries \in [1..n -> SchnorrEntries]
    /\ Individually(n) => c.verdict = (SchnorrIdentifyInvalid(c.entries) = {})
    /\ ~Individually(n) =>
         /\ c.digests \in [1..n -> Digests]
         /\ c.verdict = (Lifts(c.entries) /\ ModSum(Terms(c.entries, Weights(c.digests)), 1..n) = 0)

SchnorrIInv ==
  /\ scratch \in Seq(Scalar)
  /\ schnorrCall.entries # <<>> => LastBatch(schnorrCall)

LEMMA SchnorrStepKeeps == SchnorrIInv /\ [EquationsNext]_equationVars => SchnorrIInv'
<1> SUFFICES ASSUME SchnorrIInv, [EquationsNext]_equationVars PROVE SchnorrIInv'
  OBVIOUS
<1>0. MaxBatch \in Nat
  BY BatchEquationsAssumption
<1>1. ASSUME NEW n \in 0..MaxBatch, NEW entries \in [1..n -> SchnorrEntries], Individually(n),
             SchnorrVerifyEach(entries)
      PROVE  SchnorrIInv'
  <2> DEFINE c == [entries |-> entries, digests |-> <<>>,
                   verdict |-> entries # <<>> /\ SchnorrIdentifyInvalid(entries) = {}]
  <2>1. schnorrCall' = c /\ scratch' = scratch
    BY <1>1 DEF SchnorrVerifyEach
  <2>2. n \in Nat /\ Len(entries) = n
    BY <1>0, LengthOf
  <2>3. ASSUME entries # <<>> PROVE LastBatch(c)
    <3>1. n # 0
      <4> SUFFICES ASSUME n = 0 PROVE FALSE
        OBVIOUS
      <4>1. entries \in Seq(SchnorrEntries) /\ Len(entries) = 0
        BY <2>2, LengthOf
      <4> QED  BY <2>3, <4>1, EmptySeq
    <3>2. c.entries = entries /\ c.verdict = (SchnorrIdentifyInvalid(entries) = {})
      BY <2>3
    <3> HIDE DEF c
    <3> QED  BY <1>1, <2>2, <3>1, <3>2 DEF LastBatch
  <2>4. c.entries = entries
    OBVIOUS
  <2> HIDE DEF c
  <2> QED  BY <2>1, <2>3, <2>4 DEF SchnorrIInv, LastBatch
<1>2. ASSUME NEW n \in 0..MaxBatch, NEW entries \in [1..n -> SchnorrEntries], ~Individually(n),
             NEW digests \in [1..n -> Digests], SchnorrBatchVerify(entries, digests)
      PROVE  SchnorrIInv'
  <2> DEFINE ws == [i \in DOMAIN entries |-> BatchWeight(digests[i])]
             slots == Written(entries, ws)
             c == [entries |-> entries, digests |-> digests, verdict |-> EquationHolds(entries, ws, slots)]
  <2>1. schnorrCall' = c /\ scratch' = slots
    BY <1>2 DEF SchnorrBatchVerify
  <2>2. n \in Nat /\ n # 0
    BY <1>0, <1>2, BatchEquationsAssumption DEF Individually
  <2>3. ws = Weights(digests) /\ ws \in [1..n -> NonZero]
    <3>1. DOMAIN entries = DOMAIN digests
      OBVIOUS
    <3> QED  BY <2>2, <3>1, WeightsType DEF Weights
  <2>4. ws \in [1..n -> Scalar]
    BY <2>3, NonZeroType
  <2>5. c.entries = entries /\ c.digests = digests /\ c.verdict = EquationHolds(entries, ws, slots)
    OBVIOUS
  <2> HIDE DEF c, ws
  <2>6. /\ slots \in Seq(Scalar)
        /\ EquationHolds(entries, ws, slots) = (Lifts(entries) /\ ModSum(Terms(entries, ws), 1..n) = 0)
    <3>1. scratch \in Seq(Scalar)
      BY DEF SchnorrIInv
    <3> QED  BY <2>2, <2>4, <3>1, WrittenSlots, EquationOfDefects DEF EquationHolds, Lifts
  <2> HIDE DEF slots
  <2>7. LastBatch(c)
    BY <1>2, <2>2, <2>3, <2>5, <2>6 DEF LastBatch
  <2> QED  BY <2>1, <2>6, <2>7 DEF SchnorrIInv, LastBatch
<1>3. CASE UNCHANGED <<scratch, schnorrCall>>
  BY <1>3 DEF SchnorrIInv, LastBatch
<1>4. EcdsaBatchNext => UNCHANGED <<scratch, schnorrCall>>
  BY DEF EcdsaBatchNext, EcdsaBatchVerify, EcdsaBatchVerifyMt, EcdsaOpaqueRun, EcdsaVerdict
<1>5. UNCHANGED equationVars => UNCHANGED <<scratch, schnorrCall>>
  BY DEF equationVars
<1> QED  BY <1>1, <1>2, <1>3, <1>4, <1>5 DEF EquationsNext, SchnorrBatchNext

LEMMA AtMostOne ==
  ASSUME NEW A, \A v, w \in A : v = w
  PROVE  Cardinality(A) <= 1
<1>1. CASE A = {}
  <2>1. Cardinality(A) = 0
    BY <1>1, FS_EmptySet
  <2> QED  BY <2>1
<1>2. CASE A # {}
  <2>1. PICK v : A = {v}
    BY <1>2
  <2>2. Cardinality(A) = 1
    BY <2>1, FS_Singleton
  <2> QED  BY <2>2
<1> QED  BY <1>1, <1>2

LEMMA LastBatchIsSound ==
  ASSUME scratch \in Seq(Scalar), LastBatch(schnorrCall) PROVE SchnorrBatchSound
<1> DEFINE c == schnorrCall
           invalid == SchnorrIdentifyInvalid(c.entries)
           ws == Weights(c.digests)
           accepts(f) == EquationHolds(c.entries, f, Written(c.entries, f))
           accepting(i) == {w \in NonZero : accepts([ws EXCEPT ![i] = w])}
<1>1. PICK n \in Nat \ {0} :
        /\ c.entries \in [1..n -> SchnorrEntries]
        /\ Individually(n) => c.verdict = (invalid = {})
        /\ ~Individually(n) =>
             /\ c.digests \in [1..n -> Digests]
             /\ c.verdict = (Lifts(c.entries) /\ ModSum(Terms(c.entries, ws), 1..n) = 0)
  BY DEF LastBatch
<1>2. Len(c.entries) = n /\ DOMAIN c.entries = 1..n /\ invalid \subseteq 1..n
  BY <1>1, LengthOf DEF SchnorrIdentifyInvalid
<1>3. Cardinality(invalid) = 1 => invalid # {} /\ \E i \in 1..n : invalid = {i}
  <2>1. IsFiniteSet(invalid)
    BY <1>2, FS_Interval, FS_Subset
  <2> HIDE DEF invalid
  <2> QED  BY <1>2, <2>1, FS_Singleton
<1>4. CASE Individually(n)
  BY <1>1, <1>2, <1>3, <1>4 DEF SchnorrBatchSound
<1>5. CASE ~Individually(n)
  <2>1. ws \in [1..n -> NonZero] /\ ws \in [1..n -> Scalar]
    <3>1. ws \in [1..n -> NonZero]
      BY <1>1, <1>5, WeightsType
    <3> QED  BY <3>1, NonZeroType
  <2>2. c.verdict = accepts(ws)
    <3> HIDE DEF ws
    <3>1. accepts(ws) <=> Lifts(c.entries) /\ ModSum(Terms(c.entries, ws), 1..n) = 0
      BY <1>1, <2>1, EquationOfDefects
    <3> QED  BY <1>1, <1>5, <3>1 DEF EquationHolds
  <2>3. (invalid = {} => accepts(ws)) /\ \A i \in 1..n : invalid = {i} => ~accepts(ws)
    <3> HIDE DEF ws
    <3> QED  BY <1>1, <2>1, BatchOfValid
  <2>4. ASSUME NEW i \in invalid
        PROVE  Cardinality(accepting(i)) <= 1
    <3>1. ASSUME NEW v \in accepting(i), NEW w \in accepting(i)
          PROVE  v = w
      <4>1. v \in NonZero /\ w \in NonZero /\ accepts([ws EXCEPT ![i] = v]) /\ accepts([ws EXCEPT ![i] = w])
        BY <3>1
      <4> HIDE DEF ws
      <4> QED  BY <1>1, <2>1, <2>4, <4>1, WeightsOfInvalid
    <3> DEFINE A == accepting(i)
    <3> HIDE DEF A
    <3>2. \A v, w \in A : v = w
      BY <3>1 DEF A
    <3>3. Cardinality(A) <= 1
      BY <3>2, AtMostOne
    <3> QED  BY <3>3, Zenon DEF A
  <2>5. ws = [i \in DOMAIN c.digests |-> BatchWeight(c.digests[i])]
    BY DEF Weights
  <2> HIDE DEF ws, c, invalid
  <2> QED  BY <1>2, <1>3, <1>5, <2>2, <2>3, <2>4, <2>5 DEF SchnorrBatchSound, c, invalid
<1> QED  BY <1>4, <1>5

(* Whatever the earlier batches left in the scratch, for any order of the  *)
(* group, any entries and any digests: a batch of valid signatures is      *)
(* accepted, one with a single invalid signature is refused, and of the    *)
(* weights of an invalid row at most one lets it through.                  *)
THEOREM SchnorrBatchIsSound == EquationsSpec => []SchnorrBatchSound
<1>1. EquationsInit => SchnorrIInv
  <2> SUFFICES ASSUME EquationsInit PROVE SchnorrIInv
    OBVIOUS
  <2>1. scratch = <<>> /\ schnorrCall = [entries |-> <<>>, digests |-> <<>>, verdict |-> FALSE]
    BY DEF EquationsInit
  <2>2. scratch \in Seq(Scalar) /\ schnorrCall.entries = <<>>
    BY <2>1
  <2> QED  BY <2>2 DEF SchnorrIInv
<1>2. SchnorrIInv => SchnorrBatchSound
  BY LastBatchIsSound DEF SchnorrIInv, SchnorrBatchSound
<1> QED  BY <1>1, <1>2, SchnorrStepKeeps, PTL DEF EquationsSpec

-----------------------------------------------------------------------------
(* ECDSA.                                                                  *)

LEMMA CountingUp ==
  ASSUME NEW n \in Nat \ {0}, NEW H, 1 \in H, \A i \in 1..(n - 1) : i \in H => i + 1 \in H
  PROVE  \A i \in 1..n : i \in H
<1> DEFINE G == {k \in Nat : k + 1 \in 1..n => k + 1 \in H}
<1>1. 0 \in G
  OBVIOUS
<1>2. ASSUME NEW k \in Nat, k \in G PROVE k + 1 \in G
  <2> SUFFICES ASSUME (k + 1) + 1 \in 1..n PROVE (k + 1) + 1 \in H
    OBVIOUS
  <2>1. k + 1 \in 1..n /\ k + 1 \in 1..(n - 1)
    OBVIOUS
  <2> QED  BY <1>2, <2>1
<1>3. \A k \in Nat : k \in G
  <2> HIDE DEF G
  <2> QED  BY <1>1, <1>2, NumberInduction
<1> SUFFICES ASSUME NEW i \in 1..n PROVE i \in H
  OBVIOUS
<1>4. i - 1 \in Nat /\ (i - 1) + 1 = i
  OBVIOUS
<1> QED  BY <1>3, <1>4

(* A function computed from the first element on, and from the last one.   *)
Forward(f, n, base, step) == f = [i \in 1..n |-> IF i = 1 THEN base ELSE step[<<i, f[i - 1]>>]]
Backward(f, n, base, step) == f = [i \in 1..n |-> IF i = n THEN base ELSE step[<<i, f[i + 1]>>]]

LEMMA ForwardExists ==
  ASSUME NEW n \in Nat \ {0}, NEW V, NEW base \in V, NEW step \in [(1..n) \X V -> V]
  PROVE  \E f : Forward(f, n, base, step)
<1> DEFINE st == [p \in Nat \X V |-> IF p[1] + 2 \in 1..n THEN step[<<p[1] + 2, p[2]>>] ELSE p[2]]
<1>1. st \in [Nat \X V -> V] /\ \A k \in Nat, v \in V : k + 2 \in 1..n => st[<<k, v>>] = step[<<k + 2, v>>]
  <2>1. \A p \in Nat \X V : p[1] \in Nat /\ p[2] \in V
    OBVIOUS
  <2>2. \A j \in 1..n : \A v \in V : step[<<j, v>>] \in V
    OBVIOUS
  <2>3. \A k \in Nat : \A v \in V : <<k, v>> \in Nat \X V /\ <<k, v>>[1] = k /\ <<k, v>>[2] = v
    OBVIOUS
  <2>4. st \in [Nat \X V -> V]
    BY <2>1, <2>2
  <2> QED  BY <2>3, <2>4
<1>2. PICK g : Recurs(g, V, base, st)
  <2> HIDE DEF st
  <2> QED  BY <1>1, RecursionExists
<1> DEFINE f == [i \in 1..n |-> g[i - 1]]
<1>3. f[1] = base
  BY <1>2 DEF Recurs
<1>4. ASSUME NEW i \in 1..n, i # 1
      PROVE  f[i] = step[<<i, f[i - 1]>>]
  <2>1. i - 2 \in Nat /\ (i - 2) + 1 = i - 1 /\ (i - 2) + 2 = i /\ i - 1 \in 1..n /\ (i - 1) - 1 = i - 2
    BY <1>4
  <2>2. g[(i - 2) + 1] = st[<<i - 2, g[i - 2]>>] /\ g[i - 2] \in V
    BY <1>2, <2>1 DEF Recurs
  <2>3. st[<<i - 2, g[i - 2]>>] = step[<<(i - 2) + 2, g[i - 2]>>]
    <3> HIDE DEF st
    <3> QED  BY <1>1, <2>1, <2>2
  <2>4. f[i] = g[i - 1] /\ f[i - 1] = g[i - 2]
    BY <2>1
  <2> QED  BY <2>1, <2>2, <2>3, <2>4
<1>5. f = [i \in 1..n |-> f[i]]
  OBVIOUS
<1> HIDE DEF f
<1>6. Forward(f, n, base, step)
  BY <1>3, <1>4, <1>5 DEF Forward
<1> QED  BY <1>6

LEMMA BackwardExists ==
  ASSUME NEW n \in Nat \ {0}, NEW V, NEW base \in V, NEW step \in [(1..n) \X V -> V]
  PROVE  \E f : Backward(f, n, base, step)
<1> DEFINE back == [p \in (1..n) \X V |-> step[<<n + 1 - p[1], p[2]>>]]
<1>1. back \in [(1..n) \X V -> V] /\ \A i \in 1..n, v \in V : back[<<i, v>>] = step[<<n + 1 - i, v>>]
  <2>1. \A p \in (1..n) \X V : n + 1 - p[1] \in 1..n /\ p[2] \in V
    OBVIOUS
  <2>2. \A j \in 1..n : \A v \in V : step[<<j, v>>] \in V
    OBVIOUS
  <2>3. \A k \in 1..n : \A v \in V : <<k, v>> \in (1..n) \X V /\ <<k, v>>[1] = k /\ <<k, v>>[2] = v
    OBVIOUS
  <2> QED  BY <2>1, <2>2, <2>3
<1>2. PICK g : g = [i \in 1..n |-> IF i = 1 THEN base ELSE back[<<i, g[i - 1]>>]]
  <2> HIDE DEF back
  <2>1. \E g : Forward(g, n, base, back)
    BY <1>1, ForwardExists
  <2> QED  BY <2>1 DEF Forward
<1>3. \A i \in 1..n : g[i] \in V
  <2> DEFINE H == {i \in 1..n : g[i] \in V}
  <2>1. 1 \in H
    <3>1. 1 \in 1..n
      OBVIOUS
    <3> HIDE DEF back
    <3> QED  BY <1>2, <3>1
  <2>2. ASSUME NEW i \in 1..(n - 1), i \in H PROVE i + 1 \in H
    <3>1. i \in 1..n /\ i + 1 \in 1..n /\ (i + 1) - 1 = i /\ i + 1 # 1 /\ g[i] \in V
      BY <2>2
    <3> HIDE DEF back
    <3>2. g[i + 1] = back[<<i + 1, g[i]>>]
      BY <1>2, <3>1
    <3> QED  BY <1>1, <3>1, <3>2
  <2>3. \A i \in 1..n : i \in H
    <3> HIDE DEF H
    <3> QED  BY <2>1, <2>2, CountingUp
  <2> QED  BY <2>3
<1> DEFINE f == [i \in 1..n |-> g[n + 1 - i]]
<1>4. f[n] = base
  <2>1. n \in 1..n /\ n + 1 - n = 1 /\ 1 \in 1..n
    OBVIOUS
  <2> QED  BY <1>2, <2>1
<1>5. ASSUME NEW i \in 1..n, i # n
      PROVE  f[i] = step[<<i, f[i + 1]>>]
  <2> DEFINE j == n + 1 - i
  <2>1. i + 1 \in 1..n /\ j \in 1..n /\ j # 1 /\ j - 1 = n + 1 - (i + 1) /\ j - 1 \in 1..n /\ n + 1 - j = i
    BY <1>5
  <2> HIDE DEF back
  <2>2. f[i] = g[j] /\ f[i + 1] = g[j - 1]
    BY <2>1
  <2> HIDE DEF j, f
  <2>3. g[j] = back[<<j, g[j - 1]>>]
    BY <1>2, <2>1
  <2>4. back[<<j, g[j - 1]>>] = step[<<n + 1 - j, g[j - 1]>>]
    BY <1>1, <1>3, <2>1
  <2> QED  BY <2>1, <2>2, <2>3, <2>4
<1>6. f = [i \in 1..n |-> f[i]]
  OBVIOUS
<1> HIDE DEF f
<1>7. Backward(f, n, base, step)
  BY <1>4, <1>5, <1>6 DEF Backward
<1> QED  BY <1>7

Signable(entries) == \A i \in DOMAIN entries : entries[i].s \in NonZero

LEMMA PrefixLaws ==
  ASSUME NEW n \in Nat \ {0}, NEW entries, DOMAIN entries = 1..n, Signable(entries)
  PROVE  LET p == PrefixProducts(entries)
         IN  /\ p[1] = entries[1].s
             /\ \A i \in 1..n : /\ p[i] \in NonZero
                                /\ i # 1 => p[i] = Times(p[i - 1], entries[i].s)
<1> DEFINE I == 1..n
           base == entries[1].s
           step == [q \in I \X NonZero |-> Times(q[2], entries[q[1]].s)]
           E(p) == p = [i \in DOMAIN entries |-> IF i = 1 THEN entries[1].s ELSE Times(p[i - 1], entries[i].s)]
           p == CHOOSE x : E(x)
<1>1. \A i \in I : entries[i].s \in NonZero
  BY DEF Signable
<1>2. base \in NonZero
  BY <1>1
<1>3. step \in [I \X NonZero -> NonZero]
  <2>1. \A q \in I \X NonZero : q[1] \in I /\ q[2] \in NonZero
    OBVIOUS
  <2>2. \A q \in I \X NonZero : Times(q[2], entries[q[1]].s) \in NonZero
    BY <1>1, <2>1, NonZeroTimes
  <2> QED  BY <2>2
<1>4. PICK f : f = [i \in I |-> IF i = 1 THEN base ELSE step[<<i, f[i - 1]>>]]
  <2> HIDE DEF step, base
  <2>1. \E f : Forward(f, n, base, step)
    BY <1>2, <1>3, ForwardExists
  <2> QED  BY <2>1 DEF Forward
<1>5. \A i \in I : f[i] \in NonZero
  <2> DEFINE H == {i \in 1..n : f[i] \in NonZero}
  <2>1. 1 \in H
    <3>1. 1 \in 1..n
      OBVIOUS
    <3> HIDE DEF step, base
    <3> QED  BY <1>2, <1>4, <3>1
  <2>2. ASSUME NEW i \in 1..(n - 1), i \in H PROVE i + 1 \in H
    <3>1. i \in 1..n /\ i + 1 \in 1..n /\ (i + 1) - 1 = i /\ i + 1 # 1 /\ f[i] \in NonZero
      BY <2>2
    <3> HIDE DEF step
    <3>2. f[i + 1] = step[<<i + 1, f[i]>>]
      BY <1>4, <3>1
    <3> QED  BY <1>3, <3>1, <3>2
  <2>3. \A i \in 1..n : i \in H
    <3> HIDE DEF H
    <3> QED  BY <2>1, <2>2, CountingUp
  <2> QED  BY <2>3
<1>6. E(f)
  <2>1. ASSUME NEW i \in I, i # 1
        PROVE  f[i] = Times(f[i - 1], entries[i].s)
    <3>1. i - 1 \in I
      BY <2>1
    <3>2. f[i] = step[<<i, f[i - 1]>>] /\ f[i - 1] \in NonZero
      <4> HIDE DEF step
      <4> QED  BY <1>4, <1>5, <2>1, <3>1
    <3> QED  BY <3>2
  <2>2. f[1] = entries[1].s /\ f = [i \in I |-> f[i]]
    <3>1. 1 \in I
      OBVIOUS
    <3> HIDE DEF step
    <3> QED  BY <1>4, <3>1
  <2> QED  BY <2>1, <2>2
<1>7. E(p)
  BY <1>6, Zenon
<1>8. PrefixProducts(entries) = p
  BY Zenon DEF PrefixProducts
<1> HIDE DEF p
<1>9. p[1] = entries[1].s /\ \A i \in I : i # 1 => p[i] = Times(p[i - 1], entries[i].s)
  BY <1>7
<1>10. \A i \in I : p[i] \in NonZero
  <2> DEFINE H == {i \in 1..n : p[i] \in NonZero}
  <2>1. 1 \in H
    BY <1>1, <1>9
  <2>2. ASSUME NEW i \in 1..(n - 1), i \in H PROVE i + 1 \in H
    <3>1. i \in 1..n /\ i + 1 \in 1..n /\ (i + 1) - 1 = i /\ i + 1 # 1 /\ p[i] \in NonZero
      BY <2>2
    <3>2. p[i + 1] = Times(p[i], entries[i + 1].s)
      BY <1>9, <3>1
    <3> QED  BY <1>1, <3>1, <3>2, NonZeroTimes
  <2>3. \A i \in 1..n : i \in H
    <3> HIDE DEF H
    <3> QED  BY <2>1, <2>2, CountingUp
  <2> QED  BY <2>3
<1> QED  BY <1>8, <1>9, <1>10

LEMMA ReciprocalIs ==
  ASSUME NEW x \in NonZero, NEW y \in Scalar, Times(x, y) = 1
  PROVE  y = Reciprocal(x)
<1>1. Reciprocal(x) \in Scalar /\ Times(x, Reciprocal(x)) = Times(x, y)
  BY ReciprocalLaw, NonZeroType
<1> QED  BY <1>1, TimesCancels

(* Montgomery's trick: one inversion inverts all S.                        *)
LEMMA InversesAreReciprocals ==
  ASSUME NEW n \in Nat \ {0}, NEW entries, DOMAIN entries = 1..n, Len(entries) = n, Signable(entries)
  PROVE  \A i \in 1..n : Inverses(entries)[i] = Reciprocal(entries[i].s)
<1> DEFINE I == 1..n
           p == PrefixProducts(entries)
           base == Reciprocal(p[n])
           step == [q \in I \X Scalar |-> IF q[1] = n THEN q[2] ELSE Times(q[2], entries[q[1] + 1].s)]
           E(x) == x = [i \in DOMAIN entries |-> IF i = Len(entries) THEN Reciprocal(p[Len(entries)])
                                                 ELSE Times(x[i + 1], entries[i + 1].s)]
           inv == CHOOSE x : E(x)
<1>1. \A i \in I : entries[i].s \in NonZero /\ entries[i].s \in Scalar
  BY NonZeroType DEF Signable
<1>2. /\ p[1] = entries[1].s
      /\ \A i \in I : /\ p[i] \in NonZero /\ p[i] \in Scalar
                      /\ i # 1 => p[i] = Times(p[i - 1], entries[i].s)
  BY PrefixLaws, NonZeroType
<1> HIDE DEF p
<1>3. base \in Scalar /\ Times(base, p[n]) = 1
  <2>1. n \in I
    OBVIOUS
  <2> QED  BY <1>2, <2>1, ReciprocalLaw, NonZeroType
<1>4. step \in [I \X Scalar -> Scalar]
  <2>1. \A q \in I \X Scalar : q[1] \in I /\ q[2] \in Scalar /\ (q[1] # n => q[1] + 1 \in I)
    OBVIOUS
  <2>2. \A q \in I \X Scalar : q[1] # n => Times(q[2], entries[q[1] + 1].s) \in Scalar
    BY <1>1, <2>1, TimesLaws
  <2> QED  BY <2>1, <2>2
<1>5. PICK f : f = [i \in I |-> IF i = n THEN base ELSE step[<<i, f[i + 1]>>]]
  <2> HIDE DEF step, base
  <2>1. \E f : Backward(f, n, base, step)
    BY <1>3, <1>4, BackwardExists
  <2> QED  BY <2>1 DEF Backward
<1>6. \A i \in I : f[i] \in Scalar
  <2> DEFINE H == {j \in I : f[n + 1 - j] \in Scalar}
  <2>1. 1 \in H
    <3>1. n + 1 - 1 = n /\ n \in I /\ 1 \in I
      OBVIOUS
    <3> HIDE DEF step, base
    <3> QED  BY <1>3, <1>5, <3>1
  <2>2. ASSUME NEW j \in 1..(n - 1), j \in H PROVE j + 1 \in H
    <3> DEFINE i == n + 1 - (j + 1)
    <3>1. i \in I /\ i # n /\ i + 1 = n + 1 - j /\ j + 1 \in I /\ f[n + 1 - j] \in Scalar
      BY <2>2
    <3>2. f[i] = step[<<i, f[i + 1]>>] /\ f[i + 1] \in Scalar
      <4> HIDE DEF step, base, i
      <4> QED  BY <1>5, <3>1
    <3>3. f[i] \in Scalar
      <4> HIDE DEF step, i
      <4> QED  BY <1>4, <3>1, <3>2
    <3> QED  BY <3>1, <3>3
  <2>3. \A j \in I : j \in H
    <3> HIDE DEF H
    <3> QED  BY <2>1, <2>2, CountingUp
  <2> SUFFICES ASSUME NEW i \in I PROVE f[i] \in Scalar
    OBVIOUS
  <2>4. n + 1 - i \in I /\ n + 1 - (n + 1 - i) = i
    OBVIOUS
  <2>5. n + 1 - i \in H
    <3> HIDE DEF H
    <3> QED  BY <2>3, <2>4
  <2> QED  BY <2>4, <2>5
<1>7. E(f)
  <2>1. ASSUME NEW i \in I, i # n
        PROVE  f[i] = Times(f[i + 1], entries[i + 1].s)
    <3>1. i + 1 \in I
      BY <2>1
    <3>2. f[i] = step[<<i, f[i + 1]>>] /\ f[i + 1] \in Scalar
      <4> HIDE DEF step
      <4> QED  BY <1>5, <1>6, <2>1, <3>1
    <3> QED  BY <2>1, <3>2
  <2>2. f[n] = base /\ f = [i \in I |-> f[i]]
    <3>1. n \in I
      OBVIOUS
    <3> HIDE DEF step, base
    <3> QED  BY <1>5, <3>1
  <2> QED  BY <2>1, <2>2
<1>8. E(inv)
  BY <1>7, Zenon
<1>9. Inverses(entries) = [i \in DOMAIN entries |-> IF i = 1 THEN inv[1] ELSE Times(p[i - 1], inv[i])]
  BY Zenon DEF Inverses, p
<1> HIDE DEF inv
<1>10. inv[n] = base /\ \A i \in I : i # n => inv[i] = Times(inv[i + 1], entries[i + 1].s)
  <2>1. n \in I
    OBVIOUS
  <2> QED  BY <1>8, <2>1
<1> HIDE DEF base, step, E
<1>11. \A i \in I : inv[i] \in Scalar /\ Times(inv[i], p[i]) = 1
  <2> DEFINE G(i) == inv[i] \in Scalar /\ Times(inv[i], p[i]) = 1
             H == {j \in I : G(n + 1 - j)}
  <2>1. 1 \in H
    <3>1. n + 1 - 1 = n /\ 1 \in I
      OBVIOUS
    <3> QED  BY <1>3, <1>10, <3>1
  <2>2. ASSUME NEW j \in 1..(n - 1), j \in H PROVE j + 1 \in H
    <3> DEFINE i == n + 1 - (j + 1)
    <3>1. i \in I /\ i # n /\ i + 1 = n + 1 - j /\ j + 1 \in I /\ i + 1 \in I /\ i + 1 # 1 /\ (i + 1) - 1 = i
      OBVIOUS
    <3>2. G(i + 1)
      BY <2>2, <3>1
    <3> HIDE DEF i
    <3> DEFINE a == inv[i + 1]
               s == entries[i + 1].s
               x == p[i]
    <3>3. a \in Scalar /\ s \in Scalar /\ x \in Scalar
      BY <1>1, <1>2, <3>1, <3>2
    <3>4. inv[i] = Times(a, s) /\ p[i + 1] = Times(x, s) /\ Times(a, p[i + 1]) = 1
      BY <1>2, <1>10, <3>1, <3>2
    <3> HIDE DEF a, s, x
    <3>5. Times(a, s) \in Scalar /\ Times(Times(a, s), x) = Times(a, Times(s, x)) /\ Times(s, x) = Times(x, s)
      BY <3>3, TimesLaws, TimesAssociates
    <3>6. G(i)
      BY <3>4, <3>5 DEF x
    <3> QED  BY <3>1, <3>6 DEF i
  <2>3. \A j \in I : j \in H
    <3> HIDE DEF H
    <3> QED  BY <2>1, <2>2, CountingUp
  <2> SUFFICES ASSUME NEW i \in I PROVE G(i)
    OBVIOUS
  <2>4. n + 1 - i \in I /\ n + 1 - (n + 1 - i) = i
    OBVIOUS
  <2>5. n + 1 - i \in H
    <3> HIDE DEF H
    <3> QED  BY <2>3, <2>4
  <2> QED  BY <2>4, <2>5
<1> SUFFICES ASSUME NEW i \in I PROVE Inverses(entries)[i] = Reciprocal(entries[i].s)
  OBVIOUS
<1> DEFINE s == entries[i].s
           a == inv[i]
           v == Inverses(entries)[i]
<1>12. s \in NonZero /\ s \in Scalar /\ a \in Scalar /\ Times(a, p[i]) = 1
  BY <1>1, <1>11
<1>13. CASE i = 1
  <2>1. v = a /\ p[i] = s
    BY <1>2, <1>9, <1>13
  <2> HIDE DEF s, a, v
  <2>2. Times(s, v) = 1
    BY <1>12, <2>1, TimesLaws
  <2>3. v = Reciprocal(s)
    BY <1>12, <2>1, <2>2, ReciprocalIs
  <2> QED  BY <2>3 DEF s, v
<1>14. CASE i # 1
  <2> DEFINE x == p[i - 1]
  <2>1. i - 1 \in I
    BY <1>14
  <2>2. x \in Scalar /\ v = Times(x, a) /\ p[i] = Times(x, s)
    BY <1>2, <1>9, <1>14, <2>1
  <2> HIDE DEF s, a, v, x
  <2>3. /\ v \in Scalar /\ Times(s, v) = Times(Times(s, x), a) /\ Times(s, x) = Times(x, s)
        /\ Times(x, s) \in Scalar
    BY <1>12, <2>2, TimesLaws, TimesAssociates
  <2>4. Times(Times(x, s), a) = Times(a, Times(x, s))
    BY <1>12, <2>3, TimesLaws
  <2>5. v = Reciprocal(s)
    BY <1>12, <2>2, <2>3, <2>4, ReciprocalIs
  <2> QED  BY <2>5 DEF s, v
<1> QED  BY <1>13, <1>14

RowAccepted(en, policy) == EcdsaVerifies(en) /\ (policy = "RequireLowS" => LowS(en.s))

LEMMA EcdsaEntryType ==
  ASSUME NEW en \in EcdsaEntries
  PROVE  en.r \in Scalar /\ en.s \in Scalar /\ en.key \in Scalar /\ en.z \in Scalar
<1>1. en \in [r : Scalar, s : Scalar, key : Scalar, z : Scalar]
  BY BatchEquationsAssumption
<1> QED  BY <1>1

(* A batch is accepted exactly if every row of it is.                      *)
LEMMA EcdsaBatchIsItsRows ==
  ASSUME NEW n \in Nat \ {0}, NEW entries \in [1..n -> EcdsaEntries], NEW policy
  PROVE  EcdsaBatch(entries, policy) <=> \A i \in 1..n : RowAccepted(entries[i], policy)
<1> DEFINE I == 1..n
           w(i) == Inverses(entries)[i]
           R(i) == Plus(Times(entries[i].z, w(i)), Times(Times(entries[i].r, w(i)), entries[i].key))
           small == EcdsaIdentifyInvalid(entries) = {}
           large == \A i \in DOMAIN entries : CheckXCoordinate(R(i), entries[i].r)
           ready == \A i \in I : PreValidated(entries[i], policy)
<1>1. Len(entries) = n /\ DOMAIN entries = I /\ entries # <<>>
  <2>1. Len(entries) = n /\ DOMAIN entries = I /\ n # 0
    BY LengthOf
  <2> QED  BY <2>1
<1>2. EcdsaBatch(entries, policy) <=> ready /\ (IF n <= EcdsaCutoff THEN small ELSE large)
  BY <1>1 DEF EcdsaBatch
<1>3. \A i \in I : RowAccepted(entries[i], policy) <=> PreValidated(entries[i], policy) /\ EcdsaVerifies(entries[i])
  BY DEF RowAccepted, PreValidated, EcdsaVerifies
<1>4. small <=> \A i \in I : EcdsaVerifies(entries[i])
  BY <1>1 DEF EcdsaIdentifyInvalid
<1>5. ASSUME ready
      PROVE  large <=> \A i \in I : EcdsaVerifies(entries[i])
  <2>1. \A i \in I : entries[i].key # 0 /\ entries[i].r # 0 /\ entries[i].s # 0
    BY <1>5 DEF PreValidated
  <2>2. Signable(entries)
    BY <1>1, <2>1, EcdsaEntryType, NonZeroType DEF Signable
  <2>3. \A i \in I : w(i) = Reciprocal(entries[i].s)
    BY <1>1, <2>2, InversesAreReciprocals
  <2> HIDE DEF w
  <2>4. ASSUME NEW i \in I
        PROVE  CheckXCoordinate(R(i), entries[i].r) <=> EcdsaVerifies(entries[i])
    BY <2>1, <2>3 DEF EcdsaVerifies
  <2> HIDE DEF R
  <2> QED  BY <1>1, <2>4
<1> HIDE DEF small, large
<1>6. EcdsaBatch(entries, policy) <=> ready /\ \A i \in I : EcdsaVerifies(entries[i])
  BY <1>2, <1>4, <1>5
<1> QED  BY <1>3, <1>6

(* The pieces are all of the rows.                                         *)
LEMMA PiecesAreTheRows ==
  ASSUME NEW n \in Nat \ {0}, rows \in [1..n -> EcdsaEntries], NEW steal \in Nat \ {0}, NEW policy
  PROVE  EachPiece(policy, steal) <=> \A i \in 1..n : RowAccepted(rows[i], policy)
<1> DEFINE I == 1..n
           end(i) == Min({i + steal - 1, n})
           piece(i) == SubSeq(rows, i, end(i))
           starts == {i \in I : (i - 1) % steal = 0}
<1>1. Len(rows) = n /\ DOMAIN rows = I
  BY LengthOf
<1>2. EachPiece(policy, steal) <=> \A i \in starts : EcdsaBatch(piece(i), policy)
  BY <1>1 DEF EachPiece
<1>3. ASSUME NEW i \in starts
      PROVE  /\ end(i) \in i..n /\ (end(i) = n \/ end(i) = i + steal - 1)
             /\ EcdsaBatch(piece(i), policy) <=> \A j \in i..end(i) : RowAccepted(rows[j], policy)
  <2> DEFINE e == end(i)
             m == e - i + 1
             part == piece(i)
  <2>1. e = IF i + steal - 1 <= n THEN i + steal - 1 ELSE n
    BY MinOfTwo
  <2> HIDE DEF e
  <2>2. e \in i..n /\ (e = n \/ e = i + steal - 1) /\ i <= e /\ m \in Nat \ {0}
    BY <2>1
  <2>3. part = SubSeq(rows, i, e)
    BY DEF e
  <2>4. \A j \in i..e : j \in I /\ rows[j] \in EcdsaEntries
    BY <2>2
  <2> HIDE DEF part
  <2>5. part \in Seq(EcdsaEntries) /\ Len(part) = m /\ \A j \in 1..m : part[j] = rows[i + j - 1]
    BY <2>2, <2>3, <2>4, SubSeqProperties
  <2>6. part \in [1..m -> EcdsaEntries]
    BY <2>5, LenProperties
  <2>7. EcdsaBatch(part, policy) <=> \A j \in 1..m : RowAccepted(part[j], policy)
    BY <2>2, <2>6, EcdsaBatchIsItsRows
  <2>8. \A j \in i..e : j - i + 1 \in 1..m /\ part[j - i + 1] = rows[j]
    <3> SUFFICES ASSUME NEW j \in i..e PROVE j - i + 1 \in 1..m /\ part[j - i + 1] = rows[j]
      OBVIOUS
    <3>1. j - i + 1 \in 1..m /\ i + (j - i + 1) - 1 = j
      BY <2>2
    <3> QED  BY <2>5, <3>1
  <2>9. \A j \in 1..m : i + j - 1 \in i..e
    BY <2>2
  <2> HIDE DEF m
  <2>10. EcdsaBatch(part, policy) <=> \A j \in i..e : RowAccepted(rows[j], policy)
    BY <2>5, <2>7, <2>8, <2>9
  <2> QED  BY <2>2, <2>10 DEF e, part
<1>4. ASSUME NEW j \in I
      PROVE  \E i \in starts : j \in i..end(i)
  <2>1. j - 1 \in Int /\ steal > 0
    OBVIOUS
  <2>2. (j - 1) % steal \in 0..(steal - 1) /\ \E q \in Int : j - 1 = steal * q + ((j - 1) % steal)
    BY <2>1, Quotient
  <2> DEFINE r == (j - 1) % steal
             i == j - r
  <2>3. PICK q \in Int : j - 1 = steal * q + r
    BY <2>2
  <2>4. r \in Int /\ 0 <= r /\ r < steal
    BY <2>2
  <2> HIDE DEF r
  <2>5. q >= 0
    <3> SUFFICES ASSUME q <= -1 PROVE FALSE
      OBVIOUS
    <3>1. steal * q <= -steal
      BY SMT
    <3> QED  BY <2>3, <2>4, <3>1
  <2>6. i - 1 = steal * q + 0 /\ i - 1 \in Int
    BY <2>3, <2>4
  <2>7. steal * q >= 0
    BY <2>5
  <2>8. i \in I /\ i <= j /\ j <= i + steal - 1
    BY <2>3, <2>4, <2>6, <2>7
  <2>9. (i - 1) % steal = 0
    BY <2>6, ModUnique
  <2> HIDE DEF i
  <2>10. i \in starts
    BY <2>8, <2>9
  <2>11. j \in i..end(i)
    <3>1. end(i) = n \/ end(i) = i + steal - 1
      BY <1>3, <2>10
    <3>2. end(i) \in i..n
      BY <1>3, <2>10
    <3> HIDE DEF end
    <3>3. i \in Int /\ end(i) \in Int
      BY <2>8, <3>2
    <3> QED  BY <2>8, <3>1, <3>3
  <2> QED  BY <2>10, <2>11
<1>5. \A i \in starts : \A j \in i..end(i) : j \in I
  <2> SUFFICES ASSUME NEW i \in starts, NEW j \in i..end(i) PROVE j \in I
    OBVIOUS
  <2>1. end(i) \in i..n
    BY <1>3
  <2> HIDE DEF end
  <2> QED  BY <2>1
<1> HIDE DEF starts, end, piece
<1> QED  BY <1>2, <1>3, <1>4, <1>5

LEMMA StealIsPositive ==
  ASSUME NEW n \in Nat, NEW max_threads \in Nat, NEW all \in Nat \ {0}
  PROVE  Steal(n, max_threads, all) \in Nat \ {0}
<1> DEFINE want == IF max_threads = 0 THEN PoolSize ELSE Min({max_threads, PoolSize})
           most == Max({1, n \div MinRowsPerThread})
           n_threads == Min({want, most})
           share == n \div (n_threads * 4)
           low == Max({StealFloor, share})
<1>1. /\ PoolSize \in Nat /\ MinRowsPerThread \in Nat /\ MinRowsPerThread > 0
      /\ StealCeiling \in Nat /\ StealFloor \in Nat /\ 1 <= StealFloor /\ StealFloor <= StealCeiling
  BY BatchEquationsAssumption
<1>2. want \in Int
  BY <1>1, MinOfTwo
<1>3. n \div MinRowsPerThread \in Int
  BY <1>1
<1>4. most \in Int
  <2> DEFINE q == n \div MinRowsPerThread
  <2> HIDE DEF q
  <2>1. Max({1, q}) = IF 1 >= q THEN 1 ELSE q
    BY <1>3, MaxOfTwo DEF q
  <2> QED  BY <1>3, <2>1 DEF q
<1> HIDE DEF want, most
<1>5. n_threads \in Int
  BY <1>2, <1>4, MinOfTwo
<1> HIDE DEF n_threads
<1>6. CASE n_threads <= 1
  BY <1>6 DEF Steal, n_threads, want, most
<1>7. CASE ~(n_threads <= 1)
  <2>1. share \in Int
    BY <1>5, <1>7
  <2> HIDE DEF share
  <2>2. low = IF StealFloor >= share THEN StealFloor ELSE share
    BY <1>1, <2>1, MaxOfTwo
  <2>3. low \in Int /\ low >= 1
    BY <1>1, <2>1, <2>2
  <2> HIDE DEF low
  <2>4. Min({StealCeiling, low}) = IF StealCeiling <= low THEN StealCeiling ELSE low
    BY <1>1, <2>3, MinOfTwo
  <2>5. Steal(n, max_threads, all) = Min({StealCeiling, low})
    BY <1>7 DEF Steal, n_threads, want, most, share, low
  <2> QED  BY <1>1, <2>3, <2>4, <2>5
<1> QED  BY <1>6, <1>7

-----------------------------------------------------------------------------
EcdsaIInv ==
  /\ \E n \in Nat : rows \in [1..n -> EcdsaEntries]
  /\ EcdsaBatchAgrees

LEMMA EcdsaStepKeeps == EcdsaIInv /\ [EquationsNext]_equationVars => EcdsaIInv'
<1> SUFFICES ASSUME EcdsaIInv, [EquationsNext]_equationVars PROVE EcdsaIInv'
  OBVIOUS
<1> DEFINE Agrees(policy) == /\ EcdsaIdentifyInvalid(rows) = {}
                             /\ policy = "RequireLowS" => \A i \in DOMAIN rows : LowS(rows[i].s)
<1>1. ASSUME rows # <<>>
      PROVE  /\ \A policy : EcdsaBatch(rows, policy) <=> Agrees(policy)
             /\ \A policy : \A steal \in Nat \ {0} : EachPiece(policy, steal) <=> Agrees(policy)
             /\ Len(rows) \in Nat \ {0}
  <2>1. PICK n \in Nat : rows \in [1..n -> EcdsaEntries]
    BY DEF EcdsaIInv
  <2>2. Len(rows) = n /\ DOMAIN rows = 1..n /\ rows \in Seq(EcdsaEntries)
    BY <2>1, LengthOf
  <2>3. n # 0
    BY <1>1, <2>2, EmptySeq
  <2>4. \A policy : Agrees(policy) <=> \A i \in 1..n : RowAccepted(rows[i], policy)
    BY <2>2 DEF RowAccepted, EcdsaIdentifyInvalid
  <2> HIDE DEF Agrees
  <2> QED  BY <2>1, <2>2, <2>3, <2>4, EcdsaBatchIsItsRows, PiecesAreTheRows
<1>2. ASSUME NEW policy, NEW answer, EcdsaVerdict(policy, answer),
             rows # <<>> => (answer <=> Agrees(policy))
      PROVE  EcdsaIInv'
  BY <1>2 DEF EcdsaVerdict, EcdsaIInv, EcdsaBatchAgrees, EcdsaIdentifyInvalid
<1>3. CASE EcdsaBatchVerify
  <2> HIDE DEF Agrees
  <2> QED  BY <1>1, <1>2, <1>3 DEF EcdsaBatchVerify
<1>4. ASSUME NEW max_threads \in 0..(PoolSize + 1), EcdsaBatchVerifyMt(max_threads)
      PROVE  EcdsaIInv'
  <2> DEFINE steal == Steal(Len(rows), max_threads, Len(rows))
  <2>1. rows # <<>> => steal \in Nat \ {0}
    BY <1>1, StealIsPositive
  <2> HIDE DEF steal, Agrees
  <2>2. rows # <<>> => (EachPiece("RequireLowS", steal) <=> Agrees("RequireLowS"))
    BY <1>1, <2>1
  <2> QED  BY <1>2, <1>4, <2>2 DEF EcdsaBatchVerifyMt, steal
<1>5. ASSUME NEW max_threads \in 0..(PoolSize + 1), EcdsaOpaqueRun(max_threads)
      PROVE  EcdsaIInv'
  <2> DEFINE all == Min({Len(rows), StealCeiling})
             steal == Steal(Len(rows), max_threads, all)
  <2>1. rows # <<>> => all \in Nat \ {0}
    <3>1. StealCeiling \in Nat /\ StealCeiling >= 1
      BY BatchEquationsAssumption
    <3>2. rows # <<>> => Len(rows) \in Nat \ {0}
      BY <1>1
    <3> QED  BY <3>1, <3>2, MinOfTwo
  <2> HIDE DEF all
  <2>2. rows # <<>> => steal \in Nat \ {0}
    <3>1. max_threads \in Nat
      BY BatchEquationsAssumption
    <3> QED  BY <1>1, <2>1, <3>1, StealIsPositive
  <2> HIDE DEF steal, Agrees
  <2>3. rows # <<>> => (EachPiece("AcceptHighS", steal) <=> Agrees("AcceptHighS"))
    BY <1>1, <2>2
  <2> QED  BY <1>2, <1>5, <2>3 DEF EcdsaOpaqueRun, steal, all
<1>6. CASE UNCHANGED <<rows, ecdsaCall>>
  BY <1>6 DEF EcdsaIInv, EcdsaBatchAgrees, EcdsaIdentifyInvalid
<1>7. SchnorrBatchNext => UNCHANGED <<rows, ecdsaCall>>
  BY DEF SchnorrBatchNext, SchnorrVerifyEach, SchnorrBatchVerify
<1>8. UNCHANGED equationVars => UNCHANGED <<rows, ecdsaCall>>
  BY DEF equationVars
<1> QED  BY <1>3, <1>4, <1>5, <1>6, <1>7, <1>8 DEF EquationsNext, EcdsaBatchNext

(* One inversion for all rows of a batch, for any order of the group, and  *)
(* any split of the rows into pieces for any number of threads, give the   *)
(* verdict of ecdsa_verify() on every row, under either policy.            *)
THEOREM EcdsaBatchIsExact == EquationsSpec => []EcdsaBatchAgrees
<1>1. EquationsInit => EcdsaIInv
  <2> SUFFICES ASSUME EquationsInit PROVE EcdsaIInv
    OBVIOUS
  <2>1. PICK n \in 0..MaxBatch : rows \in [1..n -> EcdsaEntries]
    BY DEF EquationsInit
  <2>2. n \in Nat
    BY BatchEquationsAssumption
  <2>3. ecdsaCall.policy = "not called"
    BY DEF EquationsInit
  <2> QED  BY <2>1, <2>2, <2>3 DEF EcdsaIInv, EcdsaBatchAgrees
<1>2. EcdsaIInv => EcdsaBatchAgrees
  BY DEF EcdsaIInv
<1> QED  BY <1>1, <1>2, EcdsaStepKeeps, PTL DEF EquationsSpec
===============================================================================
