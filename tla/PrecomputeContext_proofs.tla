------------------------- MODULE PrecomputeContext_proofs -------------------------
(***************************************************************************)
(* Proofs about PrecomputeContext: IInv is inductive (one lemma per        *)
(* action), and the safety properties follow from it.                      *)
(***************************************************************************)
EXTENDS PrecomputeContext, TLAPS

USE ContextAssumption DEF PCs, Locked, Context

(* Freeing the unowned keeps the type of the heap. *)
LEMMA HeapType ==
  ASSUME TypeOK, FreeUnowned
  PROVE  heap' \in [Addrs -> [live : BOOLEAN, config : Configs, ver : 0..MaxVer]]
<1>1. Freed \in [live : BOOLEAN, config : Configs, ver : 0..MaxVer]
  BY DEF Freed, DefaultConfig, Configs
<1> QED BY <1>1 DEF TypeOK, FreeUnowned

(* Freeing the unowned leaves the owned as they were, and the rest dead. *)
LEMMA KeptAlive ==
  ASSUME FreeUnowned, NEW a \in Addrs
  PROVE  heap'[a] = heap[a] \/ (~heap'[a].live /\ ~OwnedNext(a))
BY DEF FreeUnowned, Freed

(* IInv is kept by reading the published identity. *)
LEMMA LoadPublishedStep ==
  ASSUME IInv, NEW t \in Threads, LoadPublished(t)
  PROVE  IInv'
<1> USE DEF LoadPublished, Goto, hist
<1>1. TypeOK'
  BY DEF IInv, TypeOK
<1>2. OwnedInv'
  BY DEF IInv, TypeOK, OwnedInv, FreshInv
<1>3. FreshInv'
  BY DEF IInv, TypeOK, OwnedInv, FreshInv
<1>4. VerInv'
  BY DEF IInv, TypeOK, VerInv
<1>5. OwnerInv'
  BY DEF IInv, TypeOK, OwnedInv, FreshInv, VerInv, OwnerInv
<1>6. PubInv'
  BY DEF IInv, TypeOK, OwnedInv, FreshInv, VerInv, OwnerInv, PubInv
<1>7. AcqInv'
  BY DEF IInv, TypeOK, OwnedInv, FreshInv, VerInv, OwnerInv, PubInv, AcqInv
<1>8. BuildInv'
  BY DEF IInv, TypeOK, FreshInv, BuildInv, BuiltOnce
<1> QED BY <1>1, <1>2, <1>3, <1>4, <1>5, <1>6, <1>7, <1>8 DEF IInv

(* IInv is kept by comparing it with the thread-local owner. *)
LEMMA CompareStep ==
  ASSUME IInv, NEW t \in Threads, Compare(t)
  PROVE  IInv'
<1> USE DEF Compare, Goto, hist
<1>1. TypeOK'
  BY DEF IInv, TypeOK
<1>2. OwnedInv'
  BY DEF IInv, TypeOK, OwnedInv, FreshInv
<1>3. FreshInv'
  BY DEF IInv, TypeOK, OwnedInv, FreshInv
<1>4. VerInv'
  BY DEF IInv, TypeOK, VerInv
<1>5. OwnerInv'
  BY DEF IInv, TypeOK, OwnedInv, FreshInv, VerInv, OwnerInv
<1>6. PubInv'
  BY DEF IInv, TypeOK, OwnedInv, FreshInv, VerInv, OwnerInv, PubInv
<1>7. AcqInv'
  BY DEF IInv, TypeOK, OwnedInv, FreshInv, VerInv, OwnerInv, PubInv, AcqInv
<1>8. BuildInv'
  BY DEF IInv, TypeOK, FreshInv, BuildInv, BuiltOnce
<1> QED BY <1>1, <1>2, <1>3, <1>4, <1>5, <1>6, <1>7, <1>8 DEF IInv

(* IInv is kept by taking g_mutex to acquire. *)
LEMMA LockStep ==
  ASSUME IInv, NEW t \in Threads, Lock(t)
  PROVE  IInv'
<1> USE DEF Lock, Goto, hist
<1>1. TypeOK'
  BY DEF IInv, TypeOK
<1>2. OwnedInv'
  BY DEF IInv, TypeOK, OwnedInv, FreshInv
<1>3. FreshInv'
  BY DEF IInv, TypeOK, OwnedInv, FreshInv
<1>4. VerInv'
  BY DEF IInv, TypeOK, VerInv
<1>5. OwnerInv'
  BY DEF IInv, TypeOK, OwnedInv, FreshInv, VerInv, OwnerInv
<1>6. PubInv'
  BY DEF IInv, TypeOK, OwnedInv, FreshInv, VerInv, OwnerInv, PubInv
<1>7. AcqInv'
  BY DEF IInv, TypeOK, AcqInv
<1>8. BuildInv'
  BY DEF IInv, TypeOK, FreshInv, BuildInv, BuiltOnce
<1> QED BY <1>1, <1>2, <1>3, <1>4, <1>5, <1>6, <1>7, <1>8 DEF IInv

(* IInv is kept by refreshing the thread-local owner. *)
LEMMA SetTlsStep ==
  ASSUME IInv, NEW t \in Threads, SetTls(t)
  PROVE  IInv'
<1> USE DEF SetTls, FreeUnowned, OwnedNext, Goto, hist
<1>1. TypeOK'
  <2>1. heap' \in [Addrs -> [live : BOOLEAN, config : Configs, ver : 0..MaxVer]]
    BY HeapType DEF IInv
  <2> QED BY <2>1 DEF IInv, TypeOK, FreshInv
<1>2. OwnedInv'
  BY DEF IInv, TypeOK, OwnedInv, FreshInv
<1>3. FreshInv'
  BY DEF IInv, TypeOK, OwnedInv, FreshInv
<1>4. VerInv'
  BY DEF IInv, TypeOK, VerInv
<1>5. OwnerInv'
  BY DEF IInv, TypeOK, OwnedInv, FreshInv, VerInv, OwnerInv
<1>6. PubInv'
  BY DEF IInv, TypeOK, OwnedInv, FreshInv, VerInv, OwnerInv, PubInv
<1>7. AcqInv'
  BY DEF IInv, TypeOK, OwnedInv, FreshInv, VerInv, OwnerInv, PubInv, AcqInv
<1>8. BuildInv'
  BY DEF IInv, TypeOK, FreshInv, BuildInv, BuiltOnce
<1> QED BY <1>1, <1>2, <1>3, <1>4, <1>5, <1>6, <1>7, <1>8 DEF IInv

(* IInv is kept by the end of a use. *)
LEMMA EndUseStep ==
  ASSUME IInv, NEW t \in Threads, EndUse(t)
  PROVE  IInv'
<1> USE DEF EndUse, Goto, hist
<1>1. TypeOK'
  BY DEF IInv, TypeOK
<1>2. OwnedInv'
  BY DEF IInv, TypeOK, OwnedInv, FreshInv
<1>3. FreshInv'
  BY DEF IInv, TypeOK, OwnedInv, FreshInv
<1>4. VerInv'
  BY DEF IInv, TypeOK, VerInv
<1>5. OwnerInv'
  BY DEF IInv, TypeOK, OwnedInv, FreshInv, VerInv, OwnerInv
<1>6. PubInv'
  BY DEF IInv, TypeOK, OwnedInv, FreshInv, VerInv, OwnerInv, PubInv
<1>7. AcqInv'
  BY DEF IInv, TypeOK, AcqInv
<1>8. BuildInv'
  BY DEF IInv, TypeOK, FreshInv, BuildInv, BuiltOnce
<1> QED BY <1>1, <1>2, <1>3, <1>4, <1>5, <1>6, <1>7, <1>8 DEF IInv

(* IInv is kept by the exit of a thread. *)
LEMMA ThreadExitStep ==
  ASSUME IInv, NEW t \in Threads, ThreadExit(t)
  PROVE  IInv'
<1> USE DEF ThreadExit, FreeUnowned, OwnedNext, Goto, hist
<1>1. TypeOK'
  <2>1. heap' \in [Addrs -> [live : BOOLEAN, config : Configs, ver : 0..MaxVer]]
    BY HeapType DEF IInv
  <2> QED BY <2>1 DEF IInv, TypeOK, FreshInv
<1>2. OwnedInv'
  BY DEF IInv, TypeOK, OwnedInv, FreshInv
<1>3. FreshInv'
  BY DEF IInv, TypeOK, OwnedInv, FreshInv
<1>4. VerInv'
  BY DEF IInv, TypeOK, VerInv
<1>5. OwnerInv'
  BY DEF IInv, TypeOK, OwnedInv, FreshInv, VerInv, OwnerInv
<1>6. PubInv'
  <2>1. \A a \in Addrs : heap'[a].live => heap'[a] = heap[a]
    BY KeptAlive
  <2>2. published' = published /\ doneVer' = doneVer /\ published \in Addrs \cup {None}
    BY DEF IInv, TypeOK
  <2>3. published' # None /\ heap'[published'].live => heap'[published'].ver >= doneVer'
    BY <2>1, <2>2 DEF IInv, PubInv
  <2> QED BY <2>2, <2>3 DEF IInv, TypeOK, FreshInv, PubInv
<1>7. AcqInv'
  BY DEF IInv, TypeOK, OwnedInv, FreshInv, VerInv, OwnerInv, PubInv, AcqInv
<1>8. BuildInv'
  BY DEF IInv, TypeOK, FreshInv, BuildInv, BuiltOnce
<1> QED BY <1>1, <1>2, <1>3, <1>4, <1>5, <1>6, <1>7, <1>8 DEF IInv

(* IInv is kept by finding a context. *)
LEMMA EnsureHaveStep ==
  ASSUME IInv, NEW t \in Threads, EnsureHave(t)
  PROVE  IInv'
<1> USE DEF EnsureHave, Goto, hist
<1>1. TypeOK'
  BY SMTT(20) DEF IInv, TypeOK, FreshInv
<1>2. OwnedInv'
  BY DEF IInv, TypeOK, OwnedInv, FreshInv
<1>3. FreshInv'
  BY DEF IInv, TypeOK, OwnedInv, FreshInv
<1>4. VerInv'
  BY DEF IInv, TypeOK, VerInv
<1>5. OwnerInv'
  BY DEF IInv, TypeOK, OwnedInv, FreshInv, VerInv, OwnerInv
<1>6. PubInv'
  BY DEF IInv, TypeOK, OwnedInv, FreshInv, VerInv, OwnerInv, PubInv
<1>7. AcqInv'
  BY DEF IInv, TypeOK, AcqInv
<1>8. BuildInv'
  BY DEF IInv, TypeOK, FreshInv, BuildInv, BuiltOnce
<1> QED BY <1>1, <1>2, <1>3, <1>4, <1>5, <1>6, <1>7, <1>8 DEF IInv

(* IInv is kept by building a context. *)
LEMMA EnsureBuildStep ==
  ASSUME IInv, NEW t \in Threads, EnsureBuild(t)
  PROVE  IInv'
<1> USE DEF EnsureBuild, Allocate, Goto, hist
<1>1. TypeOK'
  <2>1. heap' \in [Addrs -> [live : BOOLEAN, config : Configs, ver : 0..MaxVer]]
    BY DEF IInv, TypeOK
  <2>2. /\ pc' \in [Threads -> PCs] /\ fresh' \in [Threads -> Addrs \cup {None}]
        /\ \A u \in Threads : pc'[u] \in Locked <=> g_mutex' = u
    BY DEF IInv, TypeOK
  <2>3. builds' \in [0..MaxVer -> Nat]
    BY DEF IInv, TypeOK
  <2> QED BY <2>1, <2>2, <2>3 DEF IInv, TypeOK
<1>2. OwnedInv'
  BY DEF IInv, TypeOK, OwnedInv, FreshInv
<1>3. FreshInv'
  BY DEF IInv, TypeOK, OwnedInv, FreshInv
<1>4. VerInv'
  BY DEF IInv, TypeOK, VerInv
<1>5. OwnerInv'
  BY DEF IInv, TypeOK, OwnedInv, FreshInv, VerInv, OwnerInv
<1>6. PubInv'
  BY DEF IInv, TypeOK, OwnedInv, FreshInv, VerInv, OwnerInv, PubInv
<1>7. AcqInv'
  BY DEF IInv, TypeOK, OwnedInv, FreshInv, VerInv, OwnerInv, PubInv, AcqInv
<1>8. BuildInv'
  <2>1. builds[ver] = 0 /\ pc'[t] = "own" /\ ver \in 0..MaxVer
    BY DEF IInv, TypeOK, FreshInv, BuildInv
  <2>2. builds' = [builds EXCEPT ![ver] = 1]
    BY <2>1 DEF IInv, TypeOK
  <2>3. \A u \in Threads : pc'[u] \notin {"retire", "reset"}
    BY DEF IInv, TypeOK
  <2> QED BY <2>1, <2>2, <2>3 DEF IInv, TypeOK, BuildInv, BuiltOnce
<1> QED BY <1>1, <1>2, <1>3, <1>4, <1>5, <1>6, <1>7, <1>8 DEF IInv

(* IInv is kept by a failed build. *)
LEMMA EnsureThrowStep ==
  ASSUME IInv, NEW t \in Threads, EnsureThrow(t)
  PROVE  IInv'
<1> USE DEF EnsureThrow, Goto, hist
<1>1. TypeOK'
  BY DEF IInv, TypeOK
<1>2. OwnedInv'
  BY DEF IInv, TypeOK, OwnedInv, FreshInv
<1>3. FreshInv'
  BY DEF IInv, TypeOK, OwnedInv, FreshInv
<1>4. VerInv'
  BY DEF IInv, TypeOK, VerInv
<1>5. OwnerInv'
  BY DEF IInv, TypeOK, OwnedInv, FreshInv, VerInv, OwnerInv
<1>6. PubInv'
  BY DEF IInv, TypeOK, OwnedInv, FreshInv, VerInv, OwnerInv, PubInv
<1>7. AcqInv'
  BY DEF IInv, TypeOK, AcqInv
<1>8. BuildInv'
  BY DEF IInv, TypeOK, FreshInv, BuildInv, BuiltOnce
<1> QED BY <1>1, <1>2, <1>3, <1>4, <1>5, <1>6, <1>7, <1>8 DEF IInv

(* IInv is kept by installing the owner. *)
LEMMA StoreOwnerStep ==
  ASSUME IInv, NEW t \in Threads, StoreOwner(t)
  PROVE  IInv'
<1> USE DEF StoreOwner, FreeUnowned, OwnedNext, Goto, hist
<1>1. TypeOK'
  <2>1. heap' \in [Addrs -> [live : BOOLEAN, config : Configs, ver : 0..MaxVer]]
    BY HeapType DEF IInv
  <2> QED BY <2>1 DEF IInv, TypeOK, FreshInv
<1>2. OwnedInv'
  BY DEF IInv, TypeOK, OwnedInv, FreshInv
<1>3. FreshInv'
  BY DEF IInv, TypeOK, OwnedInv, FreshInv
<1>4. VerInv'
  BY DEF IInv, TypeOK, VerInv
<1>5. OwnerInv'
  BY DEF IInv, TypeOK, OwnedInv, FreshInv, VerInv, OwnerInv
<1>6. PubInv'
  <2>1. \A a \in Addrs : heap'[a].live => heap'[a] = heap[a]
    BY KeptAlive
  <2>2. published' = published /\ doneVer' = doneVer /\ published \in Addrs \cup {None}
    BY DEF IInv, TypeOK
  <2>3. published' # None /\ heap'[published'].live => heap'[published'].ver >= doneVer'
    BY <2>1, <2>2 DEF IInv, PubInv
  <2> QED BY <2>2, <2>3 DEF IInv, TypeOK, FreshInv, PubInv
<1>7. AcqInv'
  BY DEF IInv, TypeOK, OwnedInv, FreshInv, VerInv, OwnerInv, PubInv, AcqInv
<1>8. BuildInv'
  BY DEF IInv, TypeOK, FreshInv, BuildInv, BuiltOnce
<1> QED BY <1>1, <1>2, <1>3, <1>4, <1>5, <1>6, <1>7, <1>8 DEF IInv

(* IInv is kept by publishing the identity. *)
LEMMA StorePublishedStep ==
  ASSUME IInv, NEW t \in Threads, StorePublished(t)
  PROVE  IInv'
<1> USE DEF StorePublished, Goto, hist
<1>1. TypeOK'
  BY SMTT(20) DEF IInv, TypeOK, FreshInv
<1>2. OwnedInv'
  BY DEF IInv, TypeOK, OwnedInv, FreshInv
<1>3. FreshInv'
  BY DEF IInv, TypeOK, OwnedInv, FreshInv
<1>4. VerInv'
  BY DEF IInv, TypeOK, VerInv
<1>5. OwnerInv'
  BY DEF IInv, TypeOK, OwnedInv, FreshInv, VerInv, OwnerInv
<1>6. PubInv'
  BY DEF IInv, TypeOK, OwnedInv, FreshInv, VerInv, OwnerInv, PubInv
<1>7. AcqInv'
  BY DEF IInv, TypeOK, AcqInv
<1>8. BuildInv'
  BY DEF IInv, TypeOK, FreshInv, BuildInv, BuiltOnce
<1> QED BY <1>1, <1>2, <1>3, <1>4, <1>5, <1>6, <1>7, <1>8 DEF IInv

(* IInv is kept by ensure_fixed_base_ready(). *)
LEMMA EnsureReadyStep ==
  ASSUME IInv, NEW t \in Threads, EnsureReady(t)
  PROVE  IInv'
<1> USE DEF EnsureReady, Goto, hist
<1>1. TypeOK'
  BY DEF IInv, TypeOK
<1>2. OwnedInv'
  BY DEF IInv, TypeOK, OwnedInv, FreshInv
<1>3. FreshInv'
  BY DEF IInv, TypeOK, OwnedInv, FreshInv
<1>4. VerInv'
  BY DEF IInv, TypeOK, VerInv
<1>5. OwnerInv'
  BY DEF IInv, TypeOK, OwnedInv, FreshInv, VerInv, OwnerInv
<1>6. PubInv'
  BY DEF IInv, TypeOK, OwnedInv, FreshInv, VerInv, OwnerInv, PubInv
<1>7. AcqInv'
  BY DEF IInv, TypeOK, AcqInv
<1>8. BuildInv'
  BY DEF IInv, TypeOK, FreshInv, BuildInv, BuiltOnce
<1> QED BY <1>1, <1>2, <1>3, <1>4, <1>5, <1>6, <1>7, <1>8 DEF IInv

(* IInv is kept by giving up g_mutex. *)
LEMMA UnlockStep ==
  ASSUME IInv, NEW t \in Threads, Unlock(t)
  PROVE  IInv'
<1> USE DEF Unlock, Goto, hist
<1>1. TypeOK'
  BY DEF IInv, TypeOK
<1>2. OwnedInv'
  BY DEF IInv, TypeOK, OwnedInv, FreshInv
<1>3. FreshInv'
  BY DEF IInv, TypeOK, OwnedInv, FreshInv
<1>4. VerInv'
  BY DEF IInv, TypeOK, VerInv
<1>5. OwnerInv'
  BY DEF IInv, TypeOK, OwnedInv, FreshInv, VerInv, OwnerInv
<1>6. PubInv'
  BY DEF IInv, TypeOK, OwnedInv, FreshInv, VerInv, OwnerInv, PubInv
<1>7. AcqInv'
  BY DEF IInv, TypeOK, AcqInv
<1>8. BuildInv'
  BY DEF IInv, TypeOK, FreshInv, BuildInv, BuiltOnce
<1> QED BY <1>1, <1>2, <1>3, <1>4, <1>5, <1>6, <1>7, <1>8 DEF IInv

(* IInv is kept by reading a context from a cache file. *)
LEMMA LoadCacheStep ==
  ASSUME IInv, NEW t \in Threads, LoadCache(t)
  PROVE  IInv'
<1> USE DEF LoadCache, Allocate, Goto, hist
<1>1. TypeOK'
  <2>1. heap' \in [Addrs -> [live : BOOLEAN, config : Configs, ver : 0..MaxVer]]
    BY DEF IInv, TypeOK
  <2>2. /\ pc' \in [Threads -> PCs] /\ fresh' \in [Threads -> Addrs \cup {None}]
        /\ \A u \in Threads : pc'[u] \in Locked <=> g_mutex' = u
    BY DEF IInv, TypeOK
  <2>3. builds' \in [0..MaxVer -> Nat]
    BY DEF IInv, TypeOK
  <2> QED BY <2>1, <2>2, <2>3 DEF IInv, TypeOK
<1>2. OwnedInv'
  BY DEF IInv, TypeOK, OwnedInv, FreshInv
<1>3. FreshInv'
  BY DEF IInv, TypeOK, OwnedInv, FreshInv
<1>4. VerInv'
  BY DEF IInv, TypeOK, VerInv
<1>5. OwnerInv'
  BY DEF IInv, TypeOK, OwnedInv, FreshInv, VerInv, OwnerInv
<1>6. PubInv'
  BY DEF IInv, TypeOK, OwnedInv, FreshInv, VerInv, OwnerInv, PubInv
<1>7. AcqInv'
  BY DEF IInv, TypeOK, OwnedInv, FreshInv, VerInv, OwnerInv, PubInv, AcqInv
<1>8. BuildInv'
  BY DEF IInv, TypeOK, FreshInv, BuildInv, BuiltOnce
<1> QED BY <1>1, <1>2, <1>3, <1>4, <1>5, <1>6, <1>7, <1>8 DEF IInv

(* IInv is kept by applying a configuration. *)
LEMMA ApplyStep ==
  ASSUME IInv, NEW t \in Threads, NEW c \in Configs, Apply(t, c)
  PROVE  IInv'
<1> USE DEF Apply, Goto, hist
<1>1. TypeOK'
  <2>1. config' \in Configs
    BY DEF Effective, Configs
  <2>2. ver' \in 0..MaxVer
    BY DEF IInv, TypeOK
  <2> QED BY <2>1, <2>2 DEF IInv, TypeOK
<1>2. OwnedInv'
  BY DEF IInv, TypeOK, OwnedInv, FreshInv
<1>3. FreshInv'
  BY DEF IInv, TypeOK, OwnedInv, FreshInv
<1>4. VerInv'
  BY DEF IInv, TypeOK, VerInv
<1>5. OwnerInv'
  BY DEF IInv, TypeOK, OwnedInv, FreshInv, VerInv, OwnerInv
<1>6. PubInv'
  BY DEF IInv, TypeOK, OwnedInv, FreshInv, VerInv, OwnerInv, PubInv
<1>7. AcqInv'
  BY DEF IInv, TypeOK, AcqInv
<1>8. BuildInv'
  <2>1. CASE ver' = ver
    <3>1. owner # None /\ pc' = [pc EXCEPT ![t] = "unlock"]
      BY <2>1 DEF IInv, TypeOK
    <3> QED BY <2>1, <3>1 DEF IInv, TypeOK, BuildInv, BuiltOnce
  <2>2. CASE ver' = ver + 1
    BY <2>2 DEF IInv, TypeOK, BuildInv, BuiltOnce
  <2> QED BY <2>1, <2>2
<1> QED BY <1>1, <1>2, <1>3, <1>4, <1>5, <1>6, <1>7, <1>8 DEF IInv

(* IInv is kept by set_cache_directory(). *)
LEMMA SetCacheDirectoryStep ==
  ASSUME IInv, NEW t \in Threads, NEW d \in Dirs, SetCacheDirectory(t, d)
  PROVE  IInv'
<1> USE DEF SetCacheDirectory, Configs, Goto, hist
<1>1. TypeOK'
  <2>1. config' \in Configs
    BY DEF IInv, TypeOK
  <2>2. ver' \in 0..MaxVer
    BY DEF IInv, TypeOK
  <2> QED BY <2>1, <2>2 DEF IInv, TypeOK
<1>2. OwnedInv'
  BY DEF IInv, TypeOK, OwnedInv, FreshInv
<1>3. FreshInv'
  BY DEF IInv, TypeOK, OwnedInv, FreshInv
<1>4. VerInv'
  BY DEF IInv, TypeOK, VerInv
<1>5. OwnerInv'
  BY DEF IInv, TypeOK, OwnedInv, FreshInv, VerInv, OwnerInv
<1>6. PubInv'
  BY DEF IInv, TypeOK, OwnedInv, FreshInv, VerInv, OwnerInv, PubInv
<1>7. AcqInv'
  BY DEF IInv, TypeOK, AcqInv
<1>8. BuildInv'
  BY DEF IInv, TypeOK, FreshInv, BuildInv, BuiltOnce
<1> QED BY <1>1, <1>2, <1>3, <1>4, <1>5, <1>6, <1>7, <1>8 DEF IInv

(* IInv is kept by unpublishing the identity. *)
LEMMA RetireStep ==
  ASSUME IInv, NEW t \in Threads, Retire(t)
  PROVE  IInv'
<1> USE DEF Retire, Goto, hist
<1>1. TypeOK'
  BY DEF IInv, TypeOK
<1>2. OwnedInv'
  BY DEF IInv, TypeOK, OwnedInv, FreshInv
<1>3. FreshInv'
  BY DEF IInv, TypeOK, OwnedInv, FreshInv
<1>4. VerInv'
  BY DEF IInv, TypeOK, VerInv
<1>5. OwnerInv'
  BY DEF IInv, TypeOK, OwnedInv, FreshInv, VerInv, OwnerInv
<1>6. PubInv'
  BY DEF IInv, TypeOK, OwnedInv, FreshInv, VerInv, OwnerInv, PubInv
<1>7. AcqInv'
  BY DEF IInv, TypeOK, AcqInv
<1>8. BuildInv'
  BY DEF IInv, TypeOK, FreshInv, BuildInv, BuiltOnce
<1> QED BY <1>1, <1>2, <1>3, <1>4, <1>5, <1>6, <1>7, <1>8 DEF IInv

(* IInv is kept by dropping the owner. *)
LEMMA ResetOwnerStep ==
  ASSUME IInv, NEW t \in Threads, ResetOwner(t)
  PROVE  IInv'
<1> USE DEF ResetOwner, FreeUnowned, OwnedNext, Goto, hist
<1>1. TypeOK'
  <2>1. heap' \in [Addrs -> [live : BOOLEAN, config : Configs, ver : 0..MaxVer]]
    BY HeapType DEF IInv
  <2> QED BY <2>1 DEF IInv, TypeOK, FreshInv
<1>2. OwnedInv'
  BY DEF IInv, TypeOK, OwnedInv, FreshInv
<1>3. FreshInv'
  BY DEF IInv, TypeOK, OwnedInv, FreshInv
<1>4. VerInv'
  BY DEF IInv, TypeOK, VerInv
<1>5. OwnerInv'
  BY DEF IInv, TypeOK, OwnedInv, FreshInv, VerInv, OwnerInv
<1>6. PubInv'
  BY DEF IInv, TypeOK, OwnedInv, FreshInv, VerInv, OwnerInv, PubInv
<1>7. AcqInv'
  BY DEF IInv, TypeOK, OwnedInv, FreshInv, VerInv, OwnerInv, PubInv, AcqInv
<1>8. BuildInv'
  BY DEF IInv, TypeOK, FreshInv, BuildInv, BuiltOnce
<1> QED BY <1>1, <1>2, <1>3, <1>4, <1>5, <1>6, <1>7, <1>8 DEF IInv

-----------------------------------------------------------------------------
(* Before the first use nothing is owned or published. *)
LEMMA InitIInv == Init => IInv
BY DEF Init, IInv, TypeOK, OwnedInv, FreshInv, VerInv, OwnerInv, PubInv, AcqInv, BuildInv,
       BuiltOnce, Configs, DefaultConfig, Freed

(* IInv only depends on the variables. *)
LEMMA StutterIInv == IInv /\ UNCHANGED vars => IInv'
BY DEF vars, hist, IInv, TypeOK, OwnedInv, FreshInv, VerInv, OwnerInv, PubInv, AcqInv, BuildInv,
       BuiltOnce

(* IInv is inductive. *)
LEMMA NextIInv == IInv /\ [Next]_vars => IInv'
<1> SUFFICES ASSUME IInv, [Next]_vars PROVE IInv'
  OBVIOUS
<1>1. ASSUME NEW t \in Threads, Acquire(t) \/ EndUse(t) \/ ThreadExit(t) PROVE IInv'
  BY <1>1, CompareStep, LockStep, SetTlsStep, EndUseStep, ThreadExitStep DEF Acquire
<1>2. ASSUME NEW t \in Threads, Ensure(t) PROVE IInv'
  BY <1>2, EnsureHaveStep, EnsureBuildStep, EnsureThrowStep, StoreOwnerStep,
     StorePublishedStep DEF Ensure
<1>3. ASSUME NEW t \in Threads, Finish(t) PROVE IInv'
  BY <1>3, UnlockStep, RetireStep, ResetOwnerStep DEF Finish
<1>4. ASSUME NEW t \in Threads, Begin(t) PROVE IInv'
  <2>1. config.dir \in Dirs
    BY DEF IInv, TypeOK, Configs
  <2>2. [shape |-> DefaultShape, dir |-> config.dir] \in Configs
    BY <2>1 DEF Configs
  <2> QED BY <1>4, <2>2, LoadPublishedStep, EnsureReadyStep, LoadCacheStep, ApplyStep,
             SetCacheDirectoryStep DEF Begin, ConfigureAuto, ConfigureFixedBase
<1> QED BY <1>1, <1>2, <1>3, <1>4, StutterIInv DEF Next

(* IInv holds in every reachable state.                                    *)
THEOREM Invariance == Spec => []IInv
BY InitIInv, NextIInv, PTL DEF Spec

(* Types, and mutual exclusion of the sections under g_mutex.              *)
THEOREM TypeCorrect == Spec => []TypeOK
<1>1. IInv => TypeOK
  BY DEF IInv
<1> QED BY <1>1, Invariance, PTL

(* A reader that took no lock never uses a freed context, whatever the     *)
(* number of threads, reconfigurations and reused addresses.               *)
THEOREM NeverFreedInUse == Spec => []NoUseAfterFree
<1>1. IInv => NoUseAfterFree
  BY DEF IInv, TypeOK, OwnedInv, AcqInv, NoUseAfterFree
<1> QED BY <1>1, Invariance, PTL

(* No reader is served a table older than a finished reconfiguration.      *)
THEOREM FreshTables == Spec => []AcquisitionIsFresh
<1>1. IInv => AcquisitionIsFresh
  BY DEF IInv, AcqInv, AcquisitionIsFresh
<1> QED BY <1>1, Invariance, PTL

(* With g_mutex free, identity, owner and configuration agree.             *)
THEOREM Agreement == Spec => []PublishedAgrees
<1>1. IInv => PublishedAgrees
  BY DEF IInv, TypeOK, OwnedInv, OwnerInv, PubInv, PublishedAgrees
<1> QED BY <1>1, Invariance, PTL

(* Threads that arrive first together build one table.                     *)
THEOREM OneBuild == Spec => []BuiltOnce
<1>1. IInv => BuiltOnce
  BY DEF IInv, BuildInv
<1> QED BY <1>1, Invariance, PTL
================================================================================
