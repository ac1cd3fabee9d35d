--------------------------- MODULE PrecomputeContext ---------------------------
(***************************************************************************)
(* The fixed-base table of src/cpu/src/precompute.cpp: who owns it, how it *)
(* is published to readers that take no lock, and how a reconfiguration    *)
(* retires it.                                                             *)
(*                                                                         *)
(* g_context_owner is touched only under g_mutex; g_published_context is   *)
(* an identity that readers compare with their own thread-local owner and  *)
(* never dereference.  An address may be reused as soon as nobody owns the *)
(* context that lived there, so the model allocates from a small set of    *)
(* addresses.  A context remembers the configuration it was built for and  *)
(* that configuration's version; the tables themselves, and the cache file *)
(* they may come from (TableCacheFile), do not appear.                     *)
(***************************************************************************)
EXTENDS Integers

CONSTANTS
  Threads,
  Addrs,        (* addresses the allocator may return                      *)
  None,         (* nullptr                                                 *)
  Shapes,       (* what shapes a table: window bits, GLV, ...              *)
  Dirs,         (* cache directories                                       *)
  DefaultShape, (* FixedBaseConfig{}                                       *)
  DefaultDir,
  Adapt,        (* Adapt[s]: s with the psi table dropped by adaptive_glv  *)
  EnvDir,       (* SECP256K1_CACHE_DIR, None when unset                    *)
  MaxVer        (* bound: times the configuration is changed               *)

ASSUME ContextAssumption ==
  /\ None \notin Addrs \cup Threads
  /\ DefaultShape \in Shapes /\ DefaultDir \in Dirs
  /\ Adapt \in [Shapes -> Shapes]
  /\ EnvDir \in Dirs \cup {None}
  /\ MaxVer \in Nat

Configs == [shape : Shapes, dir : Dirs]

VARIABLES
  pc,           (* where each thread is                                    *)
  g_mutex,      (* its holder                                              *)
  config,       (* g_config                                                *)
  owner,        (* g_context_owner                                         *)
  published,    (* g_published_context                                     *)
  tl,           (* tl[t]: tl_context_owner of thread t                     *)
  seen,         (* seen[t]: the identity t loaded                          *)
  fresh,        (* fresh[t]: the context t has built and not yet handed on *)
  after,        (* after[t]: what t does once the context is built         *)
  heap,         (* heap[a]: the context at address a                       *)
  ver,          (* changes of g_config so far                              *)
  doneVer,      (* ver when the last reconfiguration returned              *)
  start,        (* start[t]: doneVer when t's acquisition began            *)
  builds        (* builds[v]: contexts published by a build for version v  *)

hist == <<doneVer, start, builds>>
vars == <<pc, g_mutex, config, owner, published, tl, seen, fresh, after, heap, ver, hist>>

Context == [live : BOOLEAN, config : Configs, ver : 0..MaxVer]

DefaultConfig == [shape |-> DefaultShape, dir |-> DefaultDir]

Freed == [live |-> FALSE, config |-> DefaultConfig, ver |-> 0]

Init ==
  /\ pc = [t \in Threads |-> "idle"]
  /\ g_mutex = None
  /\ config = DefaultConfig
  /\ owner = None /\ published = None
  /\ tl = [t \in Threads |-> None]
  /\ seen = [t \in Threads |-> None]
  /\ fresh = [t \in Threads |-> None]
  /\ after = [t \in Threads |-> "idle"]
  /\ heap = [a \in Addrs |-> Freed]
  /\ ver = 0 /\ doneVer = 0
  /\ start = [t \in Threads |-> 0]
  /\ builds = [v \in 0..MaxVer |-> 0]

Goto(t, to) == pc' = [pc EXCEPT ![t] = to]

(* Broken variant: a thread keeps a plain pointer to its context.          *)
OwnedNextButTls(a) ==
  \/ owner' = a
  \/ \E t \in Threads : fresh'[t] = a

(* The shared_ptr owners of a context after a step.  A context is freed by *)
(* the step that drops the last one.                                       *)
OwnedNext(a) ==
  \/ owner' = a
  \/ \E t \in Threads : tl'[t] = a \/ fresh'[t] = a

FreeUnowned == heap' = [a \in Addrs |-> IF OwnedNext(a) THEN heap[a] ELSE Freed]

-----------------------------------------------------------------------------
(* acquire_context_for_current_thread()                                    *)

LoadPublished(t) ==
  /\ pc[t] = "idle"
  /\ seen' = [seen EXCEPT ![t] = published]
  /\ start' = [start EXCEPT ![t] = doneVer]
  /\ Goto(t, "compare")
  /\ UNCHANGED <<g_mutex, config, owner, published, tl, fresh, after, heap, ver,
                 doneVer, builds>>

(* Broken variant: a thread that has a context keeps using it.             *)
CompareTlsOnly(t) ==
  /\ pc[t] = "compare"
  /\ Goto(t, IF tl[t] # None THEN "use" ELSE "lock")
  /\ seen' = [seen EXCEPT ![t] = None]
  /\ UNCHANGED <<g_mutex, config, owner, published, tl, fresh, after, heap, ver, hist>>

Compare(t) ==
  /\ pc[t] = "compare"
  /\ Goto(t, IF seen[t] # None /\ seen[t] = tl[t] THEN "use" ELSE "lock")
  /\ seen' = [seen EXCEPT ![t] = None]
  /\ UNCHANGED <<g_mutex, config, owner, published, tl, fresh, after, heap, ver, hist>>

Lock(t) ==
  /\ pc[t] = "lock" /\ g_mutex = None
  /\ g_mutex' = t
  /\ after' = [after EXCEPT ![t] = "settls"]
  /\ Goto(t, "ensure")
  /\ UNCHANGED <<config, owner, published, tl, seen, fresh, heap, ver, hist>>

SetTls(t) ==
  /\ pc[t] = "settls"
  /\ tl' = [tl EXCEPT ![t] = owner]
  /\ UNCHANGED <<owner, fresh>> /\ FreeUnowned
  /\ g_mutex' = None
  /\ after' = [after EXCEPT ![t] = "idle"]
  /\ Goto(t, "use")
  /\ UNCHANGED <<config, published, seen, ver, hist>>

(* The caller is done with the reference it was given.                     *)
EndUse(t) ==
  /\ pc[t] = "use"
  /\ Goto(t, "idle")
  /\ start' = [start EXCEPT ![t] = 0]
  /\ UNCHANGED <<g_mutex, config, owner, published, tl, seen, fresh, after, heap,
                 ver, doneVer, builds>>

(* A thread exits and its thread-locals are destroyed.                     *)
ThreadExit(t) ==
  /\ pc[t] = "idle"
  /\ tl' = [tl EXCEPT ![t] = None]
  /\ UNCHANGED <<owner, fresh>> /\ FreeUnowned
  /\ UNCHANGED <<pc, g_mutex, config, published, seen, after, ver, hist>>

-----------------------------------------------------------------------------
(* ensure_built_locked() and publish_context_locked()                      *)

(* Broken variant: who finds nothing published builds, although another    *)
(* thread may have built while it waited for g_mutex.                      *)
EnsureBuildAgain(t) ==
  /\ pc[t] = "ensure" /\ (owner = None \/ after[t] = "settls")
  /\ \E a \in Addrs : /\ ~heap[a].live
                      /\ heap' = [heap EXCEPT ![a] = [live |-> TRUE, config |-> config, ver |-> ver]]
                      /\ fresh' = [fresh EXCEPT ![t] = a]
  /\ builds' = [builds EXCEPT ![ver] = @ + 1]
  /\ Goto(t, "own")
  /\ UNCHANGED <<g_mutex, config, owner, published, tl, seen, after, ver, doneVer, start>>

EnsureHave(t) ==
  /\ pc[t] = "ensure" /\ owner # None
  /\ Goto(t, after[t])
  /\ UNCHANGED <<g_mutex, config, owner, published, tl, seen, fresh, after, heap, ver, hist>>

Allocate(t, a) ==
  /\ ~heap[a].live
  /\ heap' = [heap EXCEPT ![a] = [live |-> TRUE, config |-> config, ver |-> ver]]
  /\ fresh' = [fresh EXCEPT ![t] = a]

EnsureBuild(t) ==
  /\ pc[t] = "ensure" /\ owner = None
  /\ \E a \in Addrs : Allocate(t, a)
  /\ builds' = [builds EXCEPT ![ver] = @ + 1]
  /\ Goto(t, "own")
  /\ UNCHANGED <<g_mutex, config, owner, published, tl, seen, after, ver, doneVer, start>>

(* Broken variant: the exception leaves g_mutex locked.                    *)
EnsureThrowLocked(t) ==
  /\ pc[t] = "ensure" /\ owner = None
  /\ UNCHANGED g_mutex
  /\ after' = [after EXCEPT ![t] = "idle"]
  /\ start' = [start EXCEPT ![t] = 0]
  /\ Goto(t, "idle")
  /\ UNCHANGED <<config, owner, published, tl, seen, fresh, heap, ver, doneVer, builds>>

(* The build, or the validation of what it built, fails: the exception     *)
(* leaves the critical section with nothing published.                     *)
EnsureThrow(t) ==
  /\ pc[t] = "ensure" /\ owner = None
  /\ g_mutex' = None
  /\ after' = [after EXCEPT ![t] = "idle"]
  /\ start' = [start EXCEPT ![t] = 0]
  /\ Goto(t, "idle")
  /\ UNCHANGED <<config, owner, published, tl, seen, fresh, heap, ver, doneVer, builds>>

StoreOwner(t) ==
  /\ pc[t] = "own"
  /\ owner' = fresh[t]
  /\ fresh' = [fresh EXCEPT ![t] = None]
  /\ UNCHANGED tl /\ FreeUnowned
  /\ Goto(t, "publish")
  /\ UNCHANGED <<g_mutex, config, published, seen, after, ver, hist>>

StorePublished(t) ==
  /\ pc[t] = "publish"
  /\ published' = owner
  /\ Goto(t, after[t])
  /\ UNCHANGED <<g_mutex, config, owner, tl, seen, fresh, after, heap, ver, hist>>

(* ensure_fixed_base_ready(): the same, without keeping a reference.       *)
EnsureReady(t) ==
  /\ pc[t] = "idle" /\ g_mutex = None
  /\ g_mutex' = t
  /\ after' = [after EXCEPT ![t] = "unlock"]
  /\ Goto(t, "ensure")
  /\ UNCHANGED <<config, owner, published, tl, seen, fresh, heap, ver, hist>>

Unlock(t) ==
  /\ pc[t] = "unlock"
  /\ g_mutex' = None
  /\ after' = [after EXCEPT ![t] = "idle"]
  /\ Goto(t, "idle")
  /\ UNCHANGED <<config, owner, published, tl, seen, fresh, heap, ver, hist>>

(* load_precompute_cache(): a context read from a file that matches        *)
(* g_config replaces the current one.                                      *)
LoadCache(t) ==
  /\ pc[t] = "idle" /\ g_mutex = None
  /\ g_mutex' = t
  /\ after' = [after EXCEPT ![t] = "unlock"]
  /\ \E a \in Addrs : Allocate(t, a)
  /\ Goto(t, "own")
  /\ UNCHANGED <<config, owner, published, tl, seen, ver, hist>>

-----------------------------------------------------------------------------
(* Reconfiguration                                                         *)

(* What apply_fixed_base_config_locked() makes of a requested              *)
(* configuration before it compares.                                       *)
Effective(c) == [shape |-> Adapt[c.shape],
                 dir   |-> IF EnvDir = None THEN c.dir ELSE EnvDir]

(* Broken variant: a context from the same directory is kept.              *)
ApplySameDirectory(t, c) ==
  /\ pc[t] = "idle" /\ g_mutex = None /\ ver < MaxVer
  /\ g_mutex' = t
  /\ config' = Effective(c)
  /\ IF owner # None /\ Effective(c).dir = config.dir
       THEN Goto(t, "unlock") /\ UNCHANGED ver
       ELSE Goto(t, "retire") /\ ver' = ver + 1
  /\ UNCHANGED <<owner, published, tl, seen, fresh, after, heap, hist>>

(* Only a context built for the very same configuration is kept.           *)
Apply(t, c) ==
  /\ pc[t] = "idle" /\ g_mutex = None /\ ver < MaxVer
  /\ g_mutex' = t
  /\ config' = Effective(c)
  /\ IF owner # None /\ Effective(c) = config
       THEN Goto(t, "unlock") /\ UNCHANGED ver
       ELSE Goto(t, "retire") /\ ver' = ver + 1
  /\ UNCHANGED <<owner, published, tl, seen, fresh, after, heap, hist>>

ConfigureFixedBase(t, c) == Apply(t, c)

(* configure_fixed_base_auto() keeps the directory it finds.               *)
ConfigureAuto(t) == Apply(t, [shape |-> DefaultShape, dir |-> config.dir])

SetCacheDirectory(t, d) ==
  /\ pc[t] = "idle" /\ g_mutex = None /\ ver < MaxVer
  /\ g_mutex' = t
  /\ config' = [config EXCEPT !.dir = d]
  /\ Goto(t, "retire") /\ ver' = ver + 1
  /\ UNCHANGED <<owner, published, tl, seen, fresh, after, heap, hist>>

(* invalidate_context_locked(): the identity first, then the owner.        *)
Retire(t) ==
  /\ pc[t] = "retire"
  /\ published' = None
  /\ Goto(t, "reset")
  /\ UNCHANGED <<g_mutex, config, owner, tl, seen, fresh, after, heap, ver, hist>>

ResetOwner(t) ==
  /\ pc[t] = "reset"
  /\ owner' = None
  /\ UNCHANGED <<tl, fresh>> /\ FreeUnowned
  /\ g_mutex' = None
  /\ doneVer' = ver
  /\ Goto(t, "idle")
  /\ UNCHANGED <<config, published, seen, after, ver, start, builds>>

-----------------------------------------------------------------------------
Acquire(t) == Compare(t) \/ Lock(t) \/ SetTls(t)

Ensure(t) ==
  \/ EnsureHave(t) \/ EnsureBuild(t) \/ EnsureThrow(t)
  \/ StoreOwner(t) \/ StorePublished(t)

Finish(t) == Unlock(t) \/ Retire(t) \/ ResetOwner(t)

Begin(t) ==
  \/ LoadPublished(t) \/ EnsureReady(t) \/ LoadCache(t) \/ ConfigureAuto(t)
  \/ \E c \in Configs : ConfigureFixedBase(t, c)
  \/ \E d \in Dirs : SetCacheDirectory(t, d)

Next == \E t \in Threads :
  Acquire(t) \/ EndUse(t) \/ ThreadExit(t) \/ Ensure(t) \/ Finish(t) \/ Begin(t)

Spec == Init /\ [][Next]_vars

(* Threads inside the library keep running.  Nothing is assumed of which   *)
(* waiting thread gets g_mutex: std::mutex is not fair.                    *)
Fairness == \A t \in Threads : WF_vars(Acquire(t) \/ Ensure(t) \/ Finish(t))

FairSpec == Spec /\ Fairness

-----------------------------------------------------------------------------
PCs == {"idle", "compare", "lock", "ensure", "own", "publish", "settls", "use",
        "unlock", "retire", "reset"}
Locked == {"ensure", "own", "publish", "settls", "unlock", "retire", "reset"}

(* Every variable keeps its type, and the holder of g_mutex is the thread  *)
(* in the critical section.                                                *)
TypeOK ==
  /\ pc \in [Threads -> PCs]
  /\ \A t \in Threads : pc[t] \in Locked <=> g_mutex = t
  /\ g_mutex \in Threads \cup {None}
  /\ config \in Configs
  /\ owner \in Addrs \cup {None} /\ published \in Addrs \cup {None}
  /\ tl \in [Threads -> Addrs \cup {None}]
  /\ seen \in [Threads -> Addrs \cup {None}]
  /\ fresh \in [Threads -> Addrs \cup {None}]
  /\ after \in [Threads -> {"idle", "settls", "unlock"}]
  /\ heap \in [Addrs -> Context]
  /\ ver \in 0..MaxVer /\ doneVer \in 0..MaxVer
  /\ start \in [Threads -> 0..MaxVer]
  /\ builds \in [0..MaxVer -> Nat]

(* The context a thread was handed is alive as long as the thread uses it, *)
(* whatever reconfigurations and reloads happen meanwhile, although the    *)
(* thread took no lock and the identity it compared may have been reused.  *)
NoUseAfterFree ==
  \A t \in Threads : pc[t] = "use" => tl[t] \in Addrs /\ heap[tl[t]].live

(* An acquisition that began after a reconfiguration had returned is never *)
(* served a table of an earlier configuration, on the unlocked path too.   *)
AcquisitionIsFresh ==
  \A t \in Threads : pc[t] = "use" => heap[tl[t]].ver >= start[t]

(* Outside the critical section the published identity is the owner's, and *)
(* the context and g_config agree (the reason for same_fixed_base_config's *)
(* exhaustive comparison).                                                 *)
PublishedAgrees ==
  g_mutex = None =>
    /\ published = owner
    /\ owner # None => heap[owner].live /\ heap[owner].config = config

(* One table is computed per configuration, however many threads arrive    *)
(* first together.                                                         *)
BuiltOnce == \A v \in 0..MaxVer : builds[v] <= 1

-----------------------------------------------------------------------------
(* The inductive invariant (PrecomputeContext_proofs)                      *)

(* Whatever a shared_ptr points to is alive.                               *)
OwnedInv ==
  /\ owner # None => heap[owner].live
  /\ \A t \in Threads : /\ tl[t] # None => heap[tl[t]].live
                        /\ fresh[t] # None => heap[fresh[t]].live

(* A thread holds a new context exactly while it installs it.              *)
FreshInv == \A t \in Threads :
  /\ fresh[t] # None <=> pc[t] = "own"
  /\ pc[t] = "own" => heap[fresh[t]].config = config /\ heap[fresh[t]].ver = ver
  /\ pc[t] \in {"publish", "settls"} => owner # None
  /\ pc[t] \in {"ensure", "own", "publish"} => after[t] \in {"settls", "unlock"}

(* Versions only run ahead of the finished reconfigurations during one.    *)
VerInv ==
  /\ doneVer <= ver
  /\ (\A t \in Threads : pc[t] \notin {"retire", "reset"}) => doneVer = ver
  /\ \A t \in Threads : start[t] <= doneVer

(* The owner is current, except while it is being retired.                 *)
OwnerInv ==
  owner # None =>
    /\ heap[owner].ver >= doneVer
    /\ (\A t \in Threads : pc[t] \notin {"retire", "reset"}) =>
         heap[owner].config = config /\ heap[owner].ver = ver

(* The published identity is the owner's outside publication and retiring, *)
(* and never that of a live context older than a finished reconfiguration. *)
PubInv ==
  /\ (\A t \in Threads : pc[t] \notin {"publish", "reset"}) => published = owner
  /\ \A t \in Threads : pc[t] = "reset" => published = None
  /\ published # None /\ heap[published].live => heap[published].ver >= doneVer

(* What a thread has accepted, or is about to accept, is recent enough.    *)
AcqInv == \A t \in Threads :
  /\ pc[t] = "use" => tl[t] # None /\ heap[tl[t]].ver >= start[t]
  /\ pc[t] = "compare" /\ seen[t] # None /\ seen[t] = tl[t] =>
       heap[tl[t]].ver >= start[t]

(* A version that has been built for has a context until it is retired.    *)
BuildInv ==
  /\ BuiltOnce
  /\ \A v \in 0..MaxVer : v > ver => builds[v] = 0
  /\ builds[ver] # 0 =>
       /\ owner # None \/ \E t \in Threads : pc[t] = "own"
       /\ \A t \in Threads : pc[t] \notin {"retire", "reset"}

IInv == /\ TypeOK /\ OwnedInv /\ FreshInv /\ VerInv
        /\ OwnerInv /\ PubInv /\ AcqInv /\ BuildInv

-----------------------------------------------------------------------------
(* g_mutex is always given up again, by exceptions as well: a thread that  *)
(* waits for it is held up by the others' turns only.                      *)
MutexIsReleased == g_mutex # None ~> g_mutex = None
================================================================================
