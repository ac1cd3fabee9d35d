# UltrafastSecp256k1 in TLA+

A verification project for UltrafastSecp256k1, a C++ engine for the curve
secp256k1 with CPU and GPU back ends, a C ABI (`ufsecp_*`), and drop-in layers
for libsecp256k1 and libbitcoin.  Most of its code is arithmetic that test
vectors and differential tests check well.  What is modelled here is the code
around the arithmetic that no test vector reaches: threads, publication without
locks, files shared by processes, protocols of several rounds, nonces that must
not be used twice, and buffers that must fail closed.

Paths below are relative to the repository's source root (`src/cpu/...` is
`src/src/cpu/...` in `PROJECT.json`).  `PROJECT.json` maps every definition to
the lines it models, lists the hazards of the code with the properties that
would catch them, the runs, the theorems, the disagreements between code and
documentation, and for every property a bug that breaks it.

Contents: [1 inventory](#1-inventory), [2 plan](#2-plan),
[3 modules](#3-modules-and-how-they-correspond-to-the-code),
[4 runs](#4-runs-and-bounds), [5 fairness](#5-fairness),
[6 proofs](#6-what-is-proved), [7 model-checked only](#7-what-is-only-model-checked),
[8 findings](#8-findings), [9 not modelled](#9-what-is-not-modelled),
[10 use](#10-running-it).

## 1 Inventory

### Modelled

**Batch worker pool** (`src/cpu/include/secp256k1/detail/batch_pool.hpp`).
State: the fields of the one job (`fn_`, `n_`, `steal_`, `ok_`, `want_`), the
cursor `next_`, the count `pending_`, the generation `gen_`, `stop_`, three
mutexes, two condition variables.  Operations: `run`, `drain`, `worker_loop`,
the destructor.  Called by batch verification and the column verification of
the C ABI, from any number of threads.  Hard: `fn_` points into the caller's
stack frame, so a worker that is late by one step calls a function that is gone;
a wake-up between a predicate and a sleep is lost; a worker that a job leaves out
wakes up in the next one.  Correct when `run` returns after the last use of its
function, every piece is run once, the answer is that of a serial loop, every
call returns and the destructor ends.

**Fixed-base table context** (`src/cpu/src/precompute.cpp`).  State:
`g_mutex`, `g_config`, `g_context_owner`, `g_published_context`, and in each
thread `tl_context_owner`.  Operations: acquire, ensure, configure (three
forms), load, thread exit.  Every `k*G` acquires the context; a configuration
retires it.  Hard: the reader takes no lock and compares an address that may
have been reused.  Correct when a table in use is alive, a reader never gets a
table older than a configuration that had returned, and concurrent first uses
build one table.

**Table cache file** (`src/cpu/src/precompute.cpp`).  State: names and inodes of
a directory, a stream position and a buffer in each process.  Operations: load,
save (temporary file, rename), build, crash, exit, restart.  Processes interact
through the files only.  Hard: crashes, full disks, pids that come again, two
configurations on one path.  Correct when no process ever computes with a
partial table or another configuration's, and every process gets a table.

**BIP-324 session** (`src/cpu/src/bip324.cpp`, behind
`src/cpu/src/impl/ufsecp_coins.cpp`).  State per peer: private key, session
keys, two packet counters.  Operations: create, handshake, encrypt, decrypt.
Peers interact by packets.  Hard: the counters are the nonces, so one that
moves at the wrong time makes every later packet fail or repeats a nonce.
Correct when nonces are unique and a session opens what the peer sealed, in
order and without holes.

**MuSig2 shim** (`compat/libsecp256k1_shim/src/shim_musig.cpp`).  State: the
process-wide map `g_ka` from tokens to aggregation entries, and the caller's
opaque structs that hold tokens and nonces.  Operations: the calls of a signing
session, from any thread.  Hard: the entry is not in the session but looked up
in every call, and other calls tweak, remove and replace entries.  Correct when
a secret nonce goes into one signature, a struct resolves to its own entry, and
a session that keeps the order of calls ends with a valid signature.

**MuSig2 engine** (`src/cpu/src/musig2.cpp`).  No state of its own; it
transforms the entry's accumulators `Q`, `Q_negated`, `gacc`, `tacc`.  Hard: four
signs compose, and each wrong one shows for some keys only.

**Batch signing** (`src/cpu/src/impl/ufsecp_ecdsa.cpp`).  State of one call:
the output, the first error, the threads.  Operations: the calling thread's and
the workers' steps.  Hard: threads that fail, zero and sign at the same time; the
last chunk; a thread that cannot be started.  Correct when a batch is signed as
a whole or zeroed as a whole with one row's error.

**Batch verification and its GPU offload** (`src/cpu/src/batch_verify.cpp`,
`src/gpu/src/gpu_engine_hook.cpp`, `src/gpu/src/gpu_backend_cuda.cu`).  State: the
hook, the provider's mutex, its probe, and each call's rows and results.  It uses
the pool on the CPU path and the provider on the other.  Hard: a device that fails
after it has written some results, a hook that appears between two calls, the
last device chunk; one equation, or one inversion, that answers for many rows.
Correct when verdict and results are the truth on every path, and an invalid row
passes a Schnorr batch for at most one value of its weight.

**Comb generator table** (`src/cpu/src/ecmult_gen_comb.cpp`).  State: a context's
number of teeth, spacing and table; the process-wide context with its
`std::once_flag` and requested number of teeth.  Operations: init, multiply (two
ways), save, load, first use.  Hard: the teeth that reach past the scalar, a
cache file that is cut or changed, threads that race the first use with
different or refused numbers of teeth.  Correct when every context in use has
the table its number of teeth calls for, and multiplies.

**Process resources** (`src/cpu/src/process_resources.cpp`, the tables of
`src/cpu/src/point.cpp`, the end of `batch_pool.hpp`).  State: two atomic
pointers and their mutexes.  Operations: create on first use, use, release.
Callers use the tables directly, and the pool, whose workers use the tables.
Hard: the double check of the pointer, the order of the releases.  Correct when
each exists at most once, nothing is lost, and nobody uses what was deleted.

**FROST engine** (`src/cpu/src/frost.cpp`, with what the calls in
`src/cpu/src/impl/ufsecp_musig2.cpp` add).  State: each participant's polynomial
and key package.  Operations: begin and finalize key generation, sign, verify a
partial signature, aggregate.  Hard: shares and commitments that are repeated,
another's, damaged or missing, in any order; the signs of `R` and of the group
key.  Correct when those who succeed hold shares of one key, and every quorum
signs for it.

**Contexts and blinding** (`compat/libsecp256k1_shim/src/shim_context.cpp`,
`src/cpu/src/ct_point.cpp`, `src/cpu/src/impl/ufsecp_core.cpp`).  State: the
blinding of each thread, and each shim context's seed with the scalar cached
from it.  Operations: create, clone, destroy, randomize, a signing call's scope,
and the C ABI's randomization of a thread.  Hard: scopes nest, two layers share
one variable of the thread, and the cached scalar may be of another seed.
Correct when a product is never changed and a call blinds with its own context.

### Not modelled

| Component | State and operations | What is hard, and what would be correct | Reason |
|---|---|---|---|
| MuSig2 and adaptor calls of the C ABI (`ufsecp_musig2.cpp`) | nonces in callers' buffers | which exits consume a nonce; what a session blob binds | the guard that erases the nonce is one object in each call, so the exits are not separate paths; the registry of the shim, where they are, is modelled |
| Error codes and texts of a C ABI context (`ufsecp_core.cpp`) | one code per context, one text per thread | the text of a shared context is that of the calling thread | nothing depends on it |
| Public key caches (`schnorr.cpp`, `shim_ecdsa.cpp`) | thread-local direct-mapped slots | a slot is compared with the whole key and filled within one call of one thread | no interleaving or failure reaches it |
| Scalar recodings (`glv.cpp`, `multiscalar.cpp`, `pippenger.cpp`) | none | carries and the top digit | the bounds that make them right belong to 256-bit constants and do not scale down |
| Field and scalar arithmetic | none | carries, reductions, assembly variants | 256-bit limbs are out of TLC's reach; `audit/formal` holds Cryptol and Lean files |
| Signature schemes, zero-knowledge proofs, wallet formats, hashes and ciphers | none: single calls | arithmetic and encodings | decided by test vectors |
| GPU back ends | devices and kernels | drivers | what the engine relies on is part of `BatchVerify` |
| libbitcoin bridge, single calls of the shim | none | argument checks and conversions around one engine call | thin |

### How the components interact

```
 C ABI / shim / libbitcoin bridge
   |  sign_batch          |  columns, batches            |  musig, frost    |  bip324 calls
   v                      v                              v                  v
 BatchSign --output--> BatchVerify --hook--> provider   MusigShim          Bip324
   (own threads)          |  (CPU path)      (mutex,     |  accumulators     (two peers)
                          v                   device)    v
                      ParallelFor                       MusigTweak
                          ^ implemented by
                      BatchPool
 every k*G --> PrecomputeContext --build or load--> TableCacheFile (other processes)
 comb contexts --> CombTable (its own file)      every signature's k*G --> ContextBlinding
 batch calls, verifications --> ProcessResources (creates and releases the pool and tables)
 frost calls --> Frost          Bip324 implements Channel
```

## 2 Plan

The order is that of importance: first what every batch and every
multiplication goes through, then the protocols with nonces, then the buffers.

| Step | Modules | State |
|---|---|---|
| 1 | `ParallelFor` (abstract), `BatchPool` (implements it), `BatchPoolThrow` | done, proved |
| 2 | `PrecomputeContext` | done, proved |
| 3 | `TableCacheFile` | done, proved |
| 4 | `Channel` (abstract), `Bip324` (implements it) | done, proved |
| 5 | `MusigShim`, `MusigTweak` | done, proved |
| 6 | `BatchSign`, `BatchVerify`, composed in `BatchCalls` | done, proved |
| 7 | `SmallGroup`, `CombTable` | done, proved |
| 8 | `Frost` | done, proved |
| 9 | `ContextBlinding` | done, proved |
| 10 | `ProcessResources`, over the promise of `BatchPool` | done, proved |
| 11 | `BatchEquations`, what `BatchVerify` takes from its chunks | done, proved |
| 12 | `MCEngine`: the independent components of steps 4, 5 and 7 to 11 in one state space | done |

Abstract specifications: `ParallelFor`, implemented by `BatchPool`, and
`Channel`, implemented by `Bip324`.  A third one is worth stating: for the table
context, a register that holds the current configuration's table, with reads
that may return the table of any configuration since the read began
(`AcquisitionIsFresh` states it as an invariant).

Worth proving beyond what section 6 lists: that register.

## 3 Modules and how they correspond to the code

Conventions.  A step is what the code does between two points at which another
thread, process or peer can see or change anything: a section under a lock, one
atomic operation, one system call, one call of the interface.  Operators whose
comment begins "Broken variant" belong to no specification: each is a plausible
bug in the definition that follows it, and the property named with it in
`PROJECT.json` is violated when it takes that definition's place.  `ghost`
variables (`ran`, `builds`, `start`, `opened`, `psigs`, ...) record history for
the properties and guard nothing.

### `ParallelFor`, `BatchPool`, `BatchPoolThrow`

`ParallelFor` is the promise of `run()`: a call opens, each piece is run at most
once while it is open, it returns TRUE only when all were run and none rejected,
and FALSE only when a rejected one was run.

`BatchPool` is one pool object from the end of the constructor to the end of the
destructor.  The variables are the class's members plus, for each thread, its
place `pc`, the function reference `tfn` that `drain()` took, the piece `idx` and
the worker's local `seen`.

| Code | Actions |
|---|---|
| `run()`: serial path | `Call`, `SerialChunk`, `SerialReturn` |
| `run()`: posting a job | `LockJob`, `Post`, `NotifyAll` |
| `drain()` | `DrainEnter`, `DrainTestOk`, `DrainFetch`, `DrainExec` |
| `run()`: waiting and returning | `AwaitPred`, `AwaitBlock`, `Clear`, `Return` |
| `worker_loop()` | `Pred`, `Block`, the drain, `Dec`, `Signal` |
| destructor | `DtorStop`, `DtorNotify`, `DtorJoin` |
| the library's condition variables | `SpuriousWake` |

Evaluating a predicate and going to sleep are two steps with the mutex held
between them, which is what excludes lost wake-ups, so the mutexes are
variables and not merely the boundary of a step.  The range `[0, n)` appears as
its pieces of `steal_` rows.  The destructor starts only with nobody inside
`run()`, as the header's comment on release requires of its callers.

`BatchPoolThrow` adds one action: the chunk function throws in the caller's share.

### `PrecomputeContext`

A context is an address with the configuration and the version of the
configuration it was built for.  `g_context_owner` and each `tl_context_owner`
own it; what nobody owns is freed in the step that drops the last owner
(`FreeUnowned`), and its address may then be returned by the next `Allocate`.

| Code | Actions |
|---|---|
| `acquire_context()`, fast path | `LoadPublished`, `Compare` |
| its slow path | `Lock`, `EnsureReady`, `SetTls`, and `EndUse` after the caller's multiplication |
| `ensure_built_locked()` and what installs the result | `EnsureHave`, `EnsureBuild`, `EnsureThrow`, `StoreOwner`, `StorePublished` |
| `ensure_fixed_base_ready()`, `load_precompute_cache()` | `EnsureReady`, `LoadCache` |
| `configure_fixed_base()`, `configure_fixed_base_auto()`, the cache directory | `ConfigureFixedBase`, `ConfigureAuto`, `SetCacheDirectory`, the first two through `Apply`, then `Unlock` when the context is kept and `Retire`, `ResetOwner` when it is not |
| end of a thread | `ThreadExit` |
| `std::lock_guard`'s destructor, after exceptions as well | `Unlock` |

The owner and the published identity are two stores and hence two steps, in the
order of the code: owner before identity on publication, identity before owner
on retirement.

### `TableCacheFile`

A file is a short sequence of cells, the first standing for the header; a cell is the
shape of the table it came from, or a hole.  Names point to inodes, so a reader
keeps what it opened when the name moves on.

| Code | Actions |
|---|---|
| start, crash, `std::exit` with its cleanup | `Start`, `Crash`, `Exit` |
| `load_precompute_cache_locked()` | `LoadOpen`, `LoadHeader`, `LoadSize`, `LoadTruncated`, `LoadPoint`, `LoadDone` |
| `ensure_built_locked()` when there is nothing to load | `Build` |
| `save_precompute_cache_locked()` | `SaveOpen`, `SaveOpenFails`, `SaveWrite`, `SaveWritten`, `SaveError`, `SaveClose`, `SaveRename`, `SaveRenameFails` |

The initial directory holds any file cut at any point, which is what an older
version, a crash or a full disk may have left.  Every system call of the saving
path may fail.  That two live processes have different pids is part of `Start`
and therefore an assumption: it holds in one pid namespace, and containers that
share a cache volume do not have it (a hazard in `PROJECT.json` that no property
covers).

### `Channel`, `Bip324`

`Channel` is what two ends may rely on: each receives what the other sent, in
order, with nothing left out, repeated or invented.

| Code | Actions |
|---|---|
| `ufsecp_bip324_create`, failed or not | `Bip324Init` |
| `ufsecp_bip324_handshake`, `Bip324Session::complete_handshake` | `Handshake` |
| `ufsecp_bip324_encrypt`, with too little room or too large a payload | `Encrypt` |
| `ufsecp_bip324_decrypt`, `Bip324Cipher::decrypt` | `Decrypt`, and `Reject` for what does not authenticate |

The cryptography is ideal: a packet opens under exactly the key, the direction
and the counter it was sealed with, if it is intact.  `wire` keeps every packet
ever sealed, so delivery may lose, repeat and reorder; a damaged packet is
delivered with `intact = FALSE`.  A peer's handshake takes the other's encoding, a
third party's, or one for which ECDH fails.  `Sessions` maps the two peers to a
`Channel`: what a peer has sent is what it has sealed, by counter (`SealedBy`),
what it has received is what its session has opened.

### `SmallGroup`, `MusigShim`, `MusigTweak`

| Code (`shim_musig.cpp`) | Definitions |
|---|---|
| `secp256k1_musig_pubkey_agg` | `PubkeyAgg` |
| both `..._tweak_add` | `TweakAdd` |
| `..._keyagg_cache_clear` | `CacheClear` |
| `..._nonce_gen`, `..._nonce_process` | `NonceGen`, `NonceProcess` |
| `..._partial_sign` | `SignBegin` (looks the entry up, reads the nonce, zeroes it), `SignEnd` |
| `..._partial_sig_verify` | the predicate `PartialSigVerify`, used by `AggEnd` for what the caller has verified |
| `..._partial_sig_agg` | `AggLookup`, `AggReject`, `AggEnd` |

The two-step calls are those that go on with a snapshot of the entry after `g_mu`
is released.  A partial signature is the record of what went into it; whether
signatures made from equal values verify is `MusigTweak`'s business.  It works in
`SmallGroup`, the integers modulo a small prime with parity as the code uses it:
exactly one of `P` and `-P` has an even Y.  An entry is empty (`Q = 0`) until
`PubkeyAgg` has made it from the keys (`musig2_key_agg`, with the shim's refusal of
infinity), and is then tweaked.  Every choice of keys, coefficients, nonces and
challenge is enumerated, so every combination of signs occurs.

### `BatchSign`, `BatchVerify`, `BatchCalls`

| Code | Actions |
|---|---|
| `sign_batch()` entry: limits, serial or threads | `SignCall` |
| serial loop | `SerialRow`, `SerialEnd` |
| `batch_parallel()`: starting threads | `Spawn`, `SpawnEnd`, `SpawnFails` (`std::thread` throws: the process terminates) |
| the threads | `LoadError`, `SignRow`, `ZeroRest`, `Exit` |
| joining, the result, zeroing the output after an error | `Join` |
| `*_batch_verify_opaque_columns()` | `VerifyCall`, `VerifyRefused`, `LoadHook` |
| `engine_gpu_columns_hook()`, `gpu_columns_available()`, installing the hook | `LockAndProbe`, `AvailableQuery`, `InstallHook` |
| `verify_lbtc_columns()` of the device | `DeviceStart`, `DeviceChunk`, `DeviceFails`, `DeviceEnd` |
| `verify_opaque_bounded()` on the CPU | `PoolRun` (what `ParallelFor` promises, in one step), `Locate`, `LocateEnd` |

`BatchCalls` composes them: the output of a signing call, successful or not,
becomes the columns of concurrent verifications, as it is or with its last row
spoilt on the way, while the hook comes and goes.

### `CombTable`

| Code | Definitions |
|---|---|
| `build_table()`, `init()` | `BuiltTable`, `Context`, `InitContext` |
| `extract_comb_index()`, `mul()`, `mul_ct()` | `ExtractCombIndex`, `Mul`, `MulCt` |
| `save_cache()` | `SaveCache` |
| `load_cache()` | `HeaderAccepted`, `TableRead`, `CacheAccepted`, `LoadCache` |
| `init_comb_gen()`, `comb_gen_mul()` and the like | `InitCombGen`, `CombGenMul`, `DoInitComb`, `DoInitCombThrows`, `AlreadyDone`, `Multiplied` |
| what happens to a file on the disk | `Damage` |

The digest of a file is the entries it was computed from, so a changed entry is
noticed and a cut file has none.  `Damage` leaves the header alone: no digest
covers the spacing, and a file with another spacing loads.  The ghost `usable`
says that the last `init()` or `load_cache()` of the application's context
succeeded; `TableIsBuilt` and `CombIsMultiple` are about such contexts, finding 5
is about the others.

### `Frost`

| Code | Definitions |
|---|---|
| `frost_keygen_begin()` | `KeygenBegin`, `Share`, `Commitment`, `Horner` |
| `frost_keygen_finalize()` | `KeygenFinalize`, `DistinctSenders`, `Verified`, `Finalized`, `GroupKey` |
| Lagrange coefficients | `LagrangeCoefficient` |
| `frost_sign()`, `frost_verify_partial()`, `frost_aggregate()` | `FrostSign`, `FrostVerifyPartial`, `FrostAggregate`: operators, tried with every quorum, every nonce and every challenge |
| the transport | `SharesDelivered`, `CommitmentsDelivered` |

Key generation is a state machine, since what reaches one participant says
nothing about another.  Commitments are broadcast: one participant's list may be
short, repeat a record or be out of order, but two participants do not get
different commitments of one sender, which is the assumption FROST makes of its
broadcast.  All signers of a quorum are given one list of nonce commitments, so
that they agree on `R` and the challenge.

### `ContextBlinding`

| Code | Actions |
|---|---|
| `secp256k1_context_create`, `_clone`, `_destroy` | `Create`, `Clone`, `Destroy` |
| `secp256k1_context_randomize` with a seed, without | `Randomize`, `Unrandomize` |
| `ContextBlindingScope`, both ends | `OpenScope`, `CloseScope` |
| `ufsecp_context_randomize` with a seed, without | `UfsecpRandomize`, `UfsecpUnrandomize` |

A thread's variable `g_blinding` is per thread in the code and in the model.
Signing with a message of 32 bytes opens a second scope on the same context, so
scopes nest.  `installed` is a ghost: what the C ABI last installed on the thread
and no shim call has cleared since.  That any signing call of the shim clears it
is what the code does, and `BlindingNeutral` says so; a comment at the declaration
of `ufsecp_context_randomize` promises it for "subsequent signing calls", which
holds for a process that does not mix the two interfaces.

### `ProcessResources`

| Code | Actions |
|---|---|
| `batch_worker_pool()`, `get_dual_mul_gen_tables()` | `Load`, `Lock`, `Check`, `Build`, `Publish`, for either resource |
| a verification; a batch, with the pool's workers | `Enter`, `RunJob`, `WorkerTakes`, `UsedTables`, `RunReturns` |
| `release_process_resources()` | `Release`, then `Unpublish` and `Delete` for the pool and for the tables |

One worker stands for all of the pool's, and a job is what `ParallelFor` promises
of it: `run()` returns when the worker is done.  A release begins when nobody is in
the library, as the header demands, and calls wait for it; that its first half
joins the workers before the second frees the tables is the code's own order.

### `BatchEquations`

| Code | Definitions |
|---|---|
| `schnorr_batch_verify`, up to the cutoff, above it | `SchnorrVerifyEach`, `SchnorrBatchVerify` |
| `batch_weight`; the loop over the rows with its early returns; the sum | `BatchWeight`; `Prepared`, `Written`; `EquationHolds` |
| `ecdsa_batch_verify`, `ecdsa_batch_verify_mt` | `EcdsaBatchVerify`, `EcdsaBatchVerifyMt` |
| pre-validation, cutoff, batch inversion, comparison of X | `PreValidated`, `EcdsaBatch`, `Inverses`, `CheckXCoordinate` |
| the check of all rows in `verify_opaque_bounded` | `EcdsaOpaqueRun` |
| thread count and piece size | `Steal`, `EachPiece` |
| `*_batch_identify_invalid` | `SchnorrIdentifyInvalid`, `EcdsaIdentifyInvalid` |

Points are logarithms (`SmallGroup`).  `XCoordinate` gives each point an X in a
field that is larger than the group, so that one X wraps; an r of a Schnorr entry
that is on no point is 0.  The scratch arrays are a variable, since they outlive a
batch: a batch that meets a row it cannot lift leaves them half written, and the
next, smaller one must not see the rest.  The array of inverses outlives a call
too, but is resized and written whole before it is read, so it is no variable.
Entries with a cached key differ in that a null key is refused before the scratch
is touched.  What `PoolRun` of `BatchVerify` takes for granted, that the pieces say
yes exactly if every row is valid, is `EcdsaBatchAgrees` for the policy of the
columns; for Schnorr columns it holds up to the weights.

### `MCEngine`

Seven components that share no variable, each on its own instance, in one state
space: the first state chooses `part`, and the steps are those of that part while
the others keep their initial values.  The comb has two parts, its file and the
process-wide context, which share nothing either.  A property of one component
holds trivially in the states of the others, so what is checked is what separate
runs would check.

## 4 Runs and bounds

| Run | Module, cfg | Instance | Distinct states | Shows |
|---|---|---|---|---|
| `pool_safety` | `MCBatchPool`, `BatchPool_safety` | 2 callers, 2 background threads, one call each of 0 to 2 pieces, every width and every set of rejected pieces, 1 spurious wake-up | 3.1 million | lifetime of the function, each piece once, the answer, the destructor, `BatchPool` implements `ParallelFor` |
| `pool_live` | `MCBatchPool`, `BatchPool_live` | the same threads, a call for all workers and one that leaves a worker out and rejects a piece | 98 thousand | no lost wake-up: calls return, the destructor ends |
| `ctx` | `MCPrecomputeContext`, `PrecomputeContext` | 2 threads, 3 addresses, 2 shapes, 2 changes of the configuration | 870 thousand | lifetime, freshness, agreement, one build, the mutex is given up |
| `cache` | `MCTableCacheFile`, `TableCacheFile` | 3 processes (2 of one shape), 2 starts, 2 pids, 3 inodes, any initial file | 174 thousand | only whole tables are used and published, readers are undisturbed, every start gets a table |
| `musig` | `MCMusigShim`, `MusigShim` | 2 caches, 2 sessions, 2 signers, 2 aggregations, 2 nonces, 2 sessions, 1 tweak | 1.1 million | only members sign, nonces, own entries, aggregates verify |
| `engine` | `MCEngine`, `Engine` | see below | 268 thousand | everything of sections `Bip324`, `MusigTweak`, `CombTable`, `Frost`, `ContextBlinding`, `ProcessResources` and `BatchEquations` |
| `batch` | `MCBatchCalls`, `BatchCalls` | 0, 4 and 5 rows with a limit of 4, 1 and 3 threads, failing rows, 2 verifiers, device chunks of 3 rows | 256 thousand | all or nothing, true verdicts, round trip, calls end |
| `pool_throw` | `BatchPoolThrow` | 1 caller, 1 background thread | violation | finding 1 |
| `bip324_retry` | `Bip324`, `Bip324_retry` | as in `engine` | violation | finding 2 |
| `musig_orphans` | `MCMusigShim`, `MusigShim_orphans` | as `musig` | violation | finding 3 |
| `musig_miss` | `MCMusigShim`, `MusigShim_miss` | as `musig`, each signer a group | violation | finding 4 |
| `comb_load` | `CombTable`, `CombTable_load` | 1 caller, 2 or 3 teeth, scalars of 4 bits | violation | finding 5 |

The parts of `engine`:

| Part | Instance |
|---|---|
| `tweak` | group of order 7, 2 signers, all keys, coefficients, nonces and challenges, any list of tweaks |
| `frost` | group of order 7, 3 participants with threshold 2, four polynomials each, every order of delivery, any one record replaced or one missing; every quorum, nonce and challenge |
| `comb file` | scalars of 4 bits, 2 or 3 teeth, any one entry changed, any cut |
| `comb once` | 2 threads, 1 to 4 teeth requested, of which 2 and 3 are accepted |
| `blinding` | 2 contexts, 2 threads, seeds 0, 1, 3 and one past the order |
| `resources` | 3 threads, 1 worker, 2 releases |
| `batch schnorr` | up to 3 entries, valid, invalid or without a point, weights 1 and 3, cutoff 1 |
| `batch ecdsa` | up to 3 of nine entries, cutoff 1, 0 to 3 threads requested of 2, pieces of 2 |
| `bip324` | 2 peers, 3 packets each, every handshake, payloads that fit, do not fit and are too long |

Why these bounds are enough to meet the interesting cases:

- *Pool.*  Two callers make a second job follow the first while workers are
  still late for it.  Two background threads and widths up to three give jobs
  that leave a worker out, so one is seen by a worker of the next generation.
  Two pieces and three participants make somebody arrive at an exhausted cursor.
  One spurious wake-up suffices because a predicate that is evaluated once too
  often and holds its ground is back where it was.  Callers are interchangeable
  (`SYMMETRY`); background threads are not, since the width compares their ids.
  The live run has no symmetry.
- *Context.*  Three addresses are two that threads still own and one to reuse;
  two versions give a table that is two reconfigurations old.  Configurations
  differ in shape; the proofs cover any set of directories.
- *Cache.*  Two starts are two processes at once, of one shape or of two, or a
  process, its crash and its successor with the same pid.  Files of three and
  two cells can be cut inside the header, inside the table, and at its end, and
  are confused with one another if only their length is looked at.
- *BIP-324.*  Three packets are enough for replay, swap, and a loss between two
  packets that arrive.
- *MuSig2.*  Two of everything is what a confusion needs.  `MaxKaEntries = 2` is
  reached, so the refusal at the limit occurs.  In a group of order 7 every
  combination of parities has several witnesses; two signers give coefficients
  that differ.
- *FROST.*  Three participants with threshold 2: two quorums that overlap and the
  full set, so coefficients of each order occur.  The four polynomials give group
  keys of either parity, shares that are zero, and constant terms that cancel.
- *Comb.*  Four bits divide by two teeth and not by three, as 256 divides by 8
  and not by 15, so the topmost tooth reaches past the scalar.
- *Blinding.*  Two contexts on two threads, and a clone; a scope inside a scope.  The
  seed past the order is refused by the strict parser and reduced by the other.
- *Resources.*  Three threads: one that runs a job, one that waits for the pool, and
  one that races it for the tables.  Two releases give a third generation of objects.
- *Batches.*  Four rows on three threads: chunks of two, so the third thread is
  planned and never started, the case `SpawnEnd` exists for.  Rows 1 and 2 may
  fail, one in each chunk.  Five rows exceed the limit.  Device chunks of three
  leave a short last chunk, and a device may fail between the two.

- *Batch equations.*  With a cutoff of one, batches of two and of three take the
  long path, so a scratch of three rows is stale under a batch of two.  Weights 1
  and 3 of defect 1 cancel (1 + 3 + 3 = 7), so an accepted invalid batch occurs and
  `SchnorrBatchSound` has something to bound; digest 0 exercises the replacement
  of a zero weight.  A split into pieces of two leaves a short last piece.

All these bounds are constants, and the theorems hold for every value of them
(`MaxTweaks` and the like included).  `MayFail` and `Counts` bound what TLC
tries and are arbitrary in the proofs.  The assumptions of `BatchEquations` say what an
entry is: an x coordinate is that of a point with an even Y or of none (`XOnly`), an
ECDSA entry is of residues, and `s` of a Schnorr entry is not zero, as the strict
parser has it.

`CHECK_DEADLOCK FALSE` stands in the configurations of systems that may stop:
processes that have used up their starts (`cache`), components and sessions at the
bounds (`engine`, `musig`, `comb_load`), a signing process that `std::thread` has terminated
(`batch`).  The pool and the context are checked for deadlock; a pool that has
been destroyed stutters by an explicit action (`Gone`).

## 5 Fairness

| Module | Assumed | Because |
|---|---|---|
| `BatchPool` | weak fairness of each caller inside `run()`, each worker, and the destructor once it has begun | the scheduler runs threads that can run, and chunk functions return.  Nobody has to call, wake spuriously, or release the pool |
| `PrecomputeContext` | weak fairness of each thread's steps inside the library | as above.  `std::mutex` promises a waiter nothing, so no strong fairness: the property is that the mutex is given up, not that a given thread gets it |
| `TableCacheFile` | weak fairness of load, build and save in each process | system calls return.  A crash may always come instead |
| `Bip324` | weak fairness of delivery of some packet that opens | what is sent is sent again until it arrives: without it nothing can be promised over a lossy transport |
| `BatchCalls` | weak fairness of every thread, strong fairness of taking the device's mutex | verifications and availability queries free it again and again; a mutex that passes one waiter over for ever is excluded here, and only here |

## 6 What is proved

Every proof is checked by TLAPS to the last leaf, for all values of the
constants that satisfy the named assumption of the module: any number of
threads, processes, callers, pieces, rows, packets, tweaks, sizes.  Each follows
one pattern: `IInv` strengthens the safety properties to something inductive,
one lemma shows that an action keeps it (one step per conjunct), `Invariance`
puts them together, and the properties follow.  `IInv` was first checked by TLC on
the instances above.

**`BatchPool_proofs`** (`PoolAssumption`: ids and requests are what they are, at
least one worker).  `Invariance`, `TypeCorrect`, `NoDangling`, `EachPieceOnce`,
`SerialAnswer`, `PostsWhenQuiet`, `ReleasesWhenIdle`, and `KeepsPromise`, which
says that the pool implements `ParallelFor`.  The heart is `PendingInv`: `pending_`
is the number of threads still owed to the job, where a worker is owed if it has
not seen the generation yet or is at work in it.  "Has not seen" is what a property
of the states alone misses: a worker that sleeps through the whole job is counted,
so the job fields cannot be rewritten under it.  `HandedOut` and `Claimed` relate
the cursor to the pieces that ran, `Exhausted` says that the caller does not
leave the drain with pieces left, so that at zero owed everything is done.

**`PrecomputeContext_proofs`** (`ContextAssumption`).  `Invariance`,
`TypeCorrect`, `NeverFreedInUse`, `FreshTables`, `Agreement`, `OneBuild`.  The
difficulty is address reuse: `PubInv` says that the published identity, if a live
context has it, is no older than the last finished reconfiguration, although
another context may live there than the one that was published; `AcqInv` carries
this over the step between a thread's load and its comparison, because a thread
that owns an address keeps it from being reused.

**`TableCacheFile_proofs`** (`CacheAssumption`).  `Invariance`, `TypeCorrect`,
`TableIsWhole`, `NoTemporaryLeft`, `RenamesWhole`, `NobodyWritesWhatIsRead` (the
last two are properties of steps).  `Writer` ties a file being written to the one
process with that pid, `ReadInv` says that a file being read has no temporary
name, `NamesInv` that an inode has one name.  That no two live processes share a
pid is a conjunct of `TypeOK`, by `Start`.  `TypeOK` of these modules is proved, and is no
property of a run.

**`Bip324_proofs`** (`Bip324Assumption`, `NoneAssumption`).  `Invariance`,
`TypeCorrect`, `NonceNeverReused`, `CountersInStep`, `OpensWhatWasSealed`, and
`SessionsAreAChannel`: an encryption maps to a send, an opened packet to a receive
of the next payload, everything else to a stutter.  `AllSealed` says that a peer
has sealed a packet for every counter below its own, which makes `SealedBy` a
sequence.
`SealedInOrder` says that what a peer has sealed it sealed under the one key it
ever has, below its counter: this rests on a handshake that spends the private key.

**`MusigShim_proofs`** (`MusigShimAssumption`).  `Invariance`, `TypeCorrect`,
`SignersAreMembers`, `NonceNeverReused`, `ResolvesToItsOwn`,
`OrderlySessionsSucceed`.  `NoncePlace`
follows a nonce through struct, call in flight and signature; `SessionKept` and
`OneSession` say what a token that nobody misused keeps, whatever other sessions
do.

**`BatchCalls_proofs`** (`BatchSignAssumption`, `BatchVerifyAssumption`).
`Invariance`, `Types`, `SignedAsAWhole`, `VerdictsAreTrue`, `SignedThenVerified`.  `Tiled`
says that the started threads' chunks cover all rows below the next chunk, so that
joining those that were started (not those that were planned) covers the batch;
it needs that rounded-up chunks times threads reach the count (`RoundedUp`).
`SignedBehind` relates each thread's position to its rows while no error is
known.  `RowsDone` does the same for the device and the locate loop.

The second half is about `BatchEquations` (`BatchEquationsAssumption`):

- `SchnorrBatchIsSound`.  The invariant (`SchnorrIInv`) is about the last call: in a
  batch above the cutoff, its verdict is that all rows lift and that the *defects* of
  the rows, `s - r - e P` with their weights, add up to zero (`EquationOfDefects`).
  The stale terms that `scratch` holds beyond the batch do not enter: of the scratch
  the invariant says only that it is a sequence of scalars, so a batch that reads
  past its own terms would not be provable.  A row is valid exactly if its defect is
  zero (`DefectOfValid`), which gives acceptance of valid batches and refusal of one
  bad row; that of the weights of an invalid row at most one lets the batch through
  is that an invertible factor cancels (`TimesCancels`).
- `EcdsaBatchIsExact`.  `InversesAreReciprocals` is Montgomery's trick: walking the
  prefix products backwards gives the reciprocal of every `s`, for a batch of any
  length.  `EcdsaBatchIsItsRows` says that pre-validation, inversion and comparison
  together are `ecdsa_verify()` of each row; `PiecesAreTheRows` that the pieces of
  any split, the last one short, cover each row; `StealIsPositive` that the
  computed piece is never empty.

**`SmallGroup_proofs`** (`SmallGroupAssumption`, and in the second half those of
`MusigTweak` and `Frost`).  First the laws that this and the next module rest on:

- *Induction and folds.*  The induction theorems of the library take an operator
  as a parameter, which none of the provers here can instantiate.  So induction is
  stated over sets: `NumberInduction` has the set `H` of the numbers for which the claim
  holds in place of a predicate, `SetInduction` and `ElementInduction` the set of the
  subsets.  `RecursionExists` says that a function defined by recursion on the numbers
  exists, so that the `CHOOSE` behind a recursive definition has a value and this
  value satisfies the recursion.  `FoldsExists` and `FoldsTakeAny` do the same for the
  fold that is `MapThenFoldSet`, and show that the order in which it takes the elements
  is of no matter if the operation is associative and commutative.
- *Sums and products* over finite sets, modulo the order: any element may be taken
  out (`ModSumTakes`, `ProductOverTakes`), sums add, scale, negate, split, are renamed
  and exchanged (`ModSumPlus` to `ModSumExchanged`).
- *The field.*  `InverseExists`: the least non-zero multiple of `x` modulo the order
  is 1, since the remainder of `Order` by any other is a smaller one (`Order` has no
  divisor).  All else follows (`ReciprocalLaw`, `TimesCancels`, ...).
- *Signs.*  One of `P` and `-P` is even (`EvenIsEven`); signs move through sums and
  products (`SignMoves`, `TimesSign`).

Then what needs nothing else:

- The tweaked key (`MusigTweakAssumption`): `TweakedKeySigns`.  `TweakIInv` adds types to
  `KeyIsAccumulated`; that it is inductive is that taking the sign of the key away
  negates both accumulators (`SignTakenAway`).  `PartialVerifies` and `AggregateVerifies`
  are consequences of it for any signers, nonces and challenge.
- FROST (`FrostAssumption`): `FrostPackages`, `QuorumsInterpolate`, `QuorumsSign`.
  `FrostIInv` says that who has a package has the sum of all polynomials at its own
  identifier: what `DistinctSenders` and `Verified` let through is one share of each
  sender, the right one, in some order (`SharesTaken`, `CommitmentsTaken`,
  `SendersAreAll`).  `PolynomialInterpolates` is Lagrange's theorem for polynomials of
  a degree below the size of the quorum.  It is proved by induction on the quorum over
  the *moments* of its coefficients, the sums of `coefficient(i) * i^n`: the moment of
  `0` is 1 and the others below the size vanish (`MomentStep`, `MomentOfZero`,
  `MomentOfMore`; taking a participant out of the quorum divides its coefficients,
  `CoefficientRemoves`).  `Participants < Order` keeps identifiers apart; the code has
  at most 2^32 of them and an order of 256 bits.

**`Generator_proofs`** (`CombAssumption`, `BlindingAssumption`, `ResourcesAssumption`).

- The comb: `UsedTableIsBuilt`, `ContextsMultiply`.  `CombIInv`
  says of a file that its digest is a table that was built, or that the file has
  lost it: so what `CacheAccepted` lets through is a table that was built.
  `ContextMultiplies` says that such a table multiplies, for any width and number of
  teeth: entry `i` is the sum of the bases of the bits of `i` (`TableEntries`, by
  induction on `i`, which loses its lowest bit), the index of a row has the bits of
  `k` that the row reads (`IndexReadsTheRow`, where the bits past the top of the scalar
  are zeros that `k` has anyway), so the accumulator after row `b` is the sum over the
  teeth of what they read from row `b` on (`RestSteps`), and after row 0 it is `k`
  (`RestIsAll`), because the teeth reach the top (`SpacingCovers`).  Powers of two
  enter as numbers of subsets (`PowerIsSubsets`), the one form in which the library
  knows them.
- Blinding: `BlindingInvariance`,
  `BlindingChangesNoProduct`, `ScopesUseTheirContext`.  `BlindingNeutral` is not
  inductive: a scope installs what its context has cached.  `CacheInv` says that a
  cached scalar that is marked valid is what the context's own seed reduces to
  (`Randomize` must drop it, `Clone` may keep it), `PairInv` that a thread's
  blinding is a scalar with its own point.  That the two cancel is arithmetic
  modulo the order (`PointCancels`).
- Process resources: `ResourcesInvariant`,
  `ResourcesStayAlive`, `ResourcesAreSingle`.  `HeldInv` relates what an actor
  holds to the pointer, `LiveInv` finds each live object at the pointer or with
  the one actor that publishes or deletes it, `AloneInv` says that a thread that
  releases is alone with the worker, and `JobInv` that a job's worker has a caller
  who waits for it.

## 7 What is only model-checked

Every invariant and every property of steps that a run checks is also proved.  What
remains to TLC is liveness under fairness, which is out of the prover's reach, as
is `ENABLED`: `EveryCallReturns`, `ReleaseEnds`, `MutexIsReleased`, `GetsTable`,
`EverythingOpens`, `EveryCallEnds`.

The proofs are about the models.  That the group is the integers modulo a prime,
with points as their logarithms, is true of secp256k1 up to the names of the points;
that an X coordinate determines a point up to its sign, and that exactly one sign is
even, are the facts of the curve that `SmallGroup` and `BatchEquationsAssumption` state.

## 8 Findings

1. `pool_throw`: if the chunk function throws in the caller's share of the work,
   `run()` leaves without waiting, and workers go on calling a function of a dead
   stack frame (`batch_pool.hpp:82`); the header says "Blocks until complete."
   The chunk functions can throw: they grow scratch vectors.
2. `bip324_retry`: `ufsecp_bip324_decrypt` looks at the caller's buffer after the
   packet has been opened and counted, and then drops the payload
   (`ufsecp_coins.cpp:570`).  The error model's documentation says of
   `BUF_TOO_SMALL` that the caller should fix the input and retry.
3. `musig_orphans`: aggregating on a struct that was used before adds an entry and
   leaves the old one without an owner (`shim_musig.cpp:187`); the documentation
   says that the address' reuse replaces it.  Abandoned sessions fill the map, and
   then every aggregation of the process fails.
4. `musig_miss`: `partial_sig_agg` of a session whose entry is gone goes on as if
   nothing had been tweaked and returns 1 (`shim_musig.cpp:779`); the
   documentation says that it returns 0.
5. `comb_load`: `CombGenContext::load_cache()` sets the number of teeth before it
   reads the table, and a file it then refuses leaves the context with that number
   and an empty or half-read table (`ecmult_gen_comb.cpp:270` and `:283`).  `ready()`,
   declared with "Is context initialized?", answers true, and `mul()`, which asks
   `ready()` before it throws "not initialized", reads past the table.

Four remarks of documentation that no run is about.  `docs/THREAD_SAFETY.md:31` lets
`secp256k1_context_randomize` activate blinding on the calling thread; it stores a
seed, and signing activates it.  A comment in `frost_sign` (`frost.cpp:497`) trusts
that aggregation rejects a zero partial signature; `frost_aggregate` does not look,
the call of the C ABI does.  The comment at `gpu_engine_hook.cpp:125` says that an
availability query never blocks on the device; it waits for the mutex a
verification holds throughout its device call.  `batch_verify.hpp` says of
`ecdsa_batch_identify_invalid` "After a batch fails, identify which signature(s) are
invalid"; `ecdsa_batch_verify` refuses a high S, which the identification accepts, so
a batch may fail without a row being named (`EcdsaBatchAgrees` says that this is the
only such case).

## 9 What is not modelled

The table of section 1 names the components left out.  Inside the modelled ones:

- Memory order.  Atomics are sequentially consistent in the models.  The code
  uses acquire and release where a value is published; the relaxed loads of
  `batch_parallel()` and `drain()` may be late, which the models allow where it
  matters (`LoadError` may miss an error that another thread has just stored).
- `progress_callback` of a table build runs under `g_mutex`; a callback that calls
  the library again would block on its own thread.  No callback is modelled.
- Argument checks of the C ABI that refuse a call before it changes anything, except
  where a buffer is cleared on the way.
- Row-layout batch verification and the device kernels; the device computes the right
  results or fails.  The multi-scalar multiplication under a Schnorr batch is a sum.
- Hashing, nonce derivation and encodings of MuSig2, FROST and BIP-324.  In FROST
  this includes which list of commitments a nonce is bound to, and that a nonce is
  used once, which the guard in `ufsecp_frost_sign` sees to.
- Two participants of a FROST key generation who were sent different commitments by
  one dealer: the code leaves consistent broadcast to its caller.
- The header of a comb cache file that is changed on the disk.
- The dealers' own erasures of secrets.
- The exact size check of a cache file is a lower bound in the code and in the
  model (`MinSize`); the bytes of a point are one cell.

## 10 Running it

In this directory, with TLC, the community modules and TLAPS installed:

    tlc -workers 2 -config BatchPool_safety.cfg MCBatchPool
    tlapm BatchPool_proofs.tla

Every passing run ends in less than five minutes on two cores (`pool_safety` and `engine` take
three, the others at most two); every proof module in about two.
