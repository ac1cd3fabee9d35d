----------------------------- MODULE BatchEquations -----------------------------
(***************************************************************************)
(* What a batch on the CPU stands or falls by (src/cpu/src/                *)
(* batch_verify.cpp): schnorr_batch_verify() adds its equations up, each   *)
(* with a random weight, in scratch arrays that a thread keeps between     *)
(* batches, and asks if the sum is infinity; ecdsa_batch_verify() inverts  *)
(* all S with one inversion and compares X coordinates row by row.  What   *)
(* the pool is asked in module BatchVerify is answered here.               *)
(*                                                                         *)
(* One thread is modelled: what the calls share is thread-local.  A chunk  *)
(* of schnorr_batch_verify_mt() is a call of one of these threads.  Hashes *)
(* and digests are any numbers.  The x coordinate of a Schnorr entry       *)
(* stands as its point with an even Y, and as 0 when it is on no point;    *)
(* its s is not 0, which the strict parser refuses.                        *)
(***************************************************************************)
EXTENDS SmallGroup

CONSTANTS
  SchnorrEntries,     (* records [r, s, key, e]; e is the challenge        *)
  EcdsaEntries,       (* records [r, s, key, z]; z is the message hash     *)
  Digests,            (* what the hash of seed and index may be            *)
  XCoordinate, FieldOrder,
                      (* X of each point with an even Y, in the field      *)
  MaxBatch, SchnorrCutoff, EcdsaCutoff,
  PoolSize, MinRowsPerThread, StealFloor, StealCeiling

(* The x coordinates an entry may have, as the points they lift to.        *)
XOnly == {0} \cup {P \in NonZero : HasEvenY(P)}

ASSUME BatchEquationsAssumption ==
  /\ SchnorrEntries \subseteq [r : XOnly, s : NonZero, key : XOnly, e : Scalar]
  /\ EcdsaEntries \subseteq [r : Scalar, s : Scalar, key : Scalar, z : Scalar]
  /\ Digests \subseteq Nat
  /\ {MaxBatch, SchnorrCutoff, EcdsaCutoff, PoolSize, MinRowsPerThread, StealCeiling} \subseteq Nat
  /\ FieldOrder \in Order..(2 * Order)
  /\ XCoordinate \in Injection(XOnly \ {0}, 0..(FieldOrder - 1))
  /\ StealFloor \in 1..StealCeiling /\ MinRowsPerThread > 0 /\ PoolSize > 0

VARIABLES
  scratch,        (* scalars[i] * points[i] of schnorr_batch_scratch()     *)
  schnorrCall,    (* the last Schnorr batch with its digests and verdict   *)
  rows, ecdsaCall (* the ECDSA entries of the caller, and the policy and   *)
                  (* verdict of its last call                              *)

equationVars == <<scratch, schnorrCall, rows, ecdsaCall>>

EquationsInit ==
  /\ scratch = <<>>
  /\ schnorrCall = [entries |-> <<>>, digests |-> <<>>, verdict |-> FALSE]
  /\ rows \in UNION {[1..n -> EcdsaEntries] : n \in 0..MaxBatch}
  /\ ecdsaCall = [policy |-> "not called", verdict |-> FALSE]

-----------------------------------------------------------------------------
(* Schnorr.                                                                *)

SchnorrVerifies(en) == en.key # 0 /\ SchnorrVerify(en.s, en.r, en.key, en.e)

SchnorrIdentifyInvalid(entries) == {i \in DOMAIN entries : ~SchnorrVerifies(entries[i])}

(* Broken variant: a digest that reduces to 0 is not replaced.             *)
BatchWeightOfDigest(digest) == digest % Order

BatchWeight(digest) == IF digest % Order = 0 THEN 1 ELSE digest % Order

(* The rows the loop completes: it returns at the first that does not lift *)
(* and leaves what it has written.                                         *)
Prepared(entries) == {i \in DOMAIN entries : \A j \in 1..i : entries[j].r # 0 /\ entries[j].key # 0}

(* The scratch only grows; a new slot is 0 times infinity.                 *)
Written(entries, weights) ==
  LET n == Len(entries)
      done == Prepared(entries)
      slot(i) == IF i \in done THEN Neg(Times(Times(weights[i], entries[i].e), entries[i].key))
                 ELSE IF i - n \in done THEN Neg(Times(weights[i - n], entries[i - n].r))
                 ELSE IF i \in DOMAIN scratch THEN scratch[i] ELSE 0
  IN  [i \in 1..Max({Len(scratch), 2 * n}) |-> slot(i)]

(* (sum of a_i s_i) G - sum of a_i e_i P_i - sum of a_i R_i is infinity,   *)
(* of the slots that are this batch's.                                     *)
EquationHolds(entries, weights, slots) ==
  /\ Prepared(entries) = DOMAIN entries
  /\ LET g_coeff == Sum([i \in DOMAIN entries |-> Times(weights[i], entries[i].s)])
         rest == Sum(SubSeq(slots, 1, 2 * Len(entries)))
     IN  Plus(g_coeff, rest) = 0

Individually(n) == n <= SchnorrCutoff

(* A small batch takes its rows one by one; none at all is refused.        *)
SchnorrVerifyEach(entries) ==
  /\ schnorrCall' = [entries |-> entries, digests |-> <<>>,
                     verdict |-> entries # <<>> /\ SchnorrIdentifyInvalid(entries) = {}]
  /\ UNCHANGED <<scratch, rows, ecdsaCall>>

SchnorrBatchVerify(entries, digests) ==
  LET weights == [i \in DOMAIN entries |-> BatchWeight(digests[i])]
      slots == Written(entries, weights)
  IN  /\ schnorrCall' = [entries |-> entries, digests |-> digests,
                         verdict |-> EquationHolds(entries, weights, slots)]
      /\ scratch' = slots
      /\ UNCHANGED <<rows, ecdsaCall>>

-----------------------------------------------------------------------------
(* ECDSA.                                                                  *)

LowS(s) == s <= Order \div 2

(* The r of the point, by comparing in the field; it may have wrapped.     *)
CheckXCoordinate(R, r) ==
  R # 0 /\ LET x == XCoordinate[Even(R)] IN r = x \/ (r < FieldOrder - Order /\ r + Order = x)

EcdsaVerifies(en) ==
  /\ en.key # 0 /\ en.r # 0 /\ en.s # 0
  /\ LET w == Reciprocal(en.s)
     IN  CheckXCoordinate(Plus(Times(en.z, w), Times(Times(en.r, w), en.key)), en.r)

EcdsaIdentifyInvalid(entries) == {i \in DOMAIN entries : ~EcdsaVerifies(entries[i])}

PreValidated(en, policy) ==
  en.r # 0 /\ en.s # 0 /\ (policy = "RequireLowS" => LowS(en.s)) /\ en.key # 0

PrefixProducts(entries) ==
  LET p[i \in DOMAIN entries] == IF i = 1 THEN entries[1].s ELSE Times(p[i - 1], entries[i].s)
  IN  p

(* Broken variant: the last prefix is taken at every row.                  *)
InversesOfLastPrefix(entries) ==
  LET n == Len(entries)
      p == PrefixProducts(entries)
      inv[i \in DOMAIN entries] == IF i = n THEN Reciprocal(p[n]) ELSE Times(inv[i + 1], entries[i + 1].s)
  IN  [i \in DOMAIN entries |-> IF i = 1 THEN inv[1] ELSE Times(p[n - 1], inv[i])]

(* Montgomery's trick: inv is the inverse of the prefix product, walked    *)
(* back from the last row.                                                 *)
Inverses(entries) ==
  LET n == Len(entries)
      p == PrefixProducts(entries)
      inv[i \in DOMAIN entries] == IF i = n THEN Reciprocal(p[n]) ELSE Times(inv[i + 1], entries[i + 1].s)
  IN  [i \in DOMAIN entries |-> IF i = 1 THEN inv[1] ELSE Times(p[i - 1], inv[i])]

EcdsaBatch(entries, policy) ==
  /\ entries # <<>> /\ \A i \in DOMAIN entries : PreValidated(entries[i], policy)
  /\ IF Len(entries) <= EcdsaCutoff THEN EcdsaIdentifyInvalid(entries) = {}
     ELSE LET s_inv == Inverses(entries)
              R(i) == Plus(Times(entries[i].z, s_inv[i]),
                           Times(Times(entries[i].r, s_inv[i]), entries[i].key))
          IN  \A i \in DOMAIN entries : CheckXCoordinate(R(i), entries[i].r)

EcdsaVerdict(policy, verdict) ==
  /\ ecdsaCall' = [policy |-> policy, verdict |-> verdict]
  /\ UNCHANGED <<scratch, schnorrCall, rows>>

EcdsaBatchVerify == EcdsaVerdict("RequireLowS", EcdsaBatch(rows, "RequireLowS"))

(* The rows a thread claims at once: alone it claims `all` of them.  0     *)
(* threads are as many as the pool has.                                    *)
Steal(n, max_threads, all) ==
  LET want == IF max_threads = 0 THEN PoolSize ELSE Min({max_threads, PoolSize})
      n_threads == Min({want, Max({1, n \div MinRowsPerThread})})
  IN  IF n_threads <= 1 THEN all
      ELSE Min({StealCeiling, Max({StealFloor, n \div (n_threads * 4)})})

(* The pool verifies every piece, whoever runs it (module ParallelFor).    *)
EachPiece(policy, steal) ==
  \A i \in DOMAIN rows : (i - 1) % steal = 0 =>
    EcdsaBatch(SubSeq(rows, i, Min({i + steal - 1, Len(rows)})), policy)

EcdsaBatchVerifyMt(max_threads) ==
  EcdsaVerdict("RequireLowS",
    rows # <<>> /\ EachPiece("RequireLowS", Steal(Len(rows), max_threads, Len(rows))))

(* all_valid of verify_opaque_bounded(), for rows that parse; no rows are. *)
EcdsaOpaqueRun(max_threads) ==
  EcdsaVerdict("AcceptHighS",
    EachPiece("AcceptHighS", Steal(Len(rows), max_threads, Min({Len(rows), StealCeiling}))))

SchnorrBatchNext ==
  \E n \in 0..MaxBatch : \E entries \in [1..n -> SchnorrEntries] :
    IF Individually(n) THEN SchnorrVerifyEach(entries)
    ELSE \E digests \in [1..n -> Digests] : SchnorrBatchVerify(entries, digests)

EcdsaBatchNext ==
  \/ EcdsaBatchVerify
  \/ \E max_threads \in 0..(PoolSize + 1) :
       EcdsaBatchVerifyMt(max_threads) \/ EcdsaOpaqueRun(max_threads)

EquationsNext == SchnorrBatchNext \/ EcdsaBatchNext

EquationsSpec == EquationsInit /\ [][EquationsNext]_equationVars

-----------------------------------------------------------------------------
(* Whatever earlier batches left in the scratch, and whatever the digests: *)
(* a batch of valid signatures is accepted, so that a batch that failed    *)
(* has a row for schnorr_batch_identify_invalid() to name; a batch with    *)
(* one invalid signature is refused; and with several, each of them is let *)
(* through by at most one value of its weight, the others being what they  *)
(* are.                                                                    *)
SchnorrBatchSound ==
  LET c == schnorrCall
      invalid == SchnorrIdentifyInvalid(c.entries)
      weights == [i \in DOMAIN c.digests |-> BatchWeight(c.digests[i])]
      accepts(ws) == EquationHolds(c.entries, ws, Written(c.entries, ws))
      accepting(i) == {w \in NonZero : accepts([weights EXCEPT ![i] = w])}
  IN  c.entries # <<>> =>
        /\ invalid = {} => c.verdict
        /\ Cardinality(invalid) = 1 => ~c.verdict
        /\ \A i \in invalid : IF Individually(Len(c.entries)) THEN ~c.verdict
                              ELSE Cardinality(accepting(i)) <= 1

(* One inversion for all rows, and any split into pieces, give the verdict *)
(* of ecdsa_verify() on every row, with a low S where the policy asks for  *)
(* it.  So ecdsa_batch_identify_invalid() names a row of every batch that  *)
(* was refused, unless all that is wrong with it is a high S.              *)
EcdsaBatchAgrees ==
  ecdsaCall.policy # "not called" /\ rows # <<>> =>
    (ecdsaCall.verdict <=>
       /\ EcdsaIdentifyInvalid(rows) = {}
       /\ ecdsaCall.policy = "RequireLowS" => \A i \in DOMAIN rows : LowS(rows[i].s))
================================================================================
