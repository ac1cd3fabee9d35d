------------------------------- MODULE MusigTweak -------------------------------
(***************************************************************************)
(* The arithmetic of a tweaked MuSig2 key (BIP-327): what the shim's       *)
(* pubkey_ec_tweak_add() and pubkey_xonly_tweak_add() do to a key          *)
(* aggregation entry (compat/libsecp256k1_shim/src/shim_musig.cpp), and    *)
(* what signing, partial verification and aggregation                      *)
(* (src/cpu/src/musig2.cpp) make of it.                                    *)
(*                                                                         *)
(* Hashes (coefficients, challenge, nonce coefficient) are any scalars of  *)
(* SmallGroup.  Parity is what makes tweaks hard: every sign of Q, of the  *)
(* tweaked Q and of R occurs here.                                         *)
(***************************************************************************)
EXTENDS SmallGroup

CONSTANT Signers

ASSUME MusigTweakAssumption == IsFiniteSet(Signers)

VARIABLES d, coef,                 (* the secret keys and a_i              *)
          Q, Q_negated, gacc, tacc (* the entry's MuSig2KeyAggCtx; Q is 0  *)
                                   (* until there is an entry              *)

tweakVars == <<d, coef, Q, Q_negated, gacc, tacc>>

(* The aggregate of the untweaked keys.                                    *)
Aggregate == Sum([i \in Signers |-> Times(coef[i], d[i])])

TweakInit ==
  /\ d \in [Signers -> NonZero] /\ coef \in [Signers -> NonZero]
  /\ Q = 0 /\ Q_negated = FALSE
  /\ gacc = 1 /\ tacc = 0

HasEntry == Q # 0

(* The aggregate with its real parity.                                     *)
Actual == IF Q_negated THEN Neg(Q) ELSE Q

Store(A) == Q' = Even(A) /\ Q_negated' = ~HasEvenY(A)

(* musig2_key_agg() stores the aggregate with an even Y; pubkey_agg()      *)
(* refuses infinity.                                                       *)
PubkeyAgg ==
  /\ ~HasEntry
  /\ Aggregate # 0
  /\ Store(Aggregate)
  /\ UNCHANGED <<d, coef, gacc, tacc>>

EcTweakAdd(t) ==
  LET A == Plus(Actual, t) IN
  /\ HasEntry
  /\ A # 0
  /\ tacc' = Plus(tacc, t)
  /\ Store(A)
  /\ UNCHANGED <<d, coef, gacc>>

(* Broken variant: the tweak so far keeps its sign.                        *)
XonlyTweakAddKeepsSign(t) ==
  LET A == Plus(Q, t) IN
  /\ HasEntry
  /\ A # 0
  /\ gacc' = IF Q_negated THEN Neg(gacc) ELSE gacc
  /\ tacc' = Plus(tacc, t)
  /\ Store(A)
  /\ UNCHANGED <<d, coef>>

(* The tweak goes to the even-Y aggregate.                                 *)
XonlyTweakAdd(t) ==
  LET A == Plus(Q, t) IN
  /\ HasEntry
  /\ A # 0
  /\ gacc' = IF Q_negated THEN Neg(gacc) ELSE gacc
  /\ tacc' = Plus(IF Q_negated THEN Neg(tacc) ELSE tacc, t)
  /\ Store(A)
  /\ UNCHANGED <<d, coef>>

TweakNext == PubkeyAgg \/ \E t \in Scalar : EcTweakAdd(t) \/ XonlyTweakAdd(t)

TweakSpec == TweakInit /\ [][TweakNext]_tweakVars

-----------------------------------------------------------------------------
(* Signing with the entry as it is.  k is the effective nonce of a signer, *)
(* k1 + b*k2, and R the sum of all: it is negated to have an even Y.       *)

PartialSign(i, k, R, e) ==
  LET kk == IF HasEvenY(R) THEN k ELSE Neg(k)
      dd == Times(IF Q_negated THEN Neg(d[i]) ELSE d[i], gacc)
  IN  Plus(kk, Times(Times(e, coef[i]), dd))

(* partial_verify() knows the signer's key without its sign.               *)
PartialVerify(i, s, k, R, e) ==
  LET kk == IF HasEvenY(R) THEN k ELSE Neg(k)
      ea == Times(IF Q_negated THEN Neg(Times(e, coef[i])) ELSE Times(e, coef[i]), gacc)
      eaP == Times(ea, Even(d[i]))
  IN  s = Plus(kk, eaP) \/ s = Plus(kk, Neg(eaP))

(* tweak_s = e * g * tacc.                                                 *)
TweakTerm(e) == Times(e, IF Q_negated THEN Neg(tacc) ELSE tacc)

PartialSigAgg(psigs, e) == Plus(Sum(psigs), TweakTerm(e))

-----------------------------------------------------------------------------
(* The tweaked key is the one the accumulators describe, and is finite:    *)
(* Q = gacc * (sum of a_i P_i) + tacc G, up to the sign Q_negated records. *)
KeyIsAccumulated ==
  /\ Q \in NonZero /\ HasEvenY(Q)
  /\ gacc \in {1, Order - 1} /\ tacc \in Scalar
  /\ Actual = Plus(Times(gacc, Aggregate), tacc)

(* Every partial signature verifies, and their aggregate verifies under    *)
(* the tweaked key, for every nonce and every challenge.                   *)
SignaturesVerify ==
  \A k \in [Signers -> Scalar], e \in NonZero :
    LET R == Sum(k)
        psigs == [i \in Signers |-> PartialSign(i, k[i], R, e)]
    IN  R # 0 => /\ \A i \in Signers : PartialVerify(i, psigs[i], k[i], R, e)
                 /\ SchnorrVerify(PartialSigAgg(psigs, e), R, Actual, e)

(* Whatever the parities of the aggregate, its tweaks and the nonce: the   *)
(* entry is the key its accumulators describe, and what is signed with it  *)
(* verifies (test_bip327_tweak_sign.cpp tries four lists of tweaks).       *)
TweakedSignaturesVerify == HasEntry => KeyIsAccumulated /\ SignaturesVerify
================================================================================
