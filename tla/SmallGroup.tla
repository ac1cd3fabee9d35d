------------------------------- MODULE SmallGroup -------------------------------
(***************************************************************************)
(* The curve as the protocols see it: a group of prime order, here a small *)
(* one.  A point is its discrete logarithm, so infinity is 0, addition of  *)
(* points is that of scalars, and a multiple is a product.  Exactly one of *)
(* P and -P has an even Y.                                                 *)
(***************************************************************************)
EXTENDS Integers, Sequences, FiniteSets, FiniteSetsExt, Functions

CONSTANT Order   (* an odd prime *)

ASSUME SmallGroupAssumption ==
  Order \in Nat /\ Order > 2 /\ \A p \in 2..(Order - 1) : Order % p # 0

Scalar == 0..(Order - 1)
NonZero == 1..(Order - 1)

Neg(x) == (Order - x) % Order
Times(x, y) == (x * y) % Order
Plus(x, y) == (x + y) % Order
Minus(x, y) == (x + Order - (y % Order)) % Order
Reciprocal(x) == CHOOSE y \in NonZero : Times(x, y) = 1

Sum(f) == MapThenSumSet(LAMBDA i : f[i], DOMAIN f) % Order
Product(f) == FoldFunction(Times, 1, f)

HasEvenY(P) == P # 0 /\ P <= Order \div 2
Even(P) == IF HasEvenY(P) THEN P ELSE Neg(P)

(* BIP-340 verification of (R, s) under the x-only key of point P: R is    *)
(* finite, and s G = R + e P with even Y on both.                          *)
SchnorrVerify(s, R, P, e) == R # 0 /\ s = Plus(Even(R), Times(e, Even(P)))
================================================================================
