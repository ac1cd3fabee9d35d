-------------------------- MODULE SmallGroup_proofs ---------------------------
(***************************************************************************)
(* The laws of the small group, and the two schemes that rest on nothing   *)
(* else. For any odd prime order: induction and folds over finite sets in  *)
(* the form the other proofs use; the integers modulo the order are a      *)
(* field, whose sums and products over finite sets may be taken in any     *)
(* order; and the signs that an even Y takes.                              *)
(*                                                                         *)
(* For any signers, coefficients, nonces, challenges and tweaks: what is   *)
(* signed with a tweaked MuSig2 key verifies. For any threshold, number    *)
(* of participants and polynomials: every quorum of FROST participants     *)
(* interpolates the group secret and signs under the group key.            *)
(***************************************************************************)
EXTENDS MusigTweak, Frost, FiniteSetTheorems, WellFoundedInduction, SequenceTheorems, TLAPS

(***************************************************************************)
(* Laws: numbers, folds, sums, the field and the signs.                    *)
(***************************************************************************)

(* The least-number principle, with a set in place of a predicate.         *)
LEMMA LeastNumber ==
  ASSUME NEW T, T \subseteq Nat, T # {}
  PROVE  \E m \in T : \A k \in T : m <= k
<1> DEFINE R == OpToRel(<, Nat)
<1>1. IsWellFoundedOn(R, Nat)
  BY NatLessThanWellFounded
<1>2. \A x, y \in Nat : x < y => <<x, y>> \in R
  BY SMT DEF OpToRel
<1> HIDE DEF R
<1>3. PICK m \in T : \A y \in T : ~(<<y, m>> \in R)
  BY <1>1, WFMin
<1>4. \A y \in T : ~(y < m)
  BY <1>2, <1>3
<1>5. \A k \in T : m <= k
  <2> TAKE k \in T
  <2>1. k \in Nat /\ m \in Nat /\ ~(k < m)
    BY <1>4
  <2> QED  BY <2>1, SMT
<1> QED  BY <1>5

(* Induction: H is the set of the numbers for which the claim holds.       *)
LEMMA NumberInduction ==
  ASSUME NEW H, 0 \in H, \A n \in Nat : n \in H => n + 1 \in H
  PROVE  \A n \in Nat : n \in H
<1> DEFINE T == {n \in Nat : n \notin H}
<1> SUFFICES ASSUME T # {} PROVE FALSE
  OBVIOUS
<1>1. PICK m \in T : \A k \in T : m <= k
  BY LeastNumber
<1>2. m \in Nat /\ m # 0
  OBVIOUS
<1>3. m - 1 \in Nat /\ ~(m <= m - 1) /\ (m - 1) + 1 = m
  BY <1>2, SMT
<1>4. m - 1 \in H
  BY <1>1, <1>3
<1> QED  BY <1>1, <1>3, <1>4

(* Induction over the subsets of a finite set.                             *)
LEMMA SetInduction ==
  ASSUME NEW S, IsFiniteSet(S), NEW H,
         \A T \in SUBSET S : (\A U \in SUBSET T : U # T => U \in H) => T \in H
  PROVE  S \in H
<1> DEFINE B == {T \in SUBSET S : T \notin H}
           R == StrictSubsetOrdering(S)
           F == FiniteSubsetsOf(S)
<1> SUFFICES ASSUME B # {} PROVE FALSE
  OBVIOUS
<1>1. IsWellFoundedOn(R, F)
  BY FS_StrictSubsetOrderingWellFounded
<1>2. F = SUBSET S
  BY FS_FiniteSubsetsOfFinite
<1>3. \A U, T \in SUBSET S : U \subseteq T /\ U # T => <<U, T>> \in R
  BY DEF StrictSubsetOrdering
<1>4. B \subseteq F
  BY <1>2
<1> HIDE DEF R, F
<1>5. PICK T \in B : \A U \in B : ~(<<U, T>> \in R)
  <2> HIDE DEF B
  <2> QED  BY <1>1, <1>4, WFMin
<1>6. \A U \in SUBSET T : U \in SUBSET S /\ T \in SUBSET S
  OBVIOUS
<1>7. ASSUME NEW U \in SUBSET T, U # T
      PROVE  U \in H
  <2>1. <<U, T>> \in R
    BY <1>3, <1>6, <1>7
  <2>2. U \notin B
    BY <1>5, <2>1
  <2> QED  BY <1>6, <2>2
<1> QED  BY <1>7

(* The same, one element at a time.                                        *)
LEMMA ElementInduction ==
  ASSUME NEW S, IsFiniteSet(S), NEW H, {} \in H,
         \A T \in SUBSET S : \A x \in T : T \ {x} \in H => T \in H
  PROVE  S \in H
<1>1. ASSUME NEW T \in SUBSET S, \A U \in SUBSET T : U # T => U \in H
      PROVE  T \in H
  <2>1. CASE T # {}
    <3>1. PICK x \in T : TRUE
      BY <2>1
    <3>2. T \ {x} \in SUBSET T /\ T \ {x} # T
      OBVIOUS
    <3> QED  BY <1>1, <3>2
  <2> QED  BY <2>1
<1> QED  BY <1>1, SetInduction

(* Folds over the subsets of a set, from which MapThenFoldSet() takes the  *)
(* elements in the order of CHOOSE.                                        *)
Pick(s) == CHOOSE x \in s : TRUE

Folds(g, S, V, base, step) ==
  /\ g \in [SUBSET S -> V]
  /\ \A s \in SUBSET S : g[s] = IF s = {} THEN base ELSE step[<<Pick(s), g[s \ {Pick(s)}]>>]

LEMMA PickIsMember == ASSUME NEW s, s # {} PROVE Pick(s) \in s
BY DEF Pick

(* Two folds agree on every set that both know.                            *)
LEMMA FoldsAgree ==
  ASSUME NEW S, NEW T, NEW V, NEW base, NEW step, NEW g, NEW h,
         Folds(g, S, V, base, step), Folds(h, T, V, base, step),
         NEW R, IsFiniteSet(R), R \subseteq S, R \subseteq T
  PROVE  g[R] = h[R]
<1> DEFINE H == {s \in SUBSET R : g[s] = h[s]}
<1>1. ASSUME NEW s \in SUBSET R, \A U \in SUBSET s : U # s => U \in H
      PROVE  s \in H
  <2>1. s \in SUBSET S /\ s \in SUBSET T
    OBVIOUS
  <2>2. CASE s = {}
    BY <2>1, <2>2 DEF Folds
  <2>3. CASE s # {}
    <3>1. s \ {Pick(s)} \in SUBSET s /\ s \ {Pick(s)} # s
      BY <2>3, PickIsMember
    <3>2. g[s \ {Pick(s)}] = h[s \ {Pick(s)}]
      BY <1>1, <3>1
    <3> QED  BY <2>1, <2>3, <3>2 DEF Folds
  <2> QED  BY <2>2, <2>3
<1>2. R \in H
  <2> HIDE DEF H
  <2> QED  BY <1>1, SetInduction
<1> QED  BY <1>2

LEMMA FoldsOfSubset ==
  ASSUME NEW S, NEW V, NEW base, NEW step, NEW g, Folds(g, S, V, base, step), NEW T \in SUBSET S
  PROVE  Folds([s \in SUBSET T |-> g[s]], T, V, base, step)
<1> DEFINE h == [s \in SUBSET T |-> g[s]]
<1>1. h \in [SUBSET T -> V]
  BY DEF Folds
<1>2. ASSUME NEW s \in SUBSET T
      PROVE  h[s] = IF s = {} THEN base ELSE step[<<Pick(s), h[s \ {Pick(s)}]>>]
  <2>1. s \in SUBSET S /\ s \ {Pick(s)} \in SUBSET T
    OBVIOUS
  <2>2. h[s] = g[s] /\ h[s \ {Pick(s)}] = g[s \ {Pick(s)}]
    BY <2>1
  <2> HIDE DEF h
  <2> QED  BY <2>1, <2>2 DEF Folds
<1> HIDE DEF h
<1>3. Folds(h, T, V, base, step)
  BY <1>1, <1>2 DEF Folds
<1> QED  BY <1>3 DEF h

LEMMA FoldsExists ==
  ASSUME NEW S, IsFiniteSet(S), NEW V, NEW base \in V, NEW step \in [S \X V -> V]
  PROVE  \E g : Folds(g, S, V, base, step)
<1> DEFINE H == {T \in SUBSET S : \E g : Folds(g, T, V, base, step)}
<1>1. ASSUME NEW T \in SUBSET S, \A U \in SUBSET T : U # T => U \in H
      PROVE  T \in H
  <2> DEFINE G(s) == CHOOSE g : Folds(g, s, V, base, step)
             a == Pick(T)
             top == IF T = {} THEN base ELSE step[<<a, G(T \ {a})[T \ {a}]>>]
             h == [s \in SUBSET T |-> IF s = T THEN top ELSE G(s)[s]]
  <2>1. ASSUME NEW s \in SUBSET T, s # T
        PROVE  Folds(G(s), s, V, base, step)
    BY <1>1, <2>1
  <2>2. ASSUME NEW s \in SUBSET T, s # T
        PROVE  G(s)[s] \in V
    BY <2>1, <2>2 DEF Folds
  <2>3. ASSUME T # {}
        PROVE  a \in T /\ T \ {a} \in SUBSET T /\ T \ {a} # T
    BY <2>3, PickIsMember
  <2>4. top \in V
    <3>1. CASE T = {}
      BY <3>1
    <3>2. CASE T # {}
      <4>1. a \in S /\ G(T \ {a})[T \ {a}] \in V
        BY <2>2, <2>3, <3>2
      <4> HIDE DEF a, G
      <4> QED  BY <3>2, <4>1
    <3> QED  BY <3>1, <3>2
  <2>5. h \in [SUBSET T -> V]
    <3> HIDE DEF top, G
    <3> QED  BY <2>2, <2>4
  <2>6. ASSUME NEW s \in SUBSET T
        PROVE  h[s] = IF s = {} THEN base ELSE step[<<Pick(s), h[s \ {Pick(s)}]>>]
    <3>1. CASE s = T
      <4>1. CASE T = {}
        BY <3>1, <4>1
      <4>2. CASE T # {}
        <5>1. h[T] = step[<<a, G(T \ {a})[T \ {a}]>>]
          BY <4>2
        <5>2. h[T \ {a}] = G(T \ {a})[T \ {a}]
          BY <2>3, <4>2
        <5> QED  BY <3>1, <4>2, <5>1, <5>2
      <4> QED  BY <4>1, <4>2
    <3>2. CASE s # T
      <4>1. h[s] = G(s)[s] /\ Folds(G(s), s, V, base, step)
        BY <2>1, <3>2
      <4>2. CASE s = {}
        BY <4>1, <4>2 DEF Folds
      <4>3. CASE s # {}
        <5> DEFINE u == s \ {Pick(s)}
        <5>1. Pick(s) \in s
          BY <4>3, PickIsMember
        <5>2. u \in SUBSET T /\ u # T /\ u \in SUBSET s
          BY <5>1
        <5>3. h[u] = G(u)[u] /\ Folds(G(u), u, V, base, step)
          BY <2>1, <5>2
        <5>4. IsFiniteSet(u)
          BY <5>2, FS_Subset
        <5> HIDE DEF h, G, u
        <5>5. G(s)[u] = G(u)[u]
          BY <4>1, <5>2, <5>3, <5>4, FoldsAgree
        <5>6. G(s)[s] = step[<<Pick(s), G(s)[u]>>]
          BY <4>1, <4>3 DEF Folds, u
        <5> QED  BY <4>1, <4>3, <5>3, <5>5, <5>6 DEF u
      <4> QED  BY <4>2, <4>3
    <3> QED  BY <3>1, <3>2
  <2> HIDE DEF h
  <2>7. Folds(h, T, V, base, step)
    BY <2>5, <2>6 DEF Folds
  <2> QED  BY <2>7
<1>2. S \in H
  <2> HIDE DEF H
  <2> QED  BY <1>1, SetInduction
<1> QED  BY <1>2

(* If the order of two steps does not matter, any element may be taken     *)
(* first.                                                                  *)
LEMMA FoldsTakeAny ==
  ASSUME NEW S, IsFiniteSet(S), NEW V, NEW base, NEW step, NEW g, Folds(g, S, V, base, step),
         \A x, y \in S, v \in V : step[<<x, step[<<y, v>>]>>] = step[<<y, step[<<x, v>>]>>]
  PROVE  \A T \in SUBSET S : \A x \in T : g[T] = step[<<x, g[T \ {x}]>>]
<1> DEFINE H == {T \in SUBSET S : \A x \in T : g[T] = step[<<x, g[T \ {x}]>>]}
<1>1. ASSUME NEW T \in SUBSET S, \A U \in SUBSET T : U # T => U \in H
      PROVE  T \in H
  <2> SUFFICES ASSUME NEW x \in T PROVE g[T] = step[<<x, g[T \ {x}]>>]
    OBVIOUS
  <2> DEFINE p == Pick(T)
             TT == (T \ {p}) \ {x}
  <2>1. p \in T
    BY PickIsMember
  <2>2. g[T] = step[<<p, g[T \ {p}]>>]
    BY DEF Folds
  <2>3. CASE x = p
    BY <2>2, <2>3
  <2>4. CASE x # p
    <3>1. T \ {p} \in SUBSET T /\ T \ {p} # T /\ x \in T \ {p}
      BY <2>1, <2>4
    <3>2. T \ {x} \in SUBSET T /\ T \ {x} # T /\ p \in T \ {x}
      BY <2>1, <2>4
    <3>3. TT = (T \ {x}) \ {p} /\ TT \in SUBSET S
      OBVIOUS
    <3>4. g[TT] \in V
      BY <3>3 DEF Folds
    <3> HIDE DEF p
    <3>5. g[T \ {p}] = step[<<x, g[TT]>>]
      BY <1>1, <3>1
    <3>6. g[T \ {x}] = step[<<p, g[TT]>>]
      BY <1>1, <3>2, <3>3
    <3>7. step[<<p, step[<<x, g[TT]>>]>>] = step[<<x, step[<<p, g[TT]>>]>>]
      BY <2>1, <3>4
    <3> QED  BY <2>2, <3>5, <3>6, <3>7
  <2> QED  BY <2>3, <2>4
<1>2. \A T \in SUBSET S : T \in H
  <2> TAKE T \in SUBSET S
  <2>1. IsFiniteSet(T)
    BY FS_Subset
  <2>2. \A W \in SUBSET T : (\A U \in SUBSET W : U # W => U \in H) => W \in H
    BY <1>1
  <2> HIDE DEF H
  <2> QED  BY <2>1, <2>2, SetInduction
<1> QED  BY <1>2

-----------------------------------------------------------------------------
(* Sums.                                                                   *)

SumOver(f, S) == MapThenSumSet(LAMBDA i : f[i], S)

SumStep(f, S) == [p \in S \X Int |-> f[p[1]] + p[2]]

LEMMA SumOverFolds ==
  ASSUME NEW S, IsFiniteSet(S), NEW f, \A i \in S : f[i] \in Int
  PROVE  \E g : Folds(g, S, Int, 0, SumStep(f, S)) /\ SumOver(f, S) = g[S]
<1> DEFINE step == SumStep(f, S)
           E(g) == g = [s \in SUBSET S |-> IF s = {} THEN 0 ELSE f[Pick(s)] + g[s \ {Pick(s)}]]
           iter == CHOOSE g : E(g)
<1>1. step \in [S \X Int -> Int]
  BY DEF SumStep
<1>2. PICK g : Folds(g, S, Int, 0, step)
  <2>1. 0 \in Int
    OBVIOUS
  <2> HIDE DEF step
  <2> QED  BY <1>1, <2>1, FoldsExists
<1>3. ASSUME NEW s \in SUBSET S, s # {}
      PROVE  step[<<Pick(s), g[s \ {Pick(s)}]>>] = f[Pick(s)] + g[s \ {Pick(s)}]
  <2>1. Pick(s) \in S /\ s \ {Pick(s)} \in SUBSET S
    BY <1>3, PickIsMember
  <2>2. g[s \ {Pick(s)}] \in Int
    BY <1>2, <2>1 DEF Folds
  <2> QED  BY <2>1, <2>2 DEF SumStep
<1>4. E(g)
  BY <1>2, <1>3 DEF Folds
<1>5. E(iter)
  BY <1>4, Zenon
<1>6. SumOver(f, S) = iter[S]
  BY Zenon DEF SumOver, MapThenSumSet, MapThenFoldSet, Pick
<1>7. iter[S] = g[S]
  <2> DEFINE H == {T \in SUBSET S : iter[T] = g[T]}
  <2>1. ASSUME NEW T \in SUBSET S, \A U \in SUBSET T : U # T => U \in H
        PROVE  T \in H
    <3>1. CASE T = {}
      BY <1>4, <1>5, <3>1
    <3>2. CASE T # {}
      <4>1. T \ {Pick(T)} \in SUBSET T /\ T \ {Pick(T)} # T
        BY <3>2, PickIsMember
      <4>2. iter[T \ {Pick(T)}] = g[T \ {Pick(T)}]
        BY <2>1, <4>1
      <4>3. iter[T] = f[Pick(T)] + iter[T \ {Pick(T)}] /\ g[T] = f[Pick(T)] + g[T \ {Pick(T)}]
        <5> HIDE DEF iter
        <5> QED  BY <1>4, <1>5, <3>2
      <4> HIDE DEF iter
      <4> QED  BY <4>2, <4>3
    <3> QED  BY <3>1, <3>2
  <2>2. S \in H
    <3> HIDE DEF H
    <3> QED  BY <2>1, SetInduction
  <2> QED  BY <2>2
<1> HIDE DEF iter, E
<1> QED  BY <1>2, <1>6, <1>7

(* What a sum is: it starts at 0, and any element may be taken out.        *)
LEMMA SumOverNothing == ASSUME NEW f PROVE SumOver(f, {}) = 0
<1>1. IsFiniteSet({})
  BY FS_EmptySet
<1>2. PICK g : Folds(g, {}, Int, 0, SumStep(f, {})) /\ SumOver(f, {}) = g[{}]
  BY <1>1, SumOverFolds
<1> QED  BY <1>2 DEF Folds

LEMMA SumOverTakes ==
  ASSUME NEW S, IsFiniteSet(S), NEW f, \A i \in S : f[i] \in Int
  PROVE  /\ SumOver(f, S) \in Int
         /\ \A x \in S : SumOver(f, S) = f[x] + SumOver(f, S \ {x})
<1> DEFINE step == SumStep(f, S)
<1>1. PICK g : Folds(g, S, Int, 0, step) /\ SumOver(f, S) = g[S]
  BY SumOverFolds
<1>2. \A x \in S, v \in Int : step[<<x, v>>] = f[x] + v
  BY DEF SumStep
<1>3. \A x, y \in S, v \in Int : step[<<x, step[<<y, v>>]>>] = step[<<y, step[<<x, v>>]>>]
  <2> TAKE x, y \in S, v \in Int
  <2>1. f[x] \in Int /\ f[y] \in Int /\ f[x] + v \in Int /\ f[y] + v \in Int
    OBVIOUS
  <2> HIDE DEF step
  <2>2. step[<<x, step[<<y, v>>]>>] = f[x] + (f[y] + v) /\ step[<<y, step[<<x, v>>]>>] = f[y] + (f[x] + v)
    BY <1>2, <2>1
  <2> QED  BY <2>1, <2>2
<1>4. ASSUME NEW x \in S
      PROVE  SumOver(f, S) = f[x] + SumOver(f, S \ {x})
  <2> DEFINE T == S \ {x}
  <2>1. T \in SUBSET S /\ IsFiniteSet(T) /\ T \subseteq S /\ \A i \in T : f[i] \in Int
    BY FS_Subset
  <2> HIDE DEF step
  <2>2. g[S] = step[<<x, g[T]>>]
    BY <1>1, <1>3, FoldsTakeAny
  <2>3. g[T] \in Int
    BY <1>1, <2>1 DEF Folds
  <2>4. g[S] = f[x] + g[T]
    BY <1>2, <2>2, <2>3
  <2> HIDE DEF T
  <2>5. PICK h : Folds(h, T, Int, 0, SumStep(f, T)) /\ SumOver(f, T) = h[T]
    BY <2>1, SumOverFolds
  <2>6. h[T] = g[T]
    <3> DEFINE H == {W \in SUBSET T : h[W] = g[W]}
    <3>1. ASSUME NEW W \in SUBSET T, \A U \in SUBSET W : U # W => U \in H
          PROVE  W \in H
      <4>1. CASE W = {}
        BY <1>1, <2>1, <2>5, <4>1 DEF Folds
      <4>2. CASE W # {}
        <5> DEFINE p == Pick(W)
                   U == W \ {p}
        <5>1. p \in W /\ U \in SUBSET W /\ U # W
          BY <4>2, PickIsMember
        <5>2. h[U] = g[U]
          BY <3>1, <5>1
        <5>3. h[W] = SumStep(f, T)[<<p, h[U]>>] /\ g[W] = step[<<p, g[U]>>] /\ h[U] \in Int
          BY <1>1, <2>1, <2>5, <4>2, <5>1 DEF Folds
        <5>4. p \in T /\ p \in S
          BY <2>1, <5>1
        <5> HIDE DEF p, U
        <5>5. SumStep(f, T)[<<p, h[U]>>] = f[p] + h[U]
          BY <5>3, <5>4 DEF SumStep
        <5>6. step[<<p, g[U]>>] = f[p] + g[U]
          BY <1>2, <5>2, <5>3, <5>4
        <5> QED  BY <5>2, <5>3, <5>5, <5>6
      <4> QED  BY <4>1, <4>2
    <3>2. T \in H
      <4> HIDE DEF H
      <4> QED  BY <2>1, <3>1, SetInduction
    <3> QED  BY <3>2
  <2> QED  BY <1>1, <2>4, <2>5, <2>6 DEF T
<1>5. SumOver(f, S) \in Int
  BY <1>1 DEF Folds
<1> QED  BY <1>4, <1>5

-----------------------------------------------------------------------------
(* Residues modulo Order: the laws of a commutative ring.                  *)

LEMMA OrderType == Order \in Nat /\ Order > 2
BY SmallGroupAssumption

(* The quotient and the remainder determine a number.                      *)
LEMMA ModUnique ==
  ASSUME NEW x \in Int, NEW q \in Int, NEW N \in Nat, N > 0, NEW r \in Int, 0 <= r, r < N, x = N * q + r
  PROVE  x % N = r
BY SMT

LEMMA Quotient ==
  ASSUME NEW a \in Int, NEW N \in Nat, N > 0
  PROVE  a % N \in 0..(N - 1) /\ \E q \in Int : a = N * q + (a % N)
<1>1. a \div N \in Int /\ a % N \in Int /\ a = N * (a \div N) + (a % N) /\ 0 <= a % N /\ a % N < N
  BY SMT
<1> QED  BY <1>1, SMT

LEMMA OrderQuotient ==
  ASSUME NEW a \in Int
  PROVE  a % Order \in 0..(Order - 1) /\ \E q \in Int : a = Order * q + (a % Order)
<1>1. Order \in Nat /\ Order > 0
  BY OrderType, SMT
<1> QED  BY <1>1, Quotient

LEMMA ModIsScalar == ASSUME NEW a \in Int PROVE a % Order \in Scalar
BY OrderQuotient DEF Scalar

LEMMA ZeroAndOne == 0 \in Scalar /\ 1 \in Scalar /\ 1 \in NonZero /\ 0 \notin NonZero
BY OrderType, SMT DEF Scalar, NonZero

LEMMA ScalarType == \A x \in Scalar : x \in Int /\ x \in Nat /\ 0 <= x /\ x < Order
BY OrderType, SMT DEF Scalar

LEMMA ModOfScalar == ASSUME NEW x \in Scalar PROVE x % Order = x
<1>1. x = Order * 0 + x
  BY OrderType, ScalarType, SMT
<1> QED  BY <1>1, OrderType, ScalarType, ModUnique

LEMMA ModEqual ==
  ASSUME NEW a \in Int, NEW b \in Int, NEW q \in Int, a = b + Order * q
  PROVE  a % Order = b % Order
<1>1. PICK u \in Int : b = Order * u + (b % Order)
  BY OrderQuotient
<1> DEFINE r == b % Order
<1>2. r \in Int /\ 0 <= r /\ r < Order
  BY ModIsScalar, ScalarType
<1>3. b = Order * u + r
  BY <1>1
<1> HIDE DEF r
<1>4. u + q \in Int /\ a = Order * (u + q) + r
  BY <1>2, <1>3, OrderType, SMT
<1>5. a % Order = r
  BY <1>2, <1>4, OrderType, ModUnique
<1> QED  BY <1>5 DEF r

LEMMA PlusOfMods ==
  ASSUME NEW a \in Int, NEW b \in Int
  PROVE  Plus(a % Order, b % Order) = (a + b) % Order
<1> DEFINE ra == a % Order
           rb == b % Order
<1>1. PICK u \in Int : a = Order * u + ra
  BY OrderQuotient
<1>2. PICK v \in Int : b = Order * v + rb
  BY OrderQuotient
<1>3. ra \in Int /\ rb \in Int
  BY ModIsScalar, ScalarType
<1> HIDE DEF ra, rb
<1>4. a + b \in Int /\ ra + rb \in Int /\ u + v \in Int /\ a + b = (ra + rb) + Order * (u + v)
  BY <1>1, <1>2, <1>3, OrderType, SMT
<1>5. (a + b) % Order = (ra + rb) % Order
  BY <1>4, ModEqual
<1> QED  BY <1>5 DEF Plus, ra, rb

LEMMA TimesOfMods ==
  ASSUME NEW a \in Int, NEW b \in Int
  PROVE  Times(a % Order, b % Order) = (a * b) % Order
<1> DEFINE ra == a % Order
           rb == b % Order
<1>1. PICK u \in Int : a = Order * u + ra
  BY OrderQuotient
<1>2. PICK v \in Int : b = Order * v + rb
  BY OrderQuotient
<1>3. ra \in Int /\ rb \in Int
  BY ModIsScalar, ScalarType
<1> HIDE DEF ra, rb
<1> DEFINE w == Order * u * v + u * rb + v * ra
<1>4. a * b = (ra * rb) + Order * w
  <2>1. a * b = (Order * u + ra) * (Order * v + rb)
    BY <1>1, <1>2
  <2> QED  BY <2>1, <1>3, OrderType, SMT
<1>5. a * b \in Int /\ ra * rb \in Int /\ w \in Int
  BY <1>3, OrderType, SMT
<1> HIDE DEF w
<1>6. (a * b) % Order = (ra * rb) % Order
  BY <1>4, <1>5, ModEqual
<1> QED  BY <1>6 DEF Times, ra, rb

LEMMA NegOfMod ==
  ASSUME NEW a \in Int
  PROVE  Neg(a % Order) = (-a) % Order
<1> DEFINE ra == a % Order
<1>1. PICK u \in Int : a = Order * u + ra
  BY OrderQuotient
<1>2. ra \in Int
  BY ModIsScalar, ScalarType
<1> HIDE DEF ra
<1>3. -a \in Int /\ Order - ra \in Int /\ (-u) - 1 \in Int /\ -a = (Order - ra) + Order * ((-u) - 1)
  BY <1>1, <1>2, OrderType, SMT
<1>4. (-a) % Order = (Order - ra) % Order
  BY <1>3, ModEqual
<1> QED  BY <1>4 DEF Neg, ra

LEMMA PlusLaws ==
  ASSUME NEW x \in Scalar, NEW y \in Scalar
  PROVE  /\ Plus(x, y) \in Scalar
         /\ Plus(x, y) = Plus(y, x)
         /\ Plus(x, 0) = x /\ Plus(0, x) = x
         /\ Neg(x) \in Scalar /\ Plus(x, Neg(x)) = 0 /\ Neg(Neg(x)) = x /\ Neg(0) = 0
         /\ Neg(Plus(x, y)) = Plus(Neg(x), Neg(y))
         /\ 0 \in Scalar /\ 1 \in Scalar
<1>1. x \in Int /\ y \in Int /\ x % Order = x /\ y % Order = y
  BY ScalarType, ModOfScalar
<1>2. x + y \in Int /\ x + y = y + x /\ x + 0 = x /\ 0 + x = x /\ Order - x \in Int /\ -x \in Int
      /\ 0 \in Int /\ Order - 0 \in Int
  BY <1>1, OrderType, SMT
<1>3. Plus(x, y) \in Scalar /\ Neg(x) \in Scalar
  BY <1>2, ModIsScalar DEF Plus, Neg
<1>4. Plus(x, y) = Plus(y, x) /\ Plus(x, 0) = x /\ Plus(0, x) = x
  BY <1>1, <1>2 DEF Plus
<1>5. 0 \in Scalar /\ 1 \in Scalar
  BY OrderType, SMT DEF Scalar
<1>6. Neg(x) = (-x) % Order /\ Neg(y) = (-y) % Order
  BY <1>1, NegOfMod
<1>7. Plus(x, Neg(x)) = 0
  <2>1. Plus(x, Neg(x)) = (x + (-x)) % Order
    BY <1>1, <1>2, <1>6, PlusOfMods
  <2>2. x + (-x) = 0
    BY <1>1, SMT
  <2> QED  BY <2>1, <2>2, <1>5, ModOfScalar
<1>8. Neg(Neg(x)) = x
  <2>1. Neg(Neg(x)) = (-(-x)) % Order
    BY <1>2, <1>6, NegOfMod
  <2>2. -(-x) = x
    BY <1>1, SMT
  <2> QED  BY <2>1, <2>2, <1>1
<1>9. Neg(Plus(x, y)) = Plus(Neg(x), Neg(y))
  <2>1. Neg(Plus(x, y)) = (-(x + y)) % Order
    BY <1>2, NegOfMod DEF Plus
  <2>2. Plus(Neg(x), Neg(y)) = ((-x) + (-y)) % Order
    <3>1. -x \in Int /\ -y \in Int
      BY <1>1
    <3> QED  BY <1>6, <3>1, PlusOfMods
  <2>3. -(x + y) = (-x) + (-y)
    BY <1>1, SMT
  <2> QED  BY <2>1, <2>2, <2>3
<1>10. Neg(0) = 0
  <2>1. Neg(0) = Order % Order
    BY OrderType DEF Neg
  <2>2. Order = Order * 1 + 0
    BY OrderType
  <2> QED  BY <2>1, <2>2, OrderType, ModUnique
<1> QED  BY <1>3, <1>4, <1>5, <1>7, <1>8, <1>9, <1>10

LEMMA PlusAssociates ==
  ASSUME NEW x \in Scalar, NEW y \in Scalar, NEW z \in Scalar
  PROVE  Plus(Plus(x, y), z) = Plus(x, Plus(y, z))
<1>1. x \in Int /\ y \in Int /\ z \in Int /\ x % Order = x /\ z % Order = z
  BY ScalarType, ModOfScalar
<1>2. x + y \in Int /\ y + z \in Int /\ (x + y) + z = x + (y + z)
  BY <1>1, SMT
<1>3. Plus(Plus(x, y), z) = ((x + y) + z) % Order
  BY <1>1, <1>2, PlusOfMods DEF Plus
<1>4. Plus(x, Plus(y, z)) = (x + (y + z)) % Order
  BY <1>1, <1>2, PlusOfMods DEF Plus
<1> QED  BY <1>2, <1>3, <1>4

LEMMA PlusSwaps ==
  ASSUME NEW x \in Scalar, NEW y \in Scalar, NEW u \in Scalar, NEW v \in Scalar
  PROVE  Plus(Plus(x, y), Plus(u, v)) = Plus(Plus(x, u), Plus(y, v))
<1>1. /\ Plus(x, y) \in Scalar /\ Plus(u, v) \in Scalar /\ Plus(y, v) \in Scalar
      /\ Plus(u, Plus(y, v)) \in Scalar /\ Plus(y, u) = Plus(u, y)
  BY PlusLaws
<1>2. Plus(Plus(x, y), Plus(u, v)) = Plus(x, Plus(y, Plus(u, v)))
  BY <1>1, PlusAssociates
<1>3. Plus(y, Plus(u, v)) = Plus(Plus(y, u), v) /\ Plus(Plus(u, y), v) = Plus(u, Plus(y, v))
  BY PlusAssociates
<1>4. Plus(Plus(x, u), Plus(y, v)) = Plus(x, Plus(u, Plus(y, v)))
  BY <1>1, PlusAssociates
<1> QED  BY <1>1, <1>2, <1>3, <1>4

LEMMA TimesLaws ==
  ASSUME NEW x \in Scalar, NEW y \in Scalar
  PROVE  /\ Times(x, y) \in Scalar
         /\ Times(x, y) = Times(y, x)
         /\ Times(1, x) = x /\ Times(x, 1) = x
         /\ Times(0, x) = 0 /\ Times(x, 0) = 0
         /\ Times(Neg(x), y) = Neg(Times(x, y)) /\ Times(x, Neg(y)) = Neg(Times(x, y))
<1>1. x \in Int /\ y \in Int /\ x % Order = x /\ y % Order = y /\ 0 \in Scalar
  BY ScalarType, ModOfScalar, PlusLaws
<1>2. x * y \in Int /\ x * y = y * x /\ 1 * x = x /\ x * 1 = x /\ 0 * x = 0 /\ x * 0 = 0 /\ -x \in Int /\ -y \in Int
      /\ (-x) * y = -(x * y) /\ x * (-y) = -(x * y)
  BY <1>1, SMT
<1>3. Times(x, y) \in Scalar /\ Times(x, y) = Times(y, x)
  BY <1>2, ModIsScalar DEF Times
<1>4. Times(1, x) = x /\ Times(x, 1) = x
  BY <1>1, <1>2 DEF Times
<1>5. Times(0, x) = 0 /\ Times(x, 0) = 0
  BY <1>1, <1>2, ModOfScalar DEF Times
<1>6. Neg(x) = (-x) % Order /\ Neg(y) = (-y) % Order
  BY <1>1, NegOfMod
<1>7. Neg(Times(x, y)) = (-(x * y)) % Order
  BY <1>2, NegOfMod DEF Times
<1>8. Times(Neg(x), y) = ((-x) * y) % Order /\ Times(x, Neg(y)) = (x * (-y)) % Order
  BY <1>1, <1>2, <1>6, TimesOfMods
<1> QED  BY <1>2, <1>3, <1>4, <1>5, <1>7, <1>8

LEMMA TimesAssociates ==
  ASSUME NEW x \in Scalar, NEW y \in Scalar, NEW z \in Scalar
  PROVE  Times(Times(x, y), z) = Times(x, Times(y, z))
<1>1. x \in Int /\ y \in Int /\ z \in Int /\ x % Order = x /\ z % Order = z
  BY ScalarType, ModOfScalar
<1>2. x * y \in Int /\ y * z \in Int /\ (x * y) * z = x * (y * z)
  BY <1>1, SMT
<1>3. Times(Times(x, y), z) = ((x * y) * z) % Order
  BY <1>1, <1>2, TimesOfMods DEF Times
<1>4. Times(x, Times(y, z)) = (x * (y * z)) % Order
  BY <1>1, <1>2, TimesOfMods DEF Times
<1> QED  BY <1>2, <1>3, <1>4

LEMMA TimesDistributes ==
  ASSUME NEW x \in Scalar, NEW y \in Scalar, NEW z \in Scalar
  PROVE  /\ Times(x, Plus(y, z)) = Plus(Times(x, y), Times(x, z))
         /\ Times(Plus(y, z), x) = Plus(Times(y, x), Times(z, x))
<1>1. x \in Int /\ y \in Int /\ z \in Int /\ x % Order = x
  BY ScalarType, ModOfScalar
<1>2. x * y \in Int /\ x * z \in Int /\ y + z \in Int /\ x * (y + z) = x * y + x * z
  BY <1>1, SMT
<1>3. Times(x, Plus(y, z)) = (x * (y + z)) % Order
  BY <1>1, <1>2, TimesOfMods DEF Plus
<1>4. Plus(Times(x, y), Times(x, z)) = (x * y + x * z) % Order
  BY <1>2, PlusOfMods DEF Times
<1>5. Plus(y, z) \in Scalar /\ Times(x, Plus(y, z)) = Times(Plus(y, z), x)
      /\ Times(x, y) = Times(y, x) /\ Times(x, z) = Times(z, x)
  <2>1. Plus(y, z) \in Scalar
    BY PlusLaws
  <2> QED  BY <2>1, TimesLaws
<1> QED  BY <1>2, <1>3, <1>4, <1>5

-----------------------------------------------------------------------------
(* Order is prime: what is not 0 has an inverse.                           *)

LEMMA NonZeroType == \A x : x \in NonZero <=> x \in Scalar /\ x # 0
BY OrderType, SMT DEF NonZero, Scalar

LEMMA InverseExists ==
  ASSUME NEW x \in NonZero
  PROVE  \E y \in NonZero : Times(x, y) = 1
<1> DEFINE T == {m \in NonZero : \E y \in Scalar : Times(x, y) = m}
<1>1. x \in Scalar /\ 1 \in Scalar /\ Times(x, 1) = x
  BY NonZeroType, PlusLaws, TimesLaws
<1>2. T \subseteq Nat /\ x \in T
  <2>1. T \subseteq Nat
    BY NonZeroType, ScalarType
  <2> QED  BY <1>1, <2>1
<1>3. PICK m \in T : \A k \in T : m <= k
  <2> HIDE DEF T
  <2> QED  BY <1>2, LeastNumber
<1>4. PICK y \in Scalar : Times(x, y) = m
  OBVIOUS
<1>5. CASE m = 1
  <2>1. y # 0
    BY <1>1, <1>4, <1>5, TimesLaws
  <2> QED  BY <1>4, <1>5, <2>1, NonZeroType
<1>6. CASE m # 1
  <2>1. m \in Nat /\ m > 1 /\ m < Order /\ Order \in Nat
    BY <1>6, OrderType, SMT DEF NonZero
  <2>2. Order % m # 0
    BY <2>1, SmallGroupAssumption, SMT
  <2> DEFINE r == Order % m
             q == Order \div m
  <2>3. r \in Int /\ q \in Int /\ Order = m * q + r /\ 0 < r /\ r < m
    BY <2>1, <2>2, SMT
  <2> HIDE DEF r, q
  <2>4. 0 <= q /\ q < Order
    <3>1. ~(q < 0)
      <4> SUFFICES ASSUME q < 0 PROVE FALSE
        OBVIOUS
      <4>1. m * q <= m * (-1)
        BY <2>1, <2>3, SMT
      <4> QED  BY <2>1, <2>3, <4>1, SMT
    <3>2. q <= m * q
      BY <2>1, <2>3, <3>1, SMT
    <3> QED  BY <2>1, <2>3, <3>1, <3>2, SMT
  <2>5. q \in Scalar /\ r \in Scalar /\ r # 0 /\ m \in Scalar
    BY <2>1, <2>3, <2>4, SMT DEF Scalar
  <2>6. Neg(Times(q, m)) = r
    <3>1. q * m = Order - r /\ Order - r \in Scalar
      BY <2>1, <2>3, <2>5, SMT DEF Scalar
    <3>2. Times(q, m) = Order - r
      BY <3>1, ModOfScalar DEF Times
    <3>3. Neg(Order - r) = r % Order
      <4>1. Order - (Order - r) = r
        BY <2>1, <2>3, SMT
      <4> QED  BY <4>1 DEF Neg
    <3> QED  BY <2>5, <3>2, <3>3, ModOfScalar
  <2> DEFINE z == Neg(Times(q, y))
  <2>7. z \in Scalar
    BY <2>5, TimesLaws, PlusLaws
  <2>8. Times(x, z) = r
    <3>1. Times(x, z) = Neg(Times(x, Times(q, y)))
      BY <1>1, <2>5, TimesLaws
    <3>2. Times(x, Times(q, y)) = Times(q, Times(x, y))
      <4>1. Times(x, Times(q, y)) = Times(Times(x, q), y) /\ Times(q, Times(x, y)) = Times(Times(q, x), y)
        BY <1>1, <2>5, TimesAssociates
      <4> QED  BY <1>1, <2>5, <4>1, TimesLaws
    <3> QED  BY <1>4, <2>6, <3>1, <3>2
  <2>9. r \in T
    BY <2>5, <2>7, <2>8, NonZeroType
  <2>10. m <= r
    BY <1>3, <2>9
  <2> QED  BY <2>1, <2>3, <2>10, SMT
<1> QED  BY <1>5, <1>6

LEMMA ReciprocalLaw ==
  ASSUME NEW x \in NonZero
  PROVE  Reciprocal(x) \in NonZero /\ Times(x, Reciprocal(x)) = 1 /\ Times(Reciprocal(x), x) = 1
<1>1. Reciprocal(x) \in NonZero /\ Times(x, Reciprocal(x)) = 1
  BY InverseExists, Zenon DEF Reciprocal
<1> QED  BY <1>1, NonZeroType, TimesLaws

LEMMA TimesCancels ==
  ASSUME NEW x \in NonZero, NEW y \in Scalar, NEW z \in Scalar, Times(x, y) = Times(x, z)
  PROVE  y = z
<1> DEFINE w == Reciprocal(x)
<1>1. w \in Scalar /\ x \in Scalar /\ Times(w, x) = 1
  BY ReciprocalLaw, NonZeroType
<1> HIDE DEF w
<1>2. Times(w, Times(x, y)) = Times(1, y) /\ Times(w, Times(x, z)) = Times(1, z)
  BY <1>1, TimesAssociates
<1> QED  BY <1>2, TimesLaws

LEMMA NonZeroTimes ==
  ASSUME NEW x \in NonZero, NEW y \in NonZero
  PROVE  Times(x, y) \in NonZero
<1>1. x \in Scalar /\ y \in Scalar /\ 0 \in Scalar /\ y # 0
  BY NonZeroType, PlusLaws
<1>2. Times(x, y) # Times(x, 0)
  BY <1>1, TimesCancels
<1> QED  BY <1>1, <1>2, NonZeroType, TimesLaws

LEMMA PlusCancels ==
  ASSUME NEW x \in Scalar, NEW y \in Scalar, NEW z \in Scalar, Plus(x, y) = Plus(x, z)
  PROVE  y = z
<1>1. Neg(x) \in Scalar /\ Plus(Neg(x), x) = 0
  BY PlusLaws
<1>2. Plus(Neg(x), Plus(x, y)) = Plus(0, y) /\ Plus(Neg(x), Plus(x, z)) = Plus(0, z)
  BY <1>1, PlusAssociates
<1> QED  BY <1>2, PlusLaws

LEMMA MinusIsPlusNeg ==
  ASSUME NEW x \in Scalar, NEW y \in Scalar
  PROVE  /\ Minus(x, y) = Plus(x, Neg(y)) /\ Minus(x, y) \in Scalar
         /\ Minus(x, y) = 0 <=> x = y
<1>1. x \in Int /\ y \in Int /\ x % Order = x /\ y % Order = y /\ Order - y \in Int
  BY ScalarType, ModOfScalar, OrderType
<1>2. Minus(x, y) = (x + (Order - y)) % Order
  BY <1>1 DEF Minus
<1>3. Minus(x, y) = Plus(x, Neg(y))
  BY <1>1, <1>2, PlusOfMods DEF Neg
<1>4. Neg(y) \in Scalar /\ Plus(y, Neg(y)) = 0 /\ Plus(x, Neg(y)) \in Scalar
  BY PlusLaws
<1>5. ASSUME Plus(x, Neg(y)) = 0 PROVE x = y
  <2>1. Plus(Neg(y), x) = Plus(Neg(y), y)
    BY <1>4, <1>5, PlusLaws
  <2> QED  BY <1>4, <2>1, PlusCancels
<1> QED  BY <1>3, <1>4, <1>5

-----------------------------------------------------------------------------
(* Signs and parities.                                                     *)

LEMMA NegAsCases ==
  ASSUME NEW x \in Scalar
  PROVE  Neg(x) = (IF x = 0 THEN 0 ELSE Order - x) /\ Neg(x) \in Scalar
BY OrderType, SMT DEF Neg, Scalar

LEMMA TimesSign ==
  ASSUME NEW a \in Scalar
  PROVE  Times(1, a) = a /\ Times(Order - 1, a) = Neg(a) /\ Order - 1 \in Scalar /\ Neg(1) = Order - 1
<1>1. Neg(1) = Order - 1 /\ Neg(1) \in Scalar
  BY ZeroAndOne, NegAsCases
<1>2. Times(1, a) = a /\ Times(Neg(1), a) = Neg(Times(1, a))
  BY ZeroAndOne, TimesLaws
<1> QED  BY <1>1, <1>2

LEMMA HalfOfOrder == Order \div 2 \in Nat /\ (Order - 1) - Order \div 2 <= Order \div 2
BY OrderType, SMT

(* Order is odd: no point is both P and -P.                                *)
LEMMA OddHalf == Order \div 2 + Order \div 2 < Order
<1>1. Order % 2 # 0
  BY SmallGroupAssumption, SMT
<1> QED  BY <1>1, OrderType, SMT

(* Even() of a point other than infinity is one, with an even Y.           *)
LEMMA EvenIsEven ==
  ASSUME NEW A \in Scalar, A # 0
  PROVE  Even(A) \in NonZero /\ HasEvenY(Even(A)) /\ (IF ~HasEvenY(A) THEN Neg(Even(A)) ELSE Even(A)) = A
<1>1. CASE HasEvenY(A)
  BY <1>1, SMT DEF Even, Scalar, NonZero
<1>2. CASE ~HasEvenY(A)
  <2>1. Neg(A) = Order - A /\ Even(A) = Neg(A)
    BY <1>2, NegAsCases DEF Even
  <2>2. Order - A \in NonZero /\ Order - A # 0 /\ Order - A <= Order \div 2
    BY <1>2, HalfOfOrder, OrderType, SMT DEF HasEvenY, Scalar, NonZero
  <2>3. HasEvenY(Order - A)
    BY <2>2 DEF HasEvenY
  <2> QED  BY <1>2, <2>1, <2>2, <2>3, PlusLaws
<1> QED  BY <1>1, <1>2

(* A change of sign of one factor is one of the product, and taking the    *)
(* same sign away twice leaves things as they are.                         *)
LEMMA SignMoves ==
  ASSUME NEW s \in BOOLEAN, NEW x \in Scalar, NEW y \in Scalar
  PROVE  LET by(z) == IF s THEN Neg(z) ELSE z
         IN  /\ by(x) \in Scalar /\ by(by(x)) = x
             /\ Times(by(x), y) = by(Times(x, y)) /\ Times(x, by(y)) = by(Times(x, y))
             /\ by(Plus(x, y)) = Plus(by(x), by(y))
BY PlusLaws, TimesLaws

LEMMA TimesSwaps ==
  ASSUME NEW x \in Scalar, NEW y \in Scalar, NEW u \in Scalar, NEW v \in Scalar
  PROVE  Times(Times(x, y), Times(u, v)) = Times(Times(x, u), Times(y, v))
<1>1. Times(y, Times(u, v)) = Times(u, Times(y, v))
  <2>1. Times(y, Times(u, v)) = Times(Times(y, u), v) /\ Times(u, Times(y, v)) = Times(Times(u, y), v)
    BY TimesAssociates
  <2> QED  BY <2>1, TimesLaws
<1>2. Times(u, v) \in Scalar /\ Times(y, v) \in Scalar
  BY TimesLaws
<1>3. /\ Times(Times(x, y), Times(u, v)) = Times(x, Times(y, Times(u, v)))
      /\ Times(Times(x, u), Times(y, v)) = Times(x, Times(u, Times(y, v)))
  BY <1>2, TimesAssociates
<1> QED  BY <1>1, <1>3

-----------------------------------------------------------------------------
(* Sums and products of scalars.                                           *)

ModSum(f, S) == SumOver(f, S) % Order

LEMMA SumIsModSum == ASSUME NEW f PROVE Sum(f) = ModSum(f, DOMAIN f)
BY Zenon DEF Sum, ModSum, SumOver

LEMMA ModSumTakes ==
  ASSUME NEW S, IsFiniteSet(S), NEW f, \A i \in S : f[i] \in Scalar
  PROVE  /\ ModSum(f, S) \in Scalar
         /\ \A x \in S : ModSum(f, S) = Plus(f[x], ModSum(f, S \ {x}))
<1>1. \A i \in S : f[i] \in Int
  BY ScalarType
<1>2. SumOver(f, S) \in Int
  BY <1>1, SumOverTakes
<1>3. ASSUME NEW x \in S
      PROVE  ModSum(f, S) = Plus(f[x], ModSum(f, S \ {x}))
  <2>1. IsFiniteSet(S \ {x}) /\ \A i \in S \ {x} : f[i] \in Int
    BY <1>1, FS_Subset
  <2>2. SumOver(f, S \ {x}) \in Int
    BY <2>1, SumOverTakes
  <2>3. SumOver(f, S) = f[x] + SumOver(f, S \ {x})
    BY <1>1, SumOverTakes
  <2>4. f[x] \in Int /\ f[x] % Order = f[x]
    BY <1>1, ModOfScalar
  <2> QED  BY <2>2, <2>3, <2>4, PlusOfMods DEF ModSum
<1> QED  BY <1>2, <1>3, ModIsScalar DEF ModSum

LEMMA ModSumNothing == ASSUME NEW f PROVE ModSum(f, {}) = 0
BY SumOverNothing, ModOfScalar, ZeroAndOne DEF ModSum

LEMMA ModSumSame ==
  ASSUME NEW S, IsFiniteSet(S), NEW f, NEW g, \A i \in S : f[i] \in Scalar /\ f[i] = g[i]
  PROVE  ModSum(f, S) = ModSum(g, S)
<1> DEFINE H == {T \in SUBSET S : ModSum(f, T) = ModSum(g, T)}
<1>1. {} \in H
  BY ModSumNothing
<1>2. ASSUME NEW T \in SUBSET S, NEW x \in T, T \ {x} \in H
      PROVE  T \in H
  <2>1. IsFiniteSet(T) /\ (\A i \in T : f[i] \in Scalar) /\ (\A i \in T : g[i] \in Scalar) /\ f[x] = g[x]
    BY FS_Subset
  <2>2. ModSum(f, T) = Plus(f[x], ModSum(f, T \ {x})) /\ ModSum(g, T) = Plus(g[x], ModSum(g, T \ {x}))
    BY <2>1, ModSumTakes
  <2> QED  BY <1>2, <2>1, <2>2
<1>3. S \in H
  <2> HIDE DEF H
  <2> QED  BY <1>1, <1>2, ElementInduction
<1> QED  BY <1>3

LEMMA ModSumPlus ==
  ASSUME NEW S, IsFiniteSet(S), NEW f, NEW g, NEW h,
         \A i \in S : f[i] \in Scalar /\ g[i] \in Scalar /\ h[i] = Plus(f[i], g[i])
  PROVE  ModSum(h, S) = Plus(ModSum(f, S), ModSum(g, S))
<1> DEFINE H == {T \in SUBSET S : ModSum(h, T) = Plus(ModSum(f, T), ModSum(g, T))}
<1>1. {} \in H
  BY ModSumNothing, ZeroAndOne, PlusLaws
<1>2. ASSUME NEW T \in SUBSET S, NEW x \in T, T \ {x} \in H
      PROVE  T \in H
  <2> DEFINE U == T \ {x}
  <2>1. IsFiniteSet(T) /\ IsFiniteSet(U)
    BY FS_Subset
  <2>2. (\A i \in T : f[i] \in Scalar) /\ (\A i \in T : g[i] \in Scalar) /\ (\A i \in T : h[i] \in Scalar)
    BY PlusLaws
  <2>3. /\ ModSum(f, T) = Plus(f[x], ModSum(f, U)) /\ ModSum(g, T) = Plus(g[x], ModSum(g, U))
        /\ ModSum(h, T) = Plus(h[x], ModSum(h, U))
    BY <2>1, <2>2, ModSumTakes
  <2>4. ModSum(f, U) \in Scalar /\ ModSum(g, U) \in Scalar
    <3>1. (\A i \in U : f[i] \in Scalar) /\ (\A i \in U : g[i] \in Scalar)
      BY <2>2
    <3> QED  BY <2>1, <3>1, ModSumTakes
  <2>5. h[x] = Plus(f[x], g[x]) /\ ModSum(h, U) = Plus(ModSum(f, U), ModSum(g, U))
    BY <1>2
  <2>6. f[x] \in Scalar /\ g[x] \in Scalar
    BY <2>2
  <2> HIDE DEF U
  <2>7. Plus(Plus(f[x], g[x]), Plus(ModSum(f, U), ModSum(g, U)))
          = Plus(Plus(f[x], ModSum(f, U)), Plus(g[x], ModSum(g, U)))
    BY <2>4, <2>6, PlusSwaps
  <2> QED  BY <2>3, <2>5, <2>7
<1>3. S \in H
  <2> HIDE DEF H
  <2> QED  BY <1>1, <1>2, ElementInduction
<1> QED  BY <1>3

LEMMA ModSumTimes ==
  ASSUME NEW S, IsFiniteSet(S), NEW f, NEW c \in Scalar, NEW h,
         \A i \in S : f[i] \in Scalar /\ h[i] = Times(c, f[i])
  PROVE  ModSum(h, S) = Times(c, ModSum(f, S))
<1> DEFINE H == {T \in SUBSET S : ModSum(h, T) = Times(c, ModSum(f, T))}
<1>1. {} \in H
  BY ModSumNothing, ZeroAndOne, TimesLaws
<1>2. ASSUME NEW T \in SUBSET S, NEW x \in T, T \ {x} \in H
      PROVE  T \in H
  <2> DEFINE U == T \ {x}
  <2>1. IsFiniteSet(T) /\ IsFiniteSet(U)
    BY FS_Subset
  <2>2. (\A i \in T : f[i] \in Scalar) /\ (\A i \in T : h[i] \in Scalar)
    BY TimesLaws
  <2>3. ModSum(f, T) = Plus(f[x], ModSum(f, U)) /\ ModSum(h, T) = Plus(h[x], ModSum(h, U))
    BY <2>1, <2>2, ModSumTakes
  <2>4. ModSum(f, U) \in Scalar
    <3>1. \A i \in U : f[i] \in Scalar
      BY <2>2
    <3> QED  BY <2>1, <3>1, ModSumTakes
  <2>5. h[x] = Times(c, f[x]) /\ ModSum(h, U) = Times(c, ModSum(f, U)) /\ f[x] \in Scalar
    BY <1>2, <2>2
  <2> HIDE DEF U
  <2> QED  BY <2>3, <2>4, <2>5, TimesDistributes
<1>3. S \in H
  <2> HIDE DEF H
  <2> QED  BY <1>1, <1>2, ElementInduction
<1> QED  BY <1>3

LEMMA ModSumNeg ==
  ASSUME NEW S, IsFiniteSet(S), NEW f, NEW h, \A i \in S : f[i] \in Scalar /\ h[i] = Neg(f[i])
  PROVE  ModSum(h, S) = Neg(ModSum(f, S))
<1>1. Neg(1) \in Scalar
  BY PlusLaws, ZeroAndOne
<1>2. \A y \in Scalar : Times(Neg(1), y) = Neg(y)
  BY TimesLaws, ZeroAndOne
<1>3. \A i \in S : f[i] \in Scalar /\ h[i] = Times(Neg(1), f[i])
  BY <1>2
<1>4. ModSum(h, S) = Times(Neg(1), ModSum(f, S)) /\ ModSum(f, S) \in Scalar
  BY <1>1, <1>3, ModSumTimes, ModSumTakes
<1> QED  BY <1>2, <1>4

LEMMA ModSumUnion ==
  ASSUME NEW A, NEW B, IsFiniteSet(A), IsFiniteSet(B), A \cap B = {},
         NEW f, \A i \in A \cup B : f[i] \in Scalar
  PROVE  ModSum(f, A \cup B) = Plus(ModSum(f, A), ModSum(f, B))
<1> DEFINE H == {T \in SUBSET A : ModSum(f, T \cup B) = Plus(ModSum(f, T), ModSum(f, B))}
<1>1. ModSum(f, B) \in Scalar
  BY ModSumTakes
<1>2. {} \in H
  <2>1. {} \cup B = B
    OBVIOUS
  <2> QED  BY <1>1, <2>1, ModSumNothing, PlusLaws
<1>3. ASSUME NEW T \in SUBSET A, NEW x \in T, T \ {x} \in H
      PROVE  T \in H
  <2> DEFINE U == T \ {x}
  <2>1. IsFiniteSet(T) /\ IsFiniteSet(U) /\ IsFiniteSet(T \cup B)
    BY FS_Subset, FS_Union
  <2>2. (T \cup B) \ {x} = U \cup B /\ x \in T \cup B
    OBVIOUS
  <2>3. (\A i \in T : f[i] \in Scalar) /\ (\A i \in U : f[i] \in Scalar) /\ (\A i \in T \cup B : f[i] \in Scalar)
    OBVIOUS
  <2>4. ModSum(f, T) = Plus(f[x], ModSum(f, U)) /\ ModSum(f, T \cup B) = Plus(f[x], ModSum(f, U \cup B))
    BY <2>1, <2>2, <2>3, ModSumTakes
  <2>5. ModSum(f, U) \in Scalar /\ f[x] \in Scalar
    BY <2>1, <2>3, ModSumTakes
  <2>6. ModSum(f, U \cup B) = Plus(ModSum(f, U), ModSum(f, B))
    BY <1>3
  <2> HIDE DEF U
  <2> QED  BY <1>1, <2>4, <2>5, <2>6, PlusAssociates
<1>4. A \in H
  <2> HIDE DEF H
  <2> QED  BY <1>2, <1>3, ElementInduction
<1> QED  BY <1>4

(* The sum does not depend on what the elements are called.                *)
LEMMA ModSumRenamed ==
  ASSUME NEW S, IsFiniteSet(S), NEW T, NEW p \in Bijection(S, T),
         NEW f, \A j \in T : f[j] \in Scalar,
         NEW h, \A i \in S : h[i] = f[p[i]]
  PROVE  ModSum(h, S) = ModSum(f, T) /\ IsFiniteSet(T)
<1> DEFINE img(A) == {p[i] : i \in A}
           H == {A \in SUBSET S : ModSum(h, A) = ModSum(f, img(A))}
<1>1. /\ p \in [S -> T] /\ \A i, j \in S : p[i] = p[j] => i = j
      /\ \A t \in T : \E i \in S : p[i] = t
  BY DEF Bijection, Injection, IsInjective, Surjection
<1>2. IsFiniteSet(T)
  BY FS_Surjection DEF Bijection
<1>3. {} \in H
  <2>1. img({}) = {}
    OBVIOUS
  <2> QED  BY <2>1, ModSumNothing
<1>4. ASSUME NEW A \in SUBSET S, NEW x \in A, A \ {x} \in H
      PROVE  A \in H
  <2>1. img(A) \ {p[x]} = img(A \ {x}) /\ p[x] \in img(A) /\ img(A) \subseteq T
    BY <1>1
  <2>2. IsFiniteSet(A) /\ IsFiniteSet(img(A))
    BY <1>2, <2>1, FS_Subset
  <2>3. (\A i \in A : h[i] \in Scalar) /\ (\A j \in img(A) : f[j] \in Scalar)
    BY <1>1, <2>1
  <2>4. ModSum(h, A) = Plus(h[x], ModSum(h, A \ {x}))
    BY <2>2, <2>3, ModSumTakes
  <2>5. ModSum(f, img(A)) = Plus(f[p[x]], ModSum(f, img(A \ {x})))
    <3> DEFINE I == img(A)
    <3>1. IsFiniteSet(I) /\ p[x] \in I /\ \A j \in I : f[j] \in Scalar
      BY <2>1, <2>2, <2>3
    <3>2. I \ {p[x]} = img(A \ {x})
      BY <2>1
    <3> HIDE DEF I
    <3>3. ModSum(f, I) = Plus(f[p[x]], ModSum(f, I \ {p[x]}))
      BY <3>1, ModSumTakes
    <3> QED  BY <3>2, <3>3 DEF I
  <2>6. h[x] = f[p[x]] /\ ModSum(h, A \ {x}) = ModSum(f, img(A \ {x}))
    BY <1>4
  <2> QED  BY <2>4, <2>5, <2>6
<1>5. S \in H
  <2> HIDE DEF H
  <2> QED  BY <1>3, <1>4, ElementInduction
<1>6. img(S) = T
  BY <1>1
<1> QED  BY <1>2, <1>5, <1>6

(* Rows first or columns first.                                            *)
RowSums(m, A, B) == [i \in A |-> ModSum(m[i], B)]

LEMMA ModSumExchanged ==
  ASSUME NEW A, NEW B, IsFiniteSet(A), IsFiniteSet(B),
         NEW m \in [A -> [B -> Scalar]], NEW t \in [B -> [A -> Scalar]],
         \A i \in A : \A j \in B : t[j][i] = m[i][j]
  PROVE  ModSum(RowSums(m, A, B), A) = ModSum(RowSums(t, B, A), B)
<1> DEFINE r == RowSums(m, A, B)
           c == RowSums(t, B, A)
<1>0. (\A i \in A : r[i] = ModSum(m[i], B)) /\ (\A j \in B : c[j] = ModSum(t[j], A))
  BY DEF RowSums
<1> HIDE DEF r, c
<1> DEFINE col(T) == [j \in B |-> ModSum(t[j], T)]
           H == {T \in SUBSET A : ModSum(r, T) = ModSum(col(T), B)}
<1>1. {} \in H
  <2>1. \A j \in B : col({})[j] = 0
    BY ModSumNothing
  <2> DEFINE z == col({})
  <2> HIDE DEF col
  <2>2. \A j \in B : z[j] \in Scalar /\ z[j] = Times(0, z[j])
    BY <2>1, ZeroAndOne, TimesLaws
  <2>3. ModSum(z, B) = Times(0, ModSum(z, B)) /\ ModSum(z, B) \in Scalar
    BY <2>2, ZeroAndOne, ModSumTimes, ModSumTakes
  <2> QED  BY <2>3, ModSumNothing, TimesLaws
<1>2. ASSUME NEW T \in SUBSET A, NEW x \in T, T \ {x} \in H
      PROVE  T \in H
  <2> DEFINE U == T \ {x}
  <2>1. IsFiniteSet(T) /\ IsFiniteSet(U)
    BY FS_Subset
  <2>2. ASSUME NEW j \in B
        PROVE  col(U)[j] \in Scalar /\ m[x][j] \in Scalar /\ col(T)[j] = Plus(m[x][j], col(U)[j])
    <3> DEFINE k == t[j]
    <3>1. (\A i \in T : k[i] \in Scalar) /\ (\A i \in U : k[i] \in Scalar) /\ k[x] = m[x][j]
      OBVIOUS
    <3> HIDE DEF k
    <3>2. ModSum(k, U) \in Scalar /\ ModSum(k, T) = Plus(k[x], ModSum(k, U))
      BY <2>1, <3>1, ModSumTakes
    <3> QED  BY <3>1, <3>2 DEF k
  <2>3. ModSum(col(T), B) = Plus(ModSum(m[x], B), ModSum(col(U), B))
    <3> DEFINE cu == col(U)
               ct == col(T)
               mx == m[x]
    <3>1. \A j \in B : mx[j] \in Scalar /\ cu[j] \in Scalar /\ ct[j] = Plus(mx[j], cu[j])
      BY <2>2
    <3> HIDE DEF cu, ct, mx
    <3>2. ModSum(ct, B) = Plus(ModSum(mx, B), ModSum(cu, B))
      BY <3>1, ModSumPlus
    <3> QED  BY <3>2 DEF cu, ct, mx
  <2>4. ModSum(r, T) = Plus(r[x], ModSum(r, U))
    <3>1. \A i \in T : r[i] \in Scalar
      BY <1>0, ModSumTakes
    <3> QED  BY <2>1, <3>1, ModSumTakes
  <2>5. r[x] = ModSum(m[x], B) /\ ModSum(r, U) = ModSum(col(U), B)
    BY <1>0, <1>2
  <2> QED  BY <2>3, <2>4, <2>5
<1>3. A \in H
  <2> HIDE DEF H
  <2> QED  BY <1>1, <1>2, ElementInduction
<1>4. ModSum(col(A), B) = ModSum(c, B)
  <2> DEFINE ca == col(A)
  <2>1. \A j \in B : ca[j] = c[j]
    BY <1>0
  <2>2. \A j \in B : ca[j] \in Scalar
    <3> TAKE j \in B
    <3> DEFINE k == t[j]
    <3>1. \A i \in A : k[i] \in Scalar
      OBVIOUS
    <3> HIDE DEF k
    <3>2. ModSum(k, A) \in Scalar
      BY <3>1, ModSumTakes
    <3> QED  BY <3>2 DEF k
  <2> HIDE DEF ca
  <2>3. ModSum(ca, B) = ModSum(c, B)
    BY <2>1, <2>2, ModSumSame
  <2> QED  BY <2>3 DEF ca
<1> QED  BY <1>3, <1>4 DEF r, c

-----------------------------------------------------------------------------
(* Products.                                                               *)

ProductOver(f, S) == FoldFunctionOnSet(Times, 1, f, S)

LEMMA ProductIsOver == ASSUME NEW f PROVE Product(f) = ProductOver(f, DOMAIN f)
BY Zenon DEF Product, ProductOver, FoldFunction

ProductStep(f, S) == [p \in S \X Scalar |-> Times(f[p[1]], p[2])]

LEMMA ProductOverFolds ==
  ASSUME NEW S, IsFiniteSet(S), NEW f, \A i \in S : f[i] \in Scalar
  PROVE  \E g : Folds(g, S, Scalar, 1, ProductStep(f, S)) /\ ProductOver(f, S) = g[S]
<1> DEFINE step == ProductStep(f, S)
           E(g) == g = [s \in SUBSET S |-> IF s = {} THEN 1 ELSE Times(f[Pick(s)], g[s \ {Pick(s)}])]
           iter == CHOOSE g : E(g)
<1>1. step \in [S \X Scalar -> Scalar]
  BY TimesLaws DEF ProductStep
<1>2. PICK g : Folds(g, S, Scalar, 1, step)
  <2> HIDE DEF step
  <2> QED  BY <1>1, ZeroAndOne, FoldsExists
<1>3. ASSUME NEW s \in SUBSET S, s # {}
      PROVE  step[<<Pick(s), g[s \ {Pick(s)}]>>] = Times(f[Pick(s)], g[s \ {Pick(s)}])
  <2>1. Pick(s) \in S /\ s \ {Pick(s)} \in SUBSET S
    BY <1>3, PickIsMember
  <2>2. g[s \ {Pick(s)}] \in Scalar
    BY <1>2, <2>1 DEF Folds
  <2> QED  BY <2>1, <2>2 DEF ProductStep
<1>4. E(g)
  BY <1>2, <1>3 DEF Folds
<1>5. E(iter)
  BY <1>4, Zenon
<1>6. ProductOver(f, S) = iter[S]
  BY Zenon DEF ProductOver, FoldFunctionOnSet, MapThenFoldSet, Pick
<1>7. iter[S] = g[S]
  <2> DEFINE H == {T \in SUBSET S : iter[T] = g[T]}
  <2>1. ASSUME NEW T \in SUBSET S, \A U \in SUBSET T : U # T => U \in H
        PROVE  T \in H
    <3>1. CASE T = {}
      BY <1>4, <1>5, <3>1
    <3>2. CASE T # {}
      <4>1. T \ {Pick(T)} \in SUBSET T /\ T \ {Pick(T)} # T
        BY <3>2, PickIsMember
      <4>2. iter[T \ {Pick(T)}] = g[T \ {Pick(T)}]
        BY <2>1, <4>1
      <4>3. /\ iter[T] = Times(f[Pick(T)], iter[T \ {Pick(T)}])
            /\ g[T] = Times(f[Pick(T)], g[T \ {Pick(T)}])
        <5> HIDE DEF iter
        <5> QED  BY <1>4, <1>5, <3>2
      <4> HIDE DEF iter
      <4> QED  BY <4>2, <4>3
    <3> QED  BY <3>1, <3>2
  <2>2. S \in H
    <3> HIDE DEF H
    <3> QED  BY <2>1, SetInduction
  <2> QED  BY <2>2
<1> HIDE DEF iter, E
<1> QED  BY <1>2, <1>6, <1>7

LEMMA ProductOverNothing == ASSUME NEW f PROVE ProductOver(f, {}) = 1
<1>1. IsFiniteSet({})
  BY FS_EmptySet
<1>2. PICK g : Folds(g, {}, Scalar, 1, ProductStep(f, {})) /\ ProductOver(f, {}) = g[{}]
  BY <1>1, ProductOverFolds
<1> QED  BY <1>2 DEF Folds

LEMMA ProductOverTakes ==
  ASSUME NEW S, IsFiniteSet(S), NEW f, \A i \in S : f[i] \in Scalar
  PROVE  /\ ProductOver(f, S) \in Scalar
         /\ \A x \in S : ProductOver(f, S) = Times(f[x], ProductOver(f, S \ {x}))
<1> DEFINE step == ProductStep(f, S)
<1>1. PICK g : Folds(g, S, Scalar, 1, step) /\ ProductOver(f, S) = g[S]
  BY ProductOverFolds
<1>2. \A x \in S, v \in Scalar : step[<<x, v>>] = Times(f[x], v)
  BY DEF ProductStep
<1>3. \A x, y \in S, v \in Scalar : step[<<x, step[<<y, v>>]>>] = step[<<y, step[<<x, v>>]>>]
  <2> TAKE x, y \in S, v \in Scalar
  <2>1. f[x] \in Scalar /\ f[y] \in Scalar /\ Times(f[x], v) \in Scalar /\ Times(f[y], v) \in Scalar
    BY TimesLaws
  <2> HIDE DEF step
  <2>2. /\ step[<<x, step[<<y, v>>]>>] = Times(f[x], Times(f[y], v))
        /\ step[<<y, step[<<x, v>>]>>] = Times(f[y], Times(f[x], v))
    BY <1>2, <2>1
  <2>3. Times(f[x], Times(f[y], v)) = Times(Times(f[x], f[y]), v) /\ Times(f[y], Times(f[x], v)) = Times(Times(f[y], f[x]), v)
    BY <2>1, TimesAssociates
  <2> QED  BY <2>1, <2>2, <2>3, TimesLaws
<1>4. ASSUME NEW x \in S
      PROVE  ProductOver(f, S) = Times(f[x], ProductOver(f, S \ {x}))
  <2> DEFINE T == S \ {x}
  <2>1. T \in SUBSET S /\ IsFiniteSet(T) /\ T \subseteq S /\ \A i \in T : f[i] \in Scalar
    BY FS_Subset
  <2> HIDE DEF step
  <2>2. g[S] = step[<<x, g[T]>>]
    BY <1>1, <1>3, FoldsTakeAny
  <2>3. g[T] \in Scalar
    BY <1>1, <2>1 DEF Folds
  <2>4. g[S] = Times(f[x], g[T])
    BY <1>2, <2>2, <2>3
  <2> HIDE DEF T
  <2>5. PICK h : Folds(h, T, Scalar, 1, ProductStep(f, T)) /\ ProductOver(f, T) = h[T]
    BY <2>1, ProductOverFolds
  <2>6. h[T] = g[T]
    <3> DEFINE H == {W \in SUBSET T : h[W] = g[W]}
    <3>1. ASSUME NEW W \in SUBSET T, \A U \in SUBSET W : U # W => U \in H
          PROVE  W \in H
      <4>1. CASE W = {}
        BY <1>1, <2>1, <2>5, <4>1 DEF Folds
      <4>2. CASE W # {}
        <5> DEFINE p == Pick(W)
                   U == W \ {p}
        <5>1. p \in W /\ U \in SUBSET W /\ U # W
          BY <4>2, PickIsMember
        <5>2. h[U] = g[U]
          BY <3>1, <5>1
        <5>3. h[W] = ProductStep(f, T)[<<p, h[U]>>] /\ g[W] = step[<<p, g[U]>>] /\ h[U] \in Scalar
          BY <1>1, <2>1, <2>5, <4>2, <5>1 DEF Folds
        <5>4. p \in T /\ p \in S
          BY <2>1, <5>1
        <5> HIDE DEF p, U
        <5>5. ProductStep(f, T)[<<p, h[U]>>] = Times(f[p], h[U])
          BY <5>3, <5>4 DEF ProductStep
        <5>6. step[<<p, g[U]>>] = Times(f[p], g[U])
          BY <1>2, <5>2, <5>3, <5>4
        <5> QED  BY <5>2, <5>3, <5>5, <5>6
      <4> QED  BY <4>1, <4>2
    <3>2. T \in H
      <4> HIDE DEF H
      <4> QED  BY <2>1, <3>1, SetInduction
    <3> QED  BY <3>2
  <2> QED  BY <1>1, <2>4, <2>5, <2>6 DEF T
<1>5. ProductOver(f, S) \in Scalar
  BY <1>1 DEF Folds
<1> QED  BY <1>4, <1>5

-----------------------------------------------------------------------------
LEMMA ProductSame ==
  ASSUME NEW S, IsFiniteSet(S), NEW f, NEW g, \A i \in S : f[i] \in Scalar /\ f[i] = g[i]
  PROVE  ProductOver(f, S) = ProductOver(g, S)
<1> DEFINE H == {T \in SUBSET S : ProductOver(f, T) = ProductOver(g, T)}
<1>1. {} \in H
  BY ProductOverNothing
<1>2. ASSUME NEW T \in SUBSET S, NEW x \in T, T \ {x} \in H
      PROVE  T \in H
  <2>1. IsFiniteSet(T) /\ (\A i \in T : f[i] \in Scalar) /\ (\A i \in T : g[i] \in Scalar) /\ f[x] = g[x]
    BY FS_Subset
  <2>2. /\ ProductOver(f, T) = Times(f[x], ProductOver(f, T \ {x}))
        /\ ProductOver(g, T) = Times(g[x], ProductOver(g, T \ {x}))
    BY <2>1, ProductOverTakes
  <2> QED  BY <1>2, <2>1, <2>2
<1>3. S \in H
  <2> HIDE DEF H
  <2> QED  BY <1>1, <1>2, ElementInduction
<1> QED  BY <1>3

LEMMA ProductNonZero ==
  ASSUME NEW S, IsFiniteSet(S), NEW f, \A i \in S : f[i] \in NonZero
  PROVE  ProductOver(f, S) \in NonZero
<1> DEFINE H == {T \in SUBSET S : ProductOver(f, T) \in NonZero}
<1>1. {} \in H
  BY ProductOverNothing, ZeroAndOne
<1>2. ASSUME NEW T \in SUBSET S, NEW x \in T, T \ {x} \in H
      PROVE  T \in H
  <2>1. IsFiniteSet(T) /\ (\A i \in T : f[i] \in Scalar) /\ f[x] \in NonZero
    BY FS_Subset, NonZeroType
  <2>2. ProductOver(f, T) = Times(f[x], ProductOver(f, T \ {x}))
    BY <2>1, ProductOverTakes
  <2> QED  BY <1>2, <2>1, <2>2, NonZeroTimes
<1>3. S \in H
  <2> HIDE DEF H
  <2> QED  BY <1>1, <1>2, ElementInduction
<1> QED  BY <1>3

LEMMA ModSumOfZeros ==
  ASSUME NEW S, IsFiniteSet(S), NEW f, \A i \in S : f[i] = 0
  PROVE  ModSum(f, S) = 0
<1>1. \A i \in S : f[i] \in Scalar /\ f[i] = Times(0, f[i])
  BY ZeroAndOne, TimesLaws
<1>2. ModSum(f, S) = Times(0, ModSum(f, S)) /\ ModSum(f, S) \in Scalar
  BY <1>1, ZeroAndOne, ModSumTimes, ModSumTakes
<1> QED  BY <1>2, TimesLaws

-----------------------------------------------------------------------------
(* A recursive function exists.                                            *)
Recurs(g, V, base, step) ==
  /\ g \in [Nat -> V]
  /\ g[0] = base
  /\ \A n \in Nat : g[n + 1] = step[<<n, g[n]>>]

LEMMA RecursionExists ==
  ASSUME NEW V, NEW base \in V, NEW step \in [Nat \X V -> V]
  PROVE  \E g : Recurs(g, V, base, step)
<1> DEFINE Upto(g, n) == /\ g \in [0..n -> V]
                         /\ g[0] = base
                         /\ \A i \in 0..(n - 1) : g[i + 1] = step[<<i, g[i]>>]
           H == {n \in Nat : \E g : Upto(g, n)}
<1>1. 0 \in H
  <2> DEFINE g == [i \in 0..0 |-> base]
  <2>1. Upto(g, 0)
    OBVIOUS
  <2> QED  BY <2>1
<1>2. ASSUME NEW n \in Nat, n \in H PROVE n + 1 \in H
  <2>1. PICK g : Upto(g, n)
    BY <1>2
  <2> DEFINE h == [i \in 0..(n + 1) |-> IF i = n + 1 THEN step[<<n, g[n]>>] ELSE g[i]]
  <2>2. n \in 0..n /\ g[n] \in V /\ step[<<n, g[n]>>] \in V
    BY <2>1
  <2>3. \A i \in 0..(n + 1) : i # n + 1 => i \in 0..n
    OBVIOUS
  <2>4. h \in [0..(n + 1) -> V]
    BY <2>1, <2>2, <2>3
  <2>5. h[0] = base
    BY <2>1
  <2>6. ASSUME NEW i \in 0..n
        PROVE  h[i + 1] = step[<<i, h[i]>>]
    <3>1. i + 1 \in 0..(n + 1) /\ i \in 0..(n + 1) /\ i # n + 1
      OBVIOUS
    <3>2. h[i] = g[i]
      BY <3>1
    <3>3. CASE i = n
      BY <3>1, <3>2, <3>3
    <3>4. CASE i # n
      <4>1. i \in 0..(n - 1) /\ i + 1 # n + 1
        BY <3>4
      <4> QED  BY <2>1, <3>1, <3>2, <4>1
    <3> QED  BY <3>3, <3>4
  <2>7. (n + 1) - 1 = n
    OBVIOUS
  <2> HIDE DEF h
  <2>8. Upto(h, n + 1)
    BY <2>4, <2>5, <2>6, <2>7
  <2> QED  BY <2>8
<1>3. \A n \in Nat : n \in H
  <2> HIDE DEF H
  <2> QED  BY <1>1, <1>2, NumberInduction
<1> DEFINE K(n, v) == \E g : Upto(g, n) /\ v = g[n]
           f == [n \in Nat |-> CHOOSE v : K(n, v)]
<1>4. ASSUME NEW n \in Nat, NEW g, Upto(g, n), NEW h, Upto(h, n)
      PROVE  g[n] = h[n]
  <2> DEFINE G == {i \in Nat : i <= n => g[i] = h[i]}
  <2>1. 0 \in G
    BY <1>4
  <2>2. ASSUME NEW i \in Nat, i \in G PROVE i + 1 \in G
    <3> SUFFICES ASSUME i + 1 <= n PROVE g[i + 1] = h[i + 1]
      OBVIOUS
    <3>1. i <= n /\ i \in 0..(n - 1)
      OBVIOUS
    <3> QED  BY <1>4, <2>2, <3>1
  <2>3. n \in G
    <3> HIDE DEF G
    <3> QED  BY <2>1, <2>2, NumberInduction
  <2> QED  BY <2>3
<1>5. ASSUME NEW n \in Nat, NEW g, Upto(g, n)
      PROVE  f[n] = g[n]
  <2>1. K(n, g[n])
    BY <1>5
  <2>2. K(n, f[n])
    BY <2>1
  <2>3. PICK h : Upto(h, n) /\ f[n] = h[n]
    BY <2>2
  <2> HIDE DEF f, Upto
  <2> QED  BY <1>4, <1>5, <2>3
<1>6. ASSUME NEW n \in Nat
      PROVE  f[n] \in V /\ f[n + 1] = step[<<n, f[n]>>]
  <2>1. PICK g : Upto(g, n + 1)
    BY <1>3
  <2> DEFINE h == [i \in 0..n |-> g[i]]
  <2>2. n \in 0..((n + 1) - 1) /\ n \in 0..(n + 1)
    OBVIOUS
  <2>3. g[n + 1] = step[<<n, g[n]>>] /\ g[n] \in V
    BY <2>1, <2>2
  <2>4. Upto(h, n)
    <3>1. \A i \in 0..n : i \in 0..(n + 1) /\ h[i] = g[i]
      OBVIOUS
    <3>2. \A i \in 0..(n - 1) : i \in 0..n /\ i + 1 \in 0..n /\ i \in 0..((n + 1) - 1)
      OBVIOUS
    <3>3. 0 \in 0..n
      OBVIOUS
    <3>4. h \in [0..n -> V]
      BY <2>1, <3>1
    <3>5. h[0] = base
      BY <2>1, <3>1, <3>3
    <3>6. \A i \in 0..(n - 1) : h[i + 1] = step[<<i, h[i]>>]
      BY <2>1, <3>1, <3>2
    <3> HIDE DEF h
    <3> QED  BY <3>4, <3>5, <3>6
  <2>5. h[n] = g[n]
    OBVIOUS
  <2> HIDE DEF f, Upto, h
  <2>6. f[n + 1] = g[n + 1] /\ f[n] = h[n]
    BY <1>5, <2>1, <2>4
  <2> QED  BY <2>3, <2>5, <2>6
<1>7. f[0] = base
  <2>1. PICK g : Upto(g, 0)
    BY <1>1
  <2>2. g[0] = base
    BY <2>1
  <2> HIDE DEF f, Upto
  <2> QED  BY <1>5, <2>1, <2>2
<1>8. f \in [Nat -> V]
  <2>1. \A n \in Nat : f[n] \in V
    BY <1>6
  <2>2. f = [n \in Nat |-> f[n]]
    OBVIOUS
  <2> HIDE DEF f
  <2> QED  BY <2>1, <2>2
<1> HIDE DEF f
<1> QED  BY <1>6, <1>7, <1>8 DEF Recurs

-----------------------------------------------------------------------------
(***************************************************************************)
(* MuSig2: a tweaked key and what is signed with it.                       *)
(***************************************************************************)

(* What the keys and the entry are at any time.                            *)
TweakIInv ==
  /\ d \in [Signers -> NonZero] /\ coef \in [Signers -> NonZero]
  /\ Q_negated \in BOOLEAN
  /\ ~HasEntry => gacc = 1 /\ tacc = 0
  /\ HasEntry => KeyIsAccumulated

LEMMA AggregateIsScalar ==
  ASSUME TweakIInv
  PROVE  Aggregate \in Scalar
<1> DEFINE f == [i \in Signers |-> Times(coef[i], d[i])]
<1>1. \A i \in Signers : f[i] \in Scalar
  BY NonZeroType, TimesLaws DEF TweakIInv
<1>2. DOMAIN f = Signers
  OBVIOUS
<1> HIDE DEF f
<1>3. Sum(f) = ModSum(f, Signers)
  BY <1>2, SumIsModSum
<1>4. Sum(f) \in Scalar
  BY <1>1, <1>3, ModSumTakes, MusigTweakAssumption
<1> QED  BY <1>4 DEF f, Aggregate

LEMMA TweakInitHolds == TweakInit => TweakIInv
BY DEF TweakInit, TweakIInv, HasEntry

(* What Store(A) leaves is A with its real parity.                         *)
LEMMA StoredIsActual ==
  ASSUME NEW A \in Scalar, A # 0, Store(A)
  PROVE  Q' \in NonZero /\ HasEvenY(Q)' /\ Actual' = A /\ Q_negated' \in BOOLEAN
<1>1. Q' = Even(A) /\ Q_negated' = ~HasEvenY(A) /\ Q_negated' \in BOOLEAN
  BY DEF Store, HasEvenY
<1>2. HasEvenY(Q)' <=> HasEvenY(Q')
  BY DEF HasEvenY
<1>3. Actual' = IF Q_negated' THEN Neg(Q') ELSE Q'
  BY DEF Actual, Neg
<1> QED  BY <1>1, <1>2, <1>3, EvenIsEven

(* Q and the accumulators of a key whose sign is taken away.               *)
LEMMA SignTakenAway ==
  ASSUME TweakIInv, HasEntry
  PROVE  LET g == IF Q_negated THEN Neg(gacc) ELSE gacc
             t == IF Q_negated THEN Neg(tacc) ELSE tacc
         IN  /\ g \in {1, Order - 1} /\ t \in Scalar /\ Q \in Scalar
             /\ Times(g, Aggregate) \in Scalar
             /\ Q = Plus(Times(g, Aggregate), t)
<1> DEFINE G == Times(gacc, Aggregate)
<1>1. Aggregate \in Scalar /\ tacc \in Scalar /\ gacc \in {1, Order - 1}
      /\ Actual = Plus(G, tacc) /\ Q \in Scalar
  BY AggregateIsScalar, NonZeroType DEF TweakIInv, KeyIsAccumulated
<1>2. Times(1, Aggregate) = Aggregate /\ Times(Order - 1, Aggregate) = Neg(Aggregate)
      /\ Neg(Aggregate) \in Scalar /\ Neg(Neg(Aggregate)) = Aggregate
  BY <1>1, TimesSign, NegAsCases, PlusLaws
<1>3. Neg(1) = Order - 1 /\ Neg(Order - 1) = 1
  BY OrderType, NegAsCases, SMT DEF Scalar
<1>4. G \in Scalar /\ Times(Neg(gacc), Aggregate) = Neg(G) /\ Neg(gacc) \in {1, Order - 1}
  BY <1>1, <1>2, <1>3
<1>5. CASE Q_negated
  <2>1. Neg(Q) = Plus(G, tacc)
    BY <1>1, <1>5 DEF Actual
  <2>2. Q = Plus(Neg(G), Neg(tacc))
    BY <2>1, <1>1, <1>4, PlusLaws, PlusLaws
  <2> QED  BY <2>2, <1>1, <1>4, <1>5, NegAsCases
<1>6. CASE ~Q_negated
  BY <1>1, <1>4, <1>6 DEF Actual
<1> QED  BY <1>5, <1>6 DEF TweakIInv

LEMMA PubkeyAggKeeps ==
  ASSUME TweakIInv, PubkeyAgg
  PROVE  TweakIInv'
<1>1. Aggregate \in Scalar /\ Aggregate # 0 /\ gacc = 1 /\ tacc = 0
  BY AggregateIsScalar DEF PubkeyAgg, TweakIInv
<1>2. Aggregate' = Aggregate /\ gacc' = 1 /\ tacc' = 0
  BY <1>1 DEF PubkeyAgg, Aggregate
<1>3. Q' \in NonZero /\ HasEvenY(Q)' /\ Actual' = Aggregate /\ Q_negated' \in BOOLEAN
  BY <1>1, StoredIsActual DEF PubkeyAgg
<1>4. Plus(Times(1, Aggregate), 0) = Aggregate
  BY <1>1, TimesLaws, PlusLaws
<1>5. Plus(Times(gacc, Aggregate), tacc)' = Plus(Times(1, Aggregate), 0)
  BY <1>2 DEF Plus, Times
<1>6. (gacc \in {1, Order - 1})' /\ (tacc \in Scalar)' /\ (d \in [Signers -> NonZero])'
      /\ (coef \in [Signers -> NonZero])' /\ HasEntry'
  BY <1>2, <1>3, ZeroAndOne, NonZeroType DEF PubkeyAgg, TweakIInv, Scalar, NonZero, HasEntry
<1> QED  BY <1>3, <1>4, <1>5, <1>6 DEF TweakIInv, KeyIsAccumulated

LEMMA EcTweakKeeps ==
  ASSUME TweakIInv, NEW t \in Scalar, EcTweakAdd(t)
  PROVE  TweakIInv'
<1> DEFINE G == Times(gacc, Aggregate)
<1>1. Aggregate \in Scalar /\ tacc \in Scalar /\ gacc \in {1, Order - 1}
      /\ Actual = Plus(G, tacc)
  BY AggregateIsScalar DEF TweakIInv, KeyIsAccumulated, EcTweakAdd
<1>2. G \in Scalar
  BY <1>1, TimesSign, NegAsCases
<1>3. Aggregate' = Aggregate /\ gacc' = gacc /\ tacc' = Plus(tacc, t)
  BY DEF EcTweakAdd, Aggregate
<1>4. Plus(Actual, t) \in Scalar /\ Plus(tacc, t) \in Scalar
  BY <1>1, <1>2, PlusLaws
<1>5. Q' \in NonZero /\ HasEvenY(Q)' /\ Actual' = Plus(Actual, t) /\ Q_negated' \in BOOLEAN
  BY <1>4, StoredIsActual DEF EcTweakAdd
<1>6. Plus(Plus(G, tacc), t) = Plus(G, Plus(tacc, t))
  BY <1>1, <1>2, PlusAssociates
<1>7. Plus(Times(gacc, Aggregate), tacc)' = Plus(G, Plus(tacc, t))
  BY <1>3 DEF Plus, Times
<1>8. (gacc \in {1, Order - 1})' /\ (tacc \in Scalar)' /\ (d \in [Signers -> NonZero])'
      /\ (coef \in [Signers -> NonZero])' /\ HasEntry'
  BY <1>1, <1>3, <1>4, <1>5, NonZeroType DEF TweakIInv, EcTweakAdd, Scalar, NonZero, HasEntry
<1> QED  BY <1>1, <1>5, <1>6, <1>7, <1>8 DEF TweakIInv, KeyIsAccumulated

LEMMA XonlyTweakKeeps ==
  ASSUME TweakIInv, NEW t \in Scalar, XonlyTweakAdd(t)
  PROVE  TweakIInv'
<1> DEFINE g == IF Q_negated THEN Neg(gacc) ELSE gacc
           u == IF Q_negated THEN Neg(tacc) ELSE tacc
           G == Times(g, Aggregate)
<1>1. g \in {1, Order - 1} /\ u \in Scalar /\ Q \in Scalar /\ G \in Scalar /\ Q = Plus(G, u)
  BY SignTakenAway DEF XonlyTweakAdd
<1>2. Aggregate' = Aggregate /\ gacc' = g /\ tacc' = Plus(u, t)
  BY DEF XonlyTweakAdd, Aggregate
<1>3. Plus(Q, t) \in Scalar /\ Plus(u, t) \in Scalar
  BY <1>1, PlusLaws
<1>4. Q' \in NonZero /\ HasEvenY(Q)' /\ Actual' = Plus(Q, t) /\ Q_negated' \in BOOLEAN
  BY <1>3, StoredIsActual DEF XonlyTweakAdd
<1>5. Plus(Plus(G, u), t) = Plus(G, Plus(u, t))
  BY <1>1, PlusAssociates
<1>6. Plus(Times(gacc, Aggregate), tacc)' = Plus(G, Plus(u, t))
  BY <1>2 DEF Plus, Times
<1>7. (gacc \in {1, Order - 1})' /\ (tacc \in Scalar)' /\ (d \in [Signers -> NonZero])'
      /\ (coef \in [Signers -> NonZero])' /\ HasEntry'
  BY <1>1, <1>2, <1>3, <1>4, NonZeroType DEF TweakIInv, XonlyTweakAdd, Scalar, NonZero, HasEntry
<1> QED  BY <1>1, <1>4, <1>5, <1>6, <1>7 DEF TweakIInv, KeyIsAccumulated

LEMMA TweakStepKeeps == TweakIInv /\ [TweakNext]_tweakVars => TweakIInv'
<1> SUFFICES ASSUME TweakIInv, [TweakNext]_tweakVars PROVE TweakIInv'
  OBVIOUS
<1>1. CASE TweakNext
  BY <1>1, PubkeyAggKeeps, EcTweakKeeps, XonlyTweakKeeps DEF TweakNext
<1>2. CASE UNCHANGED tweakVars
  BY <1>2 DEF tweakVars, TweakIInv, KeyIsAccumulated, Aggregate, Actual, HasEntry, HasEvenY, Plus,
     Times, Neg, Scalar, NonZero
<1> QED  BY <1>1, <1>2

-----------------------------------------------------------------------------
(* One signer: the sign that partial_verify() does not know is one of two. *)
LEMMA PartialVerifies ==
  ASSUME TweakIInv, HasEntry, NEW i \in Signers, NEW k \in Scalar, NEW R, NEW e \in NonZero
  PROVE  PartialVerify(i, PartialSign(i, k, R, e), k, R, e)
<1> DEFINE by(z) == IF Q_negated THEN Neg(z) ELSE z
           ec == Times(e, coef[i])
           kk == IF HasEvenY(R) THEN k ELSE Neg(k)
<1>1. /\ d[i] \in Scalar /\ coef[i] \in Scalar /\ e \in Scalar /\ gacc \in Scalar /\ Q_negated \in BOOLEAN
      /\ ec \in Scalar
  BY NonZeroType, ZeroAndOne, TimesSign, TimesLaws DEF TweakIInv, KeyIsAccumulated
<1>2. Times(ec, gacc) \in Scalar /\ Times(d[i], gacc) \in Scalar /\ Times(Times(ec, gacc), d[i]) \in Scalar
  BY <1>1, TimesLaws
<1> HIDE DEF ec
<1>3. Times(ec, Times(by(d[i]), gacc)) = by(Times(Times(ec, gacc), d[i]))
  <2>1. Times(ec, Times(by(d[i]), gacc)) = by(Times(ec, Times(d[i], gacc)))
    BY <1>1, <1>2, SignMoves
  <2>2. Times(ec, Times(d[i], gacc)) = Times(Times(ec, gacc), d[i])
    <3>1. Times(d[i], gacc) = Times(gacc, d[i])
      BY <1>1, TimesLaws
    <3> QED  BY <1>1, <3>1, TimesAssociates
  <2> QED  BY <2>1, <2>2
<1>4. Times(Times(by(ec), gacc), d[i]) = by(Times(Times(ec, gacc), d[i]))
  BY <1>1, <1>2, SignMoves
<1> DEFINE x == Times(by(ec), gacc)
<1>5. x \in Scalar
  BY <1>1, SignMoves, TimesLaws
<1> HIDE DEF x
<1>6. Times(x, Even(d[i])) = Times(x, d[i]) \/ Neg(Times(x, Even(d[i]))) = Times(x, d[i])
  BY <1>1, <1>5, TimesLaws, PlusLaws DEF Even
<1>7. PartialSign(i, k, R, e) = Plus(kk, Times(x, d[i]))
  BY <1>3, <1>4 DEF PartialSign, ec, x
<1> QED  BY <1>6, <1>7 DEF PartialVerify, ec, x

(* All signers: what they add up to, by linearity.                         *)
LEMMA AggregateVerifies ==
  ASSUME TweakIInv, HasEntry, NEW k \in [Signers -> Scalar], NEW e \in NonZero, Sum(k) # 0
  PROVE  SchnorrVerify(PartialSigAgg([i \in Signers |-> PartialSign(i, k[i], Sum(k), e)], e),
                       Sum(k), Actual, e)
<1> DEFINE R == Sum(k)
           by(z) == IF Q_negated THEN Neg(z) ELSE z
           g == by(gacc)
           eg == Times(e, g)
           f == [i \in Signers |-> Times(coef[i], d[i])]
           kk == [i \in Signers |-> IF HasEvenY(R) THEN k[i] ELSE Neg(k[i])]
           ef == [i \in Signers |-> Times(eg, f[i])]
           psigs == [i \in Signers |-> PartialSign(i, k[i], R, e)]
<1>1. /\ e \in Scalar /\ gacc \in Scalar /\ Q_negated \in BOOLEAN /\ g \in Scalar /\ eg \in Scalar
      /\ \A i \in Signers : d[i] \in Scalar /\ coef[i] \in Scalar /\ f[i] \in Scalar /\ k[i] \in Scalar
  <2>1. /\ e \in Scalar /\ gacc \in Scalar /\ Q_negated \in BOOLEAN
        /\ \A i \in Signers : d[i] \in Scalar /\ coef[i] \in Scalar /\ k[i] \in Scalar
    BY NonZeroType, ZeroAndOne, TimesSign DEF TweakIInv, KeyIsAccumulated
  <2>2. g \in Scalar
    BY <2>1, SignMoves
  <2> QED  BY <2>1, <2>2, TimesLaws
<1>2. ASSUME NEW i \in Signers
      PROVE  Times(Times(e, coef[i]), Times(by(d[i]), gacc)) = Times(eg, f[i])
  <2>1. Times(by(d[i]), gacc) = Times(g, d[i])
    <3>1. Times(by(d[i]), gacc) = by(Times(d[i], gacc)) /\ Times(g, d[i]) = by(Times(gacc, d[i]))
      BY <1>1, SignMoves
    <3> QED  BY <1>1, <3>1, TimesLaws
  <2> HIDE DEF g
  <2>2. Times(Times(e, coef[i]), Times(g, d[i])) = Times(Times(e, g), Times(coef[i], d[i]))
    BY <1>1, TimesSwaps
  <2> QED  BY <2>1, <2>2
<1>3. \A i \in Signers : psigs[i] = Plus(kk[i], ef[i])
  BY <1>2 DEF PartialSign
<1>4. \A i \in Signers : kk[i] \in Scalar /\ ef[i] \in Scalar
  BY <1>1, TimesLaws, PlusLaws
<1>5. IsFiniteSet(Signers)
  BY MusigTweakAssumption
<1>6. ModSum(kk, Signers) = Even(R)
  <2>1. R = ModSum(k, Signers)
    BY SumIsModSum
  <2>2. CASE HasEvenY(R)
    <3>1. \A i \in Signers : kk[i] \in Scalar /\ kk[i] = k[i]
      BY <1>1, <2>2
    <3> HIDE DEF R, kk
    <3>2. ModSum(kk, Signers) = ModSum(k, Signers)
      BY <1>5, <3>1, ModSumSame
    <3> QED  BY <2>1, <2>2, <3>2 DEF Even
  <2>3. CASE ~HasEvenY(R)
    <3>1. \A i \in Signers : k[i] \in Scalar /\ kk[i] = Neg(k[i])
      BY <1>1, <2>3
    <3> HIDE DEF R, kk
    <3>2. ModSum(kk, Signers) = Neg(ModSum(k, Signers))
      BY <1>5, <3>1, ModSumNeg
    <3> QED  BY <2>1, <2>3, <3>2 DEF Even
  <2> QED  BY <2>2, <2>3
<1>7. ModSum(ef, Signers) = Times(eg, Aggregate)
  <2>1. Aggregate = Sum(f) /\ DOMAIN f = Signers
    BY DEF Aggregate
  <2>2. \A i \in Signers : f[i] \in Scalar /\ ef[i] = Times(eg, f[i])
    BY <1>1
  <2> HIDE DEF f, ef, eg
  <2>3. Sum(f) = ModSum(f, Signers)
    BY <2>1, SumIsModSum
  <2>4. ModSum(ef, Signers) = Times(eg, ModSum(f, Signers))
    BY <1>1, <1>5, <2>2, ModSumTimes
  <2> QED  BY <2>1, <2>3, <2>4
<1>8. Sum(psigs) = Plus(Even(R), Times(eg, Aggregate))
  <2>1. DOMAIN psigs = Signers
    OBVIOUS
  <2> HIDE DEF psigs, kk, ef
  <2>2. Sum(psigs) = ModSum(psigs, Signers)
    BY <2>1, SumIsModSum
  <2>3. ModSum(psigs, Signers) = Plus(ModSum(kk, Signers), ModSum(ef, Signers))
    BY <1>3, <1>4, <1>5, ModSumPlus
  <2> QED  BY <1>6, <1>7, <2>2, <2>3
<1>9. Even(R) \in Scalar
  <2>1. \A i \in Signers : kk[i] \in Scalar
    BY <1>4
  <2> HIDE DEF kk, R
  <2> QED  BY <1>5, <1>6, <2>1, ModSumTakes
<1> DEFINE t == by(tacc)
           G == Times(g, Aggregate)
<1>10. /\ t \in Scalar /\ G \in Scalar /\ Q = Plus(G, t) /\ Aggregate \in Scalar
  BY SignTakenAway, AggregateIsScalar
<1>11. Even(Actual) = Q
  <2>1. Q \in NonZero /\ HasEvenY(Q)
    BY DEF TweakIInv, KeyIsAccumulated
  <2>2. CASE ~Q_negated
    BY <2>1, <2>2 DEF Actual, Even
  <2>3. CASE Q_negated
    <3>1. Neg(Q) = Order - Q /\ Q \in Scalar /\ Q # 0 /\ Neg(Neg(Q)) = Q
      BY <2>1, NonZeroType, NegAsCases, PlusLaws
    <3>2. ~HasEvenY(Neg(Q))
      <4>1. Q \in Int /\ Q <= Order \div 2 /\ Order \div 2 \in Int /\ Order \in Int
        BY <2>1, <3>1, HalfOfOrder, OrderType, ScalarType DEF HasEvenY
      <4>2. ~(Order - Q <= Order \div 2)
        BY <4>1, OddHalf
      <4> QED  BY <3>1, <4>2 DEF HasEvenY
    <3> QED  BY <2>3, <3>1, <3>2 DEF Actual, Even
  <2> QED  BY <2>2, <2>3
<1>12. Plus(Times(eg, Aggregate), Times(e, t)) = Times(e, Q)
  <2> HIDE DEF g, t
  <2>1. Times(eg, Aggregate) = Times(e, G)
    BY <1>1, <1>10, TimesAssociates
  <2>2. Times(e, Plus(G, t)) = Plus(Times(e, G), Times(e, t))
    BY <1>1, <1>10, TimesDistributes
  <2> QED  BY <1>10, <2>1, <2>2
<1>13. PartialSigAgg(psigs, e) = Plus(Plus(Even(R), Times(eg, Aggregate)), Times(e, t))
  BY <1>8 DEF PartialSigAgg, TweakTerm
<1>14. PartialSigAgg(psigs, e) = Plus(Even(R), Times(e, Q))
  <2>1. Times(eg, Aggregate) \in Scalar /\ Times(e, t) \in Scalar
    BY <1>1, <1>10, TimesLaws
  <2> HIDE DEF eg, t, R, psigs
  <2> QED  BY <1>9, <1>12, <1>13, <2>1, PlusAssociates
<1> HIDE DEF psigs
<1>15. SchnorrVerify(PartialSigAgg(psigs, e), R, Actual, e)
  BY <1>11, <1>14 DEF SchnorrVerify
<1> QED  BY <1>15 DEF psigs

(* Whatever the keys, the coefficients and the tweaks, plain or x-only, in *)
(* any order: the key that an entry holds after them is the one that gacc  *)
(* and tacc describe, finite, with an even Y and its real sign beside it   *)
(* (what secp256k1_musig_pubkey_ec_tweak_add() and _xonly_tweak_add()      *)
(* leave), and with it every partial signature and every aggregate that    *)
(* musig2_partial_sign() and musig2_partial_sig_agg() make verifies, for   *)
(* all nonces and challenges.                                              *)
THEOREM TweakedKeySigns == TweakSpec => []TweakedSignaturesVerify
<1>1. TweakIInv => TweakedSignaturesVerify
  <2> SUFFICES ASSUME TweakIInv, HasEntry PROVE KeyIsAccumulated /\ SignaturesVerify
    BY DEF TweakedSignaturesVerify
  <2>1. KeyIsAccumulated
    BY DEF TweakIInv
  <2>2. SignaturesVerify
    <3> SUFFICES ASSUME NEW k \in [Signers -> Scalar], NEW e \in NonZero, Sum(k) # 0
                 PROVE  /\ \A i \in Signers : PartialVerify(i, PartialSign(i, k[i], Sum(k), e), k[i], Sum(k), e)
                        /\ SchnorrVerify(PartialSigAgg([i \in Signers |-> PartialSign(i, k[i], Sum(k), e)], e),
                                         Sum(k), Actual, e)
      BY DEF SignaturesVerify
    <3> QED  BY PartialVerifies, AggregateVerifies
  <2> QED  BY <2>1, <2>2
<1> QED  BY <1>1, TweakInitHolds, TweakStepKeeps, PTL DEF TweakSpec

-----------------------------------------------------------------------------
(***************************************************************************)
(* FROST: shares, interpolation and signatures.                            *)
(***************************************************************************)

(* Powers.                                                                 *)
LEMMA PowerLaws ==
  ASSUME NEW x \in Scalar
  PROVE  /\ PowerOf(x, 0) = 1
         /\ \A n \in Nat : PowerOf(x, n) \in Scalar /\ PowerOf(x, n + 1) = Times(x, PowerOf(x, n))
<1> DEFINE s == [p \in Nat \X Scalar |-> Times(x, p[2])]
           E(p) == p = [j \in Nat |-> IF j = 0 THEN 1 ELSE Times(x, p[j - 1])]
           q == CHOOSE p : E(p)
<1>1. s \in [Nat \X Scalar -> Scalar] /\ \A n \in Nat, v \in Scalar : s[<<n, v>>] = Times(x, v)
  BY TimesLaws
<1>2. PICK g : Recurs(g, Scalar, 1, s)
  <2> HIDE DEF s
  <2> QED  BY <1>1, ZeroAndOne, RecursionExists
<1>3. \A n \in Nat : g[n] \in Scalar /\ g[n + 1] = Times(x, g[n])
  <2> HIDE DEF s
  <2> QED  BY <1>1, <1>2 DEF Recurs
<1>4. E(g)
  <2>1. ASSUME NEW j \in Nat
        PROVE  g[j] = IF j = 0 THEN 1 ELSE Times(x, g[j - 1])
    <3>1. CASE j # 0
      <4>1. j - 1 \in Nat /\ (j - 1) + 1 = j
        BY <3>1
      <4> QED  BY <1>3, <3>1, <4>1
    <3> QED  BY <1>2, <3>1 DEF Recurs
  <2>2. g = [j \in Nat |-> g[j]]
    BY <1>2 DEF Recurs
  <2> QED  BY <2>1, <2>2
<1>5. E(q)
  BY <1>4, Zenon
<1>6. \A n : PowerOf(x, n) = q[n]
  BY Zenon DEF PowerOf
<1>7. q[0] = 1
  <2> HIDE DEF q
  <2> QED  BY <1>5
<1>8. ASSUME NEW n \in Nat
      PROVE  q[n + 1] = Times(x, q[n])
  <2>1. n + 1 \in Nat /\ n + 1 # 0 /\ (n + 1) - 1 = n
    OBVIOUS
  <2> HIDE DEF q
  <2> QED  BY <1>5, <2>1
<1>9. \A n \in Nat : q[n] \in Scalar
  <2> HIDE DEF q
  <2> DEFINE H == {n \in Nat : q[n] \in Scalar}
  <2>1. 0 \in H
    BY <1>7, ZeroAndOne
  <2>2. \A n \in Nat : n \in H => n + 1 \in H
    BY <1>8, TimesLaws
  <2>3. \A n \in Nat : n \in H
    <3> HIDE DEF H
    <3> QED  BY <2>1, <2>2, NumberInduction
  <2> QED  BY <2>3
<1> HIDE DEF q
<1> QED  BY <1>6, <1>7, <1>8, <1>9

-----------------------------------------------------------------------------
(* Lagrange coefficients.                                                  *)

LEMMA IdsAreNonZero == Ids \subseteq NonZero /\ Ids \subseteq Scalar /\ IsFiniteSet(Ids) /\ Cardinality(Ids) = Participants
<1>1. Ids \subseteq NonZero
  BY FrostAssumption, OrderType DEF Ids, NonZero
<1>2. Participants \in Int /\ 1 \in Int /\ Participants >= 1
  BY FrostAssumption
<1> QED  BY <1>1, <1>2, NonZeroType, FS_Interval DEF Ids

Numerator(i, S) == ProductOver([j \in Ids |-> j], S \ {i})
Denominator(i, S) == ProductOver([j \in Ids |-> Minus(j, i)], S \ {i})

LEMMA CoefficientIsQuotient ==
  ASSUME NEW S \in SUBSET Ids, NEW i \in S
  PROVE  /\ Numerator(i, S) \in Scalar /\ Denominator(i, S) \in NonZero
         /\ LagrangeCoefficient(i, S) \in Scalar
         /\ Times(LagrangeCoefficient(i, S), Denominator(i, S)) = Numerator(i, S)
<1> DEFINE T == S \ {i}
           id == [j \in Ids |-> j]
           df == [j \in Ids |-> Minus(j, i)]
           n == [j \in T |-> j]
           m == [j \in T |-> Minus(j, i)]
<1>1. IsFiniteSet(T) /\ T \subseteq Ids /\ i \in Scalar
  BY IdsAreNonZero, FS_Subset
<1>2. \A j \in T : id[j] \in Scalar /\ id[j] = n[j] /\ n[j] \in Scalar
  BY <1>1, IdsAreNonZero
<1>3. \A j \in T : df[j] \in NonZero /\ df[j] = m[j]
  BY <1>1, IdsAreNonZero, MinusIsPlusNeg, NonZeroType
<1>4. \A j \in T : df[j] \in Scalar
  BY <1>3, NonZeroType
<1>5. DOMAIN n = T /\ DOMAIN m = T
  OBVIOUS
<1> HIDE DEF id, df, n, m, T
<1>6. Product(n) = ProductOver(id, T) /\ Product(m) = ProductOver(df, T)
  <2>1. Product(n) = ProductOver(n, T) /\ Product(m) = ProductOver(m, T)
    BY <1>5, ProductIsOver
  <2>2. ProductOver(id, T) = ProductOver(n, T) /\ ProductOver(df, T) = ProductOver(m, T)
    BY <1>1, <1>2, <1>3, <1>4, ProductSame
  <2> QED  BY <2>1, <2>2
<1>7. ProductOver(df, T) \in NonZero /\ ProductOver(id, T) \in Scalar
  BY <1>1, <1>2, <1>3, ProductNonZero, ProductOverTakes
<1> DEFINE N == ProductOver(id, T)
           D == ProductOver(df, T)
<1>8. LagrangeCoefficient(i, S) = Times(N, Reciprocal(D))
  BY <1>6 DEF LagrangeCoefficient, n, m, T
<1>9. Numerator(i, S) = N /\ Denominator(i, S) = D
  BY DEF Numerator, Denominator, id, df, T
<1> HIDE DEF N, D
<1>10. N \in Scalar /\ D \in NonZero /\ D \in Scalar
  BY <1>7, NonZeroType DEF N, D
<1>11. Reciprocal(D) \in Scalar /\ Times(Reciprocal(D), D) = 1
  BY <1>10, ReciprocalLaw, NonZeroType
<1>12. Times(Times(N, Reciprocal(D)), D) = N /\ Times(N, Reciprocal(D)) \in Scalar
  BY <1>10, <1>11, TimesAssociates, TimesLaws
<1> QED  BY <1>8, <1>9, <1>10, <1>12

(* One participant less.                                                   *)
LEMMA CoefficientRemoves ==
  ASSUME NEW S \in SUBSET Ids, NEW a \in S, NEW j \in S, a # j
  PROVE  /\ Minus(a, j) \in Scalar
         /\ Times(Minus(a, j), LagrangeCoefficient(j, S)) = Times(a, LagrangeCoefficient(j, S \ {a}))
<1> DEFINE U == S \ {a}
           m == Minus(a, j)
           x == LagrangeCoefficient(j, S)
           y == LagrangeCoefficient(j, U)
           D == Denominator(j, U)
           N == Numerator(j, U)
<1>1. U \in SUBSET Ids /\ j \in U /\ a \in Scalar /\ j \in Scalar /\ a \in Ids /\ j \in Ids
  BY IdsAreNonZero
<1>2. m \in NonZero /\ m \in Scalar
  BY <1>1, MinusIsPlusNeg, NonZeroType
<1>3. Numerator(j, S) = Times(a, N) /\ Denominator(j, S) = Times(m, D)
  <2> DEFINE T == S \ {j}
             id == [l \in Ids |-> l]
             df == [l \in Ids |-> Minus(l, j)]
  <2>1. IsFiniteSet(T) /\ T \subseteq Ids /\ a \in T /\ T \ {a} = U \ {j}
    BY IdsAreNonZero, FS_Subset
  <2>2. (\A l \in T : id[l] \in Scalar) /\ (\A l \in T : df[l] \in Scalar) /\ id[a] = a /\ df[a] = m
    BY <1>1, <2>1, IdsAreNonZero, MinusIsPlusNeg
  <2> HIDE DEF id, df, T, m, U
  <2>3. ProductOver(id, T) = Times(id[a], ProductOver(id, T \ {a}))
    BY <2>1, <2>2, ProductOverTakes
  <2>4. ProductOver(df, T) = Times(df[a], ProductOver(df, T \ {a}))
    BY <2>1, <2>2, ProductOverTakes
  <2> QED  BY <2>1, <2>2, <2>3, <2>4 DEF Numerator, Denominator, id, df, T
<1>4. /\ x \in Scalar /\ Times(x, Times(m, D)) = Times(a, N)
      /\ y \in Scalar /\ Times(y, D) = N /\ D \in NonZero /\ N \in Scalar /\ D \in Scalar
  BY <1>1, <1>3, CoefficientIsQuotient, NonZeroType
<1> HIDE DEF x, y, D, N, m
<1>5. Times(D, Times(m, x)) = Times(D, Times(a, y))
  <2>1. Times(D, Times(m, x)) = Times(Times(m, x), D) /\ Times(m, x) = Times(x, m)
        /\ Times(D, Times(a, y)) = Times(Times(a, y), D)
    BY <1>1, <1>2, <1>4, TimesLaws
  <2>2. Times(Times(x, m), D) = Times(x, Times(m, D)) /\ Times(Times(a, y), D) = Times(a, Times(y, D))
    BY <1>1, <1>2, <1>4, TimesAssociates
  <2> QED  BY <1>4, <2>1, <2>2
<1>6. Times(m, x) \in Scalar /\ Times(a, y) \in Scalar
  BY <1>1, <1>2, <1>4, TimesLaws
<1>7. Times(m, x) = Times(a, y)
  BY <1>4, <1>5, <1>6, TimesCancels
<1> QED  BY <1>2, <1>7 DEF m, x, y

-----------------------------------------------------------------------------
(* Interpolation at 0 of the powers.                                       *)

Moment(m, S) == ModSum([j \in Ids |-> Times(LagrangeCoefficient(j, S), PowerOf(j, m))], S)

LEMMA MomentType ==
  ASSUME NEW S \in SUBSET Ids, NEW m \in Nat
  PROVE  /\ Moment(m, S) \in Scalar
         /\ \A j \in S : /\ LagrangeCoefficient(j, S) \in Scalar /\ PowerOf(j, m) \in Scalar
                         /\ Times(LagrangeCoefficient(j, S), PowerOf(j, m)) \in Scalar
<1> DEFINE f == [j \in Ids |-> Times(LagrangeCoefficient(j, S), PowerOf(j, m))]
<1>1. \A j \in S : LagrangeCoefficient(j, S) \in Scalar /\ PowerOf(j, m) \in Scalar
  BY CoefficientIsQuotient, PowerLaws, IdsAreNonZero
<1>2. \A j \in S : Times(LagrangeCoefficient(j, S), PowerOf(j, m)) \in Scalar
  BY <1>1, TimesLaws
<1>3. (\A j \in S : f[j] \in Scalar) /\ IsFiniteSet(S)
  BY <1>2, IdsAreNonZero, FS_Subset
<1> HIDE DEF f
<1>4. ModSum(f, S) \in Scalar
  BY <1>3, ModSumTakes
<1> QED  BY <1>1, <1>2, <1>4 DEF Moment, f

LEMMA MomentStep ==
  ASSUME NEW S \in SUBSET Ids, NEW a \in S, NEW m \in Nat
  PROVE  Times(a, Moment(m, S)) = Plus(Moment(m + 1, S), Times(a, Moment(m, S \ {a})))
<1> DEFINE U == S \ {a}
           L(j) == LagrangeCoefficient(j, S)
           f == [j \in Ids |-> Times(L(j), PowerOf(j, m))]
           g == [j \in Ids |-> Times(L(j), PowerOf(j, m + 1))]
           u == [j \in Ids |-> Times(LagrangeCoefficient(j, U), PowerOf(j, m))]
           af == [j \in Ids |-> Times(a, f[j])]
           h == [j \in Ids |-> Times(Minus(a, j), f[j])]
<1>1. IsFiniteSet(S) /\ IsFiniteSet(U) /\ U \in SUBSET Ids /\ a \in Scalar /\ m + 1 \in Nat
  BY IdsAreNonZero, FS_Subset
<1>2. \A j \in S : /\ j \in Scalar /\ Minus(a, j) \in Scalar /\ L(j) \in Scalar
                   /\ PowerOf(j, m) \in Scalar /\ PowerOf(j, m + 1) = Times(j, PowerOf(j, m))
                   /\ f[j] \in Scalar /\ g[j] \in Scalar /\ af[j] \in Scalar /\ h[j] \in Scalar
  <2> SUFFICES ASSUME NEW j \in S
               PROVE  /\ j \in Scalar /\ Minus(a, j) \in Scalar /\ L(j) \in Scalar
                      /\ PowerOf(j, m) \in Scalar /\ PowerOf(j, m + 1) = Times(j, PowerOf(j, m))
                      /\ f[j] \in Scalar /\ g[j] \in Scalar /\ af[j] \in Scalar /\ h[j] \in Scalar
    OBVIOUS
  <2>1. j \in Scalar /\ j \in Ids
    BY IdsAreNonZero
  <2>2. Minus(a, j) \in Scalar
    BY <1>1, <2>1, MinusIsPlusNeg
  <2>3. PowerOf(j, m) \in Scalar /\ PowerOf(j, m + 1) = Times(j, PowerOf(j, m))
    BY <2>1, PowerLaws
  <2>4. L(j) \in Scalar /\ f[j] \in Scalar /\ g[j] \in Scalar
    BY <1>1, <2>1, MomentType
  <2> HIDE DEF f, g, L
  <2> QED  BY <1>1, <2>1, <2>2, <2>3, <2>4, TimesLaws
<1>3. ASSUME NEW j \in S
      PROVE  af[j] = Plus(g[j], h[j])
  <2>1. j \in Ids /\ j \in Scalar /\ L(j) \in Scalar /\ PowerOf(j, m) \in Scalar /\ f[j] \in Scalar
        /\ Neg(j) \in Scalar
    BY <1>2, PlusLaws
  <2>2. Plus(j, Minus(a, j)) = a
    <3>1. Minus(a, j) = Plus(a, Neg(j))
      BY <1>1, <2>1, MinusIsPlusNeg
    <3>2. Plus(j, Plus(Neg(j), a)) = Plus(Plus(j, Neg(j)), a) /\ Plus(a, Neg(j)) = Plus(Neg(j), a)
          /\ Plus(j, Neg(j)) = 0 /\ Plus(0, a) = a
      BY <1>1, <2>1, PlusAssociates, PlusLaws
    <3> QED  BY <3>1, <3>2
  <2>3. g[j] = Times(j, f[j])
    <3>1. g[j] = Times(L(j), Times(j, PowerOf(j, m))) /\ f[j] = Times(L(j), PowerOf(j, m))
      BY <1>2, <2>1
    <3>2. Times(L(j), Times(j, PowerOf(j, m))) = Times(Times(L(j), j), PowerOf(j, m))
          /\ Times(Times(j, L(j)), PowerOf(j, m)) = Times(j, Times(L(j), PowerOf(j, m)))
          /\ Times(L(j), j) = Times(j, L(j))
      BY <2>1, TimesAssociates, TimesLaws
    <3> QED  BY <3>1, <3>2
  <2>4. af[j] = Times(a, f[j]) /\ h[j] = Times(Minus(a, j), f[j])
    BY <2>1
  <2>5. Times(Plus(j, Minus(a, j)), f[j]) = Plus(Times(j, f[j]), Times(Minus(a, j), f[j]))
    <3> DEFINE v == f[j]
    <3>1. v \in Scalar /\ Minus(a, j) \in Scalar /\ j \in Scalar
      BY <1>2, <2>1
    <3> HIDE DEF v, f
    <3>2. Times(Plus(j, Minus(a, j)), v) = Plus(Times(j, v), Times(Minus(a, j), v))
      BY <3>1, TimesDistributes
    <3> QED  BY <3>2 DEF v
  <2> QED  BY <2>2, <2>3, <2>4, <2>5
<1>4. ASSUME NEW j \in U
      PROVE  u[j] \in Scalar /\ h[j] = Times(a, u[j])
  <2> DEFINE l == LagrangeCoefficient(j, U)
             p == PowerOf(j, m)
  <2>1. j \in S /\ j \in Ids /\ a # j
    BY <1>1
  <2>2. l \in Scalar /\ p \in Scalar /\ u[j] \in Scalar /\ u[j] = Times(l, p)
    BY <1>1, <2>1, MomentType
  <2>3. Times(Minus(a, j), L(j)) = Times(a, l) /\ Minus(a, j) \in Scalar /\ L(j) \in Scalar
    BY <1>2, <2>1, CoefficientRemoves
  <2>4. h[j] = Times(Minus(a, j), Times(L(j), p))
    BY <2>1
  <2> HIDE DEF l, p, u, h, L
  <2>5. Times(Minus(a, j), Times(L(j), p)) = Times(Times(Minus(a, j), L(j)), p)
        /\ Times(Times(a, l), p) = Times(a, Times(l, p))
    BY <1>1, <2>2, <2>3, TimesAssociates
  <2> QED  BY <2>2, <2>3, <2>4, <2>5
<1>5. h[a] = 0
  <2>1. Minus(a, a) = 0 /\ h[a] = Times(Minus(a, a), f[a])
    BY <1>1, MinusIsPlusNeg
  <2> QED  BY <1>2, <2>1, TimesLaws
<1>6. ModSum(af, S) = Times(a, ModSum(f, S))
  <2>1. \A j \in S : f[j] \in Scalar /\ af[j] = Times(a, f[j])
    BY <1>2
  <2> HIDE DEF f, af
  <2> QED  BY <1>1, <2>1, ModSumTimes
<1>7. ModSum(af, S) = Plus(ModSum(g, S), ModSum(h, S))
  <2>1. \A j \in S : g[j] \in Scalar /\ h[j] \in Scalar /\ af[j] = Plus(g[j], h[j])
    BY <1>2, <1>3
  <2> HIDE DEF g, h, af
  <2> QED  BY <1>1, <2>1, ModSumPlus
<1>8. ModSum(h, U) = Times(a, ModSum(u, U)) /\ ModSum(h, U) \in Scalar
  <2>1. \A j \in U : u[j] \in Scalar /\ h[j] \in Scalar /\ h[j] = Times(a, u[j])
    BY <1>2, <1>4
  <2> HIDE DEF u, h, U
  <2> QED  BY <1>1, <2>1, ModSumTimes, ModSumTakes
<1>9. ModSum(h, S) = ModSum(h, U)
  <2>1. \A j \in S : h[j] \in Scalar
    BY <1>2
  <2> HIDE DEF h
  <2>2. ModSum(h, S) = Plus(h[a], ModSum(h, S \ {a}))
    BY <1>1, <2>1, ModSumTakes
  <2> QED  BY <1>5, <1>8, <2>2, PlusLaws
<1>10. Moment(m, S) = ModSum(f, S) /\ Moment(m + 1, S) = ModSum(g, S) /\ Moment(m, U) = ModSum(u, U)
  BY DEF Moment
<1> HIDE DEF f, g, h, u, af, U
<1> QED  BY <1>6, <1>7, <1>8, <1>9, <1>10 DEF U

LEMMA MomentOfZero ==
  ASSUME NEW S \in SUBSET Ids, S # {}
  PROVE  Moment(0, S) = 1
<1> DEFINE H == {T \in SUBSET Ids : T # {} => Moment(0, T) = 1}
<1>1. ASSUME NEW T \in SUBSET Ids, \A U \in SUBSET T : U # T => U \in H
      PROVE  T \in H
  <2> SUFFICES ASSUME T # {} PROVE Moment(0, T) = 1
    OBVIOUS
  <2>1. PICK a \in T : TRUE
    OBVIOUS
  <2>2. CASE T = {a}
    <3> DEFINE f == [j \in Ids |-> Times(LagrangeCoefficient(j, T), PowerOf(j, 0))]
    <3>1. T \ {a} = {} /\ a \in Ids /\ a \in Scalar
      BY <2>1, <2>2, IdsAreNonZero
    <3>2. Numerator(a, T) = 1 /\ Denominator(a, T) = 1
      BY <3>1, ProductOverNothing DEF Numerator, Denominator
    <3>3. LagrangeCoefficient(a, T) \in Scalar /\ Times(LagrangeCoefficient(a, T), 1) = 1
      BY <2>1, <3>2, CoefficientIsQuotient
    <3>4. f[a] = 1 /\ \A j \in T : f[j] \in Scalar
      BY <2>2, <3>1, <3>3, PowerLaws, ZeroAndOne
    <3>5. IsFiniteSet(T)
      BY IdsAreNonZero, FS_Subset
    <3> HIDE DEF f
    <3>6. ModSum(f, T) = Plus(f[a], ModSum(f, T \ {a})) /\ ModSum(f, {}) = 0
      BY <2>1, <3>4, <3>5, ModSumTakes, ModSumNothing
    <3> QED  BY <3>1, <3>4, <3>6, ZeroAndOne, PlusLaws DEF Moment, f
  <2>3. CASE T # {a}
    <3>1. PICK b \in T : b # a
      BY <2>1, <2>3
    <3>2. Moment(0, T \ {a}) = 1 /\ Moment(0, T \ {b}) = 1
      BY <1>1, <2>1, <3>1
    <3> DEFINE x == Moment(0, T)
               y == Moment(1, T)
               m == Minus(a, b)
    <3>3. /\ a \in Scalar /\ b \in Scalar /\ x \in Scalar /\ y \in Scalar /\ 0 + 1 = 1
          /\ 0 \in Nat /\ 1 \in Nat
      BY <2>1, <3>1, IdsAreNonZero, MomentType
    <3>4. Times(a, x) = Plus(y, a) /\ Times(b, x) = Plus(y, b)
      <4>1. /\ Times(a, x) = Plus(y, Times(a, Moment(0, T \ {a})))
            /\ Times(b, x) = Plus(y, Times(b, Moment(0, T \ {b})))
        BY <2>1, <3>1, <3>3, MomentStep
      <4> QED  BY <3>2, <3>3, <4>1, TimesLaws
    <3>5. m \in NonZero /\ m \in Scalar /\ m = Plus(a, Neg(b)) /\ Neg(b) \in Scalar
      <4>1. Minus(a, b) = Plus(a, Neg(b)) /\ Minus(a, b) \in Scalar /\ Minus(a, b) # 0
        BY <3>1, <3>3, MinusIsPlusNeg
      <4>2. Neg(b) \in Scalar
        BY <3>3, PlusLaws
      <4> QED  BY <4>1, <4>2, NonZeroType
    <3> HIDE DEF x, y, m
    <3>6. Times(m, x) = m
      <4>1. Times(m, x) = Plus(Times(a, x), Neg(Times(b, x)))
        BY <3>3, <3>5, TimesDistributes, TimesLaws
      <4>2. Neg(Plus(y, b)) = Plus(Neg(y), Neg(b)) /\ Neg(y) \in Scalar /\ Plus(y, Neg(y)) = 0
        BY <3>3, PlusLaws
      <4>3. Plus(Plus(y, a), Plus(Neg(y), Neg(b))) = Plus(Plus(y, Neg(y)), Plus(a, Neg(b)))
        BY <3>3, <3>5, <4>2, PlusSwaps
      <4> QED  BY <3>4, <3>5, <4>1, <4>2, <4>3, PlusLaws
    <3>7. Times(m, x) = Times(m, 1)
      BY <3>5, <3>6, TimesLaws
    <3> QED  BY <3>3, <3>5, <3>7, ZeroAndOne, TimesCancels DEF x
  <2> QED  BY <2>2, <2>3
<1>2. Ids \in H /\ S \in H
  <2>1. \A T \in SUBSET S : (\A U \in SUBSET T : U # T => U \in H) => T \in H
    BY <1>1
  <2>2. \A T \in SUBSET Ids : (\A U \in SUBSET T : U # T => U \in H) => T \in H
    BY <1>1
  <2>3. IsFiniteSet(S)
    BY IdsAreNonZero, FS_Subset
  <2> HIDE DEF H
  <2> QED  BY <2>1, <2>2, <2>3, IdsAreNonZero, SetInduction
<1> QED  BY <1>2

LEMMA MomentOfMore ==
  ASSUME NEW m \in Nat, NEW S \in SUBSET Ids, Cardinality(S) > m + 1
  PROVE  Moment(m + 1, S) = 0
<1> DEFINE H == {n \in Nat : \A T \in SUBSET Ids : Cardinality(T) > n + 1 => Moment(n + 1, T) = 0}
<1>1. ASSUME NEW n \in Nat, NEW T \in SUBSET Ids, Cardinality(T) > n + 1,
             \A a \in T : Moment(n, T) = Moment(n, T \ {a})
      PROVE  Moment(n + 1, T) = 0
  <2>1. IsFiniteSet(T) /\ Cardinality(T) \in Nat
    BY IdsAreNonZero, FS_Subset, FS_CardinalityType
  <2>2. T # {}
    BY <1>1, <2>1, FS_EmptySet
  <2>3. PICK a \in T : TRUE
    BY <2>2
  <2> DEFINE x == Times(a, Moment(n, T))
             y == Moment(n + 1, T)
  <2>4. x = Plus(y, x)
    <3>1. Times(a, Moment(n, T)) = Plus(Moment(n + 1, T), Times(a, Moment(n, T \ {a})))
      BY <2>3, MomentStep
    <3>2. Moment(n, T \ {a}) = Moment(n, T)
      BY <1>1, <2>3
    <3> QED  BY <3>1, <3>2
  <2>5. x \in Scalar /\ y \in Scalar
    <3>1. Moment(n, T) \in Scalar /\ y \in Scalar /\ a \in Scalar
      BY <2>3, MomentType, IdsAreNonZero
    <3> QED  BY <3>1, TimesLaws
  <2> HIDE DEF x, y
  <2>6. Plus(x, y) = Plus(x, 0)
    BY <2>4, <2>5, PlusLaws
  <2> QED  BY <2>5, <2>6, ZeroAndOne, PlusCancels DEF y
<1>2. ASSUME NEW T \in SUBSET Ids, NEW n \in Nat, Cardinality(T) > n + 1, NEW a \in T
      PROVE  T \ {a} \in SUBSET Ids /\ Cardinality(T \ {a}) > n
  <2>1. IsFiniteSet(T) /\ Cardinality(T) \in Nat
    BY IdsAreNonZero, FS_Subset, FS_CardinalityType
  <2>2. Cardinality(T \ {a}) = Cardinality(T) - 1
    BY <2>1, FS_RemoveElement
  <2> QED  BY <1>2, <2>1, <2>2
<1>3. 0 \in H
  <2> SUFFICES ASSUME NEW T \in SUBSET Ids, Cardinality(T) > 0 + 1 PROVE Moment(0 + 1, T) = 0
    OBVIOUS
  <2>1. ASSUME NEW a \in T
        PROVE  Moment(0, T) = Moment(0, T \ {a})
    <3>1. T \ {a} \in SUBSET Ids /\ Cardinality(T \ {a}) > 0
      BY <1>2
    <3>2. T \ {a} # {} /\ T # {}
      BY <3>1, FS_EmptySet
    <3> QED  BY <3>1, <3>2, MomentOfZero
  <2> QED  BY <1>1, <2>1
<1>4. ASSUME NEW n \in Nat, n \in H PROVE n + 1 \in H
  <2> SUFFICES ASSUME NEW T \in SUBSET Ids, Cardinality(T) > (n + 1) + 1
               PROVE  Moment((n + 1) + 1, T) = 0
    OBVIOUS
  <2>0. n + 1 \in Nat /\ Cardinality(T) > n + 1
    <3>1. Cardinality(T) \in Nat
      BY IdsAreNonZero, FS_Subset, FS_CardinalityType
    <3> QED  BY <3>1
  <2>1. ASSUME NEW a \in T
        PROVE  Moment(n + 1, T) = Moment(n + 1, T \ {a})
    <3>1. T \ {a} \in SUBSET Ids /\ Cardinality(T \ {a}) > n + 1
      BY <1>2, <2>0
    <3> QED  BY <1>4, <2>0, <3>1
  <2> QED  BY <1>1, <2>0, <2>1
<1>5. \A n \in Nat : n \in H
  <2> HIDE DEF H
  <2> QED  BY <1>3, <1>4, NumberInduction
<1> QED  BY <1>5

(* Any quorum interpolates the constant term of a polynomial.              *)
LEMMA PolynomialInterpolates ==
  ASSUME NEW f \in [1..Threshold -> Scalar], NEW S \in SUBSET Ids, Cardinality(S) >= Threshold
  PROVE  /\ \A i \in Ids : Evaluate(f, i) \in Scalar
         /\ ModSum([i \in S |-> Times(LagrangeCoefficient(i, S), Evaluate(f, i))], S) = f[1]
<1> DEFINE J == 1..Threshold
           L(i) == LagrangeCoefficient(i, S)
           e(i) == [j \in J |-> Times(f[j], PowerOf(i, j - 1))]
           mat == [i \in S |-> [j \in J |-> Times(L(i), Times(f[j], PowerOf(i, j - 1)))]]
           tam == [j \in J |-> [i \in S |-> mat[i][j]]]
           row == [i \in S |-> Times(L(i), Evaluate(f, i))]
           column == [j \in J |-> Times(f[j], Moment(j - 1, S))]
<1>0. Threshold \in Nat /\ Threshold >= 2 /\ \A j \in J : j \in Nat /\ j >= 1 /\ j <= Threshold /\ j - 1 \in Nat
  BY FrostAssumption
<1>1. IsFiniteSet(S) /\ IsFiniteSet(J) /\ Cardinality(S) \in Nat
  <2>1. Threshold \in Int /\ 1 \in Int
    BY <1>0
  <2>2. IsFiniteSet(J)
    BY <2>1, FS_Interval
  <2> QED  BY <2>2, IdsAreNonZero, FS_Subset, FS_CardinalityType
<1>2. \A j \in J : f[j] \in Scalar
  OBVIOUS
<1>3. ASSUME NEW i \in Ids
      PROVE  /\ \A j \in J : PowerOf(i, j - 1) \in Scalar /\ e(i)[j] \in Scalar
             /\ Evaluate(f, i) = ModSum(e(i), J) /\ Evaluate(f, i) \in Scalar
  <2>1. i \in Scalar
    BY IdsAreNonZero
  <2>2. \A j \in J : PowerOf(i, j - 1) \in Scalar
    BY <1>0, <2>1, PowerLaws
  <2>3. \A j \in J : e(i)[j] \in Scalar
    BY <1>2, <2>2, TimesLaws
  <2> DEFINE g == e(i)
  <2>4. Evaluate(f, i) = Sum(g) /\ DOMAIN g = J
    BY DEF Evaluate
  <2>5. \A j \in J : g[j] \in Scalar
    BY <2>3
  <2> HIDE DEF g, J
  <2>6. Evaluate(f, i) = ModSum(g, J) /\ ModSum(g, J) \in Scalar
    BY <1>1, <2>4, <2>5, SumIsModSum, ModSumTakes
  <2> QED  BY <2>2, <2>3, <2>6 DEF g
<1>4. \A i \in S : i \in Ids /\ L(i) \in Scalar
  BY CoefficientIsQuotient
<1>5. \A i \in S, j \in J : mat[i][j] \in Scalar
  <2> TAKE i \in S, j \in J
  <2>1. e(i)[j] \in Scalar /\ L(i) \in Scalar /\ mat[i][j] = Times(L(i), e(i)[j])
    BY <1>3, <1>4
  <2> HIDE DEF e, L
  <2> QED  BY <2>1, TimesLaws
<1>6. ASSUME NEW i \in S
      PROVE  row[i] = ModSum(mat[i], J)
  <2> DEFINE g == e(i)
             h == mat[i]
  <2>1. L(i) \in Scalar /\ \A j \in J : g[j] \in Scalar /\ h[j] = Times(L(i), g[j])
    BY <1>3, <1>4
  <2>2. row[i] = Times(L(i), ModSum(g, J))
    BY <1>3, <1>4
  <2> HIDE DEF g, h, J, L
  <2>3. ModSum(h, J) = Times(L(i), ModSum(g, J))
    BY <1>1, <2>1, ModSumTimes
  <2> QED  BY <2>2, <2>3 DEF h
<1>7. ASSUME NEW j \in J
      PROVE  column[j] = ModSum(tam[j], S)
  <2> DEFINE g == [i \in Ids |-> Times(L(i), PowerOf(i, j - 1))]
             h == tam[j]
  <2>1. ASSUME NEW i \in S
        PROVE  g[i] \in Scalar /\ h[i] = Times(f[j], g[i])
    <3> DEFINE p == PowerOf(i, j - 1)
    <3>1. L(i) \in Scalar /\ p \in Scalar /\ f[j] \in Scalar /\ g[i] = Times(L(i), p)
          /\ h[i] = Times(L(i), Times(f[j], p))
      BY <1>2, <1>3, <1>4
    <3> HIDE DEF p, L, g, h
    <3>2. Times(L(i), Times(f[j], p)) = Times(Times(L(i), f[j]), p)
          /\ Times(Times(f[j], L(i)), p) = Times(f[j], Times(L(i), p))
          /\ Times(L(i), f[j]) = Times(f[j], L(i))
      BY <3>1, TimesAssociates, TimesLaws
    <3> QED  BY <3>1, <3>2, TimesLaws
  <2>2. column[j] = Times(f[j], ModSum(g, S)) /\ f[j] \in Scalar
    BY <1>2 DEF Moment
  <2> DEFINE k == column[j]
  <2> HIDE DEF g, h, column
  <2>3. ModSum(h, S) = Times(f[j], ModSum(g, S))
    BY <1>1, <2>1, <2>2, ModSumTimes
  <2> QED  BY <2>2, <2>3 DEF h
<1>8. ModSum(row, S) = ModSum(column, J)
  <2>1. \A i \in S : \A j \in J : tam[j][i] = mat[i][j]
    OBVIOUS
  <2>2. tam \in [J -> [S -> Scalar]] /\ mat \in [S -> [J -> Scalar]]
    BY <1>5
  <2> HIDE DEF row, column, mat, tam, J, L, e
  <2>3. row = RowSums(mat, S, J) /\ column = RowSums(tam, J, S)
    BY <1>6, <1>7 DEF RowSums, row, column
  <2> QED  BY <1>1, <2>1, <2>2, <2>3, ModSumExchanged
<1>9. 1 \in J /\ column[1] = f[1]
  <2>1. 1 \in J /\ 1 - 1 = 0 /\ Cardinality(S) # 0
    BY <1>0, <1>1
  <2>2. S # {}
    BY <2>1, FS_EmptySet
  <2>3. Moment(0, S) = 1
    BY <2>2, MomentOfZero
  <2>4. column[1] = Times(f[1], 1) /\ f[1] \in Scalar
    BY <1>2, <2>1, <2>3
  <2> QED  BY <2>1, <2>4, TimesLaws
<1>10. ASSUME NEW j \in J \ {1}
       PROVE  column[j] = 0
  <2>1. j - 2 \in Nat /\ (j - 2) + 1 = j - 1 /\ Cardinality(S) > (j - 2) + 1
    BY <1>0, <1>1
  <2>2. Moment(j - 1, S) = 0
    BY <2>1, MomentOfMore
  <2>3. column[j] = Times(f[j], 0) /\ f[j] \in Scalar
    BY <1>2, <2>2
  <2> QED  BY <2>3, TimesLaws
<1>11. ModSum(column, J) = f[1]
  <2>1. \A j \in J : column[j] \in Scalar
    BY <1>2, <1>9, <1>10, ZeroAndOne
  <2>2. IsFiniteSet(J \ {1}) /\ f[1] \in Scalar
    BY <1>1, <1>2, <1>9, FS_RemoveElement
  <2> HIDE DEF column, J
  <2>3. ModSum(column, J) = Plus(column[1], ModSum(column, J \ {1}))
    BY <1>1, <1>9, <2>1, ModSumTakes
  <2>4. ModSum(column, J \ {1}) = 0
    BY <1>10, <2>2, ModSumOfZeros
  <2> QED  BY <1>9, <2>2, <2>3, <2>4, PlusLaws
<1> QED  BY <1>3, <1>8, <1>11

-----------------------------------------------------------------------------
(* Key generation.                                                         *)

AllBegun == \A i \in Ids : poly[i] # NoValue

(* What keygen_finalize() hands out, whoever calls it.                     *)
PackageOf(polynomials, i) ==
  [signing_share |-> Sum([j \in Ids |-> Evaluate(polynomials[j], i)]),
   group_public_key |-> Sum([j \in Ids |-> polynomials[j][1]])]

Package(i) == PackageOf(poly, i)

FrostIInv ==
  /\ poly \in [Ids -> Polynomials \cup {NoValue}]
  /\ DOMAIN pkg = Ids
  /\ \A i \in Ids : pkg[i] # NoValue => AllBegun /\ pkg[i] = Package(i)

LEMMA DeliveredOf ==
  ASSUME NEW X, NEW right \in [Ids -> X], Len(Tail(right)) = Participants
  PROVE  FALSE
<1>1. Participants \in Nat /\ Participants >= 1
  BY FrostAssumption
<1>2. right \in Seq(X) /\ Len(right) = Participants
  BY <1>1, IsASeq, LenProperties DEF Ids
<1>3. right # <<>>
  BY <1>1, <1>2, EmptySeq
<1>4. Len(Tail(right)) = Participants - 1
  BY <1>2, <1>3, HeadTailProperties
<1> QED  BY <1>1, <1>4

LEMMA CommitmentsTaken ==
  ASSUME FrostIInv, NEW cs \in CommitmentsDelivered, Len(cs) = Participants
  PROVE  DOMAIN cs = Ids /\ \A j \in Ids : cs[j].from \in Ids /\ cs[j].coeffs = poly[cs[j].from]
<1>1. ASSUME NEW s, DOMAIN s = Ids, \A j \in Ids : \E l \in Ids : s[j] = Commitment(l)
      PROVE  \A j \in Ids : s[j].from \in Ids /\ s[j].coeffs = poly[s[j].from]
  <2> TAKE j \in Ids
  <2>1. PICK l \in Ids : s[j] = Commitment(l)
    BY <1>1
  <2>2. Commitment(l).from = l /\ Commitment(l).coeffs = poly[l]
    BY DEF Commitment
  <2> QED  BY <2>1, <2>2
<1>2. CASE cs \in Reordered(RightCommitments)
  <2>1. PICK o \in Orders : cs = [j \in Ids |-> RightCommitments[o[j]]]
    BY <1>2 DEF Reordered
  <2>2. DOMAIN cs = Ids /\ \A j \in Ids : o[j] \in Ids /\ cs[j] = Commitment(o[j])
    BY <2>1 DEF Orders, RightCommitments
  <2> QED  BY <1>1, <2>2
<1>3. CASE \E j \in Ids, from \in Ids : cs = [RightCommitments EXCEPT ![j] = Commitment(from)]
  <2>1. PICK k \in Ids, from \in Ids : cs = [RightCommitments EXCEPT ![k] = Commitment(from)]
    BY <1>3
  <2>2. DOMAIN cs = Ids /\ \A j \in Ids : cs[j] = IF j = k THEN Commitment(from) ELSE Commitment(j)
    BY <2>1 DEF RightCommitments
  <2> QED  BY <1>1, <2>2
<1>4. CASE cs = Tail(RightCommitments)
  <2>1. PICK X : X = {Commitment(j) : j \in Ids}
    OBVIOUS
  <2>2. RightCommitments \in [Ids -> X]
    BY <2>1 DEF RightCommitments
  <2> QED  BY <1>4, <2>2, DeliveredOf
<1> QED  BY <1>2, <1>3, <1>4 DEF CommitmentsDelivered

LEMMA SharesTaken ==
  ASSUME NEW i, NEW ss \in SharesDelivered(i), Len(ss) = Participants
  PROVE  DOMAIN ss = Ids
<1>1. CASE ss \in Reordered(RightShares(i))
  BY <1>1 DEF Reordered
<1>2. CASE \E j \in Ids, from \in Ids, id \in Ids : ss = [RightShares(i) EXCEPT ![j] = Share(from, id)]
  BY <1>2 DEF RightShares
<1>3. CASE \E j \in Ids, v \in Scalar : ss = [RightShares(i) EXCEPT ![j].value = v]
  BY <1>3 DEF RightShares
<1>4. CASE ss = Tail(RightShares(i))
  <2>1. PICK X : X = {Share(j, i) : j \in Ids}
    OBVIOUS
  <2>2. RightShares(i) \in [Ids -> X]
    BY <2>1 DEF RightShares
  <2> QED  BY <1>4, <2>2, DeliveredOf
<1> QED  BY <1>1, <1>2, <1>3, <1>4 DEF SharesDelivered

(* As many distinct senders as there are participants are all of them.     *)
LEMMA SendersAreAll ==
  ASSUME NEW s, DOMAIN s = Ids, DistinctSenders(s), \A j \in Ids : s[j].from \in Ids
  PROVE  [j \in Ids |-> s[j].from] \in Bijection(Ids, Ids)
<1> DEFINE p == [j \in Ids |-> s[j].from]
<1>1. p \in [Ids -> Ids] /\ \A j, k \in Ids : p[j] = p[k] => j = k
  BY DEF DistinctSenders
<1>2. p \in Injection(Ids, Ids)
  BY <1>1 DEF Injection, IsInjective
<1>3. p \in Surjection(Ids, Ids)
  BY <1>2, FS_Injection, IdsAreNonZero
<1> QED  BY <1>2, <1>3 DEF Bijection

LEMMA SumRenamed ==
  ASSUME NEW p \in Bijection(Ids, Ids), NEW f, NEW h, DOMAIN f = Ids, DOMAIN h = Ids,
         \A j \in Ids : f[j] \in Scalar, \A j \in Ids : h[j] = f[p[j]]
  PROVE  Sum(h) = Sum(f)
BY SumIsModSum, ModSumRenamed, IdsAreNonZero

LEMMA PolynomialType ==
  ASSUME FrostIInv, AllBegun, NEW j \in Ids
  PROVE  poly[j] \in [1..Threshold -> Scalar] /\ poly[j][1] \in Scalar /\ \A i \in Ids : Evaluate(poly[j], i) \in Scalar
<1>1. poly[j] \in [1..Threshold -> NonZero] /\ 1 \in 1..Threshold
  BY FrostAssumption DEF FrostIInv, AllBegun
<1>2. poly[j] \in [1..Threshold -> Scalar]
  BY <1>1, NonZeroType
<1>3. Ids \in SUBSET Ids /\ Cardinality(Ids) >= Threshold
  BY IdsAreNonZero, FrostAssumption
<1> QED  BY <1>1, <1>2, <1>3, PolynomialInterpolates

LEMMA KeygenFinalizeHandsOut ==
  ASSUME FrostIInv, AllBegun, NEW i \in Ids, NEW cs \in CommitmentsDelivered, NEW ss \in SharesDelivered(i),
         KeygenFinalize(i, cs, ss)
  PROVE  /\ Sum([j \in DOMAIN ss |-> ss[j].value]) = Package(i).signing_share
         /\ GroupKey(cs) = Package(i).group_public_key
<1>1. /\ DOMAIN cs = Ids /\ DOMAIN ss = Ids
      /\ \A j \in Ids : cs[j].from \in Ids /\ cs[j].coeffs = poly[cs[j].from]
  BY CommitmentsTaken, SharesTaken DEF KeygenFinalize
<1>2. ASSUME NEW j \in Ids
      PROVE  ss[j].from \in Ids /\ ss[j].value = Evaluate(poly[ss[j].from], i)
  <2>1. Verified(ss[j], cs, i)
    BY <1>1 DEF KeygenFinalize
  <2> QED  BY <1>1, <2>1 DEF Verified
<1> DEFINE p == [j \in Ids |-> cs[j].from]
           q == [j \in Ids |-> ss[j].from]
           keys == [j \in Ids |-> poly[j][1]]
           values == [j \in Ids |-> Evaluate(poly[j], i)]
           sent == [j \in Ids |-> cs[j].coeffs[1]]
           got == [j \in Ids |-> ss[j].value]
<1>3. p \in Bijection(Ids, Ids) /\ q \in Bijection(Ids, Ids)
  BY <1>1, <1>2, SendersAreAll DEF KeygenFinalize
<1>4. (\A j \in Ids : keys[j] \in Scalar) /\ (\A j \in Ids : values[j] \in Scalar)
  BY PolynomialType
<1>5. /\ \A j \in Ids : sent[j] = keys[p[j]]
      /\ \A j \in Ids : got[j] = values[q[j]]
  BY <1>1, <1>2
<1>6. DOMAIN keys = Ids /\ DOMAIN values = Ids /\ DOMAIN sent = Ids /\ DOMAIN got = Ids
  OBVIOUS
<1>7. GroupKey(cs) = Sum(sent) /\ Sum([j \in DOMAIN ss |-> ss[j].value]) = Sum(got)
  BY <1>1 DEF GroupKey
<1>8. Package(i).signing_share = Sum(values) /\ Package(i).group_public_key = Sum(keys)
  BY DEF Package, PackageOf
<1> HIDE DEF p, q, keys, values, sent, got
<1>9. Sum(sent) = Sum(keys) /\ Sum(got) = Sum(values)
  BY <1>3, <1>4, <1>5, <1>6, SumRenamed
<1> QED  BY <1>7, <1>8, <1>9

LEMMA FrostStepKeeps == FrostIInv /\ [FrostNext]_frostVars => FrostIInv'
<1> SUFFICES ASSUME FrostIInv, [FrostNext]_frostVars PROVE FrostIInv'
  OBVIOUS
<1>1. ASSUME NEW i \in Ids, KeygenBegin(i) PROVE FrostIInv'
  <2>1. ~AllBegun
    BY <1>1 DEF KeygenBegin, AllBegun
  <2>2. \A j \in Ids : pkg'[j] = NoValue
    BY <1>1, <2>1 DEF KeygenBegin, FrostIInv
  <2> QED  BY <1>1, <2>2 DEF KeygenBegin, FrostIInv
<1>2. ASSUME AllBegun, NEW i \in Ids, NEW cs \in CommitmentsDelivered, NEW ss \in SharesDelivered(i),
             KeygenFinalize(i, cs, ss)
      PROVE  FrostIInv'
  <2>1. poly' = poly /\ AllBegun'
    BY <1>2 DEF KeygenFinalize, AllBegun
  <2>2. \A j \in Ids : Package(j)' = Package(j)
    BY <2>1 DEF Package
  <2>3. pkg' = [pkg EXCEPT ![i] = Package(i)]
    BY <1>2, KeygenFinalizeHandsOut DEF KeygenFinalize, Finalized, Package, PackageOf
  <2> QED  BY <1>2, <2>1, <2>2, <2>3 DEF FrostIInv
<1>3. CASE UNCHANGED frostVars
  <2>1. \A j \in Ids : Package(j)' = Package(j)
    BY <1>3 DEF frostVars, Package
  <2> QED  BY <1>3, <2>1 DEF frostVars, FrostIInv, AllBegun
<1> QED  BY <1>1, <1>2, <1>3 DEF FrostNext, AllBegun

(* Whatever shares and commitments are delivered, in any order, damaged,   *)
(* repeated or missing, every participant that frost_keygen_finalize()     *)
(* gives a key package has the sum of all polynomials at its identifier    *)
(* and the sum of all constant terms as the group key.                     *)
THEOREM FrostPackages == FrostSpec => []FrostIInv
<1>1. FrostInit => FrostIInv
  BY DEF FrostInit, FrostIInv
<1> QED  BY <1>1, FrostStepKeeps, PTL DEF FrostSpec

-----------------------------------------------------------------------------
(* Quorums.                                                                *)

GroupSecret == Sum([j \in Ids |-> poly[j][1]])

LEMMA PackageFields ==
  ASSUME NEW i \in Ids
  PROVE  /\ Package(i).signing_share = Sum([j \in Ids |-> Evaluate(poly[j], i)])
         /\ Package(i).group_public_key = GroupSecret
BY DEF Package, PackageOf, GroupSecret

LEMMA QuorumType ==
  ASSUME FrostIInv, NEW S \in Quorums
  PROVE  /\ S \in SUBSET Ids /\ IsFiniteSet(S) /\ Cardinality(S) >= Threshold /\ S # {} /\ AllBegun
         /\ \A i \in S : /\ pkg[i] = Package(i) /\ pkg[i].signing_share \in Scalar
                         /\ pkg[i].group_public_key = GroupSecret
                         /\ LagrangeCoefficient(i, S) \in Scalar
<1>1. S \in SUBSET Ids /\ Cardinality(S) >= Threshold /\ \A i \in S : pkg[i] # NoValue
  BY DEF Quorums
<1>2. IsFiniteSet(S) /\ S # {}
  <2>1. IsFiniteSet(S)
    BY <1>1, IdsAreNonZero, FS_Subset
  <2>2. Threshold \in Nat /\ Threshold >= 2 /\ Cardinality(S) # 0
    BY <1>1, FrostAssumption
  <2> QED  BY <2>1, <2>2, FS_EmptySet
<1>3. AllBegun /\ \A i \in S : pkg[i] = Package(i)
  BY <1>1, <1>2 DEF FrostIInv
<1>4. ASSUME NEW i \in S
      PROVE  pkg[i].signing_share \in Scalar
  <2> DEFINE v == [j \in Ids |-> Evaluate(poly[j], i)]
  <2>1. (\A j \in Ids : v[j] \in Scalar) /\ DOMAIN v = Ids
    BY <1>1, <1>3, PolynomialType
  <2>2. pkg[i].signing_share = Sum(v)
    <3>1. i \in Ids /\ pkg[i] = Package(i)
      BY <1>1, <1>3
    <3> QED  BY <3>1, PackageFields
  <2> HIDE DEF v
  <2> QED  BY <2>1, <2>2, SumIsModSum, ModSumTakes, IdsAreNonZero
<1>5. \A i \in S : LagrangeCoefficient(i, S) \in Scalar
  BY <1>1, CoefficientIsQuotient
<1>6. \A i \in S : pkg[i].group_public_key = GroupSecret
  BY <1>1, <1>3, PackageFields
<1> QED  BY <1>1, <1>2, <1>3, <1>4, <1>5, <1>6

LEMMA QuorumInterpolates ==
  ASSUME FrostIInv, NEW S \in Quorums
  PROVE  /\ GroupSecret \in Scalar
         /\ Sum([i \in S |-> Times(LagrangeCoefficient(i, S), pkg[i].signing_share)]) = GroupSecret
<1> DEFINE L(i) == LagrangeCoefficient(i, S)
           keys == [j \in Ids |-> poly[j][1]]
           mat == [i \in S |-> [j \in Ids |-> Times(L(i), Evaluate(poly[j], i))]]
           tam == [j \in Ids |-> [i \in S |-> Times(L(i), Evaluate(poly[j], i))]]
           row == [i \in S |-> Times(L(i), pkg[i].signing_share)]
<1>1. /\ S \in SUBSET Ids /\ IsFiniteSet(S) /\ Cardinality(S) >= Threshold /\ AllBegun
      /\ IsFiniteSet(Ids) /\ \A i \in S : L(i) \in Scalar /\ pkg[i] = Package(i)
  BY QuorumType, IdsAreNonZero
<1>2. \A j \in Ids : keys[j] \in Scalar /\ poly[j] \in [1..Threshold -> Scalar]
                     /\ \A i \in Ids : Evaluate(poly[j], i) \in Scalar
  BY <1>1, PolynomialType
<1>3. \A i \in S : \A j \in Ids : Times(L(i), Evaluate(poly[j], i)) \in Scalar
  <2> TAKE i \in S
  <2> TAKE j \in Ids
  <2>1. L(i) \in Scalar /\ Evaluate(poly[j], i) \in Scalar
    BY <1>1, <1>2
  <2> HIDE DEF L
  <2> QED  BY <2>1, TimesLaws
<1>4. mat \in [S -> [Ids -> Scalar]] /\ tam \in [Ids -> [S -> Scalar]]
  BY <1>3
<1>5. \A i \in S : \A j \in Ids : tam[j][i] = mat[i][j]
  OBVIOUS
<1>6. ASSUME NEW i \in S
      PROVE  row[i] = ModSum(mat[i], Ids)
  <2> DEFINE g == [j \in Ids |-> Evaluate(poly[j], i)]
             h == mat[i]
  <2>1. L(i) \in Scalar /\ i \in Ids /\ \A j \in Ids : g[j] \in Scalar /\ h[j] = Times(L(i), g[j])
    BY <1>1, <1>2
  <2>2. pkg[i].signing_share = Sum(g) /\ DOMAIN g = Ids
    <3>1. i \in Ids /\ pkg[i] = Package(i)
      BY <1>1
    <3> QED  BY <3>1, PackageFields
  <2>3. row[i] = Times(L(i), Sum(g))
    BY <2>2
  <2> HIDE DEF g, h, L
  <2>4. ModSum(h, Ids) = Times(L(i), ModSum(g, Ids))
    BY <1>1, <2>1, ModSumTimes
  <2> QED  BY <2>2, <2>3, <2>4, SumIsModSum DEF h
<1>7. ASSUME NEW j \in Ids
      PROVE  keys[j] = ModSum(tam[j], S)
  <2>1. tam[j] = [i \in S |-> Times(LagrangeCoefficient(i, S), Evaluate(poly[j], i))]
    OBVIOUS
  <2> QED  BY <1>1, <1>2, <2>1, PolynomialInterpolates
<1>8. DOMAIN row = S /\ DOMAIN keys = Ids /\ GroupSecret = Sum(keys)
  BY DEF GroupSecret
<1>9. row = RowSums(mat, S, Ids) /\ keys = RowSums(tam, Ids, S)
  <2> HIDE DEF mat, tam
  <2> QED  BY <1>6, <1>7 DEF RowSums
<1>10. Sum(row) = GroupSecret
  <2> HIDE DEF row, keys, mat, tam, L
  <2>1. ModSum(row, S) = ModSum(keys, Ids)
    BY <1>1, <1>4, <1>5, <1>9, ModSumExchanged
  <2> QED  BY <1>8, <2>1, SumIsModSum
<1>11. GroupSecret \in Scalar
  <2>1. \A j \in Ids : keys[j] \in Scalar
    BY <1>2
  <2> HIDE DEF keys
  <2> QED  BY <1>1, <1>8, <2>1, SumIsModSum, ModSumTakes
<1> QED  BY <1>10, <1>11

(* Any quorum of key packages that frost_keygen_finalize() handed out      *)
(* interpolates the secret of the one group key, whatever was delivered,   *)
(* for any number of participants, threshold and polynomials.              *)
THEOREM QuorumsInterpolate == FrostSpec => []SharesInterpolate
<1>1. FrostIInv => SharesInterpolate
  <2> SUFFICES ASSUME FrostIInv, NEW S \in Quorums, NEW i \in S
               PROVE  /\ pkg[i].group_public_key = Sum([j \in Ids |-> poly[j][1]])
                      /\ pkg[i].group_public_key
                           = Sum([j \in S |-> Times(LagrangeCoefficient(j, S), pkg[j].signing_share)])
    BY DEF SharesInterpolate
  <2>1. pkg[i].group_public_key = GroupSecret
    BY QuorumType
  <2> QED  BY <2>1, QuorumInterpolates DEF GroupSecret
<1> QED  BY <1>1, FrostPackages, PTL

-----------------------------------------------------------------------------
(* Signing.                                                                *)

LEMMA PartialVerified ==
  ASSUME FrostIInv, NEW S \in Quorums, NEW i \in S, NEW ki \in Scalar, NEW R, NEW e \in NonZero
  PROVE  FrostVerifyPartial(i, S, FrostSign(i, S, ki, R, e), ki, R, e)
<1> DEFINE l == LagrangeCoefficient(i, S)
           x == ForEvenY(pkg[i].signing_share, pkg[i].group_public_key)
<1>1. l \in Scalar /\ e \in Scalar /\ x \in Scalar
  BY QuorumType, NonZeroType, PlusLaws DEF ForEvenY
<1> HIDE DEF l, x
<1>2. Times(Times(l, x), e) = Times(x, Times(l, e))
  <2>1. Times(l, x) = Times(x, l)
    BY <1>1, TimesLaws
  <2> QED  BY <1>1, <2>1, TimesAssociates
<1> QED  BY <1>2 DEF FrostVerifyPartial, FrostSign, l, x

LEMMA AggregateIsSignature ==
  ASSUME FrostIInv, NEW S \in Quorums, NEW k \in [S -> Scalar], NEW e \in NonZero
  PROVE  Sum([i \in S |-> FrostSign(i, S, k[i], Sum(k), e)]) = Plus(Even(Sum(k)), Times(e, Even(GroupSecret)))
<1> DEFINE R == Sum(k)
           Y == GroupSecret
           L(i) == LagrangeCoefficient(i, S)
           kk == [i \in S |-> ForEvenY(k[i], R)]
           ls == [i \in S |-> Times(L(i), pkg[i].signing_share)]
           lx == [i \in S |-> ForEvenY(ls[i], Y)]
           el == [i \in S |-> Times(e, lx[i])]
           z == [i \in S |-> FrostSign(i, S, k[i], R, e)]
<1>1. /\ IsFiniteSet(S) /\ e \in Scalar /\ Y \in Scalar /\ Sum(ls) = Y
      /\ \A i \in S : /\ L(i) \in Scalar /\ pkg[i].signing_share \in Scalar /\ k[i] \in Scalar
                      /\ pkg[i].group_public_key = Y
  BY QuorumType, QuorumInterpolates, NonZeroType
<1>2. \A i \in S : ls[i] \in Scalar
  <2> HIDE DEF L
  <2> QED  BY <1>1, TimesLaws
<1>3. \A i \in S : kk[i] \in Scalar /\ lx[i] \in Scalar
  <2> HIDE DEF L, R, Y, ls
  <2> QED  BY <1>1, <1>2, PlusLaws DEF ForEvenY
<1>4. \A i \in S : el[i] \in Scalar /\ el[i] = Times(e, lx[i])
  <2> HIDE DEF lx
  <2> QED  BY <1>1, <1>3, TimesLaws
<1>5. ASSUME NEW i \in S
      PROVE  z[i] = Plus(kk[i], el[i])
  <2> DEFINE w == pkg[i].signing_share
             l == L(i)
  <2>1. l \in Scalar /\ w \in Scalar /\ ls[i] = Times(l, w)
    BY <1>1
  <2>2. z[i] = Plus(kk[i], Times(Times(l, ForEvenY(w, Y)), e))
    BY <1>1 DEF FrostSign
  <2> HIDE DEF w, l, z, ls, kk, el, R, Y, L
  <2>3. Times(l, ForEvenY(w, Y)) = ForEvenY(ls[i], Y)
    BY <2>1, TimesLaws DEF ForEvenY
  <2>4. ForEvenY(ls[i], Y) = lx[i]
    OBVIOUS
  <2>5. Times(lx[i], e) = Times(e, lx[i])
    BY <1>1, <1>3, TimesLaws
  <2> QED  BY <1>4, <2>2, <2>3, <2>4, <2>5
<1>6. DOMAIN k = S /\ DOMAIN ls = S /\ DOMAIN z = S
  OBVIOUS
<1>7. ASSUME NEW f, NEW g, NEW P, \A i \in S : f[i] \in Scalar /\ g[i] = ForEvenY(f[i], P)
      PROVE  ModSum(g, S) = ForEvenY(ModSum(f, S), P)
  <2>1. CASE HasEvenY(P)
    <3>1. \A i \in S : f[i] \in Scalar /\ f[i] = g[i]
      BY <1>7, <2>1 DEF ForEvenY
    <3>2. ModSum(f, S) = ModSum(g, S)
      BY <1>1, <3>1, ModSumSame
    <3> QED  BY <2>1, <3>2 DEF ForEvenY
  <2>2. CASE ~HasEvenY(P)
    <3>1. \A i \in S : f[i] \in Scalar /\ g[i] = Neg(f[i])
      BY <1>7, <2>2 DEF ForEvenY
    <3>2. ModSum(g, S) = Neg(ModSum(f, S))
      BY <1>1, <3>1, ModSumNeg
    <3> QED  BY <2>2, <3>2 DEF ForEvenY
  <2> QED  BY <2>1, <2>2
<1>8. ModSum(kk, S) = Even(R)
  <2>1. \A i \in S : k[i] \in Scalar /\ kk[i] = ForEvenY(k[i], R)
    BY <1>1
  <2>2. R = ModSum(k, S)
    BY <1>6, SumIsModSum
  <2> HIDE DEF kk, R
  <2>3. ModSum(kk, S) = ForEvenY(ModSum(k, S), R)
    BY <1>7, <2>1
  <2> QED  BY <2>2, <2>3 DEF ForEvenY, Even
<1>9. ModSum(lx, S) = Even(Y)
  <2>1. \A i \in S : ls[i] \in Scalar /\ lx[i] = ForEvenY(ls[i], Y)
    BY <1>2
  <2> HIDE DEF ls, lx, Y
  <2>2. ModSum(lx, S) = ForEvenY(ModSum(ls, S), Y)
    BY <1>7, <2>1
  <2> QED  BY <1>1, <1>6, <2>2, SumIsModSum DEF ForEvenY, Even
<1>10. ModSum(el, S) = Times(e, ModSum(lx, S))
  <2> HIDE DEF el, lx
  <2> QED  BY <1>1, <1>3, <1>4, ModSumTimes
<1>11. ModSum(z, S) = Plus(ModSum(kk, S), ModSum(el, S))
  <2> HIDE DEF z, kk, el
  <2> QED  BY <1>1, <1>3, <1>4, <1>5, ModSumPlus
<1>12. Sum(z) = ModSum(z, S)
  <2> HIDE DEF z
  <2> QED  BY <1>6, SumIsModSum
<1> HIDE DEF z, kk, el, lx, R, Y
<1>13. Sum(z) = Plus(Even(R), Times(e, Even(Y)))
  BY <1>8, <1>9, <1>10, <1>11, <1>12
<1> QED  BY <1>13 DEF z, R, Y

(* Whatever quorum signs, whatever the nonces, the challenge and the       *)
(* parities of R and of the group key: every frost_sign() passes           *)
(* frost_verify_partial(), and what frost_aggregate() makes of them is a   *)
(* BIP-340 signature under the group key.                                  *)
THEOREM QuorumsSign == FrostSpec => []FrostSignaturesVerify
<1>1. FrostIInv => FrostSignaturesVerify
  <2> SUFFICES ASSUME FrostIInv, NEW S \in Quorums, NEW k \in [S -> Scalar], NEW e \in NonZero, Sum(k) # 0
               PROVE  LET R == Sum(k)
                          z == [i \in S |-> FrostSign(i, S, k[i], R, e)]
                          Y == pkg[CHOOSE i \in S : TRUE].group_public_key
                      IN  /\ \A i \in S : FrostVerifyPartial(i, S, z[i], k[i], R, e)
                          /\ FrostAggregate(z, R) # 0 => SchnorrVerify(FrostAggregate(z, R), R, Y, e)
    BY DEF FrostSignaturesVerify
  <2> DEFINE R == Sum(k)
             z == [i \in S |-> FrostSign(i, S, k[i], R, e)]
             c == CHOOSE i \in S : TRUE
  <2>1. c \in S
    BY QuorumType
  <2>2. pkg[c].group_public_key = GroupSecret
    BY <2>1, QuorumType
  <2>3. \A i \in S : FrostVerifyPartial(i, S, z[i], k[i], R, e)
    BY PartialVerified
  <2>4. FrostAggregate(z, R) = Plus(Even(R), Times(e, Even(GroupSecret)))
    BY AggregateIsSignature DEF FrostAggregate
  <2>5. SchnorrVerify(FrostAggregate(z, R), R, GroupSecret, e)
    BY <2>4 DEF SchnorrVerify
  <2> QED  BY <2>2, <2>3, <2>5
<1> QED  BY <1>1, FrostPackages, PTL
===============================================================================
