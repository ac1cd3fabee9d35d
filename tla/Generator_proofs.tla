--------------------------- MODULE Generator_proofs ---------------------------
(***************************************************************************)
(* What multiplies the generator and what keeps its tables. For any        *)
(* width, number of teeth and number of callers: a comb context that may   *)
(* be used has the table that init() builds, and multiplies with it. For   *)
(* any contexts, threads and seeds: blinding changes no product, and a     *)
(* scope multiplies under the seed of its own context. For any number of   *)
(* users and any number of releases: no actor uses a deleted resource,     *)
(* and each resource exists once and is never lost.                        *)
(***************************************************************************)
EXTENDS CombTable, ContextBlinding, ProcessResources, SmallGroup_proofs

(***************************************************************************)
(* The arithmetic of the comb: powers of two, bits, the table and the      *)
(* rows.                                                                   *)
(***************************************************************************)

(* Powers of two: 2^n is the number of subsets of 1..n.                    *)
LEMMA PowerIsSubsets ==
  ASSUME NEW n \in Nat
  PROVE  IsFiniteSet(SUBSET (1..n)) /\ 2^n = Cardinality(SUBSET (1..n)) /\ 2^n \in Nat
<1>1. IsFiniteSet(1..n) /\ Cardinality(1..n) = n
  BY FS_Interval
<1> QED  BY <1>1, FS_SUBSET, FS_CardinalityType

LEMMA PowerOfZero == 2^0 = 1
<1>1. 1..0 = {} /\ SUBSET {} = {{}} /\ 0 \in Nat
  OBVIOUS
<1>2. Cardinality({{}}) = 1
  BY FS_Singleton
<1> QED  BY <1>1, <1>2, PowerIsSubsets

LEMMA PowerDoubles ==
  ASSUME NEW n \in Nat
  PROVE  2^(n + 1) = 2 * 2^n
<1> DEFINE A == SUBSET (1..n)
           with(T) == T \cup {n + 1}
           B == {with(T) : T \in A}
           f == [T \in A |-> with(T)]
<1>1. SUBSET (1..(n + 1)) = A \cup B
  <2>1. ASSUME NEW U \in SUBSET (1..(n + 1)) PROVE U \in A \cup B
    <3>1. CASE n + 1 \in U
      <4>1. U \ {n + 1} \in A /\ U = with(U \ {n + 1})
        BY <3>1
      <4> QED  BY <4>1
    <3>2. CASE n + 1 \notin U
      BY <3>2
    <3> QED  BY <3>1, <3>2
  <2>2. \A T \in A : T \in SUBSET (1..(n + 1)) /\ with(T) \in SUBSET (1..(n + 1))
    <3>1. 1..n \subseteq 1..(n + 1) /\ n + 1 \in 1..(n + 1)
      OBVIOUS
    <3> QED  BY <3>1
  <2> HIDE DEF A, with
  <2> QED  BY <2>1, <2>2
<1>2. A \cap B = {}
  <2>1. n + 1 \notin 1..n
    OBVIOUS
  <2> QED  BY <2>1
<1>3. f \in Bijection(A, B)
  <2>1. \A S, T \in A : f[S] = f[T] => S = T
    <3>1. n + 1 \notin 1..n
      OBVIOUS
    <3>2. \A S \in A : f[S] \ {n + 1} = S
      BY <3>1
    <3> QED  BY <3>2
  <2>2. f \in [A -> B] /\ \A U \in B : \E T \in A : f[T] = U
    OBVIOUS
  <2> HIDE DEF f
  <2> QED  BY <2>1, <2>2 DEF Bijection, Injection, IsInjective, Surjection
<1>4. IsFiniteSet(A) /\ Cardinality(A) = 2^n /\ 2^n \in Nat
  BY PowerIsSubsets
<1>5. IsFiniteSet(B) /\ Cardinality(B) = Cardinality(A)
  <2> HIDE DEF A, B, f
  <2> QED  BY <1>3, <1>4, FS_Bijection DEF ExistsBijection
<1>6. Cardinality(A \cup B) = Cardinality(A) + Cardinality(B) - Cardinality(A \cap B)
  <2> HIDE DEF A, B
  <2> QED  BY <1>4, <1>5, FS_Union
<1>7. Cardinality(A \cap B) = 0
  BY <1>2, FS_EmptySet
<1>8. 2^(n + 1) = Cardinality(A \cup B)
  <2>1. n + 1 \in Nat
    OBVIOUS
  <2> HIDE DEF A, B
  <2> QED  BY <1>1, <2>1, PowerIsSubsets
<1> HIDE DEF A, B
<1> QED  BY <1>4, <1>5, <1>6, <1>7, <1>8

LEMMA PowerType ==
  ASSUME NEW n \in Nat
  PROVE  2^n \in Nat /\ 2^n > n
<1> DEFINE H == {m \in Nat : 2^m > m}
<1>1. 0 \in H
  BY PowerOfZero
<1>2. ASSUME NEW m \in Nat, m \in H PROVE m + 1 \in H
  <2>1. 2^(m + 1) = 2 * 2^m /\ 2^m \in Nat /\ 2^m > m
    BY <1>2, PowerDoubles, PowerIsSubsets
  <2> QED  BY <2>1
<1>3. n \in H
  <2> HIDE DEF H
  <2> QED  BY <1>1, <1>2, NumberInduction
<1> QED  BY <1>3, PowerIsSubsets

LEMMA PowerOfSum ==
  ASSUME NEW a \in Nat, NEW b \in Nat
  PROVE  2^(a + b) = 2^a * 2^b
<1> DEFINE H == {m \in Nat : 2^(a + m) = 2^a * 2^m}
<1>1. 0 \in H
  <2>1. a + 0 = a /\ 2^a \in Nat
    BY PowerType
  <2> QED  BY <2>1, PowerOfZero
<1>2. ASSUME NEW m \in Nat, m \in H PROVE m + 1 \in H
  <2>1. a + m \in Nat /\ a + (m + 1) = (a + m) + 1
    OBVIOUS
  <2>2. 2^((a + m) + 1) = 2 * 2^(a + m) /\ 2^(m + 1) = 2 * 2^m /\ 2^(a + m) = 2^a * 2^m
    BY <1>2, <2>1, PowerDoubles
  <2>3. 2^a \in Nat /\ 2^m \in Nat
    BY PowerType
  <2> DEFINE x == 2^a
             y == 2^m
  <2>4. 2 * (x * y) = x * (2 * y)
    <3> HIDE DEF x, y
    <3> QED  BY <2>3, SMT DEF x, y
  <2> QED  BY <2>1, <2>2, <2>4
<1>3. b \in H
  <2> HIDE DEF H
  <2> QED  BY <1>1, <1>2, NumberInduction
<1> QED  BY <1>3

LEMMA PowerGrows ==
  ASSUME NEW a \in Nat, NEW b \in Nat, a <= b
  PROVE  2^a <= 2^b
<1>1. b - a \in Nat /\ a + (b - a) = b
  OBVIOUS
<1>2. 2^b = 2^a * 2^(b - a) /\ 2^a \in Nat /\ 2^(b - a) \in Nat /\ 2^(b - a) >= 1
  BY <1>1, PowerOfSum, PowerType
<1> DEFINE x == 2^a
           y == 2^(b - a)
<1>3. x <= x * y
  <2>0. x \in Nat /\ y \in Nat /\ y >= 1
    BY <1>2
  <2> HIDE DEF x, y
  <2> QED  BY <2>0, SMT
<1> QED  BY <1>2, <1>3

-----------------------------------------------------------------------------
(* Quotients.                                                              *)

LEMMA DivUnique ==
  ASSUME NEW x \in Int, NEW N \in Nat, N > 0, NEW q \in Int, NEW r \in Int, 0 <= r, r < N, x = N * q + r
  PROVE  x \div N = q /\ x % N = r
<1>1. x % N = r
  BY ModUnique
<1>2. x \div N = q
  BY SMT
<1> QED  BY <1>1, <1>2

LEMMA DivMod ==
  ASSUME NEW x \in Nat, NEW N \in Nat, N > 0
  PROVE  /\ x \div N \in Nat /\ x % N \in Nat /\ x % N < N
         /\ x = N * (x \div N) + (x % N)
BY SMT

LEMMA DivOfProduct ==
  ASSUME NEW x \in Nat, NEW A \in Nat, A > 0, NEW B \in Nat, B > 0
  PROVE  /\ x \div (A * B) = (x \div A) \div B
         /\ x % (A * B) = (x % A) + A * ((x \div A) % B)
<1> DEFINE q == x \div A
           r == x % A
           p == q \div B
           t == q % B
<1>1. q \in Nat /\ r \in Nat /\ r < A /\ x = A * q + r
  BY DivMod
<1> HIDE DEF q, r
<1>2. p \in Nat /\ t \in Nat /\ t <= B - 1 /\ q = B * p + t
  <2>1. p \in Nat /\ t \in Nat /\ t < B /\ q = B * p + t
    BY <1>1, DivMod
  <2> QED  BY <2>1
<1> HIDE DEF p, t
<1>3. A * q = (A * B) * p + A * t
  <2>1. A * (B * p + t) = (A * B) * p + A * t
    BY <1>2, SMT
  <2> QED  BY <1>2, <2>1
<1>4. A * t <= A * (B - 1) /\ A * (B - 1) = A * B - A
  BY <1>2, SMT
<1>5. A * t \in Nat /\ A * B \in Nat /\ A * B > 0
  BY <1>2, SMT
<1> DEFINE AB == A * B
           At == A * t
<1>6. At + r \in Nat /\ At + r < AB /\ x = AB * p + (At + r)
  <2>1. A * q = AB * p + At /\ At <= AB - A /\ At \in Nat /\ AB \in Nat
    BY <1>3, <1>4, <1>5
  <2>2. AB * p \in Int
    BY <1>2, <1>5
  <2> HIDE DEF AB, At
  <2> DEFINE u == A * q
             v == AB * p
  <2>3. u = v + At /\ x = u + r /\ v \in Int
    BY <1>1, <2>1, <2>2
  <2> HIDE DEF u, v
  <2>4. At + r \in Nat /\ At + r < AB /\ x = v + (At + r)
    BY <1>1, <2>1, <2>3
  <2> QED  BY <2>4 DEF v
<1>7. AB \in Nat /\ AB > 0
  BY <1>5
<1> HIDE DEF AB, At
<1>8. x \div AB = p /\ x % AB = At + r
  <2> DEFINE w == At + r
  <2>1. w \in Int /\ 0 <= w /\ w < AB /\ x = AB * p + w /\ x \in Int /\ p \in Int
    BY <1>2, <1>6
  <2> HIDE DEF w
  <2>2. x \div AB = p /\ x % AB = w
    BY <1>7, <2>1, DivUnique
  <2> QED  BY <2>2 DEF w
<1> QED  BY <1>1, <1>2, <1>8 DEF AB, At, p, t, q, r

-----------------------------------------------------------------------------
(* Bits.                                                                   *)

LEMMA BitType ==
  ASSUME NEW k \in Nat, NEW p \in Nat
  PROVE  Bit(k, p) \in {0, 1} /\ Bit(k, p) \in Scalar
<1>1. k \div 2^p \in Nat
  BY PowerType, DivMod
<1>2. Bit(k, p) \in {0, 1}
  <2> DEFINE q == k \div 2^p
  <2> HIDE DEF q
  <2>1. q % 2 \in Nat /\ q % 2 < 2
    BY <1>1, DivMod DEF q
  <2> QED  BY <2>1 DEF Bit, q
<1> QED  BY <1>2, ZeroAndOne

LEMMA BitSplits ==
  ASSUME NEW k \in Nat, NEW p \in Nat
  PROVE  /\ k \div 2^p = 2 * (k \div 2^(p + 1)) + Bit(k, p)
         /\ k % 2^(p + 1) = (k % 2^p) + 2^p * Bit(k, p)
<1> DEFINE A == 2^p
           q == k \div A
<1>1. A \in Nat /\ A > 0 /\ 2^(p + 1) = A * 2
  BY PowerType, PowerDoubles
<1> HIDE DEF A
<1>2. k \div (A * 2) = q \div 2 /\ k % (A * 2) = (k % A) + A * (q % 2)
  BY <1>1, DivOfProduct
<1>3. q \in Nat
  BY <1>1, DivMod
<1> HIDE DEF q
<1>4. q = 2 * (q \div 2) + (q % 2)
  BY <1>3, DivMod
<1>5. Bit(k, p) = q % 2
  BY DEF Bit, q, A
<1> QED  BY <1>1, <1>2, <1>4, <1>5 DEF q, A

LEMMA BitBeyond ==
  ASSUME NEW k \in Nat, NEW p \in Nat, k < 2^p
  PROVE  Bit(k, p) = 0 /\ k % 2^p = k
<1> DEFINE A == 2^p
<1>1. A \in Nat /\ A > 0 /\ k < A /\ k = A * 0 + k
  BY PowerType
<1> HIDE DEF A
<1>2. k \div A = 0 /\ k % A = k
  BY <1>1, DivUnique
<1> QED  BY <1>2 DEF Bit, A

(* A bit is set above a number.                                            *)
LEMMA BitAdded ==
  ASSUME NEW m \in Nat, NEW x \in Nat, x < 2^m, NEW c \in {0, 1}
  PROVE  /\ x + 2^m * c \in Nat /\ x + 2^m * c < 2^(m + 1)
         /\ Bit(x + 2^m * c, m) = c
         /\ \A j \in 0..(m - 1) : Bit(x + 2^m * c, j) = Bit(x, j)
<1> DEFINE A == 2^m
           y == x + A * c
<1>1. A \in Nat /\ A > 0 /\ 2^(m + 1) = 2 * A /\ x < A
  BY PowerType, PowerDoubles
<1> HIDE DEF A
<1>2. y \in Nat /\ y < 2^(m + 1) /\ y = A * c + x
  BY <1>1
<1> HIDE DEF y
<1>3. Bit(y, m) = c
  <2>1. y \div A = c
    BY <1>1, <1>2, DivUnique
  <2>2. c % 2 = c
    OBVIOUS
  <2> QED  BY <2>1, <2>2 DEF Bit, A
<1>4. ASSUME NEW j \in 0..(m - 1)
      PROVE  Bit(y, j) = Bit(x, j)
  <2> DEFINE B == 2^j
             u == m - (j + 1)
             C == 2^u
             q == x \div B
             r == x % B
             e == C * c
  <2>1. j \in Nat /\ u \in Nat /\ (j + 1) + u = m /\ j + 1 \in Nat
    OBVIOUS
  <2> HIDE DEF u
  <2>2. B \in Nat /\ B > 0 /\ C \in Nat /\ 2^(j + 1) = 2 * B /\ A = 2^(j + 1) * C
    <3>1. 2^((j + 1) + u) = 2^(j + 1) * 2^u /\ 2^(j + 1) = 2 * 2^j
      BY <2>1, PowerOfSum, PowerDoubles
    <3>2. 2^u \in Nat /\ 2^j \in Nat /\ 2^j > j
      BY <2>1, PowerType
    <3> QED  BY <2>1, <3>1, <3>2 DEF A
  <2> HIDE DEF B, C
  <2>3. q \in Nat /\ r \in Nat /\ r < B /\ x = B * q + r
    BY <2>2, DivMod
  <2> HIDE DEF q, r
  <2>4. e \in Nat
    BY <2>2
  <2>5. A * c = B * (2 * e)
    BY <2>2, SMT
  <2> HIDE DEF e
  <2>6. y = B * (q + 2 * e) + r
    <3>1. B * (q + 2 * e) = B * q + B * (2 * e)
      BY <2>2, <2>3, <2>4, SMT
    <3> DEFINE s == B * (q + 2 * e)
               t == B * q
               v == B * (2 * e)
               w == A * c
    <3>2. s = t + v /\ w = v /\ y = w + x /\ x = t + r /\ t \in Nat /\ v \in Nat
      BY <1>2, <2>2, <2>3, <2>4, <2>5, <3>1
    <3> HIDE DEF s, t, v, w
    <3>3. y = s + r
      BY <1>2, <2>3, <3>2
    <3> QED  BY <3>3 DEF s
  <2>7. y \div B = q + 2 * e
    <3> DEFINE s == q + 2 * e
    <3>1. s \in Int
      BY <2>3, <2>4
    <3> HIDE DEF s
    <3>2. y = B * s + r
      BY <2>6 DEF s
    <3>3. y \div B = s
      BY <1>2, <2>2, <2>3, <3>1, <3>2, DivUnique
    <3> QED  BY <3>3 DEF s
  <2>8. (q + 2 * e) % 2 = q % 2
    BY <2>3, <2>4, SMT
  <2> QED  BY <2>7, <2>8 DEF Bit, B, q
<1> QED  BY <1>2, <1>3, <1>4 DEF y, A

(* The number whose bits are c.                                            *)
Places(c, T) == [j \in 0..(T - 1) |-> 2^j * c[j]]

LEMMA BitsOfPlaces ==
  ASSUME NEW T \in Nat, NEW c \in [0..(T - 1) -> {0, 1}]
  PROVE  LET x == SumOver(Places(c, T), 0..(T - 1))
         IN  x \in Nat /\ x < 2^T /\ \A j \in 0..(T - 1) : Bit(x, j) = c[j]
<1> DEFINE f == Places(c, T)
           X(m) == SumOver(f, 0..(m - 1))
           H == {m \in Nat : m <= T => /\ X(m) \in Nat /\ X(m) < 2^m
                                       /\ \A j \in 0..(m - 1) : Bit(X(m), j) = c[j]}
<1>1. \A j \in 0..(T - 1) : f[j] = 2^j * c[j] /\ f[j] \in Int
  <2> SUFFICES ASSUME NEW j \in 0..(T - 1) PROVE f[j] = 2^j * c[j] /\ f[j] \in Int
    OBVIOUS
  <2>1. 2^j \in Nat /\ c[j] \in {0, 1}
    BY PowerType
  <2> QED  BY <2>1 DEF Places
<1> HIDE DEF f
<1>2. 0 \in H
  <2>1. 0..(0 - 1) = {}
    OBVIOUS
  <2>2. X(0) = 0
    BY <2>1, SumOverNothing
  <2> QED  BY <2>1, <2>2, PowerOfZero
<1>3. ASSUME NEW m \in Nat, m \in H PROVE m + 1 \in H
  <2> SUFFICES ASSUME m + 1 <= T
               PROVE  /\ X(m + 1) \in Nat /\ X(m + 1) < 2^(m + 1)
                      /\ \A j \in 0..((m + 1) - 1) : Bit(X(m + 1), j) = c[j]
    OBVIOUS
  <2>1. (m + 1) - 1 = m /\ m \in 0..m /\ (0..m) \ {m} = 0..(m - 1) /\ IsFiniteSet(0..m) /\ m \in 0..(T - 1)
    <3>1. IsFiniteSet(0..m)
      BY FS_Interval
    <3>2. (0..m) \ {m} = 0..(m - 1)
      OBVIOUS
    <3>3. (m + 1) - 1 = m /\ m \in 0..m /\ m \in 0..(T - 1)
      OBVIOUS
    <3> QED  BY <3>1, <3>2, <3>3
  <2>2. \A j \in 0..m : f[j] \in Int
    BY <1>1
  <2>3. SumOver(f, 0..m) = f[m] + SumOver(f, (0..m) \ {m})
    BY <2>1, <2>2, SumOverTakes
  <2> DEFINE x == X(m)
  <2>4. x \in Nat /\ x < 2^m /\ \A j \in 0..(m - 1) : Bit(x, j) = c[j]
    BY <1>3
  <2>5. X(m + 1) = f[m] + x /\ f[m] = 2^m * c[m]
    BY <1>1, <2>1, <2>3
  <2> HIDE DEF x
  <2>6. c[m] \in {0, 1} /\ 2^m * c[m] \in Int
    BY <2>1, PowerType
  <2>7. X(m + 1) = x + 2^m * c[m]
    BY <2>4, <2>5, <2>6
  <2> HIDE DEF X
  <2>8. /\ X(m + 1) \in Nat /\ X(m + 1) < 2^(m + 1) /\ Bit(X(m + 1), m) = c[m]
        /\ \A j \in 0..(m - 1) : Bit(X(m + 1), j) = c[j]
    <3> DEFINE y == x + 2^m * c[m]
    <3>1. y \in Nat /\ y < 2^(m + 1) /\ Bit(y, m) = c[m] /\ \A j \in 0..(m - 1) : Bit(y, j) = Bit(x, j)
      BY <2>4, <2>6, BitAdded
    <3> HIDE DEF y
    <3>2. X(m + 1) = y
      BY <2>7 DEF y
    <3> QED  BY <2>4, <3>1, <3>2
  <2>9. \A j \in 0..m : j = m \/ j \in 0..(m - 1)
    OBVIOUS
  <2> QED  BY <2>1, <2>8, <2>9
<1>4. T \in H
  <2> HIDE DEF H
  <2> QED  BY <1>2, <1>3, NumberInduction
<1> QED  BY <1>4 DEF f

(* The lowest bit that is set.                                             *)
LEMMA LowestBitLaws ==
  ASSUME NEW i \in Nat, i # 0
  PROVE  LET l == LowestBit(i)
         IN  /\ l \in Nat /\ 2^l <= i /\ i - 2^l \in Nat /\ i - 2^l < i
             /\ Bit(i, l) = 1 /\ Bit(i - 2^l, l) = 0
             /\ \A j \in Nat : j # l => Bit(i - 2^l, j) = Bit(i, j)
<1> DEFINE l == LowestBit(i)
           Zeros(m) == \A j \in 0..(m - 1) : Bit(i, j) = 0
           H == {m \in Nat : Zeros(m) => i % 2^m = 0}
<1>1. 0 \in H
  <2>1. i % 1 = 0
    OBVIOUS
  <2> QED  BY <2>1, PowerOfZero
<1>2. ASSUME NEW m \in Nat, m \in H PROVE m + 1 \in H
  <2> SUFFICES ASSUME Zeros(m + 1) PROVE i % 2^(m + 1) = 0
    OBVIOUS
  <2>1. Zeros(m) /\ Bit(i, m) = 0
    OBVIOUS
  <2>2. i % 2^m = 0
    BY <1>2, <2>1
  <2>3. i % 2^(m + 1) = (i % 2^m) + 2^m * Bit(i, m) /\ 2^m \in Nat
    BY BitSplits, PowerType
  <2> QED  BY <2>1, <2>2, <2>3
<1>3. \A m \in Nat : m \in H
  <2> HIDE DEF H
  <2> QED  BY <1>1, <1>2, NumberInduction
<1>4. \E j \in 0..i : Bit(i, j) = 1 /\ \A k \in 0..(j - 1) : Bit(i, k) = 0
  <2>1. i + 1 \in Nat /\ i < 2^(i + 1)
    <3>1. i + 1 \in Nat
      OBVIOUS
    <3>2. 2^(i + 1) \in Nat /\ 2^(i + 1) > i + 1
      BY <3>1, PowerType
    <3> QED  BY <3>2
  <2>2. ~Zeros(i + 1)
    <3>1. i % 2^(i + 1) = i
      BY <2>1, BitBeyond
    <3>2. i + 1 \in H
      BY <1>3, <2>1
    <3> QED  BY <3>1, <3>2
  <2> DEFINE G == {j \in Nat : Bit(i, j) # 0}
  <2>3. PICK t \in 0..i : Bit(i, t) # 0
    BY <2>2
  <2>4. t \in G
    BY <2>3
  <2>5. PICK j \in G : \A k \in G : j <= k
    <3>1. G \subseteq Nat /\ G # {}
      BY <2>4
    <3> HIDE DEF G
    <3> QED  BY <3>1, LeastNumber
  <2>6. j \in 0..i
    BY <2>4, <2>5
  <2>7. Bit(i, j) = 1
    BY <2>5, BitType
  <2>8. \A k \in 0..(j - 1) : Bit(i, k) = 0
    BY <2>5
  <2> QED  BY <2>6, <2>7, <2>8
<1>5. l \in 0..i /\ Bit(i, l) = 1 /\ Zeros(l)
  BY <1>4 DEF LowestBit
<1> HIDE DEF l
<1>6. l \in Nat /\ i % 2^l = 0
  BY <1>3, <1>5
<1> DEFINE A == 2^l
           a == i \div 2^(l + 1)
           y == i - A
<1>7. A \in Nat /\ A > 0 /\ 2^(l + 1) = 2 * A /\ i % 2^(l + 1) = A /\ i \div 2^l = 2 * a + 1
  <2>1. i % 2^(l + 1) = (i % 2^l) + 2^l * Bit(i, l) /\ i \div 2^l = 2 * a + Bit(i, l)
    BY <1>6, BitSplits
  <2>2. 2^l \in Nat /\ 2^l > l /\ 2^(l + 1) = 2 * 2^l
    BY <1>6, PowerType, PowerDoubles
  <2> QED  BY <1>5, <1>6, <2>1, <2>2
<1>8. a \in Nat /\ i = (2 * A) * a + A
  <2>1. 2 * A \in Nat /\ 2 * A > 0
    BY <1>7
  <2> DEFINE N == 2 * A
  <2> HIDE DEF A, N
  <2>2. a = i \div N /\ i % N = A
    BY <1>7 DEF N
  <2>3. i \div N \in Nat /\ i = N * (i \div N) + (i % N)
    BY <2>1, DivMod DEF N
  <2> QED  BY <2>2, <2>3 DEF N
<1> HIDE DEF A, a
<1>9. y \in Nat /\ y < i /\ A <= i /\ y = (2 * A) * a /\ y = A * (2 * a)
  <2> DEFINE p == (2 * A) * a
  <2>1. p \in Nat /\ p = A * (2 * a)
    BY <1>7, <1>8, SMT
  <2>2. i = p + A
    BY <1>8
  <2> HIDE DEF p
  <2>3. y = p /\ y \in Nat /\ y < i /\ A <= i
    BY <1>7, <2>1, <2>2
  <2> QED  BY <2>1, <2>3 DEF p
<1> HIDE DEF y
<1>10. Bit(y, l) = 0
  <2> DEFINE u == 2 * a
  <2>1. u \in Int /\ u % 2 = 0
    BY <1>8
  <2> HIDE DEF u
  <2>2. y = A * u + 0 /\ 0 < A
    BY <1>7, <1>9, <2>1 DEF u
  <2>3. y \div A = u
    BY <1>7, <1>9, <2>1, <2>2, DivUnique
  <2> QED  BY <2>1, <2>3 DEF Bit, A
<1>11. ASSUME NEW j \in Nat, j < l
       PROVE  Bit(y, j) = 0 /\ Bit(i, j) = 0
  <2>1. Bit(i, j) = 0
    BY <1>5, <1>11
  <2> DEFINE B == 2^j
             t == l - (j + 1)
             C == 2^t
             u == C * (2 * a)
  <2>2. t \in Nat /\ j + 1 \in Nat /\ (j + 1) + t = l
    BY <1>6, <1>11
  <2> HIDE DEF t
  <2>3. B \in Nat /\ B > 0 /\ C \in Nat /\ A = (2 * B) * C
    <3>1. 2^((j + 1) + t) = 2^(j + 1) * 2^t /\ 2^(j + 1) = 2 * 2^j
      BY <2>2, PowerOfSum, PowerDoubles
    <3>2. 2^t \in Nat /\ 2^j \in Nat /\ 2^j > j
      BY <2>2, PowerType
    <3> QED  BY <2>2, <3>1, <3>2 DEF A
  <2> HIDE DEF B, C
  <2>4. u \in Nat
    BY <1>8, <2>3
  <2>5. A * (2 * a) = B * (2 * u)
    BY <1>8, <2>3, SMT
  <2> HIDE DEF u
  <2> DEFINE v == 2 * u
  <2>6. v \in Int /\ v % 2 = 0
    BY <2>4
  <2> HIDE DEF v
  <2>7. y = B * v + 0 /\ 0 < B
    BY <1>9, <2>3, <2>5, <2>6 DEF v
  <2>8. y \div B = v
    BY <1>9, <2>3, <2>6, <2>7, DivUnique
  <2> QED  BY <2>1, <2>6, <2>8 DEF Bit, B
<1>12. ASSUME NEW j \in Nat, j > l
       PROVE  Bit(y, j) = Bit(i, j)
  <2> DEFINE N == 2 * A
             t == j - (l + 1)
             C == 2^t
  <2>1. t \in Nat /\ l + 1 \in Nat /\ (l + 1) + t = j
    BY <1>6, <1>12
  <2> HIDE DEF t
  <2>2. N \in Nat /\ N > 0 /\ C \in Nat /\ C > 0 /\ 2^j = N * C
    <3>1. 2^((l + 1) + t) = 2^(l + 1) * 2^t
      BY <2>1, PowerOfSum
    <3>2. 2^t \in Nat /\ 2^t > t
      BY <2>1, PowerType
    <3> QED  BY <1>7, <2>1, <3>1, <3>2
  <2>3. i = N * a + A /\ y = N * a + 0 /\ A < N
    BY <1>7, <1>8, <1>9
  <2> HIDE DEF N, C
  <2>4. i \div N = a /\ y \div N = a
    BY <1>7, <1>8, <1>9, <2>2, <2>3, DivUnique
  <2>5. i \div (N * C) = (i \div N) \div C /\ y \div (N * C) = (y \div N) \div C
    BY <1>9, <2>2, DivOfProduct
  <2> QED  BY <2>2, <2>4, <2>5 DEF Bit
<1>13. \A j \in Nat : j # l => Bit(y, j) = Bit(i, j)
  BY <1>6, <1>11, <1>12
<1> QED  BY <1>5, <1>6, <1>9, <1>10, <1>13 DEF y, A, l

-----------------------------------------------------------------------------
(* The table.                                                              *)

Base(j, D) == (2^(j * D)) % Order
Tooth(i, T, D) == [j \in 0..(T - 1) |-> Times(Bit(i, j), Base(j, D))]
EntrySum(i, T, D) == ModSum(Tooth(i, T, D), 0..(T - 1))

LEMMA BaseType == ASSUME NEW j \in Nat, NEW D \in Nat PROVE 2^(j * D) \in Nat /\ Base(j, D) \in Scalar
<1>1. j * D \in Nat
  BY SMT
<1>2. 2^(j * D) \in Nat
  BY <1>1, PowerType
<1>3. \A x \in Nat : x % Order \in Scalar
  BY ModIsScalar
<1> QED  BY <1>2, <1>3 DEF Base

LEMMA ToothType ==
  ASSUME NEW i \in Nat, NEW T \in Nat, NEW D \in Nat
  PROVE  /\ IsFiniteSet(0..(T - 1))
         /\ \A j \in 0..(T - 1) : /\ Tooth(i, T, D)[j] \in Scalar
                                  /\ Bit(i, j) = 0 => Tooth(i, T, D)[j] = 0
                                  /\ Bit(i, j) = 1 => Tooth(i, T, D)[j] = Base(j, D)
<1>1. IsFiniteSet(0..(T - 1))
  BY FS_Interval
<1>2. ASSUME NEW j \in 0..(T - 1)
      PROVE  /\ Tooth(i, T, D)[j] \in Scalar
             /\ Bit(i, j) = 0 => Tooth(i, T, D)[j] = 0
             /\ Bit(i, j) = 1 => Tooth(i, T, D)[j] = Base(j, D)
  <2> DEFINE b == Base(j, D)
             c == Bit(i, j)
  <2>1. b \in Scalar /\ c \in Scalar /\ Tooth(i, T, D)[j] = Times(c, b)
    BY BaseType, BitType DEF Tooth
  <2> HIDE DEF b, c
  <2>2. Times(c, b) \in Scalar /\ (c = 0 => Times(c, b) = 0) /\ (c = 1 => Times(c, b) = b)
    BY <2>1, TimesLaws
  <2> QED  BY <2>1, <2>2 DEF b, c
<1> QED  BY <1>1, <1>2

LEMMA EntryOfZero == ASSUME NEW T \in Nat, NEW D \in Nat PROVE EntrySum(0, T, D) = 0
<1>1. \A j \in 0..(T - 1) : Bit(0, j) = 0
  <2> SUFFICES ASSUME NEW j \in 0..(T - 1) PROVE Bit(0, j) = 0
    OBVIOUS
  <2>1. 0 < 2^j
    BY PowerType
  <2> QED  BY <2>1, BitBeyond
<1>2. IsFiniteSet(0..(T - 1)) /\ \A j \in 0..(T - 1) : Tooth(0, T, D)[j] = 0
  BY <1>1, ToothType
<1> QED  BY <1>2, ModSumOfZeros DEF EntrySum

LEMMA EntryType == ASSUME NEW i \in Nat, NEW T \in Nat, NEW D \in Nat PROVE EntrySum(i, T, D) \in Scalar
BY ToothType, ModSumTakes DEF EntrySum

LEMMA EntryStep ==
  ASSUME NEW T \in Nat, NEW D \in Nat, NEW i \in 1..(2^T - 1)
  PROVE  LET l == LowestBit(i)
         IN  /\ i - 2^l \in 0..(2^T - 1) /\ i - 2^l < i
             /\ EntrySum(i, T, D) = Plus(EntrySum(i - 2^l, T, D), Base(l, D))
<1> DEFINE l == LowestBit(i)
           y == i - 2^l
           J == 0..(T - 1)
           f == Tooth(i, T, D)
           g == Tooth(y, T, D)
           b == Base(l, D)
<1>1. 2^T \in Nat /\ i \in Nat /\ i # 0 /\ i < 2^T
  BY PowerType
<1>2. /\ l \in Nat /\ 2^l <= i /\ y \in Nat /\ y < i /\ Bit(i, l) = 1 /\ Bit(y, l) = 0
      /\ \A j \in Nat : j # l => Bit(y, j) = Bit(i, j)
  BY <1>1, LowestBitLaws
<1> HIDE DEF l, y
<1>3. l \in J
  <2> SUFFICES ASSUME T <= l PROVE FALSE
    BY <1>2
  <2>1. 2^T <= 2^l /\ 2^l \in Nat
    BY <1>2, PowerGrows, PowerType
  <2> QED  BY <1>1, <1>2, <2>1
<1>4. y \in 0..(2^T - 1)
  BY <1>1, <1>2
<1>5. /\ IsFiniteSet(J) /\ b \in Scalar /\ f[l] = b /\ g[l] = 0
      /\ \A j \in J : f[j] \in Scalar /\ g[j] \in Scalar
  <2>1. b \in Scalar
    BY <1>2, BaseType
  <2>2. /\ IsFiniteSet(J)
        /\ \A j \in J : f[j] \in Scalar /\ (Bit(i, j) = 1 => f[j] = Base(j, D))
    BY <1>1, ToothType
  <2>3. \A j \in J : g[j] \in Scalar /\ (Bit(y, j) = 0 => g[j] = 0)
    BY <1>2, ToothType
  <2> QED  BY <1>2, <1>3, <2>1, <2>2, <2>3
<1>6. \A j \in J \ {l} : f[j] = g[j]
  BY <1>2 DEF Tooth
<1> HIDE DEF f, g, J, b
<1>7. ModSum(f, J) = Plus(f[l], ModSum(f, J \ {l})) /\ ModSum(g, J) = Plus(g[l], ModSum(g, J \ {l}))
  BY <1>3, <1>5, ModSumTakes
<1>8. IsFiniteSet(J \ {l})
  BY <1>5, FS_Subset
<1>9. ModSum(f, J \ {l}) = ModSum(g, J \ {l}) /\ ModSum(g, J \ {l}) \in Scalar
  <2>1. \A j \in J \ {l} : f[j] \in Scalar /\ f[j] = g[j] /\ g[j] \in Scalar
    BY <1>5, <1>6
  <2> QED  BY <1>8, <2>1, ModSumSame, ModSumTakes
<1> DEFINE r == ModSum(g, J \ {l})
<1>10. ModSum(f, J) = Plus(b, r) /\ ModSum(g, J) = Plus(0, r) /\ r \in Scalar
  BY <1>5, <1>7, <1>9
<1> HIDE DEF r
<1>11. ModSum(f, J) = Plus(ModSum(g, J), b)
  BY <1>5, <1>10, PlusLaws
<1>12. EntrySum(i, T, D) = ModSum(f, J) /\ EntrySum(y, T, D) = ModSum(g, J)
  BY DEF EntrySum, f, g, J
<1> QED  BY <1>2, <1>4, <1>11, <1>12 DEF y, l, b

LEMMA TableEntries ==
  ASSUME NEW T \in Nat, NEW D \in Nat
  PROVE  BuiltTable(T, D) = [i \in 1..2^T |-> EntrySum(i - 1, T, D)]
<1> DEFINE I == 0..(2^T - 1)
           low(i) == LowestBit(i)
           E(f) == f = [i \in I |-> IF i = 0 THEN 0 ELSE Plus(f[i - 2^LowestBit(i)], (2^(LowestBit(i) * D)) % Order)]
           s == [i \in I |-> EntrySum(i, T, D)]
           q == CHOOSE f : E(f)
<1>1. 2^T \in Nat
  BY PowerType
<1>2. ASSUME NEW i \in I, i # 0
      PROVE  /\ i - 2^LowestBit(i) \in I /\ i - 2^LowestBit(i) < i
             /\ s[i] = Plus(s[i - 2^LowestBit(i)], (2^(LowestBit(i) * D)) % Order)
  <2>1. i \in 1..(2^T - 1)
    BY <1>1, <1>2
  <2>2. /\ i - 2^LowestBit(i) \in I /\ i - 2^LowestBit(i) < i
        /\ EntrySum(i, T, D) = Plus(EntrySum(i - 2^LowestBit(i), T, D), Base(LowestBit(i), D))
    BY <2>1, EntryStep
  <2> QED  BY <2>2 DEF Base
<1>3. \A i \in I : i = 0 => s[i] = 0
  BY EntryOfZero
<1>4. E(s)
  <2>1. s = [i \in I |-> s[i]]
    OBVIOUS
  <2> HIDE DEF s, I
  <2> QED  BY <1>2, <1>3, <2>1
<1> HIDE DEF s
<1>5. E(q)
  BY <1>4, Zenon
<1>6. BuiltTable(T, D) = [i \in 1..2^T |-> q[i - 1]]
  BY Zenon DEF BuiltTable
<1> HIDE DEF q
<1>7. \A i \in I : q[i] = s[i]
  <2> DEFINE W == {i \in I : q[i] # s[i]}
  <2> SUFFICES ASSUME W # {} PROVE FALSE
    OBVIOUS
  <2>1. W \subseteq Nat
    BY <1>1
  <2>2. PICK m \in W : \A k \in W : m <= k
    <3> HIDE DEF W
    <3> QED  BY <2>1, LeastNumber
  <2>3. m \in I /\ q[m] # s[m]
    OBVIOUS
  <2>4. m # 0
    BY <1>3, <1>5, <2>3
  <2> DEFINE y == m - 2^LowestBit(m)
  <2>5. y \in I /\ y < m /\ s[m] = Plus(s[y], (2^(LowestBit(m) * D)) % Order)
    BY <1>2, <2>3, <2>4
  <2>6. q[m] = Plus(q[y], (2^(LowestBit(m) * D)) % Order)
    BY <1>5, <2>3, <2>4
  <2> HIDE DEF y
  <2>7. y \notin W
    BY <2>1, <2>2, <2>5
  <2> QED  BY <2>3, <2>5, <2>6, <2>7
<1>8. \A i \in 1..2^T : i - 1 \in I
  BY <1>1
<1> QED  BY <1>6, <1>7, <1>8 DEF s

-----------------------------------------------------------------------------
(* The multiplication.                                                     *)

LEMMA SpacingCovers ==
  ASSUME NEW T \in AcceptedTeeth
  PROVE  T \in Nat /\ T >= 2 /\ Spacing(T) \in Nat /\ Bits <= T * Spacing(T) /\ T * Spacing(T) \in Nat
<1>1. T \in Nat /\ T >= 2 /\ Bits \in Nat
  BY CombAssumption DEF AcceptedTeeth
<1> DEFINE x == Bits + T - 1
           D == x \div T
<1>2. x \in Nat
  BY <1>1
<1> HIDE DEF x
<1>3. D \in Nat /\ x % T < T /\ x % T \in Nat /\ x = T * D + (x % T)
  BY <1>1, <1>2, DivMod
<1> HIDE DEF D
<1>4. T * D \in Nat
  BY <1>1, <1>3, SMT
<1> DEFINE p == T * D
           r == x % T
<1>5. p \in Nat /\ r \in Nat /\ r < T /\ Bits + T - 1 = p + r
  BY <1>3, <1>4 DEF x
<1> HIDE DEF p, r
<1>6. Bits <= p
  BY <1>1, <1>5
<1> QED  BY <1>1, <1>3, <1>4, <1>6 DEF Spacing, p, D, x

(* The bits of k above row b that tooth j reads.                           *)
Segment(k, j, D, b) == (k \div 2^(j * D + b)) % 2^(D - b)

LEMMA SegmentSteps ==
  ASSUME NEW k \in Nat, NEW j \in Nat, NEW D \in Nat
  PROVE  /\ \A b \in 0..D : Segment(k, j, D, b) \in Nat
         /\ Segment(k, j, D, D) = 0
         /\ \A b \in 0..(D - 1) : Segment(k, j, D, b) = 2 * Segment(k, j, D, b + 1) + Bit(k, j * D + b)
<1>0. j * D \in Nat
  BY SMT
<1> DEFINE p == j * D
<1> HIDE DEF p
<1>1. ASSUME NEW b \in 0..D
      PROVE  /\ p + b \in Nat /\ D - b \in Nat /\ 2^(p + b) \in Nat /\ 2^(p + b) > 0
             /\ 2^(D - b) \in Nat /\ 2^(D - b) > 0 /\ k \div 2^(p + b) \in Nat
             /\ Segment(k, j, D, b) \in Nat
  <2>1. p + b \in Nat /\ D - b \in Nat
    BY <1>0 DEF p
  <2>2. 2^(p + b) \in Nat /\ 2^(p + b) > 0 /\ 2^(D - b) \in Nat /\ 2^(D - b) > 0
    BY <2>1, PowerType
  <2> DEFINE A == 2^(p + b)
             N == 2^(D - b)
             q == k \div A
  <2> HIDE DEF A, N
  <2>3. q \in Nat
    BY <2>2, DivMod DEF A
  <2> HIDE DEF q
  <2>4. q % N \in Nat
    BY <2>2, <2>3, DivMod DEF N
  <2> QED  BY <2>1, <2>2, <2>3, <2>4 DEF Segment, p, A, N, q
<1>2. Segment(k, j, D, D) = 0
  <2>1. D \in 0..D /\ D - D = 0
    OBVIOUS
  <2>2. k \div 2^(p + D) \in Nat
    BY <1>1, <2>1
  <2> DEFINE q == k \div 2^(p + D)
  <2> HIDE DEF q
  <2>3. q % 1 = 0
    BY <2>2 DEF q
  <2> QED  BY <2>1, <2>3, PowerOfZero DEF Segment, p, q
<1>3. ASSUME NEW b \in 0..(D - 1)
      PROVE  Segment(k, j, D, b) = 2 * Segment(k, j, D, b + 1) + Bit(k, j * D + b)
  <2> DEFINE A == 2^(p + b)
             N == 2^(D - (b + 1))
             q == k \div A
             h == q \div 2
  <2>1. b \in 0..D /\ b + 1 \in 0..D /\ p + (b + 1) = (p + b) + 1 /\ D - b = (D - (b + 1)) + 1
        /\ D - (b + 1) \in Nat /\ p + b \in Nat
    BY <1>0 DEF p
  <2>2. 2^(p + (b + 1)) = A * 2 /\ A \in Nat /\ A > 0 /\ 2^(D - b) = 2 * N /\ N \in Nat /\ N > 0
    <3>1. 2^((p + b) + 1) = 2 * A /\ 2^((D - (b + 1)) + 1) = 2 * N
      BY <2>1, PowerDoubles
    <3>2. A \in Nat /\ A > p + b /\ N \in Nat /\ N > D - (b + 1)
      BY <2>1, PowerType
    <3> HIDE DEF A, N
    <3> QED  BY <2>1, <3>1, <3>2
  <2>3. q \in Nat
    BY <1>1, <2>1
  <2> HIDE DEF A, N
  <2>4. k \div (A * 2) = h
    BY <2>2, DivOfProduct
  <2> HIDE DEF q
  <2>5. q % (2 * N) = (q % 2) + 2 * (h % N)
    <3>1. 2 \in Nat /\ 2 > 0
      OBVIOUS
    <3>2. q % (2 * N) = (q % 2) + 2 * ((q \div 2) % N)
      <4> HIDE DEF h
      <4> QED  BY <2>2, <2>3, <3>1, DivOfProduct
    <3> QED  BY <3>2
  <2>6. q % 2 \in Nat /\ h \in Nat
    BY <2>3, DivMod
  <2> HIDE DEF h
  <2>7. h % N \in Nat
    BY <2>2, <2>6, DivMod
  <2>8. q % (2 * N) = 2 * (h % N) + (q % 2)
    BY <2>5, <2>6, <2>7
  <2>9. Segment(k, j, D, b) = q % (2 * N)
    BY <2>2 DEF Segment, p, q, A
  <2>10. Segment(k, j, D, b + 1) = h % N
    BY <2>2, <2>4 DEF Segment, p, N
  <2>11. Bit(k, j * D + b) = q % 2
    BY DEF Bit, p, q, A
  <2> QED  BY <2>8, <2>9, <2>10, <2>11
<1> QED  BY <1>1, <1>2, <1>3

(* What the rows from b on make of k.                                      *)
Rest(k, j, D, b) == Times(Base(j, D), Segment(k, j, D, b) % Order)
RestOf(k, T, D, b) == ModSum([j \in 0..(T - 1) |-> Rest(k, j, D, b)], 0..(T - 1))

LEMMA RestType ==
  ASSUME NEW k \in Nat, NEW T \in Nat, NEW D \in Nat, NEW b \in 0..D
  PROVE  /\ \A j \in 0..(T - 1) : Rest(k, j, D, b) \in Scalar
         /\ RestOf(k, T, D, b) \in Scalar
         /\ RestOf(k, T, D, D) = 0
<1> DEFINE J == 0..(T - 1)
           f == [j \in J |-> Rest(k, j, D, b)]
           g == [j \in J |-> Rest(k, j, D, D)]
<1>1. ASSUME NEW j \in J
      PROVE  Rest(k, j, D, b) \in Scalar /\ Rest(k, j, D, D) = 0
  <2> DEFINE x == Segment(k, j, D, b) % Order
  <2>1. Segment(k, j, D, b) \in Nat /\ Segment(k, j, D, D) = 0
    <3>1. j \in Nat
      OBVIOUS
    <3> QED  BY <3>1, SegmentSteps
  <2>2. x \in Scalar /\ Base(j, D) \in Scalar
    BY <2>1, BaseType, ModIsScalar
  <2>3. 0 % Order = 0
    BY ZeroAndOne, ModOfScalar
  <2> HIDE DEF x
  <2>4. Times(Base(j, D), x) \in Scalar /\ Times(Base(j, D), 0) = 0
    BY <2>2, TimesLaws
  <2> QED  BY <2>1, <2>3, <2>4 DEF Rest, x
<1>2. IsFiniteSet(J)
  BY FS_Interval
<1>3. \A j \in J : f[j] \in Scalar /\ g[j] = 0
  BY <1>1
<1>4. ModSum(f, J) \in Scalar /\ ModSum(g, J) = 0
  <2> HIDE DEF f, g, J
  <2> QED  BY <1>2, <1>3, ModSumTakes, ModSumOfZeros
<1> QED  BY <1>1, <1>4 DEF RestOf

(* One row: doubling, and the entry for its bits.                          *)
LEMMA RestSteps ==
  ASSUME NEW k \in Nat, NEW T \in Nat, NEW D \in Nat, NEW b \in 0..(D - 1), NEW i \in Nat,
         \A j \in 0..(T - 1) : Bit(i, j) = Bit(k, j * D + b)
  PROVE  RestOf(k, T, D, b) = Plus(Times(2, RestOf(k, T, D, b + 1)), EntrySum(i, T, D))
<1> DEFINE J == 0..(T - 1)
           f == [j \in J |-> Rest(k, j, D, b)]
           g == [j \in J |-> Rest(k, j, D, b + 1)]
           gg == [j \in J |-> Times(2, g[j])]
           t == Tooth(i, T, D)
<1>1. IsFiniteSet(J) /\ 2 \in Scalar /\ b + 1 \in 0..D /\ b \in 0..D /\ 2 % Order = 2
  <2>1. 2 \in Scalar
    BY OrderType DEF Scalar
  <2>2. IsFiniteSet(J)
    BY FS_Interval
  <2> QED  BY <2>1, <2>2, ModOfScalar
<1>2. ASSUME NEW j \in J
      PROVE  f[j] = Plus(gg[j], t[j]) /\ g[j] \in Scalar /\ gg[j] \in Scalar /\ t[j] \in Scalar
             /\ gg[j] = Times(2, g[j])
  <2> DEFINE B == Base(j, D)
             u == Segment(k, j, D, b)
             v == Segment(k, j, D, b + 1)
             c == Bit(k, j * D + b)
             w == v % Order
  <2>1. u = 2 * v + c /\ v \in Nat
    <3>1. j \in Nat
      OBVIOUS
    <3>2. /\ Segment(k, j, D, b + 1) \in Nat
          /\ Segment(k, j, D, b) = 2 * Segment(k, j, D, b + 1) + Bit(k, j * D + b)
      BY <1>1, <3>1, SegmentSteps
    <3> QED  BY <3>2
  <2>2. B \in Scalar /\ w \in Scalar
    BY <2>1, BaseType, ModIsScalar
  <2>3. c \in {0, 1} /\ c \in Scalar
    <3>1. j * D \in Nat
      BY SMT
    <3>2. j * D + b \in Nat
      BY <3>1
    <3> QED  BY <3>2, BitType
  <2>4. u % Order = Plus(Times(2, w), c)
    <3> HIDE DEF u, v, c
    <3>1. 2 * v \in Int /\ c \in Int /\ (2 * v + c) % Order = Plus((2 * v) % Order, c % Order)
      BY <2>1, <2>3, PlusOfMods DEF Plus
    <3>2. (2 * v) % Order = Times(2, w)
      BY <1>1, <2>1, TimesOfMods DEF Times
    <3>3. c % Order = c
      BY <2>3, ModOfScalar
    <3> QED  BY <2>1, <3>1, <3>2, <3>3
  <2>5. f[j] = Times(B, u % Order) /\ g[j] = Times(B, w) /\ t[j] = Times(c, B) /\ gg[j] = Times(2, g[j])
    BY DEF Rest, Tooth
  <2> HIDE DEF B, u, v, c, w, f, g, gg, t
  <2>6. Times(2, w) \in Scalar
    BY <1>1, <2>2, TimesLaws
  <2>7. f[j] = Plus(Times(B, Times(2, w)), Times(B, c))
    <3> DEFINE x == Times(2, w)
    <3>1. x \in Scalar /\ f[j] = Times(B, Plus(x, c))
      BY <2>4, <2>5, <2>6
    <3> HIDE DEF x
    <3>2. Times(B, Plus(x, c)) = Plus(Times(B, x), Times(B, c))
      BY <2>2, <2>3, <3>1, TimesDistributes
    <3> QED  BY <3>1, <3>2 DEF x
  <2>8. Times(B, Times(2, w)) = Times(2, Times(B, w))
    <3>1. Times(B, Times(2, w)) = Times(Times(B, 2), w) /\ Times(2, Times(B, w)) = Times(Times(2, B), w)
      BY <1>1, <2>2, TimesAssociates
    <3>2. Times(B, 2) = Times(2, B)
      BY <1>1, <2>2, TimesLaws
    <3> QED  BY <3>1, <3>2
  <2>9. Times(B, c) = Times(c, B) /\ Times(B, w) \in Scalar /\ Times(c, B) \in Scalar
    BY <2>2, <2>3, TimesLaws
  <2>10. Times(2, g[j]) \in Scalar
    BY <1>1, <2>5, <2>9, TimesLaws
  <2> QED  BY <2>5, <2>7, <2>8, <2>9, <2>10
<1> HIDE DEF f, g, gg, t, J
<1>3. ModSum(f, J) = Plus(ModSum(gg, J), ModSum(t, J))
  BY <1>1, <1>2, ModSumPlus
<1>4. ModSum(gg, J) = Times(2, ModSum(g, J))
  BY <1>1, <1>2, ModSumTimes
<1> QED  BY <1>3, <1>4 DEF RestOf, EntrySum, f, g, t, J

(* All rows together are k.                                                *)
LEMMA RestIsAll ==
  ASSUME NEW k \in Scalar, NEW T \in Nat, NEW D \in Nat, k < 2^(T * D)
  PROVE  RestOf(k, T, D, 0) = k
<1> DEFINE J(m) == 0..(m - 1)
           f == [j \in J(T) |-> Rest(k, j, D, 0)]
           H == {m \in Nat : m <= T => ModSum(f, J(m)) = (k % 2^(m * D)) % Order}
<1>0. k \in Nat /\ 0 \in 0..D /\ k % Order = k
  BY ScalarType, ModOfScalar
<1>1. 0 \in H
  <2>1. J(0) = {} /\ 0 * D = 0 /\ k % 1 = 0
    BY <1>0
  <2>2. ModSum(f, {}) = 0 /\ 0 % Order = 0
    BY ModSumNothing, ZeroAndOne, ModOfScalar
  <2> QED  BY <2>1, <2>2, PowerOfZero
<1>2. ASSUME NEW m \in Nat, m \in H PROVE m + 1 \in H
  <2> SUFFICES ASSUME m + 1 <= T PROVE ModSum(f, J(m + 1)) = (k % 2^((m + 1) * D)) % Order
    OBVIOUS
  <2>1. J(m + 1) \ {m} = J(m) /\ m \in J(m + 1) /\ m \in J(T) /\ J(m + 1) \subseteq J(T)
    OBVIOUS
  <2>2. IsFiniteSet(J(m + 1))
    BY FS_Interval
  <2>3. \A j \in J(m + 1) : f[j] \in Scalar
    BY <1>0, <2>1, RestType
  <2>4. ModSum(f, J(m + 1)) = Plus(f[m], ModSum(f, J(m)))
    <3> HIDE DEF f, J
    <3>1. ModSum(f, J(m + 1)) = Plus(f[m], ModSum(f, J(m + 1) \ {m}))
      BY <2>1, <2>2, <2>3, ModSumTakes
    <3> QED  BY <2>1, <3>1
  <2> DEFINE A == 2^(m * D)
             B == 2^D
             s == (k \div A) % B
             r == k % A
  <2>5. A \in Nat /\ A > 0 /\ B \in Nat /\ B > 0 /\ 2^((m + 1) * D) = A * B
    <3>1. m * D \in Nat /\ (m + 1) * D = m * D + D
      BY SMT
    <3>2. 2^(m * D + D) = 2^(m * D) * 2^D
      BY <3>1, PowerOfSum
    <3>3. 2^(m * D) \in Nat /\ 2^(m * D) > 0 /\ 2^D \in Nat /\ 2^D > 0
      BY <3>1, PowerType
    <3> QED  BY <3>1, <3>2, <3>3
  <2>6. f[m] = Times(A % Order, s % Order)
    <3>1. m * D + 0 = m * D /\ D - 0 = D
      <4>1. m * D \in Nat
        BY SMT
      <4> QED  BY <4>1
    <3>2. Segment(k, m, D, 0) = s
      BY <3>1 DEF Segment
    <3> QED  BY <2>1, <3>2 DEF Rest, Base
  <2>7. ModSum(f, J(m)) = r % Order
    BY <1>2
  <2> HIDE DEF A, B, f, J
  <2>8. k % (A * B) = r + A * s
    BY <1>0, <2>5, DivOfProduct
  <2>9. r \in Int /\ s \in Int
    <3>1. r \in Nat /\ k \div A \in Nat
      BY <1>0, <2>5, DivMod
    <3> QED  BY <2>5, <3>1, DivMod
  <2> HIDE DEF s, r
  <2>10. A * s \in Int /\ A * s + r = r + A * s
    BY <2>5, <2>9
  <2>11. Times(A % Order, s % Order) = (A * s) % Order
    BY <2>5, <2>9, TimesOfMods DEF Times
  <2> DEFINE x == A * s
  <2> HIDE DEF x
  <2>12. Plus(x % Order, r % Order) = (x + r) % Order
    BY <2>9, <2>10, PlusOfMods DEF Plus, x
  <2> QED  BY <2>4, <2>5, <2>6, <2>7, <2>8, <2>10, <2>11, <2>12 DEF x
<1>3. T \in H
  <2> HIDE DEF H
  <2> QED  BY <1>1, <1>2, NumberInduction
<1>4. T * D \in Nat
  BY SMT
<1>5. k % 2^(T * D) = k
  BY <1>0, <1>4, BitBeyond
<1> QED  BY <1>0, <1>3, <1>5 DEF RestOf

(* The index of row b has the bits of k that the row reads: those past the *)
(* top of the scalar are the zeros that k has there anyway.                *)
LEMMA IndexReadsTheRow ==
  ASSUME NEW ctx, ctx.teeth \in AcceptedTeeth, ctx.spacing \in Nat,
         NEW k \in Scalar, NEW b \in Nat
  PROVE  /\ ExtractCombIndex(ctx, k, b) \in Nat
         /\ ExtractCombIndex(ctx, k, b) < 2^ctx.teeth
         /\ \A j \in 0..(ctx.teeth - 1) :
              Bit(ExtractCombIndex(ctx, k, b), j) = Bit(k, j * ctx.spacing + b)
<1> DEFINE T == ctx.teeth
           D == ctx.spacing
           c == [j \in 0..(T - 1) |-> IF b + j * D < Bits THEN Bit(k, b + j * D) ELSE 0]
<1>1. T \in Nat /\ D \in Nat /\ k \in Nat /\ b \in Nat
  BY ScalarType, SpacingCovers
<1>2. ASSUME NEW j \in 0..(T - 1)
      PROVE  j * D + b \in Nat /\ b + j * D = j * D + b /\ Bit(k, j * D + b) \in {0, 1}
             /\ c[j] = Bit(k, j * D + b)
  <2>1. j \in Nat
    BY <1>1
  <2>2. j * D \in Nat
    BY <1>1, <2>1, SMT
  <2> DEFINE p == j * D
  <2>3. p + b \in Nat /\ b + p = p + b
    BY <1>1, <2>2
  <2>4. Bit(k, p + b) \in {0, 1}
    BY <1>1, <2>3, BitType
  <2>5. ASSUME ~(p + b < Bits) PROVE Bit(k, p + b) = 0
    <3>1. Bits \in Nat /\ Order <= 2^Bits /\ Bits <= p + b
      BY <2>3, <2>5, CombAssumption
    <3>2. 2^Bits <= 2^(p + b) /\ 2^Bits \in Nat /\ 2^(p + b) \in Nat
      BY <2>3, <3>1, PowerGrows, PowerType
    <3>3. k < Order /\ Order \in Nat
      BY ScalarType, OrderType DEF Scalar
    <3> HIDE DEF p
    <3>4. k < 2^(p + b)
      BY <1>1, <3>1, <3>2, <3>3
    <3> QED  BY <1>1, <2>3, <3>4, BitBeyond
  <2> QED  BY <2>3, <2>4, <2>5
<1>3. c \in [0..(T - 1) -> {0, 1}]
  BY <1>2
<1>4. ExtractCombIndex(ctx, k, b) = SumOver(Places(c, T), 0..(T - 1))
  <2> DEFINE bit(j) == IF b + j * ctx.spacing < Bits THEN Bit(k, b + j * ctx.spacing) ELSE 0
             part == [j \in 0..(ctx.teeth - 1) |-> 2^j * bit(j)]
  <2>1. Places(c, T) = part
    BY DEF Places
  <2>2. ExtractCombIndex(ctx, k, b) = SumOver(part, 0..(ctx.teeth - 1))
    BY Zenon DEF ExtractCombIndex, SumOver
  <2> HIDE DEF part
  <2> QED  BY <2>1, <2>2
<1> DEFINE x == SumOver(Places(c, T), 0..(T - 1))
<1>5. x \in Nat /\ x < 2^T /\ \A j \in 0..(T - 1) : Bit(x, j) = c[j]
  <2> HIDE DEF c, T
  <2> QED  BY <1>1, <1>3, BitsOfPlaces
<1> HIDE DEF x
<1> QED  BY <1>2, <1>4, <1>5 DEF x

(* The entry that a row adds.                                              *)
LEMMA RowAddsItsEntry ==
  ASSUME NEW teeth \in AcceptedTeeth, NEW k \in Scalar, NEW b \in 0..(Spacing(teeth) - 1)
  PROVE  LET ctx == Context(teeth)
         IN  RestOf(k, teeth, Spacing(teeth), b)
               = Plus(Times(2, RestOf(k, teeth, Spacing(teeth), b + 1)),
                      ctx.table[ExtractCombIndex(ctx, k, b) + 1])
<1> DEFINE ctx == Context(teeth)
           D == Spacing(teeth)
           i == ExtractCombIndex(ctx, k, b)
<1>1. teeth \in Nat /\ D \in Nat /\ k \in Nat /\ b \in Nat
  BY ScalarType, SpacingCovers
<1>2. ctx.teeth = teeth /\ ctx.spacing = D /\ ctx.table = BuiltTable(teeth, D)
  BY DEF Context
<1>3. i \in Nat /\ i < 2^teeth /\ \A j \in 0..(teeth - 1) : Bit(i, j) = Bit(k, j * D + b)
  <2> HIDE DEF ctx, D
  <2> QED  BY <1>1, <1>2, IndexReadsTheRow
<1> HIDE DEF i, ctx
<1>4. RestOf(k, teeth, D, b) = Plus(Times(2, RestOf(k, teeth, D, b + 1)), EntrySum(i, teeth, D))
  BY <1>1, <1>3, RestSteps
<1>5. ctx.table = [m \in 1..2^teeth |-> EntrySum(m - 1, teeth, D)]
  BY <1>1, <1>2, TableEntries
<1>6. i + 1 \in 1..2^teeth /\ (i + 1) - 1 = i
  BY <1>1, <1>3, PowerType
<1>7. ctx.table[i + 1] = EntrySum(i, teeth, D)
  BY <1>5, <1>6
<1> QED  BY <1>4, <1>7 DEF i, ctx

LEMMA RowsMultiply ==
  ASSUME NEW teeth \in AcceptedTeeth, NEW k \in Scalar
  PROVE  MulCt(Context(teeth), k) = k
<1> DEFINE ctx == Context(teeth)
           D == Spacing(teeth)
           entry(b) == ctx.table[ExtractCombIndex(ctx, k, b) + 1]
           E(R) == R = [b \in 0..ctx.spacing |->
                          IF b = ctx.spacing THEN 0 ELSE Plus(Times(2, R[b + 1]), entry(b))]
           s == [b \in 0..D |-> RestOf(k, teeth, D, b)]
           q == CHOOSE R : E(R)
<1>1. teeth \in Nat /\ D \in Nat /\ k \in Nat /\ ctx.spacing = D
  BY ScalarType, SpacingCovers DEF Context
<1>2. s[D] = 0
  BY <1>1, RestType
<1>3. ASSUME NEW b \in 0..D, b # D
      PROVE  b + 1 \in 0..D /\ s[b] = Plus(Times(2, s[b + 1]), entry(b))
  <2>1. b \in 0..(D - 1) /\ b + 1 \in 0..D
    BY <1>1, <1>3
  <2> QED  BY <2>1, RowAddsItsEntry
<1> HIDE DEF ctx, entry, D
<1>4. E(s)
  <2>1. s = [b \in 0..D |-> s[b]]
    OBVIOUS
  <2> HIDE DEF s
  <2> QED  BY <1>1, <1>2, <1>3, <2>1
<1>5. s[0] = k
  <2>1. k < 2^(teeth * D)
    <3>1. Bits \in Nat /\ Order <= 2^Bits /\ Bits <= teeth * D /\ teeth * D \in Nat
      BY CombAssumption, SpacingCovers DEF D
    <3>2. 2^Bits <= 2^(teeth * D) /\ 2^Bits \in Nat /\ 2^(teeth * D) \in Nat
      BY <3>1, PowerGrows, PowerType
    <3>3. k < Order /\ Order \in Nat
      BY ScalarType, OrderType DEF Scalar
    <3> QED  BY <1>1, <3>1, <3>2, <3>3
  <2>2. RestOf(k, teeth, D, 0) = k
    BY <1>1, <2>1, RestIsAll
  <2> QED  BY <1>1, <2>2
<1> HIDE DEF s
<1>6. E(q)
  BY <1>4, Zenon
<1>7. MulCt(ctx, k) = q[0]
  BY Zenon DEF MulCt, entry
<1> HIDE DEF q
<1>8. \A n \in Nat : n <= D => q[D - n] = s[D - n]
  <2> DEFINE H == {n \in Nat : n <= D => q[D - n] = s[D - n]}
  <2>1. 0 \in H
    <3>1. D - 0 = D /\ D \in 0..D
      BY <1>1
    <3> QED  BY <1>1, <1>2, <1>6, <3>1
  <2>2. ASSUME NEW n \in Nat, n \in H PROVE n + 1 \in H
    <3> SUFFICES ASSUME n + 1 <= D PROVE q[D - (n + 1)] = s[D - (n + 1)]
      OBVIOUS
    <3> DEFINE b == D - (n + 1)
    <3>1. b \in 0..D /\ b # D /\ b + 1 = D - n /\ n <= D
      BY <1>1
    <3>2. q[b + 1] = s[b + 1]
      BY <2>2, <3>1
    <3> HIDE DEF b
    <3>3. q[b] = Plus(Times(2, q[b + 1]), entry(b))
      BY <1>1, <1>6, <3>1
    <3> QED  BY <1>3, <3>1, <3>2, <3>3 DEF b
  <2> HIDE DEF H
  <2>3. \A n \in Nat : n \in H
    BY <2>1, <2>2, NumberInduction
  <2> QED  BY <2>3 DEF H
<1>9. q[0] = s[0]
  <2>1. D <= D /\ D - D = 0
    BY <1>1
  <2> QED  BY <1>1, <1>8, <2>1
<1> QED  BY <1>5, <1>7, <1>9 DEF ctx

LEMMA ContextMultiplies ==
  ASSUME NEW teeth \in AcceptedTeeth
  PROVE  Multiplies(Context(teeth))
<1> DEFINE ctx == Context(teeth)
<1>1. \A k \in Scalar : MulCt(ctx, k) = k
  BY RowsMultiply
<1>2. [ctx EXCEPT !.table[1] = 0] = ctx
  <2>1. teeth \in Nat /\ Spacing(teeth) \in Nat /\ 2^teeth \in Nat /\ 2^teeth > 0
    BY SpacingCovers, PowerType
  <2> DEFINE t == BuiltTable(teeth, Spacing(teeth))
  <2>2. t = [m \in 1..2^teeth |-> EntrySum(m - 1, teeth, Spacing(teeth))]
    BY <2>1, TableEntries
  <2>3. 1 \in 1..2^teeth /\ 1 - 1 = 0
    BY <2>1
  <2>4. t[1] = 0
    BY <2>1, <2>2, <2>3, EntryOfZero
  <2> HIDE DEF t
  <2>5. [t EXCEPT ![1] = 0] = t
    BY <2>2, <2>4
  <2>6. ctx.table = t
    BY DEF Context, t
  <2>7. [ctx EXCEPT !.table[1] = 0] = [teeth |-> teeth, spacing |-> Spacing(teeth), table |-> [t EXCEPT ![1] = 0]]
    BY DEF Context, t
  <2> QED  BY <2>5, <2>7 DEF Context, t
<1>3. \A k \in Scalar : Mul(ctx, k) = MulCt(ctx, k)
  BY <1>2 DEF Mul
<1> QED  BY <1>1, <1>3 DEF Multiplies

LEMMA AcceptedPower == \A teeth \in AcceptedTeeth : 2^teeth \in Nat \ {0}
BY PowerType, SpacingCovers

-----------------------------------------------------------------------------
(***************************************************************************)
(* The contexts of the comb, its file and call_once().                     *)
(***************************************************************************)

IsSequence(s) == Len(s) \in Nat /\ s = [i \in 1..Len(s) |-> s[i]]
HasHole(s) == \E i \in DOMAIN s : s[i] = OffCurve

(* A context is built, or it is not initialized, or a load gave its table  *)
(* up, or left it with what is no point.                                   *)
OwnInv ==
  /\ usable \in BOOLEAN
  /\ IsSequence(own.table)
  /\ usable => own.teeth \in AcceptedTeeth /\ own = Context(own.teeth)
  /\ ~usable => own.teeth = 0 \/ own.table = <<>> \/ HasHole(own.table)

(* A file was saved from such a context; damage keeps its header and its   *)
(* digest and never makes it longer.                                       *)
FileInv ==
  file # NoFile =>
    /\ file = [teeth |-> file.teeth, spacing |-> file.spacing, count |-> file.count,
               entries |-> file.entries, digest |-> file.digest, digested |-> file.digested]
    /\ IsSequence(file.digest) /\ IsSequence(file.entries)
    /\ file.count = Len(file.digest) /\ Len(file.entries) <= file.count
    /\ \/ /\ file.teeth \in AcceptedTeeth
          /\ file.spacing = Spacing(file.teeth)
          /\ file.digest = BuiltTable(file.teeth, file.spacing)
       \/ file.digest = <<>>
       \/ HasHole(file.digest)

OnceInv ==
  /\ g_comb_once \in BOOLEAN
  /\ calling \in [Callers -> {"idle", "once", "using"}]
  /\ \A c \in Callers : calling[c] = "using" => g_comb_once
  /\ g_comb_once => g_comb_ctx.teeth \in AcceptedTeeth /\ g_comb_ctx = Context(g_comb_ctx.teeth)

CombIInv == OwnInv /\ FileInv /\ OnceInv

-----------------------------------------------------------------------------
LEMMA FunctionIsSequence ==
  ASSUME NEW n \in Nat, NEW f, f = [i \in 1..n |-> f[i]]
  PROVE  IsSequence(f) /\ Len(f) = n
<1>1. PICK S : S = {f[i] : i \in 1..n}
  OBVIOUS
<1>2. f \in [1..n -> S] /\ DOMAIN f = 1..n
  BY <1>1
<1>3. f \in Seq(S)
  BY <1>2, SeqDef
<1>4. Len(f) = n
  BY <1>2, <1>3, LenProperties
<1> QED  BY <1>4 DEF IsSequence

LEMMA BuiltTableIsSequence ==
  ASSUME NEW teeth \in AcceptedTeeth, NEW spacing
  PROVE  /\ IsSequence(BuiltTable(teeth, spacing))
         /\ Len(BuiltTable(teeth, spacing)) = 2^teeth
<1>1. 2^teeth \in Nat
  BY AcceptedPower
<1>2. BuiltTable(teeth, spacing) = [i \in 1..2^teeth |-> BuiltTable(teeth, spacing)[i]]
  BY DEF BuiltTable
<1> QED  BY <1>1, <1>2, FunctionIsSequence

LEMMA InitContextKeeps ==
  ASSUME CombIInv, InitContext PROVE CombIInv'
<1>1. PICK teeth \in AcceptedTeeth : own' = Context(teeth)
  BY DEF InitContext
<1>2. OwnInv'
  BY <1>1, BuiltTableIsSequence DEF InitContext, OwnInv, Context
<1> QED  BY <1>2 DEF InitContext, CombIInv, FileInv, OnceInv

LEMMA SaveCacheKeeps ==
  ASSUME CombIInv, SaveCache PROVE CombIInv'
<1>1. IsSequence(own.table) /\ Len(own.table) \in Nat
  BY DEF CombIInv, OwnInv, IsSequence
<1>2. \/ /\ own.teeth \in AcceptedTeeth
         /\ own.spacing = Spacing(own.teeth)
         /\ own.table = BuiltTable(own.teeth, own.spacing)
      \/ own.table = <<>>
      \/ HasHole(own.table)
  BY DEF CombIInv, OwnInv, SaveCache, Ready, Context
<1>3. FileInv'
  BY <1>1, <1>2 DEF SaveCache, FileInv
<1> QED  BY <1>3 DEF SaveCache, CombIInv, OwnInv, OnceInv

LEMMA DamageKeeps ==
  ASSUME CombIInv, Damage PROVE CombIInv'
<1>1. CASE file' = NoFile
  BY <1>1 DEF Damage, CombIInv, OwnInv, FileInv, OnceInv
<1>2. ASSUME NEW i \in DOMAIN file.entries, NEW P \in Scalar \cup {OffCurve},
             file' = [file EXCEPT !.entries[i] = P]
      PROVE  FileInv'
  <2> DEFINE s == file.entries
             t == [s EXCEPT ![i] = P]
  <2>1. IsSequence(s)
    BY <1>2 DEF Damage, CombIInv, FileInv
  <2>2. t = [j \in 1..Len(s) |-> t[j]]
    BY <2>1 DEF IsSequence
  <2>3. IsSequence(t) /\ Len(t) = Len(s)
    BY <2>1, <2>2, FunctionIsSequence DEF IsSequence
  <2>4. file'.entries = t
    BY <1>2 DEF Damage, CombIInv, FileInv
  <2> QED  BY <1>2, <2>3, <2>4 DEF Damage, CombIInv, FileInv
<1>3. ASSUME NEW n \in 0..Len(file.entries),
             file' = [file EXCEPT !.entries = SubSeq(@, 1, n), !.digested = FALSE]
      PROVE  FileInv'
  <2> DEFINE s == file.entries
             t == SubSeq(s, 1, n)
  <2>0. IsSequence(s)
    BY DEF Damage, CombIInv, FileInv
  <2>1. IsSequence(s) /\ n \in Nat /\ n <= Len(s)
    BY <1>3, <2>0 DEF IsSequence
  <2>2. t = [j \in 1..n |-> s[j]]
    BY <2>1 DEF IsSequence
  <2>3. t = [j \in 1..n |-> t[j]]
    BY <2>2
  <2>4. IsSequence(t) /\ Len(t) = n
    BY <2>1, <2>3, FunctionIsSequence
  <2>5. file'.entries = t
    BY <1>3 DEF Damage, CombIInv, FileInv
  <2> QED  BY <1>3, <2>1, <2>4, <2>5 DEF Damage, CombIInv, FileInv
<1>4. FileInv'
  BY <1>1, <1>2, <1>3 DEF Damage, CombIInv
<1> QED  BY <1>4 DEF Damage, CombIInv, OwnInv, OnceInv

LEMMA LoadCacheKeeps ==
  ASSUME CombIInv, LoadCache PROVE CombIInv'
<1> DEFINE n == file.count
<1>0. FileInv' /\ OnceInv'
  BY DEF LoadCache, CombIInv, FileInv, OnceInv
<1>1. /\ file # NoFile /\ file.teeth \in AcceptedTeeth /\ n = 2^file.teeth
      /\ IsSequence(file.entries) /\ IsSequence(file.digest)
      /\ n = Len(file.digest) /\ n \in Nat \ {0} /\ Len(file.entries) <= n
  BY AcceptedPower DEF LoadCache, HeaderAccepted, CombIInv, FileInv, AcceptedTeeth
<1>2. own'.teeth = file.teeth /\ own'.spacing = file.spacing /\ usable' = CacheAccepted
  BY DEF LoadCache
<1>3. TableRead = [i \in 1..n |-> TableRead[i]]
  BY DEF TableRead
<1>4. IsSequence(TableRead)
  BY <1>1, <1>3, FunctionIsSequence
<1>5. CASE CacheAccepted
  <2>1. own' = [teeth |-> file.teeth, spacing |-> file.spacing, table |-> TableRead]
    BY <1>5 DEF LoadCache
  <2>2. DOMAIN file.entries = 1..n
    BY <1>1, <1>5 DEF CacheAccepted, Complete, IsSequence
  <2>3. file.entries = [i \in 1..n |-> file.entries[i]]
    BY <1>1, <1>5, <2>2 DEF IsSequence
  <2>4. TableRead = file.digest
    BY <1>5, <2>2, <2>3 DEF TableRead, CacheAccepted
  <2>5. ~HasHole(file.digest) /\ file.digest # <<>>
    BY <1>1, <1>5 DEF CacheAccepted, HasHole
  <2>6. /\ file.spacing = Spacing(file.teeth)
        /\ file.digest = BuiltTable(file.teeth, file.spacing)
    BY <1>1, <2>5 DEF CombIInv, FileInv
  <2> QED
    BY <1>1, <1>2, <1>4, <1>5, <1>0, <2>1, <2>4, <2>6 DEF CombIInv, OwnInv, Context
<1>6. CASE ~CacheAccepted /\ Complete
  <2>1. own'.table = <<>> /\ usable' = FALSE
    BY <1>6 DEF LoadCache, CacheAccepted
  <2>2. IsSequence(<<>>)
    BY DEF IsSequence
  <2> QED  BY <1>0, <2>1, <2>2 DEF CombIInv, OwnInv, Context
<1>7. CASE ~CacheAccepted /\ ~Complete
  <2>1. own'.table = TableRead /\ usable' = FALSE
    BY <1>7 DEF LoadCache, CacheAccepted
  <2>2. n \notin DOMAIN file.entries
    BY <1>1, <1>7 DEF Complete, IsSequence
  <2>3. HasHole(TableRead)
    BY <1>1, <1>3, <2>2 DEF HasHole, TableRead
  <2> QED  BY <1>4, <1>0, <2>1, <2>3 DEF CombIInv, OwnInv, Context
<1> QED  BY <1>5, <1>6, <1>7

LEMMA OnceKeeps ==
  ASSUME CombIInv, CombOnceNext PROVE CombIInv'
<1>1. OwnInv' /\ FileInv'
  BY DEF CombIInv, CombOnceNext, OwnInv, FileInv, OwnUnchanged, InitCombGen, CombGenMul, DoInitComb,
     DoInitCombThrows, AlreadyDone, Multiplied
<1>2. PICK c \in Callers : \/ InitCombGen(c) \/ CombGenMul(c) \/ DoInitComb(c)
                           \/ DoInitCombThrows(c) \/ AlreadyDone(c) \/ Multiplied(c)
  BY DEF CombOnceNext
<1>3. CASE DoInitComb(c)
  <2>1. g_comb_ctx' = Context(g_comb_ctx'.teeth) /\ g_comb_ctx'.teeth \in AcceptedTeeth
    BY <1>3 DEF DoInitComb, Context
  <2>2. g_comb_once' = TRUE /\ calling' \in [Callers -> {"idle", "once", "using"}]
    BY <1>3 DEF DoInitComb, CombIInv, OnceInv
  <2> QED  BY <1>1, <2>1, <2>2 DEF CombIInv, OnceInv, Context
<1>4. CASE \/ InitCombGen(c) \/ CombGenMul(c) \/ DoInitCombThrows(c) \/ AlreadyDone(c)
           \/ Multiplied(c)
  <2>1. UNCHANGED <<g_comb_once, g_comb_ctx>>
    BY <1>4 DEF InitCombGen, CombGenMul, DoInitCombThrows, AlreadyDone, Multiplied
  <2>2. \/ AlreadyDone(c)
        \/ calling' = [calling EXCEPT ![c] = "idle"]
        \/ calling' = [calling EXCEPT ![c] = "once"]
    BY <1>4 DEF InitCombGen, CombGenMul, DoInitCombThrows, Multiplied
  <2> QED  BY <1>1, <2>1, <2>2 DEF AlreadyDone, CombIInv, OnceInv, Context
<1> QED  BY <1>1, <1>2, <1>3, <1>4 DEF CombIInv

-----------------------------------------------------------------------------
(* The inductive invariant: the application's context, the file, call_once. *)
LEMMA CombInvariance == CombSpec => []CombIInv
<1>1. CombInit => CombIInv
  <2> SUFFICES ASSUME CombInit PROVE CombIInv
    OBVIOUS
  <2>1. IsSequence(<<>>)
    BY DEF IsSequence
  <2>3. OwnInv
    BY <2>1 DEF CombInit, OwnInv, NotInitialized
  <2>2. FileInv /\ OnceInv
    BY DEF CombInit, FileInv, OnceInv
  <2> QED  BY <2>2, <2>3 DEF CombIInv
<1>2. CombIInv /\ [CombNext]_combVars => CombIInv'
  <2> SUFFICES ASSUME CombIInv, [CombNext]_combVars PROVE CombIInv'
    OBVIOUS
  <2>1. CASE CombFileNext
    BY <2>1, InitContextKeeps, SaveCacheKeeps, DamageKeeps, LoadCacheKeeps DEF CombFileNext
  <2>2. CASE CombOnceNext
    BY <2>2, OnceKeeps
  <2>3. CASE UNCHANGED combVars
    BY <2>3 DEF combVars, CombIInv, OwnInv, FileInv, OnceInv
  <2> QED  BY <2>1, <2>2, <2>3 DEF CombNext
<1> QED  BY <1>1, <1>2, PTL DEF CombSpec

(* The table that is used is the built one, whatever was saved, damaged,   *)
(* refused or raced before.                                                *)
THEOREM UsedTableIsBuilt == CombSpec => []TableIsBuilt
<1>1. CombIInv => TableIsBuilt
  BY DEF CombIInv, OwnInv, OnceInv, TableIsBuilt
<1> QED  BY <1>1, CombInvariance, PTL

(* For every group, width and number of teeth that init() accepts, also    *)
(* one that does not divide the width: mul() and mul_ct() give k G for     *)
(* every k, with the context of an application that was built or loaded    *)
(* and with the process-wide one.                                          *)
THEOREM ContextsMultiply == CombSpec => []CombIsMultiple
<1>1. CombIInv => CombIsMultiple
  BY ContextMultiplies DEF CombIInv, OwnInv, OnceInv, CombIsMultiple
<1> QED  BY <1>1, CombInvariance, PTL

-----------------------------------------------------------------------------
(***************************************************************************)
(* Blinding.  A cached scalar that is valid is the context's own seed, and *)
(* what a thread multiplies under is a scalar with its own point.          *)
(***************************************************************************)
ContextRecords ==
  [blinded : BOOLEAN, blind : Nat, cached_r : Scalar, cached_r_G : Scalar, cached_r_G_valid : BOOLEAN]

BlindingTypeOK ==
  /\ context \in [Contexts -> ContextRecords \cup {NoContext}]
  /\ installed \in [Threads -> Scalar]
  /\ scopes \in [Threads -> Seq(Contexts)]
  /\ DOMAIN g_blinding = Threads

CacheInv ==
  \A c \in Contexts : Exists(c) /\ context[c].cached_r_G_valid =>
    /\ context[c].blind \in NonZero
    /\ context[c].cached_r = context[c].blind /\ context[c].cached_r_G = context[c].blind

Sound(bl) == bl = Cleared \/ \E r \in Scalar : bl = SetBlinding(r, r)

PairInv ==
  \A t \in Threads :
    /\ Sound(g_blinding[t])
    /\ scopes[t] = <<>> => g_blinding[t] = IF installed[t] = 0 THEN Cleared
                                           ELSE SetBlinding(installed[t], installed[t])

BlindingIInv == BlindingTypeOK /\ CacheInv /\ PairInv

-----------------------------------------------------------------------------
(* Scalar::from_bytes() reduces.                                           *)
LEMMA SeedReduced == ASSUME NEW x \in Nat PROVE FromBytes(x) \in Scalar
BY OrderType, SMT DEF FromBytes, Scalar

(* A seed the strict parser accepts is its own residue.                    *)
LEMMA StrictSeed == ASSUME NEW x \in NonZero PROVE FromBytes(x) = x /\ x \in Scalar /\ x # 0
BY OrderType, SMT DEF FromBytes, Scalar, NonZero

(* Adding r to the scalar and -r G to the product cancels.                 *)
LEMMA PointCancels ==
  ASSUME NEW k \in Scalar, NEW r \in Scalar
  PROVE  Plus(Plus(k, r), Neg(r)) = k
<1>1. CASE r = 0
  BY <1>1, OrderType, SMT DEF Plus, Neg, Scalar
<1>2. CASE r # 0
  <2>1. Neg(r) = Order - r
    BY <1>2, OrderType, SMT DEF Neg, Scalar
  <2>2. CASE k + r < Order
    BY <2>1, <2>2, <1>2, OrderType, SMT DEF Plus, Scalar
  <2>3. CASE k + r >= Order
    <3>1. Plus(k, r) = k + r - Order
      BY <2>3, OrderType, SMT DEF Plus, Scalar
    <3> QED  BY <2>1, <3>1, <1>2, OrderType, SMT DEF Plus, Scalar
  <2> QED  BY <2>2, <2>3, OrderType DEF Scalar
<1> QED  BY <1>1, <1>2

(* So a blinding in order changes no product.                              *)
LEMMA SoundIsNeutral ==
  ASSUME NEW bl, Sound(bl), NEW k \in Scalar
  PROVE  GeneratorMulBlinded(bl, k) = k
<1>1. CASE bl = Cleared
  BY <1>1 DEF GeneratorMulBlinded, Cleared
<1>2. CASE \E r \in Scalar : bl = SetBlinding(r, r)
  BY <1>2, PointCancels DEF GeneratorMulBlinded, SetBlinding
<1> QED  BY <1>1, <1>2 DEF Sound

(* What a scope applies.                                                   *)
LEMMA AppliedSound ==
  ASSUME BlindingIInv, NEW t \in Threads, NEW c \in Contexts, Exists(c)
  PROVE  /\ Sound(Applied(t, context[c]))
         /\ context[c].blinded /\ FromBytes(context[c].blind) # 0 =>
              Applied(t, context[c]) = SetBlinding(FromBytes(context[c].blind), FromBytes(context[c].blind))
<1>1. context[c] \in ContextRecords
  BY DEF BlindingIInv, BlindingTypeOK, Exists
<1> DEFINE x == context[c]
<1>2. Sound(g_blinding[t])
  BY DEF BlindingIInv, PairInv
<1>3. FromBytes(x.blind) \in Scalar
  BY <1>1, SeedReduced DEF ContextRecords
<1>4. x.blinded \in BOOLEAN /\ x.cached_r_G_valid \in BOOLEAN
  BY <1>1 DEF ContextRecords
<1>5. CASE ~x.blinded
  BY <1>5, <1>2 DEF Applied
<1>6. CASE x.blinded /\ x.cached_r_G_valid
  <2>1. x.cached_r = x.blind /\ x.cached_r_G = x.blind /\ x.blind \in NonZero
    BY <1>6 DEF BlindingIInv, CacheInv
  <2>2. Applied(t, x) = SetBlinding(x.blind, x.blind)
    BY <1>6, <2>1 DEF Applied
  <2> QED  BY <2>1, <2>2, StrictSeed DEF Sound
<1>7. CASE x.blinded /\ ~x.cached_r_G_valid /\ FromBytes(x.blind) = 0
  BY <1>7, <1>2 DEF Applied
<1>8. CASE x.blinded /\ ~x.cached_r_G_valid /\ FromBytes(x.blind) # 0
  <2>1. Applied(t, x) = SetBlinding(FromBytes(x.blind), FromBytes(x.blind))
    BY <1>8 DEF Applied
  <2> QED  BY <2>1, <1>3 DEF Sound
<1> QED  BY <1>4, <1>5, <1>6, <1>7, <1>8

-----------------------------------------------------------------------------
(* Before anything has happened there is no context and no blinding.       *)
LEMMA BlindingInitInv == BlindingInit => BlindingIInv
<1> SUFFICES ASSUME BlindingInit PROVE BlindingIInv
  OBVIOUS
<1>1. BlindingTypeOK
  BY OrderType, EmptySeq DEF BlindingInit, BlindingTypeOK, Scalar
<1>2. CacheInv
  BY DEF BlindingInit, CacheInv, Exists
<1>3. PairInv
  BY DEF BlindingInit, PairInv, Sound
<1> QED  BY <1>1, <1>2, <1>3 DEF BlindingIInv

(* A step that changes one context, to a record in order or to none.       *)
LEMMA ContextStep ==
  ASSUME BlindingIInv, NEW c \in Contexts, NEW x,
         context' = [context EXCEPT ![c] = x], UNCHANGED <<g_blinding, installed, scopes>>,
         \/ x = NoContext
         \/ /\ x \in ContextRecords
            /\ x.cached_r_G_valid => /\ x.blind \in NonZero
                                     /\ x.cached_r = x.blind /\ x.cached_r_G = x.blind
  PROVE  BlindingIInv'
<1>1. BlindingTypeOK'
  BY DEF BlindingIInv, BlindingTypeOK
<1>2. CacheInv'
  <2> SUFFICES ASSUME NEW o \in Contexts, Exists(o)', context'[o].cached_r_G_valid
               PROVE  /\ context'[o].blind \in NonZero
                      /\ context'[o].cached_r = context'[o].blind
                      /\ context'[o].cached_r_G = context'[o].blind
    BY DEF CacheInv
  <2>1. CASE o = c
    BY <2>1 DEF BlindingIInv, BlindingTypeOK, Exists
  <2>2. CASE o # c
    BY <2>2 DEF BlindingIInv, BlindingTypeOK, CacheInv, Exists
  <2> QED  BY <2>1, <2>2
<1>3. PairInv'
  BY DEF BlindingIInv, PairInv
<1> QED  BY <1>1, <1>2, <1>3 DEF BlindingIInv

(* A step of one thread, which leaves it a blinding in order.              *)
LEMMA ThreadStep ==
  ASSUME BlindingIInv, NEW t \in Threads, NEW bl, NEW i \in Scalar, NEW s \in Seq(Contexts),
         g_blinding' = [g_blinding EXCEPT ![t] = bl],
         installed' = [installed EXCEPT ![t] = i],
         scopes' = [scopes EXCEPT ![t] = s],
         UNCHANGED context,
         Sound(bl),
         s = <<>> => bl = IF i = 0 THEN Cleared ELSE SetBlinding(i, i)
  PROVE  BlindingIInv'
<1>1. BlindingTypeOK'
  BY DEF BlindingIInv, BlindingTypeOK
<1>2. CacheInv'
  BY DEF BlindingIInv, CacheInv, Exists
<1>3. PairInv'
  BY DEF BlindingIInv, PairInv, BlindingTypeOK
<1> QED  BY <1>1, <1>2, <1>3 DEF BlindingIInv

(* The operations on contexts.                                             *)
LEMMA CreateKeeps ==
  ASSUME BlindingIInv, NEW c \in Contexts, Create(c) PROVE BlindingIInv'
<1>1. Fresh \in ContextRecords /\ ~Fresh.cached_r_G_valid
  BY OrderType DEF Fresh, ContextRecords, Scalar
<1> QED  BY <1>1, ContextStep DEF Create

LEMMA CloneKeeps ==
  ASSUME BlindingIInv, NEW c \in Contexts, NEW other \in Contexts, Clone(c, other)
  PROVE  BlindingIInv'
<1>1. context[c] \in ContextRecords
  BY DEF BlindingIInv, BlindingTypeOK, Clone, Exists
<1>2. context[c].cached_r_G_valid =>
        /\ context[c].blind \in NonZero
        /\ context[c].cached_r = context[c].blind /\ context[c].cached_r_G = context[c].blind
  BY DEF BlindingIInv, CacheInv, Clone
<1> QED  BY <1>1, <1>2, ContextStep DEF Clone

LEMMA DestroyKeeps ==
  ASSUME BlindingIInv, NEW c \in Contexts, Destroy(c) PROVE BlindingIInv'
BY ContextStep DEF Destroy

LEMMA RandomizeKeeps ==
  ASSUME BlindingIInv, NEW c \in Contexts, NEW seed \in Seeds, Randomize(c, seed)
  PROVE  BlindingIInv'
<1>1. context[c] \in ContextRecords
  BY DEF BlindingIInv, BlindingTypeOK, Randomize, Exists
<1>2. seed \in Nat
  BY BlindingAssumption
<1>3. CASE StrictlyParsed(seed)
  <2> DEFINE x == [blinded |-> TRUE, blind |-> seed, cached_r |-> seed, cached_r_G |-> seed,
                   cached_r_G_valid |-> TRUE]
  <2>1. seed \in NonZero /\ seed \in Scalar
    BY <1>3, StrictSeed DEF StrictlyParsed
  <2>2. x \in ContextRecords
    BY <2>1, <1>2 DEF ContextRecords
  <2>3. context' = [context EXCEPT ![c] = x] /\ UNCHANGED <<g_blinding, installed, scopes>>
    BY <1>3 DEF Randomize
  <2>4. x.blind \in NonZero /\ x.cached_r = x.blind /\ x.cached_r_G = x.blind
    BY <2>1
  <2> HIDE DEF x
  <2> QED  BY <2>2, <2>3, <2>4, ContextStep
<1>4. CASE ~StrictlyParsed(seed)
  <2> DEFINE x == [context[c] EXCEPT !.blinded = TRUE, !.blind = seed, !.cached_r_G_valid = FALSE]
  <2>1. x \in ContextRecords /\ ~x.cached_r_G_valid
    BY <1>1, <1>2 DEF ContextRecords
  <2>2. context' = [context EXCEPT ![c] = x] /\ UNCHANGED <<g_blinding, installed, scopes>>
    BY <1>4 DEF Randomize
  <2> HIDE DEF x
  <2> QED  BY <2>1, <2>2, ContextStep
<1> QED  BY <1>3, <1>4

LEMMA UnrandomizeKeeps ==
  ASSUME BlindingIInv, NEW c \in Contexts, Unrandomize(c) PROVE BlindingIInv'
<1> DEFINE x == [Fresh EXCEPT !.cached_r_G = context[c].cached_r_G]
<1>1. context[c] \in ContextRecords
  BY DEF BlindingIInv, BlindingTypeOK, Unrandomize, Exists
<1>2. x \in ContextRecords /\ ~x.cached_r_G_valid
  <2>1. Fresh \in ContextRecords /\ ~Fresh.cached_r_G_valid
    BY OrderType DEF Fresh, ContextRecords, Scalar
  <2>2. context[c].cached_r_G \in Scalar
    BY <1>1 DEF ContextRecords
  <2> QED  BY <2>1, <2>2 DEF ContextRecords
<1>3. context' = [context EXCEPT ![c] = x] /\ UNCHANGED <<g_blinding, installed, scopes>>
  BY DEF Unrandomize
<1> HIDE DEF x
<1> QED  BY <1>2, <1>3, ContextStep

(* The operations of threads.                                              *)
LEMMA OpenScopeKeeps ==
  ASSUME BlindingIInv, NEW t \in Threads, NEW c \in Contexts, OpenScope(t, c)
  PROVE  BlindingIInv'
<1> DEFINE bl == Applied(t, context[c])
           s == Append(scopes[t], c)
<1>1. Sound(bl)
  BY AppliedSound DEF OpenScope
<1>2. s \in Seq(Contexts) /\ s # <<>>
  <2>1. scopes[t] \in Seq(Contexts)
    BY DEF BlindingIInv, BlindingTypeOK
  <2> QED  BY <2>1, AppendProperties
<1>3. installed[t] \in Scalar /\ installed = [installed EXCEPT ![t] = installed[t]]
  BY DEF BlindingIInv, BlindingTypeOK
<1>4. g_blinding' = [g_blinding EXCEPT ![t] = bl] /\ scopes' = [scopes EXCEPT ![t] = s]
  BY DEF OpenScope
<1>5. context' = context /\ installed' = [installed EXCEPT ![t] = installed[t]]
  BY <1>3 DEF OpenScope
<1> HIDE DEF bl, s
<1> QED  BY <1>1, <1>2, <1>3, <1>4, <1>5, ThreadStep

LEMMA CloseScopeKeeps ==
  ASSUME BlindingIInv, NEW t \in Threads, CloseScope(t) PROVE BlindingIInv'
<1> DEFINE s == SubSeq(scopes[t], 1, Len(scopes[t]) - 1)
<1>1. scopes[t] \in Seq(Contexts) /\ scopes[t] # <<>>
  BY DEF BlindingIInv, BlindingTypeOK, CloseScope
<1>2. Len(scopes[t]) \in Nat /\ Len(scopes[t]) > 0
  BY <1>1, EmptySeq, LenProperties
<1>3. s \in Seq(Contexts)
  BY <1>1, <1>2, SubSeqProperties
<1>4. 0 \in Scalar /\ Sound(Cleared)
  BY OrderType DEF Scalar, Sound
<1>5. /\ g_blinding' = [g_blinding EXCEPT ![t] = Cleared] /\ scopes' = [scopes EXCEPT ![t] = s]
      /\ installed' = [installed EXCEPT ![t] = 0] /\ context' = context
  BY DEF CloseScope
<1> HIDE DEF s
<1> QED  BY <1>3, <1>4, <1>5, ThreadStep

LEMMA UfsecpKeeps ==
  ASSUME BlindingIInv, NEW t \in Threads,
         UfsecpUnrandomize(t) \/ \E seed \in Seeds : UfsecpRandomize(t, seed)
  PROVE  BlindingIInv'
<1>1. scopes[t] \in Seq(Contexts) /\ scopes = [scopes EXCEPT ![t] = scopes[t]]
  BY DEF BlindingIInv, BlindingTypeOK
<1>2. scopes' = [scopes EXCEPT ![t] = scopes[t]] /\ context' = context
  BY <1>1 DEF UfsecpUnrandomize, UfsecpRandomize
<1>3. CASE UfsecpUnrandomize(t)
  <2>1. 0 \in Scalar /\ Sound(Cleared)
    BY OrderType DEF Scalar, Sound
  <2>2. g_blinding' = [g_blinding EXCEPT ![t] = Cleared] /\ installed' = [installed EXCEPT ![t] = 0]
    BY <1>3 DEF UfsecpUnrandomize
  <2> QED  BY <1>1, <1>2, <2>1, <2>2, ThreadStep
<1>4. ASSUME NEW seed \in Seeds, UfsecpRandomize(t, seed) PROVE BlindingIInv'
  <2> DEFINE r == FromBytes(seed)
             bl == SetBlinding(r, r)
  <2>1. r \in Scalar /\ r # 0
    BY <1>4, BlindingAssumption, SeedReduced DEF UfsecpRandomize
  <2>2. g_blinding' = [g_blinding EXCEPT ![t] = bl] /\ installed' = [installed EXCEPT ![t] = r]
    BY <1>4 DEF UfsecpRandomize
  <2>3. Sound(bl) /\ bl = IF r = 0 THEN Cleared ELSE SetBlinding(r, r)
    BY <2>1 DEF Sound
  <2> HIDE DEF r, bl
  <2> QED  BY <1>1, <1>2, <2>1, <2>2, <2>3, ThreadStep
<1> QED  BY <1>3, <1>4

(* Every step, of a context or of a thread, keeps the invariant.           *)
LEMMA BlindingStepKeeps == BlindingIInv /\ [BlindingNext]_blindingVars => BlindingIInv'
<1> SUFFICES ASSUME BlindingIInv, [BlindingNext]_blindingVars PROVE BlindingIInv'
  OBVIOUS
<1>1. CASE \E c \in Contexts :
             \/ Create(c) \/ Destroy(c) \/ Unrandomize(c)
             \/ \E other \in Contexts : Clone(c, other)
             \/ \E seed \in Seeds : Randomize(c, seed)
  BY <1>1, CreateKeeps, DestroyKeeps, UnrandomizeKeeps, CloneKeeps, RandomizeKeeps
<1>2. CASE \E t \in Threads :
             \/ CloseScope(t) \/ UfsecpUnrandomize(t)
             \/ \E c \in Contexts : OpenScope(t, c)
             \/ \E seed \in Seeds : UfsecpRandomize(t, seed)
  BY <1>2, CloseScopeKeeps, OpenScopeKeeps, UfsecpKeeps
<1>3. CASE UNCHANGED blindingVars
  BY <1>3 DEF blindingVars, BlindingIInv, BlindingTypeOK, CacheInv, PairInv, Exists
<1> QED  BY <1>1, <1>2, <1>3 DEF BlindingNext

(* The inductive invariant: types, caches, and each thread's blinding.     *)
THEOREM BlindingInvariance == BlindingSpec => []BlindingIInv
BY BlindingInitInv, BlindingStepKeeps, PTL DEF BlindingSpec

(* A thread's blinding is a scalar with its own point, so k G is k G; and  *)
(* outside a scope it is what the thread itself installed.                 *)
THEOREM BlindingChangesNoProduct == BlindingSpec => []BlindingNeutral
<1>1. BlindingIInv => BlindingNeutral
  BY SoundIsNeutral DEF BlindingIInv, PairInv, BlindingNeutral
<1> QED  BY <1>1, BlindingInvariance, PTL

-----------------------------------------------------------------------------
(* Only the opening of a scope makes the scopes of a thread more.          *)
LEMMA OnlyOpeningGrows ==
  ASSUME BlindingIInv, [BlindingNext]_blindingVars, NEW t \in Threads,
         Len(scopes'[t]) > Len(scopes[t])
  PROVE  \E c \in Contexts : OpenScope(t, c)
<1>1. \A u \in Threads : scopes[u] \in Seq(Contexts) /\ Len(scopes[u]) \in Nat
  BY LenProperties DEF BlindingIInv, BlindingTypeOK
<1>2. CASE scopes' = scopes
  BY <1>1, <1>2
<1>3. ASSUME NEW u \in Threads, CloseScope(u) PROVE FALSE
  <2>1. scopes[u] # <<>> /\ Len(scopes[u]) > 0
    BY <1>1, <1>3, EmptySeq, LenProperties DEF CloseScope
  <2>2. Len(SubSeq(scopes[u], 1, Len(scopes[u]) - 1)) = Len(scopes[u]) - 1
    BY <1>1, <2>1, SubSeqProperties
  <2>3. scopes'[t] = IF t = u THEN SubSeq(scopes[u], 1, Len(scopes[u]) - 1) ELSE scopes[t]
    BY <1>3 DEF CloseScope, BlindingIInv, BlindingTypeOK
  <2> QED  BY <1>1, <2>2, <2>3
<1>4. ASSUME NEW u \in Threads, NEW c \in Contexts, OpenScope(u, c) PROVE u = t
  BY <1>1, <1>4 DEF OpenScope, BlindingIInv, BlindingTypeOK
<1>5. \/ scopes' = scopes
      \/ \E u \in Threads : CloseScope(u) \/ \E c \in Contexts : OpenScope(u, c)
  BY DEF BlindingNext, blindingVars, Create, Destroy, Unrandomize, Clone, Randomize,
         UfsecpUnrandomize, UfsecpRandomize
<1> QED  BY <1>2, <1>3, <1>4, <1>5

(* The ContextBlindingScope a thread opens installs the current seed of    *)
(* its context, cached or not.                                             *)
THEOREM ScopesUseTheirContext == BlindingSpec => OwnBlinding
<1> DEFINE x(t) == context[scopes'[t][Len(scopes'[t])]]
           Own(t) == /\ Len(scopes'[t]) > Len(scopes[t])
                     /\ x(t).blinded /\ FromBytes(x(t).blind) # 0
                     => g_blinding'[t] = SetBlinding(FromBytes(x(t).blind), FromBytes(x(t).blind))
<1>1. ASSUME BlindingIInv, [BlindingNext]_blindingVars, NEW t \in Threads PROVE Own(t)
  <2> SUFFICES ASSUME Len(scopes'[t]) > Len(scopes[t]), x(t).blinded, FromBytes(x(t).blind) # 0
               PROVE  g_blinding'[t] = SetBlinding(FromBytes(x(t).blind), FromBytes(x(t).blind))
    OBVIOUS
  <2>1. PICK c \in Contexts : OpenScope(t, c)
    BY <1>1, OnlyOpeningGrows
  <2>2. scopes[t] \in Seq(Contexts) /\ scopes'[t] = Append(scopes[t], c)
    BY <1>1, <2>1 DEF OpenScope, BlindingIInv, BlindingTypeOK
  <2>3. scopes'[t][Len(scopes'[t])] = c
    BY <2>2, AppendProperties
  <2>4. g_blinding'[t] = Applied(t, context[c])
    BY <1>1, <2>1 DEF OpenScope, BlindingIInv, BlindingTypeOK
  <2> QED  BY <1>1, <2>1, <2>3, <2>4, AppliedSound DEF OpenScope
<1>2. BlindingIInv /\ [BlindingNext]_blindingVars =>
        [\A t \in Threads :
           /\ Len(scopes'[t]) > Len(scopes[t])
           /\ LET y == context[scopes'[t][Len(scopes'[t])]]
              IN  y.blinded /\ FromBytes(y.blind) # 0
           => g_blinding'[t] = LET y == context[scopes'[t][Len(scopes'[t])]]
                               IN  SetBlinding(FromBytes(y.blind), FromBytes(y.blind))]_blindingVars
  BY <1>1
<1> QED  BY <1>2, BlindingInvariance, PTL DEF BlindingSpec, OwnBlinding

-----------------------------------------------------------------------------
(***************************************************************************)
(* Process resources.                                                      *)
(***************************************************************************)

Steps == {"out", "load", "lock", "check", "build", "store", "use", "wait",
          "unpublish", "delete"}

ResourcesTypeOK ==
  /\ ptr \in [Kinds -> Nat] /\ built \in [Kinds -> Nat]
  /\ init_m \in [Kinds -> Actors \cup {Nobody}]
  /\ live \in [Kinds -> SUBSET (Nat \ {0})]
  /\ at \in [Actors -> Steps] /\ kind \in [Actors -> Kinds]
  /\ held \in [Actors -> [Kinds -> Nat]]
  /\ job \in Users \cup {Nobody} /\ pending \in BOOLEAN

(* The mutex is held from the second load to the publication.              *)
LockInv ==
  \A a \in Actors, r \in Kinds :
    init_m[r] = a <=> at[a] \in {"check", "build", "store"} /\ kind[a] = r

(* Whoever releases is alone in the library.                               *)
AloneInv ==
  \A a \in Actors :
    Releasing(a) => /\ \A b \in Actors \ {a} : at[b] = "out"
                    /\ job = Nobody

(* A job has its user inside run(), and the worker works only on a job.    *)
JobInv ==
  /\ job # Nobody => /\ at[job] # "out" /\ kind[job] = "tables"
                     /\ held[job]["pool"] # 0
  /\ pending => job # Nobody
  /\ at[Worker] # "out" => pending /\ kind[Worker] = "tables"
  /\ \A a \in Actors : at[a] = "wait" => job = a

(* A pointer that is held is to a live object, the published one unless    *)
(* its holder is about to publish or to delete it.                         *)
HeldInv ==
  \A a \in Actors :
    /\ at[a] \in {"out", "unpublish"} => \A r \in Kinds : held[a][r] = 0
    /\ at[a] \in {"use", "store"} => held[a][kind[a]] # 0
    /\ \A r \in Kinds :
         held[a][r] # 0 =>
           /\ held[a][r] \in live[r]
           /\ held[a][r] = ptr[r] \/ (at[a] \in {"store", "delete"} /\ kind[a] = r)

(* A live object is the published one, or the one a builder or a releaser  *)
(* holds; a builder finds none.                                            *)
LiveInv ==
  /\ OneInstance
  /\ \A r \in Kinds : ptr[r] # 0 => ptr[r] \in live[r]
  /\ \A a \in Actors :
       /\ at[a] \in {"build", "store", "delete"} => ptr[kind[a]] = 0
       /\ at[a] = "build" => live[kind[a]] = {}

ResourcesIInv ==
  /\ ResourcesTypeOK /\ LockInv /\ AloneInv /\ JobInv /\ HeldInv /\ LiveInv

-----------------------------------------------------------------------------
LEMMA EnterKeeps ==
  ASSUME ResourcesIInv, NEW a \in Actors, Enter(a)
  PROVE  ResourcesIInv'
<1> USE ResourcesAssumption DEF ResourcesIInv, Actors, Kinds, Steps, ResourcesTypeOK
<1>1. ResourcesTypeOK'
  BY DEF Enter, Step
<1>2. LockInv'
  BY DEF Enter, Step, LockInv
<1>3. AloneInv'
  BY DEF Enter, Step, AloneInv, Releasing, JobInv
<1>4. JobInv'
  BY DEF Enter, Step, JobInv
<1>5. HeldInv'
  BY DEF Enter, Step, HeldInv
<1>6. LiveInv'
  BY DEF Enter, Step, LiveInv, OneInstance
<1> QED  BY <1>1, <1>2, <1>3, <1>4, <1>5, <1>6

LEMMA LoadKeeps ==
  ASSUME ResourcesIInv, NEW a \in Actors, Load(a)
  PROVE  ResourcesIInv'
<1> USE ResourcesAssumption DEF ResourcesIInv, Actors, Kinds, Steps, ResourcesTypeOK
<1>1. ResourcesTypeOK'
  BY DEF Load, Goto, Takes
<1>2. LockInv'
  BY DEF Load, Goto, LockInv
<1>3. AloneInv'
  BY DEF Load, Goto, AloneInv, Releasing
<1>4. JobInv'
  BY DEF Load, Goto, Takes, JobInv
<1>5. HeldInv'
  BY DEF Load, Goto, Takes, HeldInv, LiveInv
<1>6. LiveInv'
  BY DEF Load, Goto, Takes, LiveInv, OneInstance
<1> QED  BY <1>1, <1>2, <1>3, <1>4, <1>5, <1>6

LEMMA LockKeeps ==
  ASSUME ResourcesIInv, NEW a \in Actors, Lock(a)
  PROVE  ResourcesIInv'
<1> USE ResourcesAssumption DEF ResourcesIInv, Actors, Kinds, Steps, ResourcesTypeOK
<1>1. ResourcesTypeOK'
  BY DEF Lock, Goto
<1>2. LockInv'
  BY DEF Lock, Goto, LockInv
<1>3. AloneInv'
  BY DEF Lock, Goto, AloneInv, Releasing
<1>4. JobInv'
  BY DEF Lock, Goto, JobInv
<1>5. HeldInv'
  BY DEF Lock, Goto, HeldInv
<1>6. LiveInv'
  BY DEF Lock, Goto, LiveInv, OneInstance
<1> QED  BY <1>1, <1>2, <1>3, <1>4, <1>5, <1>6

LEMMA CheckKeeps ==
  ASSUME ResourcesIInv, NEW a \in Actors, Check(a)
  PROVE  ResourcesIInv'
<1> USE ResourcesAssumption DEF ResourcesIInv, Actors, Kinds, Steps, ResourcesTypeOK
<1>1. ResourcesTypeOK'
  BY DEF Check, Goto, Takes
<1>2. LockInv'
  BY DEF Check, Goto, LockInv
<1>3. AloneInv'
  BY DEF Check, Goto, AloneInv, Releasing
<1>4. JobInv'
  BY DEF Check, Goto, Takes, JobInv
<1>5. HeldInv'
  BY DEF Check, Goto, Takes, HeldInv, LiveInv
<1>6. LiveInv'
  BY DEF Check, Goto, Takes, LiveInv, OneInstance, LockInv, AloneInv, Releasing
<1> QED  BY <1>1, <1>2, <1>3, <1>4, <1>5, <1>6

LEMMA BuildKeeps ==
  ASSUME ResourcesIInv, NEW a \in Actors, Build(a)
  PROVE  ResourcesIInv'
<1> USE ResourcesAssumption DEF ResourcesIInv, Actors, Kinds, Steps, ResourcesTypeOK
<1>1. ResourcesTypeOK'
  BY DEF Build, Goto, Takes
<1>2. LockInv'
  BY DEF Build, Goto, LockInv
<1>3. AloneInv'
  BY DEF Build, Goto, AloneInv, Releasing
<1>4. JobInv'
  BY DEF Build, Goto, Takes, JobInv
<1>5. HeldInv'
  BY DEF Build, Goto, Takes, HeldInv
<1>6. LiveInv'
  BY DEF Build, Goto, Takes, LiveInv, OneInstance, LockInv
<1> QED  BY <1>1, <1>2, <1>3, <1>4, <1>5, <1>6

LEMMA PublishKeeps ==
  ASSUME ResourcesIInv, NEW a \in Actors, Publish(a)
  PROVE  ResourcesIInv'
<1> USE ResourcesAssumption DEF ResourcesIInv, Actors, Kinds, Steps, ResourcesTypeOK
<1>1. ResourcesTypeOK'
  BY DEF Publish, Goto
<1>2. LockInv'
  BY DEF Publish, Goto, LockInv
<1>3. AloneInv'
  BY DEF Publish, Goto, AloneInv, Releasing
<1>4. JobInv'
  BY DEF Publish, Goto, JobInv
<1>5. HeldInv'
  BY DEF Publish, Goto, HeldInv, LiveInv
<1>6. LiveInv'
  BY DEF Publish, Goto, LiveInv, OneInstance, HeldInv, LockInv, AloneInv, Releasing
<1> QED  BY <1>1, <1>2, <1>3, <1>4, <1>5, <1>6

LEMMA RunJobKeeps ==
  ASSUME ResourcesIInv, NEW a \in Actors, RunJob(a)
  PROVE  ResourcesIInv'
<1> USE ResourcesAssumption DEF ResourcesIInv, Actors, Kinds, Steps, ResourcesTypeOK
<1>1. ResourcesTypeOK'
  BY DEF RunJob, Step, JobInv
<1>2. LockInv'
  BY DEF RunJob, Step, LockInv
<1>3. AloneInv'
  BY DEF RunJob, Step, AloneInv, Releasing
<1>4. JobInv'
  BY DEF RunJob, Step, JobInv, HeldInv
<1>5. HeldInv'
  BY DEF RunJob, Step, HeldInv
<1>6. LiveInv'
  BY DEF RunJob, Step, LiveInv, OneInstance
<1> QED  BY <1>1, <1>2, <1>3, <1>4, <1>5, <1>6

LEMMA UsedTablesKeeps ==
  ASSUME ResourcesIInv, NEW a \in Actors, UsedTables(a)
  PROVE  ResourcesIInv'
<1> USE ResourcesAssumption DEF ResourcesIInv, Actors, Kinds, Steps, ResourcesTypeOK
<1>1. ResourcesTypeOK'
  BY DEF UsedTables, Leaves, Goto, Nothing
<1>2. LockInv'
  BY DEF UsedTables, Leaves, Goto, LockInv
<1>3. AloneInv'
  BY DEF UsedTables, Leaves, Goto, AloneInv, Releasing
<1>4. JobInv'
  BY DEF UsedTables, Leaves, Goto, JobInv
<1>5. HeldInv'
  BY DEF UsedTables, Leaves, Goto, HeldInv, Nothing
<1>6. LiveInv'
  BY DEF UsedTables, Leaves, Goto, LiveInv, OneInstance
<1> QED  BY <1>1, <1>2, <1>3, <1>4, <1>5, <1>6

LEMMA RunReturnsKeeps ==
  ASSUME ResourcesIInv, NEW a \in Actors, RunReturns(a)
  PROVE  ResourcesIInv'
<1> USE ResourcesAssumption DEF ResourcesIInv, Actors, Kinds, Steps, ResourcesTypeOK
<1>1. ResourcesTypeOK'
  BY DEF RunReturns, Leaves, Goto, Nothing
<1>2. LockInv'
  BY DEF RunReturns, Leaves, Goto, LockInv
<1>3. AloneInv'
  BY DEF RunReturns, Leaves, Goto, AloneInv, Releasing
<1>4. JobInv'
  BY DEF RunReturns, Leaves, Goto, JobInv
<1>5. HeldInv'
  BY DEF RunReturns, Leaves, Goto, HeldInv, Nothing
<1>6. LiveInv'
  BY DEF RunReturns, Leaves, Goto, LiveInv, OneInstance
<1> QED  BY <1>1, <1>2, <1>3, <1>4, <1>5, <1>6

LEMMA ReleaseKeeps ==
  ASSUME ResourcesIInv, NEW a \in Actors, Release(a)
  PROVE  ResourcesIInv'
<1> USE ResourcesAssumption DEF ResourcesIInv, Actors, Kinds, Steps, ResourcesTypeOK
<1>1. ResourcesTypeOK'
  BY DEF Release, Step
<1>2. LockInv'
  BY DEF Release, Step, LockInv
<1>3. AloneInv'
  BY DEF Release, Step, AloneInv, Releasing, JobInv
<1>4. JobInv'
  BY DEF Release, Step, JobInv
<1>5. HeldInv'
  BY DEF Release, Step, HeldInv
<1>6. LiveInv'
  BY DEF Release, Step, LiveInv, OneInstance
<1> QED  BY <1>1, <1>2, <1>3, <1>4, <1>5, <1>6

LEMMA UnpublishKeeps ==
  ASSUME ResourcesIInv, NEW a \in Actors, Unpublish(a)
  PROVE  ResourcesIInv'
<1> USE ResourcesAssumption DEF ResourcesIInv, Actors, Kinds, Steps, ResourcesTypeOK
<1>1. ResourcesTypeOK'
  BY DEF Unpublish, Takes, Goto
<1>2. LockInv'
  BY DEF Unpublish, Goto, LockInv
<1>3. AloneInv'
  BY DEF Unpublish, Goto, AloneInv, Releasing
<1>4. JobInv'
  BY DEF Unpublish, Takes, Goto, JobInv
<1>5. HeldInv'
  BY DEF Unpublish, Takes, Goto, HeldInv, LiveInv, AloneInv, Releasing
<1>6. LiveInv'
  BY DEF Unpublish, Takes, Goto, LiveInv, OneInstance
<1> QED  BY <1>1, <1>2, <1>3, <1>4, <1>5, <1>6

LEMMA DeleteKeeps ==
  ASSUME ResourcesIInv, NEW a \in Actors, Delete(a)
  PROVE  ResourcesIInv'
<1> USE ResourcesAssumption DEF ResourcesIInv, Actors, Kinds, Steps, ResourcesTypeOK
<1>1. ResourcesTypeOK'
  BY DEF Delete, Step, Goto, Nothing
<1>2. LockInv'
  BY DEF Delete, Step, Goto, LockInv
<1>3. AloneInv'
  BY DEF Delete, Step, Goto, AloneInv, Releasing
<1>4. JobInv'
  BY DEF Delete, Step, Goto, JobInv, AloneInv, Releasing
<1>5. HeldInv'
  BY DEF Delete, Step, Goto, HeldInv, AloneInv, Releasing, Nothing
<1>6. LiveInv'
  BY DEF Delete, Step, Goto, LiveInv, OneInstance
<1> QED  BY <1>1, <1>2, <1>3, <1>4, <1>5, <1>6

LEMMA WorkerTakesKeeps ==
  ASSUME ResourcesIInv, WorkerTakes
  PROVE  ResourcesIInv'
<1> USE ResourcesAssumption DEF ResourcesIInv, Actors, Kinds, Steps, ResourcesTypeOK
<1>1. ResourcesTypeOK'
  BY DEF WorkerTakes, Step
<1>2. LockInv'
  BY DEF WorkerTakes, Step, LockInv
<1>3. AloneInv'
  BY DEF WorkerTakes, Step, AloneInv, Releasing, JobInv
<1>4. JobInv'
  BY DEF WorkerTakes, Step, JobInv
<1>5. HeldInv'
  BY DEF WorkerTakes, Step, HeldInv
<1>6. LiveInv'
  BY DEF WorkerTakes, Step, LiveInv, OneInstance
<1> QED  BY <1>1, <1>2, <1>3, <1>4, <1>5, <1>6

-----------------------------------------------------------------------------
LEMMA ResourcesInvariant == ResourcesSpec => []ResourcesIInv
<1>1. ResourcesInit => ResourcesIInv
  <2> SUFFICES ASSUME ResourcesInit PROVE ResourcesIInv
    OBVIOUS
  <2> USE ResourcesAssumption DEF ResourcesInit, Nothing, Actors, Kinds
  <2>1. ResourcesTypeOK
    BY DEF ResourcesTypeOK, Steps
  <2>2. LockInv /\ AloneInv /\ JobInv
    BY DEF LockInv, AloneInv, JobInv
  <2>3. HeldInv
    BY DEF HeldInv
  <2>4. LiveInv
    BY DEF LiveInv, OneInstance
  <2> QED  BY <2>1, <2>2, <2>3, <2>4 DEF ResourcesIInv
<1>2. ResourcesIInv /\ [ResourcesNext]_resourceVars => ResourcesIInv'
  <2> SUFFICES ASSUME ResourcesIInv, [ResourcesNext]_resourceVars PROVE ResourcesIInv'
    OBVIOUS
  <2>1. CASE WorkerTakes
    BY <2>1, WorkerTakesKeeps
  <2>2. ASSUME NEW a \in Actors, Enter(a) PROVE ResourcesIInv'
    BY <2>2, EnterKeeps
  <2>3. ASSUME NEW a \in Actors, Load(a) PROVE ResourcesIInv'
    BY <2>3, LoadKeeps
  <2>4. ASSUME NEW a \in Actors, Lock(a) PROVE ResourcesIInv'
    BY <2>4, LockKeeps
  <2>5. ASSUME NEW a \in Actors, Check(a) PROVE ResourcesIInv'
    BY <2>5, CheckKeeps
  <2>6. ASSUME NEW a \in Actors, Build(a) PROVE ResourcesIInv'
    BY <2>6, BuildKeeps
  <2>7. ASSUME NEW a \in Actors, Publish(a) PROVE ResourcesIInv'
    BY <2>7, PublishKeeps
  <2>8. ASSUME NEW a \in Actors, RunJob(a) PROVE ResourcesIInv'
    BY <2>8, RunJobKeeps
  <2>9. ASSUME NEW a \in Actors, UsedTables(a) PROVE ResourcesIInv'
    BY <2>9, UsedTablesKeeps
  <2>10. ASSUME NEW a \in Actors, RunReturns(a) PROVE ResourcesIInv'
    BY <2>10, RunReturnsKeeps
  <2>11. ASSUME NEW a \in Actors, Release(a) PROVE ResourcesIInv'
    BY <2>11, ReleaseKeeps
  <2>12. ASSUME NEW a \in Actors, Unpublish(a) PROVE ResourcesIInv'
    BY <2>12, UnpublishKeeps
  <2>13. ASSUME NEW a \in Actors, Delete(a) PROVE ResourcesIInv'
    BY <2>13, DeleteKeeps
  <2>20. CASE UNCHANGED resourceVars
    BY <2>20 DEF resourceVars, ResourcesIInv, ResourcesTypeOK, LockInv, AloneInv, JobInv,
       HeldInv, LiveInv, OneInstance, Releasing
  <2> QED
    BY <2>1, <2>2, <2>3, <2>4, <2>5, <2>6, <2>7, <2>8, <2>9, <2>10, <2>11, <2>12, <2>13, <2>20
    DEF ResourcesNext
<1> QED  BY <1>1, <1>2, PTL DEF ResourcesSpec

(* No actor uses an object that was deleted.                               *)
THEOREM ResourcesStayAlive == ResourcesSpec => []ResourcesAlive
<1>1. ResourcesIInv => ResourcesAlive
  BY ResourcesAssumption DEF ResourcesIInv, ResourcesTypeOK, HeldInv, JobInv, LiveInv, AloneInv,
     Releasing, ResourcesAlive, Actors, Kinds, Steps
<1> QED  BY <1>1, ResourcesInvariant, PTL

(* Each resource exists at most once, and no live object is out of reach.  *)
THEOREM ResourcesAreSingle == ResourcesSpec => []OneInstance
<1>1. ResourcesIInv => OneInstance
  BY DEF ResourcesIInv, LiveInv
<1> QED  BY <1>1, ResourcesInvariant, PTL
===============================================================================
