-------------------------- MODULE AlgorithmsProofs --------------------------
(***************************************************************************)
(* Proofs about the three algorithms: the prefix sums, for arrays of every *)
(* length and ints of every width; the derivative, for polynomials of      *)
(* every length, coefficient and power; the determinant, for integer       *)
(* matrices and teams of threads of every size.                            *)
(*                                                                         *)
(* In this order: the prefix sums; induction over the natural numbers,     *)
(* from the least element of a set, and functions defined by recursion;    *)
(* the derivative; fractions in lowest terms, which are a field; minors    *)
(* and the laws of the Laplace expansion; what elimination does to a       *)
(* determinant; the chunks of a team; detWithoutOmp; the teams of threads. *)
(***************************************************************************)
EXTENDS Algorithms, TLAPS, WellFoundedInduction, FiniteSetTheorems

Half == Prefix!Half

LEMMA HalfType == Half \in Nat /\ Half > 0
BY AlgorithmsAssumption DEF Half, Prefix!Half

\* Division with remainder, for any modulus.
LEMMA Division ==
    ASSUME NEW m \in Nat, m > 0, NEW v \in Int
    PROVE  \E q \in Int : v = m * q + (v % m) /\ v % m \in 0..(m - 1)
<1>1. v \div m \in Int /\ v = m * (v \div m) + (v % m)
  OBVIOUS
<1>2. v % m \in 0..(m - 1)
  OBVIOUS
<1> QED
  BY <1>1, <1>2

\* The remainder is the only one.
LEMMA OneRemainder ==
    ASSUME NEW m \in Nat, m > 0, NEW r \in 0..(m - 1), NEW s \in 0..(m - 1),
           NEW k \in Int, r = s + m * k
    PROVE  r = s
<1>1. ASSUME k >= 1 PROVE FALSE
  <2>1. m * k >= m
    BY <1>1
  <2> QED
    BY <2>1
<1>2. ASSUME k <= -1 PROVE FALSE
  <2>1. m * k <= -m
    BY <1>2
  <2> QED
    BY <2>1
<1>3. k = 0
  BY <1>1, <1>2
<1> QED
  BY <1>3

Cong(x, y) == \E k \in Int : x = y + 2 * Half * k

\* What an int holds after an addition wrapped around.
LEMMA WrapIs ==
    ASSUME NEW v \in Int
    PROVE  Prefix!Wrap(v) \in Prefix!ints /\ Cong(Prefix!Wrap(v), v)
<1> DEFINE m == 2 * Half
           x == v + Half
           r == x % m
<1>1. m \in Nat /\ m > 0 /\ Half \in Int /\ x \in Int
  BY HalfType
<1>2. Prefix!Wrap(v) = r - Half
  BY DEF Prefix!Wrap, Half
<1> HIDE DEF m, x
<1>3. PICK q \in Int : x = m * q + r /\ r \in 0..(m - 1)
  BY <1>1, Division
<1> HIDE DEF r
<1>4. r \in 0..(2 * Half - 1) /\ v + Half = 2 * Half * q + r
  BY <1>3 DEF m, x
<1>5. Prefix!Wrap(v) \in -Half..(Half - 1)
  BY <1>1, <1>2, <1>4
<1>6. Prefix!Wrap(v) = v + 2 * Half * (-q)
  BY <1>1, <1>2, <1>4
<1>7. Cong(Prefix!Wrap(v), v)
  BY <1>6 DEF Cong
<1> QED
  BY <1>5, <1>7 DEF Prefix!ints, Half

LEMMA IntsAre == Prefix!ints \subseteq Int /\ Prefix!ints = -Half..(Half - 1)
BY HalfType DEF Prefix!ints, Half

LEMMA CongSame ==
    ASSUME NEW x \in Prefix!ints, NEW y \in Prefix!ints, Cong(x, y)
    PROVE  x = y
<1>1. PICK k \in Int : x = y + 2 * Half * k
  BY DEF Cong
<1>2. x + Half \in 0..(2 * Half - 1) /\ y + Half \in 0..(2 * Half - 1)
  BY HalfType, IntsAre
<1>3. x + Half = (y + Half) + (2 * Half) * k
  BY <1>1, HalfType, IntsAre
<1>4. 2 * Half \in Nat /\ 2 * Half > 0
  BY HalfType
<1>5. x + Half = y + Half
  BY <1>1, <1>2, <1>3, <1>4, OneRemainder
<1> QED
  BY <1>5, HalfType, IntsAre

LEMMA CongSum ==
    ASSUME NEW x \in Int, NEW y \in Int, NEW u \in Int, NEW v \in Int,
           Cong(x, u), Cong(y, v)
    PROVE  Cong(x + y, u + v)
<1>1. PICK k \in Int : x = u + 2 * Half * k
  BY DEF Cong
<1>2. PICK l \in Int : y = v + 2 * Half * l
  BY DEF Cong
<1>3. x + y = (u + v) + 2 * Half * (k + l)
  BY <1>1, <1>2, HalfType
<1> QED
  BY <1>3 DEF Cong

LEMMA CongBack ==
    ASSUME NEW x \in Int, NEW y \in Int, NEW z \in Int, Cong(x, z), Cong(y, z)
    PROVE  Cong(x, y)
<1>1. PICK k \in Int : x = z + 2 * Half * k
  BY DEF Cong
<1>2. PICK l \in Int : y = z + 2 * Half * l
  BY DEF Cong
<1>3. x = y + 2 * Half * (k - l)
  BY <1>1, <1>2, HalfType
<1> QED
  BY <1>3 DEF Cong

LEMMA CongTrans ==
    ASSUME NEW x \in Int, NEW y \in Int, NEW z \in Int, Cong(x, y), Cong(y, z)
    PROVE  Cong(x, z)
<1>1. PICK k \in Int : x = y + 2 * Half * k
  BY DEF Cong
<1>2. PICK l \in Int : y = z + 2 * Half * l
  BY DEF Cong
<1>3. x = z + 2 * Half * (k + l)
  BY <1>1, <1>2, HalfType
<1> QED
  BY <1>3 DEF Cong

\* An int holds what fits into it, and the order in which a sum is wrapped around
\* does not matter.
LEMMA WrapFits ==
    ASSUME NEW v \in Prefix!ints
    PROVE  Prefix!Wrap(v) = v
<1>1. v \in Int
  BY IntsAre
<1>2. Prefix!Wrap(v) \in Prefix!ints /\ Cong(Prefix!Wrap(v), v)
  BY <1>1, WrapIs
<1> QED
  BY <1>2, CongSame

LEMMA WrapSum ==
    ASSUME NEW u \in Int, NEW v \in Int
    PROVE  Prefix!Wrap(Prefix!Wrap(u) + Prefix!Wrap(v)) = Prefix!Wrap(u + v)
<1> DEFINE x == Prefix!Wrap(u)
           y == Prefix!Wrap(v)
           w == Prefix!Wrap(x + y)
           z == Prefix!Wrap(u + v)
<1>1. x \in Prefix!ints /\ y \in Prefix!ints /\ Cong(x, u) /\ Cong(y, v)
  BY WrapIs
<1> HIDE DEF x, y
<1>2. x \in Int /\ y \in Int /\ x + y \in Int /\ u + v \in Int
  BY <1>1, IntsAre
<1>3. Cong(x + y, u + v)
  BY <1>1, <1>2, CongSum
<1>4. w \in Prefix!ints /\ z \in Prefix!ints /\ Cong(w, x + y) /\ Cong(z, u + v)
  BY <1>2, WrapIs
<1> HIDE DEF w, z
<1>5. w \in Int /\ z \in Int
  BY <1>4, IntsAre
<1>6. Cong(w, u + v)
  BY <1>2, <1>3, <1>4, <1>5, CongTrans
<1>7. Cong(w, z)
  BY <1>2, <1>4, <1>5, <1>6, CongBack
<1>8. w = z
  BY <1>4, <1>7, CongSame
<1> QED
  BY <1>8 DEF w, z, x, y
-----------------------------------------------------------------------------
(***************************************************************************)
(* The passes                                                              *)
(***************************************************************************)
Exact == [k \in 0..(n - 1) |-> Prefix!Wrap(sums[k + 1])]

\* The invariant that the run checks, with what the two functions return and with
\* the loop variables.
PrefixInv ==
    /\ Prefix!PrefixTypeOK /\ Prefix!PassIsSound
    /\ n \in Nat /\ sums \in [0..n -> Int] /\ sums[0] = 0
    /\ \A k \in 0..(n - 1) : sums[k + 1] - sums[k] \in Prefix!ints
    /\ shift \in Nat /\ shift > 0 /\ i \in Nat
    /\ pc = "prefSumParallelAlgorithm" => prefSequential = Exact
    /\ pc \in {"output", "printed"} => prefSequential = Exact /\ curPrefSum = Exact

\* The window of element k, as wide as all that is before it, or not.
LEMMA WindowIs ==
    ASSUME n \in Nat, sums \in [0..n -> Int], sums[0] = 0,
           NEW k \in 0..(n - 1), NEW w \in Nat, w > 0
    PROVE  /\ Prefix!Window(k, w) \in Prefix!ints
           /\ k < w => Prefix!Window(k, w) = Prefix!Wrap(sums[k + 1])
           /\ w <= k => /\ k + 1 - w \in 0..n
                        /\ Prefix!Window(k, w) =
                               Prefix!Wrap(sums[k + 1] - sums[k + 1 - w])
           /\ sums[k + 1] \in Int
<1>1. k + 1 \in 0..n /\ sums[k + 1] \in Int /\ 0 \in 0..n
  OBVIOUS
<1>2. CASE k < w
  <2>1. Prefix!Later(0, k + 1 - w) = 0
    BY <1>2 DEF Prefix!Later
  <2>2. sums[k + 1] - sums[0] = sums[k + 1]
    BY <1>1
  <2>3. Prefix!Window(k, w) = Prefix!Wrap(sums[k + 1])
    BY <2>1, <2>2 DEF Prefix!Window
  <2> QED
    BY <1>1, <1>2, <2>3, WrapIs
<1>3. CASE w <= k
  <2>1. k + 1 - w \in 0..n /\ Prefix!Later(0, k + 1 - w) = k + 1 - w
    BY <1>3 DEF Prefix!Later
  <2>2. Prefix!Window(k, w) = Prefix!Wrap(sums[k + 1] - sums[k + 1 - w])
    BY <2>1 DEF Prefix!Window
  <2>3. sums[k + 1] - sums[k + 1 - w] \in Int
    BY <1>1, <2>1
  <2> QED
    BY <1>1, <1>3, <2>1, <2>2, <2>3, WrapIs
<1> QED
  BY <1>2, <1>3

\* Two windows next to each other make one.
LEMMA WindowsAdd ==
    ASSUME n \in Nat, sums \in [0..n -> Int], sums[0] = 0,
           NEW j \in Nat, NEW w \in Nat, w > 0, j + w \in 0..(n - 1)
    PROVE  Prefix!Wrap(Prefix!Window(j + w, w) + Prefix!Window(j, w)) =
               Prefix!Window(j + w, 2 * w)
<1>1. j \in 0..(n - 1) /\ j + 1 \in 0..n /\ (j + w) + 1 \in 0..n /\ 2 * w \in Nat /\ 2 * w > 0
  OBVIOUS
<1>2. sums[j + 1] \in Int /\ sums[(j + w) + 1] \in Int
  BY <1>1
<1>3. (j + w) + 1 - w = j + 1 /\ w <= j + w
  OBVIOUS
<1>4. Prefix!Window(j + w, w) = Prefix!Wrap(sums[(j + w) + 1] - sums[j + 1])
  BY <1>3, WindowIs
<1>5. CASE j < w
  <2>1. j + w < 2 * w
    BY <1>5
  <2>2. /\ Prefix!Window(j, w) = Prefix!Wrap(sums[j + 1])
        /\ Prefix!Window(j + w, 2 * w) = Prefix!Wrap(sums[(j + w) + 1])
    BY <1>1, <1>5, <2>1, WindowIs
  <2>3. sums[(j + w) + 1] - sums[j + 1] \in Int
        /\ (sums[(j + w) + 1] - sums[j + 1]) + sums[j + 1] = sums[(j + w) + 1]
    BY <1>2
  <2> QED
    BY <1>2, <1>4, <2>2, <2>3, WrapSum
<1>6. CASE w <= j
  <2>1. 2 * w <= j + w /\ (j + w) + 1 - 2 * w = j + 1 - w
    BY <1>6
  <2>2. /\ Prefix!Window(j, w) = Prefix!Wrap(sums[j + 1] - sums[j + 1 - w])
        /\ j + 1 - w \in 0..n
    BY <1>1, <1>6, WindowIs
  <2>3. Prefix!Window(j + w, 2 * w) = Prefix!Wrap(sums[(j + w) + 1] - sums[j + 1 - w])
    BY <1>1, <2>1, WindowIs
  <2>4. sums[j + 1 - w] \in Int
    BY <2>2
  <2>5. /\ sums[(j + w) + 1] - sums[j + 1] \in Int /\ sums[j + 1] - sums[j + 1 - w] \in Int
        /\ (sums[(j + w) + 1] - sums[j + 1]) + (sums[j + 1] - sums[j + 1 - w])
             = sums[(j + w) + 1] - sums[j + 1 - w]
    BY <1>2, <2>4
  <2> QED
    BY <1>4, <2>2, <2>3, <2>5, WrapSum
<1> QED
  BY <1>5, <1>6

LEMMA PrefixInvInit ==
    Prefix!PrefixInit(Prefix!Inputs) => PrefixInv
<1> SUFFICES ASSUME Prefix!PrefixInit(Prefix!Inputs) PROVE PrefixInv
  OBVIOUS
<1>1. PICK m \in 0..MaxN : /\ sums \in [0..m -> -MaxSum..MaxSum] /\ sums[0] = 0
                           /\ \A k \in 1..m : sums[k] - sums[k - 1] \in Prefix!ints
  BY DEF Prefix!PrefixInit, Prefix!Inputs
<1>2. n \in 0..MaxN /\ DOMAIN sums = 0..n
  BY <1>1 DEF Prefix!PrefixInit
<1>3. n \in Nat /\ m \in Nat /\ 0..m = 0..n
  BY <1>1, <1>2, AlgorithmsAssumption
<1>4. m = n
  <2>1. n \in 0..n /\ m \in 0..m
    BY <1>3
  <2>2. n \in 0..m /\ m \in 0..n
    BY <1>3, <2>1
  <2> QED
    BY <1>3, <2>2
<1>5. sums \in [0..n -> -MaxSum..MaxSum] /\ sums \in [0..n -> Int]
  BY <1>1, <1>4, AlgorithmsAssumption
<1>6. \A k \in 0..(n - 1) : sums[k + 1] - sums[k] \in Prefix!ints
  <2>1. TAKE k \in 0..(n - 1)
  <2>2. k + 1 \in 1..n /\ (k + 1) - 1 = k
    BY <1>3
  <2> QED
    BY <1>1, <1>4, <2>2
<1>7. pc = "read" /\ shift = 1 /\ i = 0
  BY DEF Prefix!PrefixInit
<1>8. Prefix!PrefixTypeOK /\ Prefix!PassIsSound
  BY <1>2, <1>5, <1>7 DEF Prefix!PrefixTypeOK, Prefix!PassIsSound, Prefix!AtLoop
<1> QED
  BY <1>1, <1>3, <1>5, <1>6, <1>7, <1>8 DEF PrefixInv

\* A function starts with the array itself: windows of width 1, and of width 2
\* for element 0.
LEMMA EnterSound ==
    ASSUME PrefixInv, n' = n, sums' = sums,
           NEW function \in {"prefSum", "prefSumParallelAlgorithm"},
           Prefix!Enter(function)
    PROVE  /\ Prefix!PrefixTypeOK' /\ Prefix!PassIsSound'
           /\ shift' \in Nat /\ shift' > 0 /\ i' \in Nat
<1>1. /\ n \in Nat /\ sums \in [0..n -> Int] /\ sums[0] = 0
      /\ \A k \in 0..(n - 1) : sums[k + 1] - sums[k] \in Prefix!ints
  BY DEF PrefixInv
<1>2. /\ pc' = function /\ shift' = 1 /\ i' = 0
      /\ prevPrefSum' = Prefix!a /\ curPrefSum' = Prefix!a
  BY DEF Prefix!Enter
<1>3. Prefix!a \in [0..(n - 1) -> Prefix!ints]
  BY <1>1 DEF Prefix!a
<1>4. \A k \in 0..(n - 1) : /\ Prefix!Window(k, 1) = Prefix!a[k]
                            /\ k < 1 => Prefix!Window(k, 2) = Prefix!a[k]
  <2>1. TAKE k \in 0..(n - 1)
  <2>2. Prefix!a[k] = sums[k + 1] - sums[k] /\ Prefix!a[k] \in Prefix!ints
    BY <1>1 DEF Prefix!a
  <2>3. Prefix!Wrap(Prefix!a[k]) = Prefix!a[k]
    BY <2>2, WrapFits
  <2>4. k + 1 \in 0..n /\ sums[k + 1] \in Int
    BY <1>1
  <2>5. CASE k < 1
    <3>1. k = 0
      BY <1>1, <2>5
    <3>2. sums[k + 1] - sums[k] = sums[k + 1]
      BY <1>1, <2>4, <3>1
    <3>3. /\ Prefix!Window(k, 1) = Prefix!Wrap(sums[k + 1])
          /\ Prefix!Window(k, 2) = Prefix!Wrap(sums[k + 1])
      BY <1>1, <3>1, WindowIs
    <3> QED
      BY <2>2, <2>3, <3>2, <3>3
  <2>6. CASE ~(k < 1)
    <3>1. 1 <= k /\ k + 1 - 1 = k
      BY <1>1, <2>6
    <3>2. Prefix!Window(k, 1) = Prefix!Wrap(sums[k + 1] - sums[k])
      BY <1>1, <3>1, WindowIs
    <3> QED
      BY <2>2, <2>3, <2>6, <3>2
  <2> QED
    BY <2>5, <2>6
<1>5. \A k, w : Prefix!Window(k, w)' = Prefix!Window(k, w)
  BY DEF Prefix!Window, Prefix!Wrap, Prefix!Half, Prefix!Later
<1>6. Prefix!PassIsSound'
  <2> SUFFICES ASSUME NEW k \in 0..(n - 1)
               PROVE  /\ prevPrefSum'[k] = Prefix!Window(k, 1)
                      /\ curPrefSum'[k] = Prefix!Window(k, IF k < 0 + 1 THEN 2 * 1 ELSE 1)
    BY <1>2, <1>5 DEF Prefix!PassIsSound
  <2> QED
    BY <1>2, <1>4
<1>7. Prefix!PrefixTypeOK'
  BY <1>2, <1>3 DEF PrefixInv, Prefix!PrefixTypeOK, Prefix!ints, Prefix!Half
<1> QED
  BY <1>2, <1>6, <1>7

\* A function returns when the windows are as wide as the array.
LEMMA ReturnsExact ==
    ASSUME PrefixInv, Prefix!AtLoop, shift >= n
    PROVE  curPrefSum = Exact
<1>1. /\ n \in Nat /\ sums \in [0..n -> Int] /\ sums[0] = 0
      /\ shift \in Nat /\ shift > 0 /\ i \in Nat
      /\ curPrefSum \in [0..(n - 1) -> Prefix!ints]
  BY DEF PrefixInv, Prefix!PrefixTypeOK
<1>2. ASSUME NEW k \in 0..(n - 1) PROVE curPrefSum[k] = Prefix!Wrap(sums[k + 1])
  <2>1. k < shift /\ k < 2 * shift /\ 2 * shift \in Nat /\ 2 * shift > 0
    BY <1>1
  <2>2. curPrefSum[k] = Prefix!Window(k, IF k < i + shift THEN 2 * shift ELSE shift)
    BY DEF PrefixInv, Prefix!PassIsSound
  <2>3. /\ Prefix!Window(k, shift) = Prefix!Wrap(sums[k + 1])
        /\ Prefix!Window(k, 2 * shift) = Prefix!Wrap(sums[k + 1])
    BY <1>1, <2>1, WindowIs
  <2> QED
    BY <2>2, <2>3
<1> QED
  BY <1>1, <1>2 DEF Exact

LEMMA PrefixInvNext == PrefixInv /\ [Prefix!PrefixNext]_prefixVars => PrefixInv'
<1> SUFFICES ASSUME PrefixInv, [Prefix!PrefixNext]_prefixVars PROVE PrefixInv'
  OBVIOUS
<1>1. /\ n \in Nat /\ sums \in [0..n -> Int] /\ sums[0] = 0
      /\ \A k \in 0..(n - 1) : sums[k + 1] - sums[k] \in Prefix!ints
      /\ shift \in Nat /\ shift > 0 /\ i \in Nat
      /\ Prefix!PrefixTypeOK /\ Prefix!PassIsSound
      /\ pc = "prefSumParallelAlgorithm" => prefSequential = Exact
      /\ pc \in {"output", "printed"} => prefSequential = Exact /\ curPrefSum = Exact
  BY DEF PrefixInv
<1>2. n' = n /\ sums' = sums
  BY DEF Prefix!PrefixNext, Prefix!ReadFails, Prefix!Read, Prefix!Add, Prefix!PassEnds,
         Prefix!Return, Prefix!Output, prefixVars
<1>3. /\ \A k, w : Prefix!Window(k, w)' = Prefix!Window(k, w)
      /\ Prefix!ints' = Prefix!ints
      /\ Exact' = Exact
  BY <1>2 DEF Prefix!Window, Prefix!Wrap, Prefix!Half, Prefix!Later, Prefix!ints, Exact
<1>4. /\ n' \in Nat /\ sums' \in [0..n' -> Int] /\ sums'[0] = 0
      /\ \A k \in 0..(n' - 1) : sums'[k + 1] - sums'[k] \in Prefix!ints'
  BY <1>1, <1>2, <1>3
<1>5. CASE Prefix!ReadFails
  <2>1. Prefix!PrefixTypeOK' /\ Prefix!PassIsSound'
    BY <1>1, <1>2, <1>5
       DEF Prefix!ReadFails, Prefix!PrefixTypeOK, Prefix!PassIsSound, Prefix!AtLoop
  <2> QED
    BY <1>1, <1>4, <1>5, <2>1 DEF Prefix!ReadFails, PrefixInv
<1>6. CASE Prefix!Read
  <2>1. /\ Prefix!PrefixTypeOK' /\ Prefix!PassIsSound'
        /\ shift' \in Nat /\ shift' > 0 /\ i' \in Nat
    BY <1>2, <1>6, EnterSound DEF Prefix!Read
  <2>2. pc' = "prefSum"
    BY <1>6 DEF Prefix!Read, Prefix!Enter
  <2> QED
    BY <1>4, <2>1, <2>2 DEF PrefixInv
<1>7. CASE Prefix!Add
  <2>1. /\ Prefix!AtLoop /\ i < n - shift /\ i' = i + 1 /\ pc' = pc /\ shift' = shift
        /\ prevPrefSum' = prevPrefSum /\ prefSequential' = prefSequential
        /\ curPrefSum' = [curPrefSum EXCEPT ![i + shift] =
                              Prefix!Wrap(curPrefSum[i + shift] + prevPrefSum[i])]
    BY <1>7 DEF Prefix!Add, Prefix!Addend
  <2>2. i \in 0..(n - 1) /\ i + shift \in 0..(n - 1) /\ ~(i + shift < i + shift)
    BY <1>1, <2>1
  <2>3. /\ curPrefSum \in [0..(n - 1) -> Prefix!ints]
        /\ prevPrefSum \in [0..(n - 1) -> Prefix!ints]
    BY <1>1, <2>1 DEF Prefix!PrefixTypeOK
  <2>4. /\ curPrefSum[i + shift] = Prefix!Window(i + shift, shift)
        /\ prevPrefSum[i] = Prefix!Window(i, shift)
    BY <1>1, <2>1, <2>2 DEF Prefix!PassIsSound
  <2>5. Prefix!Wrap(curPrefSum[i + shift] + prevPrefSum[i]) =
            Prefix!Window(i + shift, 2 * shift)
    BY <1>1, <2>2, <2>4, WindowsAdd
  <2>6. Prefix!Window(i + shift, 2 * shift) \in Prefix!ints
    <3>1. 2 * shift \in Nat /\ 2 * shift > 0
      BY <1>1
    <3> QED
      BY <1>1, <2>2, <3>1, WindowIs
  <2>7. curPrefSum' \in [0..(n - 1) -> Prefix!ints]
    BY <2>1, <2>2, <2>3, <2>5, <2>6
  <2>8. Prefix!PrefixTypeOK'
    BY <1>1, <1>2, <1>3, <2>1, <2>3, <2>7 DEF Prefix!PrefixTypeOK, Prefix!AtLoop
  <2>9. \A k \in 0..(n - 1) :
           /\ prevPrefSum'[k] = Prefix!Window(k, shift)
           /\ curPrefSum'[k] =
                  Prefix!Window(k, IF k < (i + 1) + shift THEN 2 * shift ELSE shift)
    <3>1. TAKE k \in 0..(n - 1)
    <3>2. /\ prevPrefSum[k] = Prefix!Window(k, shift)
          /\ curPrefSum[k] = Prefix!Window(k, IF k < i + shift THEN 2 * shift ELSE shift)
      BY <1>1, <2>1 DEF Prefix!PassIsSound
    <3>3. CASE k = i + shift
      <4>1. k < (i + 1) + shift /\ curPrefSum'[k] = Prefix!Window(k, 2 * shift)
        BY <1>1, <2>1, <2>2, <2>3, <2>5, <3>3
      <4> QED
        BY <2>1, <3>2, <4>1
    <3>4. CASE k # i + shift
      <4>1. k < (i + 1) + shift <=> k < i + shift
        BY <1>1, <3>4
      <4>2. curPrefSum'[k] = curPrefSum[k]
        BY <2>1, <2>3, <3>4
      <4> QED
        BY <2>1, <3>2, <4>1, <4>2
    <3> QED
      BY <3>3, <3>4
  <2>10. Prefix!PassIsSound'
    BY <1>2, <1>3, <2>1, <2>9 DEF Prefix!PassIsSound
  <2>11. shift' \in Nat /\ shift' > 0 /\ i' \in Nat
    BY <1>1, <2>1
  <2>12. /\ pc' = "prefSumParallelAlgorithm" => prefSequential' = Exact'
         /\ pc' \notin {"output", "printed"}
    BY <1>1, <1>3, <2>1 DEF Prefix!AtLoop
  <2> QED
    BY <1>4, <2>8, <2>10, <2>11, <2>12 DEF PrefixInv
<1>8. CASE Prefix!PassEnds
  <2>1. /\ Prefix!AtLoop /\ i >= n - shift /\ i' = 0 /\ pc' = pc /\ shift' = 2 * shift
        /\ prevPrefSum' = curPrefSum /\ prefSequential' = prefSequential
        /\ curPrefSum' = curPrefSum
    BY <1>8 DEF Prefix!PassEnds
  <2>2. 2 * shift \in Nat /\ 2 * shift > 0 /\ 2 * (2 * shift) \in Nat /\ 2 * (2 * shift) > 0
    BY <1>1
  <2>3. \A k \in 0..(n - 1) :
           /\ curPrefSum[k] = Prefix!Window(k, 2 * shift)
           /\ k < 2 * shift => Prefix!Window(k, 2 * shift) = Prefix!Window(k, 2 * (2 * shift))
    <3>1. TAKE k \in 0..(n - 1)
    <3>2. k < i + shift
      BY <1>1, <2>1
    <3>3. curPrefSum[k] = Prefix!Window(k, 2 * shift)
      BY <1>1, <2>1, <3>2 DEF Prefix!PassIsSound
    <3>4. ASSUME k < 2 * shift
          PROVE  Prefix!Window(k, 2 * shift) = Prefix!Window(k, 2 * (2 * shift))
      <4>1. k < 2 * (2 * shift)
        BY <1>1, <3>4
      <4>2. Prefix!Window(k, 2 * shift) = Prefix!Wrap(sums[k + 1])
        BY <1>1, <2>2, <3>4, WindowIs
      <4>3. Prefix!Window(k, 2 * (2 * shift)) = Prefix!Wrap(sums[k + 1])
        BY <1>1, <2>2, <4>1, WindowIs
      <4> QED
        BY <4>2, <4>3
    <3> QED
      BY <3>3, <3>4
  <2>4. Prefix!PassIsSound'
    <3> SUFFICES ASSUME NEW k \in 0..(n - 1)
                 PROVE  /\ curPrefSum[k] = Prefix!Window(k, 2 * shift)
                        /\ curPrefSum[k] =
                               Prefix!Window(k, IF k < 0 + 2 * shift
                                                THEN 2 * (2 * shift) ELSE 2 * shift)
      BY <1>2, <1>3, <2>1 DEF Prefix!PassIsSound
    <3>1. 0 + 2 * shift = 2 * shift
      BY <2>2
    <3> QED
      BY <2>3, <3>1
  <2>5. Prefix!PrefixTypeOK'
    BY <1>1, <1>2, <1>3, <2>1 DEF Prefix!PrefixTypeOK, Prefix!AtLoop
  <2> QED
    BY <1>1, <1>3, <1>4, <2>1, <2>2, <2>4, <2>5 DEF PrefixInv, Prefix!AtLoop
<1>9. CASE Prefix!Return
  <2>1. Prefix!AtLoop /\ shift >= n /\ curPrefSum = Exact
    BY <1>9, ReturnsExact DEF Prefix!Return
  <2>2. CASE /\ pc = "prefSum" /\ prefSequential' = curPrefSum
             /\ Prefix!Enter("prefSumParallelAlgorithm")
    <3>1. /\ Prefix!PrefixTypeOK' /\ Prefix!PassIsSound'
          /\ shift' \in Nat /\ shift' > 0 /\ i' \in Nat
      BY <1>2, <2>2, EnterSound
    <3>2. pc' = "prefSumParallelAlgorithm"
      BY <2>2 DEF Prefix!Enter
    <3> QED
      BY <1>3, <1>4, <2>1, <2>2, <3>1, <3>2 DEF PrefixInv
  <2>3. CASE /\ pc = "prefSumParallelAlgorithm" /\ pc' = "output"
             /\ UNCHANGED <<shift, i, prevPrefSum, curPrefSum, prefSequential>>
    <3>1. Prefix!PrefixTypeOK' /\ Prefix!PassIsSound'
      BY <1>1, <1>2, <2>3 DEF Prefix!PrefixTypeOK, Prefix!PassIsSound, Prefix!AtLoop
    <3> QED
      BY <1>1, <1>3, <1>4, <2>1, <2>3, <3>1 DEF PrefixInv
  <2> QED
    BY <1>9, <2>2, <2>3 DEF Prefix!Return
<1>10. CASE Prefix!Output
  <2>1. Prefix!PrefixTypeOK' /\ Prefix!PassIsSound'
    BY <1>1, <1>2, <1>10
       DEF Prefix!Output, Prefix!PrefixTypeOK, Prefix!PassIsSound, Prefix!AtLoop
  <2> QED
    BY <1>1, <1>3, <1>4, <1>10, <2>1 DEF Prefix!Output, PrefixInv
<1>11. CASE UNCHANGED prefixVars
  <2>1. Prefix!PrefixTypeOK' /\ Prefix!PassIsSound'
    BY <1>1, <1>2, <1>3, <1>11
       DEF prefixVars, Prefix!PrefixTypeOK, Prefix!PassIsSound, Prefix!AtLoop
  <2> QED
    BY <1>1, <1>3, <1>4, <1>11, <2>1 DEF prefixVars, PrefixInv
<1> QED
  BY <1>5, <1>6, <1>7, <1>8, <1>9, <1>10, <1>11 DEF Prefix!PrefixNext
-----------------------------------------------------------------------------
LEMMA PrefixInvExact == PrefixInv => Prefix!PrefixSumsAreExact
<1> SUFFICES ASSUME PrefixInv PROVE Prefix!PrefixSumsAreExact
  OBVIOUS
<1>1. ASSUME pc \in {"output", "printed"}, NEW k \in 0..(n - 1), sums[k + 1] \in Prefix!ints
      PROVE  curPrefSum[k] = sums[k + 1]
  <2>1. curPrefSum[k] = Prefix!Wrap(sums[k + 1])
    BY <1>1 DEF PrefixInv, Exact
  <2> QED
    BY <1>1, <2>1, WrapFits
<1>2. pc \in {"output", "printed"} => curPrefSum = prefSequential
  BY DEF PrefixInv
<1>3. Prefix!ResultIsExact
  BY <1>1, <1>2 DEF Prefix!ResultIsExact
<1> QED
  BY <1>3 DEF PrefixInv, Prefix!PrefixSumsAreExact

\* prefix_sum.cpp: both functions compute the prefix sums, for arrays of every
\* length and ints of every width; a sum that an int can hold is printed exactly
\* although sums on the way to it have wrapped around.
THEOREM AlgorithmsPrefixExact == Spec => []PrefixSumsAreExact
<1> DEFINE Inv == algorithm = "prefix_sum" => PrefixInv
<1>1. Init => Inv
  BY PrefixInvInit DEF Init, Chosen
<1>2. Inv /\ [Next]_allVars => Inv'
  <2> SUFFICES ASSUME Inv, [Next]_allVars, algorithm' = "prefix_sum" PROVE PrefixInv'
    OBVIOUS
  <2>1. algorithm = "prefix_sum" /\ [Prefix!PrefixNext]_prefixVars
    BY DEF Next, allVars
  <2> QED
    BY <2>1, PrefixInvNext
<1>3. Inv => PrefixSumsAreExact
  BY PrefixInvExact DEF PrefixSumsAreExact
<1> QED
  BY <1>1, <1>2, <1>3, PTL DEF Spec

(***************************************************************************)
(* Induction over the natural numbers, as the existence of a least element *)
(***************************************************************************)
Below == {ss \in Nat \X Nat : ss[1] < ss[2]}

LEMMA BelowIsWellFounded == IsWellFoundedOn(Below, Nat)
BY NatLessThanWellFounded DEF OpToRel, Below

LEMMA LeastElement ==
    ASSUME NEW T \in SUBSET Nat, T # {}
    PROVE  \E x \in T : \A y \in T : x <= y
<1>1. PICK x \in T : \A y \in T : ~ (<<y, x>> \in Below)
  BY BelowIsWellFounded, WFMin
<1>2. \A y \in T : y < x => <<y, x>> \in Below
  BY DEF Below
<1>3. \A y \in T : ~(y < x)
  BY <1>1, <1>2
<1>4. \A y \in T : x <= y
  BY <1>3
<1> QED
  BY <1>4

\* A set with 0 and the successors of its elements has every natural number.
LEMMA Induction ==
    ASSUME NEW S, 0 \in S, \A m \in Nat : m \in S => m + 1 \in S
    PROVE  \A m \in Nat : m \in S
<1> SUFFICES ASSUME NEW m \in Nat, m \notin S PROVE FALSE
  OBVIOUS
<1> DEFINE T == {y \in Nat : y \notin S}
<1>1. T \in SUBSET Nat /\ T # {}
  OBVIOUS
<1>2. PICK x \in T : \A y \in T : x <= y
  BY <1>1, LeastElement
<1>3. x \in Nat /\ x \notin S /\ x # 0
  BY <1>2
<1>4. x - 1 \in Nat /\ (x - 1) + 1 = x /\ ~(x <= x - 1)
  BY <1>3
<1>5. x - 1 \notin T
  BY <1>2, <1>4
<1> QED
  BY <1>3, <1>4, <1>5

\* A set of natural numbers with an upper bound has a greatest element.
LEMMA GreatestElement ==
    ASSUME NEW b \in Nat, NEW T \in SUBSET (0..b), T # {}
    PROVE  \E x \in T : \A y \in T : x >= y
<1> DEFINE U == {b - y : y \in T}
<1>1. U \in SUBSET Nat /\ U # {}
  <2>1. \A y \in T : b - y \in Nat
    OBVIOUS
  <2>2. PICK y \in T : TRUE
    OBVIOUS
  <2>3. b - y \in U
    BY <2>2
  <2> QED
    BY <2>1, <2>3
<1>2. PICK u \in U : \A v \in U : u <= v
  BY <1>1, LeastElement
<1>3. PICK x \in T : u = b - x
  BY <1>2
<1>4. \A y \in T : b - y \in U /\ y \in Int
  OBVIOUS
<1>5. \A y \in T : b - x <= b - y
  BY <1>2, <1>3, <1>4
<1>6. \A y \in T : x >= y
  BY <1>4, <1>5
<1> QED
  BY <1>6

LEMMA BoundedInduction ==
    ASSUME NEW N \in Nat, NEW S, 0 \in S, \A k \in 1..N : k - 1 \in S => k \in S
    PROVE  \A k \in 0..N : k \in S
<1> DEFINE T == {k \in Nat : k <= N => k \in S}
<1>1. 0 \in T
  OBVIOUS
<1>2. ASSUME NEW m \in Nat, m \in T PROVE m + 1 \in T
  <2> SUFFICES ASSUME m + 1 <= N PROVE m + 1 \in S
    OBVIOUS
  <2>1. m + 1 \in 1..N /\ (m + 1) - 1 = m /\ m \in S
    BY <1>2
  <2> QED
    BY <2>1
<1> HIDE DEF T
<1>3. \A m \in Nat : m \in T
  BY <1>1, <1>2, Induction
<1> QED
  BY <1>3 DEF T

IsRecursion(g, N, X, b, F) ==
    /\ g \in [0..N -> X] /\ g[0] = b
    /\ \A k \in 1..N : g[k] = F[k][g[k - 1]]

\* A function on 0..N can be defined by its first value and by steps.
LEMMA RecursionExists ==
    ASSUME NEW N \in Nat, NEW X, NEW b \in X, NEW F \in [1..N -> [X -> X]]
    PROVE  \E g : IsRecursion(g, N, X, b, F)
<1> DEFINE Is(g, d) == /\ g \in [0..d -> X] /\ g[0] = b
                       /\ \A k \in 1..d : g[k] = F[k][g[k - 1]]
           S == {d \in 0..N : \E g : Is(g, d)}
<1>1. 0 \in S
  <2>1. Is([k \in 0..0 |-> b], 0)
    OBVIOUS
  <2>2. \E g : Is(g, 0)
    BY <2>1
  <2> HIDE DEF Is
  <2> QED
    BY <2>2
<1>2. ASSUME NEW d \in 1..N, d - 1 \in S PROVE d \in S
  <2>1. PICK g : Is(g, d - 1)
    BY <1>2
  <2> DEFINE h == [j \in 0..d |-> IF j = d THEN F[d][g[d - 1]] ELSE g[j]]
  <2>2. /\ g \in [0..(d - 1) -> X] /\ g[0] = b
        /\ \A k \in 1..(d - 1) : g[k] = F[k][g[k - 1]]
    BY <2>1
  <2>3. d - 1 \in 0..(d - 1) /\ 0 \in 0..d /\ 0 # d
    OBVIOUS
  <2>4. F[d][g[d - 1]] \in X
    BY <2>2, <2>3
  <2>5. \A j \in 0..d : j # d => j \in 0..(d - 1)
    OBVIOUS
  <2>6. h \in [0..d -> X] /\ h[0] = b
    BY <2>2, <2>3, <2>4, <2>5
  <2>7. ASSUME NEW k \in 1..d PROVE h[k] = F[k][h[k - 1]]
    <3>1. k \in 0..d /\ k - 1 \in 0..d /\ k - 1 # d /\ h[k - 1] = g[k - 1]
      OBVIOUS
    <3>2. CASE k = d
      BY <3>1, <3>2
    <3>3. CASE k # d
      <4>1. k \in 1..(d - 1) /\ h[k] = g[k]
        BY <3>1, <3>3
      <4> QED
        BY <2>2, <3>1, <4>1
    <3> QED
      BY <3>2, <3>3
  <2> HIDE DEF h
  <2>8. Is(h, d)
    BY <2>6, <2>7
  <2> QED
    BY <2>8
<1> HIDE DEF S
<1>3. \A d \in 0..N : d \in S
  BY <1>1, <1>2, BoundedInduction
<1>4. N \in 0..N
  OBVIOUS
<1> QED
  BY <1>3, <1>4 DEF S, IsRecursion
-----------------------------------------------------------------------------
(***************************************************************************)
(* Sums of the first elements of a sequence of integers                    *)
(***************************************************************************)
IsSums(g, s, m) == g = [k \in 0..m |-> IF k = 0 THEN 0 ELSE g[k - 1] + s[k]]

LEMMA SumsAre ==
    ASSUME NEW m \in Nat, NEW s, \A k \in 1..m : s[k] \in Int, NEW g, IsSums(g, s, m)
    PROVE  /\ g \in [0..m -> Int] /\ g[0] = 0
           /\ \A k \in 1..m : g[k] = g[k - 1] + s[k]
<1>1. /\ DOMAIN g = 0..m /\ g = [k \in 0..m |-> g[k]] /\ g[0] = 0
      /\ \A k \in 1..m : g[k] = g[k - 1] + s[k]
  BY DEF IsSums
<1> DEFINE S == {k \in 0..m : g[k] \in Int}
<1>2. 0 \in S
  BY <1>1
<1>3. ASSUME NEW k \in 1..m, k - 1 \in S PROVE k \in S
  <2>1. g[k - 1] \in Int /\ s[k] \in Int /\ g[k] = g[k - 1] + s[k]
    BY <1>1, <1>3
  <2> QED
    BY <2>1
<1> HIDE DEF S
<1>4. \A k \in 0..m : k \in S
  BY <1>2, <1>3, BoundedInduction
<1>5. \A k \in 0..m : g[k] \in Int
  BY <1>4 DEF S
<1> QED
  BY <1>1, <1>5

LEMMA SumsUnique ==
    ASSUME NEW m \in Nat, NEW s, \A k \in 1..m : s[k] \in Int,
           NEW g, IsSums(g, s, m), NEW h, IsSums(h, s, m)
    PROVE  g = h
<1>1. g \in [0..m -> Int] /\ g[0] = 0 /\ \A k \in 1..m : g[k] = g[k - 1] + s[k]
  BY SumsAre
<1>2. h \in [0..m -> Int] /\ h[0] = 0 /\ \A k \in 1..m : h[k] = h[k - 1] + s[k]
  BY SumsAre
<1> DEFINE S == {k \in 0..m : g[k] = h[k]}
<1>3. 0 \in S
  BY <1>1, <1>2
<1>4. ASSUME NEW k \in 1..m, k - 1 \in S PROVE k \in S
  BY <1>1, <1>2, <1>4
<1> HIDE DEF S
<1>5. \A k \in 0..m : k \in S
  BY <1>3, <1>4, BoundedInduction
<1>6. \A k \in 0..m : g[k] = h[k]
  BY <1>5 DEF S
<1> QED
  BY <1>1, <1>2, <1>6

LEMMA SumsExist ==
    ASSUME NEW m \in Nat, NEW s, \A k \in 1..m : s[k] \in Int
    PROVE  \E g : IsSums(g, s, m)
<1> DEFINE X == Int
           F == [k \in 1..m |-> [v \in X |-> v + s[k]]]
<1>1. F \in [1..m -> [X -> X]] /\ 0 \in X
  OBVIOUS
<1>2. \A k \in 1..m, v \in X : F[k][v] = v + s[k]
  OBVIOUS
<1> HIDE DEF F, X
<1>3. PICK g : IsRecursion(g, m, X, 0, F)
  BY <1>1, RecursionExists
<1>4. ASSUME NEW k \in 0..m PROVE g[k] = IF k = 0 THEN 0 ELSE g[k - 1] + s[k]
  <2>1. k # 0 => k \in 1..m /\ k - 1 \in 0..m
    OBVIOUS
  <2> QED
    BY <1>2, <1>3, <2>1 DEF IsRecursion
<1>5. IsSums(g, s, m)
  <2>1. g = [k \in 0..m |-> g[k]]
    BY <1>3 DEF IsRecursion
  <2> QED
    BY <1>4, <2>1 DEF IsSums
<1> QED
  BY <1>5
-----------------------------------------------------------------------------
(***************************************************************************)
(* containers.cpp: the coefficients of a text                              *)
(***************************************************************************)
Texts == [sign : {"+", "-", ""}, coef : {-1} \union Nat, x : BOOLEAN,
          pow : {-1} \union Nat]

LEMMA TermValues ==
    ASSUME NEW t \in Texts
    PROVE  Poly!Power(t) \in Nat /\ Poly!Constant(t) \in Int
<1>1. t.coef \in {-1} \union Nat /\ t.pow \in {-1} \union Nat
  BY DEF Texts
<1>2. /\ Poly!string_to_int(t.coef, 1) \in Nat
      /\ Poly!string_to_int(t.pow, 0) \in Nat /\ Poly!string_to_int(t.pow, 1) \in Nat
  BY <1>1 DEF Poly!string_to_int, Poly!None
<1>3. Poly!Power(t) \in Nat
  BY <1>2 DEF Poly!Power
<1>4. Poly!Constant(t) \in Int
  BY <1>2 DEF Poly!Constant
<1> QED
  BY <1>3, <1>4

\* What term k of a text adds to the coefficient of power p.
Summands(text, p) ==
    [k \in 1..Len(text) |->
        IF Poly!Power(text[k]) = p THEN Poly!Constant(text[k]) ELSE 0]

LEMMA SummandsAre ==
    ASSUME NEW text \in Seq(Texts), NEW p
    PROVE  /\ Len(text) \in Nat
           /\ \A k \in 1..Len(text) : Summands(text, p)[k] \in Int
<1>1. Len(text) \in Nat /\ \A k \in 1..Len(text) : text[k] \in Texts
  OBVIOUS
<1>2. ASSUME NEW k \in 1..Len(text) PROVE Summands(text, p)[k] \in Int
  <2>1. Poly!Constant(text[k]) \in Int
    BY <1>1, TermValues
  <2> QED
    BY <2>1 DEF Summands
<1> QED
  BY <1>1, <1>2

\* The recursive function of the specification is the one with these sums.
LEMMA CoefficientsAreSums ==
    ASSUME NEW text \in Seq(Texts), NEW p
    PROVE  IsSums(Poly!Coefficients(text, p), Summands(text, p), Len(text))
<1> DEFINE Is(g) == g = [k \in 0..Len(text) |->
                            IF k = 0 THEN 0
                            ELSE g[k - 1] + (IF Poly!Power(text[k]) = p
                                             THEN Poly!Constant(text[k]) ELSE 0)]
<1>1. ASSUME NEW g PROVE IsSums(g, Summands(text, p), Len(text)) <=> Is(g)
  <2>1. Len(text) \in Nat
    OBVIOUS
  <2>2. \A k \in 0..Len(text) : k # 0 => k \in 1..Len(text)
    BY <2>1
  <2>3. \A k \in 0..Len(text) : k # 0 =>
           Summands(text, p)[k] = IF Poly!Power(text[k]) = p
                                  THEN Poly!Constant(text[k]) ELSE 0
    BY <2>2 DEF Summands
  <2>4. [k \in 0..Len(text) |-> IF k = 0 THEN 0 ELSE g[k - 1] + Summands(text, p)[k]]
          = [k \in 0..Len(text) |->
                IF k = 0 THEN 0
                ELSE g[k - 1] + (IF Poly!Power(text[k]) = p
                                 THEN Poly!Constant(text[k]) ELSE 0)]
    BY <2>3
  <2> QED
    BY <2>4 DEF IsSums
<1>2. \E g : IsSums(g, Summands(text, p), Len(text))
  BY SummandsAre, SumsExist
<1>3. \E g : Is(g)
  BY <1>1, <1>2
<1>4. Poly!Coefficients(text, p) = CHOOSE g : Is(g)
  BY DEF Poly!Coefficients
<1> HIDE DEF Is
<1>5. Is(CHOOSE g : Is(g))
  BY <1>3
<1> QED
  BY <1>1, <1>4, <1>5

LEMMA CoefficientsAre ==
    ASSUME NEW text \in Seq(Texts), NEW p
    PROVE  LET c == Poly!Coefficients(text, p)
           IN  /\ c \in [0..Len(text) -> Int] /\ c[0] = 0
               /\ \A k \in 1..Len(text) : c[k] = c[k - 1] + Summands(text, p)[k]
               /\ Poly!Coefficient(text, p) = c[Len(text)]
               /\ Poly!Coefficient(text, p) \in Int
<1> DEFINE c == Poly!Coefficients(text, p)
<1>1. IsSums(c, Summands(text, p), Len(text))
  BY CoefficientsAreSums
<1> HIDE DEF c
<1>2. /\ c \in [0..Len(text) -> Int] /\ c[0] = 0
      /\ \A k \in 1..Len(text) : c[k] = c[k - 1] + Summands(text, p)[k]
  BY <1>1, SummandsAre, SumsAre
<1>3. Len(text) \in 0..Len(text)
  OBVIOUS
<1> QED
  BY <1>2, <1>3 DEF c, Poly!Coefficient

LEMMA EmptyCoefficient == \A p : Poly!Coefficient(<<>>, p) = 0
<1> TAKE p
<1>1. <<>> \in Seq(Texts) /\ Len(<<>>) = 0
  OBVIOUS
<1> QED
  BY <1>1, CoefficientsAre

\* One more term at the end.
LEMMA AppendCoefficient ==
    ASSUME NEW text \in Seq(Texts), NEW t \in Texts, NEW p
    PROVE  Poly!Coefficient(Append(text, t), p) =
               Poly!Coefficient(text, p)
                 + (IF Poly!Power(t) = p THEN Poly!Constant(t) ELSE 0)
<1> DEFINE more == Append(text, t)
           m == Len(text)
           c == Poly!Coefficients(text, p)
           d == Poly!Coefficients(more, p)
           e == [k \in 0..m |-> d[k]]
<1>1. /\ more \in Seq(Texts) /\ Len(more) = m + 1 /\ m \in Nat
      /\ more[m + 1] = t /\ \A k \in 1..m : more[k] = text[k]
  OBVIOUS
<1>2. /\ d \in [0..(m + 1) -> Int] /\ d[0] = 0
      /\ \A k \in 1..(m + 1) : d[k] = d[k - 1] + Summands(more, p)[k]
      /\ Poly!Coefficient(more, p) = d[m + 1]
  <2> HIDE DEF more, m
  <2>1. /\ d \in [0..Len(more) -> Int] /\ d[0] = 0
        /\ \A k \in 1..Len(more) : d[k] = d[k - 1] + Summands(more, p)[k]
        /\ Poly!Coefficient(more, p) = d[Len(more)]
    BY <1>1, CoefficientsAre
  <2> HIDE DEF d
  <2> QED
    BY <1>1, <2>1
<1>3. IsSums(c, Summands(text, p), m) /\ Poly!Coefficient(text, p) = c[m]
  BY CoefficientsAreSums, CoefficientsAre
<1>4. \A k \in 1..m : Summands(more, p)[k] = Summands(text, p)[k]
  <2>1. \A k \in 1..m : k \in 1..Len(more) /\ more[k] = text[k]
    BY <1>1
  <2> HIDE DEF more
  <2> QED
    BY <2>1 DEF Summands
<1>5. Summands(more, p)[m + 1] = IF Poly!Power(t) = p THEN Poly!Constant(t) ELSE 0
  <2>1. m + 1 \in 1..Len(more) /\ more[m + 1] = t
    BY <1>1
  <2> HIDE DEF more
  <2> QED
    BY <2>1 DEF Summands
<1>6. m + 1 \in 1..(m + 1) /\ (m + 1) - 1 = m
  BY <1>1
<1> HIDE DEF more, m, c, d
<1>7. IsSums(e, Summands(text, p), m)
  <2>1. \A k \in 0..m : k \in 0..(m + 1) /\ (k # 0 => k \in 1..m /\ k - 1 \in 0..m
                                               /\ k \in 1..(m + 1))
    BY <1>1
  <2>2. \A k \in 0..m : e[k] = IF k = 0 THEN 0 ELSE e[k - 1] + Summands(text, p)[k]
    BY <1>2, <1>4, <2>1
  <2>3. e = [k \in 0..m |-> e[k]]
    OBVIOUS
  <2> HIDE DEF e
  <2> QED
    BY <2>2, <2>3 DEF IsSums
<1>8. \A k \in 1..m : Summands(text, p)[k] \in Int
  BY SummandsAre DEF m
<1>9. e = c
  BY <1>1, <1>3, <1>7, <1>8, SumsUnique
<1>10. c[m] = d[m]
  <2>1. m \in 0..m
    BY <1>1
  <2> QED
    BY <1>9, <2>1
<1> QED
  BY <1>2, <1>3, <1>5, <1>6, <1>10 DEF more
-----------------------------------------------------------------------------
(***************************************************************************)
(* containers.cpp: the two loops                                           *)
(***************************************************************************)
MaxPower == MaxPow + 1      \* of a term, as x alone has power 1

\* What constant_by_pow has counted for power q.
Counted(q) == IF q \in DOMAIN constant_by_pow THEN constant_by_pow[q] ELSE 0

PolyType ==
    /\ polynomial \in Seq(Texts)
    /\ \A k \in 1..Len(polynomial) : Poly!Power(polynomial[k]) <= MaxPower
    /\ match \in 0..Len(polynomial)
    /\ DOMAIN constant_by_pow \subseteq 0..MaxPower
    /\ \A q \in DOMAIN constant_by_pow : constant_by_pow[q] \in Int
    /\ it \subseteq DOMAIN constant_by_pow
    /\ result \in Seq(Texts)

\* What has been counted is the coefficient in the terms matched so far.
CountInv == \A q \in Nat : Counted(q) = Poly!Coefficients(polynomial, q)[match]

\* What has been printed is the derivative of the powers taken from it.
PrintInv ==
    IF at \in {"print", "returned"}
    THEN /\ match = Len(polynomial)
         /\ \A q \in Nat : Poly!Coefficient(result, q) =
                               IF q + 1 \in it THEN 0 ELSE (q + 1) * Counted(q + 1)
    ELSE result = <<>> /\ it = {}

\* The powers taken are greater than those left.
OrderInv ==
    /\ \A k \in 2..Len(result) :
          result[k].sign # "" /\ Poly!Power(result[k]) < Poly!Power(result[k - 1])
    /\ \A k \in 1..Len(result), r \in it : r < Poly!Power(result[k]) + 1

PolyInv ==
    /\ PolyType /\ CountInv /\ PrintInv /\ OrderInv
    /\ at = "returned" => it = {}

\* What is printed for a power and its constant reads as that power and constant:
\* a minus is never lost, as a power above 1 times a constant is not -1.
LEMMA PrintedIs ==
    ASSUME NEW p \in Nat, p > 0, NEW c \in Int, NEW first \in BOOLEAN
    PROVE  LET t == Poly!Printed(p - 1, p * c, first)
           IN  /\ t \in Texts
               /\ Poly!Power(t) = p - 1
               /\ Poly!Constant(t) = p * c
               /\ ~first => t.sign # ""
<1> DEFINE v == p * c
           q == p - 1
           whole == ~(q > 0 /\ Poly!Abs(v) = 1)
           t == Poly!Printed(q, v, first)
<1>1. v \in Int /\ q \in Nat
  OBVIOUS
<1>2. q > 0 /\ v < 0 => v <= -2
  <2> SUFFICES ASSUME q > 0, v < 0 PROVE v <= -2
    OBVIOUS
  <2>1. p >= 2 /\ c < 0
    OBVIOUS
  <2>2. p * c <= p * (-1)
    BY <2>1
  <2> QED
    BY <2>1, <2>2
<1> HIDE DEF v, q
<1>3. Poly!Abs(v) \in Nat /\ (v >= 0 => Poly!Abs(v) = v) /\ (v < 0 => Poly!Abs(v) = -v)
  BY <1>1 DEF Poly!Abs
<1>4. v < 0 => whole
  BY <1>1, <1>2, <1>3
<1> DEFINE sg == IF v >= 0 THEN IF first THEN "" ELSE "+" ELSE IF whole THEN "-" ELSE ""
           cf == IF whole THEN Poly!Abs(v) ELSE -1
           xx == q > 0
           pw == IF q > 1 THEN q ELSE -1
<1>5. t = [sign |-> sg, coef |-> cf, x |-> xx, pow |-> pw]
  BY DEF Poly!Printed, Poly!None
<1>6. sg = (IF v >= 0 THEN IF first THEN "" ELSE "+" ELSE "-")
  <2> HIDE DEF whole
  <2>1. ~(v >= 0) => whole
    BY <1>1, <1>4
  <2> QED
    BY <2>1
<1>7. (xx <=> q > 0) /\ xx \in BOOLEAN
  OBVIOUS
<1>8. cf \in {-1} \union Nat /\ (cf # -1 => cf = Poly!Abs(v)) /\ (cf = -1 => Poly!Abs(v) = 1)
  BY <1>3
<1>9. pw \in {-1} \union Nat /\ (pw # -1 => pw = q) /\ (pw = -1 => q = 0 \/ q = 1)
  BY <1>1
<1> HIDE DEF t, sg, cf, xx, pw, whole
<1>10. t.sign = sg /\ t.coef = cf /\ t.x = xx /\ t.pow = pw
  BY <1>5
<1>11. sg \in {"+", "-", ""}
  BY <1>6
<1>12. t \in Texts
  BY <1>5, <1>7, <1>8, <1>9, <1>11 DEF Texts
<1>13. Poly!Power(t) = q
  <2>1. Poly!Power(t) = IF pw = -1 THEN IF xx THEN 1 ELSE 0 ELSE pw
    BY <1>10 DEF Poly!Power, Poly!string_to_int, Poly!None
  <2>2. CASE xx
    BY <1>1, <1>7, <1>9, <2>1, <2>2
  <2>3. CASE ~xx
    BY <1>1, <1>7, <1>9, <2>1, <2>3
  <2> QED
    BY <2>2, <2>3
<1>14. Poly!string_to_int(t.coef, 1) = Poly!Abs(v)
  BY <1>8, <1>10 DEF Poly!string_to_int, Poly!None
<1>15. Poly!Constant(t) = v
  <2>1. CASE v >= 0
    <3>1. t.sign # "-"
      BY <1>6, <1>10, <2>1
    <3> QED
      BY <1>1, <1>3, <1>14, <2>1, <3>1 DEF Poly!Constant
  <2>2. CASE v < 0
    <3>1. t.sign = "-"
      <4>1. ~(v >= 0)
        BY <1>1, <2>2
      <4> QED
        BY <1>6, <1>10, <4>1
    <3> QED
      BY <1>1, <1>3, <1>14, <2>2, <3>1 DEF Poly!Constant
  <2> QED
    BY <1>1, <2>1, <2>2
<1>16. ~first => t.sign # ""
  BY <1>6, <1>10
<1> QED
  BY <1>12, <1>13, <1>15, <1>16 DEF t, v, q

LEMMA BoundsType ==
    /\ MaxPower \in Nat /\ MaxPow \in Nat /\ MaxCoef \in Nat
    /\ MaxTerms \in Nat /\ \A m \in 0..MaxTerms : m \in Nat
    /\ 0..MaxCoef \subseteq Nat /\ 0..MaxPow \subseteq Nat
<1>1. MaxPow \in Nat /\ MaxCoef \in Nat /\ MaxTerms \in Nat
  BY AlgorithmsAssumption
<1> QED
  BY <1>1 DEF MaxPower

Fits(t) == t \in Texts /\ Poly!Power(t) <= MaxPower

LEMMA PolyInvInit == Poly!PolyInit(Poly!Polynomials) => PolyInv
<1> SUFFICES ASSUME Poly!PolyInit(Poly!Polynomials) PROVE PolyInv
  OBVIOUS
<1>1. /\ polynomial \in Poly!Polynomials /\ at = "sign" /\ match = 0
      /\ constant_by_pow = <<>> /\ it = {} /\ result = <<>>
  BY DEF Poly!PolyInit
<1>2. ASSUME NEW t \in Poly!Terms PROVE Fits(t)
  <2>1. t \in [sign : {"+", "-", ""}, coef : {-1} \union 0..MaxCoef, x : BOOLEAN,
               pow : {-1} \union 0..MaxPow]
    BY DEF Poly!Terms, Poly!None
  <2>2. t \in Texts
    BY <2>1, BoundsType DEF Texts
  <2>3. t.pow \in {-1} \union 0..MaxPow
    BY <2>1
  <2>4. Poly!Power(t) \in {0, 1} \union 0..MaxPow
    BY <2>3 DEF Poly!Power, Poly!string_to_int, Poly!None
  <2>5. Poly!Power(t) <= MaxPower
    <3>1. MaxPow \in Nat
      BY BoundsType
    <3> HIDE DEF Poly!Power
    <3> QED
      BY <2>4, <3>1 DEF MaxPower
  <2> QED
    BY <2>2, <2>5 DEF Fits
<1>3. /\ polynomial \in Seq(Texts)
      /\ \A k \in 1..Len(polynomial) : Poly!Power(polynomial[k]) <= MaxPower
  <2>1. PICK m \in 0..MaxTerms : polynomial \in [1..m -> Poly!Terms]
    BY <1>1 DEF Poly!Polynomials
  <2>2. m \in Nat
    BY BoundsType
  <2>3. \A k \in 1..m : Fits(polynomial[k])
    BY <1>2, <2>1
  <2>4. polynomial \in [1..m -> Texts]
    BY <2>1, <2>3 DEF Fits
  <2>5. polynomial \in Seq(Texts) /\ Len(polynomial) = m
    BY <2>2, <2>4
  <2> QED
    BY <2>3, <2>5 DEF Fits
<1>4. DOMAIN constant_by_pow = {}
  BY <1>1
<1>5. PolyType
  <2>1. <<>> \in Seq(Texts) /\ 0 \in 0..Len(polynomial)
    BY <1>3
  <2> QED
    BY <1>1, <1>3, <1>4, <2>1 DEF PolyType
<1>6. CountInv
  <2> SUFFICES ASSUME NEW q \in Nat
               PROVE  Counted(q) = Poly!Coefficients(polynomial, q)[match]
    BY DEF CountInv
  <2>2. Poly!Coefficients(polynomial, q)[0] = 0
    BY <1>3, CoefficientsAre
  <2> QED
    BY <1>1, <1>4, <2>2 DEF Counted
<1>7. OrderInv
  <2>1. Len(<<>>) = 0 /\ \A k \in 2..0 : FALSE
    OBVIOUS
  <2> QED
    BY <1>1, <2>1 DEF OrderInv
<1> QED
  BY <1>1, <1>5, <1>6, <1>7 DEF PolyInv, PrintInv

LEMMA PolyCount == PolyInv /\ Poly!Count => PolyInv'
<1> SUFFICES ASSUME PolyInv, Poly!Count PROVE PolyInv'
  OBVIOUS
<1> DEFINE t == polynomial[match + 1]
           p == Poly!Power(t)
           c == Poly!Constant(t)
           D == DOMAIN constant_by_pow
<1>1. PolyType /\ CountInv /\ PrintInv /\ OrderInv
  BY DEF PolyInv
<1>2. /\ at = "match" /\ match < Len(polynomial) /\ match' = match + 1
      /\ at' = at /\ polynomial' = polynomial /\ it' = it /\ result' = result
      /\ constant_by_pow' = [q \in D \union {p} |->
                                IF q \notin D THEN c
                                ELSE IF q = p THEN constant_by_pow[p] + c
                                ELSE constant_by_pow[q]]
  BY DEF Poly!Count, Poly!Added
<1>3. /\ polynomial \in Seq(Texts) /\ match \in Nat /\ Len(polynomial) \in Nat
      /\ match + 1 \in 1..Len(polynomial)
  BY <1>1, <1>2 DEF PolyType
<1>4. t \in Texts /\ p \in Nat /\ p <= MaxPower /\ c \in Int
  BY <1>1, <1>3, TermValues DEF PolyType
<1>5. result = <<>> /\ it = {}
  BY <1>1, <1>2 DEF PrintInv
<1> HIDE DEF D
<1>6. DOMAIN constant_by_pow' = D \union {p}
  BY <1>2
<1>7. D \subseteq 0..MaxPower /\ \A q \in D : constant_by_pow[q] \in Int
  BY <1>1 DEF PolyType, D
<1>8. PolyType'
  <2>1. match' \in 0..Len(polynomial)
    BY <1>2, <1>3
  <2>2. D \union {p} \subseteq 0..MaxPower
    <3>1. p \in 0..MaxPower
      <4> HIDE DEF p
      <4> QED
        BY <1>4, BoundsType
    <3> QED
      BY <1>7, <3>1
  <2>3. \A q \in D \union {p} : constant_by_pow'[q] \in Int
    <3> HIDE DEF t, p, c
    <3>1. TAKE q \in D \union {p}
    <3>2. CASE q \notin D
      BY <1>2, <1>4, <3>2
    <3>3. CASE q \in D /\ q = p
      <4>1. constant_by_pow[p] + c \in Int
        BY <1>4, <1>7, <3>3
      <4> QED
        BY <1>2, <3>3, <4>1
    <3>4. CASE q \in D /\ q # p
      BY <1>2, <1>7, <3>4
    <3> QED
      BY <3>2, <3>3, <3>4
  <2> QED
    BY <1>1, <1>2, <1>5, <1>6, <2>1, <2>2, <2>3 DEF PolyType
<1>9. CountInv'
  <2> SUFFICES ASSUME NEW q \in Nat
               PROVE  Counted(q)' = Poly!Coefficients(polynomial, q)[match + 1]
    BY <1>2 DEF CountInv, Poly!Coefficients
  <2> DEFINE f == Poly!Coefficients(polynomial, q)
  <2>1. Counted(q) = f[match]
    BY <1>1 DEF CountInv
  <2>2. f[match + 1] = f[match] + Summands(polynomial, q)[match + 1]
    <3>1. (match + 1) - 1 = match
      BY <1>3
    <3> QED
      BY <1>3, <3>1, CoefficientsAre
  <2>3. Summands(polynomial, q)[match + 1] = IF p = q THEN c ELSE 0
    BY <1>3 DEF Summands
  <2>4. f[match] \in Int
    <3>1. match \in 0..Len(polynomial)
      BY <1>3
    <3> QED
      BY <1>3, <3>1, CoefficientsAre
  <2> HIDE DEF f, p, c, t
  <2>5. Counted(q) = IF q \in D THEN constant_by_pow[q] ELSE 0
    BY DEF Counted, D
  <2>6. Counted(q)' = IF q \in D \union {p} THEN constant_by_pow'[q] ELSE 0
    BY <1>6 DEF Counted
  <2>7. CASE q = p
    <3>1. Counted(q)' = Counted(q) + c
      <4>1. CASE q \in D
        BY <1>2, <2>5, <2>6, <2>7, <4>1
      <4>2. CASE q \notin D
        BY <1>2, <1>4, <2>5, <2>6, <2>7, <4>2
      <4> QED
        BY <4>1, <4>2
    <3> QED
      BY <2>1, <2>2, <2>3, <2>7, <3>1 DEF f
  <2>8. CASE q # p
    <3>1. Counted(q)' = Counted(q)
      BY <1>2, <2>5, <2>6, <2>8
    <3> QED
      BY <2>1, <2>2, <2>3, <2>4, <2>8, <3>1 DEF f
  <2> QED
    BY <2>7, <2>8
<1>10. PrintInv' /\ OrderInv'
  <2>1. at' \notin {"print", "returned"}
    BY <1>2
  <2> QED
    BY <1>1, <1>2, <1>5, <2>1 DEF PrintInv, OrderInv, Poly!Power, Poly!string_to_int
<1> QED
  BY <1>2, <1>5, <1>8, <1>9, <1>10 DEF PolyInv

\* Only the sign of the first term changes.
LEMMA PolyInsertSign == PolyInv /\ Poly!InsertSign => PolyInv'
<1> SUFFICES ASSUME PolyInv, Poly!InsertSign PROVE PolyInv'
  OBVIOUS
<1>1. PolyType /\ CountInv /\ PrintInv /\ OrderInv
  BY DEF PolyInv
<1>2. /\ at = "sign" /\ at' \in {"match", "thrown"} /\ match' = match
      /\ constant_by_pow' = constant_by_pow /\ it' = it /\ result' = result
  BY DEF Poly!InsertSign
<1>3. result = <<>> /\ it = {}
  BY <1>1, <1>2 DEF PrintInv
<1>4. PrintInv' /\ OrderInv' /\ at' # "returned"
  BY <1>1, <1>2, <1>3 DEF PrintInv, OrderInv, Poly!Power, Poly!string_to_int
<1>5. /\ polynomial' \in Seq(Texts) /\ Len(polynomial') = Len(polynomial)
      /\ \A k \in 1..Len(polynomial) :
            /\ Poly!Power(polynomial'[k]) = Poly!Power(polynomial[k])
            /\ Poly!Constant(polynomial'[k]) = Poly!Constant(polynomial[k])
  <2>1. polynomial \in Seq(Texts)
    BY <1>1 DEF PolyType
  <2>4. Len(polynomial) \in Nat /\ (polynomial # <<>> => Len(polynomial) # 0)
    BY <2>1
  <2>5. Len(polynomial) # 0 => 1 \in 1..Len(polynomial)
    BY <2>4
  <2>6. 1 \in 1..Len(polynomial) => polynomial[1] \in Texts
    BY <2>1
  <2>2. CASE polynomial' = polynomial
    BY <2>1, <2>2
  <2>3. CASE /\ polynomial # <<>>
             /\ polynomial' = [polynomial EXCEPT ![1].sign = IF @ = "" THEN "+" ELSE @]
    <3> DEFINE t == polynomial[1]
               s == IF t.sign = "" THEN "+" ELSE t.sign
               u == [t EXCEPT !.sign = s]
    <3>1. polynomial' = [polynomial EXCEPT ![1] = u]
      BY <2>3
    <3>2. 1 \in 1..Len(polynomial) /\ t \in Texts
      BY <2>3, <2>4, <2>5, <2>6
    <3>3. t.sign \in {"+", "-", ""} /\ s \in {"+", "-", ""} /\ (s = "-" <=> t.sign = "-")
      BY <3>2 DEF Texts
    <3> HIDE DEF t, s
    <3>4. u \in Texts /\ u.coef = t.coef /\ u.x = t.x /\ u.pow = t.pow /\ u.sign = s
      BY <3>2, <3>3 DEF Texts
    <3> HIDE DEF u
    <3>5. Poly!Power(u) = Poly!Power(t) /\ Poly!Constant(u) = Poly!Constant(t)
      BY <3>3, <3>4 DEF Poly!Power, Poly!Constant
    <3>6. /\ polynomial' \in Seq(Texts) /\ Len(polynomial') = Len(polynomial)
          /\ polynomial'[1] = u
          /\ \A k \in 1..Len(polynomial) : k # 1 => polynomial'[k] = polynomial[k]
      BY <2>1, <3>1, <3>2, <3>4
    <3> QED
      BY <3>5, <3>6 DEF t
  <2> QED
    BY <2>2, <2>3 DEF Poly!InsertSign
<1>6. PolyType'
  BY <1>1, <1>2, <1>5 DEF PolyType, Poly!Power, Poly!string_to_int
<1>8. ASSUME NEW q \in Nat
      PROVE  Poly!Coefficients(polynomial', q) = Poly!Coefficients(polynomial, q)
  <2>1. Summands(polynomial', q) = Summands(polynomial, q)
    BY <1>5 DEF Summands
  <2>2. polynomial \in Seq(Texts) /\ polynomial' \in Seq(Texts)
        /\ Len(polynomial) \in Nat /\ Len(polynomial') = Len(polynomial)
    BY <1>1, <1>5 DEF PolyType
  <2>3. /\ IsSums(Poly!Coefficients(polynomial', q), Summands(polynomial, q), Len(polynomial))
        /\ IsSums(Poly!Coefficients(polynomial, q), Summands(polynomial, q), Len(polynomial))
    BY <2>1, <2>2, CoefficientsAreSums
  <2>4. \A k \in 1..Len(polynomial) : Summands(polynomial, q)[k] \in Int
    BY <2>2, SummandsAre
  <2> QED
    BY <2>2, <2>3, <2>4, SumsUnique
<1>9. CountInv'
  <2> SUFFICES ASSUME NEW q \in Nat
               PROVE  Counted(q)' = Poly!Coefficients(polynomial', q)[match']
    BY DEF CountInv, Poly!Coefficients
  <2>1. Counted(q)' = Counted(q)
    BY <1>2 DEF Counted
  <2> QED
    BY <1>1, <1>2, <1>8, <2>1 DEF CountInv
<1> QED
  BY <1>4, <1>6, <1>9 DEF PolyInv

LEMMA PolyAllCounted == PolyInv /\ Poly!AllCounted => PolyInv'
<1> SUFFICES ASSUME PolyInv, Poly!AllCounted PROVE PolyInv'
  OBVIOUS
<1>1. PolyType /\ CountInv /\ PrintInv /\ OrderInv
  BY DEF PolyInv
<1>2. /\ at = "match" /\ match = Len(polynomial) /\ at' = "print"
      /\ it' = DOMAIN constant_by_pow /\ polynomial' = polynomial /\ match' = match
      /\ constant_by_pow' = constant_by_pow /\ result' = result
  BY DEF Poly!AllCounted
<1>3. result = <<>>
  BY <1>1, <1>2 DEF PrintInv
<1>4. PolyType'
  BY <1>1, <1>2 DEF PolyType, Poly!Power, Poly!string_to_int
<1>5. \A q : Counted(q)' = Counted(q)
  BY <1>2 DEF Counted
<1>6. CountInv'
  BY <1>1, <1>2, <1>5 DEF CountInv, Poly!Coefficients
<1>7. PrintInv'
  <2> SUFFICES ASSUME NEW q \in Nat
               PROVE  Poly!Coefficient(<<>>, q) =
                          IF q + 1 \in DOMAIN constant_by_pow THEN 0
                          ELSE (q + 1) * Counted(q + 1)
    BY <1>2, <1>3, <1>5 DEF PrintInv, Poly!Coefficient, Poly!Coefficients
  <2>1. q + 1 \notin DOMAIN constant_by_pow => Counted(q + 1) = 0
    BY DEF Counted
  <2>2. (q + 1) * 0 = 0
    OBVIOUS
  <2> QED
    BY <2>1, <2>2, EmptyCoefficient
<1>8. OrderInv'
  <2>1. Len(<<>>) = 0 /\ (\A k \in 2..0 : FALSE) /\ (\A k \in 1..0 : FALSE)
    OBVIOUS
  <2> QED
    BY <1>2, <1>3, <2>1 DEF OrderInv
<1> QED
  BY <1>2, <1>4, <1>6, <1>7, <1>8 DEF PolyInv

LEMMA PolyReturns == PolyInv /\ Poly!Returns => PolyInv'
<1> SUFFICES ASSUME PolyInv, Poly!Returns PROVE PolyInv'
  OBVIOUS
<1>1. /\ at = "print" /\ at' = "returned" /\ it = {} /\ it' = {}
      /\ polynomial' = polynomial /\ match' = match
      /\ constant_by_pow' = constant_by_pow /\ result' = result
  BY DEF Poly!Returns
<1>2. PolyType'
  BY <1>1 DEF PolyInv, PolyType, Poly!Power, Poly!string_to_int
<1>3. \A q : Counted(q)' = Counted(q)
  BY <1>1 DEF Counted
<1>4. CountInv'
  BY <1>1, <1>3 DEF PolyInv, CountInv, Poly!Coefficients
<1>5. PrintInv'
  BY <1>1, <1>3 DEF PolyInv, PrintInv, Poly!Coefficient, Poly!Coefficients
<1>6. OrderInv'
  BY <1>1 DEF PolyInv, OrderInv, Poly!Power, Poly!string_to_int
<1> QED
  BY <1>1, <1>2, <1>4, <1>5, <1>6 DEF PolyInv

LEMMA PolyPrintTerm == PolyInv /\ Poly!PrintTerm => PolyInv'
<1> SUFFICES ASSUME PolyInv, Poly!PrintTerm PROVE PolyInv'
  OBVIOUS
<1> DEFINE p == Poly!Max(it)
           c == constant_by_pow[p]
           t == Poly!Printed(p - 1, p * c, result = <<>>)
<1>1. PolyType /\ CountInv /\ PrintInv /\ OrderInv
  BY DEF PolyInv
<1>2. /\ at = "print" /\ at' = "print" /\ it # {} /\ it' = it \ {p}
      /\ polynomial' = polynomial /\ match' = match
      /\ constant_by_pow' = constant_by_pow
      /\ result' = IF p = 0 THEN result ELSE Append(result, t)
  BY DEF Poly!PrintTerm
<1>3. p \in it /\ \A y \in it : p >= y
  <2>1. it \in SUBSET (0..MaxPower) /\ MaxPower \in Nat
    BY <1>1, BoundsType DEF PolyType
  <2>2. \E x \in it : \A y \in it : x >= y
    BY <1>2, <2>1, GreatestElement
  <2> QED
    BY <2>2 DEF Poly!Max
<1> HIDE DEF p
<1>4. /\ p \in DOMAIN constant_by_pow /\ p \in Nat /\ c \in Int /\ Counted(p) = c
      /\ \A r \in it : r \in Nat
  <2>1. p \in DOMAIN constant_by_pow
    BY <1>1, <1>3 DEF PolyType
  <2>2. \A r \in it : r \in 0..MaxPower
    BY <1>1 DEF PolyType
  <2>3. \A r \in it : r \in Nat
    BY <2>2, BoundsType
  <2> QED
    BY <1>1, <1>3, <2>1, <2>3 DEF PolyType, Counted
<1>5. result \in Seq(Texts) /\ Len(result) \in Nat
  BY <1>1 DEF PolyType
<1> HIDE DEF c
<1>6. p # 0 => /\ t \in Texts /\ Poly!Power(t) = p - 1 /\ Poly!Constant(t) = p * c
               /\ result # <<>> => t.sign # ""
  <2> SUFFICES ASSUME p # 0
               PROVE  /\ t \in Texts /\ Poly!Power(t) = p - 1 /\ Poly!Constant(t) = p * c
                      /\ result # <<>> => t.sign # ""
    OBVIOUS
  <2>1. p > 0 /\ (result = <<>>) \in BOOLEAN
    BY <1>4
  <2> QED
    BY <1>4, <2>1, PrintedIs
<1> HIDE DEF t
<1>7. PolyType'
  <2>1. result' \in Seq(Texts)
    <3>1. t \in Texts => Append(result, t) \in Seq(Texts)
      BY <1>5
    <3>2. p # 0 => t \in Texts
      BY <1>6
    <3> QED
      BY <1>2, <1>5, <3>1, <3>2
  <2>2. it' \subseteq DOMAIN constant_by_pow
    BY <1>1, <1>2 DEF PolyType
  <2> QED
    BY <1>1, <1>2, <2>1, <2>2 DEF PolyType, Poly!Power, Poly!string_to_int
<1>8. \A q : Counted(q)' = Counted(q)
  BY <1>2 DEF Counted
<1>9. CountInv'
  BY <1>1, <1>2, <1>8 DEF CountInv, Poly!Coefficients
<1>10. PrintInv'
  <2> SUFFICES ASSUME NEW q \in Nat
               PROVE  Poly!Coefficient(result', q) =
                          IF q + 1 \in it' THEN 0 ELSE (q + 1) * Counted(q + 1)
    BY <1>1, <1>2, <1>8 DEF PrintInv, Poly!Coefficient, Poly!Coefficients
  <2>1. Poly!Coefficient(result, q) = IF q + 1 \in it THEN 0 ELSE (q + 1) * Counted(q + 1)
    BY <1>1, <1>2 DEF PrintInv
  <2>2. Poly!Coefficient(result, q) \in Int
    BY <1>5, CoefficientsAre
  <2>3. CASE p = 0
    <3>1. q + 1 # p
      BY <2>3
    <3>2. q + 1 \in it' <=> q + 1 \in it
      BY <1>2, <3>1
    <3> QED
      BY <1>2, <2>1, <2>3, <3>2
  <2>4. CASE p # 0
    <3>1. Poly!Coefficient(result', q) =
              Poly!Coefficient(result, q) + (IF p - 1 = q THEN p * c ELSE 0)
      BY <1>2, <1>5, <1>6, <2>4, AppendCoefficient
    <3>2. CASE p = q + 1
      <4>1. p - 1 = q /\ q + 1 \in it /\ q + 1 \notin it' /\ p * c \in Int
        BY <1>2, <1>3, <1>4, <3>2
      <4>2. Poly!Coefficient(result', q) = 0 + p * c
        BY <2>1, <3>1, <4>1
      <4> QED
        BY <1>4, <3>2, <4>1, <4>2
    <3>3. CASE p # q + 1
      <4>1. p - 1 # q
        BY <1>4, <3>3
      <4>2. q + 1 \in it' <=> q + 1 \in it
        BY <1>2, <3>3
      <4>3. Poly!Coefficient(result', q) = Poly!Coefficient(result, q)
        BY <2>2, <3>1, <4>1
      <4> QED
        BY <2>1, <4>2, <4>3
    <3> QED
      BY <3>2, <3>3
  <2> QED
    BY <2>3, <2>4
<1>11. OrderInv'
  <2>1. /\ \A k \in 2..Len(result) : /\ result[k].sign # ""
                                     /\ Poly!Power(result[k]) < Poly!Power(result[k - 1])
        /\ \A k \in 1..Len(result), r \in it : r < Poly!Power(result[k]) + 1
    BY <1>1 DEF OrderInv
  <2>2. it' \subseteq it /\ \A r \in it' : r < p
    <3>1. \A r \in it' : r \in it /\ r # p /\ r \in Nat
      BY <1>2, <1>4
    <3> QED
      BY <1>3, <1>4, <3>1
  <2>3. CASE p = 0
    BY <1>2, <2>1, <2>2, <2>3 DEF OrderInv, Poly!Power, Poly!string_to_int
  <2>4. CASE p # 0
    <3> DEFINE m == Len(result)
               res == Append(result, t)
    <3>0. t \in Texts /\ Poly!Power(t) = p - 1 /\ result' = res
      BY <1>2, <1>6, <2>4
    <3>1. /\ Len(res) = m + 1 /\ m \in Nat /\ res[m + 1] = t
          /\ \A k \in 1..m : res[k] = result[k]
      BY <1>5, <3>0
    <3>2. result # <<>> <=> m # 0
      BY <1>5
    <3> HIDE DEF m, res
    <3>3. ASSUME NEW k \in 2..(m + 1)
          PROVE  res[k].sign # "" /\ Poly!Power(res[k]) < Poly!Power(res[k - 1])
      <4>1. CASE k = m + 1
        <5>1. m # 0 /\ k - 1 = m /\ m \in 1..m
          BY <3>1, <4>1
        <5>2. res[k] = t /\ res[k - 1] = result[m]
          BY <3>1, <4>1, <5>1
        <5>3. p < Poly!Power(result[m]) + 1
          BY <1>3, <2>1, <5>1 DEF m
        <5>4. Poly!Power(result[m]) \in Nat
          BY <1>5, <5>1, TermValues DEF m
        <5>5. p - 1 < Poly!Power(result[m])
          BY <1>4, <5>3, <5>4
        <5> QED
          BY <1>6, <2>4, <3>2, <5>1, <5>2, <5>5
      <4>2. CASE k # m + 1
        <5>1. k \in 2..m /\ k \in 1..m /\ k - 1 \in 1..m
          BY <3>1, <4>2
        <5> QED
          BY <2>1, <3>1, <5>1 DEF m
      <4> QED
        BY <4>1, <4>2
    <3>4. ASSUME NEW k \in 1..(m + 1), NEW r \in it'
          PROVE  r < Poly!Power(res[k]) + 1
      <4>1. CASE k = m + 1
        <5>1. Poly!Power(res[k]) = p - 1
          BY <3>0, <3>1, <4>1
        <5>2. (p - 1) + 1 = p
          BY <1>4
        <5> QED
          BY <2>2, <5>1, <5>2
      <4>2. CASE k # m + 1
        <5>1. k \in 1..m
          BY <3>1, <4>2
        <5> QED
          BY <2>1, <2>2, <3>1, <5>1 DEF m
      <4> QED
        BY <4>1, <4>2
    <3> QED
      BY <3>0, <3>1, <3>3, <3>4 DEF OrderInv, Poly!Power, Poly!string_to_int
  <2> QED
    BY <2>3, <2>4
<1> QED
  BY <1>2, <1>7, <1>9, <1>10, <1>11 DEF PolyInv

LEMMA PolyInvNext == PolyInv /\ [Poly!PolyNext]_polyVars => PolyInv'
<1> SUFFICES ASSUME PolyInv, [Poly!PolyNext]_polyVars PROVE PolyInv'
  OBVIOUS
<1>1. CASE Poly!PolyNext
  BY <1>1, PolyInsertSign, PolyCount, PolyAllCounted, PolyPrintTerm, PolyReturns
     DEF Poly!PolyNext
<1>2. CASE UNCHANGED polyVars
  <2>1. \A q : Counted(q)' = Counted(q)
    BY <1>2 DEF Counted, polyVars
  <2>2. PolyType' /\ OrderInv'
    BY <1>2 DEF polyVars, PolyInv, PolyType, OrderInv, Poly!Power, Poly!string_to_int
  <2>3. CountInv'
    BY <1>2, <2>1 DEF polyVars, PolyInv, CountInv, Poly!Coefficients
  <2>4. PrintInv'
    BY <1>2, <2>1 DEF polyVars, PolyInv, PrintInv, Poly!Coefficient, Poly!Coefficients
  <2> QED
    BY <1>2, <2>2, <2>3, <2>4 DEF polyVars, PolyInv
<1> QED
  BY <1>1, <1>2

LEMMA PolyInvFormal == PolyInv => Poly!DerivativeIsFormal
<1> SUFFICES ASSUME PolyInv, at = "returned" PROVE Poly!DerivativeIsFormal
  BY DEF Poly!DerivativeIsFormal
<1>1. ASSUME NEW p \in 0..MaxPow
      PROVE  Poly!Coefficient(result, p) = (p + 1) * Poly!Coefficient(polynomial, p + 1)
  <2>1. p \in Nat /\ p + 1 \in Nat
    BY BoundsType
  <2>2. /\ Poly!Coefficient(result, p) = (p + 1) * Counted(p + 1)
        /\ match = Len(polynomial)
    BY <2>1 DEF PolyInv, PrintInv
  <2>3. Counted(p + 1) = Poly!Coefficient(polynomial, p + 1)
    BY <2>1, <2>2 DEF PolyInv, CountInv, Poly!Coefficient
  <2> QED
    BY <2>2, <2>3
<1> QED
  BY <1>1 DEF PolyInv, OrderInv, Poly!DerivativeIsFormal

\* containers.cpp: what derivative returns reads as the derivative of its argument,
\* for polynomials of every length with every coefficient and power: equal powers
\* are summed, no minus is lost, the powers fall and a sign separates the terms.
THEOREM AlgorithmsDerivativeFormal == Spec => []DerivativeIsFormal
<1> DEFINE Inv == algorithm = "derivative" => PolyInv
<1>1. Init => Inv
  BY PolyInvInit DEF Init, Chosen
<1>2. Inv /\ [Next]_allVars => Inv'
  <2> SUFFICES ASSUME Inv, [Next]_allVars, algorithm' = "derivative" PROVE PolyInv'
    OBVIOUS
  <2>1. algorithm = "derivative" /\ [Poly!PolyNext]_polyVars
    BY DEF Next, allVars
  <2> QED
    BY <2>1, PolyInvNext
<1>3. Inv => DerivativeIsFormal
  BY PolyInvFormal DEF DerivativeIsFormal
<1> QED
  BY <1>1, <1>2, <1>3, PTL DEF Spec
-----------------------------------------------------------------------------
(***************************************************************************)
(* matrix_det.cpp: fractions in lowest terms                               *)
(***************************************************************************)
Positive == Nat \ {0}

\* No number but 1 divides both.
Lowest(p, q) == \A d \in Positive, u \in Int, v \in Int : p = d * u /\ q = d * v => d = 1

Fractions == {x \in Int \X Positive : Lowest(x[1], x[2])}

\* x is the value p / q.
Is(x, p, q) == x[1] * q = p * x[2]

LEMMA Cancel ==
    ASSUME NEW u \in Int, NEW v \in Int, NEW k \in Int, k # 0, u * k = v * k
    PROVE  u = v
<1>1. (u - v) * k = 0
  OBVIOUS
<1>2. u - v = 0
  BY <1>1
<1> QED
  BY <1>2

LEMMA Multiple ==
    ASSUME NEW m \in Positive, NEW k \in Int
    PROVE  (m * k) % m = 0
<1>1. m \in Nat /\ m > 0 /\ m * k \in Int
  BY DEF Positive
<1>2. PICK q \in Int : m * k = m * q + ((m * k) % m) /\ (m * k) % m \in 0..(m - 1)
  BY <1>1, Division
<1> DEFINE r == (m * k) % m
<1> HIDE DEF r
<1>3. r \in 0..(m - 1) /\ 0 \in 0..(m - 1) /\ r = 0 + m * (k - q) /\ k - q \in Int
  <2>1. r \in 0..(m - 1) /\ m * k = m * q + r
    BY <1>2 DEF r
  <2> QED
    BY <1>1, <2>1
<1>4. r = 0
  BY <1>1, <1>3, OneRemainder
<1> QED
  BY <1>4 DEF r

LEMMA Divisor ==
    ASSUME NEW m \in Positive, NEW v \in Int, v % m = 0
    PROVE  v \div m \in Int /\ v = m * (v \div m)
<1>1. v = m * (v \div m) + (v % m) /\ v \div m \in Int
  BY DEF Positive
<1> QED
  BY <1>1 DEF Positive

LEMMA FractionType ==
    ASSUME NEW x \in Fractions
    PROVE  /\ x[1] \in Int /\ x[2] \in Int /\ x[2] \in Nat /\ x[2] > 0 /\ x[2] # 0
           /\ x = <<x[1], x[2]>> /\ Lowest(x[1], x[2])
BY DEF Fractions, Positive

LEMMA ReducedIs ==
    ASSUME NEW p \in Int, NEW q \in Int, q > 0
    PROVE  Matrix!Reduced(p, q) \in Fractions /\ Is(Matrix!Reduced(p, q), p, q)
<1> DEFINE G == {d \in 1..q : p % d = 0 /\ q % d = 0}
           g == Matrix!Max(G)
<1>1. G \in SUBSET (0..q) /\ q \in Nat
  OBVIOUS
<1>2. 1 \in G
  <2>1. 1 \in Positive /\ 1 * p = p /\ 1 * q = q /\ 1 \in 1..q
    BY DEF Positive
  <2>2. p % 1 = 0 /\ q % 1 = 0
    BY <2>1, Multiple
  <2> QED
    BY <2>1, <2>2
<1>3. \E x \in G : \A y \in G : x >= y
  BY <1>1, <1>2, GreatestElement
<1>4. g \in G /\ \A y \in G : g >= y
  BY <1>3 DEF Matrix!Max
<1>5. Matrix!Reduced(p, q) = <<p \div g, q \div g>>
  BY DEF Matrix!Reduced
<1>6. g \in Positive /\ p % g = 0 /\ q % g = 0
  BY <1>4 DEF Positive
<1> DEFINE u == p \div g
           v == q \div g
<1> HIDE DEF g, G
<1>7. u \in Int /\ v \in Int /\ p = g * u /\ q = g * v
  BY <1>6, Divisor
<1> HIDE DEF u, v
<1>8. g \in Int /\ g > 0 /\ v > 0
  <2>1. g \in Int /\ g > 0
    BY <1>6 DEF Positive
  <2>2. ASSUME v <= 0 PROVE FALSE
    <3>1. g * v <= 0
      BY <1>7, <2>1, <2>2
    <3> QED
      BY <1>7, <3>1
  <2> QED
    BY <1>7, <2>1, <2>2
<1>9. Lowest(u, v)
  <2> SUFFICES ASSUME NEW d \in Positive, NEW s \in Int, NEW t \in Int, u = d * s, v = d * t
               PROVE  d = 1
    BY DEF Lowest
  <2>1. d \in Int /\ d > 0
    BY DEF Positive
  <2>2. g * d \in Int /\ g * d >= g /\ g * d > 0
    BY <1>8, <2>1
  <2>3. p = (g * d) * s /\ q = (g * d) * t
    BY <1>7, <1>8, <2>1
  <2>4. t > 0
    <3>1. ASSUME t <= 0 PROVE FALSE
      <4>1. d * t <= 0
        BY <2>1, <3>1
      <4> QED
        BY <1>8, <4>1
    <3> QED
      BY <3>1
  <2> DEFINE e == g * d
  <2>5. e \in Int /\ e > 0 /\ e \in Positive /\ p = e * s /\ q = e * t
    BY <2>2, <2>3 DEF Positive
  <2> HIDE DEF e
  <2>6. p % e = 0 /\ q % e = 0
    BY <2>5, Multiple
  <2>7. e <= q
    <3>1. e * t >= e
      BY <2>4, <2>5
    <3> QED
      BY <2>5, <3>1
  <2>8. e \in G
    BY <2>5, <2>6, <2>7 DEF G
  <2>9. g >= e
    BY <1>4, <2>8
  <2>10. ~(d >= 2)
    <3>1. ASSUME d >= 2 PROVE FALSE
      <4>1. g * d >= g + g
        BY <1>8, <2>1, <3>1
      <4>2. g * d <= g
        BY <1>8, <2>9 DEF e
      <4> QED
        BY <1>8, <2>2, <4>1, <4>2
    <3> QED
      BY <3>1
  <2> QED
    BY <2>1, <2>10
<1>10. <<u, v>> \in Fractions
  BY <1>7, <1>8, <1>9 DEF Fractions, Positive
<1>11. u * q = p * v
  BY <1>7, <1>8
<1> QED
  BY <1>5, <1>10, <1>11 DEF Is, u, v

\* A fraction in lowest terms has the least denominator of its value.
LEMMA LeastDenominator ==
    ASSUME NEW x \in Fractions, NEW p \in Int, NEW q \in Int, q > 0, Is(x, p, q),
           \A r \in Int, s \in Int : s > 0 /\ Is(x, r, s) => q <= s
    PROVE  x = <<p, q>>
<1> DEFINE x1 == x[1]
           x2 == x[2]
           k == x2 \div q
           r == x2 % q
<1>1. x1 \in Int /\ x2 \in Int /\ x2 > 0 /\ x = <<x1, x2>> /\ Lowest(x1, x2)
  BY FractionType
<1>2. x1 * q = p * x2
  BY DEF Is
<1> HIDE DEF x1, x2
<1>3. k \in Int /\ r \in 0..(q - 1) /\ x2 = q * k + r
  BY <1>1
<1> HIDE DEF k, r
<1>4. r = 0
  <2>1. ASSUME r > 0 PROVE FALSE
    <3>1. x1 * r = (x1 - k * p) * x2
      <4>1. r = x2 - q * k
        BY <1>1, <1>3
      <4>2. x1 * (x2 - q * k) = x1 * x2 - (x1 * q) * k
        BY <1>1, <1>3
      <4>3. (x1 - k * p) * x2 = x1 * x2 - (p * x2) * k
        BY <1>1, <1>3
      <4> QED
        BY <1>2, <4>1, <4>2, <4>3
    <3>2. x1 - k * p \in Int /\ r \in Int
      BY <1>1, <1>3
    <3>3. Is(x, x1 - k * p, r)
      BY <3>1 DEF Is, x1, x2
    <3>4. q <= r
      BY <2>1, <3>2, <3>3
    <3> QED
      BY <1>3, <3>4
  <2> QED
    BY <1>3, <2>1
<1>5. x2 = k * q
  BY <1>3, <1>4
<1>6. x1 = k * p
  <2>1. x1 * q = (k * p) * q
    <3>1. p * x2 = (k * p) * q
      BY <1>3, <1>5
    <3> QED
      BY <1>2, <3>1
  <2> QED
    BY <1>1, <1>3, <2>1, Cancel
<1>7. k > 0
  <2>1. ASSUME k <= 0 PROVE FALSE
    <3>1. k * q <= 0
      BY <1>3, <2>1
    <3> QED
      BY <1>1, <1>5, <3>1
  <2> QED
    BY <1>3, <2>1
<1>8. k = 1
  BY <1>1, <1>3, <1>5, <1>6, <1>7 DEF Lowest, Positive
<1> QED
  BY <1>1, <1>5, <1>6, <1>8

\* If x is both p / q and r / s, these are equal.
LEMMA SameValue ==
    ASSUME NEW x \in Fractions, NEW p \in Int, NEW q \in Int, NEW r \in Int, NEW s \in Int,
           Is(x, p, q), Is(x, r, s)
    PROVE  p * s = r * q
<1> DEFINE x1 == x[1]
           x2 == x[2]
<1>1. x1 \in Int /\ x2 \in Int /\ x2 # 0 /\ x1 * q = p * x2 /\ x1 * s = r * x2
  BY FractionType DEF Is
<1> HIDE DEF x1, x2
<1>2. (p * s) * x2 = (x1 * q) * s
  BY <1>1
<1>3. (r * q) * x2 = (x1 * s) * q
  BY <1>1
<1>4. (x1 * q) * s = (x1 * s) * q
  BY <1>1
<1> QED
  BY <1>1, <1>2, <1>3, <1>4, Cancel

\* If x is p / q and p / q = r / s, then x is r / s.
LEMMA OtherValue ==
    ASSUME NEW x \in Fractions, NEW p \in Int, NEW q \in Int, q # 0, NEW r \in Int,
           NEW s \in Int, Is(x, p, q), p * s = r * q
    PROVE  Is(x, r, s)
<1> DEFINE x1 == x[1]
           x2 == x[2]
<1>1. x1 \in Int /\ x2 \in Int /\ x1 * q = p * x2
  BY FractionType DEF Is
<1> HIDE DEF x1, x2
<1>2. (x1 * s) * q = (r * x2) * q
  <2>1. (x1 * s) * q = (x1 * q) * s
    BY <1>1
  <2>2. (p * x2) * s = (p * s) * x2
    BY <1>1
  <2>3. (r * q) * x2 = (r * x2) * q
    BY <1>1
  <2> QED
    BY <1>1, <2>1, <2>2, <2>3
<1>3. x1 * s = r * x2
  BY <1>1, <1>2, Cancel
<1> QED
  BY <1>3 DEF Is, x1, x2

LEMMA EqualFractions ==
    ASSUME NEW x \in Fractions, NEW y \in Fractions,
           NEW p \in Int, NEW q \in Int, q # 0, NEW r \in Int, NEW s \in Int, s # 0,
           Is(x, p, q), Is(y, r, s), p * s = r * q
    PROVE  x = y
<1>1. Is(y, p, q)
  BY OtherValue
<1> DEFINE E == {t \in Nat : t > 0 /\ \E u \in Int : Is(x, u, t)}
<1>2. x[1] \in Int /\ x[2] \in Nat /\ x[2] > 0 /\ Is(x, x[1], x[2])
  BY FractionType DEF Is
<1>3. E \in SUBSET Nat /\ E # {}
  <2>1. x[2] \in E
    BY <1>2
  <2> QED
    BY <2>1
<1>4. PICK t \in E : \A w \in E : t <= w
  BY <1>3, LeastElement
<1>5. PICK u \in Int : Is(x, u, t)
  BY <1>4
<1>6. t \in Int /\ t > 0
  BY <1>4
<1>7. \A v \in Int, w \in Int : w > 0 /\ Is(x, v, w) => t <= w
  BY <1>4
<1>8. x = <<u, t>>
  BY <1>5, <1>6, <1>7, LeastDenominator
<1>9. Is(y, u, t)
  <2>1. p * t = u * q
    BY <1>5, <1>6, SameValue
  <2> QED
    BY <1>1, <1>6, <2>1, OtherValue
<1>10. ASSUME NEW v \in Int, NEW w \in Int, w > 0, Is(y, v, w) PROVE t <= w
  <2>1. p * w = v * q
    BY <1>1, <1>10, SameValue
  <2>2. Is(x, v, w)
    BY <1>10, <2>1, OtherValue
  <2> QED
    BY <1>7, <1>10, <2>2
<1>11. y = <<u, t>>
  BY <1>6, <1>9, <1>10, LeastDenominator
<1> QED
  BY <1>8, <1>11
-----------------------------------------------------------------------------
(***************************************************************************)
(* The fractions are a field                                               *)
(***************************************************************************)
LEMMA PositiveProduct ==
    ASSUME NEW u \in Int, u > 0, NEW v \in Int, v > 0
    PROVE  u * v \in Int /\ u * v > 0 /\ u * v # 0
OBVIOUS

LEMMA FracIs ==
    ASSUME NEW p \in Int
    PROVE  Matrix!Frac(p) \in Fractions /\ Is(Matrix!Frac(p), p, 1) /\ Matrix!Frac(p)[1] = p
<1>1. Lowest(p, 1)
  <2> SUFFICES ASSUME NEW d \in Positive, NEW u \in Int, NEW v \in Int, p = d * u, 1 = d * v
               PROVE  d = 1
    BY DEF Lowest
  <2>1. d \in Int /\ d > 0
    BY DEF Positive
  <2>2. ASSUME d >= 2 PROVE FALSE
    <3>1. CASE v >= 1
      <4>1. d * v >= d
        BY <2>1, <3>1
      <4> QED
        BY <2>1, <2>2, <4>1
    <3>2. CASE v <= 0
      <4>1. d * v <= 0
        BY <2>1, <3>2
      <4> QED
        BY <4>1
    <3> QED
      BY <3>1, <3>2
  <2> QED
    BY <2>1, <2>2
<1> QED
  BY <1>1 DEF Matrix!Frac, Fractions, Positive, Is

LEMMA TimesIs ==
    ASSUME NEW x \in Fractions, NEW y \in Fractions
    PROVE  /\ Matrix!Times(x, y) \in Fractions
           /\ Is(Matrix!Times(x, y), x[1] * y[1], x[2] * y[2])
<1>1. /\ x[1] * y[1] \in Int /\ x[2] * y[2] \in Int /\ x[2] * y[2] > 0
  BY FractionType, PositiveProduct
<1> QED
  BY <1>1, ReducedIs DEF Matrix!Times

LEMMA PlusIs ==
    ASSUME NEW x \in Fractions, NEW y \in Fractions
    PROVE  /\ Matrix!Plus(x, y) \in Fractions
           /\ Is(Matrix!Plus(x, y), x[1] * y[2] + y[1] * x[2], x[2] * y[2])
<1>1. x[1] * y[2] + y[1] * x[2] \in Int /\ x[2] * y[2] \in Int /\ x[2] * y[2] > 0
  BY FractionType, PositiveProduct
<1> QED
  BY <1>1, ReducedIs DEF Matrix!Plus

LEMMA MinusIs ==
    ASSUME NEW x \in Fractions, NEW y \in Fractions
    PROVE  /\ Matrix!Minus(x, y) \in Fractions
           /\ Is(Matrix!Minus(x, y), x[1] * y[2] - y[1] * x[2], x[2] * y[2])
<1>1. x[1] * y[2] - y[1] * x[2] \in Int /\ x[2] * y[2] \in Int /\ x[2] * y[2] > 0
  BY FractionType, PositiveProduct
<1> QED
  BY <1>1, ReducedIs DEF Matrix!Minus

LEMMA NegIs ==
    ASSUME NEW x \in Fractions
    PROVE  /\ Matrix!Neg(x) \in Fractions
           /\ Matrix!Neg(x)[1] = -x[1] /\ Matrix!Neg(x)[2] = x[2]
           /\ Is(Matrix!Neg(x), -x[1], x[2])
<1>1. /\ x[1] \in Int /\ x[2] \in Int /\ x[2] > 0 /\ Lowest(x[1], x[2])
  BY FractionType
<1>2. Lowest(-x[1], x[2])
  <2> SUFFICES ASSUME NEW d \in Positive, NEW u \in Int, NEW v \in Int,
                      -x[1] = d * u, x[2] = d * v
               PROVE  d = 1
    BY DEF Lowest
  <2>1. x[1] = d * (-u) /\ -u \in Int
    BY <1>1 DEF Positive
  <2> QED
    BY <1>1, <2>1 DEF Lowest
<1> QED
  BY <1>1, <1>2 DEF Matrix!Neg, Fractions, Positive, Is

LEMMA OverIs ==
    ASSUME NEW x \in Fractions, NEW y \in Fractions, y[1] # 0
    PROVE  /\ Matrix!Over(x, y) \in Fractions
           /\ Is(Matrix!Over(x, y), x[1] * y[2], x[2] * y[1])
<1> DEFINE x1 == x[1]
           x2 == x[2]
           y1 == y[1]
           y2 == y[2]
<1>1. /\ x1 \in Int /\ x2 \in Int /\ x2 > 0 /\ y1 \in Int /\ y2 \in Int /\ y2 > 0
  BY FractionType
<1>2. Matrix!Over(x, y) = IF y1 > 0 THEN Matrix!Reduced(x1 * y2, x2 * y1)
                          ELSE Matrix!Reduced(-(x1 * y2), -(x2 * y1))
  BY DEF Matrix!Over
<1>3. y1 # 0
  OBVIOUS
<1>4. Is(Matrix!Over(x, y), x1 * y2, x2 * y1) /\ Matrix!Over(x, y) \in Fractions
  <2> HIDE DEF x1, x2, y1, y2
  <2>1. CASE y1 > 0
    <3>1. x1 * y2 \in Int /\ x2 * y1 \in Int /\ x2 * y1 > 0
      BY <1>1, <2>1, PositiveProduct
    <3> QED
      BY <1>2, <2>1, <3>1, ReducedIs
  <2>2. CASE ~(y1 > 0)
    <3> DEFINE z == Matrix!Over(x, y)
               p == x1 * y2
               q == x2 * y1
    <3>1. p \in Int /\ q \in Int
      BY <1>1
    <3>2. -q > 0
      <4>1. x2 * (-y1) > 0
        BY <1>1, <1>3, <2>2, PositiveProduct
      <4> QED
        BY <1>1, <4>1
    <3> HIDE DEF p, q
    <3>3. Matrix!Reduced(-p, -q) \in Fractions /\ Is(Matrix!Reduced(-p, -q), -p, -q)
      BY <3>1, <3>2, ReducedIs
    <3>4. z = Matrix!Reduced(-p, -q)
      BY <1>2, <2>2 DEF p, q
    <3> HIDE DEF z
    <3> DEFINE z1 == z[1]
               z2 == z[2]
    <3>5. z \in Fractions /\ z1 * (-q) = (-p) * z2 /\ z1 \in Int /\ z2 \in Int
      BY <3>3, <3>4, FractionType DEF Is
    <3> HIDE DEF z1, z2
    <3>6. z1 * q = p * z2
      BY <3>1, <3>5
    <3> QED
      BY <3>5, <3>6 DEF Is, z, z1, z2, p, q
  <2> QED
    BY <2>1, <2>2
<1> QED
  BY <1>4

\* The value of a sum or a product of values.
LEMMA TimesValue ==
    ASSUME NEW x \in Fractions, NEW y \in Fractions, NEW p \in Int, NEW q \in Int,
           NEW r \in Int, NEW s \in Int, q # 0, s # 0, Is(x, p, q), Is(y, r, s)
    PROVE  /\ Matrix!Times(x, y) \in Fractions /\ Is(Matrix!Times(x, y), p * r, q * s)
           /\ p * r \in Int /\ q * s \in Int /\ q * s # 0
<1> DEFINE x1 == x[1]
           x2 == x[2]
           y1 == y[1]
           y2 == y[2]
<1>1. /\ x1 \in Int /\ x2 \in Int /\ x2 > 0 /\ y1 \in Int /\ y2 \in Int /\ y2 > 0
      /\ x1 * q = p * x2 /\ y1 * s = r * y2
  BY FractionType DEF Is
<1>2. /\ Matrix!Times(x, y) \in Fractions /\ Is(Matrix!Times(x, y), x1 * y1, x2 * y2)
  BY TimesIs
<1> HIDE DEF x1, x2, y1, y2
<1>3. x1 * y1 \in Int /\ x2 * y2 \in Int /\ x2 * y2 # 0
  BY <1>1, PositiveProduct
<1>4. (x1 * y1) * (q * s) = (p * r) * (x2 * y2)
  <2>1. (x1 * y1) * (q * s) = (x1 * q) * (y1 * s)
    BY <1>1
  <2>2. (p * x2) * (r * y2) = (p * r) * (x2 * y2)
    BY <1>1
  <2> QED
    BY <1>1, <2>1, <2>2
<1>5. p * r \in Int /\ q * s \in Int /\ q * s # 0
  OBVIOUS
<1> QED
  BY <1>2, <1>3, <1>4, <1>5, OtherValue

LEMMA PlusValue ==
    ASSUME NEW x \in Fractions, NEW y \in Fractions, NEW p \in Int, NEW q \in Int,
           NEW r \in Int, NEW s \in Int, q # 0, s # 0, Is(x, p, q), Is(y, r, s)
    PROVE  /\ Matrix!Plus(x, y) \in Fractions
           /\ Is(Matrix!Plus(x, y), p * s + r * q, q * s)
           /\ p * s + r * q \in Int /\ q * s \in Int /\ q * s # 0
<1> DEFINE x1 == x[1]
           x2 == x[2]
           y1 == y[1]
           y2 == y[2]
<1>1. /\ x1 \in Int /\ x2 \in Int /\ x2 > 0 /\ y1 \in Int /\ y2 \in Int /\ y2 > 0
      /\ x1 * q = p * x2 /\ y1 * s = r * y2
  BY FractionType DEF Is
<1>2. /\ Matrix!Plus(x, y) \in Fractions
      /\ Is(Matrix!Plus(x, y), x1 * y2 + y1 * x2, x2 * y2)
  BY PlusIs
<1> HIDE DEF x1, x2, y1, y2
<1>3. x1 * y2 + y1 * x2 \in Int /\ x2 * y2 \in Int /\ x2 * y2 # 0
  BY <1>1, PositiveProduct
<1>4. (x1 * y2 + y1 * x2) * (q * s) = (p * s + r * q) * (x2 * y2)
  <2>1. (x1 * y2 + y1 * x2) * (q * s) = (x1 * q) * (y2 * s) + (y1 * s) * (x2 * q)
    BY <1>1
  <2>2. (p * x2) * (y2 * s) + (r * y2) * (x2 * q) = (p * s + r * q) * (x2 * y2)
    BY <1>1
  <2> QED
    BY <1>1, <2>1, <2>2
<1>5. p * s + r * q \in Int /\ q * s \in Int /\ q * s # 0
  OBVIOUS
<1> QED
  BY <1>2, <1>3, <1>4, <1>5, OtherValue

LEMMA OwnValue ==
    ASSUME NEW x \in Fractions
    PROVE  /\ x[1] \in Int /\ x[2] \in Int /\ x[2] # 0 /\ x[2] > 0
           /\ Is(x, x[1], x[2])
BY FractionType DEF Is

LEMMA TimesCommutes ==
    ASSUME NEW x \in Fractions, NEW y \in Fractions
    PROVE  Matrix!Times(x, y) = Matrix!Times(y, x)
<1>1. x[1] \in Int /\ x[2] \in Int /\ y[1] \in Int /\ y[2] \in Int
  BY OwnValue
<1>2. x[1] * y[1] = y[1] * x[1] /\ x[2] * y[2] = y[2] * x[2]
  BY <1>1
<1> QED
  BY <1>2 DEF Matrix!Times

LEMMA PlusCommutes ==
    ASSUME NEW x \in Fractions, NEW y \in Fractions
    PROVE  Matrix!Plus(x, y) = Matrix!Plus(y, x)
<1>1. x[1] \in Int /\ x[2] \in Int /\ y[1] \in Int /\ y[2] \in Int
  BY OwnValue
<1>2. /\ x[1] * y[2] + y[1] * x[2] = y[1] * x[2] + x[1] * y[2]
      /\ x[2] * y[2] = y[2] * x[2]
  BY <1>1
<1> QED
  BY <1>2 DEF Matrix!Plus

LEMMA TimesAssociates ==
    ASSUME NEW x \in Fractions, NEW y \in Fractions, NEW z \in Fractions
    PROVE  Matrix!Times(x, Matrix!Times(y, z)) = Matrix!Times(Matrix!Times(x, y), z)
<1> DEFINE x1 == x[1]
           x2 == x[2]
           y1 == y[1]
           y2 == y[2]
           z1 == z[1]
           z2 == z[2]
           yz == Matrix!Times(y, z)
           xy == Matrix!Times(x, y)
<1>1. /\ x1 \in Int /\ x2 \in Int /\ x2 # 0 /\ Is(x, x1, x2)
      /\ y1 \in Int /\ y2 \in Int /\ y2 # 0 /\ Is(y, y1, y2)
      /\ z1 \in Int /\ z2 \in Int /\ z2 # 0 /\ Is(z, z1, z2)
  BY OwnValue
<1> HIDE DEF x1, x2, y1, y2, z1, z2
<1>2. /\ yz \in Fractions /\ Is(yz, y1 * z1, y2 * z2)
      /\ y1 * z1 \in Int /\ y2 * z2 \in Int /\ y2 * z2 # 0
  BY <1>1, TimesValue
<1>3. /\ xy \in Fractions /\ Is(xy, x1 * y1, x2 * y2)
      /\ x1 * y1 \in Int /\ x2 * y2 \in Int /\ x2 * y2 # 0
  BY <1>1, TimesValue
<1> HIDE DEF yz, xy
<1>4. /\ Matrix!Times(x, yz) \in Fractions
      /\ Is(Matrix!Times(x, yz), x1 * (y1 * z1), x2 * (y2 * z2))
      /\ x1 * (y1 * z1) \in Int /\ x2 * (y2 * z2) \in Int /\ x2 * (y2 * z2) # 0
  BY <1>1, <1>2, TimesValue
<1>5. /\ Matrix!Times(xy, z) \in Fractions
      /\ Is(Matrix!Times(xy, z), (x1 * y1) * z1, (x2 * y2) * z2)
      /\ (x1 * y1) * z1 \in Int /\ (x2 * y2) * z2 \in Int /\ (x2 * y2) * z2 # 0
  BY <1>1, <1>3, TimesValue
<1>6. x1 * (y1 * z1) = (x1 * y1) * z1 /\ x2 * (y2 * z2) = (x2 * y2) * z2
  BY <1>1
<1>7. (x1 * (y1 * z1)) * ((x2 * y2) * z2) = ((x1 * y1) * z1) * (x2 * (y2 * z2))
  BY <1>6
<1>8. Matrix!Times(x, yz) = Matrix!Times(xy, z)
  BY <1>4, <1>5, <1>7, EqualFractions
<1> QED
  BY <1>8 DEF yz, xy

LEMMA PlusAssociates ==
    ASSUME NEW x \in Fractions, NEW y \in Fractions, NEW z \in Fractions
    PROVE  Matrix!Plus(x, Matrix!Plus(y, z)) = Matrix!Plus(Matrix!Plus(x, y), z)
<1> DEFINE x1 == x[1]
           x2 == x[2]
           y1 == y[1]
           y2 == y[2]
           z1 == z[1]
           z2 == z[2]
           yz == Matrix!Plus(y, z)
           xy == Matrix!Plus(x, y)
           p == x1 * (y2 * z2) + (y1 * z2 + z1 * y2) * x2
           q == x2 * (y2 * z2)
           r == (x1 * y2 + y1 * x2) * z2 + z1 * (x2 * y2)
           s == (x2 * y2) * z2
<1>1. /\ x1 \in Int /\ x2 \in Int /\ x2 # 0 /\ Is(x, x1, x2)
      /\ y1 \in Int /\ y2 \in Int /\ y2 # 0 /\ Is(y, y1, y2)
      /\ z1 \in Int /\ z2 \in Int /\ z2 # 0 /\ Is(z, z1, z2)
  BY OwnValue
<1> HIDE DEF x1, x2, y1, y2, z1, z2
<1>2. /\ yz \in Fractions /\ Is(yz, y1 * z2 + z1 * y2, y2 * z2)
      /\ y1 * z2 + z1 * y2 \in Int /\ y2 * z2 \in Int /\ y2 * z2 # 0
  BY <1>1, PlusValue
<1>3. /\ xy \in Fractions /\ Is(xy, x1 * y2 + y1 * x2, x2 * y2)
      /\ x1 * y2 + y1 * x2 \in Int /\ x2 * y2 \in Int /\ x2 * y2 # 0
  BY <1>1, PlusValue
<1> HIDE DEF yz, xy
<1>4. /\ Matrix!Plus(x, yz) \in Fractions /\ Is(Matrix!Plus(x, yz), p, q)
      /\ p \in Int /\ q \in Int /\ q # 0
  BY <1>1, <1>2, PlusValue
<1>5. /\ Matrix!Plus(xy, z) \in Fractions /\ Is(Matrix!Plus(xy, z), r, s)
      /\ r \in Int /\ s \in Int /\ s # 0
  BY <1>1, <1>3, PlusValue
<1>6. p = r /\ q = s
  BY <1>1
<1> HIDE DEF p, q, r, s
<1>7. p * s = r * q
  BY <1>6
<1>8. Matrix!Plus(x, yz) = Matrix!Plus(xy, z)
  BY <1>4, <1>5, <1>7, EqualFractions
<1> QED
  BY <1>8 DEF yz, xy

LEMMA Distributes ==
    ASSUME NEW x \in Fractions, NEW y \in Fractions, NEW z \in Fractions
    PROVE  Matrix!Times(x, Matrix!Plus(y, z)) =
               Matrix!Plus(Matrix!Times(x, y), Matrix!Times(x, z))
<1> DEFINE x1 == x[1]
           x2 == x[2]
           y1 == y[1]
           y2 == y[2]
           z1 == z[1]
           z2 == z[2]
           yz == Matrix!Plus(y, z)
           xy == Matrix!Times(x, y)
           xz == Matrix!Times(x, z)
           p == x1 * (y1 * z2 + z1 * y2)
           q == x2 * (y2 * z2)
           r == (x1 * y1) * (x2 * z2) + (x1 * z1) * (x2 * y2)
           s == (x2 * y2) * (x2 * z2)
<1>1. /\ x1 \in Int /\ x2 \in Int /\ x2 # 0 /\ Is(x, x1, x2)
      /\ y1 \in Int /\ y2 \in Int /\ y2 # 0 /\ Is(y, y1, y2)
      /\ z1 \in Int /\ z2 \in Int /\ z2 # 0 /\ Is(z, z1, z2)
  BY OwnValue
<1> HIDE DEF x1, x2, y1, y2, z1, z2
<1>2. /\ yz \in Fractions /\ Is(yz, y1 * z2 + z1 * y2, y2 * z2)
      /\ y1 * z2 + z1 * y2 \in Int /\ y2 * z2 \in Int /\ y2 * z2 # 0
  BY <1>1, PlusValue
<1>3. /\ xy \in Fractions /\ Is(xy, x1 * y1, x2 * y2)
      /\ x1 * y1 \in Int /\ x2 * y2 \in Int /\ x2 * y2 # 0
  BY <1>1, TimesValue
<1>4. /\ xz \in Fractions /\ Is(xz, x1 * z1, x2 * z2)
      /\ x1 * z1 \in Int /\ x2 * z2 \in Int /\ x2 * z2 # 0
  BY <1>1, TimesValue
<1> HIDE DEF yz, xy, xz
<1>5. /\ Matrix!Times(x, yz) \in Fractions /\ Is(Matrix!Times(x, yz), p, q)
      /\ p \in Int /\ q \in Int /\ q # 0
  BY <1>1, <1>2, TimesValue
<1>6. /\ Matrix!Plus(xy, xz) \in Fractions /\ Is(Matrix!Plus(xy, xz), r, s)
      /\ r \in Int /\ s \in Int /\ s # 0
  BY <1>3, <1>4, PlusValue
<1>7. p * s = r * q
  <2>1. r = x2 * p
    BY <1>1
  <2>2. s = x2 * q
    BY <1>1
  <2> HIDE DEF p, q, r, s
  <2>3. p * (x2 * q) = (x2 * p) * q
    BY <1>1, <1>5
  <2> QED
    BY <2>1, <2>2, <2>3
<1> HIDE DEF p, q, r, s
<1>8. Matrix!Times(x, yz) = Matrix!Plus(xy, xz)
  BY <1>5, <1>6, <1>7, EqualFractions
<1> QED
  BY <1>8 DEF yz, xy, xz

Zero == Matrix!Frac(0)
One  == Matrix!Frac(1)

LEMMA ZeroOne ==
    /\ Zero \in Fractions /\ Zero[1] = 0 /\ Is(Zero, 0, 1)
    /\ One \in Fractions /\ One[1] = 1 /\ Is(One, 1, 1)
BY FracIs DEF Zero, One

LEMMA PlusZero ==
    ASSUME NEW x \in Fractions
    PROVE  Matrix!Plus(Zero, x) = x /\ Matrix!Plus(x, Zero) = x
<1> DEFINE x1 == x[1]
           x2 == x[2]
<1>1. x1 \in Int /\ x2 \in Int /\ x2 # 0 /\ Is(x, x1, x2)
  BY OwnValue
<1> HIDE DEF x1, x2
<1>2. Matrix!Plus(Zero, x) \in Fractions /\ Is(Matrix!Plus(Zero, x), 0 * x2 + x1 * 1, 1 * x2)
  BY <1>1, ZeroOne, PlusValue
<1>3. 0 * x2 + x1 * 1 = x1 /\ 1 * x2 = x2
  BY <1>1
<1>4. Is(Matrix!Plus(Zero, x), x1, x2)
  BY <1>2, <1>3
<1>5. Matrix!Plus(Zero, x) = x
  BY <1>1, <1>2, <1>4, EqualFractions
<1> QED
  BY <1>5, ZeroOne, PlusCommutes

LEMMA TimesOne ==
    ASSUME NEW x \in Fractions
    PROVE  Matrix!Times(One, x) = x /\ Matrix!Times(x, One) = x
<1> DEFINE x1 == x[1]
           x2 == x[2]
<1>1. x1 \in Int /\ x2 \in Int /\ x2 # 0 /\ Is(x, x1, x2)
  BY OwnValue
<1> HIDE DEF x1, x2
<1>2. Matrix!Times(One, x) \in Fractions /\ Is(Matrix!Times(One, x), 1 * x1, 1 * x2)
  BY <1>1, ZeroOne, TimesValue
<1>3. 1 * x1 = x1 /\ 1 * x2 = x2
  BY <1>1
<1>4. Is(Matrix!Times(One, x), x1, x2)
  BY <1>2, <1>3
<1>5. Matrix!Times(One, x) = x
  BY <1>1, <1>2, <1>4, EqualFractions
<1> QED
  BY <1>5, ZeroOne, TimesCommutes

LEMMA TimesZero ==
    ASSUME NEW x \in Fractions
    PROVE  Matrix!Times(Zero, x) = Zero /\ Matrix!Times(x, Zero) = Zero
<1> DEFINE x1 == x[1]
           x2 == x[2]
<1>1. x1 \in Int /\ x2 \in Int /\ x2 # 0 /\ Is(x, x1, x2)
  BY OwnValue
<1> HIDE DEF x1, x2
<1>2. Matrix!Times(Zero, x) \in Fractions /\ Is(Matrix!Times(Zero, x), 0 * x1, 1 * x2)
  BY <1>1, ZeroOne, TimesValue
<1>3. 0 * x1 = 0 /\ 1 * x2 = x2 /\ 0 * 1 = 0 * x2
  BY <1>1
<1>4. Is(Matrix!Times(Zero, x), 0, x2)
  BY <1>2, <1>3
<1>5. Matrix!Times(Zero, x) = Zero
  BY <1>1, <1>2, <1>3, <1>4, ZeroOne, EqualFractions
<1> QED
  BY <1>5, ZeroOne, TimesCommutes

LEMMA OnlyZero ==
    ASSUME NEW x \in Fractions, x[1] = 0
    PROVE  x = Zero
<1>1. x[2] \in Int /\ x[2] # 0 /\ Is(x, 0, x[2]) /\ 0 * 1 = 0 * x[2]
  BY OwnValue
<1> QED
  BY <1>1, ZeroOne, EqualFractions

LEMMA NegValue ==
    ASSUME NEW x \in Fractions, NEW p \in Int, NEW q \in Int, Is(x, p, q)
    PROVE  Matrix!Neg(x) \in Fractions /\ Is(Matrix!Neg(x), -p, q) /\ -p \in Int
<1> DEFINE x1 == x[1]
           x2 == x[2]
<1>1. x1 \in Int /\ x2 \in Int /\ x1 * q = p * x2
  BY OwnValue DEF Is
<1>2. Matrix!Neg(x) \in Fractions /\ Matrix!Neg(x)[1] = -x1 /\ Matrix!Neg(x)[2] = x2
  BY NegIs
<1> HIDE DEF x1, x2
<1>3. (-x1) * q = (-p) * x2
  BY <1>1
<1> QED
  BY <1>2, <1>3 DEF Is

LEMMA NegNeg ==
    ASSUME NEW x \in Fractions
    PROVE  Matrix!Neg(Matrix!Neg(x)) = x
<1>1. x[1] \in Int /\ x = <<x[1], x[2]>> /\ -(-x[1]) = x[1]
  BY FractionType
<1> QED
  BY <1>1 DEF Matrix!Neg

LEMMA NegZero == Matrix!Neg(Zero) = Zero
<1>1. Matrix!Neg(Zero) \in Fractions /\ Matrix!Neg(Zero)[1] = 0
  BY NegIs, ZeroOne
<1> QED
  BY <1>1, OnlyZero

LEMMA TimesNeg ==
    ASSUME NEW x \in Fractions, NEW y \in Fractions
    PROVE  /\ Matrix!Times(x, Matrix!Neg(y)) = Matrix!Neg(Matrix!Times(x, y))
           /\ Matrix!Times(Matrix!Neg(x), y) = Matrix!Neg(Matrix!Times(x, y))
<1>1. ASSUME NEW u \in Fractions, NEW v \in Fractions
      PROVE  Matrix!Times(u, Matrix!Neg(v)) = Matrix!Neg(Matrix!Times(u, v))
  <2> DEFINE u1 == u[1]
             u2 == u[2]
             v1 == v[1]
             v2 == v[2]
             w == Matrix!Neg(v)
             uv == Matrix!Times(u, v)
  <2>1. /\ u1 \in Int /\ u2 \in Int /\ u2 # 0 /\ Is(u, u1, u2)
        /\ v1 \in Int /\ v2 \in Int /\ v2 # 0 /\ Is(v, v1, v2)
    BY OwnValue
  <2> HIDE DEF u1, u2, v1, v2
  <2>2. w \in Fractions /\ Is(w, -v1, v2) /\ -v1 \in Int
    BY <2>1, NegValue
  <2>3. /\ uv \in Fractions /\ Is(uv, u1 * v1, u2 * v2)
        /\ u1 * v1 \in Int /\ u2 * v2 \in Int /\ u2 * v2 # 0
    BY <2>1, TimesValue
  <2> HIDE DEF w, uv
  <2>4. /\ Matrix!Times(u, w) \in Fractions
        /\ Is(Matrix!Times(u, w), u1 * (-v1), u2 * v2) /\ u1 * (-v1) \in Int
    BY <2>1, <2>2, TimesValue
  <2>5. /\ Matrix!Neg(uv) \in Fractions /\ Is(Matrix!Neg(uv), -(u1 * v1), u2 * v2)
        /\ -(u1 * v1) \in Int
    BY <2>3, NegValue
  <2>6. u1 * (-v1) = -(u1 * v1)
    BY <2>1
  <2>7. (u1 * (-v1)) * (u2 * v2) = (-(u1 * v1)) * (u2 * v2)
    BY <2>6
  <2>8. Matrix!Times(u, w) = Matrix!Neg(uv)
    BY <2>3, <2>4, <2>5, <2>7, EqualFractions
  <2> QED
    BY <2>8 DEF w, uv
<1>2. Matrix!Neg(x) \in Fractions
  BY NegIs
<1>3. Matrix!Times(Matrix!Neg(x), y) = Matrix!Times(y, Matrix!Neg(x))
  BY <1>2, TimesCommutes
<1> QED
  BY <1>1, <1>3, TimesCommutes

LEMMA NegPlus ==
    ASSUME NEW x \in Fractions, NEW y \in Fractions
    PROVE  Matrix!Neg(Matrix!Plus(x, y)) = Matrix!Plus(Matrix!Neg(x), Matrix!Neg(y))
<1> DEFINE x1 == x[1]
           x2 == x[2]
           y1 == y[1]
           y2 == y[2]
           u == Matrix!Neg(x)
           v == Matrix!Neg(y)
           xy == Matrix!Plus(x, y)
           p == -(x1 * y2 + y1 * x2)
           q == x2 * y2
           r == (-x1) * y2 + (-y1) * x2
<1>1. /\ x1 \in Int /\ x2 \in Int /\ x2 # 0 /\ Is(x, x1, x2)
      /\ y1 \in Int /\ y2 \in Int /\ y2 # 0 /\ Is(y, y1, y2)
  BY OwnValue
<1> HIDE DEF x1, x2, y1, y2
<1>2. /\ u \in Fractions /\ Is(u, -x1, x2) /\ -x1 \in Int
      /\ v \in Fractions /\ Is(v, -y1, y2) /\ -y1 \in Int
  BY <1>1, NegValue
<1>3. /\ xy \in Fractions /\ Is(xy, x1 * y2 + y1 * x2, q)
      /\ x1 * y2 + y1 * x2 \in Int /\ q \in Int /\ q # 0
  BY <1>1, PlusValue
<1> HIDE DEF u, v, xy
<1>4. Matrix!Neg(xy) \in Fractions /\ Is(Matrix!Neg(xy), p, q) /\ p \in Int
  BY <1>3, NegValue
<1>5. Matrix!Plus(u, v) \in Fractions /\ Is(Matrix!Plus(u, v), r, q) /\ r \in Int
  BY <1>1, <1>2, PlusValue
<1>6. p = r
  BY <1>1
<1> HIDE DEF p, q, r
<1>7. p * q = r * q
  BY <1>6
<1>8. Matrix!Neg(xy) = Matrix!Plus(u, v)
  BY <1>3, <1>4, <1>5, <1>7, EqualFractions
<1> QED
  BY <1>8 DEF u, v, xy

LEMMA PlusNeg ==
    ASSUME NEW x \in Fractions
    PROVE  Matrix!Plus(x, Matrix!Neg(x)) = Zero
<1> DEFINE x1 == x[1]
           x2 == x[2]
           y == Matrix!Neg(x)
           q == x2 * x2
<1>1. x1 \in Int /\ x2 \in Int /\ x2 # 0 /\ Is(x, x1, x2)
  BY OwnValue
<1> HIDE DEF x1, x2
<1>2. y \in Fractions /\ Is(y, -x1, x2) /\ -x1 \in Int
  BY <1>1, NegValue
<1> HIDE DEF y
<1>3. /\ Matrix!Plus(x, y) \in Fractions
      /\ Is(Matrix!Plus(x, y), x1 * x2 + (-x1) * x2, q) /\ q \in Int /\ q # 0
  BY <1>1, <1>2, PlusValue
<1>4. x1 * x2 + (-x1) * x2 = 0
  BY <1>1
<1> HIDE DEF q
<1>5. 0 * 1 = 0 * q
  BY <1>3
<1>6. Is(Matrix!Plus(x, y), 0, q)
  BY <1>3, <1>4
<1>7. Matrix!Plus(x, y) = Zero
  BY <1>3, <1>5, <1>6, ZeroOne, EqualFractions
<1> QED
  BY <1>7 DEF y

LEMMA MinusIsPlus ==
    ASSUME NEW x \in Fractions, NEW y \in Fractions
    PROVE  Matrix!Minus(x, y) = Matrix!Plus(x, Matrix!Neg(y))
<1>1. x[1] \in Int /\ x[2] \in Int /\ y[1] \in Int /\ y[2] \in Int
  BY OwnValue
<1>2. Matrix!Neg(y)[1] = -y[1] /\ Matrix!Neg(y)[2] = y[2]
  BY NegIs
<1>3. x[1] * y[2] - y[1] * x[2] = x[1] * y[2] + (-y[1]) * x[2]
  BY <1>1
<1> QED
  BY <1>2, <1>3 DEF Matrix!Minus, Matrix!Plus

LEMMA OverTimes ==
    ASSUME NEW x \in Fractions, NEW y \in Fractions, y # Zero
    PROVE  /\ Matrix!Over(x, y) \in Fractions
           /\ Matrix!Times(y, Matrix!Over(x, y)) = x
<1> DEFINE x1 == x[1]
           x2 == x[2]
           y1 == y[1]
           y2 == y[2]
           z == Matrix!Over(x, y)
           p == y1 * (x1 * y2)
           q == y2 * (x2 * y1)
<1>1. /\ x1 \in Int /\ x2 \in Int /\ x2 # 0 /\ Is(x, x1, x2)
      /\ y1 \in Int /\ y2 \in Int /\ y2 # 0 /\ Is(y, y1, y2)
  BY OwnValue
<1>2. y1 # 0
  BY OnlyZero
<1>3. z \in Fractions /\ Is(z, x1 * y2, x2 * y1)
  BY <1>2, OverIs
<1> HIDE DEF x1, x2, y1, y2, z
<1>4. x1 * y2 \in Int /\ x2 * y1 \in Int /\ x2 * y1 # 0
  BY <1>1, <1>2
<1>5. /\ Matrix!Times(y, z) \in Fractions /\ Is(Matrix!Times(y, z), p, q)
      /\ p \in Int /\ q \in Int /\ q # 0
  BY <1>1, <1>3, <1>4, TimesValue
<1>6. p * x2 = x1 * q
  BY <1>1
<1> HIDE DEF p, q
<1>7. Matrix!Times(y, z) = x
  BY <1>1, <1>5, <1>6, EqualFractions
<1> QED
  BY <1>3, <1>7 DEF z

LEMMA OwnNegative ==
    ASSUME NEW x \in Fractions, x = Matrix!Neg(x)
    PROVE  x = Zero
<1>1. x[1] \in Int /\ x[1] = -x[1]
  BY OwnValue, NegIs
<1>2. x[1] = 0
  BY <1>1
<1> QED
  BY <1>2, OnlyZero
-----------------------------------------------------------------------------
(***************************************************************************)
(* Sums of fractions                                                       *)
(***************************************************************************)
IsSumUpTo(g, f, m) ==
    /\ g \in [0..m -> Fractions] /\ g[0] = Zero
    /\ \A k \in 1..m : g[k] = Matrix!Plus(g[k - 1], f[k])

LEMMA PlusType ==
    ASSUME NEW x \in Fractions, NEW y \in Fractions
    PROVE  Matrix!Plus(x, y) \in Fractions
BY PlusIs

LEMMA TimesType ==
    ASSUME NEW x \in Fractions, NEW y \in Fractions
    PROVE  Matrix!Times(x, y) \in Fractions
BY TimesIs

LEMMA NegType ==
    ASSUME NEW x \in Fractions
    PROVE  Matrix!Neg(x) \in Fractions
BY NegIs

LEMMA SumIs ==
    ASSUME NEW m \in Nat, NEW f \in [1..m -> Fractions]
    PROVE  \E g : IsSumUpTo(g, f, m) /\ Matrix!SumOf(f, m) = g[m]
<1> DEFINE P(g) == g = [k \in 0..m |-> IF k = 0 THEN Matrix!Frac(0)
                                       ELSE Matrix!Plus(g[k - 1], f[k])]
           F == [k \in 1..m |-> [v \in Fractions |-> Matrix!Plus(v, f[k])]]
<1>1. F \in [1..m -> [Fractions -> Fractions]] /\ Zero \in Fractions
  BY PlusType, ZeroOne
<1>2. \A k \in 1..m, v \in Fractions : F[k][v] = Matrix!Plus(v, f[k])
  OBVIOUS
<1> HIDE DEF F
<1>3. PICK g : IsRecursion(g, m, Fractions, Zero, F)
  BY <1>1, RecursionExists
<1>4. ASSUME NEW k \in 0..m
      PROVE  g[k] = IF k = 0 THEN Matrix!Frac(0) ELSE Matrix!Plus(g[k - 1], f[k])
  <2>1. k # 0 => k \in 1..m /\ k - 1 \in 0..m
    OBVIOUS
  <2> QED
    BY <1>2, <1>3, <2>1 DEF IsRecursion, Zero
<1>5. P(g)
  <2>1. g = [k \in 0..m |-> g[k]]
    BY <1>3 DEF IsRecursion
  <2> QED
    BY <1>4, <2>1
<1>6. Matrix!SumOf(f, m) = (CHOOSE h : P(h))[m]
  BY DEF Matrix!SumOf
<1> DEFINE h == CHOOSE h : P(h)
<1>7. P(h)
  <2> HIDE DEF P
  <2> QED
    BY <1>5
<1> HIDE DEF h
<1>8. /\ DOMAIN h = 0..m /\ h = [k \in 0..m |-> h[k]] /\ h[0] = Zero
      /\ \A k \in 1..m : h[k] = Matrix!Plus(h[k - 1], f[k])
  BY <1>7 DEF Zero
<1> HIDE DEF P
<1> DEFINE S == {k \in 0..m : h[k] \in Fractions}
<1>9. 0 \in S
  BY <1>8, ZeroOne
<1>10. ASSUME NEW k \in 1..m, k - 1 \in S PROVE k \in S
  BY <1>8, <1>10, PlusType
<1> HIDE DEF S
<1>11. \A k \in 0..m : k \in S
  BY <1>9, <1>10, BoundedInduction
<1>12. \A k \in 0..m : h[k] \in Fractions
  BY <1>11 DEF S
<1>13. IsSumUpTo(h, f, m)
  BY <1>8, <1>12 DEF IsSumUpTo
<1> QED
  BY <1>6, <1>13 DEF h

LEMMA SumType ==
    ASSUME NEW m \in Nat, NEW f \in [1..m -> Fractions]
    PROVE  Matrix!SumOf(f, m) \in Fractions
<1>1. PICK g : IsSumUpTo(g, f, m) /\ Matrix!SumOf(f, m) = g[m]
  BY SumIs
<1>2. m \in 0..m
  OBVIOUS
<1> QED
  BY <1>1, <1>2 DEF IsSumUpTo

\* At most one term is not zero.
LEMMA SumOne ==
    ASSUME NEW m \in Nat, NEW f \in [1..m -> Fractions], NEW c,
           \A k \in 1..m : k # c => f[k] = Zero
    PROVE  Matrix!SumOf(f, m) = IF c \in 1..m THEN f[c] ELSE Zero
<1>1. PICK g : IsSumUpTo(g, f, m) /\ Matrix!SumOf(f, m) = g[m]
  BY SumIs
<1>2. /\ g \in [0..m -> Fractions] /\ g[0] = Zero
      /\ \A k \in 1..m : g[k] = Matrix!Plus(g[k - 1], f[k])
  BY <1>1 DEF IsSumUpTo
<1> DEFINE S == {k \in 0..m : g[k] = IF c \in 1..k THEN f[c] ELSE Zero}
<1>3. 0 \in S
  <2>1. c \notin 1..0
    OBVIOUS
  <2> QED
    BY <1>2, <2>1
<1>4. ASSUME NEW k \in 1..m, k - 1 \in S PROVE k \in S
  <2>1. g[k - 1] = IF c \in 1..(k - 1) THEN f[c] ELSE Zero
    BY <1>4
  <2>2. g[k] = Matrix!Plus(g[k - 1], f[k]) /\ f[k] \in Fractions /\ g[k - 1] \in Fractions
    BY <1>2
  <2>3. CASE k = c
    <3>1. c \in 1..k /\ c \notin 1..(k - 1)
      BY <2>3
    <3>2. g[k] = f[k]
      BY <2>1, <2>2, <3>1, PlusZero
    <3> QED
      BY <2>3, <3>1, <3>2
  <2>4. CASE k # c
    <3>1. c \in 1..k <=> c \in 1..(k - 1)
      BY <2>4
    <3>2. g[k] = g[k - 1]
      BY <2>2, <2>4, PlusZero
    <3> QED
      BY <2>1, <3>1, <3>2
  <2> QED
    BY <2>3, <2>4
<1> HIDE DEF S
<1>5. \A k \in 0..m : k \in S
  BY <1>3, <1>4, BoundedInduction
<1>6. m \in 0..m
  OBVIOUS
<1>7. g[m] = IF c \in 1..m THEN f[c] ELSE Zero
  BY <1>5, <1>6 DEF S
<1> QED
  BY <1>1, <1>7

LEMMA SumZero ==
    ASSUME NEW m \in Nat, NEW f \in [1..m -> Fractions], \A k \in 1..m : f[k] = Zero
    PROVE  Matrix!SumOf(f, m) = Zero
<1>1. 0 \notin 1..m
  OBVIOUS
<1> QED
  BY <1>1, SumOne

\* Four sums, two by two.
LEMMA PlusPlus ==
    ASSUME NEW u \in Fractions, NEW v \in Fractions, NEW x \in Fractions, NEW y \in Fractions
    PROVE  Matrix!Plus(Matrix!Plus(u, v), Matrix!Plus(x, y)) =
               Matrix!Plus(Matrix!Plus(u, x), Matrix!Plus(v, y))
<1>1. /\ Matrix!Plus(x, y) \in Fractions /\ Matrix!Plus(v, y) \in Fractions
      /\ Matrix!Plus(v, x) \in Fractions
  BY PlusType
<1>2. Matrix!Plus(Matrix!Plus(u, v), Matrix!Plus(x, y)) =
          Matrix!Plus(u, Matrix!Plus(v, Matrix!Plus(x, y)))
  BY <1>1, PlusAssociates
<1>3. Matrix!Plus(v, Matrix!Plus(x, y)) = Matrix!Plus(Matrix!Plus(v, x), y)
  BY PlusAssociates
<1>4. Matrix!Plus(v, x) = Matrix!Plus(x, v)
  BY PlusCommutes
<1>5. Matrix!Plus(Matrix!Plus(x, v), y) = Matrix!Plus(x, Matrix!Plus(v, y))
  BY PlusAssociates
<1>6. Matrix!Plus(u, Matrix!Plus(x, Matrix!Plus(v, y))) =
          Matrix!Plus(Matrix!Plus(u, x), Matrix!Plus(v, y))
  BY <1>1, PlusAssociates
<1> QED
  BY <1>2, <1>3, <1>4, <1>5, <1>6

LEMMA SumPlus ==
    ASSUME NEW m \in Nat, NEW f \in [1..m -> Fractions], NEW h \in [1..m -> Fractions],
           NEW s \in [1..m -> Fractions], \A k \in 1..m : s[k] = Matrix!Plus(f[k], h[k])
    PROVE  Matrix!SumOf(s, m) = Matrix!Plus(Matrix!SumOf(f, m), Matrix!SumOf(h, m))
<1>1. PICK fs : IsSumUpTo(fs, f, m) /\ Matrix!SumOf(f, m) = fs[m]
  BY SumIs
<1>2. PICK hs : IsSumUpTo(hs, h, m) /\ Matrix!SumOf(h, m) = hs[m]
  BY SumIs
<1>3. PICK ss : IsSumUpTo(ss, s, m) /\ Matrix!SumOf(s, m) = ss[m]
  BY SumIs
<1>4. /\ fs \in [0..m -> Fractions] /\ fs[0] = Zero
      /\ \A k \in 1..m : fs[k] = Matrix!Plus(fs[k - 1], f[k])
      /\ hs \in [0..m -> Fractions] /\ hs[0] = Zero
      /\ \A k \in 1..m : hs[k] = Matrix!Plus(hs[k - 1], h[k])
      /\ ss \in [0..m -> Fractions] /\ ss[0] = Zero
      /\ \A k \in 1..m : ss[k] = Matrix!Plus(ss[k - 1], s[k])
  BY <1>1, <1>2, <1>3 DEF IsSumUpTo
<1> DEFINE S == {k \in 0..m : ss[k] = Matrix!Plus(fs[k], hs[k])}
<1>5. 0 \in S
  BY <1>4, ZeroOne, PlusZero
<1>6. ASSUME NEW k \in 1..m, k - 1 \in S PROVE k \in S
  <2>1. ss[k - 1] = Matrix!Plus(fs[k - 1], hs[k - 1])
    BY <1>6
  <2>2. /\ fs[k - 1] \in Fractions /\ hs[k - 1] \in Fractions
        /\ f[k] \in Fractions /\ h[k] \in Fractions
    BY <1>4
  <2>3. ss[k] = Matrix!Plus(Matrix!Plus(fs[k - 1], hs[k - 1]), Matrix!Plus(f[k], h[k]))
    BY <1>4, <2>1
  <2>4. Matrix!Plus(Matrix!Plus(fs[k - 1], hs[k - 1]), Matrix!Plus(f[k], h[k]))
            = Matrix!Plus(Matrix!Plus(fs[k - 1], f[k]), Matrix!Plus(hs[k - 1], h[k]))
    BY <2>2, PlusPlus
  <2>5. fs[k] = Matrix!Plus(fs[k - 1], f[k]) /\ hs[k] = Matrix!Plus(hs[k - 1], h[k])
    BY <1>4
  <2>6. ss[k] = Matrix!Plus(fs[k], hs[k])
    BY <2>3, <2>4, <2>5
  <2> QED
    BY <2>6
<1> HIDE DEF S
<1>7. \A k \in 0..m : k \in S
  BY <1>5, <1>6, BoundedInduction
<1>8. m \in 0..m
  OBVIOUS
<1>9. ss[m] = Matrix!Plus(fs[m], hs[m])
  BY <1>7, <1>8 DEF S
<1> QED
  BY <1>1, <1>2, <1>3, <1>9

LEMMA SumTimes ==
    ASSUME NEW m \in Nat, NEW x \in Fractions, NEW f \in [1..m -> Fractions],
           NEW s \in [1..m -> Fractions], \A k \in 1..m : s[k] = Matrix!Times(x, f[k])
    PROVE  Matrix!SumOf(s, m) = Matrix!Times(x, Matrix!SumOf(f, m))
<1>1. PICK fs : IsSumUpTo(fs, f, m) /\ Matrix!SumOf(f, m) = fs[m]
  BY SumIs
<1>2. PICK ss : IsSumUpTo(ss, s, m) /\ Matrix!SumOf(s, m) = ss[m]
  BY SumIs
<1>3. /\ fs \in [0..m -> Fractions] /\ fs[0] = Zero
      /\ \A k \in 1..m : fs[k] = Matrix!Plus(fs[k - 1], f[k])
      /\ ss \in [0..m -> Fractions] /\ ss[0] = Zero
      /\ \A k \in 1..m : ss[k] = Matrix!Plus(ss[k - 1], s[k])
  BY <1>1, <1>2 DEF IsSumUpTo
<1> DEFINE S == {k \in 0..m : ss[k] = Matrix!Times(x, fs[k])}
<1>4. 0 \in S
  BY <1>3, TimesZero
<1>5. ASSUME NEW k \in 1..m, k - 1 \in S PROVE k \in S
  <2>1. ss[k - 1] = Matrix!Times(x, fs[k - 1])
    BY <1>5
  <2>2. fs[k - 1] \in Fractions
    BY <1>3
  <2>3. ss[k] = Matrix!Plus(Matrix!Times(x, fs[k - 1]), Matrix!Times(x, f[k]))
    BY <1>3, <2>1
  <2>4. ss[k] = Matrix!Times(x, Matrix!Plus(fs[k - 1], f[k]))
    BY <2>2, <2>3, Distributes
  <2> QED
    BY <1>3, <2>4
<1> HIDE DEF S
<1>6. \A k \in 0..m : k \in S
  BY <1>4, <1>5, BoundedInduction
<1>7. m \in 0..m
  OBVIOUS
<1>8. ss[m] = Matrix!Times(x, fs[m])
  BY <1>6, <1>7 DEF S
<1> QED
  BY <1>1, <1>2, <1>8

LEMMA SumNeg ==
    ASSUME NEW m \in Nat, NEW f \in [1..m -> Fractions], NEW s \in [1..m -> Fractions],
           \A k \in 1..m : s[k] = Matrix!Neg(f[k])
    PROVE  Matrix!SumOf(s, m) = Matrix!Neg(Matrix!SumOf(f, m))
<1> DEFINE x == Matrix!Neg(One)
<1>1. x \in Fractions
  BY ZeroOne, NegType
<1>2. \A y \in Fractions : Matrix!Times(x, y) = Matrix!Neg(y)
  BY ZeroOne, TimesNeg, TimesOne
<1> HIDE DEF x
<1>3. \A k \in 1..m : s[k] = Matrix!Times(x, f[k])
  BY <1>2
<1>4. Matrix!SumOf(s, m) = Matrix!Times(x, Matrix!SumOf(f, m))
  BY <1>1, <1>3, SumTimes
<1> QED
  BY <1>2, <1>4, SumType

Total(f, m) == Matrix!SumOf([k \in 1..m |-> Matrix!SumOf(f[k], m)], m)

Transposed(h, f, m) ==
    /\ f \in [1..m -> [1..m -> Fractions]] /\ h \in [1..m -> [1..m -> Fractions]]
    /\ \A k \in 1..m, l \in 1..m : h[l][k] = f[k][l]

\* A sum of sums, by rows and by columns.
LEMMA SumOfSums ==
    ASSUME NEW m \in Nat, NEW f, NEW h, Transposed(h, f, m)
    PROVE  Total(f, m) = Total(h, m)
<1> DEFINE r == [k \in 1..m |-> Matrix!SumOf(f[k], m)]
           c == [l \in 1..m |-> Matrix!SumOf(h[l], m)]
           Q(u, l) == IsSumUpTo(u, h[l], m) /\ Matrix!SumOf(h[l], m) = u[m]
           H == [l \in 1..m |-> CHOOSE u : Q(u, l)]
<1>1. /\ r \in [1..m -> Fractions] /\ \A k \in 1..m : r[k] = Matrix!SumOf(f[k], m)
      /\ c \in [1..m -> Fractions] /\ \A l \in 1..m : c[l] = Matrix!SumOf(h[l], m)
  <2>1. \A k \in 1..m : f[k] \in [1..m -> Fractions] /\ h[k] \in [1..m -> Fractions]
    BY DEF Transposed
  <2> QED
    BY <2>1, SumType
<1>2. ASSUME NEW l \in 1..m PROVE Q(H[l], l)
  <2>1. \E u : Q(u, l)
    BY SumIs DEF Transposed
  <2> HIDE DEF Q
  <2> QED
    BY <2>1
<1> HIDE DEF r, c, H
<1>3. ASSUME NEW l \in 1..m
      PROVE  /\ H[l] \in [0..m -> Fractions] /\ H[l][0] = Zero /\ c[l] = H[l][m]
             /\ \A k \in 1..m : H[l][k] = Matrix!Plus(H[l][k - 1], f[k][l])
  BY <1>1, <1>2 DEF IsSumUpTo, Transposed
<1> HIDE DEF Q
<1>4. PICK g : IsSumUpTo(g, r, m) /\ Matrix!SumOf(r, m) = g[m]
  BY <1>1, SumIs
<1>5. /\ g \in [0..m -> Fractions] /\ g[0] = Zero
      /\ \A k \in 1..m : g[k] = Matrix!Plus(g[k - 1], r[k])
  BY <1>4 DEF IsSumUpTo
<1> DEFINE K(p) == [l \in 1..m |-> H[l][p]]
           S == {p \in 0..m : g[p] = Matrix!SumOf(K(p), m)}
<1>6. ASSUME NEW p \in 0..m
      PROVE  K(p) \in [1..m -> Fractions] /\ \A l \in 1..m : K(p)[l] = H[l][p]
  BY <1>3
<1> HIDE DEF K
<1>7. 0 \in S
  <2>1. 0 \in 0..m
    OBVIOUS
  <2>2. Matrix!SumOf(K(0), m) = Zero
    BY <1>3, <1>6, <2>1, SumZero
  <2> QED
    BY <1>5, <2>1, <2>2
<1>8. ASSUME NEW p \in 1..m, p - 1 \in S PROVE p \in S
  <2>1. p \in 0..m /\ p - 1 \in 0..m /\ g[p - 1] = Matrix!SumOf(K(p - 1), m)
    BY <1>8
  <2>2. \A l \in 1..m : K(p)[l] = Matrix!Plus(K(p - 1)[l], f[p][l])
    BY <1>3, <1>6, <2>1
  <2>3. /\ K(p) \in [1..m -> Fractions] /\ K(p - 1) \in [1..m -> Fractions]
        /\ f[p] \in [1..m -> Fractions]
    BY <1>6, <2>1 DEF Transposed
  <2>4. Matrix!SumOf(K(p), m) =
            Matrix!Plus(Matrix!SumOf(K(p - 1), m), Matrix!SumOf(f[p], m))
    BY <2>2, <2>3, SumPlus
  <2> QED
    BY <1>1, <1>5, <2>1, <2>4
<1> HIDE DEF S
<1>9. \A p \in 0..m : p \in S
  BY <1>7, <1>8, BoundedInduction
<1>10. m \in 0..m
  OBVIOUS
<1>11. g[m] = Matrix!SumOf(K(m), m)
  BY <1>9, <1>10 DEF S
<1>12. K(m) = c
  <2>1. K(m) \in [1..m -> Fractions] /\ \A l \in 1..m : K(m)[l] = c[l]
    BY <1>3, <1>6, <1>10
  <2> QED
    BY <1>1, <2>1
<1>13. Matrix!SumOf(r, m) = Matrix!SumOf(c, m)
  BY <1>4, <1>11, <1>12
<1> QED
  BY <1>13 DEF r, c, Total
-----------------------------------------------------------------------------
(***************************************************************************)
(* matrix_det.cpp: the signs of an expansion                               *)
(***************************************************************************)
LEMMA SameCardinality == \A S : Matrix!Cardinality(S) = Cardinality(S)
BY DEF Matrix!Cardinality, Cardinality

LEMMA SignedLaws ==
    ASSUME NEW C, NEW k, NEW x \in Fractions
    PROVE  /\ Matrix!Signed(C, k, x) \in Fractions
           /\ Matrix!Signed(C, k, Matrix!Neg(x)) = Matrix!Neg(Matrix!Signed(C, k, x))
           /\ Matrix!Signed(C, k, Zero) = Zero
           /\ \A y \in Fractions :
                 /\ Matrix!Signed(C, k, Matrix!Plus(x, y)) =
                        Matrix!Plus(Matrix!Signed(C, k, x), Matrix!Signed(C, k, y))
                 /\ Matrix!Signed(C, k, Matrix!Times(y, x)) =
                        Matrix!Times(y, Matrix!Signed(C, k, x))
<1> DEFINE even == Matrix!Cardinality({l \in C : l < k}) % 2 = 0
<1>1. \A y : Matrix!Signed(C, k, y) = IF even THEN y ELSE Matrix!Neg(y)
  BY DEF Matrix!Signed
<1> HIDE DEF even
<1> QED
  BY <1>1, NegType, NegZero, NegPlus, TimesNeg

\* The place of a column among the others, without the column l.
LEMMA SignWithout ==
    ASSUME NEW C \in SUBSET Int, IsFiniteSet(C), NEW k \in C, NEW l \in C, k # l,
           NEW x \in Fractions
    PROVE  Matrix!Signed(C \ {l}, k, x) =
               IF k < l THEN Matrix!Signed(C, k, x) ELSE Matrix!Neg(Matrix!Signed(C, k, x))
<1> DEFINE S == {j \in C : j < k}
           T == {j \in C \ {l} : j < k}
<1>1. k \in Int /\ l \in Int
  OBVIOUS
<1>2. IsFiniteSet(S)
  <2>1. S \subseteq C
    OBVIOUS
  <2> QED
    BY <2>1, FS_Subset
<1>3. T = S \ {l}
  OBVIOUS
<1>4. /\ \A y : Matrix!Signed(C, k, y) = IF Cardinality(S) % 2 = 0 THEN y ELSE Matrix!Neg(y)
      /\ \A y : Matrix!Signed(C \ {l}, k, y) =
                    IF Cardinality(T) % 2 = 0 THEN y ELSE Matrix!Neg(y)
  BY SameCardinality DEF Matrix!Signed
<1>5. CASE k < l
  <2>1. S \ {l} = S
    BY <1>1, <1>5
  <2> QED
    BY <1>3, <1>4, <1>5, <2>1
<1>6. CASE ~(k < l)
  <2>1. l \in S
    BY <1>1, <1>6
  <2>2. Cardinality(T) = Cardinality(S) - 1 /\ Cardinality(S) \in Nat /\ Cardinality(T) \in Nat
    <3>1. Cardinality(S) \in Nat /\ Cardinality(S \ {l}) = Cardinality(S) - 1
      BY <1>2, <2>1, FS_RemoveElement, FS_CardinalityType
    <3>2. IsFiniteSet(S \ {l})
      BY <1>2, FS_RemoveElement
    <3>3. Cardinality(S \ {l}) \in Nat
      BY <3>2, FS_CardinalityType
    <3> QED
      BY <1>3, <3>1, <3>3
  <2> HIDE DEF S, T
  <2>3. Cardinality(T) % 2 = 0 <=> ~(Cardinality(S) % 2 = 0)
    BY <2>2
  <2> QED
    BY <1>4, <1>6, <2>3, NegNeg
<1> QED
  BY <1>5, <1>6

\* Two columns taken out one after the other, in either order.
LEMMA TwoSigns ==
    ASSUME NEW C \in SUBSET Int, IsFiniteSet(C), NEW k \in C, NEW l \in C, k # l,
           NEW x \in Fractions
    PROVE  Matrix!Signed(C, k, Matrix!Signed(C \ {k}, l, x)) =
               Matrix!Neg(Matrix!Signed(C, l, Matrix!Signed(C \ {l}, k, x)))
<1> DEFINE kl == Matrix!Signed(C, k, Matrix!Signed(C, l, x))
           lk == Matrix!Signed(C, l, Matrix!Signed(C, k, x))
<1>1. kl = lk /\ kl \in Fractions
  <2>1. kl = lk
    BY NegNeg DEF Matrix!Signed
  <2> QED
    BY <2>1, SignedLaws
<1>2. /\ Matrix!Signed(C, l, x) \in Fractions /\ Matrix!Signed(C, k, x) \in Fractions
      /\ Matrix!Signed(C, k, Matrix!Neg(Matrix!Signed(C, l, x))) = Matrix!Neg(kl)
      /\ Matrix!Signed(C, l, Matrix!Neg(Matrix!Signed(C, k, x))) = Matrix!Neg(lk)
  BY SignedLaws
<1>3. k \in Int /\ l \in Int
  OBVIOUS
<1>4. /\ Matrix!Signed(C \ {k}, l, x) =
            IF l < k THEN Matrix!Signed(C, l, x) ELSE Matrix!Neg(Matrix!Signed(C, l, x))
      /\ Matrix!Signed(C \ {l}, k, x) =
            IF k < l THEN Matrix!Signed(C, k, x) ELSE Matrix!Neg(Matrix!Signed(C, k, x))
  BY SignWithout
<1>5. CASE k < l
  <2>1. ~(l < k)
    BY <1>3, <1>5
  <2> HIDE DEF kl, lk
  <2>2. Matrix!Signed(C, k, Matrix!Signed(C \ {k}, l, x)) = Matrix!Neg(kl)
    BY <1>2, <1>4, <2>1
  <2>3. Matrix!Signed(C, l, Matrix!Signed(C \ {l}, k, x)) = lk
    BY <1>4, <1>5 DEF lk
  <2> QED
    BY <1>1, <2>2, <2>3
<1>6. CASE ~(k < l)
  <2>1. l < k
    BY <1>3, <1>6
  <2> HIDE DEF kl, lk
  <2>2. Matrix!Signed(C, k, Matrix!Signed(C \ {k}, l, x)) = kl
    BY <1>4, <2>1 DEF kl
  <2>3. Matrix!Signed(C, l, Matrix!Signed(C \ {l}, k, x)) = Matrix!Neg(lk)
    BY <1>2, <1>4, <1>6
  <2> QED
    BY <1>1, <2>2, <2>3, NegNeg
<1> QED
  BY <1>5, <1>6
-----------------------------------------------------------------------------
(***************************************************************************)
(* matrix_det.cpp: the minors of a matrix of N rows and columns            *)
(***************************************************************************)
Square(N) == [1..N -> [1..N -> Fractions]]

\* The minors of the last d rows, by their columns.
Columns(N) == [SUBSET (1..N) -> Fractions]
Minor(m, d) == Matrix!Minors(m)[d]

\* The terms of the expansion along a row, over minors g of the rows below.
Expanded(row, C, g, N) ==
    [k \in 1..N |-> IF k \notin C THEN Zero
                    ELSE Matrix!Signed(C, k, Matrix!Times(row[k], g[C \ {k}]))]

LEMMA ExpandedType ==
    ASSUME NEW N \in Nat, NEW row \in [1..N -> Fractions], NEW C \in SUBSET (1..N),
           NEW g \in Columns(N)
    PROVE  Expanded(row, C, g, N) \in [1..N -> Fractions]
<1>1. ASSUME NEW k \in 1..N
      PROVE  Matrix!Signed(C, k, Matrix!Times(row[k], g[C \ {k}])) \in Fractions
  <2>1. row[k] \in Fractions /\ g[C \ {k}] \in Fractions
    BY DEF Columns
  <2> QED
    BY <2>1, TimesType, SignedLaws
<1> QED
  BY <1>1, ZeroOne DEF Expanded

LEMMA SquareLen ==
    ASSUME NEW N \in Nat, NEW m \in Square(N)
    PROVE  Len(m) = N
<1>1. m \in Seq([1..N -> Fractions]) /\ DOMAIN m = 1..N
  BY DEF Square
<1>2. Len(m) \in Nat /\ DOMAIN m = 1..Len(m)
  BY <1>1
<1> QED
  BY <1>1, <1>2

LEMMA MinorIs ==
    ASSUME NEW N \in Nat, NEW m \in Square(N)
    PROVE  /\ \A d \in 0..N : Minor(m, d) \in Columns(N)
           /\ \A C \in SUBSET (1..N) : Minor(m, 0)[C] = IF C = {} THEN One ELSE Zero
           /\ \A d \in 1..N, C \in SUBSET (1..N) :
                 Minor(m, d)[C] =
                     Matrix!SumOf(Expanded(m[N - d + 1], C, Minor(m, d - 1), N), N)
<1> DEFINE base == [C \in SUBSET (1..N) |-> IF C = {} THEN One ELSE Zero]
           step(d, g) == [C \in SUBSET (1..N) |->
                             Matrix!SumOf(Expanded(m[N - d + 1], C, g, N), N)]
           body(g, d) ==
               [C \in SUBSET (1..N) |->
                   IF d = 0 THEN IF C = {} THEN Matrix!Frac(1) ELSE Matrix!Frac(0)
                   ELSE Matrix!SumOf([k \in 1..N |->
                           IF k \notin C THEN Matrix!Frac(0)
                           ELSE Matrix!Signed(C, k,
                                    Matrix!Times(m[N - d + 1][k], g[d - 1][C \ {k}]))], N)]
           next(g, d) == IF d = 0 THEN base ELSE step(d, g[d - 1])
           P(g) == g = [d \in 0..N |-> body(g, d)]
           R(g) == g = [d \in 0..N |-> next(g, d)]
           F == [d \in 1..N |-> [g \in Columns(N) |-> step(d, g)]]
<1>1. base \in Columns(N) /\ base = [C \in SUBSET (1..N) |-> IF C = {} THEN One ELSE Zero]
  BY ZeroOne DEF Columns
<1>2. ASSUME NEW d \in 1..N, NEW g \in Columns(N)
      PROVE  /\ step(d, g) \in Columns(N)
             /\ \A C \in SUBSET (1..N) :
                    step(d, g)[C] = Matrix!SumOf(Expanded(m[N - d + 1], C, g, N), N)
  <2>1. m[N - d + 1] \in [1..N -> Fractions]
    BY DEF Square
  <2>2. \A C \in SUBSET (1..N) : Matrix!SumOf(Expanded(m[N - d + 1], C, g, N), N) \in Fractions
    BY <2>1, ExpandedType, SumType
  <2> QED
    BY <2>2 DEF Columns
<1>3. \A g : P(g) <=> R(g)
  <2>1. ASSUME NEW g, NEW d \in 0..N PROVE body(g, d) = next(g, d)
    <3>1. CASE d = 0
      BY <3>1 DEF Zero, One
    <3>2. CASE d # 0
      BY <3>2 DEF Zero, Expanded
    <3> QED
      BY <3>1, <3>2
  <2> HIDE DEF body, next
  <2> QED
    BY <2>1
<1>4. Matrix!Minors(m) = CHOOSE g : P(g)
  <2>1. Len(m) = N
    BY SquareLen
  <2> QED
    BY <2>1 DEF Matrix!Minors
<1> HIDE DEF P
<1>5. F \in [1..N -> [Columns(N) -> Columns(N)]]
      /\ \A d \in 1..N, g \in Columns(N) : F[d][g] = step(d, g)
  BY <1>2
<1> HIDE DEF F, base, step
<1>6. PICK h : IsRecursion(h, N, Columns(N), base, F)
  BY <1>1, <1>5, RecursionExists
<1>7. R(h)
  <2>1. ASSUME NEW d \in 0..N PROVE h[d] = IF d = 0 THEN base ELSE step(d, h[d - 1])
    <3>1. d # 0 => d \in 1..N /\ d - 1 \in 0..N
      OBVIOUS
    <3> QED
      BY <1>5, <1>6, <3>1 DEF IsRecursion
  <2>2. h = [d \in 0..N |-> h[d]]
    BY <1>6 DEF IsRecursion
  <2> QED
    BY <2>1, <2>2
<1>8. P(h)
  BY <1>3, <1>7
<1>9. P(Matrix!Minors(m))
  BY <1>4, <1>8
<1> DEFINE M == Matrix!Minors(m)
<1>10. R(M)
  BY <1>3, <1>9
<1> HIDE DEF M
<1>11. M[0] = base /\ \A d \in 1..N : M[d] = step(d, M[d - 1])
  BY <1>10
<1> HIDE DEF R
<1> DEFINE S == {d \in 0..N : M[d] \in Columns(N)}
<1>12. 0 \in S
  BY <1>1, <1>11
<1>13. ASSUME NEW d \in 1..N, d - 1 \in S PROVE d \in S
  BY <1>2, <1>11, <1>13
<1> HIDE DEF S
<1>14. \A d \in 0..N : d \in S
  BY <1>12, <1>13, BoundedInduction
<1>15. \A d \in 0..N : M[d] \in Columns(N)
  BY <1>14 DEF S
<1>16. \A d \in 1..N : d - 1 \in 0..N
  OBVIOUS
<1>17. \A C \in SUBSET (1..N) : M[0][C] = IF C = {} THEN One ELSE Zero
  BY <1>1, <1>11
<1>18. \A d \in 1..N, C \in SUBSET (1..N) :
          M[d][C] = Matrix!SumOf(Expanded(m[N - d + 1], C, M[d - 1], N), N)
  BY <1>2, <1>11, <1>15, <1>16
<1> QED
  BY <1>15, <1>17, <1>18 DEF M, Minor

LEMMA MinorType ==
    ASSUME NEW N \in Nat, NEW m \in Square(N), NEW d \in 0..N, NEW C \in SUBSET (1..N)
    PROVE  Minor(m, d)[C] \in Fractions
<1>1. Minor(m, d) \in Columns(N)
  BY MinorIs
<1> QED
  BY <1>1 DEF Columns

\* A minor depends on its rows and columns alone.
LEMMA MinorDepends ==
    ASSUME NEW N \in Nat, NEW m \in Square(N), NEW w \in Square(N), NEW D \in 0..N,
           NEW B \in SUBSET (1..N), \A r \in (N - D + 1)..N, k \in B : m[r][k] = w[r][k]
    PROVE  \A d \in 0..D : \A C \in SUBSET B : Minor(m, d)[C] = Minor(w, d)[C]
<1> DEFINE S == {d \in 0..D : \A C \in SUBSET B : Minor(m, d)[C] = Minor(w, d)[C]}
<1>1. 0 \in S
  BY MinorIs
<1>2. ASSUME NEW d \in 1..D, d - 1 \in S PROVE d \in S
  <2>1. /\ d \in 0..D /\ d \in 1..N /\ N - d + 1 \in (N - D + 1)..N
        /\ \A C \in SUBSET B : Minor(m, d - 1)[C] = Minor(w, d - 1)[C]
    BY <1>2
  <2> SUFFICES ASSUME NEW C \in SUBSET B PROVE Minor(m, d)[C] = Minor(w, d)[C]
    BY <2>1
  <2>2. \A k \in C : /\ m[N - d + 1][k] = w[N - d + 1][k]
                     /\ Minor(m, d - 1)[C \ {k}] = Minor(w, d - 1)[C \ {k}]
    BY <2>1
  <2>3. Expanded(m[N - d + 1], C, Minor(m, d - 1), N) =
            Expanded(w[N - d + 1], C, Minor(w, d - 1), N)
    BY <2>2 DEF Expanded
  <2>4. C \in SUBSET (1..N)
    OBVIOUS
  <2> QED
    BY <2>1, <2>3, <2>4, MinorIs
<1> HIDE DEF S
<1>3. D \in Nat
  OBVIOUS
<1>4. \A d \in 0..D : d \in S
  BY <1>1, <1>2, <1>3, BoundedInduction
<1> QED
  BY <1>4 DEF S

\* s is f plus x times h.
Combined(s, f, x, h, m) ==
    /\ s \in [1..m -> Fractions] /\ f \in [1..m -> Fractions] /\ h \in [1..m -> Fractions]
    /\ \A k \in 1..m : s[k] = Matrix!Plus(f[k], Matrix!Times(x, h[k]))

LEMMA SumLinear ==
    ASSUME NEW m \in Nat, NEW x \in Fractions, NEW f, NEW h, NEW s,
           Combined(s, f, x, h, m)
    PROVE  Matrix!SumOf(s, m) =
               Matrix!Plus(Matrix!SumOf(f, m), Matrix!Times(x, Matrix!SumOf(h, m)))
<1> USE DEF Combined
<1> DEFINE p == [k \in 1..m |-> Matrix!Times(x, h[k])]
<1>1. p \in [1..m -> Fractions] /\ \A k \in 1..m : p[k] = Matrix!Times(x, h[k])
  BY TimesType
<1> HIDE DEF p
<1>2. Matrix!SumOf(p, m) = Matrix!Times(x, Matrix!SumOf(h, m))
  BY <1>1, SumTimes
<1>3. \A k \in 1..m : s[k] = Matrix!Plus(f[k], p[k])
  BY <1>1
<1>4. Matrix!SumOf(s, m) = Matrix!Plus(Matrix!SumOf(f, m), Matrix!SumOf(p, m))
  BY <1>1, <1>3, SumPlus
<1> QED
  BY <1>2, <1>4

LEMMA TermLinear ==
    ASSUME NEW C, NEW k, NEW x \in Fractions, NEW u \in Fractions, NEW y \in Fractions,
           NEW z \in Fractions
    PROVE  /\ Matrix!Signed(C, k, Matrix!Times(x, Matrix!Plus(y, Matrix!Times(u, z)))) =
                  Matrix!Plus(Matrix!Signed(C, k, Matrix!Times(x, y)),
                              Matrix!Times(u, Matrix!Signed(C, k, Matrix!Times(x, z))))
           /\ Matrix!Signed(C, k, Matrix!Times(Matrix!Plus(y, Matrix!Times(u, z)), x)) =
                  Matrix!Plus(Matrix!Signed(C, k, Matrix!Times(y, x)),
                              Matrix!Times(u, Matrix!Signed(C, k, Matrix!Times(z, x))))
<1> DEFINE uz == Matrix!Times(u, z)
           xz == Matrix!Times(x, z)
           xy == Matrix!Times(x, y)
           s == Matrix!Plus(y, uz)
<1>1. uz \in Fractions /\ xz \in Fractions /\ xy \in Fractions /\ s \in Fractions
  BY TimesType, PlusType
<1>2. Matrix!Times(x, uz) = Matrix!Times(u, xz)
  <2>1. Matrix!Times(x, uz) = Matrix!Times(Matrix!Times(x, u), z)
    BY TimesAssociates
  <2>2. Matrix!Times(u, xz) = Matrix!Times(Matrix!Times(u, x), z)
    BY TimesAssociates
  <2>3. Matrix!Times(u, x) = Matrix!Times(x, u)
    BY TimesCommutes
  <2> QED
    BY <2>1, <2>2, <2>3
<1>3. Matrix!Times(z, x) = xz /\ Matrix!Times(y, x) = xy
  BY TimesCommutes
<1>4. Matrix!Times(u, xz) \in Fractions
  BY <1>1, TimesType
<1> HIDE DEF uz, xz
<1>5. Matrix!Times(x, s) = Matrix!Plus(xy, Matrix!Times(u, xz))
  <2>1. Matrix!Times(x, Matrix!Plus(y, uz)) = Matrix!Plus(xy, Matrix!Times(x, uz))
    BY <1>1, Distributes
  <2> QED
    BY <1>2, <2>1
<1>6. Matrix!Times(s, x) = Matrix!Times(x, s)
  BY <1>1, TimesCommutes
<1> HIDE DEF xy, s
<1>7. Matrix!Signed(C, k, Matrix!Plus(xy, Matrix!Times(u, xz))) =
          Matrix!Plus(Matrix!Signed(C, k, xy), Matrix!Signed(C, k, Matrix!Times(u, xz)))
  BY <1>1, <1>4, SignedLaws
<1>8. Matrix!Signed(C, k, Matrix!Times(u, xz)) = Matrix!Times(u, Matrix!Signed(C, k, xz))
  BY <1>1, SignedLaws
<1>9. /\ Matrix!Signed(C, k, Matrix!Times(x, s)) =
            Matrix!Plus(Matrix!Signed(C, k, xy), Matrix!Times(u, Matrix!Signed(C, k, xz)))
      /\ Matrix!Signed(C, k, Matrix!Times(s, x)) =
            Matrix!Plus(Matrix!Signed(C, k, xy), Matrix!Times(u, Matrix!Signed(C, k, xz)))
  BY <1>5, <1>6, <1>7, <1>8
<1> QED
  BY <1>3, <1>9 DEF xy, s, uz, xz

\* Either the row or the minors of an expansion are the first plus x times the second.
Splits(C, x, row, row1, row2, g, g1, g2) ==
    \/ /\ row = row1 /\ row = row2
       /\ \A k \in C : g[C \ {k}] = Matrix!Plus(g1[C \ {k}], Matrix!Times(x, g2[C \ {k}]))
    \/ /\ \A k \in C : g[C \ {k}] = g1[C \ {k}] /\ g[C \ {k}] = g2[C \ {k}]
       /\ \A k \in C : row[k] = Matrix!Plus(row1[k], Matrix!Times(x, row2[k]))

\* An expansion is linear in its row and in its minors.
LEMMA ExpandedLinear ==
    ASSUME NEW N \in Nat, NEW x \in Fractions, NEW C \in SUBSET (1..N),
           NEW row \in [1..N -> Fractions], NEW row1 \in [1..N -> Fractions],
           NEW row2 \in [1..N -> Fractions],
           NEW g \in Columns(N), NEW g1 \in Columns(N), NEW g2 \in Columns(N),
           Splits(C, x, row, row1, row2, g, g1, g2)
    PROVE  Matrix!SumOf(Expanded(row, C, g, N), N) =
               Matrix!Plus(Matrix!SumOf(Expanded(row1, C, g1, N), N),
                           Matrix!Times(x, Matrix!SumOf(Expanded(row2, C, g2, N), N)))
<1> DEFINE s == Expanded(row, C, g, N)
           f == Expanded(row1, C, g1, N)
           h == Expanded(row2, C, g2, N)
<1>1. s \in [1..N -> Fractions] /\ f \in [1..N -> Fractions] /\ h \in [1..N -> Fractions]
  BY ExpandedType
<1>2. ASSUME NEW k \in 1..N PROVE s[k] = Matrix!Plus(f[k], Matrix!Times(x, h[k]))
  <2>1. CASE k \notin C
    <3>1. s[k] = Zero /\ f[k] = Zero /\ h[k] = Zero
      BY <2>1 DEF Expanded
    <3>2. Zero = Matrix!Plus(Zero, Matrix!Times(x, Zero))
      BY ZeroOne, TimesZero, PlusZero
    <3> QED
      BY <3>1, <3>2
  <2>2. CASE k \in C
    <3> DEFINE D == C \ {k}
    <3>1. D \in SUBSET (1..N)
      OBVIOUS
    <3>2. /\ s[k] = Matrix!Signed(C, k, Matrix!Times(row[k], g[D]))
          /\ f[k] = Matrix!Signed(C, k, Matrix!Times(row1[k], g1[D]))
          /\ h[k] = Matrix!Signed(C, k, Matrix!Times(row2[k], g2[D]))
      BY <2>2 DEF Expanded
    <3>3. \/ /\ row1[k] = row[k] /\ row2[k] = row[k]
             /\ g[D] = Matrix!Plus(g1[D], Matrix!Times(x, g2[D]))
          \/ /\ g1[D] = g[D] /\ g2[D] = g[D]
             /\ row[k] = Matrix!Plus(row1[k], Matrix!Times(x, row2[k]))
      BY <2>2 DEF Splits
    <3>4. /\ row[k] \in Fractions /\ row1[k] \in Fractions /\ row2[k] \in Fractions
          /\ g[D] \in Fractions /\ g1[D] \in Fractions /\ g2[D] \in Fractions
      BY <3>1 DEF Columns
    <3> HIDE DEF D, s, f, h
    <3>5. CASE /\ row1[k] = row[k] /\ row2[k] = row[k]
               /\ g[D] = Matrix!Plus(g1[D], Matrix!Times(x, g2[D]))
      <4>1. Matrix!Signed(C, k, Matrix!Times(row[k],
                              Matrix!Plus(g1[D], Matrix!Times(x, g2[D])))) =
                Matrix!Plus(Matrix!Signed(C, k, Matrix!Times(row[k], g1[D])),
                            Matrix!Times(x, Matrix!Signed(C, k, Matrix!Times(row[k], g2[D]))))
        BY <3>4, TermLinear
      <4> QED
        BY <3>2, <3>5, <4>1
    <3>6. CASE /\ g1[D] = g[D] /\ g2[D] = g[D]
               /\ row[k] = Matrix!Plus(row1[k], Matrix!Times(x, row2[k]))
      <4>1. Matrix!Signed(C, k, Matrix!Times(
                              Matrix!Plus(row1[k], Matrix!Times(x, row2[k])), g[D])) =
                Matrix!Plus(Matrix!Signed(C, k, Matrix!Times(row1[k], g[D])),
                            Matrix!Times(x, Matrix!Signed(C, k, Matrix!Times(row2[k], g[D]))))
        BY <3>4, TermLinear
      <4> QED
        BY <3>2, <3>6, <4>1
    <3> QED
      BY <3>3, <3>5, <3>6
  <2> QED
    BY <2>1, <2>2
<1> HIDE DEF s, f, h
<1>3. Combined(s, f, x, h, N)
  BY <1>1, <1>2 DEF Combined
<1>4. Matrix!SumOf(s, N) = Matrix!Plus(Matrix!SumOf(f, N), Matrix!Times(x, Matrix!SumOf(h, N)))
  BY <1>3, SumLinear
<1> QED
  BY <1>4 DEF s, f, h

\* Row r of m is the one of u plus x times the one of w; the other rows are the same.
RowSum(m, u, x, w, r, N) ==
    /\ m \in Square(N) /\ u \in Square(N) /\ w \in Square(N)
    /\ \A j \in 1..N : j # r => m[j] = u[j] /\ m[j] = w[j]
    /\ \A k \in 1..N : m[r][k] = Matrix!Plus(u[r][k], Matrix!Times(x, w[r][k]))

\* A minor is linear in each of its rows.
LEMMA MinorLinear ==
    ASSUME NEW N \in Nat, NEW m, NEW u, NEW w, NEW x \in Fractions, NEW r \in 1..N,
           RowSum(m, u, x, w, r, N)
    PROVE  \A d \in (N - r + 1)..N, C \in SUBSET (1..N) :
               Minor(m, d)[C] = Matrix!Plus(Minor(u, d)[C], Matrix!Times(x, Minor(w, d)[C]))
<1>0. /\ m \in Square(N) /\ u \in Square(N) /\ w \in Square(N)
      /\ \A j \in 1..N : j # r => m[j] = u[j] /\ m[j] = w[j]
      /\ \A k \in 1..N : m[r][k] = Matrix!Plus(u[r][k], Matrix!Times(x, w[r][k]))
  BY DEF RowSum
<1> DEFINE L(d) == \A C \in SUBSET (1..N) :
               Minor(m, d)[C] = Matrix!Plus(Minor(u, d)[C], Matrix!Times(x, Minor(w, d)[C]))
           S == {d \in 0..N : d >= N - r + 1 => L(d)}
<1>1. 0 \in S
  OBVIOUS
<1>2. ASSUME NEW d \in 1..N, d - 1 \in S PROVE d \in S
  <2> SUFFICES ASSUME d >= N - r + 1, NEW C \in SUBSET (1..N)
               PROVE  Minor(m, d)[C] =
                          Matrix!Plus(Minor(u, d)[C], Matrix!Times(x, Minor(w, d)[C]))
    OBVIOUS
  <2>1. N - d + 1 \in 1..N /\ d - 1 \in 0..N
    OBVIOUS
  <2>2. /\ m[N - d + 1] \in [1..N -> Fractions] /\ u[N - d + 1] \in [1..N -> Fractions]
        /\ w[N - d + 1] \in [1..N -> Fractions]
    BY <1>0, <2>1 DEF Square
  <2>3. /\ Minor(m, d - 1) \in Columns(N) /\ Minor(u, d - 1) \in Columns(N)
        /\ Minor(w, d - 1) \in Columns(N)
    BY <1>0, <2>1, MinorIs
  <2>4. \A k \in C : C \ {k} \in SUBSET (1..N)
    OBVIOUS
  <2> DEFINE M1 == Minor(m, d - 1)
             U1 == Minor(u, d - 1)
             W1 == Minor(w, d - 1)
             mr == m[N - d + 1]
             ur == u[N - d + 1]
             wr == w[N - d + 1]
  <2>5. Splits(C, x, mr, ur, wr, M1, U1, W1)
    <3>1. CASE d = N - r + 1
      <4>1. N - d + 1 = r /\ d - 1 = N - r
        BY <3>1
      <4> DEFINE D == N - r
      <4>2. D \in 0..N /\ D \in 0..D /\ 1..N \in SUBSET (1..N)
        OBVIOUS
      <4>3. \A j \in (N - D + 1)..N : m[j] = u[j] /\ m[j] = w[j]
        BY <1>0
      <4> HIDE DEF D
      <4>4. \A B \in SUBSET (1..N) : /\ Minor(m, D)[B] = Minor(u, D)[B]
                                     /\ Minor(m, D)[B] = Minor(w, D)[B]
        <5>1. \A j \in (N - D + 1)..N, k \in 1..N : m[j][k] = u[j][k] /\ m[j][k] = w[j][k]
          BY <4>3
        <5>2. \A B \in SUBSET (1..N) : Minor(m, D)[B] = Minor(u, D)[B]
          BY <1>0, <4>2, <5>1, MinorDepends
        <5>3. \A B \in SUBSET (1..N) : Minor(m, D)[B] = Minor(w, D)[B]
          BY <1>0, <4>2, <5>1, MinorDepends
        <5> QED
          BY <5>2, <5>3
      <4> QED
        BY <1>0, <2>4, <4>1, <4>4 DEF D, Splits
    <3>2. CASE d # N - r + 1
      <4>1. d - 1 >= N - r + 1 /\ N - d + 1 # r
        BY <3>2
      <4>2. L(d - 1)
        BY <1>2, <4>1
      <4> QED
        BY <1>0, <2>1, <2>4, <4>1, <4>2 DEF Splits
    <3> QED
      BY <3>1, <3>2
  <2>6. /\ Minor(m, d)[C] = Matrix!SumOf(Expanded(mr, C, M1, N), N)
        /\ Minor(u, d)[C] = Matrix!SumOf(Expanded(ur, C, U1, N), N)
        /\ Minor(w, d)[C] = Matrix!SumOf(Expanded(wr, C, W1, N), N)
    BY <1>0, MinorIs
  <2> HIDE DEF M1, U1, W1, mr, ur, wr
  <2>7. Matrix!SumOf(Expanded(mr, C, M1, N), N) =
            Matrix!Plus(Matrix!SumOf(Expanded(ur, C, U1, N), N),
                        Matrix!Times(x, Matrix!SumOf(Expanded(wr, C, W1, N), N)))
    <3>1. /\ mr \in [1..N -> Fractions] /\ ur \in [1..N -> Fractions]
          /\ wr \in [1..N -> Fractions]
          /\ M1 \in Columns(N) /\ U1 \in Columns(N) /\ W1 \in Columns(N)
      BY <2>2, <2>3 DEF M1, U1, W1, mr, ur, wr
    <3> QED
      BY <2>5, <3>1, ExpandedLinear
  <2> QED
    BY <2>6, <2>7
<1> HIDE DEF S
<1>3. \A d \in 0..N : d \in S
  BY <1>1, <1>2, BoundedInduction
<1>4. \A d \in (N - r + 1)..N : d \in 0..N /\ d >= N - r + 1
  OBVIOUS
<1>5. \A d \in (N - r + 1)..N : L(d)
  BY <1>3, <1>4 DEF S
<1> QED
  BY <1>5

\* A column of zeros among the columns of a minor.
LEMMA MinorZero ==
    ASSUME NEW N \in Nat, NEW m \in Square(N), NEW D \in 0..N, NEW c \in 1..N,
           \A r \in (N - D + 1)..N : m[r][c] = Zero
    PROVE  \A d \in 0..D : \A C \in SUBSET (1..N) : c \in C => Minor(m, d)[C] = Zero
<1> DEFINE S == {d \in 0..D : \A C \in SUBSET (1..N) : c \in C => Minor(m, d)[C] = Zero}
<1>1. 0 \in S
  <2>1. 0 \in 0..D
    OBVIOUS
  <2>2. \A C \in SUBSET (1..N) : c \in C => Minor(m, 0)[C] = Zero
    BY MinorIs
  <2> QED
    BY <2>1, <2>2
<1>2. ASSUME NEW d \in 1..D, d - 1 \in S PROVE d \in S
  <2>1. /\ d \in 0..D /\ d \in 1..N /\ d - 1 \in 0..N /\ N - d + 1 \in (N - D + 1)..N
        /\ N - d + 1 \in 1..N
        /\ \A C \in SUBSET (1..N) : c \in C => Minor(m, d - 1)[C] = Zero
    BY <1>2
  <2> SUFFICES ASSUME NEW C \in SUBSET (1..N), c \in C PROVE Minor(m, d)[C] = Zero
    BY <2>1
  <2> DEFINE s == Expanded(m[N - d + 1], C, Minor(m, d - 1), N)
  <2>2. m[N - d + 1] \in [1..N -> Fractions] /\ Minor(m, d - 1) \in Columns(N)
    BY <2>1, MinorIs DEF Square
  <2>3. s \in [1..N -> Fractions]
    BY <2>2, ExpandedType
  <2>4. ASSUME NEW k \in C
        PROVE  Matrix!Times(m[N - d + 1][k], Minor(m, d - 1)[C \ {k}]) = Zero
    <3>1. C \ {k} \in SUBSET (1..N) /\ k \in 1..N
      OBVIOUS
    <3>2. m[N - d + 1][k] \in Fractions /\ Minor(m, d - 1)[C \ {k}] \in Fractions
      BY <2>2, <3>1 DEF Columns
    <3>3. CASE k = c
      <4>1. m[N - d + 1][k] = Zero
        BY <2>1, <3>3
      <4> QED
        BY <3>2, <4>1, TimesZero
    <3>4. CASE k # c
      <4>1. Minor(m, d - 1)[C \ {k}] = Zero
        BY <2>1, <3>1, <3>4
      <4> QED
        BY <3>2, <4>1, TimesZero
    <3> QED
      BY <3>3, <3>4
  <2>5. ASSUME NEW k \in 1..N PROVE s[k] = Zero
    <3>1. s[k] = IF k \notin C THEN Zero
                 ELSE Matrix!Signed(C, k, Matrix!Times(m[N - d + 1][k],
                                                       Minor(m, d - 1)[C \ {k}]))
      BY DEF Expanded
    <3>2. Matrix!Signed(C, k, Zero) = Zero
      BY ZeroOne, SignedLaws
    <3> QED
      BY <2>4, <3>1, <3>2
  <2>6. Minor(m, d)[C] = Matrix!SumOf(s, N)
    BY <2>1, MinorIs
  <2> HIDE DEF s
  <2> QED
    BY <2>3, <2>5, <2>6, SumZero
<1> HIDE DEF S
<1>3. D \in Nat
  OBVIOUS
<1>4. \A d \in 0..D : d \in S
  BY <1>1, <1>2, <1>3, BoundedInduction
<1> QED
  BY <1>4 DEF S

LEMMA SignedTimes ==
    ASSUME NEW C, NEW k, NEW x \in Fractions, NEW y \in Fractions
    PROVE  Matrix!Signed(C, k, Matrix!Times(x, y)) = Matrix!Times(Matrix!Signed(C, k, x), y)
<1>1. Matrix!Times(x, y) = Matrix!Times(y, x)
  BY TimesCommutes
<1>2. Matrix!Signed(C, k, Matrix!Times(y, x)) = Matrix!Times(y, Matrix!Signed(C, k, x))
  BY SignedLaws
<1>3. Matrix!Signed(C, k, x) \in Fractions
  BY SignedLaws
<1>4. Matrix!Times(y, Matrix!Signed(C, k, x)) = Matrix!Times(Matrix!Signed(C, k, x), y)
  BY <1>3, TimesCommutes
<1> QED
  BY <1>1, <1>2, <1>4

\* The terms of an expansion along two rows x and y.
Pair(x, y, C, g, k, l) ==
    IF k \in C /\ l \in C \ {k}
    THEN Matrix!Signed(C, k, Matrix!Times(x[k],
             Matrix!Signed(C \ {k}, l, Matrix!Times(y[l], g[(C \ {k}) \ {l}]))))
    ELSE Zero

Pairs(x, y, C, g, N) == [k \in 1..N |-> [l \in 1..N |-> Pair(x, y, C, g, k, l)]]

LEMMA PairType ==
    ASSUME NEW N \in Nat, NEW x \in [1..N -> Fractions], NEW y \in [1..N -> Fractions],
           NEW C \in SUBSET (1..N), NEW g \in Columns(N), NEW k \in 1..N, NEW l \in 1..N
    PROVE  Pair(x, y, C, g, k, l) \in Fractions
<1> DEFINE q == g[(C \ {k}) \ {l}]
           v == Matrix!Times(y[l], q)
           s == Matrix!Signed(C \ {k}, l, v)
<1>1. q \in Fractions /\ x[k] \in Fractions /\ y[l] \in Fractions
  <2>1. (C \ {k}) \ {l} \in SUBSET (1..N)
    OBVIOUS
  <2> QED
    BY <2>1 DEF Columns
<1>2. v \in Fractions
  BY <1>1, TimesType
<1> HIDE DEF v
<1>3. s \in Fractions
  BY <1>2, SignedLaws
<1> HIDE DEF s
<1>4. Matrix!Times(x[k], s) \in Fractions
  BY <1>1, <1>3, TimesType
<1>5. Matrix!Signed(C, k, Matrix!Times(x[k], s)) \in Fractions
  BY <1>4, SignedLaws
<1> QED
  BY <1>5, ZeroOne DEF Pair, s, v

LEMMA PairsType ==
    ASSUME NEW N \in Nat, NEW x \in [1..N -> Fractions], NEW y \in [1..N -> Fractions],
           NEW C \in SUBSET (1..N), NEW g \in Columns(N)
    PROVE  /\ Pairs(x, y, C, g, N) \in [1..N -> [1..N -> Fractions]]
           /\ \A k \in 1..N, l \in 1..N : Pairs(x, y, C, g, N)[k][l] = Pair(x, y, C, g, k, l)
BY PairType DEF Pairs

\* h are the expansions along y.
Opened(h, y, C, g, N) ==
    \A k \in C : h[C \ {k}] = Matrix!SumOf(Expanded(y, C \ {k}, g, N), N)

\* The expansion along two rows is the sum over their pairs of columns.
LEMMA PairSum ==
    ASSUME NEW N \in Nat, NEW x \in [1..N -> Fractions], NEW y \in [1..N -> Fractions],
           NEW C \in SUBSET (1..N), NEW g \in Columns(N), NEW h \in Columns(N),
           Opened(h, y, C, g, N)
    PROVE  Matrix!SumOf(Expanded(x, C, h, N), N) = Total(Pairs(x, y, C, g, N), N)
<1> DEFINE P == Pairs(x, y, C, g, N)
<1>1. /\ P \in [1..N -> [1..N -> Fractions]]
      /\ \A k \in 1..N, l \in 1..N : P[k][l] = Pair(x, y, C, g, k, l)
  BY PairsType
<1> HIDE DEF P
<1>2. ASSUME NEW k \in 1..N
      PROVE  Matrix!SumOf(P[k], N) =
                 IF k \notin C THEN Zero
                 ELSE Matrix!Signed(C, k, Matrix!Times(x[k], h[C \ {k}]))
  <2>1. P[k] \in [1..N -> Fractions]
    BY <1>1
  <2>2. CASE k \notin C
    <3>1. \A l \in 1..N : P[k][l] = Zero
      BY <1>1, <2>2 DEF Pair
    <3> QED
      BY <2>1, <2>2, <3>1, SumZero
  <2>3. CASE k \in C
    <3> DEFINE D == C \ {k}
               f == Expanded(y, D, g, N)
               v == Matrix!Signed(C, k, x[k])
               s == P[k]
    <3>1. D \in SUBSET (1..N) /\ x[k] \in Fractions
      OBVIOUS
    <3>2. f \in [1..N -> Fractions] /\ v \in Fractions
      BY <3>1, ExpandedType, SignedLaws
    <3>3. ASSUME NEW l \in 1..N PROVE s[l] = Matrix!Times(v, f[l])
      <4>1. CASE l \notin D
        <5>1. s[l] = Zero /\ f[l] = Zero
          BY <1>1, <4>1 DEF Pair, Expanded
        <5> QED
          BY <3>2, <5>1, TimesZero
      <4>2. CASE l \in D
        <5>1. f[l] = Matrix!Signed(D, l, Matrix!Times(y[l], g[D \ {l}]))
          BY <4>2 DEF Expanded
        <5>2. s[l] = Matrix!Signed(C, k, Matrix!Times(x[k], f[l]))
          BY <1>1, <2>3, <4>2, <5>1 DEF Pair
        <5>3. f[l] \in Fractions
          BY <3>2
        <5> HIDE DEF f, s
        <5> QED
          BY <3>1, <5>2, <5>3, SignedTimes
      <4> QED
        BY <4>1, <4>2
    <3>4. h[D] = Matrix!SumOf(f, N)
      BY <2>3 DEF Opened
    <3> HIDE DEF D, f, v, s
    <3>5. s \in [1..N -> Fractions]
      BY <2>1 DEF s
    <3>6. Matrix!SumOf(s, N) = Matrix!Times(v, Matrix!SumOf(f, N))
      BY <3>2, <3>3, <3>5, SumTimes
    <3>7. Matrix!SumOf(f, N) \in Fractions
      BY <3>2, SumType
    <3>8. Matrix!Signed(C, k, Matrix!Times(x[k], h[D])) = Matrix!Times(v, h[D])
      BY <3>1, <3>4, <3>7, SignedTimes DEF v
    <3> QED
      BY <2>3, <3>4, <3>6, <3>8 DEF s, D
  <2> QED
    BY <2>2, <2>3
<1>3. Expanded(x, C, h, N) = [k \in 1..N |-> Matrix!SumOf(P[k], N)]
  BY <1>2 DEF Expanded
<1> QED
  BY <1>3 DEF Total, P

\* The rows the other way round: the same term, negated.
LEMMA PairSwap ==
    ASSUME NEW N \in Nat, NEW x \in [1..N -> Fractions], NEW y \in [1..N -> Fractions],
           NEW C \in SUBSET (1..N), NEW g \in Columns(N), NEW k \in 1..N, NEW l \in 1..N
    PROVE  Pair(y, x, C, g, l, k) = Matrix!Neg(Pair(x, y, C, g, k, l))
<1>1. CASE ~(k \in C /\ l \in C \ {k})
  <2>1. Pair(y, x, C, g, l, k) = Zero /\ Pair(x, y, C, g, k, l) = Zero
    BY <1>1 DEF Pair
  <2> QED
    BY <2>1, NegZero
<1>2. CASE k \in C /\ l \in C \ {k}
  <2> DEFINE B == (C \ {k}) \ {l}
             q == g[B]
             xk == x[k]
             yl == y[l]
  <2>1. /\ B \in SUBSET (1..N) /\ B = (C \ {l}) \ {k} /\ k \in C /\ l \in C /\ k # l
        /\ xk \in Fractions /\ yl \in Fractions
    BY <1>2
  <2>2. q \in Fractions
    BY <2>1 DEF Columns
  <2>3. /\ Pair(x, y, C, g, k, l) = Matrix!Signed(C, k, Matrix!Times(xk,
                                       Matrix!Signed(C \ {k}, l, Matrix!Times(yl, q))))
        /\ Pair(y, x, C, g, l, k) = Matrix!Signed(C, l, Matrix!Times(yl,
                                       Matrix!Signed(C \ {l}, k, Matrix!Times(xk, q))))
    BY <1>2, <2>1 DEF Pair
  <2> HIDE DEF B, q, xk, yl
  <2> DEFINE yq == Matrix!Times(yl, q)
             xq == Matrix!Times(xk, q)
             z == Matrix!Times(xk, yq)
  <2>4. yq \in Fractions /\ xq \in Fractions
    BY <2>1, <2>2, TimesType
  <2>5. z \in Fractions
    BY <2>1, <2>4, TimesType
  <2>6. Matrix!Times(yl, xq) = z
    <3>1. Matrix!Times(yl, xq) = Matrix!Times(Matrix!Times(yl, xk), q)
      BY <2>1, <2>2, TimesAssociates
    <3>2. Matrix!Times(xk, yq) = Matrix!Times(Matrix!Times(xk, yl), q)
      BY <2>1, <2>2, TimesAssociates
    <3>3. Matrix!Times(xk, yl) = Matrix!Times(yl, xk)
      BY <2>1, TimesCommutes
    <3> QED
      BY <3>1, <3>2, <3>3
  <2> HIDE DEF yq, xq, z
  <2>7. Matrix!Times(xk, Matrix!Signed(C \ {k}, l, yq)) = Matrix!Signed(C \ {k}, l, z)
    BY <2>1, <2>4, SignedLaws DEF z
  <2>8. Matrix!Times(yl, Matrix!Signed(C \ {l}, k, xq)) = Matrix!Signed(C \ {l}, k, z)
    BY <2>1, <2>4, <2>6, SignedLaws
  <2>9. /\ Pair(x, y, C, g, k, l) = Matrix!Signed(C, k, Matrix!Signed(C \ {k}, l, z))
        /\ Pair(y, x, C, g, l, k) = Matrix!Signed(C, l, Matrix!Signed(C \ {l}, k, z))
    BY <2>3, <2>7, <2>8 DEF yq, xq
  <2>10. Matrix!Signed(C, l, Matrix!Signed(C \ {l}, k, z)) =
            Matrix!Neg(Matrix!Signed(C, k, Matrix!Signed(C \ {k}, l, z)))
    <3>1. k \in C /\ l \in C /\ l # k
      BY <2>1
    <3>2. C \in SUBSET Int /\ IsFiniteSet(C)
      <4>1. IsFiniteSet(1..N)
        BY FS_Interval
      <4>2. C \subseteq 1..N
        OBVIOUS
      <4>3. C \in SUBSET Int
        OBVIOUS
      <4> QED
        BY <4>1, <4>2, <4>3, FS_Subset
    <3> QED
      BY <2>5, <3>1, <3>2, TwoSigns
  <2> QED
    BY <2>9, <2>10
<1> QED
  BY <1>1, <1>2

\* Two rows expanded in either order.
LEMMA PairsNegate ==
    ASSUME NEW N \in Nat, NEW x \in [1..N -> Fractions], NEW y \in [1..N -> Fractions],
           NEW C \in SUBSET (1..N), NEW g \in Columns(N)
    PROVE  Total(Pairs(y, x, C, g, N), N) = Matrix!Neg(Total(Pairs(x, y, C, g, N), N))
<1> DEFINE F == Pairs(y, x, C, g, N)
           G == Pairs(x, y, C, g, N)
           h == [k \in 1..N |-> [l \in 1..N |-> F[l][k]]]
           gs == [k \in 1..N |-> Matrix!SumOf(G[k], N)]
           hs == [k \in 1..N |-> Matrix!SumOf(h[k], N)]
<1>1. F \in [1..N -> [1..N -> Fractions]] /\ G \in [1..N -> [1..N -> Fractions]]
  BY PairsType
<1>2. ASSUME NEW k \in 1..N, NEW l \in 1..N PROVE F[l][k] = Matrix!Neg(G[k][l])
  <2>1. F[l][k] = Pair(y, x, C, g, l, k) /\ G[k][l] = Pair(x, y, C, g, k, l)
    BY DEF Pairs
  <2> HIDE DEF F, G
  <2> QED
    BY <2>1, PairSwap
<1> HIDE DEF F, G
<1>3. /\ Transposed(h, F, N) /\ h \in [1..N -> [1..N -> Fractions]]
      /\ \A k \in 1..N, l \in 1..N : h[k][l] = Matrix!Neg(G[k][l])
  BY <1>1, <1>2 DEF Transposed
<1> HIDE DEF h
<1>4. Total(F, N) = Total(h, N)
  BY <1>3, SumOfSums
<1>5. /\ gs \in [1..N -> Fractions] /\ hs \in [1..N -> Fractions]
      /\ \A k \in 1..N : gs[k] = Matrix!SumOf(G[k], N) /\ hs[k] = Matrix!SumOf(h[k], N)
  <2>1. \A k \in 1..N : G[k] \in [1..N -> Fractions] /\ h[k] \in [1..N -> Fractions]
    BY <1>1, <1>3
  <2> QED
    BY <2>1, SumType
<1>6. ASSUME NEW k \in 1..N PROVE Matrix!SumOf(h[k], N) = Matrix!Neg(Matrix!SumOf(G[k], N))
  <2>1. G[k] \in [1..N -> Fractions] /\ h[k] \in [1..N -> Fractions]
    BY <1>1, <1>3
  <2>2. \A l \in 1..N : h[k][l] = Matrix!Neg(G[k][l])
    BY <1>3
  <2> QED
    BY <2>1, <2>2, SumNeg
<1>7. \A k \in 1..N : hs[k] = Matrix!Neg(gs[k])
  BY <1>5, <1>6
<1> HIDE DEF hs, gs
<1>8. Matrix!SumOf(hs, N) = Matrix!Neg(Matrix!SumOf(gs, N))
  BY <1>5, <1>7, SumNeg
<1>9. Total(h, N) = Matrix!Neg(Total(G, N))
  BY <1>8 DEF hs, gs, Total
<1> QED
  BY <1>4, <1>9 DEF F, G

Exchanged(m, r, s) == [m EXCEPT ![r] = m[s], ![s] = m[r]]

LEMMA ExchangedIs ==
    ASSUME NEW N \in Nat, NEW m \in Square(N), NEW r \in 1..N, NEW s \in 1..N
    PROVE  /\ Exchanged(m, r, s) \in Square(N)
           /\ Exchanged(m, r, s)[r] = m[s] /\ Exchanged(m, r, s)[s] = m[r]
           /\ \A j \in 1..N : j # r /\ j # s => Exchanged(m, r, s)[j] = m[j]
BY DEF Square, Exchanged

\* Two neighbouring rows exchanged negate the minors that have both.
LEMMA AdjacentRows ==
    ASSUME NEW N \in Nat, NEW m \in Square(N), NEW r \in 1..(N - 1)
    PROVE  \A d \in (N - r + 1)..N, C \in SUBSET (1..N) :
               Minor(Exchanged(m, r, r + 1), d)[C] = Matrix!Neg(Minor(m, d)[C])
<1> DEFINE w == Exchanged(m, r, r + 1)
           L(d) == \A C \in SUBSET (1..N) : Minor(w, d)[C] = Matrix!Neg(Minor(m, d)[C])
           S == {d \in 0..N : d >= N - r + 1 => L(d)}
<1>1. /\ w \in Square(N) /\ w[r] = m[r + 1] /\ w[r + 1] = m[r]
      /\ \A j \in 1..N : j # r /\ j # r + 1 => w[j] = m[j]
  <2>1. r \in 1..N /\ r + 1 \in 1..N
    OBVIOUS
  <2> QED
    BY <2>1, ExchangedIs
<1> HIDE DEF w
<1>2. 0 \in S
  OBVIOUS
<1>3. ASSUME NEW d \in 1..N, d - 1 \in S PROVE d \in S
  <2> SUFFICES ASSUME d >= N - r + 1, NEW C \in SUBSET (1..N)
               PROVE  Minor(w, d)[C] = Matrix!Neg(Minor(m, d)[C])
    OBVIOUS
  <2>1. N - d + 1 \in 1..N /\ d - 1 \in 0..N
    OBVIOUS
  <2>2. \A k \in C : C \ {k} \in SUBSET (1..N)
    OBVIOUS
  <2>3. /\ Minor(m, d)[C] =
               Matrix!SumOf(Expanded(m[N - d + 1], C, Minor(m, d - 1), N), N)
        /\ Minor(w, d)[C] =
               Matrix!SumOf(Expanded(w[N - d + 1], C, Minor(w, d - 1), N), N)
    BY <1>1, MinorIs
  <2>4. Minor(m, d - 1) \in Columns(N) /\ Minor(w, d - 1) \in Columns(N)
    BY <1>1, <2>1, MinorIs
  <2>5. CASE d = N - r + 1
    <3> DEFINE x == m[r]
               y == m[r + 1]
               e == d - 1
               g == Minor(m, e - 1)
               P == Pairs(x, y, C, g, N)
               Q == Pairs(y, x, C, g, N)
    <3>1. /\ N - d + 1 = r /\ e \in 1..N /\ e - 1 \in 0..N /\ N - e + 1 = r + 1
          /\ r \in 1..N /\ r + 1 \in 1..N /\ e - 1 = N - r - 1
      BY <2>5
    <3>2. x \in [1..N -> Fractions] /\ y \in [1..N -> Fractions]
      BY <3>1 DEF Square
    <3>3. g \in Columns(N)
      BY <3>1, MinorIs
    <3>4. \A B \in SUBSET (1..N) : Minor(w, e - 1)[B] = Minor(m, e - 1)[B]
      <4> DEFINE D == e - 1
      <4>1. \A j \in (N - D + 1)..N, k \in 1..N : w[j][k] = m[j][k]
        BY <1>1, <3>1
      <4>2. D \in 0..N /\ D \in 0..D /\ 1..N \in SUBSET (1..N)
        BY <3>1
      <4> HIDE DEF D
      <4>3. \A B \in SUBSET (1..N) : Minor(w, D)[B] = Minor(m, D)[B]
        BY <1>1, <4>1, <4>2, MinorDepends
      <4> QED
        BY <4>3 DEF D
    <3>5. Minor(w, e - 1) = g
      <4>1. Minor(w, e - 1) \in Columns(N)
        BY <1>1, <3>1, MinorIs
      <4> QED
        BY <3>3, <3>4, <4>1 DEF Columns
    <3>6. \A B \in SUBSET (1..N) :
             /\ Minor(m, e)[B] = Matrix!SumOf(Expanded(y, B, g, N), N)
             /\ Minor(w, e)[B] = Matrix!SumOf(Expanded(x, B, g, N), N)
      <4>1. \A B \in SUBSET (1..N) : 
             /\ Minor(m, e)[B] = Matrix!SumOf(Expanded(m[N - e + 1], B, Minor(m, e - 1), N), N)
             /\ Minor(w, e)[B] = Matrix!SumOf(Expanded(w[N - e + 1], B, Minor(w, e - 1), N), N)
        BY <1>1, <3>1, MinorIs
      <4> QED
        BY <1>1, <3>1, <3>5, <4>1
    <3> DEFINE me == Minor(m, e)
               we == Minor(w, e)
    <3>7. /\ Minor(m, d)[C] = Matrix!SumOf(Expanded(x, C, me, N), N)
          /\ Minor(w, d)[C] = Matrix!SumOf(Expanded(y, C, we, N), N)
      BY <1>1, <2>3, <3>1
    <3>8. me \in Columns(N) /\ we \in Columns(N)
      BY <2>4
    <3> HIDE DEF me, we, g, x, y, e
    <3>9. Matrix!SumOf(Expanded(x, C, me, N), N) = Total(P, N)
      <4>1. Opened(me, y, C, g, N)
        BY <2>2, <3>6 DEF me, Opened
      <4> QED
        BY <3>2, <3>3, <3>8, <4>1, PairSum
    <3>10. Matrix!SumOf(Expanded(y, C, we, N), N) = Total(Q, N)
      <4>1. Opened(we, x, C, g, N)
        BY <2>2, <3>6 DEF we, Opened
      <4> QED
        BY <3>2, <3>3, <3>8, <4>1, PairSum
    <3>11. Total(Q, N) = Matrix!Neg(Total(P, N))
      BY <3>2, <3>3, PairsNegate
    <3> HIDE DEF P, Q
    <3> QED
      BY <3>7, <3>9, <3>10, <3>11
  <2>6. CASE d # N - r + 1
    <3> DEFINE row == m[N - d + 1]
               g == Minor(m, d - 1)
               h == Minor(w, d - 1)
               f == Expanded(row, C, g, N)
               s == Expanded(row, C, h, N)
    <3>1. d - 1 >= N - r + 1 /\ N - d + 1 # r /\ N - d + 1 # r + 1
      BY <2>6
    <3>2. L(d - 1)
      BY <1>3, <3>1
    <3>3. w[N - d + 1] = row /\ row \in [1..N -> Fractions]
      BY <1>1, <2>1, <3>1 DEF Square
    <3>4. f \in [1..N -> Fractions] /\ s \in [1..N -> Fractions]
      BY <2>4, <3>3, ExpandedType
    <3>5. ASSUME NEW k \in 1..N PROVE s[k] = Matrix!Neg(f[k])
      <4>1. CASE k \notin C
        BY <4>1, NegZero DEF Expanded
      <4>2. CASE k \in C
        <5> DEFINE u == g[C \ {k}]
        <5>1. /\ f[k] = Matrix!Signed(C, k, Matrix!Times(row[k], u))
              /\ s[k] = Matrix!Signed(C, k, Matrix!Times(row[k], h[C \ {k}]))
          BY <4>2 DEF Expanded
        <5>2. h[C \ {k}] = Matrix!Neg(u)
          BY <2>2, <3>2, <4>2
        <5>3. u \in Fractions /\ row[k] \in Fractions
          BY <2>2, <2>4, <3>3, <4>2 DEF Columns
        <5> HIDE DEF f, s, u, h, row
        <5>4. Matrix!Times(row[k], Matrix!Neg(u)) = Matrix!Neg(Matrix!Times(row[k], u))
          BY <5>3, TimesNeg
        <5>5. Matrix!Times(row[k], u) \in Fractions
          BY <5>3, TimesType
        <5>6. Matrix!Signed(C, k, Matrix!Neg(Matrix!Times(row[k], u))) =
                  Matrix!Neg(Matrix!Signed(C, k, Matrix!Times(row[k], u)))
          BY <5>5, SignedLaws
        <5> QED
          BY <5>1, <5>2, <5>4, <5>6
      <4> QED
        BY <4>1, <4>2
    <3>6. Minor(m, d)[C] = Matrix!SumOf(f, N) /\ Minor(w, d)[C] = Matrix!SumOf(s, N)
      BY <2>3, <3>3
    <3> HIDE DEF f, s
    <3>7. Matrix!SumOf(s, N) = Matrix!Neg(Matrix!SumOf(f, N))
      BY <3>4, <3>5, SumNeg
    <3> QED
      BY <3>6, <3>7
  <2> QED
    BY <2>5, <2>6
<1> HIDE DEF S
<1>4. \A d \in 0..N : d \in S
  BY <1>2, <1>3, BoundedInduction
<1>5. \A d \in (N - r + 1)..N : d \in 0..N /\ d >= N - r + 1
  OBVIOUS
<1>6. \A d \in (N - r + 1)..N : L(d)
  BY <1>4, <1>5 DEF S
<1> QED
  BY <1>6 DEF w

\* Any two rows exchanged negate the minors that have both.
LEMMA ExchangedRows ==
    ASSUME NEW N \in Nat
    PROVE  \A m \in Square(N), r \in 1..N, s \in 1..N : r < s =>
               \A d \in (N - r + 1)..N, C \in SUBSET (1..N) :
                   Minor(Exchanged(m, r, s), d)[C] = Matrix!Neg(Minor(m, d)[C])
<1> DEFINE Negated(w, m, r) == \A d \in (N - r + 1)..N, C \in SUBSET (1..N) :
                                   Minor(w, d)[C] = Matrix!Neg(Minor(m, d)[C])
           S == {e \in 0..N : \A m \in Square(N), r \in 1..N :
                    e > 0 /\ r + e <= N => Negated(Exchanged(m, r, r + e), m, r)}
<1>1. 0 \in S
  OBVIOUS
<1>2. ASSUME NEW e \in 1..N, e - 1 \in S PROVE e \in S
  <2> SUFFICES ASSUME NEW m \in Square(N), NEW r \in 1..N, r + e <= N
               PROVE  Negated(Exchanged(m, r, r + e), m, r)
    OBVIOUS
  <2>1. CASE e = 1
    <3>1. r \in 1..(N - 1)
      BY <2>1
    <3> QED
      BY <2>1, <3>1, AdjacentRows
  <2>2. CASE e # 1
    <3> DEFINE m1 == Exchanged(m, r, r + 1)
               m2 == Exchanged(m1, r + 1, r + e)
               m3 == Exchanged(m2, r, r + 1)
               m4 == Exchanged(m, r, r + e)
    <3>1. /\ e - 1 > 0 /\ r + 1 \in 1..N /\ r + e \in 1..N /\ (r + 1) + (e - 1) = r + e
          /\ r + e # r /\ r + e # r + 1 /\ r + 1 # r /\ r \in 1..(N - 1) /\ r + e <= N
      BY <2>2
    <3>0. \A v \in Square(N) :
             /\ Exchanged(v, r, r + 1) \in Square(N)
             /\ Exchanged(v, r, r + 1)[r] = v[r + 1] /\ Exchanged(v, r, r + 1)[r + 1] = v[r]
             /\ \A j \in 1..N : j # r /\ j # r + 1 => Exchanged(v, r, r + 1)[j] = v[j]
      BY <3>1, ExchangedIs
    <3>2. /\ m1 \in Square(N) /\ m1[r] = m[r + 1] /\ m1[r + 1] = m[r]
          /\ \A j \in 1..N : j # r /\ j # r + 1 => m1[j] = m[j]
      BY <3>1, ExchangedIs
    <3>3. /\ m4 \in Square(N) /\ m4[r] = m[r + e] /\ m4[r + e] = m[r]
          /\ \A j \in 1..N : j # r /\ j # r + e => m4[j] = m[j]
      BY <3>1, ExchangedIs
    <3> HIDE DEF m1, m4
    <3>4. /\ m2 \in Square(N) /\ m2[r + 1] = m1[r + e] /\ m2[r + e] = m1[r + 1]
          /\ \A j \in 1..N : j # r + 1 /\ j # r + e => m2[j] = m1[j]
      BY <3>1, <3>2, ExchangedIs
    <3> HIDE DEF m2
    <3>5. /\ m3 \in Square(N) /\ m3[r] = m2[r + 1] /\ m3[r + 1] = m2[r]
          /\ \A j \in 1..N : j # r /\ j # r + 1 => m3[j] = m2[j]
      BY <3>0, <3>4
    <3> HIDE DEF m3
    <3>6. m3 = m4
      <4>1. ASSUME NEW j \in 1..N PROVE m3[j] = m4[j]
        BY <3>1, <3>2, <3>3, <3>4, <3>5
      <4> QED
        BY <3>3, <3>5, <4>1 DEF Square
    <3>7. Negated(m1, m, r)
      BY <3>1, AdjacentRows DEF m1
    <3>8. Negated(m2, m1, r + 1)
      <4>1. Negated(Exchanged(m1, r + 1, (r + 1) + (e - 1)), m1, r + 1)
        BY <1>2, <3>1, <3>2
      <4> QED
        BY <3>1, <4>1 DEF m2
    <3>9. Negated(m3, m2, r)
      BY <3>1, <3>4, AdjacentRows DEF m3
    <3>10. ASSUME NEW d \in (N - r + 1)..N, NEW C \in SUBSET (1..N)
           PROVE  Minor(m3, d)[C] = Matrix!Neg(Minor(m, d)[C])
      <4>1. d \in (N - (r + 1) + 1)..N /\ d \in 0..N
        OBVIOUS
      <4> DEFINE v == Minor(m, d)[C]
      <4>2. v \in Fractions
        BY <4>1, MinorType
      <4>3. Minor(m1, d)[C] = Matrix!Neg(v)
        BY <3>7
      <4>4. Minor(m2, d)[C] = Matrix!Neg(Matrix!Neg(v))
        BY <3>8, <4>1, <4>3
      <4>5. Minor(m3, d)[C] = Matrix!Neg(Matrix!Neg(Matrix!Neg(v)))
        BY <3>9, <4>4
      <4> HIDE DEF v
      <4>6. Minor(m3, d)[C] = Matrix!Neg(v)
        BY <4>2, <4>5, NegNeg
      <4> QED
        BY <4>6 DEF v
    <3> QED
      BY <3>6, <3>10 DEF m4
  <2> QED
    BY <2>1, <2>2
<1> HIDE DEF S
<1>3. \A e \in 0..N : e \in S
  BY <1>1, <1>2, BoundedInduction
<1> SUFFICES ASSUME NEW m \in Square(N), NEW r \in 1..N, NEW s \in 1..N, r < s
             PROVE  Negated(Exchanged(m, r, s), m, r)
  OBVIOUS
<1>4. s - r \in 0..N /\ s - r > 0 /\ r + (s - r) = s
  OBVIOUS
<1>5. Negated(Exchanged(m, r, r + (s - r)), m, r)
  BY <1>3, <1>4 DEF S
<1> QED
  BY <1>4, <1>5

LEMMA EqualRows ==
    ASSUME NEW N \in Nat, NEW m \in Square(N), NEW r \in 1..N, NEW s \in 1..N, r < s,
           m[r] = m[s]
    PROVE  \A d \in (N - r + 1)..N, C \in SUBSET (1..N) : Minor(m, d)[C] = Zero
<1> SUFFICES ASSUME NEW d \in (N - r + 1)..N, NEW C \in SUBSET (1..N)
             PROVE  Minor(m, d)[C] = Zero
  OBVIOUS
<1>1. Exchanged(m, r, s) = m
  BY DEF Exchanged, Square
<1>2. Minor(m, d)[C] = Matrix!Neg(Minor(m, d)[C])
  BY <1>1, ExchangedRows
<1>3. d \in 0..N
  OBVIOUS
<1>4. Minor(m, d)[C] \in Fractions
  BY <1>3, MinorType
<1> QED
  BY <1>2, <1>4, OwnNegative

\* A multiple of a row above added to a row.
LEMMA RowAdded ==
    ASSUME NEW N \in Nat, NEW m \in Square(N), NEW w \in Square(N), NEW r \in 1..N,
           NEW s \in 1..N, r < s, NEW x \in Fractions,
           \A j \in 1..N : j # s => w[j] = m[j],
           \A k \in 1..N : w[s][k] = Matrix!Plus(m[s][k], Matrix!Times(x, m[r][k]))
    PROVE  \A d \in (N - r + 1)..N, C \in SUBSET (1..N) : Minor(w, d)[C] = Minor(m, d)[C]
<1> SUFFICES ASSUME NEW d \in (N - r + 1)..N, NEW C \in SUBSET (1..N)
             PROVE  Minor(w, d)[C] = Minor(m, d)[C]
  OBVIOUS
<1> DEFINE u == [m EXCEPT ![s] = m[r]]
<1>1. /\ u \in Square(N) /\ u[s] = m[r] /\ u[r] = m[r]
      /\ \A j \in 1..N : j # s => u[j] = m[j]
  BY DEF Square
<1> HIDE DEF u
<1>2. d \in (N - s + 1)..N /\ d \in 0..N
  OBVIOUS
<1>3. RowSum(w, m, x, u, s, N)
  BY <1>1 DEF RowSum
<1>4. Minor(w, d)[C] = Matrix!Plus(Minor(m, d)[C], Matrix!Times(x, Minor(u, d)[C]))
  <2>1. \A e \in (N - s + 1)..N, B \in SUBSET (1..N) :
            Minor(w, e)[B] = Matrix!Plus(Minor(m, e)[B], Matrix!Times(x, Minor(u, e)[B]))
    BY ONLY N \in Nat, s \in 1..N, x \in Fractions, <1>3, MinorLinear
  <2> QED
    BY <1>2, <2>1
<1>5. Minor(u, d)[C] = Zero
  BY <1>1, EqualRows
<1>6. Minor(m, d)[C] \in Fractions
  BY <1>2, MinorType
<1> QED
  BY <1>4, <1>5, <1>6, TimesZero, PlusZero

\* w is m with multiples of row c added to the rows in T.
Added(w, m, c, T, x, N) ==
    /\ m \in Square(N) /\ w \in Square(N)
    /\ \A j \in 1..N : j \notin T => w[j] = m[j]
    /\ \A j \in T : /\ x[j] \in Fractions
                    /\ \A k \in 1..N : w[j][k] = Matrix!Plus(m[j][k], Matrix!Times(x[j], m[c][k]))

LEMMA RowsAdded ==
    ASSUME NEW N \in Nat, NEW m, NEW w, NEW c \in 1..N, NEW T \in SUBSET ((c + 1)..N), NEW x,
           Added(w, m, c, T, x, N)
    PROVE  \A d \in (N - c + 1)..N, C \in SUBSET (1..N) : Minor(w, d)[C] = Minor(m, d)[C]
<1>1. /\ m \in Square(N) /\ w \in Square(N)
      /\ \A j \in 1..N : j \notin T => w[j] = m[j]
      /\ \A j \in T : /\ x[j] \in Fractions
                      /\ \A k \in 1..N :
                            w[j][k] = Matrix!Plus(m[j][k], Matrix!Times(x[j], m[c][k]))
  BY DEF Added
<1> SUFFICES ASSUME NEW d \in (N - c + 1)..N, NEW C \in SUBSET (1..N)
             PROVE  Minor(w, d)[C] = Minor(m, d)[C]
  OBVIOUS
<1> DEFINE V(j) == [r \in 1..N |-> IF r \in T /\ r <= j THEN w[r] ELSE m[r]]
           S == {j \in 0..N : Minor(V(j), d)[C] = Minor(m, d)[C]}
<1>2. \A j \in 0..N : /\ V(j) \in Square(N)
                      /\ \A r \in 1..N : V(j)[r] = IF r \in T /\ r <= j THEN w[r] ELSE m[r]
  BY <1>1 DEF Square
<1>3. V(0) = m
  BY <1>1 DEF Square
<1>4. V(N) = w
  BY <1>1 DEF Square
<1> HIDE DEF V
<1>5. 0 \in S
  BY <1>3
<1>6. ASSUME NEW j \in 1..N, j - 1 \in S PROVE j \in S
  <2>1. j \in 0..N /\ j - 1 \in 0..N /\ Minor(V(j - 1), d)[C] = Minor(m, d)[C]
    BY <1>6
  <2>2. CASE j \notin T
    <3>1. \A r \in 1..N : V(j)[r] = V(j - 1)[r]
      BY <1>2, <2>1, <2>2
    <3>2. V(j) = V(j - 1)
      BY <1>2, <2>1, <3>1 DEF Square
    <3> QED
      BY <2>1, <3>2
  <2>3. CASE j \in T
    <3> DEFINE v == V(j)
               u == V(j - 1)
               y == x[j]
    <3>1. v \in Square(N) /\ u \in Square(N) /\ y \in Fractions /\ c < j
      BY <1>1, <1>2, <2>1, <2>3
    <3>2. \A r \in 1..N : r # j => v[r] = u[r]
      BY <1>2, <2>1
    <3>3. v[j] = w[j] /\ u[j] = m[j] /\ u[c] = m[c]
      BY <1>2, <2>1, <2>3
    <3>4. \A k \in 1..N : v[j][k] = Matrix!Plus(u[j][k], Matrix!Times(y, u[c][k]))
      BY <1>1, <2>3, <3>3
    <3> HIDE DEF v, u, y
    <3>5. Minor(v, d)[C] = Minor(u, d)[C]
      BY <3>1, <3>2, <3>4, RowAdded
    <3> QED
      BY <2>1, <3>5 DEF v, u
  <2> QED
    BY <2>2, <2>3
<1> HIDE DEF S
<1>7. \A j \in 0..N : j \in S
  BY <1>5, <1>6, BoundedInduction
<1>8. N \in 0..N
  OBVIOUS
<1>9. Minor(V(N), d)[C] = Minor(m, d)[C]
  BY <1>7, <1>8 DEF S
<1> QED
  BY <1>4, <1>9
-----------------------------------------------------------------------------
(***************************************************************************)
(* matrix_det.cpp: the determinant of rows and columns c..N                *)
(***************************************************************************)
Det(m, c, N) == Minor(m, N - c + 1)[c..N]

LEMMA DetIs ==
    ASSUME NEW N \in Nat, NEW m \in Square(N), NEW c \in 1..(N + 1)
    PROVE  Matrix!Determinant(m, c) = Det(m, c, N) /\ Det(m, c, N) \in Fractions
<1>1. N - c + 1 \in 0..N /\ c..N \in SUBSET (1..N)
  OBVIOUS
<1>2. Det(m, c, N) \in Fractions
  BY <1>1, MinorType DEF Det
<1>3. Len(m) = N
  BY SquareLen
<1> QED
  BY <1>2, <1>3 DEF Matrix!Determinant, Det, Minor

LEMMA DetEnd ==
    ASSUME NEW N \in Nat, NEW m \in Square(N)
    PROVE  Det(m, N + 1, N) = One
<1>1. N - (N + 1) + 1 = 0 /\ (N + 1)..N = {}
  OBVIOUS
<1>2. Minor(m, 0)[{}] = One
  BY MinorIs
<1> QED
  BY <1>1, <1>2 DEF Det

LEMMA DetAgrees ==
    ASSUME NEW N \in Nat, NEW m \in Square(N), NEW w \in Square(N), NEW c \in 1..N,
           \A j \in c..N, k \in c..N : m[j][k] = w[j][k]
    PROVE  Det(m, c, N) = Det(w, c, N)
<1> DEFINE D == N - c + 1
           B == c..N
<1>1. /\ D \in 0..N /\ D \in 0..D /\ B \in SUBSET (1..N) /\ B \in SUBSET B
      /\ \A j \in (N - D + 1)..N, k \in B : m[j][k] = w[j][k]
  OBVIOUS
<1> HIDE DEF D, B
<1>2. Minor(m, D)[B] = Minor(w, D)[B]
  BY <1>1, MinorDepends
<1> QED
  BY <1>2 DEF Det, D, B

LEMMA SwappedIs ==
    ASSUME NEW N \in Nat, NEW m \in Square(N), NEW r \in 1..N, NEW s \in 1..N, r # s, NEW T
    PROVE  /\ Matrix!Swapped(m, r, s, T) \in Square(N)
           /\ \A k \in 1..N :
                 /\ Matrix!Swapped(m, r, s, T)[r][k] = IF k \in T THEN m[s][k] ELSE m[r][k]
                 /\ Matrix!Swapped(m, r, s, T)[s][k] = IF k \in T THEN m[r][k] ELSE m[s][k]
           /\ \A j \in 1..N : j # r /\ j # s => Matrix!Swapped(m, r, s, T)[j] = m[j]
<1> DEFINE w == Matrix!Swapped(m, r, s, T)
           x == [k \in 1..N |-> IF k \in T THEN m[s][k] ELSE m[r][k]]
           y == [k \in 1..N |-> IF k \in T THEN m[r][k] ELSE m[s][k]]
<1>1. m \in [1..N -> [1..N -> Fractions]] /\ DOMAIN m[r] = 1..N /\ DOMAIN m[s] = 1..N
  BY DEF Square
<1>2. x \in [1..N -> Fractions] /\ y \in [1..N -> Fractions]
  BY <1>1
<1>3. w = [[m EXCEPT ![r] = x] EXCEPT ![s] = y]
  <2>1. [m EXCEPT ![r] = x][s] = m[s]
    BY <1>1
  <2> QED
    BY <1>1, <2>1 DEF Matrix!Swapped
<1>4. \A k \in 1..N : /\ x[k] = (IF k \in T THEN m[s][k] ELSE m[r][k])
                      /\ y[k] = (IF k \in T THEN m[r][k] ELSE m[s][k])
  OBVIOUS
<1> HIDE DEF w, x, y
<1>5. /\ w \in [1..N -> [1..N -> Fractions]] /\ w[r] = x /\ w[s] = y
      /\ \A j \in 1..N : j # r /\ j # s => w[j] = m[j]
  BY <1>1, <1>2, <1>3
<1>6. w \in Square(N)
  BY <1>5 DEF Square
<1> QED
  BY <1>4, <1>5, <1>6 DEF w

LEMMA DetSwapped ==
    ASSUME NEW N \in Nat, NEW m \in Square(N), NEW c \in 1..N, NEW p \in 1..N, c < p
    PROVE  Det(Matrix!Swapped(m, c, p, c..N), c, N) = Matrix!Neg(Det(m, c, N))
<1> DEFINE w == Matrix!Swapped(m, c, p, c..N)
           u == Exchanged(m, c, p)
<1>1. /\ u \in Square(N) /\ u[c] = m[p] /\ u[p] = m[c]
      /\ \A j \in 1..N : j # c /\ j # p => u[j] = m[j]
  BY ExchangedIs
<1>2. c # p
  OBVIOUS
<1>3. /\ w \in Square(N)
      /\ \A k \in 1..N : /\ w[c][k] = (IF k \in c..N THEN m[p][k] ELSE m[c][k])
                         /\ w[p][k] = (IF k \in c..N THEN m[c][k] ELSE m[p][k])
      /\ \A j \in 1..N : j # c /\ j # p => w[j] = m[j]
  BY <1>2, SwappedIs
<1> HIDE DEF w, u
<1>4. ASSUME NEW j \in c..N, NEW k \in c..N PROVE w[j][k] = u[j][k]
  <2>1. j \in 1..N /\ k \in 1..N
    OBVIOUS
  <2> QED
    BY <1>1, <1>3, <2>1
<1>5. Det(w, c, N) = Det(u, c, N)
  BY <1>1, <1>3, <1>4, DetAgrees
<1>6. N - c + 1 \in (N - c + 1)..N /\ c..N \in SUBSET (1..N)
  OBVIOUS
<1>7. \A d \in (N - c + 1)..N, C \in SUBSET (1..N) : Minor(u, d)[C] = Matrix!Neg(Minor(m, d)[C])
  BY ExchangedRows DEF u
<1>8. Det(u, c, N) = Matrix!Neg(Det(m, c, N))
  BY <1>6, <1>7 DEF Det
<1> QED
  BY <1>5, <1>8 DEF w

\* Only the pivot is left in the first column.
LEMMA DetPivot ==
    ASSUME NEW N \in Nat, NEW m \in Square(N), NEW c \in 1..N,
           \A j \in (c + 1)..N : m[j][c] = Zero
    PROVE  Det(m, c, N) = Matrix!Times(m[c][c], Det(m, c + 1, N))
<1> DEFINE D == N - c
           d == N - c + 1
           C == c..N
           g == Minor(m, D)
           s == Expanded(m[c], C, g, N)
<1>1. /\ d \in 1..N /\ d - 1 = D /\ D \in 0..N /\ D \in 0..D /\ N - d + 1 = c
      /\ C \in SUBSET (1..N) /\ c \in C
      /\ \A j \in (N - D + 1)..N : m[j][c] = Zero
      /\ C \ {c} = (c + 1)..N /\ N - (c + 1) + 1 = D
  OBVIOUS
<1>2. m[c] \in [1..N -> Fractions] /\ g \in Columns(N) /\ m[c][c] \in Fractions
  BY <1>1, MinorIs DEF Square
<1>3. Det(m, c, N) = Matrix!SumOf(s, N)
  <2>1. Minor(m, d)[C] = Matrix!SumOf(Expanded(m[N - d + 1], C, Minor(m, d - 1), N), N)
    BY <1>1, MinorIs
  <2> QED
    BY <1>1, <2>1 DEF Det
<1> HIDE DEF D, d
<1>4. s \in [1..N -> Fractions]
  BY <1>1, <1>2, ExpandedType
<1>5. \A B \in SUBSET (1..N) : c \in B => g[B] = Zero
  <2>1. \A e \in 0..D : \A B \in SUBSET (1..N) : c \in B => Minor(m, e)[B] = Zero
    <3>1. D \in 0..N /\ \A j \in (N - D + 1)..N : m[j][c] = Zero
      BY <1>1
    <3> QED
      BY ONLY N \in Nat, m \in Square(N), c \in 1..N, <3>1, MinorZero
  <2> QED
    BY <1>1, <2>1
<1> HIDE DEF g, C
<1>6. ASSUME NEW k \in 1..N, k # c PROVE s[k] = Zero
  <2>1. CASE k \notin C
    BY <2>1 DEF Expanded
  <2>2. CASE k \in C
    <3>1. C \ {k} \in SUBSET (1..N) /\ c \in C \ {k}
      BY <1>1, <1>6
    <3>2. g[C \ {k}] = Zero /\ m[c][k] \in Fractions
      BY <1>2, <1>5, <3>1
    <3>3. s[k] = Matrix!Signed(C, k, Matrix!Times(m[c][k], Zero))
      BY <2>2, <3>2 DEF Expanded
    <3> QED
      BY <3>2, <3>3, TimesZero, ZeroOne, SignedLaws
  <2> QED
    BY <2>1, <2>2
<1>7. s[c] = Matrix!Times(m[c][c], g[C \ {c}])
  <2>1. s[c] = Matrix!Signed(C, c, Matrix!Times(m[c][c], g[C \ {c}]))
    BY <1>1 DEF Expanded
  <2>2. {l \in C : l < c} = {}
    BY DEF C
  <2>3. Matrix!Cardinality({}) = 0
    BY FS_EmptySet, SameCardinality
  <2>4. 0 % 2 = 0
    OBVIOUS
  <2> HIDE DEF s
  <2> QED
    BY <2>1, <2>2, <2>3, <2>4 DEF Matrix!Signed
<1> HIDE DEF s
<1>8. Matrix!SumOf(s, N) = s[c]
  BY <1>4, <1>6, SumOne
<1> QED
  BY <1>1, <1>3, <1>7, <1>8 DEF Det, g

LEMMA DetZeroColumn ==
    ASSUME NEW N \in Nat, NEW m \in Square(N), NEW c \in 1..N, \A j \in c..N : m[j][c] = Zero
    PROVE  Det(m, c, N) = Zero
<1> DEFINE D == N - c + 1
<1>1. /\ D \in 0..N /\ D \in 0..D /\ \A j \in (N - D + 1)..N : m[j][c] = Zero
      /\ c..N \in SUBSET (1..N) /\ c \in c..N
  OBVIOUS
<1> HIDE DEF D
<1>2. Minor(m, D)[c..N] = Zero
  BY <1>1, MinorZero
<1> QED
  BY <1>2 DEF Det, D

\* What is subtracted from row j, as a multiple of row c.
Factor(m, c, j) == Matrix!Neg(Matrix!Over(m[j][c], m[c][c]))

LEMMA FactorIs ==
    ASSUME NEW N \in Nat, NEW m \in Square(N), NEW c \in 1..N, NEW j \in 1..N,
           m[c][c] # Zero, NEW k \in 1..N
    PROVE  /\ Factor(m, c, j) \in Fractions
           /\ Matrix!Over(m[j][c], m[c][c]) \in Fractions
           /\ Matrix!Minus(m[j][k], Matrix!Times(m[c][k], Matrix!Over(m[j][c], m[c][c]))) =
                  Matrix!Plus(m[j][k], Matrix!Times(Factor(m, c, j), m[c][k]))
           /\ Matrix!Plus(m[j][c], Matrix!Times(Factor(m, c, j), m[c][c])) = Zero
<1> DEFINE o == Matrix!Over(m[j][c], m[c][c])
           f == Factor(m, c, j)
<1>1. /\ m[j][c] \in Fractions /\ m[c][c] \in Fractions
      /\ m[j][k] \in Fractions /\ m[c][k] \in Fractions
  BY DEF Square
<1>2. o \in Fractions /\ Matrix!Times(m[c][c], o) = m[j][c]
  BY <1>1, OverTimes
<1>3. f = Matrix!Neg(o)
  BY DEF Factor
<1> HIDE DEF o, f
<1>4. f \in Fractions
  BY <1>2, <1>3, NegType
<1>5. ASSUME NEW x \in Fractions PROVE Matrix!Times(f, x) = Matrix!Neg(Matrix!Times(x, o))
  <2>1. Matrix!Times(f, x) = Matrix!Neg(Matrix!Times(o, x))
    BY <1>2, <1>3, TimesNeg
  <2>2. Matrix!Times(o, x) = Matrix!Times(x, o)
    BY <1>2, TimesCommutes
  <2> QED
    BY <2>1, <2>2
<1>6. Matrix!Times(m[c][k], o) \in Fractions
  BY <1>1, <1>2, TimesType
<1>7. Matrix!Minus(m[j][k], Matrix!Times(m[c][k], o)) =
          Matrix!Plus(m[j][k], Matrix!Times(f, m[c][k]))
  BY <1>1, <1>5, <1>6, MinusIsPlus
<1>8. Matrix!Plus(m[j][c], Matrix!Times(f, m[c][c])) = Zero
  BY <1>1, <1>2, <1>5, PlusNeg
<1> QED
  BY <1>2, <1>4, <1>7, <1>8 DEF o, f

LEMMA EliminatedIs ==
    ASSUME NEW N \in Nat, NEW m \in Square(N), NEW c \in 1..N, NEW T \in SUBSET ((c + 1)..N),
           m[c][c] # Zero
    PROVE  /\ Matrix!Eliminated(m, c, T) \in Square(N)
           /\ \A j \in 1..N : j \notin T => Matrix!Eliminated(m, c, T)[j] = m[j]
           /\ \A j \in T, k \in 1..N : Matrix!Eliminated(m, c, T)[j][k] =
                 IF k < c THEN m[j][k] ELSE IF k = c THEN Zero
                 ELSE Matrix!Plus(m[j][k], Matrix!Times(Factor(m, c, j), m[c][k]))
<1> DEFINE e == Matrix!Eliminated(m, c, T)
           E(j, k) == IF k < c THEN m[j][k] ELSE IF k = c THEN Zero
                      ELSE Matrix!Plus(m[j][k], Matrix!Times(Factor(m, c, j), m[c][k]))
<1>1. m \in [1..N -> [1..N -> Fractions]]
  BY DEF Square
<1>2. ASSUME NEW j \in T, NEW k \in 1..N
      PROVE  /\ E(j, k) \in Fractions
             /\ (IF k < c THEN m[j][k] ELSE IF k = c THEN Matrix!Frac(0)
                 ELSE Matrix!Minus(m[j][k], Matrix!Times(m[c][k],
                                                Matrix!Over(m[j][c], m[c][c])))) = E(j, k)
  <2>1. j \in 1..N
    OBVIOUS
  <2>2. /\ Matrix!Minus(m[j][k], Matrix!Times(m[c][k], Matrix!Over(m[j][c], m[c][c]))) =
               Matrix!Plus(m[j][k], Matrix!Times(Factor(m, c, j), m[c][k]))
        /\ Factor(m, c, j) \in Fractions
    BY <2>1, FactorIs
  <2>3. m[j][k] \in Fractions /\ m[c][k] \in Fractions
    BY <1>1, <2>1
  <2>4. Matrix!Times(Factor(m, c, j), m[c][k]) \in Fractions
    BY <2>2, <2>3, TimesType
  <2>5. Matrix!Plus(m[j][k], Matrix!Times(Factor(m, c, j), m[c][k])) \in Fractions
    BY <2>3, <2>4, PlusType
  <2> QED
    BY <2>2, <2>3, <2>5, ZeroOne DEF Zero
<1> HIDE DEF E
<1>3. e = [j \in 1..N |-> IF j \notin T THEN m[j] ELSE [k \in 1..N |-> E(j, k)]]
  <2>1. \A j \in 1..N : DOMAIN m[j] = 1..N
    BY <1>1
  <2>2. DOMAIN m = 1..N
    BY <1>1
  <2>3. e = [j \in 1..N |->
                IF j \notin T THEN m[j]
                ELSE [k \in 1..N |->
                    IF k < c THEN m[j][k] ELSE IF k = c THEN Matrix!Frac(0)
                    ELSE Matrix!Minus(m[j][k], Matrix!Times(m[c][k],
                                                   Matrix!Over(m[j][c], m[c][c])))]]
    BY <2>1, <2>2 DEF Matrix!Eliminated
  <2>4. ASSUME NEW j \in T
        PROVE  [k \in 1..N |->
                    IF k < c THEN m[j][k] ELSE IF k = c THEN Matrix!Frac(0)
                    ELSE Matrix!Minus(m[j][k], Matrix!Times(m[c][k],
                                                   Matrix!Over(m[j][c], m[c][c])))]
               = [k \in 1..N |-> E(j, k)]
    BY <1>2
  <2> QED
    BY <2>3, <2>4
<1> HIDE DEF e
<1>4. T \subseteq 1..N
  OBVIOUS
<1>5. /\ e \in [1..N -> [1..N -> Fractions]]
      /\ \A j \in 1..N : j \notin T => e[j] = m[j]
      /\ \A j \in T, k \in 1..N : e[j][k] = E(j, k)
  BY <1>1, <1>2, <1>3, <1>4
<1> QED
  BY <1>5 DEF e, E, Square

LEMMA DetEliminated ==
    ASSUME NEW N \in Nat, NEW m \in Square(N), NEW c \in 1..N, NEW T \in SUBSET ((c + 1)..N),
           m[c][c] # Zero
    PROVE  Det(Matrix!Eliminated(m, c, T), c, N) = Det(m, c, N)
<1> DEFINE e == Matrix!Eliminated(m, c, T)
           x == [j \in 1..N |-> Factor(m, c, j)]
           A(j, k) == Matrix!Plus(m[j][k], Matrix!Times(x[j], m[c][k]))
           w == [j \in 1..N |-> IF j \in T THEN [k \in 1..N |-> A(j, k)] ELSE m[j]]
<1>1. /\ e \in Square(N)
      /\ \A j \in 1..N : j \notin T => e[j] = m[j]
      /\ \A j \in T, k \in 1..N : e[j][k] =
            IF k < c THEN m[j][k] ELSE IF k = c THEN Zero
            ELSE Matrix!Plus(m[j][k], Matrix!Times(Factor(m, c, j), m[c][k]))
  BY EliminatedIs
<1> HIDE DEF e
<1>2. m \in [1..N -> [1..N -> Fractions]] /\ T \subseteq 1..N
  BY DEF Square
<1>3. \A j \in 1..N : x[j] = Factor(m, c, j) /\ x[j] \in Fractions
  BY FactorIs
<1>4. \A j \in 1..N : A(j, c) = Zero
  BY FactorIs
<1> HIDE DEF x
<1>5. ASSUME NEW j \in 1..N, NEW k \in 1..N PROVE A(j, k) \in Fractions
  <2>1. m[j][k] \in Fractions /\ m[c][k] \in Fractions /\ x[j] \in Fractions
    BY <1>2, <1>3
  <2>2. Matrix!Times(x[j], m[c][k]) \in Fractions
    BY <2>1, TimesType
  <2> QED
    BY <2>1, <2>2, PlusType
<1>6. \A j \in T, k \in 1..N : e[j][k] = IF k < c THEN m[j][k] ELSE A(j, k)
  BY <1>1, <1>2, <1>3, <1>4
<1>7. \A j \in 1..N, k \in 1..N :
         A(j, k) = Matrix!Plus(m[j][k], Matrix!Times(x[j], m[c][k]))
  OBVIOUS
<1> HIDE DEF A
<1>8. /\ w \in [1..N -> [1..N -> Fractions]]
      /\ \A j \in 1..N : j \notin T => w[j] = m[j]
      /\ \A j \in T, k \in 1..N : w[j][k] = A(j, k)
  BY <1>2, <1>5
<1> HIDE DEF w
<1>9. Added(w, m, c, T, x, N)
  BY <1>2, <1>3, <1>7, <1>8 DEF Added, Square
<1>10. \A d \in (N - c + 1)..N, C \in SUBSET (1..N) : Minor(w, d)[C] = Minor(m, d)[C]
  BY <1>9, RowsAdded
<1>11. N - c + 1 \in (N - c + 1)..N /\ c..N \in SUBSET (1..N)
  OBVIOUS
<1>12. Det(w, c, N) = Det(m, c, N)
  BY <1>10, <1>11 DEF Det
<1>13. ASSUME NEW j \in c..N, NEW k \in c..N PROVE e[j][k] = w[j][k]
  <2>1. j \in 1..N /\ k \in 1..N /\ ~(k < c)
    OBVIOUS
  <2> QED
    BY <1>1, <1>6, <1>8, <2>1
<1>14. w \in Square(N)
  BY <1>8 DEF Square
<1>15. Det(e, c, N) = Det(w, c, N)
  BY <1>1, <1>13, <1>14, DetAgrees
<1> QED
  BY <1>12, <1>15 DEF e
-----------------------------------------------------------------------------
(***************************************************************************)
(* matrix_det.cpp: the pivot                                               *)
(***************************************************************************)
\* The absolute value of x is at most the one of y.
NotAbove(x, y) == ~Matrix!Greater(Matrix!fabs(x), Matrix!fabs(y))

LEMMA AbsoluteIs ==
    ASSUME NEW x \in Fractions
    PROVE  /\ Matrix!fabs(x)[1] \in Int /\ Matrix!fabs(x)[1] >= 0
           /\ Matrix!fabs(x)[2] = x[2] /\ x[2] \in Int /\ x[2] > 0
           /\ Matrix!fabs(x)[1] = 0 <=> x[1] = 0
<1>1. x[1] \in Int /\ x[2] \in Int /\ x[2] > 0
  BY OwnValue
<1>2. Matrix!Neg(x)[1] = -x[1] /\ Matrix!Neg(x)[2] = x[2]
  BY NegIs
<1> QED
  BY <1>1, <1>2 DEF Matrix!fabs

LEMMA NotAboveItself ==
    ASSUME NEW x \in Fractions
    PROVE  NotAbove(x, x)
<1>1. Matrix!fabs(x)[1] \in Int /\ Matrix!fabs(x)[2] \in Int
  BY AbsoluteIs
<1> QED
  BY <1>1 DEF NotAbove, Matrix!Greater

LEMMA NotAboveTransitive ==
    ASSUME NEW x \in Fractions, NEW y \in Fractions, NEW z \in Fractions,
           NotAbove(x, y), NotAbove(y, z)
    PROVE  NotAbove(x, z)
<1> DEFINE p == Matrix!fabs(x)[1]
           q == Matrix!fabs(x)[2]
           r == Matrix!fabs(y)[1]
           s == Matrix!fabs(y)[2]
           t == Matrix!fabs(z)[1]
           u == Matrix!fabs(z)[2]
<1>1. /\ p \in Int /\ q \in Int /\ r \in Int /\ s \in Int /\ t \in Int /\ u \in Int
      /\ q > 0 /\ s > 0 /\ u > 0
  BY AbsoluteIs
<1>2. ~(p * s > r * q) /\ ~(r * u > t * s)
  BY DEF NotAbove, Matrix!Greater
<1> HIDE DEF p, q, r, s, t, u
<1>3. p * s <= r * q /\ r * u <= t * s
  BY <1>1, <1>2
<1>4. (p * s) * u <= (r * q) * u
  BY <1>1, <1>3
<1>5. (r * u) * q <= (t * s) * q
  BY <1>1, <1>3
<1>6. (p * u) * s <= (t * q) * s
  BY <1>1, <1>4, <1>5
<1>7. p * u <= t * q
  <2>1. ASSUME p * u > t * q PROVE FALSE
    <3>1. (p * u) * s > (t * q) * s
      BY <1>1, <2>1
    <3> QED
      BY <1>1, <1>6, <3>1
  <2> QED
    BY <1>1, <2>1
<1>8. ~(p * u > t * q)
  BY <1>1, <1>7
<1> QED
  BY <1>8 DEF NotAbove, Matrix!Greater, p, q, t, u

LEMMA GreaterIsAbove ==
    ASSUME NEW x \in Fractions, NEW y \in Fractions,
           Matrix!Greater(Matrix!fabs(x), Matrix!fabs(y))
    PROVE  NotAbove(y, x)
<1> DEFINE p == Matrix!fabs(x)[1]
           q == Matrix!fabs(x)[2]
           r == Matrix!fabs(y)[1]
           s == Matrix!fabs(y)[2]
<1>1. p \in Int /\ q \in Int /\ r \in Int /\ s \in Int
  BY AbsoluteIs
<1>2. p * s > r * q
  BY DEF Matrix!Greater
<1> HIDE DEF p, q, r, s
<1>3. ~(r * q > p * s)
  BY <1>1, <1>2
<1> QED
  BY <1>3 DEF NotAbove, Matrix!Greater, p, q, r, s

LEMMA NotAboveZero ==
    ASSUME NEW x \in Fractions, NotAbove(x, Zero)
    PROVE  x = Zero
<1> DEFINE p == Matrix!fabs(x)[1]
           q == Matrix!fabs(x)[2]
           s == Matrix!fabs(Zero)[2]
<1>1. /\ p \in Int /\ p >= 0 /\ q \in Int /\ s \in Int /\ s > 0 /\ Matrix!fabs(Zero)[1] = 0
      /\ p = 0 <=> x[1] = 0
  BY AbsoluteIs, ZeroOne
<1>2. ~(p * s > 0 * q)
  BY <1>1 DEF NotAbove, Matrix!Greater
<1> HIDE DEF p, q, s
<1>3. p = 0
  <2>1. ASSUME p > 0 PROVE FALSE
    <3>1. p * s > 0 /\ 0 * q = 0
      BY <1>1, <2>1
    <3> QED
      BY <1>1, <1>2, <3>1
  <2> QED
    BY <1>1, <2>1
<1> QED
  BY <1>1, <1>3, OnlyZero

\* Row p has the greatest value of column c among the rows in R.
Greatest(m, c, p, R) == \A j \in R : NotAbove(m[j][c], m[p][c])

\* One step of a scan.
Next1(m, c, j, b) == IF Matrix!Greater(Matrix!fabs(m[j][c]), Matrix!fabs(m[b][c])) THEN j ELSE b

LEMMA ScanIs ==
    ASSUME NEW N \in Nat, NEW m \in Square(N), NEW c \in 1..N, NEW start \in 1..N,
           NEW lo \in 1..(N + 1), NEW hi \in (lo - 1)..N
    PROVE  /\ Matrix!Scan(m, c, start, lo, hi) \in {start} \union (lo..hi)
           /\ Greatest(m, c, Matrix!Scan(m, c, start, lo, hi), {start} \union (lo..hi))
<1> DEFINE L == hi - lo + 1
           P(g) == g = [j \in (lo - 1)..hi |->
                          IF j < lo THEN start
                          ELSE IF Matrix!Greater(Matrix!fabs(m[j][c]), Matrix!fabs(m[g[j - 1]][c]))
                               THEN j ELSE g[j - 1]]
           F == [q \in 1..L |-> [b \in 1..N |-> Next1(m, c, lo - 1 + q, b)]]
<1>1. /\ L \in Nat /\ \A q \in 1..L : lo - 1 + q \in lo..hi /\ lo - 1 + q \in 1..N
      /\ L \in 0..L /\ lo - 1 + L = hi
  OBVIOUS
<1>2. /\ F \in [1..L -> [1..N -> 1..N]]
      /\ \A q \in 1..L, b \in 1..N : F[q][b] = Next1(m, c, lo - 1 + q, b)
  BY <1>1 DEF Next1
<1> HIDE DEF F, L
<1>3. PICK g : IsRecursion(g, L, 1..N, start, F)
  BY <1>1, <1>2, RecursionExists
<1> DEFINE h == [j \in (lo - 1)..hi |-> g[j - (lo - 1)]]
<1>4. P(h)
  <2>1. ASSUME NEW j \in (lo - 1)..hi
        PROVE  h[j] = IF j < lo THEN start
                      ELSE IF Matrix!Greater(Matrix!fabs(m[j][c]), Matrix!fabs(m[h[j - 1]][c]))
                           THEN j ELSE h[j - 1]
    <3>1. CASE j < lo
      <4>1. j - (lo - 1) = 0
        BY <3>1
      <4> QED
        BY <1>3, <3>1, <4>1 DEF IsRecursion
    <3>2. CASE ~(j < lo)
      <4> DEFINE q == j - (lo - 1)
      <4>1. q \in 1..L /\ q - 1 \in 0..L /\ j - 1 \in (lo - 1)..hi /\ lo - 1 + q = j
            /\ (j - 1) - (lo - 1) = q - 1
        BY <3>2 DEF L
      <4>2. h[j] = g[q] /\ h[j - 1] = g[q - 1]
        BY <4>1
      <4> HIDE DEF q, h
      <4>3. g[q] = F[q][g[q - 1]] /\ g[q - 1] \in 1..N
        BY <1>3, <4>1 DEF IsRecursion
      <4>4. h[j] = Next1(m, c, j, h[j - 1])
        BY <1>2, <4>1, <4>2, <4>3
      <4> QED
        BY <3>2, <4>4 DEF Next1
    <3> QED
      BY <3>1, <3>2
  <2>2. h = [j \in (lo - 1)..hi |-> h[j]]
    OBVIOUS
  <2> HIDE DEF h
  <2> QED
    BY <2>1, <2>2
<1>5. Matrix!Scan(m, c, start, lo, hi) = (CHOOSE u : P(u))[hi]
  BY DEF Matrix!Scan
<1> DEFINE v == CHOOSE u : P(u)
<1>6. P(v)
  <2> HIDE DEF P, h
  <2> QED
    BY <1>4
<1> HIDE DEF v, h
<1>7. \A j \in (lo - 1)..hi :
         v[j] = IF j < lo THEN start ELSE Next1(m, c, j, v[j - 1])
  BY <1>6 DEF Next1
<1> HIDE DEF P
<1> DEFINE R(q) == {start} \union (lo..(lo - 1 + q))
           S == {q \in 0..L : v[lo - 1 + q] \in R(q) /\ Greatest(m, c, v[lo - 1 + q], R(q))}
<1>8. 0 \in S
  <2>1. /\ lo - 1 + 0 = lo - 1 /\ lo - 1 \in (lo - 1)..hi /\ lo - 1 < lo /\ 0 \in 0..L
        /\ lo..(lo - 1 + 0) = {}
    BY <1>1
  <2>2. v[lo - 1] = start
    BY <1>7, <2>1
  <2>3. R(0) = {start}
    BY <2>1
  <2>4. m[start][c] \in Fractions
    BY DEF Square
  <2>5. Greatest(m, c, start, {start})
    BY <2>4, NotAboveItself DEF Greatest
  <2> QED
    BY <2>1, <2>2, <2>3, <2>5
<1>9. ASSUME NEW q \in 1..L, q - 1 \in S PROVE q \in S
  <2> DEFINE j == lo - 1 + q
             b == v[j - 1]
  <2>1. /\ j \in (lo - 1)..hi /\ ~(j < lo) /\ j - 1 = lo - 1 + (q - 1) /\ j \in 1..N
        /\ q \in 0..L
    BY <1>1
  <2>2. b \in R(q - 1) /\ Greatest(m, c, b, R(q - 1))
    BY <1>9, <2>1
  <2>3. R(q) = R(q - 1) \union {j}
    BY <1>1
  <2>4. v[j] = Next1(m, c, j, b)
    BY <1>7, <2>1
  <2>5. R(q) \subseteq 1..N
    BY <1>1
  <2> HIDE DEF R, j, b
  <2>6. \A k \in R(q) : m[k][c] \in Fractions
    BY <2>5 DEF Square
  <2>7. v[j] \in R(q) /\ Greatest(m, c, v[j], R(q))
    <3>1. CASE Matrix!Greater(Matrix!fabs(m[j][c]), Matrix!fabs(m[b][c]))
      <4>1. v[j] = j
        BY <2>4, <3>1 DEF Next1
      <4>2. NotAbove(m[b][c], m[j][c]) /\ NotAbove(m[j][c], m[j][c])
        BY <2>2, <2>3, <2>6, <3>1, GreaterIsAbove, NotAboveItself
      <4>3. ASSUME NEW k \in R(q) PROVE NotAbove(m[k][c], m[j][c])
        <5>1. CASE k = j
          BY <4>2, <5>1
        <5>2. CASE k # j
          <6>1. NotAbove(m[k][c], m[b][c])
            BY <2>2, <2>3, <5>2 DEF Greatest
          <6>2. m[k][c] \in Fractions /\ m[b][c] \in Fractions /\ m[j][c] \in Fractions
            BY <2>2, <2>3, <2>6
          <6> QED
            BY <4>2, <6>1, <6>2, NotAboveTransitive
        <5> QED
          BY <5>1, <5>2
      <4> QED
        BY <2>3, <4>1, <4>3 DEF Greatest
    <3>2. CASE ~Matrix!Greater(Matrix!fabs(m[j][c]), Matrix!fabs(m[b][c]))
      <4>1. v[j] = b
        BY <2>4, <3>2 DEF Next1
      <4>2. NotAbove(m[j][c], m[b][c])
        BY <3>2 DEF NotAbove
      <4> QED
        BY <2>2, <2>3, <4>1, <4>2 DEF Greatest
    <3> QED
      BY <3>1, <3>2
  <2> QED
    BY <2>1, <2>7 DEF j
<1> HIDE DEF S
<1>10. \A q \in 0..L : q \in S
  BY <1>1, <1>8, <1>9, BoundedInduction
<1>11. v[hi] \in R(L) /\ Greatest(m, c, v[hi], R(L))
  BY <1>1, <1>10 DEF S
<1>12. R(L) = {start} \union (lo..hi)
  BY <1>1
<1> HIDE DEF R
<1> QED
  BY <1>5, <1>11, <1>12 DEF v
-----------------------------------------------------------------------------
(***************************************************************************)
(* matrix_det.cpp: the chunks of a team of K threads                       *)
(***************************************************************************)
Begin(K, t, lo, hi) ==
    lo + (t - 1) * ((hi - lo + 1) \div K)
       + (IF t - 1 < (hi - lo + 1) % K THEN t - 1 ELSE (hi - lo + 1) % K)

Part(K, t, lo, hi) == Begin(K, t, lo, hi)..(Begin(K, t + 1, lo, hi) - 1)

LEMMA PartIs == /\ \A t, lo, hi : Matrix!First(t, lo, hi) = Begin(threadsCnt, t, lo, hi)
                /\ \A t, lo, hi : Matrix!Chunk(t, lo, hi) = Part(threadsCnt, t, lo, hi)
BY DEF Matrix!First, Matrix!Chunk, Begin, Part

LEMMA BeginIs ==
    ASSUME NEW K \in Nat \ {0}, NEW lo \in Int, NEW hi \in Int, hi >= lo - 1
    PROVE  /\ \A t \in 1..(K + 1) : Begin(K, t, lo, hi) \in Int
           /\ Begin(K, 1, lo, hi) = lo /\ Begin(K, K + 1, lo, hi) = hi + 1
           /\ \A s \in 1..(K + 1), t \in 1..(K + 1) :
                 s <= t => Begin(K, s, lo, hi) <= Begin(K, t, lo, hi)
<1> DEFINE all == hi - lo + 1
           q == all \div K
           r == all % K
           M(j) == IF j < r THEN j ELSE r
<1>1. all \in Nat /\ K \in Nat /\ K > 0
  OBVIOUS
<1> HIDE DEF all
<1>2. q \in Int /\ q >= 0 /\ r \in 0..(K - 1) /\ all = K * q + r
  BY <1>1
<1>3. \A t : Begin(K, t, lo, hi) = lo + (t - 1) * q + M(t - 1)
  BY DEF Begin, all
<1> HIDE DEF q, r
<1>4. ASSUME NEW t \in 1..(K + 1)
      PROVE  (t - 1) * q \in Int /\ M(t - 1) \in Int /\ t - 1 \in Int
  BY <1>1, <1>2
<1>5. M(0) = 0 /\ M(K) = r /\ 1 - 1 = 0 /\ (K + 1) - 1 = K /\ 0 * q = 0
  BY <1>1, <1>2
<1>6. Begin(K, 1, lo, hi) = lo
  BY <1>3, <1>5
<1>7. Begin(K, K + 1, lo, hi) = hi + 1
  <2>1. Begin(K, K + 1, lo, hi) = lo + K * q + r
    BY <1>3, <1>5
  <2> QED
    BY <1>1, <1>2, <2>1 DEF all
<1>8. ASSUME NEW s \in 1..(K + 1), NEW t \in 1..(K + 1), s <= t
      PROVE  Begin(K, s, lo, hi) <= Begin(K, t, lo, hi)
  <2>1. M(s - 1) <= M(t - 1)
    BY <1>1, <1>2, <1>8
  <2>2. (s - 1) * q <= (t - 1) * q
    BY <1>1, <1>2, <1>8
  <2> HIDE DEF M
  <2>3. /\ (s - 1) * q \in Int /\ (t - 1) * q \in Int /\ M(s - 1) \in Int /\ M(t - 1) \in Int
    BY <1>4
  <2> DEFINE x == (s - 1) * q
             y == (t - 1) * q
  <2>4. Begin(K, s, lo, hi) = lo + x + M(s - 1) /\ Begin(K, t, lo, hi) = lo + y + M(t - 1)
    BY <1>3
  <2> HIDE DEF x, y
  <2> QED
    BY <2>1, <2>2, <2>3, <2>4 DEF x, y
<1>9. ASSUME NEW t \in 1..(K + 1) PROVE Begin(K, t, lo, hi) \in Int
  <2> DEFINE x == (t - 1) * q
             y == M(t - 1)
  <2>1. x \in Int /\ y \in Int /\ Begin(K, t, lo, hi) = lo + x + y
    BY <1>3, <1>4
  <2> HIDE DEF x, y
  <2> QED
    BY <2>1
<1> QED
  BY <1>6, <1>7, <1>8, <1>9

\* Each index is in the part of one thread.
LEMMA PartsCover ==
    ASSUME NEW K \in Nat \ {0}, NEW lo \in Int, NEW hi \in Int, hi >= lo - 1
    PROVE  /\ \A t \in 1..K : Part(K, t, lo, hi) \subseteq lo..hi
           /\ \A t \in 1..K : /\ Begin(K, t, lo, hi) \in lo..(hi + 1)
                              /\ Begin(K, t + 1, lo, hi) - 1 \in (Begin(K, t, lo, hi) - 1)..hi
           /\ \A j \in lo..hi : \E t \in 1..K : j \in Part(K, t, lo, hi)
           /\ \A s \in 1..K, t \in 1..K :
                 s # t => Part(K, s, lo, hi) \intersect Part(K, t, lo, hi) = {}
<1> DEFINE B(t) == Begin(K, t, lo, hi)
<1>1. /\ \A t \in 1..(K + 1) : B(t) \in Int
      /\ B(1) = lo /\ B(K + 1) = hi + 1
      /\ \A s \in 1..(K + 1), t \in 1..(K + 1) : s <= t => B(s) <= B(t)
  BY BeginIs
<1>2. \A t : Part(K, t, lo, hi) = B(t)..(B(t + 1) - 1)
  BY DEF Part
<1> HIDE DEF B
<1>3. ASSUME NEW t \in 1..K
      PROVE  /\ B(t) \in Int /\ B(t + 1) \in Int /\ B(t) <= B(t + 1)
             /\ B(t) >= lo /\ B(t + 1) <= hi + 1
  <2>1. /\ t \in 1..(K + 1) /\ t + 1 \in 1..(K + 1) /\ t <= t + 1 /\ 1 \in 1..(K + 1)
        /\ K + 1 \in 1..(K + 1) /\ 1 <= t /\ t + 1 <= K + 1
    OBVIOUS
  <2> QED
    BY <1>1, <2>1
<1>4. \A t \in 1..K : /\ Part(K, t, lo, hi) \subseteq lo..hi
                      /\ B(t) \in lo..(hi + 1) /\ B(t + 1) - 1 \in (B(t) - 1)..hi
  <2> SUFFICES ASSUME NEW t \in 1..K
               PROVE  /\ Part(K, t, lo, hi) \subseteq lo..hi
                      /\ B(t) \in lo..(hi + 1) /\ B(t + 1) - 1 \in (B(t) - 1)..hi
    OBVIOUS
  <2> DEFINE x == B(t)
             y == B(t + 1)
  <2>1. Part(K, t, lo, hi) = x..(y - 1)
    BY <1>2
  <2>2. x \in Int /\ y \in Int /\ x <= y /\ x >= lo /\ y <= hi + 1
    BY <1>3
  <2> HIDE DEF x, y
  <2>3. x..(y - 1) \subseteq lo..hi /\ x \in lo..(hi + 1) /\ y - 1 \in (x - 1)..hi
    BY <2>2
  <2> QED
    BY <2>1, <2>3 DEF x, y
<1>5. ASSUME NEW j \in lo..hi PROVE \E t \in 1..K : j \in Part(K, t, lo, hi)
  <2> DEFINE T == {t \in 1..K : B(t) <= j}
  <2>1. 1 \in T
    BY <1>1
  <2>2. T \in SUBSET (0..K) /\ K \in Nat
    OBVIOUS
  <2>3. PICK t \in T : \A s \in T : t >= s
    BY <2>1, <2>2, GreatestElement
  <2>4. t \in 1..K /\ B(t) <= j /\ B(t + 1) \in Int /\ B(t) \in Int
    BY <1>3, <2>3
  <2>5. j < B(t + 1)
    <3>1. CASE t = K
      BY <1>1, <3>1
    <3>2. CASE t # K
      <4>1. t + 1 \in 1..K /\ ~(t >= t + 1)
        BY <2>4, <3>2
      <4>2. t + 1 \notin T
        BY <2>3, <4>1
      <4> QED
        BY <2>4, <4>1, <4>2
    <3> QED
      BY <3>1, <3>2
  <2>6. j \in B(t)..(B(t + 1) - 1)
    BY <2>4, <2>5
  <2> QED
    BY <1>2, <2>4, <2>6
<1>6. ASSUME NEW s \in 1..K, NEW t \in 1..K, s < t
      PROVE  Part(K, s, lo, hi) \intersect Part(K, t, lo, hi) = {}
  <2>1. s + 1 \in 1..(K + 1) /\ t \in 1..(K + 1) /\ s + 1 <= t
    BY <1>6
  <2>2. B(s + 1) <= B(t)
    BY <1>1, <2>1
  <2>3. B(s) \in Int /\ B(s + 1) \in Int /\ B(t) \in Int /\ B(t + 1) \in Int
    BY <1>3
  <2>4. (B(s)..(B(s + 1) - 1)) \intersect (B(t)..(B(t + 1) - 1)) = {}
    BY <2>2, <2>3
  <2> QED
    BY <1>2, <2>4
<1>7. \A s \in 1..K, t \in 1..K :
         s # t => Part(K, s, lo, hi) \intersect Part(K, t, lo, hi) = {}
  <2> SUFFICES ASSUME NEW s \in 1..K, NEW t \in 1..K, s # t
               PROVE  Part(K, s, lo, hi) \intersect Part(K, t, lo, hi) = {}
    OBVIOUS
  <2>1. s < t \/ t < s
    OBVIOUS
  <2> QED
    BY <1>6, <2>1
<1> QED
  BY <1>4, <1>5, <1>7 DEF B
-----------------------------------------------------------------------------
(***************************************************************************)
(* matrix_det.cpp: the sequential function                                 *)
(***************************************************************************)
LEMMA SwapKeeps ==
    ASSUME NEW N \in Nat, NEW m \in Square(N), NEW c \in 1..N, NEW p \in 1..N, c < p,
           NEW d \in Fractions
    PROVE  Matrix!Times(Matrix!Neg(d), Det(Matrix!Swapped(m, c, p, c..N), c, N)) =
               Matrix!Times(d, Det(m, c, N))
<1> DEFINE x == Det(m, c, N)
<1>1. c \in 1..(N + 1)
  OBVIOUS
<1>2. x \in Fractions /\ Det(Matrix!Swapped(m, c, p, c..N), c, N) = Matrix!Neg(x)
  BY <1>1, DetIs, DetSwapped
<1> HIDE DEF x
<1>3. Matrix!Neg(x) \in Fractions /\ Matrix!Times(d, x) \in Fractions
  BY <1>2, NegType, TimesType
<1>4. Matrix!Times(Matrix!Neg(d), Matrix!Neg(x)) = Matrix!Neg(Matrix!Times(d, Matrix!Neg(x)))
  BY <1>3, TimesNeg
<1>5. Matrix!Times(d, Matrix!Neg(x)) = Matrix!Neg(Matrix!Times(d, x))
  BY <1>2, TimesNeg
<1> QED
  BY <1>2, <1>3, <1>4, <1>5, NegNeg DEF x

LEMMA ColumnDone ==
    ASSUME NEW N \in Nat, NEW m \in Square(N), NEW c \in 1..N,
           \A j \in (c + 1)..N : m[j][c] = Zero, NEW d \in Fractions
    PROVE  Matrix!Times(Matrix!Times(d, m[c][c]), Det(m, c + 1, N)) =
               Matrix!Times(d, Det(m, c, N))
<1>1. m[c][c] \in Fractions /\ c + 1 \in 1..(N + 1)
  BY DEF Square
<1>2. Det(m, c + 1, N) \in Fractions
  BY <1>1, DetIs
<1>3. Det(m, c, N) = Matrix!Times(m[c][c], Det(m, c + 1, N))
  BY DetPivot
<1> QED
  BY <1>1, <1>2, <1>3, TimesAssociates

LEMMA ZeroColumn ==
    ASSUME NEW N \in Nat, NEW m \in Square(N), NEW c \in 1..N, NEW p \in c..N,
           Greatest(m, c, p, c..N), m[p][c] = Zero
    PROVE  Det(m, c, N) = Zero
<1>1. ASSUME NEW j \in c..N PROVE m[j][c] = Zero
  <2>1. m[j][c] \in Fractions
    BY DEF Square
  <2>2. NotAbove(m[j][c], Zero)
    BY DEF Greatest
  <2> QED
    BY <2>1, <2>2, NotAboveZero
<1> QED
  BY <1>1, DetZeroColumn

Runs(N) == [a : Square(N), det : Fractions, stop : BOOLEAN]

\* What holds of the sequential function after c columns of a matrix whose
\* determinant is w.
After(s, c, w, N) ==
    IF s.stop THEN s.det = Zero /\ w = Zero
    ELSE Matrix!Times(s.det, Det(s.a, c + 1, N)) = w

LEMMA TurnIs ==
    ASSUME NEW N \in Nat, NEW s \in Runs(N), NEW c \in 1..N
    PROVE  /\ Matrix!Turn(s, c, N) \in Runs(N)
           /\ \A w : After(s, c - 1, w, N) => After(Matrix!Turn(s, c, N), c, w, N)
<1> DEFINE m == s.a
           p == Matrix!Scan(s.a, c, c, c + 1, N)
           sw == IF p = c THEN s.a ELSE Matrix!Swapped(s.a, c, p, c..N)
           d == IF p = c THEN s.det ELSE Matrix!Neg(s.det)
           e == Matrix!Eliminated(sw, c, (c + 1)..N)
           x == sw[c][c]
           T == Matrix!Turn(s, c, N)
<1>1. s.a \in Square(N) /\ s.det \in Fractions /\ s.stop \in BOOLEAN
  BY DEF Runs
<1>2. /\ c + 1 \in 1..(N + 1) /\ N \in ((c + 1) - 1)..N /\ c \in 1..(N + 1)
      /\ {c} \union ((c + 1)..N) = c..N /\ (c - 1) + 1 = c
  OBVIOUS
<1>3. p \in c..N /\ Greatest(s.a, c, p, c..N)
  <2>1. /\ p \in {c} \union ((c + 1)..N)
        /\ Greatest(s.a, c, p, {c} \union ((c + 1)..N))
    BY <1>1, <1>2, ScanIs
  <2> HIDE DEF p
  <2> QED
    BY <1>2, <2>1
<1>4. T = IF s.stop THEN s
          ELSE IF s.a[p][c] = Matrix!Frac(0)
          THEN [s EXCEPT !.det = Matrix!Frac(0), !.stop = TRUE]
          ELSE [s EXCEPT !.a = e, !.det = Matrix!Times(d, x)]
  BY DEF Matrix!Turn
<1> HIDE DEF p, T
<1>5. CASE s.stop
  <2>1. T = s
    BY <1>4, <1>5
  <2> QED
    BY <1>5, <2>1 DEF After, T
<1>6. CASE ~s.stop /\ s.a[p][c] = Zero
  <2>1. T = [s EXCEPT !.det = Zero, !.stop = TRUE]
    BY <1>4, <1>6 DEF Zero
  <2>2. T \in Runs(N) /\ T.det = Zero /\ T.stop = TRUE
    BY <2>1, ZeroOne DEF Runs
  <2>3. Det(s.a, c, N) = Zero
    BY <1>1, <1>3, <1>6, ZeroColumn
  <2>4. ASSUME NEW w, After(s, c - 1, w, N) PROVE After(T, c, w, N)
    <3>1. Matrix!Times(s.det, Det(s.a, c, N)) = w
      BY <1>2, <1>6, <2>4 DEF After
    <3>2. w = Zero
      BY <1>1, <2>3, <3>1, TimesZero
    <3> QED
      BY <2>2, <3>2 DEF After
  <2> QED
    BY <2>2, <2>4 DEF T
<1>7. CASE ~s.stop /\ s.a[p][c] # Zero
  <2>1. T = [s EXCEPT !.a = e, !.det = Matrix!Times(d, x)]
    BY <1>4, <1>7 DEF Zero
  <2>2. /\ sw \in Square(N) /\ d \in Fractions /\ x = s.a[p][c]
        /\ Matrix!Times(d, Det(sw, c, N)) = Matrix!Times(s.det, Det(s.a, c, N))
    <3>1. CASE p = c
      BY <1>1, <3>1
    <3>2. CASE p # c
      <4>1. sw = Matrix!Swapped(s.a, c, p, c..N) /\ d = Matrix!Neg(s.det)
        BY <3>2
      <4>2. p \in 1..N /\ c < p /\ c \in c..N
        BY <1>3, <3>2
      <4>3. sw \in Square(N) /\ sw[c][c] = s.a[p][c]
        BY <1>1, <4>1, <4>2, SwappedIs
      <4>4. Matrix!Times(Matrix!Neg(s.det), Det(Matrix!Swapped(s.a, c, p, c..N), c, N)) =
                Matrix!Times(s.det, Det(s.a, c, N))
        BY <1>1, <4>2, SwapKeeps
      <4> QED
        BY <1>1, <4>1, <4>3, <4>4, NegType
    <3> QED
      BY <3>1, <3>2
  <2> HIDE DEF sw, d
  <2>3. x # Zero /\ x \in Fractions
    BY <1>7, <2>2 DEF Square
  <2>4. (c + 1)..N \in SUBSET ((c + 1)..N) /\ c \notin (c + 1)..N
    OBVIOUS
  <2>5. /\ e \in Square(N) /\ e[c] = sw[c]
        /\ \A j \in (c + 1)..N : e[j][c] = Zero
    <3>1. ~(c < c) /\ c \in 1..N
      OBVIOUS
    <3> QED
      BY <2>2, <2>3, <2>4, <3>1, EliminatedIs
  <2>6. Det(e, c, N) = Det(sw, c, N)
    BY <2>2, <2>3, <2>4, DetEliminated
  <2> HIDE DEF e
  <2>7. Matrix!Times(Matrix!Times(d, e[c][c]), Det(e, c + 1, N)) =
            Matrix!Times(d, Det(e, c, N))
    BY <2>2, <2>5, ColumnDone
  <2>8. e[c][c] = x
    BY <2>5
  <2> HIDE DEF x
  <2>9. Matrix!Times(d, x) \in Fractions
    BY <2>2, <2>3, TimesType
  <2>10. T \in Runs(N) /\ T.a = e /\ T.det = Matrix!Times(d, x) /\ T.stop = s.stop
    BY <2>1, <2>5, <2>9 DEF Runs
  <2>11. ASSUME NEW w, After(s, c - 1, w, N) PROVE After(T, c, w, N)
    <3>1. Matrix!Times(s.det, Det(s.a, c, N)) = w
      BY <1>2, <1>7, <2>11 DEF After
    <3>2. Matrix!Times(T.det, Det(T.a, c + 1, N)) = w
      BY <2>2, <2>6, <2>7, <2>8, <2>10, <3>1
    <3> QED
      BY <1>7, <2>10, <3>2 DEF After
  <2> QED
    BY <2>10, <2>11 DEF T
<1> QED
  BY <1>5, <1>6, <1>7

\* detWithoutOmp returns the determinant.
LEMMA SequentialIs ==
    ASSUME NEW N \in Nat, NEW m \in Square(N)
    PROVE  Matrix!detWithoutOmp(m) = Det(m, 1, N)
<1> DEFINE X == Runs(N)
           b == [a |-> m, det |-> Matrix!Frac(1), stop |-> FALSE]
           P(g) == g = [c \in 0..N |-> IF c = 0 THEN b ELSE Matrix!Turn(g[c - 1], c, N)]
           F == [c \in 1..N |-> [s \in Runs(N) |-> Matrix!Turn(s, c, N)]]
           w == Det(m, 1, N)
<1>1. b \in Runs(N) /\ b.a = m /\ b.det = One /\ b.stop = FALSE
  BY ZeroOne DEF Runs, One
<1>2. Matrix!detWithoutOmp(m) = (CHOOSE g : P(g))[N].det
  <2>1. Len(m) = N
    BY SquareLen
  <2> QED
    BY <2>1 DEF Matrix!detWithoutOmp
<1> HIDE DEF b
<1>3. /\ F \in [1..N -> [Runs(N) -> Runs(N)]]
      /\ \A c \in 1..N, s \in Runs(N) : F[c][s] = Matrix!Turn(s, c, N)
  BY TurnIs
<1> HIDE DEF F
<1>4. PICK h : IsRecursion(h, N, Runs(N), b, F)
  BY <1>1, <1>3, RecursionExists
<1>5. P(h)
  <2>1. ASSUME NEW c \in 0..N PROVE h[c] = IF c = 0 THEN b ELSE Matrix!Turn(h[c - 1], c, N)
    <3>1. c # 0 => c \in 1..N /\ c - 1 \in 0..N
      OBVIOUS
    <3> QED
      BY <1>3, <1>4, <3>1 DEF IsRecursion
  <2>2. h = [c \in 0..N |-> h[c]]
    BY <1>4 DEF IsRecursion
  <2> QED
    BY <2>1, <2>2
<1> DEFINE v == CHOOSE g : P(g)
<1>6. P(v)
  <2> HIDE DEF P
  <2> QED
    BY <1>5
<1> HIDE DEF v
<1>7. v[0] = b /\ \A c \in 1..N : v[c] = Matrix!Turn(v[c - 1], c, N)
  BY <1>6
<1> HIDE DEF P
<1>8. 1 \in 1..(N + 1) /\ 0 + 1 = 1 /\ N \in 0..N /\ N + 1 \in 1..(N + 1)
  OBVIOUS
<1>9. w \in Fractions
  BY <1>8, DetIs
<1> DEFINE S == {c \in 0..N : v[c] \in Runs(N) /\ After(v[c], c, w, N)}
<1>10. 0 \in S
  <2>1. Matrix!Times(One, w) = w
    BY <1>9, TimesOne
  <2>2. After(b, 0, w, N)
    BY <1>1, <1>8, <2>1 DEF After
  <2> QED
    BY <1>1, <1>7, <2>2
<1> HIDE DEF w
<1>11. ASSUME NEW c \in 1..N, c - 1 \in S PROVE c \in S
  BY <1>7, <1>11, TurnIs
<1> HIDE DEF S
<1>12. \A c \in 0..N : c \in S
  BY <1>10, <1>11, BoundedInduction
<1>13. v[N] \in Runs(N) /\ After(v[N], N, w, N)
  BY <1>8, <1>12 DEF S
<1>14. v[N].det = w
  <2> DEFINE f == v[N]
  <2>1. f.a \in Square(N) /\ f.det \in Fractions
    BY <1>13 DEF Runs
  <2>2. CASE f.stop
    BY <1>13, <2>2 DEF After
  <2>3. CASE ~f.stop
    <3>1. Matrix!Times(f.det, Det(f.a, N + 1, N)) = w
      BY <1>13, <2>3 DEF After
    <3>2. Det(f.a, N + 1, N) = One
      BY <2>1, DetEnd
    <3> QED
      BY <2>1, <3>1, <3>2, TimesOne
  <2> QED
    BY <2>2, <2>3
<1> QED
  BY <1>2, <1>14 DEF v, w
-----------------------------------------------------------------------------
(***************************************************************************)
(* matrix_det.cpp: the teams of threads, on a matrix of N rows             *)
(***************************************************************************)
MatrixTypes(N) ==
    /\ N \in Nat /\ threadsCnt \in Nat \ {0}
    /\ matrix \in Square(N) /\ a \in Square(N) /\ det \in Fractions
    /\ finished \subseteq 1..threadsCnt

\* In the loop over the columns.
InLoop(N) ==
    /\ column \in 1..N /\ maxValueIndex \in column..N
    /\ localMax \in [1..threadsCnt -> column..N]

\* det is still to be multiplied by the determinant of what is left.
Remains(N) == Matrix!Times(det, Det(a, column, N)) = Det(matrix, 1, N)

\* Thread t has looked at its rows.
Looked(N, t) == Greatest(a, column, localMax[t], Part(threadsCnt, t, column + 1, N))

Searching(N) ==
    /\ InLoop(N) /\ Remains(N) /\ maxValueIndex = column
    /\ \A t \in finished : Looked(N, t)

Comparing(N) ==
    /\ InLoop(N) /\ Remains(N)
    /\ \A t \in 1..threadsCnt : Looked(N, t)
    /\ Greatest(a, column, maxValueIndex, {column} \union {localMax[t] : t \in finished})

Testing(N) ==
    /\ InLoop(N) /\ Remains(N) /\ finished = {}
    /\ Greatest(a, column, maxValueIndex, column..N)

\* The columns that are exchanged already, and a as it was before.
Done(N) == UNION {Part(threadsCnt, t, column, N) : t \in finished}
Before(N) == Matrix!Swapped(a, column, maxValueIndex, Done(N))

Swapping(N) ==
    /\ InLoop(N) /\ maxValueIndex # column
    /\ Before(N)[maxValueIndex][column] # Zero
    /\ Matrix!Times(Matrix!Neg(det), Det(Before(N), column, N)) = Det(matrix, 1, N)

Eliminating(N) ==
    /\ InLoop(N) /\ a[column][column] # Zero
    /\ \E d \in Fractions : /\ det = Matrix!Times(d, a[column][column])
                            /\ Matrix!Times(d, Det(a, column, N)) = Det(matrix, 1, N)
    /\ \A t \in finished : \A j \in Part(threadsCnt, t, column + 1, N) : a[j][column] = Zero

Stages(N) ==
    /\ stage = "read" => a = matrix /\ det = One
    /\ stage = "search" => Searching(N)
    /\ stage = "critical" => Comparing(N)
    /\ stage = "test" => Testing(N)
    /\ stage = "swap" => Swapping(N)
    /\ stage = "eliminate" => Eliminating(N)
    /\ stage = "output" => det = Det(matrix, 1, N)

MatrixInv(N) == MatrixTypes(N) /\ Stages(N)

LEMMA BeginColumnKeeps ==
    ASSUME NEW N \in Nat, NEW c \in 1..(N + 1), Len(a) = N, MatrixTypes(N),
           Matrix!BeginColumn(c), UNCHANGED <<threadsCnt, matrix, det>>, a' \in Square(N),
           Matrix!Times(det, Det(a', c, N)) = Det(matrix, 1, N)
    PROVE  MatrixInv(N)'
<1>1. /\ column' = c /\ maxValueIndex' = c /\ finished' = {} /\ threadsCnt' = threadsCnt
      /\ matrix' = matrix /\ det' = det /\ localMax' = [t \in 1..threadsCnt |-> c]
      /\ stage' = IF c <= N THEN "search" ELSE "output"
  BY DEF Matrix!BeginColumn, Matrix!LastRow, Matrix!Threads
<1>2. MatrixTypes(N)'
  BY <1>1 DEF MatrixTypes
<1>3. CASE c <= N
  <2>1. stage' = "search"
    BY <1>1, <1>3
  <2>2. c \in 1..N /\ c \in c..N
    BY <1>3
  <2>3. InLoop(N)'
    BY <1>1, <2>2 DEF InLoop
  <2>4. Remains(N)'
    BY <1>1 DEF Remains
  <2>5. Searching(N)'
    BY <1>1, <2>3, <2>4 DEF Searching
  <2> QED
    BY <1>2, <2>1, <2>5 DEF MatrixInv, Stages
<1>4. CASE ~(c <= N)
  <2>1. stage' = "output" /\ c = N + 1
    BY <1>1, <1>4
  <2>2. Det(a', N + 1, N) = One
    BY DetEnd
  <2>3. det \in Fractions
    BY DEF MatrixTypes
  <2>4. det = Det(matrix, 1, N)
    BY <2>1, <2>2, <2>3, TimesOne
  <2> QED
    BY <1>1, <1>2, <2>1, <2>4 DEF MatrixInv, Stages
<1> QED
  BY <1>3, <1>4

LEMMA ReadKeeps ==
    ASSUME NEW N, MatrixInv(N), Matrix!Read
    PROVE  MatrixInv(N)'
<1>1. /\ MatrixTypes(N) /\ N \in Nat /\ a \in Square(N) /\ matrix \in Square(N)
      /\ a = matrix /\ det = One
  BY DEF MatrixInv, MatrixTypes, Stages, Matrix!Read
<1>2. CASE stage' = "error" /\ UNCHANGED <<column, maxValueIndex, localMax, finished>>
  <2>1. MatrixTypes(N)'
    BY <1>1, <1>2 DEF Matrix!Read, MatrixTypes
  <2> QED
    BY <1>2, <2>1 DEF MatrixInv, Stages
<1>3. CASE Matrix!BeginColumn(1)
  <2>1. 1 \in 1..(N + 1)
    BY <1>1
  <2>2. Len(a) = N
    BY <1>1, SquareLen
  <2>3. a' = a /\ UNCHANGED <<threadsCnt, matrix, det>>
    BY DEF Matrix!Read
  <2>4. Det(matrix, 1, N) \in Fractions
    BY <1>1, <2>1, DetIs
  <2>5. Matrix!Times(det, Det(a', 1, N)) = Det(matrix, 1, N)
    BY <1>1, <2>3, <2>4, TimesOne
  <2> QED
    BY <1>1, <1>3, <2>1, <2>2, <2>3, <2>5, BeginColumnKeeps
<1> QED
  BY <1>2, <1>3 DEF Matrix!Read

LEMMA OutputKeeps ==
    ASSUME NEW N, MatrixInv(N), Matrix!Output
    PROVE  MatrixInv(N)'
<1>1. MatrixTypes(N)'
  BY DEF MatrixInv, MatrixTypes, Matrix!Output
<1>2. stage' \in {"printed", "error"}
  BY DEF Matrix!Output
<1> QED
  BY <1>1, <1>2 DEF MatrixInv, Stages

LEMMA ZeroPivotKeeps ==
    ASSUME NEW N, MatrixInv(N), Matrix!ZeroPivot
    PROVE  MatrixInv(N)'
<1>1. /\ N \in Nat /\ a \in Square(N) /\ det \in Fractions /\ Testing(N)
      /\ a[maxValueIndex][column] = Zero
      /\ stage' = "output" /\ det' = Zero /\ matrix' = matrix
  BY DEF MatrixInv, MatrixTypes, Stages, Matrix!ZeroPivot, Zero
<1>2. MatrixTypes(N)'
  BY ZeroOne DEF MatrixInv, MatrixTypes, Matrix!ZeroPivot, Zero
<1>3. Det(a, column, N) = Zero
  <2>1. /\ column \in 1..N /\ maxValueIndex \in column..N
        /\ Greatest(a, column, maxValueIndex, column..N)
    BY <1>1 DEF Testing, InLoop
  <2> QED
    BY <1>1, <2>1, ZeroColumn
<1>4. Det(matrix, 1, N) = Zero
  <2>1. Matrix!Times(det, Det(a, column, N)) = Det(matrix, 1, N)
    BY <1>1 DEF Testing, Remains
  <2> QED
    BY <1>1, <1>3, <2>1, TimesZero
<1>5. det' = Det(matrix', 1, N)
  BY <1>1, <1>4
<1> QED
  BY <1>1, <1>2, <1>5 DEF MatrixInv, Stages

LEMMA PivotKeeps ==
    ASSUME NEW N, MatrixInv(N), Matrix!Pivot
    PROVE  MatrixInv(N)'
<1>1. /\ N \in Nat /\ a \in Square(N) /\ det \in Fractions /\ Testing(N)
      /\ a[maxValueIndex][column] # Zero /\ finished = {}
      /\ UNCHANGED <<threadsCnt, matrix, a, column, maxValueIndex, localMax, finished>>
  BY DEF MatrixInv, MatrixTypes, Stages, Testing, Matrix!Pivot, Zero
<1>2. /\ column \in 1..N /\ maxValueIndex \in column..N /\ InLoop(N)
      /\ Matrix!Times(det, Det(a, column, N)) = Det(matrix, 1, N)
  BY <1>1 DEF Testing, InLoop, Remains
<1>3. InLoop(N)'
  BY <1>1, <1>2 DEF InLoop
<1>4. CASE maxValueIndex # column /\ det' = Matrix!Neg(det) /\ stage' = "swap"
  <2>1. det' \in Fractions /\ Matrix!Neg(det') = det
    BY <1>1, <1>4, NegType, NegNeg
  <2>2. MatrixTypes(N)'
    BY <1>1, <2>1 DEF MatrixInv, MatrixTypes
  <2>3. Done(N)' = {}
    BY <1>1 DEF Done
  <2> DEFINE w == Matrix!Swapped(a, column, maxValueIndex, {})
  <2>4. w = a
    <3>1. column \in 1..N /\ maxValueIndex \in 1..N /\ column # maxValueIndex
      BY <1>1, <1>2, <1>4
    <3>2. /\ w \in Square(N)
          /\ \A k \in 1..N : /\ w[column][k] = a[column][k]
                             /\ w[maxValueIndex][k] = a[maxValueIndex][k]
          /\ \A j \in 1..N : j # column /\ j # maxValueIndex => w[j] = a[j]
      BY <1>1, <3>1, SwappedIs
    <3> HIDE DEF w
    <3>3. w[column] = a[column] /\ w[maxValueIndex] = a[maxValueIndex]
      BY <1>1, <3>1, <3>2 DEF Square
    <3>4. \A j \in 1..N : w[j] = a[j]
      BY <3>2, <3>3
    <3> QED
      BY <1>1, <3>2, <3>4 DEF Square
  <2>5. Before(N)' = a
    BY <1>1, <2>3, <2>4 DEF Before
  <2>6. Swapping(N)'
    BY <1>1, <1>2, <1>3, <1>4, <2>1, <2>5 DEF Swapping
  <2> QED
    BY <1>4, <2>2, <2>6 DEF MatrixInv, Stages
<1>5. CASE /\ maxValueIndex = column /\ det' = Matrix!Times(det, a[column][column])
           /\ stage' = "eliminate"
  <2>1. a[column][column] \in Fractions
    BY <1>1, <1>2 DEF Square
  <2>2. det' \in Fractions
    BY <1>1, <1>5, <2>1, TimesType
  <2>3. MatrixTypes(N)'
    BY <1>1, <2>2 DEF MatrixInv, MatrixTypes
  <2>4. /\ det' = Matrix!Times(det, a'[column'][column'])
        /\ Matrix!Times(det, Det(a', column', N)) = Det(matrix', 1, N)
    BY <1>1, <1>2, <1>5
  <2>5. Eliminating(N)'
    BY <1>1, <1>3, <1>5, <2>4 DEF Eliminating
  <2> QED
    BY <1>5, <2>3, <2>5 DEF MatrixInv, Stages
<1> QED
  BY <1>4, <1>5 DEF Matrix!Pivot

\* The last thread at the barrier finds all the others there.
LEMMA ArrivesIs ==
    ASSUME NEW t, NEW next, Matrix!Arrives(t, next), finished \subseteq 1..threadsCnt
    PROVE  /\ t \in 1..threadsCnt /\ t \notin finished
           /\ \/ /\ stage' = stage /\ finished' = finished \union {t}
                 /\ finished \union {t} # 1..threadsCnt
              \/ /\ stage' = next /\ finished' = {} /\ finished \union {t} = 1..threadsCnt
BY DEF Matrix!Arrives, Matrix!Threads

LEMMA SearchKeeps ==
    ASSUME NEW N, MatrixInv(N), NEW t, Matrix!Search(t)
    PROVE  MatrixInv(N)'
<1>1. /\ stage = "search" /\ N \in Nat /\ a \in Square(N) /\ threadsCnt \in Nat \ {0}
      /\ finished \subseteq 1..threadsCnt /\ Searching(N) /\ MatrixTypes(N)
      /\ Matrix!Arrives(t, "critical")
      /\ UNCHANGED <<threadsCnt, matrix, a, det, column, maxValueIndex>>
  BY DEF MatrixInv, MatrixTypes, Stages, Matrix!Search
<1>2. /\ t \in 1..threadsCnt /\ t \notin finished
      /\ \/ /\ stage' = "search" /\ finished' = finished \union {t}
         \/ /\ stage' = "critical" /\ finished' = {} /\ finished \union {t} = 1..threadsCnt
  BY <1>1, ArrivesIs
<1>3. /\ column \in 1..N /\ localMax \in [1..threadsCnt -> column..N] /\ Remains(N)
      /\ maxValueIndex = column /\ maxValueIndex \in column..N
  BY <1>1 DEF Searching, InLoop
<1> DEFINE lo == Begin(threadsCnt, t, column + 1, N)
           hi == Begin(threadsCnt, t + 1, column + 1, N) - 1
           p == Matrix!Scan(a, column, localMax[t], lo, hi)
<1>4. localMax' = [localMax EXCEPT ![t] = p]
  <2>1. Len(a) = N
    BY <1>1, SquareLen
  <2> QED
    BY <2>1, PartIs DEF Matrix!Search, Matrix!LastRow
<1>5. Part(threadsCnt, t, column + 1, N) = lo..hi
  BY DEF Part
<1>6. /\ lo \in (column + 1)..(N + 1) /\ hi \in (lo - 1)..N
      /\ lo..hi \subseteq (column + 1)..N
  <2>1. column + 1 \in Int /\ N \in Int /\ N >= (column + 1) - 1
    BY <1>1, <1>3
  <2> QED
    BY <1>1, <1>2, <1>5, <2>1, PartsCover
<1> HIDE DEF lo, hi
<1>7. /\ p \in {localMax[t]} \union (lo..hi)
      /\ Greatest(a, column, p, {localMax[t]} \union (lo..hi))
  <2>1. /\ localMax[t] \in 1..N /\ lo \in 1..(N + 1)
    BY <1>1, <1>2, <1>3, <1>6
  <2> QED
    BY <1>1, <1>3, <1>6, <2>1, ScanIs
<1> HIDE DEF p
<1>8. p \in column..N
  <2>1. localMax[t] \in column..N /\ lo..hi \subseteq column..N
    BY <1>1, <1>2, <1>3, <1>6
  <2> QED
    BY <1>7, <2>1
<1>9. localMax' \in [1..threadsCnt -> column..N]
  BY <1>2, <1>3, <1>4, <1>8
<1>10. MatrixTypes(N)'
  BY <1>1, <1>2 DEF MatrixTypes
<1>11. InLoop(N)' /\ Remains(N)'
  BY <1>1, <1>3, <1>9 DEF InLoop, Remains
<1>12. ASSUME NEW u \in finished \union {t} PROVE Looked(N, u)'
  <2>1. CASE u = t
    <3>1. localMax'[t] = p
      BY <1>2, <1>3, <1>4
    <3>2. Greatest(a, column, p, lo..hi)
      BY <1>7 DEF Greatest
    <3> QED
      BY <1>1, <1>5, <2>1, <3>1, <3>2 DEF Looked
  <2>2. CASE u # t
    <3>1. localMax'[u] = localMax[u]
      BY <1>3, <1>4, <2>2
    <3>2. Looked(N, u)
      BY <1>1, <1>12, <2>2 DEF Searching
    <3> QED
      BY <1>1, <3>1, <3>2 DEF Looked
  <2> QED
    BY <2>1, <2>2
<1>13. CASE stage' = "search" /\ finished' = finished \union {t}
  <2>1. \A u \in finished' : Looked(N, u)'
    BY <1>12, <1>13
  <2>2. Searching(N)'
    BY <1>1, <1>3, <1>11, <2>1 DEF Searching
  <2> QED
    BY <1>10, <1>13, <2>2 DEF MatrixInv, Stages
<1>14. CASE stage' = "critical" /\ finished' = {} /\ finished \union {t} = 1..threadsCnt
  <2>1. \A u \in (1..threadsCnt)' : Looked(N, u)'
    BY <1>1, <1>12, <1>14
  <2>2. a[column][column] \in Fractions
    BY <1>1, <1>3 DEF Square
  <2>3. Greatest(a', column', maxValueIndex', {column'} \union {localMax'[u] : u \in finished'})
    BY <1>1, <1>3, <1>14, <2>2, NotAboveItself DEF Greatest
  <2>4. Comparing(N)'
    BY <1>11, <2>1, <2>3 DEF Comparing
  <2> QED
    BY <1>10, <1>14, <2>4 DEF MatrixInv, Stages
<1> QED
  BY <1>2, <1>13, <1>14

LEMMA CriticalKeeps ==
    ASSUME NEW N, MatrixInv(N), NEW t, Matrix!Critical(t)
    PROVE  MatrixInv(N)'
<1>1. /\ stage = "critical" /\ N \in Nat /\ a \in Square(N) /\ threadsCnt \in Nat \ {0}
      /\ finished \subseteq 1..threadsCnt /\ Comparing(N) /\ MatrixTypes(N)
      /\ Matrix!Arrives(t, "test") /\ maxValueIndex' = Matrix!Better(localMax[t])
      /\ UNCHANGED <<threadsCnt, matrix, a, det, column, localMax>>
  BY DEF MatrixInv, MatrixTypes, Stages, Matrix!Critical
<1>2. /\ t \in 1..threadsCnt /\ t \notin finished
      /\ \/ /\ stage' = "critical" /\ finished' = finished \union {t}
         \/ /\ stage' = "test" /\ finished' = {} /\ finished \union {t} = 1..threadsCnt
  BY <1>1, ArrivesIs
<1> DEFINE R == {column} \union {localMax[u] : u \in finished}
           j == localMax[t]
           b == maxValueIndex
           p == maxValueIndex'
           R1 == R \union {j}
<1>3. /\ column \in 1..N /\ localMax \in [1..threadsCnt -> column..N] /\ Remains(N)
      /\ b \in column..N /\ Greatest(a, column, b, R)
      /\ \A u \in 1..threadsCnt : Looked(N, u)
  BY <1>1 DEF Comparing, InLoop
<1>4. p = IF Matrix!Greater(Matrix!fabs(a[j][column]), Matrix!fabs(a[b][column])) THEN j ELSE b
  BY <1>1 DEF Matrix!Better
<1>5. R1 \subseteq column..N /\ j \in column..N /\ p \in column..N
  BY <1>1, <1>2, <1>3, <1>4
<1>6. R1 = {column} \union {localMax[u] : u \in finished \union {t}}
  OBVIOUS
<1>7. \A k \in column..N : a[k][column] \in Fractions
  <2>1. \A k \in column..N : k \in 1..N
    BY <1>1, <1>3
  <2> QED
    BY <1>1, <1>3, <2>1 DEF Square
<1> HIDE DEF R, j, p, R1
<1>8. Greatest(a, column, p, R1)
  <2>1. CASE Matrix!Greater(Matrix!fabs(a[j][column]), Matrix!fabs(a[b][column]))
    <3>1. p = j /\ NotAbove(a[b][column], a[j][column])
      BY <1>3, <1>4, <1>5, <1>7, <2>1, GreaterIsAbove
    <3>2. ASSUME NEW k \in R1 PROVE NotAbove(a[k][column], a[j][column])
      <4>1. CASE k = j
        BY <1>5, <1>7, <4>1, NotAboveItself
      <4>2. CASE k # j
        <5>1. NotAbove(a[k][column], a[b][column])
          BY <1>3, <4>2 DEF Greatest, R1
        <5>2. a[k][column] \in Fractions /\ a[b][column] \in Fractions /\ a[j][column] \in Fractions
          BY <1>3, <1>5, <1>7
        <5> QED
          BY <3>1, <5>1, <5>2, NotAboveTransitive
      <4> QED
        BY <4>1, <4>2
    <3> QED
      BY <3>1, <3>2 DEF Greatest
  <2>2. CASE ~Matrix!Greater(Matrix!fabs(a[j][column]), Matrix!fabs(a[b][column]))
    <3>1. p = b /\ NotAbove(a[j][column], a[b][column])
      BY <1>4, <2>2 DEF NotAbove
    <3> QED
      BY <1>3, <3>1 DEF Greatest, R1
  <2> QED
    BY <2>1, <2>2
<1>9. MatrixTypes(N)'
  BY <1>1, <1>2 DEF MatrixTypes
<1>10. InLoop(N)' /\ Remains(N)'
  BY <1>1, <1>3, <1>5 DEF InLoop, Remains, p
<1>11. \A u \in (1..threadsCnt)' : Looked(N, u)'
  BY <1>1, <1>3 DEF Looked
<1>12. CASE stage' = "critical" /\ finished' = finished \union {t}
  <2>1. {column'} \union {localMax'[u] : u \in finished'} = R1
    BY <1>1, <1>6, <1>12
  <2>2. Comparing(N)'
    BY <1>1, <1>8, <1>10, <1>11, <2>1 DEF Comparing, p
  <2> QED
    BY <1>9, <1>12, <2>2 DEF MatrixInv, Stages
<1>13. CASE stage' = "test" /\ finished' = {} /\ finished \union {t} = 1..threadsCnt
  <2>1. ASSUME NEW k \in column..N PROVE NotAbove(a[k][column], a[p][column])
    <3>1. CASE k = column
      BY <1>6, <1>8, <3>1 DEF Greatest
    <3>2. CASE k # column
      <4>1. k \in (column + 1)..N /\ column + 1 \in Int /\ N \in Int /\ N >= (column + 1) - 1
        BY <1>1, <1>3, <3>2
      <4>2. PICK u \in 1..threadsCnt : k \in Part(threadsCnt, u, column + 1, N)
        BY <1>1, <4>1, PartsCover
      <4>3. NotAbove(a[k][column], a[localMax[u]][column])
        BY <1>3, <4>2 DEF Looked, Greatest
      <4>4. localMax[u] \in R1 /\ localMax[u] \in column..N
        BY <1>3, <1>6, <1>13
      <4>5. NotAbove(a[localMax[u]][column], a[p][column])
        BY <1>8, <4>4 DEF Greatest
      <4>6. /\ a[k][column] \in Fractions /\ a[localMax[u]][column] \in Fractions
            /\ a[p][column] \in Fractions
        BY <1>5, <1>7, <4>4
      <4> QED
        BY <4>3, <4>5, <4>6, NotAboveTransitive
    <3> QED
      BY <3>1, <3>2
  <2>2. Greatest(a', column', maxValueIndex', column'..N)
    BY <1>1, <2>1 DEF Greatest, p
  <2>3. Testing(N)'
    BY <1>10, <1>13, <2>2 DEF Testing
  <2> QED
    BY <1>9, <1>13, <2>3 DEF MatrixInv, Stages
<1> QED
  BY <1>2, <1>12, <1>13

\* Columns T exchanged, and exchanged back together with S.
LEMMA SwappedBack ==
    ASSUME NEW N \in Nat, NEW m \in Square(N), NEW r \in 1..N, NEW s \in 1..N, r # s,
           NEW S, NEW T, S \intersect T = {}
    PROVE  Matrix!Swapped(Matrix!Swapped(m, r, s, T), r, s, S \union T) =
               Matrix!Swapped(m, r, s, S)
<1> DEFINE w == Matrix!Swapped(m, r, s, T)
           u == Matrix!Swapped(w, r, s, S \union T)
           v == Matrix!Swapped(m, r, s, S)
<1>1. /\ w \in Square(N)
      /\ \A k \in 1..N : /\ w[r][k] = (IF k \in T THEN m[s][k] ELSE m[r][k])
                         /\ w[s][k] = (IF k \in T THEN m[r][k] ELSE m[s][k])
      /\ \A j \in 1..N : j # r /\ j # s => w[j] = m[j]
  BY SwappedIs
<1>2. /\ v \in Square(N)
      /\ \A k \in 1..N : /\ v[r][k] = (IF k \in S THEN m[s][k] ELSE m[r][k])
                         /\ v[s][k] = (IF k \in S THEN m[r][k] ELSE m[s][k])
      /\ \A j \in 1..N : j # r /\ j # s => v[j] = m[j]
  BY SwappedIs
<1> HIDE DEF w, v
<1>3. /\ u \in Square(N)
      /\ \A k \in 1..N : /\ u[r][k] = (IF k \in S \union T THEN w[s][k] ELSE w[r][k])
                         /\ u[s][k] = (IF k \in S \union T THEN w[r][k] ELSE w[s][k])
      /\ \A j \in 1..N : j # r /\ j # s => u[j] = w[j]
  BY <1>1, SwappedIs
<1> HIDE DEF u
<1>4. \A k \in 1..N : u[r][k] = v[r][k] /\ u[s][k] = v[s][k]
  BY <1>1, <1>2, <1>3
<1>5. u[r] = v[r] /\ u[s] = v[s]
  <2>1. /\ u[r] \in [1..N -> Fractions] /\ v[r] \in [1..N -> Fractions]
        /\ u[s] \in [1..N -> Fractions] /\ v[s] \in [1..N -> Fractions]
    BY <1>2, <1>3 DEF Square
  <2> QED
    BY <1>4, <2>1
<1>6. \A j \in 1..N : u[j] = v[j]
  BY <1>1, <1>2, <1>3, <1>5
<1>7. u = v
  BY <1>2, <1>3, <1>6 DEF Square
<1> QED
  BY <1>7 DEF u, v, w

LEMMA SwapKeepsInv ==
    ASSUME NEW N, MatrixInv(N), NEW t, Matrix!Swap(t)
    PROVE  MatrixInv(N)'
<1> DEFINE c == column
           p == maxValueIndex
           T == Part(threadsCnt, t, column, N)
           w == Matrix!Swapped(a, column, maxValueIndex, T)
<1>1. /\ stage = "swap" /\ N \in Nat /\ a \in Square(N) /\ threadsCnt \in Nat \ {0}
      /\ finished \subseteq 1..threadsCnt /\ Swapping(N) /\ MatrixTypes(N)
      /\ Matrix!Arrives(t, "eliminate") /\ det \in Fractions
      /\ det' = (IF stage' = "eliminate" THEN Matrix!Times(det, a'[column][column]) ELSE det)
      /\ UNCHANGED <<threadsCnt, matrix, column, maxValueIndex, localMax>>
  BY DEF MatrixInv, MatrixTypes, Stages, Matrix!Swap
<1>2. a' = w
  <2>1. Len(a) = N
    BY <1>1, SquareLen
  <2> QED
    BY <2>1, PartIs DEF Matrix!Swap, Matrix!LastRow
<1>3. /\ t \in 1..threadsCnt /\ t \notin finished
      /\ \/ /\ stage' = "swap" /\ finished' = finished \union {t}
         \/ /\ stage' = "eliminate" /\ finished' = {} /\ finished \union {t} = 1..threadsCnt
  BY <1>1, ArrivesIs
<1>4. /\ c \in 1..N /\ p \in 1..N /\ c < p /\ c # p /\ InLoop(N)
      /\ Before(N)[p][c] # Zero
      /\ Matrix!Times(Matrix!Neg(det), Det(Before(N), c, N)) = Det(matrix, 1, N)
  BY <1>1 DEF Swapping, InLoop
<1>5. w \in Square(N)
  BY <1>1, <1>4, SwappedIs
<1> DEFINE D == Done(N)
<1>6. /\ D \intersect T = {}
      /\ D \union T = UNION {Part(threadsCnt, u, column, N) : u \in finished \union {t}}
      /\ finished \union {t} = 1..threadsCnt => D \union T = c..N
  <2>1. c \in Int /\ N \in Int /\ N >= c - 1
    BY <1>1, <1>4
  <2>2. /\ \A u \in 1..threadsCnt : Part(threadsCnt, u, c, N) \subseteq c..N
        /\ \A j \in c..N : \E u \in 1..threadsCnt : j \in Part(threadsCnt, u, c, N)
        /\ \A u \in 1..threadsCnt, v \in 1..threadsCnt :
              u # v => Part(threadsCnt, u, c, N) \intersect Part(threadsCnt, v, c, N) = {}
    BY <1>1, <2>1, PartsCover
  <2>3. D \intersect T = {}
    BY <1>1, <1>3, <2>2 DEF Done
  <2>4. D \union T = UNION {Part(threadsCnt, u, column, N) : u \in finished \union {t}}
    BY DEF Done
  <2> HIDE DEF D, T
  <2>5. ASSUME finished \union {t} = 1..threadsCnt PROVE D \union T = c..N
    <3>1. D \union T = UNION {Part(threadsCnt, u, column, N) : u \in 1..threadsCnt}
      BY <2>4, <2>5
    <3> QED
      BY <2>2, <3>1
  <2> QED
    BY <2>3, <2>4, <2>5
<1>7. Matrix!Swapped(w, c, p, D \union T) = Before(N)
  <2>1. Matrix!Swapped(w, c, p, D \union T) = Matrix!Swapped(a, c, p, D)
    BY <1>1, <1>4, <1>6, SwappedBack
  <2> QED
    BY <2>1 DEF Before
<1> HIDE DEF w, D, T
<1>8. InLoop(N)'
  BY <1>1, <1>4 DEF InLoop
<1>9. CASE stage' = "swap" /\ finished' = finished \union {t}
  <2>1. det' = det
    BY <1>1, <1>9
  <2>2. MatrixTypes(N)'
    BY <1>1, <1>2, <1>3, <1>5, <1>9, <2>1 DEF MatrixTypes
  <2>3. Done(N)' = D \union T
    BY <1>1, <1>6, <1>9 DEF Done
  <2>4. Before(N)' = Before(N)
    BY <1>1, <1>2, <1>7, <2>3 DEF Before
  <2>5. Swapping(N)'
    BY <1>1, <1>4, <1>8, <2>1, <2>4 DEF Swapping
  <2> QED
    BY <1>9, <2>2, <2>5 DEF MatrixInv, Stages
<1>10. CASE stage' = "eliminate" /\ finished' = {} /\ finished \union {t} = 1..threadsCnt
  <2>1. Before(N) = Matrix!Swapped(w, c, p, c..N)
    BY <1>6, <1>7, <1>10
  <2>2. w[c][c] # Zero /\ w[c][c] \in Fractions
    <3>1. c \in c..N
      BY <1>1, <1>4
    <3>2. Matrix!Swapped(w, c, p, c..N)[p][c] = w[c][c]
      BY <1>1, <1>4, <1>5, <3>1, SwappedIs
    <3>3. w[c][c] \in Fractions
      BY <1>4, <1>5 DEF Square
    <3> QED
      BY <1>4, <2>1, <3>2, <3>3
  <2>3. Matrix!Times(det, Det(w, c, N)) = Det(matrix, 1, N)
    <3>1. Matrix!Times(Matrix!Neg(det), Det(Matrix!Swapped(w, c, p, c..N), c, N)) =
              Matrix!Times(det, Det(w, c, N))
      BY <1>1, <1>4, <1>5, SwapKeeps
    <3> QED
      BY <1>4, <2>1, <3>1
  <2>4. det' = Matrix!Times(det, w[c][c])
    BY <1>1, <1>2, <1>10
  <2>5. det' \in Fractions
    BY <1>1, <2>2, <2>4, TimesType
  <2>6. MatrixTypes(N)'
    BY <1>1, <1>2, <1>5, <1>10, <2>5 DEF MatrixTypes
  <2>7. /\ det' = Matrix!Times(det, a'[column'][column'])
        /\ Matrix!Times(det, Det(a', column', N)) = Det(matrix', 1, N)
        /\ a'[column'][column'] # Zero
    BY <1>1, <1>2, <2>2, <2>3, <2>4
  <2>8. Eliminating(N)'
    BY <1>1, <1>8, <1>10, <2>7 DEF Eliminating
  <2> QED
    BY <1>10, <2>6, <2>8 DEF MatrixInv, Stages
<1> QED
  BY <1>3, <1>9, <1>10

LEMMA EliminateKeeps ==
    ASSUME NEW N, MatrixInv(N), NEW t, Matrix!Eliminate(t)
    PROVE  MatrixInv(N)'
<1> DEFINE c == column
           T == Part(threadsCnt, t, column + 1, N)
           e == Matrix!Eliminated(a, column, T)
<1>1. /\ stage = "eliminate" /\ N \in Nat /\ a \in Square(N) /\ threadsCnt \in Nat \ {0}
      /\ finished \subseteq 1..threadsCnt /\ Eliminating(N) /\ MatrixTypes(N)
      /\ det \in Fractions /\ t \in 1..threadsCnt
      /\ UNCHANGED <<threadsCnt, matrix, det>>
  BY DEF MatrixInv, MatrixTypes, Stages, Matrix!Eliminate, Matrix!Threads
<1>2. Len(a) = N
  BY <1>1, SquareLen
<1>3. a' = e
  BY <1>2, PartIs DEF Matrix!Eliminate, Matrix!LastRow
<1>4. /\ c \in 1..N /\ InLoop(N) /\ a[c][c] # Zero
      /\ \A u \in finished : \A j \in Part(threadsCnt, u, column + 1, N) : a[j][column] = Zero
  BY <1>1 DEF Eliminating, InLoop
<1>5. PICK d \in Fractions : /\ det = Matrix!Times(d, a[c][c])
                             /\ Matrix!Times(d, Det(a, c, N)) = Det(matrix, 1, N)
  BY <1>1 DEF Eliminating
<1>6. /\ \A u \in 1..threadsCnt : Part(threadsCnt, u, c + 1, N) \subseteq (c + 1)..N
      /\ \A j \in (c + 1)..N : \E u \in 1..threadsCnt : j \in Part(threadsCnt, u, c + 1, N)
  <2>1. c + 1 \in Int /\ N \in Int /\ N >= (c + 1) - 1
    BY <1>1, <1>4
  <2> QED
    BY <1>1, <2>1, PartsCover
<1>7. T \in SUBSET ((c + 1)..N)
  BY <1>1, <1>6
<1> HIDE DEF T
<1>8. /\ e \in Square(N)
      /\ \A j \in 1..N : j \notin T => e[j] = a[j]
      /\ \A j \in T : e[j][c] = Zero
  <2>1. ~(c < c)
    BY <1>4
  <2> QED
    BY <1>1, <1>4, <1>7, <2>1, EliminatedIs
<1>9. Det(e, c, N) = Det(a, c, N)
  BY <1>1, <1>4, <1>7, DetEliminated
<1> HIDE DEF e
<1>10. e[c] = a[c]
  <2>1. c \notin T
    BY <1>4, <1>7
  <2> QED
    BY <1>4, <1>8, <2>1
<1>11. \A u \in finished \union {t} : \A j \in Part(threadsCnt, u, c + 1, N) : e[j][c] = Zero
  <2> SUFFICES ASSUME NEW u \in finished \union {t}, NEW j \in Part(threadsCnt, u, c + 1, N)
               PROVE  e[j][c] = Zero
    OBVIOUS
  <2>1. u \in 1..threadsCnt /\ j \in 1..N
    <3>1. u \in 1..threadsCnt
      BY <1>1
    <3>2. j \in (c + 1)..N
      BY <1>6, <3>1
    <3> QED
      BY <1>4, <3>1, <3>2
  <2>2. CASE j \in T
    BY <1>8, <2>2
  <2>3. CASE j \notin T
    <3>1. u \in finished
      BY <2>3 DEF T
    <3> QED
      BY <1>4, <1>8, <2>1, <2>3, <3>1
  <2> QED
    BY <2>2, <2>3
<1>12. CASE /\ finished \union {t} # 1..threadsCnt /\ finished' = finished \union {t}
            /\ UNCHANGED <<stage, column, maxValueIndex, localMax>>
  <2>1. MatrixTypes(N)'
    BY <1>1, <1>3, <1>8, <1>12 DEF MatrixTypes
  <2>2. InLoop(N)'
    BY <1>1, <1>4, <1>12 DEF InLoop
  <2>3. /\ det' = Matrix!Times(d, a'[column'][column'])
        /\ Matrix!Times(d, Det(a', column', N)) = Det(matrix', 1, N)
        /\ a'[column'][column'] # Zero
    BY <1>1, <1>3, <1>4, <1>5, <1>9, <1>10, <1>12
  <2>4. \A u \in finished' : \A j \in Part(threadsCnt', u, column' + 1, N) : a'[j][column'] = Zero
    BY <1>1, <1>3, <1>11, <1>12
  <2>5. Eliminating(N)'
    BY <1>5, <2>2, <2>3, <2>4 DEF Eliminating
  <2> QED
    BY <1>1, <1>12, <2>1, <2>5 DEF MatrixInv, Stages
<1>13. CASE finished \union {t} = 1..threadsCnt /\ Matrix!BeginColumn(column + 1)
  <2>1. c + 1 \in 1..(N + 1)
    BY <1>1, <1>4
  <2>2. \A j \in (c + 1)..N : e[j][c] = Zero
    BY <1>6, <1>11, <1>13
  <2>3. Matrix!Times(Matrix!Times(d, e[c][c]), Det(e, c + 1, N)) = Matrix!Times(d, Det(e, c, N))
    BY <1>1, <1>4, <1>5, <1>8, <2>2, ColumnDone
  <2>4. Matrix!Times(det, Det(a', c + 1, N)) = Det(matrix, 1, N)
    BY <1>3, <1>5, <1>9, <1>10, <2>3
  <2>5. a' \in Square(N)
    BY <1>3, <1>8
  <2> QED
    BY <1>1, <1>2, <1>13, <2>1, <2>4, <2>5, BeginColumnKeeps
<1> QED
  BY <1>12, <1>13 DEF Matrix!Eliminate, Matrix!Threads

\* The rows are read as they are written in the input.
LEMMA MatrixInvInit ==
    ASSUME Matrix!DetInit({Floats(m) : m \in Matrices})
    PROVE  \E N \in Nat : MatrixInv(N)
<1>1. PICK m \in Matrices : matrix = Floats(m)
  BY DEF Matrix!DetInit
<1> DEFINE N == Len(m)
<1>2. N \in Nat /\ m \in [1..N -> [1..N -> Int]]
  BY AlgorithmsAssumption
<1> HIDE DEF N
<1>3. Floats(m) \in Square(N)
  BY <1>2, FracIs DEF Floats, Square
<1>4. /\ threadsCnt \in Nat \ {0} /\ a = matrix /\ det = One /\ finished = {}
      /\ stage = "read"
  BY AlgorithmsAssumption DEF Matrix!DetInit, One
<1>5. MatrixTypes(N)
  BY <1>1, <1>2, <1>3, <1>4, ZeroOne DEF MatrixTypes
<1>6. Stages(N)
  BY <1>4 DEF Stages
<1> QED
  BY <1>2, <1>5, <1>6 DEF MatrixInv

LEMMA MatrixInvNext ==
    ASSUME NEW N, MatrixInv(N), [Matrix!DetNext]_detVars
    PROVE  MatrixInv(N)'
<1>1. CASE UNCHANGED detVars
  <2>1. /\ stage' = stage /\ threadsCnt' = threadsCnt /\ matrix' = matrix /\ a' = a
        /\ det' = det /\ column' = column /\ maxValueIndex' = maxValueIndex
        /\ localMax' = localMax /\ finished' = finished
    BY <1>1 DEF detVars
  <2>2. MatrixTypes(N)' = MatrixTypes(N) /\ InLoop(N)' = InLoop(N) /\ Remains(N)' = Remains(N)
    BY <2>1 DEF MatrixTypes, InLoop, Remains
  <2>3. /\ Searching(N)' = Searching(N) /\ Comparing(N)' = Comparing(N)
        /\ Testing(N)' = Testing(N) /\ Eliminating(N)' = Eliminating(N)
    BY <2>1, <2>2 DEF Searching, Comparing, Testing, Eliminating, Looked
  <2>4. Swapping(N)' = Swapping(N)
    BY <2>1, <2>2 DEF Swapping, Before, Done
  <2>5. Stages(N)' = Stages(N)
    BY <2>1, <2>3, <2>4 DEF Stages
  <2> QED
    BY <2>2, <2>5 DEF MatrixInv
<1>2. CASE Matrix!Read \/ Matrix!ZeroPivot \/ Matrix!Pivot \/ Matrix!Output
  BY <1>2, ReadKeeps, ZeroPivotKeeps, PivotKeeps, OutputKeeps
<1>3. ASSUME NEW t, Matrix!Search(t) \/ Matrix!Critical(t) \/ Matrix!Swap(t) \/ Matrix!Eliminate(t)
      PROVE  MatrixInv(N)'
  BY <1>3, SearchKeeps, CriticalKeeps, SwapKeepsInv, EliminateKeeps
<1> QED
  BY <1>1, <1>2, <1>3 DEF Matrix!DetNext

LEMMA MatrixInvExact ==
    ASSUME NEW N, MatrixInv(N)
    PROVE  Matrix!DeterminantIsExact
<1>1. N \in Nat /\ a \in Square(N) /\ matrix \in Square(N)
  BY DEF MatrixInv, MatrixTypes
<1>2. Matrix!Determinant(matrix, 1) = Det(matrix, 1, N)
  <2>1. 1 \in 1..(N + 1)
    BY <1>1
  <2> QED
    BY <1>1, <2>1, DetIs
<1>3. ASSUME stage \in {"search", "critical", "test"}
      PROVE  Matrix!Times(det, Matrix!Determinant(a, column)) = Matrix!Determinant(matrix, 1)
  <2>1. InLoop(N) /\ Remains(N)
    BY <1>3 DEF MatrixInv, Stages, Searching, Comparing, Testing
  <2>2. column \in 1..(N + 1)
    BY <1>1, <2>1 DEF InLoop
  <2>3. Matrix!Determinant(a, column) = Det(a, column, N)
    BY <1>1, <2>2, DetIs
  <2> QED
    BY <1>2, <2>1, <2>3 DEF Remains
<1>4. ASSUME stage = "output"
      PROVE  det = Matrix!Determinant(matrix, 1) /\ det = Matrix!detWithoutOmp(matrix)
  <2>1. det = Det(matrix, 1, N)
    BY <1>4 DEF MatrixInv, Stages
  <2>2. Matrix!detWithoutOmp(matrix) = Det(matrix, 1, N)
    BY <1>1, SequentialIs
  <2> QED
    BY <1>2, <2>1, <2>2
<1> QED
  BY <1>3, <1>4 DEF Matrix!DeterminantIsExact

\* matrix_det.cpp: after every column det times the determinant of the rows and
\* columns that are left is the determinant of the input, and the result is that
\* determinant and the one of detWithoutOmp, for matrices of every size, teams of
\* every size and every order in which the threads look for the pivot, enter the
\* critical section, exchange and eliminate.
THEOREM AlgorithmsDeterminantExact == Spec => []DeterminantIsExact
<1> DEFINE Inv == algorithm = "matrix_det" => \E N \in Nat : MatrixInv(N)
<1>1. Init => Inv
  BY MatrixInvInit DEF Init, Chosen
<1>2. Inv /\ [Next]_allVars => Inv'
  <2> SUFFICES ASSUME Inv, [Next]_allVars, algorithm' = "matrix_det"
               PROVE  \E N \in Nat : MatrixInv(N)'
    OBVIOUS
  <2>1. algorithm = "matrix_det" /\ [Matrix!DetNext]_detVars
    BY DEF Next, allVars
  <2>2. PICK N \in Nat : MatrixInv(N)
    BY <2>1
  <2> QED
    BY <2>1, <2>2, MatrixInvNext
<1>3. Inv => DeterminantIsExact
  BY MatrixInvExact DEF DeterminantIsExact
<1> QED
  BY <1>1, <1>2, <1>3, PTL DEF Spec
=============================================================================
