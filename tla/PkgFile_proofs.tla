----------------------------- MODULE PkgFile_proofs -----------------------------
(***************************************************************************)
(* What a run of the command line reads of a package is what the package   *)
(* has, and a read ends the process only when a file is too short, for     *)
(* packages and pieces of every size.  The first part is about where the   *)
(* pieces of a map begin; ReadInv is what a read knows of the map it reads.*)
(***************************************************************************)
EXTENDS CommandLine_proofs, SequenceTheorems, WellFoundedInduction

(***************************************************************************)
(* Where the pieces of a map begin                                         *)
(***************************************************************************)
\* A set of naturals has a least element.
LEMMA LeastNat ==
    ASSUME NEW S \in SUBSET Nat, S # {}
    PROVE  \E m \in S : \A k \in S : m <= k
<1>1. \E m \in S : \A k \in S : ~(<<k, m>> \in OpToRel(<, Nat))
  BY NatLessThanWellFounded, WFMin, Zenon
<1>2. PICK m \in S : \A k \in S : ~(<<k, m>> \in OpToRel(<, Nat))
  BY <1>1
<1>3. ASSUME NEW k \in S PROVE m <= k
  <2>1. <<k, m>> \in Nat \X Nat /\ ~(k < m)
    BY <1>2, <1>3 DEF OpToRel
  <2> QED BY <2>1
<1> QED BY <1>3

\* The sums up to piece n.
Sums(g, sizes, n) == \A k \in 0 .. n : g[k] = IF k <= 1 THEN 0 ELSE g[k - 1] + sizes[k - 1]

LEMMA SumsUnique ==
    ASSUME NEW sizes, NEW n \in Nat, NEW m \in Nat, NEW g, NEW h,
           Sums(g, sizes, n), Sums(h, sizes, m), NEW j \in 0 .. n, j <= m
    PROVE  g[j] = h[j]
<1> DEFINE Bad == {k \in Nat : k <= j /\ g[k] # h[k]}
<1> SUFFICES ASSUME Bad # {} PROVE FALSE
  OBVIOUS
<1>1. PICK k \in Bad : \A i \in Bad : k <= i
  <2>1. Bad \in SUBSET Nat
    OBVIOUS
  <2> HIDE DEF Bad
  <2> QED BY <2>1, LeastNat
<1>2. k \in Nat /\ k <= j /\ g[k] # h[k] /\ k \in 0 .. n /\ k \in 0 .. m
  BY <1>1
<1>3. CASE k <= 1
  BY <1>2, <1>3 DEF Sums
<1>4. CASE k > 1
  <2>1. k - 1 \in Nat /\ k - 1 <= j /\ ~(k <= k - 1)
    BY <1>2, <1>4
  <2>2. g[k - 1] = h[k - 1]
    BY <1>1, <2>1
  <2>3. g[k] = g[k - 1] + sizes[k - 1] /\ h[k] = h[k - 1] + sizes[k - 1]
    BY <1>2, <1>4 DEF Sums
  <2> QED BY <1>2, <2>2, <2>3
<1> QED BY <1>2, <1>3, <1>4

LEMMA SumsExist == ASSUME NEW sizes, NEW n \in Nat PROVE \E g : Sums(g, sizes, n)
<1> DEFINE Bad == {k \in Nat : ~\E g : Sums(g, sizes, k)}
<1> SUFFICES ASSUME Bad # {} PROVE FALSE
  OBVIOUS
<1>1. PICK m \in Bad : \A i \in Bad : m <= i
  <2>1. Bad \in SUBSET Nat
    OBVIOUS
  <2> HIDE DEF Bad
  <2> QED BY <2>1, LeastNat
<1>2. m \in Nat /\ ~\E g : Sums(g, sizes, m)
  BY <1>1
<1>3. CASE m = 0
  <2> DEFINE g == [k \in 0 .. 0 |-> 0]
  <2>1. Sums(g, sizes, m)
    BY <1>3 DEF Sums
  <2> QED BY <1>2, <2>1
<1>4. CASE m > 0
  <2>1. m - 1 \in Nat /\ ~(m <= m - 1)
    BY <1>2, <1>4
  <2>2. PICK g : Sums(g, sizes, m - 1)
    BY <1>1, <2>1
  <2> DEFINE h == [k \in 0 .. m |-> IF k < m THEN g[k]
                                    ELSE IF m <= 1 THEN 0 ELSE g[m - 1] + sizes[m - 1]]
  <2>3. ASSUME NEW k \in 0 .. m
        PROVE  h[k] = IF k <= 1 THEN 0 ELSE h[k - 1] + sizes[k - 1]
    <3>1. CASE k < m
      <4>1. k \in 0 .. m - 1 /\ (k > 1 => k - 1 \in 0 .. m /\ k - 1 < m)
        BY <1>2, <3>1
      <4> QED BY <2>2, <3>1, <4>1 DEF Sums
    <3>2. CASE k = m
      <4>1. m > 1 => h[m - 1] = g[m - 1]
        BY <2>1
      <4> QED BY <3>2, <4>1
    <3> QED BY <1>2, <3>1, <3>2
  <2>4. Sums(h, sizes, m)
    BY <2>3, Zenon DEF Sums
  <2> QED BY <1>2, <2>4
<1> QED BY <1>2, <1>3, <1>4

\* The recursive function of Base is one.
LEMMA BaseFunction ==
    ASSUME NEW sizes
    PROVE  \E f : f = [k \in Nat |-> IF k <= 1 THEN 0 ELSE f[k - 1] + sizes[k - 1]]
<1> DEFINE G(n) == CHOOSE g : Sums(g, sizes, n)
           f == [k \in Nat |-> G(k)[k]]
<1>1. \A n \in Nat : Sums(G(n), sizes, n)
  BY SumsExist, Zenon
<1> HIDE DEF G
<1>2. ASSUME NEW k \in Nat PROVE f[k] = IF k <= 1 THEN 0 ELSE f[k - 1] + sizes[k - 1]
  <2>1. G(k)[k] = IF k <= 1 THEN 0 ELSE G(k)[k - 1] + sizes[k - 1]
    <3>1. Sums(G(k), sizes, k) /\ k \in 0 .. k
      BY <1>1
    <3> QED BY <3>1, Zenon DEF Sums
  <2>2. ASSUME k > 1 PROVE G(k)[k - 1] = G(k - 1)[k - 1]
    <3>1. k - 1 \in Nat /\ k - 1 \in 0 .. k /\ k - 1 <= k - 1
      BY <2>2
    <3>2. Sums(G(k), sizes, k) /\ Sums(G(k - 1), sizes, k - 1)
      BY <1>1, <3>1
    <3> QED BY <3>1, <3>2, SumsUnique
  <2>3. k > 1 => k - 1 \in Nat
    OBVIOUS
  <2> QED BY <2>1, <2>2, <2>3
<1>3. f = [k \in Nat |-> IF k <= 1 THEN 0 ELSE f[k - 1] + sizes[k - 1]]
  <2> DEFINE h == [k \in Nat |-> IF k <= 1 THEN 0 ELSE f[k - 1] + sizes[k - 1]]
  <2>1. \A k \in Nat : f[k] = h[k]
    BY <1>2
  <2>2. f = h
    BY <2>1
  <2> QED BY <2>2
<1> QED BY <1>3

\* A piece begins where the one before it ends.
LEMMA BaseSteps ==
    ASSUME NEW sizes \in Seq(Int)
    PROVE  /\ DOMAIN Base(sizes) = 1 .. Len(sizes) + 1 /\ Base(sizes)[1] = 0
           /\ \A k \in 1 .. Len(sizes) : Base(sizes)[k + 1] = Base(sizes)[k] + sizes[k]
<1> DEFINE base == CHOOSE f : f = [k \in Nat |-> IF k <= 1 THEN 0 ELSE f[k - 1] + sizes[k - 1]]
<1>1. base = [k \in Nat |-> IF k <= 1 THEN 0 ELSE base[k - 1] + sizes[k - 1]]
  BY BaseFunction, Zenon
<1>2. Base(sizes) = [k \in 1 .. Len(sizes) + 1 |-> base[k]]
  BY DEF Base
<1> HIDE DEF base
<1>3. \A k \in Nat : base[k] = IF k <= 1 THEN 0 ELSE base[k - 1] + sizes[k - 1]
  BY <1>1, Zenon
<1>4. base[1] = 0
  BY <1>3
<1>5. ASSUME NEW k \in 1 .. Len(sizes) PROVE base[k + 1] = base[k] + sizes[k]
  <2>1. k + 1 \in Nat /\ ~(k + 1 <= 1) /\ k + 1 - 1 = k
    OBVIOUS
  <2>2. base[k + 1] = base[k + 1 - 1] + sizes[k + 1 - 1]
    BY <1>3, <2>1
  <2> QED BY <2>1, <2>2
<1> QED BY <1>2, <1>4, <1>5

LEMMA BaseGrows ==
    ASSUME NEW sizes \in Seq(Nat)
    PROVE  /\ Base(sizes) \in [1 .. Len(sizes) + 1 -> Nat]
           /\ \A j, k \in 1 .. Len(sizes) + 1 : j <= k => Base(sizes)[j] <= Base(sizes)[k]
<1> DEFINE b == Base(sizes)
           N == Len(sizes)
<1>1. /\ b[1] = 0 /\ N \in Nat
      /\ \A k \in 1 .. N : b[k + 1] = b[k] + sizes[k] /\ sizes[k] \in Nat
      /\ b = [k \in 1 .. N + 1 |-> b[k]]
  <2>1. sizes \in Seq(Int)
    OBVIOUS
  <2>2. \A k \in 1 .. N : sizes[k] \in Nat
    OBVIOUS
  <2>3. b = [k \in 1 .. N + 1 |-> b[k]]
    BY DEF Base
  <2>4. b[1] = 0 /\ \A k \in 1 .. N : b[k + 1] = b[k] + sizes[k]
    BY <2>1, BaseSteps, Zenon
  <2>5. N \in Nat
    OBVIOUS
  <2> HIDE DEF b, N
  <2> QED BY <2>2, <2>3, <2>4, <2>5
<1> HIDE DEF b
\* Up to each piece the sums are naturals and grow.
<1> DEFINE Good(k) == /\ \A j \in 1 .. k : b[j] \in Nat /\ b[j] <= b[k]
                      /\ \A i, j \in 1 .. k : i <= j => b[i] <= b[j]
           Bad == {k \in Nat : k \in 1 .. N + 1 /\ ~Good(k)}
<1>2. Bad = {}
  <2> SUFFICES ASSUME Bad # {} PROVE FALSE
    OBVIOUS
  <2>1. PICK m \in Bad : \A i \in Bad : m <= i
    <3>1. Bad \in SUBSET Nat
      OBVIOUS
    <3> HIDE DEF Bad
    <3> QED BY <3>1, LeastNat
  <2>2. m \in 1 .. N + 1 /\ ~Good(m)
    BY <2>1
  <2>3. CASE m = 1
    BY <1>1, <2>2, <2>3
  <2>4. CASE m > 1
    <3>1. m - 1 \in Nat /\ m - 1 \in 1 .. N /\ ~(m <= m - 1)
      BY <1>1, <2>2, <2>4
    <3>2. Good(m - 1)
      <4>1. m - 1 \in 1 .. N + 1
        BY <1>1, <3>1
      <4> HIDE DEF Good
      <4> QED BY <2>1, <3>1, <4>1
    <3>3. b[m] = b[m - 1] + sizes[m - 1] /\ sizes[m - 1] \in Nat
      <4>1. b[m - 1 + 1] = b[m - 1] + sizes[m - 1] /\ sizes[m - 1] \in Nat
        BY <1>1, <3>1
      <4> QED BY <3>1, <4>1
    <3>4. b[m - 1] \in Nat /\ b[m] \in Nat /\ b[m - 1] <= b[m]
      <4>1. m - 1 \in 1 .. m - 1
        BY <3>1
      <4> QED BY <3>2, <3>3, <4>1, SMTT(20)
    <3>5. ASSUME NEW j \in 1 .. m PROVE b[j] \in Nat /\ b[j] <= b[m]
      <4>1. CASE j = m
        BY <3>4, <4>1
      <4>2. CASE j < m
        <5>1. b[j] \in Nat /\ b[j] <= b[m - 1]
          BY <2>2, <3>2, <4>2
        <5> QED BY <3>4, <5>1
      <4> QED BY <2>2, <4>1, <4>2
    <3>6. ASSUME NEW i \in 1 .. m, NEW j \in 1 .. m, i <= j PROVE b[i] <= b[j]
      <4>1. CASE j = m
        BY <3>5, <4>1
      <4>2. CASE j < m
        <5>1. i \in 1 .. m - 1 /\ j \in 1 .. m - 1
          BY <2>2, <3>6, <4>2
        <5> QED BY <3>2, <3>6, <5>1
      <4> QED BY <2>2, <4>1, <4>2
    <3> QED BY <2>2, <3>5, <3>6
  <2> QED BY <2>2, <2>3, <2>4
<1>3. Good(N + 1)
  <2>1. N + 1 \in Nat /\ N + 1 \in 1 .. N + 1
    BY <1>1
  <2> HIDE DEF Good
  <2> QED BY <1>2, <2>1
<1>4. \A k \in 1 .. N + 1 : b[k] \in Nat
  BY <1>3
<1>5. b \in [1 .. N + 1 -> Nat]
  BY <1>1, <1>4
<1> QED BY <1>3, <1>5 DEF b

\* A cell of the map is in one of its pieces.
LEMMA PlaceIsInPiece ==
    ASSUME NEW m, m.sizes \in Seq(Nat), Len(m.paths) = Len(m.sizes), m.paths \in Seq(Paths),
           NEW n \in Nat, n < Size(m)
    PROVE  \E k \in 1 .. Len(m.paths) :
              /\ Base(m.sizes)[k] <= n /\ n < Base(m.sizes)[k + 1]
              /\ Place(m, n) = [path |-> m.paths[k], at |-> n - Base(m.sizes)[k]]
<1> DEFINE b == Base(m.sizes)
           N == Len(m.sizes)
           Above == {k \in Nat : k \in 1 .. N /\ n < b[k + 1]}
<1>1. /\ N \in Nat /\ b \in [1 .. N + 1 -> Nat] /\ b[1] = 0 /\ n < b[N + 1]
      /\ DOMAIN m.paths = 1 .. N
  <2>1. b \in [1 .. N + 1 -> Nat] /\ b[1] = 0
    <3>1. m.sizes \in Seq(Int)
      OBVIOUS
    <3> HIDE DEF b
    <3> QED BY <3>1, BaseGrows, BaseSteps DEF b
  <2> QED BY <2>1 DEF Size
<1> HIDE DEF b
<1>2. N > 0
  BY <1>1
<1>3. PICK k \in Above : \A i \in Above : k <= i
  <2>1. N \in Above
    BY <1>1, <1>2
  <2>2. Above # {} /\ Above \in SUBSET Nat
    BY <2>1
  <2> HIDE DEF Above
  <2> QED BY <2>2, LeastNat
<1>4. k \in 1 .. N /\ n < b[k + 1] /\ b[k] <= n
  <2>1. k \in 1 .. N /\ n < b[k + 1]
    BY <1>3
  <2>2. CASE k = 1
    BY <1>1, <2>1, <2>2
  <2>3. CASE k > 1
    <3>1. k - 1 \in Nat /\ k - 1 \in 1 .. N /\ ~(k <= k - 1) /\ k - 1 + 1 = k
      BY <1>1, <2>1, <2>3
    <3>2. ~(n < b[k])
      BY <1>3, <3>1
    <3> QED BY <1>1, <2>1, <3>2, SMTT(20)
  <2> QED BY <2>1, <2>2, <2>3
<1>5. DEFINE c == CHOOSE c \in DOMAIN m.paths : b[c] <= n /\ n < b[c + 1]
<1>6. c \in 1 .. N /\ b[c] <= n /\ n < b[c + 1]
  BY <1>1, <1>4
<1>7. Place(m, n) = [path |-> m.paths[c], at |-> n - b[c]]
  BY DEF Place, b
<1> HIDE DEF c
<1> QED BY <1>6, <1>7 DEF b

\* Where each piece but the last has size d.
LEMMA EvenPieces ==
    ASSUME NEW sizes \in Seq(Nat), NEW d \in Nat,
           \A k \in 1 .. Len(sizes) - 1 : sizes[k] = d
    PROVE  \A k \in 1 .. Len(sizes) : Base(sizes)[k] = (k - 1) * d
<1> DEFINE b == Base(sizes)
           N == Len(sizes)
           Bad == {k \in Nat : k \in 1 .. N /\ b[k] # (k - 1) * d}
<1>1. b[1] = 0 /\ N \in Nat /\ \A k \in 1 .. N : b[k + 1] = b[k] + sizes[k]
  <2>1. sizes \in Seq(Int)
    OBVIOUS
  <2> HIDE DEF b
  <2> QED BY <2>1, BaseSteps DEF b
<1> HIDE DEF b
<1>2. Bad = {}
  <2> SUFFICES ASSUME Bad # {} PROVE FALSE
    OBVIOUS
  <2>1. PICK m \in Bad : \A i \in Bad : m <= i
    <3>1. Bad \in SUBSET Nat
      OBVIOUS
    <3> HIDE DEF Bad
    <3> QED BY <3>1, LeastNat
  <2>2. m \in 1 .. N /\ b[m] # (m - 1) * d
    BY <2>1
  <2>3. CASE m = 1
    <3>1. (m - 1) * d = 0
      BY <2>3
    <3> QED BY <1>1, <2>2, <2>3, <3>1
  <2>4. CASE m > 1
    <3>1. m - 1 \in Nat /\ m - 1 \in 1 .. N - 1 /\ m - 1 \in 1 .. N /\ ~(m <= m - 1)
      BY <1>1, <2>2, <2>4
    <3>2. b[m - 1] = (m - 1 - 1) * d
      BY <2>1, <3>1
    <3>3. b[m] = b[m - 1] + d
      <4>1. b[m - 1 + 1] = b[m - 1] + sizes[m - 1] /\ sizes[m - 1] = d /\ m - 1 + 1 = m
        BY <1>1, <3>1
      <4> QED BY <4>1
    <3>4. (m - 1 - 1) * d + d = (m - 1) * d
      BY <3>1
    <3> QED BY <2>2, <3>2, <3>3, <3>4
  <2> QED BY <2>2, <2>3, <2>4
<1> QED BY <1>2 DEF b

\* What the k-th of pieces of size d has of a total, and what it has with those
\* before it.
ShareOf(total, d, k) == IF total < k * d THEN total - (k - 1) * d ELSE d
UpTo(total, d, k) == IF total < k * d THEN total ELSE k * d
\* Pieces that are each as long as they must be make as much as they must.
LEMMA EnoughPieces ==
    ASSUME NEW sizes \in Seq(Nat), NEW d \in Nat, NEW total \in Nat,
           \A k \in 1 .. Len(sizes) : sizes[k] >= ShareOf(total, d, k)
    PROVE  \A k \in 1 .. Len(sizes) : Base(sizes)[k + 1] >= UpTo(total, d, k)
<1> DEFINE b == Base(sizes)
           N == Len(sizes)
           Least(k) == UpTo(total, d, k)
           Bad == {k \in Nat : k \in 1 .. N /\ ~(b[k + 1] >= Least(k))}
<1>1. /\ b[1] = 0 /\ N \in Nat /\ b \in [1 .. N + 1 -> Nat]
      /\ \A k \in 1 .. N : b[k + 1] = b[k] + sizes[k] /\ sizes[k] \in Nat
  <2>1. sizes \in Seq(Int) /\ \A k \in 1 .. N : sizes[k] \in Nat
    OBVIOUS
  <2> HIDE DEF b
  <2> QED BY <2>1, BaseSteps, BaseGrows DEF b
<1> HIDE DEF b
<1>2. Bad = {}
  <2> SUFFICES ASSUME Bad # {} PROVE FALSE
    OBVIOUS
  <2>1. PICK m \in Bad : \A i \in Bad : m <= i
    <3>1. Bad \in SUBSET Nat
      OBVIOUS
    <3> HIDE DEF Bad
    <3> QED BY <3>1, LeastNat
  <2>2. m \in 1 .. N /\ ~(b[m + 1] >= Least(m))
    BY <2>1
  <2>3. b[m + 1] = b[m] + sizes[m] /\ b[m] \in Nat /\ sizes[m] \in Nat
    <3>1. m \in 1 .. N + 1
      BY <1>1, <2>2
    <3> QED BY <1>1, <2>2, <3>1
  <2> DEFINE x == m * d
             y == (m - 1) * d
  <2>4. x \in Nat /\ y \in Nat /\ x = y + d /\ (m = 1 => y = 0)
    <3>1. m \in Nat /\ m - 1 \in Nat
      BY <2>2
    <3> QED BY <3>1, SMT
  <2>5. sizes[m] >= IF total < x THEN total - y ELSE d
    BY <2>2, Zenon DEF ShareOf
  <2>6. b[m] >= IF total < y THEN total ELSE y
    <3>1. CASE m = 1
      <4>1. y = 0 /\ ~(total < 0)
        BY <2>4, <3>1
      <4> HIDE DEF y
      <4> QED BY <2>3, <4>1
    <3>2. CASE m > 1
      <4>1. m - 1 \in Nat /\ m - 1 \in 1 .. N /\ ~(m <= m - 1) /\ m - 1 + 1 = m
        BY <1>1, <2>2, <3>2
      <4>2. b[m - 1 + 1] >= Least(m - 1)
        <5> HIDE DEF Least
        <5> QED BY <2>1, <4>1
      <4>3. Least(m - 1) = IF total < y THEN total ELSE y
        BY Zenon DEF UpTo
      <4> HIDE DEF Least, y
      <4> QED BY <4>1, <4>2, <4>3
    <3> QED BY <2>2, <3>1, <3>2
  <2>7. b[m + 1] >= IF total < x THEN total ELSE x
    <3> DEFINE u == b[m]
               v == sizes[m]
               w == b[m + 1]
    <3>1. w = u + v /\ u \in Nat /\ v \in Nat
      BY <2>3
    <3>2. v >= IF total < x THEN total - y ELSE d
      BY <2>5
    <3>3. u >= IF total < y THEN total ELSE y
      BY <2>6
    <3> HIDE DEF x, y, u, v, w
    <3>4. w >= IF total < x THEN total ELSE x
      <4>1. x \in Nat /\ y \in Nat /\ x = y + d
        BY <2>4
      <4>2. CASE total < x
        BY <3>1, <3>2, <3>3, <4>1, <4>2
      <4>3. CASE ~(total < x)
        BY <3>1, <3>2, <3>3, <4>1, <4>3
      <4> QED BY <4>2, <4>3
    <3> QED BY <3>4 DEF w
  <2>8. Least(m) = IF total < x THEN total ELSE x
    BY Zenon DEF UpTo
  <2> HIDE DEF Least, x
  <2> QED BY <2>2, <2>7, <2>8
<1>3. ASSUME NEW k \in 1 .. N PROVE b[k + 1] >= Least(k)
  <2>1. k \in Nat
    BY <1>1
  <2> HIDE DEF Least
  <2> QED BY <1>2, <2>1
<1> QED BY <1>3 DEF b

LEMMA RoundUp ==
    ASSUME NEW n \in Int, NEW p \in Nat \ {0}
    PROVE  /\ (n + p - 1) \div p \in Int
           /\ ((n + p - 1) \div p) * p >= n
<1> DEFINE q == (n + p - 1) \div p
           r == (n + p - 1) % p
<1>1. q \in Int /\ r \in 0 .. p - 1 /\ n + p - 1 = p * q + r
  BY SMT
<1> HIDE DEF q, r
<1>2. q * p = p * q /\ p * q \in Int
  BY <1>1, SMT
<1>3. q * p >= n
  BY <1>1, <1>2
<1> QED BY <1>1, <1>3 DEF q

LEMMA DivisionUnique ==
    ASSUME NEW q \in Nat, NEW p \in Nat \ {0}, NEW n \in Nat, q * p <= n, n < q * p + p
    PROVE  n \div p = q /\ n % p = n - q * p
<1> DEFINE a == n \div p
           b == n % p
           x == q * p
           r == n - x
<1>0. r \in 0 .. p - 1 /\ n = x + r /\ x \in Nat
  <2>1. x \in Nat /\ x <= n /\ n < x + p
    BY SMT
  <2> HIDE DEF x
  <2> QED BY <2>1
<1>1. a \in Int /\ b \in 0 .. p - 1 /\ n = p * a + b
  BY SMT
<1> HIDE DEF a, b, r
<1>2. ASSUME NEW u \in Int, NEW v \in Int, NEW c \in 0 .. p - 1, NEW d \in 0 .. p - 1,
             p * u + c = p * v + d, u < v
      PROVE  FALSE
  <2>1. p * v = p * u + p * (v - u) /\ p * u \in Int /\ p * v \in Int
    BY <1>2, SMT
  <2>2. p * (v - u) >= p
    BY <1>2, SMT
  <2> QED BY <1>2, <2>1, <2>2
<1>3. q * p = p * q /\ p * q \in Int /\ p * a \in Int
  BY <1>1, SMT
<1>4. p * q + r = p * a + b
  BY <1>0, <1>1, <1>3
<1>5. ~(q < a)
  BY <1>0, <1>1, <1>2, <1>4
<1>6. ~(a < q)
  <2>1. p * a + b = p * q + r
    BY <1>4
  <2> QED BY <1>0, <1>1, <1>2, <2>1
<1>7. q = a
  BY <1>1, <1>5, <1>6
<1>8. r = b
  BY <1>0, <1>1, <1>3, <1>4, <1>7
<1> QED BY <1>7, <1>8 DEF a, b, r

(***************************************************************************)
(* What a map can be read for                                              *)
(***************************************************************************)
Sized(m) == m.sizes \in Seq(Nat) /\ m.paths \in Seq(Paths) /\ Len(m.sizes) = Len(m.paths)
Disk == disk \in [Paths -> Int]

LEMMA PageAbove == ASSUME NEW x \in Int PROVE UpToPage(x) \in Int /\ UpToPage(x) >= x
<1>1. PageSize \in Nat \ {0}
  BY MapAssumption
<1>2. /\ (x + PageSize - 1) \div PageSize \in Int
      /\ ((x + PageSize - 1) \div PageSize) * PageSize >= x
  BY <1>1, RoundUp
<1> DEFINE q == (x + PageSize - 1) \div PageSize
<1> HIDE DEF q
<1>3. q * PageSize \in Int
  <2>1. q \in Int
    BY <1>2 DEF q
  <2> QED BY <1>1, <2>1, SMT
<1> QED BY <1>2, <1>3 DEF q, UpToPage

\* A map that cannot be read there ends before, or has a file that was cut.
LEMMA UnreadableIsShort ==
    ASSUME NEW m, Sized(m), Disk, NEW off \in Nat, NEW len \in Nat, ~Readable(m, off, len)
    PROVE  Size(m) < off + len \/ \E k \in 1 .. Len(m.paths) : disk[m.paths[k]] < m.sizes[k]
<1>1. Size(m) \in Nat /\ PageSize \in Nat \ {0} /\ Len(m.sizes) \in Nat
  <2>1. Base(m.sizes) \in [1 .. Len(m.sizes) + 1 -> Nat] /\ Len(m.sizes) \in Nat
    BY BaseGrows DEF Sized
  <2>2. Len(m.sizes) + 1 \in 1 .. Len(m.sizes) + 1
    BY <2>1
  <2> QED BY <2>1, <2>2, MapAssumption DEF Size
<1>2. CASE ~(off + len <= UpToPage(Size(m)))
  <2>1. UpToPage(Size(m)) >= Size(m) /\ UpToPage(Size(m)) \in Int
    <3>1. Size(m) \in Int
      BY <1>1
    <3> QED BY <3>1, PageAbove
  <2> QED BY <1>1, <1>2, <2>1
<1>3. ASSUME NEW n \in off .. off + len - 1, n < Size(m),
             ~(Place(m, n).at < UpToPage(disk[Place(m, n).path]))
      PROVE  \E k \in 1 .. Len(m.paths) : disk[m.paths[k]] < m.sizes[k]
  <2>1. PICK k \in 1 .. Len(m.paths) :
               /\ Base(m.sizes)[k] <= n /\ n < Base(m.sizes)[k + 1]
               /\ Place(m, n) = [path |-> m.paths[k], at |-> n - Base(m.sizes)[k]]
    BY <1>3, PlaceIsInPiece DEF Sized
  <2>2. /\ Base(m.sizes)[k + 1] = Base(m.sizes)[k] + m.sizes[k]
        /\ Base(m.sizes)[k] \in Nat /\ m.sizes[k] \in Nat
    <3>1. m.sizes \in Seq(Int) /\ k \in 1 .. Len(m.sizes) /\ k \in 1 .. Len(m.sizes) + 1
      <4>1. m.sizes \in Seq(Int) /\ Len(m.paths) = Len(m.sizes)
        BY DEF Sized
      <4> QED BY <1>1, <2>1, <4>1
    <3>2. Base(m.sizes)[k + 1] = Base(m.sizes)[k] + m.sizes[k]
      BY <3>1, BaseSteps, Zenon
    <3>3. Base(m.sizes) \in [1 .. Len(m.sizes) + 1 -> Nat]
      BY BaseGrows DEF Sized
    <3>4. m.sizes[k] \in Nat
      BY <3>1 DEF Sized
    <3> QED BY <3>1, <3>2, <3>3, <3>4
  <2>3. m.paths[k] \in Paths
    BY <2>1 DEF Sized
  <2>4. disk[m.paths[k]] \in Int
    BY <2>3 DEF Disk
  <2>5. /\ UpToPage(disk[m.paths[k]]) >= disk[m.paths[k]]
        /\ UpToPage(disk[m.paths[k]]) \in Int
    <3> DEFINE x == disk[m.paths[k]]
    <3>1. x \in Int
      BY <2>4
    <3> HIDE DEF x
    <3>2. UpToPage(x) >= x /\ UpToPage(x) \in Int
      BY <3>1, PageAbove
    <3> QED BY <3>2 DEF x
  <2>6. ~(n - Base(m.sizes)[k] < UpToPage(disk[m.paths[k]]))
    BY <1>3, <2>1
  <2>7. disk[m.paths[k]] < m.sizes[k]
    BY <2>1, <2>2, <2>4, <2>5, <2>6, SMTT(20)
  <2> QED BY <2>7
<1> QED BY <1>2, <1>3 DEF Readable

\* A cell of a map is one of the piece that it is in, or a zero.
LEMMA CellOfPiece ==
    ASSUME NEW m, Sized(m), NEW n \in Nat, Cell(m, n) # Zero
    PROVE  \E k \in 1 .. Len(m.paths) :
              /\ Base(m.sizes)[k] <= n /\ n < Base(m.sizes)[k + 1]
              /\ Cell(m, n) = <<m.paths[k], n - Base(m.sizes)[k]>>
<1>1. n < Size(m) /\ Cell(m, n) = <<Place(m, n).path, Place(m, n).at>>
  <2>1. Size(m) \in Nat
    <3>1. Base(m.sizes) \in [1 .. Len(m.sizes) + 1 -> Nat] /\ Len(m.sizes) \in Nat
      BY BaseGrows DEF Sized
    <3>2. Len(m.sizes) + 1 \in 1 .. Len(m.sizes) + 1
      BY <3>1
    <3> QED BY <3>1, <3>2 DEF Size
  <2> QED BY <2>1 DEF Cell
<1>2. PICK k \in 1 .. Len(m.paths) :
               /\ Base(m.sizes)[k] <= n /\ n < Base(m.sizes)[k + 1]
               /\ Place(m, n) = [path |-> m.paths[k], at |-> n - Base(m.sizes)[k]]
    BY <1>1, PlaceIsInPiece DEF Sized
<1>3. Cell(m, n) = <<m.paths[k], n - Base(m.sizes)[k]>>
  BY <1>1, <1>2
<1> QED BY <1>2, <1>3

\* The files of a package are those of the path that was given.
FilesOf == \/ input = "whole" /\ maps["pkg"].paths = <<Package>>
           \/ input = "pattern" /\ maps["pkg"].paths = Pieces
LEMMA PackageConstants ==
    /\ PackageSize \in Nat /\ PieceSize \in Nat \ {0} /\ PieceCount \in Nat \ {0}
    /\ PieceCount * PieceSize >= PackageSize /\ HeaderSize \in Nat
    /\ ImageAt \in Nat /\ ImageSize \in Nat /\ PackageSize = ImageAt + ImageSize
    /\ Len(Pieces) = PieceCount
    /\ TableAt \in Nat /\ DataAt \in Nat /\ TableAt < PackageSize /\ DataAt < PackageSize
<1>1. /\ ImageAt \in Nat /\ ImageSize \in Nat /\ PackageSize = ImageAt + ImageSize
      /\ PieceSize \in Nat \ {0} /\ HeaderSize \in Nat
      /\ TableAt \in Nat /\ DataAt \in Nat /\ TableAt < PackageSize /\ DataAt < PackageSize
  BY PkgAssumption DEF PackageSize
<1>2. PackageSize \in Nat /\ PackageSize > 0
  BY <1>1
<1>3. PieceCount \in Int /\ PieceCount * PieceSize >= PackageSize
  <2> DEFINE n == PackageSize
  <2>1. n \in Int /\ PieceCount = (n + PieceSize - 1) \div PieceSize
    BY <1>2 DEF PieceCount
  <2> HIDE DEF n
  <2>2. PieceCount \in Int /\ PieceCount * PieceSize >= n
    BY <1>1, <2>1, RoundUp
  <2> QED BY <2>2 DEF n
<1>4. PieceCount > 0
  <2>1. ASSUME PieceCount <= 0 PROVE PieceCount * PieceSize <= 0
    BY <1>1, <1>3, <2>1, SMT
  <2>2. PieceCount * PieceSize \in Int
    BY <1>1, <1>3, SMT
  <2> QED BY <1>2, <1>3, <2>1, <2>2
<1>5. Len(Pieces) = PieceCount
  BY <1>3, <1>4 DEF Pieces
<1> QED BY <1>1, <1>2, <1>3, <1>4, <1>5

\* Where its pieces have their size a package's cells are where they must be.
LEMMA PackageCells ==
    ASSUME Sized(maps["pkg"]), FilesOf, CutRight, NEW n \in 0 .. PackageSize - 1
    PROVE  Cell(maps["pkg"], n) \in {Zero, PackageCell(n)}
<1> DEFINE m == maps["pkg"]
<1> SUFFICES ASSUME Cell(m, n) # Zero PROVE Cell(m, n) = PackageCell(n)
  OBVIOUS
<1> USE PackageConstants
<1>1. n \in Nat
  OBVIOUS
<1>2. PICK k \in 1 .. Len(m.paths) :
              /\ Base(m.sizes)[k] <= n /\ n < Base(m.sizes)[k + 1]
              /\ Cell(m, n) = <<m.paths[k], n - Base(m.sizes)[k]>>
  BY <1>1, CellOfPiece
<1>3. CASE input = "whole"
  <2>1. m.paths = <<Package>>
    BY <1>3 DEF FilesOf
  <2>2. k = 1 /\ m.paths[k] = Package
    BY <1>2, <2>1
  <2>3. Base(m.sizes)[1] = 0
    <3>1. m.sizes \in Seq(Int)
      BY DEF Sized
    <3> QED BY <3>1, BaseSteps
  <2> QED BY <1>1, <1>2, <1>3, <2>2, <2>3 DEF PackageCell
<1>4. CASE input = "pattern"
  <2>1. m.paths = Pieces /\ Len(m.paths) = PieceCount /\ Len(m.sizes) = PieceCount
    BY <1>4 DEF FilesOf, Sized
  <2>2. k \in 1 .. PieceCount /\ m.paths[k] = Piece[k - 1]
    BY <1>2, <2>1 DEF Pieces
  <2> DEFINE p == PieceSize
             q == k - 1
  <2>3. \A j \in 1 .. PieceCount : Base(m.sizes)[j] = (j - 1) * p
    <3>1. \A j \in 1 .. Len(m.sizes) - 1 : m.sizes[j] = PieceSize
      BY DEF CutRight
    <3> QED BY <2>1, <3>1, EvenPieces DEF Sized
  <2>4. Base(m.sizes)[k] = q * p /\ q \in Nat /\ q * p \in Nat
    BY <2>2, <2>3, SMTT(20)
  <2>5. n < q * p + p
    <3>1. CASE k < PieceCount
      <4>1. k + 1 \in 1 .. PieceCount /\ k + 1 - 1 = k
        BY <2>2, <3>1
      <4>2. Base(m.sizes)[k + 1] = k * p
        BY <2>3, <4>1
      <4>3. k * p = q * p + p
        BY <2>2, SMT
      <4> QED BY <1>2, <4>2, <4>3
    <3>2. CASE k = PieceCount
      <4>1. k * p = q * p + p
        BY <2>2, SMT
      <4>2. n < k * p
        BY <3>2
      <4> QED BY <4>1, <4>2
    <3> QED BY <2>2, <3>1, <3>2
  <2>6. q * p <= n /\ p \in Nat \ {0}
    BY <1>2, <2>4
  <2> HIDE DEF p, q
  <2>7. n \div p = q /\ n % p = n - q * p
    BY <1>1, <2>4, <2>5, <2>6, DivisionUnique
  <2> QED BY <1>2, <1>4, <2>2, <2>4, <2>7 DEF p, q, PackageCell
<1> QED BY <1>3, <1>4 DEF FilesOf

\* The files of a package that ends before the header, or before what the header
\* says, have one that is too short.
LEMMA ShortPackage ==
    ASSUME Sized(maps["pkg"]), FilesOf,
           Size(maps["pkg"]) < PackageSize \/ Size(maps["pkg"]) < HeaderSize
    PROVE  \E k \in DOMAIN maps["pkg"].sizes : maps["pkg"].sizes[k] < Need(k)
<1> DEFINE m == maps["pkg"]
           N == Len(m.sizes)
<1> USE PackageConstants
<1> SUFFICES ASSUME \A k \in 1 .. N : ~(m.sizes[k] < Need(k)) PROVE FALSE
  BY DEF Sized
<1>1. /\ N \in Nat /\ m.sizes \in Seq(Int) /\ \A k \in 1 .. N : m.sizes[k] \in Nat
      /\ Base(m.sizes) \in [1 .. N + 1 -> Nat] /\ Base(m.sizes)[1] = 0
  <2>1. m.sizes \in Seq(Nat) /\ m.sizes \in Seq(Int)
    BY DEF Sized
  <2>2. N \in Nat /\ \A k \in 1 .. N : m.sizes[k] \in Nat
    BY <2>1
  <2>3. Base(m.sizes) \in [1 .. N + 1 -> Nat]
    BY <2>1, BaseGrows
  <2>4. Base(m.sizes)[1] = 0
    BY <2>1, BaseSteps
  <2> HIDE DEF m
  <2> QED BY <2>1, <2>2, <2>3, <2>4, Zenon
<1>2. N >= 1
  <2>1. CASE m.paths = <<Package>>
    BY <2>1 DEF Sized
  <2>2. CASE m.paths = Pieces
    BY <2>2 DEF Sized
  <2> QED BY <2>1, <2>2 DEF FilesOf
<1>3. Base(m.sizes)[1 + 1] = Base(m.sizes)[1] + m.sizes[1]
  BY <1>1, <1>2, BaseSteps
<1>4. Base(m.sizes)[2] = m.sizes[1] /\ m.sizes[1] \in Nat
  BY <1>1, <1>2, <1>3
<1>5. ASSUME NEW k \in 1 .. N
      PROVE  m.sizes[k] >= Share(k) /\ (k = 1 => m.sizes[k] >= HeaderSize)
  <2>1. k * PieceSize \in Int /\ (k - 1) * PieceSize \in Int
    BY <1>1, SMT
  <2>2. Share(k) \in Int
    BY <2>1 DEF Share
  <2>3. ~(m.sizes[k] < Need(k)) /\ m.sizes[k] \in Nat
    BY <1>1, Zenon
  <2> DEFINE have == m.sizes[k]
  <2>4. have \in Nat /\ ~(have < Need(k))
    BY <2>3
  <2> HIDE DEF have
  <2>5. have >= Share(k) /\ (k = 1 => have >= HeaderSize)
    BY <2>2, <2>4 DEF Need
  <2> QED BY <2>5 DEF have
<1>6. Size(m) >= HeaderSize
  <2>1. m.sizes[1] >= HeaderSize
    BY <1>2, <1>5
  <2>2. 2 \in 1 .. N + 1 /\ N + 1 \in 1 .. N + 1 /\ 2 <= N + 1
    BY <1>1, <1>2
  <2>3. Base(m.sizes)[2] <= Base(m.sizes)[N + 1]
    BY <2>2, BaseGrows DEF Sized
  <2>4. Base(m.sizes)[N + 1] \in Nat
    BY <1>1, <2>2
  <2> QED BY <1>4, <2>1, <2>3, <2>4 DEF Size
<1>7. Size(m) >= PackageSize
  <2>1. CASE input = "whole" /\ m.paths = <<Package>>
    <3>1. N = 1
      BY <2>1 DEF Sized
    <3>2. Share(1) = PackageSize
      <4>1. (1 - 1) * PieceSize = 0
        OBVIOUS
      <4> QED BY <2>1, <4>1 DEF Share
    <3>3. m.sizes[1] >= PackageSize
      BY <1>5, <3>1, <3>2
    <3>4. Size(m) = Base(m.sizes)[2]
      BY <3>1 DEF Size
    <3> QED BY <1>4, <3>3, <3>4
  <2>2. CASE input = "pattern" /\ m.paths = Pieces
    <3>1. N = PieceCount
      BY <2>2 DEF Sized
    <3>2. \A k \in 1 .. N : m.sizes[k] >= ShareOf(PackageSize, PieceSize, k)
      <4>1. input # "whole"
        BY <2>2
      <4>2. \A k \in 1 .. N : Share(k) = ShareOf(PackageSize, PieceSize, k)
        BY <4>1, Zenon DEF Share, ShareOf
      <4> QED BY <1>5, <4>2, Zenon
    <3>3. \A k \in 1 .. N : Base(m.sizes)[k + 1] >= UpTo(PackageSize, PieceSize, k)
      <4>1. PackageSize \in Nat /\ PieceSize \in Nat /\ m.sizes \in Seq(Nat)
        BY DEF Sized
      <4> QED BY <3>2, <4>1, EnoughPieces, Zenon
    <3>4. N \in 1 .. N
      BY <1>1, <1>2
    <3> DEFINE x == N * PieceSize
    <3>5. x >= PackageSize /\ Base(m.sizes)[N + 1] >= IF PackageSize < x THEN PackageSize ELSE x
      BY <3>1, <3>3, <3>4 DEF UpTo
    <3>6. x \in Int
      BY <1>1, SMT
    <3> HIDE DEF x
    <3>7. Base(m.sizes)[N + 1] >= PackageSize
      <4>1. N + 1 \in 1 .. N + 1
        BY <1>1
      <4>2. Base(m.sizes)[N + 1] \in Nat
        BY <1>1, <4>1
      <4> QED BY <3>5, <3>6, <4>2
    <3> QED BY <3>7 DEF Size
  <2> QED BY <2>1, <2>2 DEF FilesOf
<1> QED
  <2>1. Size(m) \in Nat
    <3>1. N + 1 \in 1 .. N + 1
      BY <1>2
    <3>2. Base(m.sizes)[N + 1] \in Nat
      BY <1>1, <3>1
    <3> QED BY <3>2 DEF Size
  <2> QED BY <1>6, <1>7, <2>1

\* The header of the first piece.
LEMMA ShortProbe ==
    ASSUME Sized(maps["probe"]), input = "pattern", maps["probe"].paths = <<Piece[0]>>,
           Size(maps["probe"]) < HeaderSize
    PROVE  \E k \in DOMAIN maps["probe"].sizes : maps["probe"].sizes[k] < Need(k)
<1> DEFINE m == maps["probe"]
<1> USE PackageConstants
<1>1. Len(m.sizes) = 1 /\ m.sizes \in Seq(Nat) /\ m.sizes \in Seq(Int)
  <2>1. Len(m.paths) = 1
    OBVIOUS
  <2> QED BY <2>1 DEF Sized
<1>2. m.sizes[1] \in Nat /\ DOMAIN m.sizes = 1 .. 1 /\ Base(m.sizes)[2] = m.sizes[1]
  <2>1. m.sizes[1] \in Nat /\ DOMAIN m.sizes = 1 .. 1
    BY <1>1
  <2>2. 1 \in 1 .. Len(m.sizes)
    BY <1>1
  <2>3. Base(m.sizes)[1] = 0 /\ Base(m.sizes)[1 + 1] = Base(m.sizes)[1] + m.sizes[1]
    BY <1>1, <2>2, BaseSteps
  <2> QED BY <2>1, <2>3
<1>3. Size(m) = m.sizes[1]
  BY <1>1, <1>2 DEF Size
<1>4. Need(1) >= HeaderSize /\ Need(1) \in Int
  <2>1. 1 * PieceSize = PieceSize /\ (1 - 1) * PieceSize = 0
    OBVIOUS
  <2>2. Share(1) \in Int
    BY <2>1 DEF Share
  <2> QED BY <2>2 DEF Need
<1> QED BY <1>1, <1>2, <1>3, <1>4

(***************************************************************************)
(* The maps a run has                                                      *)
(***************************************************************************)
USE DEF Slot, Map, Making

SizesOnDisk == \A p \in Paths : disk[p] >= Absent
\* A map that is made, or is about to be, has a size for each of its files.
SizesKnown == \A s \in Slots :
    \/ maps[s].state \in {"mapped", "pread"}
    \/ job.slot = s /\ job.pc \in {"open", "mmap", "probe"}
    => Sized(maps[s])
\* A file whose first cell is read had one.
ProbeKnown == job.pc = "probe" => Map.sizes[1] > 0
MapsKnown == MapInv /\ SizesOnDisk /\ SizesKnown /\ ProbeKnown /\ FaultCause

\* A step of map_files: what the other maps have is theirs, and this one has sizes.
LEMMA OneIsSized ==
    ASSUME MapInv, SizesKnown, OthersKept, job.slot \in Slots,
           job'.slot = job.slot \/ job'.pc = "idle",
           \/ maps'[job.slot].state \in {"mapped", "pread"}
           \/ job'.pc \in {"open", "mmap", "probe"}
           => Sized(maps'[job.slot])
    PROVE  SizesKnown'
<1> SUFFICES ASSUME NEW s \in Slots,
                    \/ maps'[s].state \in {"mapped", "pread"}
                    \/ job'.slot = s /\ job'.pc \in {"open", "mmap", "probe"}
             PROVE  Sized(maps'[s])
  BY Zenon DEF SizesKnown, Sized
<1>1. CASE s = job.slot
  BY <1>1
<1>2. CASE s # job.slot
  <2>1. maps'[s] = maps[s]
    BY <1>2, Zenon DEF OthersKept, MapInv, MakingKnown
  <2>2. maps[s].state \in {"mapped", "pread"}
    BY <1>2, <2>1
  <2> QED BY <2>1, <2>2, Zenon DEF SizesKnown
<1> QED BY <1>1, <1>2

LEMMA SizesNatural ==
    ASSUME NEW p \in Seq(Paths), NEW d \in [Paths -> Int],
           \A k \in DOMAIN p : d[p[k]] >= Absent /\ d[p[k]] # Absent
    PROVE  /\ [k \in DOMAIN p |-> d[p[k]]] \in Seq(Nat)
           /\ Len([k \in DOMAIN p |-> d[p[k]]]) = Len(p)
<1>1. DOMAIN p = 1 .. Len(p) /\ Len(p) \in Nat /\ \A k \in 1 .. Len(p) : p[k] \in Paths
  OBVIOUS
<1>2. \A k \in 1 .. Len(p) : d[p[k]] \in Nat
  BY <1>1 DEF Absent
<1>3. [k \in 1 .. Len(p) |-> d[p[k]]] \in [1 .. Len(p) -> Nat]
  BY <1>2
<1> QED BY <1>1, <1>3

\* What ends the process inside map_files, when it does.
LEMMA StepFaults == ASSUME MapsKnown, MapStep PROVE ProbeKnown' /\ FaultCause'
<1>1. /\ job.slot \in Slots /\ maps \in [Slots -> MapRecord]
      /\ disk \in [Paths -> Int] /\ job \in JobRecord
  BY DEF MapsKnown, MapInv, MapTypes, MapStep, Stat, OpenPiece, MapPiece, Probe, MapRefused,
         MapFails, Pread, PreadEnds
<1> DEFINE next == [job EXCEPT !.fd = 0, !.data = "failed", !.i = @ + 1, !.pc = "open"]
<1>2. /\ job' = next => job'.pc = "open"
      /\ job' = Idle => job'.pc = "idle"
      /\ \A a, b : \/ job' = [job EXCEPT !.pc = a] \/ job' = [job EXCEPT !.fd = b, !.pc = a]
                   \/ job' = [job EXCEPT !.pc = a, !.data = b]
                   => job'.pc = a
  <2>1. next.pc = "open"
    BY <1>1 DEF JobRecord
  <2>2. ASSUME NEW a, NEW b PROVE /\ job' = [job EXCEPT !.pc = a] => job'.pc = a
                                  /\ job' = [job EXCEPT !.fd = b, !.pc = a] => job'.pc = a
                                  /\ job' = [job EXCEPT !.pc = a, !.data = b] => job'.pc = a
    BY <1>1 DEF JobRecord
  <2>3. Idle.pc = "idle"
    BY DEF Idle
  <2>4. ASSUME NEW a, NEW b,
               \/ job' = [job EXCEPT !.pc = a] \/ job' = [job EXCEPT !.fd = b, !.pc = a]
               \/ job' = [job EXCEPT !.pc = a, !.data = b]
        PROVE  job'.pc = a
    BY <2>2, <2>4, Zenon
  <2>5. (job' = next => job'.pc = "open") /\ (job' = Idle => job'.pc = "idle")
    BY <2>1, <2>3
  <2> HIDE DEF next
  <2> QED BY <2>4, <2>5, Zenon
<1>3. /\ Stat \/ OpenPiece \/ MapRefused => job'.pc \notin {"probe", "fault"}
      /\ \A state : Keep(state) => job'.pc \notin {"probe", "fault"}
      /\ Fault => job'.pc = "fault"
      /\ Pread \/ PreadEnds => job'.pc \notin {"probe", "fault"}
  <2>1. Stat => job'.pc \notin {"probe", "fault"}
    <3>1. Stat => \/ job' = [job EXCEPT !.pc = "open"] \/ job' = [job EXCEPT !.pc = "error"]
                  \/ job' = [job EXCEPT !.pc = "open", !.data = "null"]
      BY Zenon DEF Stat, Fails
    <3>2. \/ job' = [job EXCEPT !.pc = "open"] \/ job' = [job EXCEPT !.pc = "error"]
          \/ job' = [job EXCEPT !.pc = "open", !.data = "null"]
          => job'.pc \in {"open", "error"}
      BY <1>2, Zenon
    <3> QED BY <3>1, <3>2
  <2>2. OpenPiece => job'.pc \notin {"probe", "fault"}
    <3>1. OpenPiece => \E b : \E a \in {"mmap", "error"} :
                         \/ job' = [job EXCEPT !.fd = b, !.pc = a]
                         \/ job' = [job EXCEPT !.pc = a]
      BY ZenonT(30) DEF OpenPiece, Fails
    <3>2. ASSUME NEW a \in {"mmap", "error"}, NEW b, \/ job' = [job EXCEPT !.fd = b, !.pc = a]
                                                    \/ job' = [job EXCEPT !.pc = a]
          PROVE  job'.pc = a
      BY <1>2, <3>2, Zenon
    <3> QED BY <3>1, <3>2
  <2>3. MapRefused => job'.pc \notin {"probe", "fault"}
    <3>1. MapRefused => job' = Idle \/ job' = [job EXCEPT !.pc = "error", !.data = "failed"]
      BY Zenon DEF MapRefused
    <3> QED BY <1>2, <3>1
  <2>4. ASSUME NEW state, Keep(state) PROVE job'.pc \notin {"probe", "fault"}
    <3>1. job' = next \/ job' = Idle
      BY <2>4, Zenon DEF Keep
    <3> HIDE DEF next
    <3> QED BY <1>2, <3>1
  <2>5. Fault => job'.pc = "fault"
    BY <1>2, Zenon DEF Fault
  <2>6. Pread \/ PreadEnds => job'.pc \notin {"probe", "fault"}
    BY <1>1 DEF Pread, PreadEnds, JobRecord
  <2> HIDE DEF next
  <2> QED BY <2>1, <2>2, <2>3, <2>4, <2>5, <2>6, Zenon
<1> HIDE DEF next
<1>4. CASE Probe /\ Fault
  <2>1. job.pc = "probe" /\ ~Readable(Map, 0, 1)
    <3>1. ~Keep("mapped")
      BY <1>4, <1>3, Zenon
    <3> QED BY <1>4, <3>1 DEF Probe
  <2>2. Single /\ Sized(Map) /\ Map.sizes[1] > 0 /\ Disk
    BY <1>1, <2>1 DEF MapsKnown, MapInv, Locals, SizesKnown, ProbeKnown, Disk
  <2>3. Size(Map) = Map.sizes[1] /\ Map.sizes[1] \in Nat
    <3>1. Map.sizes \in Seq(Nat) /\ Len(Map.sizes) = 1
      BY <2>2 DEF Sized, Single
    <3>2. /\ Base(Map.sizes)[1] = 0
          /\ Base(Map.sizes)[1 + 1] = Base(Map.sizes)[1] + Map.sizes[1]
      BY <3>1, BaseSteps
    <3> QED BY <3>1, <3>2 DEF Size
  <2>4. PICK k \in 1 .. Len(Map.paths) : disk[Map.paths[k]] < Map.sizes[k]
    BY <2>1, <2>2, <2>3, UnreadableIsShort
  <2>5. k = 1
    BY <2>2, <2>4 DEF Single
  <2>6. job' = [job EXCEPT !.pc = "fault"] /\ maps' = maps /\ disk' = disk
    BY <1>4 DEF Fault, Probe
  <2>7. job'.pc = "fault" /\ job'.slot = job.slot
    BY <1>1, <2>6 DEF JobRecord
  <2> QED BY <2>2, <2>4, <2>5, <2>6, <2>7 DEF ProbeKnown, FaultCause, Single
<1>5. CASE MapFails /\ Fault
  <2>1. CASE job' = Idle
    BY <2>1 DEF ProbeKnown, FaultCause, Idle
  <2>2. CASE job.data = "null"
    <3>1. ~Single /\ Map.segs = {}
      BY <2>2 DEF MapsKnown, MapInv, Locals
    <3>2. job' = [job EXCEPT !.pc = "fault"] /\ maps' = maps
      BY <1>5 DEF Fault
    <3>3. job'.pc = "fault" /\ job'.slot = job.slot
      BY <1>1, <3>2 DEF JobRecord
    <3> QED BY <3>1, <3>2, <3>3 DEF ProbeKnown, FaultCause, Single
  <2> QED BY <1>5, <2>1, <2>2 DEF MapFails
<1>6. CASE MapPiece /\ job'.pc = "probe"
  <2>1. Single /\ Map.sizes[job.i] > 0 /\ job.pc = "mmap" /\ UNCHANGED maps
        /\ job' = [job EXCEPT !.pc = "probe", !.data = "region"]
    <3>1. \A state : ~Keep(state)
      BY <1>6, <1>3, Zenon
    <3>2. job' # [job EXCEPT !.pc = "error", !.data = "region"]
      <4>1. job'.pc # "error"
        BY <1>6
      <4> QED BY <1>2, <4>1, Zenon
    <3> QED BY <1>6, <3>1, <3>2, Zenon DEF MapPiece
  <2>2. job.i = 1 /\ job'.slot = job.slot
    BY <1>1, <2>1 DEF MapsKnown, MapInv, Locals, Single, JobRecord
  <2> QED BY <1>6, <2>1, <2>2 DEF ProbeKnown, FaultCause
<1>7. CASE ~Fault /\ ~(MapPiece /\ job'.pc = "probe")
  <2>1. job'.pc \notin {"probe", "fault"}
    <3>1. CASE MapPiece
      <4>1. \/ \E state : Keep(state)
            \/ job' = [job EXCEPT !.pc = "probe", !.data = "region"]
            \/ job' = [job EXCEPT !.pc = "error", !.data = "region"]
        BY <3>1, Zenon DEF MapPiece
      <4>2. job' = [job EXCEPT !.pc = "probe", !.data = "region"] => job'.pc = "probe"
        BY <1>2, Zenon
      <4>3. job' = [job EXCEPT !.pc = "error", !.data = "region"] => job'.pc = "error"
        BY <1>2, Zenon
      <4>4. (\E state : Keep(state)) => job'.pc \notin {"probe", "fault"}
        BY <1>3, Zenon
      <4> QED BY <1>7, <3>1, <4>1, <4>2, <4>3, <4>4
    <3>2. CASE Probe
      BY <1>7, <1>3, <3>2, Zenon DEF Probe
    <3>3. CASE MapFails
      BY <1>7, <1>2, <3>3 DEF MapFails
    <3> QED BY <1>3, <3>1, <3>2, <3>3 DEF MapStep
  <2> QED BY <2>1 DEF ProbeKnown, FaultCause
<1>8. CASE Fault
  <2>1. ~MapPiece
    <3>1. MapPiece => \/ \E state : Keep(state)
                      \/ \E a \in {"probe", "error"} :
                            job' = [job EXCEPT !.pc = a, !.data = "region"]
      BY ZenonT(30) DEF MapPiece
    <3>2. \A a : job' = [job EXCEPT !.pc = a, !.data = "region"] => job'.pc = a
      BY <1>2, Zenon
    <3>3. (\E state : Keep(state)) => job'.pc # "fault"
      BY <1>3
    <3>4. job'.pc = "fault"
      BY <1>8, <1>3, Zenon
    <3> QED BY <3>1, <3>2, <3>3, <3>4
  <2> QED BY <1>4, <1>5, <1>8, <1>3, <2>1 DEF MapStep
<1> QED BY <1>6, <1>7, <1>8

LEMMA MapStepSized ==
    ASSUME MapsKnown, MapStep
    PROVE  /\ MapsKnown' /\ OthersKept
           /\ \A s \in Slots : maps'[s].state # "null" =>
                 maps'[s].paths = maps[s].paths /\ maps[s].state # "null"
<1> DEFINE sl == job.slot
           PathsKept == maps'[sl].state # "null" => maps'[sl].paths = maps[sl].paths
<1>1. MapInv' /\ OthersKept /\ disk' = disk
  BY MapStepKeeps DEF MapsKnown
<1>2. /\ sl \in Slots /\ maps \in [Slots -> MapRecord]
      /\ disk \in [Paths -> Int] /\ job \in JobRecord
  BY DEF MapsKnown, MapInv, MapTypes, MapStep, Stat, OpenPiece, MapPiece, Probe, MapRefused,
         MapFails, Pread, PreadEnds
<1>3. job.pc \in {"stat", "open", "mmap", "probe", "error"} => maps[sl].state = "making"
  BY <1>2, Zenon DEF MapsKnown, MapInv, MakingKnown
<1>4. job.pc \in {"open", "mmap", "probe"} => Sized(maps[sl])
  BY <1>2, Zenon DEF MapsKnown, SizesKnown
<1>5. SizesKnown' /\ PathsKept
  <2>1. CASE Stat
    <3> DEFINE sizes == [k \in DOMAIN Map.paths |-> disk[Map.paths[k]]]
    <3>1. job.pc = "stat" /\ maps[sl].state = "making" /\ Map.paths \in Seq(Paths)
      BY <1>2, <1>3, <2>1 DEF Stat, MapRecord
    <3>2. CASE /\ \A k \in DOMAIN Map.paths : disk[Map.paths[k]] # Absent
               /\ maps' = [maps EXCEPT ![Slot].sizes = sizes]
               /\ job'.slot = sl
      <4>1. sizes \in Seq(Nat) /\ Len(sizes) = Len(Map.paths)
        <5>1. \A k \in DOMAIN Map.paths : disk[Map.paths[k]] >= Absent
          BY <3>1 DEF MapsKnown, SizesOnDisk
        <5> QED BY <1>2, <3>1, <3>2, <5>1, SizesNatural
      <4> HIDE DEF sizes
      <4>2. maps'[sl].sizes = sizes /\ maps'[sl].paths = maps[sl].paths
        BY <1>2, <3>2 DEF MapRecord
      <4>3. Sized(maps'[sl])
        BY <3>1, <4>1, <4>2 DEF Sized
      <4> QED BY <1>1, <1>2, <3>2, <4>2, <4>3, OneIsSized DEF MapsKnown
    <3>3. CASE Fails /\ UNCHANGED maps
      <4>1. job'.pc = "error" /\ job'.slot = sl
        BY <1>2, <3>3 DEF Fails, JobRecord
      <4> QED BY <1>1, <1>2, <3>1, <3>3, <4>1, OneIsSized DEF MapsKnown
    <3>4. job'.slot = sl
      BY <1>2, <2>1 DEF Stat, Fails, JobRecord
    <3> QED BY <2>1, <3>2, <3>3, <3>4 DEF Stat
  <2>2. CASE OpenPiece
    <3>1. UNCHANGED maps /\ job'.slot = sl /\ job.pc = "open"
      BY <1>2, <2>2 DEF OpenPiece, Fails, JobRecord
    <3> QED BY <1>1, <1>2, <1>4, <3>1, OneIsSized DEF MapsKnown
  <2>3. CASE MapPiece \/ MapRefused \/ Probe
    <3>1. /\ job.pc \in {"mmap", "probe"} /\ (job'.slot = sl \/ job'.pc = "idle")
          /\ maps'[sl].paths = maps[sl].paths /\ maps'[sl].sizes = maps[sl].sizes
      <4>1. job.pc \in {"mmap", "probe"}
        BY <2>3 DEF MapPiece, MapRefused, Probe
      <4>2. \/ \E state : Keep(state)
            \/ (\E step, data : job' = [job EXCEPT !.pc = step, !.data = data]) /\ UNCHANGED maps
            \/ job' = [job EXCEPT !.pc = "fault"] /\ UNCHANGED maps
            \/ job' = Idle /\ maps' = [maps EXCEPT ![sl].fds = {job.fd}, ![sl].state = "pread"]
        BY <2>3, Zenon DEF MapPiece, MapRefused, Probe, Fault
      <4>3. ASSUME NEW state, Keep(state) 
            PROVE  /\ job'.slot = sl \/ job'.pc = "idle"
                   /\ maps'[sl].paths = maps[sl].paths /\ maps'[sl].sizes = maps[sl].sizes
        <5>1. job'.slot = sl \/ job'.pc = "idle"
          BY <1>2, <4>3 DEF Keep, JobRecord, Idle
        <5>2. maps' = [maps EXCEPT ![sl].fds = @ \cup {job.fd}, ![sl].segs = @ \cup {job.i},
                                   ![sl].state = state]
          BY <4>3, Zenon DEF Keep
        <5> QED BY <1>2, <5>1, <5>2 DEF MapRecord
      <4>4. ASSUME NEW step, NEW data, job' = [job EXCEPT !.pc = step, !.data = data]
            PROVE  job'.slot = sl
        BY <1>2, <4>4 DEF JobRecord
      <4>5. CASE job' = [job EXCEPT !.pc = "fault"] /\ UNCHANGED maps
        BY <1>2, <4>1, <4>5 DEF JobRecord
      <4>6. CASE job' = Idle /\ maps' = [maps EXCEPT ![sl].fds = {job.fd}, ![sl].state = "pread"]
        BY <1>2, <4>1, <4>6 DEF MapRecord, Idle
      <4> QED BY <4>1, <4>2, <4>3, <4>4, <4>5, <4>6, Zenon
    <3>2. Sized(maps'[sl])
      BY <1>4, <3>1 DEF Sized
    <3> QED BY <1>1, <1>2, <3>1, <3>2, OneIsSized DEF MapsKnown
  <2>4. CASE MapFails
    <3>1. CASE Fault
      <4>1. job'.pc = "fault" /\ job'.slot = sl /\ maps' = maps /\ maps[sl].state = "making"
        BY <1>2, <1>3, <2>4, <3>1 DEF MapFails, Fault, JobRecord
      <4> QED BY <1>1, <1>2, <4>1, OneIsSized DEF MapsKnown
    <3>2. CASE ~Fault
      <4>1. maps'[sl].state = "null" /\ job'.pc = "idle"
        BY <1>2, <2>4, <3>2, NullIsMap DEF MapFails, Idle
      <4> QED BY <1>1, <1>2, <4>1, OneIsSized DEF MapsKnown
    <3> QED BY <3>1, <3>2
  <2>5. CASE Pread \/ PreadEnds
    <3>1. UNCHANGED maps /\ job'.slot = sl /\ job'.pc \in {"pread", "read"}
      BY <1>2, <2>5 DEF Pread, PreadEnds, JobRecord
    <3>2. maps'[sl].state \in {"mapped", "pread"} => Sized(maps'[sl])
      BY <1>2, <3>1, Zenon DEF MapsKnown, SizesKnown
    <3> QED BY <1>1, <1>2, <3>1, <3>2, OneIsSized DEF MapsKnown
  <2> QED BY <2>1, <2>2, <2>3, <2>4, <2>5 DEF MapStep
<1>6. ASSUME NEW s \in Slots, maps'[s].state # "null"
      PROVE  maps'[s].paths = maps[s].paths /\ maps[s].state # "null"
  <2>1. CASE s = sl
    <3>1. maps[sl].state # "null"
      <4>1. job.pc \notin {"stat", "open", "mmap", "probe", "error"} => UNCHANGED maps
        BY Zenon DEF MapStep, Stat, OpenPiece, MapPiece, Probe, MapRefused, MapFails, Pread, PreadEnds
      <4> QED BY <1>3, <1>6, <2>1, <4>1
    <3> QED BY <1>5, <1>6, <2>1, <3>1
  <2>2. CASE s # sl
    <3>1. maps'[s] = maps[s]
      BY <1>1, <2>2, Zenon DEF OthersKept, MapsKnown, MapInv, MakingKnown
    <3> QED BY <1>6, <3>1
  <2> QED BY <2>1, <2>2
<1>7. ProbeKnown' /\ FaultCause'
  BY StepFaults
<1> QED BY <1>1, <1>5, <1>6, <1>7 DEF MapsKnown, SizesOnDisk

\* A step that leaves one map neither mapped nor to be read, and the others alone.
LEMMA OthersSized ==
    ASSUME MapsKnown, MapInv', SizesOnDisk', NEW s0 \in Slots,
           \A t \in Slots \ {s0} : maps'[t] = maps[t],
           maps'[s0].state \notin {"mapped", "pread"}, job'.pc \notin {"open", "mmap", "probe", "fault"}
    PROVE  MapsKnown'
<1>1. ASSUME NEW s \in Slots, maps'[s].state \in {"mapped", "pread"} PROVE Sized(maps'[s])
  <2>1. maps'[s] = maps[s]
    BY <1>1
  <2> QED BY <1>1, <2>1, Zenon DEF MapsKnown, SizesKnown
<1>2. SizesKnown'
  BY <1>1, Zenon DEF SizesKnown, Sized
<1> QED BY <1>2 DEF MapsKnown, ProbeKnown, FaultCause

LEMMA SameSized ==
    ASSUME MapsKnown, MapInv', SizesOnDisk', maps' = maps,
           job.pc = "fault" => disk' = disk,
           job' = job \/ job'.pc \notin {"open", "mmap", "probe", "fault"}
    PROVE  MapsKnown'
<1>1. SizesKnown'
  BY Zenon DEF MapsKnown, SizesKnown, Sized
<1>2. ProbeKnown' /\ FaultCause'
  BY Zenon DEF MapsKnown, ProbeKnown, FaultCause, Single
<1> QED BY <1>1, <1>2 DEF MapsKnown

LEMMA StartMapSized ==
    ASSUME MapsKnown, MapInv', disk' = disk, NEW s \in Slots, NEW paths \in Seq(Paths),
           StartMap(s, paths)
    PROVE  /\ MapsKnown' /\ \A t \in Slots \ {s} : maps'[t] = maps[t]
           /\ maps'[s].state = "making" /\ maps'[s].paths = paths
<1> DEFINE m == [Null EXCEPT !.state = "making", !.paths = paths]
<1>1. maps' = [maps EXCEPT ![s] = m] /\ maps \in [Slots -> MapRecord]
  BY Zenon DEF StartMap, MapsKnown, MapInv, MapTypes
<1>2. m.state = "making" /\ m.paths = paths
  BY DEF Null
<1> HIDE DEF m
<1>3. maps'[s] = m /\ \A t \in Slots \ {s} : maps'[t] = maps[t]
  BY <1>1
<1>4. job'.pc = "stat"
  BY DEF StartMap, Idle
<1>5. SizesOnDisk'
  BY DEF MapsKnown, SizesOnDisk
<1> QED BY <1>2, <1>3, <1>4, <1>5, OthersSized

LEMMA UnmapSized ==
    ASSUME MapsKnown, MapInv', disk' = disk, NEW s \in Slots, NEW left \in {"null", "freed"},
           Unmap(s, left), job' = Idle \/ (job' = job /\ Ready)
    PROVE  MapsKnown'
<1> DEFINE m == [Null EXCEPT !.state = left]
<1>1. maps' = [maps EXCEPT ![s] = m] /\ maps \in [Slots -> MapRecord]
  BY Zenon DEF Unmap, MapsKnown, MapInv, MapTypes
<1>2. m.state = left
  BY DEF Null
<1> HIDE DEF m
<1>3. maps'[s] = m /\ \A t \in Slots \ {s} : maps'[t] = maps[t]
  BY <1>1
<1>4. job'.pc = "idle" /\ SizesOnDisk'
  BY DEF MapsKnown, SizesOnDisk, Idle, Ready
<1> QED BY <1>2, <1>3, <1>4, OthersSized

(***************************************************************************)
(* A package and what is read of it                                        *)
(***************************************************************************)
\* Which files each map is of.
FilesKnown ==
    /\ maps["pkg"].state # "null" => FilesOf
    /\ maps["probe"].state # "null" => input = "pattern" /\ maps["probe"].paths = <<Piece[0]>>
    /\ phase \in {"probe", "probing", "probed", "counted"} => input = "pattern"
HasMap ==
    /\ phase \in {"header", "entries", "open", "reading", "undo"} =>
          maps["pkg"].state \in {"mapped", "pread"}
    /\ phase \in {"header", "entries", "open", "reading"} =>
          /\ hdr = "map" => maps["pkg"].state = "mapped"
          /\ hdr = "buffer" => maps["pkg"].state = "pread"
\* A read with pread has the cells from where it began, and ends in the package.
Reading ==
    phase = "reading" =>
        /\ maps["pkg"].state = "pread" /\ job.pc \in {"pread", "read"} /\ job.slot = "pkg"
        /\ offset \in Nat /\ job.off = ImageAt + offset
        /\ job.len \in Nat /\ job.off + job.len <= PackageSize /\ Len(job.got) <= job.len
        /\ \A k \in 1 .. Len(job.got) : job.got[k] = <<maps["pkg"].paths[1], job.off + k - 1>>
NoneYet == phase \notin {"open", "crashed"} => answer.is = "none"
ReadInv == FilesKnown /\ HasMap /\ Reading /\ NoneYet /\ ReadsThePackage /\ CrashCause

\* A step to a phase in which nothing is read.
LEMMA Quiet ==
    ASSUME phase' \notin {"open", "reading", "crashed"}, FilesKnown', HasMap', answer'.is = "none"
    PROVE  ReadInv'
BY DEF ReadInv, Reading, NoneYet, ReadsThePackage, CrashCause

\* A step that does not concern the package.
LEMMA SameReads ==
    ASSUME ReadInv, UNCHANGED pkgVars, maps'["pkg"] = maps["pkg"], maps'["probe"] = maps["probe"],
           phase = "reading" => job' = job, phase = "crashed" => disk' = disk
    PROVE  ReadInv'
<1> USE DEF pkgVars
<1>1. FilesKnown' /\ HasMap'
  BY Zenon DEF ReadInv, FilesKnown, FilesOf, HasMap
<1>2. Reading'
  BY Zenon DEF ReadInv, Reading
<1>3. ReadsThePackage' /\ NoneYet'
  BY Zenon DEF ReadInv, ReadsThePackage, NoneYet, CutRight, PackageCell
<1>4. CrashCause'
  <2> SUFFICES ASSUME phase = "crashed" PROVE CrashCause'
    BY DEF CrashCause
  <2>1. disk' = disk
    OBVIOUS
  <2>2. ASSUME NEW s \in {"probe", "pkg"}, maps[s].state = "mapped", TooShort(s)
        PROVE  maps'[s].state = "mapped" /\ TooShort(s)'
    <3>1. maps'[s] = maps[s]
      OBVIOUS
    <3> QED BY <2>1, <2>2, <3>1, Zenon DEF TooShort, Need, Share
  <2> QED BY <2>2, ZenonT(30) DEF ReadInv, CrashCause, InHeader
<1> QED BY <1>1, <1>2, <1>3, <1>4 DEF ReadInv

\* A place that cannot be read is in a file that is too short.
LEMMA CauseOfCrash ==
    ASSUME MapsKnown, FilesKnown, NEW s \in {"probe", "pkg"}, maps[s].state = "mapped",
           NEW off \in Nat, NEW len \in Nat, ~Readable(maps[s], off, len),
           off + len <= HeaderSize \/ (s = "pkg" /\ off + len <= PackageSize)
    PROVE  TooShort(s)
<1>1. s \in Slots /\ Sized(maps[s]) /\ Disk
  <2>1. s \in Slots
    BY SlotsThere
  <2> QED BY <2>1, Zenon DEF MapsKnown, MapInv, MapTypes, SizesKnown, Disk
<1>2. DOMAIN maps[s].sizes = 1 .. Len(maps[s].paths)
  BY <1>1 DEF Sized
<1>3. CASE \E k \in 1 .. Len(maps[s].paths) : disk[maps[s].paths[k]] < maps[s].sizes[k]
  BY <1>2, <1>3 DEF TooShort
<1>4. CASE Size(maps[s]) < off + len
  <2>1. Size(maps[s]) \in Nat
    <3>1. Base(maps[s].sizes) \in [1 .. Len(maps[s].sizes) + 1 -> Nat] /\ Len(maps[s].sizes) \in Nat
      BY <1>1, BaseGrows, SMTT(20) DEF Sized
    <3>2. Len(maps[s].sizes) + 1 \in 1 .. Len(maps[s].sizes) + 1
      BY <3>1
    <3> QED BY <3>1, <3>2 DEF Size
  <2>2. Size(maps[s]) < HeaderSize \/ (s = "pkg" /\ Size(maps[s]) < PackageSize)
    BY <1>4, <2>1, PackageConstants
  <2>3. CASE s = "pkg"
    <3>1. FilesOf
      BY <2>3 DEF FilesKnown
    <3>2. \E k \in DOMAIN maps["pkg"].sizes : maps["pkg"].sizes[k] < Need(k)
      BY <1>1, <2>2, <2>3, <3>1, ShortPackage
    <3> QED BY <2>3, <3>2 DEF TooShort
  <2>4. CASE s = "probe"
    <3>1. \E k \in DOMAIN maps["probe"].sizes : maps["probe"].sizes[k] < Need(k)
      BY <1>1, <2>2, <2>4, ShortProbe DEF FilesKnown
    <3> QED BY <2>4, <3>1 DEF TooShort
  <2> QED BY <2>3, <2>4
<1> QED BY <1>1, <1>3, <1>4, UnreadableIsShort

LEMMA CrashKnown ==
    ASSUME MapsKnown, MapInv', ReadInv, UNCHANGED <<disk, input>>, Crash,
           \/ \E s \in {"probe", "pkg"} : maps[s].state = "mapped" /\ TooShort(s)
           \/ maps["pkg"].state = "pread" /\ \E loc \in {TableAt, DataAt} \cap wild' : ~InHeader(loc)
    PROVE  MapsKnown' /\ ReadInv'
<1>1. phase' = "crashed" /\ UNCHANGED <<maps, job>> /\ SizesOnDisk'
  BY DEF Crash, MapsKnown, SizesOnDisk
<1>2. FilesKnown' /\ HasMap' /\ Reading' /\ NoneYet' /\ ReadsThePackage'
  BY <1>1 DEF ReadInv, FilesKnown, FilesOf, HasMap, Reading, NoneYet, ReadsThePackage
<1>3. \A s : TooShort(s)' <=> TooShort(s)
  BY <1>1, Zenon DEF TooShort, Need, Share
<1>4. CrashCause'
  BY <1>1, <1>3, Zenon DEF CrashCause, InHeader
<1> QED BY <1>1, <1>2, <1>4, SameSized DEF ReadInv

\* What is known of a package in any phase but that which reads it.
PkgReads == MapsKnown /\ PkgInv /\ ReadInv

LEMMA DiskSame == ASSUME MapsKnown, disk' = disk PROVE SizesOnDisk'
BY DEF MapsKnown, SizesOnDisk

LEMMA AllocReads == ASSUME PkgReads, NEW kind, Alloc(kind) PROVE MapsKnown' /\ ReadInv'
<1>1. /\ phase = "closed" /\ NoMap("probe") /\ NoMap("pkg") /\ input' = kind
      /\ UNCHANGED <<disk, hdr, answer>> /\ MapInv' /\ answer.is = "none"
  BY AllocKeeps DEF PkgReads, MapsKnown, Alloc, PkgInv, ReadInv, NoneYet, PkgStays
<1>2. CASE kind = "pattern" /\ phase' = "probe" /\ StartMap("probe", <<Piece[0]>>)
  <2>1. MapsKnown' /\ maps'["probe"].paths = <<Piece[0]>> /\ maps'["pkg"] = maps["pkg"]
    BY <1>1, <1>2, StartMapSized, SlotsThere, PiecesThere, ZenonT(30) DEF PkgReads
  <2>2. FilesKnown' /\ HasMap'
    BY <1>1, <1>2, <2>1 DEF FilesKnown, HasMap, NoMap
  <2> QED BY <1>1, <1>2, <2>1, <2>2, Quiet
<1>3. CASE kind = "whole" /\ phase' = "map" /\ StartMap("pkg", <<Package>>)
  <2>1. MapsKnown' /\ maps'["pkg"].paths = <<Package>> /\ maps'["probe"] = maps["probe"]
    BY <1>1, <1>3, StartMapSized, SlotsThere, PiecesThere, ZenonT(30) DEF PkgReads
  <2>2. FilesKnown' /\ HasMap'
    BY <1>1, <1>3, <2>1 DEF FilesKnown, FilesOf, HasMap, NoMap
  <2> QED BY <1>1, <1>3, <2>1, <2>2, Quiet
<1> QED BY <1>2, <1>3, Zenon DEF Alloc

LEMMA ProbeReads ==
    ASSUME PkgReads, ProbeHeader \/ ProbeRead \/ ProbeUnmap \/ MapPieces
    PROVE  MapsKnown' /\ ReadInv'
<1>1. /\ phase \in {"probe", "probing", "probed", "counted"} /\ NoMap("pkg") /\ input = "pattern"
      /\ UNCHANGED <<disk, input, hdr, answer>> /\ answer.is = "none" /\ SizesOnDisk'
  BY DiskSame DEF PkgReads, ReadInv, FilesKnown, NoneYet, PkgInv,
                  ProbeHeader, ProbeRead, ProbeUnmap, MapPieces
<1>2. MapInv'
  BY ProbeHeaderKeeps, ProbeReadKeeps, ProbeUnmapKeeps, MapPiecesKeeps DEF PkgReads, MapsKnown, PkgStays
<1>3. ASSUME maps' = maps, phase' \in {"failed", "probing", "probed"},
             job' = job \/ job'.pc \notin {"open", "mmap", "probe", "fault"}
      PROVE  MapsKnown' /\ ReadInv'
  <2>1. FilesKnown' /\ HasMap'
    BY <1>1, <1>3 DEF PkgReads, ReadInv, FilesKnown, FilesOf, HasMap, NoMap
  <2>2. MapsKnown'
    BY <1>1, <1>2, <1>3, SameSized DEF PkgReads
  <2> QED BY <1>1, <1>3, <2>1, <2>2, Quiet
<1>4. ASSUME Unmap("probe", "null"), phase' \in {"failed", "counted"},
             job' = Idle \/ (job' = job /\ Ready)
      PROVE  MapsKnown' /\ ReadInv'
  <2>1. MapsKnown'
    BY <1>1, <1>2, <1>4, UnmapSized, SlotsThere DEF PkgReads
  <2>2. maps'["pkg"] = maps["pkg"] /\ maps'["probe"].state = "null"
    <3>1. maps' = [maps EXCEPT !["probe"] = [Null EXCEPT !.state = "null"]]
          /\ maps \in [Slots -> MapRecord]
      BY <1>4, Zenon DEF Unmap, PkgReads, MapsKnown, MapInv, MapTypes
    <3> QED BY <3>1, SlotsThere DEF Null
  <2>3. FilesKnown' /\ HasMap'
    BY <1>1, <1>4, <2>2 DEF FilesKnown, HasMap, NoMap
  <2> QED BY <1>1, <1>4, <2>1, <2>3, Quiet
<1>5. CASE ProbeHeader
  <2>1. CASE phase' \in {"failed", "probed"} /\ UNCHANGED <<maps, job>>
    BY <1>3, <2>1
  <2>2. CASE phase' = "probing" /\ StartPread("probe", 0, HeaderSize)
    BY <1>3, <2>2 DEF StartPread, Idle
  <2>3. CASE maps["probe"].state = "mapped" /\ ~Readable(maps["probe"], 0, HeaderSize) /\ Crash
    <3>1. TooShort("probe")
      <4>1. HeaderSize \in Nat /\ 0 + HeaderSize <= HeaderSize
        BY PackageConstants
      <4> QED BY <2>3, <4>1, CauseOfCrash DEF PkgReads, ReadInv
    <3> QED BY <1>1, <1>2, <2>3, <3>1, CrashKnown DEF PkgReads
  <2> QED BY <1>5, <2>1, <2>2, <2>3 DEF ProbeHeader
<1>6. CASE ProbeRead
  <2>1. /\ job' = Idle
        /\ \/ phase' = "probed" /\ UNCHANGED <<maps, fds, regions>>
           \/ phase' = "failed" /\ Unmap("probe", "null")
    BY <1>6 DEF ProbeRead
  <2>2. job'.pc \notin {"open", "mmap", "probe", "fault"}
    BY <2>1 DEF Idle
  <2> QED BY <1>3, <1>4, <2>1, <2>2
<1>7. CASE ProbeUnmap
  <2>1. Unmap("probe", "null") /\ phase' = "counted" /\ job' = job /\ Ready
    BY <1>7 DEF ProbeUnmap, PkgReads, PkgInv
  <2> QED BY <1>4, <2>1
<1>8. CASE MapPieces
  <2>1. StartMap("pkg", Pieces) /\ phase' = "map" /\ NoMap("probe")
    BY <1>8 DEF MapPieces, PkgReads, PkgInv
  <2>2. MapsKnown' /\ maps'["pkg"].paths = Pieces /\ maps'["probe"] = maps["probe"]
    BY <1>1, <1>2, <2>1, StartMapSized, SlotsThere, PiecesThere DEF PkgReads
  <2>3. FilesKnown' /\ HasMap'
    BY <1>1, <2>1, <2>2 DEF FilesKnown, FilesOf, HasMap, NoMap
  <2> QED BY <1>1, <2>1, <2>2, <2>3, Quiet
<1> QED BY <1>5, <1>6, <1>7, <1>8

LEMMA HeaderReads ==
    ASSUME PkgReads, Header \/ HeaderRead \/ Entries PROVE MapsKnown' /\ ReadInv'
<1>1. /\ phase \in {"map", "header", "entries"} /\ UNCHANGED <<disk, input, answer>>
      /\ answer.is = "none" /\ SizesOnDisk' /\ NoMap("probe")
  BY DiskSame DEF PkgReads, ReadInv, NoneYet, PkgInv, Header, HeaderRead, Entries
<1>2. MapInv'
  BY HeaderKeeps, HeaderReadKeeps, EntriesKeeps DEF PkgReads, MapsKnown, PkgStays
<1>3. ASSUME maps' = maps, phase' \in {"failed", "header", "entries", "undo", "open"}, HasMap',
             job' = job \/ job'.pc \notin {"open", "mmap", "probe", "fault"}
      PROVE  MapsKnown' /\ ReadInv'
  <2>1. FilesKnown'
    BY <1>1, <1>3 DEF PkgReads, ReadInv, FilesKnown, FilesOf, NoMap
  <2>2. MapsKnown'
    BY <1>1, <1>2, <1>3, SameSized DEF PkgReads
  <2>3. NoneYet' /\ ReadsThePackage' /\ Reading' /\ CrashCause'
    BY <1>1, <1>3 DEF NoneYet, ReadsThePackage, Reading, CrashCause
  <2> QED BY <1>3, <2>1, <2>2, <2>3 DEF ReadInv
<1>4. ASSUME maps["pkg"].state = "mapped", NEW off \in Nat, NEW len \in Nat,
             ~Readable(maps["pkg"], off, len), Crash, off + len <= HeaderSize \/ off + len <= PackageSize
      PROVE  MapsKnown' /\ ReadInv'
  <2>1. TooShort("pkg")
    BY <1>4, CauseOfCrash DEF PkgReads, ReadInv
  <2> QED BY <1>1, <1>2, <1>4, <2>1, CrashKnown DEF PkgReads
<1>5. CASE Header
  <2>1. CASE maps["pkg"].state = "null" /\ phase' = "failed" /\ UNCHANGED <<maps, job>>
    BY <1>3, <2>1 DEF HasMap
  <2>2. CASE maps["pkg"].state = "pread" /\ phase' = "header" /\ StartPread("pkg", 0, HeaderSize)
    <3>1. maps' = maps /\ job'.pc = "pread"
      BY <2>2 DEF StartPread, Idle
    <3>2. hdr' = "buffer"
      BY <1>5, <2>2 DEF Header
    <3> QED BY <1>3, <2>2, <3>1, <3>2 DEF HasMap
  <2>3. CASE maps["pkg"].state = "mapped" /\ phase' = "entries" /\ UNCHANGED <<maps, job>>
    <3>1. hdr' = "map"
      BY <1>5, <2>3 DEF Header
    <3> QED BY <1>3, <2>3, <3>1 DEF HasMap
  <2>4. CASE maps["pkg"].state = "mapped" /\ ~Readable(maps["pkg"], 0, HeaderSize) /\ Crash
    <3>1. HeaderSize \in Nat /\ 0 + HeaderSize <= HeaderSize
      BY PackageConstants
    <3> QED BY <1>4, <2>4, <3>1
  <2> QED BY <1>5, <2>1, <2>2, <2>3, <2>4 DEF Header
<1>6. CASE HeaderRead
  <2>1. /\ phase = "header" /\ phase' \in {"entries", "undo"} /\ UNCHANGED <<maps, hdr>> /\ job' = Idle
        /\ job.pc = "read"
    BY <1>6 DEF HeaderRead
  <2>2. HasMap' /\ job'.pc = "idle"
    BY <2>1 DEF PkgReads, ReadInv, HasMap, Idle
  <2> QED BY <1>3, <2>1, <2>2
<1>7. CASE Entries
  <2>1. CASE phase' \in {"open", "undo"} /\ UNCHANGED <<maps, job>>
    <3>1. HasMap'
      BY <1>7, <2>1 DEF PkgReads, ReadInv, HasMap, Entries
    <3> QED BY <1>3, <2>1, <3>1
  <2>2. CASE hdr = "map" /\ ~Readable(maps["pkg"], TableAt, 1) /\ Crash
    <3>1. phase = "entries"
      BY <1>7 DEF Entries
    <3>2. maps["pkg"].state = "mapped"
      BY <2>2, <3>1 DEF PkgReads, ReadInv, HasMap
    <3>3. TableAt \in Nat /\ TableAt + 1 <= PackageSize
      BY PackageConstants
    <3> QED BY <1>4, <2>2, <3>2, <3>3
  <2>3. CASE Stray(TableAt) /\ Crash
    <3>1. maps["pkg"].state = "pread" /\ TableAt \in wild' /\ ~InHeader(TableAt)
      BY <1>7, <2>3 DEF Entries, Entry, Stray, PkgReads, ReadInv, HasMap
    <3> QED BY <1>1, <1>2, <2>3, <3>1, CrashKnown DEF PkgReads
  <2> QED BY <1>7, <2>1, <2>2, <2>3 DEF Entries, Gone
<1> QED BY <1>5, <1>6, <1>7

LEMMA EntryDataReads == ASSUME PkgReads, EntryData PROVE MapsKnown' /\ ReadInv'
<1>1. /\ phase = "open" /\ Ready /\ UNCHANGED <<disk, input, hdr, offset, answer, maps, job>>
      /\ SizesOnDisk' /\ MapInv'
  BY DiskSame, EntryDataKeeps DEF PkgReads, MapsKnown, EntryData, Crash, PkgStays
<1>2. CASE phase' = phase
  <2>1. MapsKnown'
    BY <1>1, SameSized DEF PkgReads
  <2>2. FilesKnown' /\ HasMap'
    BY <1>1, <1>2, Zenon DEF PkgReads, ReadInv, FilesKnown, FilesOf, HasMap
  <2>3. Reading' /\ NoneYet' /\ CrashCause'
    BY <1>1, <1>2 DEF Reading, NoneYet, CrashCause
  <2>4. ReadsThePackage'
    BY <1>1, <1>2, Zenon DEF PkgReads, ReadInv, ReadsThePackage, CutRight, PackageCell
  <2> QED BY <2>1, <2>2, <2>3, <2>4 DEF ReadInv
<1>3. CASE hdr = "map" /\ ~Readable(maps["pkg"], DataAt, 1) /\ Crash
  <2>1. maps["pkg"].state = "mapped"
    BY <1>1, <1>3 DEF PkgReads, ReadInv, HasMap
  <2>2. DataAt \in Nat /\ DataAt + 1 <= PackageSize
    BY PackageConstants
  <2>3. TooShort("pkg")
    BY <1>3, <2>1, <2>2, CauseOfCrash DEF PkgReads, ReadInv
  <2> QED BY <1>1, <1>3, <2>1, <2>3, CrashKnown DEF PkgReads
<1>4. CASE Stray(DataAt) /\ Crash
  <2>1. maps["pkg"].state = "pread" /\ DataAt \in wild' /\ ~InHeader(DataAt)
    BY <1>1, <1>4 DEF EntryData, Entry, Stray, PkgReads, ReadInv, HasMap
  <2> QED BY <1>1, <1>4, <2>1, CrashKnown DEF PkgReads
<1> QED BY <1>2, <1>3, <1>4 DEF EntryData, Gone

\* The error exit of pkg_alloc, pkg_free, and the return of an error.
LEMMA ClosingReads == ASSUME PkgReads, Undo \/ Free \/ Failed PROVE MapsKnown' /\ ReadInv'
<1>1. disk' = disk /\ phase' \in {"failed", "closed"} /\ NoMap("probe") /\ SizesOnDisk' /\ MapInv'
  BY DiskSame, UndoKeeps, FreeKeeps, FailedKeeps
  DEF PkgReads, MapsKnown, Undo, Free, Failed, PkgInv, PkgStays
<1>2. CASE Undo \/ Free
  <2>1. Unmap("pkg", "null") /\ job' = job /\ Ready /\ answer'.is = "none"
    BY <1>2 DEF Undo, Free, GiveBack, PkgReads, PkgInv, NoAnswer
  <2>2. MapsKnown'
    BY <1>1, <2>1, UnmapSized, SlotsThere DEF PkgReads
  <2>3. maps'["probe"] = maps["probe"] /\ maps'["pkg"].state = "null"
    <3>1. maps' = [maps EXCEPT !["pkg"] = [Null EXCEPT !.state = "null"]]
          /\ maps \in [Slots -> MapRecord]
      BY <2>1, Zenon DEF Unmap, PkgReads, MapsKnown, MapInv, MapTypes
    <3> QED BY <3>1, SlotsThere DEF Null
  <2>4. FilesKnown' /\ HasMap'
    BY <1>1, <2>3 DEF FilesKnown, HasMap, NoMap
  <2> QED BY <1>1, <2>1, <2>2, <2>4, Quiet
<1>3. CASE Failed
  <2>1. UNCHANGED <<maps, job, answer>> /\ phase = "failed" /\ NoMap("pkg")
    BY <1>3 DEF Failed, mapVars, PkgReads, PkgInv
  <2>2. MapsKnown'
    BY <1>1, <2>1, SameSized DEF PkgReads
  <2>3. FilesKnown' /\ HasMap' /\ answer'.is = "none"
    BY <1>1, <2>1 DEF FilesKnown, HasMap, NoMap, PkgReads, ReadInv, NoneYet
  <2> QED BY <1>1, <2>2, <2>3, Quiet
<1> QED BY <1>2, <1>3

\* The callbacks of the outer PFS (pkg.c:1598).
LEMMA ReadImageReads == ASSUME PkgReads, ReadImage PROVE MapsKnown' /\ ReadInv'
<1>1. /\ phase = "open" /\ Ready /\ UNCHANGED <<disk, input, hdr>>
      /\ SizesOnDisk' /\ MapInv' /\ maps' = maps /\ FilesOf
      /\ maps["pkg"].state \in {"mapped", "pread"}
  BY DiskSame, ReadImageKeeps
  DEF PkgReads, MapsKnown, ReadImage, Crash, PkgStays, mapVars, StartPread, ReadInv, HasMap, FilesKnown
<1>2. job' = job \/ job'.pc = "pread"
  BY DEF ReadImage, Crash, mapVars, StartPread, Idle
<1>3. MapsKnown'
  BY <1>1, <1>2, SameSized DEF PkgReads
<1>4. phase' # "crashed" => FilesKnown' /\ HasMap'
  <2>1. phase' \in {"open", "reading", "crashed"}
    BY <1>1 DEF ReadImage, Crash
  <2>2. /\ hdr = "map" => maps["pkg"].state = "mapped"
        /\ hdr = "buffer" => maps["pkg"].state = "pread"
    BY <1>1 DEF PkgReads, ReadInv, HasMap
  <2>3. HasMap'
    BY <1>1, <2>2 DEF HasMap
  <2>4. phase' # "crashed" => FilesKnown'
    <3>1. FilesOf' = FilesOf
      BY <1>1 DEF FilesOf
    <3>2. maps["probe"].state # "null" => input = "pattern" /\ maps["probe"].paths = <<Piece[0]>>
      BY DEF PkgReads, ReadInv, FilesKnown
    <3> QED BY <1>1, <2>1, <3>1, <3>2 DEF FilesKnown
  <2> QED BY <2>3, <2>4
<1>5. CASE phase' = phase /\ answer'.is = "error"
  BY <1>1, <1>3, <1>4, <1>5
  DEF ReadInv, Reading, NoneYet, CrashCause, ReadsThePackage
<1>6. ASSUME NEW r \in Requests, r.off + r.len <= ImageSize, offset' = r.off,
             \/ /\ maps["pkg"].state = "pread" /\ phase' = "reading" /\ answer' = NoAnswer
                /\ StartPread("pkg", ImageAt + r.off, r.len)
             \/ /\ maps["pkg"].state = "mapped"
                /\ IF Readable(maps["pkg"], ImageAt + r.off, r.len)
                   THEN /\ Answer("ok", r.off, Cells(maps["pkg"], ImageAt + r.off, r.len))
                        /\ UNCHANGED <<phase, mapVars>>
                   ELSE Crash /\ UNCHANGED answer
      PROVE  ReadInv'
  <2>1. r.off \in Nat /\ r.len \in Nat /\ ImageAt + r.off \in Nat
        /\ ImageAt + r.off + r.len <= PackageSize
    BY <1>6, PkgAssumption, PackageConstants
  <2>2. CASE /\ maps["pkg"].state = "pread" /\ phase' = "reading" /\ answer' = NoAnswer
             /\ StartPread("pkg", ImageAt + r.off, r.len)
    <3>1. /\ job'.pc = "pread" /\ job'.slot = "pkg" /\ job'.off = ImageAt + r.off
          /\ job'.len = r.len /\ job'.got = <<>>
      BY <2>2 DEF StartPread, Idle
    <3>2. Reading'
      BY <1>1, <1>6, <2>1, <2>2, <3>1 DEF Reading
    <3> QED BY <1>4, <2>2, <3>2 DEF ReadInv, NoneYet, NoAnswer, CrashCause, ReadsThePackage
  <2>3. CASE /\ maps["pkg"].state = "mapped" /\ UNCHANGED <<phase, mapVars>>
             /\ Answer("ok", r.off, Cells(maps["pkg"], ImageAt + r.off, r.len))
    <3> DEFINE m == maps["pkg"]
    <3>1. /\ answer'.is = "ok" /\ answer'.off = r.off
          /\ answer'.cells = [k \in 1 .. r.len |-> Cell(m, ImageAt + r.off + k - 1)]
      BY <2>3 DEF Answer, Cells
    <3>2. ASSUME CutRight', NEW k \in DOMAIN answer'.cells
          PROVE  answer'.cells[k] \in {Zero, PackageCell(ImageAt + r.off + k - 1)}
      <4>1. k \in 1 .. r.len /\ answer'.cells[k] = Cell(m, ImageAt + r.off + k - 1)
        BY <3>1, <3>2
      <4>2. ImageAt + r.off + k - 1 \in 0 .. PackageSize - 1
        BY <2>1, <4>1, PackageConstants, SMTT(20)
      <4>3. CutRight /\ Sized(m)
        <5>1. CutRight
          BY <1>1, <3>2 DEF CutRight
        <5>2. Sized(m)
          BY <1>1, SlotsThere, Zenon DEF PkgReads, MapsKnown, SizesKnown
        <5> QED BY <5>1, <5>2
      <4> QED BY <1>1, <4>1, <4>2, <4>3, PackageCells
    <3>3. ReadsThePackage'
      <4> SUFFICES ASSUME CutRight', NEW k \in DOMAIN answer'.cells
                   PROVE  \/ answer'.cells[k] = PackageCell(ImageAt + answer.off + k - 1)'
                          \/ answer'.cells[k] = Zero /\ maps'["pkg"].state = "mapped"
        BY DEF ReadsThePackage
      <4>1. PackageCell(ImageAt + answer.off + k - 1)' = PackageCell(ImageAt + r.off + k - 1)
        BY <1>1, <3>1, Zenon DEF PackageCell
      <4>2. answer'.cells[k] \in {Zero, PackageCell(ImageAt + r.off + k - 1)}
        BY <3>2
      <4> QED BY <1>1, <2>3, <4>1, <4>2
    <3> QED BY <1>1, <1>4, <2>3, <3>3 DEF ReadInv, NoneYet, CrashCause, Reading
  <2>4. CASE maps["pkg"].state = "mapped" /\ ~Readable(maps["pkg"], ImageAt + r.off, r.len) /\ Crash
    <3>1. TooShort("pkg")
      BY <2>1, <2>4, CauseOfCrash DEF PkgReads, ReadInv
    <3> QED BY <1>1, <2>4, <3>1, CrashKnown DEF PkgReads
  <2> QED BY <1>6, <2>2, <2>3, <2>4
<1>7. PICK r \in Requests :
          \/ UNCHANGED phase /\ answer'.is = "error"
          \/ /\ r.off + r.len <= ImageSize /\ offset' = r.off
             /\ \/ /\ maps["pkg"].state = "pread" /\ phase' = "reading" /\ answer' = NoAnswer
                   /\ StartPread("pkg", ImageAt + r.off, r.len)
                \/ /\ maps["pkg"].state = "mapped"
                   /\ IF Readable(maps["pkg"], ImageAt + r.off, r.len)
                      THEN /\ Answer("ok", r.off, Cells(maps["pkg"], ImageAt + r.off, r.len))
                           /\ UNCHANGED <<phase, mapVars>>
                      ELSE Crash /\ UNCHANGED answer
  <2>1. \A off, cells : Answer("error", off, cells) => answer'.is = "error"
    BY DEF Answer
  <2> QED BY <2>1, Zenon DEF ReadImage
<1> QED BY <1>3, <1>5, <1>6, <1>7

LEMMA ImageReadReads == ASSUME PkgReads, ImageRead PROVE MapsKnown' /\ ReadInv'
<1>1. /\ phase = "reading" /\ phase' = "open" /\ job.pc = "read" /\ job' = Idle
      /\ UNCHANGED <<disk, maps, input, hdr, offset>> /\ SizesOnDisk' /\ MapInv'
      /\ answer' = [is |-> job.status, off |-> offset,
                    cells |-> IF job.status = "ok" THEN job.got ELSE <<>>]
  BY DiskSame, ImageReadKeeps DEF PkgReads, MapsKnown, ImageRead, PkgStays, Answer
<1>2. MapsKnown'
  <2>1. job'.pc = "idle"
    BY <1>1 DEF Idle
  <2> QED BY <1>1, <2>1, SameSized DEF PkgReads
<1>3. FilesKnown' /\ HasMap' /\ Reading' /\ NoneYet' /\ CrashCause'
  BY <1>1 DEF PkgReads, ReadInv, FilesKnown, FilesOf, HasMap, Reading, NoneYet, CrashCause
<1>4. ReadsThePackage'
  <2> SUFFICES ASSUME job.status = "ok", NEW k \in DOMAIN job.got
               PROVE  job.got[k] = PackageCell(ImageAt + offset + k - 1)
    <3>1. \A x : PackageCell(x)' = PackageCell(x)
      BY <1>1 DEF PackageCell
    <3> QED BY <1>1 DEF ReadsThePackage, PackageCell
  <2>1. /\ maps["pkg"].state = "pread" /\ offset \in Nat /\ job.off = ImageAt + offset
        /\ job.len \in Nat /\ job.off + job.len <= PackageSize /\ Len(job.got) <= job.len
        /\ \A j \in 1 .. Len(job.got) : job.got[j] = <<maps["pkg"].paths[1], job.off + j - 1>>
    BY <1>1 DEF PkgReads, ReadInv, Reading
  <2>2. job.got \in Seq(Paths \X Int)
    BY DEF PkgReads, MapsKnown, MapInv, MapTypes, JobRecord
  <2>3. k \in 1 .. Len(job.got) /\ Len(job.got) \in Nat
    BY <2>2
  <2> DEFINE n == ImageAt + offset + k - 1
  <2>4. n \in 0 .. PackageSize - 1 /\ job.got[k] = <<maps["pkg"].paths[1], n>>
    BY <2>1, <2>3, PackageConstants, SMTT(20)
  <2>5. FilesOf /\ Len(maps["pkg"].paths) = 1
    BY <2>1, SlotsThere DEF PkgReads, MapsKnown, MapInv, NullsEmpty, ReadInv, FilesKnown
  <2> HIDE DEF n
  <2>6. CASE input = "whole"
    <3>1. maps["pkg"].paths = <<Package>>
      BY <2>5, <2>6 DEF FilesOf
    <3>2. PackageCell(n) = <<Package, n>>
      BY <2>6 DEF PackageCell
    <3> QED BY <2>4, <3>1, <3>2 DEF n
  <2>7. CASE input = "pattern"
    <3>1. maps["pkg"].paths = Pieces /\ PieceCount = 1
      BY <2>5, <2>7, PackageConstants DEF FilesOf
    <3>2. maps["pkg"].paths[1] = Piece[0]
      BY <3>1 DEF Pieces
    <3>3. 1 * PieceSize >= PackageSize
      BY <3>1, PackageConstants
    <3>4. n \div PieceSize = 0 /\ n % PieceSize = n
      <4>1. /\ n \in Nat /\ 0 \in Nat /\ PieceSize \in Nat \ {0}
            /\ 0 * PieceSize <= n /\ n < 0 * PieceSize + PieceSize
        BY <2>4, <3>3, PackageConstants
      <4>2. n \div PieceSize = 0 /\ n % PieceSize = n - 0 * PieceSize
        BY <4>1, DivisionUnique, Zenon
      <4> QED BY <4>1, <4>2
    <3>5. PackageCell(n) = <<Piece[0], n>>
      BY <2>7, <3>4 DEF PackageCell
    <3> QED BY <2>4, <3>2, <3>5 DEF n
  <2> QED BY <2>5, <2>6, <2>7 DEF FilesOf
<1> QED BY <1>2, <1>3, <1>4 DEF ReadInv

\* A round of pread, or its end.
LEMMA RoundReads ==
    ASSUME MapsKnown, Reading, Pread \/ PreadEnds, UNCHANGED <<phase, offset>> PROVE Reading'
<1> SUFFICES ASSUME phase = "reading" PROVE Reading'
  BY DEF Reading
<1>1. /\ maps["pkg"].state = "pread" /\ job.slot = "pkg" /\ offset \in Nat
      /\ job.off = ImageAt + offset /\ job.len \in Nat /\ job.off + job.len <= PackageSize
      /\ Len(job.got) <= job.len
      /\ \A k \in 1 .. Len(job.got) : job.got[k] = <<maps["pkg"].paths[1], job.off + k - 1>>
  BY DEF Reading
<1>2. maps' = maps /\ job.pc = "pread" /\ job \in JobRecord
  BY DEF Pread, PreadEnds, MapsKnown, MapInv, MapTypes
<1>3. CASE job' \in {[job EXCEPT !.pc = "read", !.status = "error"],
                    [job EXCEPT !.pc = "read", !.status = "ok"]}
  <2>1. job'.pc = "read" /\ job'.slot = job.slot /\ job'.off = job.off /\ job'.len = job.len
        /\ job'.got = job.got
    BY <1>2, <1>3 DEF JobRecord
  <2> QED BY <1>1, <1>2, <2>1 DEF Reading
<1>4. ASSUME NEW n \in 1 .. Left,
             job' = [job EXCEPT !.got = @ \o [k \in 1 .. n |-> <<Map.paths[1], NextCell + k - 1>>]]
      PROVE  Reading'
  <2> DEFINE file == maps["pkg"].paths[1]
             new == [k \in 1 .. n |-> <<file, NextCell + k - 1>>]
             got == job.got \o new
  <2>1. /\ job.got \in Seq(Paths \X Int) /\ Len(job.got) \in Nat /\ job.off \in Int
        /\ n \in Nat /\ Len(job.got) + n <= job.len
    <3>1. job.got \in Seq(Paths \X Int) /\ Len(job.got) \in Nat /\ job.off \in Int
      BY <1>2 DEF JobRecord
    <3> QED BY <1>1, <3>1 DEF Left
  <2>2. /\ job' = [job EXCEPT !.got = got]
        /\ job'.pc = "pread" /\ job'.slot = "pkg" /\ job'.off = job.off /\ job'.len = job.len
        /\ job'.got = got
    BY <1>1, <1>2, <1>4 DEF JobRecord
  <2>3. Len(got) = Len(job.got) + n
        /\ \A k \in 1 .. Len(got) : got[k] = <<file, job.off + k - 1>>
    <3>1. \A k \in 1 .. n : new[k] = <<file, job.off + (Len(job.got) + k) - 1>>
      BY <2>1 DEF NextCell
    <3>2. Len(new) = n /\ new \in Seq(Paths \X Int)
      <4>1. file \in Paths
        <5>1. maps["pkg"].paths \in Seq(Paths) /\ Len(maps["pkg"].paths) = 1
          BY <1>1, SlotsThere DEF MapsKnown, MapInv, MapTypes, MapRecord, NullsEmpty
        <5> QED BY <5>1
      <4>2. NextCell \in Int
        BY <2>1 DEF NextCell
      <4> HIDE DEF file
      <4>3. \A k \in 1 .. n : <<file, NextCell + k - 1>> \in Paths \X Int
        BY <4>1, <4>2
      <4>4. new \in [1 .. n -> Paths \X Int]
        BY <4>3
      <4> QED BY <2>1, <4>4
    <3> HIDE DEF new
    <3>3. /\ Len(got) = Len(job.got) + n
          /\ \A k \in 1 .. Len(job.got) + n :
                got[k] = IF k <= Len(job.got) THEN job.got[k] ELSE new[k - Len(job.got)]
      BY <2>1, <3>2, ConcatProperties, Zenon
    <3>4. ASSUME NEW k \in 1 .. Len(got) PROVE got[k] = <<file, job.off + k - 1>>
      <4>1. CASE k <= Len(job.got)
        <5>1. got[k] = job.got[k]
          BY <2>1, <3>2, <3>3, <4>1
        <5> QED BY <1>1, <2>1, <4>1, <5>1
      <4>2. CASE k > Len(job.got)
        <5>1. k - Len(job.got) \in 1 .. n /\ Len(job.got) + (k - Len(job.got)) = k
          BY <2>1, <3>3, <4>2
        <5>2. got[k] = new[k - Len(job.got)]
          BY <2>1, <3>2, <3>3, <4>2
        <5> QED BY <3>1, <5>1, <5>2
      <4> QED BY <2>1, <3>3, <4>1, <4>2, SMTT(20)
    <3> QED BY <3>3, <3>4
  <2> HIDE DEF got
  <2> QED BY <1>1, <1>2, <2>1, <2>2, <2>3 DEF Reading
<1> QED BY <1>3, <1>4, Zenon DEF Pread, PreadEnds

\* A step of map_files or map_pread, of the package or of main.c.
LEMMA MapStepReads ==
    ASSUME MapsKnown, ReadInv, MapStep, UNCHANGED pkgVars PROVE MapsKnown' /\ ReadInv'
<1> USE DEF pkgVars
<1>1. /\ MapsKnown' /\ OthersKept /\ disk' = disk
      /\ \A s \in Slots : maps'[s].state # "null" =>
            maps'[s].paths = maps[s].paths /\ maps[s].state # "null"
  BY MapStepSized, MapStepKeeps DEF MapsKnown
<1>2. /\ maps["pkg"].state \in {"mapped", "pread"} => maps'["pkg"] = maps["pkg"]
      /\ maps["probe"].state = "mapped" => maps'["probe"] = maps["probe"]
  BY <1>1, SlotsThere DEF OthersKept
<1>3. FilesKnown'
  BY <1>1, SlotsThere DEF ReadInv, FilesKnown, FilesOf
<1>4. HasMap'
  BY <1>2 DEF ReadInv, HasMap
<1>5. NoneYet' /\ ReadsThePackage'
  <2>1. CASE phase = "open"
    <3>1. maps'["pkg"] = maps["pkg"]
      BY <1>2, <2>1 DEF ReadInv, HasMap
    <3> QED BY <2>1, <3>1, Zenon DEF ReadInv, ReadsThePackage, NoneYet, CutRight, PackageCell
  <2>2. CASE phase # "open"
    BY <2>2 DEF ReadInv, NoneYet, ReadsThePackage
  <2> QED BY <2>1, <2>2
<1>6. CrashCause'
  <2> SUFFICES ASSUME phase = "crashed" PROVE CrashCause'
    BY DEF CrashCause
  <2>1. ASSUME NEW s \in {"probe", "pkg"}, maps[s].state = "mapped", TooShort(s)
        PROVE  maps'[s].state = "mapped" /\ TooShort(s)'
    <3>1. maps'[s] = maps[s]
      BY <1>2, <2>1
    <3> QED BY <1>1, <2>1, <3>1, Zenon DEF TooShort, Need, Share
  <2>2. maps["pkg"].state = "pread" => maps'["pkg"].state = "pread"
    BY <1>2
  <2> QED BY <2>1, <2>2, ZenonT(30) DEF ReadInv, CrashCause, InHeader
<1>7. Reading'
  <2>1. CASE phase # "reading"
    BY <2>1 DEF Reading
  <2>2. CASE phase = "reading"
    <3>1. job.pc \in {"pread", "read"}
      BY <2>2 DEF ReadInv, Reading
    <3>2. Pread \/ PreadEnds
      BY <3>1 DEF MapStep, Stat, OpenPiece, MapPiece, Probe, MapRefused, MapFails
    <3> QED BY <3>2, RoundReads DEF ReadInv
  <2> QED BY <2>1, <2>2
<1> QED BY <1>1, <1>3, <1>4, <1>5, <1>6, <1>7 DEF ReadInv

\* Any step of pkg.c.
LEMMA PkgStepReads ==
    ASSUME PkgReads, PkgStep \/ PkgUse \/ Free PROVE MapsKnown' /\ ReadInv'
BY ProbeReads, HeaderReads, EntryDataReads, ClosingReads, ReadImageReads, ImageReadReads, Zenon
DEF PkgStep, PkgUse

\* A file is cut, or added to, by another program.
LEMMA FileChangesReads == ASSUME PkgReads, FileChanges PROVE MapsKnown' /\ ReadInv'
<1>1. phase # "crashed" /\ job.pc # "fault" /\ UNCHANGED <<mapVars, pkgVars>> /\ MapInv'
  BY FileChangesKeeps DEF FileChanges, PkgReads, MapsKnown, PkgStays
<1>2. PICK p \in Used : \E n \in Sizes[p] \ {Absent} : disk' = [disk EXCEPT ![p] = n]
  BY DEF FileChanges
<1>3. p \in Paths
  BY DEF Used, PkgReads, MapsKnown, MapInv, MapTypes, MapRecord
<1>4. PICK n \in Nat : disk' = [disk EXCEPT ![p] = n]
  BY <1>2, <1>3, MapAssumption
<1>5. SizesOnDisk'
  <2>1. \A q \in Paths : disk'[q] = IF q = p THEN n ELSE disk[q]
    BY <1>4 DEF PkgReads, MapsKnown, MapInv, MapTypes
  <2> QED BY <1>4, <2>1 DEF PkgReads, MapsKnown, SizesOnDisk, Absent
<1>6. maps' = maps /\ job' = job
  BY <1>1 DEF mapVars
<1> QED BY <1>1, <1>5, <1>6, SameSized, SameReads DEF PkgReads

\* A step of main.c that leaves the package alone.
LEMMA ElsewhereReads ==
    ASSUME PkgReads, UNCHANGED <<disk, pkgVars>>, Ready,
           maps'["pkg"] = maps["pkg"], maps'["probe"] = maps["probe"]
    PROVE  ReadInv'
<1>1. phase # "reading"
  BY DEF PkgReads, ReadInv, Reading, Ready
<1> QED BY <1>1, SameReads DEF PkgReads

(***************************************************************************)
(* A run of the tool                                                       *)
(***************************************************************************)
LEMMA ReadInit == LineInit => MapsKnown /\ ReadInv
<1> SUFFICES ASSUME LineInit PROVE MapsKnown /\ ReadInv
  OBVIOUS
<1>1. /\ disk \in Disks /\ maps = [s \in Slots |-> Null] /\ job = Idle
      /\ phase = "closed" /\ answer = NoAnswer /\ MapInv
  BY LineInitInv DEF LineInit, FileInit, MapInit, PkgInit, LineInv
<1>2. \A s \in Slots : maps[s].state = "null"
  BY <1>1, NullIsMap
<1>3. SizesOnDisk
  <2>1. ASSUME NEW p \in Paths PROVE disk[p] >= Absent
    <3>1. disk[p] \in Sizes[p] /\ Sizes[p] \subseteq {Absent} \cup Nat
      BY <1>1, MapAssumption DEF Disks
    <3> QED BY <3>1 DEF Absent
  <2> QED BY <2>1 DEF SizesOnDisk
<1>4. SizesKnown /\ ProbeKnown /\ FaultCause
  <2>1. job.pc = "idle"
    BY <1>1 DEF Idle
  <2> QED BY <1>2, <2>1 DEF SizesKnown, ProbeKnown, FaultCause
<1>5. ReadInv
  BY <1>1, <1>2, SlotsThere
  DEF ReadInv, FilesKnown, HasMap, Reading, NoneYet, NoAnswer, ReadsThePackage, CrashCause
<1> QED BY <1>1, <1>3, <1>4, <1>5 DEF MapsKnown

LEMMA SetupReads ==
    ASSUME LineInv, LineInv', MapsKnown, ReadInv, MapPfs \/ PfsAllocFails \/ CleanupPfs
    PROVE  MapsKnown' /\ ReadInv'
<1>1. PkgReads /\ MapInv' /\ UNCHANGED <<disk, pkgVars>> /\ Ready
  BY DEF LineInv, PkgReads, MapPfs, PfsAllocFails, CleanupPfs
<1>2. SizesOnDisk'
  BY <1>1, DiskSame
<1>3. CASE MapPfs
  <2> DEFINE one == <<IF package.pkg THEN Image ELSE Package>>
  <2>1. one \in Seq(Paths) /\ StartMap("pfs", one)
    BY <1>3, PieceAssumption, LineAssumption DEF MapPfs
  <2> HIDE DEF one
  <2>2. MapsKnown' /\ maps'["pkg"] = maps["pkg"] /\ maps'["probe"] = maps["probe"]
    BY <1>1, <2>1, StartMapSized, SlotsThere
  <2> QED BY <1>1, <2>2, ElsewhereReads
<1>4. ASSUME NEW left \in {"null", "freed"}, Unmap("pfs", left), job' = job
      PROVE  MapsKnown' /\ ReadInv'
  <2>1. MapsKnown'
    BY <1>1, <1>4, UnmapSized, SlotsThere
  <2>2. maps' = [maps EXCEPT !["pfs"] = [Null EXCEPT !.state = left]]
        /\ maps \in [Slots -> MapRecord]
    BY <1>4, Zenon DEF Unmap, MapsKnown, MapInv, MapTypes
  <2>3. maps'["pkg"] = maps["pkg"] /\ maps'["probe"] = maps["probe"]
    BY <2>2, SlotsThere
  <2> QED BY <1>1, <2>1, <2>3, ElsewhereReads
<1>5. CASE PfsAllocFails
  BY <1>4, <1>5 DEF PfsAllocFails
<1>6. CASE CleanupPfs
  <2>1. CASE Unmap("pfs", "null")
    BY <1>4, <1>6, <2>1 DEF CleanupPfs
  <2>2. CASE UNCHANGED maps
    <3>1. job' = job
      BY <1>6 DEF CleanupPfs
    <3> QED BY <1>1, <1>2, <2>2, <3>1, SameSized, ElsewhereReads
  <2> QED BY <1>6, <2>1, <2>2 DEF CleanupPfs
<1> QED BY <1>3, <1>5, <1>6

LEMMA ReadStep ==
    LineInv /\ LineInv' /\ MapsKnown /\ ReadInv /\ [LineNext]_lineVars => MapsKnown' /\ ReadInv'
<1> SUFFICES ASSUME LineInv, LineInv', MapsKnown, ReadInv, [LineNext]_lineVars
             PROVE  MapsKnown' /\ ReadInv'
  OBVIOUS
<1>1. PkgReads
  BY DEF LineInv, PkgReads
<1>2. CASE UNCHANGED fileVars
  <2>1. UNCHANGED <<disk, maps, job, pkgVars>> /\ MapInv'
    BY <1>2 DEF fileVars, mapVars, LineInv
  <2>2. SizesOnDisk'
    BY <2>1, DiskSame
  <2> QED BY <2>1, <2>2, SameSized, SameReads
<1>3. CASE UNCHANGED lineVars \/ Ended
  BY <1>2, <1>3 DEF Ended, lineVars
<1>4. CASE ParseArgs \/ Input \/ Output \/ PfsMapFails \/ PfsCrash \/ PfsAlloc \/ HavePackage
           \/ Skip \/ Makes \/ Warns \/ GivesUp \/ ErrorExit \/ NoImage \/ Handled
  BY <1>2, <1>4, Zenon
  DEF ParseArgs, Input, Output, PfsMapFails, PfsCrash, PfsAlloc, HavePackage, Skip, Makes, Warns,
      GivesUp, ErrorExit, NoImage, Handled
<1>5. CASE MapPfs \/ PfsAllocFails \/ CleanupPfs
  BY <1>5, SetupReads
<1>6. CASE AllocPackage
  BY <1>1, <1>6, AllocReads DEF AllocPackage
<1>7. CASE InPackage
  BY <1>1, <1>7, MapStepReads, PkgStepReads DEF InPackage
<1>8. CASE ReadsImages \/ Reads
  BY <1>1, <1>8, PkgStepReads DEF ReadsImages, Reads, PkgUse
<1>9. CASE NoPackage
  BY <1>1, <1>9, PkgStepReads DEF NoPackage, PkgStep
<1>10. CASE FreePackage
  BY <1>1, <1>2, <1>10, PkgStepReads DEF FreePackage
<1>11. CASE Changes
  BY <1>1, <1>11, FileChangesReads DEF Changes
<1> QED BY <1>3, <1>4, <1>5, <1>6, <1>7, <1>8, <1>9, <1>10, <1>11, Zenon DEF LineNext

\* A read of the image that succeeds has the cells of the package that it was
\* asked for, from a map of any pieces, or by pread in rounds of any length,
\* whatever other programs do to the files meanwhile (pkg.c:1609,
\* mapped_file.c:401).
THEOREM ReadsAreOfThePackage == LineSpec => []ReadsThePackage
<1>1. ReadInv => ReadsThePackage
  BY DEF ReadInv
<1> QED BY <1>1, ReadInit, ReadStep, LineInitInv, LineStepInv, PTL DEF LineSpec

\* The process ends by reading a package only where a mapped file of it is shorter
\* than a header or than the header makes it, or was cut, or where the package
\* could not be mapped and an entry lies behind the header that was read
\* (pkg.c:1060); and inside map_files only where the file was cut before its first
\* cell was read, or no piece of several was mapped yet (mapped_file.c:155, 234).
THEOREM CrashesHaveACause == LineSpec => []CrashesForACause
<1>1. MapsKnown /\ ReadInv => CrashesForACause
  BY DEF ReadInv, MapsKnown, CrashesForACause
<1> QED BY <1>1, ReadInit, ReadStep, LineInitInv, LineStepInv, PTL DEF LineSpec
=============================================================================
