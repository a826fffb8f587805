--------------------------- MODULE Wildcard_proofs ---------------------------
(***************************************************************************)
(* wildcard_match answers as the definition of a match does, for every     *)
(* name and mask.  The first lemmas take a match apart from its end, as    *)
(* the loop does; MatchInv is what the loop knows of the whole match.  The *)
(* last part is about the names of a path: a mask made of an argument, cut *)
(* at a separator, fits the same number of names of the path.              *)
(***************************************************************************)
EXTENDS Selection, FiniteSetTheorems, SequenceTheorems, WellFoundedInduction, TLAPS

Cuts(m, d) == [0 .. m -> 0 .. d]

\* Nothing of the mask matches nothing of the name.
LEMMA FitsEmpty ==
    ASSUME NEW c, NEW d \in Nat
    PROVE  Fits(c, 0, d) <=> d = 0
<1>1. ASSUME Fits(c, 0, d) PROVE d = 0
  <2>1. PICK cut \in Cuts(0, d) : IsCut(c, cut, 0, d)
    BY <1>1 DEF Fits, Cuts
  <2> QED BY <2>1 DEF IsCut
<1>2. ASSUME d = 0 PROVE Fits(c, 0, d)
  <2> DEFINE cut == [i \in 0 .. 0 |-> 0]
  <2>1. cut \in [0 .. 0 -> 0 .. d] /\ IsCut(c, cut, 0, d)
    BY <1>2 DEF IsCut
  <2> QED BY <2>1 DEF Fits
<1> QED BY <1>1, <1>2

\* The last character of a mask, when it is no '*', takes the last of the name.
LEMMA FitsCharacter ==
    ASSUME NEW c, NEW m \in Nat, NEW d \in Nat, m >= 1, ~IsStar(c, m)
    PROVE  Fits(c, m, d) <=> d >= 1 /\ Accepts(c, m, d) /\ Fits(c, m - 1, d - 1)
<1>1. ASSUME Fits(c, m, d)
      PROVE  d >= 1 /\ Accepts(c, m, d) /\ Fits(c, m - 1, d - 1)
  <2>1. PICK cut \in Cuts(m, d) : IsCut(c, cut, m, d)
    BY <1>1 DEF Fits, Cuts
  <2>2. cut[m - 1] \in 0 .. d /\ d = cut[m - 1] + 1 /\ Accepts(c, m, d)
    BY <2>1 DEF IsCut, Cuts
  <2> DEFINE less == [i \in 0 .. m - 1 |-> cut[i]]
  <2>3. \A i \in 0 .. m - 1 : cut[i] \in 0 .. d - 1
    BY <2>1, <2>2 DEF IsCut, Cuts
  <2>4. less \in [0 .. m - 1 -> 0 .. d - 1]
    BY <2>3
  <2>5. IsCut(c, less, m - 1, d - 1)
    BY <2>1, <2>2 DEF IsCut, Cuts
  <2> QED BY <2>2, <2>4, <2>5 DEF Fits
<1>2. ASSUME d >= 1, Accepts(c, m, d), Fits(c, m - 1, d - 1)
      PROVE  Fits(c, m, d)
  <2>1. PICK cut \in Cuts(m - 1, d - 1) : IsCut(c, cut, m - 1, d - 1)
    BY <1>2 DEF Fits, Cuts
  <2> DEFINE more == [i \in 0 .. m |-> IF i = m THEN d ELSE cut[i]]
  <2>2. \A i \in 0 .. m - 1 : cut[i] \in 0 .. d - 1
    BY <2>1 DEF Cuts
  <2>3. more \in [0 .. m -> 0 .. d]
    BY <1>2, <2>2
  <2>4. /\ more[0] = 0 /\ more[m] = d
        /\ \A i, j \in 0 .. m : i <= j => more[i] <= more[j]
    BY <1>2, <2>1, <2>2 DEF IsCut
  <2>5. ASSUME NEW i \in 1 .. m, ~IsStar(c, i)
        PROVE  more[i] = more[i - 1] + 1 /\ Accepts(c, i, more[i])
    <3>1. CASE i = m
      BY <1>2, <2>1, <3>1 DEF IsCut
    <3>2. CASE i # m
      BY <2>1, <2>5, <3>2 DEF IsCut
    <3> QED BY <3>1, <3>2
  <2> QED BY <2>3, <2>4, <2>5 DEF IsCut, Fits
<1> QED BY <1>1, <1>2

\* The stars at the end of a mask take any rest of the name.
LEMMA FitsStars ==
    ASSUME NEW c, NEW m \in Nat, NEW d \in Nat, NEW k \in 0 .. m - 1, Stars(c, k + 1, m)
    PROVE  Fits(c, m, d) <=> \E j \in 0 .. d : Fits(c, k, j)
<1>1. ASSUME Fits(c, m, d) PROVE \E j \in 0 .. d : Fits(c, k, j)
  <2>1. PICK cut \in Cuts(m, d) : IsCut(c, cut, m, d)
    BY <1>1 DEF Fits, Cuts
  <2>2. cut[k] \in 0 .. d
    BY <2>1 DEF Cuts
  <2> DEFINE less == [i \in 0 .. k |-> cut[i]]
  <2>3. \A i \in 0 .. k : cut[i] \in 0 .. cut[k]
    BY <2>1, <2>2 DEF IsCut, Cuts
  <2>4. less \in [0 .. k -> 0 .. cut[k]]
    BY <2>3
  <2>5. IsCut(c, less, k, cut[k])
    BY <2>1 DEF IsCut, Cuts
  <2> QED BY <2>2, <2>4, <2>5 DEF Fits
<1>2. ASSUME NEW j \in 0 .. d, Fits(c, k, j) PROVE Fits(c, m, d)
  <2>1. PICK cut \in Cuts(k, j) : IsCut(c, cut, k, j)
    BY <1>2 DEF Fits, Cuts
  <2> DEFINE more == [i \in 0 .. m |-> IF i > k THEN d ELSE cut[i]]
  <2>2. \A i \in 0 .. k : cut[i] \in 0 .. d
    BY <2>1 DEF Cuts
  <2>3. more \in [0 .. m -> 0 .. d]
    BY <2>2
  <2>4. /\ more[0] = 0 /\ more[m] = d
        /\ \A a, b \in 0 .. m : a <= b => more[a] <= more[b]
    BY <2>1, <2>2 DEF IsCut
  <2>5. ASSUME NEW i \in 1 .. m, ~IsStar(c, i)
        PROVE  more[i] = more[i - 1] + 1 /\ Accepts(c, i, more[i])
    <3>1. i <= k
      BY <2>5 DEF Stars
    <3> QED BY <2>1, <2>5, <3>1 DEF IsCut
  <2> QED BY <2>3, <2>4, <2>5 DEF IsCut, Fits
<1> QED BY <1>1, <1>2

\* Only stars match the empty rest of a name.
LEMMA FitsNothing ==
    ASSUME NEW c, NEW m \in Nat
    PROVE  Fits(c, m, 0) <=> Stars(c, 1, m)
<1>1. ASSUME Fits(c, m, 0), NEW i \in 1 .. m PROVE IsStar(c, i)
  <2>1. PICK cut \in Cuts(m, 0) : IsCut(c, cut, m, 0)
    BY <1>1 DEF Fits, Cuts
  <2>2. cut[i] = 0 /\ cut[i - 1] = 0
    BY <2>1 DEF Cuts
  <2> QED BY <2>1, <2>2 DEF IsCut
<1>2. ASSUME Stars(c, 1, m) PROVE Fits(c, m, 0)
  <2> DEFINE cut == [i \in 0 .. m |-> 0]
  <2>1. cut \in [0 .. m -> 0 .. 0] /\ IsCut(c, cut, m, 0)
    BY <1>2 DEF IsCut, Stars
  <2> QED BY <2>1 DEF Fits
<1> QED BY <1>1, <1>2 DEF Stars

\* A set of naturals has a least element.
LEMMA Least ==
    ASSUME NEW S \in SUBSET Nat, S # {}
    PROVE  \E m \in S : \A k \in S : m <= k
<1>1. \E m \in S : \A k \in S : ~(<<k, m>> \in OpToRel(<, Nat))
  BY NatLessThanWellFounded, WFMin, Zenon
<1>2. PICK m \in S : \A k \in S : ~(<<k, m>> \in OpToRel(<, Nat))
  BY <1>1
<1>3. ASSUME NEW k \in S PROVE m <= k
  <2>1. <<k, m>> \in Nat \X Nat /\ ~(k < m)
    BY <1>2, <1>3 DEF OpToRel
  <2> QED BY <2>1
<1> QED BY <1>3

\* The run of stars before a place of the mask has a beginning.
LEMMA BeforeStarsExists ==
    ASSUME NEW c, NEW m \in Nat, m >= 1, IsStar(c, m)
    PROVE  /\ BeforeStars(c, m) \in 0 .. m - 1
           /\ Stars(c, BeforeStars(c, m) + 1, m)
<1> DEFINE S == {n \in 0 .. m : n = m \/ ~IsStar(c, m - n)}
<1>1. S \in SUBSET Nat /\ m \in S
  OBVIOUS
<1>2. PICK n \in S : \A k \in S : n <= k
  BY <1>1, Least, Zenon
<1>3. /\ m - n \in 0 .. m
      /\ m - n = 0 \/ ~IsStar(c, m - n)
      /\ \A i \in m - n + 1 .. m : IsStar(c, i)
  <2>1. ASSUME NEW i \in m - n + 1 .. m, ~IsStar(c, i) PROVE FALSE
    <3>1. m - i \in S
      BY <2>1
    <3> QED BY <1>2, <2>1, <3>1
  <2> QED BY <1>2, <2>1
<1>4. /\ BeforeStars(c, m) \in 0 .. m
      /\ BeforeStars(c, m) = 0 \/ ~IsStar(c, BeforeStars(c, m))
      /\ Stars(c, BeforeStars(c, m) + 1, m)
  BY <1>3 DEF BeforeStars, Stars
<1> QED BY <1>4

(***************************************************************************)
(* What the loop knows: how the part of the mask it has still to match,    *)
(* and the part before the last star, stand to the whole match.            *)
(***************************************************************************)
Ahead == ma \in 0 .. Len(call.mask) /\ data \in 0 .. Len(call.name)
NoFallback == lsm = None => (Whole(call) <=> Fits(call, ma, data))
Behind ==
    lsm # None =>
        /\ lsm \in 1 .. Len(call.mask) /\ lsn \in 0 .. Len(call.name)
        /\ ma <= lsm /\ lsn - data = lsm - ma
        /\ Whole(call) <=> \E j \in 0 .. lsn : Fits(call, lsm, j)
        /\ Fits(call, lsm, lsn) <=> Fits(call, ma, data)
        /\ \A j \in 0 .. lsn : Fits(call, lsm, j) =>
              j >= lsm - ma /\ Fits(call, ma, j - (lsm - ma))
MatchInv == /\ TypeOK
            /\ answer = "none" => NoFallback /\ Behind
            /\ MatchesTheMask
            /\ answer = "none" => call.name # <<>> /\ call.mask # <<>>

LEMMA InitMatches == Init => MatchInv
<1> SUFFICES ASSUME Init PROVE MatchInv
  OBVIOUS
<1> USE CharAssumption
<1>1. call.name \in Seq(Char) /\ call.mask \in Seq(Char) /\ call \in Call
  BY DEF Init, Strings, Call
<1>2. TypeOK
  BY <1>1 DEF Init, TypeOK, Call
<1> QED BY <1>2 DEF Init, MatchInv, NoFallback, Behind, MatchesTheMask, Whole

LEMMA StarMatches == MatchInv /\ Star => MatchInv'
<1> SUFFICES ASSUME MatchInv, Star PROVE MatchInv'
  OBVIOUS
<1> DEFINE k == BeforeStars(call, ma)
<1>1. /\ call' = call /\ data' = data /\ ma' = k /\ lsm' = k /\ lsn' = data
      /\ answer = "none" /\ ma \in 1 .. Len(call.mask) /\ data \in 1 .. Len(call.name)
      /\ answer' = IF k = 0 THEN "yes" ELSE "none"
      /\ IsStar(call, ma) /\ call \in Call
  BY DEF Star, Scanning, MatchInv, TypeOK, Call
<1>2. k \in 0 .. ma - 1 /\ Stars(call, k + 1, ma)
  BY <1>1, BeforeStarsExists
<1>3. Fits(call, ma, data) <=> \E j \in 0 .. data : Fits(call, k, j)
  BY <1>1, <1>2, FitsStars
<1>4. NoFallback /\ Behind /\ call.name # <<>> /\ call.mask # <<>>
  BY <1>1 DEF MatchInv
<1>5. Whole(call) <=> \E j \in 0 .. data : Fits(call, k, j)
  <2>1. CASE lsm = None
    BY <2>1, <1>3, <1>4 DEF NoFallback
  <2>2. CASE lsm # None
    <3>1. ASSUME NEW j \in 0 .. data, Fits(call, k, j) PROVE Whole(call)
      BY <2>2, <3>1, <1>3, <1>4 DEF Behind
    <3>2. ASSUME Whole(call) PROVE \E j \in 0 .. data : Fits(call, k, j)
      <4>1. PICK j \in 0 .. lsn : Fits(call, lsm, j)
        BY <2>2, <3>2, <1>4 DEF Behind
      <4> DEFINE r == j - (lsm - ma)
      <4>2. r \in Nat /\ r <= data /\ Fits(call, ma, r)
        BY <2>2, <4>1, <1>1, <1>4, SMTT(20) DEF Behind
      <4>3. PICK i \in 0 .. r : Fits(call, k, i)
        BY <4>2, <1>1, <1>2, FitsStars
      <4> QED BY <4>2, <4>3, <1>1
    <3> QED BY <3>1, <3>2
  <2> QED BY <2>1, <2>2
<1>6. k = 0 => Whole(call)
  <2>1. 0 \in 0 .. data /\ Fits(call, 0, 0)
    BY <1>1, FitsEmpty
  <2> QED BY <2>1, <1>5
<1>7. TypeOK'
  BY <1>1, <1>2 DEF TypeOK, MatchInv
<1>8. MatchesTheMask'
  BY <1>1, <1>4, <1>6 DEF MatchesTheMask
<1>9. ASSUME k # 0 PROVE NoFallback' /\ Behind'
  <2>1. lsm' # None /\ lsm' \in 1 .. Len(call.mask) /\ lsn' \in 0 .. Len(call.name)
    BY <1>9, <1>1, <1>2 DEF None
  <2>2. \A j \in 0 .. data : Fits(call, k, j) => j >= k - k /\ Fits(call, k, j - (k - k))
    BY <1>2
  <2>3. ma' <= lsm' /\ lsn' - data' = lsm' - ma'
    BY <1>1, <1>2
  <2> QED BY <2>1, <2>2, <2>3, <1>1, <1>5 DEF NoFallback, Behind
<1> QED BY <1>1, <1>4, <1>7, <1>8, <1>9 DEF MatchInv

LEMMA StepMatches == MatchInv /\ Step => MatchInv'
<1> SUFFICES ASSUME MatchInv, Step PROVE MatchInv'
  OBVIOUS
<1>1. /\ call' = call /\ data' = data - 1 /\ ma' = ma - 1
      /\ lsm' = lsm /\ lsn' = lsn /\ answer' = answer /\ answer = "none"
      /\ ma \in 1 .. Len(call.mask) /\ data \in 1 .. Len(call.name)
      /\ ~IsStar(call, ma) /\ Accepts(call, ma, data) /\ call \in Call
  BY DEF Step, Scanning, MatchInv, TypeOK, Call
<1>2. Fits(call, ma, data) <=> Fits(call, ma - 1, data - 1)
  BY <1>1, FitsCharacter
<1>3. TypeOK'
  BY <1>1 DEF TypeOK, MatchInv
<1>4. NoFallback /\ Behind /\ MatchesTheMask' /\ call.name # <<>> /\ call.mask # <<>>
  BY <1>1 DEF MatchInv, MatchesTheMask
<1>5. NoFallback'
  BY <1>1, <1>2, <1>4 DEF NoFallback
<1>6. ASSUME lsm # None, NEW j \in 0 .. lsn, Fits(call, lsm, j)
      PROVE  j >= lsm - (ma - 1) /\ Fits(call, ma - 1, j - (lsm - (ma - 1)))
  <2> DEFINE r == j - (lsm - ma)
  <2>1. r \in Nat /\ Fits(call, ma, r)
    BY <1>1, <1>4, <1>6 DEF Behind
  <2>2. r >= 1 /\ Fits(call, ma - 1, r - 1)
    BY <2>1, <1>1, FitsCharacter
  <2>3. r - 1 = j - (lsm - (ma - 1)) /\ j >= lsm - (ma - 1)
    <3>1. j \in Int /\ lsm \in Int /\ ma \in Int
      BY <1>1, <1>4, <1>6 DEF Behind
    <3> QED BY <2>1, <2>2, <3>1
  <2> QED BY <2>2, <2>3
<1>7. Behind'
  <2>1. SUFFICES ASSUME lsm # None PROVE Behind'
    BY <1>1 DEF Behind
  <2>2. /\ lsm \in 1 .. Len(call.mask) /\ lsn \in 0 .. Len(call.name)
        /\ ma - 1 <= lsm /\ lsn - (data - 1) = lsm - (ma - 1)
    BY <2>1, <1>1, <1>4 DEF Behind
  <2>3. /\ Whole(call) <=> \E j \in 0 .. lsn : Fits(call, lsm, j)
        /\ Fits(call, lsm, lsn) <=> Fits(call, ma - 1, data - 1)
    BY <2>1, <1>2, <1>4 DEF Behind
  <2> QED BY <2>1, <2>2, <2>3, <1>1, <1>6 DEF Behind
<1> QED BY <1>1, <1>3, <1>4, <1>5, <1>7 DEF MatchInv

LEMMA DiffersMatches == MatchInv /\ Differs => MatchInv'
<1> SUFFICES ASSUME MatchInv, Differs PROVE MatchInv'
  OBVIOUS
<1>1. /\ answer = "none" /\ data \in 1 .. Len(call.name) /\ ma \in 0 .. Len(call.mask)
      /\ call \in Call /\ NoFallback /\ Behind /\ call.name # <<>> /\ call.mask # <<>>
      /\ TypeOK
  BY DEF Differs, Scanning, MatchInv, TypeOK, Call
<1>2. ~Fits(call, ma, data)
  <2>1. CASE ma = 0
    BY <2>1, <1>1, FitsEmpty
  <2>2. CASE ma >= 1
    <3>1. ~IsStar(call, ma) /\ ~Accepts(call, ma, data)
      BY <2>2 DEF Differs
    <3> QED BY <3>1, <2>2, <1>1, FitsCharacter
  <2> QED BY <2>1, <2>2, <1>1
<1>3. CASE Fallback
  <2>1. /\ lsm \in 1 .. Len(call.mask) /\ lsn \in 0 .. Len(call.name) /\ ma <= lsm
        /\ lsn - data = lsm - ma /\ lsm # None
    BY <1>1, <1>3 DEF Fallback, Behind
  <2>2. lsn \in Nat \ {0} /\ lsn - 1 \in 0 .. Len(call.name)
    BY <2>1, <1>1
  <2>3. /\ call' = call /\ answer' = answer
        /\ lsn' = lsn - 1 /\ data' = lsn - 1 /\ ma' = lsm
        /\ lsm' = IF lsn - 1 < 1 THEN None ELSE lsm
    BY <1>3 DEF Fallback
  <2>4. Whole(call) <=> \E j \in 0 .. lsn - 1 : Fits(call, lsm, j)
    <3>1. (\E j \in 0 .. lsn : Fits(call, lsm, j)) <=> Whole(call)
      BY <2>1, <1>1 DEF Behind
    <3>2. ~Fits(call, lsm, lsn)
      BY <2>1, <1>1, <1>2 DEF Behind
    <3>3. ASSUME NEW j \in 0 .. lsn, Fits(call, lsm, j) PROVE j \in 0 .. lsn - 1
      BY <3>2, <3>3, <2>2
    <3>4. \A j \in 0 .. lsn - 1 : j \in 0 .. lsn
      BY <2>2
    <3> QED BY <3>1, <3>3, <3>4
  <2>5. TypeOK'
    BY <2>1, <2>2, <2>3, <1>1 DEF TypeOK
  <2>6. NoFallback'
    <3>1. SUFFICES ASSUME lsn - 1 < 1 PROVE Whole(call) <=> Fits(call, lsm, lsn - 1)
      BY <2>1, <2>3 DEF NoFallback
    <3>2. lsn - 1 = 0 /\ 0 .. lsn - 1 = {0}
      BY <3>1, <2>2
    <3> QED BY <3>2, <2>4
  <2>7. Behind'
    <3>1. SUFFICES ASSUME lsm' # None PROVE Behind'
      BY DEF Behind
    <3>2. lsm' = lsm
      BY <3>1, <2>3
    <3>3. \A j \in 0 .. lsn - 1 : Fits(call, lsm, j) =>
             j >= lsm - lsm /\ Fits(call, lsm, j - (lsm - lsm))
      BY <2>1
    <3>4. ma' <= lsm' /\ lsn' - data' = lsm' - ma' /\ lsn' \in 0 .. Len(call.name)
      BY <3>2, <2>1, <2>2, <2>3
    <3> QED BY <3>1, <3>2, <3>3, <3>4, <2>1, <2>3, <2>4 DEF Behind
  <2> QED BY <2>3, <2>5, <2>6, <2>7, <1>1 DEF MatchInv, MatchesTheMask
<1>4. CASE lsm = None /\ answer' = "no" /\ UNCHANGED <<call, data, ma, lsm, lsn>>
  <2>1. ~Whole(call)
    BY <1>1, <1>2, <1>4 DEF NoFallback
  <2> QED BY <2>1, <1>1, <1>4 DEF MatchInv, MatchesTheMask, TypeOK
<1> QED BY <1>3, <1>4 DEF Differs

LEMMA EndMatches == MatchInv /\ End => MatchInv'
<1> SUFFICES ASSUME MatchInv, End PROVE MatchInv'
  OBVIOUS
<1>1. /\ call' = call /\ data' = data /\ ma' = ma /\ lsm' = lsm /\ lsn' = lsn
      /\ answer = "none" /\ data = 0 /\ ma \in Nat /\ TypeOK
      /\ answer' = IF Stars(call, 1, ma) THEN "yes" ELSE "no"
      /\ NoFallback /\ Behind /\ call.name # <<>> /\ call.mask # <<>>
  BY DEF End, MatchInv, TypeOK, Call
<1>2. Fits(call, ma, data) <=> Stars(call, 1, ma)
  BY <1>1, FitsNothing
<1>3. Whole(call) <=> Fits(call, ma, data)
  <2>1. CASE lsm = None
    BY <2>1, <1>1 DEF NoFallback
  <2>2. CASE lsm # None
    <3>1. lsn = lsm - ma /\ lsn \in Nat
      BY <2>2, <1>1 DEF Behind
    <3>2. \A j \in 0 .. lsn : Fits(call, lsm, j) => j = lsn
      BY <2>2, <3>1, <1>1 DEF Behind
    <3>3. lsn \in 0 .. lsn
      BY <3>1
    <3> QED BY <2>2, <3>2, <3>3, <1>1 DEF Behind
  <2> QED BY <2>1, <2>2
<1>4. TypeOK' /\ answer' # "none"
  BY <1>1 DEF TypeOK
<1> QED BY <1>1, <1>2, <1>3, <1>4 DEF MatchInv, MatchesTheMask

LEMMA NextMatches == MatchInv /\ [Next]_vars => MatchInv'
<1>1. MatchInv /\ UNCHANGED vars => MatchInv'
  BY DEF MatchInv, TypeOK, NoFallback, Behind, MatchesTheMask, vars
<1> QED BY <1>1, StarMatches, StepMatches, DiffersMatches, EndMatches
        DEF Next, Loop, Return

LEMMA AlwaysMatchInv == Spec => []MatchInv
BY InitMatches, NextMatches, PTL DEF Spec

\* The places of the loop stay inside the two strings, for strings of any length.
THEOREM TypeCorrect == Spec => []TypeOK
BY AlwaysMatchInv, PTL DEF MatchInv

\* The loop answers as the definition of a match does: falling back to the last
\* star only never loses a match.
THEOREM AnswerIsRight == Spec => []MatchesTheMask
BY AlwaysMatchInv, PTL DEF MatchInv

\* The fallback taken when the mask runs out leaves a character to compare.
THEOREM StaysInside == Spec => []ComparesInside
<1>1. MatchInv => ComparesInside
  BY DEF MatchInv, TypeOK, Behind, ComparesInside, Scanning, Call
<1> QED BY <1>1, AlwaysMatchInv, PTL

(***************************************************************************)
(* Matches that follow one another                                         *)
(***************************************************************************)
\* A match of the beginning goes on with one of what comes next.
LEMMA FitsOn ==
    ASSUME NEW c, NEW m \in Nat, NEW d \in Nat, Fits(c, m, d),
           NEW b, NEW k \in Nat, NEW e \in Nat, Fits(b, k, e),
           \A i \in 1 .. k : c.mask[m + i] = b.mask[i],
           \A i \in 1 .. e : c.name[d + i] = b.name[i],
           c.nocase = b.nocase
    PROVE  Fits(c, m + k, d + e)
<1>1. PICK cut \in Cuts(m, d) : IsCut(c, cut, m, d)
  BY DEF Fits, Cuts
<1>2. PICK rest \in Cuts(k, e) : IsCut(b, rest, k, e)
  BY DEF Fits, Cuts
<1> DEFINE both == [i \in 0 .. m + k |-> IF i <= m THEN cut[i] ELSE d + rest[i - m]]
<1>3. /\ \A i \in 0 .. m : cut[i] \in 0 .. d
      /\ \A i \in 0 .. k : rest[i] \in 0 .. e
      /\ cut[0] = 0 /\ cut[m] = d /\ rest[0] = 0 /\ rest[k] = e
      /\ \A i, j \in 0 .. m : i <= j => cut[i] <= cut[j]
      /\ \A i, j \in 0 .. k : i <= j => rest[i] <= rest[j]
  BY <1>1, <1>2 DEF Cuts, IsCut
<1>4. \A i \in 0 .. m + k : i > m => i - m \in 0 .. k /\ i - m >= 1
  OBVIOUS
<1>5. /\ \A i \in 0 .. m : i \in 0 .. m + k /\ both[i] = cut[i]
      /\ \A i \in 0 .. k : m + i \in 0 .. m + k /\ both[m + i] = d + rest[i]
  <2>1. ASSUME NEW i \in 0 .. m PROVE i \in 0 .. m + k /\ both[i] = cut[i]
    OBVIOUS
  <2>2. ASSUME NEW i \in 0 .. k PROVE m + i \in 0 .. m + k /\ both[m + i] = d + rest[i]
    <3>1. m + i \in 0 .. m + k /\ (m + i <= m <=> i = 0) /\ m + i - m = i
      OBVIOUS
    <3>2. CASE i = 0
      BY <1>3, <3>1, <3>2
    <3>3. CASE i # 0
      BY <3>1, <3>3
    <3> QED BY <3>2, <3>3
  <2> QED BY <2>1, <2>2
<1>6. \A i \in 0 .. m + k : both[i] \in 0 .. d + e
  <2>1. ASSUME NEW i \in 0 .. m + k PROVE both[i] \in 0 .. d + e
    <3>1. CASE i <= m
      <4>1. i \in 0 .. m /\ both[i] = cut[i]
        BY <3>1
      <4> HIDE DEF both
      <4> QED BY <1>3, <4>1
    <3>2. CASE ~(i <= m)
      <4>1. i - m \in 0 .. k /\ both[i] = d + rest[i - m]
        BY <3>2
      <4>2. rest[i - m] \in 0 .. e
        BY <1>3, <4>1
      <4> HIDE DEF both
      <4> QED BY <4>1, <4>2
    <3> QED BY <3>1, <3>2
  <2> QED BY <2>1
<1>7. both \in [0 .. m + k -> 0 .. d + e]
  BY <1>6
<1>8. both[0] = 0 /\ both[m + k] = d + e
  BY <1>3, <1>5
<1>9. \A i, j \in 0 .. m + k : i <= j => both[i] <= both[j]
  <2>1. ASSUME NEW i \in 0 .. m + k, NEW j \in 0 .. m + k, i <= j PROVE both[i] <= both[j]
    <3>1. CASE j <= m
      <4>1. i \in 0 .. m /\ j \in 0 .. m
        BY <2>1, <3>1
      <4> HIDE DEF both
      <4> QED BY <1>3, <1>5, <2>1, <4>1
    <3>2. CASE i <= m /\ ~(j <= m)
      <4>1. i \in 0 .. m /\ j - m \in 0 .. k /\ both[j] = d + rest[j - m]
        BY <3>2
      <4>2. both[i] \in 0 .. d /\ rest[j - m] \in 0 .. e
        BY <1>3, <1>5, <4>1
      <4> HIDE DEF both
      <4> QED BY <4>1, <4>2
    <3>3. CASE ~(i <= m)
      <4>1. /\ i - m \in 0 .. k /\ j - m \in 0 .. k /\ i - m <= j - m
            /\ both[i] = d + rest[i - m] /\ both[j] = d + rest[j - m]
        BY <2>1, <3>3
      <4>2. /\ rest[i - m] <= rest[j - m] /\ rest[i - m] \in 0 .. e
            /\ rest[j - m] \in 0 .. e
        BY <1>3, <4>1
      <4> HIDE DEF both
      <4> QED BY <4>1, <4>2
    <3> QED BY <3>1, <3>2, <3>3
  <2> QED BY <2>1
<1> HIDE DEF both
<1>10. ASSUME NEW i \in 1 .. m + k, ~IsStar(c, i)
       PROVE  both[i] = both[i - 1] + 1 /\ Accepts(c, i, both[i])
  <2>1. CASE i <= m
    <3>1. i \in 1 .. m /\ i \in 0 .. m /\ i - 1 \in 0 .. m
      BY <2>1
    <3>2. cut[i] = cut[i - 1] + 1 /\ Accepts(c, i, cut[i])
      BY <1>1, <1>10, <3>1 DEF IsCut
    <3> QED BY <1>5, <3>1, <3>2
  <2>2. CASE ~(i <= m)
    <3> DEFINE x == i - m
    <3>1. x \in 1 .. k /\ x \in 0 .. k /\ x - 1 \in 0 .. k /\ i = m + x /\ i - 1 = m + (x - 1)
      BY <2>2
    <3> HIDE DEF x
    <3>2. ~IsStar(b, x)
      BY <1>10, <3>1 DEF IsStar
    <3>3. rest[x] = rest[x - 1] + 1 /\ Accepts(b, x, rest[x])
      BY <1>2, <3>1, <3>2 DEF IsCut
    <3>4. rest[x] \in 1 .. e /\ rest[x - 1] \in 0 .. e
      BY <1>3, <3>1, <3>3
    <3>5. c.mask[i] = b.mask[x] /\ c.name[d + rest[x]] = b.name[rest[x]]
      BY <3>1, <3>4
    <3>6. Accepts(c, i, d + rest[x])
      BY <3>3, <3>5 DEF Accepts, Same
    <3>7. both[i] = d + rest[x] /\ both[i - 1] = d + rest[x - 1]
      BY <1>5, <3>1
    <3> QED BY <3>3, <3>4, <3>6, <3>7
  <2> QED BY <2>1, <2>2
<1>11. IsCut(c, both, m + k, d + e)
  BY <1>8, <1>9, <1>10 DEF IsCut
<1> QED BY <1>7, <1>11 DEF Fits

(***************************************************************************)
(* The names of a path                                                     *)
(***************************************************************************)
LEMMA Slice ==
    ASSUME NEW S, NEW s \in Seq(S), NEW a \in Nat, NEW b \in Nat,
           a >= 1, a <= b, b <= Len(s)
    PROVE  /\ SubSeq(s, a, b) \in Seq(S) /\ Len(SubSeq(s, a, b)) = b - a + 1
           /\ \A x \in 1 .. b - a + 1 : SubSeq(s, a, b)[x] = s[a + x - 1]
<1>1. ASSUME NEW x \in a .. b PROVE s[x] \in S
  <2>1. x \in 1 .. Len(s)
    OBVIOUS
  <2> QED BY <2>1
<1> QED BY <1>1, SubSeqProperties

LEMMA NameFacts ==
    ASSUME NEW S, NEW s \in Seq(S), NEW n \in Names(s)
    PROVE  /\ n[1] \in Nat /\ n[2] \in Nat /\ n = <<n[1], n[2]>>
           /\ 1 <= n[1] /\ n[1] <= n[2] /\ n[2] <= Len(s)
           /\ \A k \in n[1] .. n[2] : s[k] # Sep
           /\ n[1] > 1 => n[1] - 1 \in SepsIn(s)
           /\ n[2] < Len(s) => n[2] + 1 \in SepsIn(s)
<1>1. /\ n \in (1 .. Len(s)) \X (1 .. Len(s)) /\ n[1] <= n[2]
      /\ \A k \in n[1] .. n[2] : s[k] # Sep
      /\ n[1] - 1 \in SepsIn(s) \cup {0, Len(s) + 1}
      /\ n[2] + 1 \in SepsIn(s) \cup {0, Len(s) + 1}
  BY DEF Names
<1>2. n[1] \in 1 .. Len(s) /\ n[2] \in 1 .. Len(s) /\ n = <<n[1], n[2]>>
  BY <1>1
<1>3. Len(s) \in Nat
  OBVIOUS
<1>4. n[1] \in Nat /\ n[2] \in Nat /\ 1 <= n[1] /\ n[2] <= Len(s) /\ 1 <= n[2] /\ n[1] <= Len(s)
  BY <1>2, <1>3
<1>5. n[1] > 1 => n[1] - 1 # 0 /\ n[1] - 1 # Len(s) + 1
  BY <1>3, <1>4
<1>6. n[2] < Len(s) => n[2] + 1 # 0 /\ n[2] + 1 # Len(s) + 1
  BY <1>3, <1>4
<1> QED BY <1>1, <1>2, <1>4, <1>5, <1>6, Zenon

LEMMA SepFacts ==
    ASSUME NEW S, NEW s \in Seq(S), NEW k \in SepsIn(s)
    PROVE  k \in Nat /\ 1 <= k /\ k <= Len(s) /\ s[k] = Sep
<1>1. k \in 1 .. Len(s) /\ s[k] = Sep
  BY DEF SepsIn
<1> QED BY <1>1

\* A name of a path begins in one place only.
LEMMA SameStart ==
    ASSUME NEW S, NEW s \in Seq(S), NEW n \in Names(s), NEW m \in Names(s), n[1] = m[1]
    PROVE  n = m
<1>1. ASSUME NEW a \in Names(s), NEW b \in Names(s), a[1] = b[1] PROVE ~(a[2] < b[2])
  <2>1. /\ a[1] \in Nat /\ a[2] \in Nat /\ a[1] <= a[2]
        /\ a[2] < Len(s) => a[2] + 1 \in SepsIn(s)
    BY NameFacts
  <2>2. b[1] \in Nat /\ b[2] \in Nat /\ b[2] <= Len(s) /\ \A k \in b[1] .. b[2] : s[k] # Sep
    BY NameFacts
  <2>3. Len(s) \in Nat
    OBVIOUS
  <2>4. ASSUME a[2] < b[2] PROVE FALSE
    <3>1. a[2] + 1 \in b[1] .. b[2] /\ a[2] < Len(s)
      BY <1>1, <2>1, <2>2, <2>3, <2>4
    <3>2. s[a[2] + 1] = Sep
      BY <2>1, <3>1, SepFacts
    <3> QED BY <2>2, <3>1, <3>2
  <2> QED BY <2>4
<1>2. ~(n[2] < m[2]) /\ ~(m[2] < n[2])
  BY <1>1
<1>3. n[2] \in Nat /\ m[2] \in Nat /\ n = <<n[1], n[2]>> /\ m = <<m[1], m[2]>>
  BY NameFacts
<1>4. n[2] = m[2]
  BY <1>2, <1>3
<1> QED BY <1>3, <1>4, Zenon

\* There is a name before each separator, and at the end.
LEMMA NameEndingAt ==
    ASSUME NEW S, NEW s \in Seq(S), NEW e \in Nat, 1 <= e, e <= Len(s), s[e] # Sep,
           e = Len(s) \/ e + 1 \in SepsIn(s)
    PROVE  \E n \in Names(s) : n[2] = e
<1> DEFINE T == {x \in 1 .. e : \A k \in x .. e : s[k] # Sep}
<1>1. e \in T /\ T \in SUBSET Nat
  OBVIOUS
<1>2. PICK b \in T : \A x \in T : b <= x
  <2> HIDE DEF T
  <2> QED BY <1>1, Least
<1>3. b \in 1 .. e /\ \A k \in b .. e : s[k] # Sep
  BY <1>2
<1>4. b = 1 \/ s[b - 1] = Sep
  <2>1. ASSUME b # 1, s[b - 1] # Sep PROVE FALSE
    <3>1. b - 1 \in 1 .. e
      BY <1>3, <2>1
    <3>2. ASSUME NEW k \in b - 1 .. e PROVE s[k] # Sep
      <4>1. k = b - 1 \/ k \in b .. e
        BY <1>3
      <4> QED BY <1>3, <2>1, <4>1
    <3>3. b - 1 \in T
      BY <3>1, <3>2
    <3>4. ~(b <= b - 1)
      BY <1>3
    <3> QED BY <1>2, <3>3, <3>4
  <2> QED BY <2>1
<1>5. Len(s) \in Nat /\ DOMAIN s = 1 .. Len(s)
  OBVIOUS
<1>6. b \in DOMAIN s /\ e \in DOMAIN s /\ b <= e
  <2>1. Len(s) \in Nat
    OBVIOUS
  <2>2. b \in 1 .. Len(s) /\ e \in 1 .. Len(s) /\ b <= e
    BY <1>3, <2>1
  <2> QED BY <1>5, <2>2
<1>7. b - 1 \in SepsIn(s) \cup {0, Len(s) + 1}
  <2>1. CASE b = 1
    BY <2>1
  <2>2. CASE b # 1
    <3>0. Len(s) \in Nat
      OBVIOUS
    <3>1. b - 1 \in 1 .. Len(s)
      BY <1>3, <2>2, <3>0
    <3>2. b - 1 \in DOMAIN s /\ s[b - 1] = Sep
      BY <1>4, <1>5, <2>2, <3>1
    <3> QED BY <3>2 DEF SepsIn
  <2> QED BY <2>1, <2>2
<1>8. e + 1 \in SepsIn(s) \cup {0, Len(s) + 1}
  OBVIOUS
<1> DEFINE n == <<b, e>>
<1>9. n \in (DOMAIN s) \X (DOMAIN s) /\ n[1] = b /\ n[2] = e
  BY <1>6
<1> HIDE DEF n
<1>10. {n[1] - 1, n[2] + 1} \subseteq SepsIn(s) \cup {0, Len(s) + 1}
  BY <1>7, <1>8, <1>9
<1>11. n[1] <= n[2] /\ \A k \in n[1] .. n[2] : s[k] # Sep
  BY <1>3, <1>6, <1>9
<1>12. n \in Names(s)
  BY <1>9, <1>10, <1>11, Zenon DEF Names
<1> QED BY <1>9, <1>12

(***************************************************************************)
(* Their numbers                                                           *)
(***************************************************************************)
UpTo(s, n) == {m \in Names(s) : m[1] <= n[1]}

LEMMA NthFacts ==
    ASSUME NEW S, NEW s \in Seq(S)
    PROVE  /\ IsFiniteSet(Names(s)) /\ Cardinality(Names(s)) \in Nat
           /\ \A n \in Names(s) : /\ Nth(s, n) = Cardinality(UpTo(s, n))
                                  /\ IsFiniteSet(UpTo(s, n))
                                  /\ Nth(s, n) \in 1 .. Cardinality(Names(s))
<1>1. IsFiniteSet((DOMAIN s) \X (DOMAIN s))
  <2>1. Len(s) \in Nat /\ DOMAIN s = 1 .. Len(s)
    OBVIOUS
  <2>2. IsFiniteSet(1 .. Len(s))
    BY <2>1, FS_Interval
  <2>3. IsFiniteSet(DOMAIN s)
    BY <2>1, <2>2, Zenon
  <2> QED BY <2>3, FS_Product
<1>2. Names(s) \subseteq (DOMAIN s) \X (DOMAIN s)
  BY DEF Names
<1>3. IsFiniteSet(Names(s)) /\ Cardinality(Names(s)) \in Nat
  BY <1>1, <1>2, FS_Subset, FS_CardinalityType
<1>4. ASSUME NEW n \in Names(s)
      PROVE  /\ Nth(s, n) = Cardinality(UpTo(s, n)) /\ IsFiniteSet(UpTo(s, n))
             /\ Nth(s, n) \in 1 .. Cardinality(Names(s))
  <2>1. Nth(s, n) = Cardinality(UpTo(s, n))
    BY DEF Nth, UpTo
  <2>2. UpTo(s, n) \subseteq Names(s)
    BY DEF UpTo
  <2>3. IsFiniteSet(UpTo(s, n)) /\ Cardinality(UpTo(s, n)) <= Cardinality(Names(s))
    BY <1>3, <2>2, FS_Subset
  <2>4. n \in UpTo(s, n)
    <3>1. n[1] \in Nat
      BY NameFacts
    <3> QED BY <3>1 DEF UpTo
  <2>5. Cardinality(UpTo(s, n)) \in Nat /\ Cardinality(UpTo(s, n)) # 0
    BY <2>3, <2>4, FS_CardinalityType, FS_EmptySet
  <2> QED BY <1>3, <2>1, <2>3, <2>5
<1> QED BY <1>3, <1>4

\* The name before a name has the number before.
LEMMA Previous ==
    ASSUME NEW S, NEW s \in Seq(S), IsPath(s), NEW n \in Names(s), n[1] > 1
    PROVE  \E m \in Names(s) : m[2] = n[1] - 2 /\ Nth(s, n) = Nth(s, m) + 1
<1>1. /\ n[1] \in Nat /\ n[2] \in Nat /\ n[1] <= n[2] /\ n[2] <= Len(s)
      /\ \A k \in n[1] .. n[2] : s[k] # Sep /\ n[1] - 1 \in SepsIn(s)
  BY NameFacts
<1>2. n[1] - 1 \in SepsIn(s) /\ Len(s) \in Nat
  BY NameFacts
<1>3. s[n[1] - 1] = Sep
  BY <1>2, SepFacts
<1>4. n[1] # 2
  <2>1. n[1] = 2 => n[1] - 1 = 1
    OBVIOUS
  <2> QED BY <1>3, <2>1 DEF IsPath
<1> DEFINE e == n[1] - 2
<1>5. e \in Nat /\ 1 <= e /\ e <= Len(s) /\ e + 1 = n[1] - 1
  BY <1>1, <1>2, <1>4
<1>6. s[e] # Sep
  <2>1. ASSUME s[e] = Sep PROVE FALSE
    <3>1. e \in DOMAIN s
      BY <1>5
    <3>2. e \in SepsIn(s)
      BY <2>1, <3>1 DEF SepsIn
    <3>3. e + 1 \in SepsIn(s)
      BY <1>2, <1>5
    <3> HIDE DEF e
    <3> QED BY <3>2, <3>3 DEF IsPath
  <2> QED BY <2>1
<1> HIDE DEF e
<1>7. PICK m \in Names(s) : m[2] = e
  <2>1. e + 1 \in SepsIn(s)
    BY <1>2, <1>5
  <2> QED BY <1>5, <1>6, <2>1, NameEndingAt
<1>8. m[1] \in Nat /\ 1 <= m[1] /\ m[1] <= m[2] /\ \A k \in m[1] .. m[2] : s[k] # Sep
  BY NameFacts
<1>9. UpTo(s, n) = UpTo(s, m) \cup {n}
  <2>1. ASSUME NEW l \in UpTo(s, n), l # n PROVE l \in UpTo(s, m)
    <3>1. l \in Names(s) /\ l[1] <= n[1]
      BY <2>1 DEF UpTo
    <3>2. l[1] \in Nat /\ (l[1] > 1 => l[1] - 1 \in SepsIn(s))
      BY <3>1, NameFacts
    <3>3. l[1] # n[1]
      <4>1. ASSUME l[1] = n[1] PROVE FALSE
        <5>1. l = n
          BY <3>1, <4>1, SameStart
        <5> QED BY <2>1, <5>1
      <4> QED BY <4>1
    <3>4. ASSUME m[1] < l[1] PROVE FALSE
      <4>1. l[1] - 1 \in SepsIn(s)
        <5>1. l[1] > 1
          BY <1>8, <3>2, <3>4
        <5> QED BY <3>2, <5>1
      <4>2. s[l[1] - 1] = Sep
        BY <4>1, SepFacts
      <4>3. l[1] - 1 \notin m[1] .. m[2]
        BY <1>8, <4>2
      <4>4. l[1] - 1 >= e + 1
        BY <1>5, <1>7, <1>8, <3>2, <3>4, <4>3
      <4>5. n[1] = e + 2
        BY <1>1, <1>5
      <4> QED BY <1>1, <1>5, <3>1, <3>2, <3>3, <4>4, <4>5
    <3> QED BY <1>8, <3>1, <3>2, <3>4 DEF UpTo
  <2>2. ASSUME NEW l \in UpTo(s, m) PROVE l \in UpTo(s, n)
    <3>1. l \in Names(s) /\ l[1] <= m[1]
      BY DEF UpTo
    <3>2. l[1] \in Nat
      BY <3>1, NameFacts
    <3> QED BY <1>1, <1>5, <1>7, <1>8, <3>1, <3>2 DEF UpTo
  <2>3. n \in UpTo(s, n)
    BY <1>1 DEF UpTo
  <2> QED BY <2>1, <2>2, <2>3
<1>10. n \notin UpTo(s, m)
  BY <1>1, <1>5, <1>7, <1>8 DEF UpTo
<1>11. Cardinality(UpTo(s, n)) = Cardinality(UpTo(s, m)) + 1
  <2>1. IsFiniteSet(UpTo(s, m))
    BY <1>7, NthFacts, Zenon
  <2> DEFINE U == UpTo(s, m)
  <2>2. U \cup {n} = UpTo(s, n) /\ n \notin U
    BY <1>9, <1>10
  <2> HIDE DEF U
  <2>3. Cardinality(U \cup {n}) = IF n \in U THEN Cardinality(U) ELSE Cardinality(U) + 1
    BY <2>1, FS_AddElement, Zenon DEF U
  <2> QED BY <2>2, <2>3 DEF U
<1>12. Nth(s, n) = Nth(s, m) + 1
  BY <1>11, NthFacts
<1> QED BY <1>7, <1>12 DEF e

LEMMA NthFirst ==
    ASSUME NEW S, NEW s \in Seq(S), NEW n \in Names(s), n[1] = 1
    PROVE  Nth(s, n) = 1
<1>1. UpTo(s, n) = {n}
  <2>1. ASSUME NEW l \in UpTo(s, n) PROVE l = n
    <3>1. l \in Names(s) /\ l[1] <= n[1]
      BY DEF UpTo
    <3>2. l[1] \in Nat /\ 1 <= l[1]
      BY <3>1, NameFacts
    <3>3. l[1] = n[1]
      BY <3>1, <3>2
    <3> QED BY <3>1, <3>3, SameStart
  <2>2. n \in UpTo(s, n)
    BY DEF UpTo
  <2> QED BY <2>1, <2>2
<1>2. Cardinality(UpTo(s, n)) = 1
  BY <1>1, FS_Singleton
<1> QED BY <1>2, NthFacts

LEMMA NthLast ==
    ASSUME NEW S, NEW s \in Seq(S), NEW n \in Names(s), n[2] = Len(s)
    PROVE  Nth(s, n) = Cardinality(Names(s))
<1>1. UpTo(s, n) = Names(s)
  <2>1. ASSUME NEW l \in Names(s) PROVE l[1] <= n[1]
    <3>1. /\ l[1] \in Nat /\ l[1] <= l[2] /\ l[2] \in Nat /\ l[2] <= Len(s)
          /\ (l[1] > 1 => l[1] - 1 \in SepsIn(s))
      BY NameFacts
    <3>2. n[1] \in Nat /\ 1 <= n[1] /\ \A k \in n[1] .. n[2] : s[k] # Sep
      BY NameFacts
    <3>3. ASSUME n[1] < l[1] PROVE FALSE
      <4>1. l[1] - 1 \in SepsIn(s)
        BY <3>1, <3>2, <3>3
      <4>2. s[l[1] - 1] = Sep
        BY <4>1, SepFacts
      <4>3. Len(s) \in Nat
        OBVIOUS
      <4>4. l[1] - 1 \in n[1] .. n[2]
        BY <3>1, <3>2, <3>3, <4>3
      <4> QED BY <3>2, <4>2, <4>4
    <3> QED BY <3>1, <3>2, <3>3
  <2> QED BY <2>1 DEF UpTo
<1> QED BY <1>1, NthFacts

\* The last name of a path ends it.
LEMMA LastName ==
    ASSUME NEW S, NEW s \in Seq(S), IsPath(s)
    PROVE  \E n \in Names(s) : n[2] = Len(s) /\ Nth(s, n) = Cardinality(Names(s))
<1>1. Len(s) \in Nat /\ 1 <= Len(s) /\ s[Len(s)] # Sep
  BY DEF IsPath
<1>2. PICK n \in Names(s) : n[2] = Len(s)
  BY <1>1, NameEndingAt
<1> QED BY <1>2, NthLast

\* Each number up to the number of names has its name.
LEMMA NthExists ==
    ASSUME NEW S, NEW s \in Seq(S), IsPath(s), NEW j \in 1 .. Cardinality(Names(s))
    PROVE  \E n \in Names(s) : Nth(s, n) = j
<1> DEFINE T == {t \in Nat : t >= j /\ \E n \in Names(s) : Nth(s, n) = t}
<1>1. Cardinality(Names(s)) \in T
  BY LastName, NthFacts
<1>2. PICK t \in T : \A x \in T : t <= x
  <2>1. T \in SUBSET Nat /\ T # {}
    BY <1>1
  <2> HIDE DEF T
  <2> QED BY <2>1, Least
<1>3. PICK n \in Names(s) : Nth(s, n) = t
  BY <1>2
<1>4. t \in Nat /\ t >= j /\ j \in Nat /\ j >= 1
  <2>1. Cardinality(Names(s)) \in Nat
    BY NthFacts
  <2> QED BY <1>2, <2>1
<1>5. ASSUME t # j PROVE FALSE
  <2>1. t # 1
    BY <1>4, <1>5
  <2>2. n[1] \in Nat /\ 1 <= n[1]
    BY NameFacts
  <2>3. n[1] # 1
    <3>1. n[1] = 1 => Nth(s, n) = 1
      BY NthFirst
    <3> QED BY <1>3, <2>1, <3>1
  <2>4. n[1] > 1
    BY <2>2, <2>3
  <2>5. PICK m \in Names(s) : Nth(s, n) = Nth(s, m) + 1
    BY <2>4, Previous
  <2>6. Nth(s, m) \in Nat
    <3>1. Nth(s, m) \in 1 .. Cardinality(Names(s)) /\ Cardinality(Names(s)) \in Nat
      BY NthFacts
    <3> HIDE DEF T
    <3> QED BY <3>1
  <2>7. Nth(s, m) >= j /\ ~(t <= Nth(s, m))
    BY <1>3, <1>4, <1>5, <2>5, <2>6
  <2>8. Nth(s, m) \in T
    BY <2>6, <2>7
  <2> QED BY <1>2, <2>7, <2>8
<1> QED BY <1>3, <1>5

(***************************************************************************)
(* A path and an argument that agree name by name                          *)
(***************************************************************************)
Pair(path, arg) == [name |-> path, mask |-> arg, nocase |-> FALSE]

LEMMA MatchesIsFits ==
    ASSUME NEW S, NEW path \in Seq(S), NEW arg \in Seq(S), path # <<>>, arg # <<>>
    PROVE  Matches(path, arg) <=> Fits(Pair(path, arg), Len(arg), Len(path))
BY DEF Matches, Whole, Pair

\* A match of the beginnings is one of the beginnings by themselves.
LEMMA Beginnings ==
    ASSUME NEW S, NEW path \in Seq(S), NEW arg \in Seq(S),
           NEW m \in Nat, NEW d \in Nat, 1 <= m, m <= Len(arg), 1 <= d, d <= Len(path),
           Fits(Pair(path, arg), m, d)
    PROVE  Matches(SubSeq(path, 1, d), SubSeq(arg, 1, m))
<1> DEFINE p == SubSeq(path, 1, d)
           a == SubSeq(arg, 1, m)
           c == Pair(p, a)
<1>1. p \in Seq(S) /\ Len(p) = d /\ \A x \in 1 .. d : p[x] = path[x]
  <2>1. /\ SubSeq(path, 1, d) \in Seq(S) /\ Len(SubSeq(path, 1, d)) = d - 1 + 1
        /\ \A x \in 1 .. d - 1 + 1 : SubSeq(path, 1, d)[x] = path[1 + x - 1]
    BY Slice
  <2>2. d - 1 + 1 = d /\ \A x \in 1 .. d : 1 + x - 1 = x
    OBVIOUS
  <2> HIDE DEF p
  <2> QED BY <2>1, <2>2 DEF p
<1>2. a \in Seq(S) /\ Len(a) = m /\ \A x \in 1 .. m : a[x] = arg[x]
  <2>1. /\ SubSeq(arg, 1, m) \in Seq(S) /\ Len(SubSeq(arg, 1, m)) = m - 1 + 1
        /\ \A x \in 1 .. m - 1 + 1 : SubSeq(arg, 1, m)[x] = arg[1 + x - 1]
    BY Slice
  <2>2. m - 1 + 1 = m /\ \A x \in 1 .. m : 1 + x - 1 = x
    OBVIOUS
  <2> HIDE DEF a
  <2> QED BY <2>1, <2>2 DEF a
<1> HIDE DEF p, a
<1>3. Fits(c, 0, 0)
  BY FitsEmpty
<1>4. /\ \A i \in 1 .. m : c.mask[0 + i] = Pair(path, arg).mask[i]
      /\ \A i \in 1 .. d : c.name[0 + i] = Pair(path, arg).name[i]
      /\ c.nocase = Pair(path, arg).nocase
  BY <1>1, <1>2 DEF Pair
<1> HIDE DEF c
<1>5. Fits(c, 0 + m, 0 + d)
  BY <1>3, <1>4, FitsOn
<1>6. Fits(c, m, d)
  BY <1>5
<1>7. p # <<>> /\ a # <<>>
  BY <1>1, <1>2
<1>8. Matches(p, a)
  BY <1>1, <1>2, <1>6, <1>7, MatchesIsFits DEF c
<1> QED BY <1>8 DEF p, a

\* When the names agree, the beginnings that end with them match.
LEMMA BeginningsFit ==
    ASSUME NEW path \in Seq(NameChar), NEW arg \in Seq(Char), AgreeByName(path, arg),
           NEW n \in Names(path), NEW m \in Names(arg), Nth(path, n) = Nth(arg, m)
    PROVE  Fits(Pair(path, arg), m[2], n[2])
<1> DEFINE c == Pair(path, arg)
           Bad(j) == \E x \in Names(path), y \in Names(arg) :
                        Nth(path, x) = j /\ Nth(arg, y) = j /\ ~Fits(c, y[2], x[2])
           T == {j \in Nat : Bad(j)}
<1>1. /\ path \in Seq(Char) /\ arg \in Seq(Char) /\ IsPath(path) /\ IsPath(arg)
      /\ \A x \in Names(path), y \in Names(arg) :
            Nth(path, x) = Nth(arg, y) => Matches(Name(path, x), Name(arg, y))
  <2>1. NameChar \subseteq Char
    BY CharAssumption
  <2>2. path \in Seq(Char)
    BY <2>1
  <2> QED BY <2>2 DEF AgreeByName
<1>2. ASSUME NEW x \in Names(path), NEW y \in Names(arg), Nth(path, x) = Nth(arg, y),
             Fits(c, y[1] - 1, x[1] - 1)
      PROVE  Fits(c, y[2], x[2])
  <2> DEFINE a == Name(path, x)
             b == Name(arg, y)
             e == x[2] - x[1] + 1
             k == y[2] - y[1] + 1
  <2>1. /\ x[1] \in Nat /\ x[2] \in Nat /\ 1 <= x[1] /\ x[1] <= x[2] /\ x[2] <= Len(path)
        /\ y[1] \in Nat /\ y[2] \in Nat /\ 1 <= y[1] /\ y[1] <= y[2] /\ y[2] <= Len(arg)
    BY <1>1, NameFacts
  <2>2. /\ e \in Nat /\ k \in Nat /\ x[1] - 1 \in Nat /\ y[1] - 1 \in Nat
        /\ y[1] - 1 + k = y[2] /\ x[1] - 1 + e = x[2] /\ e # 0 /\ k # 0
    <3>1. \A u, v \in Nat : 1 <= u /\ u <= v => /\ v - u + 1 \in Nat /\ u - 1 \in Nat
                                               /\ u - 1 + (v - u + 1) = v /\ v - u + 1 # 0
      OBVIOUS
    <3> QED BY <2>1, <3>1, Zenon
  <2>3. a \in Seq(Char) /\ Len(a) = e /\ \A z \in 1 .. e : a[z] = path[x[1] + z - 1]
    BY <1>1, <2>1, Slice, SMTT(20) DEF Name
  <2>4. b \in Seq(Char) /\ Len(b) = k /\ \A z \in 1 .. k : b[z] = arg[y[1] + z - 1]
    BY <1>1, <2>1, Slice, SMTT(20) DEF Name
  <2>5. Matches(a, b)
    BY <1>1, <1>2
  <2> HIDE DEF a, b, e, k
  <2>6. a # <<>> /\ b # <<>>
    BY <2>2, <2>3, <2>4
  <2>7. Fits(Pair(a, b), k, e)
    BY <2>3, <2>4, <2>5, <2>6, MatchesIsFits
  <2>8. /\ \A i \in 1 .. k : c.mask[y[1] - 1 + i] = Pair(a, b).mask[i]
        /\ \A i \in 1 .. e : c.name[x[1] - 1 + i] = Pair(a, b).name[i]
        /\ c.nocase = Pair(a, b).nocase
    <3>1. \A i \in 1 .. k : y[1] - 1 + i = y[1] + i - 1
      BY <2>1, <2>2, SMTT(20)
    <3>2. \A i \in 1 .. e : x[1] - 1 + i = x[1] + i - 1
      BY <2>1, <2>2
    <3> QED BY <2>3, <2>4, <3>1, <3>2 DEF Pair
  <2> HIDE DEF c
  <2>9. Fits(c, y[1] - 1 + k, x[1] - 1 + e)
    BY <1>2, <2>2, <2>7, <2>8, FitsOn
  <2> QED BY <2>2, <2>9
<1>3. ASSUME T # {} PROVE FALSE
  <2>1. PICK j \in T : \A l \in T : j <= l
    <3>1. T \in SUBSET Nat /\ T # {}
      BY <1>3
    <3> HIDE DEF T
    <3> QED BY <3>1, Least
  <2>2. PICK x \in Names(path), y \in Names(arg) :
           Nth(path, x) = j /\ Nth(arg, y) = j /\ ~Fits(c, y[2], x[2])
    BY <2>1
  <2>3. x[1] \in Nat /\ 1 <= x[1] /\ y[1] \in Nat /\ 1 <= y[1]
    BY <1>1, NameFacts
  <2>4. ~Fits(c, y[1] - 1, x[1] - 1)
    BY <1>2, <2>2
  <2>5. ~(x[1] = 1 /\ y[1] = 1)
    <3>1. Fits(c, 0, 0)
      BY FitsEmpty
    <3>2. x[1] = 1 /\ y[1] = 1 => x[1] - 1 = 0 /\ y[1] - 1 = 0
      OBVIOUS
    <3> HIDE DEF c
    <3> QED BY <2>4, <3>1, <3>2
  <2>6. \A z \in Names(path) : Nth(path, z) \in Nat /\ Nth(path, z) >= 1
    <3>1. ASSUME NEW z \in Names(path) PROVE Nth(path, z) \in Nat /\ Nth(path, z) >= 1
      <4>1. /\ Nth(path, z) \in 1 .. Cardinality(Names(path))
            /\ Cardinality(Names(path)) \in Nat
        BY <1>1, NthFacts
      <4> HIDE DEF T, Bad, c
      <4> QED BY <4>1
    <3> QED BY <3>1
  <2>7. \A z \in Names(arg) : Nth(arg, z) \in Nat /\ Nth(arg, z) >= 1
    <3>1. ASSUME NEW z \in Names(arg) PROVE Nth(arg, z) \in Nat /\ Nth(arg, z) >= 1
      <4>1. /\ Nth(arg, z) \in 1 .. Cardinality(Names(arg))
            /\ Cardinality(Names(arg)) \in Nat
        BY <1>1, NthFacts
      <4> HIDE DEF T, Bad, c
      <4> QED BY <4>1
    <3> QED BY <3>1
  <2>8. x[1] > 1 => \E z \in Names(path) : z[2] = x[1] - 2 /\ Nth(path, x) = Nth(path, z) + 1
    BY <1>1, Previous, Zenon
  <2>9. y[1] > 1 => \E z \in Names(arg) : z[2] = y[1] - 2 /\ Nth(arg, y) = Nth(arg, z) + 1
    BY <1>1, Previous, Zenon
  <2>10. x[1] = 1 => j = 1
    BY <1>1, <2>2, NthFirst
  <2>11. y[1] = 1 => j = 1
    BY <1>1, <2>2, NthFirst
  <2>12. x[1] > 1 => j # 1
    <3>1. ASSUME x[1] > 1, j = 1 PROVE FALSE
      <4>1. PICK z \in Names(path) : Nth(path, x) = Nth(path, z) + 1
        BY <2>8, <3>1
      <4>2. Nth(path, z) \in Nat /\ Nth(path, z) >= 1 /\ Nth(path, x) = 1
        BY <2>2, <2>6, <3>1
      <4> HIDE DEF T, Bad, c
      <4> QED BY <4>1, <4>2
    <3> QED BY <3>1
  <2>13. y[1] > 1 => j # 1
    <3>1. ASSUME y[1] > 1, j = 1 PROVE FALSE
      <4>1. PICK z \in Names(arg) : Nth(arg, y) = Nth(arg, z) + 1
        BY <2>9, <3>1
      <4>2. Nth(arg, z) \in Nat /\ Nth(arg, z) >= 1 /\ Nth(arg, y) = 1
        BY <2>2, <2>7, <3>1
      <4> HIDE DEF T, Bad, c
      <4> QED BY <4>1, <4>2
    <3> QED BY <3>1
  <2>14. x[1] > 1 /\ y[1] > 1
    <3> HIDE DEF T, Bad, c
    <3> QED BY <2>3, <2>5, <2>10, <2>11, <2>12, <2>13
  <2>15. PICK v \in Names(path) : v[2] = x[1] - 2 /\ Nth(path, x) = Nth(path, v) + 1
    BY <2>8, <2>14
  <2>16. PICK w \in Names(arg) : w[2] = y[1] - 2 /\ Nth(arg, y) = Nth(arg, w) + 1
    BY <2>9, <2>14
  <2>17. Nth(path, v) \in Nat /\ Nth(path, v) = Nth(arg, w) /\ ~(j <= Nth(path, v))
    <3>1. /\ Nth(path, v) \in Nat /\ Nth(arg, w) \in Nat
          /\ j = Nth(path, v) + 1 /\ j = Nth(arg, w) + 1
      BY <2>2, <2>6, <2>7, <2>15, <2>16
    <3> HIDE DEF T, Bad, c
    <3> QED BY <3>1
  <2>18. Fits(c, w[2], v[2])
    <3>1. ~Fits(c, w[2], v[2]) => Nth(path, v) \in T
      BY <2>17
    <3> QED BY <2>1, <2>17, <3>1
  <2>19. Fits(c, y[1] - 1, x[1] - 1)
    <3>1. x[1] - 1 \in SepsIn(path) /\ y[1] - 1 \in SepsIn(arg)
      BY <1>1, <2>14, NameFacts
    <3>2. path[x[1] - 1] = Sep /\ arg[y[1] - 1] = Sep
      BY <1>1, <3>1, SepFacts
    <3>3. ~IsStar(c, y[1] - 1) /\ Accepts(c, y[1] - 1, x[1] - 1)
      BY <3>2, SepAssumption DEF IsStar, Accepts, Same, Pair
    <3>4. Fits(c, y[1] - 1 - 1, x[1] - 1 - 1)
      <4>1. y[1] - 1 - 1 = y[1] - 2 /\ x[1] - 1 - 1 = x[1] - 2
        BY <2>3
      <4> HIDE DEF c
      <4> QED BY <2>15, <2>16, <2>18, <4>1
    <3>5. x[1] - 1 \in Nat /\ y[1] - 1 \in Nat /\ x[1] - 1 >= 1 /\ y[1] - 1 >= 1
      BY <2>3, <2>14
    <3> HIDE DEF c
    <3> QED BY <3>3, <3>4, <3>5, FitsCharacter
  <2> QED BY <2>4, <2>19
<1>4. Nth(path, n) \in Nat
  <2>1. Nth(path, n) \in 1 .. Cardinality(Names(path)) /\ Cardinality(Names(path)) \in Nat
    BY <1>1, NthFacts
  <2> HIDE DEF T, Bad, c
  <2> QED BY <2>1
<1> QED BY <1>3, <1>4

LEMMA DirectoryReached ==
    ASSUME NEW path \in Seq(NameChar), NEW arg \in Seq(Char), AgreeByName(path, arg),
           NEW k \in SepsIn(path)
    PROVE  \E a \in Masks(arg) : Matches(SubSeq(path, 1, k - 1), a)
<1>1. /\ path \in Seq(Char) /\ IsPath(path) /\ IsPath(arg)
      /\ Cardinality(Names(path)) = Cardinality(Names(arg))
  <2>1. NameChar \subseteq Char
    BY CharAssumption
  <2>2. path \in Seq(Char)
    BY <2>1
  <2> QED BY <2>2 DEF AgreeByName
<1>2. k \in Nat /\ 1 <= k /\ k <= Len(path) /\ path[k] = Sep /\ k # 1
  <2>1. k \in Nat /\ 1 <= k /\ k <= Len(path) /\ path[k] = Sep
    BY <1>1, SepFacts
  <2> QED BY <1>1, <2>1 DEF IsPath
<1> DEFINE e == k - 1
<1>3. e \in Nat /\ 1 <= e /\ e <= Len(path) /\ e + 1 = k
  <2>1. Len(path) \in Nat
    OBVIOUS
  <2> QED BY <1>2, <2>1
<1>4. path[e] # Sep
  <2>1. ASSUME path[e] = Sep PROVE FALSE
    <3>1. e \in DOMAIN path
      BY <1>3
    <3>2. e \in SepsIn(path)
      BY <2>1, <3>1 DEF SepsIn
    <3> HIDE DEF e
    <3>3. e + 1 \in SepsIn(path)
      BY <1>3
    <3> QED BY <1>1, <3>2, <3>3 DEF IsPath
  <2> QED BY <2>1
<1> HIDE DEF e
<1>5. PICK n \in Names(path) : n[2] = e
  <2>1. e + 1 \in SepsIn(path)
    BY <1>3
  <2> QED BY <1>1, <1>3, <1>4, <2>1, NameEndingAt
<1>6. PICK m \in Names(arg) : Nth(arg, m) = Nth(path, n)
  <2>1. Nth(path, n) \in 1 .. Cardinality(Names(path))
    BY <1>1, NthFacts
  <2>2. Nth(path, n) \in 1 .. Cardinality(Names(arg))
    BY <1>1, <2>1
  <2> QED BY <1>1, <2>2, NthExists
<1>7. Fits(Pair(path, arg), m[2], e)
  <2>1. Fits(Pair(path, arg), m[2], n[2])
    BY <1>6, BeginningsFit
  <2> QED BY <1>5, <2>1
<1>8. /\ m[1] \in Nat /\ m[2] \in Nat /\ 1 <= m[1] /\ m[1] <= m[2] /\ m[2] <= Len(arg)
      /\ \A l \in m[1] .. m[2] : arg[l] # Sep
      /\ m[2] < Len(arg) => m[2] + 1 \in SepsIn(arg)
  BY NameFacts
<1>9. Matches(SubSeq(path, 1, e), SubSeq(arg, 1, m[2]))
  <2>1. 1 <= m[2]
    BY <1>8
  <2> QED BY <1>1, <1>3, <1>7, <1>8, <2>1, Beginnings
<1>10. SubSeq(arg, 1, m[2]) \in Masks(arg)
  <2>1. Len(arg) \in Nat
    OBVIOUS
  <2>2. m[2] \in m[1] .. m[2]
    BY <1>8
  <2>3. arg[m[2]] # Sep
    BY <1>8, <2>2
  <2>4. CASE m[2] < Len(arg)
    <3> DEFINE s == m[2] + 1
    <3>1. s \in SepsIn(arg) /\ s > 1 /\ s - 1 = m[2]
      BY <1>8, <2>4
    <3> HIDE DEF s
    <3> QED BY <2>3, <3>1 DEF Masks
  <2>5. CASE ~(m[2] < Len(arg))
    <3>1. m[2] = Len(arg)
      BY <1>8, <2>1, <2>5
    <3>2. SubSeq(arg, 1, Len(arg)) = arg
      OBVIOUS
    <3>3. arg # <<>> /\ arg[Len(arg)] # Sep
      BY <1>1 DEF IsPath
    <3> QED BY <3>1, <3>2, <3>3 DEF Masks
  <2> QED BY <2>4, <2>5
<1> QED BY <1>9, <1>10 DEF e

LEMMA FileReached ==
    ASSUME NEW path \in Seq(NameChar), NEW arg \in Seq(Char), AgreeByName(path, arg)
    PROVE  \E a \in Masks(arg) : Matches(path, a)
<1>1. /\ path \in Seq(Char) /\ IsPath(path) /\ IsPath(arg) /\ path # <<>> /\ arg # <<>>
      /\ Cardinality(Names(path)) = Cardinality(Names(arg)) /\ arg[Len(arg)] # Sep
  <2>1. NameChar \subseteq Char
    BY CharAssumption
  <2>2. path \in Seq(Char)
    BY <2>1
  <2> QED BY <2>2 DEF AgreeByName, IsPath
<1>2. PICK n \in Names(path) : n[2] = Len(path) /\ Nth(path, n) = Cardinality(Names(path))
  BY <1>1, LastName
<1>3. PICK m \in Names(arg) : m[2] = Len(arg) /\ Nth(arg, m) = Cardinality(Names(arg))
  BY <1>1, LastName
<1>4. Fits(Pair(path, arg), m[2], n[2])
  BY <1>1, <1>2, <1>3, BeginningsFit
<1>5. Matches(path, arg)
  BY <1>1, <1>2, <1>3, <1>4, MatchesIsFits
<1>6. arg \in Masks(arg)
  BY <1>1 DEF Masks
<1> QED BY <1>5, <1>6

NamesOnly == call.name \in Seq(NameChar) /\ call.mask \in Seq(Char)

LEMMA AlwaysNamesOnly == Spec => []NamesOnly
<1>1. Init => NamesOnly
  <2> SUFFICES ASSUME Init PROVE NamesOnly
    OBVIOUS
  <2>1. call.name \in Strings(NameChar) /\ call.mask \in Strings(Char)
    BY DEF Init
  <2>2. \A S : Strings(S) \subseteq Seq(S)
    BY CharAssumption DEF Strings
  <2> QED BY <2>1, <2>2 DEF NamesOnly
<1>2. NamesOnly /\ [Next]_vars => NamesOnly'
  BY DEF NamesOnly, Next, Loop, Star, Step, Differs, Fallback, End, Return, vars
<1> QED BY <1>1, <1>2, PTL DEF Spec

\* A file whose names agree with an argument's is unpacked, with all of its
\* directories, for paths and arguments of any length: the masks parse_args
\* makes have one for each directory on the way.
THEOREM FilesAreReached == Spec => []PathsAreReached
<1>1. NamesOnly => PathsAreReached
  <2> SUFFICES ASSUME NamesOnly, AgreeByName(call.name, call.mask)
               PROVE  Unpacked(call.name, Masks(call.mask))
    BY DEF PathsAreReached
  <2>1. \A d \in DirectoriesTo(call.name) : Needed(d, "directory", Masks(call.mask))
    BY DirectoryReached DEF NamesOnly, DirectoriesTo, Needed
  <2>2. Needed(call.name, "file", Masks(call.mask))
    BY FileReached DEF NamesOnly, Needed
  <2> QED BY <2>1, <2>2 DEF Unpacked
<1> QED BY <1>1, AlwaysNamesOnly, PTL
=============================================================================
