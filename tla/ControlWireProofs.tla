------------------------- MODULE ControlWireProofs --------------------------
(***************************************************************************)
(* Whatever a model answers, whatever another client sends and however the *)
(* streams are cut, the firmware queues only updates it can show, each as  *)
(* it was meant, and the host hears every touch as it was made.            *)
(*                                                                         *)
(* TotalSize and WithoutCR are recursive functions: what they compute is   *)
(* proved by well-founded induction on the places of the sequence.         *)
(***************************************************************************)
EXTENDS ControlWire, SequenceTheorems, WellFoundedInduction, TLAPS

-----------------------------------------------------------------------------
(***************************************************************************)
(* The least and the largest of some numbers.                              *)
(***************************************************************************)
\* Of two numbers the larger ...
LEMMA MaxOfTwo ==
    ASSUME NEW a \in Int, NEW b \in Int
    PROVE  Max({a, b}) = IF a >= b THEN a ELSE b
<1> DEFINE m == IF a >= b THEN a ELSE b
<1>1. m \in {a, b} /\ \A y \in {a, b} : m >= y
    OBVIOUS
<1>2. \A x \in {a, b} : (\A y \in {a, b} : x >= y) => x = m
    OBVIOUS
<1> QED  BY <1>1, <1>2 DEF Max

\* ... or the smaller ...
LEMMA MinOfTwo ==
    ASSUME NEW a \in Int, NEW b \in Int
    PROVE  Min({a, b}) = IF a <= b THEN a ELSE b
<1> DEFINE m == IF a <= b THEN a ELSE b
<1>1. m \in {a, b} /\ \A y \in {a, b} : m <= y
    OBVIOUS
<1>2. \A x \in {a, b} : (\A y \in {a, b} : x <= y) => x = m
    OBVIOUS
<1> QED  BY <1>1, <1>2 DEF Min

\* ... and of one itself.
LEMMA MaxOfOne == ASSUME NEW a \in Int PROVE Max({a}) = a
BY DEF Max

\* Some natural numbers have a least.
LEMMA LeastOfSome ==
    ASSUME NEW S \in SUBSET Nat, S # {} PROVE \E m \in S : \A x \in S : m <= x
<1> DEFINE less == OpToRel(<, Nat)
<1>1. IsWellFoundedOn(less, Nat)
    BY NatLessThanWellFounded, Zenon
<1>2. \A x, y \in Nat : x < y => <<x, y>> \in less
    BY DEF OpToRel
<1> HIDE DEF less
<1>3. PICK m \in S : \A x \in S : <<x, m>> \notin less
    BY <1>1, WFMin
<1>4. \A x \in S : ~(x < m)
    BY <1>2, <1>3
<1> QED  BY <1>4

\* Some of the numbers from one to n have a least and a largest.
LEMMA ExtremesAreMembers ==
    ASSUME NEW n \in Nat, NEW S \in SUBSET (1..n), S # {}
    PROVE  Max(S) \in S /\ Min(S) \in S /\ \A x \in S : Min(S) <= x
<1>1. Min(S) \in S /\ \A x \in S : Min(S) <= x
  <2>1. S \in SUBSET Nat
      OBVIOUS
  <2>2. PICK m \in S : \A x \in S : m <= x
      BY <2>1, LeastOfSome
  <2> QED  BY <2>2 DEF Min
<1>2. Max(S) \in S
  <2> DEFINE T == {n - x : x \in S}
  <2>1. T # {}
      OBVIOUS
  <2>2. \A x \in S : n - x \in Nat
      OBVIOUS
  <2>3. T \in SUBSET Nat
      BY <2>2
  <2>4. PICK k \in T : \A y \in T : k <= y
    <3> HIDE DEF T
    <3> QED  BY <2>1, <2>3, LeastOfSome
  <2>5. PICK m \in S : k = n - m
      BY <2>4
  <2>6. \A x \in S : m >= x
    <3> SUFFICES ASSUME NEW x \in S PROVE m >= x
        OBVIOUS
    <3>1. n - m <= n - x
        BY <2>4, <2>5
    <3> QED  BY <3>1
  <2> QED  BY <2>6 DEF Max
<1> QED  BY <1>1, <1>2

-----------------------------------------------------------------------------
(***************************************************************************)
(* Functions defined by recursion over a sequence.                         *)
(***************************************************************************)
\* A set that has zero, and with a number the next, has the numbers up to n.
LEMMA UpTo ==
    ASSUME NEW n \in Nat, NEW S, 0 \in S, \A k \in 0..n - 1 : k \in S => k + 1 \in S
    PROVE  \A k \in 0..n : k \in S
<1> DEFINE rest == {k \in 0..n : k \notin S}
<1> SUFFICES ASSUME rest # {} PROVE FALSE
    OBVIOUS
<1>1. PICK m \in rest : \A k \in rest : m <= k
  <2>1. rest \in SUBSET Nat
      OBVIOUS
  <2> HIDE DEF rest
  <2> QED  BY <2>1, LeastOfSome
<1>2. m - 1 \in 0..n - 1 /\ m - 1 \notin rest
    BY <1>1
<1>3. m - 1 \in S
    BY <1>2
<1>4. m - 1 + 1 \in S
    BY <1>2, <1>3
<1> QED  BY <1>1, <1>4

\* g goes on from a value by n steps.
Goes(g, n, base, step) == g[0] = base /\ \A i \in 1..n : g[i] = step[i][g[i - 1]]

\* There is such a function ...
LEMMA Recursion ==
    ASSUME NEW n \in Nat, NEW X, NEW base \in X, NEW step \in [1..n -> [X -> X]]
    PROVE  \E g \in [0..n -> X] : Goes(g, n, base, step)
<1> DEFINE S == {k \in 0..n : \E g \in [0..k -> X] : Goes(g, k, base, step)}
<1>1. 0 \in S
  <2> DEFINE g == [i \in 0..0 |-> base]
  <2>1. g \in [0..0 -> X] /\ Goes(g, 0, base, step)
      BY DEF Goes
  <2> HIDE DEF g
  <2> QED  BY <2>1
<1>2. ASSUME NEW k \in 0..n - 1, k \in S PROVE k + 1 \in S
  <2>1. PICK g \in [0..k -> X] : Goes(g, k, base, step)
      BY <1>2
  <2> DEFINE h == [i \in 0..k + 1 |-> IF i = k + 1 THEN step[k + 1][g[k]] ELSE g[i]]
  <2>2. k + 1 \in 1..n /\ g[k] \in X
      OBVIOUS
  <2>3. h \in [0..k + 1 -> X]
      BY <2>2
  <2>4. h[0] = base
      BY <2>1 DEF Goes
  <2>5. ASSUME NEW i \in 1..k + 1 PROVE h[i] = step[i][h[i - 1]]
    <3>1. CASE i = k + 1
      <4>1. h[i] = step[k + 1][g[k]] /\ h[i - 1] = g[k]
          BY <3>1
      <4> QED  BY <3>1, <4>1
    <3>2. CASE i # k + 1
      <4>1. i \in 1..k /\ h[i] = g[i] /\ h[i - 1] = g[i - 1]
          BY <3>2
      <4>2. g[i] = step[i][g[i - 1]]
          BY <2>1, <4>1 DEF Goes
      <4> QED  BY <4>1, <4>2
    <3> QED  BY <3>1, <3>2
  <2> HIDE DEF h
  <2>6. k + 1 \in 0..n /\ Goes(h, k + 1, base, step)
      BY <2>4, <2>5 DEF Goes
  <2> QED  BY <2>3, <2>6
<1> HIDE DEF S
<1>3. \A k \in 0..n : k \in S
    BY <1>1, <1>2, UpTo
<1>4. n \in S
    BY <1>3
<1> QED  BY <1>4 DEF S

\* ... and no other.
LEMMA SameSteps ==
    ASSUME NEW n \in Nat, NEW g, NEW h, g[0] = h[0],
           \A k \in 0..n - 1 : g[k] = h[k] => g[k + 1] = h[k + 1]
    PROVE  \A k \in 0..n : g[k] = h[k]
<1> DEFINE S == {k \in 0..n : g[k] = h[k]}
<1>1. 0 \in S /\ \A k \in 0..n - 1 : k \in S => k + 1 \in S
    OBVIOUS
<1> HIDE DEF S
<1>2. \A k \in 0..n : k \in S
    BY <1>1, UpTo
<1> QED  BY <1>2 DEF S

-----------------------------------------------------------------------------
(***************************************************************************)
(* Sizes.                                                                  *)
(***************************************************************************)
\* The sizes of the first so many pieces add up to that of them all.
Sizes(q, size) ==
    /\ size \in [0..Len(q) -> Nat] /\ size[0] = 0
    /\ \A i \in 1..Len(q) : size[i] = size[i - 1] + Size(q[i])

LEMMA TotalSizeDef ==
    ASSUME NEW P, \A p \in P : Size(p) \in Nat, NEW q \in Seq(P)
    PROVE  \E size : Sizes(q, size) /\ TotalSize(q) = size[Len(q)]
<1> DEFINE n == Len(q)
           Sum(g) == g = [i \in 0..n |-> IF i = 0 THEN 0 ELSE g[i - 1] + Size(q[i])]
           step == [i \in 1..n |-> [x \in Nat |-> x + Size(q[i])]]
<1>1. n \in Nat /\ \A i \in 1..n : Size(q[i]) \in Nat
    OBVIOUS
<1>2. \E g : Sum(g)
  <2>1. step \in [1..n -> [Nat -> Nat]] /\ 0 \in Nat
      BY <1>1
  <2>2. PICK g \in [0..n -> Nat] : Goes(g, n, 0, step)
    <3> HIDE DEF step, n
    <3> QED  BY <1>1, <2>1, Recursion
  <2>3. ASSUME NEW i \in 1..n PROVE g[i] = g[i - 1] + Size(q[i])
    <3>1. i - 1 \in 0..n
        BY <1>1
    <3>2. g[i - 1] \in Nat
        BY <2>2, <3>1
    <3>3. step[i][g[i - 1]] = g[i - 1] + Size(q[i])
        BY <3>2
    <3> QED  BY <2>2, <3>3 DEF Goes
  <2> HIDE DEF step, n
  <2>4. g = [i \in 0..n |-> g[i]] /\ \A i \in 0..n : i # 0 => i \in 1..n
      BY <1>1
  <2>5. \A i \in 0..n : g[i] = IF i = 0 THEN 0 ELSE g[i - 1] + Size(q[i])
      BY <2>2, <2>3, <2>4 DEF Goes
  <2>6. g = [i \in 0..n |-> IF i = 0 THEN 0 ELSE g[i - 1] + Size(q[i])]
      BY <2>2, <2>5
  <2> QED  BY <2>6
<1> DEFINE size == CHOOSE g : Sum(g)
<1>3. Sum(size)
    BY <1>2
<1>4. TotalSize(q) = size[n]
    BY DEF TotalSize
<1> HIDE DEF size
<1>5. size[0] = 0 /\ \A i \in 1..n : size[i] = size[i - 1] + Size(q[i])
  <2>1. 0 \in 0..n /\ \A i \in 1..n : i \in 0..n /\ i # 0
      BY <1>1
  <2>2. size = [i \in 0..n |-> IF i = 0 THEN 0 ELSE size[i - 1] + Size(q[i])]
      BY <1>3
  <2> HIDE DEF n
  <2>3. \A i \in 0..n : size[i] = IF i = 0 THEN 0 ELSE size[i - 1] + Size(q[i])
      BY <2>2, Zenon
  <2> QED  BY <2>1, <2>3
<1>6. \A i \in 0..n : size[i] \in Nat
  <2> DEFINE S == {i \in 0..n : size[i] \in Nat}
  <2>1. 0 \in S
      BY <1>1, <1>5
  <2>2. ASSUME NEW k \in 0..n - 1, k \in S PROVE k + 1 \in S
    <3>1. k + 1 \in 1..n /\ k + 1 - 1 = k /\ size[k] \in Nat
        BY <1>1, <2>2
    <3>2. size[k + 1] = size[k] + Size(q[k + 1])
        BY <1>5, <3>1
    <3> QED  BY <1>1, <3>1, <3>2
  <2> HIDE DEF S
  <2>3. \A k \in 0..n : k \in S
      BY <1>1, <2>1, <2>2, UpTo
  <2> QED  BY <2>3 DEF S
<1>7. size \in [0..n -> Nat]
  <2>1. size = [i \in 0..n |-> size[i]]
      BY <1>3
  <2> QED  BY <1>6, <2>1
<1> QED  BY <1>4, <1>5, <1>7 DEF Sizes

\* From some place on both sums grow by the same summands ...
GrowTogether(g, h, m, n, size) ==
    \A k \in 0..n - 1 : /\ size[k + 1] \in Nat
                        /\ g[k + 1] = g[k] + size[k + 1]
                        /\ h[m + (k + 1)] = h[m + k] + size[k + 1]

\* ... and so stay apart by what they began with.
LEMMA SumsContinue ==
    ASSUME NEW m \in Nat, NEW n \in Nat, NEW c \in Nat, NEW g, NEW h, NEW size,
           g[0] = 0, h[m] = c, GrowTogether(g, h, m, n, size)
    PROVE  \A k \in 0..n : h[m + k] = c + g[k]
<1> DEFINE S == {k \in 0..n : g[k] \in Nat /\ h[m + k] = c + g[k]}
<1>1. 0 \in S
    OBVIOUS
<1>2. ASSUME NEW k \in 0..n - 1, k \in S PROVE k + 1 \in S
  <2>1. k + 1 \in 0..n
      OBVIOUS
  <2>2. PICK x \in Nat : x = g[k] /\ h[m + k] = c + x
      BY <1>2
  <2>3. PICK y \in Nat : y = size[k + 1] /\ g[k + 1] = x + y /\ h[m + (k + 1)] = c + x + y
      BY <2>2 DEF GrowTogether
  <2> QED  BY <2>1, <2>3
<1> HIDE DEF S
<1>3. \A k \in 0..n : k \in S
    BY <1>1, <1>2, UpTo
<1> QED  BY <1>3 DEF S

\* The size of pieces one behind the other is the sum of both.
LEMMA SizeOfConcat ==
    ASSUME NEW P, \A p \in P : Size(p) \in Nat, NEW a \in Seq(P), NEW b \in Seq(P)
    PROVE  /\ TotalSize(a) \in Nat
           /\ TotalSize(a \o b) = TotalSize(a) + TotalSize(b)
<1>1. /\ a \o b \in Seq(P) /\ Len(a \o b) = Len(a) + Len(b) /\ Len(a) \in Nat /\ Len(b) \in Nat
      /\ \A i \in 1..Len(a) : (a \o b)[i] = a[i]
      /\ \A i \in 1..Len(b) : (a \o b)[Len(a) + i] = b[i]
    OBVIOUS
<1>2. PICK f : Sizes(a, f) /\ TotalSize(a) = f[Len(a)]
    BY TotalSizeDef
<1>3. PICK g : Sizes(b, g) /\ TotalSize(b) = g[Len(b)]
    BY TotalSizeDef
<1>4. PICK h : Sizes(a \o b, h) /\ TotalSize(a \o b) = h[Len(a \o b)]
    BY <1>1, TotalSizeDef
<1>5. \A k \in 0..Len(a) : f[k] = h[k]
  <2>1. ASSUME NEW k \in 0..Len(a) - 1, f[k] = h[k] PROVE f[k + 1] = h[k + 1]
    <3>1. k + 1 \in 1..Len(a) /\ k + 1 \in 1..Len(a \o b) /\ k + 1 - 1 = k
        BY <1>1
    <3>2. f[k + 1] = f[k] + Size(a[k + 1]) /\ h[k + 1] = h[k] + Size((a \o b)[k + 1])
        BY <1>2, <1>4, <3>1 DEF Sizes
    <3> QED  BY <1>1, <2>1, <3>1, <3>2
  <2>2. f[0] = h[0]
      BY <1>2, <1>4 DEF Sizes
  <2>3. Len(a) \in Nat
      BY <1>1
  <2> QED  BY <2>1, <2>2, <2>3, SameSteps, Zenon
<1>6. f[Len(a)] \in Nat /\ h[Len(a)] = f[Len(a)]
    BY <1>1, <1>2, <1>5 DEF Sizes
<1>7. \A k \in 0..Len(b) : h[Len(a) + k] = f[Len(a)] + g[k]
  <2> DEFINE size == [i \in 1..Len(b) |-> Size(b[i])]
  <2>1. ASSUME NEW k \in 0..Len(b) - 1
        PROVE  /\ size[k + 1] \in Nat
               /\ g[k + 1] = g[k] + size[k + 1]
               /\ h[Len(a) + (k + 1)] = h[Len(a) + k] + size[k + 1]
    <3>1. /\ k + 1 \in 1..Len(b) /\ k + 1 - 1 = k
          /\ Len(a) + (k + 1) \in 1..Len(a \o b) /\ Len(a) + (k + 1) - 1 = Len(a) + k
        BY <1>1
    <3>2. size[k + 1] = Size(b[k + 1]) /\ b[k + 1] \in P
        BY <3>1
    <3>3. g[k + 1] = g[k] + Size(b[k + 1])
        BY <1>3, <3>1 DEF Sizes
    <3> DEFINE i == Len(a) + (k + 1)
    <3>4. (a \o b)[i] = b[k + 1]
        BY <1>1, <3>1
    <3>5. i \in 1..Len(a \o b) /\ i - 1 = Len(a) + k
        BY <3>1
    <3> HIDE DEF i
    <3>6. h[i] = h[i - 1] + Size((a \o b)[i])
        BY <1>4, <3>5 DEF Sizes
    <3>7. h[i] = h[Len(a) + k] + Size(b[k + 1])
        BY <3>4, <3>5, <3>6
    <3> HIDE DEF size
    <3> QED  BY <3>2, <3>3, <3>7 DEF i
  <2>2. g[0] = 0 /\ f[Len(a)] \in Nat /\ h[Len(a)] = f[Len(a)]
      BY <1>3, <1>6 DEF Sizes
  <2>3. GrowTogether(g, h, Len(a), Len(b), size)
      BY <2>1 DEF GrowTogether
  <2> HIDE DEF size
  <2> QED  BY <1>1, <2>2, <2>3, SumsContinue
<1> QED  BY <1>1, <1>2, <1>3, <1>4, <1>6, <1>7

\* No pieces take no bytes, and one its own.
LEMMA SizeOfFew ==
    /\ TotalSize(<<>>) = 0
    /\ \A p : Size(p) \in Nat => TotalSize(<<p>>) = Size(p)
<1>1. TotalSize(<<>>) = 0
  <2>1. PICK f : Sizes(<<>>, f) /\ TotalSize(<<>>) = f[Len(<<>>)]
    <3>1. <<>> \in Seq({})
        OBVIOUS
    <3> QED  BY <3>1, TotalSizeDef
  <2> QED  BY <2>1 DEF Sizes
<1>2. ASSUME NEW p, Size(p) \in Nat PROVE TotalSize(<<p>>) = Size(p)
  <2>1. <<p>> \in Seq({p}) /\ Len(<<p>>) = 1
      OBVIOUS
  <2>2. PICK f : Sizes(<<p>>, f) /\ TotalSize(<<p>>) = f[Len(<<p>>)]
      BY <1>2, <2>1, TotalSizeDef
  <2>3. f[1] = f[0] + Size(p) /\ f[0] = 0
      BY <2>1, <2>2 DEF Sizes
  <2> QED  BY <1>2, <2>1, <2>2, <2>3
<1> QED  BY <1>1, <1>2

-----------------------------------------------------------------------------
(***************************************************************************)
(* Frames without CRs.                                                     *)
(***************************************************************************)
\* What is kept of the first so many pieces.
Keeps(q, kept) ==
    /\ kept[0] = <<>>
    /\ \A i \in 1..Len(q) :
          kept[i] = IF q[i].key = "CR" THEN kept[i - 1] ELSE Append(kept[i - 1], q[i])

LEMMA WithoutCRDef ==
    ASSUME NEW P, NEW q \in Seq(P)
    PROVE  \E kept \in [0..Len(q) -> Seq(P)] : Keeps(q, kept) /\ WithoutCR(q) = kept[Len(q)]
<1> DEFINE n == Len(q)
           Is(g) == g = [i \in 0..n |->
                              IF i = 0 THEN <<>>
                              ELSE IF q[i].key = "CR" THEN g[i - 1] ELSE Append(g[i - 1], q[i])]
           step == [i \in 1..n |->
                       [f \in Seq(P) |-> IF q[i].key = "CR" THEN f ELSE Append(f, q[i])]]
<1>1. n \in Nat /\ \A i \in 1..n : q[i] \in P
    OBVIOUS
<1>2. PICK g \in [0..n -> Seq(P)] : Goes(g, n, <<>>, step)
  <2>1. step \in [1..n -> [Seq(P) -> Seq(P)]] /\ <<>> \in Seq(P)
      BY <1>1
  <2> HIDE DEF step, n
  <2> QED  BY <1>1, <2>1, Recursion
<1>3. ASSUME NEW i \in 1..n
      PROVE  g[i] = IF q[i].key = "CR" THEN g[i - 1] ELSE Append(g[i - 1], q[i])
  <2>1. i - 1 \in 0..n
      BY <1>1
  <2>2. g[i - 1] \in Seq(P)
      BY <1>2, <2>1
  <2>3. step[i][g[i - 1]] = IF q[i].key = "CR" THEN g[i - 1] ELSE Append(g[i - 1], q[i])
      BY <2>2
  <2> QED  BY <1>2, <2>3 DEF Goes
<1> HIDE DEF step, n
<1>4. Is(g)
  <2>1. g = [i \in 0..n |-> g[i]] /\ \A i \in 0..n : i # 0 => i \in 1..n
      BY <1>1, <1>2
  <2>2. \A i \in 0..n :
            g[i] = IF i = 0 THEN <<>>
                   ELSE IF q[i].key = "CR" THEN g[i - 1] ELSE Append(g[i - 1], q[i])
      BY <1>2, <1>3, <2>1 DEF Goes
  <2> QED  BY <2>1, <2>2
<1> DEFINE kept == CHOOSE h : Is(h)
<1>5. Is(kept)
    BY <1>4
<1>6. WithoutCR(q) = kept[n]
    BY DEF WithoutCR, n
<1> HIDE DEF kept
<1>7. /\ kept[0] = <<>>
      /\ \A i \in 1..n :
            kept[i] = IF q[i].key = "CR" THEN kept[i - 1] ELSE Append(kept[i - 1], q[i])
  <2>1. 0 \in 0..n /\ \A i \in 1..n : i \in 0..n /\ i # 0
      BY <1>1
  <2>2. kept[0] = <<>>
      BY <1>5, <2>1
  <2>3. ASSUME NEW i \in 1..n
        PROVE  kept[i] = IF q[i].key = "CR" THEN kept[i - 1] ELSE Append(kept[i - 1], q[i])
      BY <1>5, <2>1, Zenon
  <2> QED  BY <2>2, <2>3
<1>8. \A i \in 0..n : kept[i] = g[i]
  <2>1. kept[0] = g[0]
      BY <1>2, <1>7 DEF Goes
  <2>2. ASSUME NEW k \in 0..n - 1, kept[k] = g[k] PROVE kept[k + 1] = g[k + 1]
    <3>1. k + 1 \in 1..n /\ k + 1 - 1 = k
        BY <1>1
    <3> QED  BY <1>3, <1>7, <2>2, <3>1
  <2> QED  BY <1>1, <2>1, <2>2, SameSteps
<1>9. kept \in [0..n -> Seq(P)]
  <2>1. kept = [i \in 0..n |-> kept[i]]
      BY <1>5
  <2> QED  BY <1>2, <1>8, <2>1
<1> QED  BY <1>6, <1>7, <1>9 DEF Keeps, n

\* What is kept of nothing is nothing; a CR is not kept, another piece is.
LEMMA KeptOfOneMore ==
    ASSUME NEW P, NEW q \in Seq(P), NEW p \in P
    PROVE  /\ WithoutCR(q) \in Seq(P)
           /\ WithoutCR(Append(q, p)) =
                 IF p.key = "CR" THEN WithoutCR(q) ELSE Append(WithoutCR(q), p)
<1> DEFINE r == Append(q, p)
<1>1. /\ r \in Seq(P) /\ Len(r) = Len(q) + 1 /\ r[Len(q) + 1] = p /\ Len(q) \in Nat
      /\ \A i \in 1..Len(q) : r[i] = q[i]
    OBVIOUS
<1> HIDE DEF r
<1>2. PICK g \in [0..Len(q) -> Seq(P)] : Keeps(q, g) /\ WithoutCR(q) = g[Len(q)]
    BY WithoutCRDef
<1>3. PICK h \in [0..Len(r) -> Seq(P)] : Keeps(r, h) /\ WithoutCR(r) = h[Len(r)]
    BY <1>1, WithoutCRDef
<1>4. \A i \in 0..Len(q) : g[i] = h[i]
  <2>1. g[0] = h[0]
      BY <1>2, <1>3 DEF Keeps
  <2>2. ASSUME NEW k \in 0..Len(q) - 1, g[k] = h[k] PROVE g[k + 1] = h[k + 1]
    <3>1. k + 1 \in 1..Len(q) /\ k + 1 \in 1..Len(r) /\ k + 1 - 1 = k
        BY <1>1
    <3>2. /\ g[k + 1] = IF q[k + 1].key = "CR" THEN g[k] ELSE Append(g[k], q[k + 1])
          /\ h[k + 1] = IF r[k + 1].key = "CR" THEN h[k] ELSE Append(h[k], r[k + 1])
        BY <1>2, <1>3, <3>1 DEF Keeps
    <3> QED  BY <1>1, <2>2, <3>1, <3>2
  <2>3. Len(q) \in Nat
      BY <1>1
  <2> QED  BY <2>1, <2>2, <2>3, SameSteps, Zenon
<1>5. h[Len(q) + 1] = IF p.key = "CR" THEN h[Len(q)] ELSE Append(h[Len(q)], p)
  <2> DEFINE i == Len(q) + 1
  <2>1. i \in 1..Len(r) /\ i - 1 = Len(q) /\ r[i] = p
      BY <1>1
  <2> HIDE DEF i
  <2>2. h[i] = IF r[i].key = "CR" THEN h[i - 1] ELSE Append(h[i - 1], r[i])
      BY <1>3, <2>1 DEF Keeps
  <2>3. h[i] = IF p.key = "CR" THEN h[Len(q)] ELSE Append(h[Len(q)], p)
      BY <2>1, <2>2
  <2> QED  BY <2>3 DEF i
<1>6. g[Len(q)] = h[Len(q)] /\ g[Len(q)] \in Seq(P)
    BY <1>1, <1>2, <1>4
<1> QED  BY <1>1, <1>2, <1>3, <1>5, <1>6 DEF r

LEMMA KeptOfNothing == WithoutCR(<<>>) = <<>>
<1>1. <<>> \in Seq({}) /\ Len(<<>>) = 0
    OBVIOUS
<1>2. PICK g \in [0..Len(<<>>) -> Seq({})] : Keeps(<<>>, g) /\ WithoutCR(<<>>) = g[Len(<<>>)]
    BY <1>1, WithoutCRDef
<1> QED  BY <1>1, <1>2 DEF Keeps

-----------------------------------------------------------------------------
(***************************************************************************)
(* Streams of lines.                                                       *)
(***************************************************************************)
\* A stream is made of some lines: it ends with a line feed, if it is not
\* empty, and what is between a line feed, or the beginning, and the next one
\* is one of them.
MadeOf(s, lines) ==
    /\ s # <<>> => Len(s) \in Lines(s)
    /\ \A i \in Lines(s), j \in {0} \cup Lines(s) :
          j < i /\ (\A k \in Lines(s) : k <= j \/ i <= k) => SubSeq(s, j + 1, i) \in lines

\* A line written behind a stream of lines makes another.
LEMMA LineAdded ==
    ASSUME NEW P, NEW s \in Seq(P), NEW lines, NEW l \in lines, l \in Seq(P), l # <<>>,
           Lines(l) = {Len(l)}, MadeOf(s, lines)
    PROVE  MadeOf(s \o l, lines)
<1> DEFINE t == s \o l
<1>1. /\ t \in Seq(P) /\ Len(t) = Len(s) + Len(l) /\ Len(s) \in Nat /\ Len(l) \in Nat \ {0}
      /\ \A i \in 1..Len(s) : t[i] = s[i]
      /\ \A i \in 1..Len(l) : t[Len(s) + i] = l[i]
    OBVIOUS
<1> HIDE DEF t
<1>2. Lines(t) = Lines(s) \cup {Len(t)}
  <2>1. ASSUME NEW i \in 1..Len(t) PROVE i \in Lines(t) <=> i \in Lines(s) \/ i = Len(t)
    <3>1. CASE i <= Len(s)
        BY <1>1, <3>1 DEF Lines
    <3>2. CASE i > Len(s)
      <4>1. i - Len(s) \in 1..Len(l) /\ t[i] = l[i - Len(s)]
        <5>1. i - Len(s) \in 1..Len(l) /\ Len(s) + (i - Len(s)) = i
            BY <1>1, <3>2
        <5> QED  BY <1>1, <5>1
      <4>2. i \in Lines(t) <=> i - Len(s) \in Lines(l)
          BY <1>1, <4>1 DEF Lines
      <4> QED  BY <1>1, <3>2, <4>2 DEF Lines
    <3> QED  BY <1>1, <3>1, <3>2
  <2> QED  BY <1>1, <2>1 DEF Lines
<1>3. \A i \in Lines(s) : i \in 1..Len(s)
    BY DEF Lines
<1>4. ASSUME NEW i \in Lines(t), NEW j \in {0} \cup Lines(t), j < i,
             \A k \in Lines(t) : k <= j \/ i <= k
      PROVE  SubSeq(t, j + 1, i) \in lines
  <2>1. CASE i \in Lines(s)
    <3>1. j \in {0} \cup Lines(s) /\ i \in 1..Len(s) /\ j \in 0..Len(s)
        BY <1>1, <1>2, <1>3, <1>4, <2>1
    <3>2. SubSeq(s, j + 1, i) \in lines
        BY <1>2, <1>4, <2>1, <3>1 DEF MadeOf
    <3>3. SubSeq(t, j + 1, i) = SubSeq(s, j + 1, i)
        BY <1>1, <1>4, <3>1, SubSeqOfConcat1 DEF t
    <3> QED  BY <3>2, <3>3
  <2>2. CASE i = Len(t)
    <3>1. j = Len(s)
      <4>1. CASE s = <<>>
          BY <1>1, <1>2, <1>3, <1>4, <2>2, <4>1
      <4>2. CASE s # <<>>
        <5>1. Len(s) \in Lines(t) /\ ~(i <= Len(s))
            BY <1>1, <1>2, <2>2, <4>2 DEF MadeOf
        <5>2. Len(s) <= j
            BY <1>4, <5>1
        <5>3. j # Len(t)
            BY <1>4, <2>2
        <5> QED  BY <1>1, <1>2, <1>3, <1>4, <5>2, <5>3
      <4> QED  BY <4>1, <4>2
    <3>2. SubSeq(t, j + 1, i) = SubSeq(l, 1, Len(l))
      <4>1. SubSeq(t, Len(s) + 1, Len(s) + Len(l))
              = SubSeq(l, Len(s) + 1 - Len(s), Len(s) + Len(l) - Len(s))
          BY <1>1, SubSeqOfConcat2 DEF t
      <4>2. Len(s) + 1 - Len(s) = 1 /\ Len(s) + Len(l) - Len(s) = Len(l)
          BY <1>1
      <4> QED  BY <1>1, <2>2, <3>1, <4>1, <4>2
    <3> QED  BY <3>2, SubSeqFull
  <2> QED  BY <1>2, <2>1, <2>2
<1> QED  BY <1>1, <1>2, <1>4 DEF MadeOf, t

\* What is behind the first line feed of a stream of lines is one, and what it
\* ends is one of the lines.
LEMMA FirstLine ==
    ASSUME NEW P, NEW s \in Seq(P), NEW lines, MadeOf(s, lines), NEW e \in Lines(s),
           \A k \in Lines(s) : e <= k
    PROVE  SubSeq(s, 1, e) \in lines /\ MadeOf(SubSeq(s, e + 1, Len(s)), lines)
<1> DEFINE t == SubSeq(s, e + 1, Len(s))
<1>1. e \in 1..Len(s) /\ Len(s) \in Nat /\ \A i \in Lines(s) : i \in 1..Len(s)
    BY DEF Lines
<1>2. SubSeq(s, 1, e) \in lines
  <2>1. SubSeq(s, 0 + 1, e) \in lines
      BY <1>1 DEF MadeOf
  <2> QED  BY <2>1
<1>3. /\ t \in Seq(P) /\ Len(t) = Len(s) - e
      /\ \A i \in 1..Len(t) : t[i] = s[e + i]
  <2>1. \A i \in e + 1..Len(s) : s[i] \in P
      BY <1>1
  <2>2. \A i \in 1..Len(s) - (e + 1) + 1 : e + 1 + i - 1 = e + i
      BY <1>1
  <2> QED  BY <1>1, <2>1, <2>2, SubSeqProperties
<1> HIDE DEF t
<1>4. \A i \in 1..Len(t) : i \in Lines(t) <=> e + i \in Lines(s)
    BY <1>1, <1>3 DEF Lines
<1>5. \A i \in Lines(t) : i \in 1..Len(t)
    BY <1>3 DEF Lines
<1>6. t # <<>> => Len(t) \in Lines(t)
  <2> SUFFICES ASSUME t # <<>> PROVE Len(t) \in Lines(t)
      OBVIOUS
  <2>1. Len(t) \in 1..Len(t)
      BY <1>3
  <2>2. e + Len(t) = Len(s) /\ s # <<>>
      BY <1>1, <1>3
  <2> QED  BY <1>4, <2>1, <2>2 DEF MadeOf
<1>7. ASSUME NEW i \in Lines(t), NEW j \in {0} \cup Lines(t), j < i,
             \A k \in Lines(t) : k <= j \/ i <= k
      PROVE  SubSeq(t, j + 1, i) \in lines
  <2>1. i \in 1..Len(t) /\ j \in 0..Len(t) /\ e + i \in Lines(s) /\ e + j \in Lines(s)
    <3>1. i \in 1..Len(t) /\ e + i \in Lines(s)
        BY <1>4, <1>5
    <3>2. CASE j = 0
        BY <1>1, <1>3, <3>1, <3>2
    <3>3. CASE j \in Lines(t)
        BY <1>4, <1>5, <3>1, <3>3
    <3> QED  BY <3>1, <3>2, <3>3
  <2>2. ASSUME NEW k \in Lines(s) PROVE k <= e + j \/ e + i <= k
    <3>1. CASE k <= e
        BY <1>1, <2>1, <3>1
    <3>2. CASE k > e
      <4>1. k - e \in 1..Len(t) /\ e + (k - e) = k
          BY <1>1, <1>3, <3>2
      <4>2. k - e \in Lines(t)
          BY <1>4, <4>1
      <4> QED  BY <1>1, <1>7, <2>1, <4>1, <4>2
    <3> QED  BY <1>1, <3>1, <3>2
  <2>3. SubSeq(s, e + j + 1, e + i) \in lines
      BY <1>1, <1>7, <2>1, <2>2 DEF MadeOf
  <2>4. SubSeq(t, j + 1, i) = SubSeq(s, e + j + 1, e + i)
    <3>1. e + 1 \in 1..Len(s) /\ j + 1 \in 1..Len(s) - (e + 1) + 1 /\ i \in 1..Len(s) - (e + 1) + 1
        BY <1>1, <1>3, <1>7, <2>1
    <3>2. SubSeq(SubSeq(s, e + 1, Len(s)), j + 1, i)
              = SubSeq(s, (e + 1) + (j + 1) - 1, (e + 1) + i - 1)
        BY <1>1, <3>1, SubSeqOfSubSeq
    <3>3. (e + 1) + (j + 1) - 1 = e + j + 1 /\ (e + 1) + i - 1 = e + i
        BY <1>1, <2>1
    <3> QED  BY <3>2, <3>3 DEF t
  <2> QED  BY <2>3, <2>4
<1> QED  BY <1>2, <1>6, <1>7 DEF MadeOf, t

\* In a stream of lines, pieces without a line feed and a line behind them are
\* one of the lines.
LEMMA FirstOf ==
    ASSUME NEW P, NEW q \in Seq(P), Lines(q) = {}, NEW l \in Seq(P), l # <<>>,
           Lines(l) = {Len(l)}, NEW rest \in Seq(P), NEW lines,
           MadeOf((q \o l) \o rest, lines)
    PROVE  q \o l \in lines /\ MadeOf(rest, lines)
<1> DEFINE a == q \o l
<1>1. /\ a \in Seq(P) /\ Len(a) = Len(q) + Len(l)
      /\ Len(q) \in Nat /\ Len(l) \in Nat \ {0} /\ Len(rest) \in Nat
      /\ \A i \in 1..Len(q) : a[i] = q[i]
      /\ \A i \in 1..Len(l) : a[Len(q) + i] = l[i]
    OBVIOUS
<1> HIDE DEF a
<1> DEFINE s == a \o rest
<1>2. /\ s \in Seq(P) /\ Len(s) = Len(a) + Len(rest)
      /\ \A i \in 1..Len(a) : s[i] = a[i]
      /\ \A i \in 1..Len(rest) : s[Len(a) + i] = rest[i]
  <2>1. /\ s \in Seq(P) /\ Len(s) = Len(a) + Len(rest)
        /\ \A i \in 1..Len(a) + Len(rest) :
              s[i] = IF i <= Len(a) THEN a[i] ELSE rest[i - Len(a)]
    <3>1. a \in Seq(P)
        BY <1>1
    <3>2. rest \in Seq(P)
        OBVIOUS
    <3>3. s = a \o rest
        OBVIOUS
    <3> HIDE DEF s
    <3> QED BY <3>1, <3>2, <3>3, ConcatProperties
  <2> HIDE DEF s
  <2>2. ASSUME NEW i \in 1..Len(rest) PROVE s[Len(a) + i] = rest[i]
    <3>1. /\ Len(a) + i \in 1..Len(a) + Len(rest) /\ ~(Len(a) + i <= Len(a))
          /\ (Len(a) + i) - Len(a) = i
        BY <1>1
    <3> QED  BY <2>1, <3>1
  <2> QED  BY <1>1, <2>1, <2>2
<1> HIDE DEF s
<1>3. Len(a) \in Lines(s)
  <2>1. l[Len(l)].key = "LF"
      BY DEF Lines
  <2>2. Len(l) \in 1..Len(l) /\ Len(a) \in 1..Len(a) /\ Len(a) \in 1..Len(s) /\ DOMAIN s = 1..Len(s)
      BY <1>1, <1>2
  <2>3. s[Len(a)] = l[Len(l)]
      BY <1>1, <1>2, <2>2
  <2> QED  BY <2>1, <2>2, <2>3 DEF Lines
<1>4. \A k \in Lines(s) : Len(a) <= k
  <2>1. SUFFICES ASSUME NEW k \in Lines(s), k < Len(a) PROVE FALSE
    <3>1. \A k \in Lines(s) : k \in Int
        BY <1>2 DEF Lines
    <3> QED  BY <1>1, <3>1
  <2>2. k \in 1..Len(a) /\ a[k].key = "LF"
      BY <1>1, <1>2, <2>1 DEF Lines
  <2>3. CASE k <= Len(q)
    <3>1. k \in 1..Len(q) /\ q[k].key = "LF"
        BY <1>1, <2>2, <2>3
    <3> QED  BY <3>1 DEF Lines
  <2>4. CASE k > Len(q)
    <3> DEFINE i == k - Len(q)
    <3>1. i \in 1..Len(l) /\ k = Len(q) + i /\ i # Len(l)
        BY <1>1, <2>1, <2>2, <2>4
    <3> HIDE DEF i
    <3>2. l[i].key = "LF"
        BY <1>1, <2>2, <3>1
    <3> QED  BY <3>1, <3>2 DEF Lines
  <2> QED  BY <1>1, <2>2, <2>3, <2>4
<1>5. SubSeq(s, 1, Len(a)) \in lines /\ MadeOf(SubSeq(s, Len(a) + 1, Len(s)), lines)
  <2>1. MadeOf(s, lines)
      BY DEF s, a
  <2> QED  BY <1>2, <1>3, <1>4, <2>1, FirstLine
<1>6. SubSeq(s, 1, Len(a)) = a
  <2>1. 1 \in 1..Len(a) /\ Len(a) \in 1..Len(a)
      BY <1>1
  <2>2. SubSeq(s, 1, Len(a)) = SubSeq(a, 1, Len(a))
      BY <1>1, <2>1, SubSeqOfConcat1 DEF s
  <2> QED  BY <1>1, <2>2, SubSeqFull
<1>7. SubSeq(s, Len(a) + 1, Len(s)) = rest
  <2> DEFINE t == SubSeq(s, Len(a) + 1, Len(s))
  <2>1. \A i \in Len(a) + 1..Len(s) : s[i] \in P
      BY <1>1, <1>2
  <2>2. /\ t \in Seq(P) /\ Len(t) = Len(rest)
        /\ \A i \in 1..Len(rest) : t[i] = s[Len(a) + i]
      BY <1>1, <1>2, <2>1
  <2> HIDE DEF t
  <2>3. t = rest
      BY <1>2, <2>2, SeqEqual
  <2> QED  BY <2>3 DEF t
<1> QED  BY <1>5, <1>6, <1>7 DEF a

\* Pieces without a line feed, one behind another, are pieces without one.
LEMMA NoLines ==
    ASSUME NEW P, NEW a \in Seq(P), NEW b \in Seq(P), Lines(a) = {}, Lines(b) = {}
    PROVE  Lines(a \o b) = {}
<1>1. /\ a \o b \in Seq(P) /\ Len(a \o b) = Len(a) + Len(b)
      /\ \A i \in 1..Len(a) + Len(b) :
            (a \o b)[i] = IF i <= Len(a) THEN a[i] ELSE b[i - Len(a)]
    BY ConcatProperties
<1> SUFFICES ASSUME NEW i \in Lines(a \o b) PROVE FALSE
    OBVIOUS
<1>2. i \in 1..Len(a) + Len(b) /\ (a \o b)[i].key = "LF"
    BY <1>1 DEF Lines
<1>3. CASE i <= Len(a)
    BY <1>1, <1>2, <1>3 DEF Lines
<1>4. CASE i > Len(a)
  <2>1. i - Len(a) \in 1..Len(b) /\ b[i - Len(a)].key = "LF"
      BY <1>1, <1>2, <1>4
  <2> QED  BY <2>1 DEF Lines
<1> QED  BY <1>2, <1>3, <1>4

\* All of a sequence but the last.
LEMMA FrontOf ==
    ASSUME NEW P, NEW q \in Seq(P), NEW p \in P
    PROVE  SubSeq(Append(q, p), 1, Len(q)) = q
<1> DEFINE r == Append(q, p)
           t == SubSeq(r, 1, Len(q))
<1>1. \A i \in 1..Len(q) : r[i] = q[i] /\ r[i] \in P
    BY AppendProperties
<1> HIDE DEF r
<1>2. t \in Seq(P) /\ Len(t) = Len(q) /\ \A i \in 1..Len(q) : t[i] = r[i]
    BY <1>1
<1> HIDE DEF t
<1>3. t = q
    BY <1>1, <1>2, SeqEqual
<1> QED  BY <1>3 DEF t, r

\* The last of four sequences, one behind another.
LEMMA LastOfFour ==
    ASSUME NEW P, NEW a \in Seq(P), NEW b \in Seq(P), NEW c \in Seq(P), NEW d \in Seq(P)
    PROVE  a \o (b \o (c \o d)) = (a \o (b \o c)) \o d
<1>1. PICK e \in Seq(P) : e = b \o c
    BY ConcatProperties
<1>2. (b \o c) \o d = b \o (c \o d)
    BY ConcatAssociative, SMTT(30)
<1>3. (a \o e) \o d = a \o (e \o d)
    BY ConcatAssociative, SMTT(30)
<1> QED  BY <1>1, <1>2, <1>3

-----------------------------------------------------------------------------
(***************************************************************************)
(* Texts.                                                                  *)
(***************************************************************************)
\* The letters of a text are some of its places.
LEMMA LettersArePlaces ==
    ASSUME NEW S, NEW t \in Seq(S), Letters(t) # {}
    PROVE  Max(Letters(t)) \in Letters(t) /\ Min(Letters(t)) \in Letters(t)
<1>1. Letters(t) \in SUBSET (1..Len(t)) /\ Len(t) \in Nat
    BY DEF Letters
<1> QED  BY <1>1, ExtremesAreMembers

\* Trimming leaves a text that begins and ends with a letter, or nothing.
LEMMA TrimmedIsText ==
    ASSUME NEW text \in Seq(Characters)
    PROVE  /\ trim(text) \in Seq(Characters)
           /\ trim(text) # <<>> => {1, Len(trim(text))} \subseteq Letters(trim(text))
<1>1. ASSUME NEW t \in Seq(Characters), Letters(t) # {}
      PROVE  /\ Max(Letters(t)) \in 1..Len(t) /\ Min(Letters(t)) \in 1..Len(t)
             /\ ~IsBlank(t[Max(Letters(t))]) /\ ~IsBlank(t[Min(Letters(t))])
  <2>1. Max(Letters(t)) \in Letters(t) /\ Min(Letters(t)) \in Letters(t)
      BY <1>1, LettersArePlaces
  <2> QED  BY <2>1 DEF Letters
<1>2. /\ trim_end(text) \in Seq(Characters)
      /\ trim_end(text) # <<>> =>
            Len(trim_end(text)) \in Nat \ {0} /\ ~IsBlank(trim_end(text)[Len(trim_end(text))])
  <2>1. CASE Letters(text) = {}
      BY <2>1 DEF trim_end
  <2>2. CASE Letters(text) # {}
    <3> DEFINE last == Max(Letters(text))
    <3>1. last \in 1..Len(text) /\ ~IsBlank(text[last]) /\ trim_end(text) = SubSeq(text, 1, last)
        BY <1>1, <2>2 DEF trim_end
    <3> HIDE DEF last
    <3> QED  BY <3>1
  <2> QED  BY <2>1, <2>2
<1> DEFINE r == trim_end(text)
<1>3. trim(text) = trim_start(r)
    BY DEF trim
<1> HIDE DEF r
<1>4. r \in Seq(Characters) /\ (r # <<>> => Len(r) \in Nat \ {0} /\ ~IsBlank(r[Len(r)]))
    BY <1>2 DEF r
<1>5. CASE Letters(r) = {}
    BY <1>3, <1>5 DEF trim_start
<1>6. CASE Letters(r) # {}
  <2> DEFINE first == Min(Letters(r))
             s == SubSeq(r, first, Len(r))
  <2>1. first \in 1..Len(r) /\ ~IsBlank(r[first]) /\ trim(text) = s
      BY <1>1, <1>3, <1>4, <1>6 DEF trim_start
  <2>2. r # <<>>
      BY <1>6 DEF Letters
  <2> HIDE DEF first
  <2>3. /\ s \in Seq(Characters) /\ Len(s) = Len(r) - first + 1 /\ s[1] = r[first]
        /\ s[Len(s)] = r[Len(r)] /\ Len(s) \in Nat \ {0}
      BY <1>4, <2>1, <2>2
  <2> HIDE DEF s
  <2>4. {1, Len(s)} \subseteq Letters(s)
      BY <1>4, <2>1, <2>2, <2>3 DEF Letters
  <2> QED  BY <2>1, <2>3, <2>4
<1> QED  BY <1>5, <1>6

\* Such a text is not trimmed further.
LEMMA NothingToTrim ==
    ASSUME NEW S, NEW t \in Seq(S), t # <<>> => {1, Len(t)} \subseteq Letters(t)
    PROVE  trim(t) = t
<1>1. CASE t = <<>>
  <2>1. Letters(t) = {}
      BY <1>1 DEF Letters
  <2>2. trim_end(t) = <<>> /\ trim_start(t) = <<>>
      BY <2>1 DEF trim_end, trim_start
  <2> QED  BY <1>1, <2>2 DEF trim
<1>2. CASE t # <<>>
  <2>1. /\ Len(t) \in Nat \ {0} /\ Letters(t) \subseteq 1..Len(t)
        /\ 1 \in Letters(t) /\ Len(t) \in Letters(t) /\ Letters(t) # {}
      BY <1>2 DEF Letters
  <2>2. Max(Letters(t)) = Len(t) /\ Min(Letters(t)) = 1
    <3>1. /\ Max(Letters(t)) \in Letters(t) /\ \A x \in Letters(t) : Max(Letters(t)) >= x
          /\ Min(Letters(t)) \in Letters(t) /\ \A x \in Letters(t) : Min(Letters(t)) <= x
      <4>1. \E x \in Letters(t) : \A y \in Letters(t) : x >= y
          BY <2>1
      <4>2. \E x \in Letters(t) : \A y \in Letters(t) : x <= y
          BY <2>1
      <4> QED  BY <4>1, <4>2 DEF Max, Min
    <3> QED  BY <2>1, <3>1
  <2>3. trim_end(t) = t /\ trim_start(t) = t
      BY <2>1, <2>2, SubSeqFull DEF trim_end, trim_start
  <2> QED  BY <2>3 DEF trim
<1> QED  BY <1>1, <1>2

\* Clamping leaves a text that fits into the bubble.
LEMMA ClampedFits ==
    ASSUME NEW text \in Seq(Characters)
    PROVE  clamp_text(text) \in Seq(Characters) /\ Len(clamp_text(text)) <= TEXT_CAPACITY
<1> DEFINE t == trim(text)
           n == Min({TEXT_CAPACITY, Len(t)})
<1>1. t \in Seq(Characters) /\ Len(t) \in Nat
    BY TrimmedIsText
<1>2. n = (IF TEXT_CAPACITY <= Len(t) THEN TEXT_CAPACITY ELSE Len(t))
    BY <1>1, MinOfTwo DEF TEXT_CAPACITY
<1>3. clamp_text(text) = SubSeq(t, 1, n)
    BY DEF clamp_text
<1> HIDE DEF t, n
<1>4. n \in 0..Len(t) /\ n <= TEXT_CAPACITY
    BY <1>1, <1>2 DEF TEXT_CAPACITY
<1>5. SubSeq(t, 1, n) \in Seq(Characters) /\ Len(SubSeq(t, 1, n)) = n
    BY <1>1, <1>4
<1> QED  BY <1>3, <1>4, <1>5

\* A trimmed text that fits is not clamped.
LEMMA NothingToClamp ==
    ASSUME NEW t \in Seq(Characters), t # <<>> => {1, Len(t)} \subseteq Letters(t),
           Len(t) <= TEXT_CAPACITY
    PROVE  clamp_text(t) = t
<1>1. trim(t) = t /\ Len(t) \in Nat
    BY NothingToTrim
<1>2. Min({TEXT_CAPACITY, Len(t)}) = Len(t)
  <2>1. Min({TEXT_CAPACITY, Len(t)}) = (IF TEXT_CAPACITY <= Len(t) THEN TEXT_CAPACITY ELSE Len(t))
      BY <1>1, MinOfTwo DEF TEXT_CAPACITY
  <2> QED  BY <1>1, <2>1 DEF TEXT_CAPACITY
<1> QED  BY <1>1, <1>2, SubSeqFull DEF clamp_text

-----------------------------------------------------------------------------
(***************************************************************************)
(* Frames.                                                                 *)
(***************************************************************************)
\* A sound piece has a size, and if it is a text, a text.
LEMMA SoundText ==
    ASSUME NEW p, SoundPiece(p)
    PROVE  /\ p.key = "text" => p.value \in Seq(Characters)
           /\ Size(p) \in Nat
<1>1. /\ DOMAIN FieldSize = {"v", "kind", "mood", "animation", "alert", "duration_ms", "source",
                             "gesture", "CR", "LF"}
      /\ \A key \in DOMAIN FieldSize : FieldSize[key] \in Nat
    BY DEF FieldSize
<1>2. CASE p.key = "text" /\ p.value \in Seq(Characters)
    BY <1>2 DEF Size
<1>3. CASE p.key \in {"blank", "junk"} /\ p.value \in Nat
    BY <1>3 DEF Size
<1>4. CASE p.key \in DOMAIN FieldSize
    BY <1>1, <1>4 DEF Size
<1> QED  BY <1>2, <1>3, <1>4 DEF SoundPiece

\* A field is there once, if it is there.
LEMMA TheValue ==
    ASSUME NEW S, NEW q \in Seq(S), NEW key, NEW i \in Given(q, key),
           \A j, k \in Given(q, key) : j = k
    PROVE  Value(q, key) = q[i].value
<1>1. Given(q, key) = {i} /\ i \in Int
    BY DEF Given
<1> QED  BY <1>1, MaxOfOne DEF Value

\* A frame of sound pieces is an update, or none.
LEMMA ParsedIsUpdate ==
    ASSUME NEW S, NEW q \in Seq(S), \A p \in S : SoundPiece(p)
    PROVE  parse(q) \in BehaviorUpdates \cup {None}
<1> DEFINE mood == Value(q, "mood")
           animation == Value(q, "animation")
           alert == Value(q, "alert")
           text == Value(q, "text")
           asked == Value(q, "duration_ms")
           shown == IF text = None THEN <<>> ELSE clamp_text(text)
           lasts == Min({Max({asked, MIN_DURATION_MS}), MAX_DURATION_MS})
           sound == /\ IsRawBehaviorUpdate(q)
                    /\ Value(q, "v") = 1 /\ Value(q, "kind") = "behavior"
                    /\ mood_matches_animation(mood, animation)
                    /\ alert = (animation = "alert")
<1>1. parse(q) = IF sound
                 THEN [mood |-> mood, animation |-> animation, text |-> shown, alert |-> alert,
                       duration_ms |-> lasts]
                 ELSE None
    BY DEF parse
<1>2. CASE ~sound
  <2>1. parse(q) = None
      BY <1>1, <1>2, Zenon
  <2> QED  BY <2>1
<1>3. CASE sound
  <2>1. mood \in Moods /\ animation \in Animations /\ alert \in BOOLEAN /\ asked \in Nat
      BY <1>3 DEF IsRawBehaviorUpdate
  <2>2. shown \in Seq(Characters) /\ Len(shown) <= TEXT_CAPACITY
    <3>1. CASE Given(q, "text") = {}
      <4>1. text = None
          BY <3>1 DEF Value
      <4> QED  BY <4>1 DEF TEXT_CAPACITY
    <3>2. CASE Given(q, "text") # {}
      <4>1. PICK i \in Given(q, "text") : TRUE
          BY <3>2
      <4>2. text = q[i].value
          BY <1>3, <4>1, TheValue DEF IsRawBehaviorUpdate
      <4>3. i \in DOMAIN q /\ q[i].key = "text"
          BY <4>1 DEF Given
      <4>4. q[i] \in S
          BY <4>3
      <4>5. text \in Seq(Characters)
          BY <4>2, <4>3, <4>4, SoundText
      <4>6. CASE text = None
          BY <4>6 DEF TEXT_CAPACITY
      <4>7. CASE text # None
          BY <4>5, <4>7, ClampedFits
      <4> QED  BY <4>6, <4>7
    <3> QED  BY <3>1, <3>2
  <2>3. lasts \in MIN_DURATION_MS..MAX_DURATION_MS
    <3> HIDE DEF asked
    <3> DEFINE atleast == Max({asked, MIN_DURATION_MS})
    <3>1. atleast = IF asked >= MIN_DURATION_MS THEN asked ELSE MIN_DURATION_MS
        BY <2>1, MaxOfTwo DEF MIN_DURATION_MS
    <3> HIDE DEF atleast
    <3>2. atleast \in Int /\ atleast >= MIN_DURATION_MS
        BY <2>1, <3>1 DEF MIN_DURATION_MS
    <3>3. Min({atleast, MAX_DURATION_MS}) =
              IF atleast <= MAX_DURATION_MS THEN atleast ELSE MAX_DURATION_MS
        BY <3>2, MinOfTwo DEF MAX_DURATION_MS
    <3>4. lasts = Min({atleast, MAX_DURATION_MS})
        BY DEF atleast
    <3> HIDE DEF lasts
    <3>5. lasts = IF atleast <= MAX_DURATION_MS THEN atleast ELSE MAX_DURATION_MS
        BY <3>3, <3>4
    <3> QED  BY <3>2, <3>5 DEF MIN_DURATION_MS, MAX_DURATION_MS
  <2>4. mood_matches_animation(mood, animation) /\ alert = (animation = "alert")
      BY <1>3
  <2>5. parse(q) = [mood |-> mood, animation |-> animation, text |-> shown, alert |-> alert,
                    duration_ms |-> lasts]
      BY <1>1, <1>3, Zenon
  <2> HIDE DEF mood, animation, alert, text, asked, shown, lasts, sound
  <2> QED  BY <2>1, <2>2, <2>3, <2>4, <2>5 DEF BehaviorUpdates
<1> QED  BY <1>2, <1>3

\* The fields of the object of a behavior.
LEMMA ObjectFields ==
    ASSUME NEW c
    PROVE  /\ Len(Object(c)) = 7 /\ DOMAIN Object(c) = 1..7
           /\ Object(c) \in Seq({Object(c)[i] : i \in 1..7})
           /\ Object(c)[1].key = "v" /\ Object(c)[1].value = 1
           /\ Object(c)[2].key = "kind" /\ Object(c)[2].value = "behavior"
           /\ Object(c)[3].key = "mood" /\ Object(c)[3].value = c.mood
           /\ Object(c)[4].key = "animation" /\ Object(c)[4].value = c.animation
           /\ Object(c)[5].key = "text" /\ Object(c)[5].value = c.text
           /\ Object(c)[6].key = "alert" /\ Object(c)[6].value = c.alert
           /\ Object(c)[7].key = "duration_ms" /\ Object(c)[7].value = c.duration_ms
<1> DEFINE a1 == [key |-> "v", value |-> 1]
           a2 == [key |-> "kind", value |-> "behavior"]
           a3 == [key |-> "mood", value |-> c.mood]
           a4 == [key |-> "animation", value |-> c.animation]
           a5 == [key |-> "text", value |-> c.text]
           a6 == [key |-> "alert", value |-> c.alert]
           a7 == [key |-> "duration_ms", value |-> c.duration_ms]
<1>1. Object(c) = <<a1, a2, a3, a4, a5, a6, a7>>
    BY DEF Object, Piece
<1>2. /\ a1.key = "v" /\ a1.value = 1 /\ a2.key = "kind" /\ a2.value = "behavior"
      /\ a3.key = "mood" /\ a3.value = c.mood /\ a4.key = "animation" /\ a4.value = c.animation
      /\ a5.key = "text" /\ a5.value = c.text /\ a6.key = "alert" /\ a6.value = c.alert
      /\ a7.key = "duration_ms" /\ a7.value = c.duration_ms
    OBVIOUS
<1> HIDE DEF a1, a2, a3, a4, a5, a6, a7
<1>3. /\ Len(Object(c)) = 7 /\ DOMAIN Object(c) = 1..7
      /\ Object(c) \in Seq({Object(c)[i] : i \in 1..7})
    BY <1>1
<1>4. /\ Object(c)[1] = a1 /\ Object(c)[2] = a2 /\ Object(c)[3] = a3 /\ Object(c)[4] = a4
      /\ Object(c)[5] = a5 /\ Object(c)[6] = a6 /\ Object(c)[7] = a7
    BY <1>1
<1> QED  BY <1>2, <1>3, <1>4

\* Each of them is there once.
LEMMA ObjectGives ==
    ASSUME NEW c
    PROVE  LET o == Object(c)
           IN  /\ Given(o, "v") = {1} /\ Given(o, "kind") = {2} /\ Given(o, "mood") = {3}
               /\ Given(o, "animation") = {4} /\ Given(o, "text") = {5}
               /\ Given(o, "alert") = {6} /\ Given(o, "duration_ms") = {7}
<1> DEFINE o == Object(c)
<1>1. /\ DOMAIN o = 1..7 /\ o[1].key = "v" /\ o[2].key = "kind" /\ o[3].key = "mood"
      /\ o[4].key = "animation" /\ o[5].key = "text" /\ o[6].key = "alert"
      /\ o[7].key = "duration_ms"
    BY ObjectFields
<1> HIDE DEF o
<1>2. \A i \in 1..7 : i \in {1, 2, 3, 4, 5, 6, 7}
    OBVIOUS
<1>3. Given(o, "v") = {1} /\ Given(o, "kind") = {2}
    BY <1>1, <1>2 DEF Given
<1>4. Given(o, "mood") = {3} /\ Given(o, "animation") = {4}
    BY <1>1, <1>2 DEF Given
<1>5. Given(o, "text") = {5} /\ Given(o, "alert") = {6} /\ Given(o, "duration_ms") = {7}
    BY <1>1, <1>2 DEF Given
<1> QED  BY <1>3, <1>4, <1>5 DEF o

\* So it says what the behavior is.
LEMMA ObjectSays ==
    ASSUME NEW c
    PROVE  LET o == Object(c)
           IN  /\ Value(o, "v") = 1 /\ Value(o, "kind") = "behavior"
               /\ Value(o, "mood") = c.mood /\ Value(o, "animation") = c.animation
               /\ Value(o, "text") = c.text /\ Value(o, "alert") = c.alert
               /\ Value(o, "duration_ms") = c.duration_ms
<1> DEFINE o == Object(c)
<1>1. \A i \in Int : Max({i}) = i
    BY MaxOfOne
<1>2. ASSUME NEW key, NEW i \in 1..7, Given(o, key) = {i} PROVE Value(o, key) = o[i].value
    BY <1>1, <1>2 DEF Value
<1>3. /\ o[1].value = 1 /\ o[2].value = "behavior" /\ o[3].value = c.mood
      /\ o[4].value = c.animation /\ o[5].value = c.text /\ o[6].value = c.alert
      /\ o[7].value = c.duration_ms
    BY ObjectFields
<1> HIDE DEF o
<1>4. /\ Given(o, "v") = {1} /\ Given(o, "kind") = {2} /\ Given(o, "mood") = {3}
      /\ Given(o, "animation") = {4} /\ Given(o, "text") = {5}
      /\ Given(o, "alert") = {6} /\ Given(o, "duration_ms") = {7}
    BY ObjectGives DEF o
<1>5. Value(o, "v") = 1 /\ Value(o, "kind") = "behavior" /\ Value(o, "mood") = c.mood
    BY <1>2, <1>3, <1>4
<1>6. Value(o, "animation") = c.animation /\ Value(o, "text") = c.text
    BY <1>2, <1>3, <1>4
<1>7. Value(o, "alert") = c.alert /\ Value(o, "duration_ms") = c.duration_ms
    BY <1>2, <1>3, <1>4
<1> QED  BY <1>5, <1>6, <1>7 DEF o

\* What the host takes for a behavior.
Behaviors ==
    {c \in [mood : Moods, animation : Animations, text : Seq(Characters), alert : BOOLEAN,
            duration_ms : MIN_DURATION_MS..MAX_DURATION_MS] :
        /\ mood_matches_animation(c.mood, c.animation)
        /\ c.alert = (c.animation = "alert")
        /\ Len(c.text) <= TEXT_CAPACITY
        /\ c.text # <<>> => {1, Len(c.text)} \subseteq Letters(c.text)}

\* The firmware understands it as it is meant.
LEMMA BehaviorIsUnderstood ==
    ASSUME NEW c \in Behaviors PROVE parse(Object(c)) = c
<1> DEFINE o == Object(c)
<1>1. /\ Value(o, "v") = 1 /\ Value(o, "kind") = "behavior"
      /\ Value(o, "mood") = c.mood /\ Value(o, "animation") = c.animation
      /\ Value(o, "text") = c.text /\ Value(o, "alert") = c.alert
      /\ Value(o, "duration_ms") = c.duration_ms
    BY ObjectSays
<1>2. /\ Given(o, "v") = {1} /\ Given(o, "kind") = {2} /\ Given(o, "mood") = {3}
      /\ Given(o, "animation") = {4} /\ Given(o, "text") = {5}
      /\ Given(o, "alert") = {6} /\ Given(o, "duration_ms") = {7}
    BY ObjectGives
<1>3. /\ DOMAIN o = 1..7 /\ o[1].key = "v" /\ o[2].key = "kind" /\ o[3].key = "mood"
      /\ o[4].key = "animation" /\ o[5].key = "text" /\ o[5].value = c.text
      /\ o[6].key = "alert" /\ o[7].key = "duration_ms"
    BY ObjectFields
<1> HIDE DEF o
<1>4. /\ c.duration_ms \in Nat
      /\ c.duration_ms >= MIN_DURATION_MS /\ c.duration_ms <= MAX_DURATION_MS
  <2>1. c.duration_ms \in MIN_DURATION_MS..MAX_DURATION_MS
      BY DEF Behaviors
  <2>2. \A d \in MIN_DURATION_MS..MAX_DURATION_MS :
            d \in Nat /\ d >= MIN_DURATION_MS /\ d <= MAX_DURATION_MS
      BY DEF MIN_DURATION_MS, MAX_DURATION_MS
  <2> QED  BY <2>1, <2>2, Zenon
<1>5. /\ c.mood \in Moods /\ c.animation \in Animations /\ c.text \in Seq(Characters)
      /\ c.alert \in BOOLEAN /\ c.duration_ms \in MIN_DURATION_MS..MAX_DURATION_MS
      /\ mood_matches_animation(c.mood, c.animation) /\ c.alert = (c.animation = "alert")
      /\ Len(c.text) <= TEXT_CAPACITY
      /\ c.text # <<>> => {1, Len(c.text)} \subseteq Letters(c.text)
      /\ c = [mood |-> c.mood, animation |-> c.animation, text |-> c.text, alert |-> c.alert,
              duration_ms |-> c.duration_ms]
    BY DEF Behaviors
<1>6. IsRawBehaviorUpdate(o)
  <2>1. \A i \in DOMAIN o : o[i].key \in Required \cup {"text", "blank"}
    <3>1. \A i \in 1..7 : i \in {1, 2, 3, 4, 5, 6, 7}
        OBVIOUS
    <3> QED  BY <1>3, <3>1 DEF Required
  <2>2. \A key \in Required \cup {"text"} : \A i, j \in Given(o, key) : i = j
      BY <1>2 DEF Required
  <2>3. \A key \in Required : Given(o, key) # {}
      BY <1>2 DEF Required
  <2>4. \A i \in Given(o, "text") : Len(o[i].value) <= RAW_TEXT_CAPACITY
    <3>1. Len(c.text) <= RAW_TEXT_CAPACITY
        BY <1>5 DEF TEXT_CAPACITY, RAW_TEXT_CAPACITY
    <3> QED  BY <1>2, <1>3, <3>1
  <2> QED  BY <1>1, <1>5, <1>4, <2>1, <2>2, <2>3, <2>4 DEF IsRawBehaviorUpdate
<1>7. clamp_text(c.text) = c.text /\ c.text # None
    BY <1>5, NothingToClamp, NoneAssumption
<1>8. Min({Max({c.duration_ms, MIN_DURATION_MS}), MAX_DURATION_MS}) = c.duration_ms
  <2> DEFINE d == c.duration_ms
  <2>1. d \in Int /\ d >= MIN_DURATION_MS /\ d <= MAX_DURATION_MS
      BY <1>4
  <2> HIDE DEF d
  <2>2. Max({d, MIN_DURATION_MS}) = d
      BY <2>1, MaxOfTwo DEF MIN_DURATION_MS
  <2>3. Min({d, MAX_DURATION_MS}) = d
      BY <2>1, MinOfTwo DEF MAX_DURATION_MS
  <2>4. Min({Max({d, MIN_DURATION_MS}), MAX_DURATION_MS}) = d
      BY <2>2, <2>3
  <2> QED  BY <2>4 DEF d
<1>9. parse(o) = [mood |-> c.mood, animation |-> c.animation, text |-> c.text, alert |-> c.alert,
                  duration_ms |-> c.duration_ms]
    BY <1>1, <1>5, <1>6, <1>7, <1>8, Zenon DEF parse
<1> QED  BY <1>5, <1>9 DEF o

\* Nothing at all is no update.
LEMMA NothingIsNoUpdate == parse(<<>>) = None
<1>1. Given(<<>>, "v") = {}
    BY DEF Given
<1>2. ~IsRawBehaviorUpdate(<<>>)
    BY <1>1 DEF IsRawBehaviorUpdate, Required
<1> QED  BY <1>2, Zenon DEF parse

NoCR(q) == \A i \in 1..Len(q) : q[i].key # "CR"

\* A frame without CRs loses nothing.
LEMMA NothingToDrop ==
    ASSUME NEW P, NEW q \in Seq(P), NoCR(q)
    PROVE  WithoutCR(q) = q
<1>1. PICK g \in [0..Len(q) -> Seq(P)] : Keeps(q, g) /\ WithoutCR(q) = g[Len(q)]
    BY WithoutCRDef
<1>2. PICK h : h = [i \in 0..Len(q) |-> SubSeq(q, 1, i)]
    OBVIOUS
<1>3. Len(q) \in Nat
    OBVIOUS
<1>4. g[0] = h[0]
  <2>1. h[0] = SubSeq(q, 1, 0) /\ SubSeq(q, 1, 0) = <<>>
      BY <1>3, <1>2, SubSeqEmpty
  <2> QED  BY <1>1, <2>1 DEF Keeps
<1>5. ASSUME NEW k \in 0..Len(q) - 1, g[k] = h[k] PROVE g[k + 1] = h[k + 1]
  <2>1. k + 1 \in 1..Len(q) /\ k + 1 - 1 = k /\ k \in 0..Len(q) /\ k + 1 \in 0..Len(q)
      BY <1>3
  <2>2. g[k + 1] = Append(g[k], q[k + 1])
    <3> DEFINE i == k + 1
    <3>1. i \in 1..Len(q) /\ i - 1 = k
        BY <2>1
    <3> HIDE DEF i
    <3>2. g[i] = IF q[i].key = "CR" THEN g[i - 1] ELSE Append(g[i - 1], q[i])
        BY <1>1, <3>1 DEF Keeps
    <3>3. g[i] = Append(g[k], q[i])
        BY <3>1, <3>2 DEF NoCR
    <3> QED  BY <3>3 DEF i
  <2>3. h[k] = SubSeq(q, 1, k) /\ h[k + 1] = SubSeq(q, 1, k + 1)
      BY <1>2, <2>1
  <2>4. SubSeq(q, 1, k + 1) = Append(SubSeq(q, 1, k), q[k + 1])
    <3>1. SubSeq(q, 1, k + 1) = SubSeq(q, 1, k + 1 - 1) \o <<q[k + 1]>>
        BY <1>3, <2>1, SubSeqRecursiveSecond
    <3>2. SubSeq(q, 1, k) \in Seq(P) /\ q[k + 1] \in P
        BY <1>3, <2>1
    <3>3. Append(SubSeq(q, 1, k), q[k + 1]) = SubSeq(q, 1, k) \o <<q[k + 1]>>
        BY <3>2, AppendIsConcat
    <3> QED  BY <2>1, <3>1, <3>3
  <2> QED  BY <1>5, <2>2, <2>3, <2>4
<1>6. \A k \in 0..Len(q) : g[k] = h[k]
    BY <1>3, <1>4, <1>5, SameSteps, Zenon
<1>7. g[Len(q)] = h[Len(q)] /\ h[Len(q)] = SubSeq(q, 1, Len(q))
  <2>1. Len(q) \in 0..Len(q)
      BY <1>3
  <2>2. g[Len(q)] = h[Len(q)]
      BY <1>6, <2>1
  <2> QED  BY <1>2, <2>1, <2>2
<1> QED  BY <1>1, <1>7, SubSeqFull

\* The object of a behavior fits into a frame.
LEMMA ObjectFits ==
    ASSUME NEW c, Len(c.text) \in Nat, Len(c.text) <= TEXT_CAPACITY
    PROVE  TotalSize(Object(c)) <= FRAME_CAPACITY
<1> DEFINE o == Object(c)
<1>1. /\ o[1].key = "v" /\ o[2].key = "kind" /\ o[3].key = "mood" /\ o[4].key = "animation"
      /\ o[5].key = "text" /\ o[5].value = c.text /\ o[6].key = "alert"
      /\ o[7].key = "duration_ms" /\ Len(o) = 7 /\ o \in Seq({o[i] : i \in 1..7})
    BY ObjectFields
<1> HIDE DEF o
<1>2. /\ Size(o[1]) = 7 /\ Size(o[2]) = 18 /\ Size(o[3]) = 17 /\ Size(o[4]) = 26
      /\ Size(o[5]) = 10 + Len(c.text) /\ Size(o[6]) = 14 /\ Size(o[7]) = 20
  <2>1. /\ FieldSize["v"] = 7 /\ FieldSize["kind"] = 18 /\ FieldSize["mood"] = 17
        /\ FieldSize["animation"] = 26 /\ FieldSize["alert"] = 14
        /\ FieldSize["duration_ms"] = 20
      BY DEF FieldSize
  <2>2. ASSUME NEW p, p.key \notin {"text", "blank", "junk"} PROVE Size(p) = FieldSize[p.key]
      BY <2>2 DEF Size
  <2>3. Size(o[5]) = 10 + Len(c.text)
      BY <1>1 DEF Size
  <2>4. Size(o[1]) = 7 /\ Size(o[2]) = 18
      BY <1>1, <2>1, <2>2
  <2>5. Size(o[3]) = 17 /\ Size(o[4]) = 26
      BY <1>1, <2>1, <2>2
  <2>6. Size(o[6]) = 14 /\ Size(o[7]) = 20
      BY <1>1, <2>1, <2>2
  <2> QED  BY <2>3, <2>4, <2>5, <2>6
<1>3. \A p \in {o[i] : i \in 1..7} : Size(p) \in Nat
  <2>1. \A i \in 1..7 : i \in {1, 2, 3, 4, 5, 6, 7}
      OBVIOUS
  <2>2. \A i \in 1..7 : Size(o[i]) \in Nat
      BY <1>2, <2>1
  <2> QED  BY <2>2
<1>4. PICK size : Sizes(o, size) /\ TotalSize(o) = size[7]
    BY <1>1, <1>3, TotalSizeDef
<1>5. ASSUME NEW i \in 0..6 PROVE size[i + 1] = size[i] + Size(o[i + 1])
  <2> DEFINE j == i + 1
  <2>1. j \in 1..7 /\ j - 1 = i
      OBVIOUS
  <2> HIDE DEF j
  <2>2. size[j] = size[j - 1] + Size(o[j])
      BY <1>4, <1>1, <2>1 DEF Sizes
  <2>3. size[j] = size[i] + Size(o[j])
      BY <2>1, <2>2
  <2> QED  BY <2>3 DEF j
<1>6. /\ size[0] = 0 /\ size[0 + 1] = size[0] + 7 /\ size[1 + 1] = size[1] + 18
      /\ size[2 + 1] = size[2] + 17 /\ size[3 + 1] = size[3] + 26
      /\ size[4 + 1] = size[4] + (10 + Len(c.text)) /\ size[5 + 1] = size[5] + 14
      /\ size[6 + 1] = size[6] + 20
  <2>1. size[0] = 0
      BY <1>4 DEF Sizes
  <2>2. /\ o[0 + 1] = o[1] /\ o[1 + 1] = o[2] /\ o[2 + 1] = o[3] /\ o[3 + 1] = o[4]
        /\ o[4 + 1] = o[5] /\ o[5 + 1] = o[6] /\ o[6 + 1] = o[7]
      OBVIOUS
  <2>3. /\ size[0 + 1] = size[0] + Size(o[0 + 1]) /\ size[1 + 1] = size[1] + Size(o[1 + 1])
        /\ size[2 + 1] = size[2] + Size(o[2 + 1]) /\ size[3 + 1] = size[3] + Size(o[3 + 1])
      BY <1>5
  <2>4. /\ size[4 + 1] = size[4] + Size(o[4 + 1]) /\ size[5 + 1] = size[5] + Size(o[5 + 1])
        /\ size[6 + 1] = size[6] + Size(o[6 + 1])
      BY <1>5
  <2> QED  BY <1>2, <2>1, <2>2, <2>3, <2>4
<1>7. size[7] = 112 + Len(c.text)
  <2>1. size[0 + 1] = size[1] /\ size[1 + 1] = size[2] /\ size[2 + 1] = size[3]
      OBVIOUS
  <2>2. size[3 + 1] = size[4] /\ size[4 + 1] = size[5] /\ size[5 + 1] = size[6]
      OBVIOUS
  <2>3. size[6 + 1] = size[7]
      OBVIOUS
  <2>4. size[4] = 68
      BY <1>6, <2>1, <2>2
  <2>5. size[5] = 78 + Len(c.text)
      BY <1>6, <2>2, <2>4
  <2>6. size[6] = 92 + Len(c.text)
      BY <1>6, <2>2, <2>5
  <2> QED  BY <1>6, <2>3, <2>6
<1>8. TotalSize(o) <= FRAME_CAPACITY
    BY <1>4, <1>7 DEF TEXT_CAPACITY, FRAME_CAPACITY
<1> QED  BY <1>8 DEF o

-----------------------------------------------------------------------------
(***************************************************************************)
(* What is sent to the device.                                             *)
(***************************************************************************)
\* The host sends nothing but behaviors: what it validates is what the firmware
\* asks for.
LEMMA CommandsAreBehaviors == Commands \subseteq Behaviors
<1> SUFFICES ASSUME NEW c \in Commands PROVE c \in Behaviors
    OBVIOUS
<1>1. PICK raw \in Outputs : Valid(raw) /\ c = Command(raw)
    BY DEF Commands
<1>2. /\ c = [mood |-> ANIMATION_TO_MOOD[raw.animation], animation |-> raw.animation,
              text |-> StrippedText(raw), alert |-> raw.alert, duration_ms |-> raw.duration_ms]
      /\ raw.animation \in DOMAIN ANIMATION_TO_MOOD
      /\ raw.alert \in BOOLEAN /\ raw.alert = (raw.animation = "alert")
      /\ raw.duration_ms \in MIN_DURATION_MS..MAX_DURATION_MS
      /\ Len(StrippedText(raw)) <= TEXT_CAPACITY
  <2>1. /\ Get(raw, "animation") \in DOMAIN ANIMATION_TO_MOOD /\ Get(raw, "alert") \in BOOLEAN
        /\ Get(raw, "duration_ms") \in MIN_DURATION_MS..MAX_DURATION_MS
        /\ raw.alert = (raw.animation = "alert")
        /\ Len(StrippedText(raw)) <= TEXT_CAPACITY
      BY <1>1 DEF Valid
  <2>2. None \notin DOMAIN ANIMATION_TO_MOOD /\ None \notin BOOLEAN
      BY NoneAssumption
  <2>3. None \notin MIN_DURATION_MS..MAX_DURATION_MS
    <3>1. \A d \in MIN_DURATION_MS..MAX_DURATION_MS : d \in Nat
        BY DEF MIN_DURATION_MS, MAX_DURATION_MS
    <3> QED  BY <3>1, NoneAssumption, Zenon
  <2>4. \A field : Get(raw, field) # None => Get(raw, field) = raw[field]
      BY DEF Get
  <2>5. /\ Get(raw, "animation") = raw.animation /\ Get(raw, "alert") = raw.alert
        /\ Get(raw, "duration_ms") = raw.duration_ms
      BY <2>1, <2>2, <2>3, <2>4
  <2>6. c = [mood |-> ANIMATION_TO_MOOD[raw.animation], animation |-> raw.animation,
             text |-> StrippedText(raw), alert |-> raw.alert, duration_ms |-> raw.duration_ms]
      BY <1>1 DEF Command
  <2> QED  BY <2>1, <2>5, <2>6
<1>3. /\ StrippedText(raw) \in Seq(Characters)
      /\ StrippedText(raw) # <<>> =>
            {1, Len(StrippedText(raw))} \subseteq Letters(StrippedText(raw))
  <2>1. CASE Get(raw, "text") = None
      BY <2>1 DEF StrippedText
  <2>2. CASE Get(raw, "text") # None
    <3>1. "text" \in DOMAIN raw /\ raw.text = Get(raw, "text")
        BY <2>2 DEF Get
    <3>2. raw.text \notin {None, Ill}
        BY <1>1, <2>2, <3>1 DEF Valid
    <3>3. raw.text \in Seq(Characters)
        BY <3>1, <3>2, OutputsAssumption
    <3> QED  BY <2>2, <3>3, TrimmedIsText DEF StrippedText
  <2> QED  BY <2>1, <2>2
<1>4. /\ DOMAIN ANIMATION_TO_MOOD = Animations
      /\ \A a \in Animations : /\ ANIMATION_TO_MOOD[a] \in Moods
                               /\ mood_matches_animation(ANIMATION_TO_MOOD[a], a)
    BY DEF ANIMATION_TO_MOOD, Animations, Moods, mood_matches_animation
<1> QED  BY <1>2, <1>3, <1>4 DEF Behaviors

\* Sound pieces without a line feed and one behind them are a line.
LEMMA LineOf ==
    ASSUME NEW P, NEW o \in Seq(P), \A i \in 1..Len(o) : SoundPiece(o[i]) /\ o[i].key # "LF",
           NEW meant
    PROVE  LET line == Append(o, LineFeed(meant))
           IN  /\ IsLine(line) /\ Len(line) = Len(o) + 1 /\ line[Len(line)].value = meant
               /\ SubSeq(line, 1, Len(line) - 1) = o
<1> DEFINE end == LineFeed(meant)
           line == Append(o, end)
           S == P \cup {end}
<1>1. end.key = "LF" /\ end.value = meant /\ SoundPiece(end) /\ end \in S
    BY DEF LineFeed, Piece, SoundPiece, FieldSize
<1>2. o \in Seq(S) /\ Len(o) \in Nat
    BY SeqMonotonic
<1> HIDE DEF end, S
<1>3. /\ line \in Seq(S) /\ Len(line) = Len(o) + 1 /\ line[Len(o) + 1] = end
      /\ \A i \in 1..Len(o) : line[i] = o[i]
    BY <1>1, <1>2, AppendProperties
<1>4. SubSeq(line, 1, Len(o)) = o
    BY <1>1, <1>2, FrontOf
<1> HIDE DEF line
<1>5. IsLine(line)
  <2>1. line = [i \in 1..Len(line) |-> line[i]] /\ DOMAIN line = 1..Len(o) + 1
      BY <1>2, <1>3
  <2>2. \A i \in 1..Len(o) + 1 : i \in 1..Len(o) \/ i = Len(o) + 1
      BY <1>2
  <2>3. \A i \in 1..Len(line) : SoundPiece(line[i])
      BY <1>1, <1>2, <1>3, <2>2
  <2>4. Lines(line) = {Len(o) + 1}
      BY <1>1, <1>2, <1>3, <2>1, <2>2 DEF Lines
  <2> QED  BY <1>2, <1>3, <2>1, <2>3, <2>4 DEF IsLine
<1>6. Len(line) - 1 = Len(o) /\ line[Len(line)] = end
    BY <1>2, <1>3
<1> QED  BY <1>1, <1>3, <1>4, <1>5, <1>6 DEF line, end

\* A line ends with what it means.
IsMeant(line) == line[Len(line)].value = Meaning(SubSeq(line, 1, Len(line) - 1))

LinesSent == {to_json_line(c) : c \in Commands} \cup Foreign \cup {<<LineFeed(None)>>}

\* So do all that are sent.
LEMMA SentLinesAreMeant ==
    ASSUME NEW line \in LinesSent PROVE IsLine(line) /\ IsMeant(line)
<1>1. ASSUME NEW c \in Commands PROVE IsLine(to_json_line(c)) /\ IsMeant(to_json_line(c))
  <2> DEFINE o == Object(c)
             P == {o[i] : i \in 1..7}
  <2>1. c \in Behaviors
      BY CommandsAreBehaviors
  <2>2. /\ Len(o) = 7 /\ o \in Seq(P)
        /\ \A i \in 1..7 : o[i].key # "LF" /\ o[i].key # "CR" /\ SoundPiece(o[i])
    <3>1. Len(o) = 7 /\ o \in Seq(P)
        BY ObjectFields
    <3>2. \A i \in 1..7 : i \in {1, 2, 3, 4, 5, 6, 7}
        OBVIOUS
    <3>3. /\ {"v", "kind", "mood", "animation", "alert", "duration_ms"} \subseteq DOMAIN FieldSize
          /\ c.text \in Seq(Characters)
        BY <2>1 DEF FieldSize, Behaviors
    <3>4. /\ o[1].key = "v" /\ o[2].key = "kind" /\ o[3].key = "mood" /\ o[4].key = "animation"
          /\ o[5].key = "text" /\ o[5].value = c.text /\ o[6].key = "alert"
          /\ o[7].key = "duration_ms"
        BY ObjectFields
    <3> HIDE DEF o
    <3>5. \A i \in 1..7 : o[i].key # "LF" /\ o[i].key # "CR" /\ SoundPiece(o[i])
        BY <3>2, <3>3, <3>4 DEF SoundPiece
    <3> QED  BY <3>1, <3>5
  <2>3. Meaning(o) = c
    <3>1. WithoutCR(o) = o
        BY <2>2, NothingToDrop DEF NoCR
    <3>2. TotalSize(o) <= FRAME_CAPACITY
      <4>1. Len(c.text) \in Nat /\ Len(c.text) <= TEXT_CAPACITY
          BY <2>1 DEF Behaviors
      <4> QED  BY <4>1, ObjectFits DEF o
    <3>3. parse(o) = c
        BY <2>1, BehaviorIsUnderstood DEF o
    <3> QED  BY <3>1, <3>2, <3>3 DEF Meaning
  <2> HIDE DEF o, P
  <2>4. LET line8 == Append(o, LineFeed(c))
        IN  /\ IsLine(line8) /\ line8[Len(line8)].value = c
            /\ SubSeq(line8, 1, Len(line8) - 1) = o
      BY <2>2, LineOf
  <2> QED  BY <2>3, <2>4 DEF IsMeant, to_json_line, o
<1>2. CASE line \in Foreign
    BY <1>2, ForeignAssumption DEF IsMeant
<1>3. CASE line = <<LineFeed(None)>>
  <2> DEFINE end == LineFeed(None)
  <2>1. end.key = "LF" /\ end.value = None /\ SoundPiece(end)
      BY DEF LineFeed, Piece, SoundPiece, FieldSize
  <2> HIDE DEF end
  <2>2. /\ Len(line) = 1 /\ line = [i \in 1..Len(line) |-> line[i]] /\ line[1] = end
        /\ DOMAIN line = 1..1 /\ line = <<end>>
      BY <1>3 DEF end
  <2>3. IsLine(line)
      BY <2>1, <2>2 DEF IsLine, Lines
  <2>4. Meaning(<<>>) = None
    <3>1. TotalSize(<<>>) <= FRAME_CAPACITY
        BY SizeOfFew DEF FRAME_CAPACITY
    <3> QED  BY <3>1, KeptOfNothing, NothingIsNoUpdate DEF Meaning
  <2>5. SubSeq(line, 1, Len(line) - 1) = <<>>
      BY <2>2, SubSeqEmpty
  <2> QED  BY <2>1, <2>2, <2>3, <2>4, <2>5 DEF IsMeant
<1> QED  BY <1>1, <1>2, <1>3 DEF LinesSent

\* The pieces of some lines.
PiecesOf(lines) == UNION {{line[i] : i \in 1..Len(line)} : line \in lines}

\* They are sound, and each of the lines is a sequence of them.
LEMMA LinesOfPieces ==
    ASSUME NEW lines, \A line \in lines : IsLine(line)
    PROVE  /\ \A p \in PiecesOf(lines) : SoundPiece(p)
           /\ \A line \in lines : /\ line \in Seq(PiecesOf(lines)) /\ line # <<>>
                                  /\ Lines(line) = {Len(line)}
<1>1. \A p \in PiecesOf(lines) : SoundPiece(p)
    BY DEF PiecesOf, IsLine
<1>2. ASSUME NEW line \in lines
      PROVE  /\ line \in Seq(PiecesOf(lines)) /\ line # <<>> /\ Lines(line) = {Len(line)}
  <2>1. /\ Len(line) \in Nat \ {0} /\ line = [i \in 1..Len(line) |-> line[i]]
        /\ Lines(line) = {Len(line)}
      BY DEF IsLine
  <2>2. \A i \in 1..Len(line) : line[i] \in PiecesOf(lines)
      BY DEF PiecesOf
  <2>3. line \in [1..Len(line) -> PiecesOf(lines)]
      BY <2>1, <2>2
  <2>4. line \in Seq(PiecesOf(lines))
      BY <2>1, <2>3, SeqDef
  <2>5. line # <<>>
      BY <2>1
  <2> QED  BY <2>1, <2>4, <2>5
<1> QED  BY <1>1, <1>2

-----------------------------------------------------------------------------
(***************************************************************************)
(* The downlink.                                                           *)
(***************************************************************************)
SentPieces == PiecesOf(LinesSent)

LEMMA SentPiecesAreSound ==
    /\ \A p \in SentPieces : SoundPiece(p) /\ Size(p) \in Nat
    /\ \A line \in LinesSent :
          line \in Seq(SentPieces) /\ line # <<>> /\ Lines(line) = {Len(line)}
<1>1. \A line \in LinesSent : IsLine(line)
    BY SentLinesAreMeant
<1> HIDE DEF LinesSent
<1> QED  BY <1>1, LinesOfPieces, SoundText DEF SentPieces

\* What has been taken of a line is gathered in the frame, without its CRs, if
\* that is not too much.
Gathered(q) ==
    IF dropping_line
    THEN TotalSize(WithoutCR(q)) > FRAME_CAPACITY /\ frame_len = FRAME_CAPACITY
    ELSE /\ frame = WithoutCR(q) /\ frame_len = TotalSize(frame)
         /\ frame_len <= FRAME_CAPACITY

\* What has been taken of a line, with what has been read and what is on its way
\* behind it, is made of lines that were sent.
DownStream ==
    \E q \in Seq(SentPieces) :
        /\ Lines(q) = {} /\ Gathered(q)
        /\ MadeOf(q \o (read_buf \o down), LinesSent)

DownInv ==
    /\ down \in Seq(SentPieces) /\ read_buf \in Seq(SentPieces)
    /\ dropping_line \in BOOLEAN
    /\ DownStream /\ SentIsShown /\ OnlyUpdatesAreQueued

\* Sizes of pieces sent are numbers, and each piece adds its own.
LEMMA SizeOfOneMore ==
    ASSUME NEW q \in Seq(SentPieces), NEW p \in SentPieces
    PROVE  /\ TotalSize(q) \in Nat /\ Size(p) \in Nat
           /\ TotalSize(Append(q, p)) = TotalSize(q) + Size(p)
<1>1. \A x \in SentPieces : Size(x) \in Nat
    BY SentPiecesAreSound
<1>2. <<p>> \in Seq(SentPieces) /\ Append(q, p) = q \o <<p>>
    BY AppendIsConcat
<1>3. TotalSize(q) \in Nat /\ TotalSize(q \o <<p>>) = TotalSize(q) + TotalSize(<<p>>)
    BY <1>1, <1>2, SizeOfConcat
<1> QED  BY <1>1, <1>2, <1>3, SizeOfFew

\* A line goes behind what is on its way.
LEMMA SendKeeps == ASSUME DownInv, NEW line \in LinesSent, Send(line) PROVE DownInv'
<1>1. /\ down' = down \o line /\ accepted' = None /\ due' = None
      /\ UNCHANGED <<read_buf, frame, frame_len, dropping_line>>
    BY DEF Send, Nothing
<1>2. /\ line \in Seq(SentPieces) /\ line # <<>> /\ Lines(line) = {Len(line)}
      /\ down \in Seq(SentPieces) /\ read_buf \in Seq(SentPieces)
    BY SentPiecesAreSound DEF DownInv
<1>3. PICK q \in Seq(SentPieces) :
          Lines(q) = {} /\ Gathered(q) /\ MadeOf(q \o (read_buf \o down), LinesSent)
    BY DEF DownInv, DownStream
<1>4. q \o (read_buf \o (down \o line)) = (q \o (read_buf \o down)) \o line
    BY <1>2, <1>3, LastOfFour, SMTT(30)
<1>5. MadeOf(q \o (read_buf \o (down \o line)), LinesSent)
  <2>1. q \o (read_buf \o down) \in Seq(SentPieces)
      BY <1>2, ConcatProperties
  <2> QED  BY <1>2, <1>3, <1>4, <2>1, LineAdded
<1>6. DownStream'
  <2>1. Gathered(q)'
      BY <1>1, <1>3 DEF Gathered
  <2> QED  BY <1>1, <1>3, <1>5, <2>1 DEF DownStream
<1>7. down' \in Seq(SentPieces)
    BY <1>1, <1>2, ConcatProperties
<1> QED  BY <1>1, <1>2, <1>6, <1>7 DEF DownInv, SentIsShown, OnlyUpdatesAreQueued

\* A read moves the first pieces.
LEMMA ReadKeeps == ASSUME DownInv, NEW n \in DOMAIN down, Read(n) PROVE DownInv'
<1>1. /\ read_buf = <<>>
      /\ read_buf' = SubSeq(down, 1, n) /\ down' = SubSeq(down, n + 1, Len(down))
      /\ accepted' = None /\ due' = None /\ UNCHANGED <<frame, frame_len, dropping_line>>
    BY DEF Read, Nothing, From
<1>2. down \in Seq(SentPieces) /\ Len(down) \in Nat /\ n \in 1..Len(down)
    BY DEF DownInv
<1>3. read_buf' \in Seq(SentPieces) /\ down' \in Seq(SentPieces)
  <2>1. /\ \A i \in 1..n : down[i] \in SentPieces
        /\ \A i \in n + 1..Len(down) : down[i] \in SentPieces
      BY <1>2
  <2> QED  BY <1>1, <1>2, <2>1, SubSeqProperties
<1>4. read_buf' \o down' = read_buf \o down
  <2>1. SubSeq(down, 1, n) \o SubSeq(down, n + 1, Len(down)) = SubSeq(down, 1, Len(down))
    <3>1. 1 \in 1..Len(down) + 1 /\ n \in 1 - 1..Len(down) /\ Len(down) \in n..Len(down)
        BY <1>2
    <3> QED  BY <1>2, <3>1, ConcatAdjacentSubSeq
  <2> QED  BY <1>1, <1>2, <2>1, SubSeqFull, ConcatEmptySeq
<1>5. DownStream'
  <2>1. PICK q \in Seq(SentPieces) :
            Lines(q) = {} /\ Gathered(q) /\ MadeOf(q \o (read_buf \o down), LinesSent)
      BY DEF DownInv, DownStream
  <2>2. Gathered(q)'
      BY <1>1, <2>1 DEF Gathered
  <2> QED  BY <1>4, <2>1, <2>2 DEF DownStream
<1> QED  BY <1>1, <1>3, <1>5 DEF DownInv, SentIsShown, OnlyUpdatesAreQueued

\* What is ahead of the first line feed is a line sent without its end.
LEMMA TakenSoFar ==
    ASSUME DownInv, TakePiece
    PROVE  /\ Head(read_buf) \in SentPieces /\ Tail(read_buf) \in Seq(SentPieces)
           /\ read_buf \o down = <<Head(read_buf)>> \o (Tail(read_buf) \o down)
           /\ read_buf' = Tail(read_buf) /\ down' = down /\ down \in Seq(SentPieces)
<1>1. read_buf \in Seq(SentPieces) /\ read_buf # <<>> /\ down \in Seq(SentPieces)
    BY DEF DownInv, TakePiece
<1>2. Head(read_buf) \in SentPieces /\ Tail(read_buf) \in Seq(SentPieces)
    BY <1>1, HeadTailProperties
<1>3. read_buf = <<Head(read_buf)>> \o Tail(read_buf)
  <2>1. Len(read_buf) \in Nat \ {0} /\ 1 \in 1..Len(read_buf) /\ Len(read_buf) \in 1..Len(read_buf)
      BY <1>1
  <2>2. SubSeq(read_buf, 1, Len(read_buf))
            = <<read_buf[1]>> \o SubSeq(read_buf, 1 + 1, Len(read_buf))
      BY <1>1, <2>1, SubSeqRecursiveFirst
  <2> QED  BY <1>1, <2>2, SubSeqFull, TailIsSubSeq
<1>4. <<Head(read_buf)>> \in Seq(SentPieces)
    BY <1>2
<1>5. read_buf \o down = <<Head(read_buf)>> \o (Tail(read_buf) \o down)
    BY <1>1, <1>2, <1>3, <1>4, ConcatAssociative
<1> QED  BY <1>1, <1>2, <1>5 DEF TakePiece, down_vars

\* The end of a line: what is gathered is what the line means, and nothing of it
\* stays.
LEMMA EndOfLineKeeps == ASSUME DownInv, TakePiece, EndOfLine PROVE DownInv'
<1> DEFINE p == Head(read_buf)
           rest == Tail(read_buf) \o down
<1>1. /\ p.key = "LF" /\ accepted' = IF dropping_line THEN None ELSE parse(frame)
      /\ due' = p.value /\ frame' = <<>> /\ frame_len' = 0 /\ dropping_line' = FALSE
    BY DEF EndOfLine
<1>2. /\ p \in SentPieces /\ Tail(read_buf) \in Seq(SentPieces) /\ down \in Seq(SentPieces)
      /\ read_buf \o down = <<p>> \o rest
      /\ read_buf' = Tail(read_buf) /\ down' = down
    BY TakenSoFar
<1>3. rest \in Seq(SentPieces)
    BY <1>2, ConcatProperties
<1> HIDE DEF p, rest
<1>4. PICK q \in Seq(SentPieces) :
          Lines(q) = {} /\ Gathered(q) /\ MadeOf(q \o (read_buf \o down), LinesSent)
    BY DEF DownInv, DownStream
<1> DEFINE line == Append(q, p)
<1>5. /\ <<p>> \in Seq(SentPieces) /\ <<p>> # <<>> /\ Lines(<<p>>) = {Len(<<p>>)}
      /\ line = q \o <<p>> /\ q \in Seq(SentPieces)
  <2>1. Lines(<<p>>) = {1}
      BY <1>1 DEF Lines
  <2>2. <<p>> \in Seq(SentPieces) /\ Len(<<p>>) = 1 /\ <<p>> # <<>>
      BY <1>2
  <2>3. q \in Seq(SentPieces) /\ p \in SentPieces
      BY <1>2, <1>4
  <2>4. line = q \o <<p>>
      BY <2>3, AppendIsConcat
  <2> HIDE DEF line
  <2> QED  BY <2>1, <2>2, <2>3, <2>4
<1>6. q \o (read_buf \o down) = (q \o <<p>>) \o rest
  <2>1. q \o (<<p>> \o rest) = (q \o <<p>>) \o rest
      BY <1>3, <1>5, ConcatAssociative
  <2> QED  BY <1>2, <2>1
<1>7. line \in LinesSent /\ MadeOf(rest, LinesSent)
  <2> HIDE DEF line
  <2> QED  BY <1>3, <1>4, <1>5, <1>6, FirstOf
<1>8. /\ Len(line) = Len(q) + 1 /\ line[Len(line)] = p
       /\ SubSeq(line, 1, Len(line) - 1) = q
  <2>1. Len(line) = Len(q) + 1 /\ line[Len(q) + 1] = p /\ Len(q) \in Nat
      BY <1>2, <1>5, AppendProperties
  <2>2. SubSeq(line, 1, Len(q)) = q
      BY <1>2, <1>5, FrontOf
  <2> HIDE DEF line
  <2> QED  BY <2>1, <2>2
<1>9. p.value = Meaning(q)
    BY <1>7, <1>8, SentLinesAreMeant DEF IsMeant
<1>10. accepted' = Meaning(q)
  <2>1. CASE dropping_line
    <3>1. WithoutCR(q) \in Seq(SentPieces)
        BY <1>2, KeptOfOneMore
    <3>2. TotalSize(WithoutCR(q)) \in Nat
        BY <1>2, <3>1, SizeOfOneMore
    <3>3. ~(TotalSize(WithoutCR(q)) <= FRAME_CAPACITY)
        BY <1>4, <2>1, <3>2 DEF Gathered, FRAME_CAPACITY
    <3> QED  BY <1>1, <2>1, <3>3 DEF Meaning
  <2>2. CASE ~dropping_line
      BY <1>1, <1>4, <2>2 DEF Gathered, Meaning
  <2> QED  BY <2>1, <2>2
<1>11. OnlyUpdatesAreQueued'
  <2>1. WithoutCR(q) \in Seq(SentPieces)
      BY <1>2, KeptOfOneMore
  <2>2. parse(WithoutCR(q)) \in BehaviorUpdates \cup {None}
      BY <2>1, SentPiecesAreSound, ParsedIsUpdate
  <2>3. accepted' \in BehaviorUpdates \cup {None}
      BY <1>10, <2>2 DEF Meaning
  <2> QED  BY <2>3 DEF OnlyUpdatesAreQueued, BehaviorUpdates
<1>12. DownStream'
  <2>1. <<>> \in Seq(SentPieces) /\ Lines(<<>>) = {}
      BY DEF Lines
  <2>2. Gathered(<<>>)'
    <3>1. WithoutCR(<<>>) = <<>> /\ TotalSize(<<>>) = 0
        BY KeptOfNothing, SizeOfFew
    <3> QED  BY <1>1, <3>1 DEF Gathered, FRAME_CAPACITY
  <2>3. read_buf' \o down' = rest /\ <<>> \o rest = rest
      BY <1>2, <1>3, ConcatEmptySeq DEF rest
  <2> QED  BY <1>7, <2>1, <2>2, <2>3 DEF DownStream
<1> QED  BY <1>1, <1>2, <1>9, <1>10, <1>11, <1>12 DEF DownInv, SentIsShown

\* A piece is gathered, ignored, or too much.
LEMMA AccumulateKeeps == ASSUME DownInv, TakePiece, Accumulate(Head(read_buf)) PROVE DownInv'
<1> DEFINE p == Head(read_buf)
           rest == Tail(read_buf) \o down
<1>1. /\ p \in SentPieces /\ Tail(read_buf) \in Seq(SentPieces) /\ down \in Seq(SentPieces)
      /\ read_buf \o down = <<p>> \o rest
      /\ read_buf' = Tail(read_buf) /\ down' = down
    BY TakenSoFar
<1>2. rest \in Seq(SentPieces)
    BY <1>1, ConcatProperties
<1>3. /\ p.key # "LF" /\ accepted' = None /\ due' = None
      /\ IF p.key = "CR" \/ dropping_line
         THEN UNCHANGED <<frame, frame_len, dropping_line>>
         ELSE IF frame_len + Size(p) <= FRAME_CAPACITY
         THEN /\ frame' = Append(frame, p) /\ frame_len' = frame_len + Size(p)
              /\ UNCHANGED dropping_line
         ELSE dropping_line' = TRUE /\ frame_len' = FRAME_CAPACITY /\ UNCHANGED frame
    BY DEF Accumulate, Nothing
<1> HIDE DEF p, rest
<1>4. PICK q \in Seq(SentPieces) :
          Lines(q) = {} /\ Gathered(q) /\ MadeOf(q \o (read_buf \o down), LinesSent)
    BY DEF DownInv, DownStream
<1>5. PICK r \in Seq(SentPieces) : r = Append(q, p) /\ Lines(r) = {}
  <2> DEFINE r == Append(q, p)
  <2>1. /\ r \in Seq(SentPieces) /\ Len(r) = Len(q) + 1 /\ r[Len(q) + 1] = p
        /\ Len(q) \in Nat /\ \A i \in 1..Len(q) : r[i] = q[i]
      BY <1>1, AppendProperties
  <2> HIDE DEF r
  <2>2. ASSUME NEW i \in Lines(r) PROVE FALSE
    <3>1. i \in 1..Len(r) /\ r[i].key = "LF"
        BY <2>1 DEF Lines
    <3>2. CASE i = Len(q) + 1
        BY <1>3, <2>1, <3>1, <3>2
    <3>3. CASE i # Len(q) + 1
      <4>1. i \in 1..Len(q)
          BY <2>1, <3>1, <3>3
      <4>2. q[i].key = "LF"
          BY <2>1, <3>1, <4>1
      <4> QED  BY <1>4, <4>1, <4>2 DEF Lines
    <3> QED  BY <3>2, <3>3
  <2> QED  BY <2>1, <2>2 DEF r
<1>6. q \o (read_buf \o down) = r \o (read_buf' \o down')
  <2>1. <<p>> \in Seq(SentPieces) /\ r = q \o <<p>>
      BY <1>1, <1>4, <1>5, AppendIsConcat
  <2>2. q \o (<<p>> \o rest) = (q \o <<p>>) \o rest
      BY <1>2, <1>4, <2>1, ConcatAssociative
  <2> QED  BY <1>1, <2>1, <2>2 DEF rest
<1>7. /\ WithoutCR(q) \in Seq(SentPieces)
      /\ WithoutCR(r) = IF p.key = "CR" THEN WithoutCR(q) ELSE Append(WithoutCR(q), p)
    BY <1>1, <1>4, <1>5, KeptOfOneMore
<1>8. /\ TotalSize(WithoutCR(q)) \in Nat /\ Size(p) \in Nat
      /\ TotalSize(Append(WithoutCR(q), p)) = TotalSize(WithoutCR(q)) + Size(p)
    BY <1>1, <1>7, SizeOfOneMore
<1>9. Gathered(r)' /\ dropping_line' \in BOOLEAN
  <2>1. /\ dropping_line \in BOOLEAN
        /\ dropping_line => TotalSize(WithoutCR(q)) > FRAME_CAPACITY /\ frame_len = FRAME_CAPACITY
        /\ ~dropping_line => /\ frame = WithoutCR(q) /\ frame_len = TotalSize(WithoutCR(q))
                            /\ frame_len <= FRAME_CAPACITY
      BY <1>4 DEF Gathered, DownInv
  <2>2. SUFFICES /\ dropping_line' \in BOOLEAN
                 /\ dropping_line' => /\ TotalSize(WithoutCR(r)) > FRAME_CAPACITY
                                     /\ frame_len' = FRAME_CAPACITY
                 /\ ~dropping_line' => /\ frame' = WithoutCR(r)
                                      /\ frame_len' = TotalSize(WithoutCR(r))
                                      /\ frame_len' <= FRAME_CAPACITY
      BY DEF Gathered
  <2>3. CASE p.key = "CR"
      BY <1>3, <1>7, <2>1, <2>3
  <2>4. CASE p.key # "CR" /\ dropping_line
    <3>1. TotalSize(WithoutCR(r)) > FRAME_CAPACITY
        BY <1>7, <1>8, <2>1, <2>4 DEF FRAME_CAPACITY
    <3> QED  BY <1>3, <2>1, <2>4, <3>1
  <2>5. CASE p.key # "CR" /\ ~dropping_line /\ frame_len + Size(p) <= FRAME_CAPACITY
      BY <1>3, <1>7, <1>8, <2>1, <2>5
  <2>6. CASE p.key # "CR" /\ ~dropping_line /\ ~(frame_len + Size(p) <= FRAME_CAPACITY)
    <3>1. TotalSize(WithoutCR(r)) > FRAME_CAPACITY
        BY <1>7, <1>8, <2>1, <2>6 DEF FRAME_CAPACITY
    <3> QED  BY <1>3, <2>6, <3>1
  <2> QED  BY <2>3, <2>4, <2>5, <2>6
<1>10. DownStream'
  <2>1. MadeOf(r \o (read_buf' \o down'), LinesSent)
      BY <1>4, <1>6
  <2> QED  BY <1>5, <1>9, <2>1 DEF DownStream
<1> QED  BY <1>1, <1>3, <1>9, <1>10 DEF DownInv, SentIsShown, OnlyUpdatesAreQueued

\* What happens on the uplink leaves the downlink alone.
LEMMA UplinkAside ==
    ASSUME DownInv, UNCHANGED down_vars,
           (accepted' = None /\ due' = None) \/ UNCHANGED <<accepted, due>>
    PROVE  DownInv'
<1>1. /\ down' = down /\ read_buf' = read_buf /\ frame' = frame /\ frame_len' = frame_len
      /\ dropping_line' = dropping_line
    BY DEF down_vars
<1>2. DownStream'
  <2>1. PICK q \in Seq(SentPieces) :
            Lines(q) = {} /\ Gathered(q) /\ MadeOf(q \o (read_buf \o down), LinesSent)
      BY DEF DownInv, DownStream
  <2>2. Gathered(q)'
      BY <1>1, <2>1 DEF Gathered
  <2> QED  BY <1>1, <2>1, <2>2 DEF DownStream
<1> QED  BY <1>1, <1>2 DEF DownInv, SentIsShown, OnlyUpdatesAreQueued

\* When nothing has been taken and nothing is on its way, all is well.
LEMMA NothingOnItsWay ==
    /\ \A lines : MadeOf(<<>>, lines)
    /\ <<>> \o (<<>> \o <<>>) = <<>> /\ Lines(<<>>) = {} /\ TotalSize(<<>>) = 0
    /\ WithoutCR(<<>>) = <<>>
<1>1. Lines(<<>>) = {}
    BY DEF Lines
<1>2. \A lines : MadeOf(<<>>, lines)
    BY <1>1 DEF MadeOf
<1>3. <<>> \o (<<>> \o <<>>) = <<>>
  <2>1. <<>> \in Seq({})
      OBVIOUS
  <2> QED  BY <2>1, ConcatEmptySeq
<1> QED  BY <1>1, <1>2, <1>3, SizeOfFew, KeptOfNothing

LEMMA DownBegins ==
    ASSUME down = <<>>, read_buf = <<>>, frame = <<>>, frame_len = 0, dropping_line = FALSE,
           accepted = None, due = None
    PROVE  DownInv
<1>1. <<>> \in Seq(SentPieces)
    OBVIOUS
<1>2. DownStream
  <2>1. Gathered(<<>>)
      BY NothingOnItsWay DEF Gathered, FRAME_CAPACITY
  <2>2. MadeOf(<<>> \o (read_buf \o down), LinesSent)
      BY NothingOnItsWay
  <2> QED  BY <1>1, <2>1, <2>2, NothingOnItsWay DEF DownStream
<1> QED  BY <1>1, <1>2 DEF DownInv, SentIsShown, OnlyUpdatesAreQueued

\* No step lets the downlink lose, join or alter a line.
LEMMA DownStep == ASSUME DownInv, [Next]_vars PROVE DownInv'
<1>1. CASE \E command \in Commands : HostSends(command)
    BY <1>1, SendKeeps DEF HostSends, LinesSent
<1>2. CASE HostKeepsAlive
    BY <1>2, SendKeeps DEF HostKeepsAlive, LinesSent
<1>3. CASE \E line \in Foreign : OtherSends(line)
    BY <1>3, SendKeeps DEF OtherSends, LinesSent
<1>4. CASE \E n \in DOMAIN down : Read(n)
    BY <1>4, ReadKeeps
<1>5. CASE TakePiece
    BY <1>5, EndOfLineKeeps, AccumulateKeeps DEF TakePiece
<1>6. CASE \E g \in Gestures : TouchSent(g)
    BY <1>6, UplinkAside DEF TouchSent, Nothing
<1>7. CASE \E line \in Noise : NoiseSent(line)
    BY <1>7, UplinkAside DEF NoiseSent, Nothing
<1>8. CASE \E n \in DOMAIN up : Recv(n)
    BY <1>8, UplinkAside DEF Recv, Nothing
<1>9. CASE ConsumeLine
    BY <1>9, UplinkAside DEF ConsumeLine
<1>10. CASE Reconnect
  <2>1. /\ down' = <<>> /\ read_buf' = <<>> /\ frame' = <<>> /\ frame_len' = 0
        /\ dropping_line' = FALSE /\ accepted' = None /\ due' = None
      BY <1>10 DEF Reconnect, Nothing
  <2>2. DownStream'
    <3>1. Gathered(<<>>)'
        BY <2>1, NothingOnItsWay DEF Gathered, FRAME_CAPACITY
    <3>2. MadeOf(<<>> \o (read_buf' \o down'), LinesSent)
        BY <2>1, NothingOnItsWay
    <3>3. <<>> \in Seq(SentPieces) /\ Lines(<<>>) = {}
        BY NothingOnItsWay
    <3> QED  BY <3>1, <3>2, <3>3 DEF DownStream
  <2>3. <<>> \in Seq(SentPieces)
      OBVIOUS
  <2> QED  BY <2>1, <2>2, <2>3 DEF DownInv, SentIsShown, OnlyUpdatesAreQueued
<1>11. CASE UNCHANGED vars
    BY <1>11, UplinkAside DEF vars
<1> QED  BY <1>1, <1>2, <1>3, <1>4, <1>5, <1>6, <1>7, <1>8, <1>9, <1>10, <1>11 DEF Next

LEMMA DownAlways == Spec => []DownInv
<1>1. Init => DownInv
    BY DownBegins DEF Init
<1>2. DownInv /\ [Next]_vars => DownInv'
    BY DownStep
<1> QED  BY <1>1, <1>2, PTL DEF Spec

\* Whatever comes down the connection, what read_control_stream queues for the
\* renderer is an update it can show: parse and clamp let nothing else through.
THEOREM QueuedIsUpdate == Spec => []OnlyUpdatesAreQueued
<1>1. DownInv => OnlyUpdatesAreQueued
    BY DEF DownInv
<1> QED  BY <1>1, DownAlways, PTL

\* Every line that comes down the connection is taken for what it is, however
\* read cuts the stream: a behavior the host has validated is shown word for word
\* and a line that is too long, or another client's, costs nobody else's line.
THEOREM SentLinesAreShown == Spec => []SentIsShown
<1>1. DownInv => SentIsShown
    BY DEF DownInv
<1> QED  BY <1>1, DownAlways, PTL

\* The frame of read_control_stream never outgrows its buffer, and is full while
\* a line is dropped.
THEOREM FrameFits == Spec => []TypeOK
<1>1. ASSUME DownInv PROVE TypeOK
  <2>1. PICK q \in Seq(SentPieces) : Gathered(q)
      BY <1>1 DEF DownInv, DownStream
  <2>2. WithoutCR(q) \in Seq(SentPieces)
    <3>1. CASE q = <<>>
        BY <3>1, KeptOfNothing
    <3>2. CASE q # <<>>
      <4>1. q[1] \in SentPieces
          BY <2>1, <3>2
      <4> QED  BY <2>1, <4>1, KeptOfOneMore
    <3> QED  BY <3>1, <3>2
  <2>3. TotalSize(WithoutCR(q)) \in Nat /\ TotalSize(<<>>) = 0
    <3>1. \A p \in SentPieces : Size(p) \in Nat
        BY SentPiecesAreSound
    <3> QED  BY <2>2, <3>1, SizeOfConcat, SizeOfFew
  <2>4. dropping_line \in BOOLEAN
      BY <1>1 DEF DownInv
  <2>5. CASE dropping_line
      BY <2>1, <2>4, <2>5 DEF TypeOK, Gathered, FRAME_CAPACITY
  <2>6. CASE ~dropping_line
    <3>1. /\ frame_len = TotalSize(frame) /\ frame = WithoutCR(q) /\ frame_len \in Nat
          /\ frame_len <= FRAME_CAPACITY
        BY <2>1, <2>3, <2>6 DEF Gathered
    <3>2. frame = <<>> => frame_len = 0
        BY <2>3, <3>1, Zenon
    <3>3. frame_len \in 0..FRAME_CAPACITY
      <4>1. frame_len \in Nat /\ frame_len <= FRAME_CAPACITY
          BY <3>1
      <4> QED  BY <4>1 DEF FRAME_CAPACITY
    <3> QED  BY <2>4, <2>6, <3>2, <3>3, Zenon DEF TypeOK
  <2> QED  BY <2>5, <2>6
<1> QED  BY <1>1, DownAlways, PTL

-----------------------------------------------------------------------------
(***************************************************************************)
(* The lines of the uplink.                                                *)
(***************************************************************************)
\* What an input frame says is the touch it was made of.
LEMMA InputIsUnderstood ==
    ASSUME NEW P, NEW o \in Seq(P), Len(o) \in {4, 5},
           o[1].key = "v", o[1].value = 1, o[2].key = "kind", o[2].value = "input",
           o[3].key = "source", o[3].value = "touch", o[4].key = "gesture",
           o[4].value \in TOUCH_GESTURES, NEW d,
           IF o[4].value = "hold"
           THEN Len(o) = 5 /\ o[5].key = "duration_ms" /\ o[5].value = d /\ d \in Nat
           ELSE Len(o) = 4 /\ d = None
    PROVE  parse_input_frame(o) = Touch(o[4].value, d)
<1>1. \A i \in Int : Max({i}) = i
    BY MaxOfOne
<1>2. ASSUME NEW key, NEW i \in 1..5, Given(o, key) = {i} PROVE Value(o, key) = o[i].value
    BY <1>1, <1>2 DEF Value
<1>3. /\ DOMAIN o = 1..Len(o)
      /\ \A i \in DOMAIN o : i \in {1, 2, 3, 4} \/ (i = 5 /\ Len(o) = 5)
      /\ {1, 2, 3, 4} \subseteq DOMAIN o
    OBVIOUS
<1>4. Len(o) = 5 => o[5].key = "duration_ms"
    OBVIOUS
<1>5. Given(o, "v") = {1} /\ Given(o, "kind") = {2}
    BY <1>3, <1>4 DEF Given
<1>6. Given(o, "source") = {3} /\ Given(o, "gesture") = {4}
    BY <1>3, <1>4 DEF Given
<1>7. Given(o, "junk") = {}
    BY <1>3, <1>4 DEF Given
<1>8. Value(o, "v") = 1 /\ Value(o, "kind") = "input"
    BY <1>2, <1>5
<1>9. Value(o, "source") = "touch" /\ Value(o, "gesture") = o[4].value
    BY <1>2, <1>6
<1>10. CASE o[4].value = "hold"
  <2>1. Given(o, "duration_ms") = {5}
      BY <1>3, <1>10 DEF Given
  <2>2. Value(o, "duration_ms") = d /\ d \in Nat
      BY <1>2, <1>10, <2>1
  <2> QED  BY <1>7, <1>8, <1>9, <1>10, <2>2 DEF parse_input_frame
<1>11. CASE o[4].value # "hold"
  <2>1. Given(o, "duration_ms") = {}
      BY <1>3, <1>11 DEF Given
  <2>2. Value(o, "duration_ms") = d /\ d = None
      BY <1>11, <2>1 DEF Value
  <2> QED  BY <1>7, <1>8, <1>9, <1>11, <2>2 DEF parse_input_frame
<1> QED  BY <1>10, <1>11

\* The loop gets a touch the device reports as it is.
LEMMA SubmittedAsItIs ==
    ASSUME NEW g \in Gestures
    PROVE  /\ g = Touch(g.gesture, g.duration_ms) /\ g.gesture \in TOUCH_GESTURES
           /\ IF g.gesture = "hold" THEN g.duration_ms \in Nat ELSE g.duration_ms = None
           /\ submit_touch(g) = g
<1>1. CASE \E ms \in 0..TOUCH_DURATION_MAX_MS : g = Touch("hold", ms)
  <2>1. PICK ms \in 0..TOUCH_DURATION_MAX_MS : g = Touch("hold", ms)
      BY <1>1
  <2>2. g = [gesture |-> "hold", duration_ms |-> ms]
      BY <2>1 DEF Touch
  <2>3. ms \in Nat /\ TOUCH_DURATION_MAX_MS \in Int /\ ms <= TOUCH_DURATION_MAX_MS
      BY DEF TOUCH_DURATION_MAX_MS
  <2>4. Min({ms, TOUCH_DURATION_MAX_MS}) = ms
      BY <2>3, MinOfTwo
  <2>5. submit_touch(g) = g
      BY <2>2, <2>4 DEF submit_touch
  <2> QED  BY <2>2, <2>3, <2>5 DEF Touch, TOUCH_GESTURES
<1>2. CASE g \in {Touch("tap", None), Touch("doubletap", None)}
    BY <1>2 DEF Touch, TOUCH_GESTURES, submit_touch
<1> QED  BY <1>1, <1>2, GesturesAssumption

\* A touch that is written is a line that fits, and says what the touch is.
LEMMA TouchLine ==
    ASSUME NEW g \in Gestures, NEW line, line = encode_input_frame(g), line # None
    PROVE  /\ IsLine(line) /\ TotalSize(line) <= INPUT_FRAME_CAPACITY
           /\ line[Len(line)].value = g
           /\ submit_touch(parse_input_frame(SubSeq(line, 1, Len(line) - 1))) = g
<1> DEFINE a1 == [key |-> "v", value |-> 1]
           a2 == [key |-> "kind", value |-> "input"]
           a3 == [key |-> "source", value |-> "touch"]
           a4 == [key |-> "gesture", value |-> g.gesture]
           a5 == [key |-> "duration_ms", value |-> g.duration_ms]
           o == IF g.gesture = "hold" THEN <<a1, a2, a3, a4, a5>> ELSE <<a1, a2, a3, a4>>
           P == {a1, a2, a3, a4, a5}
<1>1. /\ g = Touch(g.gesture, g.duration_ms) /\ g.gesture \in TOUCH_GESTURES
      /\ IF g.gesture = "hold" THEN g.duration_ms \in Nat ELSE g.duration_ms = None
      /\ submit_touch(g) = g
    BY SubmittedAsItIs
<1>2. /\ a1.key = "v" /\ a1.value = 1 /\ a2.key = "kind" /\ a2.value = "input"
      /\ a3.key = "source" /\ a3.value = "touch" /\ a4.key = "gesture" /\ a4.value = g.gesture
      /\ a5.key = "duration_ms" /\ a5.value = g.duration_ms
    OBVIOUS
<1>3. /\ TotalSize(line) <= INPUT_FRAME_CAPACITY
      /\ line = (<<a1, a2, a3, a4>> \o (IF g.gesture = "hold" THEN <<a5>> ELSE <<>>))
                \o <<LineFeed(g)>>
    BY DEF encode_input_frame, Piece
<1> HIDE DEF a1, a2, a3, a4, a5
<1>4. /\ o \in Seq(P) /\ Len(o) \in {4, 5} /\ Len(o) = IF g.gesture = "hold" THEN 5 ELSE 4
      /\ o[1] = a1 /\ o[2] = a2 /\ o[3] = a3 /\ o[4] = a4 /\ (Len(o) = 5 => o[5] = a5)
  <2>1. CASE g.gesture = "hold"
    <3>1. o = <<a1, a2, a3, a4, a5>>
        BY <2>1
    <3> HIDE DEF o
    <3> QED  BY <2>1, <3>1
  <2>2. CASE g.gesture # "hold"
    <3>1. o = <<a1, a2, a3, a4>>
        BY <2>2
    <3> HIDE DEF o
    <3> QED  BY <2>2, <3>1
  <2> QED  BY <2>1, <2>2
<1> HIDE DEF o
<1>5. <<a1, a2, a3, a4>> \o (IF g.gesture = "hold" THEN <<a5>> ELSE <<>>) = o
  <2>1. CASE g.gesture = "hold"
    <3> DEFINE four == <<a1, a2, a3, a4>>
    <3>1. /\ four \in Seq(P) /\ Len(four) = 4 /\ a5 \in P
          /\ four[1] = a1 /\ four[2] = a2 /\ four[3] = a3 /\ four[4] = a4
        OBVIOUS
    <3> HIDE DEF four, P
    <3>2. \A i \in 1..5 : i \in {1, 2, 3, 4} \/ i = 5
        OBVIOUS
    <3>3. /\ Append(four, a5) = four \o <<a5>> /\ Append(four, a5) \in Seq(P)
          /\ Len(Append(four, a5)) = 5 /\ Append(four, a5)[5] = a5
          /\ \A i \in {1, 2, 3, 4} : Append(four, a5)[i] = four[i]
      <4>1. Append(four, a5) = four \o <<a5>>
          BY <3>1, AppendIsConcat
      <4>2. /\ Append(four, a5) \in Seq(P) /\ Len(Append(four, a5)) = 5
            /\ Append(four, a5)[5] = a5
            /\ \A i \in 1..4 : Append(four, a5)[i] = four[i]
        <5>1. /\ Append(four, a5) \in Seq(P) /\ Len(Append(four, a5)) = Len(four) + 1
              /\ \A i \in 1..Len(four) : Append(four, a5)[i] = four[i]
              /\ Append(four, a5)[Len(four) + 1] = a5
          <6>1. four \in Seq(P) /\ a5 \in P
              BY <3>1
          <6> QED  BY <6>1, AppendProperties
        <5> QED  BY <3>1, <5>1
      <4> QED  BY <4>1, <4>2
    <3>4. four \o <<a5>> = o
        BY <1>4, <2>1, <3>1, <3>2, <3>3, SeqEqual
    <3> QED  BY <2>1, <3>4 DEF four
  <2>2. CASE g.gesture # "hold"
    <3>1. <<a1, a2, a3, a4>> \o <<>> = <<a1, a2, a3, a4>>
        OBVIOUS
    <3> QED  BY <2>2, <3>1 DEF o
  <2> QED  BY <2>1, <2>2
<1> HIDE DEF P
<1>6. line = Append(o, LineFeed(g))
  <2>1. line = o \o <<LineFeed(g)>>
      BY <1>3, <1>5
  <2>2. o \in Seq(P \cup {LineFeed(g)})
      BY <1>4, SeqMonotonic
  <2> QED  BY <2>1, <2>2, AppendIsConcat
<1>7. \A i \in 1..Len(o) : SoundPiece(o[i]) /\ o[i].key # "LF"
  <2>1. \A i \in 1..Len(o) : i \in {1, 2, 3, 4} \/ (i = 5 /\ Len(o) = 5)
      BY <1>4
  <2>2. {"v", "kind", "source", "gesture", "duration_ms"} \subseteq DOMAIN FieldSize
      BY DEF FieldSize
  <2> QED  BY <1>2, <1>4, <2>1, <2>2 DEF SoundPiece
<1>8. /\ IsLine(line) /\ line[Len(line)].value = g
      /\ SubSeq(line, 1, Len(line) - 1) = o
  <2>1. LET line6 == Append(o, LineFeed(g))
        IN  /\ IsLine(line6) /\ Len(line6) = Len(o) + 1 /\ line6[Len(line6)].value = g
            /\ SubSeq(line6, 1, Len(line6) - 1) = o
      BY <1>4, <1>7, LineOf
  <2> QED  BY <1>6, <2>1
<1>9. parse_input_frame(o) = g
    BY <1>1, <1>2, <1>4, InputIsUnderstood
<1> QED  BY <1>1, <1>3, <1>8, <1>9

\* However much of it the reader has forgotten, what it sees of a line is what
\* the line reports; it forgets nothing of a short one.
IsHeard(line) ==
    \A n \in 0..Len(line) - 1 :
        n = 0 \/ TotalSize(SubSeq(line, 1, n)) > MAX_UPLINK_LINE_BYTES =>
            submit_touch(parse_input_frame(SubSeq(line, n + 1, Len(line) - 1)))
                = line[Len(line)].value

UpLines ==
    {encode_input_frame(g) : g \in {h \in Gestures : encode_input_frame(h) # None}} \cup Noise

UpPieces == PiecesOf(UpLines)

LEMMA UpLinesAreHeard ==
    /\ \A line \in UpLines : IsLine(line) /\ IsHeard(line)
    /\ \A p \in UpPieces : SoundPiece(p) /\ Size(p) \in Nat
    /\ \A line \in UpLines :
          line \in Seq(UpPieces) /\ line # <<>> /\ Lines(line) = {Len(line)}
<1>1. \A line \in UpLines : IsLine(line)
    BY TouchLine, NoiseAssumption DEF UpLines
<1>2. /\ \A p \in UpPieces : SoundPiece(p) /\ Size(p) \in Nat
      /\ \A line \in UpLines :
            line \in Seq(UpPieces) /\ line # <<>> /\ Lines(line) = {Len(line)}
  <2> HIDE DEF UpLines
  <2> QED  BY <1>1, LinesOfPieces, SoundText DEF UpPieces
<1>3. ASSUME NEW line \in Noise PROVE IsHeard(line)
  <2>1. submit_touch(None) = None
      BY DEF submit_touch
  <2> QED  BY <2>1, NoiseAssumption DEF IsHeard
<1>4. ASSUME NEW line \in UpLines, line \notin Noise PROVE IsHeard(line)
  <2>1. PICK g \in Gestures : line = encode_input_frame(g) /\ line # None
      BY <1>4 DEF UpLines
  <2>2. /\ TotalSize(line) <= INPUT_FRAME_CAPACITY /\ line[Len(line)].value = g
        /\ submit_touch(parse_input_frame(SubSeq(line, 1, Len(line) - 1))) = g
      BY <2>1, TouchLine
  <2>3. line \in Seq(UpPieces)
      BY <1>2
  <2>4. SUFFICES ASSUME NEW n \in 0..Len(line) - 1, n # 0
                 PROVE  ~(TotalSize(SubSeq(line, 1, n)) > MAX_UPLINK_LINE_BYTES)
      BY <2>2 DEF IsHeard
  <2> DEFINE a == SubSeq(line, 1, n)
             b == SubSeq(line, n + 1, Len(line))
  <2>5. /\ n \in 1..Len(line) /\ n \in 1 - 1..Len(line) /\ Len(line) \in n..Len(line)
        /\ 1 \in 1..Len(line) + 1 /\ n + 1 \in Int /\ Len(line) \in Int
      BY <2>3, <2>4
  <2>6. a \in Seq(UpPieces) /\ b \in Seq(UpPieces)
    <3>1. /\ \A i \in 1..n : line[i] \in UpPieces
          /\ \A i \in n + 1..Len(line) : line[i] \in UpPieces
        BY <2>3, <2>5
    <3> QED  BY <2>5, <3>1, SubSeqProperties
  <2>7. a \o b = line
    <3>1. a \o b = SubSeq(line, 1, Len(line))
        BY <2>3, <2>5, ConcatAdjacentSubSeq
    <3> QED  BY <2>3, <3>1, SubSeqFull
  <2> HIDE DEF a, b
  <2>8. /\ TotalSize(a) \in Nat /\ TotalSize(b) \in Nat
        /\ TotalSize(line) = TotalSize(a) + TotalSize(b)
      BY <1>2, <2>6, <2>7, SizeOfConcat
  <2>9. ~(TotalSize(a) > MAX_UPLINK_LINE_BYTES)
      BY <2>2, <2>8 DEF INPUT_FRAME_CAPACITY, MAX_UPLINK_LINE_BYTES
  <2> QED  BY <2>9 DEF a
<1> QED  BY <1>1, <1>2, <1>3, <1>4

-----------------------------------------------------------------------------
(***************************************************************************)
(* The uplink.                                                             *)
(***************************************************************************)
\* What the reader may have forgotten of a line: nothing, or more than it keeps.
Forgotten(q) ==
    Lines(q) = {} /\ (q = <<>> \/ TotalSize(q) > MAX_UPLINK_LINE_BYTES)

\* What has been forgotten of a line, with what is kept and what is on its way
\* behind it, is made of lines that were written.
UpStream ==
    \E q \in Seq(UpPieces) : Forgotten(q) /\ MadeOf(q \o (buffer \o up), UpLines)

UpInv ==
    up \in Seq(UpPieces) /\ buffer \in Seq(UpPieces) /\ UpStream /\ TouchIsHeard

\* What is left of a stream of lines when _consume_lines has ended.
LEMMA KeptOf ==
    ASSUME NEW q \in Seq(UpPieces), Forgotten(q), NEW b \in Seq(UpPieces),
           NEW u \in Seq(UpPieces), MadeOf(q \o (b \o u), UpLines)
    PROVE  /\ Kept(b) \in Seq(UpPieces)
           /\ \E r \in Seq(UpPieces) : Forgotten(r) /\ MadeOf(r \o (Kept(b) \o u), UpLines)
<1>1. CASE Lines(b) = {} /\ TotalSize(b) > MAX_UPLINK_LINE_BYTES
  <2>1. Kept(b) = <<>> /\ <<>> \in Seq(UpPieces)
      BY <1>1 DEF Kept
  <2>2. q \o b \in Seq(UpPieces) /\ Lines(q \o b) = {}
      BY <1>1, NoLines, ConcatProperties DEF Forgotten
  <2>3. /\ TotalSize(q) \in Nat /\ TotalSize(b) \in Nat
        /\ TotalSize(q \o b) = TotalSize(q) + TotalSize(b)
      BY UpLinesAreHeard, SizeOfConcat
  <2>4. Forgotten(q \o b)
      BY <1>1, <2>2, <2>3 DEF Forgotten, MAX_UPLINK_LINE_BYTES
  <2>5. (q \o b) \o (<<>> \o u) = q \o (b \o u)
    <3>1. <<>> \o u = u
        BY ConcatEmptySeq
    <3>2. (q \o b) \o u = q \o (b \o u)
        BY ConcatAssociative
    <3> QED  BY <3>1, <3>2
  <2> QED  BY <2>1, <2>2, <2>4, <2>5
<1>2. CASE ~(Lines(b) = {} /\ TotalSize(b) > MAX_UPLINK_LINE_BYTES)
  <2>1. Kept(b) = b
      BY <1>2 DEF Kept
  <2> QED  BY <2>1
<1> QED  BY <1>1, <1>2

\* A line goes behind what is on its way.
LEMMA WriteKeeps ==
    ASSUME UpInv, NEW line \in UpLines, up' = up \o line, UNCHANGED buffer,
           heard' = None, said' = None
    PROVE  UpInv'
<1>1. /\ line \in Seq(UpPieces) /\ line # <<>> /\ Lines(line) = {Len(line)}
      /\ up \in Seq(UpPieces) /\ buffer \in Seq(UpPieces)
    BY UpLinesAreHeard DEF UpInv
<1>2. PICK q \in Seq(UpPieces) : Forgotten(q) /\ MadeOf(q \o (buffer \o up), UpLines)
    BY DEF UpInv, UpStream
<1>3. q \o (buffer \o (up \o line)) = (q \o (buffer \o up)) \o line
  <2>1. /\ line \in Seq(UpPieces) /\ up \in Seq(UpPieces) /\ buffer \in Seq(UpPieces)
        /\ q \in Seq(UpPieces)
      BY <1>1, <1>2
  <2> QED  BY <2>1, LastOfFour, SMTT(30)
<1>4. MadeOf(q \o (buffer \o (up \o line)), UpLines)
  <2>1. q \o (buffer \o up) \in Seq(UpPieces)
      BY <1>1, <1>2, ConcatProperties
  <2> QED  BY <1>1, <1>2, <1>3, <2>1, LineAdded
<1>5. UpStream'
  <2>1. MadeOf(q \o (buffer' \o up'), UpLines)
      BY <1>4
  <2> QED  BY <1>2, <2>1 DEF UpStream
<1>6. up' \in Seq(UpPieces)
    BY <1>1, ConcatProperties
<1> QED  BY <1>1, <1>5, <1>6 DEF UpInv, TouchIsHeard

\* A recv moves the first pieces behind what is kept.
LEMMA RecvKeeps == ASSUME UpInv, NEW n \in DOMAIN up, Recv(n) PROVE UpInv'
<1> DEFINE got == SubSeq(up, 1, n)
           left == SubSeq(up, n + 1, Len(up))
<1>1. buffer' = Kept(buffer \o got) /\ up' = left /\ heard' = None /\ said' = None
    BY DEF Recv, Nothing, From
<1>2. up \in Seq(UpPieces) /\ Len(up) \in Nat /\ n \in 1..Len(up) /\ buffer \in Seq(UpPieces)
    BY DEF UpInv
<1>3. got \in Seq(UpPieces) /\ left \in Seq(UpPieces)
  <2>1. (\A i \in 1..n : up[i] \in UpPieces) /\ \A i \in n + 1..Len(up) : up[i] \in UpPieces
      BY <1>2
  <2> QED  BY <1>2, <2>1, SubSeqProperties
<1>4. got \o left = up
  <2>1. 1 \in 1..Len(up) + 1 /\ n \in 1 - 1..Len(up) /\ Len(up) \in n..Len(up)
      BY <1>2
  <2>2. got \o left = SubSeq(up, 1, Len(up))
      BY <1>2, <2>1, ConcatAdjacentSubSeq
  <2> QED  BY <1>2, <2>2, SubSeqFull
<1> HIDE DEF got, left
<1>5. buffer \o up = (buffer \o got) \o left /\ buffer \o got \in Seq(UpPieces)
  <2>1. buffer \in Seq(UpPieces) /\ got \in Seq(UpPieces) /\ left \in Seq(UpPieces)
      BY <1>2, <1>3
  <2>2. buffer \o (got \o left) = (buffer \o got) \o left
      BY <2>1, ConcatAssociative
  <2>3. buffer \o got \in Seq(UpPieces)
      BY <2>1, ConcatProperties
  <2> QED  BY <1>4, <2>2, <2>3
<1>6. PICK q \in Seq(UpPieces) : Forgotten(q) /\ MadeOf(q \o (buffer \o up), UpLines)
    BY DEF UpInv, UpStream
<1>7. /\ Kept(buffer \o got) \in Seq(UpPieces)
      /\ \E r \in Seq(UpPieces) :
            Forgotten(r) /\ MadeOf(r \o (Kept(buffer \o got) \o left), UpLines)
    BY <1>3, <1>5, <1>6, KeptOf
<1>8. UpStream'
    BY <1>1, <1>7 DEF UpStream
<1> QED  BY <1>1, <1>3, <1>7, <1>8 DEF UpInv, TouchIsHeard

\* The first line of the buffer is what it reports, and is gone.
LEMMA ConsumeKeeps == ASSUME UpInv, ConsumeLine PROVE UpInv'
<1> DEFINE end == Min(Lines(buffer))
           seen == SubSeq(buffer, 1, end)
           rest == SubSeq(buffer, end + 1, Len(buffer))
<1>1. /\ Lines(buffer) # {} /\ said' = buffer[end].value
      /\ heard' = submit_touch(parse_input_frame(SubSeq(buffer, 1, end - 1)))
      /\ buffer' = Kept(rest) /\ up' = up
    BY DEF ConsumeLine, From
<1>2. /\ buffer \in Seq(UpPieces) /\ up \in Seq(UpPieces) /\ Len(buffer) \in Nat
      /\ \A i \in 1..Len(buffer) : buffer[i] \in UpPieces
    BY DEF UpInv
<1>3. /\ end \in 1..Len(buffer) /\ buffer[end].key = "LF"
      /\ \A i \in 1..end - 1 : i \in 1..Len(buffer) /\ buffer[i].key # "LF"
  <2>1. Lines(buffer) \in SUBSET (1..Len(buffer))
      BY <1>2 DEF Lines
  <2>2. end \in Lines(buffer) /\ \A i \in Lines(buffer) : end <= i
      BY <1>1, <1>2, <2>1, ExtremesAreMembers
  <2> HIDE DEF end
  <2>3. end \in 1..Len(buffer) /\ buffer[end].key = "LF"
      BY <2>2 DEF Lines
  <2>4. ASSUME NEW i \in 1..end - 1 PROVE i \in 1..Len(buffer) /\ buffer[i].key # "LF"
    <3>1. i \in 1..Len(buffer) /\ ~(end <= i)
        BY <1>2, <2>3
    <3>2. i \notin Lines(buffer)
        BY <2>2, <3>1
    <3> QED  BY <1>2, <3>1, <3>2 DEF Lines
  <2> QED  BY <2>3, <2>4
<1> HIDE DEF end
<1>4. /\ seen \in Seq(UpPieces) /\ Len(seen) = end /\ \A i \in 1..end : seen[i] = buffer[i]
      /\ rest \in Seq(UpPieces)
  <2>1. /\ \A i \in 1..end : buffer[i] \in UpPieces
        /\ \A i \in end + 1..Len(buffer) : buffer[i] \in UpPieces
      BY <1>2, <1>3
  <2> QED  BY <1>2, <1>3, <2>1, SubSeqProperties
<1>5. seen \o rest = buffer
  <2>1. 1 \in 1..Len(buffer) + 1 /\ end \in 1 - 1..Len(buffer) /\ Len(buffer) \in end..Len(buffer)
      BY <1>2, <1>3
  <2>2. seen \o rest = SubSeq(buffer, 1, Len(buffer))
      BY <1>2, <2>1, ConcatAdjacentSubSeq
  <2> QED  BY <1>2, <2>2, SubSeqFull
<1>6. Lines(seen) = {Len(seen)} /\ seen # <<>>
  <2> HIDE DEF seen
  <2>1. end \in 1..end /\ \A i \in 1..end : i = end \/ i \in 1..end - 1
      BY <1>2, <1>3
  <2>2. \A i \in 1..end : seen[i].key = "LF" <=> i = end
      BY <1>3, <1>4, <2>1
  <2>3. DOMAIN seen = 1..end
      BY <1>4
  <2> QED  BY <1>4, <2>1, <2>2, <2>3 DEF Lines
<1>7. SubSeq(seen, 1, end - 1) = SubSeq(buffer, 1, end - 1)
  <2>1. CASE end = 1
      BY <2>1, SubSeqEmpty
  <2>2. CASE end # 1
    <3>1. 1 \in 1..end /\ end - 1 \in 1..end /\ end \in 1..Len(buffer) /\ 1 \in 1..Len(buffer)
        BY <1>2, <1>3, <2>2
    <3>2. 1 \in 1..end - 1 + 1 /\ end - 1 \in 1..end - 1 + 1
        BY <1>2, <1>3, <2>2
    <3>3. SubSeq(seen, 1, end - 1) = SubSeq(buffer, 1 + 1 - 1, 1 + (end - 1) - 1)
        BY <1>2, <3>1, <3>2, SubSeqOfSubSeq
    <3> QED  BY <1>2, <1>3, <3>3
  <2> QED  BY <2>1, <2>2
<1> HIDE DEF seen, rest
<1>8. PICK q \in Seq(UpPieces) : Forgotten(q) /\ MadeOf(q \o (buffer \o up), UpLines)
    BY DEF UpInv, UpStream
<1>9. q \o (buffer \o up) = (q \o seen) \o (rest \o up)
  <2>1. (seen \o rest) \o up = seen \o (rest \o up)
      BY <1>2, <1>4, ConcatAssociative, SMTT(30)
  <2>2. PICK r \in Seq(UpPieces) : r = rest \o up
      BY <1>2, <1>4, ConcatProperties
  <2>3. (q \o seen) \o r = q \o (seen \o r)
      BY <1>4, <1>8, ConcatAssociative, SMTT(30)
  <2> QED  BY <1>5, <2>1, <2>2, <2>3
<1>10. q \o seen \in UpLines /\ MadeOf(rest \o up, UpLines)
  <2>1. PICK r \in Seq(UpPieces) : r = rest \o up
      BY <1>2, <1>4, ConcatProperties
  <2>2. q \in Seq(UpPieces) /\ Lines(q) = {} /\ MadeOf((q \o seen) \o r, UpLines)
      BY <1>8, <1>9, <2>1 DEF Forgotten
  <2> QED  BY <1>4, <1>6, <2>1, <2>2, FirstOf
<1>11. heard' = said'
  <2> DEFINE line == q \o seen
             n == Len(q)
  <2>1. /\ line \in Seq(UpPieces) /\ Len(line) = n + end /\ n \in Nat
        /\ \A i \in 1..n + end : line[i] = IF i <= n THEN q[i] ELSE seen[i - n]
    <3>1. seen \in Seq(UpPieces) /\ q \in Seq(UpPieces)
        BY <1>4, <1>8
    <3>2. /\ line \in Seq(UpPieces) /\ Len(line) = n + Len(seen) /\ n \in Nat
          /\ \A i \in 1..n + Len(seen) : line[i] = IF i <= n THEN q[i] ELSE seen[i - n]
        BY <3>1, ConcatProperties
    <3> HIDE DEF line, n
    <3> QED  BY <1>4, <3>2
  <2>2. n \in 0..Len(line) - 1 /\ line[Len(line)] = buffer[end]
    <3>1. n + end \in 1..n + end /\ ~(n + end <= n) /\ (n + end) - n = end /\ end \in 1..end
        BY <1>2, <1>3, <2>1
    <3> HIDE DEF line, n
    <3> QED  BY <1>4, <2>1, <3>1
  <2>3. n = 0 \/ SubSeq(line, 1, n) = q
    <3>1. SUFFICES ASSUME n # 0 PROVE SubSeq(line, 1, n) = q
        OBVIOUS
    <3>2. 1 \in 1..Len(q) /\ Len(q) \in 1..Len(q)
        BY <2>1, <3>1
    <3>3. SubSeq(q \o seen, 1, Len(q)) = SubSeq(q, 1, Len(q))
        BY <1>4, <1>8, <3>2, SubSeqOfConcat1
    <3> QED  BY <1>8, <3>3, SubSeqFull
  <2>4. SubSeq(line, n + 1, Len(line) - 1) = SubSeq(buffer, 1, end - 1)
    <3>1. CASE end = 1
        BY <2>1, <3>1, SubSeqEmpty
    <3>2. CASE end # 1
      <4>1. /\ n + 1 \in n + 1..n + Len(seen) /\ (n + end) - 1 \in n + 1..n + Len(seen)
            /\ (n + 1) - n = 1 /\ ((n + end) - 1) - n = end - 1
          BY <1>2, <1>3, <1>4, <2>1, <3>2
      <4>2. SubSeq(line, n + 1, (n + end) - 1) = SubSeq(seen, (n + 1) - n, ((n + end) - 1) - n)
        <5>1. seen \in Seq(UpPieces) /\ q \in Seq(UpPieces)
            BY <1>4, <1>8
        <5> QED  BY <4>1, <5>1, SubSeqOfConcat2
      <4> QED  BY <1>7, <2>1, <4>1, <4>2
    <3> QED  BY <3>1, <3>2
  <2> HIDE DEF line, n
  <2>5. n = 0 \/ TotalSize(SubSeq(line, 1, n)) > MAX_UPLINK_LINE_BYTES
    <3>1. q = <<>> => n = 0
        BY DEF n
    <3> QED  BY <1>8, <2>3, <3>1 DEF Forgotten
  <2>6. IsHeard(line)
      BY <1>10, UpLinesAreHeard DEF line
  <2> QED  BY <1>1, <2>2, <2>4, <2>5, <2>6 DEF IsHeard
<1>12. /\ Kept(rest) \in Seq(UpPieces)
       /\ \E r \in Seq(UpPieces) : Forgotten(r) /\ MadeOf(r \o (Kept(rest) \o up), UpLines)
  <2>1. Forgotten(<<>>) /\ <<>> \in Seq(UpPieces)
      BY NothingOnItsWay DEF Forgotten
  <2>2. MadeOf(<<>> \o (rest \o up), UpLines)
    <3>1. <<>> \o (rest \o up) = rest \o up
        BY <1>2, <1>4, ConcatProperties, ConcatEmptySeq
    <3> QED  BY <1>10, <3>1
  <2> QED  BY <1>2, <1>4, <2>1, <2>2, KeptOf
<1>13. UpStream'
    BY <1>1, <1>12 DEF UpStream
<1> QED  BY <1>1, <1>2, <1>11, <1>12, <1>13 DEF UpInv, TouchIsHeard

\* What happens on the downlink leaves the uplink alone.
LEMMA DownlinkAside ==
    ASSUME UpInv, UNCHANGED up_vars,
           (heard' = None /\ said' = None) \/ UNCHANGED <<heard, said>>
    PROVE  UpInv'
<1>1. up' = up /\ buffer' = buffer
    BY DEF up_vars
<1> QED  BY <1>1 DEF UpInv, UpStream, TouchIsHeard

LEMMA UpBegins ==
    ASSUME NEW u, NEW b, u = <<>>, b = <<>>
    PROVE  /\ u \in Seq(UpPieces) /\ b \in Seq(UpPieces)
           /\ \E q \in Seq(UpPieces) : Forgotten(q) /\ MadeOf(q \o (b \o u), UpLines)
<1>1. Forgotten(<<>>) /\ <<>> \in Seq(UpPieces)
    BY NothingOnItsWay DEF Forgotten
<1>2. MadeOf(<<>> \o (b \o u), UpLines)
    BY NothingOnItsWay
<1> QED  BY <1>1, <1>2

\* No step lets the uplink lose, join or alter a touch.
LEMMA UpStep == ASSUME UpInv, [Next]_vars PROVE UpInv'
<1>1. CASE \E command \in Commands : HostSends(command)
    BY <1>1, DownlinkAside DEF HostSends, Send, Nothing
<1>2. CASE HostKeepsAlive
    BY <1>2, DownlinkAside DEF HostKeepsAlive, Send, Nothing
<1>3. CASE \E line \in Foreign : OtherSends(line)
    BY <1>3, DownlinkAside DEF OtherSends, Send, Nothing
<1>4. CASE \E n \in DOMAIN down : Read(n)
    BY <1>4, DownlinkAside DEF Read, Nothing
<1>5. CASE TakePiece
    BY <1>5, DownlinkAside DEF TakePiece, EndOfLine, Accumulate, Nothing
<1>6. CASE \E g \in Gestures : TouchSent(g)
    BY <1>6, WriteKeeps DEF TouchSent, Nothing, UpLines
<1>7. CASE \E line \in Noise : NoiseSent(line)
    BY <1>7, WriteKeeps DEF NoiseSent, Nothing, UpLines
<1>8. CASE \E n \in DOMAIN up : Recv(n)
    BY <1>8, RecvKeeps
<1>9. CASE ConsumeLine
    BY <1>9, ConsumeKeeps
<1>10. CASE Reconnect
  <2>1. up' = <<>> /\ buffer' = <<>> /\ heard' = None /\ said' = None
      BY <1>10 DEF Reconnect, Nothing
  <2> QED  BY <2>1, UpBegins DEF UpInv, UpStream, TouchIsHeard
<1>11. CASE UNCHANGED vars
    BY <1>11, DownlinkAside DEF vars
<1> QED  BY <1>1, <1>2, <1>3, <1>4, <1>5, <1>6, <1>7, <1>8, <1>9, <1>10, <1>11 DEF Next

\* Every gesture that reaches the host is heard as it was meant, with its
\* duration, however recv cuts the stream: what _consume_lines forgets of a line
\* without an end is never part of one, and no noise is taken for a touch.
THEOREM TouchesAreHeard == Spec => []TouchIsHeard
<1>1. Init => UpInv
    BY UpBegins DEF Init, UpInv, UpStream, TouchIsHeard
<1>2. UpInv /\ [Next]_vars => UpInv'
    BY UpStep
<1>3. UpInv => TouchIsHeard
    BY DEF UpInv
<1> QED  BY <1>1, <1>2, <1>3, PTL DEF Spec

=============================================================================
