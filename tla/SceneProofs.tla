---------------------------- MODULE SceneProofs ----------------------------
(***************************************************************************)
(* Whatever the host sends and whenever it comes, the picture keeps        *)
(* moving, by small steps, on the panel, with its words in a bubble that   *)
(* leaves Shiro free, and left alone Shiro blinks.                         *)
(***************************************************************************)
EXTENDS Scene, SequenceTheorems, FiniteSetTheorems, WellFoundedInduction, TLAPS

-----------------------------------------------------------------------------
(***************************************************************************)
(* The least and the largest of some numbers.                              *)
(***************************************************************************)
\* Of two numbers the larger ...
LEMMA MaxOfTwo ==
    ASSUME NEW a \in Int, NEW b \in Int
    PROVE  Max({a, b}) = IF a >= b THEN a ELSE b
<1> DEFINE m == IF a >= b THEN a ELSE b
<1>1. m \in {a, b} /\ \A y \in {a, b} : m >= y
    OBVIOUS
<1>2. \A x \in {a, b} : (\A y \in {a, b} : x >= y) => x = m
    OBVIOUS
<1> QED  BY <1>1, <1>2 DEF Max

\* ... or the smaller ...
LEMMA MinOfTwo ==
    ASSUME NEW a \in Int, NEW b \in Int
    PROVE  Min({a, b}) = IF a <= b THEN a ELSE b
<1> DEFINE m == IF a <= b THEN a ELSE b
<1>1. m \in {a, b} /\ \A y \in {a, b} : m <= y
    OBVIOUS
<1>2. \A x \in {a, b} : (\A y \in {a, b} : x <= y) => x = m
    OBVIOUS
<1> QED  BY <1>1, <1>2 DEF Min

\* ... and of one itself.
LEMMA MaxOfOne == ASSUME NEW a \in Int PROVE Max({a}) = a
BY DEF Max

\* Some natural numbers have a least.
LEMMA LeastOfSome ==
    ASSUME NEW S \in SUBSET Nat, S # {} PROVE \E m \in S : \A x \in S : m <= x
<1> DEFINE less == OpToRel(<, Nat)
<1>1. IsWellFoundedOn(less, Nat)
    BY NatLessThanWellFounded, Zenon
<1>2. \A x, y \in Nat : x < y => <<x, y>> \in less
    BY DEF OpToRel
<1> HIDE DEF less
<1>3. PICK m \in S : \A x \in S : <<x, m>> \notin less
    BY <1>1, WFMin
<1>4. \A x \in S : ~(x < m)
    BY <1>2, <1>3
<1> QED  BY <1>4

\* Some of the numbers from one to n have a least and a largest.
LEMMA ExtremesAreMembers ==
    ASSUME NEW n \in Nat, NEW S \in SUBSET (1..n), S # {}
    PROVE  Max(S) \in S /\ Min(S) \in S /\ \A x \in S : Min(S) <= x /\ x <= Max(S)
<1>1. Min(S) \in S /\ \A x \in S : Min(S) <= x
  <2>1. S \in SUBSET Nat
      OBVIOUS
  <2>2. PICK m \in S : \A x \in S : m <= x
      BY <2>1, LeastOfSome
  <2> QED  BY <2>2 DEF Min
<1>2. Max(S) \in S /\ \A x \in S : Max(S) >= x
  <2> DEFINE T == {n - x : x \in S}
  <2>1. T # {}
      OBVIOUS
  <2>2. \A x \in S : n - x \in Nat
      OBVIOUS
  <2>3. T \in SUBSET Nat
      BY <2>2
  <2>4. PICK k \in T : \A y \in T : k <= y
    <3> HIDE DEF T
    <3> QED  BY <2>1, <2>3, LeastOfSome
  <2>5. PICK m \in S : k = n - m
      BY <2>4
  <2>6. \A x \in S : m >= x
    <3> SUFFICES ASSUME NEW x \in S PROVE m >= x
        OBVIOUS
    <3>1. n - x \in T
        OBVIOUS
    <3> HIDE DEF T
    <3>2. n - m <= n - x
        BY <2>4, <2>5, <3>1
    <3>3. m \in Int /\ x \in Int
        OBVIOUS
    <3> QED  BY <3>2, <3>3
  <2> QED  BY <2>6 DEF Max
<1>3. \A x \in S : x <= Max(S)
    BY <1>2
<1> QED  BY <1>1, <1>2, <1>3

-----------------------------------------------------------------------------
(***************************************************************************)
(* Functions defined by recursion over a sequence.                         *)
(***************************************************************************)
\* A set that has zero, and with a number the next, has the numbers up to n.
LEMMA UpTo ==
    ASSUME NEW n \in Nat, NEW S, 0 \in S, \A k \in 0..n - 1 : k \in S => k + 1 \in S
    PROVE  \A k \in 0..n : k \in S
<1> DEFINE rest == {k \in 0..n : k \notin S}
<1> SUFFICES ASSUME rest # {} PROVE FALSE
    OBVIOUS
<1>1. PICK m \in rest : \A k \in rest : m <= k
  <2>1. rest \in SUBSET Nat
      OBVIOUS
  <2> HIDE DEF rest
  <2> QED  BY <2>1, LeastOfSome
<1>2. m - 1 \in 0..n - 1 /\ m - 1 \notin rest
    BY <1>1
<1>3. m - 1 \in S
    BY <1>2
<1>4. m - 1 + 1 \in S
    BY <1>2, <1>3
<1> QED  BY <1>1, <1>4

-----------------------------------------------------------------------------
(***************************************************************************)
(* The type invariant.                                                     *)
(***************************************************************************)
\* A behavior that is on, before or after its first frame.
Running ==
    {a \in [behavior : Updates, frames_left : 1..U16_MAX, elapsed : 0..U16_MAX] :
        a.elapsed + a.frames_left = frames_for(a.behavior.duration_ms)}

\* What a frame is drawn from.
On(update) == IF update = None THEN active ELSE apply_behavior(update)

\* A behavior is on for one frame at least, and its frames fit sixteen bits.
LEMMA FramesForType ==
    ASSUME NEW ms \in Nat PROVE frames_for(ms) \in 1..U16_MAX
<1> DEFINE n == (ms + FRAME_MS - 1) \div FRAME_MS
<1>1. n \in Int
    BY SceneAssumption
<1> HIDE DEF n
<1>2. Max({n, 1}) \in Int /\ Max({n, 1}) >= 1
    BY <1>1, MaxOfTwo
<1>3. U16_MAX \in Int /\ U16_MAX >= 1
    BY DEF U16_MAX
<1>4. frames_for(ms) = Min({Max({n, 1}), U16_MAX})
    BY DEF frames_for, n
<1> QED  BY <1>2, <1>3, <1>4, MinOfTwo

\* A behavior that is taken is on.
LEMMA BehaviorIsOn ==
    ASSUME NEW u \in Updates PROVE apply_behavior(u) \in Running
<1>1. frames_for(u.duration_ms) \in 1..U16_MAX
    BY SceneAssumption, FramesForType
<1>2. 0 \in 0..U16_MAX
  <2>1. U16_MAX \in Nat
      BY DEF U16_MAX
  <2> QED  BY <2>1
<1> QED  BY <1>1, <1>2 DEF apply_behavior, Running

\* A frame on, it is still on, one frame older, or over.
LEMMA TickedBehavior ==
    ASSUME NEW a \in Running, tick(a) # None
    PROVE  /\ tick(a) \in Running
           /\ tick(a).behavior = a.behavior /\ tick(a).elapsed = a.elapsed + 1
<1>1. a # None /\ a.frames_left > 1 /\ tick(a) = [a EXCEPT !.elapsed = Min({@ + 1, U16_MAX}), !.frames_left = @ - 1]
    BY DEF tick
<1>2. a.elapsed \in 0..U16_MAX /\ a.frames_left \in 1..U16_MAX /\ U16_MAX \in Nat
  <2>1. a.elapsed \in 0..U16_MAX /\ a.frames_left \in 1..U16_MAX
      BY DEF Running
  <2>2. U16_MAX \in Nat
      BY DEF U16_MAX
  <2> QED  BY <2>1, <2>2
<1>3. a.elapsed + a.frames_left <= U16_MAX
  <2>1. a.behavior.duration_ms \in Nat
      BY SceneAssumption DEF Running
  <2>2. a.elapsed + a.frames_left \in 1..U16_MAX
      BY <2>1, FramesForType DEF Running
  <2> QED  BY <1>2, <2>2
<1>4. Min({a.elapsed + 1, U16_MAX}) = a.elapsed + 1
    BY <1>1, <1>2, <1>3, MinOfTwo
<1>5. tick(a) = [a EXCEPT !.elapsed = a.elapsed + 1, !.frames_left = a.frames_left - 1]
    BY <1>1, <1>4
<1>6. a.elapsed + 1 \in 0..U16_MAX /\ a.frames_left - 1 \in 1..U16_MAX
    BY <1>1, <1>2, <1>3
<1>7. tick(a).elapsed + tick(a).frames_left = a.elapsed + a.frames_left
    BY <1>2, <1>5 DEF Running
<1> QED  BY <1>5, <1>6, <1>7 DEF Running

\* The frames that follow one.
LEMMA NextFramesType ==
    ASSUME NEW g \in 0..FRAME_CYCLE - 1 PROVE NextFrames(g) \subseteq 0..FRAME_CYCLE - 1
<1>1. (g + 1) % FRAME_CYCLE \in 0..FRAME_CYCLE - 1 /\ 0 \in 0..FRAME_CYCLE - 1
    BY DEF FRAME_CYCLE
<1> QED  BY <1>1 DEF NextFrames

\* The inductive invariant: TypeOK and what a record needs to be one.
TypeInv ==
    /\ frame \in 0..FRAME_CYCLE - 1
    /\ active # None => active \in Running /\ active.elapsed >= 1
    /\ \E p : drawn \subseteq {p}
    /\ still \in Nat /\ unblinked \in Nat

LEMMA TypeInit == Init => TypeInv
BY DEF Init, TypeInv, FRAME_CYCLE

\* Every step is a frame drawn with some update or none.
LEMMA StepsAreFrames ==
    ASSUME Next PROVE \E update \in Updates \cup {None} : RenderFrame(update)
BY DEF Next

\* What is on in a step is the behavior that was or one that is taken.
LEMMA OnIsRunning ==
    ASSUME TypeInv, NEW update \in Updates \cup {None}
    PROVE  On(update) # None => On(update) \in Running
BY BehaviorIsOn DEF On, TypeInv

LEMMA TypeStep == TypeInv /\ [Next]_vars => TypeInv'
<1> SUFFICES ASSUME TypeInv, [Next]_vars PROVE TypeInv'
    OBVIOUS
<1>1. CASE Next
  <2>1. PICK update \in Updates \cup {None} : RenderFrame(update)
      BY <1>1, StepsAreFrames
  <2>2. frame' \in 0..FRAME_CYCLE - 1
      BY <2>1, NextFramesType DEF RenderFrame, TypeInv
  <2>3. active' # None => active' \in Running /\ active'.elapsed >= 1
    <3> SUFFICES ASSUME active' # None PROVE active' \in Running /\ active'.elapsed >= 1
        OBVIOUS
    <3>1. active' = tick(On(update))
        BY <2>1 DEF RenderFrame, On
    <3>2. On(update) # None
        BY <3>1 DEF tick
    <3>3. On(update) \in Running
        BY <3>2, OnIsRunning
    <3>4. On(update).elapsed \in Nat
        BY <3>3 DEF Running
    <3> QED  BY <3>1, <3>3, <3>4, TickedBehavior
  <2>4. \E p : drawn' \subseteq {p}
      BY <2>1 DEF RenderFrame
  <2>5. still' \in Nat /\ unblinked' \in Nat
      BY <2>1 DEF RenderFrame, TypeInv
  <2> QED  BY <2>2, <2>3, <2>4, <2>5 DEF TypeInv
<1>2. CASE UNCHANGED vars
    BY <1>2 DEF vars, TypeInv
<1> QED  BY <1>1, <1>2

LEMMA TypeAlways == Spec => []TypeInv
BY TypeInit, TypeStep, PTL DEF Spec

LEMMA TypeImplied == ASSUME TypeInv PROVE TypeOK
<1>1. Cardinality(drawn) <= 1
  <2>1. PICK p : drawn \subseteq {p}
      BY DEF TypeInv
  <2>2. IsFiniteSet({p}) /\ Cardinality({p}) = 1
      BY FS_Singleton
  <2> QED  BY <2>1, <2>2, FS_Subset
<1> QED  BY <1>1 DEF TypeInv, TypeOK, Running

\* The scene keeps its type: of a behavior that is on as many frames are left as
\* it has not yet been shown for.
THEOREM TypeCorrect == Spec => []TypeOK
BY TypeAlways, TypeImplied, PTL

-----------------------------------------------------------------------------
(***************************************************************************)
(* Running sums, which the loops of poses and the rows of a sprite have.   *)
(***************************************************************************)
\* sums[i] is the sum of the first i of n numbers.
Sums(sums, n, add) == sums[0] = 0 /\ \A i \in 1..n : sums[i] = sums[i - 1] + add[i]

\* Numbers have running sums.
LEMMA SumsExist ==
    ASSUME NEW n \in Nat, NEW add, \A i \in 1..n : add[i] \in Nat
    PROVE  \E sums \in [0..n -> Nat] : Sums(sums, n, add)
<1> DEFINE S == {k \in 0..n : \E g \in [0..k -> Nat] : Sums(g, k, add)}
<1>1. 0 \in S
  <2> DEFINE g == [i \in 0..0 |-> 0]
  <2>1. g \in [0..0 -> Nat] /\ Sums(g, 0, add)
      BY DEF Sums
  <2> HIDE DEF g
  <2> QED  BY <2>1
<1>2. ASSUME NEW k \in 0..n - 1, k \in S PROVE k + 1 \in S
  <2>1. PICK g \in [0..k -> Nat] : Sums(g, k, add)
      BY <1>2
  <2> DEFINE h == [i \in 0..k + 1 |-> IF i = k + 1 THEN g[k] + add[k + 1] ELSE g[i]]
  <2>2. k + 1 \in 1..n /\ g[k] \in Nat
      OBVIOUS
  <2>3. h \in [0..k + 1 -> Nat]
      BY <2>2
  <2>4. h[0] = 0
      BY <2>1 DEF Sums
  <2>5. ASSUME NEW i \in 1..k + 1 PROVE h[i] = h[i - 1] + add[i]
    <3>1. CASE i = k + 1
      <4>1. h[i] = g[k] + add[k + 1] /\ h[i - 1] = g[k]
          BY <3>1
      <4> QED  BY <3>1, <4>1
    <3>2. CASE i # k + 1
      <4>1. i \in 1..k /\ h[i] = g[i] /\ h[i - 1] = g[i - 1]
          BY <3>2
      <4>2. g[i] = g[i - 1] + add[i]
          BY <2>1, <4>1 DEF Sums
      <4> QED  BY <4>1, <4>2
    <3> QED  BY <3>1, <3>2
  <2> HIDE DEF h
  <2>6. k + 1 \in 0..n /\ Sums(h, k + 1, add)
      BY <2>4, <2>5 DEF Sums
  <2> QED  BY <2>3, <2>6
<1> HIDE DEF S
<1>3. \A k \in 0..n : k \in S
    BY <1>1, <1>2, UpTo
<1>4. n \in S
    BY <1>3
<1> QED  BY <1>4 DEF S

-----------------------------------------------------------------------------
(***************************************************************************)
(* Motion: waves and loops of poses.                                       *)
(***************************************************************************)
\* The sine has one highest and one lowest place.
LEMMA SinTable ==
    ASSUME NEW i \in 0..63
    PROVE  /\ SIN[i] \in Int
           /\ i = 16 => SIN[i] = 1024
           /\ i = 48 => SIN[i] = -1024
           /\ i \notin {16, 48} => SIN[i] > -1024 /\ SIN[i] < 1024
<1> DEFINE quarter == <<0, 100, 200, 297, 392, 483, 569, 650, 724, 792, 851, 903, 946, 980, 1004,
                        1019, 1024>>
           rising(k) == quarter[IF k <= 16 THEN k + 1 ELSE 33 - k]
<1>1. \A k \in 1..17 : quarter[k] \in Int /\ quarter[k] >= 0 /\ quarter[k] <= 1024
    OBVIOUS
<1>2. quarter[17] = 1024 /\ \A k \in 1..16 : quarter[k] < 1024
    OBVIOUS
<1>3. SIN[i] = IF i < 32 THEN rising(i) ELSE -rising(i - 32)
    BY DEF SIN
<1> HIDE DEF quarter
<1>4. \A k \in 0..31 : /\ rising(k) \in Int /\ rising(k) >= 0 /\ rising(k) <= 1024
                       /\ rising(k) = 1024 <=> k = 16
  <2> SUFFICES ASSUME NEW k \in 0..31
               PROVE  /\ rising(k) \in Int /\ rising(k) >= 0 /\ rising(k) <= 1024
                      /\ rising(k) = 1024 <=> k = 16
      OBVIOUS
  <2> DEFINE j == IF k <= 16 THEN k + 1 ELSE 33 - k
  <2>1. j \in 1..17 /\ (j = 17 <=> k = 16)
      OBVIOUS
  <2>2. rising(k) = quarter[j]
      OBVIOUS
  <2>3. j # 17 => j \in 1..16
      BY <2>1
  <2> HIDE DEF j
  <2> QED  BY <1>1, <1>2, <2>1, <2>2, <2>3
<1> HIDE DEF rising
<1>5. CASE i < 32
  <2>1. i \in 0..31
      BY <1>5
  <2> QED  BY <1>3, <1>4, <1>5, <2>1
<1>6. CASE i >= 32
  <2>1. i - 32 \in 0..31 /\ (i - 32 = 16 <=> i = 48)
      BY <1>6
  <2> QED  BY <1>3, <1>4, <1>6, <2>1
<1> QED  BY <1>5, <1>6

\* A wave one high is flat but at those two places.
Crest(i) == IF i = 16 THEN 1 ELSE IF i = 48 THEN -1 ELSE 0

LEMMA CrestIsSmall ==
    ASSUME NEW i PROVE Crest(i) \in {-1, 0, 1} /\ Magnitude(Crest(i)) \in {0, 1}
<1>1. \A n \in Int : n >= -1 /\ n <= 1 => Magnitude(n) \in {0, 1}
    BY DEF Magnitude
<1>2. Crest(i) = 1 \/ Crest(i) = -1 \/ Crest(i) = 0
    BY DEF Crest
<1> QED  BY <1>1, <1>2

LEMMA WaveOfOne ==
    ASSUME NEW f \in Nat, NEW s \in Nat, NEW p \in Nat
    PROVE  /\ wave(f, s, p, 1) = Crest((f * s + p) % 64)
           /\ wave_abs(f, s, p, 1) = Magnitude(Crest((f * s + p) % 64))
<1>1. PICK i : i = (f * s + p) % 64
    OBVIOUS
<1>2. i \in 0..63
    BY <1>1
<1>3. Quotient(SIN[i] * 1, 1024) = Crest(i)
  <2>1. SIN[i] * 1 = SIN[i]
      BY <1>2, SinTable
  <2>2. CASE i = 16
      BY <1>2, <2>1, <2>2, SinTable DEF Quotient, Crest
  <2>3. CASE i = 48
      BY <1>2, <2>1, <2>3, SinTable DEF Quotient, Crest
  <2>4. CASE i \notin {16, 48}
    <3>1. PICK v \in Int : v = SIN[i]
        BY <1>2, SinTable
    <3>2. v > -1024 /\ v < 1024
        BY <1>2, <2>4, <3>1, SinTable
    <3>3. Quotient(v, 1024) = 0
      <4>1. CASE v >= 0
        <5>1. v \div 1024 = 0
            BY <3>2, <4>1
        <5> QED  BY <4>1, <5>1 DEF Quotient
      <4>2. CASE v < 0
        <5>1. -v >= 0 /\ -v < 1024 /\ -v \in Int
            BY <3>2, <4>2
        <5>2. (-v) \div 1024 = 0
            BY <5>1
        <5> QED  BY <4>2, <5>2 DEF Quotient
      <4> QED  BY <4>1, <4>2
    <3> QED  BY <2>1, <2>4, <3>1, <3>3 DEF Crest
  <2> QED  BY <2>2, <2>3, <2>4
<1> QED  BY <1>1, <1>3 DEF wave, wave_abs

LEMMA WaveRange ==
    ASSUME NEW h \in Nat, NEW s \in Nat, NEW p \in Nat
    PROVE  wave(h, s, p, 1) \in {-1, 0, 1} /\ wave_abs(h, s, p, 1) \in {0, 1}
<1>1. PICK i : i = (h * s + p) % 64
    OBVIOUS
<1>2. wave(h, s, p, 1) = Crest(i) /\ wave_abs(h, s, p, 1) = Magnitude(Crest(i))
    BY <1>1, WaveOfOne
<1> QED  BY <1>2, CrestIsSmall

\* Where the poses of a loop begin.
LEMMA BeginsAreSums ==
    ASSUME NEW poses, NEW n \in Nat, Len(poses) = n,
           \A i \in 1..n : poses[i].frames \in Nat
    PROVE  /\ Begins(poses)[1] = 0
           /\ \A i \in 1..n : Begins(poses)[i + 1] = Begins(poses)[i] + poses[i].frames
           /\ \A i \in 1..n + 1 : Begins(poses)[i] \in Nat
<1> DEFINE Eq(h) == h = [i \in 1..Len(poses) + 1 |->
                            IF i = 1 THEN 0 ELSE h[i - 1] + poses[i - 1].frames]
           add == [i \in 1..n |-> poses[i].frames]
<1>1. PICK sums \in [0..n -> Nat] : Sums(sums, n, add)
  <2>1. \A i \in 1..n : add[i] \in Nat
      OBVIOUS
  <2> HIDE DEF add
  <2> QED  BY <2>1, SumsExist
<1> DEFINE h0 == [i \in 1..n + 1 |-> sums[i - 1]]
<1>2. Eq(h0)
  <2>1. ASSUME NEW i \in 1..n + 1
        PROVE  h0[i] = IF i = 1 THEN 0 ELSE h0[i - 1] + poses[i - 1].frames
    <3>1. CASE i = 1
        BY <1>1, <3>1 DEF Sums
    <3>2. CASE i # 1
      <4>1. i - 1 \in 1..n /\ i - 1 \in 1..n + 1 /\ i - 1 - 1 = (i - 1) - 1
          BY <3>2
      <4>2. sums[i - 1] = sums[(i - 1) - 1] + add[i - 1]
          BY <1>1, <4>1 DEF Sums
      <4>3. add[i - 1] = poses[i - 1].frames /\ h0[i - 1] = sums[(i - 1) - 1]
          BY <4>1
      <4> QED  BY <3>2, <4>2, <4>3
    <3> QED  BY <3>1, <3>2
  <2> QED  BY <2>1
<1>3. Begins(poses) = CHOOSE h : Eq(h)
    BY DEF Begins
<1>4. PICK b : b = Begins(poses)
    OBVIOUS
<1>5. Eq(b)
  <2> HIDE DEF Eq, h0
  <2> QED  BY <1>2, <1>3, <1>4
<1>6. b[1] = 0
    BY <1>5
<1>7. \A i \in 1..n : b[i + 1] = b[i] + poses[i].frames
  <2> SUFFICES ASSUME NEW i \in 1..n PROVE b[i + 1] = b[i] + poses[i].frames
      OBVIOUS
  <2>1. i + 1 \in 1..Len(poses) + 1 /\ i + 1 # 1 /\ i + 1 - 1 = i
      OBVIOUS
  <2> QED  BY <1>5, <2>1
<1>8. \A i \in 1..n + 1 : b[i] \in Nat
  <2> DEFINE S == {k \in 0..n : b[k + 1] \in Nat}
  <2>1. 0 \in S
      BY <1>6
  <2>2. ASSUME NEW k \in 0..n - 1, k \in S PROVE k + 1 \in S
    <3>1. b[(k + 1) + 1] = b[k + 1] + poses[k + 1].frames
        BY <1>7
    <3>2. poses[k + 1].frames \in Nat /\ b[k + 1] \in Nat
        BY <2>2
    <3> QED  BY <3>1, <3>2
  <2> HIDE DEF S
  <2>3. \A k \in 0..n : k \in S
      BY <2>1, <2>2, UpTo
  <2>4. ASSUME NEW i \in 1..n + 1 PROVE b[i] \in Nat
    <3>1. i - 1 \in S /\ i - 1 + 1 = i
        BY <2>3
    <3> QED  BY <3>1 DEF S
  <2> QED  BY <2>4
<1> QED  BY <1>4, <1>6, <1>7, <1>8

\* Remainders.
LEMMA Remainder ==
    ASSUME NEW f \in Nat, NEW n \in Nat \ {0}
    PROVE  f % n \in Nat /\ f % n < n
OBVIOUS

\* After f frames pose k of n is due.
IsDue(poses, n, b, f, k) ==
    /\ n \in Nat /\ Len(poses) = n /\ DOMAIN poses = 1..n /\ k \in 1..n
    /\ \A i \in 1..n : poses[i].frames \in Nat
    /\ b = Begins(poses)
    /\ f % b[n + 1] \in Nat /\ b[k] <= f % b[n + 1] /\ f % b[n + 1] < b[k + 1]

\* Of the poses of a loop no two are due.
LEMMA PoseOfPhase ==
    ASSUME NEW poses, NEW n, NEW b, NEW f, NEW k, IsDue(poses, n, b, f, k)
    PROVE  timed_pose(f, poses) = poses[k]
<1> USE DEF IsDue
<1> DEFINE Due(i) == f % Begins(poses)[Len(poses) + 1] \in Begins(poses)[i]..Begins(poses)[i + 1] - 1
<1>1. timed_pose(f, poses) = poses[CHOOSE i \in 1..n : Due(i)]
    BY DEF timed_pose
<1>2. PICK phase \in Nat : phase = f % b[n + 1]
    OBVIOUS
<1>3. /\ \A i \in 1..n + 1 : b[i] \in Nat
      /\ \A i \in 1..n : b[i] <= b[i + 1]
  <2>1. /\ \A i \in 1..n : b[i + 1] = b[i] + poses[i].frames
        /\ \A i \in 1..n + 1 : b[i] \in Nat
      BY BeginsAreSums
  <2>2. ASSUME NEW i \in 1..n PROVE b[i] <= b[i + 1]
    <3>1. b[i + 1] = b[i] + poses[i].frames /\ b[i] \in Nat /\ poses[i].frames \in Nat
        BY <2>1
    <3> QED  BY <3>1
  <2> QED  BY <2>1, <2>2
<1>4. \A i \in 1..n : Due(i) <=> b[i] <= phase /\ phase < b[i + 1]
  <2> SUFFICES ASSUME NEW i \in 1..n PROVE Due(i) <=> b[i] <= phase /\ phase < b[i + 1]
      OBVIOUS
  <2>1. Due(i) <=> phase \in b[i]..b[i + 1] - 1
      BY <1>2
  <2>2. b[i] \in Nat /\ b[i + 1] \in Nat
      BY <1>3
  <2> HIDE DEF Due
  <2> QED  BY <1>2, <2>1, <2>2
<1> HIDE DEF Due
<1>5. ASSUME NEW i \in 1..n, NEW j \in 1..n, i < j PROVE b[i + 1] <= b[j]
  <2> DEFINE S == {m \in 0..j - (i + 1) : b[i + 1] <= b[i + 1 + m]}
  <2>1. 0 \in S
      BY <1>3, <1>5
  <2>2. ASSUME NEW m \in 0..j - (i + 1) - 1, m \in S PROVE m + 1 \in S
    <3>1. i + 1 + m \in 1..n /\ i + 1 + (m + 1) = (i + 1 + m) + 1
        BY <1>5
    <3>2. /\ b[i + 1 + m] <= b[(i + 1 + m) + 1] /\ b[i + 1] <= b[i + 1 + m]
          /\ b[i + 1 + m] \in Nat /\ b[(i + 1 + m) + 1] \in Nat /\ b[i + 1] \in Nat
      <4>1. b[i + 1] <= b[i + 1 + m]
          BY <2>2
      <4>2. i + 1 \in 1..n + 1 /\ (i + 1 + m) + 1 \in 1..n + 1 /\ i + 1 + m \in 1..n + 1
          BY <3>1
      <4>3. b[i + 1] \in Nat /\ b[i + 1 + m] \in Nat /\ b[(i + 1 + m) + 1] \in Nat
          BY <1>3, <4>2
      <4>4. b[i + 1 + m] <= b[(i + 1 + m) + 1]
          BY <1>3, <3>1
      <4> QED  BY <4>1, <4>3, <4>4
    <3>3. m + 1 \in 0..j - (i + 1)
        BY <2>2
    <3> QED  BY <3>1, <3>2, <3>3
  <2>3. j - (i + 1) \in Nat
      BY <1>5
  <2> HIDE DEF S
  <2>4. \A m \in 0..j - (i + 1) : m \in S
      BY <2>1, <2>2, <2>3, UpTo
  <2>5. j - (i + 1) \in S /\ i + 1 + (j - (i + 1)) = j
      BY <2>3, <2>4
  <2> QED  BY <2>5 DEF S
<1>6. ASSUME NEW i \in 1..n, Due(i) PROVE i = k
  <2>1. b[i] <= phase /\ phase < b[i + 1] /\ b[k] <= phase /\ phase < b[k + 1]
      BY <1>2, <1>4, <1>6
  <2>2. b[i] \in Nat /\ b[i + 1] \in Nat /\ b[k] \in Nat /\ b[k + 1] \in Nat
      BY <1>3
  <2>3. ~(i < k) /\ ~(k < i)
      BY <1>5, <2>1, <2>2
  <2> QED  BY <2>3
<1>7. Due(k)
    BY <1>2, <1>4
<1> QED  BY <1>1, <1>6, <1>7

\* Loops of two poses, and the longer ones.
LEMMA TwoPoses ==
    ASSUME NEW p, NEW q, p.frames \in Nat \ {0}, q.frames \in Nat \ {0}, NEW f \in Nat
    PROVE  timed_pose(f, <<p, q>>) = IF f % (p.frames + q.frames) < p.frames THEN p ELSE q
<1> DEFINE poses == <<p, q>>
<1>1. /\ Len(poses) = 2 /\ DOMAIN poses = 1..2
      /\ poses[1] = p /\ poses[2] = q
      /\ \A i \in 1..2 : poses[i].frames \in Nat
    OBVIOUS
<1> HIDE DEF poses
<1>2. PICK b : b = Begins(poses)
    OBVIOUS
<1>3. b[1] = 0 /\ b[2] = p.frames /\ b[2 + 1] = p.frames + q.frames
  <2>1. b[1] = 0 /\ \A i \in 1..2 : b[i + 1] = b[i] + poses[i].frames
      BY <1>1, <1>2, BeginsAreSums
  <2>2. b[1 + 1] = b[1] + poses[1].frames /\ b[2 + 1] = b[2] + poses[2].frames
      BY <2>1
  <2> QED  BY <1>1, <2>1, <2>2
<1>4. PICK total \in Nat \ {0} : total = p.frames + q.frames
    OBVIOUS
<1>5. PICK phase \in Nat : phase = f % total /\ phase < total
    BY Remainder
<1>6. f % b[2 + 1] = phase
    BY <1>3, <1>4, <1>5
<1>7. CASE phase < p.frames
  <2>1. b[1] <= f % b[2 + 1] /\ f % b[2 + 1] < b[1 + 1] /\ f % b[2 + 1] \in Nat
      BY <1>3, <1>6, <1>7
  <2>2. IsDue(poses, 2, b, f, 1)
      BY <1>1, <1>2, <2>1 DEF IsDue
  <2>3. timed_pose(f, poses) = poses[1]
      BY <2>2, PoseOfPhase
  <2> QED  BY <1>1, <1>4, <1>5, <1>7, <2>3 DEF poses
<1>8. CASE ~(phase < p.frames)
  <2>1. b[2] <= f % b[2 + 1] /\ f % b[2 + 1] < b[2 + 1] /\ f % b[2 + 1] \in Nat
      BY <1>3, <1>4, <1>5, <1>6, <1>8
  <2>2. IsDue(poses, 2, b, f, 2)
      BY <1>1, <1>2, <2>1 DEF IsDue
  <2>3. timed_pose(f, poses) = poses[2]
      BY <2>2, PoseOfPhase
  <2> QED  BY <1>1, <1>4, <1>5, <1>8, <2>3 DEF poses
<1> QED  BY <1>7, <1>8

LEMMA IdleLoop ==
    ASSUME NEW f \in Nat
    PROVE  timed_pose(f, IDLE_LOOP) =
             IF f % 90 < 34 THEN IDLE_LOOP[1]
             ELSE IF f % 90 < 60 THEN IDLE_LOOP[2]
             ELSE IDLE_LOOP[3]
<1>1. Len(IDLE_LOOP) = 3 /\ DOMAIN IDLE_LOOP = 1..3
    BY DEF IDLE_LOOP, TimedPose
<1>2. /\ IDLE_LOOP[1].frames = 34
      /\ IDLE_LOOP[2].frames = 26
      /\ IDLE_LOOP[3].frames = 30
    BY DEF IDLE_LOOP, TimedPose
<1>3. PICK b : b = Begins(IDLE_LOOP)
    OBVIOUS
<1>4. \A i \in 1..3 : IDLE_LOOP[i].frames \in Nat
    BY <1>2
<1>5. b[1] = 0 /\ b[1 + 1] = 34 /\ b[2 + 1] = 60 /\ b[3 + 1] = 90
  <2>1. b[1] = 0 /\ \A i \in 1..3 : b[i + 1] = b[i] + IDLE_LOOP[i].frames
      BY <1>1, <1>3, <1>4, BeginsAreSums
  <2>2. /\ b[1 + 1] = b[1] + IDLE_LOOP[1].frames
        /\ b[2 + 1] = b[2] + IDLE_LOOP[2].frames
        /\ b[3 + 1] = b[3] + IDLE_LOOP[3].frames
      BY <2>1
  <2> QED  BY <1>2, <2>1, <2>2
<1>6. PICK phase \in Nat : phase = f % 90 /\ phase < 90 /\ phase = f % b[3 + 1]
    BY <1>5
<1>7. CASE phase < 34
  <2>1. IsDue(IDLE_LOOP, 3, b, f, 1)
    <3>1. b[1] <= phase /\ phase < b[1 + 1]
        BY <1>5, <1>6, <1>7
    <3> QED  BY <1>1, <1>3, <1>4, <1>6, <3>1 DEF IsDue
  <2>2. timed_pose(f, IDLE_LOOP) = IDLE_LOOP[1]
      BY <2>1, PoseOfPhase
  <2> QED  BY <1>6, <1>7, <2>2
<1>8. CASE 34 <= phase /\ phase < 60
  <2>1. IsDue(IDLE_LOOP, 3, b, f, 2)
    <3>1. b[2] <= phase /\ phase < b[2 + 1]
        BY <1>5, <1>6, <1>8
    <3> QED  BY <1>1, <1>3, <1>4, <1>6, <3>1 DEF IsDue
  <2>2. timed_pose(f, IDLE_LOOP) = IDLE_LOOP[2]
      BY <2>1, PoseOfPhase
  <2> QED  BY <1>6, <1>8, <2>2
<1>9. CASE 60 <= phase
  <2>1. IsDue(IDLE_LOOP, 3, b, f, 3)
    <3>1. b[3] <= phase /\ phase < b[3 + 1]
        BY <1>5, <1>6, <1>9
    <3> QED  BY <1>1, <1>3, <1>4, <1>6, <3>1 DEF IsDue
  <2>2. timed_pose(f, IDLE_LOOP) = IDLE_LOOP[3]
      BY <2>1, PoseOfPhase
  <2> QED  BY <1>6, <1>9, <2>2
<1> QED  BY <1>6, <1>7, <1>8, <1>9

LEMMA BlinkLoop ==
    ASSUME NEW f \in Nat
    PROVE  timed_pose(f, BLINK_LOOP) =
             IF f % 7 < 2 THEN BLINK_LOOP[1]
             ELSE IF f % 7 < 5 THEN BLINK_LOOP[2]
             ELSE BLINK_LOOP[3]
<1>1. Len(BLINK_LOOP) = 3 /\ DOMAIN BLINK_LOOP = 1..3
    BY DEF BLINK_LOOP, TimedPose
<1>2. /\ BLINK_LOOP[1].frames = 2
      /\ BLINK_LOOP[2].frames = 3
      /\ BLINK_LOOP[3].frames = 2
    BY DEF BLINK_LOOP, TimedPose
<1>3. PICK b : b = Begins(BLINK_LOOP)
    OBVIOUS
<1>4. \A i \in 1..3 : BLINK_LOOP[i].frames \in Nat
    BY <1>2
<1>5. b[1] = 0 /\ b[1 + 1] = 2 /\ b[2 + 1] = 5 /\ b[3 + 1] = 7
  <2>1. b[1] = 0 /\ \A i \in 1..3 : b[i + 1] = b[i] + BLINK_LOOP[i].frames
      BY <1>1, <1>3, <1>4, BeginsAreSums
  <2>2. /\ b[1 + 1] = b[1] + BLINK_LOOP[1].frames
        /\ b[2 + 1] = b[2] + BLINK_LOOP[2].frames
        /\ b[3 + 1] = b[3] + BLINK_LOOP[3].frames
      BY <2>1
  <2> QED  BY <1>2, <2>1, <2>2
<1>6. PICK phase \in Nat : phase = f % 7 /\ phase < 7 /\ phase = f % b[3 + 1]
    BY <1>5
<1>7. CASE phase < 2
  <2>1. IsDue(BLINK_LOOP, 3, b, f, 1)
    <3>1. b[1] <= phase /\ phase < b[1 + 1]
        BY <1>5, <1>6, <1>7
    <3> QED  BY <1>1, <1>3, <1>4, <1>6, <3>1 DEF IsDue
  <2>2. timed_pose(f, BLINK_LOOP) = BLINK_LOOP[1]
      BY <2>1, PoseOfPhase
  <2> QED  BY <1>6, <1>7, <2>2
<1>8. CASE 2 <= phase /\ phase < 5
  <2>1. IsDue(BLINK_LOOP, 3, b, f, 2)
    <3>1. b[2] <= phase /\ phase < b[2 + 1]
        BY <1>5, <1>6, <1>8
    <3> QED  BY <1>1, <1>3, <1>4, <1>6, <3>1 DEF IsDue
  <2>2. timed_pose(f, BLINK_LOOP) = BLINK_LOOP[2]
      BY <2>1, PoseOfPhase
  <2> QED  BY <1>6, <1>8, <2>2
<1>9. CASE 5 <= phase
  <2>1. IsDue(BLINK_LOOP, 3, b, f, 3)
    <3>1. b[3] <= phase /\ phase < b[3 + 1]
        BY <1>5, <1>6, <1>9
    <3> QED  BY <1>1, <1>3, <1>4, <1>6, <3>1 DEF IsDue
  <2>2. timed_pose(f, BLINK_LOOP) = BLINK_LOOP[3]
      BY <2>1, PoseOfPhase
  <2> QED  BY <1>6, <1>9, <2>2
<1> QED  BY <1>6, <1>7, <1>8, <1>9

LEMMA ExcitedLoop ==
    ASSUME NEW f \in Nat
    PROVE  timed_pose(f, EXCITED_LOOP) =
             IF f % 15 < 5 THEN EXCITED_LOOP[1]
             ELSE IF f % 15 < 9 THEN EXCITED_LOOP[2]
             ELSE EXCITED_LOOP[3]
<1>1. Len(EXCITED_LOOP) = 3 /\ DOMAIN EXCITED_LOOP = 1..3
    BY DEF EXCITED_LOOP, TimedPose
<1>2. /\ EXCITED_LOOP[1].frames = 5
      /\ EXCITED_LOOP[2].frames = 4
      /\ EXCITED_LOOP[3].frames = 6
    BY DEF EXCITED_LOOP, TimedPose
<1>3. PICK b : b = Begins(EXCITED_LOOP)
    OBVIOUS
<1>4. \A i \in 1..3 : EXCITED_LOOP[i].frames \in Nat
    BY <1>2
<1>5. b[1] = 0 /\ b[1 + 1] = 5 /\ b[2 + 1] = 9 /\ b[3 + 1] = 15
  <2>1. b[1] = 0 /\ \A i \in 1..3 : b[i + 1] = b[i] + EXCITED_LOOP[i].frames
      BY <1>1, <1>3, <1>4, BeginsAreSums
  <2>2. /\ b[1 + 1] = b[1] + EXCITED_LOOP[1].frames
        /\ b[2 + 1] = b[2] + EXCITED_LOOP[2].frames
        /\ b[3 + 1] = b[3] + EXCITED_LOOP[3].frames
      BY <2>1
  <2> QED  BY <1>2, <2>1, <2>2
<1>6. PICK phase \in Nat : phase = f % 15 /\ phase < 15 /\ phase = f % b[3 + 1]
    BY <1>5
<1>7. CASE phase < 5
  <2>1. IsDue(EXCITED_LOOP, 3, b, f, 1)
    <3>1. b[1] <= phase /\ phase < b[1 + 1]
        BY <1>5, <1>6, <1>7
    <3> QED  BY <1>1, <1>3, <1>4, <1>6, <3>1 DEF IsDue
  <2>2. timed_pose(f, EXCITED_LOOP) = EXCITED_LOOP[1]
      BY <2>1, PoseOfPhase
  <2> QED  BY <1>6, <1>7, <2>2
<1>8. CASE 5 <= phase /\ phase < 9
  <2>1. IsDue(EXCITED_LOOP, 3, b, f, 2)
    <3>1. b[2] <= phase /\ phase < b[2 + 1]
        BY <1>5, <1>6, <1>8
    <3> QED  BY <1>1, <1>3, <1>4, <1>6, <3>1 DEF IsDue
  <2>2. timed_pose(f, EXCITED_LOOP) = EXCITED_LOOP[2]
      BY <2>1, PoseOfPhase
  <2> QED  BY <1>6, <1>8, <2>2
<1>9. CASE 9 <= phase
  <2>1. IsDue(EXCITED_LOOP, 3, b, f, 3)
    <3>1. b[3] <= phase /\ phase < b[3 + 1]
        BY <1>5, <1>6, <1>9
    <3> QED  BY <1>1, <1>3, <1>4, <1>6, <3>1 DEF IsDue
  <2>2. timed_pose(f, EXCITED_LOOP) = EXCITED_LOOP[3]
      BY <2>1, PoseOfPhase
  <2> QED  BY <1>6, <1>9, <2>2
<1> QED  BY <1>6, <1>7, <1>8, <1>9

LEMMA HappyLoop ==
    ASSUME NEW f \in Nat
    PROVE  timed_pose(f, HAPPY_LOOP) =
             IF f % 22 < 6 THEN HAPPY_LOOP[1]
             ELSE IF f % 22 < 11 THEN HAPPY_LOOP[2]
             ELSE IF f % 22 < 17 THEN HAPPY_LOOP[3]
             ELSE HAPPY_LOOP[4]
<1>1. Len(HAPPY_LOOP) = 4 /\ DOMAIN HAPPY_LOOP = 1..4
    BY DEF HAPPY_LOOP, TimedPose
<1>2. /\ HAPPY_LOOP[1].frames = 6
      /\ HAPPY_LOOP[2].frames = 5
      /\ HAPPY_LOOP[3].frames = 6
      /\ HAPPY_LOOP[4].frames = 5
    BY DEF HAPPY_LOOP, TimedPose
<1>3. PICK b : b = Begins(HAPPY_LOOP)
    OBVIOUS
<1>4. \A i \in 1..4 : HAPPY_LOOP[i].frames \in Nat
    BY <1>2
<1>5. b[1] = 0 /\ b[1 + 1] = 6 /\ b[2 + 1] = 11 /\ b[3 + 1] = 17 /\ b[4 + 1] = 22
  <2>1. b[1] = 0 /\ \A i \in 1..4 : b[i + 1] = b[i] + HAPPY_LOOP[i].frames
      BY <1>1, <1>3, <1>4, BeginsAreSums
  <2>2. /\ b[1 + 1] = b[1] + HAPPY_LOOP[1].frames
        /\ b[2 + 1] = b[2] + HAPPY_LOOP[2].frames
        /\ b[3 + 1] = b[3] + HAPPY_LOOP[3].frames
        /\ b[4 + 1] = b[4] + HAPPY_LOOP[4].frames
      BY <2>1
  <2> QED  BY <1>2, <2>1, <2>2
<1>6. PICK phase \in Nat : phase = f % 22 /\ phase < 22 /\ phase = f % b[4 + 1]
    BY <1>5
<1>7. CASE phase < 6
  <2>1. IsDue(HAPPY_LOOP, 4, b, f, 1)
    <3>1. b[1] <= phase /\ phase < b[1 + 1]
        BY <1>5, <1>6, <1>7
    <3> QED  BY <1>1, <1>3, <1>4, <1>6, <3>1 DEF IsDue
  <2>2. timed_pose(f, HAPPY_LOOP) = HAPPY_LOOP[1]
      BY <2>1, PoseOfPhase
  <2> QED  BY <1>6, <1>7, <2>2
<1>8. CASE 6 <= phase /\ phase < 11
  <2>1. IsDue(HAPPY_LOOP, 4, b, f, 2)
    <3>1. b[2] <= phase /\ phase < b[2 + 1]
        BY <1>5, <1>6, <1>8
    <3> QED  BY <1>1, <1>3, <1>4, <1>6, <3>1 DEF IsDue
  <2>2. timed_pose(f, HAPPY_LOOP) = HAPPY_LOOP[2]
      BY <2>1, PoseOfPhase
  <2> QED  BY <1>6, <1>8, <2>2
<1>9. CASE 11 <= phase /\ phase < 17
  <2>1. IsDue(HAPPY_LOOP, 4, b, f, 3)
    <3>1. b[3] <= phase /\ phase < b[3 + 1]
        BY <1>5, <1>6, <1>9
    <3> QED  BY <1>1, <1>3, <1>4, <1>6, <3>1 DEF IsDue
  <2>2. timed_pose(f, HAPPY_LOOP) = HAPPY_LOOP[3]
      BY <2>1, PoseOfPhase
  <2> QED  BY <1>6, <1>9, <2>2
<1>10. CASE 17 <= phase
  <2>1. IsDue(HAPPY_LOOP, 4, b, f, 4)
    <3>1. b[4] <= phase /\ phase < b[4 + 1]
        BY <1>5, <1>6, <1>10
    <3> QED  BY <1>1, <1>3, <1>4, <1>6, <3>1 DEF IsDue
  <2>2. timed_pose(f, HAPPY_LOOP) = HAPPY_LOOP[4]
      BY <2>1, PoseOfPhase
  <2> QED  BY <1>6, <1>10, <2>2
<1> QED  BY <1>6, <1>7, <1>8, <1>9, <1>10

LEMMA LookLoop ==
    ASSUME NEW f \in Nat
    PROVE  timed_pose(f, LOOK_LOOP) =
             IF f % 62 < 10 THEN LOOK_LOOP[1]
             ELSE IF f % 62 < 24 THEN LOOK_LOOP[2]
             ELSE IF f % 62 < 32 THEN LOOK_LOOP[3]
             ELSE IF f % 62 < 46 THEN LOOK_LOOP[4]
             ELSE IF f % 62 < 54 THEN LOOK_LOOP[5]
             ELSE LOOK_LOOP[6]
<1>1. Len(LOOK_LOOP) = 6 /\ DOMAIN LOOK_LOOP = 1..6
    BY DEF LOOK_LOOP, TimedPose
<1>2. /\ LOOK_LOOP[1].frames = 10
      /\ LOOK_LOOP[2].frames = 14
      /\ LOOK_LOOP[3].frames = 8
      /\ LOOK_LOOP[4].frames = 14
      /\ LOOK_LOOP[5].frames = 8
      /\ LOOK_LOOP[6].frames = 8
    BY DEF LOOK_LOOP, TimedPose
<1>3. PICK b : b = Begins(LOOK_LOOP)
    OBVIOUS
<1>4. \A i \in 1..6 : LOOK_LOOP[i].frames \in Nat
    BY <1>2
<1>5. b[1] = 0 /\ b[1 + 1] = 10 /\ b[2 + 1] = 24 /\ b[3 + 1] = 32 /\ b[4 + 1] = 46 /\ b[5 + 1] = 54 /\ b[6 + 1] = 62
  <2>1. b[1] = 0 /\ \A i \in 1..6 : b[i + 1] = b[i] + LOOK_LOOP[i].frames
      BY <1>1, <1>3, <1>4, BeginsAreSums
  <2>2. /\ b[1 + 1] = b[1] + LOOK_LOOP[1].frames
        /\ b[2 + 1] = b[2] + LOOK_LOOP[2].frames
        /\ b[3 + 1] = b[3] + LOOK_LOOP[3].frames
        /\ b[4 + 1] = b[4] + LOOK_LOOP[4].frames
        /\ b[5 + 1] = b[5] + LOOK_LOOP[5].frames
        /\ b[6 + 1] = b[6] + LOOK_LOOP[6].frames
      BY <2>1
  <2> QED  BY <1>2, <2>1, <2>2
<1>6. PICK phase \in Nat : phase = f % 62 /\ phase < 62 /\ phase = f % b[6 + 1]
    BY <1>5
<1>7. CASE phase < 10
  <2>1. IsDue(LOOK_LOOP, 6, b, f, 1)
    <3>1. b[1] <= phase /\ phase < b[1 + 1]
        BY <1>5, <1>6, <1>7
    <3> QED  BY <1>1, <1>3, <1>4, <1>6, <3>1 DEF IsDue
  <2>2. timed_pose(f, LOOK_LOOP) = LOOK_LOOP[1]
      BY <2>1, PoseOfPhase
  <2> QED  BY <1>6, <1>7, <2>2
<1>8. CASE 10 <= phase /\ phase < 24
  <2>1. IsDue(LOOK_LOOP, 6, b, f, 2)
    <3>1. b[2] <= phase /\ phase < b[2 + 1]
        BY <1>5, <1>6, <1>8
    <3> QED  BY <1>1, <1>3, <1>4, <1>6, <3>1 DEF IsDue
  <2>2. timed_pose(f, LOOK_LOOP) = LOOK_LOOP[2]
      BY <2>1, PoseOfPhase
  <2> QED  BY <1>6, <1>8, <2>2
<1>9. CASE 24 <= phase /\ phase < 32
  <2>1. IsDue(LOOK_LOOP, 6, b, f, 3)
    <3>1. b[3] <= phase /\ phase < b[3 + 1]
        BY <1>5, <1>6, <1>9
    <3> QED  BY <1>1, <1>3, <1>4, <1>6, <3>1 DEF IsDue
  <2>2. timed_pose(f, LOOK_LOOP) = LOOK_LOOP[3]
      BY <2>1, PoseOfPhase
  <2> QED  BY <1>6, <1>9, <2>2
<1>10. CASE 32 <= phase /\ phase < 46
  <2>1. IsDue(LOOK_LOOP, 6, b, f, 4)
    <3>1. b[4] <= phase /\ phase < b[4 + 1]
        BY <1>5, <1>6, <1>10
    <3> QED  BY <1>1, <1>3, <1>4, <1>6, <3>1 DEF IsDue
  <2>2. timed_pose(f, LOOK_LOOP) = LOOK_LOOP[4]
      BY <2>1, PoseOfPhase
  <2> QED  BY <1>6, <1>10, <2>2
<1>11. CASE 46 <= phase /\ phase < 54
  <2>1. IsDue(LOOK_LOOP, 6, b, f, 5)
    <3>1. b[5] <= phase /\ phase < b[5 + 1]
        BY <1>5, <1>6, <1>11
    <3> QED  BY <1>1, <1>3, <1>4, <1>6, <3>1 DEF IsDue
  <2>2. timed_pose(f, LOOK_LOOP) = LOOK_LOOP[5]
      BY <2>1, PoseOfPhase
  <2> QED  BY <1>6, <1>11, <2>2
<1>12. CASE 54 <= phase
  <2>1. IsDue(LOOK_LOOP, 6, b, f, 6)
    <3>1. b[6] <= phase /\ phase < b[6 + 1]
        BY <1>5, <1>6, <1>12
    <3> QED  BY <1>1, <1>3, <1>4, <1>6, <3>1 DEF IsDue
  <2>2. timed_pose(f, LOOK_LOOP) = LOOK_LOOP[6]
      BY <2>1, PoseOfPhase
  <2> QED  BY <1>6, <1>12, <2>2
<1> QED  BY <1>6, <1>7, <1>8, <1>9, <1>10, <1>11, <1>12

-----------------------------------------------------------------------------
(***************************************************************************)
(* Offsets: every animation but the patrol is a loop of poses on two       *)
(* waves.                                                                  *)
(***************************************************************************)
LoopOf(animation) ==
    CASE animation = "idle" -> IDLE_LOOP
      [] animation = "blink" -> BLINK_LOOP
      [] animation = "look_around" -> LOOK_LOOP
      [] animation = "confused" -> CONFUSED_LOOP
      [] animation = "happy" -> HAPPY_LOOP
      [] animation = "play" -> PLAY_LOOP
      [] animation = "excited" -> EXCITED_LOOP
      [] animation = "sleepy" -> SLEEPY_LOOP
      [] animation = "nap" -> NAP_LOOP
      [] animation = "worried" -> WORRIED_LOOP
      [] animation = "alert" -> ALERT_LOOP

WaveX(animation, f) ==
    CASE animation = "confused" -> wave(f, 5, 0, 1)
      [] animation = "happy" -> wave(f, 2, 0, 1)
      [] animation \in {"play", "worried"} -> wave(f, 3, 0, 1)
      [] animation = "excited" -> wave(f, 4, 0, 1)
      [] animation = "nap" -> wave(f, 1, 0, 1)
      [] animation = "alert" -> wave(f, 7, 0, 1)
      [] OTHER -> 0

WaveY(animation, g, f) ==
    CASE animation = "blink" -> wave(g, 1, 8, 1)
      [] animation = "look_around" -> wave(g, 1, 16, 1)
      [] animation = "confused" -> wave(f, 2, 16, 1)
      [] animation = "happy" -> -wave_abs(f, 4, 16, 1)
      [] animation = "play" -> wave(f, 4, 16, 1)
      [] animation \in {"sleepy", "worried"} -> 1 + wave(f, 1, 16, 1)
      [] animation = "nap" -> wave(f, 1, 16, 1)
      [] animation = "alert" -> -wave_abs(f, 7, 16, 1)
      [] OTHER -> 0

LEMMA PoseParts ==
    ASSUME NEW animation \in Animations \ {"walk"}, NEW g, NEW f
    PROVE  PoseAt(animation, g, f)
             = Moved(timed_pose(f, LoopOf(animation)), WaveX(animation, f), WaveY(animation, g, f))
BY DEF PoseAt, LoopOf, WaveX, WaveY, Animations

\* The poses of each animation.
LEMMA LoopPoses ==
    ASSUME NEW f \in Nat
    PROVE  /\ timed_pose(f, IDLE_LOOP) \in {IDLE_LOOP[1], IDLE_LOOP[2], IDLE_LOOP[3]}
           /\ timed_pose(f, BLINK_LOOP) \in {BLINK_LOOP[1], BLINK_LOOP[2], BLINK_LOOP[3]}
           /\ timed_pose(f, LOOK_LOOP) \in {LOOK_LOOP[1], LOOK_LOOP[2], LOOK_LOOP[3],
                                            LOOK_LOOP[4], LOOK_LOOP[5], LOOK_LOOP[6]}
           /\ timed_pose(f, HAPPY_LOOP) \in {HAPPY_LOOP[1], HAPPY_LOOP[2], HAPPY_LOOP[3],
                                             HAPPY_LOOP[4]}
           /\ timed_pose(f, EXCITED_LOOP) \in {EXCITED_LOOP[1], EXCITED_LOOP[2], EXCITED_LOOP[3]}
           /\ \A loop \in {CONFUSED_LOOP, PLAY_LOOP, SLEEPY_LOOP, NAP_LOOP, WORRIED_LOOP,
                           ALERT_LOOP, WALK_RIGHT_LOOP, WALK_LEFT_LOOP} :
                 timed_pose(f, loop) \in {loop[1], loop[2]}
<1>1. timed_pose(f, IDLE_LOOP) \in {IDLE_LOOP[1], IDLE_LOOP[2], IDLE_LOOP[3]}
    BY IdleLoop
<1>2. timed_pose(f, BLINK_LOOP) \in {BLINK_LOOP[1], BLINK_LOOP[2], BLINK_LOOP[3]}
    BY BlinkLoop
<1>3. timed_pose(f, LOOK_LOOP) \in {LOOK_LOOP[1], LOOK_LOOP[2], LOOK_LOOP[3],
                                    LOOK_LOOP[4], LOOK_LOOP[5], LOOK_LOOP[6]}
    BY LookLoop
<1>4. timed_pose(f, HAPPY_LOOP) \in {HAPPY_LOOP[1], HAPPY_LOOP[2], HAPPY_LOOP[3], HAPPY_LOOP[4]}
    BY HappyLoop
<1>5. timed_pose(f, EXCITED_LOOP) \in {EXCITED_LOOP[1], EXCITED_LOOP[2], EXCITED_LOOP[3]}
    BY ExcitedLoop
<1>6. ASSUME NEW loop \in {CONFUSED_LOOP, PLAY_LOOP, SLEEPY_LOOP, NAP_LOOP, WORRIED_LOOP,
                           ALERT_LOOP, WALK_RIGHT_LOOP, WALK_LEFT_LOOP}
      PROVE  timed_pose(f, loop) \in {loop[1], loop[2]}
  <2>1. loop = <<loop[1], loop[2]>> /\ loop[1].frames \in Nat \ {0} /\ loop[2].frames \in Nat \ {0}
      BY DEF CONFUSED_LOOP, PLAY_LOOP, SLEEPY_LOOP, NAP_LOOP, WORRIED_LOOP, ALERT_LOOP,
             WALK_RIGHT_LOOP, WALK_LEFT_LOOP, TimedPose
  <2>2. PICK p, q : p = loop[1] /\ q = loop[2]
      OBVIOUS
  <2>3. timed_pose(f, <<p, q>>) \in {p, q}
      BY <2>1, <2>2, TwoPoses
  <2> QED  BY <2>1, <2>2, <2>3
<1> QED  BY <1>1, <1>2, <1>3, <1>4, <1>5, <1>6

\* The waves are small ...
LEMMA WavesAreSmall ==
    ASSUME NEW animation \in Animations, NEW g \in Nat, NEW f \in Nat
    PROVE  /\ WaveX(animation, f) \in {-1, 0, 1}
           /\ WaveY(animation, g, f) \in
                 IF animation \in {"sleepy", "worried"} THEN {0, 1, 2}
                 ELSE IF animation \in {"happy", "alert"} THEN {-1, 0} ELSE {-1, 0, 1}
           /\ animation \in {"idle", "blink", "look_around", "sleepy"} => WaveX(animation, f) = 0
           /\ animation \in {"idle", "excited"} => WaveY(animation, g, f) = 0
<1>1. \A h, s, p \in Nat : wave(h, s, p, 1) \in {-1, 0, 1} /\ wave_abs(h, s, p, 1) \in {0, 1}
    BY WaveRange
<1>2. WaveX(animation, f) \in {-1, 0, 1}
    BY <1>1 DEF WaveX
<1>3. WaveY(animation, g, f) \in
         IF animation \in {"sleepy", "worried"} THEN {0, 1, 2}
         ELSE IF animation \in {"happy", "alert"} THEN {-1, 0} ELSE {-1, 0, 1}
  <2>1. animation \in {"sleepy", "worried"} => WaveY(animation, g, f) \in {0, 1, 2}
    <3>1. PICK w \in {-1, 0, 1} : w = wave(f, 1, 16, 1)
        BY <1>1
    <3>2. animation \in {"sleepy", "worried"} => WaveY(animation, g, f) = 1 + w
        BY <3>1 DEF WaveY
    <3> QED  BY <3>2
  <2>2. animation \in {"happy", "alert"} => WaveY(animation, g, f) \in {-1, 0}
    <3>1. PICK v \in {0, 1}, w \in {0, 1} : v = wave_abs(f, 4, 16, 1) /\ w = wave_abs(f, 7, 16, 1)
        BY <1>1
    <3>2. /\ animation = "happy" => WaveY(animation, g, f) = -v
          /\ animation = "alert" => WaveY(animation, g, f) = -w
        BY <3>1 DEF WaveY
    <3> QED  BY <3>2
  <2>3. animation \notin {"sleepy", "worried", "happy", "alert"} =>
            WaveY(animation, g, f) \in {-1, 0, 1}
      BY <1>1 DEF WaveY
  <2> QED  BY <2>1, <2>2, <2>3
<1>4. animation \in {"idle", "blink", "look_around", "sleepy"} => WaveX(animation, f) = 0
    BY DEF WaveX
<1>5. animation \in {"idle", "excited"} => WaveY(animation, g, f) = 0
    BY DEF WaveY
<1> QED  BY <1>2, <1>3, <1>4, <1>5

\* The patrol is never more than eighteen columns out.
LEMMA WalkingParts ==
    ASSUME NEW f \in Nat
    PROVE  /\ Walking(f).pose \in {"WalkRight00", "WalkRight01", "WalkLeft00", "WalkLeft01"}
           /\ Walking(f).x \in Int /\ Walking(f).x >= -18 /\ Walking(f).x <= 18
           /\ Walking(f).y \in {-1, 0, 1}
<1>1. PICK k \in Nat : k = f % WALK_HALF_PERIOD /\ k < 110
    BY DEF WALK_HALF_PERIOD
<1>2. PICK along \in Int : along = Quotient(k * 36, WALK_HALF_PERIOD - 1) /\ along >= 0 /\ along <= 36
  <2>1. k * 36 >= 0 /\ WALK_HALF_PERIOD - 1 = 109
      BY <1>1 DEF WALK_HALF_PERIOD
  <2>2. Quotient(k * 36, 109) = (k * 36) \div 109
      BY <2>1 DEF Quotient
  <2>3. (k * 36) \div 109 \in Int /\ (k * 36) \div 109 >= 0 /\ (k * 36) \div 109 <= 36
      BY <1>1
  <2> QED  BY <2>1, <2>2, <2>3
<1> DEFINE right == f % (2 * WALK_HALF_PERIOD) < WALK_HALF_PERIOD
<1>3. PICK t : t = timed_pose(f, IF right THEN WALK_RIGHT_LOOP ELSE WALK_LEFT_LOOP)
    OBVIOUS
<1>4. t.pose \in {"WalkRight00", "WalkRight01", "WalkLeft00", "WalkLeft01"} /\ t.y \in {-1, 0}
  <2>1. t \in {WALK_RIGHT_LOOP[1], WALK_RIGHT_LOOP[2], WALK_LEFT_LOOP[1], WALK_LEFT_LOOP[2]}
      BY <1>3, LoopPoses
  <2> QED  BY <2>1 DEF WALK_RIGHT_LOOP, WALK_LEFT_LOOP, TimedPose
<1>5. PICK bounce \in {0, 1} : bounce = wave_abs(f, 4, 0, 1)
    BY WaveRange
<1>6. Walking(f) = [pose |-> t.pose, x |-> IF right THEN -18 + along ELSE 18 - along,
                    y |-> t.y + bounce]
    BY <1>1, <1>2, <1>3, <1>5 DEF Walking
<1> HIDE DEF right
<1> QED  BY <1>2, <1>4, <1>5, <1>6

-----------------------------------------------------------------------------
(***************************************************************************)
(* The panel's edges.                                                      *)
(***************************************************************************)
\* A pose moved to at reaches over an edge by a row or a column at the most, which
\* only the wag and the naps do, and moves down by two rows at the most.
InPlace(at) ==
    /\ at.pose \in PoseId /\ at.x \in Int /\ at.y \in Int /\ at.y <= 2
    /\ LET s == sprite(at.pose) IN
       /\ at.x + s.x >= IF at.pose = "HappyWag00" THEN -1 ELSE 0
       /\ at.x + s.x + s.width <= CELL_WIDTH
       /\ at.y + s.y >= 0
       /\ at.y + s.y + s.height <= CELL_HEIGHT + IF at.pose \in {"Nap00", "Nap01"} THEN 1 ELSE 0

LEMMA LoopsInPlace ==
    ASSUME NEW animation \in Animations \ {"walk"}, NEW g \in Nat, NEW f \in Nat
    PROVE  InPlace(PoseAt(animation, g, f))
<1>1. PICK t, wx, wy : /\ t = timed_pose(f, LoopOf(animation))
                       /\ wx = WaveX(animation, f) /\ wy = WaveY(animation, g, f)
    OBVIOUS
<1>2. PoseAt(animation, g, f) = [pose |-> t.pose, x |-> t.x + wx, y |-> t.y + wy]
    BY <1>1, PoseParts DEF Moved
<1>3. /\ wx \in {-1, 0, 1}
      /\ wy \in IF animation \in {"sleepy", "worried"} THEN {0, 1, 2}
                ELSE IF animation \in {"happy", "alert"} THEN {-1, 0} ELSE {-1, 0, 1}
      /\ animation \in {"idle", "blink", "look_around", "sleepy"} => wx = 0
      /\ animation \in {"idle", "excited"} => wy = 0
    BY <1>1, WavesAreSmall
<1>4. CASE animation = "idle"
  <2>1. t \in {IDLE_LOOP[1], IDLE_LOOP[2], IDLE_LOOP[3]}
      BY <1>1, <1>4, LoopPoses DEF LoopOf
  <2>2. \/ t.pose = "Idle00" /\ t.x = 0 /\ t.y = 0
        \/ t.pose = "Idle01" /\ t.x = 0 /\ t.y = 0
        \/ t.pose = "Idle02" /\ t.x = 0 /\ t.y = 0
      BY <2>1 DEF IDLE_LOOP, TimedPose
  <2>3. CASE t.pose = "Idle00" /\ t.x = 0 /\ t.y = 0
      BY <1>2, <1>3, <1>4, <2>3
      DEF InPlace, PoseId, sprite, SPRITES, Sprite, CELL_WIDTH, CELL_HEIGHT
  <2>4. CASE t.pose = "Idle01" /\ t.x = 0 /\ t.y = 0
      BY <1>2, <1>3, <1>4, <2>4
      DEF InPlace, PoseId, sprite, SPRITES, Sprite, CELL_WIDTH, CELL_HEIGHT
  <2>5. CASE t.pose = "Idle02" /\ t.x = 0 /\ t.y = 0
      BY <1>2, <1>3, <1>4, <2>5
      DEF InPlace, PoseId, sprite, SPRITES, Sprite, CELL_WIDTH, CELL_HEIGHT
  <2> QED  BY <2>2, <2>3, <2>4, <2>5
<1>5. CASE animation = "blink"
  <2>1. t \in {BLINK_LOOP[1], BLINK_LOOP[2], BLINK_LOOP[3]}
      BY <1>1, <1>5, LoopPoses DEF LoopOf
  <2>2. \/ t.pose = "Blink00" /\ t.x = 0 /\ t.y = 0
        \/ t.pose = "Blink01" /\ t.x = 0 /\ t.y = 0
        \/ t.pose = "Blink02" /\ t.x = 0 /\ t.y = 0
      BY <2>1 DEF BLINK_LOOP, TimedPose
  <2>3. CASE t.pose = "Blink00" /\ t.x = 0 /\ t.y = 0
      BY <1>2, <1>3, <1>5, <2>3
      DEF InPlace, PoseId, sprite, SPRITES, Sprite, CELL_WIDTH, CELL_HEIGHT
  <2>4. CASE t.pose = "Blink01" /\ t.x = 0 /\ t.y = 0
      BY <1>2, <1>3, <1>5, <2>4
      DEF InPlace, PoseId, sprite, SPRITES, Sprite, CELL_WIDTH, CELL_HEIGHT
  <2>5. CASE t.pose = "Blink02" /\ t.x = 0 /\ t.y = 0
      BY <1>2, <1>3, <1>5, <2>5
      DEF InPlace, PoseId, sprite, SPRITES, Sprite, CELL_WIDTH, CELL_HEIGHT
  <2> QED  BY <2>2, <2>3, <2>4, <2>5
<1>6. CASE animation = "look_around"
  <2>1. t \in {LOOK_LOOP[1], LOOK_LOOP[2], LOOK_LOOP[3],
               LOOK_LOOP[4], LOOK_LOOP[5], LOOK_LOOP[6]}
      BY <1>1, <1>6, LoopPoses DEF LoopOf
  <2>2. \/ t.pose = "LookCenter" /\ t.x = 0 /\ t.y = 0
        \/ t.pose = "LookLeft" /\ t.x = -1 /\ t.y = 0
        \/ t.pose = "Listen00" /\ t.x = 0 /\ t.y = 0
        \/ t.pose = "LookRight" /\ t.x = 1 /\ t.y = 0
      BY <2>1 DEF LOOK_LOOP, TimedPose
  <2>3. CASE t.pose = "LookCenter" /\ t.x = 0 /\ t.y = 0
      BY <1>2, <1>3, <1>6, <2>3
      DEF InPlace, PoseId, sprite, SPRITES, Sprite, CELL_WIDTH, CELL_HEIGHT
  <2>4. CASE t.pose = "LookLeft" /\ t.x = -1 /\ t.y = 0
      BY <1>2, <1>3, <1>6, <2>4
      DEF InPlace, PoseId, sprite, SPRITES, Sprite, CELL_WIDTH, CELL_HEIGHT
  <2>5. CASE t.pose = "Listen00" /\ t.x = 0 /\ t.y = 0
      BY <1>2, <1>3, <1>6, <2>5
      DEF InPlace, PoseId, sprite, SPRITES, Sprite, CELL_WIDTH, CELL_HEIGHT
  <2>6. CASE t.pose = "LookRight" /\ t.x = 1 /\ t.y = 0
      BY <1>2, <1>3, <1>6, <2>6
      DEF InPlace, PoseId, sprite, SPRITES, Sprite, CELL_WIDTH, CELL_HEIGHT
  <2> QED  BY <2>2, <2>3, <2>4, <2>5, <2>6
<1>7. CASE animation = "confused"
  <2>1. t \in {CONFUSED_LOOP[1], CONFUSED_LOOP[2]}
      BY <1>1, <1>7, LoopPoses DEF LoopOf
  <2>2. \/ t.pose = "Confused00" /\ t.x = -1 /\ t.y = 0
        \/ t.pose = "Confused01" /\ t.x = 1 /\ t.y = 0
      BY <2>1 DEF CONFUSED_LOOP, TimedPose
  <2>3. CASE t.pose = "Confused00" /\ t.x = -1 /\ t.y = 0
      BY <1>2, <1>3, <1>7, <2>3
      DEF InPlace, PoseId, sprite, SPRITES, Sprite, CELL_WIDTH, CELL_HEIGHT
  <2>4. CASE t.pose = "Confused01" /\ t.x = 1 /\ t.y = 0
      BY <1>2, <1>3, <1>7, <2>4
      DEF InPlace, PoseId, sprite, SPRITES, Sprite, CELL_WIDTH, CELL_HEIGHT
  <2> QED  BY <2>2, <2>3, <2>4
<1>8. CASE animation = "happy"
  <2>1. t \in {HAPPY_LOOP[1], HAPPY_LOOP[2], HAPPY_LOOP[3], HAPPY_LOOP[4]}
      BY <1>1, <1>8, LoopPoses DEF LoopOf
  <2>2. \/ t.pose = "HappyWag00" /\ t.x = -1 /\ t.y = 0
        \/ t.pose = "HappyWag02" /\ t.x = 0 /\ t.y = -2
        \/ t.pose = "HappyWag01" /\ t.x = 1 /\ t.y = 0
      BY <2>1 DEF HAPPY_LOOP, TimedPose
  <2>3. CASE t.pose = "HappyWag00" /\ t.x = -1 /\ t.y = 0
      BY <1>2, <1>3, <1>8, <2>3
      DEF InPlace, PoseId, sprite, SPRITES, Sprite, CELL_WIDTH, CELL_HEIGHT
  <2>4. CASE t.pose = "HappyWag02" /\ t.x = 0 /\ t.y = -2
      BY <1>2, <1>3, <1>8, <2>4
      DEF InPlace, PoseId, sprite, SPRITES, Sprite, CELL_WIDTH, CELL_HEIGHT
  <2>5. CASE t.pose = "HappyWag01" /\ t.x = 1 /\ t.y = 0
      BY <1>2, <1>3, <1>8, <2>5
      DEF InPlace, PoseId, sprite, SPRITES, Sprite, CELL_WIDTH, CELL_HEIGHT
  <2> QED  BY <2>2, <2>3, <2>4, <2>5
<1>9. CASE animation = "play"
  <2>1. t \in {PLAY_LOOP[1], PLAY_LOOP[2]}
      BY <1>1, <1>9, LoopPoses DEF LoopOf
  <2>2. \/ t.pose = "Play00" /\ t.x = 0 /\ t.y = 0
        \/ t.pose = "Play01" /\ t.x = 1 /\ t.y = -1
      BY <2>1 DEF PLAY_LOOP, TimedPose
  <2>3. CASE t.pose = "Play00" /\ t.x = 0 /\ t.y = 0
      BY <1>2, <1>3, <1>9, <2>3
      DEF InPlace, PoseId, sprite, SPRITES, Sprite, CELL_WIDTH, CELL_HEIGHT
  <2>4. CASE t.pose = "Play01" /\ t.x = 1 /\ t.y = -1
      BY <1>2, <1>3, <1>9, <2>4
      DEF InPlace, PoseId, sprite, SPRITES, Sprite, CELL_WIDTH, CELL_HEIGHT
  <2> QED  BY <2>2, <2>3, <2>4
<1>10. CASE animation = "excited"
  <2>1. t \in {EXCITED_LOOP[1], EXCITED_LOOP[2], EXCITED_LOOP[3]}
      BY <1>1, <1>10, LoopPoses DEF LoopOf
  <2>2. \/ t.pose = "Excited00" /\ t.x = 0 /\ t.y = 0
        \/ t.pose = "Excited01" /\ t.x = 0 /\ t.y = -2
        \/ t.pose = "Excited02" /\ t.x = 0 /\ t.y = 1
      BY <2>1 DEF EXCITED_LOOP, TimedPose
  <2>3. CASE t.pose = "Excited00" /\ t.x = 0 /\ t.y = 0
      BY <1>2, <1>3, <1>10, <2>3
      DEF InPlace, PoseId, sprite, SPRITES, Sprite, CELL_WIDTH, CELL_HEIGHT
  <2>4. CASE t.pose = "Excited01" /\ t.x = 0 /\ t.y = -2
      BY <1>2, <1>3, <1>10, <2>4
      DEF InPlace, PoseId, sprite, SPRITES, Sprite, CELL_WIDTH, CELL_HEIGHT
  <2>5. CASE t.pose = "Excited02" /\ t.x = 0 /\ t.y = 1
      BY <1>2, <1>3, <1>10, <2>5
      DEF InPlace, PoseId, sprite, SPRITES, Sprite, CELL_WIDTH, CELL_HEIGHT
  <2> QED  BY <2>2, <2>3, <2>4, <2>5
<1>11. CASE animation = "sleepy"
  <2>1. t \in {SLEEPY_LOOP[1], SLEEPY_LOOP[2]}
      BY <1>1, <1>11, LoopPoses DEF LoopOf
  <2>2. \/ t.pose = "Sleepy00" /\ t.x = 0 /\ t.y = 0
        \/ t.pose = "Sleepy01" /\ t.x = 0 /\ t.y = 0
      BY <2>1 DEF SLEEPY_LOOP, TimedPose
  <2>3. CASE t.pose = "Sleepy00" /\ t.x = 0 /\ t.y = 0
      BY <1>2, <1>3, <1>11, <2>3
      DEF InPlace, PoseId, sprite, SPRITES, Sprite, CELL_WIDTH, CELL_HEIGHT
  <2>4. CASE t.pose = "Sleepy01" /\ t.x = 0 /\ t.y = 0
      BY <1>2, <1>3, <1>11, <2>4
      DEF InPlace, PoseId, sprite, SPRITES, Sprite, CELL_WIDTH, CELL_HEIGHT
  <2> QED  BY <2>2, <2>3, <2>4
<1>12. CASE animation = "nap"
  <2>1. t \in {NAP_LOOP[1], NAP_LOOP[2]}
      BY <1>1, <1>12, LoopPoses DEF LoopOf
  <2>2. \/ t.pose = "Nap00" /\ t.x = 0 /\ t.y = 0
        \/ t.pose = "Nap01" /\ t.x = 0 /\ t.y = 0
      BY <2>1 DEF NAP_LOOP, TimedPose
  <2>3. CASE t.pose = "Nap00" /\ t.x = 0 /\ t.y = 0
      BY <1>2, <1>3, <1>12, <2>3
      DEF InPlace, PoseId, sprite, SPRITES, Sprite, CELL_WIDTH, CELL_HEIGHT
  <2>4. CASE t.pose = "Nap01" /\ t.x = 0 /\ t.y = 0
      BY <1>2, <1>3, <1>12, <2>4
      DEF InPlace, PoseId, sprite, SPRITES, Sprite, CELL_WIDTH, CELL_HEIGHT
  <2> QED  BY <2>2, <2>3, <2>4
<1>13. CASE animation = "worried"
  <2>1. t \in {WORRIED_LOOP[1], WORRIED_LOOP[2]}
      BY <1>1, <1>13, LoopPoses DEF LoopOf
  <2>2. \/ t.pose = "Worried00" /\ t.x = 0 /\ t.y = 0
        \/ t.pose = "Worried01" /\ t.x = -1 /\ t.y = 0
      BY <2>1 DEF WORRIED_LOOP, TimedPose
  <2>3. CASE t.pose = "Worried00" /\ t.x = 0 /\ t.y = 0
      BY <1>2, <1>3, <1>13, <2>3
      DEF InPlace, PoseId, sprite, SPRITES, Sprite, CELL_WIDTH, CELL_HEIGHT
  <2>4. CASE t.pose = "Worried01" /\ t.x = -1 /\ t.y = 0
      BY <1>2, <1>3, <1>13, <2>4
      DEF InPlace, PoseId, sprite, SPRITES, Sprite, CELL_WIDTH, CELL_HEIGHT
  <2> QED  BY <2>2, <2>3, <2>4
<1>14. CASE animation = "alert"
  <2>1. t \in {ALERT_LOOP[1], ALERT_LOOP[2]}
      BY <1>1, <1>14, LoopPoses DEF LoopOf
  <2>2. \/ t.pose = "Alert00" /\ t.x = 0 /\ t.y = -1
        \/ t.pose = "Alert01" /\ t.x = 0 /\ t.y = 0
      BY <2>1 DEF ALERT_LOOP, TimedPose
  <2>3. CASE t.pose = "Alert00" /\ t.x = 0 /\ t.y = -1
      BY <1>2, <1>3, <1>14, <2>3
      DEF InPlace, PoseId, sprite, SPRITES, Sprite, CELL_WIDTH, CELL_HEIGHT
  <2>4. CASE t.pose = "Alert01" /\ t.x = 0 /\ t.y = 0
      BY <1>2, <1>3, <1>14, <2>4
      DEF InPlace, PoseId, sprite, SPRITES, Sprite, CELL_WIDTH, CELL_HEIGHT
  <2> QED  BY <2>2, <2>3, <2>4
<1> QED  BY <1>4, <1>5, <1>6, <1>7, <1>8, <1>9, <1>10, <1>11, <1>12, <1>13, <1>14 DEF Animations

LEMMA PosesInPlace ==
    ASSUME NEW animation \in Animations, NEW g \in Nat, NEW f \in Nat
    PROVE  InPlace(PoseAt(animation, g, f))
<1>1. CASE animation = "walk"
  <2>1. PICK at : at = PoseAt(animation, g, f)
      OBVIOUS
  <2>2. at = Walking(f)
      BY <1>1, <2>1 DEF PoseAt
  <2>3. /\ at.pose \in {"WalkRight00", "WalkRight01", "WalkLeft00", "WalkLeft01"}
        /\ at.x \in Int /\ at.x >= -18 /\ at.x <= 18 /\ at.y \in {-1, 0, 1}
      BY <2>2, WalkingParts
  <2>4. InPlace(at)
      BY <2>3 DEF InPlace, PoseId, sprite, SPRITES, Sprite, CELL_WIDTH, CELL_HEIGHT
  <2> QED  BY <2>1, <2>4
<1>2. CASE animation # "walk"
    BY <1>2, LoopsInPlace
<1> QED  BY <1>1, <1>2

\* What the picture of a frame is made of.
LEMMA LocalLoop ==
    ASSUME NEW g \in Nat
    PROVE  /\ local_animation(g) \in {"blink", "look_around", "idle"}
           /\ LocalFrame(local_animation(g), g) \in Nat
<1>1. local_animation(g) \in {"blink", "look_around", "idle"}
    BY DEF local_animation
<1>2. g % BLINK_PERIOD \in Nat
    BY DEF BLINK_PERIOD
<1>3. Max({(g % LOOK_PERIOD) - LOOK_START, 0}) \in Nat
  <2>1. (g % LOOK_PERIOD) - LOOK_START \in Int
      BY DEF LOOK_PERIOD, LOOK_START
  <2> QED  BY <2>1, MaxOfTwo
<1> QED  BY <1>1, <1>2, <1>3 DEF LocalFrame

LEMMA PlayingType ==
    ASSUME NEW g \in Nat, NEW a, a # None => a \in Running
    PROVE  Playing(g, a).animation \in Animations /\ Playing(g, a).anim_frame \in Nat
<1>1. CASE a = None
  <2>1. Playing(g, a).animation = local_animation(g)
        /\ Playing(g, a).anim_frame = LocalFrame(local_animation(g), g)
      BY <1>1 DEF Playing
  <2> QED  BY <2>1, LocalLoop DEF Animations
<1>2. CASE a # None
  <2>1. Playing(g, a).animation = a.behavior.animation /\ Playing(g, a).anim_frame = a.elapsed
      BY <1>2 DEF Playing
  <2>2. a.behavior \in Updates /\ a.elapsed \in Nat
      BY <1>2 DEF Running
  <2> QED  BY <2>1, <2>2, SceneAssumption
<1> QED  BY <1>1, <1>2

\* A picture is of a pose in place.
IsPlaced(p, at) ==
    /\ InPlace(at)
    /\ p.pose = at.pose /\ p.x = at.x + sprite(at.pose).x /\ p.y = at.y + sprite(at.pose).y

LEMMA PicturesArePlaced ==
    ASSUME NEW g \in Nat, NEW a, a # None => a \in Running
    PROVE  \E at : IsPlaced(Picture(g, a), at)
<1>1. PICK on : on = Playing(g, a)
    OBVIOUS
<1>2. PICK at : at = PoseAt(on.animation, g, on.anim_frame)
    OBVIOUS
<1>3. InPlace(at)
    BY <1>1, <1>2, PlayingType, PosesInPlace
<1>4. /\ Picture(g, a).pose = at.pose
      /\ Picture(g, a).x = at.x + sprite(at.pose).x
      /\ Picture(g, a).y = at.y + sprite(at.pose).y
    BY <1>1, <1>2 DEF Picture
<1> QED  BY <1>3, <1>4 DEF IsPlaced

LEMMA BoxType ==
    ASSUME NEW pose \in PoseId
    PROVE  /\ sprite(pose).x \in Nat /\ sprite(pose).y \in Nat
           /\ sprite(pose).width \in Nat /\ sprite(pose).height \in Nat
BY DEF PoseId, sprite, SPRITES, Sprite

\* The rows of a sprite add up.
LEMMA PaintedSums ==
    ASSUME NEW pose \in PoseId, NEW h, h = sprite(pose).height
    PROVE  /\ h \in Nat
           /\ Sums(PaintedAbove[pose], h, sprite(pose).data.rows)
           /\ \A i \in 0..h : PaintedAbove[pose][i] \in Nat
           /\ \A i, j \in 0..h : i <= j => PaintedAbove[pose][i] <= PaintedAbove[pose][j]
<1>1. PICK rows : rows = sprite(pose).data.rows
    OBVIOUS
<1>2. h \in Nat /\ Len(rows) = h /\ \A i \in 1..h : rows[i] \in Nat
  <2>1. sprite(pose).height \in Nat /\ sprite(pose).width \in Nat
      BY BoxType
  <2>2. Len(rows) = h /\ \A i \in 1..h : rows[i] \in 0..sprite(pose).width
      BY <1>1, SpritesAssumption
  <2>3. \A i \in 1..h : rows[i] \in Nat
      BY <2>1, <2>2
  <2> QED  BY <2>1, <2>2, <2>3
<1> DEFINE Eq(painted) == painted = [n \in 0..Len(rows) |-> IF n = 0 THEN 0 ELSE painted[n - 1] + rows[n]]
<1>3. PaintedAbove[pose] = CHOOSE painted : Eq(painted)
    BY <1>1 DEF PaintedAbove
<1>4. \E painted : Eq(painted)
  <2>1. PICK sums \in [0..h -> Nat] : Sums(sums, h, rows)
      BY <1>2, SumsExist
  <2>2. \A n \in 0..h : sums[n] = IF n = 0 THEN 0 ELSE sums[n - 1] + rows[n]
      BY <2>1 DEF Sums
  <2>3. Eq(sums)
      BY <1>2, <2>1, <2>2
  <2> QED  BY <2>3
<1>5. PICK pa : pa = PaintedAbove[pose]
    OBVIOUS
<1>6. Eq(pa)
  <2> HIDE DEF Eq
  <2> QED  BY <1>3, <1>4, <1>5
<1>7. Sums(pa, h, rows)
  <2>1. pa[0] = 0
      BY <1>2, <1>6
  <2>2. \A i \in 1..h : pa[i] = pa[i - 1] + rows[i]
      BY <1>2, <1>6
  <2> QED  BY <2>1, <2>2 DEF Sums
<1>8. \A i \in 0..h : pa[i] \in Nat
  <2> DEFINE S == {i \in 0..h : pa[i] \in Nat}
  <2>1. 0 \in S
      BY <1>2, <1>7 DEF Sums
  <2>2. ASSUME NEW k \in 0..h - 1, k \in S PROVE k + 1 \in S
    <3>1. k + 1 \in 1..h /\ k + 1 - 1 = k
        BY <1>2
    <3>2. pa[k + 1] = pa[k] + rows[k + 1]
        BY <1>7, <3>1 DEF Sums
    <3>3. rows[k + 1] \in Nat /\ pa[k] \in Nat
        BY <1>2, <2>2, <3>1
    <3> QED  BY <3>1, <3>2, <3>3
  <2> HIDE DEF S
  <2>3. \A i \in 0..h : i \in S
      BY <1>2, <2>1, <2>2, UpTo
  <2> QED  BY <2>3 DEF S
<1>9. ASSUME NEW i \in 0..h, NEW j \in 0..h, i <= j PROVE pa[i] <= pa[j]
  <2> DEFINE S == {k \in 0..j - i : pa[i] <= pa[i + k]}
  <2>1. 0 \in S
      BY <1>8, <1>9
  <2>2. ASSUME NEW k \in 0..j - i - 1, k \in S PROVE k + 1 \in S
    <3>1. i + (k + 1) \in 1..h /\ i + (k + 1) - 1 = i + k /\ i + k \in 0..h /\ k + 1 \in 0..j - i
        BY <1>2, <1>9
    <3>2. pa[i + (k + 1)] = pa[i + k] + rows[i + (k + 1)]
        BY <1>7, <3>1 DEF Sums
    <3>3. rows[i + (k + 1)] \in Nat /\ pa[i + k] \in Nat /\ pa[i] \in Nat
        BY <1>2, <1>8, <3>1
    <3>4. pa[i] <= pa[i + k]
        BY <2>2
    <3> QED  BY <3>1, <3>2, <3>3, <3>4
  <2>3. j - i \in Nat
      BY <1>2, <1>9
  <2> HIDE DEF S
  <2>4. \A k \in 0..j - i : k \in S
      BY <2>1, <2>2, <2>3, UpTo
  <2>5. j - i \in S /\ i + (j - i) = j
      BY <1>2, <2>3, <2>4
  <2> QED  BY <2>5 DEF S
<1> QED  BY <1>1, <1>2, <1>5, <1>7, <1>8, <1>9

LEMMA Clamped ==
    ASSUME NEW m \in Int, NEW h \in Nat
    PROVE  Min({Max({m, 0}), h}) = IF m >= h THEN h ELSE IF m >= 0 THEN m ELSE 0
<1>1. Max({m, 0}) = IF m >= 0 THEN m ELSE 0
    BY MaxOfTwo
<1>2. PICK n \in Int : n = Max({m, 0})
    BY <1>1
<1>3. Min({n, h}) = IF n <= h THEN n ELSE h
    BY MinOfTwo
<1> QED  BY <1>1, <1>2, <1>3

\* The pixels a placed picture loses over the edges.
LEMMA LittleIsLost ==
    ASSUME NEW p, NEW at, IsPlaced(p, at)
    PROVE  Lost(p) <= 12
<1> DEFINE s == sprite(p.pose)
           Row(y) == Min({Max({y - p.y, 0}), s.height})
<1>1. p.pose \in PoseId /\ p.x \in Int /\ p.y \in Int
    BY BoxType DEF IsPlaced, InPlace
<1>2. PICK pa, h : pa = PaintedAbove[p.pose] /\ h = s.height
    OBVIOUS
<1>3. /\ h \in Nat /\ \A i \in 0..h : pa[i] \in Nat
      /\ Sums(pa, h, s.data.rows)
    BY <1>1, <1>2, PaintedSums
<1>4. PICK left, right : left = s.data.left /\ right = s.data.right
    OBVIOUS
<1>5. Painted(p) = pa[h]
    BY <1>2 DEF Painted
<1>6. PaintedIn(p, 0, CELL_HEIGHT - 1) = pa[Row(128)] - pa[Row(0)]
  <2>1. CELL_HEIGHT - 1 + 1 = 128
      BY DEF CELL_HEIGHT
  <2> QED  BY <1>2, <2>1 DEF PaintedIn
<1>7. Lost(p) = (IF p.x < 0 THEN left ELSE 0) + (IF p.x + s.width > CELL_WIDTH THEN right ELSE 0)
                  + pa[h] - (pa[Row(128)] - pa[Row(0)])
    BY <1>4, <1>5, <1>6 DEF Lost
<1>8. (IF p.x < 0 THEN left ELSE 0) \in {0, 2} /\ ~(p.x + s.width > CELL_WIDTH)
  <2>1. p.x >= IF p.pose = "HappyWag00" THEN -1 ELSE 0
      BY DEF IsPlaced, InPlace
  <2>2. p.pose = "HappyWag00" => left = 2
      BY <1>4 DEF sprite, SPRITES, Sprite, POSE_HAPPY_WAG_00, Stream
  <2>3. p.x + s.width <= CELL_WIDTH /\ CELL_WIDTH \in Int
      BY DEF IsPlaced, InPlace, CELL_WIDTH
  <2>4. s.width \in Nat
      BY <1>1, BoxType
  <2> QED  BY <1>1, <2>1, <2>2, <2>3, <2>4
<1>9. \A y \in Int : Row(y) = IF y - p.y >= h THEN h ELSE IF y - p.y >= 0 THEN y - p.y ELSE 0
  <2> SUFFICES ASSUME NEW y \in Int
               PROVE  Row(y) = IF y - p.y >= h THEN h ELSE IF y - p.y >= 0 THEN y - p.y ELSE 0
      OBVIOUS
  <2>1. PICK m \in Int : m = y - p.y
      BY <1>1
  <2>2. Row(y) = Min({Max({m, 0}), h})
      BY <1>2, <2>1
  <2> QED  BY <1>3, <2>1, <2>2, Clamped
<1> HIDE DEF Row
<1>10. Row(0) = 0 /\ pa[0] = 0
  <2>1. p.y >= 0
      BY DEF IsPlaced, InPlace
  <2>2. Row(0) = IF 0 - p.y >= h THEN h ELSE IF 0 - p.y >= 0 THEN 0 - p.y ELSE 0
      BY <1>9
  <2> QED  BY <1>1, <1>3, <2>1, <2>2 DEF Sums
<1>11. pa[Row(128)] \in Nat /\ pa[h] - pa[Row(128)] <= 9
  <2>1. p.y + h <= 128 + IF p.pose \in {"Nap00", "Nap01"} THEN 1 ELSE 0
      BY <1>2 DEF IsPlaced, InPlace, CELL_HEIGHT
  <2>2. Row(128) = IF 128 - p.y >= h THEN h ELSE IF 128 - p.y >= 0 THEN 128 - p.y ELSE 0
      BY <1>9
  <2>3. CASE p.y + h <= 128
    <3>1. Row(128) = h
        BY <1>1, <1>3, <2>2, <2>3
    <3>2. pa[h] \in Nat
        BY <1>3
    <3> QED  BY <3>1, <3>2
  <2>4. CASE ~(p.y + h <= 128)
    <3>1. p.pose \in {"Nap00", "Nap01"} /\ p.y + h = 129
        BY <1>1, <1>3, <2>1, <2>4
    <3>2. p.pose = "Nap00" => h = 84 /\ s.data.rows[84] = 9
        BY <1>2 DEF sprite, SPRITES, Sprite, POSE_NAP_00, Stream
    <3>3. p.pose = "Nap01" => h = 83 /\ s.data.rows[83] \in Nat /\ s.data.rows[83] <= 9
        BY <1>2 DEF sprite, SPRITES, Sprite, POSE_NAP_01, Stream
    <3>4. h >= 1 /\ s.data.rows[h] \in Nat /\ s.data.rows[h] <= 9
        BY <3>1, <3>2, <3>3
    <3>5. Row(128) = h - 1
        BY <1>1, <1>3, <2>2, <3>1, <3>4
    <3>6. pa[h] = pa[h - 1] + s.data.rows[h] /\ pa[h - 1] \in Nat
        BY <1>3, <3>4 DEF Sums
    <3> QED  BY <3>4, <3>5, <3>6
  <2> QED  BY <2>3, <2>4
<1>12. pa[h] \in Nat
    BY <1>3
<1>13. PICK aside \in {0, 2} : Lost(p) = aside + 0 + pa[h] - (pa[Row(128)] - pa[Row(0)])
    BY <1>7, <1>8
<1> QED  BY <1>10, <1>11, <1>12, <1>13

\* A bubble of one line or two covers less than a third of a placed picture.
LEMMA LittleIsCovered ==
    ASSUME NEW p, NEW at, IsPlaced(p, at), NEW top \in {98, 108}
    PROVE  3 * PaintedIn(p, top, 125) < Painted(p)
<1> DEFINE s == sprite(p.pose)
           Row(y) == Min({Max({y - p.y, 0}), s.height})
           k == Min({Max({96 - s.y, 0}), s.height})
<1>1. p.pose \in PoseId /\ p.x \in Int /\ p.y \in Int /\ s.y \in Nat /\ p.y <= s.y + 2
    BY BoxType DEF IsPlaced, InPlace
<1>2. PICK pa, h : pa = PaintedAbove[p.pose] /\ h = s.height
    OBVIOUS
<1>3. /\ h \in Nat /\ \A i \in 0..h : pa[i] \in Nat
      /\ \A i, j \in 0..h : i <= j => pa[i] <= pa[j]
    BY <1>1, <1>2, PaintedSums
<1>4. Painted(p) = pa[h]
    BY <1>2 DEF Painted
<1>5. PaintedIn(p, top, 125) = pa[Row(126)] - pa[Row(top)]
  <2>1. 125 + 1 = 126
      OBVIOUS
  <2> QED  BY <1>2, <2>1 DEF PaintedIn
<1>6. 3 * (pa[h] - pa[k]) < pa[h]
    BY <1>1, <1>2, RowsAssumption
<1>7. \A m \in Int : Min({Max({m, 0}), h}) = IF m >= h THEN h ELSE IF m >= 0 THEN m ELSE 0
    BY <1>3, Clamped
<1>8. Row(126) \in 0..h /\ Row(top) \in 0..h /\ k \in 0..h /\ k <= Row(top)
  <2>1. 126 - p.y \in Int /\ top - p.y \in Int /\ 96 - s.y \in Int /\ 96 - s.y <= top - p.y
      BY <1>1
  <2>2. PICK a, b, c \in Int : a = 126 - p.y /\ b = top - p.y /\ c = 96 - s.y
      BY <2>1
  <2>3. /\ Row(126) = IF a >= h THEN h ELSE IF a >= 0 THEN a ELSE 0
        /\ Row(top) = IF b >= h THEN h ELSE IF b >= 0 THEN b ELSE 0
        /\ k = IF c >= h THEN h ELSE IF c >= 0 THEN c ELSE 0
      BY <1>2, <1>7, <2>2
  <2> HIDE DEF Row, k
  <2> QED  BY <1>3, <2>1, <2>2, <2>3
<1> HIDE DEF Row, k
<1>9. PICK u, v, w, x \in Nat : u = pa[Row(126)] /\ v = pa[Row(top)] /\ w = pa[k] /\ x = pa[h]
    BY <1>3, <1>8
<1>10. u <= x /\ w <= v
  <2>1. h \in 0..h /\ Row(126) <= h
      BY <1>3, <1>8
  <2> QED  BY <1>3, <1>8, <1>9, <2>1
<1>11. 3 * (x - w) < x
    BY <1>6, <1>9
<1> QED  BY <1>4, <1>5, <1>9, <1>10, <1>11

-----------------------------------------------------------------------------
(***************************************************************************)
(* The words of a bubble.                                                  *)
(***************************************************************************)
\* A text that has lost blanks at its end ...
LEMMA TrimmedEnd ==
    ASSUME NEW S, NEW t \in Seq(S)
    PROVE  \E k \in 0..Len(t) :
              /\ trim_end(t) = SubSeq(t, 1, k)
              /\ \A i \in k + 1..Len(t) : IsBlank(t[i])
<1>1. Len(t) \in Nat /\ DOMAIN t = 1..Len(t)
    OBVIOUS
<1>2. Letters(t) = {i \in 1..Len(t) : ~IsBlank(t[i])}
    BY <1>1 DEF Letters
<1>3. CASE Letters(t) = {}
  <2>1. trim_end(t) = <<>> /\ SubSeq(t, 1, 0) = <<>>
      BY <1>3, SubSeqEmpty DEF trim_end
  <2>2. 0 \in 0..Len(t) /\ \A i \in 0 + 1..Len(t) : IsBlank(t[i])
      BY <1>1, <1>2, <1>3
  <2> QED  BY <2>1, <2>2
<1>4. CASE Letters(t) # {}
  <2>1. PICK k : k = Max(Letters(t))
      OBVIOUS
  <2>2. Letters(t) \in SUBSET (1..Len(t))
      BY <1>2
  <2>3. k \in Letters(t) /\ \A x \in Letters(t) : x <= k
      BY <1>1, <1>4, <2>1, <2>2, ExtremesAreMembers
  <2>4. k \in 1..Len(t) /\ \A i \in k + 1..Len(t) : IsBlank(t[i])
    <3>1. k \in 1..Len(t)
        BY <2>2, <2>3
    <3>2. \A i \in k + 1..Len(t) : i \in 1..Len(t) /\ ~(i <= k)
        BY <1>1, <3>1
    <3> QED  BY <1>2, <2>3, <3>1, <3>2
  <2>5. trim_end(t) = SubSeq(t, 1, k)
      BY <1>4, <2>1 DEF trim_end
  <2> QED  BY <1>1, <2>4, <2>5
<1> QED  BY <1>3, <1>4

\* ... or at its beginning.
LEMMA TrimmedStart ==
    ASSUME NEW S, NEW t \in Seq(S)
    PROVE  \E k \in 0..Len(t) :
              /\ trim_start(t) = SubSeq(t, k + 1, Len(t))
              /\ \A i \in 1..k : IsBlank(t[i])
              /\ k < Len(t) => ~IsBlank(t[k + 1])
<1>1. Len(t) \in Nat /\ DOMAIN t = 1..Len(t)
    OBVIOUS
<1>2. Letters(t) = {i \in 1..Len(t) : ~IsBlank(t[i])}
    BY <1>1 DEF Letters
<1>3. CASE Letters(t) = {}
  <2>1. trim_start(t) = <<>> /\ SubSeq(t, Len(t) + 1, Len(t)) = <<>>
      BY <1>1, <1>3, SubSeqEmpty DEF trim_start
  <2>2. Len(t) \in 0..Len(t) /\ (\A i \in 1..Len(t) : IsBlank(t[i])) /\ ~(Len(t) < Len(t))
      BY <1>1, <1>2, <1>3
  <2> QED  BY <2>1, <2>2
<1>4. CASE Letters(t) # {}
  <2>1. PICK m : m = Min(Letters(t))
      OBVIOUS
  <2>2. Letters(t) \in SUBSET (1..Len(t))
      BY <1>2
  <2>3. m \in Letters(t) /\ \A x \in Letters(t) : m <= x
      BY <1>1, <1>4, <2>1, <2>2, ExtremesAreMembers
  <2>4. m \in 1..Len(t) /\ ~IsBlank(t[m])
      BY <1>2, <2>3
  <2>5. \A i \in 1..m - 1 : IsBlank(t[i])
    <3>1. \A i \in 1..m - 1 : i \in 1..Len(t) /\ ~(m <= i)
        BY <1>1, <2>4
    <3> QED  BY <1>2, <2>3, <3>1
  <2>6. trim_start(t) = SubSeq(t, m, Len(t))
      BY <1>4, <2>1 DEF trim_start
  <2>7. PICK k \in 0..Len(t) : k = m - 1 /\ k + 1 = m
      BY <1>1, <2>4
  <2> QED  BY <2>4, <2>5, <2>6, <2>7
<1> QED  BY <1>3, <1>4

\* A part of a part.
LEMMA PartOfPart ==
    ASSUME NEW S, NEW s \in Seq(S), NEW i \in Nat \ {0}, NEW j \in 0..Len(s),
           NEW m \in Nat \ {0}, NEW n \in Nat, n <= j - i + 1
    PROVE  SubSeq(SubSeq(s, i, j), m, n) = SubSeq(s, i + m - 1, i + n - 1)
<1>1. Len(s) \in Nat /\ j \in Int
    OBVIOUS
<1>2. CASE m <= n
  <2>1. i \in 1..Len(s) /\ j \in 1..Len(s) /\ m \in 1..j - i + 1 /\ n \in 1..j - i + 1
      BY <1>1, <1>2
  <2> QED  BY <2>1, SubSeqOfSubSeq
<1>3. CASE n < m
  <2>1. i + m - 1 \in Int /\ i + n - 1 \in Int /\ i + n - 1 < i + m - 1
      BY <1>3
  <2>2. SubSeq(s, i + m - 1, i + n - 1) = <<>>
      BY <2>1, SubSeqEmpty
  <2>3. SubSeq(SubSeq(s, i, j), m, n) = <<>>
      BY <1>3, SubSeqEmpty
  <2> QED  BY <2>2, <2>3
<1> QED  BY <1>2, <1>3

\* A text as a sequence.
LEMMA TextIsSequence ==
    ASSUME NEW text, IsText(text)
    PROVE  \E S : text \in Seq(S)
<1> DEFINE S == {text[i] : i \in 1..Len(text)}
<1>1. PICK n \in Nat : n = Len(text)
    BY DEF IsText
<1>2. text = [i \in 1..n |-> text[i]] /\ \A i \in 1..n : text[i] \in S
    BY <1>1 DEF IsText
<1>3. text \in [1..n -> S]
  <2> HIDE DEF S
  <2> QED  BY <1>2
<1> HIDE DEF S
<1>4. text \in Seq(S)
    BY <1>1, <1>3, SeqDef
<1> QED  BY <1>4

\* Where a text longer than a line is cut: after the first, and before the second.
Cut(text, lines, first, skipped) ==
    /\ first \in 0..MAX_LINE_CHARS /\ skipped \in 0..Len(text) /\ first <= skipped
    /\ \A i \in first + 1..skipped : IsBlank(text[i])
    /\ skipped = first => first = MAX_LINE_CHARS
    /\ ShortWords(text) => 6 <= skipped
    /\ lines = <<SubSeq(text, 1, first)>>
               \o IF SubSeq(text, skipped + 1, Len(text)) = <<>> THEN <<>>
                  ELSE <<SubSeq(text, skipped + 1, Len(text))>>

LEMMA LongTextIsCut ==
    ASSUME NEW S, NEW text \in Seq(S), Len(text) > MAX_LINE_CHARS
    PROVE  \E first, skipped :
              Cut(text, split_bubble_text(text, MAX_LINE_CHARS), first, skipped)
<1>1. PICK n \in Nat : n = Len(text) /\ n > 17
    BY DEF MAX_LINE_CHARS
<1>2. PICK blanks : blanks = {i \in 1..17 : IsBlank(text[i])}
    OBVIOUS
<1>3. PICK split_at : split_at = IF blanks = {} THEN 17 ELSE Max(blanks) - 1
    OBVIOUS
<1>4. blanks # {} => Max(blanks) \in blanks /\ \A x \in blanks : x <= Max(blanks)
  <2>1. blanks \in SUBSET (1..17) /\ 17 \in Nat
      BY <1>2
  <2> QED  BY <2>1, ExtremesAreMembers
<1>5. /\ split_at \in 0..17
      /\ split_at # 17 => IsBlank(text[split_at + 1])
      /\ \A i \in split_at + 2..17 : ~IsBlank(text[i])
  <2>1. CASE blanks = {}
      BY <1>3, <2>1
  <2>2. CASE blanks # {}
    <3>1. PICK m \in 1..17 : m = Max(blanks) /\ IsBlank(text[m]) /\ \A x \in blanks : x <= m
        BY <1>2, <1>4, <2>2
    <3>2. split_at = m - 1 /\ split_at + 1 = m
        BY <1>3, <2>2, <3>1
    <3>3. \A i \in m + 1..17 : ~IsBlank(text[i])
      <4>1. \A i \in m + 1..17 : i \in 1..17 /\ ~(i <= m)
          BY <3>1
      <4> QED  BY <1>2, <3>1, <4>1
    <3> QED  BY <3>1, <3>2, <3>3
  <2> QED  BY <2>1, <2>2
<1>6. PICK head, rest : head = SubSeq(text, 1, split_at) /\ rest = SubSeq(text, split_at + 1, n)
    OBVIOUS
<1>7. /\ head \in Seq(S) /\ Len(head) = split_at
      /\ \A i \in 1..split_at : head[i] = text[i]
  <2>1. \A i \in 1..split_at : text[i] \in S
      BY <1>1, <1>5
  <2>2. split_at \in Int /\ 1 \in Int
      BY <1>5
  <2>3. /\ SubSeq(text, 1, split_at) \in Seq(S)
        /\ Len(SubSeq(text, 1, split_at)) = IF 1 <= split_at THEN split_at - 1 + 1 ELSE 0
        /\ \A i \in 1..split_at - 1 + 1 : SubSeq(text, 1, split_at)[i] = text[1 + i - 1]
      BY <2>1, <2>2, SubSeqProperties
  <2>4. SubSeq(text, 1, split_at) = head
      BY <1>6
  <2>5. Len(head) = split_at
    <3>1. Len(head) = IF 1 <= split_at THEN split_at - 1 + 1 ELSE 0
        BY <2>3, <2>4
    <3> QED  BY <1>5, <3>1
  <2>6. ASSUME NEW i \in 1..split_at PROVE head[i] = text[i]
    <3>1. i \in 1..split_at - 1 + 1
        BY <1>5
    <3>2. head[i] = text[1 + i - 1]
        BY <2>3, <2>4, <3>1
    <3>3. 1 + i - 1 = i
        BY <1>5
    <3> QED  BY <3>2, <3>3
  <2> QED  BY <2>3, <2>4, <2>5, <2>6
<1>8. /\ rest \in Seq(S) /\ Len(rest) = n - split_at
      /\ \A i \in 1..n - split_at : rest[i] = text[split_at + i]
  <2>1. \A i \in split_at + 1..n : text[i] \in S
      BY <1>1, <1>5
  <2>2. split_at + 1 \in Int /\ n \in Int /\ split_at + 1 <= n
      BY <1>1, <1>5
  <2>3. /\ SubSeq(text, split_at + 1, n) \in Seq(S)
        /\ Len(SubSeq(text, split_at + 1, n)) = n - (split_at + 1) + 1
        /\ \A i \in 1..n - (split_at + 1) + 1 :
              SubSeq(text, split_at + 1, n)[i] = text[split_at + 1 + i - 1]
      BY <2>1, <2>2, SubSeqProperties
  <2>4. n - (split_at + 1) + 1 = n - split_at
        /\ \A i \in 1..n - split_at : split_at + 1 + i - 1 = split_at + i
      BY <1>1, <1>5
  <2> QED  BY <1>6, <2>3, <2>4
<1>9. PICK a \in 0..split_at : /\ trim_end(head) = SubSeq(head, 1, a)
                               /\ \A i \in a + 1..split_at : IsBlank(head[i])
    BY <1>7, TrimmedEnd
<1>10. PICK c \in 0..n - split_at :
          /\ trim_start(rest) = SubSeq(rest, c + 1, Len(rest))
          /\ \A i \in 1..c : IsBlank(rest[i])
          /\ c < n - split_at => ~IsBlank(rest[c + 1])
    BY <1>8, TrimmedStart
<1>11. trim_end(head) = SubSeq(text, 1, a)
  <2>1. 1 \in Nat \ {0} /\ a \in Nat /\ a <= split_at - 1 + 1 /\ split_at \in 0..Len(text)
      BY <1>1, <1>5
  <2>2. SubSeq(SubSeq(text, 1, split_at), 1, a) = SubSeq(text, 1 + 1 - 1, 1 + a - 1)
      BY <2>1, PartOfPart
  <2>3. 1 + 1 - 1 = 1 /\ 1 + a - 1 = a
      BY <2>1
  <2> QED  BY <1>6, <1>9, <2>2, <2>3
<1>12. PICK skipped \in 0..n : skipped = split_at + c
    BY <1>1, <1>5
<1>13. trim_start(rest) = SubSeq(text, skipped + 1, n)
  <2>1. PICK u, m, k : u = split_at + 1 /\ m = c + 1 /\ k = n - split_at
      OBVIOUS
  <2>2. u \in Nat \ {0} /\ m \in Nat \ {0} /\ k \in Nat /\ k <= n - u + 1 /\ n \in 0..Len(text)
      BY <1>1, <1>5, <2>1
  <2>3. SubSeq(SubSeq(text, u, n), m, k) = SubSeq(text, u + m - 1, u + k - 1)
      BY <2>2, PartOfPart
  <2>4. u + m - 1 = skipped + 1 /\ u + k - 1 = n
      BY <1>1, <1>5, <1>12, <2>1
  <2> QED  BY <1>6, <1>8, <1>10, <2>1, <2>3, <2>4
<1>14. \A i \in a + 1..skipped : IsBlank(text[i])
  <2> SUFFICES ASSUME NEW i \in a + 1..skipped PROVE IsBlank(text[i])
      OBVIOUS
  <2>1. CASE i <= split_at
    <3>1. i \in a + 1..split_at /\ i \in 1..split_at
        BY <1>5, <2>1
    <3> QED  BY <1>7, <1>9, <3>1
  <2>2. CASE ~(i <= split_at)
    <3>1. i - split_at \in 1..c /\ i - split_at \in 1..n - split_at /\ split_at + (i - split_at) = i
        BY <1>5, <1>12, <2>2
    <3>2. rest[i - split_at] = text[i] /\ IsBlank(rest[i - split_at])
        BY <1>8, <1>10, <3>1
    <3> QED  BY <3>2
  <2> QED  BY <2>1, <2>2
<1>15. split_at # 17 => c >= 1
  <2> SUFFICES ASSUME split_at # 17, c = 0 PROVE FALSE
      OBVIOUS
  <2>1. 1 \in 1..n - split_at /\ c < n - split_at /\ c + 1 = 1
      BY <1>1, <1>5
  <2>2. rest[1] = text[split_at + 1]
      BY <1>8, <2>1
  <2> QED  BY <1>5, <1>10, <2>1, <2>2
<1>16. skipped = a => a = 17
  <2> SUFFICES ASSUME skipped = a PROVE a = 17
      OBVIOUS
  <2>1. a = split_at /\ c = 0
      BY <1>5, <1>12
  <2> QED  BY <1>15, <2>1
<1>17. ShortWords(text) => 6 <= skipped
  <2> SUFFICES ASSUME ShortWords(text), skipped < 6 PROVE FALSE
      BY <1>1
  <2>1. split_at + 1 <= skipped /\ split_at + 2 \in 1..n - 11 /\ split_at + 2 + 11 <= 18
      BY <1>1, <1>5, <1>12, <1>15
  <2>2. split_at + 2 + 11 <= 17
      BY <1>5, <1>12, <2>1
  <2>3. PICK j \in split_at + 2..split_at + 2 + 11 : IsBlank(text[j])
      BY <1>1, <2>1 DEF ShortWords
  <2>4. j \in split_at + 2..17
      BY <1>5, <2>2
  <2> QED  BY <1>5, <2>3, <2>4
<1>18. split_bubble_text(text, MAX_LINE_CHARS)
         = <<trim_end(head)>> \o IF trim_start(rest) = <<>> THEN <<>> ELSE <<trim_start(rest)>>
  <2>1. MAX_LINE_CHARS = 17 /\ ~(Len(text) <= 17)
      BY <1>1 DEF MAX_LINE_CHARS
  <2> QED  BY <1>1, <1>2, <1>3, <1>6, <2>1 DEF split_bubble_text
<1>19. Cut(text, split_bubble_text(text, MAX_LINE_CHARS), a, skipped)
  <2>1. /\ a \in 0..17 /\ skipped \in 0..Len(text) /\ a <= skipped /\ MAX_LINE_CHARS = 17
      BY <1>1, <1>5, <1>12 DEF MAX_LINE_CHARS
  <2> QED  BY <1>1, <1>11, <1>13, <1>14, <1>16, <1>17, <1>18, <2>1 DEF Cut
<1> QED  BY <1>19

\* However a text is split it is split into one line or two that keep its words.
LEMMA TextIsSplit ==
    ASSUME NEW text, IsText(text), Len(text) <= TEXT_CAPACITY,
           NEW lines, lines = split_bubble_text(text, MAX_LINE_CHARS)
    PROVE  /\ LinesOf(text, lines)
           /\ Len(lines) \in 1..2 /\ DOMAIN lines = 1..Len(lines)
           /\ \A i \in DOMAIN lines : Len(lines[i]) \in Nat
           /\ ShortWords(text) => \A i \in DOMAIN lines : Len(lines[i]) <= 18
<1>1. PICK S : text \in Seq(S)
    BY TextIsSequence
<1>2. PICK n \in Nat : n = Len(text) /\ n <= 24
    BY <1>1 DEF TEXT_CAPACITY
<1>3. CASE n <= 17
  <2>1. lines = <<text>>
      BY <1>2, <1>3 DEF split_bubble_text, MAX_LINE_CHARS
  <2>2. Len(lines) = 1 /\ lines[1] = text /\ DOMAIN lines = 1..1
      BY <2>1
  <2>3. text = SubSeq(text, 1, n) /\ \A i \in n + 1..n : IsBlank(text[i])
      BY <1>1, <1>2, SubSeqFull
  <2>4. LinesOf(text, lines)
      BY <1>2, <2>2, <2>3 DEF LinesOf
  <2> QED  BY <1>2, <1>3, <2>2, <2>4
<1>4. CASE ~(n <= 17)
  <2>1. Len(text) > MAX_LINE_CHARS /\ MAX_LINE_CHARS = 17
      BY <1>2, <1>4 DEF MAX_LINE_CHARS
  <2>2. PICK a, skipped : Cut(text, lines, a, skipped)
      BY <1>1, <2>1, LongTextIsCut
  <2>3. PICK first, second : first = SubSeq(text, 1, a) /\ second = SubSeq(text, skipped + 1, n)
      OBVIOUS
  <2>4. a \in 0..17 /\ skipped \in 0..n /\ a <= skipped /\ a <= n
      BY <1>2, <2>1, <2>2 DEF Cut
  <2>5. first \in Seq(S) /\ Len(first) = a
    <3>1. \A i \in 1..a : text[i] \in S
        BY <1>1, <1>2, <2>4
    <3>2. first \in Seq(S) /\ Len(first) = IF 1 <= a THEN a - 1 + 1 ELSE 0
        BY <2>3, <2>4, <3>1, SubSeqProperties
    <3> QED  BY <2>4, <3>2
  <2>6. second \in Seq(S) /\ Len(second) = n - skipped
    <3>1. \A i \in skipped + 1..n : text[i] \in S
        BY <1>1, <1>2, <2>4
    <3>2. skipped + 1 \in Int /\ n \in Int
        BY <1>2, <2>4
    <3>3. second \in Seq(S) /\ Len(second) = IF skipped + 1 <= n THEN n - (skipped + 1) + 1 ELSE 0
        BY <2>3, <3>1, <3>2, SubSeqProperties
    <3> QED  BY <1>2, <2>4, <3>3
  <2>7. ShortWords(text) => Len(first) <= 18 /\ Len(second) <= 18
      BY <1>2, <2>2, <2>4, <2>5, <2>6 DEF Cut
  <2>8. lines = <<first>> \o IF second = <<>> THEN <<>> ELSE <<second>>
      BY <1>2, <2>2, <2>3 DEF Cut
  <2>9. /\ \A i \in a + 1..skipped : IsBlank(text[i])
        /\ skipped = a => a = MAX_LINE_CHARS
      BY <2>2 DEF Cut
  <2>10. CASE second = <<>>
    <3>1. lines = <<first>>
        BY <2>8, <2>10
    <3>2. Len(lines) = 1 /\ lines[1] = first /\ DOMAIN lines = 1..1
        BY <3>1
    <3>3. skipped = n
        BY <1>2, <2>4, <2>6, <2>10
    <3>4. LinesOf(text, lines)
        BY <1>2, <2>3, <2>4, <2>5, <2>9, <3>2, <3>3 DEF LinesOf
    <3> QED  BY <2>4, <2>5, <2>7, <3>2, <3>4
  <2>11. CASE second # <<>>
    <3>1. PICK one, other : one = <<first>> /\ other = <<second>>
        OBVIOUS
    <3>2. /\ one \in Seq({first, second}) /\ Len(one) = 1 /\ one[1] = first
          /\ other \in Seq({first, second}) /\ Len(other) = 1 /\ other[1] = second
        BY <3>1
    <3>3. lines = one \o other
        BY <2>8, <2>11, <3>1
    <3>4. Len(lines) = 2 /\ lines[1] = first /\ lines[2] = second /\ DOMAIN lines = 1..2
      <4>1. /\ lines \in Seq({first, second}) /\ Len(lines) = Len(one) + Len(other)
            /\ \A i \in 1..Len(one) + Len(other) :
                  lines[i] = IF i <= Len(one) THEN one[i] ELSE other[i - Len(one)]
          BY <3>2, <3>3, ConcatProperties
      <4>2. Len(lines) = 2 /\ lines[1] = one[1] /\ lines[2] = other[2 - 1]
          BY <3>2, <4>1
      <4>3. DOMAIN lines = 1..Len(lines)
          BY <4>1
      <4> QED  BY <3>2, <4>2, <4>3
    <3>5. LinesOf(text, lines)
      <4>1. /\ Len(lines[1]) = a /\ Len(text) - Len(lines[2]) = skipped
            /\ lines[1] = SubSeq(text, 1, a) /\ lines[2] = SubSeq(text, skipped + 1, Len(text))
          BY <1>2, <2>3, <2>4, <2>5, <2>6, <3>4
      <4>2. Len(lines) \in 1..2 /\ (Len(lines) = 2) = TRUE /\ a <= skipped
          BY <2>4, <3>4
      <4> QED  BY <2>9, <4>1, <4>2 DEF LinesOf
    <3>6. Len(first) \in Nat /\ Len(second) \in Nat
        BY <2>5, <2>6
    <3> QED  BY <2>7, <3>4, <3>5, <3>6
  <2> QED  BY <2>10, <2>11
<1> QED  BY <1>3, <1>4

\* The bubble of one or two short lines is as wide as they are.
LEMMA BubbleHolds ==
    ASSUME NEW lines, Len(lines) \in 1..2, DOMAIN lines = 1..Len(lines),
           \A i \in DOMAIN lines : Len(lines[i]) \in Nat
    PROVE  /\ BubbleAt(lines).y = 126 - (10 * Len(lines) + 8)
           /\ BubbleAt(lines).height = 10 * Len(lines) + 8
           /\ (\A i \in DOMAIN lines : Len(lines[i]) <= 18) =>
                 \A i \in DOMAIN lines : 6 * Len(lines[i]) + 14 <= BubbleAt(lines).width
<1>1. /\ BubbleAt(lines).y = 126 - (10 * Len(lines) + 8)
      /\ BubbleAt(lines).height = 10 * Len(lines) + 8
    BY DEF BubbleAt, CELL_HEIGHT
<1>2. PICK longest : longest = Max({Len(lines[i]) : i \in DOMAIN lines})
    OBVIOUS
<1>3. /\ longest \in {Len(lines[i]) : i \in DOMAIN lines}
      /\ \A i \in DOMAIN lines : Len(lines[i]) <= longest
  <2>1. CASE Len(lines) = 1
    <3>1. {Len(lines[i]) : i \in DOMAIN lines} = {Len(lines[1])}
        BY <2>1
    <3>2. longest = Len(lines[1])
        BY <1>2, <2>1, <3>1, MaxOfOne
    <3> QED  BY <2>1, <3>2
  <2>2. CASE Len(lines) = 2
    <3>1. PICK a, b \in Nat : a = Len(lines[1]) /\ b = Len(lines[2])
        BY <2>2
    <3>2. {Len(lines[i]) : i \in DOMAIN lines} = {a, b}
        BY <2>2, <3>1
    <3>3. Max({a, b}) = IF a >= b THEN a ELSE b
        BY MaxOfTwo
    <3>4. longest = Max({a, b})
        BY <1>2, <3>2
    <3>5. longest \in {a, b} /\ a <= longest /\ b <= longest
        BY <3>3, <3>4
    <3>6. \A i \in DOMAIN lines : Len(lines[i]) \in {a, b}
        BY <3>2
    <3>7. \A i \in DOMAIN lines : Len(lines[i]) <= longest
        BY <3>5, <3>6
    <3>8. longest \in {Len(lines[i]) : i \in DOMAIN lines}
        BY <3>2, <3>5, Zenon
    <3> QED  BY <3>7, <3>8
  <2> QED  BY <2>1, <2>2
<1>4. PICK wide \in Nat : wide = longest * 6 + 14
    BY <1>3
<1>5. BubbleAt(lines).width = Min({Max({wide, 36}), 122})
    BY <1>2, <1>4 DEF BubbleAt
<1>6. PICK w \in Nat : w = Max({wide, 36}) /\ wide <= w /\ (wide <= 122 => w <= 122)
    BY <1>4, MaxOfTwo
<1>7. Min({w, 122}) = IF w <= 122 THEN w ELSE 122
    BY MinOfTwo
<1>8. ASSUME \A i \in DOMAIN lines : Len(lines[i]) <= 18, NEW i \in DOMAIN lines
      PROVE  6 * Len(lines[i]) + 14 <= BubbleAt(lines).width
  <2>1. longest \in Nat /\ longest <= 18 /\ Len(lines[i]) \in Nat /\ Len(lines[i]) <= longest
      BY <1>3, <1>8
  <2>2. BubbleAt(lines).width = w
      BY <1>4, <1>5, <1>6, <1>7, <2>1
  <2> QED  BY <1>4, <1>6, <2>1, <2>2
<1> QED  BY <1>1, <1>8

-----------------------------------------------------------------------------
(***************************************************************************)
(* What is drawn: the picture is that of some frame of what was on, and    *)
(* what is on now is a frame older.                                        *)
(***************************************************************************)
Drew(g, a) ==
    /\ g \in 0..FRAME_CYCLE - 1 /\ (a # None => a \in Running)
    /\ drawn = {Picture(g, a)} /\ frame \in NextFrames(g) /\ active = tick(a)

DrawnInv ==
    \/ drawn = {} /\ active = None /\ still = 0
    \/ \E g, a : Drew(g, a)

LEMMA DrawnInit == Init => DrawnInv
BY DEF Init, DrawnInv

\* Every frame draws what is on.
LEMMA FrameDraws ==
    ASSUME TypeInv, NEW update \in Updates \cup {None}, RenderFrame(update)
    PROVE  \E g, a : /\ g = frame /\ a = On(update)
                     /\ Drew(g, a)'
<1>1. PICK g, a : g = frame /\ a = On(update)
    OBVIOUS
<1>2. g \in 0..FRAME_CYCLE - 1 /\ (a # None => a \in Running)
    BY <1>1, OnIsRunning DEF TypeInv
<1>3. drawn' = {Picture(g, a)} /\ frame' \in NextFrames(g) /\ active' = tick(a)
    BY <1>1 DEF RenderFrame, On
<1>4. Drew(g, a)'
    BY <1>2, <1>3 DEF Drew
<1> QED  BY <1>1, <1>4

LEMMA DrawnStep == TypeInv /\ DrawnInv /\ [Next]_vars => DrawnInv'
<1> SUFFICES ASSUME TypeInv, DrawnInv, [Next]_vars PROVE DrawnInv'
    OBVIOUS
<1>1. CASE Next
  <2>1. PICK update \in Updates \cup {None} : RenderFrame(update)
      BY <1>1, StepsAreFrames
  <2>2. PICK g, a : Drew(g, a)'
      BY <2>1, FrameDraws
  <2> QED  BY <2>2 DEF DrawnInv
<1>2. CASE UNCHANGED vars
  <2>1. UNCHANGED <<drawn, frame, active, still>>
      BY <1>2 DEF vars
  <2> QED  BY <2>1 DEF DrawnInv, Drew
<1> QED  BY <1>1, <1>2

LEMMA DrawnAlways == Spec => [](TypeInv /\ DrawnInv)
BY TypeInit, TypeStep, DrawnInit, DrawnStep, PTL DEF Spec

\* What is drawn is in place, and has the words of what was on.
LEMMA DrawnPicture ==
    ASSUME DrawnInv, NEW p \in drawn
    PROVE  /\ \E at : IsPlaced(p, at)
           /\ p.lines # <<>> =>
                 \E text : /\ IsText(text) /\ Len(text) <= TEXT_CAPACITY
                           /\ p.lines = split_bubble_text(text, MAX_LINE_CHARS)
           /\ active # None =>
                 /\ active.behavior \in Updates
                 /\ active.behavior.text # None =>
                       p.lines = split_bubble_text(active.behavior.text, MAX_LINE_CHARS)
<1>1. PICK g, a : Drew(g, a) /\ p = Picture(g, a)
    BY DEF DrawnInv, Drew
<1>2. g \in Nat /\ (a # None => a \in Running) /\ active = tick(a)
  <2>1. FRAME_CYCLE \in Nat
      BY DEF FRAME_CYCLE
  <2> QED  BY <1>1, <2>1 DEF Drew
<1>3. \E at : IsPlaced(p, at)
    BY <1>1, <1>2, PicturesArePlaced
<1>4. PICK text : /\ text = IF a = None THEN None ELSE a.behavior.text
                  /\ p.lines = IF text = None THEN <<>> ELSE split_bubble_text(text, MAX_LINE_CHARS)
  <2>1. Playing(g, a).text = IF a = None THEN None ELSE a.behavior.text
      BY DEF Playing
  <2> QED  BY <1>1, <2>1 DEF Picture
<1>5. text # None => IsText(text) /\ Len(text) <= TEXT_CAPACITY
  <2> SUFFICES ASSUME text # None PROVE IsText(text) /\ Len(text) <= TEXT_CAPACITY
      OBVIOUS
  <2>1. a # None /\ a.behavior \in Updates /\ text = a.behavior.text
      BY <1>2, <1>4 DEF Running
  <2> QED  BY <2>1, SceneAssumption
<1>6. active # None => a # None /\ active.behavior = a.behavior /\ active.behavior \in Updates
  <2> SUFFICES ASSUME active # None
               PROVE  a # None /\ active.behavior = a.behavior /\ active.behavior \in Updates
      OBVIOUS
  <2>1. a # None
      BY <1>2 DEF tick
  <2>2. active.behavior = a.behavior
      BY <1>2, <2>1, TickedBehavior
  <2>3. a.behavior \in Updates
      BY <1>2, <2>1 DEF Running
  <2> QED  BY <2>1, <2>2, <2>3
<1> QED  BY <1>3, <1>4, <1>5, <1>6

\* The offsets of the motion never carry Shiro further than one row or column over
\* the panel's edge, nor with it more than a dozen pixels, whatever behaviors come
\* and whenever they do.
THEOREM PicturesStayOnPanel == Spec => []StaysOnPanel
<1>1. TypeInv /\ DrawnInv => StaysOnPanel
  <2> SUFFICES ASSUME DrawnInv, NEW p \in drawn
               PROVE  /\ p.x >= -1 /\ p.x + sprite(p.pose).width <= CELL_WIDTH + 1
                      /\ p.y >= -1 /\ p.y + sprite(p.pose).height <= CELL_HEIGHT + 1
                      /\ Lost(p) <= 12
      BY DEF StaysOnPanel
  <2>1. PICK at : IsPlaced(p, at)
      BY DrawnPicture
  <2>2. PICK s : s = sprite(at.pose)
      OBVIOUS
  <2>3. s.x \in Nat /\ s.y \in Nat /\ s.width \in Nat /\ s.height \in Nat /\ at.x \in Int /\ at.y \in Int
      BY <2>1, <2>2, BoxType DEF IsPlaced, InPlace
  <2>4. /\ at.x + s.x >= -1 /\ at.x + s.x + s.width <= 128
        /\ at.y + s.y >= 0 /\ at.y + s.y + s.height <= 129
      BY <2>1, <2>2, <2>3 DEF IsPlaced, InPlace, CELL_WIDTH, CELL_HEIGHT
  <2>5. p.pose = at.pose /\ p.x = at.x + s.x /\ p.y = at.y + s.y
      BY <2>1, <2>2 DEF IsPlaced
  <2> QED  BY <2>1, <2>2, <2>3, <2>4, <2>5, LittleIsLost DEF CELL_WIDTH, CELL_HEIGHT
<1> QED  BY <1>1, DrawnAlways, PTL

\* The bubble never covers as much as a third of Shiro, whatever the text and
\* whatever pose the behavior has moved it to.
THEOREM BubblesLeaveShiro == Spec => []BubbleLeavesShiro
<1>1. TypeInv /\ DrawnInv => BubbleLeavesShiro
  <2> SUFFICES ASSUME DrawnInv, NEW p \in drawn, p.lines # <<>>,
                      NEW bubble, bubble = BubbleAt(p.lines)
               PROVE  3 * PaintedIn(p, bubble.y, bubble.y + bubble.height - 1) < Painted(p)
      BY DEF BubbleLeavesShiro
  <2>1. PICK at : IsPlaced(p, at)
      BY DrawnPicture
  <2>2. PICK text : /\ IsText(text) /\ Len(text) <= TEXT_CAPACITY
                    /\ p.lines = split_bubble_text(text, MAX_LINE_CHARS)
      BY DrawnPicture
  <2>3. /\ Len(p.lines) \in 1..2 /\ DOMAIN p.lines = 1..Len(p.lines)
        /\ \A i \in DOMAIN p.lines : Len(p.lines[i]) \in Nat
      BY <2>2, TextIsSplit
  <2>4. bubble.y = 126 - (10 * Len(p.lines) + 8) /\ bubble.height = 10 * Len(p.lines) + 8
      BY <2>3, BubbleHolds
  <2>5. bubble.y \in {98, 108} /\ bubble.y + bubble.height - 1 = 125
    <3>1. PICK n : n = Len(p.lines)
        OBVIOUS
    <3>2. n = 1 \/ n = 2
        BY <2>3, <3>1
    <3>3. bubble.y = 126 - (10 * n + 8) /\ bubble.height = 10 * n + 8
        BY <2>4, <3>1
    <3> QED  BY <3>2, <3>3
  <2> QED  BY <2>1, <2>5, LittleIsCovered
<1> QED  BY <1>1, DrawnAlways, PTL

\* Splitting any text loses no letter and cuts no word that a line has room for,
\* and unless a word has more than eleven letters every line is inside the bubble.
THEOREM TextsFit == Spec => []TextFits
<1>1. TypeInv /\ DrawnInv => TextFits
  <2> SUFFICES ASSUME DrawnInv, NEW p \in drawn, active # None, active.behavior.text # None
               PROVE  /\ LinesOf(active.behavior.text, p.lines)
                      /\ ShortWords(active.behavior.text) =>
                            \A i \in DOMAIN p.lines :
                                6 * Len(p.lines[i]) + 14 <= BubbleAt(p.lines).width
      BY DEF TextFits
  <2>1. PICK text : text = active.behavior.text
      OBVIOUS
  <2>2. p.lines = split_bubble_text(text, MAX_LINE_CHARS) /\ active.behavior \in Updates
      BY <2>1, DrawnPicture
  <2>3. IsText(text) /\ Len(text) <= TEXT_CAPACITY
      BY <2>1, <2>2, SceneAssumption
  <2>4. /\ LinesOf(text, p.lines)
        /\ Len(p.lines) \in 1..2 /\ DOMAIN p.lines = 1..Len(p.lines)
        /\ \A i \in DOMAIN p.lines : Len(p.lines[i]) \in Nat
        /\ ShortWords(text) => \A i \in DOMAIN p.lines : Len(p.lines[i]) <= 18
      BY <2>2, <2>3, TextIsSplit
  <2> QED  BY <2>1, <2>4, BubbleHolds
<1> QED  BY <1>1, DrawnAlways, PTL

-----------------------------------------------------------------------------
(***************************************************************************)
(* Left alone.                                                             *)
(***************************************************************************)
LEMMA LastFrameIs == LastFrame = 255
<1>1. 65536 % FRAME_CYCLE = 5056
    BY DEF FRAME_CYCLE
<1>2. (5056 * 5056 - 1) % FRAME_CYCLE = 255
    BY DEF FRAME_CYCLE
<1> QED  BY <1>1, <1>2 DEF LastFrame

\* In the blink period a frame is followed by the next, but where the counter wraps.
LEMMA NextPhase ==
    ASSUME NEW g \in 0..FRAME_CYCLE - 1, NEW h \in NextFrames(g)
    PROVE  \/ h % 96 = IF g % 96 = 95 THEN 0 ELSE (g % 96) + 1
           \/ g % 96 = 63 /\ h % 96 = 0
<1>1. CASE h = (g + 1) % FRAME_CYCLE
  <2>1. g \in Nat /\ g < 20160
      BY DEF FRAME_CYCLE
  <2>2. (g + 1) % FRAME_CYCLE = IF g = 20159 THEN 0 ELSE g + 1
      BY <2>1 DEF FRAME_CYCLE
  <2> QED  BY <1>1, <2>1, <2>2
<1>2. CASE g = LastFrame /\ h = 0
    BY <1>2, LastFrameIs
<1> QED  BY <1>1, <1>2 DEF NextFrames

\* From the second frame of a blink period to the fourth the eyes are closed.
LEMMA EyesClose ==
    ASSUME NEW g \in Nat, g % 96 \in 2..4 PROVE Picture(g, None).pose = "Blink01"
<1>1. local_animation(g) = "blink" /\ LocalFrame("blink", g) = g % 96
    BY DEF local_animation, LocalFrame, BLINK_PERIOD, BLINK_LEN
<1>2. Playing(g, None).animation = "blink" /\ Playing(g, None).anim_frame = g % 96
    BY <1>1 DEF Playing
<1>3. PICK f \in Nat : f = g % 96
    OBVIOUS
<1>4. f % 7 >= 2 /\ f % 7 < 5
    BY <1>3
<1>5. timed_pose(f, BLINK_LOOP).pose = "Blink01"
    BY <1>4, BlinkLoop DEF BLINK_LOOP, TimedPose
<1>6. PoseAt("blink", g, f).pose = "Blink01"
    BY <1>5 DEF PoseAt, Moved
<1> QED  BY <1>2, <1>3, <1>6 DEF Picture

\* For how long Shiro can have gone without at a phase of the blink period.
EyesOpenFor(phase) ==
    IF phase <= 2 THEN 91 + phase ELSE IF phase <= 5 THEN 0 ELSE phase - 5

\* The inductive invariant: the local loop has not passed a blink since.
BlinkInv == unblinked <= EyesOpenFor(frame % 96)

LEMMA BlinkStep == TypeInv /\ BlinkInv /\ [Next]_vars => BlinkInv'
<1> SUFFICES ASSUME TypeInv, BlinkInv, [Next]_vars PROVE BlinkInv'
    OBVIOUS
<1>1. CASE Next
  <2>1. PICK update \in Updates \cup {None} : RenderFrame(update)
      BY <1>1, StepsAreFrames
  <2>2. PICK on, g, h : on = On(update) /\ g = frame /\ h = frame'
      OBVIOUS
  <2>3. /\ g \in 0..FRAME_CYCLE - 1 /\ h \in NextFrames(g) /\ unblinked \in Nat
        /\ unblinked' = IF on # None \/ Picture(g, on).pose = "Blink01" THEN 0 ELSE unblinked + 1
      BY <2>1, <2>2 DEF RenderFrame, On, TypeInv
  <2>4. g \in Nat /\ h \in Nat
    <3>1. h \in 0..FRAME_CYCLE - 1
        BY <2>3, NextFramesType
    <3>2. FRAME_CYCLE \in Nat
        BY DEF FRAME_CYCLE
    <3> QED  BY <2>3, <3>1, <3>2
  <2>5. PICK ph \in 0..95, next \in 0..95 : ph = g % 96 /\ next = h % 96
      BY <2>4
  <2>6. next = (IF ph = 95 THEN 0 ELSE ph + 1) \/ (ph = 63 /\ next = 0)
      BY <2>3, <2>5, NextPhase
  <2>7. unblinked' \in {0, unblinked + 1} /\ (ph \in 2..4 => unblinked' = 0)
    <3>1. ph \in 2..4 => Picture(g, None).pose = "Blink01"
        BY <2>4, <2>5, EyesClose
    <3> QED  BY <2>3, <3>1
  <2>8. unblinked <= EyesOpenFor(ph)
      BY <2>2, <2>5 DEF BlinkInv
  <2>9. unblinked' <= EyesOpenFor(next)
      BY <2>3, <2>6, <2>7, <2>8 DEF EyesOpenFor
  <2> QED  BY <2>2, <2>5, <2>9 DEF BlinkInv
<1>2. CASE UNCHANGED vars
    BY <1>2 DEF vars, BlinkInv
<1> QED  BY <1>1, <1>2

\* Left to itself Shiro closes its eyes at least once in a blink period, wherever
\* in the loop a behavior has ended and where the frame counter wraps.
THEOREM BlinksLeftAlone == Spec => []BlinksWhenLeftAlone
<1>1. Init => BlinkInv
    BY DEF Init, BlinkInv, EyesOpenFor
<1>2. TypeInv /\ BlinkInv => BlinksWhenLeftAlone
  <2> SUFFICES ASSUME TypeInv, BlinkInv PROVE BlinksWhenLeftAlone
      OBVIOUS
  <2>1. frame \in Nat /\ unblinked \in Nat
    <3>1. FRAME_CYCLE \in Nat
        BY DEF FRAME_CYCLE
    <3> QED  BY <3>1 DEF TypeInv
  <2>2. PICK ph \in 0..95 : ph = frame % 96
      BY <2>1
  <2>3. unblinked <= EyesOpenFor(ph)
      BY <2>2 DEF BlinkInv
  <2>4. EyesOpenFor(ph) \in Int /\ EyesOpenFor(ph) <= 96
      BY DEF EyesOpenFor
  <2>5. unblinked <= 96
      BY <2>1, <2>3, <2>4
  <2> QED  BY <2>5 DEF BlinksWhenLeftAlone, BLINK_PERIOD
<1> QED  BY <1>1, <1>2, TypeInit, TypeStep, BlinkStep, PTL DEF Spec

-----------------------------------------------------------------------------
(***************************************************************************)
(* From one frame of a behavior to the next.                               *)
(***************************************************************************)
\* How far the poses of a loop are moved.
LoopX(animation) ==
    CASE animation \in {"confused", "happy", "look_around"} -> {-1, 0, 1}
      [] animation = "play" -> {0, 1}
      [] animation = "worried" -> {-1, 0}
      [] OTHER -> {0}

LoopY(animation) ==
    CASE animation = "happy" -> {-2, 0}
      [] animation = "excited" -> {-2, 0, 1}
      [] animation \in {"play", "alert"} -> {-1, 0}
      [] OTHER -> {0}

LEMMA LoopOffsets ==
    ASSUME NEW animation \in Animations \ {"walk"}, NEW f \in Nat
    PROVE  /\ timed_pose(f, LoopOf(animation)).x \in LoopX(animation)
           /\ timed_pose(f, LoopOf(animation)).y \in LoopY(animation)
<1>1. PICK t : t = timed_pose(f, LoopOf(animation))
    OBVIOUS
<1>2. CASE animation = "idle"
  <2>1. t \in {IDLE_LOOP[1], IDLE_LOOP[2], IDLE_LOOP[3]}
      BY <1>1, <1>2, LoopPoses DEF LoopOf
  <2> QED  BY <1>1, <1>2, <2>1 DEF IDLE_LOOP, TimedPose, LoopX, LoopY
<1>3. CASE animation = "blink"
  <2>1. t \in {BLINK_LOOP[1], BLINK_LOOP[2], BLINK_LOOP[3]}
      BY <1>1, <1>3, LoopPoses DEF LoopOf
  <2> QED  BY <1>1, <1>3, <2>1 DEF BLINK_LOOP, TimedPose, LoopX, LoopY
<1>4. CASE animation = "look_around"
  <2>1. t \in {LOOK_LOOP[1], LOOK_LOOP[2], LOOK_LOOP[3], LOOK_LOOP[4], LOOK_LOOP[5], LOOK_LOOP[6]}
      BY <1>1, <1>4, LoopPoses DEF LoopOf
  <2> QED  BY <1>1, <1>4, <2>1 DEF LOOK_LOOP, TimedPose, LoopX, LoopY
<1>5. CASE animation = "happy"
  <2>1. t \in {HAPPY_LOOP[1], HAPPY_LOOP[2], HAPPY_LOOP[3], HAPPY_LOOP[4]}
      BY <1>1, <1>5, LoopPoses DEF LoopOf
  <2> QED  BY <1>1, <1>5, <2>1 DEF HAPPY_LOOP, TimedPose, LoopX, LoopY
<1>6. CASE animation = "excited"
  <2>1. t \in {EXCITED_LOOP[1], EXCITED_LOOP[2], EXCITED_LOOP[3]}
      BY <1>1, <1>6, LoopPoses DEF LoopOf
  <2> QED  BY <1>1, <1>6, <2>1 DEF EXCITED_LOOP, TimedPose, LoopX, LoopY
<1>7. CASE animation = "confused"
  <2>1. t \in {CONFUSED_LOOP[1], CONFUSED_LOOP[2]}
      BY <1>1, <1>7, LoopPoses DEF LoopOf
  <2> QED  BY <1>1, <1>7, <2>1 DEF CONFUSED_LOOP, TimedPose, LoopX, LoopY
<1>8. CASE animation = "play"
  <2>1. t \in {PLAY_LOOP[1], PLAY_LOOP[2]}
      BY <1>1, <1>8, LoopPoses DEF LoopOf
  <2> QED  BY <1>1, <1>8, <2>1 DEF PLAY_LOOP, TimedPose, LoopX, LoopY
<1>9. CASE animation = "sleepy"
  <2>1. t \in {SLEEPY_LOOP[1], SLEEPY_LOOP[2]}
      BY <1>1, <1>9, LoopPoses DEF LoopOf
  <2> QED  BY <1>1, <1>9, <2>1 DEF SLEEPY_LOOP, TimedPose, LoopX, LoopY
<1>10. CASE animation = "nap"
  <2>1. t \in {NAP_LOOP[1], NAP_LOOP[2]}
      BY <1>1, <1>10, LoopPoses DEF LoopOf
  <2> QED  BY <1>1, <1>10, <2>1 DEF NAP_LOOP, TimedPose, LoopX, LoopY
<1>11. CASE animation = "worried"
  <2>1. t \in {WORRIED_LOOP[1], WORRIED_LOOP[2]}
      BY <1>1, <1>11, LoopPoses DEF LoopOf
  <2> QED  BY <1>1, <1>11, <2>1 DEF WORRIED_LOOP, TimedPose, LoopX, LoopY
<1>12. CASE animation = "alert"
  <2>1. t \in {ALERT_LOOP[1], ALERT_LOOP[2]}
      BY <1>1, <1>12, LoopPoses DEF LoopOf
  <2> QED  BY <1>1, <1>12, <2>1 DEF ALERT_LOOP, TimedPose, LoopX, LoopY
<1> QED  BY <1>2, <1>3, <1>4, <1>5, <1>6, <1>7, <1>8, <1>9, <1>10, <1>11, <1>12 DEF Animations

\* No wave goes from crest to trough in one frame.
LEMMA WavesStep ==
    ASSUME NEW animation \in Animations, NEW f \in Nat
    PROVE  {WaveX(animation, f), WaveX(animation, f + 1)} # {-1, 1}
<1>1. CASE animation \in {"idle", "blink", "look_around", "walk", "sleepy"}
  <2>1. WaveX(animation, f) = 0
      BY <1>1 DEF WaveX
  <2> QED  BY <2>1
<1>2. CASE animation \notin {"idle", "blink", "look_around", "walk", "sleepy"}
  <2>1. PICK s, z : /\ s \in {1, 2, 3, 4, 5, 7} /\ z = 0 /\ WaveX(animation, f) = wave(f, s, z, 1)
                    /\ WaveX(animation, f + 1) = wave(f + 1, s, z, 1)
      BY <1>2 DEF WaveX, Animations
  <2>2. PICK i \in 0..63, j \in 0..63 : i = (f * s + z) % 64 /\ j = ((f + 1) * s + z) % 64
      BY <2>1
  <2>3. WaveX(animation, f) = Crest(i) /\ WaveX(animation, f + 1) = Crest(j)
    <3>1. PICK e \in Nat : e = f + 1
        OBVIOUS
    <3>2. s \in Nat /\ z \in Nat
        BY <2>1
    <3>3. wave(f, s, z, 1) = Crest((f * s + z) % 64)
        BY <3>2, WaveOfOne
    <3>4. wave(e, s, z, 1) = Crest((e * s + z) % 64)
        BY <3>2, WaveOfOne
    <3> QED  BY <2>1, <2>2, <3>1, <3>3, <3>4
  <2>4. j = (i + s) % 64
    <3>1. CASE s = 1
        BY <2>1, <2>2, <3>1
    <3>2. CASE s = 2
        BY <2>1, <2>2, <3>2
    <3>3. CASE s = 3
        BY <2>1, <2>2, <3>3
    <3>4. CASE s = 4
        BY <2>1, <2>2, <3>4
    <3>5. CASE s = 5
        BY <2>1, <2>2, <3>5
    <3>6. CASE s = 7
        BY <2>1, <2>2, <3>6
    <3> QED  BY <2>1, <3>1, <3>2, <3>3, <3>4, <3>5, <3>6
  <2>5. ~(i = 16 /\ j = 48) /\ ~(i = 48 /\ j = 16)
      BY <2>1, <2>4
  <2>6. Crest(i) # 1 \/ Crest(j) # -1
      BY <2>5 DEF Crest
  <2>7. Crest(i) # -1 \/ Crest(j) # 1
      BY <2>5 DEF Crest
  <2> QED  BY <2>3, <2>6, <2>7
<1> QED  BY <1>1, <1>2

Near(m, n) == m - n <= 3 /\ n - m <= 3

\* From one frame of a loop to the next ...
LEMMA LoopsStep ==
    ASSUME NEW animation \in Animations \ {"walk"}, NEW g \in Nat, NEW h \in Nat, NEW f \in Nat,
           NEW p, p = PoseAt(animation, g, f), NEW q, q = PoseAt(animation, h, f + 1)
    PROVE  /\ p.x \in Int /\ p.y \in Int /\ q.x \in Int /\ q.y \in Int
           /\ Near(p.x, q.x) /\ Near(p.y, q.y)
<1>1. PICK t, u, vx, vy, wx, wy :
          /\ t = timed_pose(f, LoopOf(animation)) /\ u = timed_pose(f + 1, LoopOf(animation))
          /\ vx = WaveX(animation, f) /\ vy = WaveY(animation, g, f)
          /\ wx = WaveX(animation, f + 1) /\ wy = WaveY(animation, h, f + 1)
    OBVIOUS
<1>2. f + 1 \in Nat
    OBVIOUS
<1>3. /\ p.x = t.x + vx /\ p.y = t.y + vy
      /\ q.x = u.x + wx /\ q.y = u.y + wy
    BY <1>1, <1>2, PoseParts DEF Moved
<1>4. /\ t.x \in LoopX(animation) /\ t.y \in LoopY(animation)
      /\ u.x \in LoopX(animation) /\ u.y \in LoopY(animation)
    BY <1>1, <1>2, LoopOffsets
<1>5. /\ vx \in {-1, 0, 1} /\ wx \in {-1, 0, 1}
      /\ animation \in {"idle", "blink", "look_around", "sleepy"} => vx = 0 /\ wx = 0
    BY <1>1, <1>2, WavesAreSmall
<1>6. /\ vy \in IF animation \in {"sleepy", "worried"} THEN {0, 1, 2}
                ELSE IF animation \in {"happy", "alert"} THEN {-1, 0} ELSE {-1, 0, 1}
      /\ wy \in IF animation \in {"sleepy", "worried"} THEN {0, 1, 2}
                ELSE IF animation \in {"happy", "alert"} THEN {-1, 0} ELSE {-1, 0, 1}
      /\ animation \in {"idle", "excited"} => vy = 0 /\ wy = 0
    BY <1>1, <1>2, WavesAreSmall
<1>7. {vx, wx} # {-1, 1}
    BY <1>1, WavesStep
<1>8. p.x \in Int /\ q.x \in Int /\ Near(p.x, q.x)
  <2>1. t.x \in {-1, 0, 1} /\ u.x \in {-1, 0, 1}
      BY <1>4 DEF LoopX
  <2>2. t.x \in Int /\ u.x \in Int /\ t.x - u.x <= 2 /\ u.x - t.x <= 2
    <3>1. \A a, b \in {-1, 0, 1} : a \in Int /\ b \in Int /\ a - b <= 2 /\ b - a <= 2
        OBVIOUS
    <3> QED  BY <2>1, <3>1
  <2>3. vx \in Int /\ wx \in Int /\ vx - wx <= 1 /\ wx - vx <= 1
      BY <1>5, <1>7
  <2> QED  BY <1>3, <2>2, <2>3 DEF Near
<1>9. p.y \in Int /\ q.y \in Int /\ Near(p.y, q.y)
  <2>1. CASE animation = "happy"
    <3>1. t.y \in {-2, 0} /\ u.y \in {-2, 0} /\ vy \in {-1, 0} /\ wy \in {-1, 0}
        BY <1>4, <1>6, <2>1 DEF LoopY
    <3> QED  BY <1>3, <3>1 DEF Near
  <2>2. CASE animation = "excited"
    <3>1. t.y \in {-2, 0, 1} /\ u.y \in {-2, 0, 1} /\ vy = 0 /\ wy = 0
        BY <1>4, <1>6, <2>2 DEF LoopY
    <3> QED  BY <1>3, <3>1 DEF Near
  <2>3. CASE animation \notin {"happy", "excited"}
    <3>1. t.y \in {-1, 0} /\ u.y \in {-1, 0}
        BY <1>4, <2>3 DEF LoopY
    <3>2. vy \in Int /\ wy \in Int /\ vy - wy <= 2 /\ wy - vy <= 2
        BY <1>6
    <3> QED  BY <1>3, <3>1, <3>2 DEF Near
  <2> QED  BY <2>1, <2>2, <2>3
<1> QED  BY <1>8, <1>9

\* ... and of the patrol, which turns where it is.
LEMMA PatrolSteps ==
    ASSUME NEW f \in Nat
    PROVE  Near(Walking(f).x, Walking(f + 1).x) /\ Near(Walking(f).y, Walking(f + 1).y)
<1>1. Walking(f).y \in {-1, 0, 1} /\ Walking(f + 1).y \in {-1, 0, 1}
  <2>1. f + 1 \in Nat
      OBVIOUS
  <2> QED  BY <2>1, WalkingParts
<1>2. Near(Walking(f).y, Walking(f + 1).y)
    BY <1>1 DEF Near
<1>3. ASSUME NEW e \in Nat
      PROVE  Walking(e).x = IF e % 220 < 110 THEN -18 + ((e % 110) * 36) \div 109
                            ELSE 18 - ((e % 110) * 36) \div 109
  <2>1. PICK k \in Nat : k = e % 110
      OBVIOUS
  <2>2. Quotient(k * 36, 109) = (k * 36) \div 109
      BY DEF Quotient
  <2>3. WALK_HALF_PERIOD - 1 = 109 /\ 2 * WALK_HALF_PERIOD = 220 /\ WALK_HALF_PERIOD = 110
      BY DEF WALK_HALF_PERIOD
  <2> QED  BY <2>1, <2>2, <2>3 DEF Walking
<1>4. PICK r \in 0..219 : r = f % 220
    OBVIOUS
<1>5. /\ f % 110 = IF r < 110 THEN r ELSE r - 110
      /\ (f + 1) % 220 = IF r = 219 THEN 0 ELSE r + 1
      /\ (f + 1) % 110 = IF r = 109 \/ r = 219 THEN 0 ELSE IF r < 110 THEN r + 1 ELSE r - 109
    BY <1>4
<1>6. /\ Walking(f).x = IF r < 110 THEN -18 + (r * 36) \div 109 ELSE 18 - ((r - 110) * 36) \div 109
      /\ Walking(f + 1).x = IF r = 219 \/ r < 109
                            THEN -18 + ((IF r = 219 THEN 0 ELSE r + 1) * 36) \div 109
                            ELSE 18 - ((IF r = 109 THEN 0 ELSE r - 109) * 36) \div 109
  <2>1. /\ Walking(f).x = IF f % 220 < 110 THEN -18 + ((f % 110) * 36) \div 109
                          ELSE 18 - ((f % 110) * 36) \div 109
        /\ Walking(f + 1).x = IF (f + 1) % 220 < 110 THEN -18 + (((f + 1) % 110) * 36) \div 109
                              ELSE 18 - (((f + 1) % 110) * 36) \div 109
    <3>1. f + 1 \in Nat
        OBVIOUS
    <3> QED  BY <1>3, <3>1
  <2> QED  BY <1>4, <1>5, <2>1
<1>7. Near(Walking(f).x, Walking(f + 1).x)
    BY <1>4, <1>6 DEF Near
<1> QED  BY <1>2, <1>7

\* From one frame of a behavior to the next its offset changes by three pixels at
\* the most, where loops and waves start over and where the patrol turns round
\* included.
THEOREM MovesAreSmooth == Spec => MovesSmoothly
<1> DEFINE Smooth == /\ Magnitude(Offset'.x - Offset.x) <= 3
                     /\ Magnitude(Offset'.y - Offset.y) <= 3
<1>1. TypeInv /\ TypeInv' => (SameBehaviorGoesOn => Smooth)
  <2> SUFFICES ASSUME TypeInv, TypeInv', SameBehaviorGoesOn PROVE Smooth
      OBVIOUS
  <2>1. PICK animation, f, p, q :
            /\ animation = active.behavior.animation /\ f = active.elapsed
            /\ p = Offset /\ q = Offset'
      OBVIOUS
  <2>2. animation \in Animations /\ f \in Nat /\ frame \in Nat /\ frame' \in Nat
    <3>1. active.behavior \in Updates /\ active.elapsed \in Nat
        BY DEF SameBehaviorGoesOn, TypeInv, Running
    <3>2. FRAME_CYCLE \in Nat
        BY DEF FRAME_CYCLE
    <3>3. frame \in Nat /\ frame' \in Nat
        BY <3>2 DEF TypeInv
    <3> QED  BY <2>1, <3>1, <3>3, SceneAssumption
  <2>3. p = PoseAt(animation, frame, f) /\ q = PoseAt(animation, frame', f + 1)
      BY <2>1 DEF Offset, SameBehaviorGoesOn
  <2>4. /\ p.x \in Int /\ p.y \in Int /\ q.x \in Int /\ q.y \in Int
        /\ Near(p.x, q.x) /\ Near(p.y, q.y)
    <3>1. CASE animation = "walk"
      <4>1. p = Walking(f) /\ q = Walking(f + 1) /\ f + 1 \in Nat
          BY <2>2, <2>3, <3>1 DEF PoseAt
      <4>2. p.x \in Int /\ p.y \in Int /\ q.x \in Int /\ q.y \in Int
          BY <2>2, <4>1, WalkingParts
      <4> QED  BY <2>2, <4>1, <4>2, PatrolSteps
    <3>2. CASE animation # "walk"
        BY <2>2, <2>3, <3>2, LoopsStep
    <3> QED  BY <3>1, <3>2
  <2>5. Magnitude(q.x - p.x) <= 3 /\ Magnitude(q.y - p.y) <= 3
      BY <2>4 DEF Near, Magnitude
  <2> QED  BY <2>1, <2>5
<1> HIDE DEF Smooth
<1>2. TypeInv /\ TypeInv' => [SameBehaviorGoesOn => Smooth]_vars
    BY <1>1
<1>3. Spec => [][SameBehaviorGoesOn => Smooth]_vars
    BY <1>2, TypeAlways, PTL
<1> QED  BY <1>3 DEF MovesSmoothly, Smooth

-----------------------------------------------------------------------------
(***************************************************************************)
(* Never still: in every animation there are frames at which the picture   *)
(* cannot be where it was.                                                 *)
(***************************************************************************)
\* Where a pose of a loop is before the waves move it.
Home(timed) == timed.x + sprite(timed.pose).x
Top(timed) == timed.y + sprite(timed.pose).y

LEMMA Homes ==
    /\ Home(BLINK_LOOP[1]) = 12 /\ Home(BLINK_LOOP[2]) = 15 /\ Home(BLINK_LOOP[3]) = 12
    /\ \A i \in {1, 3, 5, 6} : Home(LOOK_LOOP[i]) = 8
    /\ Home(LOOK_LOOP[2]) = 17 /\ Home(LOOK_LOOP[4]) = 28
    /\ \A i \in 1..3 : Home(IDLE_LOOP[i]) = 12
    /\ Home(CONFUSED_LOOP[1]) = 4 /\ Home(CONFUSED_LOOP[2]) = 44
    /\ Home(HAPPY_LOOP[1]) = 0 /\ Home(HAPPY_LOOP[4]) = 17
    /\ Home(PLAY_LOOP[1]) = 13 /\ Home(PLAY_LOOP[2]) = 15
    /\ Home(EXCITED_LOOP[1]) = 17 /\ Home(EXCITED_LOOP[3]) = 13
    /\ Home(ALERT_LOOP[1]) = 17 /\ Home(ALERT_LOOP[2]) = 13
    /\ Home(WORRIED_LOOP[1]) = 23 /\ Home(WORRIED_LOOP[2]) = 21
    /\ Home(NAP_LOOP[1]) = 20 /\ Home(NAP_LOOP[2]) = 20
<1> USE DEF Home, TimedPose, sprite, SPRITES, Sprite
<1>1. Home(BLINK_LOOP[1]) = 12 /\ Home(BLINK_LOOP[2]) = 15 /\ Home(BLINK_LOOP[3]) = 12
    BY DEF BLINK_LOOP
<1>2. /\ \A i \in {1, 3, 5, 6} : Home(LOOK_LOOP[i]) = 8
      /\ Home(LOOK_LOOP[2]) = 17 /\ Home(LOOK_LOOP[4]) = 28
    BY DEF LOOK_LOOP
<1>3. \A i \in 1..3 : Home(IDLE_LOOP[i]) = 12
  <2>1. Home(IDLE_LOOP[1]) = 12 /\ Home(IDLE_LOOP[2]) = 12 /\ Home(IDLE_LOOP[3]) = 12
      BY DEF IDLE_LOOP
  <2> QED  BY <2>1
<1>4. Home(CONFUSED_LOOP[1]) = 4 /\ Home(CONFUSED_LOOP[2]) = 44
    BY DEF CONFUSED_LOOP
<1>5. Home(HAPPY_LOOP[1]) = 0 /\ Home(HAPPY_LOOP[4]) = 17
    BY DEF HAPPY_LOOP
<1>6. Home(PLAY_LOOP[1]) = 13 /\ Home(PLAY_LOOP[2]) = 15
    BY DEF PLAY_LOOP
<1>7. Home(EXCITED_LOOP[1]) = 17 /\ Home(EXCITED_LOOP[3]) = 13
    BY DEF EXCITED_LOOP
<1>8. Home(ALERT_LOOP[1]) = 17 /\ Home(ALERT_LOOP[2]) = 13
    BY DEF ALERT_LOOP
<1>9. Home(WORRIED_LOOP[1]) = 23 /\ Home(WORRIED_LOOP[2]) = 21
    BY DEF WORRIED_LOOP
<1>10. Home(NAP_LOOP[1]) = 20 /\ Home(NAP_LOOP[2]) = 20
    BY DEF NAP_LOOP
<1> HIDE DEF Home
<1> QED  BY <1>1, <1>2, <1>3, <1>4, <1>5, <1>6, <1>7, <1>8, <1>9, <1>10

LEMMA Tops ==
    /\ Top(IDLE_LOOP[1]) = 19 /\ Top(IDLE_LOOP[2]) = 18 /\ Top(IDLE_LOOP[3]) = 20
    /\ Top(SLEEPY_LOOP[1]) = 42 /\ Top(SLEEPY_LOOP[2]) = 43
    /\ Top(WALK_RIGHT_LOOP[1]) = 11 /\ Top(WALK_RIGHT_LOOP[2]) = 9
    /\ Top(WALK_LEFT_LOOP[1]) = 22 /\ Top(WALK_LEFT_LOOP[2]) = 20
<1> USE DEF Top, TimedPose, sprite, SPRITES, Sprite
<1>1. Top(IDLE_LOOP[1]) = 19 /\ Top(IDLE_LOOP[2]) = 18 /\ Top(IDLE_LOOP[3]) = 20
    BY DEF IDLE_LOOP
<1>2. Top(SLEEPY_LOOP[1]) = 42 /\ Top(SLEEPY_LOOP[2]) = 43
    BY DEF SLEEPY_LOOP
<1>3. Top(WALK_RIGHT_LOOP[1]) = 11 /\ Top(WALK_RIGHT_LOOP[2]) = 9
    BY DEF WALK_RIGHT_LOOP
<1>4. Top(WALK_LEFT_LOOP[1]) = 22 /\ Top(WALK_LEFT_LOOP[2]) = 20
    BY DEF WALK_LEFT_LOOP
<1> HIDE DEF Top
<1> QED  BY <1>1, <1>2, <1>3, <1>4

\* The loops of two poses that last as long.
LEMMA EvenLoops ==
    ASSUME NEW f \in Nat
    PROVE  /\ timed_pose(f, CONFUSED_LOOP) = CONFUSED_LOOP[IF f % 36 < 18 THEN 1 ELSE 2]
           /\ timed_pose(f, PLAY_LOOP) = PLAY_LOOP[IF f % 20 < 10 THEN 1 ELSE 2]
           /\ timed_pose(f, SLEEPY_LOOP) = SLEEPY_LOOP[IF f % 84 < 42 THEN 1 ELSE 2]
           /\ timed_pose(f, WORRIED_LOOP) = WORRIED_LOOP[IF f % 56 < 28 THEN 1 ELSE 2]
           /\ timed_pose(f, ALERT_LOOP) = ALERT_LOOP[IF f % 14 < 7 THEN 1 ELSE 2]
           /\ timed_pose(f, WALK_RIGHT_LOOP) = WALK_RIGHT_LOOP[IF f % 16 < 8 THEN 1 ELSE 2]
           /\ timed_pose(f, WALK_LEFT_LOOP) = WALK_LEFT_LOOP[IF f % 16 < 8 THEN 1 ELSE 2]
<1>1. ASSUME NEW loop, NEW n \in Nat \ {0}, NEW m \in Nat, m = n + n, loop = <<loop[1], loop[2]>>,
             loop[1].frames = n, loop[2].frames = n
      PROVE  timed_pose(f, loop) = loop[IF f % m < n THEN 1 ELSE 2]
  <2>1. PICK p, q : p = loop[1] /\ q = loop[2]
      OBVIOUS
  <2>2. p.frames = n /\ q.frames = n /\ loop = <<p, q>>
      BY <1>1, <2>1
  <2>3. timed_pose(f, <<p, q>>) = IF f % (p.frames + q.frames) < p.frames THEN p ELSE q
      BY <2>2, TwoPoses
  <2>4. timed_pose(f, loop) = IF f % m < n THEN p ELSE q
      BY <1>1, <2>2, <2>3
  <2> QED  BY <2>1, <2>4
<1>2. timed_pose(f, CONFUSED_LOOP) = CONFUSED_LOOP[IF f % 36 < 18 THEN 1 ELSE 2]
  <2>1. /\ CONFUSED_LOOP = <<CONFUSED_LOOP[1], CONFUSED_LOOP[2]>>
        /\ CONFUSED_LOOP[1].frames = 18 /\ CONFUSED_LOOP[2].frames = 18
      BY DEF CONFUSED_LOOP, TimedPose
  <2> QED  BY <1>1, <2>1
<1>3. timed_pose(f, PLAY_LOOP) = PLAY_LOOP[IF f % 20 < 10 THEN 1 ELSE 2]
  <2>1. /\ PLAY_LOOP = <<PLAY_LOOP[1], PLAY_LOOP[2]>>
        /\ PLAY_LOOP[1].frames = 10 /\ PLAY_LOOP[2].frames = 10
      BY DEF PLAY_LOOP, TimedPose
  <2> QED  BY <1>1, <2>1
<1>4. timed_pose(f, SLEEPY_LOOP) = SLEEPY_LOOP[IF f % 84 < 42 THEN 1 ELSE 2]
  <2>1. /\ SLEEPY_LOOP = <<SLEEPY_LOOP[1], SLEEPY_LOOP[2]>>
        /\ SLEEPY_LOOP[1].frames = 42 /\ SLEEPY_LOOP[2].frames = 42
      BY DEF SLEEPY_LOOP, TimedPose
  <2> QED  BY <1>1, <2>1
<1>5. timed_pose(f, WORRIED_LOOP) = WORRIED_LOOP[IF f % 56 < 28 THEN 1 ELSE 2]
  <2>1. /\ WORRIED_LOOP = <<WORRIED_LOOP[1], WORRIED_LOOP[2]>>
        /\ WORRIED_LOOP[1].frames = 28 /\ WORRIED_LOOP[2].frames = 28
      BY DEF WORRIED_LOOP, TimedPose
  <2> QED  BY <1>1, <2>1
<1>6. timed_pose(f, ALERT_LOOP) = ALERT_LOOP[IF f % 14 < 7 THEN 1 ELSE 2]
  <2>1. /\ ALERT_LOOP = <<ALERT_LOOP[1], ALERT_LOOP[2]>>
        /\ ALERT_LOOP[1].frames = 7 /\ ALERT_LOOP[2].frames = 7
      BY DEF ALERT_LOOP, TimedPose
  <2> QED  BY <1>1, <2>1
<1>7. timed_pose(f, WALK_RIGHT_LOOP) = WALK_RIGHT_LOOP[IF f % 16 < 8 THEN 1 ELSE 2]
  <2>1. /\ WALK_RIGHT_LOOP = <<WALK_RIGHT_LOOP[1], WALK_RIGHT_LOOP[2]>>
        /\ WALK_RIGHT_LOOP[1].frames = 8 /\ WALK_RIGHT_LOOP[2].frames = 8
      BY DEF WALK_RIGHT_LOOP, TimedPose
  <2> QED  BY <1>1, <2>1
<1>8. timed_pose(f, WALK_LEFT_LOOP) = WALK_LEFT_LOOP[IF f % 16 < 8 THEN 1 ELSE 2]
  <2>1. /\ WALK_LEFT_LOOP = <<WALK_LEFT_LOOP[1], WALK_LEFT_LOOP[2]>>
        /\ WALK_LEFT_LOOP[1].frames = 8 /\ WALK_LEFT_LOOP[2].frames = 8
      BY DEF WALK_LEFT_LOOP, TimedPose
  <2> QED  BY <1>1, <2>1
<1> QED  BY <1>2, <1>3, <1>4, <1>5, <1>6, <1>7, <1>8

Elsewhere(p, q) ==
    \/ p.x + sprite(p.pose).x # q.x + sprite(q.pose).x
    \/ p.y + sprite(p.pose).y # q.y + sprite(q.pose).y

LEMMA LoopPlace ==
    ASSUME NEW animation \in Animations \ {"walk"}, NEW g \in Nat, NEW f \in Nat,
           NEW t, t = timed_pose(f, LoopOf(animation)), NEW at, at = PoseAt(animation, g, f)
    PROVE  /\ Home(t) \in Int /\ Top(t) \in Int
           /\ at.x + sprite(at.pose).x = Home(t) + WaveX(animation, f)
           /\ at.y + sprite(at.pose).y = Top(t) + WaveY(animation, g, f)
<1>1. PICK wx, wy : wx = WaveX(animation, f) /\ wy = WaveY(animation, g, f)
    OBVIOUS
<1>2. at.pose = t.pose /\ at.x = t.x + wx /\ at.y = t.y + wy
    BY <1>1, PoseParts DEF Moved
<1>3. wx \in Int /\ wy \in Int
  <2>1. wx \in {-1, 0, 1}
      BY <1>1, WavesAreSmall
  <2>2. wy \in IF animation \in {"sleepy", "worried"} THEN {0, 1, 2}
               ELSE IF animation \in {"happy", "alert"} THEN {-1, 0} ELSE {-1, 0, 1}
      BY <1>1, WavesAreSmall
  <2> QED  BY <2>1, <2>2
<1>4. t.x \in Int /\ t.y \in Int
  <2>1. t.x \in LoopX(animation) /\ t.y \in LoopY(animation)
      BY LoopOffsets
  <2> QED  BY <2>1 DEF LoopX, LoopY
<1>5. PICK a \in Int, b \in Int : a = sprite(t.pose).x /\ b = sprite(t.pose).y
  <2>1. t.pose \in PoseId
      BY <1>2, PosesInPlace DEF InPlace
  <2> QED  BY <2>1, BoxType
<1> QED  BY <1>1, <1>2, <1>3, <1>4, <1>5 DEF Home, Top

\* Two columns are further than a wave moves back in one frame.
LEMMA FarIsElsewhere ==
    ASSUME NEW animation \in Animations \ {"walk"}, NEW g \in Nat, NEW h \in Nat, NEW f \in Nat,
           NEW t, t = timed_pose(f, LoopOf(animation)),
           NEW u, u = timed_pose(f + 1, LoopOf(animation)),
           Home(t) - Home(u) >= 2 \/ Home(u) - Home(t) >= 2
    PROVE  Elsewhere(PoseAt(animation, g, f), PoseAt(animation, h, f + 1))
<1>1. PICK v, w, p, q : /\ v = WaveX(animation, f) /\ w = WaveX(animation, f + 1)
                        /\ p = PoseAt(animation, g, f) /\ q = PoseAt(animation, h, f + 1)
    OBVIOUS
<1>2. v \in {-1, 0, 1} /\ w \in {-1, 0, 1} /\ {v, w} # {-1, 1}
  <2>1. f + 1 \in Nat
      OBVIOUS
  <2>2. v \in {-1, 0, 1} /\ w \in {-1, 0, 1}
      BY <1>1, <2>1, WavesAreSmall
  <2>3. {v, w} # {-1, 1}
      BY <1>1, WavesStep
  <2> QED  BY <2>2, <2>3
<1>3. v \in Int /\ w \in Int /\ v - w <= 1 /\ w - v <= 1
    BY <1>2
<1>4. p.x + sprite(p.pose).x = Home(t) + v /\ Home(t) \in Int
    BY <1>1, LoopPlace
<1>5. q.x + sprite(q.pose).x = Home(u) + w /\ Home(u) \in Int
  <2>1. PICK e \in Nat : e = f + 1
      OBVIOUS
  <2> QED  BY <1>1, <2>1, LoopPlace
<1>6. Home(t) + v # Home(u) + w
    BY <1>3, <1>4, <1>5
<1> QED  BY <1>1, <1>4, <1>5, <1>6 DEF Elsewhere

\* For how long the picture of a behavior can have been where it is: since its pose
\* last moved or, of the slow animations that hardly do, since a wave last did.
IdleSince(phase) ==
    IF phase < 34 THEN phase ELSE IF phase < 60 THEN phase - 34 ELSE phase - 60

BlinkSince(phase) ==
    IF phase < 2 THEN phase + 2 ELSE IF phase < 5 THEN phase - 2 ELSE phase - 5

LookSince(phase) ==
    IF phase < 10 THEN phase + 16 ELSE IF phase < 24 THEN phase - 10
    ELSE IF phase < 32 THEN phase - 24 ELSE IF phase < 46 THEN phase - 32 ELSE phase - 46

Since(animation, f) ==
    CASE animation = "idle" -> IdleSince(f % 90)
      [] animation = "blink" -> BlinkSince(f % 7)
      [] animation = "look_around" -> LookSince(f % 62)
      [] animation = "confused" -> f % 36
      [] animation = "walk" -> f % 16
      [] animation = "happy" -> f % 22
      [] animation = "play" -> f % 20
      [] animation = "excited" -> f % 15
      [] animation = "sleepy" -> (f + 31) % 32
      [] animation = "nap" -> (f + 15) % 32
      [] animation = "worried" -> f % 28
      [] animation = "alert" -> f % 14

LEMMA SinceType ==
    ASSUME NEW animation \in Animations, NEW f \in Nat
    PROVE  Since(animation, f) \in Nat /\ Since(animation, f) <= 35
<1>1. f % 90 \in 0..89 /\ f % 7 \in 0..6 /\ f % 62 \in 0..61
    OBVIOUS
<1>2. IdleSince(f % 90) \in 0..35 /\ BlinkSince(f % 7) \in 0..35 /\ LookSince(f % 62) \in 0..35
    BY <1>1 DEF IdleSince, BlinkSince, LookSince
<1>3. /\ f % 36 \in 0..35 /\ f % 16 \in 0..35 /\ f % 22 \in 0..35 /\ f % 20 \in 0..35
      /\ f % 15 \in 0..35 /\ (f + 31) % 32 \in 0..35 /\ (f + 15) % 32 \in 0..35
      /\ f % 28 \in 0..35 /\ f % 14 \in 0..35
    OBVIOUS
<1>4. Since(animation, f) \in 0..35
    BY <1>2, <1>3 DEF Since, Animations
<1> QED  BY <1>4

\* A remainder goes on by one, or starts over.
LEMMA PhaseGoesOn ==
    ASSUME NEW f \in Nat, NEW n \in {7, 14, 15, 16, 20, 22, 28, 32, 36, 56, 62, 84, 90}
    PROVE  (f + 1) % n = IF f % n = n - 1 THEN 0 ELSE (f % n) + 1
OBVIOUS

\* Where a loop starts over its poses are two columns apart or more.
LEMMA LoopsStartOver ==
    ASSUME NEW animation \in {"confused", "happy", "play", "excited", "worried", "alert"},
           NEW g \in Nat, NEW h \in Nat, NEW f \in Nat,
           Since(animation, f + 1) # Since(animation, f) + 1
    PROVE  Elsewhere(PoseAt(animation, g, f), PoseAt(animation, h, f + 1))
<1>1. PICK t, u, e :
               /\ e \in Nat /\ e = f + 1 /\ t = timed_pose(f, LoopOf(animation))
               /\ u = timed_pose(e, LoopOf(animation))
    OBVIOUS
<1>2. animation \in Animations \ {"walk"}
    BY DEF Animations
<1>3. SUFFICES Home(t) - Home(u) >= 2 \/ Home(u) - Home(t) >= 2
    BY <1>1, <1>2, FarIsElsewhere
<1>4. CASE animation = "confused"
  <2>1. f % 36 = 35 /\ e % 36 = 0
      BY <1>1, <1>4, PhaseGoesOn DEF Since
  <2>2. t = CONFUSED_LOOP[2] /\ u = CONFUSED_LOOP[1]
      BY <1>1, <1>4, <2>1, EvenLoops DEF LoopOf
  <2> QED  BY <2>2, Homes
<1>5. CASE animation = "happy"
  <2>1. f % 22 = 21 /\ e % 22 = 0
      BY <1>1, <1>5, PhaseGoesOn DEF Since
  <2>2. t = HAPPY_LOOP[4] /\ u = HAPPY_LOOP[1]
      BY <1>1, <1>5, <2>1, HappyLoop DEF LoopOf
  <2> QED  BY <2>2, Homes
<1>6. CASE animation = "play"
  <2>1. f % 20 = 19 /\ e % 20 = 0
      BY <1>1, <1>6, PhaseGoesOn DEF Since
  <2>2. t = PLAY_LOOP[2] /\ u = PLAY_LOOP[1]
      BY <1>1, <1>6, <2>1, EvenLoops DEF LoopOf
  <2> QED  BY <2>2, Homes
<1>7. CASE animation = "excited"
  <2>1. f % 15 = 14 /\ e % 15 = 0
      BY <1>1, <1>7, PhaseGoesOn DEF Since
  <2>2. t = EXCITED_LOOP[3] /\ u = EXCITED_LOOP[1]
      BY <1>1, <1>7, <2>1, ExcitedLoop DEF LoopOf
  <2> QED  BY <2>2, Homes
<1>8. CASE animation = "alert"
  <2>1. f % 14 = 13 /\ e % 14 = 0
      BY <1>1, <1>8, PhaseGoesOn DEF Since
  <2>2. t = ALERT_LOOP[2] /\ u = ALERT_LOOP[1]
      BY <1>1, <1>8, <2>1, EvenLoops DEF LoopOf
  <2> QED  BY <2>2, Homes
<1>9. CASE animation = "worried"
  <2>1. f % 28 = 27
      BY <1>1, <1>9, PhaseGoesOn DEF Since
  <2>2. (f % 56 = 27 /\ e % 56 = 28) \/ (f % 56 = 55 /\ e % 56 = 0)
      BY <1>1, <2>1
  <2>3. {t, u} = {WORRIED_LOOP[1], WORRIED_LOOP[2]}
    <3>1. /\ t = WORRIED_LOOP[IF f % 56 < 28 THEN 1 ELSE 2]
          /\ u = WORRIED_LOOP[IF e % 56 < 28 THEN 1 ELSE 2]
        BY <1>1, <1>9, EvenLoops DEF LoopOf
    <3> QED  BY <2>2, <3>1
  <2> QED  BY <2>3, Homes
<1> QED  BY <1>4, <1>5, <1>6, <1>7, <1>8, <1>9

\* The looks are at either side.
LEMMA LooksTurn ==
    ASSUME NEW animation, animation = "look_around", NEW g \in Nat, NEW h \in Nat, NEW f \in Nat,
           Since(animation, f + 1) # Since(animation, f) + 1
    PROVE  Elsewhere(PoseAt(animation, g, f), PoseAt(animation, h, f + 1))
<1>1. PICK t, u, e :
               /\ e \in Nat /\ e = f + 1 /\ t = timed_pose(f, LOOK_LOOP)
               /\ u = timed_pose(e, LOOK_LOOP)
    OBVIOUS
<1>2. LoopOf(animation) = LOOK_LOOP /\ animation \in Animations \ {"walk"}
    BY DEF LoopOf, Animations
<1>3. SUFFICES Home(t) - Home(u) >= 2 \/ Home(u) - Home(t) >= 2
    BY <1>1, <1>2, FarIsElsewhere
<1>4. PICK phase \in 0..61, next \in 0..61 :
          /\ phase = f % 62 /\ next = e % 62 /\ next = IF phase = 61 THEN 0 ELSE phase + 1
  <2>1. (f + 1) % 62 = IF f % 62 = 62 - 1 THEN 0 ELSE (f % 62) + 1
      BY PhaseGoesOn
  <2> QED  BY <1>1, <2>1
<1>5. LookSince(next) # LookSince(phase) + 1
    BY <1>1, <1>4 DEF Since
<1>6. phase \in {9, 23, 31, 45}
    BY <1>4, <1>5 DEF LookSince
<1>7. /\ phase = 9 => t = LOOK_LOOP[1] /\ u = LOOK_LOOP[2]
      /\ phase = 23 => t = LOOK_LOOP[2] /\ u = LOOK_LOOP[3]
      /\ phase = 31 => t = LOOK_LOOP[3] /\ u = LOOK_LOOP[4]
      /\ phase = 45 => t = LOOK_LOOP[4] /\ u = LOOK_LOOP[5]
    BY <1>1, <1>4, LookLoop
<1> QED  BY <1>6, <1>7, Homes
\* The eyes are where the sprite of open eyes is not.
LEMMA BlinksMove ==
    ASSUME NEW animation, animation = "blink", NEW g \in Nat, NEW h \in Nat, NEW f \in Nat,
           Since(animation, f + 1) # Since(animation, f) + 1
    PROVE  Elsewhere(PoseAt(animation, g, f), PoseAt(animation, h, f + 1))
<1>1. PICK t, u, e :
               /\ e \in Nat /\ e = f + 1 /\ t = timed_pose(f, BLINK_LOOP)
               /\ u = timed_pose(e, BLINK_LOOP)
    OBVIOUS
<1>2. LoopOf(animation) = BLINK_LOOP /\ animation \in Animations \ {"walk"}
    BY DEF LoopOf, Animations
<1>3. SUFFICES Home(t) - Home(u) >= 2 \/ Home(u) - Home(t) >= 2
    BY <1>1, <1>2, FarIsElsewhere
<1>4. PICK phase \in 0..6, next \in 0..6 :
          /\ phase = f % 7 /\ next = e % 7 /\ next = IF phase = 6 THEN 0 ELSE phase + 1
  <2>1. (f + 1) % 7 = IF f % 7 = 7 - 1 THEN 0 ELSE (f % 7) + 1
      BY PhaseGoesOn
  <2> QED  BY <1>1, <2>1
<1>5. BlinkSince(next) # BlinkSince(phase) + 1
    BY <1>1, <1>4 DEF Since
<1>6. phase \in {1, 4}
    BY <1>4, <1>5 DEF BlinkSince
<1>7. /\ phase = 1 => t = BLINK_LOOP[1] /\ u = BLINK_LOOP[2]
      /\ phase = 4 => t = BLINK_LOOP[2] /\ u = BLINK_LOOP[3]
    BY <1>1, <1>4, BlinkLoop
<1> QED  BY <1>6, <1>7, Homes

\* Awake, Shiro breathes.
LEMMA IdlesBreathe ==
    ASSUME NEW animation, animation = "idle", NEW g \in Nat, NEW h \in Nat, NEW f \in Nat,
           Since(animation, f + 1) # Since(animation, f) + 1
    PROVE  Elsewhere(PoseAt(animation, g, f), PoseAt(animation, h, f + 1))
<1>1. PICK t, u, e :
               /\ e \in Nat /\ e = f + 1 /\ t = timed_pose(f, IDLE_LOOP)
               /\ u = timed_pose(e, IDLE_LOOP)
    OBVIOUS
<1>2. LoopOf(animation) = IDLE_LOOP /\ animation \in Animations \ {"walk"}
    BY DEF LoopOf, Animations
<1>3. PICK phase \in 0..89, next \in 0..89 :
          /\ phase = f % 90 /\ next = e % 90 /\ next = IF phase = 89 THEN 0 ELSE phase + 1
  <2>1. (f + 1) % 90 = IF f % 90 = 90 - 1 THEN 0 ELSE (f % 90) + 1
      BY PhaseGoesOn
  <2> QED  BY <1>1, <2>1
<1>4. IdleSince(next) # IdleSince(phase) + 1
    BY <1>1, <1>3 DEF Since
<1>5. phase \in {33, 59, 89}
    BY <1>3, <1>4 DEF IdleSince
<1>6. /\ phase = 33 => t = IDLE_LOOP[1] /\ u = IDLE_LOOP[2]
      /\ phase = 59 => t = IDLE_LOOP[2] /\ u = IDLE_LOOP[3]
      /\ phase = 89 => t = IDLE_LOOP[3] /\ u = IDLE_LOOP[1]
    BY <1>1, <1>3, IdleLoop
<1>7. Top(t) # Top(u)
    BY <1>5, <1>6, Tops
<1>8. PICK p, q : p = PoseAt(animation, g, f) /\ q = PoseAt(animation, h, e)
    OBVIOUS
<1>9. /\ WaveY(animation, g, f) = 0 /\ WaveY(animation, h, e) = 0
      /\ Top(t) \in Int /\ Top(u) \in Int
      /\ p.y + sprite(p.pose).y = Top(t) + WaveY(animation, g, f)
      /\ q.y + sprite(q.pose).y = Top(u) + WaveY(animation, h, e)
    BY <1>1, <1>2, <1>8, LoopPlace DEF WaveY
<1> QED  BY <1>1, <1>7, <1>8, <1>9 DEF Elsewhere

\* Asleep, it does after every half of the wave.
LEMMA SleepersBreathe ==
    ASSUME NEW animation, animation \in {"sleepy", "nap"}, NEW g \in Nat, NEW h \in Nat, NEW f \in Nat,
           Since(animation, f + 1) # Since(animation, f) + 1
    PROVE  Elsewhere(PoseAt(animation, g, f), PoseAt(animation, h, f + 1))
<1>1. PICK t, u, e :
               /\ e \in Nat /\ e = f + 1 /\ t = timed_pose(f, LoopOf(animation))
               /\ u = timed_pose(e, LoopOf(animation))
    OBVIOUS
<1>2. animation \in Animations \ {"walk"}
    BY DEF Animations
<1>3. PICK p, q : p = PoseAt(animation, g, f) /\ q = PoseAt(animation, h, e)
    OBVIOUS
<1>4. PICK z, c, s : /\ z = 0 /\ c = 16 /\ s = 1
                     /\ WaveX("nap", f) = wave(f, s, z, 1) /\ WaveX("nap", e) = wave(e, s, z, 1)
                     /\ WaveY("sleepy", g, f) = 1 + wave(f, s, c, 1)
                     /\ WaveY("sleepy", h, e) = 1 + wave(e, s, c, 1)
    BY DEF WaveX, WaveY
<1>5. CASE animation = "nap"
  <2>1. f % 32 = 16
      BY <1>1, <1>5 DEF Since
  <2>2. (f * s + z) % 64 \in {16, 48} /\ (e * s + z) % 64 \notin {16, 48}
      BY <1>1, <1>4, <2>1
  <2>3. WaveX("nap", f) # 0 /\ WaveX("nap", e) = 0
    <3>1. s \in Nat /\ z \in Nat
        BY <1>4
    <3>2. wave(f, s, z, 1) = Crest((f * s + z) % 64)
        BY <3>1, WaveOfOne
    <3>3. wave(e, s, z, 1) = Crest((e * s + z) % 64)
        BY <1>1, <3>1, WaveOfOne
    <3> QED  BY <1>4, <2>2, <3>2, <3>3 DEF Crest
  <2>4. Home(t) = 20 /\ Home(u) = 20
    <3>1. t \in {NAP_LOOP[1], NAP_LOOP[2]} /\ u \in {NAP_LOOP[1], NAP_LOOP[2]}
        BY <1>1, <1>5, LoopPoses DEF LoopOf
    <3> QED  BY <3>1, Homes
  <2>5. /\ p.x + sprite(p.pose).x = Home(t) + WaveX("nap", f)
        /\ q.x + sprite(q.pose).x = Home(u) + WaveX("nap", e)
      BY <1>1, <1>2, <1>3, <1>5, LoopPlace
  <2>6. WaveX("nap", f) \in Int
    <3>1. WaveX("nap", f) \in {-1, 0, 1}
        BY <1>2, <1>5, WavesAreSmall
    <3> QED  BY <3>1
  <2> QED  BY <1>1, <1>3, <2>3, <2>4, <2>5, <2>6 DEF Elsewhere
<1>6. CASE animation = "sleepy"
  <2>1. f % 32 = 0
      BY <1>1, <1>6 DEF Since
  <2>2. (f * s + c) % 64 \in {16, 48} /\ (e * s + c) % 64 \notin {16, 48}
      BY <1>1, <1>4, <2>1
  <2>3. PICK v \in {-1, 1}, w \in {0} :
            WaveY("sleepy", g, f) = 1 + v /\ WaveY("sleepy", h, e) = 1 + w
    <3>1. s \in Nat /\ c \in Nat
        BY <1>4
    <3>2. wave(f, s, c, 1) = Crest((f * s + c) % 64)
        BY <3>1, WaveOfOne
    <3>3. wave(e, s, c, 1) = Crest((e * s + c) % 64)
        BY <1>1, <3>1, WaveOfOne
    <3>4. wave(f, s, c, 1) \in {-1, 1} /\ wave(e, s, c, 1) \in {0}
        BY <2>2, <3>2, <3>3 DEF Crest
    <3> QED  BY <1>4, <3>4
  <2>4. t = u
    <3>1. /\ t = SLEEPY_LOOP[IF f % 84 < 42 THEN 1 ELSE 2]
          /\ u = SLEEPY_LOOP[IF e % 84 < 42 THEN 1 ELSE 2]
        BY <1>1, <1>6, EvenLoops DEF LoopOf
    <3>2. f % 84 < 42 <=> e % 84 < 42
      <4>1. f % 84 # 41 /\ f % 84 # 83
          BY <2>1
      <4> QED  BY <1>1, <4>1
    <3> QED  BY <3>1, <3>2
  <2>5. /\ p.y + sprite(p.pose).y = Top(t) + WaveY("sleepy", g, f)
        /\ q.y + sprite(q.pose).y = Top(u) + WaveY("sleepy", h, e)
        /\ Top(t) \in Int
      BY <1>1, <1>2, <1>3, <1>6, LoopPlace
  <2>6. Top(t) + (1 + v) # Top(t) + (1 + w)
      BY <2>3, <2>5
  <2> QED  BY <1>1, <1>3, <2>3, <2>4, <2>5, <2>6 DEF Elsewhere
<1> QED  BY <1>5, <1>6

\* And on patrol a step is two rows, of which the wave takes back one.
LEMMA PatrolBobs ==
    ASSUME NEW f \in Nat, f % 16 = 15
    PROVE  Elsewhere(Walking(f), Walking(f + 1))
<1>1. ASSUME NEW e \in Nat
      PROVE  \E i \in {0, 1}, loop \in {WALK_RIGHT_LOOP, WALK_LEFT_LOOP} :
                Walking(e).y + sprite(Walking(e).pose).y
                  = Top(loop[IF e % 16 < 8 THEN 1 ELSE 2]) + i
  <2>1. PICK i \in {0, 1} : i = wave_abs(e, 4, 0, 1)
      BY WaveRange
  <2>2. PICK loop \in {WALK_RIGHT_LOOP, WALK_LEFT_LOOP} :
            loop = IF e % (2 * WALK_HALF_PERIOD) < WALK_HALF_PERIOD
                   THEN WALK_RIGHT_LOOP ELSE WALK_LEFT_LOOP
      OBVIOUS
  <2>3. PICK t : t = timed_pose(e, loop)
      OBVIOUS
  <2>4. t = loop[IF e % 16 < 8 THEN 1 ELSE 2]
      BY <2>2, <2>3, EvenLoops
  <2>5. Walking(e).pose = t.pose /\ Walking(e).y = t.y + i
      BY <2>1, <2>2, <2>3 DEF Walking
  <2>6. PICK a \in Int, b \in Int : a = t.y /\ b = sprite(t.pose).y
    <3>1. t \in {WALK_RIGHT_LOOP[1], WALK_RIGHT_LOOP[2], WALK_LEFT_LOOP[1], WALK_LEFT_LOOP[2]}
        BY <2>4
    <3>2. t.y \in {-1, 0} /\ t.pose \in {"WalkRight00", "WalkRight01", "WalkLeft00", "WalkLeft01"}
        BY <3>1 DEF WALK_RIGHT_LOOP, WALK_LEFT_LOOP, TimedPose
    <3>3. t.pose \in PoseId
        BY <3>2 DEF PoseId, SPRITES
    <3>4. t.y \in Int /\ sprite(t.pose).y \in Int
        BY <3>2, <3>3, BoxType
    <3> QED  BY <3>4
  <2>7. Top(t) = a + b /\ Walking(e).y + sprite(Walking(e).pose).y = a + i + b
      BY <2>5, <2>6 DEF Top
  <2> QED  BY <2>1, <2>4, <2>6, <2>7
<1>2. PICK e \in Nat : e = f + 1
    OBVIOUS
<1>3. e % 16 = 0 /\ ~(f % 16 < 8)
    BY <1>2
<1>4. PICK i \in {0, 1}, out \in {WALK_RIGHT_LOOP, WALK_LEFT_LOOP} :
          Walking(f).y + sprite(Walking(f).pose).y = Top(out[2]) + i
    BY <1>1, <1>3
<1>5. PICK j \in {0, 1}, back \in {WALK_RIGHT_LOOP, WALK_LEFT_LOOP} :
          Walking(e).y + sprite(Walking(e).pose).y = Top(back[1]) + j
    BY <1>1, <1>3
<1>6. Top(out[2]) \in {9, 20} /\ Top(back[1]) \in {11, 22}
    BY <1>4, <1>5, Tops
<1>7. Top(out[2]) + i # Top(back[1]) + j
    BY <1>4, <1>5, <1>6
<1> QED  BY <1>2, <1>4, <1>5, <1>7 DEF Elsewhere

LEMMA BehaviorsMove ==
    ASSUME NEW animation \in Animations, NEW g \in Nat, NEW h \in Nat, NEW f \in Nat,
           Since(animation, f + 1) # Since(animation, f) + 1
    PROVE  Elsewhere(PoseAt(animation, g, f), PoseAt(animation, h, f + 1))
<1>1. CASE animation = "walk"
  <2>1. PoseAt(animation, g, f) = Walking(f) /\ PoseAt(animation, h, f + 1) = Walking(f + 1)
      BY <1>1 DEF PoseAt
  <2>2. f % 16 = 15
      BY <1>1, PhaseGoesOn DEF Since
  <2> QED  BY <2>1, <2>2, PatrolBobs
<1>2. CASE animation # "walk"
  <2>1. CASE animation \in {"confused", "happy", "play", "excited", "worried", "alert"}
      BY <2>1, LoopsStartOver
  <2>2. CASE animation \in {"sleepy", "nap"}
      BY <2>2, SleepersBreathe
  <2>3. CASE animation = "look_around"
      BY <2>3, LooksTurn
  <2>4. CASE animation = "blink"
      BY <2>4, BlinksMove
  <2>5. CASE animation = "idle"
      BY <2>5, IdlesBreathe
  <2> QED  BY <1>2, <2>1, <2>2, <2>3, <2>4, <2>5 DEF Animations
<1> QED  BY <1>1, <1>2

\* The local loop: where Shiro is at a phase of the blink period and of the look
\* period, and, idle, of the loop of poses ...
LookX(f) ==
    IF f < 10 THEN 8 ELSE IF f < 24 THEN 17 ELSE IF f < 32 THEN 8 ELSE IF f < 46 THEN 28 ELSE 8

IsLook(blink, look) == blink >= 6 /\ look >= 150 /\ look <= 211
IsIdle(blink, look) == blink >= 6 /\ ~IsLook(blink, look)

LocalX(blink, look) ==
    IF blink >= 2 /\ blink < 5 THEN 15 ELSE IF IsLook(blink, look) THEN LookX(look - 150) ELSE 12

IdleY(idle) == IF idle < 34 THEN 19 ELSE IF idle < 60 THEN 18 ELSE 20

\* ... and for how long it can have been there.
LocalSince(blink, look, idle) ==
    IF blink < 2 THEN blink + 35
    ELSE IF blink < 5 THEN blink - 2
    ELSE IF blink = 5 THEN 0
    ELSE IF IsLook(blink, look) THEN LookSince(look - 150)
    ELSE IdleSince(idle) + 1

ArePhases(blink, look, idle) ==
    /\ blink \in Nat /\ blink <= 95 /\ look \in Nat /\ look <= 279
    /\ idle \in Nat /\ idle <= 89

PhasesOf(g, blink, look, idle) ==
    /\ ArePhases(blink, look, idle)
    /\ blink = g % 96 /\ look = g % 280 /\ idle = g % 90

LEMMA LocalPhases == ASSUME NEW g \in Nat PROVE \E b, l, i : PhasesOf(g, b, l, i)
<1>1. g % 96 \in Nat /\ g % 96 <= 95
    OBVIOUS
<1>2. g % 280 \in Nat /\ g % 280 <= 279
    OBVIOUS
<1>3. g % 90 \in Nat /\ g % 90 <= 89
    OBVIOUS
<1> QED  BY <1>1, <1>2, <1>3 DEF PhasesOf, ArePhases

LEMMA LocalSinceType ==
    ASSUME NEW blink, NEW look, NEW idle, ArePhases(blink, look, idle)
    PROVE  LocalSince(blink, look, idle) \in Nat /\ LocalSince(blink, look, idle) <= 36
BY DEF LocalSince, IsLook, LookSince, IdleSince, ArePhases

LEMMA LocalPlace ==
    ASSUME NEW g \in Nat, NEW p, p = Picture(g, None)
    PROVE  /\ p.x = LocalX(g % 96, g % 280)
           /\ IsIdle(g % 96, g % 280) => p.y = IdleY(g % 90)
<1>1. PICK animation, f, at : /\ animation = local_animation(g) /\ f = LocalFrame(animation, g)
                              /\ at = PoseAt(animation, g, f)
    OBVIOUS
<1>2. p.x = at.x + sprite(at.pose).x /\ p.y = at.y + sprite(at.pose).y
  <2>1. Playing(g, None).animation = animation /\ Playing(g, None).anim_frame = f
      BY <1>1 DEF Playing
  <2> QED  BY <1>1, <2>1 DEF Picture
<1>3. PICK blink, look, idle : /\ blink \in Nat /\ blink <= 95 /\ look \in Nat /\ look <= 279
                               /\ idle \in Nat /\ idle <= 89
                               /\ blink = g % 96 /\ look = g % 280 /\ idle = g % 90
    BY LocalPhases DEF PhasesOf, ArePhases
<1>4. animation = IF blink < 6 THEN "blink" ELSE IF IsLook(blink, look) THEN "look_around" ELSE "idle"
  <2>1. look \in LOOK_START..LOOK_START + LOOK_LEN - 1 <=> look >= 150 /\ look <= 211
      BY <1>3 DEF LOOK_START, LOOK_LEN
  <2>2. BLINK_PERIOD = 96 /\ BLINK_LEN = 6 /\ LOOK_PERIOD = 280
      BY DEF BLINK_PERIOD, BLINK_LEN, LOOK_PERIOD
  <2> QED  BY <1>1, <1>3, <2>1, <2>2 DEF local_animation, IsLook
<1>5. animation \in Animations \ {"walk"} /\ f \in Nat
    BY <1>1, <1>4, LocalLoop DEF Animations
<1>6. PICK t : t = timed_pose(f, LoopOf(animation))
    OBVIOUS
<1>7. /\ p.x = Home(t) + WaveX(animation, f) /\ WaveX(animation, f) = 0
      /\ p.y = Top(t) + WaveY(animation, g, f)
  <2>1. WaveX(animation, f) = 0
      BY <1>4 DEF WaveX
  <2> QED  BY <1>1, <1>2, <1>5, <1>6, <2>1, LoopPlace
<1>8. CASE blink < 6
  <2>1. animation = "blink" /\ f = blink
      BY <1>1, <1>3, <1>4, <1>8 DEF LocalFrame, BLINK_PERIOD
  <2>2. f % 7 = blink
      BY <1>3, <1>8, <2>1
  <2>3. t = IF blink < 2 THEN BLINK_LOOP[1] ELSE IF blink < 5 THEN BLINK_LOOP[2] ELSE BLINK_LOOP[3]
      BY <1>5, <1>6, <2>1, <2>2, BlinkLoop DEF LoopOf
  <2>4. p.x = Home(t)
      BY <1>5, <1>6, <1>7, LoopPlace
  <2>5. p.x = LocalX(blink, look)
      BY <1>3, <1>8, <2>3, <2>4, Homes DEF LocalX, IsLook
  <2> QED  BY <1>3, <1>8, <2>5 DEF IsIdle
<1>9. CASE IsLook(blink, look)
  <2>1. animation = "look_around" /\ f = look - 150 /\ f \in 0..61
    <3>1. animation = "look_around" /\ look - 150 \in 0..61
        BY <1>3, <1>4, <1>9 DEF IsLook
    <3>2. f = Max({look - 150, 0})
        BY <1>1, <1>3, <3>1 DEF LocalFrame, LOOK_PERIOD, LOOK_START
    <3> QED  BY <3>1, <3>2, MaxOfTwo
  <2>2. f % 62 = f
      BY <2>1
  <2>3. t = IF f < 10 THEN LOOK_LOOP[1] ELSE IF f < 24 THEN LOOK_LOOP[2]
            ELSE IF f < 32 THEN LOOK_LOOP[3] ELSE IF f < 46 THEN LOOK_LOOP[4]
            ELSE IF f < 54 THEN LOOK_LOOP[5] ELSE LOOK_LOOP[6]
      BY <1>5, <1>6, <2>1, <2>2, LookLoop DEF LoopOf
  <2>4. Home(t) = LookX(f)
      BY <2>1, <2>3, Homes DEF LookX
  <2>5. p.x = LookX(f)
      BY <1>5, <1>6, <1>7, <2>4, LoopPlace
  <2>6. p.x = LocalX(blink, look)
      BY <1>3, <1>9, <2>1, <2>5 DEF LocalX, IsLook
  <2> QED  BY <1>3, <1>9, <2>6 DEF IsIdle
<1>10. CASE IsIdle(blink, look)
  <2>1. animation = "idle" /\ f = g
      BY <1>1, <1>3, <1>4, <1>10 DEF LocalFrame, IsIdle, IsLook
  <2>2. t = IF idle < 34 THEN IDLE_LOOP[1] ELSE IF idle < 60 THEN IDLE_LOOP[2] ELSE IDLE_LOOP[3]
      BY <1>3, <1>6, <2>1, IdleLoop DEF LoopOf
  <2>3. Home(t) = 12 /\ Top(t) = IdleY(idle)
      BY <1>3, <2>2, Homes, Tops DEF IdleY
  <2>4. WaveY(animation, g, f) = 0
      BY <2>1 DEF WaveY
  <2>5. p.x = 12 /\ p.y = IdleY(idle)
      BY <1>7, <2>3, <2>4 DEF IdleY
  <2>6. p.x = LocalX(blink, look)
      BY <1>3, <1>10, <2>5 DEF LocalX, IsIdle
  <2> QED  BY <1>3, <2>5, <2>6
<1> QED  BY <1>3, <1>8, <1>9, <1>10 DEF IsIdle

\* The phases of the frame that follows one, where the counter wraps and elsewhere.
Follow(b, l, i, bb, ll, ii) ==
    \/ /\ bb = IF b = 95 THEN 0 ELSE b + 1
       /\ ll = IF l = 279 THEN 0 ELSE l + 1
       /\ ii = IF i = 89 THEN 0 ELSE i + 1
    \/ b = 63 /\ l = 255 /\ i = 75 /\ bb = 0 /\ ll = 0 /\ ii = 0

LEMMA NextPhases ==
    ASSUME NEW g \in 0..FRAME_CYCLE - 1, NEW h \in NextFrames(g)
    PROVE  Follow(g % 96, g % 280, g % 90, h % 96, h % 280, h % 90)
<1> USE DEF Follow
<1>1. CASE h = (g + 1) % FRAME_CYCLE
  <2>1. g \in Nat /\ g < 20160
      BY DEF FRAME_CYCLE
  <2>2. (g + 1) % FRAME_CYCLE = IF g = 20159 THEN 0 ELSE g + 1
      BY <2>1 DEF FRAME_CYCLE
  <2>3. h % 96 = IF g % 96 = 95 THEN 0 ELSE (g % 96) + 1
      BY <1>1, <2>1, <2>2
  <2>4. h % 280 = IF g % 280 = 279 THEN 0 ELSE (g % 280) + 1
      BY <1>1, <2>1, <2>2
  <2>5. h % 90 = IF g % 90 = 89 THEN 0 ELSE (g % 90) + 1
      BY <1>1, <2>1, <2>2
  <2> QED  BY <2>3, <2>4, <2>5
<1>2. CASE g = LastFrame /\ h = 0
    BY <1>2, LastFrameIs
<1> QED  BY <1>1, <1>2 DEF NextFrames

\* From one frame of the local loop to the next Shiro is there for longer, or not there.
LEMMA LocalLoopMoves ==
    ASSUME NEW b, NEW l, NEW i, ArePhases(b, l, i),
           NEW bb, NEW ll, NEW ii, ArePhases(bb, ll, ii), Follow(b, l, i, bb, ll, ii)
    PROVE  \/ LocalSince(bb, ll, ii) >= LocalSince(b, l, i) + 1
           \/ LocalX(b, l) # LocalX(bb, ll)
           \/ IsIdle(b, l) /\ IsIdle(bb, ll) /\ IdleY(i) # IdleY(ii)
<1> USE DEF ArePhases, Follow
<1>1. CASE b < 6 /\ bb < 6
    BY <1>1 DEF LocalSince, LocalX, IsLook
<1>2. CASE b < 6 /\ IsLook(bb, ll)
    BY <1>2 DEF LocalX, IsLook, LookX
<1>3. CASE b < 6 /\ IsIdle(bb, ll)
  <2>1. b = 5 /\ bb = 6
      BY <1>3 DEF IsIdle
  <2>2. IdleSince(ii) \in Nat
      BY DEF IdleSince
  <2> QED  BY <1>3, <2>1, <2>2 DEF LocalSince, IsIdle
<1>4. CASE IsLook(b, l) /\ bb < 6
    BY <1>4 DEF LocalX, IsLook, LookX
<1>5. CASE IsLook(b, l) /\ IsLook(bb, ll)
  <2>1. ll = l + 1
      BY <1>5 DEF IsLook
  <2> QED  BY <1>5, <2>1 DEF LocalSince, LocalX, IsLook, LookX, LookSince
<1>6. CASE IsLook(b, l) /\ IsIdle(bb, ll)
    BY <1>6 DEF LocalX, IsLook, IsIdle, LookX
<1>7. CASE IsIdle(b, l) /\ bb < 6
  <2>1. IdleSince(i) \in Int /\ IdleSince(i) <= 33
      BY DEF IdleSince
  <2>2. bb = 0
      BY <1>7 DEF IsIdle
  <2> QED  BY <1>7, <2>1, <2>2 DEF LocalSince, IsIdle, IsLook
<1>8. CASE IsIdle(b, l) /\ IsLook(bb, ll)
    BY <1>8 DEF LocalX, IsLook, IsIdle, LookX
<1>9. CASE IsIdle(b, l) /\ IsIdle(bb, ll)
  <2>1. IdleSince(ii) = IdleSince(i) + 1 \/ IdleY(i) # IdleY(ii)
      BY <1>9 DEF IsIdle, IdleSince, IdleY
  <2>2. /\ LocalSince(b, l, i) = IdleSince(i) + 1 /\ LocalSince(bb, ll, ii) = IdleSince(ii) + 1
        /\ IdleSince(i) \in Int /\ IdleSince(ii) \in Int
      BY <1>9 DEF LocalSince, IsIdle, IdleSince
  <2> QED  BY <1>9, <2>1, <2>2
<1> QED  BY <1>1, <1>2, <1>3, <1>4, <1>5, <1>6, <1>7, <1>8, <1>9 DEF IsIdle

\* For how long the picture of a frame of what was on can have been the same: in the
\* local loop, for what was left of a behavior besides.
StillFor(g, a) ==
    IF a = None THEN 36 + LocalSince(g % 96, g % 280, g % 90)
    ELSE Since(a.behavior.animation, a.elapsed)

LEMMA LocalStillFor ==
    ASSUME NEW g \in Nat, NEW a, a = None, NEW b, NEW l, NEW i, PhasesOf(g, b, l, i)
    PROVE  /\ StillFor(g, a) = 36 + LocalSince(b, l, i)
           /\ LocalSince(b, l, i) \in Nat /\ LocalSince(b, l, i) <= 36
<1>1. LocalSince(b, l, i) \in Nat /\ LocalSince(b, l, i) <= 36
    BY LocalSinceType DEF PhasesOf
<1>2. StillFor(g, a) = 36 + LocalSince(b, l, i)
    BY DEF StillFor, PhasesOf
<1> QED  BY <1>1, <1>2

LEMMA StillForType ==
    ASSUME NEW g \in Nat, NEW a, a # None => a \in Running
    PROVE  /\ StillFor(g, a) \in Nat
           /\ StillFor(g, a) <= IF a = None THEN 72 ELSE 35
<1>1. CASE a = None
  <2>1. PICK b, l, i : PhasesOf(g, b, l, i)
      BY LocalPhases
  <2>2. /\ StillFor(g, a) = 36 + LocalSince(b, l, i)
        /\ LocalSince(b, l, i) \in Nat /\ LocalSince(b, l, i) <= 36
      BY <1>1, <2>1, LocalStillFor
  <2> QED  BY <1>1, <2>2
<1>2. CASE a # None
  <2>1. a.behavior.animation \in Animations /\ a.elapsed \in Nat
      BY <1>2, SceneAssumption DEF Running
  <2>2. /\ Since(a.behavior.animation, a.elapsed) \in Nat
        /\ Since(a.behavior.animation, a.elapsed) <= 35
      BY <2>1, SinceType
  <2> QED  BY <1>2, <2>2 DEF StillFor
<1> QED  BY <1>1, <1>2

\* A frame on, it is still there for longer, or not there.
LEMMA PicturesMove ==
    ASSUME NEW g \in 0..FRAME_CYCLE - 1, NEW h \in NextFrames(g), NEW a, a # None => a \in Running
    PROVE  \/ StillFor(h, tick(a)) >= StillFor(g, a) + 1
           \/ ~SamePicture(Picture(g, a), Picture(h, tick(a)))
<1>1. PICK b, p, q : b = tick(a) /\ p = Picture(g, a) /\ q = Picture(h, b)
    OBVIOUS
<1>2. g \in Nat /\ h \in Nat
  <2>1. h \in 0..FRAME_CYCLE - 1
      BY NextFramesType
  <2>2. FRAME_CYCLE \in Nat
      BY DEF FRAME_CYCLE
  <2> QED  BY <2>1, <2>2
<1>3. CASE b # None
  <2>1. a # None
      BY <1>1, <1>3 DEF tick
  <2>2. b \in Running /\ b.behavior = a.behavior /\ b.elapsed = a.elapsed + 1
      BY <1>1, <1>3, <2>1, TickedBehavior
  <2>3. PICK animation \in Animations, f \in Nat : animation = a.behavior.animation /\ f = a.elapsed
      BY <2>1, SceneAssumption DEF Running
  <2>4. StillFor(g, a) = Since(animation, f) /\ StillFor(h, b) = Since(animation, f + 1)
      BY <1>3, <2>1, <2>2, <2>3 DEF StillFor
  <2>5. CASE Since(animation, f + 1) = Since(animation, f) + 1
      BY <1>1, <2>3, <2>4, <2>5, SinceType
  <2>6. CASE Since(animation, f + 1) # Since(animation, f) + 1
    <3>1. PICK at, to : at = PoseAt(animation, g, f) /\ to = PoseAt(animation, h, f + 1)
        OBVIOUS
    <3>2. Elsewhere(at, to)
        BY <1>2, <2>3, <2>6, <3>1, BehaviorsMove
    <3>3. p.x = at.x + sprite(at.pose).x /\ p.y = at.y + sprite(at.pose).y
      <4>1. Playing(g, a).animation = animation /\ Playing(g, a).anim_frame = f
          BY <2>1, <2>3 DEF Playing
      <4> QED  BY <1>1, <3>1, <4>1 DEF Picture
    <3>4. q.x = to.x + sprite(to.pose).x /\ q.y = to.y + sprite(to.pose).y
      <4>1. Playing(h, b).animation = animation /\ Playing(h, b).anim_frame = f + 1
          BY <1>3, <2>2, <2>3 DEF Playing
      <4> QED  BY <1>1, <3>1, <4>1 DEF Picture
    <3> QED  BY <1>1, <3>2, <3>3, <3>4 DEF Elsewhere, SamePicture
  <2> QED  BY <2>5, <2>6
<1>4. CASE a # None /\ b = None
  <2>1. StillFor(g, a) \in Nat /\ StillFor(g, a) <= 35
      BY <1>2, <1>4, StillForType
  <2>2. PICK bb, ll, ii : PhasesOf(h, bb, ll, ii)
      BY <1>2, LocalPhases
  <2>3. StillFor(h, b) = 36 + LocalSince(bb, ll, ii) /\ LocalSince(bb, ll, ii) \in Nat
      BY <1>2, <1>4, <2>2, LocalStillFor
  <2> QED  BY <1>1, <2>1, <2>3
<1>5. CASE a = None /\ b = None
  <2>1. PICK bl, l, i : PhasesOf(g, bl, l, i)
      BY <1>2, LocalPhases
  <2>2. PICK bb, ll, ii : PhasesOf(h, bb, ll, ii)
      BY <1>2, LocalPhases
  <2>3. \/ LocalSince(bb, ll, ii) >= LocalSince(bl, l, i) + 1
        \/ LocalX(bl, l) # LocalX(bb, ll)
        \/ IsIdle(bl, l) /\ IsIdle(bb, ll) /\ IdleY(i) # IdleY(ii)
    <3>1. Follow(bl, l, i, bb, ll, ii)
        BY <2>1, <2>2, NextPhases DEF PhasesOf
    <3>2. ArePhases(bl, l, i) /\ ArePhases(bb, ll, ii)
        BY <2>1, <2>2 DEF PhasesOf
    <3> QED  BY <3>1, <3>2, LocalLoopMoves
  <2>4. p.x = LocalX(bl, l) /\ (IsIdle(bl, l) => p.y = IdleY(i))
      BY <1>1, <1>2, <1>5, <2>1, LocalPlace DEF PhasesOf
  <2>5. q.x = LocalX(bb, ll) /\ (IsIdle(bb, ll) => q.y = IdleY(ii))
      BY <1>1, <1>2, <1>5, <2>2, LocalPlace DEF PhasesOf
  <2>6. StillFor(g, a) = 36 + LocalSince(bl, l, i) /\ LocalSince(bl, l, i) \in Nat
      BY <1>2, <1>5, <2>1, LocalStillFor
  <2>7. StillFor(h, b) = 36 + LocalSince(bb, ll, ii) /\ LocalSince(bb, ll, ii) \in Nat
      BY <1>2, <1>5, <2>2, LocalStillFor
  <2> QED  BY <1>1, <2>3, <2>4, <2>5, <2>6, <2>7 DEF SamePicture
<1>6. a = None => b = None
    BY <1>1 DEF tick
<1> QED  BY <1>3, <1>4, <1>5, <1>6

\* The inductive invariant.
StillInv ==
    \/ drawn = {} /\ still = 0
    \/ \E g, a : Drew(g, a) /\ still <= StillFor(g, a)

LEMMA StillStep == TypeInv /\ StillInv /\ [Next]_vars => StillInv'
<1> SUFFICES ASSUME TypeInv, StillInv, [Next]_vars PROVE StillInv'
    OBVIOUS
<1>1. CASE Next
  <2>1. PICK update \in Updates \cup {None} : RenderFrame(update)
      BY <1>1, StepsAreFrames
  <2>2. PICK h, b : h = frame /\ b = On(update) /\ Drew(h, b)'
      BY <2>1, FrameDraws
  <2>3. h \in Nat /\ (b # None => b \in Running)
    <3>1. FRAME_CYCLE \in Nat
        BY DEF FRAME_CYCLE
    <3> QED  BY <2>2, <3>1, OnIsRunning DEF TypeInv
  <2>4. StillFor(h, b) \in Nat
      BY <2>3, StillForType
  <2>5. still' <= StillFor(h, b)
    <3>1. CASE update = None /\ \E p \in drawn : SamePicture(p, Picture(h, b))
      <4>1. PICK g, a : Drew(g, a) /\ still <= StillFor(g, a)
          BY <3>1 DEF StillInv
      <4>2. b = tick(a) /\ h \in NextFrames(g) /\ SamePicture(Picture(g, a), Picture(h, b))
          BY <2>2, <3>1, <4>1 DEF Drew, On
      <4>3. /\ g \in 0..FRAME_CYCLE - 1 /\ (a # None => a \in Running)
          BY <4>1 DEF Drew
      <4>4. StillFor(h, b) >= StillFor(g, a) + 1
          BY <4>2, <4>3, PicturesMove
      <4>5. still' = still + 1 /\ still \in Nat
          BY <2>1, <2>2, <3>1 DEF RenderFrame, On, TypeInv
      <4>6. StillFor(g, a) \in Nat
        <5>1. FRAME_CYCLE \in Nat
            BY DEF FRAME_CYCLE
        <5>2. g \in Nat
            BY <4>3, <5>1
        <5> QED  BY <4>3, <5>2, StillForType
      <4> QED  BY <2>4, <4>1, <4>4, <4>5, <4>6
    <3>2. CASE ~(update = None /\ \E p \in drawn : SamePicture(p, Picture(h, b)))
      <4>1. still' = 0
          BY <2>1, <2>2, <3>2 DEF RenderFrame, On
      <4> QED  BY <2>4, <4>1
    <3> QED  BY <3>1, <3>2
  <2> QED  BY <2>2, <2>5 DEF StillInv
<1>2. CASE UNCHANGED vars
  <2>1. UNCHANGED <<drawn, frame, active, still>>
      BY <1>2 DEF vars
  <2> QED  BY <2>1 DEF StillInv, Drew
<1> QED  BY <1>1, <1>2

\* Left alone, no picture stays on the panel for four seconds, in any behavior, when
\* one ends, and when the frame counter wraps.
THEOREM PicturesAreNeverStill == Spec => []NeverStill
<1>1. Init => StillInv
    BY DEF Init, StillInv
<1>2. TypeInv /\ StillInv => NeverStill
  <2> SUFFICES ASSUME TypeInv, StillInv PROVE NeverStill
      OBVIOUS
  <2>1. CASE still = 0
      BY <2>1 DEF NeverStill
  <2>2. CASE \E g, a : Drew(g, a) /\ still <= StillFor(g, a)
    <3>1. PICK g, a : Drew(g, a) /\ still <= StillFor(g, a)
        BY <2>2
    <3>2. g \in Nat /\ (a # None => a \in Running)
      <4>1. FRAME_CYCLE \in Nat
          BY DEF FRAME_CYCLE
      <4> QED  BY <3>1, <4>1 DEF Drew
    <3>3. StillFor(g, a) \in Nat /\ StillFor(g, a) <= 72
        BY <3>2, StillForType
    <3>4. still \in Nat
        BY DEF TypeInv
    <3> QED  BY <3>1, <3>3, <3>4 DEF NeverStill
  <2> QED  BY <2>1, <2>2 DEF StillInv
<1> QED  BY <1>1, <1>2, TypeInit, TypeStep, StillStep, PTL DEF Spec

=============================================================================
