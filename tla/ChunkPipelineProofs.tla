------------------------ MODULE ChunkPipelineProofs -------------------------
(***************************************************************************)
(* Proofs about the walk of ChunkPipeline: what rounding does to positions *)
(* (CollisionStep), that a step ends in the open, and that rebaseFrame     *)
(* reports what it does, for any world, any bodies, moves and shifts.      *)
(***************************************************************************)
EXTENDS ChunkPipeline, WellFoundedInduction, TLAPS

-----------------------------------------------------------------------------
(* The float grid.                                                         *)

Spacings == {1, 2, 4, 8, 16, 32, 64, 128}

(* The spacing at n is one of the powers of two, and is beyond d exactly   *)
(* from the d-th doubling on.                                              *)
LEMMA UlpSpec ==
  ASSUME NEW n \in Int
  PROVE  /\ Ulp(n) \in Spacings
         /\ \A d \in Doublings : Ulp(n) > d <=> d * Exact <= Abs(n)
<1>. DEFINE S == {1} \cup {2 * d : d \in {e \in Doublings : e * Exact <= Abs(n)}}
<1>1. Abs(n) \in Nat /\ Exact \in Nat /\ Exact > 0
  BY FloatAssumption DEF Abs
<1>2. \A x : x \in S <=> \/ x = 1
                         \/ \E d \in Doublings : x = 2 * d /\ d * Exact <= Abs(n)
  OBVIOUS
<1>. HIDE DEF S
<1>3. \E x \in S : \A y \in S : x >= y
  <2>. DEFINE Crossed(d) == d * Exact <= Abs(n)
  <2>1. /\ (Crossed(64) => Crossed(32)) /\ (Crossed(32) => Crossed(16))
        /\ (Crossed(16) => Crossed(8)) /\ (Crossed(8) => Crossed(4))
        /\ (Crossed(4) => Crossed(2)) /\ (Crossed(2) => Crossed(1))
    BY <1>1
  <2>2. \A x : x \in S <=> x = 1 \/ \E d \in Doublings : x = 2 * d /\ Crossed(d)
    BY <1>2
  <2>. HIDE DEF Crossed
  <2>. QED BY <2>1, <2>2 DEF Doublings
<1>4. Ulp(n) \in S /\ \A y \in S : Ulp(n) >= y
  BY <1>3 DEF Ulp, Max, S
<1>5. Ulp(n) \in Spacings
  BY <1>2, <1>4 DEF Doublings, Spacings
<1>6. ASSUME NEW d \in Doublings, d * Exact <= Abs(n) PROVE Ulp(n) > d
  <2>1. 2 * d \in S /\ d \in Nat /\ d > 0
    BY <1>2, <1>6 DEF Doublings
  <2>. QED BY <1>4, <1>5, <2>1 DEF Spacings
<1>7. ASSUME NEW d \in Doublings, Ulp(n) > d PROVE d * Exact <= Abs(n)
  <2>1. PICK e \in Doublings : Ulp(n) = 2 * e /\ e * Exact <= Abs(n)
    BY <1>2, <1>4, <1>7 DEF Doublings
  <2>2. e >= d
    BY <1>7, <2>1 DEF Doublings
  <2>. QED BY <1>1, <2>1, <2>2 DEF Doublings
<1>. QED BY <1>5, <1>6, <1>7

(* Farther out the spacing is no smaller. *)
LEMMA UlpGrows ==
  ASSUME NEW m \in Int, NEW n \in Int, Abs(m) <= Abs(n)
  PROVE  Ulp(m) <= Ulp(n)
<1>. SUFFICES ASSUME Ulp(m) > Ulp(n) PROVE FALSE
  BY UlpSpec DEF Spacings
<1>1. Ulp(n) \in Spacings /\ Ulp(m) \in Spacings
  BY UlpSpec
<1>2. Ulp(n) \in Doublings
  BY <1>1 DEF Spacings, Doublings
<1>3. Ulp(n) * Exact <= Abs(m)
  BY <1>2, UlpSpec
<1>4. Abs(m) \in Nat /\ Abs(n) \in Nat /\ Ulp(n) * Exact \in Nat
  BY <1>1, FloatAssumption DEF Abs, Spacings
<1>5. Ulp(n) * Exact <= Abs(n)
  BY <1>3, <1>4
<1>6. Ulp(n) > Ulp(n)
  BY <1>2, <1>5, UlpSpec
<1>. QED BY <1>1, <1>6 DEF Spacings

(* Multiples. *)
LEMMA CoarserIsFiner ==
  ASSUME NEW x \in Int, NEW a \in Spacings, NEW b \in Spacings, a <= b, x % b = 0
  PROVE  x % a = 0
BY DEF Spacings

LEMMA SumOfMultiples ==
  ASSUME NEW x \in Int, NEW y \in Int, NEW a \in Spacings, x % a = 0, y % a = 0
  PROVE  (x + y) % a = 0 /\ (x - y) % a = 0
BY DEF Spacings

LEMMA ProductOfMultiple ==
  ASSUME NEW x \in Int, NEW y \in Int, NEW a \in Spacings, x % a = 0
  PROVE  (y * x) % a = 0
<1>1. PICK k \in Int : x = a * k
  BY DEF Spacings
<1>. DEFINE z == y * k  w == y * x
<1>2. w = a * z /\ z \in Int /\ w \in Int
  BY <1>1 DEF Spacings
<1>. HIDE DEF z, w
<1>3. w % a = 0
  BY <1>2 DEF Spacings
<1>. QED BY <1>3 DEF w

(* Rounding gives a multiple of the spacing, half a spacing away at most,  *)
(* and keeps multiples.                                                    *)
LEMMA FlNear ==
  ASSUME NEW n \in Int
  PROVE  /\ Fl(n) \in Int /\ Fl(n) % Ulp(n) = 0
         /\ 2 * (Fl(n) - n) <= Ulp(n) /\ 2 * (n - Fl(n)) <= Ulp(n)
         /\ n % Ulp(n) = 0 => Fl(n) = n
<1>1. Ulp(n) \in Spacings
  BY UlpSpec
<1>2. ASSUME NEW u \in Spacings, Ulp(n) = u
      PROVE  /\ Fl(n) \in Int /\ Fl(n) % u = 0
             /\ 2 * (Fl(n) - n) <= u /\ 2 * (n - Fl(n)) <= u
             /\ n % u = 0 => Fl(n) = n
  <2>1. \/ Fl(n) = (n \div u) * u /\ 2 * (n % u) <= u
        \/ Fl(n) = ((n \div u) + 1) * u /\ 2 * (n % u) >= u
    <3>. DEFINE q == n \div u  r == n % u
    <3>1. Fl(n) = IF 2 * r < u \/ (2 * r = u /\ q % 2 = 0) THEN q * u ELSE (q + 1) * u
      BY <1>2 DEF Fl
    <3>2. r \in Int /\ u \in Int /\ q \in Int
      BY DEF Spacings
    <3>. HIDE DEF q, r
    <3>3. 2 * r < u \/ 2 * r = u \/ 2 * r > u
      BY <3>2
    <3>4. CASE 2 * r < u
      BY <3>1, <3>2, <3>4 DEF q, r
    <3>5. CASE 2 * r = u
      BY <3>1, <3>2, <3>5 DEF q, r
    <3>6. CASE 2 * r > u
      BY <3>1, <3>2, <3>6 DEF q, r
    <3>. QED BY <3>3, <3>4, <3>5, <3>6
  <2>. QED BY <2>1 DEF Spacings
<1>. QED BY <1>1, <1>2

(* Rounding does not cross a multiple of the spacing. *)
LEMMA FlBounded ==
  ASSUME NEW n \in Int, NEW m \in Int, m % Ulp(n) = 0
  PROVE  (n >= m => Fl(n) >= m) /\ (n <= m => Fl(n) <= m)
<1>1. ASSUME NEW u \in Spacings, NEW f \in Int, m % u = 0, f % u = 0,
             2 * (f - n) <= u, 2 * (n - f) <= u
      PROVE  (n >= m => f >= m) /\ (n <= m => f <= m)
  BY <1>1 DEF Spacings
<1>. QED BY <1>1, FlNear, UlpSpec

(* The spacing at the rounded number is no smaller. *)
LEMMA UlpOfFl ==
  ASSUME NEW n \in Int
  PROVE  Ulp(n) <= Ulp(Fl(n))
<1>1. Fl(n) \in Int /\ Ulp(n) \in Spacings /\ Ulp(Fl(n)) \in Spacings
  BY FlNear, UlpSpec
<1>2. CASE Ulp(n) = 1
  BY <1>1, <1>2 DEF Spacings
<1>3. CASE Ulp(n) # 1
  <2>1. PICK d \in Doublings : Ulp(n) = 2 * d
    BY <1>1, <1>3 DEF Spacings, Doublings
  <2>. DEFINE t == d * Exact
  <2>2. t \in Int /\ t % (2 * d) = 0 /\ (-t) % (2 * d) = 0
    BY FloatAssumption DEF Doublings
  <2>3. t <= Abs(n)
    BY <2>1, UlpSpec DEF Doublings
  <2>. HIDE DEF t
  <2>4. n >= t \/ n <= -t
    BY <2>2, <2>3 DEF Abs
  <2>5. Fl(n) >= t \/ Fl(n) <= -t
    BY <2>1, <2>2, <2>4, FlBounded
  <2>6. t <= Abs(Fl(n))
    BY <1>1, <2>2, <2>5 DEF Abs
  <2>7. Ulp(Fl(n)) > d
    BY <1>1, <2>6, UlpSpec DEF t
  <2>. QED BY <1>1, <2>1, <2>7 DEF Spacings, Doublings
<1>. QED BY <1>2, <1>3

(* A float is a multiple of its spacing. *)
LEMMA FloatIsMultiple ==
  ASSUME NEW n \in Int
  PROVE  Fl(n) = n <=> n % Ulp(n) = 0
BY FlNear

(* What has been rounded is a float. *)
LEMMA FlIsFloat ==
  ASSUME NEW n \in Int
  PROVE  Fl(Fl(n)) = Fl(n)
<1>1. /\ Fl(n) \in Int /\ Ulp(n) \in Spacings /\ Ulp(Fl(n)) \in Spacings
      /\ Fl(n) % Ulp(n) = 0
  BY FlNear, UlpSpec
<1>2. CASE Ulp(Fl(n)) = Ulp(n)
  BY <1>1, <1>2, FlNear
<1>3. CASE Ulp(Fl(n)) # Ulp(n)
  <2>1. Ulp(Fl(n)) > Ulp(n) /\ Ulp(n) \in Doublings
    BY <1>1, <1>3, UlpOfFl DEF Spacings, Doublings
  <2>. DEFINE u == Ulp(n)  t == u * Exact
  <2>2. t \in Nat /\ t > 0 /\ t % (2 * u) = 0 /\ (-t) % (2 * u) = 0 /\ t % u = 0 /\ (-t) % u = 0
    BY <2>1, FloatAssumption DEF Doublings
  <2>3. ~ (t <= Abs(n)) /\ t <= Abs(Fl(n))
    BY <1>1, <2>1, UlpSpec DEF Doublings
  <2>4. t < 2 * t /\ 2 * t = (2 * u) * Exact
    BY <2>1, <2>2, FloatAssumption DEF Doublings
  <2>. HIDE DEF t
  <2>5. n <= t /\ n >= -t
    BY <2>2, <2>3 DEF Abs
  <2>6. Fl(n) <= t /\ Fl(n) >= -t
    BY <2>2, <2>5, FlBounded
  <2>7. Fl(n) = t \/ Fl(n) = -t
    BY <1>1, <2>2, <2>3, <2>6 DEF Abs
  <2>8. Abs(Fl(n)) = t
    BY <2>2, <2>7 DEF Abs
  <2>9. Ulp(Fl(n)) <= 2 * u
    <3>1. CASE 2 * u \in Doublings
      <4>1. ~ ((2 * u) * Exact <= Abs(Fl(n)))
        BY <2>2, <2>4, <2>8
      <4>. QED BY <1>1, <3>1, <4>1, UlpSpec DEF Spacings, Doublings
    <3>2. CASE 2 * u \notin Doublings
      BY <1>1, <2>1, <3>2 DEF Spacings, Doublings
    <3>. QED BY <3>1, <3>2
  <2>10. Ulp(Fl(n)) = 2 * u
    BY <1>1, <2>1, <2>9 DEF Spacings
  <2>11. Fl(n) % Ulp(Fl(n)) = 0
    BY <2>2, <2>7, <2>10
  <2>. QED BY <1>1, <2>11, FlNear
<1>. QED BY <1>2, <1>3

-----------------------------------------------------------------------------
(* rebaseFrame, on one axis.                                               *)

(* "Successful reconstruction implies the subtraction was exact"           *)
(* (rebase.cpp:106-112), for a shift that is a multiple of the spacing at  *)
(* the old position.                                                       *)
LEMMA AddBackIsExact ==
  ASSUME NEW p \in Int, NEW D \in Int, p % Ulp(p) = 0, D % Ulp(p) = 0,
         Fl(Fl(p - D) + D) = p
  PROVE  Fl(p - D) = p - D
<1>. DEFINE a == Fl(p - D)  x == a + D
<1>1. /\ p - D \in Int /\ a \in Int /\ x \in Int
      /\ Ulp(p) \in Spacings /\ Ulp(p - D) \in Spacings /\ Ulp(a) \in Spacings
      /\ Ulp(x) \in Spacings
  BY FlNear, UlpSpec
<1>2. (p - D) % Ulp(p) = 0
  BY <1>1, SumOfMultiples
<1>3. CASE Ulp(p - D) <= Ulp(p)
  <2>1. (p - D) % Ulp(p - D) = 0
    BY <1>1, <1>2, <1>3, CoarserIsFiner
  <2>. QED BY <1>1, <2>1, FlNear
<1>4. CASE ~ (Ulp(p - D) <= Ulp(p))
  <2>1. Ulp(p) <= Ulp(p - D)
    BY <1>1, <1>4 DEF Spacings
  <2>2. a % Ulp(p - D) = 0
    BY <1>1, FlNear
  <2>3. a % Ulp(p) = 0
    BY <1>1, <2>1, <2>2, CoarserIsFiner
  <2>4. x % Ulp(p) = 0
    BY <1>1, <2>3, SumOfMultiples
  <2>5. Fl(x) = p
    OBVIOUS
  <2>6. Ulp(x) <= Ulp(p)
    BY <1>1, <2>5, UlpOfFl
  <2>. HIDE DEF x
  <2>7. x % Ulp(x) = 0
    BY <1>1, <2>4, <2>6, CoarserIsFiner
  <2>8. x = p
    BY <1>1, <2>5, <2>7, FlNear
  <2>. HIDE DEF a
  <2>9. a = p - D
    BY <1>1, <2>8 DEF x
  <2>. QED BY <2>9 DEF a
<1>. QED BY <1>3, <1>4

(* The window of Sterbenz (rebase.hpp:17-19). *)
LEMMA WindowIsExact ==
  ASSUME NEW p \in Int, NEW D \in Int, p % Ulp(p) = 0, D % Ulp(p) = 0,
         D * p > 0, Abs(D) <= 2 * Abs(p)
  PROVE  Fl(p - D) = p - D
<1>1. p - D \in Int /\ Ulp(p) \in Spacings /\ Ulp(p - D) \in Spacings
  BY UlpSpec
<1>2. (p > 0 /\ D > 0) \/ (p < 0 /\ D < 0)
  <2>1. p # 0 /\ D # 0
    OBVIOUS
  <2>2. ~ (p > 0 /\ D < 0) /\ ~ (p < 0 /\ D > 0)
    OBVIOUS
  <2>. QED BY <2>1, <2>2
<1>3. Abs(p - D) <= Abs(p)
  BY <1>2 DEF Abs
<1>4. Ulp(p - D) <= Ulp(p)
  BY <1>1, <1>3, UlpGrows
<1>5. (p - D) % Ulp(p) = 0
  BY <1>1, SumOfMultiples
<1>6. (p - D) % Ulp(p - D) = 0
  BY <1>1, <1>4, <1>5, CoarserIsFiner
<1>. QED BY <1>1, <1>6, FlNear

(* "Bounded by one ulp of the result" (rebase.hpp:19-20). *)
LEMMA RebaseIsNear ==
  ASSUME NEW p \in Int, NEW D \in Int
  PROVE  Abs(Fl(p - D) + D - p) <= Ulp(Fl(p - D))
<1>1. /\ p - D \in Int /\ Fl(p - D) \in Int /\ Ulp(p - D) \in Spacings
      /\ Ulp(Fl(p - D)) \in Spacings
      /\ 2 * (Fl(p - D) - (p - D)) <= Ulp(p - D) /\ 2 * ((p - D) - Fl(p - D)) <= Ulp(p - D)
      /\ Ulp(p - D) <= Ulp(Fl(p - D))
  BY FlNear, UlpSpec, UlpOfFl
<1>2. ASSUME NEW a \in Int, NEW u \in Nat, NEW w \in Nat, u <= w,
             2 * (a - (p - D)) <= u, 2 * ((p - D) - a) <= u
      PROVE  Abs(a + D - p) <= w
  BY <1>2 DEF Abs
<1>3. Ulp(p - D) \in Nat /\ Ulp(Fl(p - D)) \in Nat
  BY <1>1 DEF Spacings
<1>. QED BY <1>1, <1>2, <1>3

-----------------------------------------------------------------------------
(* The least-number principle, for sets. *)
LEMMA LeastOf ==
  ASSUME NEW T, T \subseteq Nat, T # {}
  PROVE  \E x \in T : \A y \in T : x <= y
<1>. DEFINE R == OpToRel(<, Nat)
<1>1. IsWellFoundedOn(R, Nat)
  BY NatLessThanWellFounded
<1>2. \A x, y \in Nat : <<y, x>> \in R <=> y < x
  BY DEF OpToRel
<1>. HIDE DEF R
<1>3. PICK x \in T : \A y \in T : ~ (<<y, x>> \in R)
  BY <1>1, WFMin
<1>4. \A y \in T : ~ (y < x) /\ x \in Nat /\ y \in Nat
  BY <1>2, <1>3
<1>. QED BY <1>3, <1>4

(* f is a walk of n substeps from p. *)
Walks(f, p, sub, n) == f = [i \in 0 .. n |-> IF i = 0 THEN p ELSE Fl(f[i - 1] + sub)]

LEMMA WalkExists ==
  ASSUME NEW p, NEW sub, NEW len \in Nat
  PROVE  \E f : Walks(f, p, sub, len)
<1>. DEFINE T == {n \in Nat : ~ \E f : Walks(f, p, sub, n)}
<1>. SUFFICES ASSUME T # {} PROVE FALSE
  OBVIOUS
<1>1. PICK n \in T : \A i \in T : n <= i
  <2>1. T \subseteq Nat
    OBVIOUS
  <2>. HIDE DEF T
  <2>. QED BY <2>1, LeastOf
<1>2. n \in Nat /\ ~ \E f : Walks(f, p, sub, n)
  OBVIOUS
<1>3. n # 0
  <2>. SUFFICES ASSUME n = 0 PROVE FALSE
    OBVIOUS
  <2>. DEFINE g == [i \in 0 .. 0 |-> p]
  <2>1. Walks(g, p, sub, 0)
    BY DEF Walks
  <2>. QED BY <1>2, <2>1
<1>4. n - 1 \in Nat /\ n - 1 \notin T
  BY <1>1, <1>2, <1>3
<1>5. PICK f : Walks(f, p, sub, n - 1)
  BY <1>4
<1>. DEFINE g == [i \in 0 .. n |-> IF i = n THEN Fl(f[n - 1] + sub) ELSE f[i]]
<1>6. Walks(g, p, sub, n)
  <2>1. \A i \in 0 .. (n - 1) : f[i] = IF i = 0 THEN p ELSE Fl(f[i - 1] + sub)
    BY <1>5 DEF Walks
  <2>2. \A i \in 0 .. (n - 1) : g[i] = f[i]
    BY <1>2, <1>3
  <2>3. \A i \in 0 .. n : g[i] = IF i = 0 THEN p ELSE Fl(g[i - 1] + sub)
    <3>. TAKE i \in 0 .. n
    <3>1. CASE i = n
      <4>1. g[i] = Fl(f[n - 1] + sub) /\ n - 1 \in 0 .. (n - 1)
        BY <1>2, <1>3, <3>1
      <4>2. g[n - 1] = f[n - 1]
        BY <2>2, <4>1
      <4>. HIDE DEF g
      <4>. QED BY <1>3, <3>1, <4>1, <4>2
    <3>2. CASE i # n
      <4>1. i \in 0 .. (n - 1) /\ (i # 0 => i - 1 \in 0 .. (n - 1))
        BY <1>2, <3>2
      <4>. HIDE DEF g
      <4>. QED BY <2>1, <2>2, <4>1
    <3>. QED BY <3>1, <3>2
  <2>4. g = [i \in 0 .. n |-> g[i]]
    OBVIOUS
  <2>. HIDE DEF g
  <2>. QED BY <2>3, <2>4 DEF Walks
<1>. HIDE DEF g
<1>. QED BY <1>2, <1>6

(* The substeps of sweepAxis: each adds to the one before and rounds. *)
LEMMA PathSteps ==
  ASSUME NEW p \in Int, NEW delta \in Int
  PROVE  /\ Count(delta) \in Nat /\ Count(delta) >= 1
         /\ Path(p, delta)[0] = p
         /\ \A i \in 1 .. Count(delta) :
              Path(p, delta)[i] = Fl(Path(p, delta)[i - 1] + Fl(delta \div Count(delta)))
<1>. DEFINE sub == Fl(delta \div Count(delta))
<1>1. Count(delta) \in Nat /\ Count(delta) >= 1
  BY FloatAssumption DEF Count, Abs
<1>2. Path(p, delta) = CHOOSE f : Walks(f, p, sub, Count(delta))
  BY DEF Path, Walks
<1>3. Walks(Path(p, delta), p, sub, Count(delta))
  BY <1>1, <1>2, WalkExists
<1>. HIDE DEF sub
<1>4. \A i \in 0 .. Count(delta) :
        Path(p, delta)[i] = IF i = 0 THEN p ELSE Fl(Path(p, delta)[i - 1] + sub)
  BY <1>3 DEF Walks
<1>. QED BY <1>1, <1>4 DEF sub

(* They are floats if the first is. *)
LEMMA PathIsOfFloats ==
  ASSUME NEW p \in Int, NEW delta \in Int, Fl(p) = p
  PROVE  \A i \in 0 .. Count(delta) : Path(p, delta)[i] \in Int /\ Fl(Path(p, delta)[i]) = Path(p, delta)[i]
<1>. DEFINE Ok(i) == Path(p, delta)[i] \in Int /\ Fl(Path(p, delta)[i]) = Path(p, delta)[i]
            T == {i \in 0 .. Count(delta) : ~ Ok(i)}
<1>0. Count(delta) \in Nat /\ delta \div Count(delta) \in Int
  <2>1. Count(delta) \in Nat /\ Count(delta) >= 1
    BY PathSteps
  <2>. QED BY <2>1
<1>1. Ok(0)
  BY PathSteps
<1>2. ASSUME NEW i \in 1 .. Count(delta), Ok(i - 1) PROVE Ok(i)
  <2>1. Fl(delta \div Count(delta)) \in Int
    BY <1>0, FlNear
  <2>2. Path(p, delta)[i - 1] + Fl(delta \div Count(delta)) \in Int
    BY <1>2, <2>1
  <2>3. Path(p, delta)[i] = Fl(Path(p, delta)[i - 1] + Fl(delta \div Count(delta)))
    BY PathSteps, Zenon
  <2>. DEFINE n == Path(p, delta)[i - 1] + Fl(delta \div Count(delta))
  <2>4. Fl(n) \in Int /\ Fl(Fl(n)) = Fl(n)
    <3>. HIDE DEF n
    <3>. QED BY <2>2, FlNear, FlIsFloat DEF n
  <2>. QED BY <2>3, <2>4
<1>. SUFFICES T = {}
  OBVIOUS
<1>3. T \subseteq Nat
  BY <1>0
<1>4. SUFFICES ASSUME T # {} PROVE FALSE
  OBVIOUS
<1>5. PICK i \in T : \A j \in T : i <= j
  <2>. HIDE DEF T
  <2>. QED BY <1>3, <1>4, LeastOf
<1>6. i \in 0 .. Count(delta) /\ ~ Ok(i) /\ i - 1 \notin T
  <2>1. i \in 0 .. Count(delta) /\ ~ Ok(i)
    OBVIOUS
  <2>. HIDE DEF T
  <2>. QED BY <1>0, <1>5, <2>1
<1>7. i # 0
  BY <1>1, <1>6
<1>8. Ok(i - 1) /\ i \in 1 .. Count(delta)
  <2>1. i - 1 \in 0 .. Count(delta) /\ i \in 1 .. Count(delta)
    BY <1>0, <1>6, <1>7
  <2>. QED BY <1>6, <2>1
<1>. HIDE DEF Ok
<1>. QED BY <1>2, <1>6, <1>8

-----------------------------------------------------------------------------
(* Where a sweep ends: the position keeps the other coordinates and is of  *)
(* floats, and it is the old one or in the open.                           *)
Floats(pos) == pos \in [1 .. 3 -> Int] /\ \A i \in 1 .. 3 : Fl(pos[i]) = pos[i]

LEMMA FlushIsFloat ==
  ASSUME NEW p \in Int, NEW he \in Nat, NEW positive \in BOOLEAN
  PROVE  Flush(p, he, positive) \in Int /\ Fl(Flush(p, he, positive)) = Flush(p, he, positive)
<1>1. /\ Fl(p + he) \in Int /\ Fl(p - he) \in Int
  BY FlNear
<1>2. /\ DetFloorToInt(Fl(p + he)) * Cell - he \in Int
      /\ (DetFloorToInt(Fl(p - he)) + 1) * Cell + he \in Int
  BY <1>1, FloatAssumption DEF DetFloorToInt
<1>. QED BY <1>2, FlNear, FlIsFloat DEF Flush

LEMMA SweepEnds ==
  ASSUME NEW pos, Floats(pos), NEW axis \in 1 .. 3, NEW delta \in Int, NEW he \in Nat,
         NEW origin, NEW chunks
  PROVE  LET s == SweepAxis(pos, axis, delta, he, origin, chunks)
         IN  /\ Floats(s.pos)
             /\ s.blocked \in BOOLEAN
             /\ s.pos = pos \/ ~ BoxOverlapsSolid(s.pos, he, origin, chunks)
<1>. DEFINE path == Path(pos[axis], delta)
            n == Count(delta)
            At(p) == [pos EXCEPT ![axis] = p]
            In(p) == BoxOverlapsSolid(At(p), he, origin, chunks)
            hits == {i \in 1 .. n : In(path[i])}
            s == SweepAxis(pos, axis, delta, he, origin, chunks)
            Goal == /\ Floats(s.pos) /\ s.blocked \in BOOLEAN
                    /\ s.pos = pos \/ ~ BoxOverlapsSolid(s.pos, he, origin, chunks)
<1>. SUFFICES Goal
  OBVIOUS
<1>1. /\ pos \in [1 .. 3 -> Int] /\ pos[axis] \in Int /\ Fl(pos[axis]) = pos[axis]
  BY DEF Floats
<1>2. n \in Nat /\ n >= 1 /\ path[0] = pos[axis]
  BY <1>1, PathSteps
<1>3. \A i \in 0 .. n : path[i] \in Int /\ Fl(path[i]) = path[i]
  BY <1>1, PathIsOfFloats
<1>4. ASSUME NEW p \in Int, Fl(p) = p PROVE Floats(At(p))
  BY <1>1, <1>4 DEF Floats
<1>5. At(pos[axis]) = pos
  BY <1>1
<1>6. /\ delta = 0 => s = [pos |-> pos, blocked |-> FALSE]
      /\ delta # 0 /\ hits = {} => s = [pos |-> At(path[n]), blocked |-> FALSE]
      /\ delta # 0 /\ hits # {} =>
           s = [pos |-> At(Settled(Flush(path[Min(hits)], he, delta > 0), path[Min(hits) - 1],
                                   In(Flush(path[Min(hits)], he, delta > 0)))),
                blocked |-> TRUE]
  BY DEF SweepAxis
<1>. HIDE DEF s
<1>7. CASE delta = 0
  <2>1. s.pos = pos /\ s.blocked = FALSE
    BY <1>6, <1>7
  <2>. QED BY <2>1
<1>8. CASE delta # 0 /\ hits = {}
  <2>1. n \in 1 .. n /\ n \in 0 .. n
    BY <1>2
  <2>2. ~ In(path[n])
    BY <1>8, <2>1
  <2>3. Floats(At(path[n]))
    BY <1>3, <1>4, <2>1
  <2>4. s.pos = At(path[n]) /\ s.blocked = FALSE
    BY <1>6, <1>8
  <2>. HIDE DEF path, n
  <2>. QED BY <2>2, <2>3, <2>4
<1>9. CASE delta # 0 /\ hits # {}
  <2>. DEFINE i == Min(hits)
              flush == Flush(path[i], he, delta > 0)
  <2>1. hits \subseteq Nat
    BY <1>2
  <2>2. i \in hits /\ \A j \in hits : i <= j
    <3>1. \E x \in hits : \A y \in hits : x <= y
      <4>. HIDE DEF hits
      <4>. QED BY <1>9, <2>1, LeastOf
    <3>. HIDE DEF hits
    <3>. QED BY <3>1 DEF Min
  <2>3. i \in 1 .. n /\ i - 1 \in 0 .. n /\ (i - 1 # 0 => i - 1 \in 1 .. n) /\ i - 1 < i
    <3>1. i \in 1 .. n
      BY <2>2
    <3>. HIDE DEF i, n
    <3>. QED BY <1>2, <3>1
  <2>4. i - 1 # 0 => ~ In(path[i - 1])
    <3>1. i - 1 \notin hits
      <4>. HIDE DEF hits
      <4>. QED BY <2>1, <2>2, <2>3
    <3>. QED BY <2>3, <3>1
  <2>5. flush \in Int /\ Fl(flush) = flush
    <3>1. path[i] \in Int /\ (delta > 0) \in BOOLEAN
      BY <1>3, <2>3
    <3>. HIDE DEF path, i
    <3>. QED BY <3>1, FlushIsFloat
  <2>6. /\ s = [pos |-> At(Settled(flush, path[i - 1], In(flush))), blocked |-> TRUE]
    BY <1>6, <1>9
  <2>7. path[i - 1] \in Int /\ Fl(path[i - 1]) = path[i - 1]
    BY <1>3, <2>3
  <2>. HIDE DEF flush, i, path, n, hits
  <2>8. CASE In(flush)
    <3>1. s.pos = At(path[i - 1]) /\ s.blocked = TRUE
      BY <2>6, <2>8 DEF Settled
    <3>2. Floats(s.pos)
      BY <1>4, <2>7, <3>1
    <3>3. CASE i - 1 = 0
      <4>1. s.pos = pos
        BY <1>2, <1>5, <3>1, <3>3 DEF path
      <4>. QED BY <3>1, <3>2, <4>1
    <3>4. CASE i - 1 # 0
      <4>1. ~ BoxOverlapsSolid(s.pos, he, origin, chunks)
        BY <2>4, <3>1, <3>4
      <4>. QED BY <3>1, <3>2, <4>1
    <3>. QED BY <3>3, <3>4
  <2>9. CASE ~ In(flush)
    <3>1. s.pos = At(flush) /\ s.blocked = TRUE
      BY <2>6, <2>9 DEF Settled
    <3>2. Floats(s.pos)
      BY <1>4, <2>5, <3>1
    <3>3. ~ BoxOverlapsSolid(s.pos, he, origin, chunks)
      BY <2>9, <3>1
    <3>. QED BY <3>1, <3>2, <3>3
  <2>. QED BY <2>8, <2>9
<1>. QED BY <1>7, <1>8, <1>9

LEMMA ClampedIsOfFloats ==
  ASSUME NEW pos, Floats(pos)
  PROVE  /\ Floats(Clamped(pos))
         /\ \A i \in 1 .. 3 : Abs(Clamped(pos)[i]) <= KWorldBound
         /\ (\A i \in 1 .. 3 : Abs(Clamped(pos)[i]) < KWorldBound) => Clamped(pos) = pos
         /\ (\A i \in 1 .. 3 : Abs(pos[i]) <= KWorldBound) => Clamped(pos) = pos
<1>. DEFINE B == KWorldBound
<1>1. B \in Nat /\ Fl(B) = B
  BY FloatAssumption, WalkAssumption
<1>2. Fl(-B) = -B
  <2>1. B \in Int /\ -B \in Int /\ Abs(-B) = Abs(B)
    BY <1>1 DEF Abs
  <2>2. Ulp(-B) = Ulp(B) /\ Ulp(B) \in Spacings
    BY <2>1, UlpSpec DEF Ulp
  <2>3. B % Ulp(B) = 0
    BY <1>1, <2>1, FloatIsMultiple
  <2>. HIDE DEF B
  <2>4. (-B) % Ulp(B) = 0
    BY <2>1, <2>2, <2>3 DEF Spacings
  <2>. QED BY <2>1, <2>2, <2>4, FloatIsMultiple
<1>. HIDE DEF B
<1>3. pos \in [1 .. 3 -> Int] /\ \A i \in 1 .. 3 : pos[i] \in Int /\ Fl(pos[i]) = pos[i]
  BY DEF Floats
<1>4. Clamped(pos) = [i \in 1 .. 3 |-> DetClamp(pos[i], -B, B)]
  BY DEF Clamped, B
<1>5. ASSUME NEW i \in 1 .. 3
      PROVE  /\ Clamped(pos)[i] \in Int /\ Fl(Clamped(pos)[i]) = Clamped(pos)[i]
             /\ Abs(Clamped(pos)[i]) <= B
             /\ Abs(Clamped(pos)[i]) < B => Clamped(pos)[i] = pos[i]
             /\ Abs(pos[i]) <= B => Clamped(pos)[i] = pos[i]
  <2>1. Clamped(pos)[i] = DetClamp(pos[i], -B, B)
    BY <1>4
  <2>2. /\ DetClamp(pos[i], -B, B) \in {pos[i], B, -B}
        /\ Abs(DetClamp(pos[i], -B, B)) <= B
        /\ Abs(DetClamp(pos[i], -B, B)) < B => DetClamp(pos[i], -B, B) = pos[i]
        /\ Abs(pos[i]) <= B => DetClamp(pos[i], -B, B) = pos[i]
    BY <1>1, <1>3 DEF DetClamp, Abs
  <2>3. DetClamp(pos[i], -B, B) \in Int /\ Fl(DetClamp(pos[i], -B, B)) = DetClamp(pos[i], -B, B)
    BY <1>1, <1>2, <1>3, <2>2
  <2>. QED BY <2>1, <2>2, <2>3
<1>6. Clamped(pos) \in [1 .. 3 -> Int]
  BY <1>4, <1>5
<1>7. (\A i \in 1 .. 3 : Clamped(pos)[i] = pos[i]) => Clamped(pos) = pos
  BY <1>3, <1>6
<1>. QED BY <1>5, <1>6, <1>7 DEF Floats, B

(* Where a step ends: within the guard, and, unless it ends at the guard,  *)
(* where it began or in the open.                                          *)
LEMMA StepEnds ==
  ASSUME NEW pos, Floats(pos), \A i \in 1 .. 3 : Abs(pos[i]) <= KWorldBound,
         NEW v \in [1 .. 3 -> Int], NEW he \in Nat, NEW origin, NEW chunks
  PROVE  LET s == Swept(pos, v, he, origin, chunks)
         IN  /\ Floats(s.pos) /\ s.onGround \in BOOLEAN /\ s.blockedY \in BOOLEAN
             /\ s.onGround => s.blockedY
             /\ (\A i \in 1 .. 3 : Abs(s.pos[i]) < KWorldBound) =>
                   s.pos = pos \/ ~ BoxOverlapsSolid(s.pos, he, origin, chunks)
<1>. DEFINE Open(q) == ~ BoxOverlapsSolid(q, he, origin, chunks)
            y == SweepAxis(pos, 2, v[2], he, origin, chunks)
            x == SweepAxis(y.pos, 1, v[1], he, origin, chunks)
            z == SweepAxis(x.pos, 3, v[3], he, origin, chunks)
            s == Swept(pos, v, he, origin, chunks)
<1>. SUFFICES /\ Floats(s.pos) /\ s.onGround \in BOOLEAN /\ s.blockedY \in BOOLEAN
              /\ s.onGround => s.blockedY
              /\ (\A i \in 1 .. 3 : Abs(s.pos[i]) < KWorldBound) => s.pos = pos \/ Open(s.pos)
  OBVIOUS
<1>1. Clamped(pos) = pos
  BY ClampedIsOfFloats
<1>2. /\ s.pos = Clamped(z.pos) /\ s.blockedY = y.blocked
      /\ s.onGround = (y.blocked /\ v[2] < 0)
  BY <1>1 DEF Swept
<1>3. v[1] \in Int /\ v[2] \in Int /\ v[3] \in Int
  OBVIOUS
<1>. HIDE DEF Open, s
<1>4. Floats(y.pos) /\ y.blocked \in BOOLEAN /\ (y.pos = pos \/ Open(y.pos))
  BY <1>3, SweepEnds DEF Open
<1>. HIDE DEF y
<1>5. Floats(x.pos) /\ (x.pos = y.pos \/ Open(x.pos))
  BY <1>3, <1>4, SweepEnds DEF Open
<1>. HIDE DEF x
<1>6. Floats(z.pos) /\ (z.pos = x.pos \/ Open(z.pos))
  BY <1>3, <1>5, SweepEnds DEF Open
<1>. HIDE DEF z
<1>7. z.pos = pos \/ Open(z.pos)
  BY <1>4, <1>5, <1>6
<1>8. Floats(s.pos)
  BY <1>2, <1>6, ClampedIsOfFloats
<1>9. ASSUME \A i \in 1 .. 3 : Abs(s.pos[i]) < KWorldBound PROVE s.pos = pos \/ Open(s.pos)
  <2>1. s.pos = z.pos
    BY <1>2, <1>6, <1>9, ClampedIsOfFloats
  <2>. QED BY <1>7, <2>1
<1>10. s.onGround \in BOOLEAN /\ s.blockedY \in BOOLEAN /\ (s.onGround => s.blockedY)
  BY <1>2, <1>4
<1>. QED BY <1>8, <1>9, <1>10

-----------------------------------------------------------------------------
(* The invariant of the walk: positions are floats within Reach, a body is *)
(* there only once the region is meshed, and is at rest vertically on the  *)
(* ground.                                                                 *)
Walkers ==
  [he : Bodies, pos : [1 .. 3 -> Int], vy : Int, onGround : BOOLEAN]

WalkInv ==
  /\ meshes # <<>> => DOMAIN resident = Region
  /\ body # NoBody =>
       /\ body \in Walkers /\ meshes # <<>>
       /\ Floats(body.pos) /\ \A i \in 1 .. 3 : Abs(body.pos[i]) < Reach
       /\ body.onGround => body.vy = 0
  /\ frame \in [1 .. 3 -> Int]
  /\ rebased \in {"never", "exact", "lossy"}

LEMMA WithinGuard ==
  ASSUME WalkInv, body # NoBody
  PROVE  \A i \in 1 .. 3 : Abs(body.pos[i]) <= KWorldBound
<1>1. \A i \in 1 .. 3 : body.pos[i] \in Int /\ Abs(body.pos[i]) < Reach
  BY DEF WalkInv, Floats
<1>. QED BY <1>1, WalkAssumption, FloatAssumption DEF Abs

LEMMA IntegratedType ==
  ASSUME NEW v \in Int
  PROVE  Integrated(v) \in Int
BY WalkAssumption DEF Integrated, DetClamp

(* A tick of the player, with what StepEnds says of it. *)
LEMMA PlayerStepEnds ==
  ASSUME WalkInv, NEW move \in Moves, NEW jump \in BOOLEAN, PlayerStep(move, jump)
  PROVE  /\ body' \in Walkers /\ body'.he = body.he /\ Floats(body'.pos)
         /\ body'.onGround => body'.vy = 0
         /\ InGuard(body') /\ body'.pos # body.pos => ~ Inside(body', frame)
<1>. DEFINE vy == Integrated(IF jump THEN JumpSpeed ELSE body.vy)
            v == <<move[1], vy, move[2]>>
            s == Swept(body.pos, v, body.he, frame, resident)
<1>1. body \in Walkers /\ Floats(body.pos) /\ body.he \in Nat
  BY WalkAssumption DEF WalkInv, PlayerStep, Walkers
<1>2. vy \in Int
  BY <1>1, IntegratedType, WalkAssumption DEF Walkers
<1>3. v \in [1 .. 3 -> Int]
  <2>1. move[1] \in Int /\ move[2] \in Int
    BY WalkAssumption
  <2>. HIDE DEF vy
  <2>. QED BY <1>2, <2>1
<1>4. body' = [body EXCEPT !.pos = s.pos, !.onGround = s.onGround,
                           !.vy = IF s.blockedY THEN 0 ELSE vy]
  BY DEF PlayerStep
<1>5. /\ Floats(s.pos) /\ s.onGround \in BOOLEAN /\ s.blockedY \in BOOLEAN
      /\ s.onGround => s.blockedY
      /\ (\A i \in 1 .. 3 : Abs(s.pos[i]) < KWorldBound) =>
            s.pos = body.pos \/ ~ BoxOverlapsSolid(s.pos, body.he, frame, resident)
  <2>1. \A i \in 1 .. 3 : Abs(body.pos[i]) <= KWorldBound
    BY WithinGuard DEF PlayerStep
  <2>. HIDE DEF v
  <2>. QED BY <1>1, <1>3, <2>1, StepEnds
<1>. HIDE DEF s, vy
<1>6. /\ body'.he = body.he /\ body'.pos = s.pos /\ body'.onGround = s.onGround
      /\ body'.vy = IF s.blockedY THEN 0 ELSE vy
  BY <1>1, <1>4 DEF Walkers
<1>7. body' \in Walkers
  <2>. DEFINE w == IF s.blockedY THEN 0 ELSE vy
  <2>1. w \in Int /\ s.pos \in [1 .. 3 -> Int] /\ s.onGround \in BOOLEAN
    BY <1>2, <1>5 DEF Floats
  <2>2. body' = [body EXCEPT !.pos = s.pos, !.onGround = s.onGround, !.vy = w]
    BY <1>4
  <2>. HIDE DEF w
  <2>. QED BY <1>1, <2>1, <2>2 DEF Walkers
<1>8. body'.onGround => body'.vy = 0
  BY <1>5, <1>6
<1>9. ASSUME InGuard(body'), body'.pos # body.pos PROVE ~ Inside(body', frame)
  <2>1. \A i \in 1 .. 3 : Abs(s.pos[i]) < KWorldBound
    BY <1>6, <1>9 DEF InGuard
  <2>. QED BY <1>5, <1>6, <1>9, <2>1 DEF Inside
<1>. QED BY <1>5, <1>6, <1>7, <1>8, <1>9

LEMMA RebaseEnds ==
  ASSUME WalkInv, NEW d \in Shifts, Rebase(d)
  PROVE  /\ body' \in Walkers /\ body'.he = body.he /\ Floats(body'.pos)
         /\ body'.onGround = body.onGround /\ body'.vy = body.vy
         /\ \A i \in 1 .. 3 : body'.pos[i] = Fl(body.pos[i] - d[i] * Cell)
         /\ frame' \in [1 .. 3 -> Int] /\ \A i \in 1 .. 3 : frame'[i] = frame[i] + d[i]
<1>1. body \in Walkers /\ Floats(body.pos) /\ frame \in [1 .. 3 -> Int] /\ d \in [1 .. 3 -> Int]
  BY WalkAssumption DEF WalkInv, Rebase
<1>. DEFINE to == [i \in 1 .. 3 |-> Rebased(body.pos[i], d[i])]
<1>2. body' = [body EXCEPT !.pos = to] /\ frame' = [i \in 1 .. 3 |-> frame[i] + d[i]]
  BY DEF Rebase
<1>3. \A i \in 1 .. 3 : to[i] = Fl(body.pos[i] - d[i] * Cell)
  BY DEF Rebased
<1>4. \A i \in 1 .. 3 : body.pos[i] - d[i] * Cell \in Int
  BY <1>1, FloatAssumption DEF Floats
<1>5. to \in [1 .. 3 -> Int] /\ \A i \in 1 .. 3 : Fl(to[i]) = to[i]
  BY <1>3, <1>4, FlNear, FlIsFloat
<1>. HIDE DEF to
<1>6. /\ body' \in Walkers /\ body'.he = body.he /\ body'.pos = to
      /\ body'.onGround = body.onGround /\ body'.vy = body.vy
  BY <1>1, <1>2, <1>5 DEF Walkers
<1>. QED BY <1>1, <1>2, <1>3, <1>5, <1>6 DEF Floats

(* The walk keeps to the float grid.                                       *)
LEMMA WalkInvHolds == Spec => []WalkInv
<1>1. Init => WalkInv
  BY DEF Init, WalkInv
<1>2. WalkInv /\ [Next]_vars => WalkInv'
  <2>. SUFFICES ASSUME WalkInv, [Next]_vars PROVE WalkInv'
    OBVIOUS
  <2>1. ASSUME NEW cp \in Region, LoadChunk(cp) PROVE WalkInv'
    <3>1. meshes = <<>>
      BY <2>1 DEF WalkInv, LoadChunk
    <3>. QED BY <2>1, <3>1 DEF WalkInv, LoadChunk, Floats
  <2>2. CASE MeshAll
    BY <2>2 DEF WalkInv, MeshAll, Floats
  <2>3. ASSUME NEW he \in Bodies, NEW at \in Spawns, Spawn(he, at) PROVE WalkInv'
    <3>1. /\ at \in [1 .. 3 -> Int] /\ Floats(at)
          /\ \A i \in 1 .. 3 : Abs(at[i]) < Reach
      BY WalkAssumption DEF Floats
    <3>2. /\ body' = [he |-> he, pos |-> at, vy |-> 0, onGround |-> FALSE]
          /\ meshes # <<>> /\ meshes' = meshes /\ resident' = resident /\ frame' = frame
          /\ rebased' = rebased
      BY <2>3 DEF Spawn
    <3>3. /\ body' \in Walkers /\ body'.pos = at /\ body'.onGround = FALSE
      BY <3>1, <3>2 DEF Walkers
    <3>. QED BY <3>1, <3>2, <3>3 DEF WalkInv, Floats
  <2>4. ASSUME NEW move \in Moves, NEW jump \in BOOLEAN, PlayerStep(move, jump) PROVE WalkInv'
    <3>1. /\ body' \in Walkers /\ Floats(body'.pos) /\ (body'.onGround => body'.vy = 0)
      BY <2>4, PlayerStepEnds
    <3>2. /\ meshes' = meshes /\ resident' = resident /\ frame' = frame /\ body # NoBody
          /\ \A i \in 1 .. 3 : Abs(body'.pos[i]) < Reach
          /\ rebased' \in {rebased, "never"}
      BY <2>4 DEF PlayerStep
    <3>. QED BY <3>1, <3>2 DEF WalkInv, Floats
  <2>5. ASSUME NEW d \in Shifts, Rebase(d) PROVE WalkInv'
    <3>1. /\ body' \in Walkers /\ Floats(body'.pos) /\ frame' \in [1 .. 3 -> Int]
          /\ body'.onGround = body.onGround /\ body'.vy = body.vy
      BY <2>5, RebaseEnds
    <3>2. /\ meshes' = meshes /\ resident' = resident /\ body # NoBody
          /\ \A i \in 1 .. 3 : Abs(body'.pos[i]) < Reach
          /\ rebased' \in {"exact", "lossy"}
      BY <2>5 DEF Rebase
    <3>. QED BY <3>1, <3>2 DEF WalkInv, Floats
  <2>6. CASE UNCHANGED vars
    BY <2>6 DEF WalkInv, vars, Floats
  <2>. QED BY <2>1, <2>2, <2>3, <2>4, <2>5, <2>6 DEF Next
<1>. QED BY <1>1, <1>2, PTL DEF Spec

(* The walking player is in the open: after any step that moves it, in     *)
(* whatever frame, however far from the origin, unless the step ends at    *)
(* the position guard (collision_step.cpp:86-131, 187-199).                *)
THEOREM OpenStaysOpen == Spec => []NeverInsideSolid
<1>1. Init => NeverInsideSolid
  BY DEF Init, NeverInsideSolid
<1>2. WalkInv /\ NeverInsideSolid /\ [Next]_vars => NeverInsideSolid'
  <2>. SUFFICES ASSUME WalkInv, NeverInsideSolid, [Next]_vars PROVE NeverInsideSolid'
    OBVIOUS
  <2>1. ASSUME NEW cp \in Region, LoadChunk(cp) PROVE NeverInsideSolid'
    <3>1. body = NoBody /\ body' = body
      BY <2>1 DEF WalkInv, LoadChunk
    <3>. QED BY <3>1 DEF NeverInsideSolid, NoBody
  <2>2. CASE MeshAll
    BY <2>2 DEF NeverInsideSolid, MeshAll, Inside, InGuard, NoBody
  <2>3. ASSUME NEW he \in Bodies, NEW at \in Spawns, Spawn(he, at) PROVE NeverInsideSolid'
    <3>1. /\ body' = [he |-> he, pos |-> at, vy |-> 0, onGround |-> FALSE]
          /\ ~ BoxOverlapsSolid(at, he, frame, resident)
          /\ resident' = resident /\ frame' = frame
      BY <2>3 DEF Spawn
    <3>2. body'.pos = at /\ body'.he = he
      BY <3>1
    <3>. QED BY <3>1, <3>2 DEF NeverInsideSolid, Inside
  <2>4. ASSUME NEW move \in Moves, NEW jump \in BOOLEAN, PlayerStep(move, jump)
        PROVE  NeverInsideSolid'
    <3>1. /\ body' \in Walkers /\ body'.he = body.he
          /\ InGuard(body') /\ body'.pos # body.pos => ~ Inside(body', frame)
      BY <2>4, PlayerStepEnds
    <3>2. /\ resident' = resident /\ frame' = frame /\ body # NoBody
          /\ rebased' = IF body'.pos = body.pos THEN rebased ELSE "never"
      BY <2>4 DEF PlayerStep
    <3>3. ASSUME rebased' = "never", InGuard(body') PROVE ~ Inside(body', frame)
      <4>1. CASE body'.pos = body.pos
        BY <3>1, <3>2, <3>3, <4>1 DEF NeverInsideSolid, InGuard, Inside
      <4>2. CASE body'.pos # body.pos
        BY <3>1, <3>3, <4>2
      <4>. QED BY <4>1, <4>2
    <3>. QED BY <3>2, <3>3 DEF NeverInsideSolid, Inside, InGuard
  <2>5. ASSUME NEW d \in Shifts, Rebase(d) PROVE NeverInsideSolid'
    <3>1. rebased' \in {"exact", "lossy"}
      BY <2>5 DEF Rebase
    <3>. QED BY <3>1 DEF NeverInsideSolid
  <2>6. CASE UNCHANGED vars
    BY <2>6 DEF NeverInsideSolid, vars, Inside, InGuard, NoBody
  <2>. QED BY <2>1, <2>2, <2>3, <2>4, <2>5, <2>6 DEF Next
<1>. QED BY <1>1, <1>2, WalkInvHolds, PTL DEF Spec

-----------------------------------------------------------------------------
(* Wherever the walk and the box go, the spacing divides Coarse. *)
LEMMA CoarseSpec ==
  /\ Coarse \in Spacings /\ Cell % Coarse = 0
  /\ \A p \in Int : Abs(p) <= Reach + 2 * Cell => Ulp(p) <= Coarse
<1>1. Reach + 2 * Cell \in Nat
  BY WalkAssumption, FloatAssumption
<1>2. ASSUME NEW p \in Int, Abs(p) <= Reach + 2 * Cell PROVE Ulp(p) <= Coarse
  <2>1. Abs(p) <= Abs(Reach + 2 * Cell)
    BY <1>1, <1>2 DEF Abs
  <2>. QED BY <1>1, <2>1, UlpGrows DEF Coarse
<1>. QED BY <1>1, <1>2, UlpSpec, WalkAssumption DEF Coarse

(* Whole voxels are on the grid wherever the walk goes. *)
LEMMA VoxelsOnGrid ==
  ASSUME NEW p \in Int, Abs(p) < Reach, NEW k \in Int
  PROVE  (k * Cell) % Ulp(p) = 0
<1>1. Cell \in Int /\ Cell % Coarse = 0 /\ Coarse \in Spacings /\ Ulp(p) \in Spacings
  BY CoarseSpec, UlpSpec, FloatAssumption
<1>2. Abs(p) <= Reach + 2 * Cell
  BY WalkAssumption, FloatAssumption DEF Abs
<1>3. Ulp(p) <= Coarse
  BY <1>2, CoarseSpec
<1>4. Cell % Ulp(p) = 0
  BY <1>1, <1>3, CoarserIsFiner
<1>. QED BY <1>1, <1>4, ProductOfMultiple

(* rebaseFrame is honest about what it loses: whatever the shift, an exact *)
(* report means that nothing moved in the world, the window of Sterbenz is *)
(* exact, and no axis is off by more than the spacing at the result        *)
(* (rebase.cpp:91-122, rebase.hpp:17-21).                                  *)
THEOREM RebaseReportsHonestly == Spec => RebaseIsHonest
<1>. DEFINE Honest ==
       frame' # frame =>
         /\ rebased' = "exact" => \A i \in 1 .. 3 : Moved(i) = 0
         /\ \A i \in 1 .. 3 :
              /\ Abs(Moved(i)) <= Ulp(body'.pos[i])
              /\ Shift(i) * body.pos[i] > 0 /\ Abs(Shift(i)) <= 2 * Abs(body.pos[i])
                   /\ Abs(body.pos[i]) <= 2 * Abs(Shift(i)) => Moved(i) = 0
<1>1. ASSUME WalkInv, NEW d \in Shifts, Rebase(d) PROVE Honest
  <2>1. /\ Floats(body.pos) /\ frame \in [1 .. 3 -> Int] /\ d \in [1 .. 3 -> Int]
        /\ \A i \in 1 .. 3 : Abs(body.pos[i]) < Reach
    BY <1>1, WalkAssumption DEF WalkInv, Rebase
  <2>2. /\ \A i \in 1 .. 3 : body'.pos[i] = Fl(body.pos[i] - d[i] * Cell)
        /\ \A i \in 1 .. 3 : frame'[i] = frame[i] + d[i]
    BY <1>1, RebaseEnds
  <2>3. rebased' = "exact" => \A i \in 1 .. 3 : AddsBack(body.pos[i], d[i])
    BY <1>1 DEF Rebase
  <2>4. ASSUME NEW i \in 1 .. 3
        PROVE  /\ Abs(Moved(i)) <= Ulp(body'.pos[i])
               /\ AddsBack(body.pos[i], d[i]) => Moved(i) = 0
               /\ Shift(i) * body.pos[i] > 0 /\ Abs(Shift(i)) <= 2 * Abs(body.pos[i]) => Moved(i) = 0
    <3>. DEFINE p == body.pos[i]  D == d[i] * Cell  a == Fl(p - D)
    <3>1. p \in Int /\ Fl(p) = p /\ d[i] \in Int /\ D \in Int /\ frame[i] \in Int /\ p - D \in Int
      BY <2>1, FloatAssumption DEF Floats
    <3>2. p % Ulp(p) = 0 /\ a \in Int
      BY <3>1, FloatIsMultiple, FlNear
    <3>3. D % Ulp(p) = 0
      BY <2>1, <3>1, VoxelsOnGrid
    <3>4. body'.pos[i] = a /\ frame'[i] = frame[i] + d[i]
      BY <2>2
    <3>5. Shift(i) = D /\ Moved(i) = a + D - p
      <4>1. (frame[i] + d[i]) * Cell = frame[i] * Cell + D /\ frame[i] * Cell \in Int
        BY <3>1, FloatAssumption
      <4>2. ((frame[i] + d[i]) - frame[i]) * Cell = D
        BY <3>1, FloatAssumption
      <4>. HIDE DEF a, D
      <4>3. Moved(i) = (a + (frame[i] * Cell + D)) - (p + frame[i] * Cell)
        BY <3>4, <4>1 DEF Moved
      <4>. QED BY <3>1, <3>2, <3>4, <4>1, <4>2, <4>3 DEF Shift
    <3>6. ASSUME AddsBack(p, d[i]) PROVE a + D - p = 0
      <4>1. CASE d[i] = 0
        <5>1. D = 0
          BY <4>1, FloatAssumption
        <5>2. p - D = p
          BY <3>1, <5>1
        <5>3. a = p
          BY <3>1, <5>2
        <5>. QED BY <3>1, <5>1, <5>3
      <4>2. CASE d[i] # 0
        <5>1. Fl(Fl(p - D) + D) = p
          BY <3>6, <4>2 DEF AddsBack, Rebased
        <5>. HIDE DEF p, D
        <5>2. Fl(p - D) = p - D
          BY <3>1, <3>2, <3>3, <5>1, AddBackIsExact
        <5>. QED BY <3>1, <5>2
      <4>. QED BY <4>1, <4>2
    <3>7. ASSUME D * p > 0, Abs(D) <= 2 * Abs(p) PROVE a + D - p = 0
      <4>. HIDE DEF p, D
      <4>1. Fl(p - D) = p - D
        BY <3>1, <3>2, <3>3, <3>7, WindowIsExact
      <4>. QED BY <3>1, <4>1
    <3>8. Abs(a + D - p) <= Ulp(a)
      <4>. HIDE DEF p, D
      <4>. QED BY <3>1, RebaseIsNear
    <3>. HIDE DEF a, D
    <3>. QED BY <3>4, <3>5, <3>6, <3>7, <3>8
  <2>. QED BY <2>3, <2>4
<1>2. ASSUME WalkInv, [Next]_vars PROVE Honest \/ UNCHANGED vars
  <2>1. frame' = frame => Honest
    OBVIOUS
  <2>2. ASSUME NEW cp \in Region, LoadChunk(cp) PROVE Honest
    BY <2>1, <2>2 DEF LoadChunk
  <2>3. CASE MeshAll
    BY <2>1, <2>3 DEF MeshAll
  <2>4. ASSUME NEW he \in Bodies, NEW at \in Spawns, Spawn(he, at) PROVE Honest
    BY <2>1, <2>4 DEF Spawn
  <2>5. ASSUME NEW move \in Moves, NEW jump \in BOOLEAN, PlayerStep(move, jump) PROVE Honest
    BY <2>1, <2>5 DEF PlayerStep
  <2>6. ASSUME NEW d \in Shifts, Rebase(d) PROVE Honest
    BY <1>1, <1>2, <2>6
  <2>. HIDE DEF Honest
  <2>. QED BY <1>2, <2>2, <2>3, <2>4, <2>5, <2>6 DEF Next
<1>3. WalkInv /\ [Next]_vars => [Honest]_vars
  BY <1>2
<1>. QED BY <1>3, WalkInvHolds, PTL DEF Spec, RebaseIsHonest

-----------------------------------------------------------------------------
(* Landing.  First, voxels and floors.                                     *)
LEMMA VoxelOrder ==
  ASSUME NEW j \in Int, NEW k \in Int
  PROVE  /\ j * Cell \in Int /\ (j + 1) * Cell = j * Cell + Cell
         /\ j <= k <=> j * Cell <= k * Cell
<1>1. Cell \in Nat /\ Cell > 0
  BY FloatAssumption
<1>2. j * Cell \in Int /\ (j + 1) * Cell = j * Cell + Cell
  BY <1>1
<1>3. ASSUME j <= k PROVE j * Cell <= k * Cell
  BY <1>1, <1>3
<1>4. ASSUME ~ (j <= k) PROVE ~ (j * Cell <= k * Cell)
  <2>1. k + 1 <= j
    BY <1>4
  <2>2. (k + 1) * Cell <= j * Cell
    BY <1>1, <2>1
  <2>. QED BY <1>1, <2>2
<1>. QED BY <1>2, <1>3, <1>4

LEMMA Division ==
  ASSUME NEW n \in Int, NEW c \in Nat, c > 0
  PROVE  /\ n \div c \in Int /\ n = c * (n \div c) + (n % c)
         /\ n % c \in 0 .. (c - 1)
OBVIOUS

LEMMA FloorSpec ==
  ASSUME NEW n \in Int
  PROVE  /\ DetFloorToInt(n) \in Int
         /\ DetFloorToInt(n) * Cell <= n /\ n < (DetFloorToInt(n) + 1) * Cell
         /\ \A k \in Int : k * Cell <= n /\ n < (k + 1) * Cell => k = DetFloorToInt(n)
<1>1. Cell \in Nat /\ Cell > 0
  BY FloatAssumption
<1>. DEFINE q == n \div Cell
<1>2. q \in Int /\ n = Cell * q + (n % Cell) /\ n % Cell \in 0 .. (Cell - 1)
  BY <1>1, Division
<1>. HIDE DEF q
<1>3. q * Cell <= n /\ n < (q + 1) * Cell
  BY <1>1, <1>2
<1>4. ASSUME NEW k \in Int, k * Cell <= n, n < (k + 1) * Cell PROVE k = q
  <2>1. k * Cell \in Int /\ q * Cell \in Int /\ (k + 1) * Cell \in Int /\ (q + 1) * Cell \in Int
    BY <1>1, <1>2
  <2>2. ~ ((q + 1) * Cell <= k * Cell) /\ ~ ((k + 1) * Cell <= q * Cell)
    BY <1>3, <1>4, <2>1
  <2>3. ~ (q + 1 <= k) /\ ~ (k + 1 <= q)
    BY <1>2, <2>2, VoxelOrder
  <2>. QED BY <1>2, <2>3
<1>. QED BY <1>2, <1>3, <1>4 DEF DetFloorToInt, q

(* overlapRange: the voxels that meet the half-open interval. *)
LEMMA OverlapSpec ==
  ASSUME NEW lo \in Int, NEW hi \in Int, NEW j \in Int
  PROVE  j \in OverlapRange(lo, hi) <=> lo < (j + 1) * Cell /\ j * Cell < hi
<1>. DEFINE l == DetFloorToInt(lo)  h == DetFloorToInt(hi)
<1>1. /\ l \in Int /\ l * Cell <= lo /\ lo < (l + 1) * Cell
      /\ h \in Int /\ h * Cell <= hi /\ hi < (h + 1) * Cell
  BY FloorSpec
<1>. HIDE DEF l, h
<1>2. /\ j * Cell \in Int /\ l * Cell \in Int /\ h * Cell \in Int /\ Cell \in Nat
      /\ (j + 1) * Cell = j * Cell + Cell /\ (l + 1) * Cell = l * Cell + Cell
      /\ (h + 1) * Cell = h * Cell + Cell
  BY <1>1, VoxelOrder, FloatAssumption
<1>3. l <= j <=> lo < (j + 1) * Cell
  <2>1. ASSUME l <= j PROVE lo < (j + 1) * Cell
    <3>1. l * Cell <= j * Cell
      BY <1>1, <2>1, VoxelOrder
    <3>. QED BY <1>1, <1>2, <3>1
  <2>2. ASSUME ~ (l <= j) PROVE ~ (lo < (j + 1) * Cell)
    <3>1. j + 1 <= l /\ j + 1 \in Int
      BY <1>1, <2>2
    <3>2. (j + 1) * Cell <= l * Cell
      BY <1>1, <3>1, VoxelOrder
    <3>. QED BY <1>1, <1>2, <3>2
  <2>. QED BY <2>1, <2>2
<1>4. CASE h * Cell = hi
  <2>1. j <= h - 1 <=> j * Cell < hi
    <3>1. j < h <=> ~ (h * Cell <= j * Cell)
      BY <1>1, VoxelOrder
    <3>. QED BY <1>1, <1>2, <1>4, <3>1
  <2>2. OverlapRange(lo, hi) = l .. (h - 1)
    BY <1>4 DEF OverlapRange, l, h
  <2>. QED BY <1>1, <1>3, <2>1, <2>2
<1>5. CASE h * Cell # hi
  <2>1. j <= h <=> j * Cell < hi
    <3>1. ASSUME j <= h PROVE j * Cell < hi
      <4>1. j * Cell <= h * Cell
        BY <1>1, <3>1, VoxelOrder
      <4>. QED BY <1>1, <1>2, <1>5, <4>1
    <3>2. ASSUME ~ (j <= h) PROVE ~ (j * Cell < hi)
      <4>1. h + 1 <= j /\ h + 1 \in Int
        BY <1>1, <3>2
      <4>2. (h + 1) * Cell <= j * Cell
        BY <4>1, VoxelOrder
      <4>. QED BY <1>1, <1>2, <4>2
    <3>. QED BY <3>1, <3>2
  <2>2. OverlapRange(lo, hi) = l .. h
    BY <1>5 DEF OverlapRange, l, h
  <2>. QED BY <1>1, <1>3, <2>1, <2>2
<1>. QED BY <1>4, <1>5

(* Rounding keeps the order. *)
LEMMA FlMonotone ==
  ASSUME NEW m \in Int, NEW n \in Int, m <= n
  PROVE  Fl(m) <= Fl(n)
<1>0. Fl(m) \in Int /\ Fl(n) \in Int /\ Ulp(m) \in Spacings /\ Ulp(n) \in Spacings
  BY FlNear, UlpSpec
<1>1. CASE Ulp(m) = Ulp(n)
  <2>1. ASSUME NEW u \in Spacings, Ulp(m) = u, Ulp(n) = u PROVE Fl(m) <= Fl(n)
    <3>. DEFINE q == m \div u  r == m % u  t == n \div u  w == n % u
    <3>1. /\ Fl(m) = IF 2 * r < u \/ (2 * r = u /\ q % 2 = 0) THEN q * u ELSE (q + 1) * u
          /\ Fl(n) = IF 2 * w < u \/ (2 * w = u /\ t % 2 = 0) THEN t * u ELSE (t + 1) * u
      BY <2>1 DEF Fl
    <3>2. /\ q \in Int /\ t \in Int /\ r \in Int /\ w \in Int /\ u \in Nat
          /\ q <= t /\ (q = t => r <= w)
      BY DEF Spacings
    <3>. HIDE DEF q, r, t, w
    <3>3. q * u \in Int /\ t * u \in Int /\ (q + 1) * u = q * u + u /\ (t + 1) * u = t * u + u
      BY <3>2
    <3>4. CASE q = t
      BY <3>1, <3>2, <3>3, <3>4
    <3>5. CASE q + 1 <= t
      <4>1. (q + 1) * u <= t * u
        BY <3>2, <3>5 DEF Spacings
      <4>. QED BY <3>1, <3>2, <3>3, <4>1
    <3>. QED BY <3>2, <3>4, <3>5
  <2>. QED BY <1>0, <1>1, <2>1
<1>2. CASE Ulp(m) # Ulp(n)
  <2>1. ASSUME NEW a \in Int, NEW b \in Int, Ulp(a) < Ulp(b)
        PROVE  \E t \in Nat : /\ t % Ulp(a) = 0 /\ (-t) % Ulp(a) = 0
                               /\ t % Ulp(b) = 0 /\ (-t) % Ulp(b) = 0
                               /\ Abs(a) <= t /\ t <= Abs(b)
    <3>1. Ulp(a) \in Spacings /\ Ulp(b) \in Spacings
      BY UlpSpec
    <3>2. PICK d \in Doublings : Ulp(b) = 2 * d
      BY <2>1, <3>1 DEF Spacings, Doublings
    <3>. DEFINE t == d * Exact
    <3>3. t \in Nat /\ t % (2 * d) = 0 /\ (-t) % (2 * d) = 0
      BY FloatAssumption DEF Doublings
    <3>4. t <= Abs(b)
      BY <3>2, UlpSpec DEF Doublings
    <3>5. ~ (t <= Abs(a))
      <4>1. ~ (Ulp(a) > d)
        BY <2>1, <3>1, <3>2 DEF Spacings, Doublings
      <4>. QED BY <4>1, UlpSpec
    <3>. HIDE DEF t
    <3>6. Abs(a) <= t
      BY <3>3, <3>5 DEF Abs
    <3>7. t % Ulp(a) = 0 /\ (-t) % Ulp(a) = 0
      <4>1. -t \in Int /\ t \in Int /\ Ulp(a) <= Ulp(b)
        BY <2>1, <3>1, <3>3 DEF Spacings
      <4>. QED BY <3>1, <3>2, <3>3, <4>1, CoarserIsFiner
    <3>. QED BY <3>2, <3>3, <3>4, <3>6, <3>7
  <2>2. CASE Ulp(m) < Ulp(n)
    <3>1. PICK t \in Nat : /\ t % Ulp(m) = 0 /\ (-t) % Ulp(m) = 0
                            /\ t % Ulp(n) = 0 /\ (-t) % Ulp(n) = 0
                            /\ Abs(m) <= t /\ t <= Abs(n)
      BY <2>1, <2>2
    <3>2. m <= t /\ t <= n
      BY <1>2, <3>1 DEF Abs
    <3>3. Fl(m) <= t /\ t <= Fl(n)
      BY <3>1, <3>2, FlBounded
    <3>. QED BY <1>0, <3>3
  <2>3. CASE Ulp(n) < Ulp(m)
    <3>1. PICK t \in Nat : /\ t % Ulp(n) = 0 /\ (-t) % Ulp(n) = 0
                            /\ t % Ulp(m) = 0 /\ (-t) % Ulp(m) = 0
                            /\ Abs(n) <= t /\ t <= Abs(m)
      BY <2>1, <2>3
    <3>2. m <= -t /\ -t <= n /\ -t \in Int
      BY <1>2, <3>1 DEF Abs
    <3>3. Fl(m) <= -t /\ -t <= Fl(n)
      BY <3>1, <3>2, FlBounded
    <3>. QED BY <1>0, <3>2, <3>3
  <2>. QED BY <1>0, <1>2, <2>2, <2>3 DEF Spacings
<1>. QED BY <1>1, <1>2

-----------------------------------------------------------------------------
(* Around the walk. *)
Near(n) == n \in Int /\ Abs(n) <= Reach + 2 * Cell

(* There rounding is off by half of Coarse at most, multiples of Coarse    *)
(* are floats, and rounding does not cross them.                           *)
LEMMA NearRounding ==
  ASSUME NEW n, Near(n)
  PROVE  /\ Fl(n) \in Int
         /\ 2 * (Fl(n) - n) <= Coarse /\ 2 * (n - Fl(n)) <= Coarse
         /\ n % Coarse = 0 => Fl(n) = n
         /\ \A m \in Int : m % Coarse = 0 =>
              (n >= m => Fl(n) >= m) /\ (n <= m => Fl(n) <= m)
<1>1. n \in Int /\ Ulp(n) \in Spacings /\ Coarse \in Spacings /\ Ulp(n) <= Coarse
  BY UlpSpec, CoarseSpec DEF Near
<1>2. \A m \in Int : m % Coarse = 0 => m % Ulp(n) = 0
  BY <1>1, CoarserIsFiner
<1>3. /\ Fl(n) \in Int /\ 2 * (Fl(n) - n) <= Ulp(n) /\ 2 * (n - Fl(n)) <= Ulp(n)
      /\ n % Ulp(n) = 0 => Fl(n) = n
  BY <1>1, FlNear
<1>4. 2 * (Fl(n) - n) <= Coarse /\ 2 * (n - Fl(n)) <= Coarse
  <2>1. Ulp(n) \in Int /\ Coarse \in Int
    BY <1>1 DEF Spacings
  <2>. QED BY <1>1, <1>3, <2>1
<1>5. ASSUME NEW m \in Int, m % Coarse = 0
      PROVE  (n >= m => Fl(n) >= m) /\ (n <= m => Fl(n) <= m)
  BY <1>1, <1>2, <1>5, FlBounded
<1>. QED BY <1>1, <1>2, <1>3, <1>4, <1>5

(* A multiple of Coarse that rounds into the walk is a float. *)
LEMMA ReachedIsExact ==
  ASSUME NEW n \in Int, n % Coarse = 0, Abs(Fl(n)) < Reach
  PROVE  Fl(n) = n
<1>1. /\ Fl(n) \in Int /\ Ulp(n) \in Spacings /\ Ulp(Fl(n)) \in Spacings
      /\ Coarse \in Spacings
  BY FlNear, UlpSpec, CoarseSpec
<1>2. Abs(Fl(n)) <= Reach + 2 * Cell
  BY <1>1, WalkAssumption, FloatAssumption DEF Abs
<1>3. Ulp(Fl(n)) <= Coarse
  BY <1>1, <1>2, CoarseSpec
<1>4. Ulp(n) <= Coarse
  BY <1>1, <1>3, UlpOfFl DEF Spacings
<1>5. n % Ulp(n) = 0
  BY <1>1, <1>4, CoarserIsFiner
<1>. QED BY <1>5, FlNear

(* A body whose half extent is on the grid.                                *)
Fits(he) == he \in Nat /\ he > 0 /\ 2 * he < Cell /\ FlushExact(he)

LEMMA FitsSize ==
  ASSUME NEW he, Fits(he)
  PROVE  /\ he \in Nat /\ he > 0 /\ 2 * he < Cell /\ he % Coarse = 0
         /\ Coarse \in Nat /\ Coarse > 0 /\ Coarse <= he
<1>1. Coarse \in Spacings /\ he \in Nat /\ he > 0 /\ he % Coarse = 0 /\ 2 * he < Cell
  BY CoarseSpec DEF Fits, FlushExact
<1>2. Coarse <= he /\ Coarse \in Nat /\ Coarse > 0
  BY <1>1 DEF Spacings
<1>. QED BY <1>1, <1>2

LEMMA OnCoarse ==
  ASSUME NEW he, Fits(he), NEW k \in Int
  PROVE  /\ k * Cell \in Int /\ (k * Cell) % Coarse = 0 /\ (k * Cell + he) % Coarse = 0
         /\ (k * Cell - he) % Coarse = 0
<1>1. /\ Coarse \in Spacings /\ Cell % Coarse = 0 /\ Cell \in Int /\ he \in Int
      /\ he % Coarse = 0 /\ k * Cell \in Int
  BY CoarseSpec, FitsSize, FloatAssumption
<1>2. (k * Cell) % Coarse = 0
  BY <1>1, ProductOfMultiple
<1>. HIDE DEF Fits
<1>. QED BY <1>1, <1>2, SumOfMultiples

(* The voxels the box spans on one axis, at coordinate p. *)
Span(p, he) == OverlapRange(Fl(p - he), Fl(p + he))

LEMMA SpanSpec ==
  ASSUME NEW p \in Int, NEW he \in Nat
  PROVE  /\ Fl(p - he) \in Int /\ Fl(p + he) \in Int
         /\ Span(p, he) \subseteq Int
         /\ \A j \in Int :
              j \in Span(p, he) <=> Fl(p - he) < (j + 1) * Cell /\ j * Cell < Fl(p + he)
<1>1. Fl(p - he) \in Int /\ Fl(p + he) \in Int
  BY FlNear
<1>2. Span(p, he) \subseteq Int
  <2>1. DetFloorToInt(Fl(p - he)) \in Int /\ DetFloorToInt(Fl(p + he)) \in Int
    BY <1>1, FloorSpec
  <2>. QED BY <2>1 DEF Span, OverlapRange
<1>. QED BY <1>1, <1>2, OverlapSpec DEF Span

(* A box that sinks and keeps its lowest voxel spans no new one. *)
LEMMA SinkingSpan ==
  ASSUME NEW a \in Int, NEW b \in Int, NEW he \in Nat, b <= a,
         DetFloorToInt(Fl(b - he)) = DetFloorToInt(Fl(a - he))
  PROVE  Span(b, he) \subseteq Span(a, he)
<1>. DEFINE c == DetFloorToInt(Fl(a - he))
<1>1. /\ Fl(a - he) \in Int /\ Fl(b - he) \in Int /\ Fl(a + he) \in Int /\ Fl(b + he) \in Int
  BY FlNear
<1>2. /\ c \in Int /\ c * Cell <= Fl(b - he) /\ Fl(a - he) < (c + 1) * Cell
  BY <1>1, FloorSpec
<1>3. Fl(b + he) <= Fl(a + he)
  BY FlMonotone
<1>. HIDE DEF c
<1>4. ASSUME NEW j \in Span(b, he) PROVE j \in Span(a, he)
  <2>1. j \in Int /\ Fl(b - he) < (j + 1) * Cell /\ j * Cell < Fl(b + he)
    BY SpanSpec
  <2>2. /\ j * Cell \in Int /\ (j + 1) * Cell = j * Cell + Cell /\ c * Cell \in Int
        /\ (c + 1) * Cell = c * Cell + Cell /\ Cell \in Nat /\ (j + 1) * Cell \in Int
    BY <1>2, <2>1, VoxelOrder, FloatAssumption
  <2>3. c + 1 <= j + 1
    <3>1. ~ ((j + 1) * Cell <= c * Cell)
      BY <1>1, <1>2, <2>1, <2>2
    <3>2. ~ (j + 1 <= c)
      BY <1>2, <2>1, <3>1, VoxelOrder
    <3>. QED BY <1>2, <2>1, <3>2
  <2>4. (c + 1) * Cell <= (j + 1) * Cell
    BY <1>2, <2>1, <2>3, VoxelOrder
  <2>5. Fl(a - he) < (j + 1) * Cell /\ j * Cell < Fl(a + he)
    BY <1>1, <1>2, <1>3, <2>1, <2>2, <2>4
  <2>. QED BY <2>1, <2>5, SpanSpec
<1>. QED BY <1>4

(* A box flush on the voxel below spans the one voxel it stands in.        *)
LEMMA FlushSpan ==
  ASSUME NEW he, Fits(he), NEW k \in Int, Near(k * Cell), Near(k * Cell + 2 * he)
  PROVE  /\ Fl(k * Cell) = k * Cell
         /\ Span(k * Cell + he, he) \subseteq {k}
<1>1. /\ he \in Nat /\ 2 * he < Cell /\ k * Cell \in Int /\ (k * Cell) % Coarse = 0
      /\ ((k + 1) * Cell) % Coarse = 0 /\ (k + 1) * Cell = k * Cell + Cell /\ Cell \in Nat
  <2>1. /\ he \in Nat /\ 2 * he < Cell /\ (k + 1) * Cell = k * Cell + Cell /\ Cell \in Nat
    BY FitsSize, VoxelOrder, FloatAssumption
  <2>2. k * Cell \in Int /\ (k * Cell) % Coarse = 0
    BY OnCoarse
  <2>3. k + 1 \in Int
    OBVIOUS
  <2>4. ((k + 1) * Cell) % Coarse = 0
    BY <2>3, OnCoarse
  <2>. QED BY <2>1, <2>2, <2>4
<1>2. Fl(k * Cell) = k * Cell
  BY <1>1, NearRounding
<1>3. Fl(k * Cell + 2 * he) <= (k + 1) * Cell /\ Fl(k * Cell + 2 * he) \in Int
  <2>1. k * Cell + 2 * he <= (k + 1) * Cell /\ (k + 1) * Cell \in Int
    BY <1>1
  <2>. QED BY <1>1, <2>1, NearRounding
<1>4. (k * Cell + he) - he = k * Cell /\ (k * Cell + he) + he = k * Cell + 2 * he
      /\ k * Cell + he \in Int
  BY <1>1
<1>5. ASSUME NEW j \in Span(k * Cell + he, he) PROVE j = k
  <2>1. j \in Int /\ k * Cell < (j + 1) * Cell /\ j * Cell < Fl(k * Cell + 2 * he)
    <3>1. /\ j \in Int /\ Fl((k * Cell + he) - he) < (j + 1) * Cell
          /\ j * Cell < Fl((k * Cell + he) + he)
      BY <1>1, <1>4, SpanSpec
    <3>. QED BY <1>2, <1>4, <3>1
  <2>2. j * Cell \in Int /\ (j + 1) * Cell \in Int /\ (k + 1) * Cell \in Int
    BY <2>1, VoxelOrder
  <2>3. ~ ((j + 1) * Cell <= k * Cell) /\ ~ ((k + 1) * Cell <= j * Cell)
    BY <1>1, <1>3, <2>1, <2>2
  <2>4. ~ (j + 1 <= k) /\ ~ (k + 1 <= j)
    BY <2>1, <2>3, VoxelOrder
  <2>. QED BY <2>1, <2>4
<1>. QED BY <1>2, <1>5

(* A substep down that enters a new voxel: clamped flush on it, the box    *)
(* spans no voxel it did not span before the substep.                      *)
LEMMA LandingSpan ==
  ASSUME NEW he, Fits(he), NEW a \in Int, Abs(a) < Reach,
         NEW sub \in Int, sub <= 0, -2 * sub <= 2 * KMaxSubstep + Coarse,
         NEW b, b = Fl(a + sub), b <= a,
         DetFloorToInt(Fl(b - he)) # DetFloorToInt(Fl(a - he))
  PROVE  Span(Flush(b, he, FALSE), he) \subseteq Span(a, he)
<1>. DEFINE C == Cell  K == KMaxSubstep  G == Coarse
            la == Fl(a - he)  lb == Fl(b - he)  ha == Fl(a + he)
            c == DetFloorToInt(lb)
            F == (c + 1) * Cell
<1>1. /\ he \in Nat /\ he > 0 /\ 2 * he < C /\ G \in Nat /\ G > 0 /\ G <= he
      /\ C \in Nat /\ K \in Nat /\ 4 * K <= C /\ Reach \in Nat
  BY FitsSize, FloatAssumption, WalkAssumption
<1>2. -Reach < a /\ a < Reach
  BY <1>1 DEF Abs
<1>3. ASSUME NEW n \in Int, n <= Reach + 2 * C, n >= -(Reach + 2 * C) PROVE Near(n)
  BY <1>1, <1>3 DEF Near, Abs
<1>. HIDE DEF C, K, G
<1>4. /\ a + sub \in Int /\ Near(a + sub)
  <2>1. a + sub <= Reach + 2 * C /\ a + sub >= -(Reach + 2 * C) /\ a + sub \in Int
    BY <1>1, <1>2 DEF K, G
  <2>. QED BY <1>3, <2>1
<1>5. b \in Int /\ 2 * ((a + sub) - b) <= G
  BY <1>4, NearRounding DEF G
<1>6. 2 * (a - b) <= 2 * K + 2 * G
  BY <1>1, <1>5 DEF K, G
<1>7. Near(a - he) /\ Near(a + he) /\ Near(b - he)
  <2>1. /\ a - he \in Int /\ a - he <= Reach + 2 * C /\ a - he >= -(Reach + 2 * C)
        /\ a + he \in Int /\ a + he <= Reach + 2 * C /\ a + he >= -(Reach + 2 * C)
        /\ b - he \in Int /\ b - he <= Reach + 2 * C /\ b - he >= -(Reach + 2 * C)
    BY <1>1, <1>2, <1>5, <1>6
  <2>. QED BY <1>3, <2>1
<1>8. /\ la \in Int /\ lb \in Int /\ ha \in Int
      /\ 2 * (la - (a - he)) <= G /\ 2 * ((b - he) - lb) <= G /\ 2 * ((a + he) - ha) <= G
  BY <1>7, NearRounding DEF G
<1>9. lb <= la
  <2>1. b - he \in Int /\ a - he \in Int /\ b - he <= a - he
    BY <1>1, <1>5
  <2>. QED BY <2>1, FlMonotone
<1>10. c \in Int /\ c * Cell <= lb /\ lb < F
  BY <1>8, FloorSpec
<1>. HIDE DEF c
<1>11. F \in Int /\ F % Coarse = 0 /\ (F + he) % Coarse = 0 /\ c + 1 \in Int
  <2>1. c + 1 \in Int
    BY <1>10
  <2>. QED BY <2>1, OnCoarse
<1>12. c * Cell \in Int /\ F = c * Cell + Cell /\ (c + 2) * Cell = F + C /\ c + 2 \in Int
  <2>1. c + 2 \in Int /\ (c + 1) + 1 = c + 2
    BY <1>10
  <2>2. ((c + 1) + 1) * Cell = (c + 1) * Cell + Cell
    BY <1>11, VoxelOrder
  <2>. QED BY <1>10, <2>1, <2>2, VoxelOrder DEF C
<1>. HIDE DEF F
<1>13. F <= la
  <2>. SUFFICES ASSUME la < F PROVE FALSE
    BY <1>8, <1>11
  <2>1. c * Cell <= la
    BY <1>8, <1>9, <1>10, <1>12
  <2>2. c = DetFloorToInt(la)
    BY <1>8, <1>10, <2>1, FloorSpec DEF F
  <2>. QED BY <2>2 DEF c
<1>14. b - he < F
  <2>. SUFFICES ASSUME b - he >= F PROVE FALSE
    BY <1>1, <1>5, <1>11
  <2>1. lb >= F
    BY <1>7, <1>11, NearRounding
  <2>. QED BY <1>8, <1>10, <1>11, <2>1
<1>15. la < F + C
  <2>. HIDE DEF la, lb, ha
  <2>. QED BY <1>1, <1>5, <1>6, <1>8, <1>11, <1>14
<1>16. F < ha
  <2>. HIDE DEF la, lb, ha
  <2>. QED BY <1>1, <1>8, <1>11, <1>13
<1>17. c + 1 \in Span(a, he)
  <2>1. la < ((c + 1) + 1) * Cell /\ (c + 1) * Cell < ha
    <3>1. ((c + 1) + 1) * Cell = (c + 2) * Cell
      BY <1>10
    <3>. QED BY <1>12, <1>15, <1>16, <3>1 DEF F
  <2>. QED BY <1>1, <1>11, <2>1, SpanSpec
<1>18. Near(F) /\ Near(F + he) /\ Near(F + 2 * he)
  <2>. HIDE DEF la, lb, ha
  <2>1. F <= Reach /\ F + he <= Reach + C /\ F + 2 * he <= Reach + C
    BY <1>1, <1>2, <1>8, <1>11, <1>13
  <2>2. F >= -(Reach + 2 * C)
    BY <1>1, <1>2, <1>5, <1>6, <1>8, <1>10, <1>11
  <2>3. F + he \in Int /\ F + 2 * he \in Int
    BY <1>1, <1>11
  <2>4. /\ F + he <= Reach + 2 * C /\ F + 2 * he <= Reach + 2 * C /\ F <= Reach + 2 * C
        /\ F + he >= -(Reach + 2 * C) /\ F + 2 * he >= -(Reach + 2 * C)
    BY <1>1, <1>11, <2>1, <2>2
  <2>. QED BY <1>3, <1>11, <2>2, <2>3, <2>4
<1>19. Flush(b, he, FALSE) = F + he
  <2>1. Flush(b, he, FALSE) = Fl((c + 1) * Cell + he)
    BY DEF Flush, c
  <2>. QED BY <1>11, <1>18, <2>1, NearRounding DEF F
<1>20. Span(F + he, he) \subseteq {c + 1}
  BY <1>11, <1>18, FlushSpan DEF F
<1>. QED BY <1>17, <1>19, <1>20

(* At rest: a substep down from a box flush on voxel k - 1 enters that     *)
(* voxel, and is clamped back to where it was.                             *)
LEMMA RestingSpan ==
  ASSUME NEW he, Fits(he), NEW k \in Int, NEW pos, pos[2] = k * Cell + he, Abs(pos[2]) < Reach,
         NEW sub \in Int, sub <= -Coarse, -2 * sub <= 2 * KMaxSubstep + Coarse,
         NEW b, b = Fl(pos[2] + sub)
  PROVE  /\ b \in Int
         /\ Flush(b, he, FALSE) = pos[2]
         /\ Span(pos[2] - Cell, he) \subseteq Span(b, he)
<1>. SUFFICES ASSUME NEW p, p = pos[2], p = k * Cell + he, Abs(p) < Reach, b = Fl(p + sub)
              PROVE  b \in Int /\ Flush(b, he, FALSE) = p /\ Span(p - Cell, he) \subseteq Span(b, he)
  BY Zenon
<1>. DEFINE C == Cell  K == KMaxSubstep  G == Coarse
            lb == Fl(b - he)  hb == Fl(b + he)  F == k * Cell
<1>1. /\ he \in Nat /\ he > 0 /\ 2 * he < C /\ G \in Nat /\ G > 0 /\ G <= he /\ he % G = 0
      /\ C \in Nat /\ K \in Nat /\ 4 * K <= C /\ Reach \in Nat /\ G \in Spacings
  BY FitsSize, FloatAssumption, WalkAssumption, CoarseSpec
<1>2. F \in Int /\ F % Coarse = 0 /\ (F + he) % Coarse = 0
  BY OnCoarse
<1>3. k - 1 \in Int /\ (k - 1) * Cell = F - C /\ (k - 1) * Cell \in Int
  <2>1. k - 1 \in Int /\ (k - 1) + 1 = k
    OBVIOUS
  <2>2. ((k - 1) + 1) * Cell = (k - 1) * Cell + Cell /\ (k - 1) * Cell \in Int
    BY <2>1, VoxelOrder
  <2>3. k * Cell = (k - 1) * Cell + Cell
    BY <2>1, <2>2
  <2>. QED BY <1>1, <2>1, <2>2, <2>3
<1>4. ASSUME NEW n \in Int, n <= Reach + 2 * C, n >= -(Reach + 2 * C) PROVE Near(n)
  BY <1>1, <1>4 DEF Near, Abs
<1>. HIDE DEF C, K, G, F
<1>5. p = F + he /\ p \in Int
  BY <1>1, <1>2 DEF F
<1>6. -Reach < p /\ p < Reach
  BY <1>1, <1>5 DEF Abs
<1>7. Near(p + sub) /\ p + sub \in Int
  <2>1. p + sub <= Reach + 2 * C /\ p + sub >= -(Reach + 2 * C) /\ p + sub \in Int
    BY <1>1, <1>5, <1>6 DEF K, G
  <2>. QED BY <1>4, <2>1
<1>8. b \in Int /\ 2 * ((p + sub) - b) <= G
  BY <1>7, NearRounding DEF G
<1>9. b <= p - G
  <2>1. p - G \in Int /\ p + sub <= p - G
    BY <1>1, <1>5, <1>7 DEF G
  <2>2. (p - G) % Coarse = 0
    <3>1. p % G = 0 /\ G % G = 0
      BY <1>1, <1>2, <1>5 DEF G, Spacings
    <3>2. p \in Int /\ G \in Int /\ G \in Spacings
      BY <1>1, <1>5
    <3>3. (p + G) % G = 0 /\ (p - G) % G = 0
      BY <3>1, <3>2, SumOfMultiples, Zenon
    <3>. QED BY <3>3 DEF G
  <2>. QED BY <1>7, <2>1, <2>2, NearRounding
<1>10. Near(b - he) /\ Near(b + he)
  <2>1. /\ b - he \in Int /\ b - he <= Reach + 2 * C /\ b - he >= -(Reach + 2 * C)
        /\ b + he \in Int /\ b + he <= Reach + 2 * C /\ b + he >= -(Reach + 2 * C)
    BY <1>1, <1>5, <1>6, <1>8, <1>9 DEF K, G
  <2>. QED BY <1>4, <2>1
<1>11. /\ lb \in Int /\ hb \in Int
       /\ 2 * ((b - he) - lb) <= G /\ 2 * ((b + he) - hb) <= G
       /\ 2 * (lb - (b - he)) <= G
  BY <1>10, NearRounding DEF G
<1>12. lb < F /\ F - C <= lb /\ F - C < hb
  <2>. HIDE DEF lb, hb
  <2>. QED BY <1>1, <1>2, <1>5, <1>8, <1>9, <1>11 DEF K, G
<1>13. DetFloorToInt(lb) = k - 1
  <2>1. ((k - 1) + 1) * Cell = F
    <3>1. (k - 1) + 1 = k
      OBVIOUS
    <3>. QED BY <3>1 DEF F
  <2>2. (k - 1) * Cell <= lb /\ lb < ((k - 1) + 1) * Cell
    BY <1>3, <1>12, <2>1
  <2>. QED BY <1>3, <1>11, <2>2, FloorSpec
<1>14. Flush(b, he, FALSE) = p
  <2>1. Flush(b, he, FALSE) = Fl(((k - 1) + 1) * Cell + he)
    BY <1>13 DEF Flush
  <2>2. ((k - 1) + 1) * Cell + he = p
    <3>1. (k - 1) + 1 = k
      OBVIOUS
    <3>. QED BY <1>5, <3>1 DEF F
  <2>3. Near(p)
    BY <1>1, <1>4, <1>5, <1>6
  <2>. QED BY <1>2, <1>5, <2>1, <2>2, <2>3, NearRounding
<1>15. Span(p - Cell, he) \subseteq {k - 1}
  <2>1. p - Cell = (k - 1) * Cell + he
    BY <1>1, <1>2, <1>3, <1>5 DEF C
  <2>2. Near((k - 1) * Cell) /\ Near((k - 1) * Cell + 2 * he)
    <3>1. /\ F - C \in Int /\ F - C <= Reach + 2 * C /\ F - C >= -(Reach + 2 * C)
          /\ F - C + 2 * he \in Int /\ F - C + 2 * he <= Reach + 2 * C
          /\ F - C + 2 * he >= -(Reach + 2 * C)
      BY <1>1, <1>2, <1>5, <1>6
    <3>. QED BY <1>3, <1>4, <3>1
  <2>. QED BY <1>3, <2>1, <2>2, FlushSpan
<1>16. k - 1 \in Span(b, he)
  <2>1. ((k - 1) + 1) * Cell = F
    <3>1. (k - 1) + 1 = k
      OBVIOUS
    <3>. QED BY <3>1 DEF F
  <2>2. lb < ((k - 1) + 1) * Cell /\ (k - 1) * Cell < hb
    BY <1>3, <1>12, <2>1
  <2>. QED BY <1>1, <1>3, <1>8, <2>2, SpanSpec
<1>. QED BY <1>8, <1>14, <1>15, <1>16

-----------------------------------------------------------------------------
(* The substep of a displacement down is not positive, and no longer than  *)
(* kMaxSubstep, but for rounding.                                          *)
LEMMA SubstepDown ==
  ASSUME NEW delta \in Int, delta < 0
  PROVE  LET sub == Fl(delta \div Count(delta))
         IN  /\ sub \in Int /\ sub <= 0 /\ -2 * sub <= 2 * KMaxSubstep + Coarse
             /\ Coarse * Count(delta) <= -delta => sub <= -Coarse
<1>. DEFINE n == Count(delta)  q == delta \div n  K == KMaxSubstep
<1>1. K \in Nat /\ K > 0 /\ 4 * K <= Cell /\ Cell \in Nat /\ Reach \in Nat
  BY FloatAssumption, WalkAssumption
<1>2. n \in Nat /\ n >= 1 /\ -delta < n * K
  <2>. DEFINE m == (-delta) \div K
  <2>1. n = m + 1
    BY DEF Count, Abs
  <2>2. m \in Nat /\ -delta < (m + 1) * K
    <3>1. m \in Int /\ -delta = K * m + ((-delta) % K) /\ (-delta) % K \in 0 .. (K - 1)
      BY <1>1
    <3>2. m >= 0
      BY <1>1
    <3>. HIDE DEF m
    <3>. QED BY <1>1, <3>1, <3>2
  <2>. HIDE DEF m
  <2>. QED BY <2>1, <2>2
<1>. HIDE DEF n, K
<1>3. q \in Int /\ q * n <= delta /\ delta < (q + 1) * n
  <2>1. q \in Int /\ delta = n * q + (delta % n) /\ delta % n \in 0 .. (n - 1)
    BY <1>2
  <2>. HIDE DEF q
  <2>. QED BY <1>2, <2>1
<1>. HIDE DEF q
<1>4. q <= -1
  <2>. SUFFICES ASSUME q >= 0 PROVE FALSE
    BY <1>3
  <2>1. q * n >= 0
    BY <1>2, <1>3
  <2>. QED BY <1>2, <1>3, <2>1
<1>5. q >= -K
  <2>. SUFFICES ASSUME q + 1 <= -K PROVE FALSE
    BY <1>1, <1>3 DEF K
  <2>1. (q + 1) * n <= (-K) * n
    BY <1>1, <1>2, <1>3 DEF K
  <2>2. (-K) * n = -(n * K) /\ n * K \in Int /\ (q + 1) * n \in Int
    BY <1>1, <1>2, <1>3 DEF K
  <2>. QED BY <1>2, <1>3, <2>1, <2>2
<1>6. Near(q)
  BY <1>1, <1>3, <1>4, <1>5 DEF Near, Abs, K
<1>7. Coarse \in Spacings /\ 0 % Coarse = 0 /\ (-Coarse) % Coarse = 0 /\ Coarse \in Nat
  BY CoarseSpec DEF Spacings
<1>8. Fl(q) \in Int /\ Fl(q) <= 0 /\ 2 * (q - Fl(q)) <= Coarse
  BY <1>3, <1>4, <1>6, <1>7, NearRounding
<1>9. -2 * Fl(q) <= 2 * K + Coarse
  BY <1>1, <1>3, <1>5, <1>7, <1>8 DEF K
<1>10. ASSUME Coarse * n <= -delta PROVE Fl(q) <= -Coarse
  <2>1. q <= -Coarse
    <3>. SUFFICES ASSUME q >= -Coarse + 1 PROVE FALSE
      BY <1>3, <1>7
    <3>1. q * n >= (-Coarse + 1) * n
      BY <1>2, <1>3, <1>7
    <3>2. (-Coarse + 1) * n = -(Coarse * n) + n /\ Coarse * n \in Int /\ q * n \in Int
      BY <1>2, <1>3, <1>7
    <3>. QED BY <1>2, <1>3, <1>10, <3>1, <3>2
  <2>2. -Coarse \in Int
    BY <1>7
  <2>. QED BY <1>6, <1>7, <2>1, <2>2, NearRounding
<1>. QED BY <1>8, <1>9, <1>10 DEF q, n, K

(* Overlap goes by what the box spans.                                     *)
LEMMA SpansDecide ==
  ASSUME NEW pos \in [1 .. 3 -> Int], NEW a \in Int, NEW b \in Int, NEW he \in Nat,
         NEW origin, NEW chunks, Span(b, he) \subseteq Span(a, he),
         BoxOverlapsSolid([pos EXCEPT ![2] = b], he, origin, chunks)
  PROVE  BoxOverlapsSolid([pos EXCEPT ![2] = a], he, origin, chunks)
<1>. DEFINE R(q, i) == OverlapRange(Fl(q[i] - he), Fl(q[i] + he))
            A == [pos EXCEPT ![2] = a]
            B == [pos EXCEPT ![2] = b]
<1>1. A[1] = pos[1] /\ A[2] = a /\ A[3] = pos[3] /\ B[1] = pos[1] /\ B[2] = b /\ B[3] = pos[3]
  OBVIOUS
<1>. HIDE DEF A, B
<1>2. R(A, 1) = R(B, 1) /\ R(A, 3) = R(B, 3) /\ R(B, 2) \subseteq R(A, 2)
  BY <1>1 DEF Span
<1>3. \E x \in R(B, 1), y \in R(B, 2), z \in R(B, 3) :
        SolidAt(chunks, x + origin[1], y + origin[2], z + origin[3])
  BY DEF BoxOverlapsSolid, B
<1>4. \E x \in R(A, 1), y \in R(A, 2), z \in R(A, 3) :
        SolidAt(chunks, x + origin[1], y + origin[2], z + origin[3])
  <2>. HIDE DEF R
  <2>. QED BY <1>2, <1>3
<1>. QED BY <1>4 DEF BoxOverlapsSolid, A

(* What a blocked sweep down was: i is the first substep that ends in a    *)
(* solid voxel.                                                            *)
Blocked(s, pos, delta, he, origin, chunks, i) ==
  LET path  == Path(pos[2], delta)
      In(p) == BoxOverlapsSolid([pos EXCEPT ![2] = p], he, origin, chunks)
      flush == Flush(path[i], he, FALSE)
  IN  /\ i \in 1 .. Count(delta)
      /\ In(path[i]) /\ \A j \in 1 .. Count(delta) : In(path[j]) => i <= j
      /\ s.blocked
      /\ s.pos = [pos EXCEPT ![2] = IF In(flush) THEN path[i - 1] ELSE flush]

LEMMA PutAt ==
  ASSUME NEW pos \in [1 .. 3 -> Int], NEW p
  PROVE  [pos EXCEPT ![2] = p][2] = p
OBVIOUS

LEMMA BlockedSweep ==
  ASSUME NEW pos, Floats(pos), NEW delta \in Int, delta < 0, NEW he \in Nat,
         NEW origin, NEW chunks,
         NEW s, s = SweepAxis(pos, 2, delta, he, origin, chunks),
         \/ s.blocked
         \/ \E i \in 1 .. Count(delta) :
               BoxOverlapsSolid([pos EXCEPT ![2] = Path(pos[2], delta)[i]], he, origin, chunks)
  PROVE  \E i : Blocked(s, pos, delta, he, origin, chunks, i)
<1>. DEFINE path == Path(pos[2], delta)
            n == Count(delta)
            In(p) == BoxOverlapsSolid([pos EXCEPT ![2] = p], he, origin, chunks)
            hits == {i \in 1 .. n : In(path[i])}
            i == Min(hits)
            flush == Flush(path[i], he, FALSE)
<1>1. /\ hits = {} => s = [pos |-> [pos EXCEPT ![2] = path[n]], blocked |-> FALSE]
      /\ hits # {} => s = [pos |-> [pos EXCEPT ![2] = Settled(flush, path[i - 1], In(flush))],
                           blocked |-> TRUE]
  <2>1. delta # 0 /\ (delta > 0) = FALSE
    OBVIOUS
  <2>. QED BY <2>1 DEF SweepAxis
<1>2. hits # {}
  <2>1. hits = {} => s.blocked = FALSE
    BY <1>1
  <2>. QED BY <2>1
<1>3. n \in Nat
  BY PathSteps DEF Floats
<1>4. hits \subseteq Nat
  BY <1>3
<1>5. i \in hits /\ \A j \in hits : i <= j
  <2>1. \E x \in hits : \A y \in hits : x <= y
    <3>. HIDE DEF hits
    <3>. QED BY <1>2, <1>4, LeastOf
  <2>. HIDE DEF hits
  <2>. QED BY <2>1 DEF Min
<1>6. i \in 1 .. n /\ In(path[i]) /\ \A j \in 1 .. n : In(path[j]) => i <= j
  <2>. HIDE DEF i
  <2>. QED BY <1>5
<1>7. s.blocked /\ s.pos = [pos EXCEPT ![2] = IF In(flush) THEN path[i - 1] ELSE flush]
  <2>. HIDE DEF hits, i, flush, path, In
  <2>1. /\ s.blocked
        /\ s.pos = [pos EXCEPT ![2] = Settled(flush, path[i - 1], In(flush))]
    BY <1>1, <1>2
  <2>2. CASE In(flush)
    BY <2>1, <2>2 DEF Settled
  <2>3. CASE ~ In(flush)
    BY <2>1, <2>3 DEF Settled
  <2>. QED BY <2>2, <2>3
<1>8. Blocked(s, pos, delta, he, origin, chunks, i)
  <2>. HIDE DEF i
  <2>. QED BY <1>6, <1>7 DEF Blocked
<1>. QED BY <1>8

(* A fall from the open that is blocked ends flush on a voxel face.        *)
LEMMA FallLandsFlush ==
  ASSUME NEW pos, Floats(pos), NEW delta \in Int, delta < 0, NEW he, Fits(he),
         NEW origin, NEW chunks, ~ BoxOverlapsSolid(pos, he, origin, chunks),
         NEW s, s = SweepAxis(pos, 2, delta, he, origin, chunks),
         s.blocked, Abs(s.pos[2]) < Reach
  PROVE  \E k \in Int : s.pos[2] = k * Cell + he
<1>. DEFINE path == Path(pos[2], delta)
            n == Count(delta)
            In(p) == BoxOverlapsSolid([pos EXCEPT ![2] = p], he, origin, chunks)
            sub == Fl(delta \div n)
<1>1. he \in Nat /\ pos \in [1 .. 3 -> Int] /\ pos[2] \in Int /\ Fl(pos[2]) = pos[2]
  BY FitsSize DEF Floats
<1>2. PICK i : Blocked(s, pos, delta, he, origin, chunks, i)
  BY <1>1, BlockedSweep
<1>. DEFINE a == path[i - 1]  b == path[i]  flush == Flush(b, he, FALSE)
<1>3. /\ i \in 1 .. n /\ In(b) /\ \A j \in 1 .. n : In(path[j]) => i <= j
      /\ s.pos = [pos EXCEPT ![2] = IF In(flush) THEN a ELSE flush]
  BY <1>2 DEF Blocked
<1>4. n \in Nat /\ path[0] = pos[2] /\ b = Fl(a + sub)
  <2>1. n \in Nat /\ path[0] = pos[2]
    BY <1>1, PathSteps
  <2>2. i \in 1 .. n
    BY <1>3
  <2>3. path[i] = Fl(path[i - 1] + Fl(delta \div n))
    BY <1>1, <2>2, PathSteps, Zenon
  <2>. QED BY <2>1, <2>3
<1>5. a \in Int /\ Fl(a) = a /\ b \in Int
  <2>1. i - 1 \in 0 .. n /\ i \in 0 .. n
    BY <1>3, <1>4
  <2>. QED BY <1>1, <2>1, PathIsOfFloats
<1>6. ~ In(a)
  <2>1. CASE i - 1 = 0
    <3>1. a = pos[2]
      BY <1>4, <2>1
    <3>2. [pos EXCEPT ![2] = a] = pos
      BY <1>1, <3>1
    <3>. QED BY <3>2
  <2>2. CASE i - 1 # 0
    <3>1. i - 1 \in 1 .. n /\ ~ (i <= i - 1)
      BY <1>3, <1>4, <2>2
    <3>. QED BY <1>3, <3>1
  <2>. QED BY <2>1, <2>2
<1>7. sub \in Int /\ sub <= 0 /\ -2 * sub <= 2 * KMaxSubstep + Coarse
  BY SubstepDown
<1>. HIDE DEF sub
<1>8. b <= a
  <2>1. a + sub \in Int /\ a + sub <= a
    BY <1>5, <1>7
  <2>. QED BY <1>4, <1>5, <2>1, FlMonotone
<1>9. ASSUME NEW c \in Int, In(c) PROVE ~ (Span(c, he) \subseteq Span(a, he))
  BY <1>1, <1>5, <1>6, <1>9, SpansDecide
<1>10. flush \in Int
  BY <1>1, <1>5, FlushIsFloat
<1>. HIDE DEF path
<1>11. CASE In(flush)
  <2>1. Abs(a) < Reach
    <3>1. s.pos = [pos EXCEPT ![2] = a]
      BY <1>3, <1>11, Zenon
    <3>2. [pos EXCEPT ![2] = a][2] = a
      BY <1>1, PutAt
    <3>. QED BY <3>1, <3>2
  <2>2. DetFloorToInt(Fl(b - he)) # DetFloorToInt(Fl(a - he))
    BY <1>1, <1>3, <1>5, <1>8, <1>9, SinkingSpan
  <2>3. Span(flush, he) \subseteq Span(a, he)
    <3>. HIDE DEF a, b
    <3>. QED BY <1>4, <1>5, <1>7, <1>8, <2>1, <2>2, LandingSpan DEF b
  <2>. QED BY <1>9, <1>10, <1>11, <2>3
<1>12. CASE ~ In(flush)
  <2>. DEFINE k == DetFloorToInt(Fl(b - he)) + 1
  <2>1. k \in Int /\ flush = Fl(k * Cell + he)
    <3>1. Fl(b - he) \in Int
      BY <1>1, <1>5, FlNear
    <3>. QED BY <3>1, FloorSpec DEF Flush
  <2>2. s.pos[2] = flush
    <3>1. s.pos = [pos EXCEPT ![2] = flush]
      BY <1>3, <1>12, Zenon
    <3>2. [pos EXCEPT ![2] = flush][2] = flush
      BY <1>1, PutAt
    <3>. QED BY <3>1, <3>2
  <2>. HIDE DEF k, flush
  <2>3. k * Cell + he \in Int /\ (k * Cell + he) % Coarse = 0
    BY <1>1, <2>1, OnCoarse
  <2>4. Fl(k * Cell + he) = k * Cell + he
    BY <2>1, <2>2, <2>3, ReachedIsExact
  <2>. QED BY <2>1, <2>2, <2>4
<1>. QED BY <1>11, <1>12

(* A resting box is blocked by the first substep, and put back.            *)
LEMMA RestingSweep ==
  ASSUME NEW pos, Floats(pos), NEW delta \in Int, delta < 0, NEW he, Fits(he),
         Coarse * Count(delta) <= -delta,
         NEW origin, NEW chunks, ~ BoxOverlapsSolid(pos, he, origin, chunks),
         NEW k \in Int, pos[2] = k * Cell + he, Abs(pos[2]) < Reach,
         BoxOverlapsSolid([pos EXCEPT ![2] = pos[2] - Cell], he, origin, chunks),
         NEW s, s = SweepAxis(pos, 2, delta, he, origin, chunks)
  PROVE  s.blocked /\ s.pos = pos
<1>. DEFINE path == Path(pos[2], delta)
            n == Count(delta)
            In(p) == BoxOverlapsSolid([pos EXCEPT ![2] = p], he, origin, chunks)
            sub == Fl(delta \div n)
            b == path[1]
<1>1. /\ he \in Nat /\ pos \in [1 .. 3 -> Int] /\ pos[2] \in Int /\ Fl(pos[2]) = pos[2]
      /\ Cell \in Nat
  BY FitsSize, FloatAssumption DEF Floats
<1>2. n \in Nat /\ n >= 1 /\ path[0] = pos[2]
  BY <1>1, PathSteps
<1>3. b = Fl(pos[2] + sub)
  <2>1. 1 \in 1 .. n /\ 1 - 1 = 0
    BY <1>2
  <2>2. path[1] = Fl(path[1 - 1] + sub)
    BY <1>1, <2>1, PathSteps
  <2>. QED BY <1>2, <2>1, <2>2
<1>4. sub \in Int /\ sub <= -Coarse /\ -2 * sub <= 2 * KMaxSubstep + Coarse
  BY SubstepDown
<1>5. /\ b \in Int /\ Flush(b, he, FALSE) = pos[2]
      /\ Span(pos[2] - Cell, he) \subseteq Span(b, he)
  <2>. HIDE DEF sub, b, path, n, In
  <2>. QED BY <1>3, <1>4, RestingSpan
<1>6. In(b)
  <2>1. pos[2] - Cell \in Int
    BY <1>1
  <2>. HIDE DEF b
  <2>. QED BY <1>1, <1>5, <2>1, SpansDecide
<1>7. 1 \in 1 .. n
  BY <1>2
<1>8. PICK i : Blocked(s, pos, delta, he, origin, chunks, i)
  BY <1>1, <1>6, <1>7, BlockedSweep
<1>9. /\ i \in 1 .. n /\ (\A j \in 1 .. n : In(path[j]) => i <= j) /\ s.blocked
      /\ s.pos = [pos EXCEPT ![2] = IF In(Flush(path[i], he, FALSE)) THEN path[i - 1]
                                    ELSE Flush(path[i], he, FALSE)]
  BY <1>8 DEF Blocked
<1>10. i = 1
  <2>1. i <= 1
    BY <1>6, <1>7, <1>9
  <2>. QED BY <1>2, <1>9, <2>1
<1>11. [pos EXCEPT ![2] = pos[2]] = pos
  BY <1>1
<1>12. ~ In(pos[2])
  BY <1>11
<1>13. s.pos = [pos EXCEPT ![2] = pos[2]]
  <2>. HIDE DEF path
  <2>. QED BY <1>5, <1>9, <1>10, <1>12
<1>. QED BY <1>9, <1>11, <1>13

(* A sweep leaves the other coordinates alone, and without a displacement  *)
(* everything.                                                             *)
LEMMA SweepKeeps ==
  ASSUME NEW pos, Floats(pos), NEW axis \in 1 .. 3, NEW delta \in Int, NEW he \in Nat,
         NEW origin, NEW chunks, NEW s, s = SweepAxis(pos, axis, delta, he, origin, chunks)
  PROVE  /\ \A j \in 1 .. 3 : j # axis => s.pos[j] = pos[j]
         /\ delta = 0 => s.pos = pos
<1>. DEFINE path == Path(pos[axis], delta)
            At(p) == [pos EXCEPT ![axis] = p]
            In(p) == BoxOverlapsSolid(At(p), he, origin, chunks)
            hits == {i \in 1 .. Count(delta) : In(path[i])}
            end == Settled(Flush(path[Min(hits)], he, delta > 0), path[Min(hits) - 1],
                           In(Flush(path[Min(hits)], he, delta > 0)))
<1>1. \/ s = [pos |-> pos, blocked |-> FALSE]
      \/ delta # 0 /\ s = [pos |-> At(path[Count(delta)]), blocked |-> FALSE]
      \/ delta # 0 /\ s = [pos |-> At(end), blocked |-> TRUE]
  BY DEF SweepAxis
<1>. HIDE DEF end, path
<1>2. ASSUME NEW e, NEW b, s = [pos |-> At(e), blocked |-> b]
      PROVE  \A j \in 1 .. 3 : j # axis => s.pos[j] = pos[j]
  <2>1. s.pos = At(e)
    BY <1>2
  <2>. QED BY <2>1 DEF Floats
<1>3. s = [pos |-> pos, blocked |-> FALSE] => s.pos = pos
  OBVIOUS
<1>. HIDE DEF At
<1>. QED BY <1>1, <1>2, <1>3

(* Faces of voxels. *)
LEMMA FaceIsWhole ==
  ASSUME NEW x \in Int
  PROVE  x % Cell = 0 <=> \E k \in Int : x = k * Cell
<1>1. Cell \in Nat /\ Cell > 0
  BY FloatAssumption
<1>. DEFINE q == x \div Cell
<1>2. q \in Int /\ x = Cell * q + (x % Cell) /\ x % Cell \in 0 .. (Cell - 1)
  BY <1>1, Division
<1>3. q = DetFloorToInt(x)
  BY DEF DetFloorToInt
<1>. HIDE DEF q
<1>4. q * Cell \in Int /\ x = q * Cell + (x % Cell)
  BY <1>1, <1>2
<1>5. ASSUME NEW k \in Int, x = k * Cell PROVE x % Cell = 0
  <2>1. k * Cell <= x /\ x < (k + 1) * Cell
    BY <1>1, <1>5, VoxelOrder
  <2>2. k = q
    BY <1>3, <2>1, FloorSpec
  <2>3. x = q * Cell
    BY <1>5, <2>2
  <2>. QED BY <1>2, <1>4, <2>3
<1>6. ASSUME x % Cell = 0 PROVE \E k \in Int : x = k * Cell
  <2>1. x = q * Cell
    BY <1>4, <1>6
  <2>. QED BY <1>2, <2>1
<1>. QED BY <1>5, <1>6

LEMMA BodyFits ==
  ASSUME WalkInv, body # NoBody, FlushExact(body.he)
  PROVE  Fits(body.he)
BY WalkAssumption DEF WalkInv, Walkers, Fits

(* A tick that starts in the open and ends on the ground ends on a face. *)
LEMMA LandingOnFace ==
  ASSUME WalkInv, NEW move \in Moves, NEW jump \in BOOLEAN, PlayerStep(move, jump),
         FlushExact(body.he), ~ Inside(body, frame), body'.onGround, InGuard(body')
  PROVE  OnFace(body')
<1>. DEFINE vy == Integrated(IF jump THEN JumpSpeed ELSE body.vy)
            v == <<move[1], vy, move[2]>>
            y == SweepAxis(body.pos, 2, vy, body.he, frame, resident)
            x == SweepAxis(y.pos, 1, move[1], body.he, frame, resident)
            z == SweepAxis(x.pos, 3, move[2], body.he, frame, resident)
            s == Swept(body.pos, v, body.he, frame, resident)
<1>1. /\ body # NoBody /\ body \in Walkers /\ Floats(body.pos) /\ body.he \in Nat
      /\ Fits(body.he) /\ \A i \in 1 .. 3 : Abs(body.pos[i]) <= KWorldBound
  BY BodyFits, WithinGuard, WalkAssumption DEF WalkInv, PlayerStep, Walkers
<1>2. vy \in Int /\ move[1] \in Int /\ move[2] \in Int
  BY <1>1, IntegratedType, WalkAssumption DEF Walkers
<1>3. body' = [body EXCEPT !.pos = s.pos, !.onGround = s.onGround,
                           !.vy = IF s.blockedY THEN 0 ELSE vy]
  BY DEF PlayerStep
<1>4. /\ s.pos = Clamped(z.pos) /\ s.onGround = (y.blocked /\ vy < 0)
  <2>1. Clamped(body.pos) = body.pos
    BY <1>1, ClampedIsOfFloats
  <2>2. v[1] = move[1] /\ v[2] = vy /\ v[3] = move[2]
    OBVIOUS
  <2>. HIDE DEF v, vy
  <2>. QED BY <2>1, <2>2 DEF Swept
<1>. HIDE DEF s, vy
<1>5. /\ body'.he = body.he /\ body'.pos = s.pos /\ body'.onGround = s.onGround
  BY <1>1, <1>3 DEF Walkers
<1>6. y.blocked /\ vy < 0
  BY <1>4, <1>5
<1>7. Floats(y.pos) /\ Floats(x.pos) /\ Floats(z.pos)
  <2>1. Floats(y.pos)
    BY <1>1, <1>2, SweepEnds
  <2>. HIDE DEF y
  <2>2. Floats(x.pos)
    BY <1>1, <1>2, <2>1, SweepEnds
  <2>. HIDE DEF x
  <2>3. Floats(z.pos)
    BY <1>1, <1>2, <2>2, SweepEnds
  <2>. QED BY <2>1, <2>2, <2>3
<1>8. x.pos[2] = y.pos[2] /\ z.pos[2] = x.pos[2]
  BY <1>1, <1>2, <1>7, SweepKeeps
<1>9. s.pos = z.pos
  <2>1. \A i \in 1 .. 3 : Abs(Clamped(z.pos)[i]) < KWorldBound
    BY <1>4, <1>5 DEF InGuard
  <2>. HIDE DEF z
  <2>. QED BY <1>4, <1>7, <2>1, ClampedIsOfFloats
<1>10. Abs(y.pos[2]) < Reach
  <2>1. Abs(body'.pos[2]) < Reach
    BY DEF PlayerStep
  <2>. HIDE DEF x, y, z
  <2>. QED BY <1>5, <1>8, <1>9, <2>1
<1>11. PICK k \in Int : y.pos[2] = k * Cell + body.he
  <2>1. ~ BoxOverlapsSolid(body.pos, body.he, frame, resident)
    BY DEF Inside
  <2>. QED BY <1>1, <1>2, <1>6, <1>10, <2>1, FallLandsFlush
<1>. HIDE DEF x, y, z
<1>12. body'.pos[2] - body'.he = k * Cell /\ k * Cell \in Int
  <2>1. k * Cell \in Int
    BY VoxelOrder
  <2>. QED BY <1>1, <1>5, <1>8, <1>9, <1>11, <2>1
<1>. QED BY <1>12, FaceIsWhole DEF OnFace

(* A rebase keeps a face on a face. *)
LEMMA RebaseKeepsFace ==
  ASSUME WalkInv, NEW d \in Shifts, Rebase(d), FlushExact(body.he), OnFace(body)
  PROVE  OnFace(body')
<1>1. /\ body # NoBody /\ body \in Walkers /\ Floats(body.pos) /\ body.he \in Nat
      /\ Fits(body.he) /\ d \in [1 .. 3 -> Int]
  BY BodyFits, WalkAssumption DEF WalkInv, Rebase, Walkers
<1>2. body.pos[2] - body.he \in Int /\ body.pos[2] \in Int /\ d[2] \in Int
  BY <1>1 DEF Floats
<1>3. PICK k \in Int : body.pos[2] - body.he = k * Cell
  BY <1>2, FaceIsWhole DEF OnFace
<1>. DEFINE n == (k - d[2]) * Cell + body.he
<1>4. body'.pos[2] = Fl(body.pos[2] - d[2] * Cell) /\ body'.he = body.he
  BY RebaseEnds
<1>5. /\ body.pos[2] - d[2] * Cell = n /\ k - d[2] \in Int /\ (k - d[2]) * Cell \in Int
  <2>1. /\ (k - d[2]) * Cell = k * Cell - d[2] * Cell /\ k * Cell \in Int /\ d[2] * Cell \in Int
    BY <1>2, FloatAssumption
  <2>. QED BY <1>1, <1>2, <1>3, <2>1
<1>6. n \in Int /\ n % Coarse = 0
  BY <1>1, <1>5, OnCoarse
<1>7. Abs(Fl(n)) < Reach
  <2>1. Abs(body'.pos[2]) < Reach
    BY DEF Rebase
  <2>. QED BY <1>4, <1>5, <2>1
<1>8. body'.pos[2] = n
  BY <1>4, <1>5, <1>6, <1>7, ReachedIsExact
<1>9. body'.pos[2] - body'.he = (k - d[2]) * Cell
  BY <1>1, <1>4, <1>5, <1>8
<1>. QED BY <1>5, <1>9, FaceIsWhole DEF OnFace

(* Left alone on the ground the player stays. *)
LEMMA RestingStays ==
  ASSUME WalkInv, body # NoBody, FlushExact(body.he), ~ Inside(body, frame),
         body.onGround, OnFace(body), GravityCounts, Inside(Below(body), frame),
         PlayerStep(<<0, 0>>, FALSE)
  PROVE  body' = body
<1>. DEFINE vy == Integrated(IF FALSE THEN JumpSpeed ELSE body.vy)
            v == <<(<<0, 0>>)[1], vy, (<<0, 0>>)[2]>>
            y == SweepAxis(body.pos, 2, vy, body.he, frame, resident)
            s == Swept(body.pos, v, body.he, frame, resident)
<1>1. /\ body \in Walkers /\ Floats(body.pos) /\ body.he \in Nat /\ body.vy = 0
      /\ Fits(body.he) /\ \A i \in 1 .. 3 : Abs(body.pos[i]) <= KWorldBound
      /\ Abs(body.pos[2]) < Reach /\ body.pos \in [1 .. 3 -> Int]
  BY BodyFits, WithinGuard, WalkAssumption DEF WalkInv, Walkers, Floats
<1>2. vy = -Gravity /\ vy \in Int /\ vy < 0
  BY <1>1, WalkAssumption DEF Integrated, DetClamp
<1>3. Coarse * Count(vy) <= -vy
  <2>1. Abs(vy) = Abs(Gravity) /\ -vy = Gravity
    BY <1>2, WalkAssumption DEF Abs
  <2>2. Count(vy) = Count(Gravity)
    BY <2>1 DEF Count
  <2>. HIDE DEF vy
  <2>. QED BY <2>1, <2>2 DEF GravityCounts
<1>4. v[1] = 0 /\ v[2] = vy /\ v[3] = 0
  OBVIOUS
<1>5. body' = [body EXCEPT !.pos = s.pos, !.onGround = s.onGround,
                           !.vy = IF s.blockedY THEN 0 ELSE vy]
  BY DEF PlayerStep
<1>. HIDE DEF vy, v
<1>6. PICK k \in Int : body.pos[2] = k * Cell + body.he
  <2>1. body.pos[2] - body.he \in Int /\ body.pos[2] \in Int
    BY <1>1
  <2>2. PICK k \in Int : body.pos[2] - body.he = k * Cell
    BY <2>1, FaceIsWhole DEF OnFace
  <2>3. k * Cell \in Int
    BY VoxelOrder
  <2>. QED BY <1>1, <2>1, <2>2, <2>3
<1>7. /\ ~ BoxOverlapsSolid(body.pos, body.he, frame, resident)
      /\ BoxOverlapsSolid([body.pos EXCEPT ![2] = body.pos[2] - Cell], body.he, frame, resident)
  <2>1. /\ Below(body).pos = [body.pos EXCEPT ![2] = body.pos[2] - Cell]
        /\ Below(body).he = body.he
    BY <1>1 DEF Below, Walkers
  <2>. QED BY <2>1 DEF Inside
<1>8. y.blocked /\ y.pos = body.pos
  BY <1>1, <1>2, <1>3, <1>6, <1>7, RestingSweep
<1>9. /\ SweepAxis(body.pos, 1, 0, body.he, frame, resident).pos = body.pos
      /\ SweepAxis(body.pos, 3, 0, body.he, frame, resident).pos = body.pos
  BY <1>1, SweepKeeps
<1>10. Clamped(body.pos) = body.pos
  BY <1>1, ClampedIsOfFloats
<1>11. s.pos = body.pos /\ s.blockedY /\ s.onGround
  BY <1>2, <1>4, <1>8, <1>9, <1>10 DEF Swept
<1>. HIDE DEF s, y
<1>12. body' = [body EXCEPT !.pos = body.pos, !.onGround = TRUE, !.vy = 0]
  <2>1. s.blockedY /\ s.pos = body.pos
    BY <1>11
  <2>2. s.onGround = TRUE
    BY <1>11, <1>5
  <2>. QED BY <1>5, <2>1, <2>2
<1>13. body.onGround = TRUE
  BY <1>1 DEF Walkers
<1>. QED BY <1>1, <1>12, <1>13 DEF Walkers

(* A landed player rests (player.hpp:53-55, playerStep and sweepAxis): for *)
(* every world, every body whose half extent is on the grid of the walk    *)
(* and every shift, a tick that starts in the open and ends on the ground  *)
(* ends flush with a voxel face, no rebase takes it off the face, and left *)
(* alone above solid ground it does not move and stays landed.             *)
THEOREM LandedStaysLanded == Spec => LandedRests
<1>. DEFINE Rests ==
       body # NoBody /\ FlushExact(body.he) /\ ~Inside(body, frame) =>
         /\ frame' = frame /\ body'.onGround /\ InGuard(body') => OnFace(body')
         /\ body.onGround /\ OnFace(body) =>
              /\ frame' # frame => OnFace(body') /\ body'.onGround
              /\ GravityCounts /\ Inside(Below(body), frame) /\ PlayerStep(<<0, 0>>, FALSE)
                   => body' = body
<1>1. ASSUME WalkInv, [Next]_vars PROVE Rests \/ UNCHANGED vars
  <2>1. body = NoBody => Rests
    OBVIOUS
  <2>2. ASSUME NEW cp \in Region, LoadChunk(cp) PROVE body = NoBody
    BY <1>1, <2>2 DEF WalkInv, LoadChunk
  <2>3. ASSUME MeshAll PROVE body = NoBody
    BY <1>1, <2>3 DEF WalkInv, MeshAll
  <2>4. ASSUME NEW he \in Bodies, NEW at \in Spawns, Spawn(he, at) PROVE body = NoBody
    BY <2>4 DEF Spawn
  <2>5. ASSUME body # NoBody, FlushExact(body.he), ~Inside(body, frame), body.onGround,
               OnFace(body), GravityCounts, Inside(Below(body), frame),
               PlayerStep(<<0, 0>>, FALSE)
        PROVE  body' = body
    BY <1>1, <2>5, RestingStays
  <2>6. ASSUME NEW move \in Moves, NEW jump \in BOOLEAN, PlayerStep(move, jump) PROVE Rests
    <3>1. frame' = frame
      BY <2>6 DEF PlayerStep
    <3>2. ASSUME FlushExact(body.he), ~Inside(body, frame), body'.onGround, InGuard(body')
          PROVE  OnFace(body')
      BY <1>1, <2>6, <3>2, LandingOnFace
    <3>. QED BY <2>5, <3>1, <3>2
  <2>7. ASSUME NEW d \in Shifts, Rebase(d) PROVE Rests
    <3>1. frame' # frame
      <4>1. PICK i \in 1 .. 3 : d[i] # 0
        BY WalkAssumption
      <4>2. frame'[i] = frame[i] + d[i] /\ frame[i] \in Int /\ d[i] \in Int
        BY <1>1, <2>7, RebaseEnds, WalkAssumption DEF WalkInv
      <4>3. frame'[i] # frame[i]
        BY <4>1, <4>2
      <4>. QED BY <4>3
    <3>2. body'.onGround = body.onGround
      BY <1>1, <2>7, RebaseEnds
    <3>3. ASSUME FlushExact(body.he), OnFace(body) PROVE OnFace(body')
      BY <1>1, <2>7, <3>3, RebaseKeepsFace
    <3>. QED BY <2>5, <3>1, <3>2, <3>3
  <2>. HIDE DEF Rests
  <2>. QED BY <1>1, <2>1, <2>2, <2>3, <2>4, <2>6, <2>7 DEF Next
<1>2. WalkInv /\ [Next]_vars => [Rests]_vars
  BY <1>1
<1>. QED BY <1>2, WalkInvHolds, PTL DEF Spec, LandedRests
=============================================================================
