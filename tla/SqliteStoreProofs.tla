------------------------- MODULE SqliteStoreProofs --------------------------
(***************************************************************************)
(* Proof that SqliteStore implements KvStore, for any keys over any byte   *)
(* alphabet, any values and any batches, with every SQLite call failing or *)
(* not and the process dying anywhere.                                     *)
(***************************************************************************)
EXTENDS SqliteStore, WellFoundedInduction, SequenceTheorems, TLAPS

(* The least-number principle, for sets. *)
LEMMA LeastElement ==
  ASSUME NEW T, T \subseteq Nat, T # {}
  PROVE  \E x \in T : \A y \in T : x <= y
<1>. DEFINE R == OpToRel(<, Nat)
<1>1. IsWellFoundedOn(R, Nat)
  BY NatLessThanWellFounded
<1>2. \A x, y \in Nat : <<y, x>> \in R <=> y < x
  BY DEF OpToRel
<1>. HIDE DEF R
<1>3. PICK x \in T : \A y \in T : ~ (<<y, x>> \in R)
  BY <1>1, WFMin
<1>4. \A y \in T : ~ (y < x) /\ x \in Nat /\ y \in Nat
  BY <1>2, <1>3
<1>. QED BY <1>3, <1>4

(* A non-empty set of numbers below a bound has a greatest element. *)
LEMMA GreatestElement ==
  ASSUME NEW n \in Nat, NEW T, T \subseteq 0..n, T # {}
  PROVE  \E x \in T : \A y \in T : y <= x
<1>. DEFINE U == {i \in 0..n : n - i \in T}
<1>1. U \subseteq Nat /\ \A i \in U : i \in 0..n /\ n - i \in T
  OBVIOUS
<1>2. \A y \in T : n - y \in U
  OBVIOUS
<1>3. U # {}
  BY <1>2
<1>. HIDE DEF U
<1>4. PICK u \in U : \A v \in U : u <= v
  BY <1>1, <1>3, LeastElement
<1>5. n - u \in T /\ \A y \in T : y <= n - u
  BY <1>1, <1>2, <1>4
<1>. QED BY <1>5

-----------------------------------------------------------------------------
(* The order of the scan, element by element. *)
LEMMA SamePrefix ==
  ASSUME NEW a \in Seq(Int), NEW b \in Seq(Int), NEW n \in Nat, n <= Len(a), n <= Len(b)
  PROVE  SubSeq(a, 1, n) = SubSeq(b, 1, n) <=> \A j \in 1..n : a[j] = b[j]
<1>1. /\ SubSeq(a, 1, n) \in Seq(Int) /\ Len(SubSeq(a, 1, n)) = n
      /\ \A j \in 1..n : SubSeq(a, 1, n)[j] = a[j]
  OBVIOUS
<1>2. /\ SubSeq(b, 1, n) \in Seq(Int) /\ Len(SubSeq(b, 1, n)) = n
      /\ \A j \in 1..n : SubSeq(b, 1, n)[j] = b[j]
  OBVIOUS
<1>3. ASSUME SubSeq(a, 1, n) = SubSeq(b, 1, n) PROVE \A j \in 1..n : a[j] = b[j]
  BY <1>1, <1>2, <1>3
<1>4. ASSUME \A j \in 1..n : a[j] = b[j] PROVE SubSeq(a, 1, n) = SubSeq(b, 1, n)
  <2>1. \A j \in 1..n : SubSeq(a, 1, n)[j] = SubSeq(b, 1, n)[j]
    BY <1>1, <1>2, <1>4
  <2>. QED BY <1>1, <1>2, <2>1, SeqEqual
<1>. QED BY <1>3, <1>4

LEMMA PrefixByByte ==
  ASSUME NEW p \in Seq(Int), NEW k \in Seq(Int)
  PROVE  Kv!IsPrefixOf(p, k) <=> Len(p) <= Len(k) /\ \A j \in 1..Len(p) : k[j] = p[j]
<1>1. SubSeq(p, 1, Len(p)) = p
  BY SubSeqFull
<1>2. Len(p) \in Nat
  OBVIOUS
<1>3. ASSUME Len(p) <= Len(k)
      PROVE  SubSeq(k, 1, Len(p)) = p <=> \A j \in 1..Len(p) : k[j] = p[j]
  <2>1. SubSeq(k, 1, Len(p)) = SubSeq(p, 1, Len(p)) <=> \A j \in 1..Len(p) : k[j] = p[j]
    BY <1>2, <1>3, SamePrefix
  <2>. QED BY <1>1, <2>1, Zenon
<1>. QED BY <1>3 DEF Kv!IsPrefixOf

LEMMA LexByByte ==
  ASSUME NEW a \in Seq(Int), NEW b \in Seq(Int)
  PROVE  Kv!LexLess(a, b) <=>
           \/ Len(a) < Len(b) /\ \A j \in 1..Len(a) : b[j] = a[j]
           \/ \E i \in 1..Len(a) : /\ i <= Len(b) /\ a[i] < b[i]
                                   /\ \A j \in 1..(i - 1) : a[j] = b[j]
<1>1. Len(a) \in Nat /\ Len(b) \in Nat
  OBVIOUS
<1>2. Len(a) < Len(b) /\ Kv!IsPrefixOf(a, b)
        <=> Len(a) < Len(b) /\ \A j \in 1..Len(a) : b[j] = a[j]
  BY <1>1, PrefixByByte
<1>3. ASSUME NEW i \in 1..Len(a), i <= Len(b)
      PROVE  SubSeq(a, 1, i - 1) = SubSeq(b, 1, i - 1) <=> \A j \in 1..(i - 1) : a[j] = b[j]
  <2>1. i - 1 \in Nat /\ i - 1 <= Len(a) /\ i - 1 <= Len(b)
    BY <1>1, <1>3
  <2>. QED BY <2>1, SamePrefix
<1>. QED BY <1>2, <1>3 DEF Kv!LexLess

(* prefixUpperBound: there is none when the prefix is all 0xFF; otherwise  *)
(* it agrees with the prefix up to its last byte that is not, and has one  *)
(* more there.                                                             *)
LEMMA UpperBound ==
  ASSUME NEW p \in Seq(0..MaxByte)
  PROVE  \/ /\ \A i \in 1..Len(p) : p[i] = MaxByte
            /\ PrefixUpperBound(p) = <<>>
         \/ \E l \in 1..Len(p) :
              /\ p[l] # MaxByte /\ \A i \in 1..Len(p) : i > l => p[i] = MaxByte
              /\ PrefixUpperBound(p) \in Seq(Int) /\ Len(PrefixUpperBound(p)) = l
              /\ PrefixUpperBound(p)[l] = p[l] + 1
              /\ \A i \in 1..(l - 1) : PrefixUpperBound(p)[i] = p[i]
<1>. DEFINE low == {i \in 1..Len(p) : p[i] # MaxByte}
            l == CHOOSE i \in low : \A j \in low : j <= i
<1>0. Len(p) \in Nat /\ p \in Seq(Int) /\ \A i \in 1..Len(p) : p[i] \in 0..MaxByte /\ p[i] \in Int
  BY SqliteAssumption
<1>1. CASE low = {}
  BY <1>1 DEF PrefixUpperBound
<1>2. CASE low # {}
  <2>1. low \subseteq 0..Len(p)
    BY <1>0
  <2>2. l \in low /\ \A j \in low : j <= l
    <3>. HIDE DEF low
    <3>1. \E i \in low : \A j \in low : j <= i
      BY <1>0, <1>2, <2>1, GreatestElement
    <3>. QED BY <3>1
  <2>. DEFINE q == SubSeq(p, 1, l)
              u == [q EXCEPT ![l] = @ + 1]
  <2>3. PrefixUpperBound(p) = u
    BY <1>2 DEF PrefixUpperBound
  <2>4. l \in 1..Len(p) /\ p[l] # MaxByte /\ \A i \in 1..Len(p) : i > l => p[i] = MaxByte
    <3>1. \A i \in 1..Len(p) : p[i] # MaxByte => i \in low
      OBVIOUS
    <3>2. l \in 1..Len(p) /\ p[l] # MaxByte
      BY <2>2
    <3>. HIDE DEF l, low
    <3>. QED BY <1>0, <2>2, <3>1, <3>2
  <2>. HIDE DEF l, low
  <2>5. q \in Seq(Int) /\ Len(q) = l /\ \A i \in 1..l : q[i] = p[i]
    BY <1>0, <2>4
  <2>. HIDE DEF q
  <2>6. q[l] + 1 \in Int /\ l \in 1..Len(q)
    BY <1>0, <2>4, <2>5
  <2>7. /\ u \in Seq(Int) /\ Len(u) = Len(q)
        /\ \A j \in 1..Len(q) : u[j] = IF j = l THEN q[l] + 1 ELSE q[j]
    BY <2>5, <2>6, ExceptSeq
  <2>8. /\ u \in Seq(Int) /\ Len(u) = l /\ u[l] = p[l] + 1
        /\ \A i \in 1..(l - 1) : u[i] = p[i]
    <3>. HIDE DEF u
    <3>. QED BY <2>4, <2>5, <2>6, <2>7
  <2>. HIDE DEF u
  <2>. QED BY <2>3, <2>4, <2>8
<1>. QED BY <1>1, <1>2

(* The half-open key range of the SQL query is exactly the prefix. *)
LEMMA RangeIsPrefix ==
  ASSUME NEW p \in Seq(0..MaxByte), NEW k \in Seq(0..MaxByte)
  PROVE  InRange(k, p) <=> Kv!IsPrefixOf(p, k)
<1>. DEFINE u == PrefixUpperBound(p)
<1>1. /\ p \in Seq(Int) /\ k \in Seq(Int) /\ Len(p) \in Nat /\ Len(k) \in Nat
      /\ \A i \in 1..Len(p) : p[i] \in 0..MaxByte /\ p[i] \in Int
      /\ \A i \in 1..Len(k) : k[i] \in 0..MaxByte /\ k[i] \in Int
      /\ MaxByte \in Int
  BY SqliteAssumption
<1>2. ASSUME Kv!IsPrefixOf(p, k) PROVE InRange(k, p)
  <2>1. Len(p) <= Len(k) /\ \A j \in 1..Len(p) : k[j] = p[j]
    BY <1>1, <1>2, PrefixByByte
  <2>2. ~Kv!LexLess(k, p)
    <3>1. ~(Len(k) < Len(p))
      BY <1>1, <2>1
    <3>2. ASSUME NEW i \in 1..Len(k), i <= Len(p), k[i] < p[i] PROVE FALSE
      <4>1. k[i] = p[i] /\ k[i] \in Int
        BY <1>1, <2>1, <3>2
      <4>. QED BY <3>2, <4>1
    <3>. QED BY <1>1, <3>1, <3>2, LexByByte
  <2>3. ASSUME NEW l \in 1..Len(p), u \in Seq(Int), Len(u) = l,
               u[l] = p[l] + 1, \A i \in 1..(l - 1) : u[i] = p[i]
        PROVE  Kv!LexLess(k, u)
    <3>1. l \in 1..Len(k) /\ l <= Len(u) /\ k[l] < u[l] /\ \A j \in 1..(l - 1) : k[j] = u[j]
      <4>. HIDE DEF u
      <4>1. l \in 1..Len(k) /\ l <= Len(u)
        BY <1>1, <2>1, <2>3
      <4>2. k[l] = p[l] /\ p[l] \in Int
        BY <1>1, <2>1
      <4>3. \A j \in 1..(l - 1) : j \in 1..Len(p)
        BY <1>1
      <4>. QED BY <2>1, <2>3, <4>1, <4>2, <4>3
    <3>. HIDE DEF u
    <3>. QED BY <1>1, <2>3, <3>1, LexByByte
  <2>. QED BY <2>2, <2>3, UpperBound DEF InRange
<1>3. ASSUME InRange(k, p), ~Kv!IsPrefixOf(p, k) PROVE FALSE
  <2>. DEFINE D == {i \in 1..Len(p) : i > Len(k) \/ k[i] # p[i]}
  <2>1. D # {} /\ D \subseteq Nat
    <3>1. Len(p) <= Len(k) => \E i \in 1..Len(p) : k[i] # p[i]
      BY <1>1, <1>3, PrefixByByte
    <3>2. ~(Len(p) <= Len(k)) => Len(p) \in D
      <4>. SUFFICES ASSUME Len(k) < Len(p) PROVE Len(p) \in D
        BY <1>1
      <4>. QED BY <1>1
    <3>3. D # {}
      BY <3>1, <3>2
    <3>4. D \subseteq Nat
      BY <1>1
    <3>. QED BY <3>3, <3>4
  <2>2. PICK d \in D : \A i \in D : d <= i
    <3>. HIDE DEF D
    <3>. QED BY <2>1, LeastElement
  <2>3. /\ d \in 1..Len(p) /\ (d > Len(k) \/ k[d] # p[d])
        /\ \A j \in 1..(d - 1) : j <= Len(k) /\ k[j] = p[j]
    <3>1. d \in 1..Len(p) /\ (d > Len(k) \/ k[d] # p[d])
      OBVIOUS
    <3>2. ASSUME NEW j \in 1..(d - 1) PROVE j <= Len(k) /\ k[j] = p[j]
      <4>1. j \in 1..Len(p) /\ ~(d <= j)
        BY <1>1, <3>1
      <4>2. j \notin D
        BY <2>2, <4>1
      <4>. QED BY <1>1, <4>1, <4>2
    <3>. QED BY <3>1, <3>2
  <2>. HIDE DEF D
  <2>4. ~Kv!LexLess(k, p) /\ (u = <<>> \/ Kv!LexLess(k, u))
    BY <1>3 DEF InRange
  <2>5. d <= Len(k)
    <3>. SUFFICES ASSUME d > Len(k) PROVE FALSE
      BY <1>1, <2>3
    <3>1. Len(k) < Len(p) /\ \A j \in 1..Len(k) : p[j] = k[j]
      BY <1>1, <2>3
    <3>. QED BY <1>1, <2>4, <3>1, LexByByte
  <2>6. p[d] < k[d]
    <3>. SUFFICES ASSUME k[d] < p[d] PROVE FALSE
      BY <1>1, <2>3, <2>5
    <3>1. d \in 1..Len(k) /\ d <= Len(p) /\ \A j \in 1..(d - 1) : k[j] = p[j]
      BY <1>1, <2>3, <2>5
    <3>. QED BY <1>1, <2>4, <3>1, LexByByte
  <2>7. p[d] # MaxByte /\ d \in 1..Len(k)
    BY <1>1, <2>3, <2>5, <2>6
  <2>8. PICK l \in 1..Len(p) :
          /\ p[l] # MaxByte /\ \A i \in 1..Len(p) : i > l => p[i] = MaxByte
          /\ u \in Seq(Int) /\ Len(u) = l /\ u[l] = p[l] + 1
          /\ \A i \in 1..(l - 1) : u[i] = p[i]
    BY <2>3, <2>7, UpperBound
  <2>. HIDE DEF u
  <2>9. d <= l /\ u # <<>> /\ l \in Nat /\ d \in Nat
    <3>1. l \in Nat /\ d \in Nat /\ l >= 1
      BY <1>1, <2>3
    <3>2. ~(d > l)
      BY <2>3, <2>7, <2>8
    <3>3. u # <<>>
      BY <2>8, <3>1
    <3>. QED BY <3>1, <3>2, <3>3
  <2>10. u[d] # k[d] \/ d = l
    BY <1>1, <2>3, <2>6, <2>8, <2>9
  <2>11. u[d] <= k[d] /\ u[d] \in Int
    <3>1. p[d] \in Int /\ k[d] \in Int /\ p[d] + 1 <= k[d]
      BY <1>1, <2>3, <2>6, <2>7
    <3>2. u[d] = p[d] + 1 \/ u[d] = p[d]
      <4>1. d = l \/ d \in 1..(l - 1)
        BY <2>3, <2>9
      <4>. QED BY <2>8, <4>1, Zenon
    <3>. QED BY <3>1, <3>2
  <2>12. \/ Len(k) < Len(u) /\ \A j \in 1..Len(k) : u[j] = k[j]
         \/ \E i \in 1..Len(k) : /\ i <= Len(u) /\ k[i] < u[i]
                                 /\ \A j \in 1..(i - 1) : k[j] = u[j]
    BY <1>1, <2>4, <2>8, <2>9, LexByByte
  <2>13. CASE Len(k) < Len(u) /\ \A j \in 1..Len(k) : u[j] = k[j]
    <3>1. u[d] = k[d]
      BY <2>7, <2>13
    <3>2. d = l
      BY <2>10, <3>1
    <3>. QED BY <1>1, <2>5, <2>8, <2>9, <2>13, <3>2
  <2>14. ASSUME NEW i \in 1..Len(k), i <= Len(u), k[i] < u[i],
                \A j \in 1..(i - 1) : k[j] = u[j]
         PROVE  FALSE
    <3>1. CASE i < d
      <4>1. i \in 1..(d - 1) /\ i \in 1..(l - 1) /\ i \in 1..Len(p)
        BY <1>1, <2>3, <2>9, <3>1
      <4>2. k[i] = p[i] /\ u[i] = p[i] /\ k[i] \in Int
        BY <1>1, <2>3, <2>8, <4>1
      <4>. QED BY <2>14, <4>2
    <3>2. CASE i = d
      BY <1>1, <2>7, <2>11, <2>14, <3>2
    <3>3. CASE i > d
      <4>1. d # l
        BY <1>1, <2>8, <2>9, <2>14, <3>3
      <4>2. d \in 1..(i - 1)
        BY <1>1, <2>7, <3>3
      <4>3. k[d] = u[d]
        BY <2>14, <4>2
      <4>. QED BY <2>10, <4>1, <4>3
    <3>. QED BY <1>1, <2>9, <3>1, <3>2, <3>3
  <2>. QED BY <2>12, <2>13, <2>14
<1>. QED BY <1>2, <1>3

-----------------------------------------------------------------------------
(* The table after each operation of a batch. *)
After(m, ops) ==
  LET after[i \in 0..Len(ops)] == IF i = 0 THEN m ELSE Kv!Apply(after[i - 1], ops[i])
  IN  after

(* f is the table after each of the first n operations. *)
Runs(f, m, ops, n) ==
  f = [i \in 0..n |-> IF i = 0 THEN m ELSE Kv!Apply(f[i - 1], ops[i])]

(* Executing a batch one operation at a time is defined at every step. *)
LEMMA RunExists ==
  ASSUME NEW m, NEW ops, NEW len \in Nat
  PROVE  \E f : Runs(f, m, ops, len)
<1>. DEFINE T == {n \in Nat : ~ \E f : Runs(f, m, ops, n)}
<1>. SUFFICES ASSUME T # {} PROVE FALSE
  OBVIOUS
<1>1. PICK n \in T : \A i \in T : n <= i
  <2>1. T \subseteq Nat
    OBVIOUS
  <2>. HIDE DEF T
  <2>. QED BY <2>1, LeastElement
<1>2. n \in Nat /\ ~ \E f : Runs(f, m, ops, n)
  OBVIOUS
<1>3. n # 0
  <2>. SUFFICES ASSUME n = 0 PROVE FALSE
    OBVIOUS
  <2>. DEFINE g == [i \in 0..0 |-> m]
  <2>1. Runs(g, m, ops, 0)
    BY DEF Runs
  <2>. QED BY <1>2, <2>1
<1>4. n - 1 \in Nat /\ n - 1 \notin T
  BY <1>1, <1>2, <1>3
<1>5. PICK f : Runs(f, m, ops, n - 1)
  BY <1>4
<1>. DEFINE g == [i \in 0..n |-> IF i = n THEN Kv!Apply(f[n - 1], ops[n]) ELSE f[i]]
<1>6. Runs(g, m, ops, n)
  <2>1. \A i \in 0..(n - 1) : f[i] = IF i = 0 THEN m ELSE Kv!Apply(f[i - 1], ops[i])
    BY <1>5 DEF Runs
  <2>2. \A i \in 0..(n - 1) : g[i] = f[i]
    BY <1>2, <1>3
  <2>3. \A i \in 0..n : g[i] = IF i = 0 THEN m ELSE Kv!Apply(g[i - 1], ops[i])
    <3>. TAKE i \in 0..n
    <3>1. CASE i = n
      <4>1. g[i] = Kv!Apply(f[n - 1], ops[n]) /\ n - 1 \in 0..(n - 1)
        BY <1>2, <1>3, <3>1
      <4>2. g[n - 1] = f[n - 1]
        BY <2>2, <4>1
      <4>. HIDE DEF g
      <4>. QED BY <1>3, <3>1, <4>1, <4>2
    <3>2. CASE i # n
      <4>1. i \in 0..(n - 1) /\ (i # 0 => i - 1 \in 0..(n - 1))
        BY <1>2, <3>2
      <4>. HIDE DEF g
      <4>. QED BY <2>1, <2>2, <4>1
    <3>. QED BY <3>1, <3>2
  <2>4. g = [i \in 0..n |-> g[i]]
    OBVIOUS
  <2>. HIDE DEF g
  <2>. QED BY <2>3, <2>4 DEF Runs
<1>. HIDE DEF g
<1>. QED BY <1>2, <1>6

(* The recursion of ApplyAll, unfolded. *)
LEMMA AfterRuns ==
  ASSUME NEW m, NEW ops, Len(ops) \in Nat
  PROVE  /\ After(m, ops)[0] = m
         /\ \A i \in 1..Len(ops) : After(m, ops)[i] = Kv!Apply(After(m, ops)[i - 1], ops[i])
         /\ Kv!ApplyAll(m, ops) = After(m, ops)[Len(ops)]
<1>1. After(m, ops) = CHOOSE f : Runs(f, m, ops, Len(ops))
  BY DEF After, Runs
<1>2. Runs(After(m, ops), m, ops, Len(ops))
  BY <1>1, RunExists
<1>3. /\ After(m, ops)[0] = m
      /\ \A i \in 1..Len(ops) : After(m, ops)[i] = Kv!Apply(After(m, ops)[i - 1], ops[i])
  BY <1>2 DEF Runs
<1>4. Kv!ApplyAll(m, ops) = After(m, ops)[Len(ops)]
  BY DEF Kv!ApplyAll, After
<1>. QED BY <1>3, <1>4

-----------------------------------------------------------------------------
(* The inductive invariant.  A map is a function. *)
IsMap(m) == m = [k \in DOMAIN m |-> m[k]]

(* applyBatch(ops) has executed n operations, on the transaction's view. *)
Executing(ops, n) ==
  /\ \A i \in DOMAIN ops : ops[i].key # Kv!Empty
  /\ batch = SubSeq(ops, n + 1, Len(ops))
  /\ txn = After(durable, ops)[n]
  /\ Table(txn) /\ IsMap(txn)

(* A transaction open between calls is one whose ROLLBACK failed, and then *)
(* the store refuses every call.                                           *)
LeftOpen == Idle /\ txn # NoTxn => error /\ Table(txn)

InBatch == ~Idle => \E ops \in Batches : \E n \in 0..Len(ops) : Executing(ops, n)

StoreInv ==
  /\ Table(durable) /\ IsMap(durable)
  /\ error \in BOOLEAN /\ faulty \in BOOLEAN
  /\ error => faulty
  /\ LeftOpen
  /\ InBatch

(* Between calls a store without an error has no open transaction. *)
LEMMA NothingOpen ==
  ASSUME StoreInv, Idle, ok
  PROVE  txn = NoTxn /\ View = durable
BY DEF StoreInv, LeftOpen, ok, View

LEMMA WriteKeepsTable ==
  ASSUME NEW m, Table(m), NEW k \in Keys \ {Kv!Empty}, NEW v \in Values
  PROVE  /\ Table(Kv!With(m, k, v)) /\ IsMap(Kv!With(m, k, v))
         /\ Table(Kv!Without(m, k)) /\ IsMap(Kv!Without(m, k))
BY DEF Table, IsMap, Kv!With, Kv!Without

LEMMA ApplyKeepsTable ==
  ASSUME NEW m, Table(m), NEW op \in [key : Keys, value : Values \cup {Absent}],
         op.key # Kv!Empty
  PROVE  Table(Kv!Apply(m, op)) /\ IsMap(Kv!Apply(m, op))
<1>1. CASE op.value = Absent
  <2>1. Kv!Apply(m, op) = Kv!Without(m, op.key) /\ op.key \in Keys
    BY <1>1 DEF Kv!Apply
  <2>. QED BY <2>1 DEF Table, IsMap, Kv!Without
<1>2. CASE op.value # Absent
  <2>1. Kv!Apply(m, op) = Kv!With(m, op.key, op.value) /\ op.key \in Keys /\ op.value \in Values
    BY <1>2 DEF Kv!Apply
  <2>. QED BY <2>1 DEF Table, IsMap, Kv!With
<1>. QED BY <1>1, <1>2

(* Erasing what is not there changes nothing. *)
LEMMA EraseAbsent ==
  ASSUME NEW m, IsMap(m), NEW k, k \notin DOMAIN m
  PROVE  Kv!Without(m, k) = m
<1>1. DOMAIN m \ {k} = DOMAIN m
  OBVIOUS
<1>. QED BY <1>1 DEF IsMap, Kv!Without

-----------------------------------------------------------------------------
LEMMA ErrorImpliesFaulty ==
  ASSUME NEW e, NEW f \in BOOLEAN, NEW b \in BOOLEAN, b => f, e = FALSE \/ e = f \/ e = b
  PROVE  e \in BOOLEAN /\ (e => f)
<1>1. CASE e = FALSE
  BY <1>1
<1>2. CASE e = f
  BY <1>2
<1>3. CASE e = b
  BY <1>3
<1>. QED BY <1>1, <1>2, <1>3

LEMMA InitStore == Init => StoreInv
<1>. SUFFICES ASSUME Init PROVE StoreInv
  OBVIOUS
<1>1. Table(durable) /\ IsMap(durable)
  BY DEF Init, Table, IsMap
<1>2. error \in BOOLEAN /\ faulty \in BOOLEAN /\ (error => faulty)
  <2>1. faulty \in BOOLEAN /\ error \in {FALSE, faulty}
    BY DEF Init
  <2>2. error = FALSE \/ error = faulty
    BY <2>1, Zenon
  <2>. QED BY <2>1, <2>2, ErrorImpliesFaulty
<1>3. txn = NoTxn /\ Idle
  BY DEF Init, Idle
<1>. QED BY <1>1, <1>2, <1>3 DEF StoreInv, LeftOpen, InBatch

(* What is left to show of a step that ends between calls. *)
LEMMA ReturnKeeps ==
  ASSUME StoreInv, UNCHANGED faulty, Idle', Table(durable'), IsMap(durable'),
         error' \in {FALSE, faulty} \cup {error}, (txn # NoTxn)' => error' /\ Table(txn')
  PROVE  StoreInv'
<1>1. error' \in BOOLEAN /\ faulty' \in BOOLEAN /\ (error' => faulty')
  <2>1. error \in BOOLEAN /\ faulty \in BOOLEAN /\ (error => faulty) /\ faulty' = faulty
    BY DEF StoreInv
  <2>2. error' = FALSE \/ error' = faulty \/ error' = error
    BY Zenon
  <2>3. error' \in BOOLEAN /\ (error' => faulty)
    BY <2>1, <2>2, ErrorImpliesFaulty
  <2>. QED BY <2>1, <2>3
<1>2. LeftOpen' /\ InBatch'
  BY Zenon DEF LeftOpen, InBatch
<1>. QED BY <1>1, <1>2 DEF StoreInv

LEMMA CallKeeps ==
  ASSUME StoreInv, Idle, UNCHANGED <<faulty, batch>>,
         \/ UNCHANGED <<durable, txn, error>>
         \/ UNCHANGED <<durable, txn>> /\ faulty /\ error' = TRUE
         \/ /\ ok /\ UNCHANGED error
            /\ \E m : Table(m) /\ IsMap(m) /\ Write(m)
  PROVE  StoreInv'
<1>1. Idle'
  BY DEF Idle
<1>2. CASE UNCHANGED <<durable, txn, error>>
  BY <1>1, <1>2, ReturnKeeps DEF StoreInv, LeftOpen
<1>3. CASE UNCHANGED <<durable, txn>> /\ faulty /\ error' = TRUE
  BY <1>1, <1>3, ReturnKeeps DEF StoreInv, LeftOpen
<1>4. CASE ok /\ UNCHANGED error /\ \E m : Table(m) /\ IsMap(m) /\ Write(m)
  <2>1. PICK m : Table(m) /\ IsMap(m) /\ Write(m)
    BY <1>4
  <2>2. txn = NoTxn
    BY <1>4, NothingOpen
  <2>3. durable' = m /\ txn' = NoTxn
    BY <2>1, <2>2 DEF Write
  <2>. QED BY <1>1, <1>4, <2>1, <2>3, ReturnKeeps
<1>. QED BY <1>2, <1>3, <1>4

LEMMA PutKeeps ==
  ASSUME StoreInv, NEW k \in Keys, NEW v \in Values, Put(k, v), UNCHANGED faulty
  PROVE  StoreInv'
<1>1. Idle /\ UNCHANGED batch
  BY DEF Put
<1>2. ASSUME ~Refused(k), Write(Kv!With(View, k, v)), UNCHANGED error PROVE StoreInv'
  <2>1. ok /\ k \in Keys \ {Kv!Empty} /\ View = durable
    BY <1>1, <1>2, NothingOpen DEF Refused
  <2>2. Table(Kv!With(View, k, v)) /\ IsMap(Kv!With(View, k, v))
    BY <2>1, WriteKeepsTable DEF StoreInv
  <2>. QED BY <1>1, <1>2, <2>1, <2>2, CallKeeps
<1>. QED BY <1>1, <1>2, CallKeeps DEF Put

LEMMA EraseKeeps ==
  ASSUME StoreInv, NEW k \in Keys, Erase(k), UNCHANGED faulty
  PROVE  StoreInv'
<1>1. Idle /\ UNCHANGED batch
  BY DEF Erase
<1>2. ASSUME ~Refused(k), Write(Kv!Without(View, k)), UNCHANGED error PROVE StoreInv'
  <2>1. ok /\ View = durable
    BY <1>1, <1>2, NothingOpen DEF Refused
  <2>2. Table(Kv!Without(View, k)) /\ IsMap(Kv!Without(View, k))
    BY <2>1 DEF StoreInv, Table, IsMap, Kv!Without
  <2>. QED BY <1>1, <1>2, <2>1, <2>2, CallKeeps
<1>. QED BY <1>1, <1>2, CallKeeps DEF Erase

LEMMA AbortKeeps ==
  ASSUME StoreInv, ~Idle, faulty, AbortBatch, UNCHANGED faulty
  PROVE  StoreInv'
<1>1. Idle' /\ error' = TRUE /\ UNCHANGED durable /\ txn' \in {NoTxn, txn}
  BY DEF AbortBatch, Rollback, Idle
<1>2. Table(txn)
  BY DEF StoreInv, InBatch, Executing
<1>. QED BY <1>1, <1>2, ReturnKeeps DEF StoreInv

LEMMA BeginKeeps ==
  ASSUME StoreInv, NEW ops \in Batches, BatchBegin(ops), UNCHANGED faulty
  PROVE  StoreInv'
<1>1. Idle /\ UNCHANGED durable
  BY DEF BatchBegin
<1>2. CASE UNCHANGED <<txn, batch, error>>
  BY <1>1, <1>2, CallKeeps
<1>3. CASE ok /\ (faulty \/ txn # NoTxn) /\ error' = TRUE /\ UNCHANGED <<txn, batch>>
  <2>1. faulty
    BY <1>1, <1>3, NothingOpen
  <2>. QED BY <1>1, <1>3, <2>1, CallKeeps
<1>4. CASE /\ ok /\ \A i \in DOMAIN ops : ops[i].key # Kv!Empty
           /\ txn' = durable /\ batch' = ops /\ UNCHANGED error
  <2>1. Len(ops) \in Nat /\ SubSeq(ops, 1, Len(ops)) = ops
    BY BatchesAssumption, SubSeqFull
  <2>2. Executing(ops, 0)'
    BY <1>1, <1>4, <2>1, AfterRuns DEF Executing, StoreInv
  <2>3. 0 \in 0..Len(ops)
    BY <2>1
  <2>4. InBatch'
    BY <2>2, <2>3 DEF InBatch
  <2>5. ~Idle'
    BY <1>4, BatchesAssumption, NoBatchAssumption DEF Idle
  <2>. QED BY <1>1, <1>4, <2>4, <2>5 DEF StoreInv, LeftOpen
<1>. QED BY <1>2, <1>3, <1>4 DEF BatchBegin

(* One operation of the batch takes the transaction one step along After. *)
LEMMA OneOperation ==
  ASSUME NEW ops \in Batches, NEW n \in 0..Len(ops), Executing(ops, n), batch # <<>>
  PROVE  /\ n + 1 \in 0..Len(ops) /\ n + 1 \in DOMAIN ops /\ Head(batch) = ops[n + 1]
         /\ Tail(batch) = SubSeq(ops, n + 2, Len(ops))
         /\ After(durable, ops)[n + 1] = Kv!Apply(txn, ops[n + 1])
<1>. DEFINE Op == [key : Keys, value : Values \cup {Absent}]
<1>1. ops \in Seq(Op)
  BY BatchesAssumption
<1>. HIDE DEF Op
<1>2. batch = SubSeq(ops, n + 1, Len(ops)) /\ txn = After(durable, ops)[n]
  BY DEF Executing
<1>3. n < Len(ops)
  <2>. SUFFICES ASSUME n = Len(ops) PROVE FALSE
    BY <1>1
  <2>1. batch = <<>>
    BY <1>1, <1>2
  <2>. QED BY <2>1
<1>4. n \in Nat /\ Len(ops) \in Nat /\ n + 1 \in 1..Len(ops) /\ n + 1 \in 0..Len(ops)
  BY <1>1, <1>3
<1>5. n + 1 \in DOMAIN ops
  BY <1>1, <1>4
<1>6. Head(batch) = ops[n + 1]
  BY <1>1, <1>2, <1>4
<1>7. Tail(batch) = SubSeq(ops, n + 2, Len(ops))
  BY <1>1, <1>2, <1>4
<1>8. After(durable, ops)[n + 1] = Kv!Apply(After(durable, ops)[(n + 1) - 1], ops[n + 1])
  BY <1>4, AfterRuns
<1>9. (n + 1) - 1 = n
  BY <1>4
<1>. QED BY <1>2, <1>4, <1>5, <1>6, <1>7, <1>8, <1>9

LEMMA StepKeeps ==
  ASSUME StoreInv, BatchStep, UNCHANGED faulty
  PROVE  StoreInv'
<1>1. ~Idle /\ batch # <<>>
  BY DEF BatchStep
<1>2. CASE faulty /\ AbortBatch
  BY <1>1, <1>2, AbortKeeps
<1>3. CASE txn' = Kv!Apply(txn, Head(batch)) /\ batch' = Tail(batch) /\ UNCHANGED <<durable, error>>
  <2>1. PICK ops \in Batches : \E n \in 0..Len(ops) : Executing(ops, n)
    BY <1>1 DEF StoreInv, InBatch
  <2>2. PICK n \in 0..Len(ops) : Executing(ops, n)
    BY <2>1
  <2>3. /\ n + 1 \in 0..Len(ops) /\ n + 1 \in DOMAIN ops /\ Head(batch) = ops[n + 1]
        /\ Tail(batch) = SubSeq(ops, n + 2, Len(ops))
        /\ After(durable, ops)[n + 1] = Kv!Apply(txn, ops[n + 1])
    BY <1>1, <2>2, OneOperation
  <2>4. ops[n + 1] \in [key : Keys, value : Values \cup {Absent}] /\ ops[n + 1].key # Kv!Empty
    <3>1. ops \in Seq([key : Keys, value : Values \cup {Absent}])
      BY BatchesAssumption
    <3>2. ops[n + 1].key # Kv!Empty
      BY <2>2, <2>3 DEF Executing
    <3>3. ops[n + 1] \in [key : Keys, value : Values \cup {Absent}]
      <4>. DEFINE Op == [key : Keys, value : Values \cup {Absent}]
      <4>1. ops \in Seq(Op)
        BY <3>1
      <4>. HIDE DEF Op
      <4>2. ops[n + 1] \in Op
        BY <2>3, <4>1
      <4>. QED BY <4>2 DEF Op
    <3>. QED BY <3>2, <3>3
  <2>5. Table(txn') /\ IsMap(txn')
    BY <1>3, <2>2, <2>3, <2>4, ApplyKeepsTable DEF Executing
  <2>6. (n + 1) + 1 = n + 2
    OBVIOUS
  <2>7. Executing(ops, n + 1)'
    BY <1>3, <2>2, <2>3, <2>5, <2>6 DEF Executing
  <2>8. ~Idle'
    <3>1. ops \in Seq([key : Keys, value : Values \cup {Absent}])
      BY BatchesAssumption
    <3>2. SubSeq(ops, n + 2, Len(ops)) \in Seq([key : Keys, value : Values \cup {Absent}])
      <4>. DEFINE Op == [key : Keys, value : Values \cup {Absent}]
      <4>. HIDE DEF Op
      <4>. SUFFICES SubSeq(ops, n + 2, Len(ops)) \in Seq(Op)
        BY DEF Op
      <4>1. ops \in Seq(Op)
        BY <3>1 DEF Op
      <4>. QED BY <4>1
    <3>. QED BY <1>3, <2>3, <3>2, NoBatchAssumption DEF Idle
  <2>9. InBatch'
    BY <2>3, <2>7 DEF InBatch
  <2>. QED BY <1>3, <2>8, <2>9 DEF StoreInv, LeftOpen
<1>. QED BY <1>2, <1>3 DEF BatchStep

LEMMA CommitKeeps ==
  ASSUME StoreInv, BatchCommit, UNCHANGED faulty
  PROVE  StoreInv'
<1>1. ~Idle
  BY DEF BatchCommit
<1>2. CASE faulty /\ AbortBatch
  BY <1>1, <1>2, AbortKeeps
<1>3. CASE durable' = txn /\ txn' = NoTxn /\ batch' = NoBatch /\ UNCHANGED error
  <2>1. Table(txn) /\ IsMap(txn)
    BY <1>1 DEF StoreInv, InBatch, Executing
  <2>2. Idle'
    BY <1>3 DEF Idle
  <2>. QED BY <1>3, <2>1, <2>2, ReturnKeeps
<1>. QED BY <1>2, <1>3 DEF BatchCommit

LEMMA NextKeeps == StoreInv /\ [Next]_vars => StoreInv'
<1>. SUFFICES ASSUME StoreInv, [Next]_vars PROVE StoreInv'
  OBVIOUS
<1>1. CASE UNCHANGED vars
  <2>1. UNCHANGED <<durable, txn, batch, error, faulty>>
    BY <1>1 DEF vars
  <2>. QED BY <2>1 DEF StoreInv, LeftOpen, InBatch, Executing, Idle
<1>2. CASE Next
  <2>0. UNCHANGED faulty
    BY <1>2 DEF Next
  <2>1. ASSUME NEW k \in Keys, Get(k) PROVE StoreInv'
    BY <2>0, <2>1, CallKeeps DEF Get
  <2>2. ASSUME NEW p \in Keys, NEW stop \in BOOLEAN, ScanPrefix(p, stop) PROVE StoreInv'
    BY <2>0, <2>2, CallKeeps DEF ScanPrefix
  <2>3. CASE Reopen
    <3>1. Idle' /\ txn' = NoTxn /\ UNCHANGED durable /\ error' \in {FALSE, faulty}
      BY <2>3 DEF Reopen, Idle
    <3>. QED BY <2>0, <3>1, ReturnKeeps DEF StoreInv
  <2>. QED BY <1>2, <2>0, <2>1, <2>2, <2>3, PutKeeps, EraseKeeps, BeginKeeps, StepKeeps,
              CommitKeeps DEF Next, Call
<1>. QED BY <1>1, <1>2

(* The invariant holds in every reachable state of the store. *)
THEOREM StoreInvHolds == Spec => []StoreInv
BY InitStore, NextKeeps, PTL DEF Spec

(* The table in the file, and a transaction's view of it, only ever hold   *)
(* non-empty keys and whole values.                                        *)
THEOREM StoreTypeCorrect == Spec => []TypeOK
<1>1. StoreInv => TypeOK
  BY DEF StoreInv, TypeOK, LeftOpen, InBatch, Executing
<1>. QED BY <1>1, StoreInvHolds, PTL

-----------------------------------------------------------------------------
LEMMA PutMaps ==
  ASSUME StoreInv, NEW k \in Keys, NEW v \in Values, Put(k, v)
  PROVE  Kv!Put(k, v)
<1>1. CASE UNCHANGED durable /\ Reply("put", FALSE) /\ (Refused(k) \/ faulty)
  BY <1>1 DEF StoreInv, Refused, ok, Reply, Kv!Put
<1>2. CASE ~Refused(k) /\ Write(Kv!With(View, k, v)) /\ Reply("put", TRUE)
  <2>1. txn = NoTxn /\ View = durable
    BY <1>2, NothingOpen DEF Put, Refused
  <2>. QED BY <1>2, <2>1 DEF Refused, Write, Reply, Kv!Put
<1>. QED BY <1>1, <1>2 DEF Put

LEMMA GetMaps ==
  ASSUME StoreInv, NEW k \in Keys, Get(k)
  PROVE  Kv!Get(k)
<1>1. UNCHANGED durable
  BY DEF Get
<1>2. PICK v \in (IF Refused(k) THEN {} ELSE {Kv!Lookup(View, k)})
                  \cup (IF Refused(k) \/ faulty THEN {Absent} ELSE {}) :
         reply' = [op |-> "get", value |-> v]
  BY DEF Get
<1>3. CASE ~Refused(k) /\ v = Kv!Lookup(View, k)
  <2>1. View = durable
    BY <1>3, NothingOpen DEF Get, Refused
  <2>. QED BY <1>1, <1>2, <1>3, <2>1 DEF Kv!Get
<1>4. CASE (Refused(k) \/ faulty) /\ v = Absent
  <2>1. CASE faulty
    BY <1>1, <1>2, <1>4, <2>1 DEF Kv!Get
  <2>2. CASE ~faulty
    <3>1. k \notin DOMAIN durable
      BY <1>4, <2>2 DEF Refused, ok, StoreInv, Table
    <3>2. v = Kv!Lookup(durable, k)
      BY <1>4, <3>1 DEF Kv!Lookup
    <3>. QED BY <1>1, <1>2, <3>2 DEF Kv!Get
  <2>. QED BY <2>1, <2>2
<1>. QED BY <1>2, <1>3, <1>4

LEMMA EraseMaps ==
  ASSUME StoreInv, NEW k \in Keys, Erase(k)
  PROVE  Kv!Erase(k)
<1>1. CASE UNCHANGED durable /\ Reply("erase", FALSE) /\ (Refused(k) \/ faulty)
  <2>1. k \notin DOMAIN durable \/ faulty
    BY <1>1 DEF StoreInv, Refused, ok, Table
  <2>. QED BY <1>1, <2>1 DEF Reply, Kv!Erase
<1>2. CASE ~Refused(k) /\ Write(Kv!Without(View, k)) /\ Reply("erase", k \in DOMAIN View)
  <2>1. txn = NoTxn /\ View = durable
    BY <1>2, NothingOpen DEF Erase, Refused
  <2>2. durable' = Kv!Without(durable, k)
    BY <1>2, <2>1 DEF Write
  <2>3. CASE k \in DOMAIN durable
    <3>1. reply' = [op |-> "erase", ok |-> TRUE]
      BY <1>2, <2>1, <2>3 DEF Reply
    <3>. QED BY <2>2, <2>3, <3>1 DEF Kv!Erase
  <2>4. CASE k \notin DOMAIN durable
    <3>1. reply' = [op |-> "erase", ok |-> FALSE]
      <4>1. (k \in DOMAIN View) = FALSE
        BY <2>1, <2>4
      <4>. QED BY <1>2, <4>1, Zenon DEF Reply
    <3>2. durable' = durable
      BY <2>2, <2>4, EraseAbsent DEF StoreInv
    <3>. QED BY <2>4, <3>1, <3>2 DEF Kv!Erase
  <2>. QED BY <2>3, <2>4
<1>. QED BY <1>1, <1>2 DEF Erase

LEMMA ScanMaps ==
  ASSUME StoreInv, NEW p \in Keys, NEW stop \in BOOLEAN, ScanPrefix(p, stop)
  PROVE  Kv!ScanPrefix(p, stop)
<1>. DEFINE rows == IF ok THEN {k \in DOMAIN View : InRange(k, p)} ELSE {}
            hits == {k \in DOMAIN durable : Kv!IsPrefixOf(p, k)}
<1>1. PICK seen \in Kv!Visits(rows) :
           /\ seen = rows \/ stop \/ faulty
           /\ reply' = [op |-> "scan", prefix |-> p, stop |-> stop, seen |-> seen]
  BY DEF ScanPrefix
<1>2. UNCHANGED durable
  BY DEF ScanPrefix
<1>3. CASE ok
  <2>1. View = durable
    BY <1>3, NothingOpen DEF ScanPrefix
  <2>2. \A k \in DOMAIN durable : InRange(k, p) <=> Kv!IsPrefixOf(p, k)
    BY RangeIsPrefix, KeysAssumption DEF StoreInv, Table
  <2>3. rows = hits
    BY <1>3, <2>1, <2>2
  <2>. HIDE DEF rows
  <2>. QED BY <1>1, <1>2, <2>3 DEF Kv!ScanPrefix
<1>4. CASE ~ok
  <2>1. faulty /\ rows = {}
    BY <1>4 DEF StoreInv, ok
  <2>2. seen \in Kv!Visits(hits)
    BY <1>1, <2>1 DEF Kv!Visits
  <2>. HIDE DEF rows
  <2>. QED BY <1>1, <1>2, <2>1, <2>2 DEF Kv!ScanPrefix
<1>. QED BY <1>3, <1>4
LEMMA BatchRefused ==
  ASSUME StoreInv, faulty, UNCHANGED durable, Reply("batch", FALSE), NEW ops
  PROVE  Kv!ApplyBatch(ops)
BY DEF Reply, Kv!ApplyBatch

LEMMA AbortMaps ==
  ASSUME StoreInv, ~Idle, faulty, AbortBatch
  PROVE  \E ops \in Batches : Kv!ApplyBatch(ops)
<1>1. PICK ops \in Batches : \E n \in 0..Len(ops) : Executing(ops, n)
  BY DEF StoreInv, InBatch
<1>. QED BY <1>1, BatchRefused DEF AbortBatch

LEMMA BeginMaps ==
  ASSUME StoreInv, NEW ops \in Batches, BatchBegin(ops)
  PROVE  Kv!ApplyBatch(ops) \/ UNCHANGED <<durable, reply>>
<1>1. Idle /\ UNCHANGED durable
  BY DEF BatchBegin
<1>2. CASE /\ ~ok \/ \E i \in DOMAIN ops : ops[i].key = Kv!Empty
           /\ Reply("batch", FALSE)
  BY <1>1, <1>2 DEF Reply, ok, StoreInv, Kv!ApplyBatch
<1>3. CASE ok /\ (faulty \/ txn # NoTxn) /\ Reply("batch", FALSE)
  <2>1. faulty
    BY <1>1, <1>3, NothingOpen
  <2>. QED BY <1>1, <1>3, <2>1, BatchRefused
<1>. QED BY <1>1, <1>2, <1>3 DEF BatchBegin

LEMMA StepMaps ==
  ASSUME StoreInv, BatchStep
  PROVE  (\E ops \in Batches : Kv!ApplyBatch(ops)) \/ UNCHANGED <<durable, reply>>
BY AbortMaps DEF BatchStep

(* COMMIT publishes exactly the whole batch. *)
LEMMA CommitMaps ==
  ASSUME StoreInv, BatchCommit
  PROVE  \E ops \in Batches : Kv!ApplyBatch(ops)
<1>1. ~Idle /\ batch = <<>>
  BY DEF BatchCommit
<1>2. CASE faulty /\ AbortBatch
  BY <1>1, <1>2, AbortMaps
<1>3. CASE durable' = txn /\ Reply("batch", TRUE)
  <2>1. PICK ops \in Batches : \E n \in 0..Len(ops) : Executing(ops, n)
    BY <1>1 DEF StoreInv, InBatch
  <2>2. PICK n \in 0..Len(ops) : Executing(ops, n)
    BY <2>1
  <2>3. Len(ops) \in Nat
    BY BatchesAssumption
  <2>4. n = Len(ops)
    <3>. DEFINE Op == [key : Keys, value : Values \cup {Absent}]
    <3>1. ops \in Seq(Op)
      BY BatchesAssumption
    <3>. HIDE DEF Op
    <3>2. SubSeq(ops, n + 1, Len(ops)) = <<>>
      BY <1>1, <2>2 DEF Executing
    <3>3. n < Len(ops) => Len(SubSeq(ops, n + 1, Len(ops))) = Len(ops) - n
      BY <2>3, <3>1
    <3>4. ~(n < Len(ops))
      <4>. SUFFICES ASSUME n < Len(ops) PROVE FALSE
        OBVIOUS
      <4>1. Len(<<>>) = Len(ops) - n
        BY <3>2, <3>3
      <4>. QED BY <2>3, <4>1
    <3>. QED BY <2>3, <3>4
  <2>5. txn = Kv!ApplyAll(durable, ops)
    BY <2>2, <2>3, <2>4, AfterRuns DEF Executing
  <2>6. \A i \in DOMAIN ops : ops[i].key # Kv!Empty
    BY <2>2 DEF Executing
  <2>7. Kv!ApplyBatch(ops)
    BY <1>3, <2>5, <2>6 DEF Reply, Kv!ApplyBatch
  <2>. QED BY <2>7
<1>. QED BY <1>2, <1>3 DEF BatchCommit

LEMMA NextMaps == StoreInv /\ [Next]_vars => [Kv!Next]_(Kv!vars)
<1>. SUFFICES ASSUME StoreInv, [Next]_vars PROVE [Kv!Next]_(Kv!vars)
  OBVIOUS
<1>1. CASE UNCHANGED vars
  BY <1>1 DEF vars, Kv!vars
<1>2. CASE Next
  <2>0. UNCHANGED faulty
    BY <1>2 DEF Next
  <2>1. CASE UNCHANGED <<durable, reply>>
    BY <2>0, <2>1 DEF Kv!vars
  <2>2. ASSUME Kv!Call PROVE [Kv!Next]_(Kv!vars)
    BY <2>0, <2>2 DEF Kv!Next
  <2>3. CASE Reopen
    <3>1. Kv!Reopen
      BY <2>3 DEF Reopen, Kv!Reopen
    <3>. QED BY <2>2, <3>1 DEF Kv!Call
  <2>4. ASSUME NEW k \in Keys, NEW v \in Values, Put(k, v) PROVE Kv!Call
    BY <2>4, PutMaps DEF Kv!Call
  <2>5. ASSUME NEW k \in Keys, Get(k) \/ Erase(k) PROVE Kv!Call
    BY <2>5, GetMaps, EraseMaps DEF Kv!Call
  <2>6. ASSUME NEW p \in Keys, NEW stop \in BOOLEAN, ScanPrefix(p, stop) PROVE Kv!Call
    BY <2>6, ScanMaps DEF Kv!Call
  <2>7. ASSUME NEW ops \in Batches, BatchBegin(ops) PROVE Kv!Call \/ UNCHANGED <<durable, reply>>
    BY <2>7, BeginMaps DEF Kv!Call
  <2>8. CASE BatchStep
    BY <2>1, <2>2, <2>8, StepMaps DEF Kv!Call
  <2>9. CASE BatchCommit
    BY <2>2, <2>9, CommitMaps DEF Kv!Call
  <2>. QED BY <1>2, <2>1, <2>2, <2>3, <2>4, <2>5, <2>6, <2>7, <2>8, <2>9 DEF Next, Call
<1>. QED BY <1>1, <1>2

(* sqlite_store.cpp keeps the promise of store.hpp: with calls failing and *)
(* the process dying anywhere, a batch is in the file whole or not at all, *)
(* what was acknowledged is in the file, and a scan sees the keys with the *)
(* prefix, in order.                                                       *)
THEOREM SqliteImplementsKvStore == Spec => ImplementsKvStore
<1>1. Init => Kv!Init
  BY DEF Init, Kv!Init
<1>. QED BY <1>1, NextMaps, StoreInvHolds, PTL DEF Spec, ImplementsKvStore, Kv!Spec
=============================================================================
