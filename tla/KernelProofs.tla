---------------------------- MODULE KernelProofs ----------------------------
(***************************************************************************)
(* The safety of the running kernel, for every task table, number of       *)
(* tasks, quantum and width of the tick counter.  First what each operator *)
(* of the scheduler promises (it takes a state in which the scheduler's    *)
(* tables agree to another one), then the invariant of the kernel and the  *)
(* theorems that rest on it.                                               *)
(***************************************************************************)
EXTENDS Kernel, TLAPS, FiniteSetTheorems

-----------------------------------------------------------------------------
(* Numbers *)

\* A nonempty set of naturals has a least element.
LEMMA NatMin ==
  ASSUME NEW S \in SUBSET Nat, S # {}
  PROVE  \E x \in S : \A y \in S : x <= y
<1>1. PICK x \in S : \A y \in S : ~(<<y, x>> \in OpToRel(<, Nat))
  BY WFMin, NatLessThanWellFounded, Zenon
<1>2. ASSUME NEW y \in S, y < x
      PROVE  <<y, x>> \in OpToRel(<, Nat)
  BY <1>2, Zenon DEF OpToRel
<1>3. \A y \in S : ~(y < x)
  BY <1>1, <1>2, Zenon
<1> QED
  BY <1>3

\* A nonempty bounded set of naturals has a greatest element.
LEMMA NatMax ==
  ASSUME NEW b \in Nat, NEW S \in SUBSET (0 .. b), S # {}
  PROVE  \E x \in S : \A y \in S : x >= y
<1> DEFINE D == {d \in 0 .. b : b - d \in S}
<1>1. D # {} /\ D \in SUBSET Nat
  <2>1. PICK y \in S : TRUE
    BY Zenon
  <2>2. b - y \in D
    OBVIOUS
  <2> QED
    BY <2>2
<1>2. \A y \in S : b - y \in D /\ y \in Int
  OBVIOUS
<1>3. \A d \in D : b - d \in S /\ d \in Int
  OBVIOUS
<1> HIDE DEF D
<1>4. PICK d \in D : \A e \in D : d <= e
  BY <1>1, NatMin
<1>5. \A y \in S : d <= b - y /\ y \in Int
  BY <1>2, <1>4
<1> QED
  BY <1>3, <1>5

\* Max of the library returns a greatest element of a bounded set.
LEMMA MaxProperty ==
  ASSUME NEW b \in Nat, NEW S \in SUBSET (0 .. b), S # {}
  PROVE  Max(S) \in S /\ \A y \in S : Max(S) >= y
BY NatMax, Zenon DEF Max

\* The MIP is joined two values at a time.
LEMMA MaxOfTwo ==
  ASSUME NEW a \in Int, NEW b \in Int
  PROVE  Max({a, b}) = IF a >= b THEN a ELSE b
<1> DEFINE m == IF a >= b THEN a ELSE b
<1>1. m \in {a, b} /\ \A y \in {a, b} : m >= y
  OBVIOUS
<1>2. \A x \in {a, b} : (\A y \in {a, b} : x >= y) => x = m
  OBVIOUS
<1> HIDE DEF m
<1>3. Max({a, b}) = m
  BY <1>1, <1>2 DEF Max
<1> QED
  BY <1>3 DEF m

\* Min of the library returns a least element of a set of naturals.
LEMMA MinProperty ==
  ASSUME NEW S \in SUBSET Nat, S # {}
  PROVE  Min(S) \in S /\ \A y \in S : Min(S) <= y
BY NatMin, Zenon DEF Min

-----------------------------------------------------------------------------
(* Sequences without repetition *)

\* The two parts of a queue that is not empty.
LEMMA SeqHeadTail ==
  ASSUME NEW T, NEW q \in Seq(T), q # <<>>
  PROVE  Head(q) \in T /\ Tail(q) \in Seq(T) /\ Len(Tail(q)) = Len(q) - 1
OBVIOUS

\* The sequence q over T holds exactly the elements of S, each once.
Lists(T, q, S) == q \in Seq(T) /\ IsInjective(q) /\ Range(q) = S

\* Such a sequence is not longer than there are elements.
LEMMA ListsFit ==
  ASSUME NEW T, IsFiniteSet(T), NEW q, NEW S, Lists(T, q, S)
  PROVE  Len(q) <= Cardinality(T) /\ Cardinality(T) \in Nat
<1>1. q \in [1 .. Len(q) -> T] /\ Len(q) \in Nat /\ IsInjective(q)
  BY DEF Lists
<1>2. q \in Injection(1 .. Len(q), T)
  BY <1>1 DEF Injection
<1>3. Cardinality(1 .. Len(q)) <= Cardinality(T)
  BY <1>2, FS_Injection, Zenon
<1>4. Cardinality(1 .. Len(q)) = Len(q)
  <2>1. 1 \in Int /\ Len(q) \in Int
    BY <1>1
  <2>2. Cardinality(1 .. Len(q)) = IF 1 > Len(q) THEN 0 ELSE Len(q) - 1 + 1
    BY <2>1, FS_Interval, Zenon
  <2> QED
    BY <1>1, <2>2
<1> QED
  BY <1>3, <1>4, FS_CardinalityType

\* The queue is empty exactly when it lists nobody.
LEMMA ListsEmpty ==
  ASSUME NEW T, NEW q, NEW S, Lists(T, q, S)
  PROVE  S \subseteq T /\ (q = <<>> <=> S = {})
<1>1. q \in Seq(T) /\ Range(q) = {q[i] : i \in 1 .. Len(q)} /\ Len(q) \in Nat
  BY DEF Lists, Range
<1>2. Range(q) \subseteq T
  BY <1>1
<1>3. q # <<>> => q[1] \in Range(q)
  BY <1>1
<1>4. q = <<>> => Range(q) = {}
  BY <1>1
<1> QED
  BY <1>2, <1>3, <1>4 DEF Lists

\* A queue of one entry.
LEMMA ListsSingleton ==
  ASSUME NEW T, NEW t \in T
  PROVE  Lists(T, <<t>>, {t})
BY DEF Lists, IsInjective, Range

\* Queues of disjoint sets of tasks, one after the other.
LEMMA ListsConcat ==
  ASSUME NEW T, NEW p, NEW q, NEW A, NEW B, Lists(T, p, A), Lists(T, q, B), A \cap B = {}
  PROVE  Lists(T, p \o q, A \cup B)
<1>1. p \in Seq(T) /\ q \in Seq(T)
  BY DEF Lists
<1>2. /\ p \o q \in Seq(T)
      /\ Len(p \o q) = Len(p) + Len(q)
      /\ \A i \in 1 .. Len(p) + Len(q) :
           (p \o q)[i] = IF i <= Len(p) THEN p[i] ELSE q[i - Len(p)]
  BY <1>1
<1>3. Len(p) \in Nat /\ Len(q) \in Nat /\ DOMAIN (p \o q) = 1 .. (Len(p) + Len(q))
  BY <1>1, <1>2
<1>4. Range(p \o q) = A \cup B
  <2>1. A = {p[i] : i \in 1 .. Len(p)} /\ B = {q[i] : i \in 1 .. Len(q)}
    BY <1>1 DEF Lists, Range
  <2>2. ASSUME NEW i \in 1 .. (Len(p) + Len(q))
        PROVE  (p \o q)[i] \in A \cup B
    BY <1>2, <1>3, <2>1
  <2>3. \A i \in 1 .. Len(p) : (p \o q)[i] = p[i] /\ i \in DOMAIN (p \o q)
    BY <1>2, <1>3
  <2>4. \A i \in 1 .. Len(q) :
          (p \o q)[i + Len(p)] = q[i] /\ i + Len(p) \in DOMAIN (p \o q)
    BY <1>2, <1>3
  <2>5. A \subseteq Range(p \o q) /\ B \subseteq Range(p \o q)
    BY <2>1, <2>3, <2>4, Zenon DEF Range
  <2> QED
    BY <1>3, <2>2, <2>5 DEF Range
<1>5. \A i, j \in 1 .. Len(p) : p[i] = p[j] => i = j
  BY <1>1 DEF Lists, IsInjective
<1>6. \A i, j \in 1 .. Len(q) : q[i] = q[j] => i = j
  BY <1>1 DEF Lists, IsInjective
<1>7. \A i \in 1 .. Len(p), j \in 1 .. Len(q) : p[i] # q[j]
  <2>1. \A i \in 1 .. Len(p) : p[i] \in A
    BY <1>1 DEF Lists, Range
  <2>2. \A j \in 1 .. Len(q) : q[j] \in B
    BY <1>1 DEF Lists, Range
  <2> QED
    BY <2>1, <2>2
<1>8. ASSUME NEW i \in 1 .. (Len(p) + Len(q)), NEW j \in 1 .. (Len(p) + Len(q)),
             (p \o q)[i] = (p \o q)[j]
      PROVE  i = j
  <2>1. CASE i <= Len(p) /\ j <= Len(p)
    BY <1>2, <1>3, <1>5, <1>8, <2>1
  <2>2. CASE i > Len(p) /\ j > Len(p)
    <3>1. i - Len(p) \in 1 .. Len(q) /\ j - Len(p) \in 1 .. Len(q)
      BY <1>3, <2>2
    <3>2. q[i - Len(p)] = q[j - Len(p)]
      BY <1>2, <1>3, <1>8, <2>2
    <3>3. i - Len(p) = j - Len(p)
      BY <1>6, <3>1, <3>2
    <3> QED
      BY <1>3, <3>3
  <2>3. CASE i <= Len(p) /\ j > Len(p)
    <3>1. i \in 1 .. Len(p) /\ j - Len(p) \in 1 .. Len(q)
      BY <1>3, <2>3
    <3>2. p[i] = q[j - Len(p)]
      BY <1>2, <1>3, <1>8, <2>3
    <3> QED
      BY <1>7, <3>1, <3>2
  <2>4. CASE i > Len(p) /\ j <= Len(p)
    <3>1. j \in 1 .. Len(p) /\ i - Len(p) \in 1 .. Len(q)
      BY <1>3, <2>4
    <3>2. p[j] = q[i - Len(p)]
      BY <1>2, <1>3, <1>8, <2>4
    <3> QED
      BY <1>7, <3>1, <3>2
  <2> QED
    BY <1>3, <2>1, <2>2, <2>3, <2>4
<1>9. IsInjective(p \o q)
  BY <1>3, <1>8 DEF IsInjective
<1> QED
  BY <1>2, <1>4, <1>9 DEF Lists

\* Taking an entry out, as extract_max does, takes its task off the list.
LEMMA ListsWithout ==
  ASSUME NEW T, NEW q, NEW S, Lists(T, q, S), NEW b \in DOMAIN q
  PROVE  Lists(T, Without(q, b), S \ {q[b]})
<1> DEFINE r == Without(q, b)
           old(i) == IF i < b THEN i ELSE i + 1
<1>1. /\ q \in Seq(T) /\ Len(q) \in Nat /\ DOMAIN q = 1 .. Len(q) /\ b \in 1 .. Len(q)
      /\ \A i \in 1 .. Len(q) : q[i] \in T
  BY DEF Lists
<1>2. /\ SubSeq(q, 1, b - 1) \in Seq(T)
      /\ Len(SubSeq(q, 1, b - 1)) = b - 1
      /\ \A i \in 1 .. (b - 1) : SubSeq(q, 1, b - 1)[i] = q[i]
  <2>1. b - 1 \in Int /\ 1 \in Int /\ \A i \in 1 .. (b - 1) : q[i] \in T
    BY <1>1
  <2>2. /\ SubSeq(q, 1, b - 1) \in Seq(T)
        /\ Len(SubSeq(q, 1, b - 1)) = IF 1 <= b - 1 THEN b - 1 - 1 + 1 ELSE 0
        /\ \A i \in 1 .. (b - 1 - 1 + 1) : SubSeq(q, 1, b - 1)[i] = q[1 + i - 1]
    BY <2>1
  <2> QED
    BY <1>1, <2>2
<1>3. /\ SubSeq(q, b + 1, Len(q)) \in Seq(T)
      /\ Len(SubSeq(q, b + 1, Len(q))) = Len(q) - b
      /\ \A i \in 1 .. (Len(q) - b) : SubSeq(q, b + 1, Len(q))[i] = q[b + i]
  <2>1. b + 1 \in Int /\ Len(q) \in Int /\ \A i \in (b + 1) .. Len(q) : q[i] \in T
    BY <1>1
  <2>2. /\ SubSeq(q, b + 1, Len(q)) \in Seq(T)
        /\ Len(SubSeq(q, b + 1, Len(q))) = IF b + 1 <= Len(q) THEN Len(q) - (b + 1) + 1 ELSE 0
        /\ \A i \in 1 .. (Len(q) - (b + 1) + 1) : SubSeq(q, b + 1, Len(q))[i] = q[b + 1 + i - 1]
    <3> DEFINE m == b + 1
               n == Len(q)
    <3>1. m \in Int /\ n \in Int /\ \A i \in m .. n : q[i] \in T
      BY <2>1
    <3> HIDE DEF m, n
    <3>2. /\ SubSeq(q, m, n) \in Seq(T)
          /\ Len(SubSeq(q, m, n)) = IF m <= n THEN n - m + 1 ELSE 0
          /\ \A i \in 1 .. (n - m + 1) : SubSeq(q, m, n)[i] = q[m + i - 1]
      BY <3>1
    <3> QED
      BY <3>2 DEF m, n
  <2>3. ASSUME NEW i \in 1 .. (Len(q) - b)
        PROVE  SubSeq(q, b + 1, Len(q))[i] = q[b + i]
    <3>1. i \in 1 .. (Len(q) - (b + 1) + 1) /\ b + 1 + i - 1 = b + i
      BY <1>1
    <3> QED
      BY <2>2, <3>1
  <2>4. Len(SubSeq(q, b + 1, Len(q))) = Len(q) - b
    BY <1>1, <2>2
  <2> QED
    BY <2>2, <2>3, <2>4
<1>4. /\ r \in Seq(T)
      /\ Len(r) = Len(q) - 1
      /\ \A i \in 1 .. (Len(q) - 1) : r[i] = q[old(i)]
  <2> DEFINE lo == SubSeq(q, 1, b - 1)
             hi == SubSeq(q, b + 1, Len(q))
  <2> HIDE DEF lo, hi
  <2>1. lo \in Seq(T) /\ hi \in Seq(T) /\ r = lo \o hi
    BY <1>2, <1>3 DEF lo, hi, Without
  <2>2. /\ r \in Seq(T) /\ Len(r) = Len(lo) + Len(hi)
        /\ \A i \in 1 .. Len(lo) + Len(hi) : r[i] = IF i <= Len(lo) THEN lo[i] ELSE hi[i - Len(lo)]
    BY <2>1
  <2>3. Len(lo) = b - 1 /\ Len(hi) = Len(q) - b
    BY <1>2, <1>3 DEF lo, hi
  <2>4. /\ \A i \in 1 .. (b - 1) : lo[i] = q[i]
        /\ \A i \in 1 .. (Len(q) - b) : hi[i] = q[b + i]
    BY <1>2, <1>3 DEF lo, hi
  <2> HIDE DEF r
  <2>5. ASSUME NEW i \in 1 .. (Len(q) - 1)
        PROVE  r[i] = q[old(i)]
    <3>0. i \in Int /\ b \in Int /\ Len(q) \in Int
      BY <1>1
    <3>1. CASE i < b
      <4>1. i \in 1 .. (b - 1) /\ i <= Len(lo) /\ i \in 1 .. Len(lo) + Len(hi)
        BY <1>1, <2>3, <3>1
      <4> QED
        BY <2>2, <2>4, <3>1, <4>1
    <3>2. CASE ~(i < b)
      <4>1. /\ i - Len(lo) \in 1 .. (Len(q) - b) /\ ~(i <= Len(lo)) /\ i \in 1 .. Len(lo) + Len(hi)
            /\ b + (i - Len(lo)) = i + 1
        BY <1>1, <2>3, <3>2
      <4> QED
        BY <2>2, <2>4, <3>2, <4>1, Zenon
    <3> QED
      BY <3>1, <3>2
  <2> QED
    BY <1>1, <2>2, <2>3, <2>5
<1> HIDE DEF r
<1>5. \A i, j \in 1 .. Len(q) : q[i] = q[j] => i = j
  BY <1>1 DEF Lists, IsInjective
<1>6. DOMAIN r = 1 .. (Len(q) - 1)
  BY <1>4
<1>7. ASSUME NEW i \in 1 .. (Len(q) - 1), NEW j \in 1 .. (Len(q) - 1), r[i] = r[j]
      PROVE  i = j
  <2>1. old(i) \in 1 .. Len(q) /\ old(j) \in 1 .. Len(q) /\ (old(i) = old(j) => i = j)
    BY <1>1
  <2> QED
    BY <1>4, <1>5, <1>7, <2>1
<1>8. Range(r) = S \ {q[b]}
  <2>1. S = {q[i] : i \in 1 .. Len(q)}
    BY <1>1 DEF Lists, Range
  <2>2. Range(r) = {r[i] : i \in 1 .. (Len(q) - 1)}
    BY <1>4 DEF Range
  <2>3. ASSUME NEW i \in 1 .. (Len(q) - 1)
        PROVE  r[i] \in S \ {q[b]}
    <3>1. old(i) \in 1 .. Len(q) /\ old(i) # b
      BY <1>1
    <3> QED
      BY <1>1, <1>4, <1>5, <2>1, <3>1
  <2>4. ASSUME NEW k \in 1 .. Len(q), k # b
        PROVE  q[k] \in Range(r)
    <3> DEFINE i == IF k < b THEN k ELSE k - 1
    <3>1. i \in 1 .. (Len(q) - 1) /\ old(i) = k
      BY <1>1, <2>4
    <3> QED
      BY <1>4, <2>2, <3>1
  <2> QED
    BY <2>1, <2>2, <2>3, <2>4
<1> QED
  BY <1>4, <1>6, <1>7, <1>8 DEF Lists, IsInjective, r

\* The scan of the registry lists a set of tasks, each once.
LEMMA SlotOrderLists ==
  ASSUME NEW T, T \subseteq Nat, IsFiniteSet(T), NEW W \in SUBSET T
  PROVE  Lists(T, SlotOrder(W), W)
<1> DEFINE N == Cardinality(W)
           upto(t) == {u \in W : u <= t}
           pos == [t \in W |-> Cardinality(upto(t))]
<1>1. IsFiniteSet(W) /\ N \in Nat /\ W \subseteq Int
  <2>1. IsFiniteSet(W)
    BY FS_Subset, Zenon
  <2>2. N \in Nat
    BY <2>1, FS_CardinalityType, Zenon
  <2>3. W \subseteq Int
    OBVIOUS
  <2> QED
    BY <2>1, <2>2, <2>3
<1>2. ASSUME NEW t \in W
      PROVE  IsFiniteSet(upto(t)) /\ pos[t] = Cardinality(upto(t)) /\ pos[t] \in 1 .. N
  <2>1. upto(t) \in SUBSET W /\ t \in upto(t)
    BY <1>1
  <2>2. IsFiniteSet(upto(t)) /\ Cardinality(upto(t)) <= N /\ Cardinality(upto(t)) \in Nat
    BY <1>1, <2>1, FS_Subset, FS_CardinalityType
  <2>3. Cardinality(upto(t)) # 0
    BY <2>1, <2>2, FS_EmptySet
  <2>4. Cardinality(upto(t)) \in 1 .. N
    BY <1>1, <2>2, <2>3
  <2> QED
    BY <2>2, <2>4
<1>3. ASSUME NEW t \in W, NEW u \in W, t < u
      PROVE  pos[t] < pos[u]
  <2>1. upto(t) \in SUBSET upto(u) /\ u \in upto(u) /\ u \notin upto(t)
    <3>1. t \in Int /\ u \in Int /\ u <= u /\ ~(u <= t)
      BY <1>1, <1>3
    <3>2. \A v \in W : v \in Int
      BY <1>1
    <3>3. \A v \in W : v <= t => v <= u
      BY <1>3, <3>1, <3>2
    <3> QED
      BY <3>1, <3>3, Zenon
  <2>2. pos[t] <= pos[u] /\ pos[t] # pos[u]
    BY <1>2, <2>1, FS_Subset
  <2>3. pos[t] \in Int /\ pos[u] \in Int
    BY <1>1, <1>2
  <2> QED
    BY <2>2, <2>3
<1>4. pos \in [W -> 1 .. N]
  BY <1>2
<1> HIDE DEF pos, N
<1>5. pos \in Injection(W, 1 .. N)
  <2>1. ASSUME NEW t \in W, NEW u \in W, pos[t] = pos[u]
        PROVE  t = u
    <3>1. t \in Int /\ u \in Int /\ pos[t] \in Int /\ pos[u] \in Int
      BY <1>1, <1>4
    <3>2. ~(t < u) /\ ~(u < t)
      BY <1>3, <2>1, <3>1
    <3> QED
      BY <3>1, <3>2
  <2> QED
    BY <1>4, <2>1 DEF Injection, IsInjective
<1>6. pos \in Surjection(W, 1 .. N)
  <2>1. IsFiniteSet(1 .. N) /\ Cardinality(1 .. N) = N
    <3>1. 1 \in Int /\ N \in Int
      BY <1>1
    <3>2. IsFiniteSet(1 .. N) /\ Cardinality(1 .. N) = IF 1 > N THEN 0 ELSE N - 1 + 1
      BY <3>1, FS_Interval, Zenon
    <3> QED
      BY <1>1, <3>2
  <2>2. Cardinality(W) = Cardinality(1 .. N)
    BY <2>1 DEF N
  <2> QED
    BY <1>5, <2>1, <2>2, FS_Injection, Zenon
<1> DEFINE q == [i \in 1 .. N |-> CHOOSE t \in W : pos[t] = i]
<1>7. ASSUME NEW i \in 1 .. N
      PROVE  q[i] \in W /\ pos[q[i]] = i
  <2>1. \E t \in W : pos[t] = i
    BY <1>6 DEF Surjection
  <2> QED
    BY <2>1
<1>8. q \in [1 .. N -> W]
  BY <1>7
<1> HIDE DEF q
<1>9. Range(q) = W
  <2>1. ASSUME NEW t \in W
        PROVE  pos[t] \in 1 .. N /\ q[pos[t]] = t
    BY <1>4, <1>5, <1>7, Zenon DEF Injection, IsInjective
  <2> QED
    BY <1>8, <2>1, Zenon DEF Range
<1>10. ASSUME NEW i \in 1 .. N, NEW j \in 1 .. N, i < j
       PROVE  q[i] < q[j]
  <2>1. q[i] \in Int /\ q[j] \in Int /\ i \in Int /\ j \in Int
    <3>1. q[i] \in W /\ q[j] \in W
      BY <1>7, Zenon
    <3>2. i \in Int /\ j \in Int
      BY <1>1
    <3> QED
      BY <1>1, <3>1, <3>2, Zenon
  <2>2. ~(q[j] < q[i]) /\ q[j] # q[i]
    <3>1. q[j] < q[i] => j < i
      BY <1>3, <1>7, Zenon
    <3>2. q[j] = q[i] => j = i
      BY <1>7
    <3> QED
      BY <1>10, <2>1, <3>1, <3>2
  <2> QED
    BY <2>1, <2>2
<1> DEFINE o == SlotOrder(W)
<1>11. /\ o \in [1 .. N -> W]
       /\ Range(o) = W
       /\ \A i, j \in 1 .. N : i < j => o[i] < o[j]
  BY <1>8, <1>9, <1>10, Zenon DEF SlotOrder, N
<1> HIDE DEF o
<1>12. o \in Seq(T)
  <2>1. o \in [1 .. N -> T]
    BY <1>11, Zenon
  <2> QED
    BY <1>1, <2>1
<1>13. ASSUME NEW i \in 1 .. N, NEW j \in 1 .. N, o[i] = o[j]
       PROVE  i = j
  <2>1. i \in Int /\ j \in Int /\ o[i] \in Int /\ o[j] \in Int
    <3>1. o[i] \in W /\ o[j] \in W
      BY <1>11, Zenon
    <3>2. i \in Int /\ j \in Int
      BY <1>1
    <3> QED
      BY <1>1, <3>1, <3>2, Zenon
  <2>2. ~(i < j) /\ ~(j < i)
    BY <1>11, <1>13, <2>1
  <2> QED
    BY <2>1, <2>2
<1>14. IsInjective(o)
  BY <1>11, <1>13 DEF IsInjective
<1> QED
  BY <1>11, <1>12, <1>14 DEF Lists, o

-----------------------------------------------------------------------------
(* The tick counter *)

\* The remainder of a number in the three ranges a wrapping counter needs.
LEMMA ModFacts ==
  ASSUME NEW M \in Nat, M > 0, NEW x \in Int
  PROVE  /\ x >= 0 /\ x < M => x % M = x
         /\ x >= M /\ x < 2 * M => x % M = x - M
         /\ x < 0 /\ x >= -M => x % M = x + M
OBVIOUS

\* The wrapping u32 arithmetic of the tick counters.
LEMMA TickModFacts == TickMod \in Nat /\ TickMod > 1
BY SchedulerAssumption DEF TickMod

\* Wrapping arithmetic stays within the counter.
LEMMA TickWraps ==
  ASSUME NEW x \in Int
  PROVE  x % TickMod \in Tick
BY TickModFacts DEF Tick

-----------------------------------------------------------------------------
(* Priorities *)

\* Every task reaches itself, and a priority is inherited along Reach.
LEMMA EffFacts ==
  /\ Eff \in [Task -> PriorityRange]
  /\ \A t \in Task : t \in Reach[t] /\ Reach[t] \subseteq Task
  /\ \A l \in Task : \A h \in Reach[l] : Eff[l] >= Priority[h]
<1>1. \A t \in Task : t \in Reach[t] /\ Reach[t] \subseteq Task
  BY DEF Reach, ReachFrom
<1>2. ASSUME NEW t \in Task
      PROVE  Mip[t] \in PriorityRange /\ \A h \in Reach[t] : Mip[t] >= Priority[h]
  <2> DEFINE P == {Priority[u] : u \in Reach[t]}
  <2>1. P \in SUBSET (0 .. 255) /\ P # {}
    BY <1>1, TaskTableAssumption DEF PriorityRange
  <2> HIDE DEF P
  <2>2. Max(P) \in P /\ \A y \in P : Max(P) >= y
    BY <2>1, MaxProperty, 255 \in Nat, Zenon
  <2>3. Mip[t] = Max(P)
    BY DEF Mip, P
  <2>4. \A h \in Reach[t] : Priority[h] \in P
    BY DEF P
  <2> QED
    BY <2>1, <2>2, <2>3, <2>4, Zenon DEF PriorityRange
<1>3. \A t \in Task : Priority[t] \in PriorityRange
  BY TaskTableAssumption
<1>4. PriorityRange \subseteq Int
  BY DEF PriorityRange
<1> HIDE DEF PriorityRange
<1>5. ASSUME NEW t \in Task
      PROVE  Eff[t] \in PriorityRange /\ \A h \in Reach[t] : Eff[t] >= Priority[h]
  <2>1. Mip[t] \in Int /\ Priority[t] \in Int
    BY <1>2, <1>3, <1>4, Zenon
  <2>2. \A h \in Reach[t] : Priority[h] \in Int /\ Mip[t] >= Priority[h]
    BY <1>1, <1>2, <1>3, <1>4, Zenon
  <2>3. Eff[t] = IF Mip[t] > Priority[t] THEN Mip[t] ELSE Priority[t]
    BY DEF Eff
  <2> QED
    BY <1>2, <1>3, <2>1, <2>2, <2>3
<1>6. Eff \in [Task -> PriorityRange]
  <2>1. Eff = [t \in Task |-> Eff[t]]
    BY DEF Eff
  <2> QED
    BY <1>5, <2>1
<1> QED
  BY <1>1, <1>5, <1>6

\* An effective priority is a u8; in the form the arithmetic needs.
LEMMA EffInt == \A t \in Task : Eff[t] \in Int /\ Eff[t] \in 0 .. 255
BY EffFacts DEF PriorityRange

-----------------------------------------------------------------------------
(* The ready queue *)

\* The entry that leaves the queue exists, is queued, and no queued task has
\* a higher rank.
LEMMA BestFacts ==
  ASSUME NEW q \in Seq(Task), q # <<>>
  PROVE  /\ Best(q) \in DOMAIN q
         /\ \A j \in DOMAIN q : Eff[q[j]] <= Eff[q[Best(q)]]
<1> DEFINE R == {Eff[q[i]] : i \in DOMAIN q}
<1>1. DOMAIN q \subseteq Nat /\ DOMAIN q # {} /\ \A i \in DOMAIN q : q[i] \in Task
  <2>1. DOMAIN q = 1 .. Len(q) /\ Len(q) \in Nat \ {0}
    OBVIOUS
  <2>2. \A i \in DOMAIN q : q[i] \in Task
    BY <2>1
  <2>3. 1 \in 1 .. Len(q) /\ 1 .. Len(q) \subseteq Nat
    BY <2>1
  <2> QED
    BY <2>1, <2>2, <2>3
<1>2. \A i \in DOMAIN q : Eff[q[i]] \in Int /\ Eff[q[i]] \in 0 .. 255 /\ Eff[q[i]] \in R
  BY <1>1, EffInt
<1>3. R \in SUBSET (0 .. 255) /\ R # {}
  <2>1. \A r \in R : r \in 0 .. 255
    BY <1>2, Zenon
  <2>2. R # {}
    BY <1>1, <1>2, Zenon
  <2> QED
    BY <2>1, <2>2, Zenon
<1>4. \A r \in R : r \in Int /\ \E i \in DOMAIN q : Eff[q[i]] = r
  BY <1>2
<1> HIDE DEF R
<1>5. PICK m \in R : \A y \in R : m >= y
  BY <1>3, NatMax, 255 \in Nat, Zenon
<1> DEFINE F == {i \in DOMAIN q : Eff[q[i]] = m}
<1>6. F # {} /\ F \in SUBSET Nat
  BY <1>1, <1>4, <1>5
<1>7. PICK i \in F : \A j \in F : i <= j
  <2> HIDE DEF F
  <2> QED
    BY <1>6, NatMin
<1>8. ASSUME NEW j \in DOMAIN q \ {i}
      PROVE  Outranks(Eff, q, i, j)
  <2>1. Eff[q[i]] = m /\ m \in Int /\ Eff[q[j]] \in Int /\ Eff[q[j]] <= m
    BY <1>2, <1>4, <1>5
  <2>2. i \in Int /\ j \in Int /\ i # j /\ (Eff[q[j]] = m => i <= j)
    BY <1>1, <1>7
  <2> QED
    BY <2>1, <2>2 DEF Outranks
<1>9. /\ Best(q) \in DOMAIN q
      /\ \A j \in DOMAIN q \ {Best(q)} : Outranks(Eff, q, Best(q), j)
  BY <1>8 DEF Best, BestIndex
<1>10. ASSUME NEW j \in DOMAIN q
       PROVE  Eff[q[j]] <= Eff[q[Best(q)]]
  <2>1. Eff[q[j]] \in Int /\ Eff[q[Best(q)]] \in Int
    BY <1>2, <1>9
  <2>2. j = Best(q) \/ Outranks(Eff, q, Best(q), j)
    BY <1>9
  <2> QED
    BY <2>1, <2>2 DEF Outranks
<1> QED
  BY <1>9, <1>10

\* The task table is finite: it has NumTasks slots.
LEMMA TaskFinite ==
  /\ Task \subseteq Nat
  /\ IsFiniteSet(Task)
  /\ Cardinality(Task) = NumTasks
<1>1. NumTasks \in Nat \ {0} /\ NumTasks - 1 \in Int
  BY TaskTableAssumption
<1>2. IsFiniteSet(0 .. (NumTasks - 1)) /\ Cardinality(0 .. (NumTasks - 1)) = NumTasks
  BY <1>1, FS_Interval
<1> QED
  BY <1>1, <1>2 DEF Task

-----------------------------------------------------------------------------
(* The scheduler's operations *)

\* The tasks that ought to be queued.
ReadySet(s) == {t \in Task : s.state[t] = "Ready"}

\* The tables agree, whoever is running.
Consistent(s) ==
  /\ s \in SchedulerState
  /\ Lists(Task, s.rq, ReadySet(s))
  /\ \A t \in Task : s.state[t] = "Blocked" <=> s.blockedOn[t] # NotBlocked
  /\ \A t \in Task : s.saved[t] = t

\* As a trap handler finds and leaves it: one task runs, with its own context.
Settled(s) ==
  /\ Consistent(s)
  /\ \A t \in Task : s.state[t] = "Running" <=> t = s.cur
  /\ s.frame = s.cur
  /\ s.region = s.cur

\* As dispatch_next finds it: the running task has been queued or blocked.
Parked(s) == Consistent(s) /\ \A t \in Task : s.state[t] # "Running"

\* No runnable task outranks the current one.
Highest(s) == \A t \in Task : s.state[t] # "Blocked" => Eff[t] <= Eff[s.cur]

\* s and r agree on everything but the queue, the states and the waits.
SameContext(s, r) ==
  /\ r.cur = s.cur /\ r.since = s.since /\ r.wakeAt = s.wakeAt /\ r.saved = s.saved
  /\ r.frame = s.frame /\ r.region = s.region /\ r.halt = s.halt

\* The types of the fields, one by one.
LEMMA StateFields ==
  ASSUME NEW s, s \in SchedulerState
  PROVE  /\ s.cur \in Task /\ s.since \in Tick /\ s.frame \in Task /\ s.region \in Task
         /\ s.state \in [Task -> {"Ready", "Running", "Blocked"}]
         /\ s.blockedOn \in [Task -> Reason] /\ s.wakeAt \in [Task -> Tick]
         /\ s.rq \in Seq(Task) /\ s.saved \in [Task -> Task] /\ s.halt \in HaltCause
BY DEF SchedulerState

\* A queue without repetition never meets the capacity assertion of insert.
LEMMA InsertFits ==
  ASSUME NEW s, s \in SchedulerState, NEW w, NEW S, Lists(Task, s.rq \o w, S)
  PROVE  /\ InsertAll(s, w) = [s EXCEPT !.rq = @ \o w]
         /\ InsertAll(s, w) \in SchedulerState
<1>1. ~(Len(s.rq \o w) > MaxTasks)
  <2>1. Len(s.rq \o w) <= NumTasks
    BY TaskFinite, ListsFit, Zenon
  <2>2. Len(s.rq \o w) \in Nat
    BY DEF Lists
  <2> QED
    BY <2>1, <2>2, SchedulerAssumption, TaskTableAssumption
<1>2. InsertAll(s, w) = [s EXCEPT !.rq = @ \o w]
  BY <1>1, Zenon DEF InsertAll
<1>3. s.rq \o w \in Seq(Task)
  BY DEF Lists
<1> QED
  BY <1>2, <1>3, Zenon DEF SchedulerState

\* Waking blocked tasks moves them, and only them, from their wait to the
\* queue.
LEMMA MakeReadyFacts ==
  ASSUME NEW s, Consistent(s), NEW W \in SUBSET Task, \A t \in W : s.state[t] = "Blocked"
  PROVE  LET r == MakeReady(s, W)
         IN  /\ Consistent(r)
             /\ SameContext(s, r)
             /\ r.state = [t \in Task |-> IF t \in W THEN "Ready" ELSE s.state[t]]
             /\ r.blockedOn = [t \in Task |-> IF t \in W THEN NotBlocked ELSE s.blockedOn[t]]
<1> DEFINE st == [t \in Task |-> IF t \in W THEN "Ready" ELSE s.state[t]]
           bl == [t \in Task |-> IF t \in W THEN NotBlocked ELSE s.blockedOn[t]]
           m == [s EXCEPT !.state = st, !.blockedOn = bl]
           w == SlotOrder(W)
           r == MakeReady(s, W)
<1>1. s \in SchedulerState /\ Lists(Task, s.rq, ReadySet(s))
  BY DEF Consistent
<1>2. st \in [Task -> {"Ready", "Running", "Blocked"}] /\ bl \in [Task -> Reason]
  BY <1>1, StateFields DEF Reason
<1>3. r = InsertAll(m, w)
  BY <1>1 DEF MakeReady, SchedulerState
<1> HIDE DEF st, bl, w, r
<1>4. /\ m \in SchedulerState /\ SameContext(s, m)
      /\ m.state = st /\ m.blockedOn = bl /\ m.rq = s.rq
  BY <1>1, <1>2, Zenon DEF SchedulerState, SameContext
<1> HIDE DEF m
<1>5. Lists(Task, m.rq \o w, ReadySet(s) \cup W)
  <2>1. Lists(Task, w, W)
    BY SlotOrderLists, TaskFinite DEF w
  <2>2. ReadySet(s) \cap W = {}
    BY DEF ReadySet
  <2> QED
    BY <1>1, <1>4, <2>1, <2>2, ListsConcat
<1>6. r = [m EXCEPT !.rq = @ \o w] /\ r \in SchedulerState
  BY <1>3, <1>4, <1>5, InsertFits, Zenon
<1>7. /\ SameContext(s, r)
      /\ r.state = st /\ r.blockedOn = bl /\ r.rq = m.rq \o w
  BY <1>4, <1>6 DEF SchedulerState, SameContext
<1>8. ReadySet(r) = ReadySet(s) \cup W
  BY <1>7 DEF ReadySet, st
<1>9. \A t \in Task : r.state[t] = "Blocked" <=> r.blockedOn[t] # NotBlocked
  BY <1>7 DEF Consistent, st, bl
<1>10. \A t \in Task : r.saved[t] = t
  BY <1>7 DEF Consistent, SameContext
<1>11. Consistent(r)
  BY <1>5, <1>6, <1>7, <1>8, <1>9, <1>10, Zenon DEF Consistent
<1> QED
  BY <1>7, <1>11 DEF st, bl, r

\* save_current records what the tables already say: the frame of the running
\* task lies on its own kernel stack.
LEMMA SaveFacts ==
  ASSUME NEW s, Settled(s)
  PROVE  SaveCurrent(s) = s
<1>1. s \in SchedulerState /\ s.frame = s.cur /\ s.saved[s.cur] = s.cur
  BY StateFields DEF Settled, Consistent
<1>2. [s.saved EXCEPT ![s.cur] = s.frame] = s.saved
  BY <1>1, StateFields
<1> QED
  BY <1>1, <1>2 DEF SaveCurrent, TrapEntry, SchedulerState

\* requeue_current parks the running task at the tail of the queue.
LEMMA RequeueFacts ==
  ASSUME NEW s, Settled(s)
  PROVE  LET r == RequeueCurrent(s)
         IN  /\ Parked(r)
             /\ SameContext(s, r)
             /\ r.state = [s.state EXCEPT ![s.cur] = "Ready"]
             /\ r.blockedOn = s.blockedOn
             /\ s.cur \in ReadySet(r)
<1> DEFINE m == [s EXCEPT !.state[s.cur] = "Ready"]
           w == <<s.cur>>
           r == RequeueCurrent(s)
<1>1. /\ s \in SchedulerState /\ s.cur \in Task /\ Lists(Task, s.rq, ReadySet(s))
      /\ s.state[s.cur] = "Running"
  BY StateFields DEF Settled, Consistent
<1>2. r = InsertAll(m, w)
  BY DEF RequeueCurrent
<1> HIDE DEF r
<1>3. /\ m \in SchedulerState /\ SameContext(s, m) /\ m.rq = s.rq /\ m.blockedOn = s.blockedOn
      /\ m.state = [s.state EXCEPT ![s.cur] = "Ready"]
  BY <1>1, StateFields, Zenon DEF SchedulerState, SameContext
<1> HIDE DEF m
<1>4. Lists(Task, m.rq \o w, ReadySet(s) \cup {s.cur})
  <2>1. Lists(Task, w, {s.cur})
    BY <1>1, ListsSingleton
  <2>2. ReadySet(s) \cap {s.cur} = {}
    BY <1>1 DEF ReadySet
  <2> HIDE DEF w
  <2> QED
    BY <1>1, <1>3, <2>1, <2>2, ListsConcat
<1> HIDE DEF w
<1>5. r = [m EXCEPT !.rq = @ \o w] /\ r \in SchedulerState
  BY <1>2, <1>3, <1>4, InsertFits, Zenon
<1>6. /\ SameContext(s, r) /\ r.rq = m.rq \o w /\ r.blockedOn = s.blockedOn
      /\ r.state = [s.state EXCEPT ![s.cur] = "Ready"]
  BY <1>3, <1>5 DEF SchedulerState, SameContext
<1>7. /\ \A t \in Task : r.state[t] = IF t = s.cur THEN "Ready" ELSE s.state[t]
      /\ ReadySet(r) = ReadySet(s) \cup {s.cur}
  BY <1>1, <1>6, StateFields DEF ReadySet
<1>8. \A t \in Task : r.state[t] # "Running"
  BY <1>7 DEF Settled
<1>9. \A t \in Task : r.state[t] = "Blocked" <=> r.blockedOn[t] # NotBlocked
  BY <1>1, <1>6, <1>7 DEF Settled, Consistent
<1>10. \A t \in Task : r.saved[t] = t
  BY <1>6 DEF Settled, Consistent, SameContext
<1>11. Parked(r)
  BY <1>4, <1>5, <1>6, <1>7, <1>8, <1>9, <1>10, Zenon DEF Parked, Consistent
<1> QED
  BY <1>1, <1>6, <1>7, <1>11 DEF r

\* dispatch_next resumes the best queued task with its own context, and
\* nothing else changes.
LEMMA DispatchFacts ==
  ASSUME NEW s, Parked(s), ReadySet(s) # {}
  PROVE  LET r == DispatchNext(s)
         IN  /\ Settled(r)
             /\ Highest(r)
             /\ r.cur \in ReadySet(s)
             /\ r.state = [s.state EXCEPT ![r.cur] = "Running"]
             /\ r.blockedOn = s.blockedOn
             /\ r.wakeAt = s.wakeAt
             /\ r.since = 0
             /\ r.halt = s.halt
<1> DEFINE r == DispatchNext(s)
           b == Best(s.rq)
           t == s.rq[b]
           q == Without(s.rq, b)
<1>1. s \in SchedulerState /\ Lists(Task, s.rq, ReadySet(s)) /\ s.rq \in Seq(Task) /\ s.rq # <<>>
  BY ListsEmpty DEF Parked, Consistent, Lists
<1>2. b \in DOMAIN s.rq /\ \A j \in DOMAIN s.rq : Eff[s.rq[j]] <= Eff[t]
  BY <1>1, BestFacts
<1>3. t \in ReadySet(s) /\ t \in Task /\ s.state[t] = "Ready"
  <2>1. t \in Range(s.rq)
    BY <1>2 DEF Range
  <2> HIDE DEF t
  <2> QED
    BY <1>1, <2>1 DEF Lists, ReadySet
<1>4. \A u \in ReadySet(s) : Eff[u] <= Eff[t]
  <2> HIDE DEF t
  <2> QED
    BY <1>1, <1>2 DEF Lists, Range
<1>5. Lists(Task, q, ReadySet(s) \ {t})
  BY <1>1, <1>2, ListsWithout
<1>6. r = TrapExit(MarkRunning([s EXCEPT !.rq = q], t), s.saved[t])
  BY <1>1 DEF DispatchNext
<1>7. s.saved[t] = t /\ q \in Seq(Task) /\ 0 \in Tick
  BY <1>3, <1>5, TickModFacts DEF Parked, Consistent, Lists, Tick
<1> HIDE DEF q, t, r, b
<1>8. /\ r \in SchedulerState /\ r.cur = t /\ r.frame = t /\ r.region = t /\ r.since = 0
      /\ r.rq = q /\ r.state = [s.state EXCEPT ![t] = "Running"]
      /\ r.blockedOn = s.blockedOn /\ r.wakeAt = s.wakeAt /\ r.saved = s.saved /\ r.halt = s.halt
  BY <1>1, <1>3, <1>6, <1>7, StateFields, Zenon DEF TrapExit, MarkRunning, SchedulerState
<1>9. \A u \in Task : r.state[u] = IF u = t THEN "Running" ELSE s.state[u]
  BY <1>1, <1>8, StateFields
<1>10. ReadySet(r) = ReadySet(s) \ {t}
  BY <1>9 DEF ReadySet
<1>11. \A u \in Task : r.state[u] = "Blocked" <=> r.blockedOn[u] # NotBlocked
  BY <1>3, <1>8, <1>9 DEF Parked, Consistent
<1>12. \A u \in Task : r.state[u] = "Running" <=> u = r.cur
  BY <1>8, <1>9 DEF Parked
<1>13. Settled(r)
  <2>1. \A u \in Task : r.saved[u] = u
    BY <1>8 DEF Parked, Consistent
  <2> QED
    BY <1>5, <1>8, <1>10, <1>11, <1>12, <2>1 DEF Settled, Consistent
<1>14. Highest(r)
  <2>1. \A u \in Task : r.state[u] # "Blocked" => u \in ReadySet(s)
    <3>1. \A u \in Task : s.state[u] \in {"Ready", "Blocked"}
      BY <1>1, StateFields DEF Parked
    <3> QED
      BY <1>3, <1>9, <3>1 DEF ReadySet
  <2> QED
    BY <1>4, <1>8, <2>1 DEF Highest
<1> QED
  BY <1>3, <1>8, <1>13, <1>14 DEF r

\* Neither the tick count nor the halt flag is one of the tables.
LEMMA SameTables ==
  ASSUME NEW s, Settled(s), NEW r, r \in SchedulerState,
         r.cur = s.cur, r.state = s.state, r.rq = s.rq, r.blockedOn = s.blockedOn,
         r.saved = s.saved, r.frame = s.frame, r.region = s.region
  PROVE  Settled(r) /\ (Highest(s) => Highest(r))
<1>1. ReadySet(r) = ReadySet(s)
  BY DEF ReadySet
<1>2. Settled(r)
  BY <1>1 DEF Settled, Consistent
<1>3. Highest(s) => Highest(r)
  BY Zenon DEF Highest
<1> QED
  BY <1>2, <1>3

-----------------------------------------------------------------------------
(* The handlers: each leaves a settled state in which the highest task     *)
(* runs.                                                                   *)

\* What a handler leaves, apart from the waits it changes.
Decided(s, r) == Settled(r) /\ Highest(r) /\ r.halt = s.halt

\* Queue the running task and dispatch: yield, and every preemption.
LEMMA RescheduleFacts ==
  ASSUME NEW s, Settled(s)
  PROVE  LET r == DispatchNext(RequeueCurrent(s))
         IN  /\ Decided(s, r)
             /\ r.blockedOn = s.blockedOn /\ r.wakeAt = s.wakeAt /\ r.since = 0
<1> DEFINE m == RequeueCurrent(s)
           r == DispatchNext(m)
<1>1. Parked(m) /\ SameContext(s, m) /\ m.blockedOn = s.blockedOn /\ s.cur \in ReadySet(m)
  BY RequeueFacts, Zenon
<1> HIDE DEF m
<1>2. /\ Settled(r) /\ Highest(r) /\ r.blockedOn = m.blockedOn /\ r.wakeAt = m.wakeAt
      /\ r.since = 0 /\ r.halt = m.halt
  BY <1>1, DispatchFacts, Zenon
<1> HIDE DEF r
<1> QED
  BY <1>1, <1>2 DEF SameContext, Decided, r, m

\* yield_current queues the caller and runs the best task.
LEMMA YieldFacts ==
  ASSUME NEW s, Settled(s)
  PROVE  LET r == YieldCurrent(s)
         IN  Decided(s, r) /\ r.blockedOn = s.blockedOn /\ r.wakeAt = s.wakeAt
<1>1. YieldCurrent(s) = DispatchNext(RequeueCurrent(s))
  BY SaveFacts DEF YieldCurrent
<1> QED
  BY <1>1, RescheduleFacts

\* A task other than the current one can run.
OtherRunnable(s) == \E other \in Task : other # s.cur /\ s.state[other] # "Blocked"

\* Blocking the running task parks it; another runnable task can be dispatched.
LEMMA ParkBlocked ==
  ASSUME NEW s, Settled(s), NEW m, m \in SchedulerState,
         m.rq = s.rq, m.saved = s.saved,
         m.state = [s.state EXCEPT ![s.cur] = "Blocked"],
         NEW reason \in Reason, reason # NotBlocked,
         m.blockedOn = [s.blockedOn EXCEPT ![s.cur] = reason],
         OtherRunnable(s)
  PROVE  Parked(m) /\ ReadySet(m) # {}
<1>1. /\ s \in SchedulerState /\ s.cur \in Task /\ Lists(Task, s.rq, ReadySet(s))
      /\ s.state[s.cur] = "Running"
  BY StateFields DEF Settled, Consistent
<1>2. /\ \A t \in Task : m.state[t] = IF t = s.cur THEN "Blocked" ELSE s.state[t]
      /\ \A t \in Task : m.blockedOn[t] = IF t = s.cur THEN reason ELSE s.blockedOn[t]
  BY <1>1, StateFields
<1>3. ReadySet(m) = ReadySet(s)
  BY <1>1, <1>2 DEF ReadySet
<1>4. \A t \in Task : m.state[t] # "Running"
  BY <1>2 DEF Settled
<1>5. \A t \in Task : m.state[t] = "Blocked" <=> m.blockedOn[t] # NotBlocked
  BY <1>2 DEF Settled, Consistent
<1>6. \A t \in Task : m.saved[t] = t
  BY DEF Settled, Consistent
<1>7. ReadySet(s) # {}
  <2>1. PICK other \in Task : other # s.cur /\ s.state[other] # "Blocked"
    BY DEF OtherRunnable
  <2>2. other \in ReadySet(s)
    BY <1>1, <2>1, StateFields DEF ReadySet, Settled
  <2> QED
    BY <2>2
<1> QED
  BY <1>1, <1>3, <1>4, <1>5, <1>6, <1>7 DEF Parked, Consistent

\* Blocking on a channel.
LEMMA BlockFacts ==
  ASSUME NEW s, Settled(s), NEW reason \in Reason, reason # NotBlocked, OtherRunnable(s)
  PROVE  LET r == BlockCurrent(s, reason)
         IN  /\ Decided(s, r) /\ r.wakeAt = s.wakeAt
             /\ \A t \in Task : r.blockedOn[t] = IF t = s.cur THEN reason ELSE s.blockedOn[t]
<1> DEFINE m == [s EXCEPT !.state[s.cur] = "Blocked", !.blockedOn[s.cur] = reason]
           r == BlockCurrent(s, reason)
<1>1. r = DispatchNext(m)
  BY SaveFacts, Zenon DEF BlockCurrent
<1>2. s \in SchedulerState /\ s.cur \in Task
  BY StateFields DEF Settled, Consistent
<1>3. /\ m \in SchedulerState /\ m.rq = s.rq /\ m.saved = s.saved /\ m.wakeAt = s.wakeAt
      /\ m.halt = s.halt /\ m.state = [s.state EXCEPT ![s.cur] = "Blocked"]
      /\ m.blockedOn = [s.blockedOn EXCEPT ![s.cur] = reason]
  BY <1>2, StateFields, Zenon DEF SchedulerState
<1> HIDE DEF m, r
<1>4. Parked(m) /\ ReadySet(m) # {}
  BY <1>3, ParkBlocked
<1>5. /\ Settled(r) /\ Highest(r) /\ r.blockedOn = m.blockedOn /\ r.wakeAt = m.wakeAt
      /\ r.halt = m.halt
  BY <1>1, <1>4, DispatchFacts, Zenon
<1>6. \A t \in Task : r.blockedOn[t] = IF t = s.cur THEN reason ELSE s.blockedOn[t]
  BY <1>2, <1>3, <1>5, StateFields
<1> QED
  BY <1>3, <1>5, <1>6 DEF Decided, r

\* The tick that ends a sleep of n ticks, at least one.
WakeTime(now, n) == (now + Max({n, 1})) % TickMod

\* Going to sleep.
LEMMA SleepFacts ==
  ASSUME NEW s, Settled(s), OtherRunnable(s), NEW now \in Tick, NEW n \in Tick
  PROVE  LET r == SleepCurrent(s, now, n)
         IN  /\ Decided(s, r)
             /\ \A t \in Task : r.wakeAt[t] = IF t = s.cur THEN WakeTime(now, n) ELSE s.wakeAt[t]
             /\ \A t \in Task : r.blockedOn[t] = IF t = s.cur THEN Asleep ELSE s.blockedOn[t]
<1> DEFINE d == WakeTime(now, n)
           m == [s EXCEPT !.state[s.cur] = "Blocked", !.blockedOn[s.cur] = Asleep,
                          !.wakeAt[s.cur] = d]
           r == SleepCurrent(s, now, n)
<1>1. r = DispatchNext(m)
  BY SaveFacts, Zenon DEF SleepCurrent, WakeTime
<1>2. s \in SchedulerState /\ s.cur \in Task
  BY StateFields DEF Settled, Consistent
<1>3. d \in Tick
  <2>1. now \in Int /\ n \in Nat
    BY TickModFacts DEF Tick
  <2>2. Max({n, 1}) \in Int
    <3>1. {n, 1} \in SUBSET (0 .. (n + 1)) /\ n + 1 \in Nat /\ {n, 1} # {}
      BY <2>1
    <3>2. Max({n, 1}) \in {n, 1}
      BY <3>1, MaxProperty, Zenon
    <3> QED
      BY <2>1, <3>2
  <2>3. now + Max({n, 1}) \in Int
    BY <2>1, <2>2
  <2> QED
    BY <2>3, TickWraps DEF WakeTime
<1> HIDE DEF d
<1>4. Asleep \in Reason /\ Asleep # NotBlocked
  BY DEF Reason, Asleep, NotBlocked
<1>5. /\ m \in SchedulerState /\ m.rq = s.rq /\ m.saved = s.saved /\ m.halt = s.halt
      /\ m.state = [s.state EXCEPT ![s.cur] = "Blocked"]
      /\ m.blockedOn = [s.blockedOn EXCEPT ![s.cur] = Asleep]
      /\ m.wakeAt = [s.wakeAt EXCEPT ![s.cur] = d]
  BY <1>2, <1>3, <1>4, StateFields, Zenon DEF SchedulerState
<1> HIDE DEF m, r
<1>6. Parked(m) /\ ReadySet(m) # {}
  BY <1>4, <1>5, ParkBlocked
<1>7. /\ Settled(r) /\ Highest(r) /\ r.blockedOn = m.blockedOn /\ r.wakeAt = m.wakeAt
      /\ r.halt = m.halt
  BY <1>1, <1>6, DispatchFacts, Zenon
<1>8. /\ \A t \in Task : r.wakeAt[t] = IF t = s.cur THEN d ELSE s.wakeAt[t]
      /\ \A t \in Task : r.blockedOn[t] = IF t = s.cur THEN Asleep ELSE s.blockedOn[t]
  BY <1>2, <1>5, <1>7, StateFields
<1> QED
  BY <1>5, <1>7, <1>8 DEF Decided, r, d

\* Waking tasks leaves the running task in place.
LEMMA WakeSettles ==
  ASSUME NEW s, Settled(s), NEW W \in SUBSET Task, \A t \in W : s.state[t] = "Blocked"
  PROVE  LET r == MakeReady(s, W)
         IN  /\ Settled(r)
             /\ SameContext(s, r)
             /\ r.blockedOn = [t \in Task |-> IF t \in W THEN NotBlocked ELSE s.blockedOn[t]]
<1> DEFINE r == MakeReady(s, W)
<1>1. /\ Consistent(r) /\ SameContext(s, r)
      /\ r.state = [t \in Task |-> IF t \in W THEN "Ready" ELSE s.state[t]]
      /\ r.blockedOn = [t \in Task |-> IF t \in W THEN NotBlocked ELSE s.blockedOn[t]]
  BY MakeReadyFacts DEF Settled
<1> HIDE DEF r
<1>2. \A t \in Task : r.state[t] = "Running" <=> t = r.cur
  BY <1>1 DEF Settled, SameContext
<1>3. Settled(r)
  BY <1>1, <1>2 DEF Settled, SameContext
<1> QED
  BY <1>1, <1>3 DEF r

\* wake_blocked_on ends the wait of one task, if any waits for the reason.
LEMMA WakeBlockedFacts ==
  ASSUME NEW s, Settled(s), NEW reason
  PROVE  LET r == WakeBlockedOn(s, reason)
             waiting == {t \in Task : s.state[t] = "Blocked" /\ s.blockedOn[t] = reason}
         IN  /\ Settled(r)
             /\ SameContext(s, r)
             /\ \/ waiting = {} /\ r.blockedOn = s.blockedOn
                \/ \E u \in waiting :
                     r.blockedOn = [t \in Task |-> IF t \in {u} THEN NotBlocked ELSE s.blockedOn[t]]
<1> DEFINE r == WakeBlockedOn(s, reason)
           waiting == {t \in Task : s.state[t] = "Blocked" /\ s.blockedOn[t] = reason}
<1>1. CASE waiting = {}
  <2>1. r = s
    BY <1>1 DEF WakeBlockedOn
  <2> QED
    BY <1>1, <2>1 DEF SameContext
<1>2. CASE waiting # {}
  <2>1. waiting \in SUBSET Nat
    BY TaskFinite, Zenon
  <2>2. Min(waiting) \in waiting
    <3> HIDE DEF waiting
    <3> QED
      BY <1>2, <2>1, MinProperty
  <2>3. r = MakeReady(s, {Min(waiting)})
    BY <1>2 DEF WakeBlockedOn
  <2>4. PICK u \in waiting : r = MakeReady(s, {u})
    BY <2>2, <2>3, Zenon
  <2>5. {u} \in SUBSET Task /\ \A t \in {u} : s.state[t] = "Blocked"
    OBVIOUS
  <2> HIDE DEF waiting, r
  <2>6. /\ Settled(r) /\ SameContext(s, r)
        /\ r.blockedOn = [t \in Task |-> IF t \in {u} THEN NotBlocked ELSE s.blockedOn[t]]
    BY <2>4, <2>5, WakeSettles
  <2> QED
    BY <2>6 DEF r, waiting
<1> QED
  BY <1>1, <1>2

\* In a settled state a ready task that does not outrank the current one
\* leaves it the highest.
LEMMA HighestIfBest ==
  ASSUME NEW s, Settled(s), s.rq # <<>> => Eff[s.rq[Best(s.rq)]] <= Eff[s.cur]
  PROVE  Highest(s)
<1>1. /\ s.rq \in Seq(Task) /\ Range(s.rq) = ReadySet(s) /\ s.cur \in Task
      /\ s.state \in [Task -> {"Ready", "Running", "Blocked"}]
  BY StateFields DEF Settled, Consistent, Lists
<1>2. ASSUME NEW t \in Task, s.state[t] = "Ready"
      PROVE  Eff[t] <= Eff[s.cur]
  <2>1. PICK i \in DOMAIN s.rq : s.rq[i] = t
    BY <1>1, <1>2 DEF ReadySet, Range
  <2>2. s.rq # <<>>
    BY <2>1
  <2>3. Best(s.rq) \in DOMAIN s.rq /\ Eff[t] <= Eff[s.rq[Best(s.rq)]]
    BY <1>1, <2>1, <2>2, BestFacts
  <2>4. s.rq[Best(s.rq)] \in Task
    BY <1>1, <2>3
  <2>5. Eff[t] \in Int /\ Eff[s.cur] \in Int /\ Eff[s.rq[Best(s.rq)]] \in Int
    BY <1>1, <2>4, EffInt
  <2> QED
    BY <2>2, <2>3, <2>5
<1>3. Eff[s.cur] <= Eff[s.cur]
  BY <1>1, EffInt
<1>4. ASSUME NEW t \in Task, s.state[t] # "Blocked"
      PROVE  Eff[t] <= Eff[s.cur]
  <2>1. s.state[t] = "Ready" \/ t = s.cur
    BY <1>1, <1>4 DEF Settled
  <2> QED
    BY <1>2, <1>3, <2>1
<1> QED
  BY <1>4 DEF Highest

\* The best queued task is a task, so its priority can be compared.
LEMMA BestIsTask ==
  ASSUME NEW s, Settled(s), s.rq # <<>>
  PROVE  /\ s.rq[Best(s.rq)] \in ReadySet(s)
         /\ Eff[s.rq[Best(s.rq)]] \in Int
         /\ Eff[s.cur] \in Int
<1>1. s.rq \in Seq(Task) /\ Range(s.rq) = ReadySet(s) /\ s.cur \in Task
  BY StateFields DEF Settled, Consistent, Lists
<1>2. s.rq[Best(s.rq)] \in ReadySet(s)
  BY <1>1, BestFacts DEF Range
<1> QED
  BY <1>1, <1>2, EffInt DEF ReadySet

\* preempt_if_outranked restores the rule that the highest task runs.
LEMMA PreemptFacts ==
  ASSUME NEW s, Settled(s)
  PROVE  LET r == PreemptIfOutranked(s)
         IN  Decided(s, r) /\ r.blockedOn = s.blockedOn /\ r.wakeAt = s.wakeAt
<1> DEFINE r == PreemptIfOutranked(s)
<1>1. CASE s.rq = <<>> \/ Eff[s.rq[Best(s.rq)]] <= Eff[s.cur]
  <2>1. r = s
    BY <1>1 DEF PreemptIfOutranked
  <2>2. Highest(s)
    BY <1>1, HighestIfBest
  <2> QED
    BY <2>1, <2>2 DEF Decided
<1>2. CASE ~(s.rq = <<>> \/ Eff[s.rq[Best(s.rq)]] <= Eff[s.cur])
  <2>1. r = DispatchNext(RequeueCurrent(s))
    BY <1>2, SaveFacts DEF PreemptIfOutranked
  <2> QED
    BY <2>1, RescheduleFacts
<1> QED
  BY <1>1, <1>2

\* The running task was preempted for a reason.
Justified(s, r) ==
  \/ Eff[r.cur] > Eff[s.cur]
  \/ Eff[r.cur] = Eff[s.cur] /\ s.since + 1 >= Quantum

\* tick preempts for a higher priority, or for an equal one once the quantum
\* is used up, and never leaves a higher task waiting.
LEMMA TickFacts ==
  ASSUME NEW s, Settled(s)
  PROVE  LET r == TickCheck(s)
         IN  /\ Decided(s, r)
             /\ r.blockedOn = s.blockedOn /\ r.wakeAt = s.wakeAt
             /\ r.cur # s.cur => Justified(s, r)
<1> DEFINE c == [s EXCEPT !.since = (@ + 1) % TickMod]
           w == DispatchNext(RequeueCurrent(c))
           r == TickCheck(s)
<1>1. s \in SchedulerState /\ s.cur \in Task /\ s.since \in Tick
  BY StateFields DEF Settled, Consistent
<1>2. (s.since + 1) % TickMod \in Tick /\ (s.since + 1) % TickMod <= s.since + 1
  BY <1>1, TickModFacts DEF Tick
<1>3. /\ c \in SchedulerState /\ c.cur = s.cur /\ c.state = s.state /\ c.rq = s.rq
      /\ c.blockedOn = s.blockedOn /\ c.wakeAt = s.wakeAt /\ c.saved = s.saved
      /\ c.frame = s.frame /\ c.region = s.region /\ c.halt = s.halt
      /\ c.since = (s.since + 1) % TickMod
  BY <1>1, <1>2 DEF SchedulerState
<1>4. r = IF ~ShouldPreempt(c) THEN c
          ELSE IF w.cur = s.cur THEN TrapExit(w, TrapEntry(s)) ELSE w
  BY DEF TickCheck
<1> HIDE DEF c, r
<1>5. Settled(c)
  BY <1>3, SameTables
<1>6. /\ Decided(c, w) /\ w.blockedOn = c.blockedOn /\ w.wakeAt = c.wakeAt
  BY <1>5, RescheduleFacts
<1> HIDE DEF w
<1>7. CASE ~ShouldPreempt(c)
  <2>1. r = c
    BY <1>4, <1>7
  <2>2. c.rq # <<>> => Eff[c.rq[Best(c.rq)]] <= Eff[c.cur]
    BY <1>5, <1>7, BestIsTask DEF ShouldPreempt
  <2> QED
    BY <1>3, <1>5, <2>1, <2>2, HighestIfBest DEF Decided, r
<1>8. CASE ShouldPreempt(c)
  <2>1. w \in SchedulerState /\ w.cur \in Task /\ w.frame = w.cur
    BY <1>6, StateFields DEF Decided, Settled, Consistent
  <2>2. TrapExit(w, TrapEntry(s)) = w \/ w.cur # s.cur
    BY <2>1 DEF TrapExit, TrapEntry, Settled, SchedulerState
  <2>3. r = w
    BY <1>4, <1>8, <2>2
  <2>4. Justified(s, w)
    <3> DEFINE top == c.rq[Best(c.rq)]
    <3>1. c.rq # <<>> /\ (Eff[top] > Eff[c.cur] \/ (c.since >= Quantum /\ Eff[top] >= Eff[c.cur]))
      BY <1>8 DEF ShouldPreempt
    <3>2. top \in ReadySet(c) /\ Eff[top] \in Int /\ Eff[c.cur] \in Int
      BY <1>5, <3>1, BestIsTask
    <3> HIDE DEF top
    <3>3. top \in Task /\ c.state[top] # "Blocked"
      BY <3>2 DEF ReadySet
    <3>4. w.state[top] # "Blocked"
      BY <1>5, <1>6, <3>3 DEF Decided, Settled, Consistent
    <3>5. Eff[top] <= Eff[w.cur] /\ Eff[w.cur] \in Int
      BY <1>6, <2>1, <3>3, <3>4, EffInt DEF Decided, Highest
    <3>6. c.since \in Int /\ s.since \in Int /\ c.since <= s.since + 1 /\ Quantum \in Int
      BY <1>1, <1>2, <1>3, TickModFacts, SchedulerAssumption DEF Tick
    <3>7. Eff[s.cur] = Eff[c.cur]
      BY <1>3
    <3>8. Eff[w.cur] > Eff[c.cur] \/ (Eff[w.cur] = Eff[c.cur] /\ s.since + 1 >= Quantum)
      BY <3>1, <3>2, <3>5, <3>6
    <3> QED
      BY <3>7, <3>8 DEF Justified
  <2> QED
    BY <1>3, <1>6, <2>3, <2>4 DEF Decided, r
<1> QED
  BY <1>7, <1>8

\* The sleepers whose deadline is reached at tick now.
Due(s, now) == {t \in Sleepers(s) : TickReached(now, s.wakeAt[t])}

\* A timer interrupt stops at an overwritten canary; otherwise it ends the
\* sleeps that are due and re-decides who runs.
LEMMA TimerFacts ==
  ASSUME NEW s, Settled(s), Highest(s), s.halt = "no", NEW now, NEW broken
  PROVE  LET r == OnTimerInterrupt(s, now, broken)
         IN  /\ Settled(r) /\ Highest(r) /\ r.halt \in {"no", "stack canary"}
             /\ broken = {} => r.halt = "no"
             /\ r.wakeAt = s.wakeAt
             /\ r.halt = "no" =>
                  r.blockedOn = [t \in Task |-> IF t \in Due(s, now) THEN NotBlocked ELSE s.blockedOn[t]]
             /\ r.halt # "no" => r.blockedOn = s.blockedOn
             /\ r.cur # s.cur => Justified(s, r)
<1> DEFINE r == OnTimerInterrupt(s, now, broken)
           v == MakeReady(s, Due(s, now))
<1>1. s \in SchedulerState
  BY DEF Settled, Consistent
<1>2. SaveCurrent(s) = s
  BY SaveFacts
<1>3. CASE broken # {}
  <2>1. r = [s EXCEPT !.halt = "stack canary"]
    BY <1>1, <1>2, <1>3 DEF OnTimerInterrupt, CheckStackCanaries, SchedulerState
  <2>2. /\ r \in SchedulerState /\ r.cur = s.cur /\ r.state = s.state /\ r.rq = s.rq
        /\ r.blockedOn = s.blockedOn /\ r.wakeAt = s.wakeAt /\ r.saved = s.saved
        /\ r.frame = s.frame /\ r.region = s.region /\ r.halt = "stack canary"
    BY <1>1, <2>1, Zenon DEF SchedulerState, HaltCause
  <2> HIDE DEF r
  <2>3. Settled(r) /\ Highest(r)
    BY <2>2, SameTables, Zenon
  <2> QED
    BY <1>3, <2>2, <2>3, Zenon DEF r
<1>4. CASE broken = {}
  <2>1. r = TickCheck(v)
    BY <1>2, <1>4 DEF OnTimerInterrupt, CheckStackCanaries, WakeSleepers, Due
  <2>2. /\ Settled(v) /\ SameContext(s, v)
        /\ v.blockedOn = [t \in Task |-> IF t \in Due(s, now) THEN NotBlocked ELSE s.blockedOn[t]]
    <3>1. Due(s, now) \in SUBSET Task /\ \A t \in Due(s, now) : s.state[t] = "Blocked"
      BY DEF Due, Sleepers
    <3> QED
      BY <3>1, WakeSettles
  <2> HIDE DEF v
  <2>3. /\ Decided(v, r) /\ r.blockedOn = v.blockedOn /\ r.wakeAt = v.wakeAt
        /\ r.cur # v.cur => Justified(v, r)
    BY <2>1, <2>2, TickFacts
  <2> HIDE DEF r
  <2> QED
    BY <2>2, <2>3 DEF Decided, SameContext, Justified, r
<1> QED
  BY <1>3, <1>4, Zenon

\* scheduler::init and the first dispatch.
LEMMA BootFacts ==
  /\ Settled(Booted) /\ Highest(Booted)
  /\ Booted.halt = "no"
  /\ Booted.blockedOn = [t \in Task |-> NotBlocked]
<1> DEFINE z == [cur |-> 0, since |-> 0, state |-> [t \in Task |-> "Ready"],
                 blockedOn |-> [t \in Task |-> NotBlocked], wakeAt |-> [t \in Task |-> 0],
                 rq |-> <<>>, saved |-> [t \in Task |-> t], frame |-> 0, region |-> 0,
                 halt |-> "no"]
           w == SlotOrder(Task)
           m == InsertAll(z, w)
<1>1. 0 \in Task /\ 0 \in Tick
  BY TaskTableAssumption, TickModFacts DEF Task, Tick
<1>2. <<>> \in Seq(Task)
  OBVIOUS
<1>3. /\ z \in SchedulerState /\ z.state = [t \in Task |-> "Ready"] /\ z.rq = <<>>
      /\ z.blockedOn = [t \in Task |-> NotBlocked] /\ z.saved = [t \in Task |-> t] /\ z.halt = "no"
  BY <1>1, <1>2 DEF SchedulerState, Reason, HaltCause
<1>4. Booted = DispatchNext(m)
  BY DEF Booted
<1> HIDE DEF z, m
<1>5. Lists(Task, w, Task) /\ w \in Seq(Task)
  BY SlotOrderLists, TaskFinite, Zenon DEF Lists
<1> HIDE DEF w
<1>6. Lists(Task, z.rq \o w, Task) /\ z.rq \o w = w
  BY <1>3, <1>5
<1>7. m = [z EXCEPT !.rq = @ \o w] /\ m \in SchedulerState
  BY <1>3, <1>6, InsertFits, Zenon DEF m
<1>8. /\ m.state = [t \in Task |-> "Ready"] /\ m.rq = w
      /\ m.blockedOn = [t \in Task |-> NotBlocked] /\ m.saved = [t \in Task |-> t] /\ m.halt = "no"
  BY <1>3, <1>6, <1>7 DEF SchedulerState
<1>9. ReadySet(m) = Task /\ ReadySet(m) # {}
  BY <1>1, <1>8 DEF ReadySet
<1>10. Parked(m)
  <2>1. \A t \in Task : m.state[t] = "Ready" /\ m.blockedOn[t] = NotBlocked /\ m.saved[t] = t
    BY <1>8
  <2>2. Lists(Task, m.rq, ReadySet(m))
    BY <1>5, <1>8, <1>9
  <2> QED
    BY <1>7, <2>1, <2>2 DEF Parked, Consistent
<1> QED
  BY <1>4, <1>8, <1>9, <1>10, DispatchFacts, Zenon

-----------------------------------------------------------------------------
(* The kernel *)

\* The variables other than sched have their types.
DataOK ==
  /\ ticks \in Tick
  /\ chan \in [Chan -> Seq(0 .. (NumMod - 1))]
  /\ call \in [Task -> {NoCall} \cup SendCall \cup ReceiveCall]
  /\ ret \in Errno \cup {"ok"}
  /\ overflowed \subseteq Task
  /\ outbox \in [Chan -> 0 .. (NumMod - 1)]
  /\ inbox \in [Chan -> 0 .. (NumMod - 1)]
  /\ left \in [Task -> Tick]

\* What every trap handler preserves: the tables agree, the highest task runs,
\* no internal halt has happened, and the idle task, which makes no calls, is
\* not blocked, so that dispatch_next always finds a task.
SchedOK ==
  /\ Settled(sched)
  /\ Highest(sched)
  /\ NeverStuck
  /\ sched.blockedOn[Idle] = NotBlocked

\* The inductive invariant of the safety of the scheduler.
Inv == SchedOK /\ DataOK

\* The invariant includes the types.
LEMMA InvImpliesTypeOK == Inv => TypeOK
BY DEF Inv, SchedOK, DataOK, TypeOK, Settled, Consistent

\* What the assumptions on the constants say of the ranges.
LEMMA KernelFacts ==
  /\ Idle \in Task
  /\ 0 \in 0 .. (NumMod - 1)
  /\ \A x \in Int : x % NumMod \in 0 .. (NumMod - 1)
  /\ \A n \in SleepArgs : n \in Tick
  /\ \A n \in Tick : n \in Int
  /\ 0 \in Tick /\ 1 \in Tick
<1>1. NumMod \in Nat /\ NumMod > 0
  BY KernelAssumption
<1>2. 0 \in Tick /\ 1 \in Tick /\ Tick \subseteq Int
  BY TickModFacts DEF Tick
<1> QED
  BY <1>1, <1>2, KernelAssumption

\* boot leaves the kernel in the invariant.
LEMMA InitInv == Init => Inv
<1> SUFFICES ASSUME Init
             PROVE  Inv
  OBVIOUS
<1>1. SchedOK
  BY BootFacts, KernelFacts DEF Init, SchedOK, NeverStuck
<1>2. DataOK
  BY KernelFacts DEF Init, DataOK
<1> QED
  BY <1>1, <1>2 DEF Inv

\* A step that leaves the scheduler alone.
LEMMA SchedUnchanged == SchedOK /\ UNCHANGED sched => SchedOK'
BY Zenon DEF SchedOK, NeverStuck

\* A handler that re-decides who runs and blocks at most the running task,
\* which is not the idle task, preserves SchedOK.
LEMMA DecidedPreserves ==
  ASSUME SchedOK, Decided(sched, sched'), sched'.blockedOn[Idle] = NotBlocked
  PROVE  SchedOK'
BY Zenon DEF SchedOK, Decided, NeverStuck

\* While a task other than idle executes, idle is ready to take over.
LEMMA IdleReady ==
  ASSUME SchedOK, Running # Idle
  PROVE  OtherRunnable(sched) /\ Idle # sched.cur
BY KernelFacts DEF SchedOK, Settled, Consistent, Running, OtherRunnable

\* The scheduler's part of a timer interrupt.
LEMMA TimerStep ==
  ASSUME SchedOK, Timer
  PROVE  /\ Settled(sched') /\ Highest(sched') /\ sched'.halt \in {"no", "stack canary"}
         /\ overflowed = {} => sched'.halt = "no"
         /\ sched'.wakeAt = sched.wakeAt
         /\ sched'.halt = "no" =>
              \A t \in Task :
                sched'.blockedOn[t] = IF t \in Due(sched, NextTick) THEN NotBlocked ELSE sched.blockedOn[t]
         /\ sched'.halt # "no" => sched'.blockedOn = sched.blockedOn
         /\ \A t \in Task : sched'.blockedOn[t] \in {NotBlocked, sched.blockedOn[t]}
         /\ sched'.cur # sched.cur => Justified(sched, sched')
<1> DEFINE now == NextTick
           o == overflowed
           r == OnTimerInterrupt(sched, now, o)
<1>1. Settled(sched) /\ Highest(sched) /\ sched.halt = "no"
  BY DEF SchedOK, Timer, TimerIsr
<1>2. sched' = r
  BY DEF Timer
<1> HIDE DEF now, o
<1>3. /\ Settled(r) /\ Highest(r) /\ r.halt \in {"no", "stack canary"}
      /\ o = {} => r.halt = "no"
      /\ r.wakeAt = sched.wakeAt
      /\ r.halt = "no" =>
           r.blockedOn = [t \in Task |-> IF t \in Due(sched, now) THEN NotBlocked ELSE sched.blockedOn[t]]
      /\ r.halt # "no" => r.blockedOn = sched.blockedOn
      /\ r.cur # sched.cur => Justified(sched, r)
  BY <1>1, TimerFacts, Zenon
<1> HIDE DEF r
<1>4. r.halt = "no" =>
        \A t \in Task :
          r.blockedOn[t] = IF t \in Due(sched, now) THEN NotBlocked ELSE sched.blockedOn[t]
  BY <1>3
<1>5. \A t \in Task : r.blockedOn[t] \in {NotBlocked, sched.blockedOn[t]}
  BY <1>3, <1>4, Zenon
<1> QED
  BY <1>2, <1>3, <1>4, <1>5, Zenon DEF now, o

\* The timer interrupt preserves the invariant.
LEMMA TimerInv == Inv /\ Timer => Inv'
<1> SUFFICES ASSUME Inv, Timer
             PROVE  Inv'
  OBVIOUS
<1>1. SchedOK'
  <2>1. sched.blockedOn[Idle] = NotBlocked
    BY DEF Inv, SchedOK
  <2>2. /\ Settled(sched') /\ Highest(sched') /\ sched'.halt \in {"no", "stack canary"}
        /\ \A t \in Task : sched'.blockedOn[t] \in {NotBlocked, sched.blockedOn[t]}
    BY TimerStep, Zenon DEF Inv
  <2>3. sched'.blockedOn[Idle] = NotBlocked
    BY <2>1, <2>2, KernelFacts, Zenon
  <2> QED
    BY <2>2, <2>3, Zenon DEF SchedOK, NeverStuck
<1>2. DataOK'
  <2>1. ticks' \in Tick
    BY KernelFacts, TickWraps DEF Inv, DataOK, Timer, TimerIsr, NextTick
  <2>2. \A n \in Tick : Max({n - 1, 0}) \in Tick
    <3> TAKE n \in Tick
    <3>1. CASE n = 0
      <4>1. \A x \in {n - 1, 0} : x <= 0
        BY <3>1
      <4>2. Max({n - 1, 0}) \in {n - 1, 0} /\ Max({n - 1, 0}) >= 0
        <5>1. 0 \in {n - 1, 0} /\ \A y \in {n - 1, 0} : 0 >= y
          BY <3>1
        <5> QED
          BY <5>1 DEF Max
      <4> QED
        BY <3>1, <4>1, <4>2, KernelFacts
    <3>2. CASE n # 0
      <4>1. n \in Nat \ {0} /\ n - 1 \in Tick
        BY <3>2, TickModFacts DEF Tick
      <4>2. {n - 1, 0} \in SUBSET (0 .. n) /\ {n - 1, 0} # {} /\ n \in Nat
        BY <4>1
      <4>3. Max({n - 1, 0}) \in {n - 1, 0}
        BY <4>2, MaxProperty, Zenon
      <4> QED
        BY <4>1, <4>3, KernelFacts
    <3> QED
      BY <3>1, <3>2
  <2>3. left' \in [Task -> Tick]
    BY <2>2 DEF Inv, DataOK, Timer
  <2> QED
    BY <2>1, <2>3 DEF Inv, DataOK, Timer
<1> QED
  BY <1>1, <1>2 DEF Inv

\* yield preserves the invariant.
LEMMA YieldInv == Inv /\ SysYield => Inv'
<1> SUFFICES ASSUME Inv, SysYield
             PROVE  Inv'
  OBVIOUS
<1>1. Decided(sched, sched') /\ sched'.blockedOn = sched.blockedOn
  BY YieldFacts DEF Inv, SchedOK, SysYield
<1>2. SchedOK'
  BY <1>1, DecidedPreserves DEF Inv, SchedOK
<1>3. DataOK'
  BY DEF Inv, DataOK, SysYield
<1> QED
  BY <1>2, <1>3 DEF Inv

\* The scheduler's part of sleep.
LEMMA SleepStep ==
  ASSUME Inv, NEW n \in SleepArgs, SysSleep(n)
  PROVE  /\ SchedOK'
         /\ \A t \in Task : sched'.blockedOn[t] = IF t = sched.cur THEN Asleep ELSE sched.blockedOn[t]
         /\ \A t \in Task : sched'.wakeAt[t] = IF t = sched.cur THEN WakeTime(ticks, n) ELSE sched.wakeAt[t]
         /\ sched'.halt = sched.halt
<1> DEFINE r == SleepCurrent(sched, ticks, n)
<1>1. SchedOK /\ Running # Idle /\ ticks \in Tick /\ n \in Tick
  BY KernelFacts DEF Inv, DataOK, SysSleep, Executes
<1>2. Settled(sched) /\ OtherRunnable(sched) /\ Idle # sched.cur
  BY <1>1, IdleReady DEF SchedOK
<1>3. Settled(sched) /\ OtherRunnable(sched) /\ ticks \in Tick /\ n \in Tick
  BY <1>1, <1>2
<1>4. /\ Decided(sched, r)
      /\ \A t \in Task : r.wakeAt[t] = IF t = sched.cur THEN WakeTime(ticks, n) ELSE sched.wakeAt[t]
      /\ \A t \in Task : r.blockedOn[t] = IF t = sched.cur THEN Asleep ELSE sched.blockedOn[t]
  BY <1>3, SleepFacts
<1>5. sched' = r
  BY DEF SysSleep
<1> HIDE DEF r
<1>6. sched'.blockedOn[Idle] = NotBlocked
  BY <1>2, <1>4, <1>5, KernelFacts DEF Inv, SchedOK
<1>7. SchedOK'
  BY <1>1, <1>4, <1>5, <1>6, DecidedPreserves
<1> QED
  BY <1>4, <1>5, <1>7 DEF Decided

\* sleep preserves the invariant.
LEMMA SleepInv ==
  ASSUME NEW n \in SleepArgs
  PROVE  Inv /\ SysSleep(n) => Inv'
<1> SUFFICES ASSUME Inv, SysSleep(n)
             PROVE  Inv'
  OBVIOUS
<1>1. n \in Tick /\ Running \in Task
  BY KernelFacts, StateFields DEF Inv, SchedOK, Settled, Consistent, Running
<1>2. SchedOK'
  BY SleepStep
<1>3. Max({n, 1}) \in Tick
  <2>1. n \in Nat
    BY <1>1, TickModFacts DEF Tick
  <2>2. {n, 1} \in SUBSET (0 .. (n + 1)) /\ {n, 1} # {} /\ n + 1 \in Nat
    BY <2>1
  <2>3. Max({n, 1}) \in {n, 1}
    BY <2>2, MaxProperty, Zenon
  <2> QED
    BY <1>1, <2>3, KernelFacts
<1>4. DataOK'
  BY <1>1, <1>3 DEF Inv, DataOK, SysSleep
<1> QED
  BY <1>2, <1>4 DEF Inv

\* The calls and events that leave the scheduler and the channels alone.
LEMMA PassiveInv ==
  /\ \A b \in BOOLEAN : Inv /\ SysLog(b) => Inv'
  /\ Inv /\ SysNow => Inv'
  /\ Inv /\ SysUnknown => Inv'
  /\ Inv /\ Overflow => Inv'
  /\ Inv /\ UNCHANGED vars => Inv'
<1>1. \A b \in BOOLEAN : Inv /\ SysLog(b) => Inv'
  BY SchedUnchanged DEF Inv, DataOK, SysLog, Errno
<1>2. Inv /\ SysNow => Inv'
  BY SchedUnchanged DEF Inv, DataOK, SysNow
<1>3. Inv /\ SysUnknown => Inv'
  BY SchedUnchanged DEF Inv, DataOK, SysUnknown, Errno
<1>4. Inv /\ Overflow => Inv'
  <2> SUFFICES ASSUME Inv, Overflow
               PROVE  Inv'
    OBVIOUS
  <2>1. Running \in Task
    BY StateFields DEF Inv, SchedOK, Settled, Consistent, Running
  <2> QED
    BY <2>1, SchedUnchanged DEF Inv, DataOK, Overflow
<1>5. Inv /\ UNCHANGED vars => Inv'
  BY SchedUnchanged DEF Inv, DataOK, vars
<1> QED
  BY <1>1, <1>2, <1>3, <1>4, <1>5

\* Halting on an exception preserves the invariant.
LEMMA FaultInv == Inv /\ FaultAndHalt => Inv'
<1> SUFFICES ASSUME Inv, FaultAndHalt
             PROVE  Inv'
  OBVIOUS
<1>1. Settled(sched) /\ Highest(sched) /\ sched \in SchedulerState
  BY DEF Inv, SchedOK, Settled, Consistent
<1>2. /\ sched' \in SchedulerState /\ sched'.cur = sched.cur /\ sched'.state = sched.state
      /\ sched'.rq = sched.rq /\ sched'.blockedOn = sched.blockedOn /\ sched'.saved = sched.saved
      /\ sched'.frame = sched.frame /\ sched'.region = sched.region /\ sched'.halt = "fault"
  BY <1>1, Zenon DEF FaultAndHalt, SchedulerState, HaltCause
<1>3. Settled(sched') /\ Highest(sched')
  BY <1>1, <1>2, SameTables
<1>4. SchedOK'
  BY <1>2, <1>3, Zenon DEF Inv, SchedOK, NeverStuck
<1>5. DataOK'
  BY DEF Inv, DataOK, FaultAndHalt
<1> QED
  BY <1>4, <1>5 DEF Inv

-----------------------------------------------------------------------------
(* send and receive *)

\* The current index is a slot of the table.
LEMMA RunningIsTask == SchedOK => Running \in Task /\ Settled(sched)
BY StateFields DEF SchedOK, Settled, Consistent, Running

\* The scheduler's part of a call that blocks.
LEMMA BlockStep ==
  ASSUME SchedOK, Running # Idle, NEW reason \in Reason, reason # NotBlocked,
         sched' = BlockCurrent(sched, reason)
  PROVE  /\ SchedOK'
         /\ \A t \in Task : sched'.blockedOn[t] = IF t = Running THEN reason ELSE sched.blockedOn[t]
         /\ sched'.wakeAt = sched.wakeAt /\ sched'.halt = sched.halt
<1> DEFINE r == BlockCurrent(sched, reason)
<1>1. OtherRunnable(sched) /\ Idle # sched.cur /\ Settled(sched)
  BY IdleReady DEF SchedOK
<1>2. /\ Decided(sched, r) /\ r.wakeAt = sched.wakeAt
      /\ \A t \in Task : r.blockedOn[t] = IF t = sched.cur THEN reason ELSE sched.blockedOn[t]
  BY <1>1, BlockFacts
<1> HIDE DEF r
<1>3. sched' = r
  BY DEF r
<1>4. sched'.blockedOn[Idle] = NotBlocked
  BY <1>1, <1>2, <1>3, KernelFacts DEF SchedOK
<1>5. SchedOK'
  BY <1>2, <1>3, <1>4, DecidedPreserves, SMTT(20)
<1> QED
  BY <1>2, <1>3, <1>5 DEF Running, Decided

\* The scheduler's part of a call that completes: at most one task leaves its
\* wait, one that waited for the reason; the only one that did, if there was
\* just one.
LEMMA WakeStep ==
  ASSUME SchedOK, NEW reason \in Reason, reason # NotBlocked,
         sched' = PreemptIfOutranked(WakeBlockedOn(sched, reason))
  PROVE  /\ SchedOK'
         /\ \A t \in Task : sched'.blockedOn[t] \in {NotBlocked, sched.blockedOn[t]}
         /\ \A t \in Task : sched.blockedOn[t] # reason => sched'.blockedOn[t] = sched.blockedOn[t]
         /\ \A t \in Task :
              sched.blockedOn[t] = reason /\ (\A u \in Task : sched.blockedOn[u] = reason => u = t)
                => sched'.blockedOn[t] = NotBlocked
         /\ sched'.wakeAt = sched.wakeAt /\ sched'.halt = sched.halt
<1> DEFINE v == WakeBlockedOn(sched, reason)
           waiting == {t \in Task : sched.state[t] = "Blocked" /\ sched.blockedOn[t] = reason}
<1>1. Settled(sched) /\ sched.blockedOn[Idle] = NotBlocked
  BY DEF SchedOK
<1>2. /\ Settled(v) /\ SameContext(sched, v)
      /\ \/ waiting = {} /\ v.blockedOn = sched.blockedOn
         \/ \E u \in waiting :
              v.blockedOn = [t \in Task |-> IF t \in {u} THEN NotBlocked ELSE sched.blockedOn[t]]
  BY <1>1, WakeBlockedFacts, ZenonT(60)
<1>3. waiting = {t \in Task : sched.blockedOn[t] = reason}
  BY <1>1 DEF Settled, Consistent
<1> HIDE DEF v
<1>4. Decided(v, sched') /\ sched'.blockedOn = v.blockedOn /\ sched'.wakeAt = v.wakeAt
  <2>1. sched' = PreemptIfOutranked(v)
    BY DEF v
  <2> QED
    BY <1>2, <2>1, PreemptFacts
<1>5. \A t \in Task : v.blockedOn[t] \in {NotBlocked, sched.blockedOn[t]}
  BY <1>2, Zenon
<1>6. \A t \in Task : sched.blockedOn[t] # reason => v.blockedOn[t] = sched.blockedOn[t]
  BY <1>2, Zenon
<1>7. ASSUME NEW t \in Task, sched.blockedOn[t] = reason,
             \A u \in Task : sched.blockedOn[u] = reason => u = t
      PROVE  v.blockedOn[t] = NotBlocked
  <2>1. waiting = {t}
    BY <1>3, <1>7
  <2> HIDE DEF waiting
  <2> QED
    BY <1>2, <2>1
<1>8. v.blockedOn[Idle] = NotBlocked
  BY <1>1, <1>5, KernelFacts
<1>9. SchedOK'
  <2>1. Decided(sched, sched')
    BY <1>2, <1>4 DEF Decided, SameContext
  <2> QED
    BY <1>4, <1>8, <2>1, DecidedPreserves
<1> QED
  BY <1>2, <1>4, <1>5, <1>6, <1>7, <1>9 DEF Decided, SameContext

\* The wait reasons of different channels and directions differ.
LEMMA ReasonFacts ==
  ASSUME NEW c \in Chan
  PROVE  /\ SendOn(c) \in Reason /\ SendOn(c) # NotBlocked /\ SendOn(c) # Asleep
         /\ ReceiveOn(c) \in Reason /\ ReceiveOn(c) # NotBlocked /\ ReceiveOn(c) # Asleep
         /\ \A d \in Chan : SendOn(c) # ReceiveOn(d)
         /\ \A d \in Chan : SendOn(c) = SendOn(d) => c = d
         /\ \A d \in Chan : ReceiveOn(c) = ReceiveOn(d) => c = d
BY DEF Reason, SendOn, ReceiveOn, NotBlocked, Asleep

\* A call that returns an error changes nothing but the return value.
LEMMA RejectInv ==
  ASSUME NEW e \in Errno
  PROVE  Inv /\ Reject(e) => Inv'
BY SchedUnchanged DEF Inv, DataOK, Reject

\* A call that passes its checks names a channel whose endpoint the task holds.
LEMMA CheckFacts ==
  ASSUME NEW t \in Task
  PROVE  /\ \A k \in SendCall : SendCheck(t, k) # "ok" => SendCheck(t, k) \in Errno
         /\ \A k \in SendCall : SendCheck(t, k) = "ok" => k.ch \in Chan /\ k.ch \in Sends[t]
         /\ \A k \in ReceiveCall : ReceiveCheck(t, k) # "ok" => ReceiveCheck(t, k) \in Errno
         /\ \A k \in ReceiveCall : ReceiveCheck(t, k) = "ok" => k.ch \in Chan /\ k.ch \in Receives[t]
BY DEF SendCheck, ReceiveCheck, Errno

\* Message numbers stay on their circle.
LEMMA OutboxType ==
  ASSUME Inv, NEW k, k.ch \in Chan, FillOutbox(k)
  PROVE  outbox' \in [Chan -> 0 .. (NumMod - 1)]
<1>1. outbox \in [Chan -> 0 .. (NumMod - 1)]
  BY DEF Inv, DataOK
<1>2. (outbox[k.ch] + 1) % NumMod \in 0 .. (NumMod - 1)
  <2>1. outbox[k.ch] \in 0 .. (NumMod - 1) /\ NumMod \in Nat /\ NumMod > 0
    BY <1>1, KernelAssumption
  <2>2. outbox[k.ch] + 1 \in Int
    BY <2>1
  <2> QED
    BY <2>2, KernelFacts
<1> QED
  BY <1>1, <1>2 DEF FillOutbox

\* send preserves the invariant, on each of its paths.
LEMMA SendInv ==
  ASSUME NEW k \in SendCall
  PROVE  Inv /\ SysSend(k) => Inv'
<1> SUFFICES ASSUME Inv, SysSend(k)
             PROVE  Inv'
  OBVIOUS
<1>1. SchedOK /\ Running \in Task /\ Running # Idle
  BY RunningIsTask DEF Inv, SysSend, Executes
<1>2. CASE SendCheck(Running, k) # "ok" /\ Reject(SendCheck(Running, k))
  BY <1>1, <1>2, CheckFacts, RejectInv
<1>3. CASE Reject("EAGAIN")
  BY <1>3, RejectInv DEF Errno
<1>4. ASSUME SendCheck(Running, k) = "ok", BlockAndRestart(k, SendOn(k.ch)), FillOutbox(k)
      PROVE  Inv'
  <2>1. k.ch \in Chan
    BY <1>1, <1>4, CheckFacts, SMTT(20), ZenonT(20)
  <2>2. SchedOK'
    BY <1>1, <1>4, <2>1, ReasonFacts, BlockStep DEF BlockAndRestart
  <2>3. outbox' \in [Chan -> 0 .. (NumMod - 1)]
    BY <1>4, <2>1, OutboxType
  <2>4. DataOK'
    BY <1>1, <1>4, <2>3 DEF Inv, DataOK, BlockAndRestart
  <2> QED
    BY <2>2, <2>4 DEF Inv
<1>5. ASSUME SendCheck(Running, k) = "ok", FillOutbox(k), SendCompletes(k)
      PROVE  Inv'
  <2>1. k.ch \in Chan
    BY <1>1, <1>5, CheckFacts, SMTT(20)
  <2>2. SchedOK'
    BY <1>1, <1>5, <2>1, ReasonFacts, WakeStep DEF SendCompletes
  <2>3. outbox' \in [Chan -> 0 .. (NumMod - 1)]
    BY <1>5, <2>1, OutboxType
  <2>4. chan' \in [Chan -> Seq(0 .. (NumMod - 1))]
    <3>1. Append(chan[k.ch], outbox'[k.ch]) \in Seq(0 .. (NumMod - 1))
      BY <2>1, <2>3 DEF Inv, DataOK
    <3> QED
      BY <1>5, <2>1, <3>1 DEF Inv, DataOK, SendCompletes
  <2>5. DataOK'
    BY <1>1, <1>5, <2>3, <2>4, SMTT(20) DEF Inv, DataOK, SendCompletes
  <2> QED
    BY <2>2, <2>5 DEF Inv
<1> QED
  BY <1>2, <1>3, <1>4, <1>5 DEF SysSend

\* receive preserves the invariant, on each of its paths.
LEMMA ReceiveInv ==
  ASSUME NEW k \in ReceiveCall
  PROVE  Inv /\ SysReceive(k) => Inv'
<1> SUFFICES ASSUME Inv, SysReceive(k)
             PROVE  Inv'
  OBVIOUS
<1>1. SchedOK /\ Running \in Task /\ Running # Idle
  BY RunningIsTask, Zenon DEF Inv, SysReceive, Executes
<1>2. CASE ReceiveCheck(Running, k) # "ok" /\ Reject(ReceiveCheck(Running, k))
  BY <1>1, <1>2, CheckFacts, RejectInv, SMTT(20), ZenonT(20)
<1>3. CASE Reject("EAGAIN")
  BY <1>3, RejectInv DEF Errno
<1>4. ASSUME ReceiveCheck(Running, k) = "ok", BlockAndRestart(k, ReceiveOn(k.ch)), UNCHANGED outbox
      PROVE  Inv'
  <2>1. k.ch \in Chan
    BY <1>1, <1>4, CheckFacts
  <2>2. SchedOK'
    BY <1>1, <1>4, <2>1, ReasonFacts, BlockStep DEF BlockAndRestart
  <2>3. DataOK'
    BY <1>1, <1>4, SMTT(20) DEF Inv, DataOK, BlockAndRestart
  <2> QED
    BY <2>2, <2>3 DEF Inv
<1>5. ASSUME ReceiveCheck(Running, k) = "ok", chan[k.ch] # <<>>, ReceiveCompletes(k)
      PROVE  Inv'
  <2>1. k.ch \in Chan
    BY <1>1, <1>5, CheckFacts
  <2>2. SchedOK'
    BY <1>1, <1>5, <2>1, ReasonFacts, WakeStep, Zenon DEF ReceiveCompletes
  <2>3. Head(chan[k.ch]) \in 0 .. (NumMod - 1) /\ Tail(chan[k.ch]) \in Seq(0 .. (NumMod - 1))
    <3>1. chan[k.ch] \in Seq(0 .. (NumMod - 1))
      BY <2>1 DEF Inv, DataOK
    <3> QED
      BY <1>5, <3>1, SeqHeadTail, Zenon
  <2>4. chan' \in [Chan -> Seq(0 .. (NumMod - 1))] /\ inbox' \in [Chan -> 0 .. (NumMod - 1)]
    BY <1>5, <2>1, <2>3 DEF Inv, DataOK, ReceiveCompletes
  <2>5. DataOK'
    BY <1>1, <1>5, <2>4 DEF Inv, DataOK, ReceiveCompletes
  <2> QED
    BY <2>2, <2>5 DEF Inv
<1> QED
  BY <1>2, <1>3, <1>4, <1>5, Zenon DEF SysReceive

-----------------------------------------------------------------------------
(* The theorems *)

\* Every step preserves the invariant.
LEMMA NextInv == Inv /\ [Next]_vars => Inv'
<1> SUFFICES ASSUME Inv, [Next]_vars
             PROVE  Inv'
  OBVIOUS
<1>1. CASE Timer
  BY <1>1, TimerInv
<1>2. CASE SysYield
  BY <1>2, YieldInv
<1>3. CASE \E n \in SleepArgs : SysSleep(n)
  BY <1>3, SleepInv
<1>4. CASE \E b \in BOOLEAN : SysLog(b)
  BY <1>4, PassiveInv
<1>5. CASE SysNow \/ SysUnknown \/ Overflow
  BY <1>5, PassiveInv
<1>6. CASE \E k \in SendCall : SysSend(k)
  BY <1>6, SendInv
<1>7. CASE \E k \in ReceiveCall : SysReceive(k)
  BY <1>7, ReceiveInv
<1>8. CASE FaultAndHalt
  BY <1>8, FaultInv
<1>9. CASE UNCHANGED vars
  BY <1>9, PassiveInv
<1> QED
  BY <1>1, <1>2, <1>3, <1>4, <1>5, <1>6, <1>7, <1>8, <1>9 DEF Next, Halted

\* The invariant holds in every reachable state.
LEMMA InvAlways == Spec => []Inv
BY InitInv, NextInv, PTL DEF Spec

\* The kernel's variables always have their types.
THEOREM TypeCorrect == Spec => []TypeOK
BY InvAlways, InvImpliesTypeOK, PTL

\* The kernel never runs out of runnable tasks or of queue entries, whatever
\* the tasks do: the two fatal paths inside the scheduler are dead code.
THEOREM NeverStuckAlways == Spec => []NeverStuck
<1>1. Inv => NeverStuck
  BY SMTT(20), ZenonT(20) DEF Inv, SchedOK
<1> QED
  BY <1>1, InvAlways, PTL

\* The state, the wait reason, the ready queue and the current index of the
\* scheduler agree after every trap.
THEOREM TablesAgreeAlways == Spec => []TablesAgree
<1>1. Inv => TablesAgree
  <2> SUFFICES ASSUME Inv
               PROVE  TablesAgree
    BY SMTT(20), ZenonT(20)
  <2>1. Settled(sched) /\ Consistent(sched) /\ IsInjective(sched.rq) /\ Range(sched.rq) = ReadySet(sched)
    BY DEF Inv, SchedOK, Settled, Consistent, Lists
  <2>2. \A t \in Task : sched.state[t] = "Ready" <=> \E i \in DOMAIN sched.rq : sched.rq[i] = t
    BY <2>1 DEF Range, ReadySet
  <2> QED
    BY <2>1, <2>2 DEF TablesAgree, Settled, Consistent, IsInjective
<1> QED
  BY <1>1, InvAlways, PTL

\* No trap ever runs on, or restores, another task's context.
THEOREM ContextIsOwnAlways == Spec => []ContextIsOwn
<1>1. Inv => ContextIsOwn
  BY DEF Inv, SchedOK, Settled, Consistent, ContextIsOwn
<1> QED
  BY <1>1, InvAlways, PTL

\* The kernel always returns to a task of the highest effective priority.
THEOREM RunsTheHighestAlways == Spec => []RunsTheHighest
<1>1. Inv => RunsTheHighest
  BY DEF Inv, SchedOK, Highest, RunsTheHighest, Runnable
<1> QED
  BY <1>1, InvAlways, PTL

\* The promise of CA-PIP, from the priorities computed at build time and the
\* rule that the highest effective priority runs.
THEOREM NoPriorityInversionAlways == Spec => []NoPriorityInversion
<1>1. Inv => NoPriorityInversion
  <2> SUFFICES ASSUME Inv, NEW l \in Task, NEW h \in Reach[l], Runnable(l)
               PROVE  Eff[sched.cur] >= Priority[h]
    BY DEF NoPriorityInversion
  <2>1. Eff[l] <= Eff[sched.cur] /\ sched.cur \in Task
    BY StateFields DEF Inv, SchedOK, Highest, Runnable, Settled, Consistent
  <2>2. Eff[l] >= Priority[h] /\ h \in Task
    BY EffFacts
  <2>3. Eff[l] \in Int /\ Eff[sched.cur] \in Int /\ Priority[h] \in Int
    <3>1. Eff[l] \in Int /\ Eff[sched.cur] \in Int
      BY <2>1, EffInt
    <3>2. Priority[h] \in PriorityRange
      BY <2>2, TaskTableAssumption
    <3>3. \A p \in PriorityRange : p \in Int
      BY DEF PriorityRange
    <3> QED
      BY <3>1, <3>2, <3>3
  <2> QED
    BY <2>1, <2>2, <2>3
<1> QED
  BY <1>1, InvAlways, PTL

-----------------------------------------------------------------------------
(* The count of the quantum *)

\* The count starts over, or the same task goes on with it.
Continues(s, r) == r.since = 0 \/ (r.cur = s.cur /\ r.since = s.since)

\* dispatch_next starts a new count, unless it finds no task.
LEMMA DispatchContinues ==
  ASSUME NEW s, NEW m, {"cur", "since"} \subseteq DOMAIN m, m.cur = s.cur, m.since = s.since
  PROVE  Continues(s, DispatchNext(m))
<1> DEFINE t == m.rq[Best(m.rq)]
           p == [m EXCEPT !.rq = Without(m.rq, Best(m.rq))]
           g == MarkRunning(p, t)
<1>1. CASE m.rq = <<>>
  <2>1. DispatchNext(m) = [m EXCEPT !.halt = "no runnable task"]
    BY <1>1 DEF DispatchNext
  <2>2. DispatchNext(m).cur = m.cur /\ DispatchNext(m).since = m.since
    BY <2>1, Zenon
  <2> QED
    BY <2>2, Zenon DEF Continues
<1>2. CASE m.rq # <<>>
  <2>1. DispatchNext(m) = TrapExit(g, m.saved[t])
    BY <1>2 DEF DispatchNext
  <2>2. DispatchNext(m).since = 0
    BY <2>1 DEF TrapExit, MarkRunning
  <2> QED
    BY <2>2 DEF Continues
<1> QED
  BY <1>1, <1>2

\* A call that blocks or sleeps starts a new count for the next task.
LEMMA ParkContinues ==
  ASSUME SchedOK
  PROVE  /\ \A n : Continues(sched, SleepCurrent(sched, ticks, n))
         /\ \A reason : Continues(sched, BlockCurrent(sched, reason))
<1>1. SaveCurrent(sched) = sched /\ {"cur", "since"} \subseteq DOMAIN sched
  <2>1. Settled(sched) /\ sched \in SchedulerState
    BY Zenon DEF SchedOK, Settled, Consistent
  <2>2. {"cur", "since"} \subseteq DOMAIN sched
    BY <2>1, SMTT(20), ZenonT(20) DEF SchedulerState
  <2> QED
    BY <2>1, <2>2, SaveFacts, Zenon
<1>2. ASSUME NEW n
      PROVE  Continues(sched, SleepCurrent(sched, ticks, n))
  <2> DEFINE m == [sched EXCEPT !.state[sched.cur] = "Blocked", !.blockedOn[sched.cur] = Asleep,
                                !.wakeAt[sched.cur] = WakeTime(ticks, n)]
  <2>1. SleepCurrent(sched, ticks, n) = DispatchNext(m)
    BY <1>1, Zenon DEF SleepCurrent, WakeTime
  <2>2. {"cur", "since"} \subseteq DOMAIN m /\ m.cur = sched.cur /\ m.since = sched.since
    BY <1>1, SMTT(20), ZenonT(20)
  <2> HIDE DEF m
  <2> QED
    BY <2>1, <2>2, DispatchContinues, Zenon
<1>3. ASSUME NEW reason
      PROVE  Continues(sched, BlockCurrent(sched, reason))
  <2> DEFINE m == [sched EXCEPT !.state[sched.cur] = "Blocked", !.blockedOn[sched.cur] = reason]
  <2>1. BlockCurrent(sched, reason) = DispatchNext(m)
    BY <1>1, Zenon DEF BlockCurrent
  <2>2. {"cur", "since"} \subseteq DOMAIN m /\ m.cur = sched.cur /\ m.since = sched.since
    BY <1>1, SMTT(20), ZenonT(20)
  <2> HIDE DEF m
  <2> QED
    BY <2>1, <2>2, DispatchContinues, Zenon
<1> QED
  BY <1>2, <1>3, Zenon

\* A yield, or a call that wakes a task of higher priority, starts a new count;
\* otherwise the caller goes on with its own.
LEMMA RedecideContinues ==
  ASSUME SchedOK
  PROVE  /\ Continues(sched, YieldCurrent(sched))
         /\ \A reason : Continues(sched, PreemptIfOutranked(WakeBlockedOn(sched, reason)))
<1>1. Settled(sched)
  BY Zenon DEF SchedOK
<1>2. ASSUME NEW s, Settled(s)
      PROVE  DispatchNext(RequeueCurrent(SaveCurrent(s))).since = 0
  BY <1>2, SaveFacts, RescheduleFacts
<1>3. ASSUME NEW reason
      PROVE  Continues(sched, PreemptIfOutranked(WakeBlockedOn(sched, reason)))
  <2> DEFINE v == WakeBlockedOn(sched, reason)
  <2>1. Settled(v) /\ v.cur = sched.cur /\ v.since = sched.since
    BY <1>1, WakeBlockedFacts, ZenonT(60) DEF SameContext
  <2> HIDE DEF v
  <2>2. PreemptIfOutranked(v) \in {v, DispatchNext(RequeueCurrent(SaveCurrent(v)))}
    BY DEF PreemptIfOutranked
  <2>3. Continues(sched, PreemptIfOutranked(v))
    BY <1>2, <2>1, <2>2 DEF Continues
  <2> QED
    BY <2>3 DEF v
<1> QED
  BY <1>1, <1>2, <1>3, Zenon DEF YieldCurrent, Continues

\* No system call counts a tick.
LEMMA CallContinues ==
  ASSUME Inv, Next, ~Timer
  PROVE  Continues(sched, sched') /\ ticks' = ticks
<1>1. SchedOK
  BY DEF Inv
<1>2. CASE UNCHANGED <<sched, ticks>>
  BY <1>2, Zenon DEF Continues
<1>3. CASE SysYield
  BY <1>1, <1>3, RedecideContinues, Zenon DEF SysYield
<1>4. ASSUME NEW n, SysSleep(n)
      PROVE  Continues(sched, sched') /\ ticks' = ticks
  BY <1>1, <1>4, ParkContinues, Zenon DEF SysSleep
<1>5. CASE FaultAndHalt
  <2>1. sched \in SchedulerState
    BY <1>1 DEF SchedOK, Settled, Consistent
  <2> QED
    BY <1>5, <2>1 DEF FaultAndHalt, Continues, SchedulerState
<1>6. ASSUME NEW k, NEW reason, BlockAndRestart(k, reason)
      PROVE  Continues(sched, sched') /\ ticks' = ticks
  BY <1>1, <1>6, ParkContinues, Zenon DEF BlockAndRestart
<1>7. ASSUME NEW k, SendCompletes(k) \/ ReceiveCompletes(k)
      PROVE  Continues(sched, sched') /\ ticks' = ticks
  BY <1>1, <1>7, RedecideContinues, Zenon DEF SendCompletes, ReceiveCompletes
<1>8. ASSUME NEW k, SysSend(k) \/ SysReceive(k)
      PROVE  Continues(sched, sched') /\ ticks' = ticks
  BY <1>2, <1>6, <1>7, <1>8, Zenon DEF SysSend, SysReceive, Reject
<1> QED
  BY <1>2, <1>3, <1>4, <1>5, <1>8, Zenon DEF Next, SysLog, SysNow, SysUnknown, Overflow, Halted, vars

\* A timer interrupt counts one tick, or starts a new count.
LEMMA TimerCounts ==
  ASSUME NEW s, Settled(s), s.halt = "no", NEW now, NEW broken
  PROVE  LET r == OnTimerInterrupt(s, now, broken)
         IN  r.since = 0 \/ (r.cur = s.cur /\ r.since <= s.since + 1)
<1> DEFINE r == OnTimerInterrupt(s, now, broken)
           v == MakeReady(s, Due(s, now))
           c == [v EXCEPT !.since = (@ + 1) % TickMod]
           w == DispatchNext(RequeueCurrent(c))
<1>1. s \in SchedulerState /\ s.since \in Int
  BY StateFields, TickModFacts DEF Settled, Consistent, Tick
<1>2. SaveCurrent(s) = s
  BY SaveFacts
<1>3. CASE broken # {}
  <2>1. r = [s EXCEPT !.halt = "stack canary"]
    BY <1>1, <1>2, <1>3 DEF OnTimerInterrupt, CheckStackCanaries, SchedulerState
  <2>2. r.cur = s.cur /\ r.since = s.since
    BY <1>1, <2>1, Zenon DEF SchedulerState
  <2> HIDE DEF r
  <2>3. r.cur = s.cur /\ r.since <= s.since + 1
    BY <1>1, <2>2
  <2> QED
    BY <2>3, Zenon DEF r
<1>4. CASE broken = {}
  <2>1. r = TickCheck(v)
    BY <1>2, <1>4 DEF OnTimerInterrupt, CheckStackCanaries, WakeSleepers, Due
  <2>2. Settled(v) /\ v.cur = s.cur /\ v.since = s.since
    <3>1. Due(s, now) \in SUBSET Task /\ \A t \in Due(s, now) : s.state[t] = "Blocked"
      BY DEF Due, Sleepers
    <3>2. Settled(v) /\ SameContext(s, v)
      BY <3>1, WakeSettles, ZenonT(40)
    <3> HIDE DEF v
    <3> QED
      BY <3>2 DEF SameContext
  <2>3. r \in {c, TrapExit(w, TrapEntry(v)), w}
    <3> HIDE DEF r, v
    <3> QED
      BY <2>1, SMTT(20), ZenonT(20) DEF TickCheck
  <2> HIDE DEF r, v
  <2>4. v \in SchedulerState /\ v.since \in Tick
    BY <2>2, StateFields DEF Settled, Consistent
  <2>5. (v.since + 1) % TickMod \in Tick /\ (v.since + 1) % TickMod <= v.since + 1
    BY <2>4, TickModFacts DEF Tick
  <2>6. /\ c \in SchedulerState /\ c.cur = v.cur /\ c.state = v.state /\ c.rq = v.rq
        /\ c.blockedOn = v.blockedOn /\ c.wakeAt = v.wakeAt /\ c.saved = v.saved
        /\ c.frame = v.frame /\ c.region = v.region /\ c.halt = v.halt
        /\ c.since = (v.since + 1) % TickMod
    BY <2>4, <2>5, SMTT(20), ZenonT(20) DEF SchedulerState
  <2> HIDE DEF c
  <2>7. w.since = 0 /\ w \in SchedulerState
    <3>1. Settled(c)
      BY <2>2, <2>6, SameTables
    <3> QED
      BY <3>1, RescheduleFacts, ZenonT(20) DEF Decided, Settled, Consistent
  <2> HIDE DEF w
  <2>8. TrapExit(w, TrapEntry(v)).since = 0
    BY <2>7, SMTT(20), ZenonT(20) DEF TrapExit, SchedulerState
  <2>9. r.since = 0 \/ (r.cur = s.cur /\ r.since <= s.since + 1)
    BY <2>2, <2>3, <2>5, <2>6, <2>7, <2>8
  <2> QED
    BY <2>9 DEF r
<1> QED
  BY <1>3, <1>4, Zenon

\* The timer takes the processor only for a higher effective priority, or for
\* an equal one after a whole quantum, counted from the task's own dispatch.
THEOREM PreemptionIsJustifiedAlways == Spec => PreemptionIsJustified
<1> DEFINE A == /\ sched'.cur # sched.cur /\ ticks' # ticks => Justified(sched, sched')
                /\ CountIsOwn(IF ticks' = ticks THEN 0 ELSE 1)
<1>1. Inv /\ [Next]_vars => [A]_vars
  <2> SUFFICES ASSUME Inv, Next
               PROVE  A
    OBVIOUS
  <2>1. CASE Timer
    <3>1. SchedOK /\ ticks \in Tick
      BY DEF Inv, DataOK
    <3>2. ticks' # ticks
      BY <2>1, <3>1, TickModFacts DEF Timer, TimerIsr, NextTick, Tick
    <3>3. CountIsOwn(1)
      <4>1. Settled(sched) /\ sched.halt = "no" /\ sched' = OnTimerInterrupt(sched, NextTick, overflowed)
        BY <2>1, <3>1 DEF SchedOK, Timer, TimerIsr
      <4> QED
        BY <4>1, TimerCounts, Zenon DEF CountIsOwn
    <3> QED
      BY <2>1, <3>1, <3>2, <3>3, TimerStep, Zenon
  <2>2. CASE ~Timer
    <3>1. Continues(sched, sched') /\ ticks' = ticks
      BY <2>2, CallContinues, Zenon
    <3>2. sched.since + 0 = sched.since /\ sched.since <= sched.since
      BY StateFields, TickModFacts DEF Inv, SchedOK, Settled, Consistent, Tick
    <3>3. CountIsOwn(0)
      BY <3>1, <3>2, Zenon DEF CountIsOwn, Continues
    <3> QED
      BY <3>1, <3>3
  <2> QED
    BY <2>1, <2>2
<1>2. Spec => [][A]_vars
  BY <1>1, InvAlways, PTL DEF Spec
<1> QED
  BY <1>2 DEF PreemptionIsJustified, Justified

-----------------------------------------------------------------------------
(* sleep(n) *)

\* For a sleeper, left counts the ticks up to its deadline, on the circle of
\* the wrapping counter.
SleepersOK ==
  sched.halt = "no" =>
    \A t \in Task : sched.blockedOn[t] = Asleep =>
      /\ left[t] \in 1 .. (HalfRange + 1)
      /\ sched.wakeAt[t] = (ticks + left[t]) % TickMod

\* The signed comparison of tick_reached, on the circle: a deadline at most
\* half the range and one tick ahead is reached exactly at its tick.
LEMMA ReachedExactly ==
  ASSUME NEW T \in Tick, NEW n \in 1 .. (HalfRange + 1)
  PROVE  /\ TickReached((T + 1) % TickMod, (T + n) % TickMod) <=> n = 1
         /\ (T + n) % TickMod = (((T + 1) % TickMod) + (n - 1)) % TickMod
<1> DEFINE M == TickMod
           now == (T + 1) % M
           w == (T + n) % M
<1>1. /\ HalfRange \in Nat /\ HalfRange > 0 /\ M \in Nat /\ M > 0 /\ M = 2 * HalfRange
      /\ T \in Int /\ 0 <= T /\ T < M /\ n \in Int /\ 1 <= n /\ n <= HalfRange + 1
  BY SchedulerAssumption DEF TickMod, Tick
<1>2. now = IF T + 1 < M THEN T + 1 ELSE T + 1 - M
  <2>1. T + 1 \in Int /\ T + 1 >= 0 /\ T + 1 < 2 * M
    BY <1>1
  <2> HIDE DEF M
  <2> QED
    BY <1>1, <2>1, ModFacts
<1>3. w = IF T + n < M THEN T + n ELSE T + n - M
  <2>1. T + n \in Int /\ T + n >= 0 /\ T + n < 2 * M
    BY <1>1
  <2> HIDE DEF M
  <2> QED
    BY <1>1, <2>1, ModFacts
<1> HIDE DEF now, w, M
<1>4. n = 1 => (now - w) % M = 0
  <2>1. n = 1 => now - w = 0
    BY <1>1, <1>2, <1>3
  <2>2. 0 % M = 0
    BY <1>1
  <2> QED
    BY <2>1, <2>2
<1>5. n # 1 => (now - w) % M >= HalfRange
  <2>1. CASE now - w = 1 - n
    <3>1. n # 1 => now - w < 0 /\ now - w >= -M /\ now - w + M >= HalfRange
      BY <1>1, <2>1
    <3>2. now - w \in Int
      BY <1>1, <2>1
    <3> QED
      BY <1>1, <3>1, <3>2, ModFacts
  <2>2. CASE now - w = 1 - n + M
    <3>1. n # 1 => now - w >= 0 /\ now - w < M /\ now - w >= HalfRange
      BY <1>1, <2>2
    <3>2. now - w \in Int
      BY <1>1, <2>2
    <3> QED
      BY <1>1, <3>1, <3>2, ModFacts
  <2>3. now - w = 1 - n \/ now - w = 1 - n + M
    BY <1>1, <1>2, <1>3
  <2> QED
    BY <2>1, <2>2, <2>3
<1>6. (now - w) % M \in Int
  BY <1>1, <1>2, <1>3
<1>7. TickReached(now, w) <=> n = 1
  BY <1>1, <1>4, <1>5, <1>6 DEF TickReached, M
<1>8. w = (now + (n - 1)) % M
  <2> DEFINE y == now + (n - 1)
  <2>1. y \in Int /\ y >= 0 /\ y < 2 * M
    BY <1>1, <1>2
  <2>2. w = IF y < M THEN y ELSE y - M
    BY <1>1, <1>2, <1>3
  <2> HIDE DEF y
  <2>3. y % M = IF y < M THEN y ELSE y - M
    BY <1>1, <2>1, ModFacts, SMTT(20), ZenonT(20)
  <2> QED
    BY <2>2, <2>3 DEF y
<1> QED
  BY <1>7, <1>8 DEF now, w, M

\* Only the timer ends a sleep and only sleep begins one.
LEMMA SleepSteps ==
  ASSUME Inv, [Next]_vars
  PROVE  \/ Timer
         \/ \E n \in SleepArgs : SysSleep(n)
         \/ /\ ticks' = ticks /\ left' = left /\ sched'.wakeAt = sched.wakeAt
            /\ sched'.halt = "no" => sched.halt = "no"
            /\ \A t \in Task : sched'.blockedOn[t] = Asleep <=> sched.blockedOn[t] = Asleep
<1> DEFINE Goal ==
      /\ ticks' = ticks /\ left' = left /\ sched'.wakeAt = sched.wakeAt
      /\ sched'.halt = "no" => sched.halt = "no"
      /\ \A t \in Task : sched'.blockedOn[t] = Asleep <=> sched.blockedOn[t] = Asleep
<1>0. SchedOK /\ Running \in Task /\ sched.blockedOn[Running] = NotBlocked /\ NotBlocked # Asleep
  BY RunningIsTask DEF Inv, Settled, Consistent, Running, NotBlocked, Asleep
<1>1. CASE UNCHANGED <<sched, ticks, left>>
  BY <1>1, SMTT(20), ZenonT(20)
<1>2. CASE SysYield
  <2>1. sched'.blockedOn = sched.blockedOn /\ sched'.wakeAt = sched.wakeAt /\ sched'.halt = sched.halt
    BY <1>2, YieldFacts DEF Inv, SchedOK, SysYield, Decided
  <2> QED
    BY <1>2, <2>1 DEF SysYield
<1>3. CASE FaultAndHalt
  BY <1>3 DEF Inv, SchedOK, Settled, Consistent, SchedulerState, FaultAndHalt
<1>4. ASSUME NEW k, NEW reason \in Reason, reason \notin {NotBlocked, Asleep}, Running # Idle,
             BlockAndRestart(k, reason)
      PROVE  Goal
  <2>1. /\ \A t \in Task : sched'.blockedOn[t] = IF t = Running THEN reason ELSE sched.blockedOn[t]
        /\ sched'.wakeAt = sched.wakeAt /\ sched'.halt = sched.halt
    BY <1>0, <1>4, BlockStep, SMTT(20), ZenonT(20) DEF BlockAndRestart
  <2> QED
    BY <1>0, <1>4, <2>1, SMTT(20) DEF BlockAndRestart
<1>5. ASSUME NEW reason \in Reason, reason \notin {NotBlocked, Asleep}, UNCHANGED <<ticks, left>>,
             sched' = PreemptIfOutranked(WakeBlockedOn(sched, reason))
      PROVE  Goal
  <2>1. /\ \A t \in Task : sched'.blockedOn[t] \in {NotBlocked, sched.blockedOn[t]}
        /\ \A t \in Task : sched.blockedOn[t] # reason => sched'.blockedOn[t] = sched.blockedOn[t]
        /\ sched'.wakeAt = sched.wakeAt /\ sched'.halt = sched.halt
    BY <1>0, <1>5, WakeStep, Zenon
  <2> QED
    BY <1>0, <1>5, <2>1, SMTT(20)
<1>6. CASE \E k \in SendCall : SysSend(k)
  <2>1. PICK k \in SendCall : SysSend(k)
    BY <1>6, SMTT(20)
  <2>2. CASE SendCheck(Running, k) = "ok" /\ BlockAndRestart(k, SendOn(k.ch))
    BY <1>0, <1>4, <2>1, <2>2, CheckFacts, ReasonFacts, ZenonT(30) DEF SysSend, Executes
  <2>3. CASE SendCheck(Running, k) = "ok" /\ SendCompletes(k)
    BY <1>0, <1>5, <2>3, CheckFacts, ReasonFacts, ZenonT(30) DEF SendCompletes
  <2>4. \/ UNCHANGED <<sched, ticks, left>>
        \/ SendCheck(Running, k) = "ok" /\ BlockAndRestart(k, SendOn(k.ch))
        \/ SendCheck(Running, k) = "ok" /\ SendCompletes(k)
    BY <2>1, Zenon DEF SysSend, Reject
  <2> QED
    BY <1>1, <2>2, <2>3, <2>4, Zenon
<1>7. CASE \E k \in ReceiveCall : SysReceive(k)
  <2>1. PICK k \in ReceiveCall : SysReceive(k)
    BY <1>7, Zenon
  <2>2. CASE ReceiveCheck(Running, k) = "ok" /\ BlockAndRestart(k, ReceiveOn(k.ch))
    BY <1>0, <1>4, <2>1, <2>2, CheckFacts, ReasonFacts, ZenonT(30) DEF SysReceive, Executes
  <2>3. CASE ReceiveCheck(Running, k) = "ok" /\ ReceiveCompletes(k)
    BY <1>0, <1>5, <2>3, CheckFacts, ReasonFacts, ZenonT(30) DEF ReceiveCompletes
  <2>4. \/ UNCHANGED <<sched, ticks, left>>
        \/ ReceiveCheck(Running, k) = "ok" /\ BlockAndRestart(k, ReceiveOn(k.ch))
        \/ ReceiveCheck(Running, k) = "ok" /\ ReceiveCompletes(k)
    BY <2>1, Zenon DEF SysReceive, Reject
  <2> QED
    BY <1>1, <2>2, <2>3, <2>4, Zenon
<1> HIDE DEF Goal
<1>8. CASE SysYield \/ FaultAndHalt \/ UNCHANGED <<sched, ticks, left>>
  BY <1>1, <1>2, <1>3, <1>8, SMTT(20), ZenonT(20) DEF Goal
<1> QED
  BY <1>6, <1>7, <1>8
     DEF Next, SysLog, SysNow, SysUnknown, Overflow, Halted, vars, Goal

\* Who sleeps can be read off the wait reasons alone.
LEMMA SleepersAre ==
  ASSUME NEW s, Settled(s)
  PROVE  Sleepers(s) = {t \in Task : s.blockedOn[t] = Asleep}
BY DEF Settled, Consistent, Sleepers, Asleep, NotBlocked

\* The same for the scheduler's state.
LEMMA SleepersFacts ==
  Inv => Sleepers(sched) = {t \in Task : sched.blockedOn[t] = Asleep}
BY SleepersAre DEF Inv, SchedOK

\* A timer interrupt ends the sleeps with one tick left.
LEMMA TimerSleep ==
  ASSUME Inv, SleepersOK, Timer, sched'.halt = "no", NEW t \in Task, sched.blockedOn[t] = Asleep
  PROVE  /\ left[t] \in 1 .. (HalfRange + 1)
         /\ sched'.blockedOn[t] = Asleep <=> left[t] > 1
         /\ left[t] > 1 => left'[t] = left[t] - 1 /\ sched'.wakeAt[t] = (ticks' + left'[t]) % TickMod
<1>1. sched.halt = "no" /\ ticks' = (ticks + 1) % TickMod /\ NextTick = (ticks + 1) % TickMod
  BY DEF Timer, TimerIsr, NextTick
<1>2. left[t] \in 1 .. (HalfRange + 1) /\ sched.wakeAt[t] = (ticks + left[t]) % TickMod /\ ticks \in Tick
  BY <1>1 DEF SleepersOK, Inv, DataOK
<1>3. /\ TickReached((ticks + 1) % TickMod, (ticks + left[t]) % TickMod) <=> left[t] = 1
      /\ (ticks + left[t]) % TickMod = (((ticks + 1) % TickMod) + (left[t] - 1)) % TickMod
  BY <1>2, ReachedExactly
<1>4. t \in Sleepers(sched)
  BY SleepersFacts
<1>5. t \in Due(sched, NextTick) <=> left[t] = 1
  BY <1>1, <1>2, <1>3, <1>4, SMTT(20), ZenonT(20) DEF Due
<1>6. /\ sched'.blockedOn[t] = IF t \in Due(sched, NextTick) THEN NotBlocked ELSE sched.blockedOn[t]
      /\ sched'.wakeAt = sched.wakeAt
  BY TimerStep DEF Inv
<1>7. left[t] \in Int /\ left[t] >= 1
  BY <1>2, SchedulerAssumption
<1>8. left'[t] = Max({left[t] - 1, 0})
  BY <1>4 DEF Timer
<1>9. left[t] > 1 => left'[t] = left[t] - 1
  <2>1. left[t] - 1 \in Int /\ 0 \in Int
    BY <1>7
  <2>2. Max({left[t] - 1, 0}) = IF left[t] - 1 >= 0 THEN left[t] - 1 ELSE 0
    BY <2>1, MaxOfTwo
  <2> QED
    BY <1>7, <1>8, <2>2
<1>10. NotBlocked # Asleep
  BY DEF NotBlocked, Asleep
<1> QED
  BY <1>1, <1>2, <1>3, <1>5, <1>6, <1>7, <1>9, <1>10, SMTT(20), ZenonT(20)

\* No sleep is longer than the signed comparison of tick_reached can tell.
ShortSleeps == SleepArgs \subseteq 0 .. (HalfRange + 1)

\* Every step keeps the count and the deadline of a sleeper in agreement.
LEMMA NextSleep ==
  ASSUME ShortSleeps
  PROVE  Inv /\ SleepersOK /\ [Next]_vars => SleepersOK'
<1> SUFFICES ASSUME Inv, SleepersOK, [Next]_vars, sched'.halt = "no", NEW t \in Task,
                    sched'.blockedOn[t] = Asleep
             PROVE  /\ left'[t] \in 1 .. (HalfRange + 1)
                    /\ sched'.wakeAt[t] = (ticks' + left'[t]) % TickMod
  BY DEF SleepersOK
<1>0. HalfRange \in Nat /\ HalfRange > 0
  BY SchedulerAssumption, SMTT(20)
<1>1. CASE Timer
  <2>1. sched.blockedOn[t] = Asleep
    BY <1>1, TimerStep DEF Inv, NotBlocked, Asleep
  <2>2. /\ left[t] \in 1 .. (HalfRange + 1) /\ left[t] > 1
        /\ left'[t] = left[t] - 1 /\ sched'.wakeAt[t] = (ticks' + left'[t]) % TickMod
    BY <1>1, <2>1, TimerSleep
  <2>3. left[t] - 1 \in 1 .. (HalfRange + 1)
    BY <1>0, <2>2
  <2> QED
    BY <2>2, <2>3, Zenon
<1>2. ASSUME NEW n \in SleepArgs, SysSleep(n)
      PROVE  /\ left'[t] \in 1 .. (HalfRange + 1)
             /\ sched'.wakeAt[t] = (ticks' + left'[t]) % TickMod
  <2>1. /\ \A u \in Task : sched'.blockedOn[u] = IF u = sched.cur THEN Asleep ELSE sched.blockedOn[u]
        /\ \A u \in Task : sched'.wakeAt[u] = IF u = sched.cur THEN WakeTime(ticks, n) ELSE sched.wakeAt[u]
        /\ sched'.halt = sched.halt
    BY <1>2, SleepStep, SMTT(20)
  <2>2. left' = [left EXCEPT ![sched.cur] = Max({n, 1})] /\ ticks' = ticks /\ left \in [Task -> Tick]
    BY <1>2 DEF SysSleep, Running, Inv, DataOK
  <2>3. CASE t = sched.cur
    <3>1. left'[t] = Max({n, 1}) /\ sched'.wakeAt[t] = (ticks + Max({n, 1})) % TickMod
      BY <2>1, <2>2, <2>3, Zenon DEF WakeTime
    <3>2. n \in 0 .. (HalfRange + 1)
      BY DEF ShortSleeps
    <3>3. Max({n, 1}) = IF n >= 1 THEN n ELSE 1
      BY <1>0, <3>2, MaxOfTwo
    <3>4. Max({n, 1}) \in 1 .. (HalfRange + 1)
      BY <1>0, <3>2, <3>3, SMTT(20), ZenonT(20)
    <3> QED
      BY <2>2, <3>1, <3>4
  <2>4. CASE t # sched.cur
    <3>1. sched.blockedOn[t] = Asleep /\ left'[t] = left[t] /\ sched'.wakeAt[t] = sched.wakeAt[t]
      BY <2>1, <2>2, <2>4, SMTT(20)
    <3> QED
      BY <2>1, <2>2, <3>1, SMTT(20) DEF SleepersOK
  <2> QED
    BY <2>3, <2>4
<1>3. ASSUME ticks' = ticks, left' = left, sched'.wakeAt = sched.wakeAt, sched.halt = "no",
             sched.blockedOn[t] = Asleep
      PROVE  /\ left'[t] \in 1 .. (HalfRange + 1)
             /\ sched'.wakeAt[t] = (ticks' + left'[t]) % TickMod
  BY <1>3 DEF SleepersOK
<1> QED
  BY <1>1, <1>2, <1>3, SleepSteps, SMTT(20)

\* In one step a sleeper wakes exactly when its last tick is counted.
LEMMA SleepStepExact ==
  ASSUME Inv, SleepersOK, [Next]_vars, NEW t \in Sleepers(sched), sched'.halt = "no", Inv'
  PROVE  t \in Sleepers(sched') <=> (ticks' = ticks \/ left[t] > 1)
<1>1. /\ t \in Task /\ sched.blockedOn[t] = Asleep
      /\ t \in Sleepers(sched') <=> sched'.blockedOn[t] = Asleep
  <2>1. Sleepers(sched) = {u \in Task : sched.blockedOn[u] = Asleep}
    BY SleepersFacts, SMTT(20)
  <2>2. Sleepers(sched') = {u \in Task : sched'.blockedOn[u] = Asleep}
    BY SleepersAre DEF Inv, SchedOK
  <2> QED
    BY <2>1, <2>2
<1>2. CASE Timer
  <2>1. ticks' # ticks
    <3>1. ticks \in Tick /\ ticks' = (ticks + 1) % TickMod
      BY <1>2 DEF Inv, DataOK, Timer, TimerIsr, NextTick
    <3>2. TickMod \in Nat /\ TickMod > 1 /\ ticks \in Int /\ 0 <= ticks /\ ticks < TickMod
      BY <3>1, TickModFacts DEF Tick
    <3>3. ticks + 1 < TickMod => (ticks + 1) % TickMod = ticks + 1
      BY <3>2, ModFacts
    <3>4. ticks + 1 >= TickMod => (ticks + 1) % TickMod = 0
      <4>1. ticks + 1 >= TickMod => ticks + 1 = TickMod
        BY <3>2
      <4>2. TickMod % TickMod = 0
        BY <3>2
      <4> QED
        BY <4>1, <4>2
    <3> QED
      BY <3>1, <3>2, <3>3, <3>4
  <2> QED
    BY <1>1, <1>2, <2>1, TimerSleep
<1>3. CASE \E n \in SleepArgs : SysSleep(n)
  <2>1. PICK n \in SleepArgs : SysSleep(n)
    BY <1>3
  <2>2. sched'.blockedOn[t] = Asleep
    BY <1>1, <2>1, SleepStep
  <2> QED
    BY <1>1, <2>1, <2>2 DEF SysSleep
<1> QED
  BY <1>1, <1>2, <1>3, SleepSteps

\* sleep(n) ends exactly with its tick, whatever the width of the counter and
\* across its wraparound, as long as n is at most half the range and one.
THEOREM SleepExactAlways ==
  ASSUME ShortSleeps
  PROVE  Spec => SleepExact
<1>1. Init => SleepersOK
  <2> SUFFICES ASSUME Init, NEW t \in Task
               PROVE  sched.blockedOn[t] # Asleep
    BY DEF SleepersOK
  <2> QED
    BY BootFacts DEF Init, NotBlocked, Asleep
<1>2. Inv /\ SleepersOK /\ [Next]_vars => SleepersOK'
  BY NextSleep
<1> DEFINE A == \A t \in Sleepers(sched) :
                  sched'.halt = "no" => (t \in Sleepers(sched') <=> (ticks' = ticks \/ left[t] > 1))
<1>3. Inv /\ SleepersOK /\ Inv' /\ [Next]_vars => [A]_vars
  BY SleepStepExact
<1>4. Spec => [][A]_vars
  <2> HIDE DEF A
  <2> QED
    BY <1>1, <1>2, <1>3, InvAlways, PTL DEF Spec
<1> QED
  BY <1>4 DEF SleepExact

=============================================================================
