---------------------------- MODULE BuildProofs ----------------------------
(***************************************************************************)
(* The task tables: the build script's table holds the inherited           *)
(* priorities and its search for cycles misses none and invents none, for  *)
(* every contention graph on any number of tasks; the boot code's          *)
(* detectors accept exactly the sound task tables, for every table and     *)
(* every limit.                                                            *)
(***************************************************************************)
EXTENDS Build, Boot, TLAPS, FiniteSetTheorems

-----------------------------------------------------------------------------
(* Extrema, sequences without repetition, reachability *)

\* A nonempty set of naturals has a least element.
LEMMA NatMin ==
  ASSUME NEW S \in SUBSET Nat, S # {}
  PROVE  \E x \in S : \A y \in S : x <= y
<1>1. PICK x \in S : \A y \in S : ~(<<y, x>> \in OpToRel(<, Nat))
  BY WFMin, NatLessThanWellFounded, Zenon
<1>2. ASSUME NEW y \in S, y < x
      PROVE  <<y, x>> \in OpToRel(<, Nat)
  BY <1>2, Zenon DEF OpToRel
<1>3. \A y \in S : ~(y < x)
  BY <1>1, <1>2, Zenon
<1> QED
  BY <1>3

\* Min of the library returns a least element of a set of naturals.
LEMMA MinProperty ==
  ASSUME NEW S \in SUBSET Nat, S # {}
  PROVE  Min(S) \in S /\ \A y \in S : Min(S) <= y
BY NatMin, Zenon DEF Min

\* The MIP is joined two values at a time.
LEMMA MaxOfTwo ==
  ASSUME NEW a \in Int, NEW b \in Int
  PROVE  Max({a, b}) = IF a >= b THEN a ELSE b
<1> DEFINE m == IF a >= b THEN a ELSE b
<1>1. m \in {a, b} /\ \A y \in {a, b} : m >= y
  OBVIOUS
<1>2. \A x \in {a, b} : (\A y \in {a, b} : x >= y) => x = m
  OBVIOUS
<1> HIDE DEF m
<1>3. Max({a, b}) = m
  BY <1>1, <1>2 DEF Max
<1> QED
  BY <1>3 DEF m

\* The sequence q over T holds exactly the elements of S, each once.
Lists(T, q, S) == q \in Seq(T) /\ IsInjective(q) /\ Range(q) = S

\* Such a sequence is not longer than there are elements.
LEMMA ListsFit ==
  ASSUME NEW T, IsFiniteSet(T), NEW q, NEW S, Lists(T, q, S)
  PROVE  Len(q) <= Cardinality(T) /\ Cardinality(T) \in Nat
<1>1. q \in [1 .. Len(q) -> T] /\ Len(q) \in Nat /\ IsInjective(q)
  BY DEF Lists
<1>2. q \in Injection(1 .. Len(q), T)
  BY <1>1 DEF Injection
<1>3. Cardinality(1 .. Len(q)) <= Cardinality(T)
  BY <1>2, FS_Injection, Zenon
<1>4. Cardinality(1 .. Len(q)) = Len(q)
  <2>1. 1 \in Int /\ Len(q) \in Int
    BY <1>1
  <2>2. Cardinality(1 .. Len(q)) = IF 1 > Len(q) THEN 0 ELSE Len(q) - 1 + 1
    BY <2>1, FS_Interval, Zenon
  <2> QED
    BY <1>1, <2>2
<1> QED
  BY <1>3, <1>4, FS_CardinalityType

\* A queue of one entry.
LEMMA ListsSingleton ==
  ASSUME NEW T, NEW t \in T
  PROVE  Lists(T, <<t>>, {t})
BY DEF Lists, IsInjective, Range

\* Queues of disjoint sets of tasks, one after the other.
LEMMA ListsConcat ==
  ASSUME NEW T, NEW p, NEW q, NEW A, NEW B, Lists(T, p, A), Lists(T, q, B), A \cap B = {}
  PROVE  Lists(T, p \o q, A \cup B)
<1>1. p \in Seq(T) /\ q \in Seq(T)
  BY DEF Lists
<1>2. /\ p \o q \in Seq(T)
      /\ Len(p \o q) = Len(p) + Len(q)
      /\ \A i \in 1 .. Len(p) + Len(q) :
           (p \o q)[i] = IF i <= Len(p) THEN p[i] ELSE q[i - Len(p)]
  BY <1>1
<1>3. Len(p) \in Nat /\ Len(q) \in Nat /\ DOMAIN (p \o q) = 1 .. (Len(p) + Len(q))
  BY <1>1, <1>2
<1>4. Range(p \o q) = A \cup B
  <2>1. A = {p[i] : i \in 1 .. Len(p)} /\ B = {q[i] : i \in 1 .. Len(q)}
    BY <1>1 DEF Lists, Range
  <2>2. ASSUME NEW i \in 1 .. (Len(p) + Len(q))
        PROVE  (p \o q)[i] \in A \cup B
    BY <1>2, <1>3, <2>1
  <2>3. \A i \in 1 .. Len(p) : (p \o q)[i] = p[i] /\ i \in DOMAIN (p \o q)
    BY <1>2, <1>3
  <2>4. \A i \in 1 .. Len(q) :
          (p \o q)[i + Len(p)] = q[i] /\ i + Len(p) \in DOMAIN (p \o q)
    BY <1>2, <1>3
  <2>5. A \subseteq Range(p \o q) /\ B \subseteq Range(p \o q)
    BY <2>1, <2>3, <2>4, Zenon DEF Range
  <2> QED
    BY <1>3, <2>2, <2>5 DEF Range
<1>5. \A i, j \in 1 .. Len(p) : p[i] = p[j] => i = j
  BY <1>1 DEF Lists, IsInjective
<1>6. \A i, j \in 1 .. Len(q) : q[i] = q[j] => i = j
  BY <1>1 DEF Lists, IsInjective
<1>7. \A i \in 1 .. Len(p), j \in 1 .. Len(q) : p[i] # q[j]
  <2>1. \A i \in 1 .. Len(p) : p[i] \in A
    BY <1>1 DEF Lists, Range
  <2>2. \A j \in 1 .. Len(q) : q[j] \in B
    BY <1>1 DEF Lists, Range
  <2> QED
    BY <2>1, <2>2
<1>8. ASSUME NEW i \in 1 .. (Len(p) + Len(q)), NEW j \in 1 .. (Len(p) + Len(q)),
             (p \o q)[i] = (p \o q)[j]
      PROVE  i = j
  <2>1. CASE i <= Len(p) /\ j <= Len(p)
    BY <1>2, <1>3, <1>5, <1>8, <2>1
  <2>2. CASE i > Len(p) /\ j > Len(p)
    <3>1. i - Len(p) \in 1 .. Len(q) /\ j - Len(p) \in 1 .. Len(q)
      BY <1>3, <2>2
    <3>2. q[i - Len(p)] = q[j - Len(p)]
      BY <1>2, <1>3, <1>8, <2>2
    <3>3. i - Len(p) = j - Len(p)
      BY <1>6, <3>1, <3>2
    <3> QED
      BY <1>3, <3>3
  <2>3. CASE i <= Len(p) /\ j > Len(p)
    <3>1. i \in 1 .. Len(p) /\ j - Len(p) \in 1 .. Len(q)
      BY <1>3, <2>3
    <3>2. p[i] = q[j - Len(p)]
      BY <1>2, <1>3, <1>8, <2>3
    <3> QED
      BY <1>7, <3>1, <3>2
  <2>4. CASE i > Len(p) /\ j <= Len(p)
    <3>1. j \in 1 .. Len(p) /\ i - Len(p) \in 1 .. Len(q)
      BY <1>3, <2>4
    <3>2. p[j] = q[i - Len(p)]
      BY <1>2, <1>3, <1>8, <2>4
    <3> QED
      BY <1>7, <3>1, <3>2
  <2> QED
    BY <1>3, <2>1, <2>2, <2>3, <2>4
<1>9. IsInjective(p \o q)
  BY <1>3, <1>8 DEF IsInjective
<1> QED
  BY <1>2, <1>4, <1>9 DEF Lists

\* The scan of the registry lists a set of tasks, each once.
LEMMA SlotOrderLists ==
  ASSUME NEW T, T \subseteq Nat, IsFiniteSet(T), NEW W \in SUBSET T
  PROVE  Lists(T, SlotOrder(W), W)
<1> DEFINE N == Cardinality(W)
           upto(t) == {u \in W : u <= t}
           pos == [t \in W |-> Cardinality(upto(t))]
<1>1. IsFiniteSet(W) /\ N \in Nat /\ W \subseteq Int
  <2>1. IsFiniteSet(W)
    BY FS_Subset, Zenon
  <2>2. N \in Nat
    BY <2>1, FS_CardinalityType, Zenon
  <2>3. W \subseteq Int
    OBVIOUS
  <2> QED
    BY <2>1, <2>2, <2>3
<1>2. ASSUME NEW t \in W
      PROVE  IsFiniteSet(upto(t)) /\ pos[t] = Cardinality(upto(t)) /\ pos[t] \in 1 .. N
  <2>1. upto(t) \in SUBSET W /\ t \in upto(t)
    BY <1>1
  <2>2. IsFiniteSet(upto(t)) /\ Cardinality(upto(t)) <= N /\ Cardinality(upto(t)) \in Nat
    BY <1>1, <2>1, FS_Subset, FS_CardinalityType
  <2>3. Cardinality(upto(t)) # 0
    BY <2>1, <2>2, FS_EmptySet
  <2>4. Cardinality(upto(t)) \in 1 .. N
    BY <1>1, <2>2, <2>3
  <2> QED
    BY <2>2, <2>4
<1>3. ASSUME NEW t \in W, NEW u \in W, t < u
      PROVE  pos[t] < pos[u]
  <2>1. upto(t) \in SUBSET upto(u) /\ u \in upto(u) /\ u \notin upto(t)
    <3>1. t \in Int /\ u \in Int /\ u <= u /\ ~(u <= t)
      BY <1>1, <1>3
    <3>2. \A v \in W : v \in Int
      BY <1>1
    <3>3. \A v \in W : v <= t => v <= u
      BY <1>3, <3>1, <3>2
    <3> QED
      BY <3>1, <3>3, Zenon
  <2>2. pos[t] <= pos[u] /\ pos[t] # pos[u]
    BY <1>2, <2>1, FS_Subset
  <2>3. pos[t] \in Int /\ pos[u] \in Int
    BY <1>1, <1>2
  <2> QED
    BY <2>2, <2>3
<1>4. pos \in [W -> 1 .. N]
  BY <1>2
<1> HIDE DEF pos, N
<1>5. pos \in Injection(W, 1 .. N)
  <2>1. ASSUME NEW t \in W, NEW u \in W, pos[t] = pos[u]
        PROVE  t = u
    <3>1. t \in Int /\ u \in Int /\ pos[t] \in Int /\ pos[u] \in Int
      BY <1>1, <1>4
    <3>2. ~(t < u) /\ ~(u < t)
      BY <1>3, <2>1, <3>1
    <3> QED
      BY <3>1, <3>2
  <2> QED
    BY <1>4, <2>1 DEF Injection, IsInjective
<1>6. pos \in Surjection(W, 1 .. N)
  <2>1. IsFiniteSet(1 .. N) /\ Cardinality(1 .. N) = N
    <3>1. 1 \in Int /\ N \in Int
      BY <1>1
    <3>2. IsFiniteSet(1 .. N) /\ Cardinality(1 .. N) = IF 1 > N THEN 0 ELSE N - 1 + 1
      BY <3>1, FS_Interval, Zenon
    <3> QED
      BY <1>1, <3>2
  <2>2. Cardinality(W) = Cardinality(1 .. N)
    BY <2>1 DEF N
  <2> QED
    BY <1>5, <2>1, <2>2, FS_Injection, Zenon
<1> DEFINE q == [i \in 1 .. N |-> CHOOSE t \in W : pos[t] = i]
<1>7. ASSUME NEW i \in 1 .. N
      PROVE  q[i] \in W /\ pos[q[i]] = i
  <2>1. \E t \in W : pos[t] = i
    BY <1>6 DEF Surjection
  <2> QED
    BY <2>1
<1>8. q \in [1 .. N -> W]
  BY <1>7
<1> HIDE DEF q
<1>9. Range(q) = W
  <2>1. ASSUME NEW t \in W
        PROVE  pos[t] \in 1 .. N /\ q[pos[t]] = t
    BY <1>4, <1>5, <1>7, Zenon DEF Injection, IsInjective
  <2> QED
    BY <1>8, <2>1, Zenon DEF Range
<1>10. ASSUME NEW i \in 1 .. N, NEW j \in 1 .. N, i < j
       PROVE  q[i] < q[j]
  <2>1. q[i] \in Int /\ q[j] \in Int /\ i \in Int /\ j \in Int
    <3>1. q[i] \in W /\ q[j] \in W
      BY <1>7, Zenon
    <3>2. i \in Int /\ j \in Int
      BY <1>1
    <3> QED
      BY <1>1, <3>1, <3>2, Zenon
  <2>2. ~(q[j] < q[i]) /\ q[j] # q[i]
    <3>1. q[j] < q[i] => j < i
      BY <1>3, <1>7, Zenon
    <3>2. q[j] = q[i] => j = i
      BY <1>7
    <3> QED
      BY <1>10, <2>1, <3>1, <3>2
  <2> QED
    BY <2>1, <2>2
<1> DEFINE o == SlotOrder(W)
<1>11. /\ o \in [1 .. N -> W]
       /\ Range(o) = W
       /\ \A i, j \in 1 .. N : i < j => o[i] < o[j]
  BY <1>8, <1>9, <1>10, Zenon DEF SlotOrder, N
<1> HIDE DEF o
<1>12. o \in Seq(T)
  <2>1. o \in [1 .. N -> T]
    BY <1>11, Zenon
  <2> QED
    BY <1>1, <2>1
<1>13. ASSUME NEW i \in 1 .. N, NEW j \in 1 .. N, o[i] = o[j]
       PROVE  i = j
  <2>1. i \in Int /\ j \in Int /\ o[i] \in Int /\ o[j] \in Int
    <3>1. o[i] \in W /\ o[j] \in W
      BY <1>11, Zenon
    <3>2. i \in Int /\ j \in Int
      BY <1>1
    <3> QED
      BY <1>1, <3>1, <3>2, Zenon
  <2>2. ~(i < j) /\ ~(j < i)
    BY <1>11, <1>13, <2>1
  <2> QED
    BY <2>1, <2>2
<1>14. IsInjective(o)
  BY <1>11, <1>13 DEF IsInjective
<1> QED
  BY <1>11, <1>12, <1>14 DEF Lists, o

\* A task reaches itself and whatever an edge adds.
LEMMA ReachFacts ==
  ASSUME NEW V, NEW E, NEW t \in V
  PROVE  /\ t \in ReachFrom(V, E, t) /\ ReachFrom(V, E, t) \subseteq V
         /\ \A e \in E : e[1] \in ReachFrom(V, E, t) /\ e[2] \in V => e[2] \in ReachFrom(V, E, t)
BY DEF ReachFrom, Closed

\* Reachability is the least closed set.
LEMMA ReachLeast ==
  ASSUME NEW V, NEW E, NEW t \in V, NEW S \in SUBSET V, t \in S, Closed(E, S)
  PROVE  ReachFrom(V, E, t) \subseteq S
BY DEF ReachFrom

-----------------------------------------------------------------------------
(* The task set *)

ReachOf(t) == ReachFrom(Task, edges, t)

\* The task set.
GraphInv == edges \subseteq Task \X Task /\ priority \in [Task -> 0 .. 255]

\* m is the maximum of the priorities of the tasks in R.
IsMaximum(m, R) == (\A u \in R : priority[u] <= m) /\ \E u \in R : priority[u] = m

\* The task set is finite and not empty.
LEMMA TaskFacts ==
  /\ NumTasks \in Nat /\ NumTasks > 0 /\ 0 \in Task
  /\ Task \subseteq Nat /\ IsFiniteSet(Task) /\ Cardinality(Task) = NumTasks
  /\ \A t : t \in Task <=> t \in Nat /\ t < NumTasks
<1>1. NumTasks \in Nat /\ NumTasks > 0 /\ NumTasks - 1 \in Int /\ 0 \in Int
  BY BuildAssumption
<1>2. IsFiniteSet(0 .. (NumTasks - 1)) /\ Cardinality(0 .. (NumTasks - 1)) = NumTasks
  BY <1>1, FS_Interval
<1>3. QED BY <1>1, <1>2 DEF Task

\* What is reachable, from inside the task set.
LEMMA ReachIn ==
  ASSUME NEW t \in Task, GraphInv
  PROVE  /\ t \in ReachOf(t) /\ ReachOf(t) \subseteq Task
         /\ \A u \in ReachOf(t) : \A v : <<u, v>> \in edges => v \in ReachOf(t)
<1>1. ASSUME NEW u \in ReachOf(t), NEW v, <<u, v>> \in edges
      PROVE  v \in ReachOf(t)
  <2>1. v \in Task
    BY <1>1 DEF GraphInv
  <2>2. QED BY <1>1, <2>1, ReachFacts DEF ReachOf
<1>2. QED BY <1>1, ReachFacts DEF ReachOf

-----------------------------------------------------------------------------
(* compute_mip *)

\* The search from src has visited tasks reachable from src, each queued
\* once; the successors of those taken off the queue are visited, and
\* mip[src] is a visited task's priority that none of those exceeds.
FrontierInv ==
  /\ Lists(Task, queue, visited) /\ head \in 0 .. Len(queue)
  /\ src \notin Task => head = Len(queue)
  /\ src \in Task =>
       /\ src \in visited /\ visited \subseteq ReachOf(src)
       /\ \A i \in 1 .. head : \A h : <<queue[i], h>> \in edges => h \in visited
       /\ \A i \in 1 .. head : priority[queue[i]] <= mip[src]
       /\ \E u \in visited : priority[u] = mip[src]

\* The sources before src are finished.
MipInv ==
  /\ src \in 0 .. NumTasks
  /\ mip \in [Task -> 0 .. 255]
  /\ \A t \in Task : t < src => IsMaximum(mip[t], ReachOf(t))

BfsInv == FrontierInv /\ MipInv

\* The first search starts at slot 0.
LEMMA BfsInit ==
  ASSUME MipInit
  PROVE  GraphInv /\ BfsInv
<1>1. /\ edges \subseteq Task \X Task /\ priority \in [Task -> 0 .. 255]
      /\ src = 0 /\ queue = <<0>> /\ head = 0 /\ visited = {0}
      /\ mip = [t \in Task |-> IF t = 0 THEN priority[0] ELSE 0]
  BY BuildAssumption DEF MipInit, NoLoops, Task
<1>2. GraphInv
  BY <1>1 DEF GraphInv
<1>3. Lists(Task, queue, visited) /\ Len(queue) = 1
  BY <1>1, TaskFacts, ListsSingleton
<1>4. mip[0] = priority[0] /\ mip \in [Task -> 0 .. 255]
  BY <1>1, TaskFacts
<1>5. 0 \in ReachOf(0)
  BY <1>2, TaskFacts, ReachIn
<1>6. FrontierInv
  BY <1>1, <1>3, <1>4, <1>5, TaskFacts DEF FrontierInv
<1>7. MipInv
  BY <1>1, <1>4, TaskFacts DEF MipInv
<1>8. QED BY <1>2, <1>6, <1>7 DEF BfsInv

\* Visiting a task queues its unvisited successors.
LEMMA VisitInv ==
  ASSUME GraphInv, BfsInv, Visit, src \in Task
  PROVE  BfsInv'
<1> DEFINE cur == queue[head + 1]
           new == Successors(cur) \ visited
           p == priority[cur]
           m == mip[src]
<1>1. /\ head < Len(queue) /\ head' = head + 1 /\ UNCHANGED <<edges, priority, src>>
      /\ mip' = [mip EXCEPT ![src] = Max({m, p})]
      /\ visited' = visited \cup new
      /\ queue' = queue \o SlotOrder(new)
  BY Zenon DEF Visit
<1>2. /\ queue \in Seq(Task) /\ Len(queue) \in Nat /\ head \in Nat
      /\ head + 1 \in 1 .. Len(queue) /\ cur \in Task
      /\ visited = {queue[i] : i \in 1 .. Len(queue)}
  BY <1>1 DEF BfsInv, FrontierInv, Lists, Range
<1>3. cur \in visited /\ new \in SUBSET Task /\ \A h \in new : <<cur, h>> \in edges
  BY <1>2 DEF Successors
<1>4. \A h : <<cur, h>> \in edges => h \in visited \cup new
  BY DEF Successors, GraphInv
<1>5. m \in 0 .. 255 /\ p \in 0 .. 255
  BY <1>2, Zenon DEF GraphInv, BfsInv, MipInv
<1>6. Lists(Task, SlotOrder(new), new) /\ visited \cap new = {}
  BY <1>3, TaskFacts, SlotOrderLists
<1> HIDE DEF new
<1>7. Lists(Task, queue', visited')
  BY <1>1, <1>6, ListsConcat DEF BfsInv, FrontierInv
<1>8. /\ Len(queue') \in Nat /\ Len(queue') >= Len(queue)
      /\ \A i \in 1 .. Len(queue) : queue'[i] = queue[i]
  <2> DEFINE o == SlotOrder(new)
  <2>1. o \in Seq(Task) /\ Len(o) \in Nat
    BY <1>6 DEF Lists
  <2> HIDE DEF o
  <2>2. queue' = queue \o o
    BY <1>1 DEF o
  <2>3. /\ Len(queue \o o) = Len(queue) + Len(o)
        /\ \A i \in 1 .. Len(queue) + Len(o) :
             (queue \o o)[i] = IF i <= Len(queue) THEN queue[i] ELSE o[i - Len(queue)]
    BY <1>2, <2>1
  <2>4. QED BY <1>2, <2>1, <2>2, <2>3
<1> HIDE DEF p, m, cur
<1>9. Max({m, p}) = IF m >= p THEN m ELSE p
  BY <1>5, MaxOfTwo
<1>10. /\ mip'[src] = IF m >= p THEN m ELSE p
       /\ mip' \in [Task -> 0 .. 255]
       /\ \A t \in Task : t # src => mip'[t] = mip[t]
  BY <1>1, <1>5, <1>9, Zenon DEF BfsInv, MipInv, m
<1>11. /\ src \in visited /\ visited \subseteq ReachOf(src)
       /\ \A i \in 1 .. head : \A h : <<queue[i], h>> \in edges => h \in visited
       /\ \A i \in 1 .. head : priority[queue[i]] <= m
       /\ \E u \in visited : priority[u] = m
  BY DEF BfsInv, FrontierInv, m
<1>12. visited' \subseteq ReachOf(src)
  BY <1>1, <1>3, <1>11, ReachIn, Zenon
<1>13. ASSUME NEW i \in 1 .. (head + 1)
       PROVE  /\ \A h : <<queue'[i], h>> \in edges => h \in visited'
              /\ priority[queue'[i]] <= mip'[src]
  <2>1. queue'[i] = queue[i] /\ queue[i] \in Task
    BY <1>2, <1>8
  <2>2. CASE i = head + 1
    <3>1. queue'[i] = cur /\ p = priority[queue'[i]]
      BY <2>1, <2>2 DEF cur, p
    <3>2. p <= mip'[src]
      BY <1>5, <1>10
    <3>3. QED BY <1>1, <1>4, <3>1, <3>2
  <2>3. CASE i # head + 1
    <3>1. i \in 1 .. head
      BY <1>2, <2>3
    <3>2. priority[queue[i]] \in Int
      BY <2>1 DEF GraphInv
    <3>3. priority[queue[i]] <= mip'[src]
      BY <1>5, <1>10, <1>11, <3>1, <3>2
    <3>4. QED BY <1>1, <1>11, <2>1, <3>1, <3>3
  <2>4. QED BY <2>2, <2>3
<1>14. \E u \in visited' : priority[u] = mip'[src]
  BY <1>1, <1>3, <1>10, <1>11 DEF p
<1>15. FrontierInv'
  <2>1. head' \in 0 .. Len(queue')
    BY <1>1, <1>2, <1>8
  <2>2. src' = src /\ ReachOf(src)' = ReachOf(src) /\ priority' = priority /\ edges' = edges
    BY <1>1 DEF ReachOf
  <2>3. src \in visited'
    BY <1>1, <1>11
  <2>4. QED BY <1>1, <1>7, <1>12, <1>13, <1>14, <2>1, <2>2, <2>3, Zenon DEF FrontierInv
<1>16. MipInv'
  <2>1. ASSUME NEW t \in Task, t < src
        PROVE  IsMaximum(mip[t], ReachOf(t))'
    <3>1. IsMaximum(mip[t], ReachOf(t))
      BY <2>1 DEF BfsInv, MipInv
    <3>2. t # src
      BY <2>1, TaskFacts
    <3>3. mip'[t] = mip[t] /\ ReachOf(t)' = ReachOf(t) /\ priority' = priority
      BY <1>1, <1>10, <3>2 DEF ReachOf
    <3>4. QED BY <3>1, <3>3 DEF IsMaximum
  <2>2. QED BY <1>1, <1>10, <2>1, Zenon DEF BfsInv, MipInv
<1>17. QED BY <1>15, <1>16 DEF BfsInv

\* When the queue is exhausted the source has its maximum.
LEMMA SearchDone ==
  ASSUME GraphInv, BfsInv, src \in Task, head = Len(queue)
  PROVE  IsMaximum(mip[src], ReachOf(src))
<1>1. /\ queue \in Seq(Task) /\ Len(queue) \in Nat
      /\ visited = {queue[i] : i \in 1 .. Len(queue)} /\ visited \subseteq Task
  BY DEF BfsInv, FrontierInv, Lists, Range
<1>2. Closed(edges, visited)
  <2>1. ASSUME NEW e \in edges, e[1] \in visited
        PROVE  e[2] \in visited
    <3>1. PICK i \in 1 .. Len(queue) : queue[i] = e[1]
      BY <1>1, <2>1
    <3>2. e = <<e[1], e[2]>>
      BY DEF GraphInv
    <3>3. QED BY <3>1, <3>2 DEF BfsInv, FrontierInv
  <2>2. QED BY <2>1 DEF Closed
<1>3. ReachOf(src) = visited
  BY <1>1, <1>2, ReachLeast DEF ReachOf, BfsInv, FrontierInv
<1>4. \A u \in visited : priority[u] <= mip[src]
  BY <1>1 DEF BfsInv, FrontierInv
<1>5. QED BY <1>3, <1>4 DEF IsMaximum, BfsInv, FrontierInv

\* The next search starts with its source alone.
LEMMA NextSourceInv ==
  ASSUME GraphInv, BfsInv, NextSource
  PROVE  BfsInv'
<1> DEFINE n == src + 1
<1>1. /\ head = Len(queue) /\ n < NumTasks /\ src' = n /\ queue' = <<n>> /\ head' = 0
      /\ visited' = {n} /\ mip' = [mip EXCEPT ![n] = priority[n]]
      /\ UNCHANGED <<edges, priority>>
  BY DEF NextSource
<1>2. src \in Task /\ n \in Task /\ src \in Nat
  <2>1. src \in Nat /\ n \in Nat
    BY TaskFacts DEF BfsInv, MipInv
  <2>2. src < NumTasks
    BY <1>1, <2>1, TaskFacts
  <2>3. QED BY <1>1, <2>1, <2>2, TaskFacts
<1>3. /\ mip' \in [Task -> 0 .. 255] /\ mip'[n] = priority[n]
      /\ \A t \in Task : t # n => mip'[t] = mip[t]
  BY <1>1, <1>2, Zenon DEF BfsInv, MipInv, GraphInv
<1>4. Lists(Task, <<n>>, {n}) /\ Len(<<n>>) = 1
  BY <1>2, ListsSingleton
<1>5. n \in ReachOf(n)
  BY <1>2, ReachIn
<1>6. IsMaximum(mip[src], ReachOf(src))
  BY <1>1, <1>2, SearchDone
<1>7. FrontierInv'
  <2>1. /\ Lists(Task, queue', visited') /\ head' \in 0 .. Len(queue')
    BY <1>1, <1>4
  <2>2. src' \in visited' /\ visited' \subseteq ReachOf(src)'
    BY <1>1, <1>5 DEF ReachOf
  <2>3. \A i \in 1 .. head' : FALSE
    BY <1>1
  <2>4. \E u \in visited' : priority'[u] = mip'[src']
    BY <1>1, <1>3
  <2>5. QED BY <1>1, <1>2, <2>1, <2>2, <2>3, <2>4 DEF FrontierInv
<1>8. MipInv'
  <2>1. ASSUME NEW t \in Task, t < n
        PROVE  IsMaximum(mip[t], ReachOf(t))'
    <3>1. IsMaximum(mip[t], ReachOf(t))
      <4>1. t < src \/ t = src
        BY <1>2, <2>1, TaskFacts
      <4>2. QED BY <1>6, <4>1 DEF BfsInv, MipInv
    <3>2. t # n
      BY <1>2, <2>1, TaskFacts
    <3>3. mip'[t] = mip[t] /\ ReachOf(t)' = ReachOf(t) /\ priority' = priority
      BY <1>1, <1>3, <3>2 DEF ReachOf
    <3>4. QED BY <3>1, <3>3 DEF IsMaximum
  <2>2. src' \in 0 .. NumTasks
    BY <1>1, <1>2, TaskFacts
  <2>3. QED BY <1>1, <1>3, <2>1, <2>2 DEF MipInv
<1>9. QED BY <1>7, <1>8 DEF BfsInv

\* After the last search every source is finished.
LEMMA FinishInv ==
  ASSUME GraphInv, BfsInv, Finish
  PROVE  BfsInv'
<1>1. /\ head = Len(queue) /\ src = NumTasks - 1 /\ src' = NumTasks
      /\ UNCHANGED <<edges, priority, queue, head, visited, mip>>
  BY DEF Finish
<1>2. src \in Task /\ NumTasks \notin Task
  BY <1>1, TaskFacts
<1>3. IsMaximum(mip[src], ReachOf(src))
  BY <1>1, <1>2, SearchDone
<1>4. FrontierInv'
  BY <1>1, <1>2 DEF BfsInv, FrontierInv
<1>5. MipInv'
  <2>1. ASSUME NEW t \in Task
        PROVE  IsMaximum(mip[t], ReachOf(t))'
    <3>1. IsMaximum(mip[t], ReachOf(t))
      <4>1. t < src \/ t = src
        BY <1>1, TaskFacts
      <4>2. QED BY <1>3, <4>1 DEF BfsInv, MipInv
    <3>2. QED BY <1>1, <3>1 DEF IsMaximum, ReachOf
  <2>2. QED BY <1>1, <2>1, TaskFacts DEF BfsInv, MipInv
<1>6. QED BY <1>4, <1>5 DEF BfsInv

\* What the search for priorities does not touch keeps its invariant.
LEMMA BfsUnchanged ==
  ASSUME GraphInv, BfsInv, UNCHANGED <<edges, priority, src, queue, head, visited, mip>>
  PROVE  GraphInv' /\ BfsInv'
BY DEF GraphInv, BfsInv, FrontierInv, MipInv, IsMaximum, ReachOf

-----------------------------------------------------------------------------
(* find_cycle_back_edges and detect_cycle *)

Frame == [node : Task, next : Nat]

NodeAt(i) == dfs[i].node

NextAt(i) == dfs[i].next

\* Tasks the search has left for good.
Finished == explored \ recStack

\* The stack is a path in the graph without repetition, recStack its tasks;
\* the roots before start have been explored.
PathInv ==
  /\ dfs \in Seq(Frame)
  /\ explored \subseteq Task /\ recStack \subseteq explored
  /\ \A t : t \in recStack <=> \E i \in 1 .. Len(dfs) : NodeAt(i) = t
  /\ \A i, j \in 1 .. Len(dfs) : NodeAt(i) = NodeAt(j) => i = j
  /\ \A i, j \in 1 .. Len(dfs) : i <= j => NodeAt(j) \in ReachOf(NodeAt(i))
  /\ start \in 0 .. NumTasks
  /\ \A t \in Task : t < start => t \in explored
  /\ dfs # <<>> => start \in Task /\ NodeAt(1) = start

\* A successor examined before was reported, is finished, or is the next task
\* on the path.
ExaminedInv ==
  \A i \in 1 .. Len(dfs) : \A h :
    <<NodeAt(i), h>> \in edges /\ h < NextAt(i) =>
      \/ <<NodeAt(i), h>> \in found
      \/ h \in Finished
      \/ i < Len(dfs) /\ h = NodeAt(i + 1)

\* The unreported edges that leave finished tasks.
FinishedEdges == {e \in edges \ found : e[1] \in Finished}

\* They stay among finished tasks and form no cycle.
AcyclicInv ==
  \A e \in FinishedEdges : e[2] \in Finished /\ e[1] \notin ReachFrom(Task, FinishedEdges, e[2])

\* A reported edge is an edge and lies on a cycle.
ReportInv == found \subseteq edges /\ \A e \in found : e[1] \in ReachOf(e[2])

DfsInv == PathInv /\ ExaminedInv /\ AcyclicInv /\ ReportInv

\* Nothing is explored at first.
LEMMA DfsInit ==
  ASSUME CycleInit, GraphInv
  PROVE  DfsInv
<1>1. start = 0 /\ explored = {} /\ recStack = {} /\ dfs = <<>> /\ found = {}
  BY DEF CycleInit
<1>2. dfs \in Seq(Frame) /\ Len(dfs) = 0
  BY <1>1
<1>3. PathInv
  BY <1>1, <1>2, TaskFacts DEF PathInv
<1>4. QED
  BY <1>1, <1>2, <1>3 DEF DfsInv, ExaminedInv, AcyclicInv, FinishedEdges, Finished, ReportInv

\* The entry on top of the stack.
LEMMA TopFacts ==
  ASSUME DfsInv, dfs # <<>>
  PROVE  /\ Len(dfs) \in Nat /\ Len(dfs) >= 1
         /\ Top \in Frame /\ Top.node = NodeAt(Len(dfs))
         /\ Top.next = NextAt(Len(dfs))
         /\ NodeAt(Len(dfs)) \in Task /\ NextAt(Len(dfs)) \in Nat
         /\ NodeAt(Len(dfs)) \in recStack
         /\ NodeAt(Len(dfs)) \notin Finished
<1>1. dfs \in Seq(Frame) /\ Len(dfs) \in Nat /\ Len(dfs) >= 1
  BY DEF DfsInv, PathInv
<1>2. dfs[Len(dfs)] \in Frame /\ Len(dfs) \in 1 .. Len(dfs)
  BY <1>1
<1>3. dfs[Len(dfs)].node \in Task /\ dfs[Len(dfs)].next \in Nat
  BY <1>2 DEF Frame
<1>4. NodeAt(Len(dfs)) \in recStack
  BY <1>2 DEF DfsInv, PathInv
<1>5. QED
  BY <1>1, <1>2, <1>3, <1>4 DEF Top, NodeAt, NextAt, Finished

\* The stack after its top entry has been advanced, pushed upon or dropped.
LEMMA StackSteps ==
  ASSUME NEW s \in Seq(Frame), s # <<>>, NEW f \in Frame, NEW g \in Frame
  PROVE  LET n == Len(s)
             b == SubSeq(s, 1, n - 1)
             a == Append(b, f)
             c == Append(a, g)
         IN  /\ b \in Seq(Frame) /\ Len(b) = n - 1 /\ (\A i \in 1 .. (n - 1) : b[i] = s[i])
             /\ a \in Seq(Frame) /\ Len(a) = n /\ a[n] = f /\ (\A i \in 1 .. (n - 1) : a[i] = s[i])
             /\ c \in Seq(Frame) /\ Len(c) = n + 1 /\ c[n + 1] = g /\ c[n] = f
             /\ (\A i \in 1 .. (n - 1) : c[i] = s[i])
<1> DEFINE n == Len(s)
           b == SubSeq(s, 1, n - 1)
           a == Append(b, f)
           c == Append(a, g)
<1>1. n \in Nat /\ n >= 1 /\ \A i \in 1 .. n : s[i] \in Frame
  OBVIOUS
<1>2. b \in Seq(Frame) /\ Len(b) = n - 1 /\ \A i \in 1 .. (n - 1) : b[i] = s[i]
  <2>1. n - 1 \in Int /\ 1 \in Int /\ \A i \in 1 .. (n - 1) : s[i] \in Frame
    BY <1>1
  <2>2. /\ SubSeq(s, 1, n - 1) \in Seq(Frame)
        /\ Len(SubSeq(s, 1, n - 1)) = IF 1 <= n - 1 THEN n - 1 - 1 + 1 ELSE 0
        /\ \A i \in 1 .. (n - 1 - 1 + 1) : SubSeq(s, 1, n - 1)[i] = s[1 + i - 1]
    BY <2>1
  <2>3. Len(b) = n - 1
    <3>1. \A k \in Nat : k >= 1 => (IF 1 <= k - 1 THEN k - 1 - 1 + 1 ELSE 0) = k - 1
      OBVIOUS
    <3>2. QED BY <1>1, <2>2, <3>1, Zenon
  <2>4. ASSUME NEW i \in 1 .. (n - 1)
        PROVE  b[i] = s[i]
    <3>1. i \in 1 .. (n - 1 - 1 + 1) /\ 1 + i - 1 = i
      BY <1>1
    <3>2. QED BY <2>2, <3>1
  <2>5. QED BY <2>2, <2>3, <2>4
<1> HIDE DEF b
<1>3. a \in Seq(Frame) /\ Len(a) = n /\ a[n] = f /\ \A i \in 1 .. (n - 1) : a[i] = s[i]
  BY <1>1, <1>2
<1> HIDE DEF a
<1>4. /\ c \in Seq(Frame) /\ Len(c) = n + 1 /\ c[n + 1] = g /\ c[n] = f
      /\ \A i \in 1 .. (n - 1) : c[i] = s[i]
  BY <1>1, <1>3
<1>5. QED BY <1>2, <1>3, <1>4 DEF a, b

\* The root loop: skipping an explored root and starting at a new one.
LEMMA RootInv ==
  ASSUME GraphInv, DfsInv, SkipStart \/ BeginStart
  PROVE  DfsInv'
<1>1. dfs = <<>> /\ start \in Task /\ UNCHANGED <<edges, found>> /\ Len(dfs) = 0 /\ recStack = {}
      /\ start \in Nat
  <2>1. dfs = <<>> /\ start < NumTasks /\ UNCHANGED <<edges, found>>
    BY DEF SkipStart, BeginStart, Searching
  <2>2. start \in Nat
    BY TaskFacts DEF DfsInv, PathInv
  <2>3. Len(dfs) = 0
    BY <2>1
  <2>4. QED BY <2>1, <2>2, <2>3, TaskFacts DEF DfsInv, PathInv
<1>2. CASE SkipStart
  <2>1. start' = start + 1 /\ start \in explored /\ UNCHANGED <<explored, recStack, dfs>>
    BY <1>2 DEF SkipStart
  <2>2. start' \in 0 .. NumTasks /\ \A t \in Task : t < start' => t < start \/ t = start
    BY <1>1, <2>1, TaskFacts
  <2>3. PathInv'
    BY <1>1, <2>1, <2>2 DEF DfsInv, PathInv, NodeAt, ReachOf
  <2>4. QED
    BY <1>1, <2>1, <2>3, Zenon DEF DfsInv, ExaminedInv, AcyclicInv, FinishedEdges, Finished, ReportInv,
                            NodeAt, NextAt, ReachOf
<1>3. CASE BeginStart
  <2> DEFINE f == [node |-> start, next |-> 0]
  <2>1. /\ start \notin explored /\ dfs' = Append(<<>>, f) /\ explored' = explored \cup {start}
        /\ recStack' = recStack \cup {start} /\ UNCHANGED start
    BY <1>3 DEF BeginStart, Push
  <2>2. f \in Frame /\ f.node = start /\ f.next = 0
    BY <1>1 DEF Frame
  <2>3. dfs' \in Seq(Frame) /\ Len(dfs') = 1 /\ dfs'[1] = f
    BY <2>1, <2>2
  <2>4. NodeAt(1)' = start /\ NextAt(1)' = 0
    BY <2>2, <2>3 DEF NodeAt, NextAt
  <2>5. Finished' = Finished /\ recStack' = {start}
    BY <1>1, <2>1 DEF Finished
  <2>6. \A i : i \in 1 .. 1 <=> i = 1
    OBVIOUS
  <2>7. start \in ReachOf(start) /\ ReachOf(start)' = ReachOf(start)
    BY <1>1, <2>1, ReachIn DEF ReachOf
  <2>8. PathInv'
    BY <1>1, <2>1, <2>3, <2>4, <2>5, <2>6, <2>7 DEF DfsInv, PathInv
  <2>9. ExaminedInv'
    <3>1. ASSUME NEW h, <<start, h>> \in edges, h < 0
          PROVE  FALSE
      <4>1. h \in Task
        BY <3>1 DEF GraphInv
      <4>2. QED BY <3>1, <4>1, TaskFacts
    <3>2. QED BY <1>1, <2>3, <2>4, <2>6, <3>1 DEF ExaminedInv
  <2>10. AcyclicInv' /\ ReportInv'
    BY <1>1, <2>5 DEF DfsInv, AcyclicInv, FinishedEdges, ReportInv, ReachOf
  <2>11. QED BY <2>8, <2>9, <2>10 DEF DfsInv
<1>4. QED BY <1>2, <1>3

\* The next successor of the task on top.
LEMMA SuccFacts ==
  ASSUME GraphInv, DfsInv, dfs # <<>>, Remaining # {}
  PROVE  LET succ == Min(Remaining)
             top == NodeAt(Len(dfs))
         IN  /\ succ \in Task /\ <<top, succ>> \in edges
             /\ \A h : <<top, h>> \in edges /\ h < succ + 1 => h < NextAt(Len(dfs)) \/ h = succ
<1> DEFINE R == Remaining
           succ == Min(R)
           top == NodeAt(Len(dfs))
           nxt == NextAt(Len(dfs))
<1>1. R = {h \in Task : <<top, h>> \in edges /\ h >= nxt} /\ nxt \in Nat
  BY TopFacts DEF Remaining
<1>2. R \in SUBSET Nat /\ R # {}
  BY <1>1, TaskFacts, Zenon
<1>3. succ \in R /\ \A y \in R : succ <= y
  BY <1>2, MinProperty
<1> HIDE DEF succ, top, nxt
<1>4. succ \in Task /\ <<top, succ>> \in edges
  BY <1>1, <1>3
<1>5. ASSUME NEW h, <<top, h>> \in edges, h < succ + 1
      PROVE  h < nxt \/ h = succ
  <2>1. h \in Task
    BY <1>5 DEF GraphInv
  <2>2. h \in Nat /\ succ \in Nat
    BY <1>4, <2>1, TaskFacts
  <2>3. h >= nxt => succ <= h
    BY <1>1, <1>3, <1>5, <2>1
  <2>4. QED BY <1>1, <1>5, <2>2, <2>3
<1>6. QED BY <1>4, <1>5 DEF succ, top, nxt

\* A step that only advances the top entry, because the successor is on the
\* path (and is reported) or is finished.
LEMMA AdvanceInv ==
  ASSUME GraphInv, DfsInv, dfs # <<>>, NEW succ \in Task, <<NodeAt(Len(dfs)), succ>> \in edges,
         \A h : <<NodeAt(Len(dfs)), h>> \in edges /\ h < succ + 1
                => h < NextAt(Len(dfs)) \/ h = succ,
         dfs' = Append(Below, [Top EXCEPT !.next = succ + 1]),
         UNCHANGED <<edges, start, explored, recStack>>,
         \/ succ \in recStack /\ found' = found \cup {<<NodeAt(Len(dfs)), succ>>}
         \/ succ \in Finished /\ found' = found
  PROVE  DfsInv'
<1> DEFINE n == Len(dfs)
           f == [Top EXCEPT !.next = succ + 1]
           top == NodeAt(n)
<1>1. /\ n \in Nat /\ n >= 1 /\ Top \in Frame /\ Top.node = top
      /\ top \in Task /\ top \in recStack /\ top \notin Finished
  BY TopFacts
<1>2. f \in Frame /\ f.node = top /\ f.next = succ + 1
  <2>1. succ + 1 \in Nat
    BY TaskFacts
  <2> QED
    BY <1>1, <2>1 DEF Frame
<1> HIDE DEF f
<1>3. /\ dfs' \in Seq(Frame) /\ Len(dfs') = n /\ dfs'[n] = f
      /\ \A i \in 1 .. (n - 1) : dfs'[i] = dfs[i]
  BY <1>2, StackSteps DEF Below, DfsInv, PathInv, f
<1>4. ASSUME NEW i \in 1 .. n
      PROVE  /\ NodeAt(i)' = NodeAt(i)
             /\ NextAt(i)' = IF i = n THEN succ + 1 ELSE NextAt(i)
  <2>1. CASE i = n
    BY <1>2, <1>3, <2>1, Zenon DEF NodeAt, NextAt
  <2>2. CASE i # n
    <3>1. i \in 1 .. (n - 1)
      BY <1>1, <2>2
    <3>2. QED BY <1>3, <2>2, <3>1, SMTT(20) DEF NodeAt, NextAt
  <2>3. QED BY <2>1, <2>2
<1> HIDE DEF n, top
<1>5. Finished' = Finished /\ \A t : ReachOf(t)' = ReachOf(t)
  BY DEF Finished, ReachOf
<1>6. n = Len(dfs) /\ Len(dfs') = Len(dfs) /\ (dfs' # <<>> => n >= 1)
  BY <1>1, <1>3 DEF n
<1>7. PathInv'
  <2>1. /\ \A t : t \in recStack <=> \E i \in 1 .. n : NodeAt(i)' = t
        /\ \A i, j \in 1 .. n : NodeAt(i)' = NodeAt(j)' => i = j
        /\ \A i, j \in 1 .. n : i <= j => NodeAt(j)' \in ReachOf(NodeAt(i))
    <3>1. /\ \A t : t \in recStack <=> \E i \in 1 .. n : NodeAt(i) = t
          /\ \A i, j \in 1 .. n : NodeAt(i) = NodeAt(j) => i = j
          /\ \A i, j \in 1 .. n : i <= j => NodeAt(j) \in ReachOf(NodeAt(i))
      BY <1>6, Zenon DEF DfsInv, PathInv
    <3>2. \A i \in 1 .. n : NodeAt(i)' = NodeAt(i)
      BY <1>4, Zenon
    <3>3. ASSUME NEW t PROVE t \in recStack <=> \E i \in 1 .. n : NodeAt(i)' = t
      <4>1. (\E i \in 1 .. n : NodeAt(i)' = t) <=> \E i \in 1 .. n : NodeAt(i) = t
        BY <3>2, Zenon
      <4>2. QED BY <3>1, <4>1, Zenon
    <3>4. ASSUME NEW i \in 1 .. n, NEW j \in 1 .. n
          PROVE  /\ NodeAt(i)' = NodeAt(j)' => i = j
                 /\ i <= j => NodeAt(j)' \in ReachOf(NodeAt(i))
      <4>1. NodeAt(i)' = NodeAt(i) /\ NodeAt(j)' = NodeAt(j)
        BY <3>2, Zenon
      <4>2. QED BY <3>1, <4>1, Zenon
    <3>5. QED BY <3>3, <3>4, Zenon
  <2>2. \A i \in 1 .. n : ReachOf(NodeAt(i))' = ReachOf(NodeAt(i))
    BY <1>4 DEF ReachOf
  <2>3. start \in Task /\ NodeAt(1)' = start
    <3>1. 1 \in 1 .. n
      BY <1>1
    <3>2. QED BY <1>4, <3>1 DEF DfsInv, PathInv
  <2>4. QED BY <1>3, <1>6, <2>1, <2>2, <2>3 DEF DfsInv, PathInv
<1>8. ExaminedInv'
  <2>1. ASSUME NEW i \in 1 .. n, NEW h, <<NodeAt(i), h>> \in edges, h < NextAt(i)'
        PROVE  \/ <<NodeAt(i), h>> \in found'
               \/ h \in Finished
               \/ i < n /\ h = NodeAt(i + 1)'
    <3>1. CASE i = n /\ h = succ
      <4>1. succ \in recStack => <<NodeAt(i), h>> \in found'
        BY <3>1 DEF n, Finished
      <4>2. QED BY <3>1, <4>1
    <3>2. CASE i = n /\ h # succ
      <4>1. h < NextAt(n)
        BY <1>4, <2>1, <3>2 DEF n
      <4>2. <<NodeAt(i), h>> \in found \/ h \in Finished
        BY <1>1, <2>1, <3>2, <4>1 DEF DfsInv, ExaminedInv, n
      <4>3. QED BY <4>2
    <3>3. CASE i # n
      <4>1. i < n /\ i + 1 \in 1 .. n /\ h < NextAt(i)
        BY <1>1, <1>4, <2>1, <3>3
      <4>2. <<NodeAt(i), h>> \in found \/ h \in Finished \/ h = NodeAt(i + 1)
        BY <2>1, <4>1, <1>6 DEF DfsInv, ExaminedInv
      <4>3. QED BY <1>4, <4>1, <4>2
    <3>4. QED BY <3>1, <3>2, <3>3
  <2>2. QED BY <1>4, <1>5, <1>6, <2>1 DEF ExaminedInv
<1>9. AcyclicInv'
  <2>1. FinishedEdges' = FinishedEdges
    BY <1>1, <1>5 DEF FinishedEdges, top, n
  <2>2. QED BY <1>5, <2>1 DEF DfsInv, AcyclicInv
<1>10. ReportInv'
  <2>1. succ \in recStack => top \in ReachOf(succ)
    <3>1. n \in 1 .. n /\ \A i \in 1 .. n : i <= n
      BY <1>1
    <3>2. QED BY <1>6, <3>1 DEF DfsInv, PathInv, top
  <2>2. found \subseteq edges /\ \A e \in found : e[1] \in ReachOf(e[2])
    BY Zenon DEF DfsInv, ReportInv
  <2>3. /\ found' \subseteq found \cup {<<top, succ>>}
        /\ <<top, succ>> \in found' => succ \in recStack \/ <<top, succ>> \in found
    BY DEF top, n
  <2>4. found' \subseteq edges' /\ \A e \in found' : e[1] \in ReachOf(e[2])
    BY <2>1, <2>2, <2>3 DEF top, n
  <2>5. QED BY <1>5, <2>4, Zenon DEF ReportInv
<1>11. QED BY <1>7, <1>8, <1>9, <1>10 DEF DfsInv

\* A step that goes on to a new task.
LEMMA PushInv ==
  ASSUME GraphInv, DfsInv, dfs # <<>>, NEW succ \in Task, <<NodeAt(Len(dfs)), succ>> \in edges,
         \A h : <<NodeAt(Len(dfs)), h>> \in edges /\ h < succ + 1
                => h < NextAt(Len(dfs)) \/ h = succ,
         dfs' = Append(Append(Below, [Top EXCEPT !.next = succ + 1]),
                       [node |-> succ, next |-> 0]),
         succ \notin explored, explored' = explored \cup {succ}, recStack' = recStack \cup {succ},
         UNCHANGED <<edges, start, found>>
  PROVE  DfsInv'
<1> DEFINE n == Len(dfs)
           f == [Top EXCEPT !.next = succ + 1]
           g == [node |-> succ, next |-> 0]
           top == NodeAt(n)
<1>1. /\ n \in Nat /\ n >= 1 /\ Top \in Frame /\ Top.node = top
      /\ top \in Task /\ top \in recStack
  BY TopFacts
<1>2. f \in Frame /\ f.node = top /\ f.next = succ + 1 /\ g \in Frame /\ g.node = succ /\ g.next = 0
  BY <1>1, TaskFacts DEF Frame
<1> HIDE DEF f, g
<1>3. /\ dfs' \in Seq(Frame) /\ Len(dfs') = n + 1 /\ dfs'[n] = f /\ dfs'[n + 1] = g
      /\ \A i \in 1 .. (n - 1) : dfs'[i] = dfs[i]
  BY <1>2, StackSteps DEF Below, DfsInv, PathInv, f, g
<1>4. ASSUME NEW i \in 1 .. n
      PROVE  /\ NodeAt(i)' = NodeAt(i)
             /\ NextAt(i)' = IF i = n THEN succ + 1 ELSE NextAt(i)
  <2>1. CASE i = n
    BY <1>2, <1>3, <2>1, Zenon DEF NodeAt, NextAt
  <2>2. CASE i # n
    <3>1. i \in 1 .. (n - 1)
      BY <1>1, <2>2
    <3>2. QED BY <1>3, <2>2, <3>1 DEF NodeAt, NextAt
  <2>3. QED BY <2>1, <2>2
<1>5. \A k : k = n + 1 => NodeAt(k)' = succ /\ NextAt(k)' = 0
  BY <1>2, <1>3 DEF NodeAt, NextAt
<1> HIDE DEF n, top
<1>6. n = Len(dfs) /\ Len(dfs') = n + 1 /\ \A i : i \in 1 .. (n + 1) <=> i \in 1 .. n \/ i = n + 1
  BY <1>1, <1>3 DEF n
<1>7. Finished' = Finished /\ (\A t : ReachOf(t)' = ReachOf(t)) /\ succ \notin recStack
  BY DEF Finished, ReachOf, DfsInv, PathInv
<1>8. /\ \A t : t \in recStack <=> \E i \in 1 .. n : NodeAt(i) = t
      /\ \A i, j \in 1 .. n : NodeAt(i) = NodeAt(j) => i = j
      /\ \A i, j \in 1 .. n : i <= j => NodeAt(j) \in ReachOf(NodeAt(i))
      /\ \A i \in 1 .. n : NodeAt(i) \in recStack /\ NodeAt(i) \in Task
  BY <1>6 DEF DfsInv, PathInv
<1>9. \A i \in 1 .. n : succ \in ReachOf(NodeAt(i))
  <2>1. ASSUME NEW i \in 1 .. n PROVE succ \in ReachOf(NodeAt(i))
    <3>1. top \in ReachOf(NodeAt(i)) /\ NodeAt(i) \in Task
      BY <1>1, <1>8 DEF top
    <3>2. <<top, succ>> \in edges
      BY DEF top, n
    <3>3. QED BY <3>1, <3>2, ReachIn
  <2>2. QED BY <2>1
<1>10. PathInv'
  <2>1. \A t : t \in recStack' <=> \E i \in 1 .. (n + 1) : NodeAt(i)' = t
    BY <1>4, <1>5, <1>6, <1>8
  <2>2. ASSUME NEW i \in 1 .. (n + 1), NEW j \in 1 .. (n + 1), NodeAt(i)' = NodeAt(j)'
        PROVE  i = j
    <3>1. CASE i \in 1 .. n /\ j \in 1 .. n
      BY <1>4, <1>8, <2>2, <3>1
    <3>2. CASE i = n + 1 /\ j \in 1 .. n
      BY <1>4, <1>5, <1>7, <1>8, <2>2, <3>2
    <3>3. CASE i \in 1 .. n /\ j = n + 1
      BY <1>4, <1>5, <1>7, <1>8, <2>2, <3>3
    <3>4. QED BY <1>6, <3>1, <3>2, <3>3
  <2>3. ASSUME NEW i \in 1 .. (n + 1), NEW j \in 1 .. (n + 1), i <= j
        PROVE  NodeAt(j)' \in ReachFrom(Task, edges', NodeAt(i)')
    <3>1. CASE i \in 1 .. n /\ j \in 1 .. n
      BY <1>4, <1>8, <2>3, <3>1 DEF ReachOf
    <3>2. CASE i = n + 1
      <4>1. j = n + 1
        BY <1>1, <2>3, <3>2
      <4>2. succ \in ReachOf(succ)
        BY ReachIn
      <4>3. QED BY <1>5, <3>2, <4>1, <4>2 DEF ReachOf
    <3>3. CASE i \in 1 .. n /\ j = n + 1
      BY <1>4, <1>5, <1>9, <3>3 DEF ReachOf
    <3>4. QED BY <1>6, <3>1, <3>2, <3>3
  <2>4. start \in Task /\ NodeAt(1)' = start
    <3>1. 1 \in 1 .. n
      BY <1>1
    <3>2. QED BY <1>4, <3>1 DEF DfsInv, PathInv
  <2>5. /\ explored' \subseteq Task /\ recStack' \subseteq explored'
        /\ start' \in 0 .. NumTasks /\ \A t \in Task : t < start' => t \in explored'
    BY DEF DfsInv, PathInv
  <2>6. QED BY <1>3, <1>6, <2>1, <2>2, <2>3, <2>4, <2>5 DEF PathInv, ReachOf
<1>11. ExaminedInv'
  <2>1. ASSUME NEW i \in 1 .. (n + 1), NEW h, <<NodeAt(i)', h>> \in edges, h < NextAt(i)'
        PROVE  \/ <<NodeAt(i)', h>> \in found
               \/ h \in Finished
               \/ i < n + 1 /\ h = NodeAt(i + 1)'
    <3>1. h \in Task /\ h \in Nat
      BY <2>1, TaskFacts DEF GraphInv
    <3>2. CASE i = n + 1
      BY <1>5, <2>1, <3>1, <3>2
    <3>3. CASE i = n /\ h = succ
      BY <1>1, <1>5, <3>3
    <3>4. CASE i = n /\ h # succ
      <4>2. n \in 1 .. n /\ ~(n < n)
        BY <1>1
      <4>5. h < succ + 1 /\ <<NodeAt(n), h>> \in edges
        BY <1>4, <2>1, <3>4, <4>2, Zenon
      <4>1. h < NextAt(n) /\ <<NodeAt(n), h>> \in edges
        BY <3>4, <4>5 DEF n
      <4>3. <<NodeAt(n), h>> \in found \/ h \in Finished
        BY <1>6, <4>1, <4>2 DEF DfsInv, ExaminedInv
      <4>4. QED BY <1>4, <3>4, <4>2, <4>3
    <3>5. CASE i # n /\ i # n + 1
      <4>1. i \in 1 .. n /\ i < n /\ i < n + 1 /\ i + 1 \in 1 .. n
        BY <1>1, <3>5
      <4>2. <<NodeAt(i), h>> \in edges /\ h < NextAt(i)
        BY <1>4, <2>1, <3>5, <4>1, SMTT(20)
      <4>3. <<NodeAt(i), h>> \in found \/ h \in Finished \/ h = NodeAt(i + 1)
        BY <1>6, <4>1, <4>2 DEF DfsInv, ExaminedInv
      <4>4. QED BY <1>4, <4>1, <4>3
    <3>6. QED BY <3>2, <3>3, <3>4, <3>5
  <2>2. QED BY <1>6, <1>7, <2>1 DEF ExaminedInv
<1>12. AcyclicInv' /\ ReportInv'
  BY <1>7, Zenon DEF DfsInv, AcyclicInv, FinishedEdges, ReportInv
<1>13. QED BY <1>10, <1>11, <1>12 DEF DfsInv

\* Examining a successor.
LEMMA ExamineInv ==
  ASSUME GraphInv, DfsInv, Examine
  PROVE  DfsInv'
<1> DEFINE succ == Min(Remaining)
           top == NodeAt(Len(dfs))
           advanced == Append(Below, [Top EXCEPT !.next = succ + 1])
<1>1. dfs # <<>> /\ Remaining # {} /\ UNCHANGED <<edges, start>>
  BY DEF Examine
<1>2. \/ /\ succ \in recStack /\ found' = found \cup {<<Top.node, succ>>}
         /\ dfs' = advanced /\ UNCHANGED <<explored, recStack>>
      \/ /\ succ \notin explored /\ UNCHANGED found
         /\ dfs' = Append(advanced, [node |-> succ, next |-> 0])
         /\ explored' = explored \cup {succ} /\ recStack' = recStack \cup {succ}
      \/ /\ succ \in Finished /\ dfs' = advanced /\ UNCHANGED <<explored, recStack, found>>
  BY DEF Examine, Push, Finished
<1>3. Top.node = top
  BY <1>1, TopFacts
<1>4. /\ succ \in Task /\ <<top, succ>> \in edges
      /\ \A h : <<top, h>> \in edges /\ h < succ + 1 => h < NextAt(Len(dfs)) \/ h = succ
  BY <1>1, SuccFacts
<1> HIDE DEF succ
<1>5. CASE succ \in recStack /\ found' = found \cup {<<top, succ>>}
           /\ dfs' = advanced /\ UNCHANGED <<explored, recStack>>
  BY <1>1, <1>4, <1>5, AdvanceInv
<1>6. CASE /\ succ \notin explored /\ UNCHANGED found
           /\ dfs' = Append(advanced, [node |-> succ, next |-> 0])
           /\ explored' = explored \cup {succ} /\ recStack' = recStack \cup {succ}
  BY <1>1, <1>4, <1>6, PushInv
<1>7. CASE succ \in Finished /\ dfs' = advanced /\ UNCHANGED <<explored, recStack, found>>
  BY <1>1, <1>4, <1>7, AdvanceInv
<1>8. QED BY <1>2, <1>3, <1>5, <1>6, <1>7

\* Leaving a task whose successors have all been examined: its unreported
\* edges lead to finished tasks, from which nothing leads back to it.
LEMMA BacktrackInv ==
  ASSUME GraphInv, DfsInv, Backtrack
  PROVE  DfsInv'
<1> DEFINE n == Len(dfs)
           top == NodeAt(n)
<1>1. /\ dfs # <<>> /\ start < NumTasks /\ Remaining = {}
      /\ recStack' = recStack \ {Top.node}
      /\ dfs' = Below /\ start' = IF Below = <<>> THEN start + 1 ELSE start
      /\ UNCHANGED <<edges, explored, found>>
  BY DEF Backtrack, Searching
<1>2. /\ n \in Nat /\ n >= 1 /\ Top \in Frame /\ Top.node = top
      /\ Top.next = NextAt(n) /\ top \in Task /\ NextAt(n) \in Nat
      /\ top \in recStack /\ top \notin Finished
  BY <1>1, TopFacts
<1>3. /\ dfs' \in Seq(Frame) /\ Len(dfs') = n - 1
      /\ \A i \in 1 .. (n - 1) : dfs'[i] = dfs[i]
  BY <1>1, <1>2, StackSteps DEF Below, DfsInv, PathInv
<1>4. \A i \in 1 .. (n - 1) : NodeAt(i)' = NodeAt(i) /\ NextAt(i)' = NextAt(i)
  BY <1>3 DEF NodeAt, NextAt
<1>5. \A h : <<top, h>> \in edges => <<top, h>> \in found \/ h \in Finished
  <2>1. ASSUME NEW h, <<top, h>> \in edges
        PROVE  <<top, h>> \in found \/ h \in Finished
    <3>1. h \in Task /\ h \in Nat
      BY <2>1, TaskFacts DEF GraphInv
    <3>2. ~(h >= NextAt(n))
      BY <1>1, <1>2, <2>1, <3>1 DEF Remaining
    <3>3. h < NextAt(n) /\ n \in 1 .. n /\ ~(n < n)
      BY <1>2, <3>1, <3>2
    <3>4. QED BY <2>1, <3>3 DEF DfsInv, ExaminedInv
  <2>2. QED BY <2>1
<1>6. /\ \A t : t \in recStack <=> \E i \in 1 .. n : NodeAt(i) = t
      /\ \A i, j \in 1 .. n : NodeAt(i) = NodeAt(j) => i = j
      /\ \A i, j \in 1 .. n : i <= j => NodeAt(j) \in ReachOf(NodeAt(i))
      /\ start \in Task /\ NodeAt(1) = start
      /\ \A i \in 1 .. n : \A h : <<NodeAt(i), h>> \in edges /\ h < NextAt(i) =>
           <<NodeAt(i), h>> \in found \/ h \in Finished \/ (i < n /\ h = NodeAt(i + 1))
  BY <1>1 DEF DfsInv, PathInv, ExaminedInv
<1> HIDE DEF n
<1>7. /\ n \in 1 .. n /\ \A i : i \in 1 .. n <=> i \in 1 .. (n - 1) \/ i = n
      /\ n \notin 1 .. (n - 1)
  BY <1>2
<1>8. Finished' = Finished \cup {top} /\ \A t : ReachOf(t)' = ReachOf(t)
  <2>1. recStack \subseteq explored
    BY Zenon DEF DfsInv, PathInv
  <2>2. Finished' = Finished \cup {top}
    BY <1>1, <1>2, <2>1 DEF Finished
  <2>3. \A t : ReachOf(t)' = ReachOf(t)
    BY <1>1, Zenon DEF ReachOf
  <2> QED
    BY <2>2, <2>3, Zenon
<1>9. PathInv'
  <2>1. \A t : t \in recStack' <=> \E i \in 1 .. (n - 1) : NodeAt(i)' = t
    <3>1. ASSUME NEW t, t \in recStack'
          PROVE  \E i \in 1 .. (n - 1) : NodeAt(i)' = t
      <4>1. t \in recStack /\ t # top
        BY <1>1, <1>2, <3>1
      <4>2. PICK i \in 1 .. n : NodeAt(i) = t
        BY <1>6, <4>1
      <4>3. i \in 1 .. (n - 1)
        BY <1>7, <4>1, <4>2
      <4>4. QED BY <1>4, <4>2, <4>3
    <3>2. ASSUME NEW t, NEW i \in 1 .. (n - 1), NodeAt(i)' = t
          PROVE  t \in recStack'
      <4>1. i \in 1 .. n /\ i # n /\ NodeAt(i) = t
        BY <1>4, <1>7, <3>2
      <4>2. t \in recStack /\ t # top
        BY <1>6, <1>7, <4>1
      <4>3. QED BY <1>1, <1>2, <4>2
    <3>3. QED BY <3>1, <3>2
  <2>2. /\ \A i, j \in 1 .. (n - 1) : NodeAt(i)' = NodeAt(j)' => i = j
        /\ \A i, j \in 1 .. (n - 1) : i <= j => NodeAt(j)' \in ReachOf(NodeAt(i))'
    <3>1. ASSUME NEW i \in 1 .. (n - 1), NEW j \in 1 .. (n - 1)
          PROVE  /\ NodeAt(i)' = NodeAt(j)' => i = j
                 /\ i <= j => NodeAt(j)' \in ReachOf(NodeAt(i))'
      <4>1. /\ i \in 1 .. n /\ j \in 1 .. n
            /\ NodeAt(i)' = NodeAt(i) /\ NodeAt(j)' = NodeAt(j)
        BY <1>4, <1>7
      <4>2. ReachOf(NodeAt(i))' = ReachOf(NodeAt(i))
        BY <1>1, <4>1 DEF ReachOf
      <4>3. QED BY <1>6, <4>1, <4>2
    <3>2. QED BY <3>1
  <2>3. start' \in 0 .. NumTasks /\ \A t \in Task : t < start' => t \in explored
    <3>1. start \in Nat /\ start + 1 \in 0 .. NumTasks /\ start \in 0 .. NumTasks
      BY <1>1, <1>6, TaskFacts
    <3>2. \A t \in Task : t < start => t \in explored
      BY DEF DfsInv, PathInv
    <3>3. start \in explored
      <4>1. 1 \in 1 .. n
        BY <1>2
      <4>2. start \in recStack
        BY <1>6, <4>1
      <4>3. QED BY <4>2 DEF DfsInv, PathInv
    <3>4. \A t \in Task : t < start + 1 => t < start \/ t = start
      BY <3>1, TaskFacts
    <3>5. QED BY <1>1, <3>1, <3>2, <3>3, <3>4
  <2>4. dfs' # <<>> => start' \in Task /\ NodeAt(1)' = start'
    <3>1. HAVE dfs' # <<>>
    <3>2. Len(dfs') # 0
      BY <1>3, <3>1
    <3>3. 1 \in 1 .. (n - 1)
      BY <1>2, <1>3, <3>2
    <3>4. start' = start
      BY <1>1, <3>1
    <3>5. QED BY <1>4, <1>6, <3>3, <3>4
  <2>5. explored' \subseteq Task /\ recStack' \subseteq explored'
    BY <1>1 DEF DfsInv, PathInv
  <2>6. QED BY <1>1, <1>3, <2>1, <2>2, <2>3, <2>4, <2>5 DEF PathInv
<1>10. ExaminedInv'
  <2>1. ASSUME NEW i \in 1 .. (n - 1), NEW h, <<NodeAt(i)', h>> \in edges, h < NextAt(i)'
        PROVE  \/ <<NodeAt(i)', h>> \in found
               \/ h \in Finished'
               \/ i < n - 1 /\ h = NodeAt(i + 1)'
    <3>1. i \in 1 .. n /\ NodeAt(i)' = NodeAt(i) /\ NextAt(i)' = NextAt(i)
      BY <1>4, <1>7
    <3>2. <<NodeAt(i), h>> \in found \/ h \in Finished \/ h = NodeAt(i + 1)
      BY <1>6, <2>1, <3>1
    <3>3. i + 1 = n \/ (i < n - 1 /\ i + 1 \in 1 .. (n - 1))
      BY <1>2
    <3>4. QED BY <1>4, <1>8, <3>1, <3>2, <3>3
  <2>2. QED BY <1>1, <1>3, <2>1 DEF ExaminedInv
<1>11. AcyclicInv'
  <2> DEFINE F == FinishedEdges
             G == FinishedEdges'
  <2>1. \A e \in F : e[2] \in Finished /\ e[1] \notin ReachFrom(Task, F, e[2])
    BY DEF DfsInv, AcyclicInv
  <2>2. \A e \in G : e \in edges \ found /\ e \in Task \X Task /\ (e \in F \/ e[1] = top)
    BY <1>1, <1>8 DEF FinishedEdges, GraphInv
  <2>3. \A e \in G : e[1] \in Finished => e \in F
    BY <1>1 DEF FinishedEdges
  <2>4. \A e \in G : e[2] \in Finished
    <3>1. ASSUME NEW e \in G
          PROVE  e[2] \in Finished
      <4>1. CASE e[1] = top
        <5>1. e = <<top, e[2]>>
          BY <2>2, <4>1
        <5>2. QED BY <1>5, <2>2, <5>1
      <4>2. QED BY <2>1, <2>2, <4>1
    <3>2. QED BY <3>1
  <2> HIDE DEF F, G
  <2>5. ASSUME NEW e \in G
        PROVE  e[1] \notin ReachFrom(Task, G, e[2])
    <3> DEFINE R == ReachFrom(Task, F, e[2])
               S == R \cap Finished
    <3>1. e[2] \in Task /\ e[2] \in Finished
      BY <2>2, <2>4
    <3>2. e[2] \in R /\ R \subseteq Task /\ \A d \in F : d[1] \in R /\ d[2] \in Task => d[2] \in R
      BY <3>1, ReachFacts
    <3>3. Closed(G, S)
      BY <2>2, <2>3, <2>4, <3>2 DEF Closed
    <3>4. ReachFrom(Task, G, e[2]) \subseteq S
      BY <3>1, <3>2, <3>3, ReachLeast
    <3>5. QED BY <1>2, <2>1, <2>2, <3>4
  <2>6. QED BY <1>8, <2>4, <2>5 DEF AcyclicInv, G
<1>12. ReportInv'
  BY <1>1, <1>8 DEF DfsInv, ReportInv
<1>13. QED BY <1>9, <1>10, <1>11, <1>12 DEF DfsInv

\* What the search for cycles does not touch keeps its invariant.
LEMMA DfsUnchanged ==
  ASSUME DfsInv, UNCHANGED <<edges, start, explored, recStack, dfs, found>>
  PROVE  DfsInv'
<1>1. \A i : NodeAt(i)' = NodeAt(i) /\ NextAt(i)' = NextAt(i)
  BY DEF NodeAt, NextAt
<1>2. Finished' = Finished /\ FinishedEdges' = FinishedEdges
  BY DEF Finished, FinishedEdges
<1>3. /\ \A t : ReachOf(t)' = ReachOf(t)
      /\ \A i : ReachOf(NodeAt(i))' = ReachOf(NodeAt(i))
  BY <1>1 DEF ReachOf
<1>4. PathInv'
  BY <1>1, <1>3 DEF DfsInv, PathInv
<1>5. ExaminedInv'
  BY <1>1, <1>2 DEF DfsInv, ExaminedInv
<1>6. AcyclicInv' /\ ReportInv'
  BY <1>2, <1>3 DEF DfsInv, AcyclicInv, ReportInv
<1>7. QED BY <1>4, <1>5, <1>6 DEF DfsInv

-----------------------------------------------------------------------------
(* The build *)

\* A table is emitted once every source is finished, from its results.
TableInv ==
  pc = "done" /\ ~stopFirst =>
    /\ src = NumTasks
    /\ rendered = [i \in 1 .. MaxTasks |-> IF i <= NumTasks THEN mip[i - 1] ELSE 0]

Inv == GraphInv /\ BfsInv /\ DfsInv /\ TableInv

\* Both searches start from an empty state.
LEMMA InitInv ==
  ASSUME Init
  PROVE  Inv
BY BfsInit, DfsInit DEF Init, Inv, TableInv

\* Every step of the build preserves the invariant.
LEMMA NextInv ==
  ASSUME Inv, [Next]_vars
  PROVE  Inv'
<1> USE DEF Inv
<1>1. CASE SearchCycles
  <2>1. pc = "cycles" /\ CycleStep /\ UNCHANGED <<priority, mipVars, pc, rendered>>
    BY <1>1 DEF SearchCycles
  <2>2. edges' = edges
    BY <2>1 DEF CycleStep, SkipStart, BeginStart, Examine, Backtrack
  <2>3. GraphInv' /\ BfsInv'
    BY <2>1, <2>2, BfsUnchanged DEF mipVars
  <2>4. DfsInv'
    BY <2>1, RootInv, ExamineInv, BacktrackInv DEF CycleStep
  <2>5. TableInv'
    BY <2>1 DEF TableInv
  <2>6. QED BY <2>3, <2>4, <2>5
<1>2. CASE WarnOfCycles
  <2>1. /\ pc' = IF stopFirst THEN "done" ELSE "mip"
        /\ UNCHANGED <<edges, priority, stopFirst, start, explored, recStack, dfs, found>>
        /\ UNCHANGED <<src, queue, head, visited, mip, rendered>>
    BY <1>2 DEF WarnOfCycles, graph, cycleVars, mipVars
  <2>2. GraphInv' /\ BfsInv' /\ DfsInv'
    BY <2>1, BfsUnchanged, DfsUnchanged
  <2>3. TableInv'
    BY <2>1 DEF TableInv
  <2>4. QED BY <2>2, <2>3
<1>3. CASE ComputeMip
  <2>1. /\ pc = "mip" /\ pc' = pc /\ MipStep
        /\ UNCHANGED <<stopFirst, start, explored, recStack, dfs, found>>
    BY <1>3 DEF ComputeMip, cycleVars
  <2>2. edges' = edges /\ priority' = priority
    BY <2>1 DEF MipStep, Visit, NextSource, Finish
  <2>3. GraphInv'
    BY <2>2 DEF GraphInv
  <2>4. BfsInv'
    <3>1. CASE Visit
      <4>1. head < Len(queue) /\ head \in Int /\ Len(queue) \in Int
        <5>1. queue \in Seq(Task) /\ head \in 0 .. Len(queue)
          BY DEF BfsInv, FrontierInv, Lists
        <5>2. head < Len(queue)
          BY <3>1, Zenon DEF Visit
        <5> QED
          BY <5>1, <5>2
      <4>2. src \in Task
        BY <4>1 DEF BfsInv, FrontierInv
      <4>3. QED BY <3>1, <4>2, VisitInv
    <3>2. QED BY <2>1, <3>1, NextSourceInv, FinishInv DEF MipStep
  <2>5. DfsInv' /\ TableInv'
    BY <2>1, <2>2, DfsUnchanged DEF TableInv
  <2>6. QED BY <2>3, <2>4, <2>5
<1>4. CASE RenderCcgConstants
  <2>1. /\ src = NumTasks
        /\ rendered' = [i \in 1 .. MaxTasks |-> IF i <= NumTasks THEN mip[i - 1] ELSE 0]
        /\ UNCHANGED <<edges, priority, stopFirst, start, explored, recStack, dfs, found>>
        /\ UNCHANGED <<src, queue, head, visited, mip>>
    BY <1>4 DEF RenderCcgConstants, graph, cycleVars, mipVars
  <2>2. GraphInv' /\ BfsInv' /\ DfsInv'
    BY <2>1, BfsUnchanged, DfsUnchanged
  <2>3. TableInv'
    BY <2>1 DEF TableInv
  <2>4. QED BY <2>2, <2>3
<1>5. CASE UNCHANGED vars
  <2>1. /\ UNCHANGED <<edges, priority, stopFirst, start, explored, recStack, dfs, found>>
        /\ UNCHANGED <<src, queue, head, visited, mip, pc, rendered>>
    BY <1>5 DEF vars, graph, cycleVars, mipVars
  <2>2. GraphInv' /\ BfsInv' /\ DfsInv'
    BY <2>1, BfsUnchanged, DfsUnchanged
  <2>3. TableInv'
    BY <2>1 DEF TableInv
  <2>4. QED BY <2>2, <2>3
<1>6. QED BY <1>1, <1>2, <1>3, <1>4, <1>5 DEF Next, Step, Done

\* The invariant holds of every build.
LEMMA InvAlways == Spec => []Inv
BY InitInv, NextInv, PTL DEF Spec

\* The emitted constants are the inherited priorities, zero-padded, for every
\* contention graph and every priority table.
THEOREM TableIsRightAlways == Spec => []TableIsRight
<1>1. ASSUME Inv PROVE TableIsRight
  <2>1. SUFFICES ASSUME pc = "done", ~stopFirst
                 PROVE  /\ DOMAIN rendered = 1 .. MaxTasks
                        /\ \A i \in 1 .. MaxTasks :
                             LET reach == ReachFrom(Task, edges, i - 1)
                             IN  IF i > NumTasks THEN rendered[i] = 0
                                 ELSE /\ \A u \in reach : priority[u] <= rendered[i]
                                      /\ \E u \in reach : priority[u] = rendered[i]
    BY DEF TableIsRight
  <2>2. /\ src = NumTasks
        /\ rendered = [i \in 1 .. MaxTasks |-> IF i <= NumTasks THEN mip[i - 1] ELSE 0]
    BY <1>1, <2>1 DEF Inv, TableInv
  <2>3. ASSUME NEW i \in 1 .. MaxTasks, ~(i > NumTasks)
        PROVE  IsMaximum(rendered[i], ReachOf(i - 1))
    <3>1. i - 1 \in Task /\ i - 1 < NumTasks /\ i <= NumTasks
      BY <2>3, BuildAssumption, TaskFacts
    <3>2. rendered[i] = mip[i - 1]
      BY <2>2, <3>1
    <3>3. IsMaximum(mip[i - 1], ReachOf(i - 1))
      BY <1>1, <2>2, <3>1 DEF Inv, BfsInv, MipInv
    <3>4. QED BY <3>2, <3>3
  <2>4. ASSUME NEW i \in 1 .. MaxTasks, i > NumTasks
        PROVE  rendered[i] = 0
    <3>1. ~(i <= NumTasks)
      BY <2>4, BuildAssumption
    <3>2. QED BY <2>2, <3>1
  <2>5. QED BY <2>2, <2>3, <2>4 DEF IsMaximum, ReachOf
<1>2. QED BY <1>1, InvAlways, PTL

\* Every reported edge lies on a cycle.
THEOREM ReportsLieOnCyclesAlways == Spec => []ReportsLieOnCycles
<1>1. ASSUME Inv PROVE ReportsLieOnCycles
  BY <1>1 DEF ReportsLieOnCycles, Inv, DfsInv, ReportInv, ReachOf
<1>2. QED BY <1>1, InvAlways, PTL

\* A search that is over has reported an edge iff there is a cycle, and
\* without the edges find_cycle_back_edges reports there is none.
THEOREM FindsEveryCycleAlways == Spec => []FindsEveryCycle
<1>1. ASSUME Inv PROVE FindsEveryCycle
  <2>1. SUFFICES ASSUME ~Searching
                 PROVE  /\ Cyclic(edges) <=> found # {}
                        /\ ~stopFirst => ~Cyclic(edges \ found)
    BY DEF FindsEveryCycle
  <2>2. found # {} => Cyclic(edges)
    BY <1>1 DEF Cyclic, Inv, DfsInv, ReportInv, ReachOf
  <2>3. ASSUME ~(start < NumTasks)
        PROVE  ~Cyclic(edges \ found)
    <3>1. start \notin Task /\ start \in Nat
      BY <1>1, <2>3, TaskFacts DEF Inv, DfsInv, PathInv
    <3>2. dfs = <<>>
      BY <1>1, <3>1 DEF Inv, DfsInv, PathInv
    <3>3. recStack = {}
      <4>1. Len(dfs) = 0
        BY <3>2
      <4>2. \A i : i \notin 1 .. Len(dfs)
        BY <4>1
      <4>3. QED BY <1>1, <4>2 DEF Inv, DfsInv, PathInv
    <3>4. \A t \in Task : t < start
      BY <2>3, <3>1, TaskFacts
    <3>5. Finished = Task
      BY <1>1, <3>3, <3>4, Zenon DEF Inv, DfsInv, PathInv, Finished
    <3>6. FinishedEdges = edges \ found
      BY <1>1, <3>5 DEF FinishedEdges, Inv, GraphInv
    <3>7. QED BY <1>1, <3>6 DEF Inv, DfsInv, AcyclicInv, Cyclic
  <2>4. found = {} => edges \ found = edges
    OBVIOUS
  <2>5. start < NumTasks => stopFirst /\ found # {}
    BY <2>1 DEF Searching
  <2>6. QED BY <2>2, <2>3, <2>4, <2>5
<1>2. QED BY <1>1, InvAlways, PTL

\* Neither search holds more entries than there are tasks.
THEOREM ArraysSufficeAlways == Spec => []ArraysSuffice
<1>1. ASSUME Inv PROVE ArraysSuffice
  <2>1. Len(queue) <= NumTasks
    BY <1>1, TaskFacts, ListsFit DEF Inv, BfsInv, FrontierInv
  <2>2. Len(dfs) <= NumTasks
    <3> DEFINE q == [i \in 1 .. Len(dfs) |-> NodeAt(i)]
    <3>1. Len(dfs) \in Nat /\ \A i \in 1 .. Len(dfs) : dfs[i] \in Frame
      BY <1>1 DEF Inv, DfsInv, PathInv
    <3>2. \A i \in 1 .. Len(dfs) : NodeAt(i) \in Task
      BY <1>1 DEF Inv, DfsInv, PathInv
    <3>3. q \in Seq(Task) /\ Len(q) = Len(dfs)
      BY <3>1, <3>2
    <3>4. IsInjective(q)
      BY <1>1 DEF IsInjective, Inv, DfsInv, PathInv
    <3> HIDE DEF q
    <3>5. Lists(Task, q, Range(q))
      BY <3>3, <3>4 DEF Lists
    <3>6. QED BY <3>3, <3>5, TaskFacts, ListsFit
  <2>3. QED BY <2>1, <2>2 DEF ArraysSuffice
<1>2. QED BY <1>1, InvAlways, PTL

-----------------------------------------------------------------------------
(* Boot: reachability in the tables *)

\* Tasks without edges add nothing to what the others reach.
LEMMA SameReach ==
  ASSUME NEW E, NEW V, NEW W, V \subseteq W, NEW i \in V,
         \A e \in E : e[1] \in V /\ e[2] \in V
  PROVE  ReachFrom(W, E, i) = ReachFrom(V, E, i)
<1>1. ASSUME NEW u \in ReachFrom(W, E, i)
      PROVE  u \in ReachFrom(V, E, i)
  <2>1. V \in SUBSET W /\ i \in V /\ Closed(E, V)
    BY DEF Closed
  <2>2. u \in V
    BY <1>1, <2>1 DEF ReachFrom
  <2>3. \A S \in SUBSET V : S \in SUBSET W
    OBVIOUS
  <2>4. QED BY <1>1, <2>2, <2>3 DEF ReachFrom
<1>2. ASSUME NEW u \in ReachFrom(V, E, i)
      PROVE  u \in ReachFrom(W, E, i)
  <2>1. ASSUME NEW S \in SUBSET W, i \in S, Closed(E, S)
        PROVE  u \in S
    <3>1. S \cap V \in SUBSET V /\ i \in S \cap V /\ Closed(E, S \cap V)
      BY <2>1 DEF Closed
    <3>2. u \in S \cap V
      BY <1>2, <3>1 DEF ReachFrom
    <3>3. QED BY <3>2
  <2>2. QED BY <1>2, <2>1 DEF ReachFrom
<1>3. QED BY <1>1, <1>2, Zenon

\* A task without edges reaches itself only.
LEMMA IsolatedReach ==
  ASSUME NEW E, NEW W, NEW i \in W, \A e \in E : e[1] # i
  PROVE  ReachFrom(W, E, i) = {i}
<1>1. {i} \in SUBSET W /\ Closed(E, {i})
  BY DEF Closed
<1>2. QED BY <1>1 DEF ReachFrom

-----------------------------------------------------------------------------
(* Boot: the two detectors *)

\* register_task has copied a prefix of the tables into the registry.
RegistryInv ==
  /\ table \in Tables
  /\ phase \in {"register", "capabilities", "channels", "running", "halted"}
  /\ registry \in Seq(Descriptor)
  /\ Len(registry) <= Len(AllTasks) /\ Len(registry) <= MaxTasks
  /\ \A i \in 1 .. Len(registry) : registry[i] = AllTasks[i]
  /\ phase \in {"capabilities", "channels", "running"} =>
       /\ Len(registry) = Len(AllTasks)
       /\ \A i \in 1 .. Len(registry) : ~Misplaced(registry[i])

\* The first n tasks hold existing peripherals, each a different one.
HoldersApart(n) ==
  /\ \A i \in 1 .. n : \A id \in registry[i].exclusive : id < MaxPeripherals
  /\ \A i, j \in 1 .. n : i # j => registry[i].exclusive \cap registry[j].exclusive = {}

\* The first n tasks use existing channels, each end by one task.
EndpointsApart(n) ==
  /\ \A i \in 1 .. n : \A id \in registry[i].sends \cup registry[i].receives : id < MaxChannels
  /\ \A i, j \in 1 .. n : i # j => /\ registry[i].sends \cap registry[j].sends = {}
                                   /\ registry[i].receives \cap registry[j].receives = {}

\* claimed collects what the tasks before slot hold.
CapabilityInv ==
  /\ phase = "register" => slot = 1 /\ claimed = {}
  /\ phase = "capabilities" =>
       /\ slot \in 1 .. (Len(registry) + 1)
       /\ \A id : id \in claimed <=> \E i \in 1 .. (slot - 1) : id \in registry[i].exclusive
       /\ HoldersApart(slot - 1)
  /\ phase \in {"channels", "running"} => HoldersApart(Len(registry))

\* senders and receivers collect the ends the tasks before slot use.
ChannelInv ==
  /\ phase \in {"register", "capabilities"} => senders = {} /\ receivers = {}
  /\ phase = "channels" =>
       /\ slot \in 1 .. (Len(registry) + 1)
       /\ \A id : id \in senders <=> \E i \in 1 .. (slot - 1) : id \in registry[i].sends
       /\ \A id : id \in receivers <=> \E i \in 1 .. (slot - 1) : id \in registry[i].receives
       /\ EndpointsApart(slot - 1)
  /\ phase = "running" => EndpointsApart(Len(registry))

\* scheduler::init has copied the build script's table.
InheritedInv == phase = "running" => inherited = [i \in DOMAIN registry |-> MipTable[i]]

\* The inductive invariant.
BootInv == RegistryInv /\ CapabilityInv /\ ChannelInv /\ HaltsOnlyIfUnsound

\* The tasks to register are a sequence of descriptors.
LEMMA AllTasksType ==
  ASSUME table \in Tables
  PROVE  /\ AllTasks \in Seq(Descriptor)
         /\ Len(AllTasks) \in Nat
         /\ Len(AllTasks) = Len(table) + Len(KernelOwned)
         /\ DOMAIN AllTasks = 1 .. Len(AllTasks)
<1>1. table \in Seq(Descriptor) /\ KernelOwned \in Seq(Descriptor)
  BY BootAssumption
<1>2. QED BY <1>1 DEF AllTasks

\* Before a task is registered nothing has been checked.
LEMMA BootInitInv == BootInit => BootInv
<1> SUFFICES ASSUME BootInit PROVE BootInv
  OBVIOUS
<1>1. RegistryInv
  BY AllTasksType, BootAssumption DEF BootInit, RegistryInv
<1>2. QED
  BY <1>1 DEF BootInit, BootInv, CapabilityInv, ChannelInv, HaltsOnlyIfUnsound

\* When the registry is complete it is the list of all tasks.
LEMMA Complete ==
  ASSUME RegistryInv, Len(registry) = Len(AllTasks)
  PROVE  registry = AllTasks
<1>1. AllTasks \in Seq(Descriptor) /\ registry \in Seq(Descriptor)
  BY AllTasksType DEF RegistryInv
<1>2. QED BY <1>1 DEF RegistryInv

\* A registration preserves the invariant; a full registry stops the boot.
LEMMA RegisterInv == BootInv /\ RegisterTask => BootInv'
<1> SUFFICES ASSUME BootInv, RegisterTask PROVE BootInv'
  OBVIOUS
<1>1. /\ AllTasks \in Seq(Descriptor) /\ Len(AllTasks) \in Nat /\ AllTasks' = AllTasks
      /\ registry \in Seq(Descriptor) /\ Len(registry) \in Nat /\ Len(registry) < Len(AllTasks)
      /\ MaxTasks \in Nat
  <2>1. table \in Tables /\ registry \in Seq(Descriptor)
    BY Zenon DEF BootInv, RegistryInv
  <2>2. Len(registry) < Len(table) + Len(KernelOwned) /\ table' = table
    BY Zenon DEF RegisterTask
  <2>3. AllTasks \in Seq(Descriptor) /\ Len(AllTasks) = Len(table) + Len(KernelOwned)
    BY <2>1, AllTasksType, Zenon
  <2>4. AllTasks' = AllTasks
    BY <2>2, Zenon DEF AllTasks
  <2>5. Len(registry) \in Nat /\ Len(AllTasks) \in Nat
    BY <2>1, <2>3
  <2> QED
    BY <2>1, <2>2, <2>3, <2>4, <2>5, BootAssumption, Zenon
<1>2. CASE Len(registry) = MaxTasks
  <2>1. phase' = "halted" /\ table' = table /\ registry' = registry
    BY <1>2, Zenon DEF RegisterTask
  <2>2. RegistryInv'
    BY <1>1, <2>1, ZenonT(30) DEF BootInv, RegistryInv
  <2>3. Len(AllTasks) > MaxTasks
    BY <1>1, <1>2
  <2>4. HaltsOnlyIfUnsound'
    BY <1>1, <2>3, Zenon DEF HaltsOnlyIfUnsound
  <2>5. CapabilityInv' /\ ChannelInv'
    BY <2>1, Zenon DEF CapabilityInv, ChannelInv
  <2>6. QED BY <2>2, <2>4, <2>5, Zenon DEF BootInv
<1>3. CASE Len(registry) # MaxTasks
  <2>1. /\ registry' = Append(registry, AllTasks[Len(registry) + 1])
        /\ phase = "register" /\ phase' = "register"
        /\ UNCHANGED <<table, slot, claimed, senders, receivers>>
    BY <1>3 DEF RegisterTask, AllTasks
  <2>2. AllTasks[Len(registry) + 1] \in Descriptor
    BY <1>1
  <2>3. /\ registry' \in Seq(Descriptor) /\ Len(registry') = Len(registry) + 1
        /\ \A i \in 1 .. (Len(registry) + 1) :
             registry'[i] = IF i <= Len(registry) THEN registry[i] ELSE AllTasks[Len(registry) + 1]
    BY <1>1, <2>1, <2>2, SMTT(20), ZenonT(20)
  <2>4. RegistryInv'
    BY <1>1, <1>3, <2>1, <2>3 DEF BootInv, RegistryInv
  <2>5. QED
    BY <2>1, <2>4 DEF BootInv, CapabilityInv, ChannelInv, HaltsOnlyIfUnsound
<1>4. QED BY <1>2, <1>3

\* The placement check preserves the invariant.
LEMMA PlacementInv == BootInv /\ CheckRegionPlacement => BootInv'
<1> SUFFICES ASSUME BootInv, CheckRegionPlacement PROVE BootInv'
  OBVIOUS
<1>1. /\ table \in Tables /\ Len(registry) = Len(AllTasks) /\ AllTasks' = AllTasks
      /\ phase = "register" /\ slot = 1 /\ claimed = {} /\ senders = {} /\ receivers = {}
      /\ UNCHANGED <<table, registry, slot, claimed, senders, receivers>>
  BY AllTasksType DEF BootInv, RegistryInv, CapabilityInv, ChannelInv, CheckRegionPlacement, AllTasks
<1>2. registry = AllTasks /\ DOMAIN registry = 1 .. Len(registry)
  BY <1>1, Complete DEF BootInv, RegistryInv
<1>3. CASE \E i \in DOMAIN registry : Misplaced(registry[i])
  <2>1. phase' = "halted" /\ ~Sound(AllTasks)
    BY <1>2, <1>3 DEF CheckRegionPlacement, Sound
  <2>2. RegistryInv'
    BY <1>1, <2>1, SMTT(20), ZenonT(20) DEF BootInv, RegistryInv
  <2>3. HaltsOnlyIfUnsound'
    BY <1>1, <2>1 DEF HaltsOnlyIfUnsound, Sound
  <2>4. QED
    BY <2>1, <2>2, <2>3 DEF BootInv, CapabilityInv, ChannelInv
<1>4. CASE ~\E i \in DOMAIN registry : Misplaced(registry[i])
  <2>1. phase' = "capabilities"
    BY <1>4 DEF CheckRegionPlacement
  <2>2. RegistryInv'
    BY <1>1, <1>2, <1>4, <2>1 DEF BootInv, RegistryInv
  <2>3. CapabilityInv'
    <3>1. registry \in Seq(Descriptor)
      BY Zenon DEF BootInv, RegistryInv
    <3>2. /\ Len(registry)' = Len(registry) /\ slot' = 1 /\ claimed' = {}
          /\ 1 .. (slot - 1)' = {} /\ slot' \in 1 .. (Len(registry)' + 1)
      BY <1>1, <3>1
    <3>3. HoldersApart(slot - 1)'
      BY <3>2 DEF HoldersApart
    <3> QED
      BY <2>1, <3>2, <3>3 DEF CapabilityInv
  <2>4. QED
    BY <1>1, <2>1, <2>2, <2>3 DEF BootInv, ChannelInv, HaltsOnlyIfUnsound
<1>5. QED BY <1>3, <1>4, SMTT(20), ZenonT(20)

\* One iteration of the capability check preserves the invariant.
LEMMA CapabilityStep == BootInv /\ CheckCapabilityConflicts => BootInv'
<1> SUFFICES ASSUME BootInv, CheckCapabilityConflicts PROVE BootInv'
  OBVIOUS
<1> DEFINE held == registry[slot].exclusive
<1>1. /\ table \in Tables /\ AllTasks' = AllTasks /\ phase = "capabilities"
      /\ Len(registry) \in Nat /\ Len(registry) = Len(AllTasks)
      /\ slot \in Int /\ 1 <= slot /\ slot <= Len(registry)
      /\ UNCHANGED <<table, registry, senders, receivers>>
  <2>1. RegistryInv /\ CapabilityInv
    BY Zenon DEF BootInv
  <2>2. /\ phase = "capabilities" /\ slot <= Len(registry)
        /\ UNCHANGED <<table, registry, senders, receivers>>
    BY Zenon DEF CheckCapabilityConflicts
  <2>3. table \in Tables /\ registry \in Seq(Descriptor) /\ Len(registry) = Len(AllTasks)
    BY <2>1, <2>2, Zenon DEF RegistryInv
  <2>4. AllTasks' = AllTasks
    BY <2>2 DEF AllTasks
  <2>5. slot \in 1 .. (Len(registry) + 1)
    BY <2>1, <2>2, Zenon DEF CapabilityInv
  <2>6. Len(registry) \in Nat /\ slot \in Int /\ 1 <= slot
    BY <2>3, <2>5
  <2> QED
    BY <2>2, <2>3, <2>4, <2>6, Zenon
<1>2. /\ HoldersApart(slot - 1)
      /\ \A id : id \in claimed <=> \E i \in 1 .. (slot - 1) : id \in registry[i].exclusive
  BY <1>1, Zenon DEF BootInv, CapabilityInv
<1>3. registry = AllTasks /\ DOMAIN registry = 1 .. Len(registry)
  <2>1. RegistryInv /\ registry \in Seq(Descriptor)
    BY Zenon DEF BootInv, RegistryInv
  <2>2. registry = AllTasks
    BY <1>1, <2>1, Complete, Zenon
  <2>3. QED BY <2>1, <2>2
<1>4. held \subseteq Nat /\ MaxPeripherals \in Nat
  <2>1. registry \in Seq(Descriptor)
    BY Zenon DEF BootInv, RegistryInv
  <2>2. registry[slot] \in Descriptor
    BY <1>1, <2>1
  <2>3. QED BY <2>2, BootAssumption, Zenon DEF Descriptor
<1>5. CASE Conflicting(held, claimed, MaxPeripherals)
  <2>1. phase' = "halted"
    BY <1>5 DEF CheckCapabilityConflicts
  <2>2. ~Sound(registry)
    <3>1. CASE \E id \in held : id >= MaxPeripherals
      <4>1. PICK id \in held : id >= MaxPeripherals
        BY <3>1
      <4>2. slot \in DOMAIN registry /\ ~(id < MaxPeripherals)
        BY <1>1, <1>3, <1>4, <4>1
      <4>3. QED BY <4>2, Zenon DEF Sound
    <3>2. CASE held \cap claimed # {}
      <4>1. PICK id \in held \cap claimed : TRUE
        BY <3>2
      <4>2. PICK i \in 1 .. (slot - 1) : id \in registry[i].exclusive
        BY <1>2, <4>1
      <4>3. i \in DOMAIN registry /\ slot \in DOMAIN registry /\ i # slot
        BY <1>1, <1>3, <4>2
      <4>4. QED BY <4>1, <4>2, <4>3 DEF Sound
    <3>3. QED BY <1>5, <3>1, <3>2 DEF Conflicting
  <2>3. RegistryInv'
    BY <1>1, <2>1 DEF BootInv, RegistryInv
  <2>4. HaltsOnlyIfUnsound'
    <3>1. ~Sound(AllTasks)
      BY <1>3, <2>2, Zenon
    <3>2. Sound(AllTasks)' <=> Sound(AllTasks)
      BY <1>1, Zenon DEF Sound
    <3> QED
      BY <3>1, <3>2, Zenon DEF HaltsOnlyIfUnsound
  <2>5. QED
    BY <2>1, <2>3, <2>4 DEF BootInv, CapabilityInv, ChannelInv
<1>6. CASE ~Conflicting(held, claimed, MaxPeripherals)
  <2>1. phase' = "capabilities" /\ slot' = slot + 1 /\ claimed' = claimed \cup held
    BY <1>1, <1>6 DEF CheckCapabilityConflicts
  <2>2. held \cap claimed = {} /\ \A id \in held : id < MaxPeripherals
    BY <1>4, <1>6 DEF Conflicting
  <2>3. \A i : i \in 1 .. slot <=> i \in 1 .. (slot - 1) \/ i = slot
    BY <1>1
  <2>4. HoldersApart(slot)
    BY <1>1, <1>2, <2>2, <2>3 DEF HoldersApart
  <2>5. \A id : id \in claimed' <=> \E i \in 1 .. slot : id \in registry[i].exclusive
    BY <1>2, <2>1, <2>3
  <2>6. slot' - 1 = slot /\ slot' \in 1 .. (Len(registry) + 1)
    BY <1>1, <2>1
  <2>7. HoldersApart(slot - 1)'
    BY <1>1, <2>4, <2>6, Zenon DEF HoldersApart
  <2>8. CapabilityInv'
    BY <1>1, <2>1, <2>5, <2>6, <2>7 DEF CapabilityInv
  <2>9. RegistryInv'
    BY <1>1, <2>1 DEF BootInv, RegistryInv
  <2>10. QED
    <3>1. senders' = {} /\ receivers' = {}
      BY <1>1, Zenon DEF BootInv, ChannelInv
    <3>2. ChannelInv'
      BY <2>1, <3>1, Zenon DEF ChannelInv
    <3>3. HaltsOnlyIfUnsound'
      BY <2>1, Zenon DEF HaltsOnlyIfUnsound
    <3>4. QED BY <2>8, <2>9, <3>2, <3>3, Zenon DEF BootInv
<1>7. QED BY <1>5, <1>6

\* The end of the capability check preserves the invariant.
LEMMA CapabilityPassedInv == BootInv /\ CapabilityCheckPassed => BootInv'
<1> SUFFICES ASSUME BootInv, CapabilityCheckPassed PROVE BootInv'
  OBVIOUS
<1>1. /\ AllTasks' = AllTasks /\ phase = "capabilities" /\ phase' = "channels" /\ slot' = 1
      /\ registry \in Seq(Descriptor) /\ Len(registry) \in Nat /\ slot = Len(registry) + 1
      /\ UNCHANGED <<table, registry, claimed, senders, receivers>>
      /\ senders = {} /\ receivers = {} /\ HoldersApart(slot - 1)
  <2>1. /\ phase = "capabilities" /\ phase' = "channels" /\ slot' = 1 /\ slot > Len(registry)
        /\ UNCHANGED <<table, registry, claimed, senders, receivers>>
    BY Zenon DEF CapabilityCheckPassed
  <2>2. registry \in Seq(Descriptor) /\ slot \in 1 .. (Len(registry) + 1)
    BY <2>1, Zenon DEF BootInv, RegistryInv, CapabilityInv
  <2>3. senders = {} /\ receivers = {} /\ HoldersApart(slot - 1)
    BY <2>1, Zenon DEF BootInv, CapabilityInv, ChannelInv
  <2>4. AllTasks' = AllTasks
    BY <2>1, Zenon DEF AllTasks
  <2>5. Len(registry) \in Nat /\ slot = Len(registry) + 1
    BY <2>1, <2>2
  <2> QED
    BY <2>1, <2>2, <2>3, <2>4, <2>5, Zenon
<1>2. RegistryInv'
  BY <1>1 DEF BootInv, RegistryInv
<1>3. HoldersApart(Len(registry))'
  BY <1>1 DEF HoldersApart
<1>4. CapabilityInv'
  BY <1>1, <1>3 DEF CapabilityInv
<1>5. ChannelInv'
  <2>1. /\ slot' \in 1 .. (Len(registry)' + 1) /\ 1 .. (slot - 1)' = {}
        /\ senders' = {} /\ receivers' = {}
    BY <1>1
  <2>2. EndpointsApart(slot - 1)'
    BY <2>1 DEF EndpointsApart
  <2> QED
    BY <1>1, <2>1, <2>2 DEF ChannelInv
<1>6. QED
  <2>1. HaltsOnlyIfUnsound'
    BY <1>1, Zenon DEF HaltsOnlyIfUnsound
  <2>2. QED BY <1>2, <1>4, <1>5, <2>1, Zenon DEF BootInv

\* One iteration of the channel check preserves the invariant.
LEMMA ChannelStep == BootInv /\ CheckChannelConflicts => BootInv'
<1> SUFFICES ASSUME BootInv, CheckChannelConflicts PROVE BootInv'
  OBVIOUS
<1> DEFINE out == registry[slot].sends
           in == registry[slot].receives
           conflict == \/ Conflicting(out, senders, MaxChannels)
                       \/ Conflicting(in, receivers, MaxChannels)
<1>1. /\ table \in Tables /\ AllTasks' = AllTasks /\ phase = "channels"
      /\ Len(registry) \in Nat /\ Len(registry) = Len(AllTasks)
      /\ slot \in Int /\ 1 <= slot /\ slot <= Len(registry)
      /\ UNCHANGED <<table, registry, claimed>>
  <2>1. RegistryInv /\ ChannelInv
    BY Zenon DEF BootInv
  <2>2. phase = "channels" /\ slot <= Len(registry) /\ UNCHANGED <<table, registry, claimed>>
    BY Zenon DEF CheckChannelConflicts
  <2>3. table \in Tables /\ registry \in Seq(Descriptor) /\ Len(registry) = Len(AllTasks)
    BY <2>1, <2>2, Zenon DEF RegistryInv
  <2>4. AllTasks' = AllTasks
    BY <2>2 DEF AllTasks
  <2>5. slot \in 1 .. (Len(registry) + 1)
    BY <2>1, <2>2, Zenon DEF ChannelInv
  <2>6. Len(registry) \in Nat /\ slot \in Int /\ 1 <= slot
    BY <2>3, <2>5
  <2> QED
    BY <2>2, <2>3, <2>4, <2>6, Zenon
<1>2. /\ HoldersApart(Len(registry)) /\ EndpointsApart(slot - 1)
      /\ \A id : id \in senders <=> \E i \in 1 .. (slot - 1) : id \in registry[i].sends
      /\ \A id : id \in receivers <=> \E i \in 1 .. (slot - 1) : id \in registry[i].receives
  BY <1>1, Zenon DEF BootInv, CapabilityInv, ChannelInv
<1>3. registry = AllTasks /\ DOMAIN registry = 1 .. Len(registry)
  <2>1. RegistryInv /\ registry \in Seq(Descriptor)
    BY DEF BootInv, RegistryInv
  <2>2. registry = AllTasks
    BY <1>1, <2>1, Complete
  <2>3. QED BY <2>1, <2>2
<1>4. out \subseteq Nat /\ in \subseteq Nat /\ MaxChannels \in Nat
  <2>1. registry \in Seq(Descriptor)
    BY DEF BootInv, RegistryInv
  <2>2. registry[slot] \in Descriptor
    BY <1>1, <2>1
  <2>3. QED BY <2>2, BootAssumption, Zenon DEF Descriptor
<1>5. CASE conflict
  <2>1. phase' = "halted"
    BY <1>5 DEF CheckChannelConflicts
  <2>2. ~Sound(registry)
    <3>1. CASE \E id \in out \cup in : id >= MaxChannels
      <4>1. PICK id \in out \cup in : id >= MaxChannels
        BY <3>1
      <4>2. slot \in DOMAIN registry /\ ~(id < MaxChannels)
        BY <1>1, <1>3, <1>4, <4>1
      <4>3. QED BY <4>2, Zenon DEF Sound
    <3>2. CASE out \cap senders # {}
      <4>1. PICK id \in out \cap senders : TRUE
        BY <3>2
      <4>2. PICK i \in 1 .. (slot - 1) : id \in registry[i].sends
        BY <1>2, <4>1
      <4>3. i \in DOMAIN registry /\ slot \in DOMAIN registry /\ i # slot
        BY <1>1, <1>3, <4>2
      <4>4. QED BY <4>1, <4>2, <4>3 DEF Sound
    <3>3. CASE in \cap receivers # {}
      <4>1. PICK id \in in \cap receivers : TRUE
        BY <3>3
      <4>2. PICK i \in 1 .. (slot - 1) : id \in registry[i].receives
        BY <1>2, <4>1
      <4>3. i \in DOMAIN registry /\ slot \in DOMAIN registry /\ i # slot
        BY <1>1, <1>3, <4>2
      <4>4. QED BY <4>1, <4>2, <4>3 DEF Sound
    <3>4. QED BY <1>5, <3>1, <3>2, <3>3 DEF Conflicting
  <2>3. RegistryInv'
    <3>1. RegistryInv
      BY DEF BootInv
    <3>2. table' = table /\ registry' = registry /\ AllTasks' = AllTasks
      BY <1>1
    <3>3. QED BY <2>1, <3>1, <3>2 DEF RegistryInv
  <2>4. HaltsOnlyIfUnsound'
    <3>1. ~Sound(AllTasks)
      BY <1>3, <2>2, Zenon
    <3>2. Sound(AllTasks)' <=> Sound(AllTasks)
      BY <1>1, Zenon DEF Sound
    <3> QED
      BY <3>1, <3>2, Zenon DEF HaltsOnlyIfUnsound
  <2>5. QED
    BY <2>1, <2>3, <2>4 DEF BootInv, CapabilityInv, ChannelInv
<1>6. CASE ~conflict
  <2>1. /\ phase' = "channels" /\ slot' = slot + 1
        /\ senders' = senders \cup out /\ receivers' = receivers \cup in
    BY <1>1, <1>6 DEF CheckChannelConflicts
  <2>2. /\ out \cap senders = {} /\ in \cap receivers = {}
        /\ \A id \in out \cup in : id < MaxChannels
    BY <1>4, <1>6 DEF Conflicting
  <2>3. \A i : i \in 1 .. slot <=> i \in 1 .. (slot - 1) \/ i = slot
    BY <1>1, SMTT(20), ZenonT(20)
  <2>4. EndpointsApart(slot)
    BY <1>1, <1>2, <2>2, <2>3 DEF EndpointsApart
  <2>5. /\ \A id : id \in senders' <=> \E i \in 1 .. slot : id \in registry[i].sends
        /\ \A id : id \in receivers' <=> \E i \in 1 .. slot : id \in registry[i].receives
    BY <1>2, <2>1, <2>3
  <2>6. slot' - 1 = slot /\ slot' \in 1 .. (Len(registry) + 1)
    BY <1>1, <2>1
  <2>7. EndpointsApart(slot - 1)'
    BY <1>1, <2>4, <2>6, Zenon DEF EndpointsApart
  <2>8. ChannelInv'
    BY <1>1, <2>1, <2>5, <2>6, <2>7, SMTT(20), ZenonT(20) DEF ChannelInv
  <2>9. RegistryInv'
    BY <1>1, <2>1 DEF BootInv, RegistryInv
  <2>10. CapabilityInv'
    <3>1. HoldersApart(Len(registry)) /\ registry' = registry
      BY <1>1, <1>2, Zenon DEF BootInv, CapabilityInv
    <3>2. HoldersApart(Len(registry))'
      BY <3>1, Zenon DEF HoldersApart
    <3>3. QED BY <2>1, <3>2, Zenon DEF CapabilityInv
  <2>11. QED
    BY <2>1, <2>8, <2>9, <2>10 DEF BootInv, HaltsOnlyIfUnsound
<1>7. QED BY <1>5, <1>6

\* Starting the first task preserves the invariant.
LEMMA StartInv == BootInv /\ StartFirstTask => BootInv'
<1> SUFFICES ASSUME BootInv, StartFirstTask PROVE BootInv'
  OBVIOUS
<1>1. /\ AllTasks' = AllTasks /\ phase = "channels" /\ phase' = "running"
      /\ registry \in Seq(Descriptor) /\ Len(registry) \in Nat /\ slot = Len(registry) + 1
      /\ UNCHANGED <<table, registry>>
      /\ EndpointsApart(slot - 1) /\ HoldersApart(Len(registry))
  <2>1. /\ phase = "channels" /\ phase' = "running" /\ slot > Len(registry)
        /\ UNCHANGED <<table, registry>>
    BY Zenon DEF StartFirstTask
  <2>2. /\ registry \in Seq(Descriptor) /\ slot \in 1 .. (Len(registry) + 1)
        /\ EndpointsApart(slot - 1) /\ HoldersApart(Len(registry))
    BY <2>1, Zenon DEF BootInv, RegistryInv, CapabilityInv, ChannelInv
  <2>3. AllTasks' = AllTasks
    BY <2>1, Zenon DEF AllTasks
  <2>4. Len(registry) \in Nat /\ slot = Len(registry) + 1
    BY <2>1, <2>2
  <2> QED
    BY <2>1, <2>2, <2>3, <2>4, Zenon
<1>2. RegistryInv'
  <2>1. RegistryInv
    BY DEF BootInv
  <2>2. table' = table /\ registry' = registry /\ AllTasks' = AllTasks
    BY <1>1
  <2>3. QED BY <1>1, <2>1, <2>2 DEF RegistryInv
<1>3. HoldersApart(Len(registry))' /\ EndpointsApart(Len(registry))'
  <2>1. registry' = registry /\ Len(registry)' = Len(registry) /\ slot - 1 = Len(registry)
    BY <1>1
  <2> QED
    BY <1>1, <2>1, Zenon DEF HoldersApart, EndpointsApart
<1>4. QED
  BY <1>1, <1>2, <1>3 DEF BootInv, CapabilityInv, ChannelInv, HaltsOnlyIfUnsound

\* Every step preserves the invariant.
LEMMA BootNextInv == BootInv /\ [BootNext]_bootVars => BootInv'
<1> SUFFICES ASSUME BootInv, [BootNext]_bootVars PROVE BootInv'
  OBVIOUS
<1>1. CASE UNCHANGED bootVars
  BY <1>1, ZenonT(30) DEF bootVars, BootInv, RegistryInv, CapabilityInv, ChannelInv, HaltsOnlyIfUnsound,
              HoldersApart, EndpointsApart, AllTasks, Sound
<1>2. QED
  BY <1>1, RegisterInv, PlacementInv, CapabilityStep, CapabilityPassedInv, ChannelStep, StartInv
  DEF BootNext, Booted

\* The invariant holds throughout the boot of every table.
LEMMA BootInvAlways == BootSpec => []BootInv
BY BootInitInv, BootNextInv, PTL DEF BootSpec

\* kernel_main starts tasks only if the complete registry fits and is sound:
\* check_region_placement, check_capability_conflicts and
\* check_channel_conflicts miss no conflict, for any table and any limits.
THEOREM RunsOnlyIfSoundAlways == BootSpec => []RunsOnlyIfSound
<1>1. BootInv => RunsOnlyIfSound
  <2> SUFFICES ASSUME BootInv, phase = "running"
               PROVE  registry = AllTasks /\ Len(registry) <= MaxTasks /\ Sound(registry)
    BY DEF RunsOnlyIfSound
  <2>1. registry = AllTasks /\ Len(registry) <= MaxTasks /\ DOMAIN registry = 1 .. Len(registry)
    BY Complete DEF BootInv, RegistryInv
  <2>2. HoldersApart(Len(registry)) /\ EndpointsApart(Len(registry))
    BY DEF BootInv, CapabilityInv, ChannelInv
  <2>3. \A i \in DOMAIN registry : ~Misplaced(registry[i])
    BY <2>1 DEF BootInv, RegistryInv
  <2>4. Sound(registry)
    BY <2>1, <2>2, <2>3, ZenonT(90) DEF Sound, HoldersApart, EndpointsApart
  <2>5. QED BY <2>1, <2>4
<1>2. QED BY <1>1, BootInvAlways, PTL

\* The detectors halt the boot only for a table that is too long or not
\* sound: they raise no false alarm, for any table and any limits.
THEOREM HaltsOnlyIfUnsoundAlways == BootSpec => []HaltsOnlyIfUnsound
<1>1. BootInv => HaltsOnlyIfUnsound
  BY DEF BootInv
<1>2. QED BY <1>1, BootInvAlways, PTL

-----------------------------------------------------------------------------
(* Boot: priorities *)

\* The kernel's own tasks add no edge to the graph.
LEMMA SameEdges ==
  ASSUME table \in Tables
  PROVE  EdgesOf(AllTasks) = EdgesOf(table)
<1> DEFINE n == Len(table)
<1>1. /\ table \in Seq(Descriptor) /\ KernelOwned \in Seq(Descriptor) /\ n \in Nat
      /\ DOMAIN table = 1 .. n /\ DOMAIN AllTasks = 1 .. Len(AllTasks)
      /\ Len(AllTasks) \in Nat /\ Len(AllTasks) = n + Len(KernelOwned)
  BY AllTasksType, BootAssumption
<1>2. \A i \in 1 .. n : i \in 1 .. Len(AllTasks) /\ AllTasks[i] = table[i]
  BY <1>1 DEF AllTasks
<1>3. ASSUME NEW i \in 1 .. Len(AllTasks), i \notin 1 .. n
      PROVE  AllTasks[i].exclusive = {} /\ AllTasks[i].required = {}
  <2>1. i - n \in DOMAIN KernelOwned /\ AllTasks[i] = KernelOwned[i - n]
    BY <1>1, <1>3 DEF AllTasks
  <2>2. QED BY <2>1, BootAssumption
<1> HIDE DEF n
<1>4. ASSUME NEW i \in 1 .. Len(AllTasks), NEW j \in 1 .. Len(AllTasks),
             AllTasks[i].exclusive \cap AllTasks[j].required # {}
      PROVE  i \in 1 .. n /\ j \in 1 .. n
  BY <1>3, <1>4
<1>5. QED
  BY <1>1, <1>2, <1>4 DEF EdgesOf

\* The MIP table of the application's tasks gives every registered task the
\* effective priority it would have if the table were computed from the
\* complete registry.
LEMMA TableCovers ==
  ASSUME table \in Tables, Len(AllTasks) <= MaxTasks, NEW i \in DOMAIN AllTasks
  PROVE  Max({AllTasks[i].priority, MipTable[i]})
           = Max({AllTasks[i].priority, MipOf(AllTasks)[i]})
<1> DEFINE n == Len(table)
           W == DOMAIN AllTasks
           E == EdgesOf(AllTasks)
<1>1. /\ table \in Seq(Descriptor) /\ n \in Nat /\ DOMAIN table = 1 .. n
      /\ W = 1 .. Len(AllTasks) /\ Len(AllTasks) \in Nat /\ n <= Len(AllTasks)
      /\ MaxTasks \in Nat
  BY AllTasksType, BootAssumption
<1>2. \A j \in 1 .. n : j \in W /\ AllTasks[j] = table[j]
  BY <1>1, BootAssumption, SMTT(20), ZenonT(20) DEF AllTasks
<1>3. E = EdgesOf(table) /\ \A e \in E : e[1] \in 1 .. n /\ e[2] \in 1 .. n
  BY <1>1, SameEdges DEF EdgesOf
<1>4. MipOf(AllTasks)[i] = Max({AllTasks[u].priority : u \in ReachFrom(W, E, i)})
  BY DEF MipOf
<1>5. i \in 1 .. MaxTasks
  BY <1>1
<1>6. CASE i \in 1 .. n
  <2>1. MipTable[i] = Max({table[u].priority : u \in ReachFrom(1 .. n, E, i)})
    BY <1>1, <1>3, <1>5, <1>6 DEF MipTable, MipOf
  <2>2. ReachFrom(W, E, i) = ReachFrom(1 .. n, E, i)
    BY <1>1, <1>2, <1>3, <1>6, SameReach
  <2>3. \A u \in ReachFrom(1 .. n, E, i) : AllTasks[u] = table[u]
    BY <1>2 DEF ReachFrom
  <2> HIDE DEF n, W, E
  <2>4. {AllTasks[u].priority : u \in ReachFrom(W, E, i)}
          = {table[u].priority : u \in ReachFrom(1 .. n, E, i)}
    BY <2>2, <2>3
  <2>5. QED BY <1>4, <2>1, <2>4, ZenonT(40)
<1>7. CASE i \notin 1 .. n
  <2>1. MipTable[i] = 0
    BY <1>1, <1>5, <1>7 DEF MipTable
  <2>2. ReachFrom(W, E, i) = {i}
    BY <1>3, <1>7, IsolatedReach
  <2> DEFINE p == AllTasks[i].priority
  <2>3. p \in 0 .. 255
    <3>1. AllTasks[i] \in Descriptor
      BY AllTasksType
    <3>2. QED BY <3>1, Zenon DEF Descriptor
  <2>4. MipOf(AllTasks)[i] = Max({p, p})
    <3>1. {AllTasks[u].priority : u \in ReachFrom(W, E, i)} = {p, p}
      BY <2>2
    <3>2. QED BY <1>4, <3>1, Zenon
  <2> HIDE DEF p
  <2>5. p \in Int /\ p >= 0
    BY <2>3
  <2>6. Max({p, 0}) = p /\ Max({p, p}) = p
    BY <2>5, MaxOfTwo
  <2>7. QED BY <2>1, <2>4, <2>6, Zenon DEF p
<1>8. QED BY <1>6, <1>7

\* The table in force is the one of the build script.
LEMMA InheritedStep == InheritedInv /\ [BootNext]_bootVars => InheritedInv'
BY Zenon DEF InheritedInv, BootNext, bootVars, RegisterTask, CheckRegionPlacement, CheckCapabilityConflicts,
       CapabilityCheckPassed, CheckChannelConflicts, StartFirstTask, Booted, MipTable

\* The scheduler runs with the priorities of the complete registry although
\* the build script computes them from the application's tasks alone: the
\* tasks boot adds hold and require nothing, so they raise nobody.
THEOREM PrioritiesCoverTheRegistryAlways == BootSpec => []PrioritiesCoverTheRegistry
<1>1. BootInit => InheritedInv
  BY DEF BootInit, InheritedInv
<1>2. BootSpec => []InheritedInv
  BY <1>1, InheritedStep, PTL DEF BootSpec
<1>3. BootInv /\ RunsOnlyIfSound /\ InheritedInv => PrioritiesCoverTheRegistry
  <2> SUFFICES ASSUME BootInv, RunsOnlyIfSound, InheritedInv, phase = "running", NEW i \in DOMAIN registry
               PROVE  EffectivePriority(registry, inherited, i)
                        = EffectivePriority(registry, MipOf(registry), i)
    BY DEF PrioritiesCoverTheRegistry
  <2>1. registry = AllTasks /\ Len(AllTasks) <= MaxTasks /\ inherited[i] = MipTable[i]
    BY DEF RunsOnlyIfSound, InheritedInv
  <2>2. table \in Tables
    BY DEF BootInv, RegistryInv
  <2>3. QED
    BY <2>1, <2>2, TableCovers DEF EffectivePriority
<1>4. QED BY <1>2, <1>3, BootInvAlways, RunsOnlyIfSoundAlways, PTL

=============================================================================
