----------------------------- MODULE HeapProofs -----------------------------
(***************************************************************************)
(* The binary heap implements the ready queue, for every capacity, every   *)
(* ranking and every width of the sequence numbers.  First the loops: what *)
(* is out of order while sift_up and sift_down run, and that an iteration  *)
(* moves it on.  Then the order of insertion that the sequence numbers     *)
(* keep, what insert and a removal do to it, and that the root is the      *)
(* entry that is to leave next.                                            *)
(***************************************************************************)
EXTENDS PriorityQueue, TLAPS, FiniteSetTheorems

-----------------------------------------------------------------------------
(* The order of the entries *)

Entry == [task_id : TaskId, effective_priority : Nat, seq : 0 .. (SeqNums - 1)]

\* An entry leaves before another: it has the higher effective priority, or
\* an equal one and was inserted earlier.
Better(x, y) ==
  \/ x.effective_priority > y.effective_priority
  \/ x.effective_priority = y.effective_priority /\ Age(x) > Age(y)

\* The remainder of a difference of sequence numbers.
LEMMA Distance ==
  ASSUME NEW x \in Int, 0 - SeqNums < x, x < SeqNums
  PROVE  x % SeqNums = IF x >= 0 THEN x ELSE x + SeqNums
<1> DEFINE M == SeqNums
<1>1. M \in Nat /\ M > 0
  BY QueueAssumption DEF SeqNums
<1> HIDE DEF M
<1>2. x % M = IF x >= 0 THEN x ELSE x + M
  BY <1>1 DEF M
<1> QED
  BY <1>2 DEF M

\* The age of an entry is its distance from the next sequence number.
LEMMA AgeIs ==
  ASSUME NEW e \in Entry, next_seq \in 0 .. (SeqNums - 1)
  PROVE  /\ Age(e) \in Nat /\ e.seq \in 0 .. (SeqNums - 1)
         /\ Age(e) = IF next_seq >= e.seq THEN next_seq - e.seq ELSE (next_seq - e.seq) + SeqNums
<1>1. SeqNums \in Nat /\ e.seq \in 0 .. (SeqNums - 1)
  BY QueueAssumption DEF SeqNums, Entry
<1>2. next_seq - e.seq \in Int /\ 0 - SeqNums < next_seq - e.seq /\ next_seq - e.seq < SeqNums
  BY <1>1
<1>3. Age(e) = IF next_seq - e.seq >= 0 THEN next_seq - e.seq ELSE (next_seq - e.seq) + SeqNums
  BY <1>2, Distance DEF Age
<1> QED
  BY <1>1, <1>3

\* outranks compares as intended while no entry is older than half the range
\* of the sequence numbers.
LEMMA OutranksIsBetter ==
  ASSUME next_seq \in 0 .. (SeqNums - 1), NEW x \in Entry, NEW y \in Entry,
         Age(x) \in 1 .. SeqHalf, Age(y) \in 1 .. SeqHalf
  PROVE  EntryOutranks(x, y) <=> Better(x, y)
<1> DEFINE d == y.seq - x.seq
<1>1. SeqHalf \in Nat /\ SeqNums = 2 * SeqHalf /\ SeqNums \in Nat
  BY QueueAssumption DEF SeqNums
<1>2. d \in Int /\ 0 - SeqNums < d /\ d < SeqNums /\ x.seq \in Int /\ y.seq \in Int /\ next_seq \in Int
  BY <1>1, AgeIs
<1>3. d % SeqNums = IF d >= 0 THEN d ELSE d + SeqNums
  BY <1>2, Distance
<1>4. (d % SeqNums \in 1 .. (SeqHalf - 1)) <=> Age(x) > Age(y)
  <2>1. Age(x) = IF next_seq >= x.seq THEN next_seq - x.seq ELSE (next_seq - x.seq) + SeqNums
    BY AgeIs
  <2>2. Age(y) = IF next_seq >= y.seq THEN next_seq - y.seq ELSE (next_seq - y.seq) + SeqNums
    BY AgeIs
  <2> QED
    BY <1>1, <1>2, <1>3, <2>1, <2>2
<1>5. x.effective_priority \in Nat /\ y.effective_priority \in Nat
  BY DEF Entry
<1> QED
  BY <1>4, <1>5 DEF EntryOutranks, Better

\* The order is a strict weak one.
LEMMA BetterOrder ==
  ASSUME next_seq \in 0 .. (SeqNums - 1), NEW x \in Entry, NEW y \in Entry, NEW z \in Entry
  PROVE  /\ Better(x, y) => ~Better(y, x)
         /\ ~Better(x, y) /\ ~Better(y, z) => ~Better(x, z)
<1>1. /\ x.effective_priority \in Nat /\ y.effective_priority \in Nat /\ z.effective_priority \in Nat
      /\ Age(x) \in Nat /\ Age(y) \in Nat /\ Age(z) \in Nat
  BY AgeIs DEF Entry
<1> QED
  BY <1>1 DEF Better

-----------------------------------------------------------------------------
(* The invariant of the heap *)

\* Live entries are entries of different tasks, inserted at different times
\* less than half the range of the sequence numbers ago.
EntriesInv ==
  /\ heap \in Seq(Entry) /\ Len(heap) <= N
  /\ next_seq \in 0 .. (SeqNums - 1)
  /\ \A i \in 1 .. Len(heap) :
       heap[i].effective_priority = Rank[heap[i].task_id] /\ Age(heap[i]) \in 1 .. SeqHalf
  /\ \A i, j \in 1 .. Len(heap) :
       i # j => heap[i].task_id # heap[j].task_id /\ Age(heap[i]) # Age(heap[j])

\* The entry at j does not outrank its parent.
Below(h, j) == ~Better(h[j], h[j \div 2])

\* Nothing below i outranks the parent of i.
FitsAbove(h, i) == i > 1 => \A j \in 2 .. Len(h) : j \div 2 = i => ~Better(h[j], h[i \div 2])

Heaped(h) == \A j \in 2 .. Len(h) : Below(h, j)

UpInv(h, s) ==
  /\ s.idx \in 1 .. Len(h)
  /\ \A j \in 2 .. Len(h) : j # s.idx => Below(h, j)
  /\ FitsAbove(h, s.idx)

\* The entry at idx may outrank its parent only where remove put it.
DownInv(h, s) ==
  /\ s.idx \in 1 .. Len(h) /\ s.from \in 0 .. s.idx
  /\ \A j \in 2 .. Len(h) : j \div 2 # s.idx /\ (j = s.idx => s.from # j) => Below(h, j)
  /\ FitsAbove(h, s.idx)

\* The loops repair the order: outside of them every parent outranks its
\* children, inside of them all do but the ones of the entry being moved.
ShapeInv ==
  \/ sift = Idle /\ Heaped(heap)
  \/ sift = [loop |-> "up", idx |-> sift.idx, from |-> 0] /\ UpInv(heap, sift)
  \/ sift = [loop |-> "down", idx |-> sift.idx, from |-> sift.from] /\ DownInv(heap, sift)

HeapInv == EntriesInv /\ ShapeInv

\* Within the heap, outranks is the order.
LEMMA Compares ==
  ASSUME EntriesInv, NEW i \in 1 .. Len(heap), NEW j \in 1 .. Len(heap)
  PROVE  heap[i] \in Entry /\ (EntryOutranks(heap[i], heap[j]) <=> Better(heap[i], heap[j]))
<1>1. heap[i] \in Entry /\ heap[j] \in Entry
  BY DEF EntriesInv
<1> QED
  BY <1>1, OutranksIsBetter DEF EntriesInv

\* Swapping two entries.
LEMMA SwapIs ==
  ASSUME NEW h \in Seq(Entry), NEW a \in 1 .. Len(h), NEW b \in 1 .. Len(h)
  PROVE  Swap(h, a, b) \in Seq(Entry) /\ Len(Swap(h, a, b)) = Len(h)
<1>1. h \in [1 .. Len(h) -> Entry] /\ Len(h) \in Nat
  OBVIOUS
<1>2. Swap(h, a, b) \in [1 .. Len(h) -> Entry]
  BY <1>1 DEF Swap
<1> QED
  BY <1>1, <1>2 DEF Swap

\* Where the entries are after a swap.
LEMMA SwapAt ==
  ASSUME NEW h \in Seq(Entry), NEW a \in 1 .. Len(h), NEW b \in 1 .. Len(h), NEW j \in 1 .. Len(h)
  PROVE  Swap(h, a, b)[j] = IF j = b THEN h[a] ELSE IF j = a THEN h[b] ELSE h[j]
BY DEF Swap

\* A swap changes no entry.
LEMMA SwapEntries ==
  ASSUME EntriesInv, NEW a \in 1 .. Len(heap), NEW b \in 1 .. Len(heap),
         heap' = Swap(heap, a, b), next_seq' = next_seq
  PROVE  EntriesInv' /\ Entries' = Entries
<1> DEFINE g == heap'
           n == Len(heap)
           sigma == [j \in 1 .. n |-> IF j = b THEN a ELSE IF j = a THEN b ELSE j]
<1>1. heap \in Seq(Entry) /\ n \in Nat /\ a \in 1 .. n /\ b \in 1 .. n
  BY DEF EntriesInv
<1>2. /\ g \in Seq(Entry) /\ Len(g) = n
      /\ \A j \in 1 .. n : g[j] = IF j = b THEN heap[a] ELSE IF j = a THEN heap[b] ELSE heap[j]
  <2>1. Swap(heap, a, b) \in Seq(Entry) /\ Len(Swap(heap, a, b)) = n
    BY <1>1, SwapIs
  <2>2. ASSUME NEW j \in 1 .. n
        PROVE  Swap(heap, a, b)[j] = IF j = b THEN heap[a] ELSE IF j = a THEN heap[b] ELSE heap[j]
    BY <1>1, SwapAt
  <2> HIDE DEF n
  <2> QED
    BY <2>1, <2>2
<1> HIDE DEF g
<1>3. \A j \in 1 .. n : sigma[j] \in 1 .. n /\ g[j] = heap[sigma[j]]
  BY <1>1, <1>2
<1>4. \A i, j \in 1 .. n : i # j => sigma[i] # sigma[j]
  BY <1>1
<1>5. \A j \in 1 .. n : heap[j] = g[sigma[j]]
  BY <1>1, <1>2
<1> HIDE DEF sigma, n
<1>6. /\ \A i \in 1 .. n :
           heap[i].effective_priority = Rank[heap[i].task_id] /\ Age(heap[i]) \in 1 .. SeqHalf
      /\ \A i, j \in 1 .. n :
           i # j => heap[i].task_id # heap[j].task_id /\ Age(heap[i]) # Age(heap[j])
  BY DEF EntriesInv, n
<1>7. \A i \in 1 .. n : Age(heap[i])' = Age(heap[sigma[i]])
  BY <1>3 DEF Age, g
<1>8. EntriesInv'
  <2>1. ASSUME NEW i \in 1 .. n
        PROVE  g[i].effective_priority = Rank[g[i].task_id] /\ Age(heap[i])' \in 1 .. SeqHalf
    <3>1. sigma[i] \in 1 .. n /\ g[i] = heap[sigma[i]]
      BY <1>3, Zenon
    <3>2. Age(heap[i])' = Age(heap[sigma[i]])
      BY <1>7, Zenon
    <3> QED
      BY <1>6, <3>1, <3>2
  <2>2. ASSUME NEW i \in 1 .. n, NEW j \in 1 .. n, i # j
        PROVE  g[i].task_id # g[j].task_id /\ Age(heap[i])' # Age(heap[j])'
    <3>1. sigma[i] \in 1 .. n /\ sigma[j] \in 1 .. n /\ sigma[i] # sigma[j]
      BY <1>3, <1>4, <2>2, Zenon
    <3>2. g[i] = heap[sigma[i]] /\ g[j] = heap[sigma[j]]
      BY <1>3, Zenon
    <3>3. Age(heap[i])' = Age(heap[sigma[i]]) /\ Age(heap[j])' = Age(heap[sigma[j]])
      BY <1>7, Zenon
    <3>4. /\ heap[sigma[i]].task_id # heap[sigma[j]].task_id
          /\ Age(heap[sigma[i]]) # Age(heap[sigma[j]])
      BY <1>6, <3>1, Zenon
    <3> QED
      BY <3>2, <3>3, <3>4
  <2>3. Len(g) <= N /\ next_seq' \in 0 .. (SeqNums - 1)
    BY <1>2 DEF EntriesInv, n
  <2> QED
    BY <1>2, <2>1, <2>2, <2>3, Zenon DEF EntriesInv, g
<1>9. Entries' = Entries
  <2>1. DOMAIN heap = 1 .. n /\ DOMAIN g = 1 .. n
    BY <1>1, <1>2 DEF n
  <2> QED
    BY <1>3, <1>5, <2>1 DEF Entries, g
<1> QED
  BY <1>8, <1>9

-----------------------------------------------------------------------------
(* The loops *)

\* An iteration of sift_up moves the disorder to the parent.
LEMMA UpIteration ==
  ASSUME EntriesInv, UpInv(heap, sift), sift.idx > 1,
         Better(heap[sift.idx], heap[sift.idx \div 2]), NEW s, s.idx = sift.idx \div 2
  PROVE  UpInv(Swap(heap, sift.idx, sift.idx \div 2), s)
<1> DEFINE i == sift.idx
           p == i \div 2
           g == Swap(heap, i, p)
           n == Len(heap)
<1>1. n \in Nat /\ heap \in Seq(Entry) /\ i \in 1 .. n /\ next_seq \in 0 .. (SeqNums - 1)
  BY DEF EntriesInv, UpInv
<1>2. p \in 1 .. n /\ p < i
  BY <1>1
<1>3. Len(g) = n /\ \A j \in 1 .. n : g[j] = IF j = p THEN heap[i] ELSE IF j = i THEN heap[p] ELSE heap[j]
  <2> HIDE DEF i, p
  <2> QED
    BY <1>1, <1>2, SwapIs, SwapAt
<1>4. \A j \in 2 .. n : j \div 2 \in 1 .. n /\ j \div 2 < j /\ j \in 1 .. n
  BY <1>1
<1>5. \A j \in 1 .. n : heap[j] \in Entry
  BY <1>1
<1>6. Better(heap[i], heap[p]) /\ ~Better(heap[p], heap[i])
  BY <1>1, <1>2, <1>5, BetterOrder
<1>7. \A j \in 2 .. n : j # i => ~Better(heap[j], heap[j \div 2])
  BY DEF UpInv, Below
<1>8. \A j \in 2 .. n : j \div 2 = i => ~Better(heap[j], heap[p])
  BY DEF UpInv, FitsAbove
<1> HIDE DEF g, p, i, n
<1>9. ASSUME NEW j \in 2 .. n, j # p PROVE ~Better(g[j], g[j \div 2])
  <2>1. CASE j = i
    BY <1>2, <1>3, <1>4, <1>6, <2>1 DEF p
  <2>2. CASE j # i /\ j \div 2 = p
    <3>1. ~Better(heap[j], heap[p])
      BY <1>7, <2>2
    <3>2. ~Better(heap[j], heap[i])
      BY <1>1, <1>2, <1>4, <1>5, <1>6, <3>1, BetterOrder
    <3> QED
      BY <1>2, <1>3, <1>4, <1>9, <2>2, <3>2
  <2>3. CASE j # i /\ j \div 2 = i
    BY <1>2, <1>3, <1>4, <1>8, <1>9, <2>3
  <2>4. CASE j # i /\ j \div 2 # i /\ j \div 2 # p
    BY <1>3, <1>4, <1>7, <1>9, <2>4
  <2> QED
    BY <2>1, <2>2, <2>3, <2>4
<1>10. ASSUME p > 1, NEW j \in 2 .. n, j \div 2 = p PROVE ~Better(g[j], g[p \div 2])
  <2> DEFINE q == p \div 2
  <2>1. q \in 1 .. n /\ q # p /\ q # i /\ p \in 2 .. n /\ p # i
    BY <1>1, <1>2, <1>10
  <2>2. ~Better(heap[p], heap[q])
    BY <1>7, <2>1
  <2>3. g[q] = heap[q]
    BY <1>3, <2>1
  <2>4. CASE j = i
    BY <1>2, <1>3, <1>4, <2>1, <2>2, <2>3, <2>4
  <2>5. CASE j # i
    <3>1. ~Better(heap[j], heap[p])
      BY <1>7, <1>10, <2>5
    <3>2. ~Better(heap[j], heap[q])
      BY <1>1, <1>2, <1>4, <1>5, <2>1, <2>2, <3>1, BetterOrder
    <3>3. g[j] = heap[j]
      BY <1>3, <1>4, <1>10, <2>5
    <3> QED
      BY <2>3, <3>2, <3>3
  <2> QED
    BY <2>4, <2>5
<1> QED
  BY <1>2, <1>3, <1>9, <1>10 DEF UpInv, Below, FitsAbove, g, p, i, n

\* sift_down picks the child that no other child and not the entry itself
\* outranks, or the entry itself when no child outranks it.
LEMMA LargestIs ==
  ASSUME EntriesInv, NEW i \in 1 .. Len(heap)
  PROVE  LET l == Largest(heap, i) IN
           /\ l = i \/ (l \in 2 .. Len(heap) /\ l \div 2 = i /\ Better(heap[l], heap[i]))
           /\ \A j \in 2 .. Len(heap) : j \div 2 = i => ~Better(heap[j], heap[l])
<1> DEFINE n == Len(heap)
           left == 2 * i
           right == 2 * i + 1
           upper == IF left <= n /\ EntryOutranks(heap[left], heap[i]) THEN left ELSE i
           l == IF right <= n /\ EntryOutranks(heap[right], heap[upper]) THEN right ELSE upper
           Child(c) == c \in 2 .. n /\ c \div 2 = i
<1>1. n \in Nat /\ heap \in Seq(Entry) /\ next_seq \in 0 .. (SeqNums - 1)
  BY DEF EntriesInv
<1>2. \A c \in 2 .. n : c \div 2 = i => c = left \/ c = right
  BY <1>1
<1>3. /\ left \in Nat /\ right \in Nat /\ left > i /\ right > left
      /\ left <= n => Child(left)
      /\ right <= n => Child(right) /\ left <= n
  BY <1>1
<1>4. \A x \in 1 .. n : heap[x] \in Entry
  BY <1>1
<1>5. \A x, y \in 1 .. n : EntryOutranks(heap[x], heap[y]) <=> Better(heap[x], heap[y])
  BY Compares, Zenon
<1>6. \A x, y, z \in 1 .. n :
        /\ Better(heap[x], heap[y]) => ~Better(heap[y], heap[x])
        /\ ~Better(heap[x], heap[y]) /\ ~Better(heap[y], heap[z]) => ~Better(heap[x], heap[z])
  BY <1>1, <1>4, BetterOrder, Zenon
<1> HIDE DEF n, left, right
<1>7. \A c : Child(c) => c \in 1 .. n
  BY <1>1
<1>8. /\ upper \in 1 .. n
      /\ upper = i \/ (upper = left /\ left <= n /\ Better(heap[left], heap[i]))
      /\ left <= n => ~Better(heap[left], heap[upper])
  <2>1. i \in 1 .. n /\ (left <= n => left \in 1 .. n)
    BY <1>3, <1>7 DEF n
  <2>2. CASE left <= n /\ Better(heap[left], heap[i])
    <3>1. upper = left
      BY <1>5, <2>1, <2>2
    <3>2. ~Better(heap[left], heap[left])
      BY <1>6, <2>1, <2>2, Zenon
    <3> QED
      BY <2>1, <2>2, <3>1, <3>2
  <2>3. CASE ~(left <= n /\ Better(heap[left], heap[i]))
    <3>1. upper = i
      BY <1>5, <2>1, <2>3
    <3> QED
      BY <2>1, <2>3, <3>1
  <2> QED
    BY <2>2, <2>3
<1> HIDE DEF upper
<1>9. CASE right <= n /\ Better(heap[right], heap[upper])
  <2>1. l = right /\ right \in 1 .. n
    BY <1>3, <1>5, <1>7, <1>8, <1>9
  <2>2. left <= n /\ left \in 1 .. n
    BY <1>3, <1>7, <1>9
  <2>3. ~Better(heap[upper], heap[right])
    BY <1>6, <1>8, <1>9, <2>1
  <2>4. ~Better(heap[left], heap[right])
    BY <1>6, <1>8, <2>1, <2>2, <2>3
  <2>5. Better(heap[right], heap[i])
    <3>1. CASE upper = i
      BY <1>9, <3>1
    <3>2. CASE Better(heap[left], heap[i]) /\ upper = left
      <4>1. ~Better(heap[i], heap[upper]) /\ i \in 1 .. n
        BY <1>6, <2>2, <3>2 DEF n
      <4> QED
        BY <1>6, <1>8, <1>9, <2>1, <4>1, Zenon
    <3> QED
      BY <1>8, <3>1, <3>2
  <2>6. ~Better(heap[right], heap[right])
    BY <1>6, <2>1
  <2> QED
    BY <1>2, <1>3, <1>9, <2>1, <2>4, <2>5, <2>6 DEF Largest, n, left, right, upper
<1>10. CASE ~(right <= n /\ Better(heap[right], heap[upper]))
  <2>1. l = upper
    BY <1>3, <1>5, <1>7, <1>8, <1>10
  <2>2. \A c \in 2 .. n : c \div 2 = i => ~Better(heap[c], heap[upper])
    BY <1>1, <1>2, <1>8, <1>10
  <2>3. upper = i \/ (upper \in 2 .. n /\ upper \div 2 = i /\ Better(heap[upper], heap[i]))
    BY <1>3, <1>8
  <2> QED
    BY <2>1, <2>2, <2>3 DEF Largest, n, left, right, upper
<1> QED
  BY <1>9, <1>10

\* An iteration of sift_down moves the disorder to that child.
LEMMA DownIteration ==
  ASSUME EntriesInv, DownInv(heap, sift), Largest(heap, sift.idx) # sift.idx,
         NEW s, s.idx = Largest(heap, sift.idx), s.from = sift.from
  PROVE  /\ Largest(heap, sift.idx) \in 1 .. Len(heap)
         /\ DownInv(Swap(heap, sift.idx, Largest(heap, sift.idx)), s)
<1> DEFINE i == sift.idx
           l == Largest(heap, i)
           g == Swap(heap, i, l)
           n == Len(heap)
<1>1. n \in Nat /\ heap \in Seq(Entry) /\ i \in 1 .. n /\ next_seq \in 0 .. (SeqNums - 1)
  BY DEF EntriesInv, DownInv
<1>2. /\ l \in 2 .. n /\ l \div 2 = i /\ Better(heap[l], heap[i])
      /\ \A j \in 2 .. n : j \div 2 = i => ~Better(heap[j], heap[l])
  BY <1>1, LargestIs, Zenon
<1>3. s.from \in 0 .. i
  BY DEF DownInv
<1>4. \A j \in 2 .. n : j \div 2 # i /\ (j = i => s.from # j) => ~Better(heap[j], heap[j \div 2])
  BY DEF DownInv, Below
<1>5. i > 1 => \A j \in 2 .. n : j \div 2 = i => ~Better(heap[j], heap[i \div 2])
  BY DEF DownInv, FitsAbove
<1>6. \A j \in 2 .. n : j \div 2 \in 1 .. n /\ j \div 2 < j /\ j \in 1 .. n
  BY <1>1
<1> HIDE DEF i, l, n
<1>7. Len(g) = n /\ \A j \in 1 .. n : g[j] = IF j = l THEN heap[i] ELSE IF j = i THEN heap[l] ELSE heap[j]
  <2>1. l \in 1 .. n
    BY <1>2, <1>6
  <2> QED
    BY <1>1, <2>1, SwapIs, SwapAt DEF n
<1> HIDE DEF g
<1>8. l \in 1 .. n /\ i < l
  BY <1>2, <1>6
<1>9. ~Better(heap[i], heap[l])
  <2>1. heap[i] \in Entry /\ heap[l] \in Entry
    BY <1>1, <1>8 DEF n
  <2> QED
    BY <1>1, <1>2, <2>1, BetterOrder
<1>10. ASSUME NEW j \in 2 .. n, j \div 2 # l PROVE ~Better(g[j], g[j \div 2])
  <2>1. CASE j = l
    BY <1>2, <1>6, <1>7, <1>8, <1>9, <2>1
  <2>2. CASE j # l /\ j \div 2 = i
    BY <1>2, <1>6, <1>7, <1>8, <2>2
  <2>3. CASE j = i
    <3>1. ~Better(heap[l], heap[i \div 2])
      BY <1>2, <1>5, <2>3
    <3> QED
      BY <1>6, <1>7, <1>8, <2>3, <3>1
  <2>4. CASE j # l /\ j \div 2 # i /\ j # i
    BY <1>4, <1>6, <1>7, <1>10, <2>4
  <2> QED
    BY <2>1, <2>2, <2>3, <2>4
<1>11. ASSUME NEW j \in 2 .. n, j \div 2 = l PROVE ~Better(g[j], g[l \div 2])
  <2>1. j # i /\ j # l /\ j \div 2 # i /\ g[j] = heap[j] /\ g[i] = heap[l]
    BY <1>1, <1>6, <1>7, <1>8, <1>11
  <2> QED
    BY <1>2, <1>4, <1>11, <2>1
<1>12. s.from \in 0 .. l
  BY <1>1, <1>3, <1>8
<1> QED
  BY <1>7, <1>8, <1>10, <1>11, <1>12 DEF DownInv, Below, FitsAbove, g, i, l, n

\* While no entry is inserted, the order of the entries does not change.
LEMMA SameOrder ==
  ASSUME next_seq' = next_seq
  PROVE  /\ Heaped(heap)' <=> Heaped(heap')
         /\ UpInv(heap, sift)' <=> UpInv(heap', sift')
         /\ DownInv(heap, sift)' <=> DownInv(heap', sift')
<1>1. Heaped(heap)' <=> Heaped(heap')
  BY DEF Heaped, Below, Better, Age
<1>2. FitsAbove(heap, sift.idx)' <=> FitsAbove(heap', sift'.idx)
  BY DEF FitsAbove, Better, Age
<1>3. ASSUME NEW j PROVE Below(heap, j)' <=> Below(heap', j)
  BY DEF Below, Better, Age
<1>4. UpInv(heap, sift)' <=> UpInv(heap', sift')
  BY <1>2, <1>3, Zenon DEF UpInv
<1>5. DownInv(heap, sift)' <=> DownInv(heap', sift')
  BY <1>2, <1>3, Zenon DEF DownInv
<1> QED
  BY <1>1, <1>4, <1>5

\* An iteration keeps the entries and the invariant.
Repairs == HeapInv' /\ Entries' = Entries /\ Len(heap') = Len(heap) /\ UNCHANGED <<next_seq, out>>

\* sift_up repairs the order.
LEMMA SiftUpStep == ASSUME HeapInv, SiftUp PROVE Repairs
<1> DEFINE i == sift.idx
           p == i \div 2
<1>1. EntriesInv /\ UpInv(heap, sift) /\ sift = [loop |-> "up", idx |-> i, from |-> 0]
  BY DEF HeapInv, ShapeInv, SiftUp, Idle
<1>2. i \in 1 .. Len(heap) /\ heap \in Seq(Entry) /\ next_seq' = next_seq /\ out' = out
  BY <1>1 DEF UpInv, EntriesInv, SiftUp
<1>3. CASE i > 1 /\ EntryOutranks(heap[i], heap[p])
  <2>1. p \in 1 .. Len(heap)
    BY <1>2, <1>3
  <2>2. heap' = Swap(heap, i, p) /\ sift' = [sift EXCEPT !.idx = p]
    BY <1>3 DEF SiftUp
  <2>3. sift' = [loop |-> "up", idx |-> p, from |-> 0] /\ sift'.idx = p
    BY <1>1, <2>2
  <2>4. Better(heap[i], heap[p])
    BY <1>1, <1>2, <1>3, <2>1, Compares
  <2>5. UpInv(heap', sift')
    BY <1>1, <1>3, <2>2, <2>3, <2>4, UpIteration
  <2>6. EntriesInv' /\ Entries' = Entries
    BY <1>1, <1>2, <2>1, <2>2, SwapEntries
  <2>7. Len(heap') = Len(heap)
    BY <1>2, <2>1, <2>2, SwapIs
  <2>8. UpInv(heap, sift)'
    BY <1>2, <2>5, SameOrder
  <2> QED
    BY <1>2, <2>3, <2>6, <2>7, <2>8 DEF Repairs, HeapInv, ShapeInv
<1>4. CASE ~(i > 1 /\ EntryOutranks(heap[i], heap[p]))
  <2>1. heap' = heap /\ sift' = Idle
    BY <1>4 DEF SiftUp
  <2>2. i > 1 => p \in 1 .. Len(heap) /\ ~Better(heap[i], heap[p])
    BY <1>1, <1>2, <1>4, Compares
  <2>3. Heaped(heap')
    BY <1>1, <2>1, <2>2 DEF Heaped, UpInv, Below
  <2>4. EntriesInv' /\ Entries' = Entries
    BY <1>1, <1>2, <2>1 DEF EntriesInv, Entries, Age
  <2>5. Heaped(heap)'
    BY <1>2, <2>3, SameOrder
  <2> QED
    BY <1>2, <2>1, <2>4, <2>5 DEF Repairs, HeapInv, ShapeInv, Idle
<1> QED
  BY <1>3, <1>4

\* sift_down repairs the order, and leaves what remains to sift_up.
LEMMA SiftDownStep == ASSUME HeapInv, SiftDown PROVE Repairs
<1> DEFINE i == sift.idx
           l == Largest(heap, i)
           n == Len(heap)
<1>1. EntriesInv /\ DownInv(heap, sift) /\ sift = [loop |-> "down", idx |-> i, from |-> sift.from]
  BY DEF HeapInv, ShapeInv, SiftDown, Idle
<1>2. i \in 1 .. n /\ heap \in Seq(Entry) /\ n \in Nat /\ next_seq' = next_seq /\ out' = out
  BY <1>1 DEF DownInv, EntriesInv, SiftDown
<1>3. CASE l # i
  <2>1. heap' = Swap(heap, i, l) /\ sift' = [sift EXCEPT !.idx = l]
    BY <1>3 DEF SiftDown
  <2>2. sift' = [loop |-> "down", idx |-> l, from |-> sift.from] /\ sift'.idx = l /\ sift'.from = sift.from
    BY <1>1, <2>1
  <2>3. l \in 1 .. n /\ DownInv(heap', sift')
    BY <1>1, <1>3, <2>1, <2>2, DownIteration
  <2>4. EntriesInv' /\ Entries' = Entries
    BY <1>1, <1>2, <2>1, <2>3, SwapEntries
  <2>5. Len(heap') = Len(heap)
    BY <1>2, <2>1, <2>3, SwapIs
  <2>6. DownInv(heap, sift)'
    BY <1>2, <2>3, SameOrder
  <2> QED
    BY <1>2, <2>2, <2>4, <2>5, <2>6 DEF Repairs, HeapInv, ShapeInv
<1>4. CASE l = i
  <2> DEFINE f == sift.from
  <2>1. heap' = heap /\ sift' = IF f = 0 THEN Idle ELSE [loop |-> "up", idx |-> f, from |-> 0]
    BY <1>4 DEF SiftDown
  <2>2. \A j \in 2 .. n : j \div 2 = i => Below(heap, j)
    <3>1. \A j \in 2 .. n : j \div 2 = i => ~Better(heap[j], heap[i])
      BY <1>1, <1>2, <1>4, LargestIs
    <3> QED
      BY <3>1 DEF Below
  <2>3. f \in 0 .. i /\ \A j \in 2 .. n : (j = i => f # j) => Below(heap, j)
    BY <1>1, <2>2 DEF DownInv
  <2>4. EntriesInv' /\ Entries' = Entries
    BY <1>1, <1>2, <2>1 DEF EntriesInv, Entries, Age
  <2>5. CASE f = 0
    <3>1. Heaped(heap')
      BY <2>1, <2>3, <2>5 DEF Heaped
    <3>2. Heaped(heap)'
      BY <1>2, <3>1, SameOrder
    <3> QED
      BY <1>2, <2>1, <2>4, <2>5, <3>2 DEF Repairs, HeapInv, ShapeInv, Idle
  <2>6. CASE f # 0
    <3>1. sift' = [loop |-> "up", idx |-> f, from |-> 0] /\ sift'.idx = f /\ f \in 1 .. n
      BY <1>2, <2>1, <2>3, <2>6
    <3>2. \A j \in 2 .. n : j # f => Below(heap, j)
      BY <2>3
    <3>3. FitsAbove(heap, f)
      <4>1. CASE f = i
        BY <1>1, <4>1 DEF DownInv
      <4>2. CASE f # i
        <5> SUFFICES ASSUME f > 1, NEW j \in 2 .. n, j \div 2 = f PROVE ~Better(heap[j], heap[f \div 2])
          BY DEF FitsAbove
        <5>1. f \in 2 .. n /\ f \div 2 \in 1 .. n /\ j \in 1 .. n /\ j # f
          BY <1>2, <3>1
        <5>2. ~Better(heap[j], heap[f]) /\ ~Better(heap[f], heap[f \div 2])
          BY <2>3, <3>2, <4>2, <5>1 DEF Below
        <5>3. heap[j] \in Entry /\ heap[f] \in Entry /\ heap[f \div 2] \in Entry
          BY <1>2, <3>1, <5>1
        <5> QED
          BY <1>1, <5>2, <5>3, BetterOrder DEF EntriesInv
      <4> QED
        BY <4>1, <4>2
    <3>4. UpInv(heap', sift')
      BY <2>1, <3>1, <3>2, <3>3 DEF UpInv
    <3>5. UpInv(heap, sift)'
      BY <1>2, <3>4, SameOrder
    <3> QED
      BY <1>2, <2>1, <2>4, <3>1, <3>5 DEF Repairs, HeapInv, ShapeInv
  <2> QED
    BY <2>5, <2>6
<1> QED
  BY <1>3, <1>4

-----------------------------------------------------------------------------
(* The insertion order *)

\* The place of an entry in the insertion order.
Position(e) == Cardinality(Older(e)) + 1

\* The entries of the heap, one per index.
EntriesAre ==
  /\ IsFiniteSet(Entries) /\ Cardinality(Entries) = Len(heap) /\ Len(heap) \in Nat
  /\ \A e \in Entries :
       e \in Entry /\ e.effective_priority = Rank[e.task_id] /\ Age(e) \in 1 .. SeqHalf
  /\ \A x, y \in Entries : x # y => x.task_id # y.task_id /\ Age(x) # Age(y)

\* The entries are as many as the heap has occupied places.
LEMMA EntriesAreSuch == EntriesInv => EntriesAre
<1> SUFFICES ASSUME EntriesInv PROVE EntriesAre
  OBVIOUS
<1> DEFINE n == Len(heap)
           f == [i \in 1 .. n |-> heap[i]]
<1>1. heap \in Seq(Entry) /\ n \in Nat /\ DOMAIN heap = 1 .. n
  BY DEF EntriesInv
<1>2. \A e \in Entries : \E i \in 1 .. n : e = heap[i]
  BY <1>1 DEF Entries
<1>3. \A i, j \in 1 .. n : heap[i] = heap[j] => i = j
  BY DEF EntriesInv
<1>4. f \in [1 .. n -> Entries]
  BY <1>1 DEF Entries
<1>5. f \in Bijection(1 .. n, Entries)
  BY <1>2, <1>3, <1>4 DEF Bijection, Injection, Surjection, IsInjective
<1>6. ExistsBijection(1 .. n, Entries)
  BY <1>5, Zenon DEF ExistsBijection
<1>7. IsFiniteSet(1 .. n) /\ Cardinality(1 .. n) = n
  BY <1>1, FS_Interval, SMTT(20)
<1>8. IsFiniteSet(Entries) /\ Cardinality(Entries) = n
  BY <1>6, <1>7, FS_Bijection
<1>9. \A e \in Entries :
        e \in Entry /\ e.effective_priority = Rank[e.task_id] /\ Age(e) \in 1 .. SeqHalf
  BY <1>1, <1>2 DEF EntriesInv
<1>10. ASSUME NEW x \in Entries, NEW y \in Entries, x # y
       PROVE  x.task_id # y.task_id /\ Age(x) # Age(y)
  <2>1. PICK i \in 1 .. n : x = heap[i]
    BY <1>2
  <2>2. PICK j \in 1 .. n : y = heap[j]
    BY <1>2
  <2>3. i # j
    BY <1>10, <2>1, <2>2
  <2> QED
    BY <2>1, <2>2, <2>3, Zenon DEF EntriesInv
<1> QED
  BY <1>1, <1>8, <1>9, <1>10, Zenon DEF EntriesAre

\* Every place of the insertion order is that of one entry.
Positions ==
  /\ \A e \in Entries : Position(e) \in 1 .. Len(heap)
  /\ \A x, y \in Entries : Position(x) < Position(y) <=> Age(x) > Age(y)
  /\ \A x, y \in Entries : Position(x) = Position(y) => x = y
  /\ \A p \in 1 .. Len(heap) : \E e \in Entries : Position(e) = p
  /\ QueueOrder \in Seq(TaskId) /\ Len(QueueOrder) = Len(heap)
  /\ \A e \in Entries : QueueOrder[Position(e)] = e.task_id

\* The ages of the entries put them in order.
LEMMA PositionsAreSuch == EntriesAre => Positions
<1> SUFFICES ASSUME EntriesAre PROVE Positions
  OBVIOUS
<1> DEFINE n == Len(heap)
<1>1. n \in Nat /\ IsFiniteSet(Entries) /\ Cardinality(Entries) = n
  BY DEF EntriesAre
<1>2. \A e \in Entries : Age(e) \in Int
  BY QueueAssumption DEF EntriesAre
<1>3. \A e \in Entries : Older(e) \in SUBSET Entries /\ e \notin Older(e)
  BY <1>2 DEF Older
<1>4. ASSUME NEW e \in Entries PROVE IsFiniteSet(Older(e)) /\ Cardinality(Older(e)) \in 0 .. (n - 1)
  <2>1. IsFiniteSet(Older(e)) /\ Cardinality(Older(e)) <= n /\ Cardinality(Older(e)) # n
    BY <1>1, <1>3, FS_Subset
  <2>2. Cardinality(Older(e)) \in Nat
    BY <2>1, FS_CardinalityType
  <2> QED
    BY <1>1, <2>1, <2>2
<1>5. ASSUME NEW x \in Entries, NEW y \in Entries, Age(x) > Age(y) PROVE Position(x) < Position(y)
  <2>1. Older(x) \in SUBSET Older(y) /\ x \in Older(y)
    BY <1>2, <1>5 DEF Older
  <2>2. Cardinality(Older(x)) <= Cardinality(Older(y)) /\ Cardinality(Older(x)) # Cardinality(Older(y))
    BY <1>3, <1>4, <2>1, FS_Subset
  <2> QED
    BY <1>4, <2>2 DEF Position
<1>6. \A e \in Entries : Position(e) \in 1 .. n
  BY <1>1, <1>4 DEF Position
<1>7. \A x, y \in Entries : Position(x) = Position(y) => x = y
  <2> SUFFICES ASSUME NEW x \in Entries, NEW y \in Entries, x # y PROVE Position(x) # Position(y)
    OBVIOUS
  <2>1. Age(x) > Age(y) \/ Age(y) > Age(x)
    BY <1>2 DEF EntriesAre
  <2> QED
    BY <1>1, <1>5, <1>6, <2>1
<1>8. \A x, y \in Entries : Position(x) < Position(y) <=> Age(x) > Age(y)
  <2> SUFFICES ASSUME NEW x \in Entries, NEW y \in Entries, Position(x) < Position(y) PROVE Age(x) > Age(y)
    BY <1>5
  <2>1. x # y
    BY <1>6
  <2>2. Age(x) > Age(y) \/ Age(y) > Age(x)
    BY <1>2, <2>1 DEF EntriesAre
  <2> QED
    BY <1>1, <1>5, <1>6, <2>2
<1>9. \A p \in 1 .. n : \E e \in Entries : Position(e) = p
  <2> DEFINE f == [e \in Entries |-> Position(e)]
  <2>1. f \in Injection(Entries, 1 .. n)
    BY <1>6, <1>7 DEF Injection, IsInjective
  <2>2. IsFiniteSet(1 .. n) /\ Cardinality(1 .. n) = n
    <3>1. 1 \in Int /\ n \in Int /\ (1 > n => n = 0) /\ (~(1 > n) => (n - 1) + 1 = n)
      BY <1>1
    <3> HIDE DEF n
    <3> QED
      BY <1>1, <3>1, FS_Interval
  <2>3. f \in Surjection(Entries, 1 .. n)
    BY <1>1, <2>1, <2>2, FS_Injection
  <2> QED
    BY <2>3, Zenon DEF Surjection
<1>10. ASSUME NEW e \in Entries PROVE (CHOOSE x \in Entries : Cardinality(Older(x)) = Position(e) - 1) = e
  <2> DEFINE P(x) == Cardinality(Older(x)) = Position(e) - 1
  <2>1. ASSUME NEW x \in Entries PROVE P(x) <=> x = e
    <3>1. Cardinality(Older(x)) \in Int /\ Cardinality(Older(e)) \in Int
      BY <1>1, <1>4
    <3>2. P(x) <=> Position(x) = Position(e)
      BY <3>1 DEF Position
    <3> QED
      BY <1>7, <3>2, Zenon
  <2> HIDE DEF P
  <2>2. (CHOOSE x \in Entries : P(x)) = e
    BY <2>1, Zenon
  <2> QED
    BY <2>2, Zenon DEF P
<1>11. \A e \in Entries : QueueOrder[Position(e)] = e.task_id
  BY <1>6, <1>10 DEF QueueOrder
<1>12. QueueOrder \in Seq(TaskId) /\ Len(QueueOrder) = n
  <2>1. \A p \in 1 .. n : QueueOrder[p] \in TaskId
    BY <1>9, <1>11 DEF EntriesAre, Entry
  <2>2. QueueOrder \in [1 .. n -> TaskId]
    BY <2>1 DEF QueueOrder
  <2> QED
    BY <1>1, <2>2
<1> QED
  BY <1>6, <1>7, <1>8, <1>9, <1>11, <1>12 DEF Positions

\* So they are after a step.
LEMMA PositionsNext == EntriesInv' => EntriesAre' /\ Positions'
<1>1. EntriesInv => EntriesAre /\ Positions
  BY EntriesAreSuch, PositionsAreSuch
<1> QED
  BY <1>1, PTL

\* An iteration of a loop leaves the insertion order alone.
LEMMA SameQueue ==
  ASSUME Entries' = Entries, Len(heap') = Len(heap), next_seq' = next_seq
  PROVE  QueueOrder' = QueueOrder
BY DEF QueueOrder, Older, Age

-----------------------------------------------------------------------------
(* insert *)

\* An insertion makes every entry one older.
LEMMA AgeStep ==
  ASSUME next_seq \in 0 .. (SeqNums - 1), next_seq' = (next_seq + 1) % SeqNums
  PROVE  /\ next_seq' \in 0 .. (SeqNums - 1)
         /\ \A e \in Entry : Age(e) < SeqHalf => Age(e)' = Age(e) + 1
         /\ \A e \in Entry : e.seq = next_seq => Age(e)' = 1
<1>1. SeqHalf \in Nat /\ SeqHalf > 0 /\ SeqNums = 2 * SeqHalf /\ SeqNums \in Nat /\ SeqNums > 1
  BY QueueAssumption DEF SeqNums
<1>2. next_seq' = IF next_seq + 1 = SeqNums THEN 0 ELSE next_seq + 1
  <2>1. CASE next_seq + 1 = SeqNums
    <3> DEFINE M == SeqNums
    <3>1. M \in Nat /\ M > 0
      BY <1>1
    <3> HIDE DEF M
    <3>2. M % M = 0
      BY <3>1
    <3> QED
      BY <2>1, <3>2 DEF M
  <2>2. CASE next_seq + 1 # SeqNums
    <3>1. next_seq + 1 \in Int /\ 0 - SeqNums < next_seq + 1 /\ next_seq + 1 < SeqNums /\ next_seq + 1 >= 0
      BY <1>1, <2>2
    <3> QED
      BY <2>2, <3>1, Distance
  <2> QED
    BY <2>1, <2>2
<1>3. next_seq' \in 0 .. (SeqNums - 1)
  BY <1>1, <1>2
<1>4. ASSUME NEW e \in Entry
      PROVE  Age(e)' = IF next_seq' >= e.seq THEN next_seq' - e.seq ELSE (next_seq' - e.seq) + SeqNums
  <2>1. e.seq \in 0 .. (SeqNums - 1)
    BY DEF Entry
  <2>2. next_seq' - e.seq \in Int /\ 0 - SeqNums < next_seq' - e.seq /\ next_seq' - e.seq < SeqNums
    BY <1>1, <1>3, <2>1
  <2>3. Age(e)' = IF next_seq' - e.seq >= 0 THEN next_seq' - e.seq ELSE (next_seq' - e.seq) + SeqNums
    BY <2>2, Distance DEF Age
  <2> QED
    BY <1>1, <1>3, <2>1, <2>3
<1>5. ASSUME NEW e \in Entry, Age(e) < SeqHalf PROVE Age(e)' = Age(e) + 1
  <2>1. e.seq \in 0 .. (SeqNums - 1) /\ Age(e) = IF next_seq >= e.seq THEN next_seq - e.seq ELSE (next_seq - e.seq) + SeqNums
    BY AgeIs
  <2> QED
    BY <1>1, <1>2, <1>4, <1>5, <2>1
<1>6. ASSUME NEW e \in Entry, e.seq = next_seq PROVE Age(e)' = 1
  BY <1>1, <1>2, <1>4, <1>6
<1> QED
  BY <1>3, <1>5, <1>6

\* insert puts an entry at the end and sift_up starts there.
LEMMA InsertEntry ==
  ASSUME HeapInv, NEW t \in TaskId, Insert(t), Len(heap) < N
  PROVE  HeapInv' /\ QueueOrder' = Append(QueueOrder, t)
<1> DEFINE n == Len(heap)
<1>1. /\ heap \in Seq(Entry) /\ n \in Nat /\ DOMAIN heap = 1 .. n
      /\ next_seq \in 0 .. (SeqNums - 1) /\ sift = Idle /\ Heaped(heap)
  BY DEF HeapInv, EntriesInv, ShapeInv, Insert, Callable, Idle
<1> PICK e0 : e0 = [task_id |-> t, effective_priority |-> Rank[t], seq |-> next_seq]
  BY Zenon
<1>2. /\ heap' = Append(heap, e0) /\ next_seq' = (next_seq + 1) % SeqNums
      /\ sift' = [loop |-> "up", idx |-> n + 1, from |-> 0]
  BY DEF Insert
<1>3. e0 \in Entry /\ e0.task_id = t /\ e0.effective_priority = Rank[t] /\ e0.seq = next_seq
  BY <1>1, QueueAssumption DEF Entry
<1>4. /\ heap' \in Seq(Entry) /\ Len(heap') = n + 1 /\ heap'[n + 1] = e0 /\ DOMAIN heap' = 1 .. (n + 1)
      /\ \A i \in 1 .. n : heap'[i] = heap[i]
  BY <1>1, <1>2, <1>3
<1>5. next_seq' \in 0 .. (SeqNums - 1) /\ Age(e0)' = 1
  BY <1>1, <1>2, <1>3, AgeStep
<1>6. EntriesAre /\ Positions
  BY EntriesAreSuch, PositionsAreSuch DEF HeapInv
<1>7. ASSUME NEW e \in Entries
      PROVE  e \in Entry /\ Age(e) \in 1 .. (SeqHalf - 1) /\ Age(e)' = Age(e) + 1 /\ e.task_id # t
  <2>1. e \in Entry /\ Age(e) \in 1 .. SeqHalf
    BY <1>6 DEF EntriesAre
  <2>2. Age(e) < SeqHalf /\ e.task_id # t
    BY DEF Insert, SeqProviso, Age, Entries, Holds
  <2>3. Age(e)' = Age(e) + 1
    BY <1>1, <1>2, <2>1, <2>2, AgeStep
  <2> QED
    BY <2>1, <2>2, <2>3, QueueAssumption
<1>8. Entries' = Entries \cup {e0} /\ e0 \notin Entries
  <2>1. Entries' = {heap'[i] : i \in 1 .. (n + 1)} /\ Entries = {heap[i] : i \in 1 .. n}
    BY <1>1, <1>4 DEF Entries
  <2>2. \A i : i \in 1 .. (n + 1) <=> i \in 1 .. n \/ i = n + 1
    BY <1>1
  <2>3. Entries' = Entries \cup {e0}
    BY <1>4, <2>1, <2>2
  <2> QED
    BY <1>3, <1>7, <2>3
<1>9. \A i \in 1 .. n : heap[i] \in Entries
  BY <1>1 DEF Entries
<1>10. EntriesInv'
  <2>1. ASSUME NEW i \in 1 .. (n + 1)
        PROVE  heap'[i].effective_priority = Rank[heap'[i].task_id] /\ Age(heap[i])' \in 1 .. SeqHalf
    <3>1. PICK e : e = heap'[i]
      OBVIOUS
    <3>2. Age(heap[i])' = Age(e)'
      BY <3>1 DEF Age
    <3>3. CASE i = n + 1
      BY <1>3, <1>4, <1>5, <3>1, <3>2, <3>3, QueueAssumption
    <3>4. CASE i \in 1 .. n
      <4>1. e \in Entries /\ e.effective_priority = Rank[e.task_id]
        BY <1>4, <1>6, <1>9, <3>1, <3>4 DEF EntriesAre
      <4> QED
        BY <1>7, <3>1, <3>2, <4>1, QueueAssumption, SMTT(20)
    <3> QED
      BY <1>1, <3>3, <3>4
  <2>2. ASSUME NEW i \in 1 .. (n + 1), NEW j \in 1 .. (n + 1), i # j
        PROVE  heap'[i].task_id # heap'[j].task_id /\ Age(heap[i])' # Age(heap[j])'
    <3>1. PICK x, y : x = heap'[i] /\ y = heap'[j]
      OBVIOUS
    <3>2. Age(heap[i])' = Age(x)' /\ Age(heap[j])' = Age(y)'
      BY <3>1 DEF Age
    <3>3. CASE i \in 1 .. n /\ j \in 1 .. n
      <4>1. x = heap[i] /\ y = heap[j] /\ x \in Entries /\ y \in Entries
        BY <1>4, <1>9, <3>1, <3>3
      <4>2. x.task_id # y.task_id /\ Age(x) # Age(y)
        BY <2>2, <3>3, <4>1 DEF HeapInv, EntriesInv
      <4> QED
        BY <1>7, <3>1, <3>2, <4>1, <4>2
    <3>4. CASE i = n + 1 /\ j \in 1 .. n
      <4>1. x = e0 /\ y \in Entries
        BY <1>4, <1>9, <3>1, <3>4
      <4> QED
        BY <1>3, <1>5, <1>7, <3>1, <3>2, <4>1
    <3>5. CASE j = n + 1 /\ i \in 1 .. n
      <4>1. y = e0 /\ x \in Entries
        BY <1>4, <1>9, <3>1, <3>5
      <4> QED
        BY <1>3, <1>5, <1>7, <3>1, <3>2, <4>1
    <3> QED
      BY <1>1, <2>2, <3>3, <3>4, <3>5
  <2>3. Len(heap') <= N
    BY <1>1, <1>4, QueueAssumption
  <2> QED
    BY <1>4, <1>5, <2>1, <2>2, <2>3 DEF EntriesInv
<1>11. ASSUME NEW x \in Entries, NEW y \in Entries PROVE Better(x, y)' <=> Better(x, y)
  BY <1>7 DEF Better
<1>12. UpInv(heap, sift)'
  <2>1. ASSUME NEW j \in 2 .. (n + 1), j # n + 1 PROVE Below(heap, j)'
    <3>1. j \in 2 .. n /\ j \in 1 .. n /\ j \div 2 \in 1 .. n
      BY <1>1, <2>1
    <3>2. PICK x, y : x = heap[j] /\ y = heap[j \div 2]
      OBVIOUS
    <3>3. x = heap'[j] /\ y = heap'[j \div 2] /\ x \in Entries /\ y \in Entries
      BY <1>4, <1>9, <3>1, <3>2
    <3>4. ~Better(x, y)
      BY <1>1, <3>1, <3>2 DEF Heaped, Below
    <3>5. ~Better(x, y)'
      BY <1>11, <3>3, <3>4
    <3> QED
      BY <3>3, <3>5 DEF Below, Better, Age
  <2>2. \A j \in 2 .. (n + 1) : j \div 2 # n + 1
    BY <1>1
  <2>3. sift'.idx = n + 1 /\ n + 1 \in 1 .. (n + 1)
    BY <1>1, <1>2
  <2> QED
    BY <1>4, <2>1, <2>2, <2>3 DEF UpInv, FitsAbove
<1>13. HeapInv'
  BY <1>2, <1>10, <1>12 DEF HeapInv, ShapeInv
<1>14. EntriesAre' /\ Positions'
  BY <1>10, PositionsNext
<1>15. ASSUME NEW e \in Entries PROVE Position(e)' = Position(e)
  <2>1. Older(e)' = {x \in Entries \cup {e0} : Age(x)' > Age(e)'}
    BY <1>8 DEF Older
  <2>2. Older(e)' = Older(e)
    BY <1>5, <1>7, <2>1 DEF Older
  <2> QED
    BY <2>2 DEF Position
<1>16. Position(e0)' = n + 1
  <2>1. Older(e0)' = {x \in Entries \cup {e0} : Age(x)' > 1}
    BY <1>5, <1>8 DEF Older
  <2>2. ~(Age(e0)' > 1) /\ \A x \in Entries : Age(x)' > 1
    BY <1>5, <1>7, QueueAssumption
  <2>3. Older(e0)' = Entries
    BY <2>1, <2>2, Zenon
  <2> QED
    BY <1>6, <2>3 DEF Position, EntriesAre
<1>17. QueueOrder' = Append(QueueOrder, t)
  <2> DEFINE q == QueueOrder
             r == QueueOrder'
  <2>1. q \in Seq(TaskId) /\ Len(q) = n /\ r \in Seq(TaskId) /\ Len(r) = n + 1
    BY <1>4, <1>6, <1>14 DEF Positions
  <2>2. ASSUME NEW p \in 1 .. n PROVE r[p] = q[p]
    <3>1. PICK e \in Entries : Position(e) = p
      BY <1>6 DEF Positions
    <3>2. q[p] = e.task_id
      BY <1>6, <3>1 DEF Positions
    <3>3. Position(e)' = p /\ e \in Entries'
      BY <1>8, <1>15, <3>1
    <3>4. r[Position(e)'] = e.task_id
      BY <1>14, <3>3 DEF Positions
    <3> QED
      BY <3>2, <3>3, <3>4
  <2>3. r[n + 1] = t
    <3>1. r[Position(e0)'] = e0.task_id
      BY <1>8, <1>14 DEF Positions
    <3> QED
      BY <1>3, <1>16, <3>1
  <2> HIDE DEF q, r
  <2> QED
    BY <1>1, <2>1, <2>2, <2>3 DEF q, r
<1> QED
  BY <1>13, <1>17

-----------------------------------------------------------------------------
(* pop_max and remove *)

\* Filling the hole that an entry leaves.
LEMMA FillHoleIs ==
  ASSUME heap \in Seq(Entry), NEW k \in 1 .. Len(heap), heap' = FillHole(heap, k)
  PROVE  /\ heap' \in Seq(Entry) /\ Len(heap') = Len(heap) - 1 /\ DOMAIN heap' = 1 .. (Len(heap) - 1)
         /\ \A j \in 1 .. (Len(heap) - 1) : heap'[j] = IF j = k THEN heap[Len(heap)] ELSE heap[j]
<1> DEFINE n == Len(heap)
           h == [heap EXCEPT ![k] = heap[n]]
<1>1. n \in Nat /\ heap \in [1 .. n -> Entry] /\ n >= 1
  OBVIOUS
<1>2. h \in Seq(Entry) /\ Len(h) = n /\ \A j \in 1 .. n : h[j] = IF j = k THEN heap[n] ELSE heap[j]
  BY <1>1
<1>3. heap' = SubSeq(h, 1, n - 1)
  BY DEF FillHole
<1> HIDE DEF h, n
<1> QED
  BY <1>1, <1>2, <1>3 DEF n

\* What remains are the other entries.
LEMMA RemovedEntry ==
  ASSUME EntriesInv, NEW k \in 1 .. Len(heap), heap' = FillHole(heap, k), next_seq' = next_seq
  PROVE  EntriesInv' /\ Entries' = Entries \ {heap[k]} /\ Len(heap') = Len(heap) - 1
<1> DEFINE g == heap'
           n == Len(heap)
           sigma == [j \in 1 .. (n - 1) |-> IF j = k THEN n ELSE j]
<1>1. heap \in Seq(Entry) /\ n \in Nat /\ k \in 1 .. n /\ DOMAIN heap = 1 .. n
  BY DEF EntriesInv
<1>2. /\ g \in Seq(Entry) /\ Len(g) = n - 1 /\ DOMAIN g = 1 .. (n - 1)
      /\ \A j \in 1 .. (n - 1) : g[j] = IF j = k THEN heap[n] ELSE heap[j]
  BY <1>1, FillHoleIs, Zenon
<1> HIDE DEF g, n
<1>3. \A j \in 1 .. (n - 1) : sigma[j] \in 1 .. n /\ g[j] = heap[sigma[j]] /\ sigma[j] # k
  BY <1>1, <1>2
<1>4. \A i, j \in 1 .. (n - 1) : i # j => sigma[i] # sigma[j]
  BY <1>1
<1>5. \A j \in 1 .. n : j # k => \E i \in 1 .. (n - 1) : sigma[i] = j
  <2> SUFFICES ASSUME NEW j \in 1 .. n, j # k PROVE \E i \in 1 .. (n - 1) : sigma[i] = j
    OBVIOUS
  <2>1. CASE j = n
    <3>1. k \in 1 .. (n - 1) /\ sigma[k] = j
      BY <1>1, <2>1
    <3> QED
      BY <3>1
  <2>2. CASE j # n
    <3>1. j \in 1 .. (n - 1) /\ sigma[j] = j
      BY <1>1, <2>2
    <3> QED
      BY <3>1
  <2> QED
    BY <2>1, <2>2
<1> HIDE DEF sigma
<1>6. /\ \A i \in 1 .. n :
           heap[i].effective_priority = Rank[heap[i].task_id] /\ Age(heap[i]) \in 1 .. SeqHalf
      /\ \A i, j \in 1 .. n :
           i # j => heap[i].task_id # heap[j].task_id /\ Age(heap[i]) # Age(heap[j])
  BY DEF EntriesInv, n
<1>7. \A i \in 1 .. (n - 1) : Age(heap[i])' = Age(heap[sigma[i]])
  BY <1>3 DEF Age, g
<1>8. EntriesInv'
  <2>1. ASSUME NEW i \in 1 .. (n - 1)
        PROVE  g[i].effective_priority = Rank[g[i].task_id] /\ Age(heap[i])' \in 1 .. SeqHalf
    <3>1. sigma[i] \in 1 .. n /\ g[i] = heap[sigma[i]]
      BY <1>3, Zenon
    <3>2. Age(heap[i])' = Age(heap[sigma[i]])
      BY <1>7, Zenon
    <3> QED
      BY <1>6, <3>1, <3>2
  <2>2. ASSUME NEW i \in 1 .. (n - 1), NEW j \in 1 .. (n - 1), i # j
        PROVE  g[i].task_id # g[j].task_id /\ Age(heap[i])' # Age(heap[j])'
    <3>1. sigma[i] \in 1 .. n /\ sigma[j] \in 1 .. n /\ sigma[i] # sigma[j]
      BY <1>3, <1>4, <2>2, Zenon
    <3>2. g[i] = heap[sigma[i]] /\ g[j] = heap[sigma[j]]
      BY <1>3, Zenon
    <3>3. Age(heap[i])' = Age(heap[sigma[i]]) /\ Age(heap[j])' = Age(heap[sigma[j]])
      BY <1>7, Zenon
    <3>4. /\ heap[sigma[i]].task_id # heap[sigma[j]].task_id
          /\ Age(heap[sigma[i]]) # Age(heap[sigma[j]])
      BY <1>6, <3>1, Zenon
    <3> QED
      BY <3>2, <3>3, <3>4
  <2>3. Len(g) <= N /\ next_seq' \in 0 .. (SeqNums - 1)
    BY <1>1, <1>2, QueueAssumption DEF EntriesInv, n
  <2> QED
    BY <1>2, <2>1, <2>2, <2>3 DEF EntriesInv, g
<1>9. Entries' = Entries \ {heap[k]}
  <2>1. Entries' = {g[i] : i \in 1 .. (n - 1)} /\ Entries = {heap[i] : i \in 1 .. n}
    BY <1>1, <1>2 DEF Entries, g
  <2>2. \A i, j \in 1 .. n : heap[i] = heap[j] => i = j
    BY <1>6, Zenon
  <2>3. ASSUME NEW e \in Entries' PROVE e \in Entries /\ e # heap[k]
    <3>1. PICK i \in 1 .. (n - 1) : e = g[i]
      BY <2>1
    <3>2. e = heap[sigma[i]] /\ sigma[i] \in 1 .. n /\ sigma[i] # k
      BY <1>3, <3>1
    <3> QED
      BY <1>1, <2>1, <2>2, <3>2
  <2>4. ASSUME NEW e \in Entries, e # heap[k] PROVE e \in Entries'
    <3>1. PICK j \in 1 .. n : e = heap[j]
      BY <2>1
    <3>2. PICK i \in 1 .. (n - 1) : sigma[i] = j
      BY <1>5, <2>4, <3>1
    <3>3. e = g[i]
      BY <1>3, <3>1, <3>2
    <3> QED
      BY <2>1, <3>3
  <2> QED
    BY <2>3, <2>4, Zenon
<1> QED
  BY <1>2, <1>8, <1>9 DEF g, n

\* The queue without one of its entries.
LEMMA WithoutIs ==
  ASSUME NEW S, NEW q \in Seq(S), NEW k \in 1 .. Len(q)
  PROVE  /\ Abstract!Without(q, k) \in Seq(S) /\ Len(Abstract!Without(q, k)) = Len(q) - 1
         /\ \A p \in 1 .. (Len(q) - 1) : Abstract!Without(q, k)[p] = IF p < k THEN q[p] ELSE q[p + 1]
<1> DEFINE n == Len(q)
           a == SubSeq(q, 1, k - 1)
           b == SubSeq(q, k + 1, n)
<1>1. n \in Nat /\ k \in Nat /\ k >= 1 /\ k <= n
  OBVIOUS
<1>2. a \in Seq(S) /\ Len(a) = k - 1 /\ \A p \in 1 .. (k - 1) : a[p] = q[p]
  BY <1>1
<1>3. b \in Seq(S) /\ Len(b) = n - k /\ \A p \in 1 .. (n - k) : b[p] = q[k + p]
  BY <1>1
<1>4. Abstract!Without(q, k) = a \o b
  BY DEF Abstract!Without
<1> HIDE DEF a, b, n
<1>5. a \o b \in Seq(S) /\ Len(a \o b) = n - 1
  <2>1. a \o b \in Seq(S) /\ Len(a \o b) = Len(a) + Len(b)
    <3>1. a \in Seq(S) /\ b \in Seq(S)
      BY <1>2, <1>3
    <3> QED
      BY <3>1
  <2>2. Len(a) + Len(b) = n - 1
    BY <1>1, <1>2, <1>3
  <2> QED
    BY <2>1, <2>2, Zenon
<1>6. ASSUME NEW p \in 1 .. (n - 1) PROVE (a \o b)[p] = IF p < k THEN q[p] ELSE q[p + 1]
  <2>1. CASE p < k
    BY <1>1, <1>2, <1>3, <2>1
  <2>2. CASE p >= k
    <3>1. (a \o b)[p] = b[p - (k - 1)] /\ p - (k - 1) \in 1 .. (n - k) /\ k + (p - (k - 1)) = p + 1
      BY <1>1, <1>2, <1>3, <2>2
    <3> QED
      BY <1>1, <1>3, <2>2, <3>1
  <2>3. p < k \/ p >= k
    BY <1>1
  <2> QED
    BY <2>1, <2>2, <2>3, Zenon
<1> QED
  BY <1>4, <1>5, <1>6 DEF n

\* The others keep their order.
LEMMA RemovedOrder ==
  ASSUME EntriesInv, NEW k \in 1 .. Len(heap), heap' = FillHole(heap, k), next_seq' = next_seq
  PROVE  /\ Position(heap[k]) \in DOMAIN QueueOrder /\ QueueOrder[Position(heap[k])] = heap[k].task_id
         /\ QueueOrder' = Abstract!Without(QueueOrder, Position(heap[k]))
<1> DEFINE n == Len(heap)
<1> PICK e0 : e0 = heap[k]
  BY Zenon
<1>1. EntriesInv' /\ Entries' = Entries \ {e0} /\ Len(heap') = n - 1 /\ e0 \in Entries /\ n \in Nat
  <2>1. n \in Nat /\ e0 \in Entries
    BY DEF EntriesInv, Entries
  <2> QED
    BY <2>1, RemovedEntry
<1>2. EntriesAre /\ Positions /\ EntriesAre' /\ Positions'
  BY <1>1, EntriesAreSuch, PositionsAreSuch, PositionsNext
<1> DEFINE z == Position(e0)
           q == QueueOrder
           r == QueueOrder'
<1>3. z \in 1 .. n /\ q[z] = e0.task_id /\ q \in Seq(TaskId) /\ Len(q) = n
  BY <1>1, <1>2 DEF Positions
<1>4. ASSUME NEW e \in Entries
      PROVE  Position(e)' = IF Position(e) > z THEN Position(e) - 1 ELSE Position(e)
  <2>1. Older(e)' = {x \in Entries \ {e0} : Age(x) > Age(e)}
    BY <1>1 DEF Older, Age
  <2>2. Older(e)' = Older(e) \ {e0} /\ (e0 \in Older(e) <=> Age(e0) > Age(e))
    BY <1>1, <2>1 DEF Older
  <2>3. IsFiniteSet(Older(e))
    <3>1. IsFiniteSet(Entries) /\ Older(e) \in SUBSET Entries
      BY <1>2 DEF EntriesAre, Older
    <3> QED
      BY <3>1, FS_Subset
  <2>4. Cardinality(Older(e)') = IF e0 \in Older(e) THEN Cardinality(Older(e)) - 1 ELSE Cardinality(Older(e))
    <3> DEFINE O == Older(e)
    <3>1. IsFiniteSet(O) /\ Older(e)' = O \ {e0}
      BY <2>2, <2>3
    <3> HIDE DEF O
    <3>2. Cardinality(O \ {e0}) = IF e0 \in O THEN Cardinality(O) - 1 ELSE Cardinality(O)
      BY <3>1, FS_RemoveElement, Zenon
    <3> QED
      BY <3>1, <3>2, Zenon DEF O
  <2>5. Cardinality(Older(e)) \in Nat
    BY <2>3, FS_CardinalityType
  <2>6. Position(e) > z <=> e0 \in Older(e)
    <3>1. z < Position(e) <=> Age(e0) > Age(e)
      BY <1>1, <1>2 DEF Positions
    <3>2. Position(e) \in Int
      BY <2>5 DEF Position
    <3> QED
      BY <1>3, <2>2, <3>1, <3>2
  <2>7. Position(e)' = Cardinality(Older(e)') + 1 /\ Position(e) = Cardinality(Older(e)) + 1
    BY DEF Position
  <2> QED
    BY <2>4, <2>5, <2>6, <2>7
<1>5. r \in Seq(TaskId) /\ Len(r) = n - 1
  BY <1>1, <1>2 DEF Positions
<1>6. \A e \in Entries : e # e0 => r[Position(e)'] = e.task_id
  BY <1>1, <1>2 DEF Positions
<1>7. \A e \in Entries : q[Position(e)] = e.task_id
  BY <1>2 DEF Positions
<1>8. \A p \in 1 .. n : \E e \in Entries : Position(e) = p
  BY <1>2 DEF Positions
<1> HIDE DEF z, q, r, n
<1>9. ASSUME NEW p \in 1 .. (n - 1) PROVE r[p] = IF p < z THEN q[p] ELSE q[p + 1]
  <2>1. CASE p < z
    <3>1. p \in 1 .. n
      BY <1>1
    <3>2. PICK e \in Entries : Position(e) = p
      BY <1>8, <3>1
    <3>3. e # e0 /\ Position(e)' = p
      BY <1>1, <1>3, <1>4, <2>1, <3>2 DEF z
    <3> QED
      BY <1>6, <1>7, <2>1, <3>2, <3>3
  <2>2. CASE ~(p < z)
    <3>1. p + 1 \in 1 .. n /\ p + 1 > z
      BY <1>1, <1>3, <2>2
    <3>2. PICK e \in Entries : Position(e) = p + 1
      BY <1>8, <3>1
    <3>3. e # e0 /\ Position(e)' = p
      BY <1>1, <1>3, <1>4, <3>1, <3>2 DEF z
    <3> QED
      BY <1>6, <1>7, <2>2, <3>2, <3>3
  <2> QED
    BY <2>1, <2>2
<1> DEFINE w == Abstract!Without(q, z)
<1>10. w \in Seq(TaskId) /\ Len(w) = n - 1 /\ \A p \in 1 .. (n - 1) : w[p] = IF p < z THEN q[p] ELSE q[p + 1]
  <2>1. z \in 1 .. Len(q)
    BY <1>3
  <2>2. /\ w \in Seq(TaskId) /\ Len(w) = Len(q) - 1
        /\ \A p \in 1 .. (Len(q) - 1) : w[p] = IF p < z THEN q[p] ELSE q[p + 1]
    BY <1>3, <2>1, WithoutIs, Zenon
  <2> QED
    BY <1>3, <2>2, Zenon
<1> HIDE DEF w
<1>11. r = w
  <2>1. \A p \in 1 .. (n - 1) : r[p] = w[p]
    BY <1>9, <1>10
  <2> QED
    BY <1>1, <1>5, <1>10, <2>1
<1>12. z \in DOMAIN q
  BY <1>3
<1> QED
  BY <1>3, <1>11, <1>12 DEF w, z, q, r

\* The entry that fills the hole is the only one out of order.
LEMMA RemovedShape ==
  ASSUME EntriesInv, Heaped(heap), NEW k \in 1 .. Len(heap), heap' = FillHole(heap, k), next_seq' = next_seq
  PROVE  /\ k = Len(heap) => Heaped(heap)'
         /\ \A f : k < Len(heap) /\ f \in {0, k} /\ (k = 1 \/ f = k)
                    /\ sift' = [loop |-> "down", idx |-> k, from |-> f] => DownInv(heap, sift)'
<1> DEFINE g == heap'
           n == Len(heap)
<1>1. heap \in Seq(Entry) /\ n \in Nat /\ k \in 1 .. n /\ next_seq \in 0 .. (SeqNums - 1)
  BY DEF EntriesInv
<1>2. Len(g) = n - 1 /\ \A j \in 1 .. (n - 1) : g[j] = IF j = k THEN heap[n] ELSE heap[j]
  BY <1>1, FillHoleIs, Zenon
<1>3. \A j \in 2 .. n : ~Better(heap[j], heap[j \div 2])
  BY DEF Heaped, Below
<1>4. \A j \in 1 .. n : heap[j] \in Entry
  BY <1>1
<1> HIDE DEF g, n
<1>5. \A j \in 2 .. (n - 1) : j \div 2 \in 1 .. (n - 1) /\ j \in 1 .. (n - 1) /\ j \in 2 .. n /\ j \div 2 # j
  BY <1>1
<1>6. ASSUME NEW j \in 2 .. (n - 1), j # k, j \div 2 # k PROVE ~Better(g[j], g[j \div 2])
  BY <1>2, <1>3, <1>5, <1>6
<1>7. ASSUME k > 1, NEW j \in 2 .. (n - 1), j \div 2 = k PROVE ~Better(g[j], g[k \div 2])
  <2>1. /\ k \in 2 .. n /\ k \div 2 \in 1 .. (n - 1) /\ k \div 2 \in 1 .. n /\ k \div 2 # k
        /\ j # k /\ j \in 1 .. n /\ j \in 2 .. n /\ j \in 1 .. (n - 1)
    BY <1>1, <1>7
  <2>2. ~Better(heap[j], heap[k]) /\ ~Better(heap[k], heap[k \div 2])
    BY <1>3, <1>7, <2>1
  <2>3. ~Better(heap[j], heap[k \div 2])
    BY <1>1, <1>4, <2>1, <2>2, BetterOrder
  <2> QED
    BY <1>2, <2>1, <2>3
<1>8. ASSUME k = n PROVE Heaped(heap)'
  <2>1. \A j \in 2 .. (n - 1) : j # k /\ j \div 2 # k
    BY <1>1, <1>8
  <2>2. Heaped(g)
    BY <1>2, <1>6, <2>1 DEF Heaped, Below
  <2> QED
    BY <2>2, SameOrder DEF g
<1>9. ASSUME NEW f, k < n, f \in {0, k}, k = 1 \/ f = k, sift' = [loop |-> "down", idx |-> k, from |-> f]
      PROVE  DownInv(heap, sift)'
  <2>1. sift'.idx = k /\ sift'.from = f /\ k \in 1 .. (n - 1) /\ f \in 0 .. k
    BY <1>1, <1>9
  <2>2. \A j \in 2 .. (n - 1) : j \div 2 # k /\ (j = k => f # j) => ~Better(g[j], g[j \div 2])
    BY <1>1, <1>6, <1>9
  <2>3. DownInv(g, sift')
    BY <1>2, <1>7, <2>1, <2>2, Zenon DEF DownInv, Below, FitsAbove
  <2> QED
    BY <2>3, SameOrder DEF g
<1> QED
  BY <1>8, <1>9, Zenon DEF n

-----------------------------------------------------------------------------
(* The root of the heap *)

\* No entry outranks the root once the loops are done.
LEMMA RootIsBest ==
  ASSUME EntriesInv, Heaped(heap)
  PROVE  \A j \in 1 .. Len(heap) : ~Better(heap[j], heap[1])
<1> DEFINE n == Len(heap)
           S == {j \in 1 .. n : Better(heap[j], heap[1])}
<1>1. heap \in Seq(Entry) /\ n \in Nat /\ next_seq \in 0 .. (SeqNums - 1)
  BY DEF EntriesInv
<1>2. \A j \in 2 .. n : ~Better(heap[j], heap[j \div 2])
  BY DEF Heaped, Below
<1>3. \A j \in 1 .. n : heap[j] \in Entry
  BY <1>1
<1> HIDE DEF n
<1>4. SUFFICES ASSUME S # {} PROVE FALSE
  BY Zenon DEF n
<1>5. S \subseteq Nat
  BY <1>1
<1>6. PICK m \in S : \A j \in S : ~(<<j, m>> \in OpToRel(<, Nat))
  <2> HIDE DEF S
  <2> QED
    BY <1>4, <1>5, WFMin, NatLessThanWellFounded, Zenon
<1>7. \A j \in S : ~(j < m)
  BY <1>5, <1>6, Zenon DEF OpToRel
<1>8. m \in 1 .. n /\ Better(heap[m], heap[1])
  BY <1>6, Zenon
<1>9. 1 \in 1 .. n /\ heap[1] \in Entry /\ heap[m] \in Entry
  BY <1>1, <1>3, <1>8
<1>10. m # 1
  BY <1>1, <1>8, <1>9, BetterOrder
<1>11. m \in 2 .. n /\ m \div 2 \in 1 .. n /\ m \div 2 < m
  BY <1>1, <1>8, <1>10
<1>12. ~Better(heap[m \div 2], heap[1])
  BY <1>7, <1>11
<1>13. ~Better(heap[m], heap[m \div 2])
  BY <1>2, <1>11
<1> QED
  BY <1>1, <1>3, <1>8, <1>9, <1>11, <1>12, <1>13, BetterOrder

\* So it is the entry that is to leave next.
LEMMA RootIsBestIndex ==
  ASSUME EntriesInv, Heaped(heap), heap # <<>>
  PROVE  Abstract!BestIndex(Rank, QueueOrder) = Position(heap[1])
<1> DEFINE n == Len(heap)
           q == QueueOrder
           r == heap[1]
           b == Position(r)
           P(i) == \A j \in DOMAIN q \ {i} : Abstract!Outranks(Rank, q, i, j)
<1>1. heap \in Seq(Entry) /\ n \in Nat /\ n > 0 /\ DOMAIN heap = 1 .. n
  BY DEF EntriesInv
<1>2. EntriesAre /\ Positions
  BY EntriesAreSuch, PositionsAreSuch
<1>3. r \in Entries /\ \A e \in Entries : ~Better(e, r)
  BY <1>1, RootIsBest DEF Entries
<1> HIDE DEF n, r
<1>4. q \in Seq(TaskId) /\ DOMAIN q = 1 .. n /\ b \in 1 .. n
  BY <1>2, <1>3 DEF Positions, n
<1>5. ASSUME NEW j \in 1 .. n, j # b
      PROVE  Abstract!Outranks(Rank, q, b, j) /\ ~Abstract!Outranks(Rank, q, j, b)
  <2>1. PICK e \in Entries : Position(e) = j
    BY <1>2 DEF Positions, n
  <2>2. q[j] = e.task_id /\ q[b] = r.task_id
    BY <1>2, <1>3, <2>1 DEF Positions
  <2>3. /\ e.effective_priority = Rank[e.task_id] /\ e.effective_priority \in Nat /\ Age(e) \in 1 .. SeqHalf
        /\ r.effective_priority = Rank[r.task_id] /\ r.effective_priority \in Nat /\ Age(r) \in 1 .. SeqHalf
        /\ Age(e) # Age(r)
    BY <1>2, <1>3, <1>5, <2>1 DEF EntriesAre, Entry
  <2>4. b < j <=> Age(r) > Age(e)
    BY <1>2, <1>3, <2>1 DEF Positions
  <2>5. ~Better(e, r)
    BY <1>3
  <2> HIDE DEF q, b
  <2> QED
    BY <1>1, <1>4, <1>5, <2>2, <2>3, <2>4, <2>5, QueueAssumption DEF Better, Abstract!Outranks
<1> HIDE DEF q, b
<1>6. ASSUME NEW i \in DOMAIN q PROVE P(i) <=> i = b
  <2>1. CASE i = b
    BY <1>4, <1>5, <2>1, Zenon
  <2>2. CASE i # b
    <3>1. b \in DOMAIN q \ {i} /\ ~Abstract!Outranks(Rank, q, i, b)
      BY <1>4, <1>5, <2>2, Zenon
    <3> QED
      BY <2>2, <3>1, Zenon
  <2> QED
    BY <2>1, <2>2
<1> HIDE DEF P
<1>7. (CHOOSE i \in DOMAIN q : P(i)) = b
  BY <1>4, <1>6, Zenon
<1> QED
  BY <1>7, Zenon DEF Abstract!BestIndex, P, q, b, r

-----------------------------------------------------------------------------
(* The theorems *)

\* The tasks in the insertion order are the ones in the heap.
LEMMA QueuedIsHeld == ASSUME EntriesInv, NEW t PROVE Abstract!Queued(t) <=> Holds(t)
<1>1. heap \in Seq(Entry) /\ Len(heap) \in Nat /\ DOMAIN heap = 1 .. Len(heap)
  BY DEF EntriesInv
<1>2. EntriesAre /\ Positions
  BY EntriesAreSuch, PositionsAreSuch
<1>3. DOMAIN QueueOrder = 1 .. Len(heap)
  BY <1>2 DEF Positions
<1>4. Abstract!Queued(t) <=> \E e \in Entries : e.task_id = t
  BY <1>2, <1>3 DEF Positions, Abstract!Queued
<1>5. Holds(t) <=> \E e \in Entries : e.task_id = t
  BY DEF Holds, Entries
<1> QED
  BY <1>4, <1>5

\* At first the queue is empty.
LEMMA HeapInitially == HeapInit => HeapInv /\ QueueOrder = <<>>
<1> SUFFICES ASSUME HeapInit PROVE HeapInv /\ QueueOrder = <<>>
  OBVIOUS
<1>1. EntriesInv
  BY QueueAssumption DEF HeapInit, EntriesInv, SeqNums
<1>2. ShapeInv
  BY DEF HeapInit, ShapeInv, Heaped
<1>3. QueueOrder \in Seq(TaskId) /\ Len(QueueOrder) = 0
  BY <1>1, EntriesAreSuch, PositionsAreSuch DEF HeapInit, Positions
<1> QED
  BY <1>1, <1>2, <1>3 DEF HeapInv

\* What a step of the heap does to the ready queue: a call is the call there
\* and an iteration of a loop nothing.
Refines == Abstract!Next \/ UNCHANGED <<QueueOrder, out>>

\* insert.
LEMMA InsertStep == ASSUME HeapInv, NEW t \in TaskId, Insert(t) PROVE HeapInv' /\ Abstract!Insert(t)
<1>1. EntriesInv /\ Len(heap) \in Nat /\ Len(QueueOrder) = Len(heap)
  BY EntriesAreSuch, PositionsAreSuch DEF HeapInv, EntriesInv, Positions
<1>2. out # <<"panicked">> /\ ~Abstract!Queued(t)
  BY <1>1, QueuedIsHeld DEF Insert, Callable
<1>3. CASE Len(heap) < N
  <2>1. HeapInv' /\ QueueOrder' = Append(QueueOrder, t)
    BY <1>3, InsertEntry
  <2>2. out' = <<"none">>
    BY <1>3 DEF Insert
  <2> QED
    BY <1>1, <1>2, <1>3, <2>1, <2>2 DEF Abstract!Insert, Abstract!Panicked, Abstract!NoResult
<1>4. CASE ~(Len(heap) < N)
  <2>1. out' = <<"panicked">> /\ UNCHANGED <<heap, next_seq, sift>>
    BY <1>4 DEF Insert
  <2>2. QueueOrder' = QueueOrder
    BY <2>1, SameQueue DEF Entries
  <2>3. HeapInv'
    <3>1. EntriesInv'
      BY <1>1, <2>1 DEF EntriesInv, Age
    <3>2. ShapeInv'
      BY <2>1, SameOrder, Zenon DEF HeapInv, ShapeInv
    <3> QED
      BY <3>1, <3>2 DEF HeapInv
  <2> QED
    BY <1>1, <1>2, <1>4, <2>1, <2>2, <2>3 DEF Abstract!Insert, Abstract!Panicked, Abstract!NoResult
<1> QED
  BY <1>3, <1>4

\* A removal keeps the invariant and takes the entry's task off the queue.
LEMMA Removal ==
  ASSUME HeapInv, sift = Idle, NEW k \in 1 .. Len(heap), heap' = FillHole(heap, k), next_seq' = next_seq,
         NEW f \in {0, k}, k = 1 \/ f = k,
         sift' = IF k < Len(heap) THEN [loop |-> "down", idx |-> k, from |-> f] ELSE Idle
  PROVE  /\ HeapInv'
         /\ Position(heap[k]) \in DOMAIN QueueOrder /\ QueueOrder[Position(heap[k])] = heap[k].task_id
         /\ QueueOrder' = Abstract!Without(QueueOrder, Position(heap[k]))
<1>1. EntriesInv /\ Heaped(heap) /\ Len(heap) \in Nat
  BY DEF HeapInv, ShapeInv, EntriesInv, Idle
<1>2. EntriesInv'
  BY <1>1, RemovedEntry
<1>3. ShapeInv'
  <2>1. CASE k < Len(heap)
    <3>1. sift' = [loop |-> "down", idx |-> k, from |-> f] /\ sift'.idx = k /\ sift'.from = f
      BY <2>1
    <3>2. DownInv(heap, sift)'
      BY <1>1, <2>1, <3>1, RemovedShape
    <3> QED
      BY <3>1, <3>2 DEF ShapeInv
  <2>2. CASE ~(k < Len(heap))
    <3>1. k = Len(heap) /\ sift' = Idle
      BY <1>1, <2>2
    <3>2. Heaped(heap)'
      BY <1>1, <3>1, RemovedShape
    <3> QED
      BY <3>1, <3>2 DEF ShapeInv, Idle
  <2> QED
    BY <2>1, <2>2
<1> QED
  BY <1>1, <1>2, <1>3, RemovedOrder DEF HeapInv

\* pop_max.
LEMMA PopMaxStep == ASSUME HeapInv, PopMax PROVE HeapInv' /\ Abstract!PopMax
<1>1. /\ EntriesInv /\ Heaped(heap) /\ sift = Idle /\ out # <<"panicked">> /\ next_seq' = next_seq
      /\ heap \in Seq(Entry) /\ Len(heap) \in Nat
  BY DEF HeapInv, ShapeInv, EntriesInv, Idle, PopMax, Callable
<1>2. QueueOrder \in Seq(TaskId) /\ Len(QueueOrder) = Len(heap)
  BY <1>1, EntriesAreSuch, PositionsAreSuch DEF Positions
<1>3. CASE heap = <<>>
  <2>1. out' = <<"none">> /\ heap' = heap /\ sift' = sift
    BY <1>3 DEF PopMax
  <2>2. QueueOrder' = QueueOrder
    BY <1>1, <2>1, SameQueue DEF Entries
  <2>3. QueueOrder = <<>>
    BY <1>2, <1>3
  <2>4. EntriesInv'
    BY <1>1, <2>1 DEF EntriesInv, Age
  <2>5. ShapeInv'
    BY <1>1, <2>1, SameOrder, Zenon DEF ShapeInv
  <2> QED
    BY <1>1, <2>1, <2>2, <2>3, <2>4, <2>5 DEF HeapInv, Abstract!PopMax, Abstract!Panicked, Abstract!NoResult
<1>4. CASE heap # <<>>
  <2> DEFINE b == Position(heap[1])
  <2>1. /\ heap' = FillHole(heap, 1) /\ out' = <<"popped", heap[1].task_id>>
        /\ sift' = IF 1 < Len(heap) THEN [loop |-> "down", idx |-> 1, from |-> 0] ELSE Idle
    BY <1>1, <1>4 DEF PopMax
  <2>2. 1 \in 1 .. Len(heap) /\ 0 \in {0, 1}
    BY <1>1, <1>4
  <2>3. HeapInv' /\ QueueOrder[b] = heap[1].task_id /\ QueueOrder' = Abstract!Without(QueueOrder, b)
    BY <1>1, <2>1, <2>2, Removal, Zenon
  <2>4. Abstract!BestIndex(Rank, QueueOrder) = b
    BY <1>1, <1>4, RootIsBestIndex
  <2>5. QueueOrder # <<>>
    BY <1>2, <2>2
  <2> HIDE DEF b
  <2> QED
    BY <1>1, <2>1, <2>3, <2>4, <2>5 DEF Abstract!PopMax, Abstract!Panicked, Abstract!Popped
<1> QED
  BY <1>3, <1>4

\* remove.
LEMMA RemoveTaskStep ==
  ASSUME HeapInv, NEW t \in TaskId, RemoveTask(t) PROVE HeapInv' /\ Abstract!RemoveTask(t)
<1>1. /\ EntriesInv /\ Heaped(heap) /\ sift = Idle /\ out # <<"panicked">> /\ next_seq' = next_seq
      /\ heap \in Seq(Entry) /\ Len(heap) \in Nat /\ DOMAIN heap = 1 .. Len(heap)
      /\ out' = <<"found", Holds(t)>>
  BY DEF HeapInv, ShapeInv, EntriesInv, Idle, RemoveTask, Callable
<1>2. (Abstract!Queued(t) <=> Holds(t)) /\ Holds(t) \in BOOLEAN /\ Abstract!Queued(t) \in BOOLEAN
  BY <1>1, QueuedIsHeld DEF Holds, Abstract!Queued
<1>3. out' = Abstract!Found(Abstract!Queued(t))
  BY <1>1, <1>2 DEF Abstract!Found
<1>4. CASE ~Holds(t)
  <2>1. heap' = heap /\ sift' = sift
    BY <1>4 DEF RemoveTask
  <2>2. QueueOrder' = QueueOrder
    BY <1>1, <2>1, SameQueue DEF Entries
  <2>3. EntriesInv'
    BY <1>1, <2>1, ZenonT(40) DEF EntriesInv, Age
  <2>4. ShapeInv'
    BY <1>1, <2>1, SameOrder, Zenon DEF ShapeInv
  <2> QED
    BY <1>1, <1>2, <1>3, <1>4, <2>2, <2>3, <2>4, Zenon DEF HeapInv, Abstract!RemoveTask, Abstract!Panicked
<1>5. CASE Holds(t)
  <2>1. PICK k : k = CHOOSE i \in DOMAIN heap : heap[i].task_id = t
    BY Zenon
  <2>2. k \in 1 .. Len(heap) /\ heap[k].task_id = t /\ k \in {0, k}
    BY <1>1, <1>5, <2>1, SMTT(20) DEF Holds
  <2>3. /\ heap' = FillHole(heap, k)
        /\ sift' = IF k < Len(heap) THEN [loop |-> "down", idx |-> k, from |-> k] ELSE Idle
    BY <1>5, <2>1 DEF RemoveTask
  <2>4. /\ HeapInv' /\ Position(heap[k]) \in DOMAIN QueueOrder
        /\ QueueOrder[Position(heap[k])] = heap[k].task_id
        /\ QueueOrder' = Abstract!Without(QueueOrder, Position(heap[k]))
    BY <1>1, <2>2, <2>3, Removal, Zenon
  <2> QED
    BY <1>1, <1>2, <1>3, <1>5, <2>2, <2>4, Zenon DEF Abstract!RemoveTask, Abstract!Panicked
<1> QED
  BY <1>4, <1>5

\* Every step keeps the invariant and is a step of the ready queue or none.
LEMMA HeapStep == ASSUME HeapInv, [HeapNext]_heapVars PROVE HeapInv' /\ Refines
<1>1. CASE SiftUp
  BY <1>1, SiftUpStep, SameQueue DEF Repairs, Refines
<1>2. CASE SiftDown
  BY <1>2, SiftDownStep, SameQueue DEF Repairs, Refines
<1>3. CASE UNCHANGED heapVars
  <2>1. heap' = heap /\ next_seq' = next_seq /\ sift' = sift /\ out' = out
    BY <1>3 DEF heapVars
  <2>2. QueueOrder' = QueueOrder
    BY <2>1, SameQueue DEF Entries
  <2>3. EntriesInv'
    BY <2>1 DEF HeapInv, EntriesInv, Age
  <2>4. ShapeInv'
    BY <2>1, SameOrder, Zenon DEF HeapInv, ShapeInv
  <2> QED
    BY <2>1, <2>2, <2>3, <2>4 DEF HeapInv, Refines
<1>4. CASE PopMax
  BY <1>4, PopMaxStep DEF Refines, Abstract!Next
<1>5. ASSUME NEW t \in TaskId, Insert(t) PROVE HeapInv' /\ Refines
  BY <1>5, InsertStep DEF Refines, Abstract!Next
<1>6. ASSUME NEW t \in TaskId, RemoveTask(t) PROVE HeapInv' /\ Refines
  BY <1>6, RemoveTaskStep DEF Refines, Abstract!Next
<1> QED
  BY <1>1, <1>2, <1>3, <1>4, <1>5, <1>6, Zenon DEF HeapNext, Halted

\* The invariant holds after any sequence of calls, and inside of them.
THEOREM HeapInvAlways == HeapSpec => []HeapInv
<1>1. HeapInit => HeapInv
  BY HeapInitially
<1>2. HeapInv /\ [HeapNext]_heapVars => HeapInv'
  BY HeapStep
<1> QED
  BY <1>1, <1>2, PTL DEF HeapSpec

\* peek_max and peek_max_priority answer with the task pop_max would yield,
\* for every capacity, every ranking and every width of the sequence numbers.
THEOREM PeekIsBestAlways == HeapSpec => []PeekIsBest
<1>1. HeapInv => PeekIsBest
  <2> SUFFICES ASSUME HeapInv, sift = Idle, heap # <<>>
               PROVE  heap[1].task_id = QueueOrder[Abstract!BestIndex(Rank, QueueOrder)]
    BY DEF PeekIsBest
  <2>1. EntriesInv /\ Heaped(heap)
    BY DEF HeapInv, ShapeInv, Idle
  <2>2. heap[1] \in Entries
    BY <2>1 DEF EntriesInv, Entries
  <2>3. QueueOrder[Position(heap[1])] = heap[1].task_id
    BY <2>1, <2>2, EntriesAreSuch, PositionsAreSuch DEF Positions
  <2> QED
    BY <2>1, <2>3, RootIsBestIndex
<1> QED
  BY <1>1, HeapInvAlways, PTL

\* The binary heap is the ready queue: insert appends, pop_max takes out the
\* oldest entry of the highest priority, remove takes out the task it is given,
\* and none of them disturbs the order of the others.
THEOREM HeapImplementsReadyQueue == HeapSpec => ImplementsReadyQueue
<1>1. HeapInit => Abstract!Init
  BY HeapInitially DEF HeapInit, Abstract!Init, Abstract!NoResult
<1>2. HeapInv /\ [HeapNext]_heapVars => [Abstract!Next]_<<QueueOrder, out>>
  BY HeapStep DEF Refines
<1> QED
  BY <1>1, <1>2, HeapInvAlways, PTL DEF HeapSpec, ImplementsReadyQueue, Abstract!Spec

=============================================================================
