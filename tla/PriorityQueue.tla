--------------------------- MODULE PriorityQueue ---------------------------
(***************************************************************************)
(* The binary max-heap of scheduler/queue.rs, one iteration of sift_up and *)
(* sift_down per step.  heap holds the occupied prefix of the array (the   *)
(* rest is None), so len is Len(heap) and the 0-based index i of the code  *)
(* is i + 1 here.  Sequence numbers wrap around at 2 * SeqHalf, as the u32 *)
(* does at 2^32.                                                           *)
(***************************************************************************)
EXTENDS Integers, Sequences, FiniteSets

CONSTANTS
  TaskId, \* the tasks that can be queued
  N,      \* the const parameter N: capacity
  Rank,   \* the effective priority a task is inserted with
  SeqHalf \* 2^31: half the range of a sequence number

SeqNums == 2 * SeqHalf

ASSUME QueueAssumption == N \in Nat \ {0} /\ SeqHalf \in Nat \ {0} /\ Rank \in [TaskId -> Nat]

VARIABLES
  heap,     \* PriorityQueue::heap, entries [task_id, effective_priority, seq]
  next_seq, \* PriorityQueue::next_seq
  sift,     \* the loop of the call in progress, its idx, and the index from
            \* which remove calls sift_up after sift_down (0: not at all)
  out       \* result of the last call

heapVars == <<heap, next_seq, sift, out>>

-----------------------------------------------------------------------------
\* Faulty variant: ties are broken by the position in the heap.
EntryOutranksByPriority(x, y) == x.effective_priority > y.effective_priority

\* Faulty variant: sequence numbers are compared without wrapping.
EntryOutranksNoWrap(x, y) ==
  IF x.effective_priority # y.effective_priority
    THEN x.effective_priority > y.effective_priority
    ELSE x.seq < y.seq

\* HeapEntry::outranks: the wrapping distance, read as an i32, is positive.
EntryOutranks(x, y) ==
  IF x.effective_priority # y.effective_priority
    THEN x.effective_priority > y.effective_priority
    ELSE (y.seq - x.seq) % SeqNums \in 1 .. (SeqHalf - 1)

Swap(h, a, b) == [h EXCEPT ![a] = h[b], ![b] = h[a]]

\* The last entry takes the place idx and the array gets shorter by one.
FillHole(h, idx) == SubSeq([h EXCEPT ![idx] = h[Len(h)]], 1, Len(h) - 1)

-----------------------------------------------------------------------------
Idle == [loop |-> "none", idx |-> 0, from |-> 0]

HeapInit == heap = <<>> /\ next_seq = 0 /\ sift = Idle /\ out = <<"none">>

\* The proviso of the ordering: fewer than 2^31 inserts since any live entry.
SeqProviso == \A i \in DOMAIN heap : (next_seq - heap[i].seq) % SeqNums < SeqHalf

Holds(t) == \E i \in DOMAIN heap : heap[i].task_id = t

\* The previous call has returned, and no panic has halted the kernel.
Callable == sift = Idle /\ out # <<"panicked">>

Insert(t) ==
  /\ Callable
  /\ ~Holds(t) /\ SeqProviso
  /\ LET entry == [task_id |-> t, effective_priority |-> Rank[t], seq |-> next_seq]
     IN  IF Len(heap) < N
           THEN /\ heap' = Append(heap, entry)
                /\ next_seq' = (next_seq + 1) % SeqNums
                /\ sift' = [loop |-> "up", idx |-> Len(heap) + 1, from |-> 0]
                /\ out' = <<"none">>
           ELSE out' = <<"panicked">> /\ UNCHANGED <<heap, next_seq, sift>>

PopMax ==
  /\ Callable
  /\ IF heap = <<>>
       THEN out' = <<"none">> /\ UNCHANGED <<heap, sift>>
       ELSE /\ heap' = FillHole(heap, 1)
            /\ sift' = IF Len(heap) > 1 THEN [loop |-> "down", idx |-> 1, from |-> 0] ELSE Idle
            /\ out' = <<"popped", heap[1].task_id>>
  /\ UNCHANGED next_seq

RemoveTask(t) ==
  /\ Callable
  /\ IF Holds(t)
       THEN LET idx == CHOOSE i \in DOMAIN heap : heap[i].task_id = t
            IN  /\ heap' = FillHole(heap, idx)
                /\ sift' = IF idx < Len(heap) THEN [loop |-> "down", idx |-> idx, from |-> idx] ELSE Idle
       ELSE UNCHANGED <<heap, sift>>
  /\ out' = <<"found", Holds(t)>>
  /\ UNCHANGED next_seq

\* idx \div 2 is (idx - 1) / 2 for 1-based indices.
SiftUp ==
  /\ sift.loop = "up"
  /\ LET idx == sift.idx
         parent == idx \div 2
     IN  IF idx > 1 /\ EntryOutranks(heap[idx], heap[parent])
           THEN heap' = Swap(heap, idx, parent) /\ sift' = [sift EXCEPT !.idx = parent]
           ELSE heap' = heap /\ sift' = Idle
  /\ UNCHANGED <<next_seq, out>>

\* The child that sift_down moves up, or idx itself.
Largest(h, idx) ==
  LET left  == 2 * idx
      right == 2 * idx + 1
      upper == IF left <= Len(h) /\ EntryOutranks(h[left], h[idx]) THEN left ELSE idx
  IN  IF right <= Len(h) /\ EntryOutranks(h[right], h[upper]) THEN right ELSE upper

SiftDown ==
  /\ sift.loop = "down"
  /\ LET largest == Largest(heap, sift.idx)
     IN  IF largest # sift.idx
           THEN heap' = Swap(heap, sift.idx, largest) /\ sift' = [sift EXCEPT !.idx = largest]
           ELSE /\ heap' = heap
                /\ sift' = IF sift.from = 0 THEN Idle ELSE [loop |-> "up", idx |-> sift.from, from |-> 0]
  /\ UNCHANGED <<next_seq, out>>

\* A panic halts the kernel.
Halted == out = <<"panicked">> /\ UNCHANGED heapVars

HeapNext == PopMax \/ SiftUp \/ SiftDown \/ Halted \/ \E t \in TaskId : Insert(t) \/ RemoveTask(t)

HeapSpec == HeapInit /\ [][HeapNext]_heapVars

-----------------------------------------------------------------------------
Entries == {heap[i] : i \in DOMAIN heap}

\* How many inserts ago an entry was inserted.
Age(e) == (next_seq - e.seq) % SeqNums

Older(e) == {x \in Entries : Age(x) > Age(e)}

\* The queued tasks in insertion order.
QueueOrder ==
  [p \in 1 .. Len(heap) |-> (CHOOSE e \in Entries : Cardinality(Older(e)) = p - 1).task_id]

Abstract == INSTANCE ReadyQueue WITH rq <- QueueOrder

\* The heap implements the ready queue the scheduler relies on: pop_max yields
\* the oldest entry of the highest effective priority and insert and remove
\* disturb the order of nothing else, also when next_seq wraps around.
ImplementsReadyQueue == Abstract!Spec

\* peek_max and peek_max_priority read the root, and the scheduler decides on
\* it whether to switch: between calls it is the task pop_max would yield.
PeekIsBest ==
  sift = Idle /\ heap # <<>> => heap[1].task_id = QueueOrder[Abstract!BestIndex(Rank, QueueOrder)]

=============================================================================
