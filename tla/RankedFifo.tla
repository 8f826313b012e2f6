----------------------------- MODULE RankedFifo -----------------------------
(***************************************************************************)
(* What the ready queue promises: it is the sequence of the queued tasks   *)
(* in insertion order, and the entry that leaves is the oldest of those    *)
(* with the highest rank.  Module PriorityQueue shows that the binary heap *)
(* of scheduler/queue.rs keeps that promise.                               *)
(***************************************************************************)
EXTENDS Integers, Sequences

Outranks(rank, q, i, j) ==
  rank[q[i]] > rank[q[j]] \/ (rank[q[i]] = rank[q[j]] /\ i < j)

BestIndex(rank, q) ==
  CHOOSE i \in DOMAIN q : \A j \in DOMAIN q \ {i} : Outranks(rank, q, i, j)

\* The queue once entry i has left; the others keep their order.
Without(q, i) == SubSeq(q, 1, i - 1) \o SubSeq(q, i + 1, Len(q))

=============================================================================
