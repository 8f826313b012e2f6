----------------------------- MODULE ReadyQueue -----------------------------
(***************************************************************************)
(* The abstract ready queue as a state machine: insert, pop_max and remove *)
(* on the queue of module RankedFifo.  out is the result of the last call. *)
(***************************************************************************)
EXTENDS RankedFifo

CONSTANTS
  TaskId, \* the tasks that can be queued
  N,      \* capacity
  Rank    \* effective priority of each task

VARIABLES rq, out

NoResult == <<"none">>
Popped(t) == <<"popped", t>>
Found(b) == <<"found", b>>
Panicked == <<"panicked">>

Queued(t) == \E i \in DOMAIN rq : rq[i] = t

Init == rq = <<>> /\ out = NoResult

\* A task that is queued is not inserted again (the scheduler queues a task
\* only when it becomes Ready).
Insert(t) ==
  /\ out # Panicked
  /\ ~Queued(t)
  /\ IF Len(rq) < N
       THEN rq' = Append(rq, t) /\ out' = NoResult
       ELSE rq' = rq /\ out' = Panicked

PopMax ==
  /\ out # Panicked
  /\ IF rq = <<>>
       THEN rq' = rq /\ out' = NoResult
       ELSE LET b == BestIndex(Rank, rq)
            IN  rq' = Without(rq, b) /\ out' = Popped(rq[b])

RemoveTask(t) ==
  /\ out # Panicked
  /\ IF Queued(t)
       THEN \E i \in DOMAIN rq : rq[i] = t /\ rq' = Without(rq, i)
       ELSE rq' = rq
  /\ out' = Found(Queued(t))

Next == PopMax \/ \E t \in TaskId : Insert(t) \/ RemoveTask(t)

Spec == Init /\ [][Next]_<<rq, out>>

=============================================================================
