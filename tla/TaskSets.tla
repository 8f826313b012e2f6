------------------------------ MODULE TaskSets ------------------------------
(***************************************************************************)
(* Sets of tasks.  A task is its registry slot, a natural number.          *)
(***************************************************************************)
EXTENDS Integers, FiniteSets, Functions

CONSTANT MaxTasks \* MAX_TASKS, the slots of the registry and of the ready queue

\* A set of tasks in slot order, the order in which the registry is scanned.
SlotOrder(W) ==
  CHOOSE q \in [1 .. Cardinality(W) -> W] :
    /\ Range(q) = W
    /\ \A i, j \in 1 .. Cardinality(W) : i < j => q[i] < q[j]

\* No edge of E leaves S.
Closed(E, S) == \A e \in E : e[1] \in S => e[2] \in S

\* What a search of the graph (V, E) from t visits, without a search: the
\* least closed set that holds t.
ReachFrom(V, E, t) == {u \in V : \A S \in SUBSET V : t \in S /\ Closed(E, S) => u \in S}

=============================================================================
