----------------------------- MODULE MipSearch -----------------------------
(***************************************************************************)
(* The breadth-first searches that compute MaxInheritedPriority, one step  *)
(* per iteration of the inner loop, on an arbitrary contention graph:      *)
(* compute_mip_values (scheduler/mip.rs) and its build-time twin           *)
(* compute_mip (build/ccg_gen.rs), which fills MAX_INHERITED_PRIORITIES.   *)
(***************************************************************************)
EXTENDS TaskGraph

CONSTANT Priorities \* the priority tables the search is run on

VARIABLES
  priority, \* TaskDescriptor::priority, never changed
  src,      \* source of the current search; NumTasks when all are done
  queue,    \* queue[..tail]
  head,     \* number of entries already taken from the queue
  visited,
  mip       \* result

mipVars == <<src, queue, head, visited, mip>>

Successors(t) == {h \in Task : <<t, h>> \in edges}

MipInit ==
  /\ edges \in SUBSET NoLoops
  /\ priority \in Priorities
  /\ src = 0
  /\ queue = <<0>>
  /\ head = 0
  /\ visited = {0}
  /\ mip = [t \in Task |-> IF t = 0 THEN priority[0] ELSE 0]

\* Faulty variant: visited is not consulted.
VisitAgain ==
  /\ head < Len(queue)
  /\ LET cur == queue[head + 1]
     IN  /\ mip' = [mip EXCEPT ![src] = Max({@, priority[cur]})]
         /\ queue' = queue \o SlotOrder(Successors(cur))
  /\ head' = head + 1
  /\ UNCHANGED <<edges, priority, src, visited>>

\* Faulty variant: only direct waiters count.
VisitDirect ==
  /\ head < Len(queue)
  /\ LET cur == queue[head + 1]
         new == IF cur = src THEN Successors(cur) \ visited ELSE {}
     IN  /\ mip' = [mip EXCEPT ![src] = Max({@, priority[cur]})]
         /\ visited' = visited \cup new
         /\ queue' = queue \o SlotOrder(new)
  /\ head' = head + 1
  /\ UNCHANGED <<edges, priority, src>>

Visit ==
  /\ head < Len(queue)
  /\ LET cur == queue[head + 1]
         new == Successors(cur) \ visited
     IN  /\ mip' = [mip EXCEPT ![src] = Max({@, priority[cur]})]
         /\ visited' = visited \cup new
         /\ queue' = queue \o SlotOrder(new)
  /\ head' = head + 1
  /\ UNCHANGED <<edges, priority, src>>

NextSource ==
  /\ head = Len(queue) /\ src + 1 < NumTasks
  /\ src' = src + 1
  /\ queue' = <<src'>>
  /\ head' = 0
  /\ visited' = {src'}
  /\ mip' = [mip EXCEPT ![src'] = priority[src']]
  /\ UNCHANGED <<edges, priority>>

Finish ==
  /\ head = Len(queue) /\ src = NumTasks - 1
  /\ src' = NumTasks
  /\ UNCHANGED <<edges, priority, queue, head, visited, mip>>

MipStep == Visit \/ NextSource \/ Finish

=============================================================================
