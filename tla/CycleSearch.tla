---------------------------- MODULE CycleSearch ----------------------------
(***************************************************************************)
(* The depth-first searches for cycles of the contention graph, one step   *)
(* per successor examined: detect_cycle (scheduler/ccg.rs, explicit stack, *)
(* stops at the first back edge) and find_cycle_back_edges                 *)
(* (build/ccg_gen.rs, recursive, collects them all).  They examine the     *)
(* same successors in the same order up to the first back edge.            *)
(***************************************************************************)
EXTENDS TaskGraph

VARIABLES
  stopFirst, \* whether this is detect_cycle, never changed
  start,     \* the outer loop's root; NumTasks when all are done
  explored,  \* visited
  recStack,  \* rec_stack / on_stack
  dfs,       \* the stack: [node, next], next the first successor to examine
  found      \* the back edges found

cycleVars == <<stopFirst, start, explored, recStack, dfs, found>>

CycleInit ==
  /\ edges \in SUBSET NoLoops
  /\ stopFirst \in BOOLEAN
  /\ start = 0
  /\ explored = {}
  /\ recStack = {}
  /\ dfs = <<>>
  /\ found = {}

Searching == start < NumTasks /\ ~(stopFirst /\ found # {})

Push(stack, t) ==
  /\ dfs' = Append(stack, [node |-> t, next |-> 0])
  /\ explored' = explored \cup {t}
  /\ recStack' = recStack \cup {t}

SkipStart ==
  /\ Searching /\ dfs = <<>> /\ start \in explored
  /\ start' = start + 1
  /\ UNCHANGED <<edges, stopFirst, explored, recStack, dfs, found>>

BeginStart ==
  /\ Searching /\ dfs = <<>> /\ start \notin explored
  /\ Push(<<>>, start)
  /\ UNCHANGED <<edges, stopFirst, start, found>>

Top == dfs[Len(dfs)]
Below == SubSeq(dfs, 1, Len(dfs) - 1)
Remaining == {h \in Task : <<Top.node, h>> \in edges /\ h >= Top.next}

\* Faulty variant: the position among the successors is not kept.
ExamineForgets ==
  /\ Searching /\ dfs # <<>> /\ Remaining # {}
  /\ LET succ == Min(Remaining)
     IN  \/ /\ succ \in recStack
            /\ found' = found \cup {<<Top.node, succ>>}
            /\ UNCHANGED <<dfs, explored, recStack>>
         \/ /\ succ \notin explored
            /\ Push(dfs, succ)
            /\ UNCHANGED found
         \/ /\ succ \notin recStack /\ succ \in explored
            /\ UNCHANGED <<dfs, explored, recStack, found>>
  /\ UNCHANGED <<edges, stopFirst, start>>

\* The next successor is on the path, or new, or known already.
Examine ==
  /\ Searching /\ dfs # <<>> /\ Remaining # {}
  /\ LET succ == Min(Remaining)
         advanced == Append(Below, [Top EXCEPT !.next = succ + 1])
     IN  \/ /\ succ \in recStack
            /\ found' = found \cup {<<Top.node, succ>>}
            /\ dfs' = advanced
            /\ UNCHANGED <<explored, recStack>>
         \/ /\ succ \notin recStack /\ succ \notin explored
            /\ Push(advanced, succ)
            /\ UNCHANGED found
         \/ /\ succ \notin recStack /\ succ \in explored
            /\ dfs' = advanced
            /\ UNCHANGED <<explored, recStack, found>>
  /\ UNCHANGED <<edges, stopFirst, start>>

\* Faulty variant: a task stays on the path when the search leaves it.
BacktrackKeepsPath ==
  /\ Searching /\ dfs # <<>> /\ Remaining = {}
  /\ dfs' = Below
  /\ start' = IF Below = <<>> THEN start + 1 ELSE start
  /\ UNCHANGED <<edges, stopFirst, explored, recStack, found>>

\* Faulty variant: the search ends with the first root.
BacktrackEnds ==
  /\ Searching /\ dfs # <<>> /\ Remaining = {}
  /\ recStack' = recStack \ {Top.node}
  /\ dfs' = Below
  /\ start' = IF Below = <<>> THEN NumTasks ELSE start
  /\ UNCHANGED <<edges, stopFirst, explored, found>>

Backtrack ==
  /\ Searching /\ dfs # <<>> /\ Remaining = {}
  /\ recStack' = recStack \ {Top.node}
  /\ dfs' = Below
  /\ start' = IF Below = <<>> THEN start + 1 ELSE start
  /\ UNCHANGED <<edges, stopFirst, explored, found>>

CycleStep == SkipStart \/ BeginStart \/ Examine \/ Backtrack

=============================================================================
