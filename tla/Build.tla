------------------------------- MODULE Build -------------------------------
(***************************************************************************)
(* The part of the build script (build.rs) that turns one task set into    *)
(* the priority table the kernel is compiled with: it searches the         *)
(* contention graph for cycles (a cycle is only a warning), computes the   *)
(* inherited priorities of the same tasks, and writes them zero-padded to  *)
(* MAX_TASKS entries.  A failed build step panics and emits nothing; the   *)
(* sets are processed one after the other and share no state.  detect_cycle*)
(* of the kernel, which stops at the first back edge, is the same search   *)
(* with nothing after it.                                                  *)
(***************************************************************************)
EXTENDS CycleSearch, MipSearch

ASSUME BuildAssumption ==
  /\ NumTasks \in Nat \ {0} /\ MaxTasks \in Nat /\ NumTasks <= MaxTasks
  /\ Priorities \subseteq [0 .. (NumTasks - 1) -> 0 .. 255]

VARIABLES
  pc,      \* "cycles", "mip" or "done"
  rendered \* the emitted constant array

graph == <<edges, priority>>
vars == <<graph, cycleVars, mipVars, pc, rendered>>

Init ==
  /\ CycleInit
  /\ MipInit
  /\ pc = "cycles"
  /\ rendered = <<>>

SearchCycles ==
  /\ pc = "cycles"
  /\ CycleStep
  /\ UNCHANGED <<priority, mipVars, pc, rendered>>

\* Each back edge becomes a warning; the priorities are computed all the same.
WarnOfCycles ==
  /\ pc = "cycles" /\ ~Searching
  /\ pc' = IF stopFirst THEN "done" ELSE "mip"
  /\ UNCHANGED <<graph, cycleVars, mipVars, rendered>>

ComputeMip ==
  /\ pc = "mip"
  /\ MipStep
  /\ UNCHANGED <<cycleVars, pc, rendered>>

\* The array is as long as the registry, not as the task set.
RenderCcgConstants ==
  /\ pc = "mip" /\ src = NumTasks
  /\ rendered' = [i \in 1 .. MaxTasks |-> IF i <= NumTasks THEN mip[i - 1] ELSE 0]
  /\ pc' = "done"
  /\ UNCHANGED <<graph, cycleVars, mipVars>>

Step == SearchCycles \/ WarnOfCycles \/ ComputeMip \/ RenderCcgConstants

Done == pc = "done" /\ UNCHANGED vars

Next == Step \/ Done

Spec == Init /\ [][Next]_vars /\ WF_vars(Step)

-----------------------------------------------------------------------------
(* Properties *)

\* "each slot is enqueued at most once", and no task is on the path twice: the
\* searches never need more entries than there are tasks, so the arrays of
\* MAX_TASKS entries in which the kernel's versions keep them suffice.
ArraysSuffice == Len(queue) <= NumTasks /\ Len(dfs) <= NumTasks

\* No false alarm: an edge reported as closing a cycle lies on one.
ReportsLieOnCycles == \A e \in found : e[1] \in ReachFrom(Task, edges, e[2])

Cyclic(E) == \E e \in E : e[1] \in ReachFrom(Task, E, e[2])

\* No cycle is missed: a search ends with a report iff there is a cycle, and
\* find_cycle_back_edges reports an edge of every one of them.
FindsEveryCycle ==
  ~Searching =>
    /\ Cyclic(edges) <=> found # {}
    /\ ~stopFirst => ~Cyclic(edges \ found)

\* The build always emits a table, for a graph with cycles too, and its entry
\* for a slot is the maximum base priority over the tasks reachable from that
\* slot, the slot included; slots past the set get 0.
TableIsRight ==
  pc = "done" /\ ~stopFirst =>
    /\ DOMAIN rendered = 1 .. MaxTasks
    /\ \A i \in 1 .. MaxTasks :
         LET reach == ReachFrom(Task, edges, i - 1)
         IN  IF i > NumTasks THEN rendered[i] = 0
             ELSE /\ \A u \in reach : priority[u] <= rendered[i]
                  /\ \E u \in reach : priority[u] = rendered[i]

\* The searches end on every graph: the visited sets keep cycles from looping.
Terminates == <>(pc = "done")

=============================================================================
