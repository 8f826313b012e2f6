-------------------------------- MODULE Ccg --------------------------------
(***************************************************************************)
(* The Capability Contention Graph and the priorities derived from it.     *)
(*                                                                         *)
(* A task is its registry slot.  The u32 capability masks are the sets of  *)
(* the peripherals whose bit is set, so "mask & mask # 0" is an            *)
(* intersection.  The graph is fixed at build time: every definition of    *)
(* this module is a constant.                                              *)
(***************************************************************************)
EXTENDS Integers, FiniteSetsExt, TaskSets

CONSTANTS
  NumTasks,   \* task_count(): slots 0 .. NumTasks - 1 are occupied
  Peripheral, \* peripheral identifiers
  Priority,   \* TaskDescriptor::priority, a u8
  Exclusive,  \* TaskDescriptor::exclusive_cap_mask
  Required    \* TaskDescriptor::required_cap_mask

Task == 0 .. (NumTasks - 1)

PriorityRange == 0 .. 255

ASSUME TaskTableAssumption ==
  /\ NumTasks \in Nat \ {0}
  /\ Priority \in [Task -> PriorityRange]
  /\ Exclusive \in [Task -> SUBSET Peripheral]
  /\ Required \in [Task -> SUBSET Peripheral]

\* l holds a peripheral that h requires; a task never waits for itself.
Edge(l, h) == l # h /\ Exclusive[l] \cap Required[h] # {}

Edges == {e \in Task \X Task : Edge(e[1], e[2])}

\* The tasks that can, through others, wait for what t holds; t included.
Reach == [t \in Task |-> ReachFrom(Task, Edges, t)]

\* MAX_INHERITED_PRIORITIES, as the build script computes it.
Mip == [t \in Task |-> Max({Priority[u] : u \in Reach[t]})]

\* Faulty variant: the inherited priority is never consulted.
EffWithoutMip == Priority

\* TaskDescriptor::effective_priority, constant once the kernel has booted.
Eff == [t \in Task |-> IF Mip[t] > Priority[t] THEN Mip[t] ELSE Priority[t]]

=============================================================================
