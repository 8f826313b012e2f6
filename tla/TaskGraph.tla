----------------------------- MODULE TaskGraph ------------------------------
(***************************************************************************)
(* The input of the two searches of modules MipSearch and CycleSearch: an  *)
(* arbitrary contention graph over the occupied slots of the registry.     *)
(***************************************************************************)
EXTENDS Integers, Sequences, FiniteSetsExt, TaskSets

CONSTANT NumTasks \* occupied registry slots

Task == 0 .. (NumTasks - 1)

VARIABLE edges \* the contention graph, never changed

NoLoops == {e \in Task \X Task : e[1] # e[2]}

=============================================================================
