---------------------------- MODULE VirtualCpus ----------------------------
(***************************************************************************)
(* What the trap path promises: every task has a processor of its own.     *)
(* One runs at a time; its registers change by its own instructions and by *)
(* the result of its own system calls, and nothing else changes them.      *)
(***************************************************************************)
EXTENDS Integers

CONSTANTS
  Task,     \* registered tasks
  Contents, \* the register files each task's instructions may produce
  Places,   \* 2^30, the number of instruction addresses, one per ecall
  Result,   \* what a system call may return
  Entries   \* how the processors may start

VARIABLES
  cpu,     \* gpr, addr and mode of each task's processor
  running  \* the task whose processor runs

vars == <<cpu, running>>

Init == cpu \in Entries /\ running \in Task

\* The running task executes instructions.
Compute ==
  /\ \E g \in Contents[running], p \in 0 .. (Places - 1) :
       cpu' = [cpu EXCEPT ![running] = [gpr |-> g, addr |-> p, mode |-> cpu[running].mode]]
  /\ UNCHANGED running

\* A system call returns a result to its caller and continues after the ecall.
Return ==
  /\ \E v \in Result :
       cpu' = [cpu EXCEPT ![running] = [gpr |-> [cpu[running].gpr EXCEPT !["a0"] = v],
                                        addr |-> (cpu[running].addr + 1) % Places,
                                        mode |-> cpu[running].mode]]
  /\ UNCHANGED running

\* The kernel runs another task.
Dispatch == running' \in Task /\ UNCHANGED cpu

Next == Compute \/ Return \/ Dispatch

Spec == Init /\ [][Next]_vars

=============================================================================
