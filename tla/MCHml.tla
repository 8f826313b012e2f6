------------------------------- MODULE MCHml -------------------------------
(***************************************************************************)
(* The H/M/L task set of generated/demo_tasks.rs with the idle task boot   *)
(* adds: slot 0 is L (priority 1, holds UART0), slot 1 is M (priority 2),  *)
(* slot 2 is H (priority 3, requires UART0), slot 3 is idle.               *)
(***************************************************************************)
EXTENDS Kernel, TLC

MCPriority == (0 :> 1) @@ (1 :> 2) @@ (2 :> 3) @@ (3 :> 0)
MCExclusive == (0 :> {"UART0"}) @@ [t \in 1 .. 3 |-> {}]
MCRequired == (2 :> {"UART0"}) @@ [t \in {0, 1, 3} |-> {}]
MCNoEndpoints == [t \in 0 .. 3 |-> {}]

=============================================================================
