------------------------------- MODULE MCDemo -------------------------------
(***************************************************************************)
(* The demo with the constants of demo/pipeline.rs and the task set of     *)
(* generated/pipeline_tasks.rs.                                            *)
(***************************************************************************)
EXTENDS Pipeline, TLC

MCPriority == (0 :> 3) @@ (1 :> 2) @@ (2 :> 1) @@ (3 :> 0)
MCNoCaps == [t \in 0 .. 3 |-> {}]
MCSends == (0 :> {0}) @@ (1 :> {1}) @@ [t \in 2 .. 3 |-> {}]
MCReceives == (1 :> {0}) @@ (2 :> {1}) @@ [t \in {0, 3} |-> {}]
MCSleepArgs == 0 .. 2048

=============================================================================
