----------------------------- MODULE MCPipeline -----------------------------
(***************************************************************************)
(* The pipeline task set of generated/pipeline_tasks.rs with the idle task *)
(* boot adds: slot 0 is the sensor reader (priority 3, sends on channel    *)
(* 0), slot 1 the filter (priority 2, receives on 0 and sends on 1), slot  *)
(* 2 the logger (priority 1, receives on 1), slot 3 is idle.               *)
(***************************************************************************)
EXTENDS Kernel, TLC

MCPriority == (0 :> 3) @@ (1 :> 2) @@ (2 :> 1) @@ (3 :> 0)
MCNoCaps == [t \in 0 .. 3 |-> {}]
MCSends == (0 :> {0}) @@ (1 :> {1}) @@ [t \in 2 .. 3 |-> {}]
MCReceives == (1 :> {0}) @@ (2 :> {1}) @@ [t \in {0, 3} |-> {}]

=============================================================================
