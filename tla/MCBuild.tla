------------------------------ MODULE MCBuild ------------------------------
(***************************************************************************)
(* All graphs on four tasks.  The graph ranges over all labellings, so the *)
(* priority tables need not: one with distinct values, one with a tie.     *)
(***************************************************************************)
EXTENDS Build, TLC

MCPriorities ==
  {[t \in 0 .. 3 |-> t + 1], (0 :> 2) @@ (1 :> 2) @@ (2 :> 0) @@ (3 :> 1)}

=============================================================================
