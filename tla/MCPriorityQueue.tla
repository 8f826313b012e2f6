-------------------------- MODULE MCPriorityQueue --------------------------
(***************************************************************************)
(* Five tasks of two ranks over a queue of four places, so that ties,      *)
(* sift paths of length two, the capacity panic and the wraparound of the  *)
(* sequence number all occur.                                              *)
(***************************************************************************)
EXTENDS PriorityQueue, TLC

MCRank == (0 :> 1) @@ (1 :> 1) @@ (2 :> 1) @@ (3 :> 2) @@ (4 :> 2)

=============================================================================
