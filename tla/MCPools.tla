------------------------------- MODULE MCPools -------------------------------
(* Pools with two workers and two tasks that each submit one task and wait   *)
(* for it, enough for a rescue by stealing and for all workers to block, and *)
(* a third that does not wait for the one it submits.                        *)
EXTENDS Pools, TLC

CONSTANTS k1, k2, k3, k4, k5, k6

MCWorkers == 0..1
MCTasks == {k1, k2, k3, k4, k5, k6}
MCParent == (k1 :> NoTask) @@ (k2 :> k1) @@ (k3 :> NoTask) @@ (k4 :> k3)
            @@ (k5 :> NoTask) @@ (k6 :> k5)
=============================================================================
