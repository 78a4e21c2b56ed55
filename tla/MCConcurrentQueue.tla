-------------------------- MODULE MCConcurrentQueue --------------------------
(* ConcurrentQueue with interchangeable threads, addresses and values.       *)
EXTENDS ConcurrentQueue, TLC

Symmetry == Permutations(Threads) \union Permutations(Nodes)
            \union Permutations(Values)
=============================================================================
