---------------------------- MODULE MCChainState ----------------------------
(* Two branches from genesis, the first of which may split again; a run    *)
(* takes the blocks it needs.                                              *)
EXTENDS ChainState, TLC

CONSTANTS g, a1, a2, a3, b1, b2, b3

MCTree == a1 :> g @@ a2 :> a1 @@ a3 :> a1 @@ b1 :> g @@ b2 :> b1 @@ b3 :> b2
MCParent == [b \in Blocks |-> MCTree[b]]
MCChainWork == [b \in Tree |-> Height[b] + 1]
MCAddresses == g :> 0 @@ a1 :> 1 @@ a2 :> 2 @@ a3 :> 3 @@ b1 :> 4 @@ b2 :> 5 @@ b3 :> 6
MCAddress == [b \in Tree |-> MCAddresses[b]]

Threads_Symmetry == Permutations(Threads)
=============================================================================
