----------------------------- MODULE MCReconciler -----------------------------
(* Instances of Reconciler for TLC.                                        *)
EXTENDS Reconciler

E(s, p, t) == [subspace |-> s, path |-> p, timestamp |-> t]

(* Path 1 is a prefix of the paths 2 and 3.                                *)
PrefixOf == {<< 1, 1 >>, << 2, 2 >>, << 3, 3 >>, << 1, 2 >>, << 1, 3 >>}

MCPrunes ==
    { ef \in Entry \X Entry :
        /\ ef[1].subspace = ef[2].subspace
        /\ << ef[1].path, ef[2].path >> \in PrefixOf
        /\ ef[1].timestamp > ef[2].timestamp }

(* In subspace 1 a child, a newer version of it, a parent that prunes the  *)
(* first but not the second, another child; and one entry in subspace 2.   *)
MCEntries ==
    { E(1, 2, 1), E(1, 2, 3), E(1, 1, 2), E(1, 3, 1), E(2, 1, 1) }

(* Whatever an honest store may hold of them.                              *)
MCHoldings == { S \in SUBSET Entry : Frontier(S) = S }

R(s, p) == [subspaces |-> s, paths |-> p, times |-> << 0, 9 >>]

(* One target for everything; two that overlap, the second without path 1, *)
(* so that what prunes its entries can lie outside of it.                  *)
MCOneArea  == [t \in {"t1"} |-> R(<< 0, 9 >>, << 0, 9 >>)]
MCTwoAreas == [t \in {"t1", "t2"} |->
                  IF t = "t1" THEN R(<< 1, 2 >>, << 0, 9 >>) ELSE R(<< 0, 9 >>, << 2, 4 >>)]

(* Two children, a parent that prunes them, and an unrelated entry.        *)
MCFewEntries  == { E(1, 2, 1), E(1, 3, 1), E(1, 1, 2), E(2, 2, 1) }
MCFewHoldings == { { E(1, 2, 1) }, { E(1, 3, 1), E(2, 2, 1) }, { E(1, 1, 2), E(2, 2, 1) } }

(* Two stores that differ in two places, for the run on full channels.     *)
MCOneEach == { { E(1, 1, 2) }, { E(1, 2, 1), E(2, 1, 1) } }

MCWrites      == { E(1, 1, 2) }
MCEager       == { E(1, 2, 1), E(1, 1, 2) }

=============================================================================
