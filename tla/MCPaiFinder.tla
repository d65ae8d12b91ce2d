----------------------------- MODULE MCPaiFinder -----------------------------
(* Small sets of read authorisations for the two peers.                    *)
EXTENDS PaiFinder

Auth(who, subspace, path) ==
    [receiver |-> who, namespace |-> "n", subspace |-> subspace, path |-> path]

(* Both read one subspace; Alfie a path of all subspaces, Betty all.       *)
MCMixed ==
    [p \in Peers |->
        { Auth(p, "x", << >>),
          IF p = "alfie" THEN Auth(p, "any", << "k" >>) ELSE Auth(p, "any", << >>) }]

(* Both read the same areas, in two namespaces.                            *)
MCEqual ==
    [p \in Peers |->
        { Auth(p, "any", << "k" >>), [Auth(p, "x", << >>) EXCEPT !.namespace = "m"] }]

(* Alfie reads everything, Betty a path.                                   *)
MCNested ==
    [p \in Peers |->
        IF p = "alfie" THEN { Auth("a", "any", << >>) }
        ELSE { Auth("b", "any", << "k" >>) }]

(* Alfie reads everything and, with a capability of its own, one path;     *)
(* Betty another path.                                                     *)
MCDisjoint ==
    [p \in Peers |->
        IF p = "alfie" THEN { Auth("a", "any", << >>), Auth("a", "any", << "k" >>) }
        ELSE { Auth("b", "any", << "l" >>) }]

(* Alfie reads one subspace, Betty a path in all of them.                  *)
MCSubspace ==
    [p \in Peers |->
        IF p = "alfie" THEN { Auth("a", "x", << >>) }
        ELSE { Auth("b", "any", << "k" >>) }]

(* The same, and Betty has two paths.                                      *)
MCTwoPaths ==
    [p \in Peers |->
        IF p = "alfie" THEN { Auth("a", "x", << >>) }
        ELSE { Auth("b", "any", << "k" >>), Auth("b", "any", << "l" >>) }]

=============================================================================
