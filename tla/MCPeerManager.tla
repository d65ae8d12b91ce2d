---------------------------- MODULE MCPeerManager ----------------------------
(* One intent of each node, or more of one.                                *)
EXTENDS PeerManager

MCOneEach == [n \in Nodes |-> { << "own", n >> }]

MCTwoOfFirst == [n \in Nodes |-> IF n = 1 THEN { << "own", 1 >>, << "own", 3 >> }
                                            ELSE { << "own", 2 >> }]

MCTwoOfSecond == [n \in Nodes |-> IF n = 2 THEN { << "own", 2 >>, << "own", 3 >> }
                                             ELSE { << "own", 1 >> }]

=============================================================================
