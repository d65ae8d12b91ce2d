-------------------------------- MODULE MCAuth --------------------------------
(* Instances of Auth for TLC.                                              *)
EXTENDS Auth

(* Subspaces u and v, each with the paths a and b.                         *)
MCPoints == {"ua", "ub", "va", "vb"}
MCOwnArea == [user \in {"u", "v"} |-> IF user = "u" THEN {"ua", "ub"} ELSE {"va", "vb"}]
MCPathA == {"ua", "va"}
MCAreas == {MCPoints, MCPathA, MCOwnArea["u"], MCOwnArea["v"], {"ua"}}
MCAnySubspace == {MCPoints, MCPathA}

(* From another node: capabilities for u in a namespace that exists there, *)
(* of areas that do not include each other, one that is mislabelled, and   *)
(* one from another owner that lacks its subspace capability.              *)
MCPack(kind, mode, owner, areas) ==
    [kind |-> kind, subspace |-> kind = "Read" /\ owner = "v",
     cap |-> [mode |-> mode, namespace |-> "far", areas |-> << MCPoints >> \o areas,
              users |-> << owner >> \o [i \in DOMAIN areas |-> "u"]]]
MCReceived ==
    { MCPack("Read", "Read", "v", << MCPathA >>), MCPack("Read", "Read", "v", << MCOwnArea["u"] >>),
      MCPack("Read", "Write", "v", << MCPathA >>), MCPack("Read", "Read", "u", << MCPathA >>) }

=============================================================================
