-------------------------- MODULE MCPersistentStore --------------------------
(* Instances of PersistentStore for TLC.                                   *)
EXTENDS PersistentStore

E(s, p, t, d) == [subspace |-> s, path |-> p, timestamp |-> t, digest |-> d]

MCPaths    == {"a", "ab"}
MCPrefixOf == {<< "a", "a" >>, << "ab", "ab" >>, << "a", "ab" >>}

(* A child, two versions of it at one timestamp, a parent that prunes all, *)
(* an older parent, and an entry of another subspace.                      *)
MCEntries ==
    { E(1, "ab", 1, 0), E(1, "ab", 1, 1), E(1, "a", 2, 0), E(1, "a", 0, 0), E(2, "ab", 0, 0) }

=============================================================================
