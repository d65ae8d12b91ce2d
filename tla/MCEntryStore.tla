----------------------------- MODULE MCEntryStore -----------------------------
(* Instances of EntryStore for TLC.                                        *)
EXTENDS EntryStore

E(s, p, t, d, em) == [subspace |-> s, path |-> p, timestamp |-> t, digest |-> d, empty |-> em]

(* Paths "a" and its extension "ab"; every path is its own prefix.         *)
MCPaths    == {"a", "ab"}
MCPrefixOf == {<< "a", "a" >>, << "ab", "ab" >>, << "a", "ab" >>}

(* Entries of which none can find two others to prune: two versions of one *)
(* path with equal timestamps (the digest decides), and a parent path      *)
(* written once, either before or after its child.                         *)
MCWritesOnePrune ==
    { E(1, "a", 1, 0, FALSE), E(1, "a", 1, 1, TRUE),
      E(2, "ab", 0, 0, FALSE), E(2, "a", 1, 0, FALSE) }

(* Entries where one write prunes a parent and its child at once.          *)
MCWritesPrefix ==
    { E(1, "a", 0, 0, FALSE), E(1, "ab", 1, 0, FALSE), E(1, "a", 2, 0, FALSE),
      E(2, "ab", 0, 0, TRUE) }

(* One subscriber follows everything; the other is the DataSender of       *)
(* session "s1" with its parameters ingest_only and ignore_remote.         *)
MCParams ==
    [s \in {"all", "sender"} |->
        IF s = "all"
        THEN [area |-> Writes, ignore_remote |-> NoRemote,
              ingest_only |-> FALSE, ignore_empty |-> TRUE]
        ELSE [area |-> { e \in Writes : e.path = "a" }, ignore_remote |-> "s1",
              ingest_only |-> TRUE, ignore_empty |-> FALSE]]

(* No subscribers.                                                         *)
MCNoParams == << >>

=============================================================================
