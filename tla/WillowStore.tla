----------------------------- MODULE WillowStore -----------------------------
(***************************************************************************)
(* What an entry store is to do (store/traits.rs, EntryStorage): an ingest *)
(* is a join of the Willow data model.  Neither store does this in every   *)
(* case.  EntryStore (the Vec of store/memory.rs) is checked against it    *)
(* where one ingest prunes at most one entry; the store of                 *)
(* store/persistent.rs takes older entries back (PersistentStore).         *)
(***************************************************************************)
EXTENDS PruneOrder

VARIABLES
    offered,    \* history: every entry ingest_entry was ever called with
    store       \* the entries the store holds

vars == << offered, store >>

Init ==
    /\ offered = {}
    /\ store = {}

(* One call of ingest_entry.                                               *)
Ingest(e) ==
    /\ offered' = offered \cup {e}
    /\ store' = Join(store, e)

Next == \E e \in Entry : Ingest(e)

Spec == Init /\ [][Next]_vars

=============================================================================
