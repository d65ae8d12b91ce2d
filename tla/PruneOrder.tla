------------------------------ MODULE PruneOrder ------------------------------
(***************************************************************************)
(* Entries ordered by prefix pruning.  Constant-level.                     *)
(***************************************************************************)

CONSTANTS
    Entry,      \* the entries that may ever be offered
    Prunes      \* << e, f >> \in Prunes: e prunes f

(* e prunes f when both have one subspace, e's path is a prefix of f's and *)
(* e is newer than f: each of the three parts is transitive, and "newer"   *)
(* is irreflexive.                                                         *)
ASSUME PrunesAssumption ==
    /\ Prunes \subseteq Entry \X Entry
    /\ \A e \in Entry : << e, e >> \notin Prunes
    /\ \A e, f, g \in Entry :
          << e, f >> \in Prunes /\ << f, g >> \in Prunes => << e, g >> \in Prunes

(* The early returns of ingest_entry: the same entry, or one that prunes   *)
(* it, is already there.                                                   *)
Rejects(S, e) == e \in S \/ \E f \in S : << f, e >> \in Prunes

(* What ingest_entry(e) is to leave of S: the contract of EntryStorage,    *)
(* not what either store does in every case.                               *)
Join(S, e) ==
    IF Rejects(S, e) THEN S
    ELSE { f \in S : << e, f >> \notin Prunes } \cup {e}

(* The entries of S that no entry of S prunes.                             *)
Frontier(S) == { e \in S : \A f \in S : << f, e >> \notin Prunes }

(* Each entry of T is in S, or pruned by an entry of S.                    *)
Dominates(S, T) == \A e \in T : e \in S \/ \E f \in S : << f, e >> \in Prunes

=============================================================================
