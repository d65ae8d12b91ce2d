-------------------------------- MODULE Entries --------------------------------
(***************************************************************************)
(* Entries as records and the order in which they prune one another        *)
(* (willow_data_model, external), for the two stores that compare fields.  *)
(***************************************************************************)
EXTENDS Naturals

CONSTANTS
    Paths,      \* paths
    PrefixOf    \* << p, q >> \in PrefixOf: path p is a prefix of q (reflexive)

ASSUME PathsAssumption ==
    /\ PrefixOf \subseteq Paths \X Paths
    /\ \A p \in Paths : << p, p >> \in PrefixOf
    /\ \A p, q, r \in Paths :
          << p, q >> \in PrefixOf /\ << q, r >> \in PrefixOf => << p, r >> \in PrefixOf

is_newer_than(e, f) ==
    \/ e.timestamp > f.timestamp
    \/ e.timestamp = f.timestamp /\ e.digest > f.digest

prunes(e, f) ==
    /\ e.subspace = f.subspace
    /\ << e.path, f.path >> \in PrefixOf
    /\ is_newer_than(e, f)

=============================================================================
