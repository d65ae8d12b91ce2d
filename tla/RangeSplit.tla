------------------------------ MODULE RangeSplit ------------------------------
(***************************************************************************)
(* Three-dimensional ranges over entries and how a store splits one        *)
(* (store/traits.rs, EntryReader::split_range and fingerprint).            *)
(*                                                                         *)
(* Subspaces, paths and timestamps are natural numbers in their order.     *)
(* A range keeps one half-open interval << start, end >> per dimension; an *)
(* open end is a number above every value.                                 *)
(***************************************************************************)
EXTENDS Naturals, Sequences, FiniteSets

CONSTANT max_set_size   \* SplitOpts::max_set_size

ASSUME MaxSetSizeAssumption == max_set_size \in Nat \ {0}

Interval == { i \in Nat \X Nat : i[1] < i[2] }

Range3d == [subspaces: Interval, paths: Interval, times: Interval]

(* Points of range r that an entry can have (willow_data_model, external). *)
includes(interval, x) == interval[1] <= x /\ x < interval[2]

includes_entry(r, e) ==
    /\ includes(r.subspaces, e.subspace)
    /\ includes(r.paths, e.path)
    /\ includes(r.times, e.timestamp)

get_entries(S, r) == { e \in S : includes_entry(r, e) }

(* The XOR of the entries' hashes.  Hash collisions aside, two ranges have *)
(* equal fingerprints exactly when they hold the same entries, and the     *)
(* empty fingerprint is the one of no entries.                             *)
fingerprint(S, r) == get_entries(S, r)

(* as_sortable_tuple, within one namespace.                                *)
SortsBefore(e, f) ==
    \/ e.subspace < f.subspace
    \/ e.subspace = f.subspace /\ e.path < f.path

(* The entry at index count / 2 of the sorted entries, counting from 0:    *)
(* at most that many sort before it, and at most the rest after it.        *)
mid(S, r) ==
    LET es == get_entries(S, r) IN
    CHOOSE e \in es :
        /\ Cardinality({ f \in es : SortsBefore(f, e) }) <= Cardinality(es) \div 2
        /\ Cardinality(es) \div 2 < Cardinality({ f \in es : ~ SortsBefore(e, f) })

(* Slip: the second half starts after the middle entry.                    *)
Halve_SkipsMiddle(interval, x) == << << interval[1], x >>, << x + 1, interval[2] >> >>

Halve(interval, x) == << << interval[1], x >>, << x, interval[2] >> >>

SendEntries(r, count)      == [range |-> r, action |-> "SendEntries", count |-> count]
SendFingerprint(r, S)      == [range |-> r, action |-> "SendFingerprint",
                               fingerprint |-> fingerprint(S, r)]

(* Slip: the middle is compared with the end of the subspaces, not the     *)
(* start.                                                                  *)
Halves_ComparesEnd(S, r) ==
    LET m == mid(S, r) IN
    IF m.subspace # r.subspaces[2]
    THEN [i \in 1..2 |-> [r EXCEPT !.subspaces = Halve(@, m.subspace)[i]]]
    ELSE [i \in 1..2 |-> [r EXCEPT !.paths = Halve(@, m.path)[i]]]

(* The two halves of r: by subspace, else by path, else by time.           *)
Halves(S, r) ==
    LET m == mid(S, r) IN
    IF m.subspace # r.subspaces[1]
    THEN [i \in 1..2 |-> [r EXCEPT !.subspaces = Halve(@, m.subspace)[i]]]
    ELSE IF m.path # r.paths[1]
    THEN [i \in 1..2 |-> [r EXCEPT !.paths = Halve(@, m.path)[i]]]
    ELSE [i \in 1..2 |-> [r EXCEPT !.times = Halve(@, m.timestamp)[i]]]

split_range(S, r) ==
    LET count == Cardinality(get_entries(S, r)) IN
    IF count <= max_set_size
    THEN << SendEntries(r, count) >>
    ELSE [i \in 1..2 |-> SendFingerprint(Halves(S, r)[i], S)]

=============================================================================
