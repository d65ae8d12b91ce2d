------------------------------- MODULE Bisection -------------------------------
(***************************************************************************)
(* A peer whose fingerprints all differ bisects what the store holds       *)
(* (Target::initiate and the third case of received_send_fingerprint in    *)
(* session/reconciler.rs): the store splits a range, and one of the halves *)
(* comes back to be split.                                                 *)
(*                                                                         *)
(* The store is any finite set of entries that has one entry at most per   *)
(* subspace and path, however it came about.  That is all that splitting   *)
(* needs of ingest_entry.                                                  *)
(***************************************************************************)
EXTENDS RangeSplit

CONSTANTS
    Candidates,     \* the entries the two peers may hold
    StartRanges     \* the ranges a reconciliation may start with

ASSUME BisectionAssumption ==
    /\ StartRanges \subseteq Range3d
    /\ \A e \in Candidates : e.subspace \in Nat /\ e.path \in Nat /\ e.timestamp \in Nat

None == [subspaces |-> << 0, 0 >>, paths |-> << 0, 0 >>, times |-> << 0, 0 >>]

VARIABLES
    store,     \* the entries the store holds
    first,     \* history: the range the bisection started with
    range,     \* the range that is split next, None before the bisection
    splits     \* number of splits so far

allVars == << store, first, range, splits >>

Count(r) == Cardinality(get_entries(store, r))

OnePerPoint(S) ==
    \A e, f \in S : e.subspace = f.subspace /\ e.path = f.path => e = f

BisectInit ==
    /\ store \in SUBSET Candidates
    /\ IsFiniteSet(store) /\ OnePerPoint(store)
    /\ first = None /\ range = None
    /\ splits = 0

StartSplit ==
    /\ range = None
    /\ first' \in StartRanges
    /\ range' = first'
    /\ UNCHANGED << store, splits >>

Split ==
    /\ Count(range) > max_set_size
    /\ \E i \in 1..2 : range' = split_range(store, range)[i].range
    /\ splits' = splits + 1
    /\ UNCHANGED << store, first >>

BisectNext == StartSplit \/ Split

BisectSpec == BisectInit /\ [][BisectNext]_allVars

-----------------------------------------------------------------------------

(* The parts split_range returns are a partition of the range, for every   *)
(* entry the OTHER peer might hold there too: no entry is left out of both *)
(* halves (it would never be sent) or is in both (it would be sent twice). *)
PartsPartition ==
    LET parts == split_range(store, range) IN
    \A e \in Candidates :
        Cardinality({ i \in DOMAIN parts : includes_entry(parts[i].range, e) })
            = (IF includes_entry(range, e) THEN 1 ELSE 0)

(* Splitting gets to ranges of at most max_set_size entries whatever half  *)
(* is followed: a half may hold all the entries of its range, when the     *)
(* middle entry's subspace is the smallest that occurs, but then the next  *)
(* split, by path, leaves entries on both sides.                           *)
SplittingProgresses == splits <= 2 * (Count(first) - Count(range)) + 1

(* What makes SplittingProgresses inductive: one split more may have gone  *)
(* by without taking an entry away only when the next one is by path.      *)
NextIsByPath ==
    Count(range) > max_set_size /\ mid(store, range).subspace = range.subspaces[1]

BisectInv ==
    /\ store \in SUBSET Candidates /\ IsFiniteSet(store) /\ OnePerPoint(store)
    /\ splits \in Nat
    /\ range = None => first = None /\ splits = 0
    /\ range # None => range \in Range3d /\ first \in Range3d
    /\ splits <= 2 * (Count(first) - Count(range)) + (IF NextIsByPath THEN 1 ELSE 0)

=============================================================================
