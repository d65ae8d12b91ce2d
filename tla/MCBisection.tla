----------------------------- MODULE MCBisection -----------------------------
(* Bisection and RangeSplit for TLC.                                       *)
EXTENDS Bisection

CONSTANTS Subspaces, Paths, Times   \* finite sets of naturals

MCCandidates == [subspace: Subspaces, path: Paths, timestamp: Times]

Above(V) == 1 + CHOOSE x \in V : \A y \in V : y <= x

(* The full range, and one that starts at a subspace and at a path.        *)
MCStartRanges ==
    { [subspaces |-> << a, Above(Subspaces) >>, paths |-> << b, Above(Paths) >>,
       times |-> << 0, Above(Times) >>] : a \in {0} \cup Subspaces, b \in {0} \cup Paths }

=============================================================================
