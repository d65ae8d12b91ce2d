----------------------- MODULE Reconciliation_proofs ------------------------
(***************************************************************************)
(* Progress of a store's range splitting, and the reconciliation of two    *)
(* stores.                                                                 *)
(*                                                                         *)
(* Reconciliation: the invariant ReconcilerInv relates what is on its way  *)
(* in both directions (Pipeline) to the books of the two peers.  A step of *)
(* a handler is brought into one of four forms, and each form keeps every  *)
(* part of the invariant: it answers a request (Answers), receives a part  *)
(* of an announcement (Consumes), leaves what is under way as it is        *)
(* (StillKeepsInv, and SendEntryKeepsInv for the entries of an iterator),  *)
(* or begins a target (Begins).                                            *)
(***************************************************************************)
EXTENDS Bisection, Reconciler, FiniteSetTheorems, TLAPS

-----------------------------------------------------------------------------
(* Range splitting.                                                        *)

(* Entries of a store: a point in every dimension, and one entry at most   *)
(* per subspace and path.                                                  *)
Points(es) ==
    /\ \A e \in es : e.subspace \in Nat /\ e.path \in Nat /\ e.timestamp \in Nat
    /\ \A e, f \in es : e.subspace = f.subspace /\ e.path = f.path => e = f

Before(es, e) == { f \in es : SortsBefore(f, e) }

(* An entry that sorts before another one has fewer before it, and every   *)
(* entry has fewer before it than there are.                               *)
LEMMA RankGrows ==
    ASSUME NEW es, IsFiniteSet(es), Points(es), NEW e \in es
    PROVE  /\ Cardinality(Before(es, e)) \in 0..(Cardinality(es) - 1)
           /\ \A f \in es : SortsBefore(e, f) =>
                 Cardinality(Before(es, e)) < Cardinality(Before(es, f))
<1>1. Cardinality(es) \in Nat
  BY FS_CardinalityType
<1>2. \A f \in es : /\ IsFiniteSet(Before(es, f)) /\ Before(es, f) \in SUBSET es
                    /\ Cardinality(Before(es, f)) \in Nat
                    /\ Cardinality(Before(es, f)) <= Cardinality(es)
                    /\ Cardinality(es) = Cardinality(Before(es, f)) => es = Before(es, f)
  <2> TAKE f \in es
  <2>1. Before(es, f) \in SUBSET es
    BY DEF Before
  <2>2. /\ IsFiniteSet(Before(es, f))
        /\ Cardinality(Before(es, f)) <= Cardinality(es)
        /\ Cardinality(es) = Cardinality(Before(es, f)) => es = Before(es, f)
    BY <2>1, FS_Subset
  <2> QED
    BY <2>1, <2>2, FS_CardinalityType
<1>3. e \notin Before(es, e)
  BY DEF Before, SortsBefore, Points
<1>4. Cardinality(Before(es, e)) \in 0..(Cardinality(es) - 1)
  BY <1>1, <1>2, <1>3
<1>5. ASSUME NEW f \in es, SortsBefore(e, f)
      PROVE  Cardinality(Before(es, e)) < Cardinality(Before(es, f))
  <2>1. Before(es, e) \in SUBSET Before(es, f)
    BY <1>5 DEF Before, SortsBefore, Points
  <2>2. e \in Before(es, f)
    BY <1>5 DEF Before
  <2>3. /\ Cardinality(Before(es, e)) <= Cardinality(Before(es, f))
        /\ Cardinality(Before(es, f)) = Cardinality(Before(es, e)) =>
              Before(es, f) = Before(es, e)
    BY <1>2, <2>1, FS_Subset
  <2> QED
    BY <1>2, <1>3, <2>2, <2>3
<1> QED
  BY <1>4, <1>5

(* The entries that do not sort after e are those before it, and e.        *)
UpTo(es, e) == { f \in es : ~ SortsBefore(e, f) }

LEMMA UpToAnEntry ==
    ASSUME NEW es, IsFiniteSet(es), Points(es), NEW e \in es
    PROVE  Cardinality(UpTo(es, e)) = Cardinality(Before(es, e)) + 1
<1>1. UpTo(es, e) = Before(es, e) \cup {e} /\ e \notin Before(es, e)
  BY DEF UpTo, Before, SortsBefore, Points
<1>2. Before(es, e) \in SUBSET es
  BY DEF Before
<1>3. IsFiniteSet(Before(es, e))
  BY <1>2, FS_Subset
<1> QED
  BY <1>1, <1>3, FS_AddElement

(* What makes an entry the middle one.                                     *)
IsMiddle(es, e) ==
    /\ Cardinality(Before(es, e)) <= Cardinality(es) \div 2
    /\ Cardinality(es) \div 2 < Cardinality(UpTo(es, e))

(* There is a middle entry: the numbers of entries before them are all     *)
(* different, so every index below the count is one of them.               *)
LEMMA MiddleExists ==
    ASSUME NEW es, IsFiniteSet(es), Points(es), es # {}
    PROVE  \E e \in es : IsMiddle(es, e)
<1>1. PICK n \in Nat : n = Cardinality(es) /\ n > 0
  BY FS_CardinalityType, FS_EmptySet
<1>2. PICK k \in 0..(n - 1) : k = Cardinality(es) \div 2
  <2>1. n \div 2 \in 0..(n - 1)
    BY <1>1
  <2> QED
    BY <1>1, <2>1
<1> SUFFICES ASSUME \A e \in es : Cardinality(Before(es, e)) # k
             PROVE  FALSE
  <2>1. ASSUME NEW e \in es, Cardinality(Before(es, e)) = k PROVE IsMiddle(es, e)
    BY <1>2, <2>1, UpToAnEntry DEF IsMiddle
  <2> QED
    BY <2>1
<1> DEFINE T == (0..(n - 1)) \ {k}
           f == [e \in es |-> Cardinality(Before(es, e))]
<1>3. IsFiniteSet(T) /\ Cardinality(T) = n - 1
  <2>1. IsFiniteSet(0..(n - 1)) /\ Cardinality(0..(n - 1)) = n
    <3>1. 0 \in Int /\ n - 1 \in Int
      BY <1>1
    <3> QED
      BY <1>1, <3>1, FS_Interval
  <2> QED
    BY <1>2, <2>1, FS_RemoveElement
<1>4. f \in [es -> T]
  <2>1. \A e \in es : Cardinality(Before(es, e)) \in T
    BY <1>1, RankGrows
  <2> QED
    BY <2>1
<1>5. Cardinality(T) < Cardinality(es)
  BY <1>1, <1>3
<1>6. \A x, y \in es : x # y => f[x] # f[y]
  <2> TAKE x, y \in es
  <2> HAVE x # y
  <2>1. SortsBefore(x, y) \/ SortsBefore(y, x)
    BY DEF SortsBefore, Points
  <2>2. /\ Cardinality(Before(es, x)) \in Nat /\ Cardinality(Before(es, y)) \in Nat
        /\ SortsBefore(x, y) => Cardinality(Before(es, x)) < Cardinality(Before(es, y))
        /\ SortsBefore(y, x) => Cardinality(Before(es, y)) < Cardinality(Before(es, x))
    BY RankGrows
  <2> QED
    BY <2>1, <2>2
<1>7. \E x, y \in es : x # y /\ f[x] = f[y]
  <2> HIDE DEF T, f
  <2> QED
    BY <1>3, <1>4, <1>5, FS_PigeonHole
<1> QED
  BY <1>6, <1>7

(* The middle of a range with more than max_set_size entries: an entry of  *)
(* the range, with another one before it.                                  *)
LEMMA MidFacts ==
    ASSUME NEW S, IsFiniteSet(S), Points(S), NEW r,
           Cardinality(get_entries(S, r)) > max_set_size
    PROVE  /\ mid(S, r) \in get_entries(S, r)
           /\ \E f \in get_entries(S, r) : SortsBefore(f, mid(S, r))
<1> DEFINE es == get_entries(S, r)
<1>1. es \in SUBSET S
  BY DEF get_entries
<1>2. IsFiniteSet(es) /\ Points(es)
  BY <1>1, FS_Subset DEF Points
<1>3. Cardinality(es) \in Nat /\ Cardinality(es) > 1
  BY <1>2, FS_CardinalityType, MaxSetSizeAssumption
<1>4. es # {}
  BY <1>3, FS_EmptySet
<1>5. mid(S, r) \in es /\ IsMiddle(es, mid(S, r))
  <2>1. mid(S, r) = CHOOSE e \in es : IsMiddle(es, e)
    BY DEF mid, Before, UpTo, IsMiddle
  <2>2. \E e \in es : IsMiddle(es, e)
    BY <1>2, <1>4, MiddleExists
  <2> HIDE DEF es
  <2> QED
    BY <2>1, <2>2
<1>6. Before(es, mid(S, r)) # {}
  <2>1. Cardinality(es) \div 2 \in Nat /\ Cardinality(es) \div 2 > 0
    BY <1>3
  <2>2. /\ Cardinality(Before(es, mid(S, r))) \in Nat
        /\ Cardinality(UpTo(es, mid(S, r))) = Cardinality(Before(es, mid(S, r))) + 1
    <3> HIDE DEF es
    <3> QED
      BY <1>2, <1>3, <1>5, UpToAnEntry, RankGrows
  <2>3. Cardinality(Before(es, mid(S, r))) # 0
    BY <1>5, <2>1, <2>2 DEF IsMiddle
  <2> QED
    BY <2>3, FS_EmptySet
<1> QED
  BY <1>5, <1>6 DEF Before

(* How the range is cut: by the middle's subspace, or, when that is the    *)
(* first of the range, by its path.  It never comes to a cut by time: the  *)
(* entry before the middle has a smaller path then.                        *)
CutBySubspace(r, m, h1, h2) ==
    /\ r.subspaces[1] < m.subspace /\ m.subspace < r.subspaces[2]
    /\ h1 = [r EXCEPT !.subspaces = << r.subspaces[1], m.subspace >>]
    /\ h2 = [r EXCEPT !.subspaces = << m.subspace, r.subspaces[2] >>]

CutByPath(r, m, h1, h2) ==
    /\ r.subspaces[1] = m.subspace
    /\ r.paths[1] < m.path /\ m.path < r.paths[2]
    /\ h1 = [r EXCEPT !.paths = << r.paths[1], m.path >>]
    /\ h2 = [r EXCEPT !.paths = << m.path, r.paths[2] >>]

(* A range with more than max_set_size entries is cut in one of the two    *)
(* ways.                                                                   *)
LEMMA HalvesAreCuts ==
    ASSUME NEW S, IsFiniteSet(S), Points(S), NEW r \in Range3d,
           Cardinality(get_entries(S, r)) > max_set_size
    PROVE  \/ CutBySubspace(r, mid(S, r), Halves(S, r)[1], Halves(S, r)[2])
           \/ CutByPath(r, mid(S, r), Halves(S, r)[1], Halves(S, r)[2])
<1>1. PICK m : m = mid(S, r)
  OBVIOUS
<1>2. m \in get_entries(S, r) /\ \E f \in get_entries(S, r) : SortsBefore(f, m)
  BY <1>1, MidFacts
<1>3. PICK f \in get_entries(S, r) : SortsBefore(f, m)
  BY <1>2
<1>4. /\ m.subspace \in Nat /\ m.path \in Nat
      /\ f.subspace \in Nat /\ f.path \in Nat
      /\ includes_entry(r, m) /\ includes_entry(r, f)
  BY <1>2 DEF get_entries, Points
<1>5. /\ r.subspaces[1] \in Nat /\ r.subspaces[2] \in Nat
      /\ r.paths[1] \in Nat /\ r.paths[2] \in Nat
  BY DEF Range3d, Interval
<1>6. CASE m.subspace # r.subspaces[1]
  <2>1. Halves(S, r) = [i \in 1..2 |-> [r EXCEPT !.subspaces = Halve(@, m.subspace)[i]]]
    BY <1>1, <1>6 DEF Halves
  <2>2. /\ Halves(S, r)[1] = [r EXCEPT !.subspaces = << r.subspaces[1], m.subspace >>]
        /\ Halves(S, r)[2] = [r EXCEPT !.subspaces = << m.subspace, r.subspaces[2] >>]
    BY <2>1 DEF Halve
  <2>3. r.subspaces[1] < m.subspace /\ m.subspace < r.subspaces[2]
    BY <1>4, <1>5, <1>6 DEF includes_entry, includes
  <2> QED
    BY <1>1, <2>2, <2>3 DEF CutBySubspace
<1>7. CASE m.subspace = r.subspaces[1]
  <2>1. r.paths[1] < m.path /\ m.path < r.paths[2]
    BY <1>3, <1>4, <1>5, <1>7 DEF includes_entry, includes, SortsBefore
  <2>2. Halves(S, r) = [i \in 1..2 |-> [r EXCEPT !.paths = Halve(@, m.path)[i]]]
    BY <1>1, <1>4, <1>5, <1>7, <2>1 DEF Halves
  <2>3. /\ Halves(S, r)[1] = [r EXCEPT !.paths = << r.paths[1], m.path >>]
        /\ Halves(S, r)[2] = [r EXCEPT !.paths = << m.path, r.paths[2] >>]
    BY <2>2 DEF Halve
  <2> QED
    BY <1>1, <1>7, <2>1, <2>3 DEF CutByPath
<1> QED
  BY <1>6, <1>7

(* The halves of a cut are ranges, and whatever is in the range is in      *)
(* exactly one of them.                                                    *)
LEMMA CutsPartition ==
    ASSUME NEW r \in Range3d, NEW h1, NEW h2, NEW m,
           m.subspace \in Nat, m.path \in Nat,
           CutBySubspace(r, m, h1, h2) \/ CutByPath(r, m, h1, h2)
    PROVE  /\ h1 \in Range3d /\ h2 \in Range3d
           /\ \A e : e.subspace \in Nat /\ e.path \in Nat =>
                 /\ includes_entry(r, e) <=> includes_entry(h1, e) \/ includes_entry(h2, e)
                 /\ ~ (includes_entry(h1, e) /\ includes_entry(h2, e))
<1>1. /\ r = [subspaces |-> r.subspaces, paths |-> r.paths, times |-> r.times]
      /\ r.subspaces \in Interval /\ r.paths \in Interval /\ r.times \in Interval
  BY DEF Range3d
<1>2. /\ r.subspaces[1] \in Nat /\ r.subspaces[2] \in Nat
      /\ r.paths[1] \in Nat /\ r.paths[2] \in Nat
  BY <1>1 DEF Interval
<1>3. CASE CutBySubspace(r, m, h1, h2)
  <2>1. /\ h1.subspaces = << r.subspaces[1], m.subspace >>
        /\ h2.subspaces = << m.subspace, r.subspaces[2] >>
        /\ h1.paths = r.paths /\ h2.paths = r.paths
        /\ h1.times = r.times /\ h2.times = r.times
        /\ h1 = [subspaces |-> h1.subspaces, paths |-> r.paths, times |-> r.times]
        /\ h2 = [subspaces |-> h2.subspaces, paths |-> r.paths, times |-> r.times]
    BY <1>1, <1>3 DEF CutBySubspace
  <2>2. r.subspaces[1] < m.subspace /\ m.subspace < r.subspaces[2]
    BY <1>3 DEF CutBySubspace
  <2>3. h1.subspaces \in Interval /\ h2.subspaces \in Interval
    BY <1>2, <2>1, <2>2 DEF Interval
  <2>4. h1 \in Range3d /\ h2 \in Range3d
    BY <1>1, <2>1, <2>3 DEF Range3d
  <2>5. /\ h1.subspaces[1] = r.subspaces[1] /\ h1.subspaces[2] = m.subspace
        /\ h2.subspaces[1] = m.subspace /\ h2.subspaces[2] = r.subspaces[2]
    BY <2>1
  <2> QED
    BY <1>2, <2>1, <2>2, <2>4, <2>5 DEF includes_entry, includes
<1>4. CASE CutByPath(r, m, h1, h2)
  <2>1. /\ h1.paths = << r.paths[1], m.path >>
        /\ h2.paths = << m.path, r.paths[2] >>
        /\ h1.subspaces = r.subspaces /\ h2.subspaces = r.subspaces
        /\ h1.times = r.times /\ h2.times = r.times
        /\ h1 = [subspaces |-> r.subspaces, paths |-> h1.paths, times |-> r.times]
        /\ h2 = [subspaces |-> r.subspaces, paths |-> h2.paths, times |-> r.times]
    BY <1>1, <1>4 DEF CutByPath
  <2>2. r.paths[1] < m.path /\ m.path < r.paths[2]
    BY <1>4 DEF CutByPath
  <2>3. h1.paths \in Interval /\ h2.paths \in Interval
    BY <1>2, <2>1, <2>2 DEF Interval
  <2>4. h1 \in Range3d /\ h2 \in Range3d
    BY <1>1, <2>1, <2>3 DEF Range3d
  <2>5. /\ h1.paths[1] = r.paths[1] /\ h1.paths[2] = m.path
        /\ h2.paths[1] = m.path /\ h2.paths[2] = r.paths[2]
    BY <2>1
  <2> QED
    BY <1>2, <2>1, <2>2, <2>4, <2>5 DEF includes_entry, includes
<1> QED
  BY <1>3, <1>4


(* A half has fewer entries than its range, or it has as many and is cut   *)
(* by path next, which its range is not.                                   *)
LEMMA HalvesProgress ==
    ASSUME NEW S, IsFiniteSet(S), Points(S), NEW r \in Range3d,
           Cardinality(get_entries(S, r)) > max_set_size,
           NEW i \in 1..2, NEW h, h = Halves(S, r)[i]
    PROVE  /\ h \in Range3d
           /\ \/ Cardinality(get_entries(S, h)) < Cardinality(get_entries(S, r))
              \/ /\ Cardinality(get_entries(S, h)) = Cardinality(get_entries(S, r))
                 /\ mid(S, r).subspace # r.subspaces[1]
                 /\ mid(S, h).subspace = h.subspaces[1]
<1>1. PICK m, h1, h2 : m = mid(S, r) /\ h1 = Halves(S, r)[1] /\ h2 = Halves(S, r)[2]
  OBVIOUS
<1>2. m \in get_entries(S, r) /\ \E f \in get_entries(S, r) : SortsBefore(f, m)
  BY <1>1, MidFacts
<1>3. PICK f \in get_entries(S, r) : SortsBefore(f, m)
  BY <1>2
<1>4. /\ m.subspace \in Nat /\ m.path \in Nat
      /\ f.subspace \in Nat /\ f.path \in Nat
      /\ includes_entry(r, m) /\ includes_entry(r, f)
  BY <1>2 DEF get_entries, Points
<1>5. CutBySubspace(r, m, h1, h2) \/ CutByPath(r, m, h1, h2)
  BY <1>1, HalvesAreCuts
<1>6. /\ h1 \in Range3d /\ h2 \in Range3d
      /\ \A e : e.subspace \in Nat /\ e.path \in Nat =>
            /\ includes_entry(r, e) <=> includes_entry(h1, e) \/ includes_entry(h2, e)
            /\ ~ (includes_entry(h1, e) /\ includes_entry(h2, e))
  BY <1>4, <1>5, CutsPartition
<1>7. h = h1 \/ h = h2
  BY <1>1
<1>8. get_entries(S, h) \in SUBSET get_entries(S, r)
  BY <1>6, <1>7 DEF get_entries, Points
<1>9. /\ Cardinality(get_entries(S, r)) \in Nat
      /\ Cardinality(get_entries(S, h)) \in Nat
      /\ Cardinality(get_entries(S, h)) <= Cardinality(get_entries(S, r))
      /\ Cardinality(get_entries(S, r)) = Cardinality(get_entries(S, h)) =>
            get_entries(S, r) = get_entries(S, h)
  <2>1. get_entries(S, r) \in SUBSET S
    BY DEF get_entries
  <2>2. IsFiniteSet(get_entries(S, r))
    BY <2>1, FS_Subset
  <2> QED
    BY <1>8, <2>2, FS_Subset, FS_CardinalityType
<1>10. r.subspaces[1] \in Nat /\ r.paths[1] \in Nat
  BY DEF Range3d, Interval
<1>11. r = [subspaces |-> r.subspaces, paths |-> r.paths, times |-> r.times]
  BY DEF Range3d
<1>12. CASE CutByPath(r, m, h1, h2)
  <2>1. f.path < m.path
    BY <1>3, <1>4, <1>10, <1>12 DEF CutByPath, SortsBefore, includes_entry, includes
  <2>2. h1.paths = << r.paths[1], m.path >> /\ h2.paths = << m.path, r.paths[2] >>
    BY <1>11, <1>12 DEF CutByPath
  <2>3. h1.paths[2] = m.path /\ h2.paths[1] = m.path
    BY <2>2
  <2>4. ~ includes_entry(h1, m) /\ ~ includes_entry(h2, f)
    BY <1>4, <2>1, <2>3 DEF includes_entry, includes
  <2>5. get_entries(S, h) # get_entries(S, r)
    BY <1>2, <1>7, <2>4 DEF get_entries
  <2> QED
    BY <1>6, <1>7, <1>9, <2>5
<1>13. CASE CutBySubspace(r, m, h1, h2)
  <2>1. /\ h1.subspaces = << r.subspaces[1], m.subspace >>
        /\ h2.subspaces = << m.subspace, r.subspaces[2] >>
        /\ r.subspaces[1] < m.subspace
    BY <1>11, <1>13 DEF CutBySubspace
  <2>2. h1.subspaces[2] = m.subspace /\ h2.subspaces[1] = m.subspace
    BY <2>1
  <2>3. ~ includes_entry(h1, m)
    BY <1>4, <2>2 DEF includes_entry, includes
  <2>4. CASE h = h1
    <3>1. get_entries(S, h) # get_entries(S, r)
      BY <1>2, <2>3, <2>4 DEF get_entries
    <3> QED
      BY <1>6, <1>7, <1>9, <3>1
  <2>5. CASE h = h2 /\ get_entries(S, h) # get_entries(S, r)
    BY <1>6, <1>7, <1>9, <2>5
  <2>6. CASE h = h2 /\ get_entries(S, h) = get_entries(S, r)
    <3>1. mid(S, h) = m
      BY <1>1, <2>6 DEF mid
    <3>2. mid(S, h).subspace = h.subspaces[1] /\ mid(S, r).subspace # r.subspaces[1]
      BY <1>1, <1>4, <1>10, <2>1, <2>2, <2>6, <3>1
    <3> QED
      BY <1>6, <2>6, <3>2
  <2> QED
    BY <1>7, <2>4, <2>5, <2>6
<1> QED
  BY <1>5, <1>12, <1>13

(* The entries a store may hold in BisectInv are points.                   *)
LEMMA StoredArePoints ==
    ASSUME store \in SUBSET Candidates, OnePerPoint(store)
    PROVE  Points(store)
BY BisectionAssumption DEF OnePerPoint, Points

(* None is no range to start with, and holds no entry.                     *)
LEMMA NoneIsEmpty ==
    /\ None \notin Range3d
    /\ \A e : e.subspace \in Nat => ~ includes_entry(None, e)
    /\ \A S : Points(S) => get_entries(S, None) = {}
<1>1. None.subspaces[1] = 0 /\ None.subspaces[2] = 0
  BY DEF None
<1>2. None \notin Range3d
  BY <1>1 DEF Range3d, Interval
<1>3. \A e : e.subspace \in Nat => ~ includes_entry(None, e)
  BY <1>1 DEF includes_entry, includes
<1> QED
  BY <1>2, <1>3 DEF get_entries, Points

(* The inductive invariant of the bisection.                               *)
THEOREM Bisections == BisectSpec => []BisectInv
<1>1. BisectInit => BisectInv
  <2> SUFFICES ASSUME BisectInit PROVE BisectInv
    OBVIOUS
  <2>1. store \in SUBSET Candidates /\ IsFiniteSet(store) /\ OnePerPoint(store)
    BY DEF BisectInit
  <2>2. first = None /\ range = None /\ splits = 0
    BY DEF BisectInit
  <2>3. Count(None) = 0
    BY <2>1, StoredArePoints, NoneIsEmpty, FS_EmptySet DEF Count
  <2> QED
    BY <2>1, <2>2, <2>3 DEF BisectInv
<1>2. BisectInv /\ [BisectNext]_allVars => BisectInv'
  <2> SUFFICES ASSUME BisectInv, [BisectNext]_allVars PROVE BisectInv'
    OBVIOUS
  <2>1. /\ store \in SUBSET Candidates /\ IsFiniteSet(store) /\ OnePerPoint(store)
        /\ splits \in Nat /\ Points(store)
    BY StoredArePoints DEF BisectInv
  <2>2. ASSUME StartSplit PROVE BisectInv'
    <3>1. /\ range' \in Range3d /\ first' = range' /\ splits' = 0
          /\ UNCHANGED store
      BY <2>2, BisectionAssumption DEF StartSplit, BisectInv
    <3>2. store' \in SUBSET Candidates /\ IsFiniteSet(store') /\ OnePerPoint(store')
      BY <2>1, <3>1
    <3>3. range' # None
      BY <3>1, NoneIsEmpty
    <3>4. get_entries(store, range') \in SUBSET store
      BY DEF get_entries
    <3>5. Cardinality(get_entries(store, range')) \in Nat
      BY <2>1, <3>4, FS_Subset, FS_CardinalityType
    <3>6. Count(first)' \in Nat /\ Count(range)' = Count(first)'
      BY <3>1, <3>5 DEF Count
    <3> QED
      BY <3>1, <3>2, <3>3, <3>6 DEF BisectInv
  <2>3. ASSUME Split PROVE BisectInv'
    <3>1. /\ Cardinality(get_entries(store, range)) > max_set_size
          /\ splits' = splits + 1
          /\ UNCHANGED << store, first >>
      BY <2>3 DEF Split, Count
    <3>2. range # None
      <4>1. get_entries(store, None) = {}
        BY <2>1, NoneIsEmpty
      <4>2. Cardinality(get_entries(store, None)) = 0
        BY <4>1, FS_EmptySet
      <4>3. ~ (0 > max_set_size)
        BY MaxSetSizeAssumption
      <4> QED
        BY <3>1, <4>2, <4>3
    <3>3. range \in Range3d /\ first \in Range3d
      BY <3>2 DEF BisectInv
    <3>4. PICK i \in 1..2 : range' = split_range(store, range)[i].range
      BY <2>3 DEF Split
    <3>5. get_entries(store, range) \in SUBSET store /\ get_entries(store, first) \in SUBSET store
          /\ get_entries(store, range') \in SUBSET store
      BY DEF get_entries
    <3>6. PICK a, b, c \in Nat : /\ a = Cardinality(get_entries(store, range))
                                 /\ b = Cardinality(get_entries(store, range'))
                                 /\ c = Cardinality(get_entries(store, first))
      BY <2>1, <3>5, FS_Subset, FS_CardinalityType
    <3>7. range' = Halves(store, range)[i]
      <4>1. ~ (Cardinality(get_entries(store, range)) <= max_set_size)
        BY <3>1, <3>6, MaxSetSizeAssumption
      <4>2. split_range(store, range)
              = [j \in 1..2 |-> SendFingerprint(Halves(store, range)[j], store)]
        BY <4>1 DEF split_range
      <4> QED
        BY <3>4, <4>2 DEF SendFingerprint
    <3>8. /\ range' \in Range3d
          /\ \/ b < a
             \/ /\ b = a
                /\ mid(store, range).subspace # range.subspaces[1]
                /\ mid(store, range').subspace = range'.subspaces[1]
      BY <2>1, <3>1, <3>3, <3>6, <3>7, HalvesProgress
    <3>9. splits <= 2 * (c - a) + (IF NextIsByPath THEN 1 ELSE 0)
      BY <3>6 DEF BisectInv, Count
    <3>10. NextIsByPath' <=> b > max_set_size /\ mid(store, range').subspace = range'.subspaces[1]
      BY <3>1, <3>6 DEF NextIsByPath, Count
    <3>11. NextIsByPath => mid(store, range).subspace = range.subspaces[1]
      BY DEF NextIsByPath
    <3>12. splits' <= 2 * (c - b) + (IF NextIsByPath' THEN 1 ELSE 0)
      <4>1. CASE b < a
        BY <2>1, <3>1, <3>9, <4>1
      <4>2. CASE ~ (b < a)
        <5>1. b = a /\ ~ NextIsByPath /\ NextIsByPath'
          BY <3>1, <3>6, <3>8, <3>10, <3>11, <4>2
        <5> QED
          BY <2>1, <3>1, <3>9, <5>1
      <4> QED
        BY <4>1, <4>2
    <3>13. range' # None
      BY <3>8, NoneIsEmpty
    <3>14. store' \in SUBSET Candidates /\ IsFiniteSet(store') /\ OnePerPoint(store')
      BY <2>1, <3>1
    <3>15. Count(first)' = c /\ Count(range)' = b
      BY <3>1, <3>6 DEF Count
    <3>16. splits' \in Nat /\ first' \in Range3d
      BY <2>1, <3>1, <3>3
    <3> QED
      BY <3>8, <3>12, <3>13, <3>14, <3>15, <3>16 DEF BisectInv
  <2>4. ASSUME UNCHANGED allVars PROVE BisectInv'
    BY <2>4 DEF allVars, BisectInv, Count, NextIsByPath
  <2> QED
    BY <2>2, <2>3, <2>4 DEF BisectNext
<1> QED
  BY <1>1, <1>2, PTL DEF BisectSpec

(* The bisection ends whatever half is followed.                           *)
THEOREM SplitsAreBounded == BisectSpec => []SplittingProgresses
<1>1. BisectInv => SplittingProgresses
  <2> SUFFICES ASSUME BisectInv PROVE SplittingProgresses
    OBVIOUS
  <2>1. get_entries(store, range) \in SUBSET store /\ get_entries(store, first) \in SUBSET store
    BY DEF get_entries
  <2>2. Count(range) \in Nat /\ Count(first) \in Nat /\ splits \in Nat
    BY <2>1, FS_Subset, FS_CardinalityType DEF Count, BisectInv
  <2> QED
    BY <2>2 DEF BisectInv, SplittingProgresses
<1> QED
  BY <1>1, Bisections, PTL

(* What split_range returns covers the range without an overlap.           *)
THEOREM SplitsPartition == BisectSpec => []PartsPartition
<1>1. BisectInv => PartsPartition
  <2> SUFFICES ASSUME BisectInv, NEW e \in Candidates
               PROVE  Cardinality({ i \in DOMAIN split_range(store, range) :
                              includes_entry(split_range(store, range)[i].range, e) })
                        = (IF includes_entry(range, e) THEN 1 ELSE 0)
    BY DEF PartsPartition
  <2>1. /\ IsFiniteSet(store) /\ Points(store)
        /\ e.subspace \in Nat /\ e.path \in Nat
    BY StoredArePoints, BisectionAssumption DEF BisectInv
  <2>2. PICK parts : parts = split_range(store, range)
    OBVIOUS
  <2>3. PICK hits : hits = { i \in DOMAIN parts : includes_entry(parts[i].range, e) }
    OBVIOUS
  <2> SUFFICES Cardinality(hits) = (IF includes_entry(range, e) THEN 1 ELSE 0)
    BY <2>2, <2>3
  <2>4. get_entries(store, range) \in SUBSET store
    BY DEF get_entries
  <2>5. Cardinality(get_entries(store, range)) \in Nat
    BY <2>1, <2>4, FS_Subset, FS_CardinalityType
  <2>6. CASE Cardinality(get_entries(store, range)) <= max_set_size
    <3>1. DOMAIN parts = {1} /\ parts[1].range = range
      BY <2>2, <2>6 DEF split_range, SendEntries
    <3>2. hits = IF includes_entry(range, e) THEN {1} ELSE {}
      BY <2>3, <3>1
    <3> QED
      BY <3>2, FS_Singleton, FS_EmptySet
  <2>7. CASE Cardinality(get_entries(store, range)) > max_set_size
    <3>1. range # None
      BY <2>1, <2>7, NoneIsEmpty, FS_EmptySet, MaxSetSizeAssumption
    <3>2. range \in Range3d
      BY <3>1 DEF BisectInv
    <3>3. PICK m, h1, h2 : /\ m = mid(store, range)
                           /\ h1 = Halves(store, range)[1] /\ h2 = Halves(store, range)[2]
      OBVIOUS
    <3>4. DOMAIN parts = 1..2 /\ parts[1].range = h1 /\ parts[2].range = h2
      <4>1. ~ (Cardinality(get_entries(store, range)) <= max_set_size)
        BY <2>5, <2>7, MaxSetSizeAssumption
      <4>2. parts = [j \in 1..2 |-> SendFingerprint(Halves(store, range)[j], store)]
        BY <2>2, <4>1 DEF split_range
      <4> QED
        BY <3>3, <4>2 DEF SendFingerprint
    <3>5. CutBySubspace(range, m, h1, h2) \/ CutByPath(range, m, h1, h2)
      BY <2>1, <2>7, <3>2, <3>3, HalvesAreCuts
    <3>6. m.subspace \in Nat /\ m.path \in Nat
      <4>1. m \in get_entries(store, range)
        BY <2>1, <2>7, <3>3, MidFacts
      <4> QED
        BY <2>1, <2>4, <4>1 DEF Points
    <3>7. /\ includes_entry(range, e) <=> includes_entry(h1, e) \/ includes_entry(h2, e)
          /\ ~ (includes_entry(h1, e) /\ includes_entry(h2, e))
      BY <2>1, <3>2, <3>5, <3>6, CutsPartition
    <3>8. hits = IF includes_entry(h1, e) THEN {1} ELSE IF includes_entry(h2, e) THEN {2} ELSE {}
      BY <2>3, <3>4, <3>7
    <3> QED
      BY <3>7, <3>8, FS_Singleton, FS_EmptySet
  <2> QED
    BY <2>5, <2>6, <2>7, MaxSetSizeAssumption
<1> QED
  BY <1>1, Bisections, PTL

-----------------------------------------------------------------------------
(* Reconciliation.                                                         *)

Items == Messages \cup Iterators

(* There are two peers.                                                    *)
LEMMA TwoPeers ==
    /\ "alfie" \in Peers /\ "betty" \in Peers
    /\ Other("alfie") = "betty" /\ Other("betty") = "alfie"
    /\ \A p \in Peers : /\ p = "alfie" \/ p = "betty"
                        /\ Other(p) \in Peers /\ Other(p) # p /\ Other(Other(p)) = p
                        /\ \A x \in Peers : x = p \/ x = Other(p)
<1>1. Peers = {"alfie", "betty"}
  BY DEF Peers
<1>2. \E x \in Peers : x # "alfie"
  BY <1>1
<1>3. \E x \in Peers : x # "betty"
  BY <1>1
<1>4. Other("alfie") = "betty"
  BY <1>1, <1>2 DEF Other
<1>5. Other("betty") = "alfie"
  BY <1>1, <1>3 DEF Other
<1> QED
  BY <1>1, <1>4, <1>5

(* Messages by their type.                                                 *)
LEMMA ItemFields ==
    ASSUME NEW m \in Items
    PROVE  /\ m.type \in {"SendFingerprint", "AnnounceEntries", "SendEntry", "SendPayload",
                          "TerminatePayload", "Iterator"}
           /\ m.type # "Iterator" => m \in Messages
           /\ IsHeader(m) => m.target \in Targets /\ m.range \in Range3d /\ m.covers \in SUBSET Nat
           /\ m.type = "SendFingerprint" => m.fingerprint \in SUBSET Entry
           /\ m.type = "AnnounceEntries" => m.is_empty \in BOOLEAN /\ m.want_response \in BOOLEAN
           /\ m.type = "SendEntry" => m.entry \in Entry
           /\ m.type = "TerminatePayload" => m.is_final \in BOOLEAN
           /\ m.type = "Iterator" => m.entries \in SUBSET Entry
  BY DEF Items, Messages, Iterators, IsHeader

(* The elements of two sequences in a row, and of a sequence without its   *)
(* first.                                                                  *)
LEMMA ConcatFields ==
    ASSUME NEW M, NEW s \in Seq(M), NEW r \in Seq(M)
    PROVE  /\ s \o r \in Seq(M) /\ Len(s \o r) = Len(s) + Len(r)
           /\ Len(s) \in Nat /\ Len(r) \in Nat
           /\ DOMAIN (s \o r) = 1..(Len(s) + Len(r)) /\ DOMAIN s = 1..Len(s) /\ DOMAIN r = 1..Len(r)
           /\ \A i \in DOMAIN s : (s \o r)[i] = s[i] /\ s[i] \in M /\ i \in DOMAIN (s \o r)
           /\ \A i \in DOMAIN r : /\ (s \o r)[Len(s) + i] = r[i] /\ r[i] \in M
                                  /\ Len(s) + i \in DOMAIN (s \o r)
           /\ \A i \in DOMAIN (s \o r) : \/ i \in DOMAIN s
                                         \/ i \notin DOMAIN s /\ i - Len(s) \in DOMAIN r
                                            /\ (s \o r)[i] = r[i - Len(s)]
           /\ s \o << >> = s /\ << >> \o r = r
<1>1. /\ s \o r \in Seq(M) /\ Len(s \o r) = Len(s) + Len(r)
      /\ Len(s) \in Nat /\ Len(r) \in Nat
      /\ DOMAIN (s \o r) = 1..(Len(s) + Len(r)) /\ DOMAIN s = 1..Len(s) /\ DOMAIN r = 1..Len(r)
  OBVIOUS
<1>2. \A i \in DOMAIN s : (s \o r)[i] = s[i] /\ s[i] \in M /\ i \in DOMAIN (s \o r)
  BY <1>1
<1>3. \A i \in DOMAIN r : /\ (s \o r)[Len(s) + i] = r[i] /\ r[i] \in M
                          /\ Len(s) + i \in DOMAIN (s \o r)
  BY <1>1
<1>4. \A i \in DOMAIN (s \o r) : \/ i \in DOMAIN s
                                 \/ i \notin DOMAIN s /\ i - Len(s) \in DOMAIN r
                                    /\ (s \o r)[i] = r[i - Len(s)]
  BY <1>1
<1>5. s \o << >> = s /\ << >> \o r = r
  OBVIOUS
<1> QED
  BY <1>1, <1>2, <1>3, <1>4, <1>5

(* A sequence without its first element.                                   *)
LEMMA TailFields ==
    ASSUME NEW M, NEW s \in Seq(M), s # << >>
    PROVE  /\ Len(s) \in Nat /\ Len(s) > 0 /\ s[1] = Head(s) /\ Head(s) \in M
           /\ Tail(s) \in Seq(M) /\ Len(Tail(s)) = Len(s) - 1
           /\ DOMAIN s = 1..Len(s) /\ DOMAIN Tail(s) = 1..(Len(s) - 1)
           /\ \A i \in DOMAIN Tail(s) : Tail(s)[i] = s[i + 1] /\ i + 1 \in DOMAIN s
           /\ \A i \in DOMAIN s : i # 1 => i - 1 \in DOMAIN Tail(s) /\ s[i] = Tail(s)[i - 1]
           /\ s = << Head(s) >> \o Tail(s)
<1>1. /\ Len(s) \in Nat /\ Len(s) > 0 /\ s[1] = Head(s) /\ Head(s) \in M
      /\ Tail(s) \in Seq(M) /\ Len(Tail(s)) = Len(s) - 1
      /\ DOMAIN s = 1..Len(s) /\ DOMAIN Tail(s) = 1..(Len(s) - 1)
  OBVIOUS
<1>2. \A i \in DOMAIN Tail(s) : Tail(s)[i] = s[i + 1] /\ i + 1 \in DOMAIN s
  BY <1>1
<1>3. \A i \in DOMAIN s : i # 1 => i - 1 \in DOMAIN Tail(s) /\ s[i] = Tail(s)[i - 1]
  BY <1>1, <1>2
<1>4. s = << Head(s) >> \o Tail(s)
  OBVIOUS
<1> QED
  BY <1>1, <1>2, <1>3, <1>4

(* Two paths in a row, and a path without its first message.               *)
LEMMA LeadsConcat ==
    ASSUME NEW s \in Seq(Items), NEW r \in Seq(Items), NEW a, NEW b, NEW c,
           Leads(a, s, b), Leads(b, r, c)
    PROVE  Leads(a, s \o r, c)
<1>1. PICK w : w = s \o r
  OBVIOUS
<1>2. CASE s = << >>
  BY <1>2, ConcatFields DEF Leads
<1>3. CASE r = << >>
  BY <1>3, ConcatFields DEF Leads
<1>4. CASE s # << >> /\ r # << >>
  <2>1. /\ Len(s) \in Nat /\ Len(r) \in Nat /\ Len(s) > 0 /\ Len(r) > 0
        /\ Len(w) = Len(s) + Len(r) /\ DOMAIN w = 1..(Len(s) + Len(r)) /\ w # << >>
        /\ DOMAIN s = 1..Len(s) /\ DOMAIN r = 1..Len(r)
    BY <1>1, <1>4, TailFields, ConcatFields
  <2>2. \A i \in 1..Len(s) : w[i] = s[i]
    BY <1>1, <2>1, ConcatFields
  <2>3. \A i \in 1..Len(r) : w[Len(s) + i] = r[i]
    BY <1>1, <2>1, ConcatFields
  <2>4. b = Leaves(s[Len(s)]) /\ c = Leaves(r[Len(r)])
    BY <1>4 DEF Leads
  <2>5. ASSUME NEW i \in DOMAIN w
        PROVE  Needs(w[i]) = IF i = 1 THEN a ELSE Leaves(w[i - 1])
    <3>1. CASE i \in 1..Len(s)
      <4>1. Needs(s[i]) = IF i = 1 THEN a ELSE Leaves(s[i - 1])
        BY <2>1, <3>1 DEF Leads
      <4>2. i # 1 => i - 1 \in 1..Len(s)
        BY <2>1, <3>1
      <4> QED
        BY <2>2, <3>1, <4>1, <4>2
    <3>2. CASE i = Len(s) + 1
      <4>1. Needs(r[1]) = b
        BY <2>1 DEF Leads
      <4>2. w[i] = r[1] /\ w[i - 1] = s[Len(s)] /\ i # 1
        BY <2>1, <2>2, <2>3, <3>2
      <4> QED
        BY <2>4, <4>1, <4>2
    <3>3. CASE i > Len(s) + 1
      <4>1. PICK k \in 1..Len(r) : k = i - Len(s)
        BY <2>1, <3>3
      <4>2. k # 1 /\ k - 1 \in 1..Len(r) /\ i = Len(s) + k /\ i - 1 = Len(s) + (k - 1) /\ i # 1
        BY <2>1, <3>3, <4>1
      <4>3. Needs(r[k]) = Leaves(r[k - 1])
        BY <2>1, <4>1, <4>2 DEF Leads
      <4>4. w[i] = r[k] /\ w[i - 1] = r[k - 1]
        BY <2>3, <4>1, <4>2
      <4> QED
        BY <4>2, <4>3, <4>4
    <3> QED
      BY <2>1, <3>1, <3>2, <3>3
  <2>6. c = Leaves(w[Len(w)])
    BY <2>1, <2>3, <2>4
  <2> QED
    BY <1>1, <2>1, <2>5, <2>6 DEF Leads
<1> QED
  BY <1>2, <1>3, <1>4

(* Without its first message, a sequence leads on from what that leaves.   *)
LEMMA LeadsTail ==
    ASSUME NEW s \in Seq(Items), s # << >>, NEW a, NEW b, Leads(a, s, b)
    PROVE  Needs(Head(s)) = a /\ Leads(Leaves(Head(s)), Tail(s), b)
<1>1. PICK w : w = Tail(s)
  OBVIOUS
<1>2. /\ Len(s) \in Nat /\ Len(s) > 0 /\ s[1] = Head(s) /\ Len(w) = Len(s) - 1
      /\ DOMAIN s = 1..Len(s) /\ DOMAIN w = 1..(Len(s) - 1) /\ w \in Seq(Items)
      /\ \A i \in DOMAIN w : w[i] = s[i + 1] /\ i + 1 \in DOMAIN s
  BY <1>1, TailFields
<1>3. Needs(Head(s)) = a
  BY <1>2 DEF Leads
<1>4. ASSUME NEW i \in DOMAIN w
      PROVE  Needs(w[i]) = IF i = 1 THEN Leaves(Head(s)) ELSE Leaves(w[i - 1])
  <2>1. i + 1 \in DOMAIN s /\ i + 1 # 1 /\ (i + 1) - 1 = i /\ w[i] = s[i + 1]
    BY <1>2, <1>4
  <2>2. Needs(s[i + 1]) = Leaves(s[i])
    BY <2>1 DEF Leads
  <2>3. i # 1 => i - 1 \in DOMAIN w /\ (i - 1) + 1 = i
    BY <1>2, <1>4
  <2>4. i # 1 => w[i - 1] = s[i]
    BY <1>2, <2>3
  <2> QED
    BY <1>2, <2>1, <2>2, <2>4
<1>5. b = IF w = << >> THEN Leaves(Head(s)) ELSE Leaves(w[Len(w)])
  <2>1. b = Leaves(s[Len(s)])
    BY DEF Leads
  <2>2. CASE w = << >>
    BY <1>2, <2>1, <2>2
  <2>3. CASE w # << >>
    <3>1. Len(w) \in DOMAIN w /\ Len(w) + 1 = Len(s)
      BY <1>2, <2>3
    <3>2. w[Len(w)] = s[Len(s)]
      BY <1>2, <3>1
    <3> QED
      BY <2>1, <2>3, <3>2
  <2> QED
    BY <2>2, <2>3
<1> QED
  BY <1>1, <1>3, <1>4, <1>5 DEF Leads

(* Counting what waits for an answer.                                      *)
Waiting(s, t) == { i \in DOMAIN s : Wants(s[i], t) }

(* Only finitely many requests are under way, so they can be counted.      *)
LEMMA WaitingIsFinite ==
    ASSUME NEW s \in Seq(Items), NEW t
    PROVE  /\ IsFiniteSet(Waiting(s, t)) /\ Wanting(s, t) = Cardinality(Waiting(s, t))
           /\ Wanting(s, t) \in Nat
<1>1. Len(s) \in Nat /\ DOMAIN s = 1..Len(s)
  OBVIOUS
<1>2. IsFiniteSet(1..Len(s))
  BY <1>1, FS_Interval
<1>3. Waiting(s, t) \in SUBSET (1..Len(s))
  BY <1>1 DEF Waiting
<1>4. IsFiniteSet(Waiting(s, t))
  BY <1>2, <1>3, FS_Subset
<1>5. Wanting(s, t) = Cardinality(Waiting(s, t))
  BY DEF Wanting, Waiting
<1> QED
  BY <1>4, <1>5, FS_CardinalityType

(* Nothing is counted where no message waits for an answer.                *)
LEMMA WantingNone ==
    ASSUME NEW s \in Seq(Items), NEW t
    PROVE  Wanting(s, t) = 0 <=> \A i \in DOMAIN s : ~ Wants(s[i], t)
<1>1. Wanting(s, t) = 0 <=> Waiting(s, t) = {}
  BY WaitingIsFinite, FS_EmptySet
<1> QED
  BY <1>1 DEF Waiting

(* Requests in two sequences in a row add up.                              *)
LEMMA WantingConcat ==
    ASSUME NEW s \in Seq(Items), NEW r \in Seq(Items), NEW t
    PROVE  Wanting(s \o r, t) = Wanting(s, t) + Wanting(r, t)
<1> DEFINE A == Waiting(s, t)
           B == Waiting(r, t)
           C == Waiting(s \o r, t) \ A
           f == [i \in B |-> Len(s) + i]
<1>1. /\ IsFiniteSet(A) /\ IsFiniteSet(B) /\ IsFiniteSet(Waiting(s \o r, t))
      /\ Wanting(s, t) = Cardinality(A) /\ Wanting(r, t) = Cardinality(B)
      /\ Wanting(s \o r, t) = Cardinality(Waiting(s \o r, t))
      /\ Wanting(s, t) \in Nat /\ Wanting(r, t) \in Nat
  <2>1. s \o r \in Seq(Items)
    BY ConcatFields
  <2> QED
    BY <2>1, WaitingIsFinite
<1>2. /\ Len(s) \in Nat /\ Len(r) \in Nat /\ DOMAIN s = 1..Len(s) /\ DOMAIN r = 1..Len(r)
      /\ DOMAIN (s \o r) = 1..(Len(s) + Len(r))
      /\ \A i \in 1..Len(s) : (s \o r)[i] = s[i]
      /\ \A i \in 1..Len(r) : (s \o r)[Len(s) + i] = r[i]
  BY ConcatFields
<1>3. A \in SUBSET Waiting(s \o r, t)
  BY <1>2 DEF Waiting
<1>4. \A i : i \in C <=> i \in (Len(s) + 1)..(Len(s) + Len(r)) /\ Wants((s \o r)[i], t)
  BY <1>2 DEF Waiting
<1>5. \A i \in B : Len(s) + i \in C
  <2> TAKE i \in B
  <2>1. i \in 1..Len(r) /\ Wants(r[i], t)
    BY <1>2 DEF Waiting
  <2>2. Len(s) + i \in (Len(s) + 1)..(Len(s) + Len(r))
    BY <1>2, <2>1
  <2> QED
    BY <1>2, <1>4, <2>1, <2>2
<1>6. \A k \in C : k - Len(s) \in B /\ Len(s) + (k - Len(s)) = k
  <2> TAKE k \in C
  <2>1. k \in (Len(s) + 1)..(Len(s) + Len(r)) /\ Wants((s \o r)[k], t)
    BY <1>4
  <2>2. k - Len(s) \in 1..Len(r) /\ Len(s) + (k - Len(s)) = k
    BY <1>2, <2>1
  <2> QED
    BY <1>2, <2>1, <2>2 DEF Waiting
<1>7. f \in Bijection(B, C)
  <2>1. f \in [B -> C]
    BY <1>5
  <2>2. \A i, j \in B : f[i] = f[j] => i = j
    BY <1>2 DEF Waiting
  <2>3. \A k \in C : \E i \in B : f[i] = k
    BY <1>6
  <2> HIDE DEF A, B, C, f
  <2> QED
    BY <2>1, <2>2, <2>3 DEF Bijection, Injection, Surjection, IsInjective
<1>8. Cardinality(C) = Cardinality(B) /\ IsFiniteSet(C)
  <2>1. ExistsBijection(B, C)
    BY <1>7 DEF ExistsBijection
  <2> QED
    BY <1>1, <2>1, FS_Bijection
<1>9. Waiting(s \o r, t) = A \cup C /\ A \cap C = {}
  BY <1>3
<1>10. Cardinality(A \cup C) = Cardinality(A) + Cardinality(C) - Cardinality(A \cap C)
  BY <1>1, <1>8, FS_Union
<1>11. Cardinality(A \cap C) = 0
  BY <1>9, FS_EmptySet
<1>12. Wanting(s \o r, t) = Cardinality(A \cup C)
  BY <1>1, <1>9
<1> HIDE DEF A, B, C, f
<1> QED
  BY <1>1, <1>8, <1>10, <1>11, <1>12

(* A single message counts if it waits.                                    *)
LEMMA WantingOne ==
    ASSUME NEW m \in Items, NEW t
    PROVE  Wanting(<< m >>, t) = IF Wants(m, t) THEN 1 ELSE 0
<1>1. << m >> \in Seq(Items) /\ DOMAIN << m >> = {1} /\ << m >>[1] = m
  OBVIOUS
<1>2. Waiting(<< m >>, t) = IF Wants(m, t) THEN {1} ELSE {}
  BY <1>1 DEF Waiting
<1>3. Wanting(<< m >>, t) = Cardinality(Waiting(<< m >>, t))
  BY <1>1, WaitingIsFinite
<1> QED
  BY <1>2, <1>3, FS_Singleton, FS_EmptySet

(* The first message is counted, if it waits, and then the others.         *)
LEMMA WantingTail ==
    ASSUME NEW s \in Seq(Items), s # << >>, NEW t
    PROVE  Wanting(s, t) = Wanting(Tail(s), t) + (IF Wants(Head(s), t) THEN 1 ELSE 0)
<1>1. Head(s) \in Items /\ << Head(s) >> \in Seq(Items) /\ Tail(s) \in Seq(Items)
      /\ s = << Head(s) >> \o Tail(s)
  BY TailFields
<1>2. Wanting(s, t) = Wanting(<< Head(s) >>, t) + Wanting(Tail(s), t)
  <2>1. PICK h, w \in Seq(Items) : h = << Head(s) >> /\ w = Tail(s)
    BY <1>1
  <2>2. s = h \o w
    BY <1>1, <2>1
  <2>3. Wanting(h \o w, t) = Wanting(h, t) + Wanting(w, t)
    BY WantingConcat
  <2> QED
    BY <2>1, <2>2, <2>3
<1>3. Wanting(Tail(s), t) \in Nat
  BY <1>1, WaitingIsFinite
<1> QED
  BY <1>1, <1>2, <1>3, WantingOne

(* The state of one peer.                                                  *)
LEMMA PeerTypes ==
    ASSUME SyncTypes, NEW p \in Peers
    PROVE  /\ stores[p] \in SUBSET Entry /\ base[p] \in SUBSET Entry
           /\ entry_state[p] \in SUBSET Targets /\ payload[p] \in BOOLEAN
           /\ chan[p] \in Seq(Messages) /\ chan[p] \in Seq(Items) /\ Len(chan[p]) <= ChannelCap
           /\ todo[p] \in Seq(Items) /\ check[p] \in SUBSET Targets
           /\ Pipeline(p) \in Seq(Items)
           /\ \A t \in Targets : /\ targets[p][t] \in TargetState
                                 /\ targets[p][t].status \in {"unknown", "open", "done"}
                                 /\ targets[p][t].started \in BOOLEAN
                                 /\ targets[p][t].uncovered \in SUBSET Nat
                                 /\ targets[p][t].ours \in Nat /\ targets[p][t].theirs \in Nat
<1>1. Other(p) \in Peers
  BY TwoPeers
<1>2. /\ stores[p] \in SUBSET Entry /\ base[p] \in SUBSET Entry
      /\ entry_state[p] \in SUBSET Targets /\ payload[p] \in BOOLEAN
      /\ chan[p] \in Seq(Messages) /\ Len(chan[p]) <= ChannelCap
      /\ todo[p] \in Seq(Items) /\ check[p] \in SUBSET Targets /\ todo[Other(p)] \in Seq(Items)
      /\ targets[p] \in [Targets -> TargetState]
  BY <1>1 DEF SyncTypes, Items
<1>3. chan[p] \in Seq(Items)
  <2>1. \A s \in Seq(Messages) : s \in Seq(Messages \cup Iterators)
    OBVIOUS
  <2> QED
    BY <1>2, <2>1 DEF Items
<1>4. Pipeline(p) \in Seq(Items)
  BY <1>2, <1>3, ConcatFields DEF Pipeline
<1>5. \A t \in Targets : /\ targets[p][t] \in TargetState
                         /\ targets[p][t].status \in {"unknown", "open", "done"}
                         /\ targets[p][t].started \in BOOLEAN
                         /\ targets[p][t].uncovered \in SUBSET Nat
                         /\ targets[p][t].ours \in Nat /\ targets[p][t].theirs \in Nat
  BY <1>2 DEF TargetState
<1> QED
  BY <1>2, <1>3, <1>4, <1>5

(* A handler takes the first message from what is on its way to p, and its *)
(* sends join what is on its way to the other peer.                        *)
LEMMA TakeStep ==
    ASSUME SyncTypes, NEW p \in Peers, todo[p] = << >>, chan[p] # << >>, Take(p),
           NEW reply \in Seq(Items), todo' = [todo EXCEPT ![p] = reply]
    PROVE  /\ Pipeline(p) # << >> /\ Head(Pipeline(p)) = Head(chan[p])
           /\ Pipeline(p)' = Tail(Pipeline(p))
           /\ Pipeline(Other(p))' = Pipeline(Other(p)) \o reply
           /\ todo'[p] = reply /\ todo'[Other(p)] = todo[Other(p)]
           /\ chan' \in [Peers -> Seq(Messages)] /\ \A x \in Peers : Len(chan'[x]) <= ChannelCap
           /\ todo' \in [Peers -> Seq(Items)]
<1>1. Other(p) \in Peers /\ Other(p) # p /\ Other(Other(p)) = p /\ \A x \in Peers : x = p \/ x = Other(p)
  BY TwoPeers
<1>2. /\ chan \in [Peers -> Seq(Messages)] /\ todo \in [Peers -> Seq(Items)]
      /\ ChannelCap \in Nat
  BY ReconcilerAssumption DEF SyncTypes, Items
<1>3. /\ chan[p] \in Seq(Items) /\ chan[p] \in Seq(Messages) /\ chan[Other(p)] \in Seq(Items)
      /\ todo[Other(p)] \in Seq(Items)
      /\ Len(chan[p]) <= ChannelCap /\ Len(chan[Other(p)]) <= ChannelCap
  BY <1>1, PeerTypes
<1>4. /\ chan'[p] = Tail(chan[p]) /\ chan'[Other(p)] = chan[Other(p)]
      /\ todo'[p] = reply /\ todo'[Other(p)] = todo[Other(p)]
  BY <1>1, <1>2 DEF Take
<1>5. PICK c, w \in Seq(Items) : c = chan[p] /\ w = todo[Other(p)]
  BY <1>3
<1>6. c \o w # << >> /\ Head(c \o w) = Head(c) /\ Tail(c \o w) = Tail(c) \o w
  <2>1. c # << >> /\ Len(c) > 0
    BY <1>5
  <2>2. c \o w # << >> /\ Head(c \o w) = Head(c)
    BY <2>1
  <2> QED
    BY <2>1, <2>2
<1>7. Pipeline(p) = c \o w /\ Pipeline(p)' = Tail(c) \o w
  BY <1>4, <1>5 DEF Pipeline
<1>8. Pipeline(Other(p)) = chan[Other(p)]
  <2>1. Pipeline(Other(p)) = chan[Other(p)] \o << >>
    BY <1>1 DEF Pipeline
  <2>2. \A d \in Seq(Items) : d \o << >> = d
    OBVIOUS
  <2> QED
    BY <1>3, <2>1, <2>2
<1>9. Pipeline(Other(p))' = chan[Other(p)] \o reply
  BY <1>1, <1>4 DEF Pipeline
<1>10. Tail(chan[p]) \in Seq(Messages) /\ Len(Tail(chan[p])) <= ChannelCap
  BY <1>2, <1>3
<1>11. chan' \in [Peers -> Seq(Messages)] /\ \A x \in Peers : Len(chan'[x]) <= ChannelCap
  BY <1>1, <1>2, <1>3, <1>4, <1>10 DEF Take
<1>12. todo' \in [Peers -> Seq(Items)]
  BY <1>2
<1> QED
  BY <1>4, <1>5, <1>6, <1>7, <1>8, <1>9, <1>11, <1>12

-----------------------------------------------------------------------------
(* Answers.                                                                *)

(* What announcements and fingerprints an answer to the n-th range of the  *)
(* other peer in target t may consist of.                                  *)
IsReply(reply, t, n) ==
    /\ reply \in Seq(Items) /\ Leads("header", reply, "header")
    /\ \A i \in DOMAIN reply : IsHeader(reply[i]) =>
          /\ reply[i].target = t /\ reply[i].covers \subseteq {n}
          /\ reply[i].covers = {} =>
                /\ reply[i].type = "SendFingerprint"
                /\ i + 1 \in DOMAIN reply /\ HeaderOf(reply[i + 1], t) /\ reply[i + 1].covers # {}
          /\ \A j \in DOMAIN reply : IsHeader(reply[j]) /\ i # j =>
                reply[i].covers \cap reply[j].covers = {}
    /\ \A i \in DOMAIN reply : reply[i].type = "Iterator" =>
          /\ i = Len(reply)
          /\ reply[i].entries # {} /\ IsFiniteSet(reply[i].entries)
          /\ Frontier(reply[i].entries) = reply[i].entries

(* What the answer of p to m is good for: nobody misses an entry of the    *)
(* range of m because of it.                                               *)
Announces(reply, t, e) ==
    \E j \in DOMAIN reply : HeaderOf(reply[j], t) /\ j + 1 \in DOMAIN reply /\ Brings(reply[j + 1], e)

Serves(p, m, reply) ==
    /\ \A i \in DOMAIN reply : reply[i].type = "SendFingerprint" =>
          /\ get_entries(Kept(p), reply[i].range) \subseteq reply[i].fingerprint
          /\ Dominates(stores[p], reply[i].fingerprint)
    /\ \A e \in Kept(p) : includes_entry(m.range, e) =>
          \/ Dominates(stores[Other(p)], {e})
          \/ Offered(reply, m.target, e)
          \/ Announces(reply, m.target, e)
    /\ \A e \in Kept(Other(p)) : m.type = "SendFingerprint" /\ includes_entry(m.range, e) =>
          Dominates(stores[p], {e}) \/ Asked(reply, m.target, e)

(* A part of an antichain is one, and its entries are points.              *)
LEMMA FrontierPart ==
    ASSUME NEW S \in SUBSET Entry, Frontier(S) = S, IsFiniteSet(S), NEW T \in SUBSET S
    PROVE  Frontier(T) = T /\ IsFiniteSet(T) /\ Points(T) /\ T \in SUBSET Entry
<1>1. Frontier(T) = T
  BY DEF Frontier
<1>2. IsFiniteSet(T)
  BY FS_Subset
<1>3. Points(T)
  BY ReconcilerAssumption DEF Frontier, Points
<1> QED
  BY <1>1, <1>2, <1>3

(* What announce_and_send_entries queues is a well-formed answer: one      *)
(* header that covers n, and the iterator over S if S is not empty.        *)
LEMMA AnnounceForm ==
    ASSUME NEW t \in Targets, NEW r \in Range3d, NEW want \in BOOLEAN, NEW n \in Nat,
           NEW S \in SUBSET Entry, IsFiniteSet(S), Frontier(S) = S,
           NEW reply, reply = AnnounceMsgs(t, r, want, {n}, S)
    PROVE  /\ IsReply(reply, t, n)
           /\ \A i \in DOMAIN reply : reply[i].type # "SendFingerprint"
           /\ \A e \in S : Announces(reply, t, e)
           /\ \A e : want /\ includes_entry(r, e) => Asked(reply, t, e)
<1>1. PICK a : a = [type |-> "AnnounceEntries", target |-> t, range |-> r, is_empty |-> (S = {}),
                    want_response |-> want, covers |-> {n}]
  OBVIOUS
<1>2. PICK w : w = [type |-> "Iterator", entries |-> S]
  OBVIOUS
<1>3. /\ a \in Items /\ a.type = "AnnounceEntries" /\ a.target = t /\ a.range = r
      /\ a.is_empty = (S = {}) /\ a.want_response = want /\ a.covers = {n}
  BY <1>1 DEF Items, Messages
<1>4. w \in Items /\ w.type = "Iterator" /\ w.entries = S
  BY <1>2 DEF Items, Iterators
<1>5. IsHeader(a) /\ ~ IsHeader(w) /\ HeaderOf(a, t)
  BY <1>3, <1>4 DEF IsHeader, HeaderOf
<1>6. Needs(a) = "header" /\ Needs(w) = "entry" /\ Leaves(w) = "header"
      /\ Leaves(a) = IF S = {} THEN "header" ELSE "entry"
  BY <1>3, <1>4, <1>5 DEF Needs, Leaves
<1>7. ASSUME NEW e, want, includes_entry(r, e), 1 \in DOMAIN reply, reply[1] = a
      PROVE  Asked(reply, t, e)
  BY <1>3, <1>7 DEF Asked, Wants
<1>8. CASE S = {}
  <2>1. reply = << a >>
    BY <1>1, <1>8 DEF AnnounceMsgs
  <2>2. reply \in Seq(Items) /\ DOMAIN reply = {1} /\ Len(reply) = 1 /\ reply[1] = a /\ reply # << >>
    BY <1>3, <2>1
  <2>3. Leads("header", reply, "header")
    BY <1>6, <1>8, <2>2 DEF Leads
  <2>4. IsReply(reply, t, n)
    <3>1. \A i \in DOMAIN reply : i = 1 /\ reply[i] = a
      BY <2>2
    <3> QED
      BY <1>3, <2>2, <2>3, <3>1 DEF IsReply
  <2> QED
    BY <1>3, <1>7, <1>8, <2>2, <2>4
<1>9. CASE S # {}
  <2>1. reply = << a, w >>
    BY <1>1, <1>2, <1>9 DEF AnnounceMsgs
  <2>2. /\ reply \in Seq(Items) /\ DOMAIN reply = {1, 2} /\ Len(reply) = 2
        /\ reply[1] = a /\ reply[2] = w /\ reply # << >>
    <3>1. a \in Items /\ w \in Items
      BY <1>3, <1>4
    <3> QED
      BY <2>1, <3>1
  <2>3. Leads("header", reply, "header")
    BY <1>6, <1>9, <2>2 DEF Leads
  <2>4. IsReply(reply, t, n)
    <3>1. \A i \in DOMAIN reply : IsHeader(reply[i]) => i = 1 /\ reply[i] = a
      BY <1>5, <2>2
    <3>2. \A i \in DOMAIN reply : reply[i].type = "Iterator" => i = 2 /\ reply[i] = w
      BY <1>3, <2>2
    <3> QED
      BY <1>3, <1>4, <1>9, <2>2, <2>3, <3>1, <3>2 DEF IsReply
  <2>5. \A e \in S : Announces(reply, t, e)
    <3> TAKE e \in S
    <3>1. Brings(w, e)
      BY <1>4 DEF Brings
    <3>2. 1 \in DOMAIN reply /\ 1 + 1 \in DOMAIN reply /\ reply[1 + 1] = w
      BY <2>2
    <3> QED
      BY <1>5, <2>2, <3>1, <3>2 DEF Announces
  <2> QED
    BY <1>3, <1>4, <1>7, <2>2, <2>4, <2>5
<1> QED
  BY <1>8, <1>9

(* Two fingerprints, of which the second covers the range.                 *)
LEMMA FingerprintsForm ==
    ASSUME NEW t \in Targets, NEW r1 \in Range3d, NEW r2 \in Range3d, NEW n \in Nat,
           NEW f1 \in SUBSET Entry, NEW f2 \in SUBSET Entry,
           NEW reply, reply = << FingerprintMsg(t, r1, f1, {}), FingerprintMsg(t, r2, f2, {n}) >>
    PROVE  /\ IsReply(reply, t, n)
           /\ DOMAIN reply = {1, 2}
           /\ reply[1].range = r1 /\ reply[1].fingerprint = f1
           /\ reply[2].range = r2 /\ reply[2].fingerprint = f2
           /\ \A e : includes_entry(r1, e) \/ includes_entry(r2, e) =>
                 Asked(reply, t, e) /\ Offered(reply, t, e)
<1>1. PICK a, b : a = FingerprintMsg(t, r1, f1, {}) /\ b = FingerprintMsg(t, r2, f2, {n})
  OBVIOUS
<1>2. /\ a \in Items /\ a.type = "SendFingerprint" /\ a.target = t /\ a.range = r1
      /\ a.fingerprint = f1 /\ a.covers = {}
  BY <1>1 DEF Items, Messages, FingerprintMsg
<1>3. /\ b \in Items /\ b.type = "SendFingerprint" /\ b.target = t /\ b.range = r2
      /\ b.fingerprint = f2 /\ b.covers = {n}
  BY <1>1 DEF Items, Messages, FingerprintMsg
<1>4. IsHeader(a) /\ IsHeader(b) /\ HeaderOf(a, t) /\ HeaderOf(b, t)
  BY <1>2, <1>3 DEF IsHeader, HeaderOf
<1>5. Needs(a) = "header" /\ Needs(b) = "header" /\ Leaves(a) = "header" /\ Leaves(b) = "header"
  BY <1>2, <1>3, <1>4 DEF Needs, Leaves
<1>6. /\ reply \in Seq(Items) /\ DOMAIN reply = {1, 2} /\ Len(reply) = 2
      /\ reply[1] = a /\ reply[2] = b /\ reply # << >>
  BY <1>1, <1>2, <1>3
<1>7. Leads("header", reply, "header")
  BY <1>5, <1>6 DEF Leads
<1>8. IsReply(reply, t, n)
  <2>1. \A i \in DOMAIN reply : IsHeader(reply[i]) =>
          /\ reply[i].target = t /\ reply[i].covers \subseteq {n}
          /\ reply[i].covers = {} =>
                /\ reply[i].type = "SendFingerprint"
                /\ i + 1 \in DOMAIN reply /\ HeaderOf(reply[i + 1], t) /\ reply[i + 1].covers # {}
          /\ \A j \in DOMAIN reply : IsHeader(reply[j]) /\ i # j =>
                reply[i].covers \cap reply[j].covers = {}
    BY <1>2, <1>3, <1>4, <1>6
  <2>2. \A i \in DOMAIN reply : reply[i].type # "Iterator"
    BY <1>2, <1>3, <1>6
  <2> QED
    BY <1>6, <1>7, <2>1, <2>2 DEF IsReply
<1>9. ASSUME NEW e, includes_entry(r1, e) \/ includes_entry(r2, e)
      PROVE  Asked(reply, t, e) /\ Offered(reply, t, e)
  BY <1>2, <1>3, <1>6, <1>9 DEF Asked, Offered, Wants
<1> QED
  BY <1>2, <1>3, <1>6, <1>8, <1>9

(* The third case of received_send_fingerprint.                            *)
LEMMA SplitReplies ==
    ASSUME SyncTypes, NEW p \in Peers, Stored(p), NEW t \in Targets, NEW r \in Range3d, NEW n \in Nat,
           NEW reply, reply = SplitReply(p, t, r, n)
    PROVE  /\ IsReply(reply, t, n)
           /\ \A i \in DOMAIN reply : reply[i].type = "SendFingerprint" =>
                 reply[i].fingerprint = get_entries(stores[p], reply[i].range)
           /\ \A e \in stores[p] : includes_entry(r, e) =>
                 Offered(reply, t, e) \/ Announces(reply, t, e)
           /\ \A e \in Entry : includes_entry(r, e) => Asked(reply, t, e)
<1> DEFINE es == get_entries(stores[p], r)
           parts == split_range(stores[p], r)
<1>1. stores[p] \in SUBSET Entry /\ IsFiniteSet(stores[p]) /\ Frontier(stores[p]) = stores[p]
  BY PeerTypes DEF Stored
<1>2. es \in SUBSET stores[p]
  BY DEF get_entries
<1>3. Points(stores[p]) /\ Frontier(es) = es /\ IsFiniteSet(es) /\ es \in SUBSET Entry
  BY <1>1, <1>2, FrontierPart
<1>4. Cardinality(es) \in Nat /\ max_set_size \in Nat
  BY <1>3, FS_CardinalityType, MaxSetSizeAssumption
<1>5. CASE Cardinality(es) <= max_set_size
  <2>1. parts[1].action = "SendEntries"
    BY <1>5 DEF split_range, SendEntries
  <2>2. reply = AnnounceMsgs(t, r, TRUE, {n}, es)
    BY <2>1 DEF SplitReply
  <2> HIDE DEF es, parts
  <2>3. /\ IsReply(reply, t, n)
        /\ \A i \in DOMAIN reply : reply[i].type # "SendFingerprint"
        /\ \A e \in es : Announces(reply, t, e)
        /\ \A e : TRUE /\ includes_entry(r, e) => Asked(reply, t, e)
    BY <1>3, <2>2, AnnounceForm
  <2>4. \A e \in stores[p] : includes_entry(r, e) => e \in es
    BY DEF es, get_entries
  <2> QED
    BY <2>3, <2>4
<1>6. CASE Cardinality(es) > max_set_size
  <2>1. PICK m, h1, h2 : /\ m = mid(stores[p], r)
                         /\ h1 = Halves(stores[p], r)[1] /\ h2 = Halves(stores[p], r)[2]
    OBVIOUS
  <2>2. ~ (Cardinality(es) <= max_set_size)
    BY <1>4, <1>6
  <2>3. parts = [j \in 1..2 |-> SendFingerprint(Halves(stores[p], r)[j], stores[p])]
    BY <2>2 DEF split_range
  <2>4. /\ parts[1].action = "SendFingerprint" /\ Len(parts) = 2
        /\ parts[1].range = h1 /\ parts[2].range = h2
        /\ parts[1].fingerprint = get_entries(stores[p], h1)
        /\ parts[2].fingerprint = get_entries(stores[p], h2)
    BY <2>1, <2>3 DEF SendFingerprint, fingerprint
  <2>5. reply = [i \in 1..2 |-> FingerprintMsg(t, parts[i].range, parts[i].fingerprint,
                                               IF i = Len(parts) THEN {n} ELSE {})]
    BY <2>4 DEF SplitReply
  <2>6. reply = << FingerprintMsg(t, h1, get_entries(stores[p], h1), {}),
                   FingerprintMsg(t, h2, get_entries(stores[p], h2), {n}) >>
    BY <2>4, <2>5
  <2>7. CutBySubspace(r, m, h1, h2) \/ CutByPath(r, m, h1, h2)
    BY <1>1, <1>3, <1>6, <2>1, HalvesAreCuts
  <2>8. m.subspace \in Nat /\ m.path \in Nat
    <3>1. m \in es
      BY <1>1, <1>3, <1>6, <2>1, MidFacts
    <3> QED
      BY <1>2, <1>3, <3>1 DEF Points
  <2>9. /\ h1 \in Range3d /\ h2 \in Range3d
        /\ \A e : e.subspace \in Nat /\ e.path \in Nat =>
              (includes_entry(r, e) <=> includes_entry(h1, e) \/ includes_entry(h2, e))
    BY <2>7, <2>8, CutsPartition
  <2>10. get_entries(stores[p], h1) \in SUBSET Entry /\ get_entries(stores[p], h2) \in SUBSET Entry
    BY <1>1 DEF get_entries
  <2>11. /\ IsReply(reply, t, n)
         /\ DOMAIN reply = {1, 2}
         /\ reply[1].range = h1 /\ reply[1].fingerprint = get_entries(stores[p], h1)
         /\ reply[2].range = h2 /\ reply[2].fingerprint = get_entries(stores[p], h2)
         /\ \A e : includes_entry(h1, e) \/ includes_entry(h2, e) =>
               Asked(reply, t, e) /\ Offered(reply, t, e)
    <3>1. PICK f1, f2 : f1 = get_entries(stores[p], h1) /\ f2 = get_entries(stores[p], h2)
      OBVIOUS
    <3>2. f1 \in SUBSET Entry /\ f2 \in SUBSET Entry
      BY <2>10, <3>1
    <3>3. reply = << FingerprintMsg(t, h1, f1, {}), FingerprintMsg(t, h2, f2, {n}) >>
      BY <2>6, <3>1
    <3>4. /\ IsReply(reply, t, n)
          /\ DOMAIN reply = {1, 2}
          /\ reply[1].range = h1 /\ reply[1].fingerprint = f1
          /\ reply[2].range = h2 /\ reply[2].fingerprint = f2
          /\ \A e : includes_entry(h1, e) \/ includes_entry(h2, e) =>
                Asked(reply, t, e) /\ Offered(reply, t, e)
      BY <2>9, <3>2, <3>3, FingerprintsForm
    <3> QED
      BY <3>1, <3>4
  <2>12. \A e \in Entry : includes_entry(r, e) => includes_entry(h1, e) \/ includes_entry(h2, e)
    BY <2>9, ReconcilerAssumption
  <2> QED
    BY <1>1, <2>11, <2>12
<1> QED
  BY <1>4, <1>5, <1>6

(* received_send_fingerprint.  Whatever one of the peers holds in the      *)
(* range and has held from the start, the other one has, or will be sent.  *)
LEMMA FingerprintReplies ==
    ASSUME SyncTypes, NEW p \in Peers, Stored(p), NEW m \in Items, m.type = "SendFingerprint",
           get_entries(Kept(Other(p)), m.range) \subseteq m.fingerprint,
           Dominates(stores[Other(p)], m.fingerprint),
           NEW n \in Nat, NEW reply, reply = FingerprintReply(p, m, n)
    PROVE  IsReply(reply, m.target, n) /\ Serves(p, m, reply)
<1> DEFINE t == m.target
           r == m.range
           es == get_entries(stores[p], r)
<1>1. t \in Targets /\ r \in Range3d /\ m.fingerprint \in SUBSET Entry
  BY ItemFields DEF IsHeader
<1>2. stores[p] \in SUBSET Entry /\ IsFiniteSet(stores[p]) /\ Frontier(stores[p]) = stores[p]
  BY PeerTypes DEF Stored
<1>3. es \in SUBSET stores[p]
  BY DEF get_entries
<1>4. Frontier(es) = es /\ IsFiniteSet(es) /\ es \in SUBSET Entry
  BY <1>2, <1>3, FrontierPart
<1>5. Kept(p) \subseteq stores[p]
  BY DEF Kept
<1>6. Kept(Other(p)) \subseteq Entry
  BY PeerTypes, TwoPeers DEF Kept
<1>7. \A e \in Kept(p) : includes_entry(r, e) => e \in es
  BY <1>5 DEF get_entries
<1>8. \A e \in Kept(Other(p)) : includes_entry(r, e) => e \in m.fingerprint
  BY DEF get_entries
<1>9. CASE es = m.fingerprint
  <2>1. reply = AnnounceMsgs(t, r, FALSE, {n}, {})
    BY <1>9 DEF FingerprintReply, fingerprint
  <2>2. {} \in SUBSET Entry /\ IsFiniteSet({}) /\ Frontier({}) = {}
    BY FS_EmptySet DEF Frontier
  <2>3. /\ IsReply(reply, t, n)
        /\ \A i \in DOMAIN reply : reply[i].type # "SendFingerprint"
    <3> HIDE DEF t, r
    <3> QED
      BY <1>1, <2>1, <2>2, AnnounceForm
  <2>4. \A e \in Kept(p) : includes_entry(r, e) => Dominates(stores[Other(p)], {e})
    BY <1>7, <1>9 DEF Dominates
  <2>5. \A e \in Kept(Other(p)) : includes_entry(r, e) => Dominates(stores[p], {e})
    BY <1>3, <1>8, <1>9 DEF Dominates
  <2> QED
    BY <2>3, <2>4, <2>5 DEF Serves
<1>10. CASE es # m.fingerprint /\ m.fingerprint = {}
  <2>1. reply = AnnounceMsgs(t, r, TRUE, {n}, es)
    BY <1>10 DEF FingerprintReply, fingerprint
  <2>2. /\ IsReply(reply, t, n)
        /\ \A i \in DOMAIN reply : reply[i].type # "SendFingerprint"
        /\ \A e \in es : Announces(reply, t, e)
    <3> HIDE DEF t, r, es
    <3> QED
      BY <1>1, <1>4, <2>1, AnnounceForm
  <2> QED
    BY <1>7, <1>8, <1>10, <2>2 DEF Serves
<1>11. CASE es # m.fingerprint /\ m.fingerprint # {}
  <2>1. reply = SplitReply(p, t, r, n)
    BY <1>11 DEF FingerprintReply, fingerprint
  <2>2. /\ IsReply(reply, t, n)
        /\ \A i \in DOMAIN reply : reply[i].type = "SendFingerprint" =>
              reply[i].fingerprint = get_entries(stores[p], reply[i].range)
        /\ \A e \in stores[p] : includes_entry(r, e) =>
              Offered(reply, t, e) \/ Announces(reply, t, e)
        /\ \A e \in Entry : includes_entry(r, e) => Asked(reply, t, e)
    <3> HIDE DEF t, r
    <3> QED
      BY <1>1, <2>1, SplitReplies
  <2>3. \A x : /\ get_entries(Kept(p), x) \subseteq get_entries(stores[p], x)
               /\ Dominates(stores[p], get_entries(stores[p], x))
    BY <1>5 DEF get_entries, Dominates
  <2> QED
    BY <1>5, <1>6, <2>2, <2>3 DEF Serves
<1> QED
  BY <1>9, <1>10, <1>11

(* The answer to an announcement.                                          *)
LEMMA AnnounceReplies ==
    ASSUME SyncTypes, NEW p \in Peers, Stored(p), NEW m \in Items, m.type = "AnnounceEntries",
           NEW n \in Nat, NEW reply,
           reply = AnnounceMsgs(m.target, m.range, FALSE, {n}, get_entries(stores[p], m.range))
    PROVE  IsReply(reply, m.target, n) /\ Serves(p, m, reply)
<1> DEFINE t == m.target
           r == m.range
           es == get_entries(stores[p], r)
<1>1. t \in Targets /\ r \in Range3d
  BY ItemFields DEF IsHeader
<1>2. stores[p] \in SUBSET Entry /\ IsFiniteSet(stores[p]) /\ Frontier(stores[p]) = stores[p]
  BY PeerTypes DEF Stored
<1>3. es \in SUBSET stores[p]
  BY DEF get_entries
<1>4. Frontier(es) = es /\ IsFiniteSet(es) /\ es \in SUBSET Entry
  BY <1>2, <1>3, FrontierPart
<1>5. \A e \in Kept(p) : includes_entry(r, e) => e \in es
  BY DEF get_entries, Kept
<1>6. /\ IsReply(reply, t, n)
      /\ \A i \in DOMAIN reply : reply[i].type # "SendFingerprint"
      /\ \A e \in es : Announces(reply, t, e)
  <2>1. reply = AnnounceMsgs(t, r, FALSE, {n}, es)
    OBVIOUS
  <2> HIDE DEF t, r, es
  <2> QED
    BY <1>1, <1>4, <2>1, AnnounceForm
<1> QED
  BY <1>5, <1>6 DEF Serves

-----------------------------------------------------------------------------
(* What is on its way, when something is sent or received.                 *)

(* What is offered, asked or coming stays so when more is sent behind it.  *)
LEMMA MoreIsSent ==
    ASSUME NEW s \in Seq(Items), NEW r \in Seq(Items), NEW t, NEW e, NEW current
    PROVE  /\ Offered(s, t, e) \/ Offered(r, t, e) => Offered(s \o r, t, e)
           /\ Asked(s, t, e) \/ Asked(r, t, e) => Asked(s \o r, t, e)
           /\ Coming(s, current, t, e) \/ Announces(r, t, e) => Coming(s \o r, current, t, e)
<1>1. PICK w : w = s \o r
  OBVIOUS
<1>2. /\ Len(s) \in Nat /\ Len(r) \in Nat /\ DOMAIN s = 1..Len(s) /\ DOMAIN r = 1..Len(r)
      /\ DOMAIN w = 1..(Len(s) + Len(r)) /\ w \in Seq(Items)
      /\ \A i \in DOMAIN s : w[i] = s[i] /\ i \in DOMAIN w
      /\ \A i \in DOMAIN r : w[Len(s) + i] = r[i] /\ Len(s) + i \in DOMAIN w
  BY <1>1, ConcatFields
<1>3. Offered(s, t, e) \/ Offered(r, t, e) => Offered(w, t, e)
  BY <1>2 DEF Offered
<1>4. Asked(s, t, e) \/ Asked(r, t, e) => Asked(w, t, e)
  BY <1>2 DEF Asked
<1>5. ASSUME Coming(s, current, t, e) PROVE Coming(w, current, t, e)
  <2>0. PICK i \in DOMAIN s : \E j \in 0..(i - 1) :
          /\ Brings(s[i], e)
          /\ IF j = 0 THEN t \in current ELSE HeaderOf(s[j], t)
          /\ \A k \in (j + 1)..i : ~ IsHeader(s[k])
    BY <1>5 DEF Coming
  <2>1. PICK j \in 0..(i - 1) :
          /\ Brings(s[i], e)
          /\ IF j = 0 THEN t \in current ELSE HeaderOf(s[j], t)
          /\ \A k \in (j + 1)..i : ~ IsHeader(s[k])
    BY <2>0
  <2>2. i \in DOMAIN w /\ Brings(w[i], e)
    BY <1>2, <2>1
  <2>3. j # 0 => j \in DOMAIN s
    BY <1>2
  <2>4. IF j = 0 THEN t \in current ELSE HeaderOf(w[j], t)
    BY <1>2, <2>1, <2>3
  <2>5. \A k \in (j + 1)..i : k \in DOMAIN s
    BY <1>2
  <2>6. \A k \in (j + 1)..i : ~ IsHeader(w[k])
    BY <1>2, <2>1, <2>5
  <2> QED
    BY <2>2, <2>4, <2>6 DEF Coming
<1>6. ASSUME Announces(r, t, e) PROVE Coming(w, current, t, e)
  <2>1. PICK j \in DOMAIN r : HeaderOf(r[j], t) /\ j + 1 \in DOMAIN r /\ Brings(r[j + 1], e)
    BY <1>6 DEF Announces
  <2>2. PICK a, b \in DOMAIN w : a = Len(s) + j /\ b = Len(s) + (j + 1)
    BY <1>2, <2>1
  <2>3. w[a] = r[j] /\ w[b] = r[j + 1]
    BY <1>2, <2>1, <2>2
  <2>4. b = a + 1 /\ a # 0 /\ a \in 0..(b - 1) /\ \A k \in (a + 1)..b : k = b
    BY <1>2, <2>1, <2>2
  <2>5. ~ IsHeader(w[b])
    BY <2>1, <2>3 DEF Brings, IsHeader
  <2>6. Brings(w[b], e) /\ HeaderOf(w[a], t)
    BY <2>1, <2>3
  <2>7. \A k \in (a + 1)..b : ~ IsHeader(w[k])
    BY <2>4, <2>5
  <2> QED
    BY <2>2, <2>4, <2>6, <2>7 DEF Coming
<1> QED
  BY <1>1, <1>3, <1>4, <1>5, <1>6

(* What is offered, asked or coming stays so when the first message is     *)
(* received, unless that message was the one.                              *)
LEMMA OneIsTaken ==
    ASSUME NEW s \in Seq(Items), s # << >>, NEW t, NEW e, NEW current, NEW next
    PROVE  /\ Offered(s, t, e) =>
                 \/ Offered(Tail(s), t, e)
                 \/ HeaderOf(Head(s), t) /\ Head(s).type = "SendFingerprint"
                    /\ includes_entry(Head(s).range, e)
           /\ Asked(s, t, e) =>
                 \/ Asked(Tail(s), t, e)
                 \/ Wants(Head(s), t) /\ includes_entry(Head(s).range, e)
           /\ /\ Coming(s, current, t, e)
              /\ IF IsHeader(Head(s))
                 THEN HeaderOf(Head(s), t) /\ Len(s) > 1 /\ ~ IsHeader(s[2]) => t \in next
                 ELSE t \in current /\ Len(s) > 1 /\ ~ IsHeader(s[2]) => t \in next
              => \/ Coming(Tail(s), next, t, e)
                 \/ t \in current /\ ~ IsHeader(Head(s)) /\ Brings(Head(s), e)
<1>1. PICK w : w = Tail(s)
  OBVIOUS
<1>2. /\ Len(s) \in Nat /\ Len(s) > 0 /\ s[1] = Head(s)
      /\ w \in Seq(Items) /\ Len(w) = Len(s) - 1
      /\ DOMAIN s = 1..Len(s) /\ DOMAIN w = 1..(Len(s) - 1)
      /\ \A i \in DOMAIN w : w[i] = s[i + 1] /\ i + 1 \in DOMAIN s
      /\ \A i \in DOMAIN s : i # 1 => i - 1 \in DOMAIN w /\ s[i] = w[i - 1]
  BY <1>1, TailFields
<1>3. Offered(s, t, e) =>
         \/ Offered(w, t, e)
         \/ HeaderOf(s[1], t) /\ s[1].type = "SendFingerprint" /\ includes_entry(s[1].range, e)
  BY <1>2 DEF Offered, HeaderOf, IsHeader
<1>4. Asked(s, t, e) => Asked(w, t, e) \/ (Wants(s[1], t) /\ includes_entry(s[1].range, e))
  BY <1>2 DEF Asked
<1>5. ASSUME Coming(s, current, t, e),
             IF IsHeader(s[1])
             THEN HeaderOf(s[1], t) /\ Len(s) > 1 /\ ~ IsHeader(s[2]) => t \in next
             ELSE t \in current /\ Len(s) > 1 /\ ~ IsHeader(s[2]) => t \in next
      PROVE  Coming(w, next, t, e) \/ (t \in current /\ ~ IsHeader(s[1]) /\ Brings(s[1], e))
  <2>0. PICK i \in DOMAIN s : \E j \in 0..(i - 1) :
          /\ Brings(s[i], e)
          /\ IF j = 0 THEN t \in current ELSE HeaderOf(s[j], t)
          /\ \A k \in (j + 1)..i : ~ IsHeader(s[k])
    BY <1>5 DEF Coming
  <2>1. PICK j \in 0..(i - 1) :
          /\ Brings(s[i], e)
          /\ IF j = 0 THEN t \in current ELSE HeaderOf(s[j], t)
          /\ \A k \in (j + 1)..i : ~ IsHeader(s[k])
    BY <2>0
  <2>2. i \in Nat /\ j \in Nat /\ i <= Len(s) /\ i >= 1 /\ j < i
    BY <1>2
  <2>3. CASE i = 1
    <3>1. j = 0 /\ 1 \in (j + 1)..i
      BY <2>2, <2>3
    <3> QED
      BY <2>1, <2>3, <3>1
  <2>4. CASE i # 1 /\ j > 1
    <3>1. PICK a, b \in DOMAIN w : a = i - 1 /\ b = j - 1
      BY <1>2, <2>2, <2>4
    <3>2. w[a] = s[i] /\ w[b] = s[j] /\ b \in 0..(a - 1) /\ b # 0 /\ j # 0
      <4>1. a + 1 = i /\ b + 1 = j /\ b \in 0..(a - 1) /\ b # 0 /\ j # 0
        BY <1>2, <2>2, <2>4, <3>1
      <4> QED
        BY <1>2, <4>1
    <3>3. ASSUME NEW k \in (b + 1)..a PROVE ~ IsHeader(w[k])
      <4>1. k \in DOMAIN w /\ k + 1 \in (j + 1)..i
        BY <1>2, <2>2, <2>4, <3>1
      <4> QED
        BY <1>2, <2>1, <4>1
    <3>4. Brings(w[a], e) /\ HeaderOf(w[b], t)
      BY <2>1, <3>2
    <3> QED
      BY <3>1, <3>2, <3>3, <3>4 DEF Coming
  <2>5. CASE i # 1 /\ j <= 1
    <3>1. PICK a \in DOMAIN w : a = i - 1
      BY <1>2, <2>2, <2>5
    <3>2. w[a] = s[i] /\ 0 \in 0..(a - 1)
      BY <1>2, <2>2, <2>5, <3>1
    <3>3. ASSUME NEW k \in (0 + 1)..a PROVE ~ IsHeader(w[k])
      <4>1. k \in DOMAIN w /\ k + 1 \in (j + 1)..i
        BY <1>2, <2>2, <2>5, <3>1
      <4> QED
        BY <1>2, <2>1, <4>1
    <3>4. Len(s) > 1 /\ ~ IsHeader(s[2])
      <4>1. 2 \in (j + 1)..i
        BY <2>2, <2>5
      <4> QED
        BY <2>1, <2>2, <2>5, <4>1
    <3>5. t \in next
      <4>1. CASE j = 0
        <5>1. 1 \in (j + 1)..i
          BY <2>2, <4>1
        <5> QED
          BY <1>5, <2>1, <3>4, <4>1, <5>1
      <4>2. CASE j = 1
        BY <1>5, <2>1, <3>4, <4>2 DEF HeaderOf
      <4> QED
        BY <2>2, <2>5, <4>1, <4>2
    <3>6. Brings(w[a], e)
      BY <2>1, <3>2
    <3> QED
      BY <3>1, <3>2, <3>3, <3>5, <3>6 DEF Coming
  <2> QED
    BY <2>2, <2>3, <2>4, <2>5
<1> QED
  BY <1>1, <1>2, <1>3, <1>4, <1>5

-----------------------------------------------------------------------------
(* p answers the announcement or the fingerprint m with reply.             *)

Answers(p, m, reply) ==
    /\ SyncTypes'
    /\ Pipeline(p) # << >> /\ m = Head(Pipeline(p)) /\ IsHeader(m)
    /\ Pipeline(p)' = Tail(Pipeline(p))
    /\ Pipeline(Other(p))' = Pipeline(Other(p)) \o reply
    /\ todo'[p] = reply /\ todo'[Other(p)] = todo[Other(p)]
    /\ entry_state'[p] = IF m.type = "AnnounceEntries" /\ ~ m.is_empty THEN {m.target} ELSE {}
    /\ entry_state'[Other(p)] = entry_state[Other(p)]
    /\ payload' = payload /\ stores' = stores /\ base' = base /\ failed' = failed
    /\ \A u \in Targets : targets'[Other(p)][u] = targets[Other(p)][u]
    /\ \A u \in Targets : u # m.target => targets'[p][u] = targets[p][u]
    /\ targets[p][m.target].status = "open" /\ targets'[p][m.target].status = "open"
    /\ targets'[p][m.target].started
    /\ LET T == targets[p][m.target]
           N == targets'[p][m.target]
           k == Wanting(reply, m.target)
       IN  /\ N.uncovered = (T.uncovered \ m.covers) \cup T.ours..(T.ours + k - 1)
           /\ N.ours = T.ours + k
           /\ N.theirs = T.theirs + (IF Wants(m, m.target) THEN 1 ELSE 0)
           /\ IsReply(reply, m.target, T.theirs)
    /\ IF Wants(m, m.target) THEN Serves(p, m, reply) ELSE reply = << >>

(* The headers of an answer belong to its target.                          *)
LEMMA ReplyHeaders ==
    ASSUME NEW reply, NEW t, NEW n, IsReply(reply, t, n)
    PROVE  /\ reply \in Seq(Items)
           /\ \A i \in DOMAIN reply : \A u : HeaderOf(reply[i], u) => u = t
           /\ \A u : u # t => Wanting(reply, u) = 0
<1>1. reply \in Seq(Items) /\ \A i \in DOMAIN reply : \A u : HeaderOf(reply[i], u) => u = t
  BY DEF IsReply, HeaderOf
<1>2. \A i \in DOMAIN reply : \A u : Wants(reply[i], u) => HeaderOf(reply[i], u)
  BY DEF Wants, HeaderOf, IsHeader
<1> QED
  BY <1>1, <1>2, WantingNone

(* The state of both peers before the answer.                              *)
LEMMA AnswerTypes ==
    ASSUME ReconcilerInv, NEW p \in Peers, NEW m, NEW reply, Answers(p, m, reply)
    PROVE  /\ Pipeline(p) \in Seq(Items) /\ Pipeline(Other(p)) \in Seq(Items)
           /\ reply \in Seq(Items) /\ m \in Items /\ m.target \in Targets
           /\ m.covers \in SUBSET Nat
           /\ HeaderOf(m, m.target) /\ 1 \in DOMAIN Pipeline(p) /\ Pipeline(p)[1] = m
           /\ Other(p) \in Peers /\ Other(Other(p)) = p
           /\ entry_state[p] = {} /\ ~ payload[p]
<1>1. Other(p) \in Peers /\ Other(Other(p)) = p
  BY TwoPeers
<1>2. Pipeline(p) \in Seq(Items) /\ Pipeline(Other(p)) \in Seq(Items)
  BY <1>1, PeerTypes DEF ReconcilerInv
<1>3. reply \in Seq(Items)
  BY DEF Answers, IsReply
<1>4. /\ Pipeline(p) # << >> /\ m = Head(Pipeline(p)) /\ IsHeader(m)
  BY DEF Answers
<1>5. m \in Items /\ 1 \in DOMAIN Pipeline(p) /\ Pipeline(p)[1] = m
  BY <1>2, <1>4, TailFields
<1>6. m.target \in Targets /\ m.covers \in SUBSET Nat
  BY <1>4, <1>5, ItemFields
<1>7. HeaderOf(m, m.target)
  BY <1>4 DEF HeaderOf
<1>8. entry_state[p] = {} /\ ~ payload[p]
  <2>1. Framed(p)
    BY DEF ReconcilerInv
  <2>2. Needs(m) = Mode(p)
    BY <1>2, <1>4, <2>1, LeadsTail DEF Framed
  <2>3. Mode(p) = "header"
    BY <1>4, <2>2 DEF Needs
  <2>4. entry_state[p] = {}
    BY <2>3 DEF Mode
  <2> QED
    BY <2>1, <2>4 DEF Framed
<1> QED
  BY <1>1, <1>2, <1>3, <1>5, <1>6, <1>7, <1>8

(* Answers keeps Framed: an answer begins and ends where a header is due.  *)
LEMMA AnswerKeepsFrames ==
    ASSUME ReconcilerInv, NEW p \in Peers, NEW m, NEW reply, Answers(p, m, reply)
    PROVE  Framed(p)' /\ Framed(Other(p))'
<1> DEFINE o == Other(p)
<1>1. /\ Pipeline(p) \in Seq(Items) /\ Pipeline(o) \in Seq(Items)
      /\ reply \in Seq(Items) /\ m \in Items /\ m.target \in Targets
      /\ o \in Peers /\ Other(o) = p
      /\ entry_state[p] = {} /\ ~ payload[p]
  BY AnswerTypes
<1>2. /\ Pipeline(p) # << >> /\ m = Head(Pipeline(p)) /\ IsHeader(m)
      /\ Pipeline(p)' = Tail(Pipeline(p)) /\ Pipeline(o)' = Pipeline(o) \o reply
      /\ todo'[p] = reply /\ todo'[o] = todo[o]
      /\ entry_state'[p] = IF m.type = "AnnounceEntries" /\ ~ m.is_empty THEN {m.target} ELSE {}
      /\ entry_state'[o] = entry_state[o] /\ payload' = payload
      /\ IsReply(reply, m.target, targets[p][m.target].theirs)
  BY DEF Answers
<1>3. Framed(p) /\ Framed(o)
  BY <1>1 DEF ReconcilerInv
<1>4. Mode(p)' = Leaves(m)
  <2>1. CASE m.type = "AnnounceEntries" /\ ~ m.is_empty
    BY <1>1, <1>2, <2>1 DEF Mode, Leaves
  <2>2. CASE ~ (m.type = "AnnounceEntries" /\ ~ m.is_empty)
    BY <1>1, <1>2, <2>2, ItemFields DEF Mode, Leaves, IsHeader
  <2> QED
    BY <2>1, <2>2
<1>5. Leads(Leaves(m), Tail(Pipeline(p)), "header")
  BY <1>1, <1>2, <1>3, LeadsTail DEF Framed
<1>6. Framed(p)'
  <2>1. /\ entry_state'[p] # {} => \E t \in Targets : entry_state'[p] = {t}
        /\ entry_state'[p] = {} => ~ payload'[p]
    BY <1>1, <1>2
  <2>2. Leads(Mode(p)', Pipeline(p)', "header")
    BY <1>2, <1>4, <1>5
  <2>3. \A i \in DOMAIN todo'[p] : todo'[p][i].type = "Iterator" =>
          /\ i = Len(todo'[p])
          /\ todo'[p][i].entries # {} /\ IsFiniteSet(todo'[p][i].entries)
          /\ Frontier(todo'[p][i].entries) = todo'[p][i].entries
    BY <1>2 DEF IsReply
  <2> QED
    BY <2>1, <2>2, <2>3 DEF Framed
<1>7. Mode(o)' = Mode(o)
  BY <1>2 DEF Mode
<1>8. Leads(Mode(o), Pipeline(o) \o reply, "header")
  <2>1. Leads(Mode(o), Pipeline(o), "header") /\ Leads("header", reply, "header")
    BY <1>2, <1>3 DEF Framed, IsReply
  <2> QED
    BY <1>1, <2>1, LeadsConcat
<1>9. Framed(o)'
  BY <1>2, <1>3, <1>7, <1>8 DEF Framed
<1> QED
  BY <1>6, <1>9

(* Answers keeps Numbered of the peer that answers: what it covers is      *)
(* struck off once, and its new requests get the next numbers.             *)
LEMMA AnswerKeepsOurBooks ==
    ASSUME ReconcilerInv, NEW p \in Peers, NEW m, NEW reply, Answers(p, m, reply)
    PROVE  Numbered(p)'
<1>1. PICK o, s, w, t : o = Other(p) /\ s = Pipeline(p) /\ w = Pipeline(Other(p)) /\ t = m.target
  OBVIOUS
<1>2. /\ s \in Seq(Items) /\ w \in Seq(Items) /\ s # << >>
      /\ reply \in Seq(Items) /\ t \in Targets /\ m.covers \in SUBSET Nat
      /\ HeaderOf(m, t) /\ 1 \in DOMAIN s /\ s[1] = m /\ o \in Peers
  <2>1. Pipeline(p) # << >> /\ m = Head(Pipeline(p))
    BY DEF Answers
  <2> QED
    BY <1>1, <2>1, AnswerTypes
<1>3. /\ Pipeline(p)' = Tail(s) /\ Pipeline(o)' = w \o reply
      /\ \A u \in Targets : targets'[o][u] = targets[o][u]
      /\ \A u \in Targets : u # t => targets'[p][u] = targets[p][u]
      /\ IsReply(reply, t, targets[p][t].theirs)
  BY <1>1 DEF Answers
<1>4. Numbered(p)
  BY DEF ReconcilerInv
<1> SUFFICES ASSUME NEW u \in Targets
             PROVE  /\ targets'[p][u].ours = targets'[o][u].theirs + Wanting(w \o reply, u)
                    /\ targets'[o][u].theirs..(targets'[p][u].ours - 1) \subseteq targets'[p][u].uncovered
                    /\ \A i \in DOMAIN Tail(s) : HeaderOf(Tail(s)[i], u) =>
                          /\ Tail(s)[i].covers \subseteq targets'[p][u].uncovered
                          /\ Tail(s)[i].covers \subseteq 0..(targets'[o][u].theirs - 1)
                          /\ \A j \in DOMAIN Tail(s) : HeaderOf(Tail(s)[j], u) /\ i # j =>
                                Tail(s)[i].covers \cap Tail(s)[j].covers = {}
  BY <1>1, <1>3 DEF Numbered
<1>5. PICK ours, counted, unc : /\ ours = targets[p][u].ours /\ counted = targets[o][u].theirs
                                /\ unc = targets[p][u].uncovered
  OBVIOUS
<1>6. ours \in Nat /\ counted \in Nat /\ unc \in SUBSET Nat
  BY <1>2, <1>5, PeerTypes DEF ReconcilerInv
<1>7. /\ ours = counted + Wanting(w, u)
      /\ counted..(ours - 1) \subseteq unc
      /\ \A i \in DOMAIN s : HeaderOf(s[i], u) =>
            /\ s[i].covers \subseteq unc
            /\ s[i].covers \subseteq 0..(counted - 1)
            /\ \A j \in DOMAIN s : HeaderOf(s[j], u) /\ i # j => s[i].covers \cap s[j].covers = {}
  BY <1>1, <1>4, <1>5 DEF Numbered
<1>8. Wanting(w \o reply, u) = Wanting(w, u) + Wanting(reply, u) /\ Wanting(w, u) \in Nat
      /\ Wanting(reply, u) \in Nat
  BY <1>2, WantingConcat, WaitingIsFinite
<1>9. \A i \in DOMAIN Tail(s) : i + 1 \in DOMAIN s /\ Tail(s)[i] = s[i + 1] /\ i + 1 # 1 /\ i \in Nat
  BY <1>2, TailFields
<1>10. \A i \in DOMAIN Tail(s) : HeaderOf(Tail(s)[i], u) =>
            /\ Tail(s)[i].covers \subseteq unc
            /\ Tail(s)[i].covers \subseteq 0..(counted - 1)
            /\ \A j \in DOMAIN Tail(s) : HeaderOf(Tail(s)[j], u) /\ i # j =>
                  Tail(s)[i].covers \cap Tail(s)[j].covers = {}
  <2> SUFFICES ASSUME NEW i \in DOMAIN Tail(s), HeaderOf(Tail(s)[i], u)
               PROVE  /\ Tail(s)[i].covers \subseteq unc
                      /\ Tail(s)[i].covers \subseteq 0..(counted - 1)
                      /\ \A j \in DOMAIN Tail(s) : HeaderOf(Tail(s)[j], u) /\ i # j =>
                            Tail(s)[i].covers \cap Tail(s)[j].covers = {}
    OBVIOUS
  <2>1. i + 1 \in DOMAIN s /\ Tail(s)[i] = s[i + 1] /\ HeaderOf(s[i + 1], u) /\ i \in Nat
    BY <1>9
  <2>2. ASSUME NEW j \in DOMAIN Tail(s), HeaderOf(Tail(s)[j], u), i # j
        PROVE  Tail(s)[i].covers \cap Tail(s)[j].covers = {}
    <3>1. j + 1 \in DOMAIN s /\ Tail(s)[j] = s[j + 1] /\ HeaderOf(s[j + 1], u) /\ j + 1 # i + 1
      BY <1>9, <2>1, <2>2
    <3> QED
      BY <1>7, <2>1, <3>1
  <2> QED
    BY <1>7, <2>1, <2>2
<1>11. CASE u # t
  <2>1. targets'[p][u] = targets[p][u] /\ targets'[o][u] = targets[o][u] /\ Wanting(reply, u) = 0
    BY <1>3, <1>11, ReplyHeaders
  <2>2. ours = counted + Wanting(w \o reply, u)
    BY <1>6, <1>7, <1>8, <2>1
  <2>3. /\ targets'[p][u].ours = ours /\ targets'[o][u].theirs = counted
        /\ targets'[p][u].uncovered = unc
    BY <1>5, <2>1
  <2> QED
    BY <1>7, <1>10, <2>2, <2>3
<1>12. CASE u = t
  <2>1. PICK k \in Nat : k = Wanting(reply, t)
    BY <1>8, <1>12
  <2>2. /\ targets'[p][u].uncovered = (unc \ m.covers) \cup ours..(ours + k - 1)
        /\ targets'[p][u].ours = ours + k /\ targets'[o][u].theirs = counted
    BY <1>1, <1>3, <1>5, <1>12, <2>1 DEF Answers
  <2>3. m.covers \subseteq 0..(counted - 1)
    BY <1>2, <1>7, <1>12
  <2>4. targets'[p][u].ours = targets'[o][u].theirs + Wanting(w \o reply, u)
    BY <1>6, <1>7, <1>8, <1>12, <2>1, <2>2
  <2>5. counted..((ours + k) - 1) \subseteq (unc \ m.covers) \cup ours..(ours + k - 1)
    <3> SUFFICES ASSUME NEW x \in counted..((ours + k) - 1)
                 PROVE  x \in (unc \ m.covers) \cup ours..(ours + k - 1)
      OBVIOUS
    <3>1. x \in Int /\ counted <= x /\ x <= (ours + k) - 1 /\ x \notin m.covers
      BY <1>6, <2>1, <2>3
    <3>2. CASE x < ours
      BY <1>6, <1>7, <3>1, <3>2
    <3>3. CASE x >= ours
      BY <1>6, <2>1, <3>1, <3>3
    <3> QED
      BY <1>6, <3>1, <3>2, <3>3
  <2>6. \A i \in DOMAIN Tail(s) : HeaderOf(Tail(s)[i], u) =>
            Tail(s)[i].covers \subseteq (unc \ m.covers) \cup ours..(ours + k - 1)
    <3> SUFFICES ASSUME NEW i \in DOMAIN Tail(s), HeaderOf(Tail(s)[i], u)
                 PROVE  Tail(s)[i].covers \subseteq unc \ m.covers
      OBVIOUS
    <3>1. i + 1 \in DOMAIN s /\ Tail(s)[i] = s[i + 1] /\ HeaderOf(s[i + 1], u) /\ i + 1 # 1
      BY <1>9
    <3>2. s[i + 1].covers \cap m.covers = {}
      BY <1>2, <1>7, <1>12, <3>1
    <3> QED
      BY <1>10, <3>1, <3>2
  <2> QED
    BY <1>10, <2>2, <2>4, <2>5, <2>6
<1> QED
  BY <1>11, <1>12

(* Answers keeps Numbered of the other peer: one more request is counted,  *)
(* and the answer covers that number and no other.                         *)
LEMMA AnswerKeepsTheirBooks ==
    ASSUME ReconcilerInv, NEW p \in Peers, NEW m, NEW reply, Answers(p, m, reply)
    PROVE  Numbered(Other(p))'
<1> DEFINE o == Other(p)
<1>1. PICK s, w, t : s = Pipeline(o) /\ w = Pipeline(p) /\ t = m.target
  OBVIOUS
<1>2. /\ s \in Seq(Items) /\ w \in Seq(Items) /\ w # << >> /\ Head(w) = m
      /\ reply \in Seq(Items) /\ t \in Targets /\ o \in Peers /\ Other(o) = p
  <2>1. Pipeline(p) # << >> /\ m = Head(Pipeline(p))
    BY DEF Answers
  <2> QED
    BY <1>1, <2>1, AnswerTypes
<1>3. /\ Pipeline(p)' = Tail(w) /\ Pipeline(o)' = s \o reply
      /\ \A u \in Targets : targets'[o][u] = targets[o][u]
      /\ \A u \in Targets : u # t => targets'[p][u] = targets[p][u]
      /\ IsReply(reply, t, targets[p][t].theirs)
      /\ targets'[p][t].theirs = targets[p][t].theirs + (IF Wants(m, t) THEN 1 ELSE 0)
      /\ ~ Wants(m, t) => reply = << >>
  BY <1>1 DEF Answers
<1>4. Numbered(o)
  BY <1>2 DEF ReconcilerInv
<1>20. PICK x : x = s \o reply
  OBVIOUS
<1> SUFFICES ASSUME NEW u \in Targets
             PROVE  /\ targets'[o][u].ours = targets'[p][u].theirs + Wanting(Tail(w), u)
                    /\ targets'[p][u].theirs..(targets'[o][u].ours - 1) \subseteq targets'[o][u].uncovered
                    /\ \A i \in DOMAIN x : HeaderOf(x[i], u) =>
                          /\ x[i].covers \subseteq targets'[o][u].uncovered
                          /\ x[i].covers \subseteq 0..(targets'[p][u].theirs - 1)
                          /\ \A j \in DOMAIN x : HeaderOf(x[j], u) /\ i # j =>
                                x[i].covers \cap x[j].covers = {}
  <2>1. chan'[o] \o todo'[p] = x /\ chan'[p] \o todo'[o] = Tail(w)
    BY <1>2, <1>3, <1>20 DEF Pipeline
  <2>2. ASSUME NEW u \in Targets
        PROVE  LET y == chan'[o] \o todo'[Other(o)]
                   counted == targets'[Other(o)][u].theirs
               IN  /\ targets'[o][u].ours = counted + Wanting(chan'[Other(o)] \o todo'[Other(Other(o))], u)
                   /\ counted..(targets'[o][u].ours - 1) \subseteq targets'[o][u].uncovered
                   /\ \A i \in DOMAIN y : HeaderOf(y[i], u) =>
                         /\ y[i].covers \subseteq targets'[o][u].uncovered
                         /\ y[i].covers \subseteq 0..(counted - 1)
                         /\ \A j \in DOMAIN y : HeaderOf(y[j], u) /\ i # j =>
                               y[i].covers \cap y[j].covers = {}
    <3>1. chan'[o] \o todo'[Other(o)] = x /\ chan'[Other(o)] \o todo'[Other(Other(o))] = Tail(w)
      BY <1>2, <2>1
    <3>2. targets'[Other(o)][u].theirs = targets'[p][u].theirs
      BY <1>2
    <3> QED
      BY <3>1, <3>2
  <2> QED
    BY <2>2 DEF Numbered, Pipeline
<1> HIDE DEF o
<1>5. PICK ours, counted, unc : /\ ours = targets[o][u].ours /\ counted = targets[p][u].theirs
                                /\ unc = targets[o][u].uncovered
  OBVIOUS
<1>6. ours \in Nat /\ counted \in Nat /\ unc \in SUBSET Nat
  BY <1>2, <1>5, PeerTypes DEF ReconcilerInv
<1>7. /\ ours = counted + Wanting(w, u)
      /\ counted..(ours - 1) \subseteq unc
      /\ \A i \in DOMAIN s : HeaderOf(s[i], u) =>
            /\ s[i].covers \subseteq unc
            /\ s[i].covers \subseteq 0..(counted - 1)
            /\ \A j \in DOMAIN s : HeaderOf(s[j], u) /\ i # j => s[i].covers \cap s[j].covers = {}
  BY <1>1, <1>2, <1>4, <1>5 DEF Numbered
<1>8. /\ Wanting(w, u) = Wanting(Tail(w), u) + (IF Wants(m, u) THEN 1 ELSE 0)
      /\ Wanting(Tail(w), u) \in Nat
  BY <1>2, WantingTail, WaitingIsFinite, TailFields
<1>9. /\ \A i \in DOMAIN s : x[i] = s[i]
      /\ \A i \in DOMAIN x : i \in DOMAIN s \/ (i \notin DOMAIN s /\ i - Len(s) \in DOMAIN reply
                                                /\ x[i] = reply[i - Len(s)])
      /\ Len(s) \in Nat /\ DOMAIN x = 1..(Len(s) + Len(reply)) /\ Len(reply) \in Nat
  <2>1. /\ s \in Seq(Items) /\ reply \in Seq(Items)
    BY <1>2
  <2>2. \A i \in DOMAIN s : (s \o reply)[i] = s[i]
    BY <2>1, ConcatFields
  <2>3. \A i \in DOMAIN (s \o reply) : i \in DOMAIN s \/ (i \notin DOMAIN s /\ i - Len(s) \in DOMAIN reply
                                                /\ (s \o reply)[i] = reply[i - Len(s)])
    BY <2>1, ConcatFields
  <2>4. Len(s) \in Nat /\ DOMAIN (s \o reply) = 1..(Len(s) + Len(reply)) /\ Len(reply) \in Nat
    BY <2>1, ConcatFields
  <2> QED
    BY <1>20, <2>2, <2>3, <2>4
<1>10. \A i \in DOMAIN reply : HeaderOf(reply[i], u) => u = t
  BY <1>3, ReplyHeaders
<1>11. targets'[o][u].ours = ours /\ targets'[o][u].uncovered = unc
  BY <1>3, <1>5
<1>12. CASE u # t \/ ~ Wants(m, t)
  <2>1. targets'[p][u].theirs = counted
    BY <1>3, <1>5, <1>6, <1>12
  <2>2. ~ Wants(m, u)
    BY <1>1, <1>12 DEF Wants
  <2>3. \A i \in DOMAIN x : HeaderOf(x[i], u) => i \in DOMAIN s /\ x[i] = s[i]
    <3>1. CASE u # t
      BY <1>9, <1>10, <3>1
    <3>2. CASE ~ Wants(m, t)
      <4>1. DOMAIN reply = {}
        BY <1>3, <3>2
      <4> QED
        BY <1>9, <4>1
    <3> QED
      BY <1>12, <3>1, <3>2
  <2>4. ours = counted + Wanting(Tail(w), u)
    BY <1>6, <1>7, <1>8, <2>2
  <2>5. \A i \in DOMAIN x : HeaderOf(x[i], u) =>
            /\ x[i].covers \subseteq unc /\ x[i].covers \subseteq 0..(counted - 1)
            /\ \A j \in DOMAIN x : HeaderOf(x[j], u) /\ i # j => x[i].covers \cap x[j].covers = {}
    BY <1>7, <2>3
  <2> QED
    BY <1>7, <1>11, <2>1, <2>4, <2>5
<1>13. CASE u = t /\ Wants(m, t)
  <2>1. targets'[p][u].theirs = counted + 1 /\ Wanting(w, u) = Wanting(Tail(w), u) + 1
    BY <1>3, <1>5, <1>8, <1>13
  <2>2. ours = (counted + 1) + Wanting(Tail(w), u) /\ counted < ours
    BY <1>6, <1>7, <1>8, <2>1
  <2>3. counted \in unc
    BY <1>6, <1>7, <2>2
  <2>4. (counted + 1)..(ours - 1) \subseteq unc
    BY <1>6, <1>7
  <2>5. ASSUME NEW i \in DOMAIN x, HeaderOf(x[i], u), i \in DOMAIN s
        PROVE  x[i].covers \subseteq unc /\ x[i].covers \subseteq 0..(counted - 1)
    BY <1>7, <1>9, <2>5
  <2>6. ASSUME NEW i \in DOMAIN x, HeaderOf(x[i], u), i \notin DOMAIN s
        PROVE  x[i].covers \subseteq {counted} /\ x[i] = reply[i - Len(s)] /\ i - Len(s) \in DOMAIN reply
    <3>1. x[i] = reply[i - Len(s)] /\ i - Len(s) \in DOMAIN reply
      BY <1>9, <2>6
    <3> QED
      BY <1>3, <1>5, <1>13, <2>6, <3>1 DEF IsReply, HeaderOf
  <2>7. ASSUME NEW i \in DOMAIN x, HeaderOf(x[i], u)
        PROVE  x[i].covers \subseteq unc /\ x[i].covers \subseteq 0..((counted + 1) - 1)
    <3>1. CASE i \in DOMAIN s
      BY <1>6, <2>5, <2>7, <3>1
    <3>2. CASE i \notin DOMAIN s
      BY <1>6, <2>3, <2>6, <2>7, <3>2
    <3> QED
      BY <3>1, <3>2
  <2>8. ASSUME NEW i \in DOMAIN x, HeaderOf(x[i], u), NEW j \in DOMAIN x, HeaderOf(x[j], u), i # j
        PROVE  x[i].covers \cap x[j].covers = {}
    <3>1. CASE i \in DOMAIN s /\ j \in DOMAIN s
      BY <1>7, <1>9, <2>8, <3>1
    <3>2. CASE i \in DOMAIN s /\ j \notin DOMAIN s
      BY <1>6, <2>5, <2>6, <2>8, <3>2
    <3>3. CASE i \notin DOMAIN s /\ j \in DOMAIN s
      BY <1>6, <2>5, <2>6, <2>8, <3>3
    <3>4. CASE i \notin DOMAIN s /\ j \notin DOMAIN s
      <4>1. PICK a, b \in DOMAIN reply : /\ a = i - Len(s) /\ b = j - Len(s)
                                         /\ x[i] = reply[a] /\ x[j] = reply[b]
        BY <2>6, <2>8, <3>4
      <4>2. a # b
        BY <1>9, <2>8, <4>1
      <4>3. IsHeader(reply[a]) /\ IsHeader(reply[b])
        BY <2>8, <4>1 DEF HeaderOf
      <4> QED
        BY <1>3, <4>1, <4>2, <4>3 DEF IsReply
    <3> QED
      BY <3>1, <3>2, <3>3, <3>4
  <2>9. targets'[o][u].ours = targets'[p][u].theirs + Wanting(Tail(w), u)
    BY <1>11, <2>1, <2>2
  <2> QED
    BY <1>11, <2>1, <2>4, <2>7, <2>8, <2>9
<1> QED
  BY <1>12, <1>13

(* An answer, as the lemmas below use it: s is on its way to p, w to the   *)
(* other peer.                                                             *)
AnswerFacts(p, m, reply, s, w, t) ==
           /\ s = Pipeline(p) /\ w = Pipeline(Other(p)) /\ t = m.target
           /\ s \in Seq(Items) /\ w \in Seq(Items) /\ s # << >> /\ m = Head(s) /\ m \in Items
           /\ reply \in Seq(Items) /\ t \in Targets /\ m.covers \in SUBSET Nat
           /\ HeaderOf(m, t) /\ IsHeader(m) /\ 1 \in DOMAIN s /\ s[1] = m
           /\ Other(p) \in Peers /\ Other(Other(p)) = p
           /\ Pipeline(p)' = Tail(s) /\ Pipeline(Other(p))' = w \o reply
           /\ Pipeline(Other(Other(p)))' = Tail(s)
           /\ \A u \in Targets : targets'[Other(p)][u] = targets[Other(p)][u]
           /\ \A u \in Targets : u # t => targets'[p][u] = targets[p][u]
           /\ targets[p][t].status = "open" /\ targets'[p][t].status = "open"
           /\ targets'[p][t].started
           /\ IsReply(reply, t, targets[p][t].theirs)
           /\ ~ Wants(m, t) => reply = << >>
           /\ Wants(m, t) => Serves(p, m, reply)

(* The facts about an answer that the proofs of the other parts share.     *)
LEMMA AnswerParts ==
    ASSUME ReconcilerInv, NEW p \in Peers, NEW m, NEW reply, Answers(p, m, reply)
    PROVE  \E s, w, t : AnswerFacts(p, m, reply, s, w, t)
<1>0. PICK s, w, t : s = Pipeline(p) /\ w = Pipeline(Other(p)) /\ t = m.target
  OBVIOUS
<1>1. /\ s \in Seq(Items) /\ w \in Seq(Items) /\ m \in Items /\ reply \in Seq(Items)
      /\ t \in Targets /\ m.covers \in SUBSET Nat /\ HeaderOf(m, t) /\ 1 \in DOMAIN s /\ s[1] = m
      /\ Other(p) \in Peers /\ Other(Other(p)) = p
  BY <1>0, AnswerTypes
<1>2. Pipeline(Other(Other(p)))' = Pipeline(p)'
  BY <1>1 DEF Pipeline
<1>3. AnswerFacts(p, m, reply, s, w, t)
  BY <1>0, <1>1, <1>2 DEF Answers, AnswerFacts
<1> QED
  BY <1>3

(* Answers keeps Uncovering: only the first half of a split covers         *)
(* nothing.                                                                *)
LEMMA AnswerKeepsUncovering ==
    ASSUME ReconcilerInv, NEW p \in Peers, NEW m, NEW reply, Answers(p, m, reply)
    PROVE  Uncovering(p)' /\ Uncovering(Other(p))'
<1>0. PICK s, w, t : AnswerFacts(p, m, reply, s, w, t)
  BY AnswerParts
<1>1. s = Pipeline(p) /\ w = Pipeline(Other(p)) /\ t = m.target
  BY <1>0 DEF AnswerFacts
<1>2. /\ s \in Seq(Items) /\ w \in Seq(Items) /\ s # << >> /\ m = Head(s) /\ m \in Items
      /\ reply \in Seq(Items) /\ t \in Targets
      /\ HeaderOf(m, t) /\ IsHeader(m) /\ 1 \in DOMAIN s /\ s[1] = m
      /\ Other(p) \in Peers /\ Other(Other(p)) = p
      /\ Pipeline(p)' = Tail(s) /\ Pipeline(Other(p))' = w \o reply
      /\ \A u \in Targets : targets'[Other(p)][u] = targets[Other(p)][u]
      /\ \A u \in Targets : u # t => targets'[p][u] = targets[p][u]
      /\ IsReply(reply, t, targets[p][t].theirs)
  BY <1>0 DEF AnswerFacts
<1>3. Uncovering(p) /\ Uncovering(Other(p)) /\ Numbered(p) /\ Numbered(Other(p)) /\ Started(p)
  BY <1>2 DEF ReconcilerInv
<1>4. Uncovering(p)'
  <2>1. PICK x : x = Tail(s)
    OBVIOUS
  <2>2. /\ Len(s) \in Nat /\ x \in Seq(Items) /\ Len(x) = Len(s) - 1
        /\ DOMAIN s = 1..Len(s) /\ DOMAIN x = 1..(Len(s) - 1)
        /\ \A i \in DOMAIN x : x[i] = s[i + 1] /\ i + 1 \in DOMAIN s
    BY <1>2, <2>1, TailFields
  <2>3. ASSUME NEW i \in DOMAIN x, IsHeader(x[i]), x[i].covers = {}
        PROVE  /\ x[i].type = "SendFingerprint"
               /\ \/ i < Len(x) /\ HeaderOf(x[i + 1], x[i].target) /\ x[i + 1].covers # {}
                  \/ p = "betty" /\ ~ targets'[p][x[i].target].started
    <3>1. i \in Nat /\ i >= 1 /\ i <= Len(s) - 1 /\ i + 1 \in DOMAIN s /\ x[i] = s[i + 1] /\ x[i] \in Items
      BY <2>2
    <3>2. /\ s[i + 1].type = "SendFingerprint"
          /\ \/ i + 1 < Len(s) /\ HeaderOf(s[(i + 1) + 1], s[i + 1].target) /\ s[(i + 1) + 1].covers # {}
             \/ p = "betty" /\ ~ targets[p][s[i + 1].target].started
      BY <1>1, <1>3, <2>3, <3>1 DEF Uncovering
    <3>3. CASE i + 1 < Len(s) /\ HeaderOf(s[(i + 1) + 1], s[i + 1].target) /\ s[(i + 1) + 1].covers # {}
      <4>1. i + 1 \in DOMAIN x /\ i < Len(x)
        BY <2>2, <3>1, <3>3
      <4>2. x[i + 1] = s[(i + 1) + 1]
        BY <2>2, <4>1
      <4> QED
        BY <3>1, <3>2, <3>3, <4>1, <4>2
    <3>4. CASE p = "betty" /\ ~ targets[p][s[i + 1].target].started
      <4>1. x[i].target \in Targets
        BY <2>3, <3>1, ItemFields
      <4>2. CASE x[i].target # t
        BY <1>2, <3>1, <3>2, <3>4, <4>1, <4>2
      <4>3. CASE x[i].target = t
        <5>1. /\ targets[p][t].uncovered = {} /\ targets["alfie"][t].ours <= 1 /\ Other(p) = "alfie"
          BY <1>2, <1>3, <3>1, <3>4, <4>3, TwoPeers DEF Started
        <5>2. m.covers \subseteq targets[p][t].uncovered
          BY <1>1, <1>2, <1>3 DEF Numbered
        <5>3. m.type = "SendFingerprint"
          BY <1>1, <1>2, <1>3, <5>1, <5>2 DEF Uncovering
        <5>4. Wants(m, t) /\ Wants(x[i], t)
          BY <1>2, <3>1, <3>2, <4>3, <5>3 DEF Wants, HeaderOf
        <5>5. Wanting(x, t) \in Nat /\ Wanting(x, t) # 0
          BY <2>2, <5>4, WantingNone, WaitingIsFinite
        <5>6. Wanting(s, t) = Wanting(x, t) + 1
          BY <1>2, <2>1, <5>4, WantingTail
        <5>7. targets[Other(p)][t].ours = targets[p][t].theirs + Wanting(s, t)
          BY <1>1, <1>2, <1>3 DEF Numbered
        <5>8. targets[p][t].theirs \in Nat
          BY <1>2, PeerTypes DEF ReconcilerInv
        <5> QED
          BY <5>1, <5>5, <5>6, <5>7, <5>8
      <4> QED
        BY <4>2, <4>3
    <3> QED
      BY <3>2, <3>3, <3>4
  <2> QED
    BY <1>2, <2>1, <2>3 DEF Uncovering
<1>5. Uncovering(Other(p))'
  <2>1. PICK x : x = w \o reply
    OBVIOUS
  <2>2. /\ Len(w) \in Nat /\ Len(reply) \in Nat
        /\ Len(x) = Len(w) + Len(reply) /\ DOMAIN x = 1..(Len(w) + Len(reply))
        /\ DOMAIN w = 1..Len(w) /\ DOMAIN reply = 1..Len(reply)
    <3>1. /\ Len(w) \in Nat /\ Len(reply) \in Nat /\ Len(w \o reply) = Len(w) + Len(reply)
      BY <1>2, ConcatFields
    <3>2. /\ DOMAIN (w \o reply) = 1..(Len(w) + Len(reply))
          /\ DOMAIN w = 1..Len(w) /\ DOMAIN reply = 1..Len(reply)
      BY <1>2, ConcatFields
    <3> QED
      BY <2>1, <3>1, <3>2
  <2>10. w \in Seq(Items) /\ reply \in Seq(Items)
    BY <1>2
  <2>3. \A i \in DOMAIN w : x[i] = w[i]
    <3>1. \A i \in DOMAIN w : (w \o reply)[i] = w[i]
      BY <2>10, ConcatFields
    <3> QED
      BY <2>1, <3>1
  <2>4. \A i \in DOMAIN reply : x[Len(w) + i] = reply[i]
    <3>1. \A i \in DOMAIN reply : (w \o reply)[Len(w) + i] = reply[i]
      BY <2>10, ConcatFields
    <3> QED
      BY <2>1, <3>1
  <2>5. ASSUME NEW i \in DOMAIN x, IsHeader(x[i]), x[i].covers = {}
        PROVE  /\ x[i].type = "SendFingerprint"
               /\ \/ i < Len(x) /\ HeaderOf(x[i + 1], x[i].target) /\ x[i + 1].covers # {}
                  \/ Other(p) = "betty" /\ ~ targets'[Other(p)][x[i].target].started
    <3>1. CASE i \in DOMAIN w
      <4>1. x[i] = w[i] /\ w[i] \in Items
        BY <1>2, <2>3, <3>1
      <4>2. /\ w[i].type = "SendFingerprint"
            /\ \/ i < Len(w) /\ HeaderOf(w[i + 1], w[i].target) /\ w[i + 1].covers # {}
               \/ Other(p) = "betty" /\ ~ targets[Other(p)][w[i].target].started
        BY <1>1, <1>3, <2>5, <3>1, <4>1 DEF Uncovering
      <4>3. w[i].target \in Targets
        BY <2>5, <4>1, ItemFields
      <4>4. i < Len(w) => i < Len(x) /\ x[i + 1] = w[i + 1]
        BY <2>2, <2>3, <3>1
      <4> QED
        BY <1>2, <4>1, <4>2, <4>3, <4>4
    <3>2. CASE i \notin DOMAIN w
      <4>1. PICK k \in DOMAIN reply : i = Len(w) + k
        <5>1. i - Len(w) \in 1..Len(reply) /\ i = Len(w) + (i - Len(w))
          BY <2>2, <3>2
        <5> QED
          BY <2>2, <5>1
      <4>2. x[i] = reply[k]
        BY <2>4, <4>1
      <4>3. /\ reply[k].type = "SendFingerprint" /\ reply[k].target = t
            /\ k + 1 \in DOMAIN reply /\ HeaderOf(reply[k + 1], t) /\ reply[k + 1].covers # {}
        BY <1>2, <2>5, <4>2 DEF IsReply
      <4>4. i + 1 = Len(w) + (k + 1) /\ i < Len(x)
        BY <2>2, <4>1, <4>3
      <4>5. x[i + 1] = reply[k + 1]
        BY <2>4, <4>3, <4>4
      <4> QED
        BY <4>2, <4>3, <4>4, <4>5
    <3> QED
      BY <3>1, <3>2
  <2> QED
    BY <1>2, <2>1, <2>5 DEF Uncovering
<1> QED
  BY <1>4, <1>5

(* Answers keeps Started: an answer is about a target that both know.      *)
LEMMA AnswerKeepsStart ==
    ASSUME ReconcilerInv, NEW p \in Peers, NEW m, NEW reply, Answers(p, m, reply)
    PROVE  Started(p)' /\ Started(Other(p))'
<1>0. PICK s, w, t : AnswerFacts(p, m, reply, s, w, t)
  BY AnswerParts
<1>1. s = Pipeline(p) /\ w = Pipeline(Other(p)) /\ t = m.target
  BY <1>0 DEF AnswerFacts
<1>2. /\ s \in Seq(Items) /\ w \in Seq(Items) /\ s # << >>
      /\ reply \in Seq(Items) /\ t \in Targets
      /\ HeaderOf(m, t) /\ 1 \in DOMAIN s /\ s[1] = m
      /\ Other(p) \in Peers /\ Other(Other(p)) = p
      /\ Pipeline(p)' = Tail(s) /\ Pipeline(Other(p))' = w \o reply
      /\ Pipeline(Other(Other(p)))' = Tail(s)
      /\ \A u \in Targets : targets'[Other(p)][u] = targets[Other(p)][u]
      /\ \A u \in Targets : u # t => targets'[p][u] = targets[p][u]
      /\ targets'[p][t].status = "open" /\ targets'[p][t].started
      /\ IsReply(reply, t, targets[p][t].theirs)
  BY <1>0 DEF AnswerFacts
<1>3. Started(p) /\ Started(Other(p))
  BY <1>2 DEF ReconcilerInv
<1>4. ASSUME NEW u \in Targets, \A i \in DOMAIN s : ~ HeaderOf(s[i], u)
      PROVE  u # t /\ \A i \in DOMAIN Tail(s) : ~ HeaderOf(Tail(s)[i], u)
  BY <1>2, <1>4, TailFields
<1>5. ASSUME NEW u \in Targets, u # t, \A i \in DOMAIN w : ~ HeaderOf(w[i], u)
      PROVE  \A i \in DOMAIN (w \o reply) : ~ HeaderOf((w \o reply)[i], u)
  <2>1. \A i \in DOMAIN reply : ~ HeaderOf(reply[i], u)
    BY <1>2, <1>5, ReplyHeaders
  <2>2. \A i \in DOMAIN w : (w \o reply)[i] = w[i]
    BY <1>2, ConcatFields
  <2>3. \A i \in DOMAIN (w \o reply) : i \in DOMAIN w \/ (i - Len(w) \in DOMAIN reply
                                                         /\ (w \o reply)[i] = reply[i - Len(w)])
    BY <1>2, ConcatFields
  <2> QED
    BY <1>5, <2>1, <2>2, <2>3
<1>6. p = "betty" => Other(p) = "alfie"
  BY TwoPeers
<1>7. Other(p) = "betty" => p = "alfie"
  BY TwoPeers
<1>8. Started(p)'
  <2>1. ASSUME NEW u \in Targets, targets'[p][u].status = "unknown"
        PROVE  /\ targets'[p][u] = [NewTarget EXCEPT !.status = "unknown"]
               /\ ~ targets'[Other(p)][u].started
               /\ \A i \in DOMAIN Pipeline(Other(p))' : ~ HeaderOf(Pipeline(Other(p))'[i], u)
    <3>1. u # t /\ targets'[p][u] = targets[p][u] /\ targets[p][u].status = "unknown"
      BY <1>2, <2>1
    <3>2. /\ targets[p][u] = [NewTarget EXCEPT !.status = "unknown"]
          /\ ~ targets[Other(p)][u].started
          /\ \A i \in DOMAIN w : ~ HeaderOf(w[i], u)
      BY <1>1, <1>3, <3>1 DEF Started
    <3> QED
      BY <1>2, <1>5, <3>1, <3>2
  <2>2. ASSUME NEW u \in Targets, p = "betty", ~ targets'[p][u].started
        PROVE  /\ targets'[p][u].uncovered = {}
               /\ ~ targets'["alfie"][u].started /\ targets'["alfie"][u].ours <= 1
               /\ \A i \in DOMAIN Pipeline("alfie")' : ~ HeaderOf(Pipeline("alfie")'[i], u)
    <3>1. u # t /\ targets'[p][u] = targets[p][u]
      BY <1>2, <2>2
    <3>2. Pipeline("alfie") = w /\ Pipeline("alfie")' = w \o reply
      BY <1>1, <1>2, <1>6, <2>2 DEF Pipeline
    <3>3. /\ targets[p][u].uncovered = {}
          /\ ~ targets["alfie"][u].started /\ targets["alfie"][u].ours <= 1
          /\ \A i \in DOMAIN w : ~ HeaderOf(w[i], u)
      BY <1>3, <2>2, <3>1, <3>2 DEF Started
    <3> QED
      BY <1>2, <1>5, <1>6, <2>2, <3>1, <3>2, <3>3
  <2> QED
    BY <2>1, <2>2 DEF Started
<1>9. Started(Other(p))'
  <2>1. ASSUME NEW u \in Targets, targets'[Other(p)][u].status = "unknown"
        PROVE  /\ targets'[Other(p)][u] = [NewTarget EXCEPT !.status = "unknown"]
               /\ ~ targets'[Other(Other(p))][u].started
               /\ \A i \in DOMAIN Pipeline(Other(Other(p)))' :
                     ~ HeaderOf(Pipeline(Other(Other(p)))'[i], u)
    <3>1. /\ targets[Other(p)][u] = [NewTarget EXCEPT !.status = "unknown"]
          /\ ~ targets[p][u].started
          /\ \A i \in DOMAIN s : ~ HeaderOf(s[i], u)
      BY <1>1, <1>2, <1>3, <2>1 DEF Started
    <3>2. u # t /\ \A i \in DOMAIN Tail(s) : ~ HeaderOf(Tail(s)[i], u)
      BY <1>4, <3>1
    <3> QED
      BY <1>2, <3>1, <3>2
  <2>2. ASSUME NEW u \in Targets, Other(p) = "betty", ~ targets'[Other(p)][u].started
        PROVE  /\ targets'[Other(p)][u].uncovered = {}
               /\ ~ targets'["alfie"][u].started /\ targets'["alfie"][u].ours <= 1
               /\ \A i \in DOMAIN Pipeline("alfie")' : ~ HeaderOf(Pipeline("alfie")'[i], u)
    <3>1. Pipeline("alfie") = s /\ Pipeline("alfie")' = Tail(s)
      BY <1>1, <1>2, <1>7, <2>2 DEF Pipeline
    <3>2. /\ targets[Other(p)][u].uncovered = {}
          /\ ~ targets["alfie"][u].started /\ targets["alfie"][u].ours <= 1
          /\ \A i \in DOMAIN s : ~ HeaderOf(s[i], u)
      BY <1>2, <1>3, <2>2, <3>1 DEF Started
    <3>3. u # t /\ \A i \in DOMAIN Tail(s) : ~ HeaderOf(Tail(s)[i], u)
      BY <1>4, <3>2
    <3> QED
      BY <1>2, <1>7, <2>2, <3>1, <3>2, <3>3
  <2> QED
    BY <2>1, <2>2 DEF Started
<1> QED
  BY <1>8, <1>9

(* Answers keeps Ended: there is no answer about a completed target.       *)
LEMMA AnswerKeepsEnds ==
    ASSUME ReconcilerInv, NEW p \in Peers, NEW m, NEW reply, Answers(p, m, reply)
    PROVE  Ended(p)' /\ Ended(Other(p))'
<1>0. PICK s, w, t : AnswerFacts(p, m, reply, s, w, t)
  BY AnswerParts
<1>1. s = Pipeline(p) /\ w = Pipeline(Other(p)) /\ t = m.target
  BY <1>0 DEF AnswerFacts
<1>2. /\ s \in Seq(Items) /\ w \in Seq(Items) /\ s # << >> /\ Head(s) = m
      /\ reply \in Seq(Items) /\ t \in Targets
      /\ Other(p) \in Peers /\ Other(Other(p)) = p
      /\ Pipeline(p)' = Tail(s) /\ Pipeline(Other(p))' = w \o reply
      /\ \A u \in Targets : targets'[Other(p)][u] = targets[Other(p)][u]
      /\ \A u \in Targets : u # t => targets'[p][u] = targets[p][u]
      /\ targets'[p][t].status = "open"
      /\ IsReply(reply, t, targets[p][t].theirs)
      /\ ~ Wants(m, t) => reply = << >>
  BY <1>0 DEF AnswerFacts
<1>3. Ended(p) /\ Ended(Other(p)) /\ Numbered(Other(p))
  BY <1>2 DEF ReconcilerInv
<1>4. entry_state'[p] \in SUBSET {t} /\ entry_state'[Other(p)] = entry_state[Other(p)]
  BY <1>1 DEF Answers
<1>5. Ended(p)'
  <2> SUFFICES ASSUME NEW u \in Targets, targets'[p][u].status = "done"
               PROVE  /\ is_complete(targets'[p][u]) /\ u \notin entry_state'[p]
                      /\ \A i \in DOMAIN Tail(s) : ~ HeaderOf(Tail(s)[i], u)
    BY <1>2 DEF Ended, Done
  <2>1. u # t /\ targets'[p][u] = targets[p][u] /\ targets[p][u].status = "done"
    BY <1>2
  <2>2. is_complete(targets[p][u]) /\ \A i \in DOMAIN s : ~ HeaderOf(s[i], u)
    BY <1>1, <1>3, <2>1 DEF Ended, Done
  <2>3. \A i \in DOMAIN Tail(s) : ~ HeaderOf(Tail(s)[i], u)
    BY <1>2, <2>2, TailFields
  <2> QED
    BY <1>4, <2>1, <2>2, <2>3
<1>6. Ended(Other(p))'
  <2> SUFFICES ASSUME NEW u \in Targets, targets'[Other(p)][u].status = "done"
               PROVE  /\ is_complete(targets'[Other(p)][u]) /\ u \notin entry_state'[Other(p)]
                      /\ \A i \in DOMAIN (w \o reply) : ~ HeaderOf((w \o reply)[i], u)
    BY <1>2 DEF Ended, Done
  <2>1. /\ is_complete(targets[Other(p)][u]) /\ u \notin entry_state[Other(p)]
        /\ \A i \in DOMAIN w : ~ HeaderOf(w[i], u)
    BY <1>1, <1>2, <1>3 DEF Ended, Done
  <2>2. \A i \in DOMAIN reply : ~ HeaderOf(reply[i], u)
    <3> SUFFICES ASSUME NEW i \in DOMAIN reply, HeaderOf(reply[i], u) PROVE FALSE
      OBVIOUS
    <3>1. u = t
      BY <1>2, ReplyHeaders
    <3>2. Wants(m, t)
      BY <1>2
    <3>3. Wanting(s, t) = Wanting(Tail(s), t) + 1 /\ Wanting(Tail(s), t) \in Nat
      BY <1>2, <3>2, WantingTail, WaitingIsFinite, TailFields
    <3>4. /\ targets[Other(p)][t].ours = targets[p][t].theirs + Wanting(s, t)
          /\ targets[p][t].theirs..(targets[Other(p)][t].ours - 1) \subseteq targets[Other(p)][t].uncovered
      BY <1>1, <1>2, <1>3 DEF Numbered
    <3>5. targets[p][t].theirs \in Nat
      BY <1>2, PeerTypes DEF ReconcilerInv
    <3>6. targets[p][t].theirs \in targets[Other(p)][t].uncovered
      BY <3>3, <3>4, <3>5
    <3> QED
      BY <2>1, <3>1, <3>6 DEF is_complete
  <2>3. \A i \in DOMAIN w : (w \o reply)[i] = w[i]
    BY <1>2, ConcatFields
  <2>4. \A i \in DOMAIN (w \o reply) : i \in DOMAIN w \/ (i - Len(w) \in DOMAIN reply
                                                         /\ (w \o reply)[i] = reply[i - Len(w)])
    BY <1>2, ConcatFields
  <2> QED
    BY <1>2, <1>4, <2>1, <2>2, <2>3, <2>4
<1> QED
  BY <1>5, <1>6

(* Answers keeps Stored: fingerprints are of what the store holds now.     *)
LEMMA AnswerKeepsStores ==
    ASSUME ReconcilerInv, NEW p \in Peers, NEW m, NEW reply, Answers(p, m, reply)
    PROVE  Stored(p)' /\ Stored(Other(p))'
<1>0. PICK s, w, t : AnswerFacts(p, m, reply, s, w, t)
  BY AnswerParts
<1>1. s = Pipeline(p) /\ w = Pipeline(Other(p)) /\ t = m.target
  BY <1>0 DEF AnswerFacts
<1>2. /\ s \in Seq(Items) /\ w \in Seq(Items) /\ s # << >>
      /\ reply \in Seq(Items)
      /\ Other(p) \in Peers /\ Other(Other(p)) = p
      /\ Pipeline(p)' = Tail(s) /\ Pipeline(Other(p))' = w \o reply
      /\ ~ Wants(m, t) => reply = << >>
      /\ Wants(m, t) => Serves(p, m, reply)
  BY <1>0 DEF AnswerFacts
<1>3. Stored(p) /\ Stored(Other(p))
  BY <1>2 DEF ReconcilerInv
<1>4. stores' = stores /\ base' = base
  BY DEF Answers
<1>5. Kept(p)' = Kept(p) /\ Kept(Other(p))' = Kept(Other(p)) /\ Kept(Other(Other(p)))' = Kept(p)
  BY <1>2, <1>4 DEF Kept
<1>6. Stored(p)'
  <2>1. ASSUME NEW i \in DOMAIN Tail(s), Tail(s)[i].type = "SendFingerprint"
        PROVE  /\ get_entries(Kept(Other(p)), Tail(s)[i].range) \subseteq Tail(s)[i].fingerprint
               /\ Dominates(stores[Other(p)], Tail(s)[i].fingerprint)
    <3>1. i + 1 \in DOMAIN s /\ Tail(s)[i] = s[i + 1]
      BY <1>2, TailFields
    <3> QED
      BY <1>1, <1>3, <2>1, <3>1 DEF Stored
  <2> QED
    BY <1>2, <1>3, <1>4, <1>5, <2>1 DEF Stored
<1>7. Stored(Other(p))'
  <2>1. ASSUME NEW i \in DOMAIN (w \o reply), (w \o reply)[i].type = "SendFingerprint"
        PROVE  /\ get_entries(Kept(p), (w \o reply)[i].range) \subseteq (w \o reply)[i].fingerprint
               /\ Dominates(stores[p], (w \o reply)[i].fingerprint)
    <3>1. \A k \in DOMAIN w : (w \o reply)[k] = w[k]
      BY <1>2, ConcatFields
    <3>2. i \in DOMAIN w \/ (i - Len(w) \in DOMAIN reply /\ (w \o reply)[i] = reply[i - Len(w)])
      BY <1>2, ConcatFields
    <3>3. CASE i \in DOMAIN w
      <4>1. Kept(Other(Other(p))) = Kept(p)
        BY <1>2
      <4> QED
        BY <1>1, <1>2, <1>3, <2>1, <3>1, <3>3, <4>1 DEF Stored
    <3>4. CASE i - Len(w) \in DOMAIN reply /\ (w \o reply)[i] = reply[i - Len(w)]
      <4>1. Serves(p, m, reply)
        BY <1>2, <3>4
      <4> QED
        BY <2>1, <3>4, <4>1 DEF Serves
    <3> QED
      BY <3>2, <3>3, <3>4
  <2>2. stores'[Other(Other(p))] = stores[p]
    BY <1>2, <1>4
  <2> QED
    BY <1>2, <1>3, <1>4, <1>5, <2>1, <2>2 DEF Stored
<1> QED
  BY <1>6, <1>7

(* Answers keeps Delivered: an entry that was asked about or offered is    *)
(* held on both sides, announced, or in a part that is asked about next.   *)
LEMMA AnswerKeepsDelivery ==
    ASSUME ReconcilerInv, NEW p \in Peers, NEW m, NEW reply, Answers(p, m, reply)
    PROVE  Delivered(p)' /\ Delivered(Other(p))'
<1>0. PICK s, w, t : AnswerFacts(p, m, reply, s, w, t)
  BY AnswerParts
<1>1. s = Pipeline(p) /\ w = Pipeline(Other(p)) /\ t = m.target
  BY <1>0 DEF AnswerFacts
<1>2. /\ s \in Seq(Items) /\ w \in Seq(Items) /\ s # << >> /\ m = Head(s) /\ m \in Items
      /\ reply \in Seq(Items) /\ t \in Targets /\ HeaderOf(m, t) /\ IsHeader(m) /\ s[1] = m
      /\ Other(p) \in Peers /\ Other(Other(p)) = p
      /\ Pipeline(p)' = Tail(s) /\ Pipeline(Other(p))' = w \o reply
      /\ Pipeline(Other(Other(p)))' = Tail(s)
      /\ Wants(m, t) => Serves(p, m, reply)
  BY <1>0 DEF AnswerFacts
<1>3. Delivered(p) /\ Delivered(Other(p)) /\ Framed(p)
  BY <1>2 DEF ReconcilerInv
<1>4. /\ stores' = stores /\ base' = base
      /\ entry_state'[p] = IF m.type = "AnnounceEntries" /\ ~ m.is_empty THEN {t} ELSE {}
      /\ entry_state'[Other(p)] = entry_state[Other(p)]
  BY <1>1 DEF Answers
<1>5. Kept(p)' = Kept(p) /\ Kept(Other(p))' = Kept(Other(p)) /\ Kept(Other(Other(p)))' = Kept(p)
  BY <1>2, <1>4 DEF Kept
<1>6. \A x \in Peers, u \in Targets : targets'[x][u].status = targets[x][u].status
  <2>1. /\ \A u \in Targets : targets'[Other(p)][u] = targets[Other(p)][u]
        /\ \A u \in Targets : u # t => targets'[p][u] = targets[p][u]
        /\ targets[p][t].status = "open" /\ targets'[p][t].status = "open"
    BY <1>0 DEF AnswerFacts
  <2>2. \A x \in Peers : x = p \/ x = Other(p)
    BY TwoPeers
  <2> QED
    BY <2>1, <2>2
<1>7. "alfie" \in Peers
  BY TwoPeers
<1>8. entry_state[p] = {}
  BY AnswerTypes
<1>9. Len(s) > 1 /\ ~ IsHeader(s[2]) => t \in entry_state'[p]
  <2> SUFFICES ASSUME Len(s) > 1, ~ IsHeader(s[2]) PROVE t \in entry_state'[p]
    OBVIOUS
  <2>1. 2 \in DOMAIN s /\ 2 # 1 /\ 2 - 1 = 1
    BY <1>2
  <2>2. Needs(s[2]) = Leaves(s[2 - 1])
    BY <1>1, <1>3, <2>1 DEF Framed, Leads
  <2>3. Needs(s[2]) # "header"
    BY DEF Needs
  <2>4. Leaves(m) # "header"
    BY <1>2, <2>1, <2>2, <2>3
  <2>5. m.type = "AnnounceEntries" /\ ~ m.is_empty
    BY <1>2, <2>4, ItemFields DEF Leaves, IsHeader
  <2> QED
    BY <1>4, <2>5
<1>10. Delivered(p)'
  <2> SUFFICES ASSUME NEW u \in Targets, targets["alfie"][u].status # "unknown",
                      NEW e \in get_entries(Kept(Other(p)), AreaRange[u])
               PROVE  \/ Dominates(stores[p], {e})
                      \/ Offered(Tail(s), u, e)
                      \/ Asked(w \o reply, u, e)
                      \/ Coming(Tail(s), entry_state'[p], u, e)
    BY <1>2, <1>4, <1>5, <1>6, <1>7 DEF Delivered
  <2>1. e \in Kept(Other(p))
    BY DEF get_entries
  <2>2. \/ Dominates(stores[p], {e}) \/ Offered(s, u, e) \/ Asked(w, u, e) \/ Coming(s, {}, u, e)
    BY <1>1, <1>3, <1>8 DEF Delivered
  <2>3. CASE Offered(s, u, e)
    <3>1. \/ Offered(Tail(s), u, e)
          \/ HeaderOf(m, u) /\ m.type = "SendFingerprint" /\ includes_entry(m.range, e)
      BY <1>2, <2>3, OneIsTaken
    <3>2. CASE HeaderOf(m, u) /\ m.type = "SendFingerprint" /\ includes_entry(m.range, e)
      <4>1. u = t /\ Wants(m, t)
        BY <1>1, <3>2 DEF HeaderOf, Wants
      <4>2. Dominates(stores[p], {e}) \/ Asked(reply, t, e)
        BY <1>1, <1>2, <2>1, <3>2, <4>1 DEF Serves
      <4> QED
        BY <1>2, <4>1, <4>2, MoreIsSent
    <3> QED
      BY <3>1, <3>2
  <2>4. CASE Asked(w, u, e)
    BY <1>2, <2>4, MoreIsSent
  <2>5. CASE Coming(s, {}, u, e)
    <3>1. HeaderOf(m, u) /\ Len(s) > 1 /\ ~ IsHeader(s[2]) => u \in entry_state'[p]
      BY <1>1, <1>9 DEF HeaderOf
    <3>2. PICK next : next = entry_state'[p]
      OBVIOUS
    <3>3. Coming(Tail(s), next, u, e)
      BY <1>2, <2>5, <3>1, <3>2, OneIsTaken
    <3> QED
      BY <3>2, <3>3
  <2> QED
    BY <2>2, <2>3, <2>4, <2>5
<1>11. Delivered(Other(p))'
  <2> SUFFICES ASSUME NEW u \in Targets, targets["alfie"][u].status # "unknown",
                      NEW e \in get_entries(Kept(p), AreaRange[u])
               PROVE  \/ Dominates(stores[Other(p)], {e})
                      \/ Offered(w \o reply, u, e)
                      \/ Asked(Tail(s), u, e)
                      \/ Coming(w \o reply, entry_state[Other(p)], u, e)
    BY <1>2, <1>4, <1>5, <1>6, <1>7 DEF Delivered
  <2>1. e \in Kept(p) /\ Kept(Other(Other(p))) = Kept(p) /\ Pipeline(Other(Other(p))) = s
    BY <1>1, <1>2 DEF get_entries
  <2>2. \/ Dominates(stores[Other(p)], {e}) \/ Offered(w, u, e) \/ Asked(s, u, e)
        \/ Coming(w, entry_state[Other(p)], u, e)
    BY <1>1, <1>3, <2>1 DEF Delivered
  <2>3. CASE Offered(w, u, e) \/ Coming(w, entry_state[Other(p)], u, e)
    BY <1>2, <2>3, MoreIsSent
  <2>4. CASE Asked(s, u, e)
    <3>1. Asked(Tail(s), u, e) \/ (Wants(m, u) /\ includes_entry(m.range, e))
      BY <1>2, <2>4, OneIsTaken
    <3>2. CASE Wants(m, u) /\ includes_entry(m.range, e)
      <4>1. u = t
        BY <1>1, <3>2 DEF Wants
      <4>2. \/ Dominates(stores[Other(p)], {e}) \/ Offered(reply, u, e) \/ Announces(reply, u, e)
        BY <1>1, <1>2, <2>1, <3>2, <4>1 DEF Serves
      <4>3. PICK current : current = entry_state[Other(p)]
        OBVIOUS
      <4>4. \/ Dominates(stores[Other(p)], {e}) \/ Offered(w \o reply, u, e)
            \/ Coming(w \o reply, current, u, e)
        BY <1>2, <4>2, MoreIsSent
      <4> QED
        BY <4>3, <4>4
    <3> QED
      BY <3>1, <3>2
  <2> QED
    BY <2>2, <2>3, <2>4
<1> QED
  BY <1>10, <1>11

(* What ReconcilerInv says of one peer.                                    *)
PeerInv(p) ==
    /\ Framed(p) /\ Numbered(p) /\ Uncovering(p) /\ Started(p) /\ Ended(p) /\ Stored(p)
    /\ Delivered(p)

(* It is enough to look at the peer that acts and at the other one.        *)
LEMMA BothPeers ==
    ASSUME NEW p \in Peers, SyncTypes', NeverFails', PeerInv(p)', PeerInv(Other(p))'
    PROVE  ReconcilerInv'
<1>1. \A x \in Peers : x = p \/ x = Other(p)
  BY TwoPeers
<1>2. ASSUME NEW x \in Peers PROVE PeerInv(x)'
  BY <1>1
<1> QED
  BY <1>2 DEF ReconcilerInv, PeerInv

(* A step of the form Answers keeps the invariant.                         *)
LEMMA AnswerKeepsInv ==
    ASSUME ReconcilerInv, NEW p \in Peers, NEW m, NEW reply, Answers(p, m, reply)
    PROVE  ReconcilerInv'
<1>1. SyncTypes' /\ failed' = failed
  BY DEF Answers
<1>2. NeverFails'
  BY <1>1 DEF ReconcilerInv, NeverFails
<1>3. PeerInv(p)' /\ PeerInv(Other(p))'
  BY AnswerKeepsFrames, AnswerKeepsOurBooks, AnswerKeepsTheirBooks, AnswerKeepsUncovering,
     AnswerKeepsStart, AnswerKeepsEnds, AnswerKeepsStores, AnswerKeepsDelivery DEF PeerInv
<1> QED
  BY <1>1, <1>2, <1>3, BothPeers

-----------------------------------------------------------------------------
(* The handlers of fingerprints and announcements.                         *)

(* A peer that has a header before it expects one, and knows the range it  *)
(* covers.                                                                 *)
LEMMA HeaderFits ==
    ASSUME ReconcilerInv, NEW p \in Peers, NEW m, Pipeline(p) # << >>, m = Head(Pipeline(p)),
           IsHeader(m)
    PROVE  /\ m \in Items /\ m.target \in Targets /\ m.range \in Range3d /\ m.covers \in SUBSET Nat
           /\ entry_state[p] = {} /\ ~ payload[p]
           /\ m.covers \subseteq targets[p][m.target].uncovered
           /\ 1 \in DOMAIN Pipeline(p) /\ Pipeline(p)[1] = m
<1>1. Pipeline(p) \in Seq(Items)
  BY PeerTypes DEF ReconcilerInv
<1>2. m \in Items /\ 1 \in DOMAIN Pipeline(p) /\ Pipeline(p)[1] = m
  BY <1>1, TailFields
<1>3. m.target \in Targets /\ m.range \in Range3d /\ m.covers \in SUBSET Nat
  BY <1>2, ItemFields
<1>4. Framed(p) /\ Numbered(p)
  BY DEF ReconcilerInv
<1>5. Needs(m) = Mode(p)
  BY <1>1, <1>4, LeadsTail DEF Framed
<1>6. entry_state[p] = {}
  BY <1>5 DEF Needs, Mode
<1>7. ~ payload[p]
  BY <1>4, <1>6 DEF Framed
<1>8. HeaderOf(m, m.target)
  BY DEF HeaderOf
<1>9. m.covers \subseteq targets[p][m.target].uncovered
  BY <1>2, <1>3, <1>4, <1>8 DEF Numbered
<1> QED
  BY <1>2, <1>3, <1>6, <1>7, <1>9

(* One target of one peer changes.                                         *)
LEMMA TargetChanges ==
    ASSUME SyncTypes, NEW p \in Peers, NEW t \in Targets, NEW T \in TargetState,
           targets' = [targets EXCEPT ![p][t] = T]
    PROVE  /\ targets' \in [Peers -> [Targets -> TargetState]]
           /\ targets'[p][t] = T
           /\ \A u \in Targets : u # t => targets'[p][u] = targets[p][u]
           /\ \A u \in Targets : targets'[Other(p)][u] = targets[Other(p)][u]
           /\ targets'[Other(p)] = targets[Other(p)]
<1>1. Other(p) \in Peers /\ Other(p) # p
  BY TwoPeers
<1>2. targets \in [Peers -> [Targets -> TargetState]]
  BY DEF SyncTypes
<1> QED
  BY <1>1, <1>2

(* The variables that a handler leaves alone keep their types.             *)
LEMMA AnswerStepTypes ==
    ASSUME SyncTypes, NEW p \in Peers, NEW t \in Targets, NEW reply \in Seq(Items),
           todo[p] = << >>, chan[p] # << >>, Take(p),
           targets' \in [Peers -> [Targets -> TargetState]],
           todo' = [todo EXCEPT ![p] = reply],
           check' = [check EXCEPT ![p] = {t}],
           entry_state' \in [Peers -> SUBSET Targets],
           UNCHANGED << stores, base, payload, all, failed, writes >>
    PROVE  SyncTypes'
<1>1. /\ chan' \in [Peers -> Seq(Messages)] /\ \A x \in Peers : Len(chan'[x]) <= ChannelCap
      /\ todo' \in [Peers -> Seq(Items)]
  BY TakeStep
<1>2. check' \in [Peers -> SUBSET Targets]
  BY DEF SyncTypes
<1> QED
  BY <1>1, <1>2 DEF SyncTypes, Items

(* received_send_fingerprint is a step of the form Answers.                *)
LEMMA FingerprintAnswers ==
    ASSUME ReconcilerInv, NEW p \in Peers, ReceiveFingerprint(p)
    PROVE  \E m, reply : Answers(p, m, reply)
<1>1. PICK m : m = Head(chan[p])
  OBVIOUS
<1>2. PICK T : T = targets[p][m.target]
  OBVIOUS
<1>3. PICK reply : reply = FingerprintReply(p, m, T.theirs)
  OBVIOUS
<1>4. /\ todo[p] = << >> /\ chan[p] # << >> /\ m.type = "SendFingerprint" /\ T.status = "open"
      /\ Take(p)
  BY <1>1, <1>2 DEF ReceiveFingerprint, Idle
<1>5. SyncTypes /\ Stored(p)
  BY DEF ReconcilerInv
<1>6. Pipeline(p) # << >> /\ m = Head(Pipeline(p))
  <2>1. chan[p] \in Seq(Items) /\ todo[Other(p)] \in Seq(Items)
    BY <1>5, PeerTypes, TwoPeers
  <2>2. PICK c, w \in Seq(Items) : c = chan[p] /\ w = todo[Other(p)]
    BY <2>1
  <2>3. c # << >>
    BY <1>4, <2>2
  <2>4. c \o w # << >> /\ Head(c \o w) = Head(c)
    BY <2>3
  <2> QED
    BY <1>1, <2>2, <2>4 DEF Pipeline
<1>7. IsHeader(m)
  BY <1>4 DEF IsHeader
<1>8. /\ m \in Items /\ m.target \in Targets /\ m.covers \in SUBSET Nat
      /\ entry_state[p] = {} /\ ~ payload[p]
      /\ m.covers \subseteq T.uncovered
      /\ 1 \in DOMAIN Pipeline(p) /\ Pipeline(p)[1] = m
  BY <1>2, <1>6, <1>7, HeaderFits
<1>9. /\ targets' = [targets EXCEPT ![p][m.target] =
                      MarkPending([MarkCovered(T, m.covers) EXCEPT !.started = TRUE,
                                                                   !.theirs = @ + 1],
                                  Wanting(reply, m.target))]
      /\ todo' = [todo EXCEPT ![p] = reply]
      /\ check' = [check EXCEPT ![p] = {m.target}]
      /\ UNCHANGED << stores, base, entry_state, payload, all, failed, writes >>
  BY <1>1, <1>2, <1>3, <1>8 DEF ReceiveFingerprint
<1>10. /\ T \in TargetState /\ T.status \in {"unknown", "open", "done"} /\ T.started \in BOOLEAN
       /\ T.uncovered \in SUBSET Nat /\ T.ours \in Nat /\ T.theirs \in Nat
  BY <1>2, <1>5, <1>8, PeerTypes
<1>11. /\ get_entries(Kept(Other(p)), m.range) \subseteq m.fingerprint
       /\ Dominates(stores[Other(p)], m.fingerprint)
  BY <1>4, <1>5, <1>8 DEF Stored
<1>12. IsReply(reply, m.target, T.theirs) /\ Serves(p, m, reply)
  BY <1>3, <1>4, <1>5, <1>8, <1>10, <1>11, FingerprintReplies
<1>13. reply \in Seq(Items)
  BY <1>12 DEF IsReply
<1>14. PICK k \in Nat : k = Wanting(reply, m.target)
  BY <1>13, WaitingIsFinite
<1>15. PICK N : N = MarkPending([MarkCovered(T, m.covers) EXCEPT !.started = TRUE, !.theirs = @ + 1], k)
  OBVIOUS
<1>16. /\ N.uncovered = (T.uncovered \ m.covers) \cup T.ours..(T.ours + k - 1)
       /\ N.ours = T.ours + k /\ N.theirs = T.theirs + 1 /\ N.started /\ N.status = "open"
       /\ N \in TargetState
  <2>1. T = [status |-> "open", started |-> T.started, uncovered |-> T.uncovered, ours |-> T.ours,
             theirs |-> T.theirs]
    BY <1>4, <1>10 DEF TargetState
  <2>2. N = [status |-> "open", started |-> TRUE,
             uncovered |-> (T.uncovered \ m.covers) \cup T.ours..(T.ours + k - 1),
             ours |-> T.ours + k, theirs |-> T.theirs + 1]
    <3>1. PICK A : A = MarkCovered(T, m.covers)
      OBVIOUS
    <3>2. A = [status |-> "open", started |-> T.started, uncovered |-> T.uncovered \ m.covers,
               ours |-> T.ours, theirs |-> T.theirs]
      BY <2>1, <3>1 DEF MarkCovered
    <3>3. PICK B : B = [A EXCEPT !.started = TRUE, !.theirs = @ + 1]
      OBVIOUS
    <3>4. B = [status |-> "open", started |-> TRUE, uncovered |-> T.uncovered \ m.covers,
               ours |-> T.ours, theirs |-> T.theirs + 1]
      BY <3>2, <3>3
    <3>5. N = MarkPending(B, k)
      BY <1>15, <3>1, <3>3
    <3> QED
      BY <3>4, <3>5 DEF MarkPending
  <2>3. (T.uncovered \ m.covers) \cup T.ours..(T.ours + k - 1) \in SUBSET Nat
    BY <1>10
  <2>4. T.ours + k \in Nat /\ T.theirs + 1 \in Nat
    BY <1>10
  <2> QED
    BY <2>2, <2>3, <2>4 DEF TargetState
<1>17. /\ targets' \in [Peers -> [Targets -> TargetState]]
       /\ targets'[p][m.target] = N
       /\ \A u \in Targets : u # m.target => targets'[p][u] = targets[p][u]
       /\ \A u \in Targets : targets'[Other(p)][u] = targets[Other(p)][u]
  <2>1. targets' = [targets EXCEPT ![p][m.target] = N]
    BY <1>9, <1>14, <1>15
  <2>2. N \in TargetState /\ m.target \in Targets /\ SyncTypes
    BY <1>5, <1>8, <1>16
  <2> QED
    BY <2>1, <2>2, TargetChanges
<1>18. /\ Pipeline(p)' = Tail(Pipeline(p)) /\ Pipeline(Other(p))' = Pipeline(Other(p)) \o reply
       /\ todo'[p] = reply /\ todo'[Other(p)] = todo[Other(p)]
  BY <1>4, <1>5, <1>9, <1>13, TakeStep
<1>19. SyncTypes'
  <2>1. entry_state' \in [Peers -> SUBSET Targets]
    BY <1>5, <1>9 DEF SyncTypes
  <2> QED
    BY <1>4, <1>5, <1>8, <1>9, <1>13, <1>17, <2>1, AnswerStepTypes
<1>20. Wants(m, m.target)
  BY <1>4 DEF Wants
<1>21. /\ entry_state'[p] = IF m.type = "AnnounceEntries" /\ ~ m.is_empty THEN {m.target} ELSE {}
       /\ entry_state'[Other(p)] = entry_state[Other(p)]
       /\ payload' = payload /\ stores' = stores /\ base' = base /\ failed' = failed
  BY <1>4, <1>8, <1>9
<1>22. Answers(p, m, reply)
  BY <1>2, <1>4, <1>6, <1>7, <1>12, <1>14, <1>16, <1>17, <1>18, <1>19, <1>20, <1>21 DEF Answers
<1> QED
  BY <1>22

(* An announcement that asks for nothing.                                  *)
LEMMA AnnounceWantsNothing ==
    ASSUME NEW t \in Targets, NEW r \in Range3d, NEW n \in Nat, NEW S \in SUBSET Entry,
           NEW reply \in Seq(Items), reply = AnnounceMsgs(t, r, FALSE, {n}, S)
    PROVE  Wanting(reply, t) = 0
<1>1. \A i \in DOMAIN reply : ~ Wants(reply[i], t)
  BY DEF AnnounceMsgs, Wants
<1> QED
  BY <1>1, WantingNone

(* received_announce_entries is a step of the form Answers.                *)
LEMMA AnnouncementAnswers ==
    ASSUME ReconcilerInv, NEW p \in Peers, ReceiveAnnounce(p)
    PROVE  \E m, reply : Answers(p, m, reply)
<1>1. PICK m : m = Head(chan[p])
  OBVIOUS
<1>2. PICK T : T = targets[p][m.target]
  OBVIOUS
<1>3. PICK reply : reply = IF m.want_response
                           THEN AnnounceMsgs(m.target, m.range, FALSE, {T.theirs},
                                             get_entries(stores[p], m.range))
                           ELSE << >>
  OBVIOUS
<1>4. /\ todo[p] = << >> /\ chan[p] # << >> /\ m.type = "AnnounceEntries" /\ T.status = "open"
      /\ Take(p)
  BY <1>1, <1>2 DEF ReceiveAnnounce, Idle
<1>5. SyncTypes /\ Stored(p)
  BY DEF ReconcilerInv
<1>6. Pipeline(p) # << >> /\ m = Head(Pipeline(p))
  <2>1. chan[p] \in Seq(Items) /\ todo[Other(p)] \in Seq(Items)
    BY <1>5, PeerTypes, TwoPeers
  <2>2. PICK c, w \in Seq(Items) : c = chan[p] /\ w = todo[Other(p)]
    BY <2>1
  <2>3. c # << >>
    BY <1>4, <2>2
  <2>4. c \o w # << >> /\ Head(c \o w) = Head(c)
    BY <2>3
  <2> QED
    BY <1>1, <2>2, <2>4 DEF Pipeline
<1>7. IsHeader(m)
  BY <1>4 DEF IsHeader
<1>8. /\ m \in Items /\ m.target \in Targets /\ m.range \in Range3d /\ m.covers \in SUBSET Nat
      /\ entry_state[p] = {} /\ ~ payload[p]
      /\ m.covers \subseteq T.uncovered
  BY <1>2, <1>6, <1>7, HeaderFits
<1>9. PICK C : C = [MarkCovered(T, m.covers) EXCEPT !.started = TRUE]
  OBVIOUS
<1>10. PICK N : N = IF m.want_response THEN [C EXCEPT !.theirs = @ + 1] ELSE C
  OBVIOUS
<1>11. /\ entry_state' = [entry_state EXCEPT ![p] = IF m.is_empty THEN {} ELSE {m.target}]
       /\ targets' = [targets EXCEPT ![p][m.target] =
                         IF m.want_response THEN [C EXCEPT !.theirs = @ + 1] ELSE C]
       /\ todo' = [todo EXCEPT ![p] = reply]
       /\ check' = [check EXCEPT ![p] = {m.target}]
       /\ UNCHANGED << stores, base, payload, all, failed, writes >>
  BY <1>1, <1>2, <1>3, <1>8, <1>9 DEF ReceiveAnnounce, expects_announce
<1>12. targets' = [targets EXCEPT ![p][m.target] = N]
  BY <1>10, <1>11
<1>13. /\ T \in TargetState /\ T.status \in {"unknown", "open", "done"} /\ T.started \in BOOLEAN
       /\ T.uncovered \in SUBSET Nat /\ T.ours \in Nat /\ T.theirs \in Nat
  BY <1>2, <1>5, <1>8, PeerTypes
<1>14. /\ IsReply(reply, m.target, T.theirs) /\ Wanting(reply, m.target) = 0
       /\ m.want_response => Serves(p, m, reply)
  <2>1. CASE m.want_response
    <3>1. reply = AnnounceMsgs(m.target, m.range, FALSE, {T.theirs}, get_entries(stores[p], m.range))
      BY <1>3, <2>1
    <3>2. IsReply(reply, m.target, T.theirs) /\ Serves(p, m, reply)
      BY <1>4, <1>5, <1>8, <1>13, <3>1, AnnounceReplies
    <3>3. reply \in Seq(Items) /\ get_entries(stores[p], m.range) \in SUBSET Entry
      BY <1>5, <3>2, PeerTypes DEF IsReply, get_entries
    <3>4. Wanting(reply, m.target) = 0
      BY <1>8, <1>13, <3>1, <3>3, AnnounceWantsNothing
    <3> QED
      BY <3>2, <3>4
  <2>2. CASE ~ m.want_response
    <3>1. reply = << >> /\ reply \in Seq(Items) /\ DOMAIN reply = {}
      BY <1>3, <2>2
    <3>2. Leads("header", reply, "header")
      BY <3>1 DEF Leads
    <3>3. Wanting(reply, m.target) = 0
      BY <3>1, WantingNone
    <3> QED
      BY <2>2, <3>1, <3>2, <3>3 DEF IsReply
  <2> QED
    BY <2>1, <2>2
<1>15. reply \in Seq(Items)
  BY <1>14 DEF IsReply
<1>16. m.is_empty \in BOOLEAN /\ m.want_response \in BOOLEAN
  BY <1>4, <1>8, ItemFields
<1>17. Wants(m, m.target) <=> m.want_response
  BY <1>4 DEF Wants
<1>18. /\ N.uncovered = T.uncovered \ m.covers /\ N.ours = T.ours
       /\ N.theirs = T.theirs + (IF Wants(m, m.target) THEN 1 ELSE 0)
       /\ N.started /\ N.status = "open" /\ N \in TargetState
  <2>1. T = [status |-> "open", started |-> T.started, uncovered |-> T.uncovered, ours |-> T.ours,
             theirs |-> T.theirs]
    BY <1>4, <1>13 DEF TargetState
  <2>2. PICK A : A = MarkCovered(T, m.covers)
    OBVIOUS
  <2>3. A = [status |-> "open", started |-> T.started, uncovered |-> T.uncovered \ m.covers,
             ours |-> T.ours, theirs |-> T.theirs]
    BY <2>1, <2>2 DEF MarkCovered
  <2>4. C = [status |-> "open", started |-> TRUE, uncovered |-> T.uncovered \ m.covers,
             ours |-> T.ours, theirs |-> T.theirs]
    <3>1. C = [A EXCEPT !.started = TRUE]
      BY <1>9, <2>2
    <3> QED
      BY <2>3, <3>1
  <2>5. N = [status |-> "open", started |-> TRUE, uncovered |-> T.uncovered \ m.covers,
             ours |-> T.ours, theirs |-> T.theirs + (IF m.want_response THEN 1 ELSE 0)]
    <3>1. CASE m.want_response
      BY <1>10, <2>4, <3>1
    <3>2. CASE ~ m.want_response
      <4>1. N = C
        BY <1>10, <3>2
      <4>2. T.theirs + (IF m.want_response THEN 1 ELSE 0) = T.theirs
        BY <1>13, <3>2
      <4> QED
        BY <2>4, <4>1, <4>2
    <3> QED
      BY <3>1, <3>2
  <2>6. T.theirs + (IF m.want_response THEN 1 ELSE 0) \in Nat
    BY <1>13
  <2>7. T.uncovered \ m.covers \in SUBSET Nat
    BY <1>13
  <2> QED
    BY <1>13, <1>17, <2>5, <2>6, <2>7 DEF TargetState
<1>19. /\ targets' \in [Peers -> [Targets -> TargetState]]
       /\ targets'[p][m.target] = N
       /\ \A u \in Targets : u # m.target => targets'[p][u] = targets[p][u]
       /\ \A u \in Targets : targets'[Other(p)][u] = targets[Other(p)][u]
  <2>1. N \in TargetState
    BY <1>18
  <2> QED
    <3>1. SyncTypes /\ m.target \in Targets
      BY <1>5, <1>8
    <3>2. targets' = [targets EXCEPT ![p][m.target] = N]
      BY <1>12
    <3> QED
      BY <2>1, <3>1, <3>2, TargetChanges
<1>20. /\ Pipeline(p)' = Tail(Pipeline(p)) /\ Pipeline(Other(p))' = Pipeline(Other(p)) \o reply
       /\ todo'[p] = reply /\ todo'[Other(p)] = todo[Other(p)]
  BY <1>4, <1>5, <1>11, <1>15, TakeStep
<1>21. /\ entry_state' \in [Peers -> SUBSET Targets]
       /\ entry_state'[p] = IF m.type = "AnnounceEntries" /\ ~ m.is_empty THEN {m.target} ELSE {}
       /\ entry_state'[Other(p)] = entry_state[Other(p)]
  <2>1. Other(p) \in Peers /\ Other(p) # p
    BY TwoPeers
  <2>2. entry_state \in [Peers -> SUBSET Targets]
    BY <1>5 DEF SyncTypes
  <2>3. (IF m.is_empty THEN {} ELSE {m.target}) \in SUBSET Targets
    BY <1>8
  <2> QED
    BY <1>4, <1>11, <2>1, <2>2, <2>3
<1>22. SyncTypes'
  BY <1>4, <1>5, <1>8, <1>11, <1>15, <1>19, <1>21, AnswerStepTypes
<1>23. payload' = payload /\ stores' = stores /\ base' = base /\ failed' = failed
  BY <1>11
<1>24. /\ N.uncovered = (T.uncovered \ m.covers)
                        \cup T.ours..(T.ours + Wanting(reply, m.target) - 1)
       /\ N.ours = T.ours + Wanting(reply, m.target)
  BY <1>13, <1>14, <1>18
<1>25. IF Wants(m, m.target) THEN Serves(p, m, reply) ELSE reply = << >>
  BY <1>3, <1>14, <1>17
<1>26. Answers(p, m, reply)
  BY <1>2, <1>4, <1>6, <1>7, <1>14, <1>18, <1>19, <1>20, <1>21, <1>22, <1>23, <1>24, <1>25 DEF Answers
<1> QED
  BY <1>26

-----------------------------------------------------------------------------
(* Steps that send and take no header.                                     *)

(* The headers of x are those of s, moved by d places.                     *)
SameHeaders(s, x) ==
    /\ \A t : Wanting(x, t) = Wanting(s, t)
    /\ \E d \in Int : \A i \in Int :
          /\ i \in DOMAIN x /\ IsHeader(x[i]) => i + d \in DOMAIN s /\ s[i + d] = x[i]
          /\ i + d \in DOMAIN s /\ IsHeader(s[i + d]) => i \in DOMAIN x /\ s[i + d] = x[i]

(* A sequence has the same headers as itself.                              *)
LEMMA SameAsItself ==
    ASSUME NEW s \in Seq(Items)
    PROVE  SameHeaders(s, s)
<1>1. \A i \in Int : i + 0 = i
  OBVIOUS
<1>2. \A i \in Int :
          /\ i \in DOMAIN s /\ IsHeader(s[i]) => i + 0 \in DOMAIN s /\ s[i + 0] = s[i]
          /\ i + 0 \in DOMAIN s /\ IsHeader(s[i + 0]) => i \in DOMAIN s /\ s[i + 0] = s[i]
  BY <1>1
<1>3. \E d \in Int : \A i \in Int :
          /\ i \in DOMAIN s /\ IsHeader(s[i]) => i + d \in DOMAIN s /\ s[i + d] = s[i]
          /\ i + d \in DOMAIN s /\ IsHeader(s[i + d]) => i \in DOMAIN s /\ s[i + d] = s[i]
  <2> WITNESS 0 \in Int
  <2> QED
    BY <1>2
<1> QED
  BY <1>3 DEF SameHeaders

(* Taking a first message that is no header leaves the headers.            *)
LEMMA SameWithoutFirst ==
    ASSUME NEW s \in Seq(Items), s # << >>, ~ IsHeader(Head(s))
    PROVE  SameHeaders(s, Tail(s))
<1>1. PICK x : x = Tail(s)
  OBVIOUS
<1>2. /\ Len(s) \in Nat /\ Len(s) > 0 /\ s[1] = Head(s) /\ x \in Seq(Items)
      /\ DOMAIN s = 1..Len(s) /\ DOMAIN x = 1..(Len(s) - 1)
      /\ \A i \in DOMAIN x : x[i] = s[i + 1] /\ i + 1 \in DOMAIN s
  BY <1>1, TailFields
<1>3. ASSUME NEW t PROVE Wanting(x, t) = Wanting(s, t)
  <2>1. ~ Wants(Head(s), t)
    BY DEF Wants, IsHeader
  <2>2. Wanting(s, t) = Wanting(x, t) + 0 /\ Wanting(x, t) \in Nat
    BY <1>1, <1>2, <2>1, WantingTail, WaitingIsFinite
  <2> QED
    BY <2>2
<1>4. ASSUME NEW i \in Int
      PROVE  /\ i \in DOMAIN x /\ IsHeader(x[i]) => i + 1 \in DOMAIN s /\ s[i + 1] = x[i]
             /\ i + 1 \in DOMAIN s /\ IsHeader(s[i + 1]) => i \in DOMAIN x /\ s[i + 1] = x[i]
  <2>1. ASSUME i + 1 \in DOMAIN s, IsHeader(s[i + 1]) PROVE i \in DOMAIN x
    <3>1. i # 0
      BY <1>2, <2>1
    <3> QED
      BY <1>2, <2>1, <3>1
  <2> QED
    BY <1>2, <2>1
<1>5. \E d \in Int : \A i \in Int :
          /\ i \in DOMAIN x /\ IsHeader(x[i]) => i + d \in DOMAIN s /\ s[i + d] = x[i]
          /\ i + d \in DOMAIN s /\ IsHeader(s[i + d]) => i \in DOMAIN x /\ s[i + d] = x[i]
  <2> WITNESS 1 \in Int
  <2> QED
    BY <1>4
<1> QED
  BY <1>1, <1>3, <1>5 DEF SameHeaders

(* The headers are the same whatever else than headers follows them.       *)
LEMMA SameWithoutLast ==
    ASSUME NEW c \in Seq(Items), NEW r \in Seq(Items), NEW q \in Seq(Items),
           \A i \in DOMAIN r : ~ IsHeader(r[i]), \A i \in DOMAIN q : ~ IsHeader(q[i])
    PROVE  SameHeaders(c \o r, c \o q)
<1>1. ASSUME NEW z \in Seq(Items), \A i \in DOMAIN z : ~ IsHeader(z[i])
      PROVE  /\ \A t : Wanting(c \o z, t) = Wanting(c, t)
             /\ \A i : i \in DOMAIN (c \o z) /\ IsHeader((c \o z)[i]) <=> i \in DOMAIN c /\ IsHeader(c[i])
             /\ \A i \in DOMAIN c : (c \o z)[i] = c[i]
  <2>1. ASSUME NEW t PROVE Wanting(c \o z, t) = Wanting(c, t)
    <3>1. \A i \in DOMAIN z : ~ Wants(z[i], t)
      BY <1>1 DEF Wants, IsHeader
    <3>2. Wanting(z, t) = 0
      BY <3>1, WantingNone
    <3>3. Wanting(c \o z, t) = Wanting(c, t) + Wanting(z, t)
      BY WantingConcat
    <3>4. Wanting(c, t) \in Nat
      BY WaitingIsFinite
    <3> QED
      BY <3>2, <3>3, <3>4
  <2>2. \A i \in DOMAIN c : (c \o z)[i] = c[i] /\ i \in DOMAIN (c \o z)
    BY ConcatFields
  <2>3. \A i \in DOMAIN (c \o z) : i \in DOMAIN c \/ (i - Len(c) \in DOMAIN z
                                                     /\ (c \o z)[i] = z[i - Len(c)])
    BY ConcatFields
  <2> QED
    BY <1>1, <2>1, <2>2, <2>3
<1>2. PICK x, y : x = c \o r /\ y = c \o q
  OBVIOUS
<1>3. /\ \A t : Wanting(x, t) = Wanting(c, t)
      /\ \A i : i \in DOMAIN x /\ IsHeader(x[i]) <=> i \in DOMAIN c /\ IsHeader(c[i])
      /\ \A i \in DOMAIN c : x[i] = c[i]
  BY <1>1, <1>2
<1>4. /\ \A t : Wanting(y, t) = Wanting(c, t)
      /\ \A i : i \in DOMAIN y /\ IsHeader(y[i]) <=> i \in DOMAIN c /\ IsHeader(c[i])
      /\ \A i \in DOMAIN c : y[i] = c[i]
  BY <1>1, <1>2
<1>5. \A i \in Int : i + 0 = i
  OBVIOUS
<1>6. \A i \in Int :
          /\ i \in DOMAIN y /\ IsHeader(y[i]) => i + 0 \in DOMAIN x /\ x[i + 0] = y[i]
          /\ i + 0 \in DOMAIN x /\ IsHeader(x[i + 0]) => i \in DOMAIN y /\ x[i + 0] = y[i]
  BY <1>3, <1>4, <1>5
<1>7. \E d \in Int : \A i \in Int :
          /\ i \in DOMAIN y /\ IsHeader(y[i]) => i + d \in DOMAIN x /\ x[i + d] = y[i]
          /\ i + d \in DOMAIN x /\ IsHeader(x[i + d]) => i \in DOMAIN y /\ x[i + d] = y[i]
  <2> WITNESS 0 \in Int
  <2> QED
    BY <1>6
<1> QED
  BY <1>2, <1>3, <1>4, <1>7 DEF SameHeaders

(* Then the same is offered and asked for.                                 *)
LEMMA SameOffers ==
    ASSUME NEW s \in Seq(Items), NEW x \in Seq(Items), SameHeaders(s, x), NEW t, NEW e
    PROVE  /\ Offered(s, t, e) => Offered(x, t, e)
           /\ Asked(s, t, e) => Asked(x, t, e)
           /\ (\A i \in DOMAIN s : ~ HeaderOf(s[i], t)) => \A i \in DOMAIN x : ~ HeaderOf(x[i], t)
<1>1. PICK d \in Int : \A i \in Int :
          /\ i \in DOMAIN x /\ IsHeader(x[i]) => i + d \in DOMAIN s /\ s[i + d] = x[i]
          /\ i + d \in DOMAIN s /\ IsHeader(s[i + d]) => i \in DOMAIN x /\ s[i + d] = x[i]
  BY DEF SameHeaders
<1>2. DOMAIN s \subseteq Int /\ DOMAIN x \subseteq Int
  OBVIOUS
<1>3. ASSUME NEW k \in DOMAIN s, IsHeader(s[k]) PROVE \E i \in DOMAIN x : x[i] = s[k]
  <2>1. PICK i \in Int : i = k - d
    BY <1>2
  <2>2. i + d = k
    BY <1>2, <2>1
  <2> QED
    BY <1>1, <1>3, <2>2
<1>4. Offered(s, t, e) => Offered(x, t, e)
  BY <1>3 DEF Offered, IsHeader
<1>5. Asked(s, t, e) => Asked(x, t, e)
  BY <1>3 DEF Asked, Wants, IsHeader
<1>6. ASSUME \A i \in DOMAIN s : ~ HeaderOf(s[i], t), NEW i \in DOMAIN x PROVE ~ HeaderOf(x[i], t)
  BY <1>1, <1>2, <1>6 DEF HeaderOf
<1> QED
  BY <1>4, <1>5, <1>6

(* At most the status of a target of p changes, to done.                   *)
Marked(p) ==
    /\ \A u \in Targets : targets'[Other(p)][u] = targets[Other(p)][u]
    /\ \A u \in Targets :
          \/ targets'[p][u] = targets[p][u]
          \/ /\ targets'[p][u] = [targets[p][u] EXCEPT !.status = "done"]
             /\ is_complete(targets[p][u]) /\ entry_state'[p] = {}

(* The step neither sends nor takes a header; p may take an entry.         *)
Quiet(p) ==
    /\ SyncTypes'
    /\ SameHeaders(Pipeline(p), Pipeline(p)')
    /\ SameHeaders(Pipeline(Other(p)), Pipeline(Other(p))')
    /\ Marked(p)
    /\ base' = base /\ failed' = failed /\ stores'[Other(p)] = stores[Other(p)]
    /\ stores'[p] = stores[p] \/ \E e \in Entry : stores'[p] = Join(stores[p], e)
    /\ entry_state'[p] \subseteq entry_state[p] /\ entry_state'[Other(p)] = entry_state[Other(p)]

(* What Marked leaves of a target.                                         *)
LEMMA MarkedFields ==
    ASSUME ReconcilerInv, NEW p \in Peers, Marked(p)
    PROVE  \A x \in Peers, u \in Targets :
              /\ targets'[x][u].started = targets[x][u].started
              /\ targets'[x][u].uncovered = targets[x][u].uncovered
              /\ targets'[x][u].ours = targets[x][u].ours
              /\ targets'[x][u].theirs = targets[x][u].theirs
              /\ targets[x][u].status = "unknown" <=> targets'[x][u].status = "unknown"
              /\ targets[x][u].status = "unknown" => targets'[x][u] = targets[x][u]
<1> SUFFICES ASSUME NEW x \in Peers, NEW u \in Targets
             PROVE  /\ targets'[x][u].started = targets[x][u].started
                    /\ targets'[x][u].uncovered = targets[x][u].uncovered
                    /\ targets'[x][u].ours = targets[x][u].ours
                    /\ targets'[x][u].theirs = targets[x][u].theirs
                    /\ targets[x][u].status = "unknown" <=> targets'[x][u].status = "unknown"
                    /\ targets[x][u].status = "unknown" => targets'[x][u] = targets[x][u]
  OBVIOUS
<1>1. x = p \/ x = Other(p)
  BY TwoPeers
<1>2. CASE targets'[x][u] = targets[x][u]
  BY <1>2
<1>3. CASE /\ x = p /\ targets'[p][u] = [targets[p][u] EXCEPT !.status = "done"]
           /\ is_complete(targets[p][u])
  <2>1. targets[p][u] \in TargetState
    BY PeerTypes DEF ReconcilerInv
  <2>2. PICK T : T = targets[p][u]
    OBVIOUS
  <2>3. T = [status |-> T.status, started |-> T.started, uncovered |-> T.uncovered, ours |-> T.ours,
             theirs |-> T.theirs]
    BY <2>1, <2>2 DEF TargetState
  <2>4. targets'[p][u] = [status |-> "done", started |-> T.started, uncovered |-> T.uncovered,
                          ours |-> T.ours, theirs |-> T.theirs]
    BY <1>3, <2>2, <2>3
  <2>5. T.status # "unknown"
    <3>1. T.started /\ Started(p)
      BY <1>3, <2>2 DEF is_complete, ReconcilerInv
    <3>2. ASSUME T.status = "unknown" PROVE ~ T.started
      <4>1. T = [NewTarget EXCEPT !.status = "unknown"]
        BY <2>2, <3>1, <3>2 DEF Started
      <4> QED
        BY <4>1 DEF NewTarget
    <3> QED
      BY <3>1, <3>2
  <2> QED
    BY <1>3, <2>2, <2>4, <2>5
<1> QED
  BY <1>1, <1>2, <1>3 DEF Marked

(* Both sides of a step.                                                   *)
LEMMA PipelineTypes ==
    ASSUME SyncTypes, SyncTypes', NEW p \in Peers
    PROVE  Pipeline(p) \in Seq(Items) /\ Pipeline(p)' \in Seq(Items)
<1>1. Pipeline(p) \in Seq(Items)
  BY PeerTypes
<1>2. Other(p) \in Peers
  BY TwoPeers
<1>3. chan'[p] \in Seq(Messages) /\ todo'[Other(p)] \in Seq(Items)
  BY <1>2 DEF SyncTypes, Items
<1>4. chan'[p] \in Seq(Items)
  <2>1. \A s \in Seq(Messages) : s \in Seq(Messages \cup Iterators)
    OBVIOUS
  <2> QED
    BY <1>3, <2>1 DEF Items
<1>5. chan'[p] \o todo'[Other(p)] \in Seq(Items)
  BY <1>3, <1>4, ConcatFields
<1> QED
  BY <1>1, <1>5 DEF Pipeline

(* Quiet steps keep Numbered and Uncovering.                               *)
LEMMA QuietKeepsBooks ==
    ASSUME ReconcilerInv, NEW p \in Peers, Quiet(p), NEW q \in Peers
    PROVE  Numbered(q)' /\ Uncovering(q)'
<1>1. PICK s, x : s = Pipeline(q) /\ x = Pipeline(q)'
  OBVIOUS
<1>2. SameHeaders(s, x) /\ \A t : Wanting(Pipeline(Other(q))', t) = Wanting(Pipeline(Other(q)), t)
  <2>1. CASE q = p
    BY <1>1, <2>1 DEF Quiet, SameHeaders
  <2>2. CASE q = Other(p)
    <3>1. Pipeline(Other(q))' = Pipeline(p)' /\ Pipeline(Other(q)) = Pipeline(p)
      BY <2>2, TwoPeers DEF Pipeline
    <3>2. Pipeline(q)' = Pipeline(Other(p))' /\ Pipeline(q) = Pipeline(Other(p))
      BY <2>2 DEF Pipeline
    <3> QED
      BY <1>1, <3>1, <3>2 DEF Quiet, SameHeaders
  <2> QED
    BY <2>1, <2>2, TwoPeers
<1>3. s \in Seq(Items) /\ x \in Seq(Items)
  BY <1>1, PipelineTypes DEF Quiet, ReconcilerInv
<1>4. PICK d \in Int : \A i \in Int :
          /\ i \in DOMAIN x /\ IsHeader(x[i]) => i + d \in DOMAIN s /\ s[i + d] = x[i]
          /\ i + d \in DOMAIN s /\ IsHeader(s[i + d]) => i \in DOMAIN x /\ s[i + d] = x[i]
  BY <1>2 DEF SameHeaders
<1>5. DOMAIN s = 1..Len(s) /\ DOMAIN x = 1..Len(x) /\ Len(s) \in Nat /\ Len(x) \in Nat
  BY <1>3
<1>6. Other(q) \in Peers
  BY TwoPeers
<1>7. \A u \in Targets : /\ targets'[q][u].started = targets[q][u].started
                         /\ targets'[q][u].uncovered = targets[q][u].uncovered
                         /\ targets'[q][u].ours = targets[q][u].ours
                         /\ targets'[Other(q)][u].theirs = targets[Other(q)][u].theirs
  BY <1>6, MarkedFields DEF Quiet
<1>8. Numbered(q)'
  <2> SUFFICES ASSUME NEW u \in Targets
               PROVE  /\ targets'[q][u].ours = targets'[Other(q)][u].theirs
                            + Wanting(Pipeline(Other(q))', u)
                      /\ targets'[Other(q)][u].theirs..(targets'[q][u].ours - 1)
                            \subseteq targets'[q][u].uncovered
                      /\ \A i \in DOMAIN x : HeaderOf(x[i], u) =>
                            /\ x[i].covers \subseteq targets'[q][u].uncovered
                            /\ x[i].covers \subseteq 0..(targets'[Other(q)][u].theirs - 1)
                            /\ \A j \in DOMAIN x : HeaderOf(x[j], u) /\ i # j =>
                                  x[i].covers \cap x[j].covers = {}
    BY <1>1 DEF Numbered
  <2>1. /\ targets[q][u].ours = targets[Other(q)][u].theirs + Wanting(Pipeline(Other(q)), u)
        /\ targets[Other(q)][u].theirs..(targets[q][u].ours - 1) \subseteq targets[q][u].uncovered
        /\ \A i \in DOMAIN s : HeaderOf(s[i], u) =>
              /\ s[i].covers \subseteq targets[q][u].uncovered
              /\ s[i].covers \subseteq 0..(targets[Other(q)][u].theirs - 1)
              /\ \A j \in DOMAIN s : HeaderOf(s[j], u) /\ i # j => s[i].covers \cap s[j].covers = {}
    BY <1>1 DEF Numbered, ReconcilerInv
  <2>2. ASSUME NEW i \in DOMAIN x, HeaderOf(x[i], u)
        PROVE  i \in Int /\ i + d \in DOMAIN s /\ s[i + d] = x[i]
    BY <1>4, <1>5, <2>2 DEF HeaderOf
  <2>3. ASSUME NEW i \in DOMAIN x, HeaderOf(x[i], u)
        PROVE  /\ x[i].covers \subseteq targets[q][u].uncovered
               /\ x[i].covers \subseteq 0..(targets[Other(q)][u].theirs - 1)
    BY <2>1, <2>2, <2>3
  <2>4. ASSUME NEW i \in DOMAIN x, HeaderOf(x[i], u), NEW j \in DOMAIN x, HeaderOf(x[j], u), i # j
        PROVE  x[i].covers \cap x[j].covers = {}
    <3>1. i \in Int /\ j \in Int /\ i + d \in DOMAIN s /\ j + d \in DOMAIN s
          /\ s[i + d] = x[i] /\ s[j + d] = x[j]
      BY <2>2, <2>4
    <3>2. i + d # j + d
      <4>1. d \in Int /\ i \in Int /\ j \in Int /\ i # j
        BY <1>4, <2>4, <3>1
      <4> QED
        BY <4>1
    <3> QED
      BY <2>1, <2>4, <3>1, <3>2
  <2> QED
    BY <1>2, <1>7, <2>1, <2>3, <2>4
<1>9. Uncovering(q)'
  <2>1. ASSUME NEW i \in DOMAIN x, IsHeader(x[i]), x[i].covers = {}
        PROVE  /\ x[i].type = "SendFingerprint"
               /\ \/ i < Len(x) /\ HeaderOf(x[i + 1], x[i].target) /\ x[i + 1].covers # {}
                  \/ q = "betty" /\ ~ targets'[q][x[i].target].started
    <3>1. i \in Int /\ i + 1 \in Int /\ i + d \in DOMAIN s /\ s[i + d] = x[i] /\ (i + d) + 1 = (i + 1) + d
      BY <1>4, <1>5, <2>1
    <3>2. x[i].target \in Targets
      BY <1>3, <2>1, ItemFields
    <3>3. /\ x[i].type = "SendFingerprint"
          /\ \/ i + d < Len(s) /\ HeaderOf(s[(i + d) + 1], x[i].target) /\ s[(i + d) + 1].covers # {}
             \/ q = "betty" /\ ~ targets[q][x[i].target].started
      BY <1>1, <2>1, <3>1 DEF Uncovering, ReconcilerInv
    <3>4. ASSUME i + d < Len(s), HeaderOf(s[(i + d) + 1], x[i].target)
          PROVE  i < Len(x) /\ x[i + 1] = s[(i + d) + 1]
      <4>1. (i + 1) + d \in DOMAIN s
        BY <1>5, <3>1, <3>4
      <4>2. i + 1 \in DOMAIN x /\ s[(i + 1) + d] = x[i + 1]
        BY <1>4, <3>1, <3>4, <4>1 DEF HeaderOf
      <4> QED
        BY <1>5, <3>1, <4>2
    <3> QED
      BY <1>7, <3>2, <3>3, <3>4
  <2> QED
    BY <1>1, <2>1 DEF Uncovering
<1> QED
  BY <1>8, <1>9

(* An area that is complete has no header under way: a range is covered by *)
(* at most one message, and all ranges are covered.                        *)
LEMMA CompleteIsQuiet ==
    ASSUME ReconcilerInv, NEW p \in Peers, NEW u \in Targets, is_complete(targets[p][u])
    PROVE  \A i \in DOMAIN Pipeline(p) : ~ HeaderOf(Pipeline(p)[i], u)
<1> SUFFICES ASSUME NEW i \in DOMAIN Pipeline(p), HeaderOf(Pipeline(p)[i], u) PROVE FALSE
  OBVIOUS
<1>1. PICK s : s = Pipeline(p)
  OBVIOUS
<1>2. s \in Seq(Items) /\ i \in DOMAIN s /\ i \in Nat /\ DOMAIN s = 1..Len(s) /\ Len(s) \in Nat
  BY <1>1, PeerTypes DEF ReconcilerInv
<1>3. targets[p][u].uncovered = {} /\ targets[p][u].started
  BY DEF is_complete
<1>4. \A k \in DOMAIN s : HeaderOf(s[k], u) => s[k].covers \subseteq targets[p][u].uncovered
  BY <1>1 DEF ReconcilerInv, Numbered
<1>5. IsHeader(s[i]) /\ s[i].target = u /\ s[i].covers = {}
  BY <1>1, <1>2, <1>3, <1>4 DEF HeaderOf
<1>6. \/ i < Len(s) /\ HeaderOf(s[i + 1], u) /\ s[i + 1].covers # {}
      \/ p = "betty" /\ ~ targets[p][u].started
  BY <1>1, <1>2, <1>5 DEF ReconcilerInv, Uncovering
<1>7. i < Len(s) => i + 1 \in DOMAIN s
  BY <1>2
<1> QED
  BY <1>3, <1>4, <1>6, <1>7

(* Quiet steps keep Started and Ended.                                     *)
LEMMA QuietKeepsStart ==
    ASSUME ReconcilerInv, NEW p \in Peers, Quiet(p), NEW q \in Peers
    PROVE  Started(q)' /\ Ended(q)'
<1>1. SyncTypes /\ SyncTypes'
  BY DEF ReconcilerInv, Quiet
<1>2. \A y \in Peers : Pipeline(y) \in Seq(Items) /\ Pipeline(y)' \in Seq(Items)
  BY <1>1, PipelineTypes
<1>3. ASSUME NEW y \in Peers PROVE SameHeaders(Pipeline(y), Pipeline(y)')
  <2>1. CASE y = p
    BY <2>1 DEF Quiet
  <2>2. CASE y = Other(p)
    <3>1. Pipeline(y)' = Pipeline(Other(p))' /\ Pipeline(y) = Pipeline(Other(p))
      BY <2>2 DEF Pipeline
    <3> QED
      BY <3>1 DEF Quiet
  <2> QED
    BY <2>1, <2>2, TwoPeers
<1>4. ASSUME NEW y \in Peers, NEW u, \A i \in DOMAIN Pipeline(y) : ~ HeaderOf(Pipeline(y)[i], u)
      PROVE  \A i \in DOMAIN Pipeline(y)' : ~ HeaderOf(Pipeline(y)'[i], u)
  <2>1. PICK s, x \in Seq(Items) : s = Pipeline(y) /\ x = Pipeline(y)'
    BY <1>2
  <2>2. SameHeaders(s, x)
    BY <1>3, <2>1
  <2>3. \A i \in DOMAIN s : ~ HeaderOf(s[i], u)
    BY <1>4, <2>1
  <2>4. \A i \in DOMAIN x : ~ HeaderOf(x[i], u)
    BY <2>2, <2>3, SameOffers
  <2> QED
    BY <2>1, <2>4
<1>5. Other(q) \in Peers /\ "alfie" \in Peers
  BY TwoPeers
<1>6. \A x \in Peers, u \in Targets :
              /\ targets'[x][u].started = targets[x][u].started
              /\ targets'[x][u].uncovered = targets[x][u].uncovered
              /\ targets'[x][u].ours = targets[x][u].ours
              /\ targets[x][u].status = "unknown" <=> targets'[x][u].status = "unknown"
              /\ targets[x][u].status = "unknown" => targets'[x][u] = targets[x][u]
  BY MarkedFields DEF Quiet
<1>7. Started(q)'
  <2>1. ASSUME NEW u \in Targets, targets'[q][u].status = "unknown"
        PROVE  /\ targets'[q][u] = [NewTarget EXCEPT !.status = "unknown"]
               /\ ~ targets'[Other(q)][u].started
               /\ \A i \in DOMAIN Pipeline(Other(q))' : ~ HeaderOf(Pipeline(Other(q))'[i], u)
    <3>1. targets[q][u].status = "unknown" /\ targets'[q][u] = targets[q][u]
      BY <1>6, <2>1
    <3>2. /\ targets[q][u] = [NewTarget EXCEPT !.status = "unknown"]
          /\ ~ targets[Other(q)][u].started
          /\ \A i \in DOMAIN Pipeline(Other(q)) : ~ HeaderOf(Pipeline(Other(q))[i], u)
      BY <3>1 DEF ReconcilerInv, Started
    <3> QED
      BY <1>4, <1>5, <1>6, <3>1, <3>2
  <2>2. ASSUME NEW u \in Targets, q = "betty", ~ targets'[q][u].started
        PROVE  /\ targets'[q][u].uncovered = {}
               /\ ~ targets'["alfie"][u].started /\ targets'["alfie"][u].ours <= 1
               /\ \A i \in DOMAIN Pipeline("alfie")' : ~ HeaderOf(Pipeline("alfie")'[i], u)
    <3>1. ~ targets[q][u].started
      BY <1>6, <2>2
    <3>2. /\ targets[q][u].uncovered = {}
          /\ ~ targets["alfie"][u].started /\ targets["alfie"][u].ours <= 1
          /\ \A i \in DOMAIN Pipeline("alfie") : ~ HeaderOf(Pipeline("alfie")[i], u)
      BY <2>2, <3>1 DEF ReconcilerInv, Started
    <3> QED
      BY <1>4, <1>5, <1>6, <3>2
  <2> QED
    BY <2>1, <2>2 DEF Started
<1>8. Ended(q)'
  <2> SUFFICES ASSUME NEW u \in Targets, targets'[q][u].status = "done"
               PROVE  /\ is_complete(targets'[q][u]) /\ u \notin entry_state'[q]
                      /\ \A i \in DOMAIN Pipeline(q)' : ~ HeaderOf(Pipeline(q)'[i], u)
    BY DEF Ended, Done
  <2>1. is_complete(targets[q][u]) <=> is_complete(targets'[q][u])
    BY <1>6 DEF is_complete
  <2>2. CASE targets[q][u].status = "done"
    <3>1. is_complete(targets[q][u]) /\ u \notin entry_state[q]
      BY <2>2 DEF ReconcilerInv, Ended, Done
    <3>2. \A i \in DOMAIN Pipeline(q) : ~ HeaderOf(Pipeline(q)[i], u)
      BY <2>2 DEF ReconcilerInv, Ended, Done
    <3>3. entry_state'[q] \subseteq entry_state[q]
      BY TwoPeers DEF Quiet
    <3> QED
      BY <1>4, <2>1, <3>1, <3>2, <3>3
  <2>3. CASE targets[q][u].status # "done"
    <3>1. q = p /\ is_complete(targets[p][u]) /\ entry_state'[p] = {}
      <4>1. targets'[q][u] # targets[q][u]
        BY <2>3
      <4>2. q = p \/ q = Other(p)
        BY TwoPeers
      <4> QED
        BY <4>1, <4>2 DEF Quiet, Marked
    <3>2. \A i \in DOMAIN Pipeline(q) : ~ HeaderOf(Pipeline(q)[i], u)
      BY <3>1, CompleteIsQuiet
    <3> QED
      BY <1>4, <2>1, <3>1, <3>2
  <2> QED
    BY <2>2, <2>3
<1> QED
  BY <1>7, <1>8

(* What an ingested entry leaves of a store.                               *)
LEMMA JoinKeeps ==
    ASSUME NEW S \in SUBSET Entry, IsFiniteSet(S), Frontier(S) = S, NEW e \in Entry
    PROVE  /\ Join(S, e) \in SUBSET Entry /\ IsFiniteSet(Join(S, e))
           /\ Frontier(Join(S, e)) = Join(S, e)
           /\ Dominates(Join(S, e), {e})
           /\ \A T \in SUBSET Entry : Dominates(S, T) => Dominates(Join(S, e), T)
           /\ \A B \in SUBSET Entry : Dominates(S, B) => B \cap Join(S, e) \subseteq B \cap S
<1> USE PrunesAssumption
<1>0. PICK J : J = Join(S, e)
  OBVIOUS
<1>1. CASE Rejects(S, e)
  <2>1. J = S
    BY <1>0, <1>1 DEF Join
  <2>2. Dominates(J, {e})
    BY <1>1, <2>1 DEF Rejects, Dominates
  <2> QED
    BY <1>0, <2>1, <2>2
<1>2. CASE ~ Rejects(S, e)
  <2>1. J = { f \in S : << e, f >> \notin Prunes } \cup {e}
    BY <1>0, <1>2 DEF Join
  <2>2. IsFiniteSet(J)
    <3>1. PICK R : R = { f \in S : << e, f >> \notin Prunes }
      OBVIOUS
    <3>2. R \in SUBSET S /\ J = R \cup {e}
      BY <2>1, <3>1
    <3>3. IsFiniteSet(R)
      BY <3>2, FS_Subset
    <3> QED
      BY <3>2, <3>3, FS_AddElement
  <2>3. Frontier(J) = J
    <3>1. \A f, g \in S : << f, g >> \notin Prunes
      BY DEF Frontier
    <3>2. \A f \in S : << f, e >> \notin Prunes
      BY <1>2 DEF Rejects
    <3> QED
      BY <2>1, <3>1, <3>2 DEF Frontier
  <2>4. ASSUME NEW T \in SUBSET Entry, Dominates(S, T) PROVE Dominates(J, T)
    <3> SUFFICES ASSUME NEW f \in T, f \notin J PROVE \E g \in J : << g, f >> \in Prunes
      BY DEF Dominates
    <3>1. CASE << e, f >> \in Prunes
      BY <2>1, <3>1
    <3>2. CASE << e, f >> \notin Prunes
      <4>1. f \notin S
        BY <2>1, <3>2
      <4>2. PICK g \in S : << g, f >> \in Prunes
        BY <2>4, <4>1 DEF Dominates
      <4>3. << e, g >> \notin Prunes
        BY <3>2, <4>2
      <4> QED
        BY <2>1, <4>2, <4>3
    <3> QED
      BY <3>1, <3>2
  <2>5. ASSUME NEW B \in SUBSET Entry, Dominates(S, B) PROVE B \cap J \subseteq B \cap S
    BY <1>2, <2>1, <2>5 DEF Dominates, Rejects
  <2>6. Dominates(J, {e}) /\ J \in SUBSET Entry
    BY <2>1 DEF Dominates
  <2> QED
    BY <1>0, <2>2, <2>3, <2>4, <2>5, <2>6
<1> QED
  BY <1>1, <1>2

(* An ingest that does not find two entries to prune is a join.            *)
LEMMA IngestIsJoin ==
    ASSUME SyncTypes, NEW p \in Peers, NEW e \in Entry, IngestEntry(p, e), ~ shifted'
    PROVE  stores' = [stores EXCEPT ![p] = Join(@, e)] /\ UNCHANGED failed
<1> DEFINE S == stores[p]
           pruned == { f \in S : << e, f >> \in Prunes }
<1>1. stores \in [Peers -> SUBSET Entry]
  BY DEF SyncTypes
<1>2. CASE Rejects(S, e)
  <2>1. UNCHANGED << stores, failed >>
    BY <1>2 DEF IngestEntry
  <2>2. Join(S, e) = S
    BY <1>2 DEF Join
  <2> QED
    BY <1>1, <2>1, <2>2
<1>3. CASE ~ Rejects(S, e)
  <2>1. stores' = [stores EXCEPT ![p] = (S \ pruned) \cup {e}] /\ UNCHANGED failed
    BY <1>3 DEF IngestEntry
  <2>2. Join(S, e) = (S \ pruned) \cup {e}
    BY <1>3 DEF Join
  <2> HIDE DEF pruned
  <2> QED
    BY <1>1, <2>1, <2>2
<1> QED
  BY <1>2, <1>3

(* The stores after a quiet step.                                          *)
LEMMA QuietStores ==
    ASSUME ReconcilerInv, NEW p \in Peers, Quiet(p), NEW q \in Peers
    PROVE  /\ IsFiniteSet(stores'[q]) /\ Frontier(stores'[q]) = stores'[q]
           /\ Dominates(stores'[q], base'[q])
           /\ \A T \in SUBSET Entry : Dominates(stores[q], T) => Dominates(stores'[q], T)
           /\ Kept(q)' \subseteq Kept(q)
<1>1. /\ stores[q] \in SUBSET Entry /\ base[q] \in SUBSET Entry
      /\ IsFiniteSet(stores[q]) /\ Frontier(stores[q]) = stores[q]
      /\ Dominates(stores[q], base[q]) /\ base'[q] = base[q]
  BY PeerTypes DEF ReconcilerInv, Stored, Quiet
<1>2. CASE stores'[q] = stores[q]
  BY <1>1, <1>2 DEF Kept
<1>3. CASE \E e \in Entry : stores'[q] = Join(stores[q], e)
  <2>1. PICK e \in Entry : stores'[q] = Join(stores[q], e)
    BY <1>3
  <2>2. PICK S, J : S = stores[q] /\ J = stores'[q]
    OBVIOUS
  <2>3. /\ J \in SUBSET Entry /\ IsFiniteSet(J) /\ Frontier(J) = J
        /\ \A T \in SUBSET Entry : Dominates(S, T) => Dominates(J, T)
        /\ \A B \in SUBSET Entry : Dominates(S, B) => B \cap J \subseteq B \cap S
    <3>1. S \in SUBSET Entry /\ IsFiniteSet(S) /\ Frontier(S) = S /\ J = Join(S, e)
      BY <1>1, <2>1, <2>2
    <3>2. e \in Entry
      BY <2>1
    <3>3. /\ Join(S, e) \in SUBSET Entry /\ IsFiniteSet(Join(S, e))
          /\ Frontier(Join(S, e)) = Join(S, e)
          /\ \A T \in SUBSET Entry : Dominates(S, T) => Dominates(Join(S, e), T)
          /\ \A B \in SUBSET Entry : Dominates(S, B) => B \cap Join(S, e) \subseteq B \cap S
      BY <3>1, <3>2, JoinKeeps
    <3> QED
      BY <3>1, <3>3
  <2>4. Kept(q) = base[q] \cap S /\ Kept(q)' = base[q] \cap J
    BY <1>1, <2>2 DEF Kept
  <2>5. base[q] \cap J \subseteq base[q] \cap S
    BY <1>1, <2>2, <2>3
  <2>6. Dominates(J, base[q])
    BY <1>1, <2>2, <2>3
  <2> QED
    BY <1>1, <2>2, <2>3, <2>4, <2>5, <2>6
<1>4. q = p \/ q = Other(p)
  BY TwoPeers
<1> QED
  BY <1>2, <1>3, <1>4 DEF Quiet

(* Quiet steps keep Stored, also when the store of p takes an entry.       *)
LEMMA QuietKeepsStores ==
    ASSUME ReconcilerInv, NEW p \in Peers, Quiet(p), NEW q \in Peers
    PROVE  Stored(q)'
<1>1. PICK s, x : s = Pipeline(q) /\ x = Pipeline(q)'
  OBVIOUS
<1>2. SameHeaders(s, x)
  <2>1. CASE q = p
    BY <1>1, <2>1 DEF Quiet
  <2>2. CASE q = Other(p)
    <3>1. Pipeline(q)' = Pipeline(Other(p))' /\ Pipeline(q) = Pipeline(Other(p))
      BY <2>2 DEF Pipeline
    <3> QED
      BY <1>1, <3>1 DEF Quiet
  <2> QED
    BY <2>1, <2>2, TwoPeers
<1>3. s \in Seq(Items) /\ x \in Seq(Items)
  BY <1>1, PipelineTypes DEF Quiet, ReconcilerInv
<1>4. Other(q) \in Peers
  BY TwoPeers
<1>5. /\ IsFiniteSet(stores'[q]) /\ Frontier(stores'[q]) = stores'[q]
      /\ Dominates(stores'[q], base'[q])
  BY QuietStores
<1>6. /\ \A T \in SUBSET Entry : Dominates(stores[Other(q)], T) => Dominates(stores'[Other(q)], T)
      /\ Kept(Other(q))' \subseteq Kept(Other(q))
  BY <1>4, QuietStores
<1>7. ASSUME NEW i \in DOMAIN x, x[i].type = "SendFingerprint"
      PROVE  /\ get_entries(Kept(Other(q))', x[i].range) \subseteq x[i].fingerprint
             /\ Dominates(stores'[Other(q)], x[i].fingerprint)
  <2>1. IsHeader(x[i]) /\ x[i] \in Items
    BY <1>3, <1>7 DEF IsHeader
  <2>2. PICK k \in DOMAIN s : s[k] = x[i]
    BY <1>2, <1>3, <2>1 DEF SameHeaders
  <2>3. /\ get_entries(Kept(Other(q)), x[i].range) \subseteq x[i].fingerprint
        /\ Dominates(stores[Other(q)], x[i].fingerprint)
    BY <1>1, <1>7, <2>2 DEF ReconcilerInv, Stored
  <2>4. x[i].fingerprint \in SUBSET Entry
    BY <1>7, <2>1, ItemFields
  <2> QED
    BY <1>6, <2>3, <2>4 DEF get_entries
<1> QED
  BY <1>1, <1>5, <1>7 DEF Stored

(* Nothing gets lost as long as no announced entry does.                   *)
LEMMA QuietKeepsInv ==
    ASSUME ReconcilerInv, NEW p \in Peers, Quiet(p),
           \A q \in Peers : Framed(q)',
           \A q \in Peers : \A t \in Targets, e \in Entry :
               Coming(Pipeline(q), entry_state[q], t, e) =>
                   Coming(Pipeline(q)', entry_state'[q], t, e) \/ Dominates(stores'[q], {e})
    PROVE  ReconcilerInv'
<1>1. SyncTypes /\ SyncTypes' /\ NeverFails'
  BY DEF ReconcilerInv, Quiet, NeverFails
<1>2. ASSUME NEW q \in Peers PROVE Delivered(q)'
  <2>1. Other(q) \in Peers /\ "alfie" \in Peers
    BY TwoPeers
  <2> SUFFICES ASSUME NEW u \in Targets, targets'["alfie"][u].status # "unknown",
                      NEW e \in get_entries(Kept(Other(q))', AreaRange[u])
               PROVE  \/ Dominates(stores'[q], {e})
                      \/ Offered(Pipeline(q)', u, e)
                      \/ Asked(Pipeline(Other(q))', u, e)
                      \/ Coming(Pipeline(q)', entry_state'[q], u, e)
    BY DEF Delivered
  <2>2. targets["alfie"][u].status # "unknown"
    BY <2>1, MarkedFields DEF Quiet
  <2>3. e \in get_entries(Kept(Other(q)), AreaRange[u]) /\ e \in Entry
    <3>1. Kept(Other(q))' \subseteq Kept(Other(q))
      BY <2>1, QuietStores
    <3>2. Kept(Other(q)) \subseteq Entry
      BY <1>1, <2>1, PeerTypes DEF Kept
    <3> QED
      BY <3>1, <3>2 DEF get_entries
  <2>4. \/ Dominates(stores[q], {e}) \/ Offered(Pipeline(q), u, e)
        \/ Asked(Pipeline(Other(q)), u, e) \/ Coming(Pipeline(q), entry_state[q], u, e)
    BY <2>2, <2>3 DEF ReconcilerInv, Delivered
  <2>5. ASSUME NEW y \in Peers PROVE SameHeaders(Pipeline(y), Pipeline(y)')
    <3>1. CASE y = p
      BY <3>1 DEF Quiet
    <3>2. CASE y = Other(p)
      <4>1. Pipeline(y)' = Pipeline(Other(p))' /\ Pipeline(y) = Pipeline(Other(p))
        BY <3>2 DEF Pipeline
      <4> QED
        BY <4>1 DEF Quiet
    <3> QED
      BY <3>1, <3>2, TwoPeers
  <2>6. \A y \in Peers : Pipeline(y) \in Seq(Items) /\ Pipeline(y)' \in Seq(Items)
    BY <1>1, PipelineTypes
  <2>7. ASSUME NEW y \in Peers
        PROVE  /\ Offered(Pipeline(y), u, e) => Offered(Pipeline(y)', u, e)
               /\ Asked(Pipeline(y), u, e) => Asked(Pipeline(y)', u, e)
    <3>1. PICK s, x \in Seq(Items) : s = Pipeline(y) /\ x = Pipeline(y)'
      BY <2>6
    <3>2. SameHeaders(s, x)
      BY <2>5, <3>1
    <3>3. (Offered(s, u, e) => Offered(x, u, e)) /\ (Asked(s, u, e) => Asked(x, u, e))
      BY <3>2, SameOffers
    <3> QED
      BY <3>1, <3>3
  <2>8. Dominates(stores[q], {e}) => Dominates(stores'[q], {e})
    <3>1. {e} \in SUBSET Entry
      BY <2>3
    <3> QED
      BY <3>1, QuietStores
  <2> QED
    BY <2>1, <2>3, <2>4, <2>7, <2>8
<1>3. ASSUME NEW q \in Peers PROVE PeerInv(q)'
  BY <1>2, QuietKeepsBooks, QuietKeepsStart, QuietKeepsStores DEF PeerInv
<1>4. Other(p) \in Peers
  BY TwoPeers
<1> QED
  BY <1>1, <1>3, <1>4, BothPeers

-----------------------------------------------------------------------------
(* The handlers of entries and payloads.                                   *)

(* The peer moves on to what may follow m, and keeps the entry it brings.  *)
Consumes(p, m) ==
    /\ SyncTypes'
    /\ todo[p] = << >> /\ chan[p] # << >> /\ m = Head(chan[p]) /\ ~ IsHeader(m) /\ Take(p)
    /\ todo' = todo /\ base' = base /\ failed' = failed /\ Marked(p)
    /\ stores'[Other(p)] = stores[Other(p)]
    /\ stores'[p] = IF m.type = "SendEntry" THEN Join(stores[p], m.entry) ELSE stores[p]
    /\ entry_state'[Other(p)] = entry_state[Other(p)] /\ payload'[Other(p)] = payload[Other(p)]
    /\ entry_state'[p] = IF Leaves(m) = "header" THEN {} ELSE entry_state[p]
    /\ payload'[p] <=> Leaves(m) = "payload"

(* The message an idle peer takes is the first on its way to it, and of a  *)
(* kind that it expects.                                                   *)
LEMMA ConsumedFirst ==
    ASSUME ReconcilerInv, NEW p \in Peers, NEW m, todo[p] = << >>, chan[p] # << >>, m = Head(chan[p])
    PROVE  /\ Pipeline(p) \in Seq(Items) /\ Pipeline(p) # << >> /\ Head(Pipeline(p)) = m
           /\ m \in Items /\ m.type # "Iterator"
           /\ Needs(m) = Mode(p) /\ Leads(Leaves(m), Tail(Pipeline(p)), "header")
<1>1. /\ chan[p] \in Seq(Items) /\ chan[p] \in Seq(Messages) /\ todo[Other(p)] \in Seq(Items)
      /\ Pipeline(p) \in Seq(Items)
  BY PeerTypes, TwoPeers DEF ReconcilerInv
<1>2. PICK c, w \in Seq(Items) : c = chan[p] /\ w = todo[Other(p)]
  BY <1>1
<1>3. c # << >>
  BY <1>2
<1>4. c \o w # << >> /\ Head(c \o w) = Head(c)
  BY <1>3
<1>5. Pipeline(p) # << >> /\ Head(Pipeline(p)) = m
  BY <1>2, <1>4 DEF Pipeline
<1>6. m \in Messages
  BY <1>1
<1>7. m \in Items /\ m.type # "Iterator"
  BY <1>6 DEF Messages, Items
<1>8. Leads(Mode(p), Pipeline(p), "header")
  BY DEF ReconcilerInv, Framed
<1> QED
  BY <1>1, <1>5, <1>7, <1>8, LeadsTail

(* A step of the form Consumes keeps the invariant.                        *)
LEMMA ConsumeKeepsInv ==
    ASSUME ReconcilerInv, NEW p \in Peers, NEW m, Consumes(p, m)
    PROVE  ReconcilerInv'
<1>1. PICK s : s = Pipeline(p)
  OBVIOUS
<1>2. /\ todo[p] = << >> /\ chan[p] # << >> /\ m = Head(chan[p]) /\ ~ IsHeader(m) /\ Take(p)
      /\ todo' = todo /\ SyncTypes' /\ SyncTypes
  BY DEF Consumes, ReconcilerInv
<1>3. /\ s \in Seq(Items) /\ s # << >> /\ Head(s) = m
      /\ m \in Items /\ m.type # "Iterator"
      /\ Needs(m) = Mode(p) /\ Leads(Leaves(m), Tail(s), "header")
  BY <1>1, <1>2, ConsumedFirst
<1>4. Pipeline(p)' = Tail(s) /\ Pipeline(Other(p))' = Pipeline(Other(p))
  <2>1. todo' = [todo EXCEPT ![p] = << >>] /\ << >> \in Seq(Items)
    BY <1>2 DEF SyncTypes
  <2>2. /\ Pipeline(p)' = Tail(Pipeline(p))
        /\ Pipeline(Other(p))' = Pipeline(Other(p)) \o << >>
    BY <1>2, <2>1, TakeStep
  <2>3. Pipeline(Other(p)) \in Seq(Items)
    BY <1>2, PeerTypes, TwoPeers
  <2>4. Pipeline(Other(p)) \o << >> = Pipeline(Other(p))
    BY <2>3
  <2> QED
    BY <1>1, <2>2, <2>4
<1>5. /\ Other(p) \in Peers /\ Other(Other(p)) = p /\ \A x \in Peers : x = p \/ x = Other(p)
  BY TwoPeers
<1>6. Needs(m) # "header" /\ entry_state[p] # {}
  <2>1. Needs(m) # "header"
    BY <1>2 DEF Needs
  <2> QED
    BY <1>3, <2>1 DEF Mode
<1>7. Leaves(m) \in {"header", "entry", "payload"}
  BY DEF Leaves
<1>8. Mode(p)' = Leaves(m)
  BY <1>6, <1>7 DEF Consumes, Mode
<1>9. Framed(p) /\ Framed(Other(p))
  BY <1>5 DEF ReconcilerInv
<1>10. Framed(p)'
  <2>1. /\ entry_state'[p] # {} => \E t \in Targets : entry_state'[p] = {t}
        /\ entry_state'[p] = {} => ~ payload'[p]
    BY <1>6, <1>9 DEF Consumes, Framed
  <2>2. Leads(Mode(p)', Pipeline(p)', "header")
    BY <1>3, <1>4, <1>8
  <2> QED
    BY <1>2, <1>9, <2>1, <2>2 DEF Framed
<1>11. Framed(Other(p))'
  <2>1. Mode(Other(p))' = Mode(Other(p))
    BY DEF Consumes, Mode
  <2>2. entry_state'[Other(p)] = entry_state[Other(p)] /\ payload'[Other(p)] = payload[Other(p)]
    BY DEF Consumes
  <2> QED
    BY <1>2, <1>4, <1>9, <2>1, <2>2 DEF Framed
<1>12. Quiet(p)
  <2>1. SameHeaders(s, Tail(s))
    BY <1>2, <1>3, SameWithoutFirst
  <2>2. SameHeaders(Pipeline(Other(p)), Pipeline(Other(p))')
    <3>1. PICK w \in Seq(Items) : w = Pipeline(Other(p))
      BY <1>2, <1>5, PeerTypes
    <3>2. SameHeaders(w, w)
      BY SameAsItself
    <3> QED
      BY <1>4, <3>1, <3>2
  <2>3. stores'[p] = stores[p] \/ \E e \in Entry : stores'[p] = Join(stores[p], e)
    BY <1>3, ItemFields DEF Consumes
  <2>4. entry_state'[p] \subseteq entry_state[p]
    BY DEF Consumes
  <2>5. /\ SyncTypes' /\ Marked(p) /\ base' = base /\ failed' = failed
        /\ stores'[Other(p)] = stores[Other(p)] /\ entry_state'[Other(p)] = entry_state[Other(p)]
    BY DEF Consumes
  <2> QED
    BY <1>1, <1>4, <2>1, <2>2, <2>3, <2>4, <2>5 DEF Quiet
<1>13. ASSUME NEW t \in Targets, NEW e \in Entry, Coming(s, entry_state[p], t, e)
       PROVE  Coming(Tail(s), entry_state'[p], t, e) \/ Dominates(stores'[p], {e})
  <2>1. PICK current, next : current = entry_state[p] /\ next = entry_state'[p]
    OBVIOUS
  <2>2. t \in current /\ Len(s) > 1 /\ ~ IsHeader(s[2]) => t \in next
    <3> SUFFICES ASSUME t \in current, Len(s) > 1, ~ IsHeader(s[2]) PROVE t \in next
      OBVIOUS
    <3>1. Tail(s) \in Seq(Items) /\ 1 \in DOMAIN Tail(s) /\ Tail(s)[1] = s[2]
      BY <1>3, TailFields
    <3>2. Needs(s[2]) = Leaves(m)
      BY <1>3, <3>1 DEF Leads
    <3>3. Needs(s[2]) # "header"
      BY DEF Needs
    <3> QED
      BY <2>1, <3>2, <3>3 DEF Consumes
  <2>3. Coming(s, current, t, e)
    BY <1>13, <2>1
  <2>4. ~ IsHeader(Head(s))
    BY <1>2, <1>3
  <2>5. Coming(Tail(s), next, t, e) \/ (t \in current /\ ~ IsHeader(Head(s)) /\ Brings(Head(s), e))
    BY <1>3, <2>2, <2>3, <2>4, OneIsTaken
  <2>6. ASSUME Brings(m, e) PROVE Dominates(stores'[p], {e})
    <3>1. m.type = "SendEntry" /\ m.entry = e
      BY <1>3, <2>6 DEF Brings
    <3>2. stores'[p] = Join(stores[p], e)
      BY <3>1 DEF Consumes
    <3>3. stores[p] \in SUBSET Entry /\ IsFiniteSet(stores[p]) /\ Frontier(stores[p]) = stores[p]
      BY PeerTypes DEF ReconcilerInv, Stored
    <3>4. Dominates(Join(stores[p], e), {e})
      BY <3>3, JoinKeeps
    <3> QED
      BY <3>2, <3>4
  <2> QED
    BY <1>3, <2>1, <2>5, <2>6
<1>14. ASSUME NEW q \in Peers, NEW t \in Targets, NEW e \in Entry,
              Coming(Pipeline(q), entry_state[q], t, e)
       PROVE  Coming(Pipeline(q)', entry_state'[q], t, e) \/ Dominates(stores'[q], {e})
  <2>1. CASE q = p
    BY <1>1, <1>4, <1>13, <1>14, <2>1
  <2>2. CASE q = Other(p)
    <3>1. Pipeline(q)' = Pipeline(q) /\ entry_state'[q] = entry_state[q]
      <4>1. entry_state'[q] = entry_state[q]
        BY <2>2 DEF Consumes
      <4>2. Pipeline(q)' = Pipeline(Other(p))' /\ Pipeline(q) = Pipeline(Other(p))
        BY <2>2 DEF Pipeline
      <4> QED
        BY <1>4, <4>1, <4>2
    <3> QED
      BY <1>14, <3>1
  <2> QED
    BY <1>5, <2>1, <2>2
<1>15. ASSUME NEW q \in Peers PROVE Framed(q)'
  BY <1>5, <1>10, <1>11
<1> QED
  BY <1>12, <1>14, <1>15, QuietKeepsInv

(* complete_target.                                                        *)
LEMMA CompleteMarks ==
    ASSUME SyncTypes, NEW p \in Peers, NEW t \in Targets, Complete(p, t),
           is_complete(targets[p][t]), entry_state'[p] = {}
    PROVE  /\ Marked(p) /\ targets' \in [Peers -> [Targets -> TargetState]]
           /\ all' \in [Peers -> Nat]
<1>1. Other(p) \in Peers /\ Other(p) # p
  BY TwoPeers
<1>2. targets \in [Peers -> [Targets -> TargetState]] /\ all \in [Peers -> Nat]
  BY DEF SyncTypes
<1>3. PICK N : N = [targets[p][t] EXCEPT !.status = "done"]
  OBVIOUS
<1>4. N \in TargetState
  <2>1. targets[p][t] \in TargetState
    BY <1>2
  <2> QED
    BY <1>3, <2>1 DEF TargetState
<1>5. targets' = [targets EXCEPT ![p][t] = N]
  BY <1>2, <1>3 DEF Complete
<1>6. /\ targets' \in [Peers -> [Targets -> TargetState]]
      /\ targets'[p][t] = N
      /\ \A u \in Targets : u # t => targets'[p][u] = targets[p][u]
      /\ \A u \in Targets : targets'[Other(p)][u] = targets[Other(p)][u]
  BY <1>4, <1>5, TargetChanges
<1>7. Marked(p)
  BY <1>3, <1>6 DEF Marked
<1>8. all' \in [Peers -> Nat]
  BY <1>2 DEF Complete
<1> QED
  BY <1>6, <1>7, <1>8

(* A step that leaves the targets alone completes none.                    *)
LEMMA NothingMarked ==
    ASSUME NEW p \in Peers, targets' = targets
    PROVE  Marked(p)
  BY DEF Marked

(* received_message, SendEntry, is a step of the form Consumes.            *)
LEMMA EntryConsumed ==
    ASSUME ReconcilerInv, NEW p \in Peers, ReceiveEntry(p), ~ shifted'
    PROVE  Consumes(p, Head(chan[p]))
<1>1. PICK m : m = Head(chan[p])
  OBVIOUS
<1>2. todo[p] = << >> /\ chan[p] # << >> /\ m.type = "SendEntry" /\ Take(p)
  BY <1>1 DEF ReceiveEntry, Idle
<1>3. m \in Items /\ Needs(m) = Mode(p)
  BY <1>1, <1>2, ConsumedFirst
<1>4. ~ IsHeader(m) /\ Needs(m) = "entry" /\ Leaves(m) = "payload" /\ m.entry \in Entry
  BY <1>2, <1>3, ItemFields DEF IsHeader, Needs, Leaves
<1>5. expects_entry(p)
  BY <1>3, <1>4 DEF Mode, expects_entry
<1>6. /\ payload' = [payload EXCEPT ![p] = TRUE]
      /\ stores' = [stores EXCEPT ![p] = Join(@, m.entry)]
      /\ UNCHANGED << base, targets, entry_state, todo, check, all, failed, writes >>
  <2>1. /\ payload' = [payload EXCEPT ![p] = TRUE] /\ IngestEntry(p, m.entry)
        /\ UNCHANGED << base, targets, entry_state, todo, check, all, writes >>
    BY <1>1, <1>5 DEF ReceiveEntry
  <2>2. stores' = [stores EXCEPT ![p] = Join(@, m.entry)] /\ UNCHANGED failed
    BY <1>4, <2>1, IngestIsJoin DEF ReconcilerInv
  <2> QED
    BY <2>1, <2>2
<1>7. SyncTypes /\ Other(p) \in Peers /\ Other(p) # p
  BY TwoPeers DEF ReconcilerInv
<1>8. stores[p] \in SUBSET Entry /\ IsFiniteSet(stores[p]) /\ Frontier(stores[p]) = stores[p]
  BY PeerTypes DEF ReconcilerInv, Stored
<1>9. Join(stores[p], m.entry) \in SUBSET Entry
  <2>1. PICK e \in Entry : e = m.entry
    BY <1>4
  <2>2. PICK S \in SUBSET Entry : S = stores[p] /\ IsFiniteSet(S) /\ Frontier(S) = S
    BY <1>8
  <2>3. Join(S, e) \in SUBSET Entry
    BY <2>2, JoinKeeps
  <2> QED
    BY <2>1, <2>2, <2>3
<1>10. /\ stores' \in [Peers -> SUBSET Entry] /\ payload' \in [Peers -> BOOLEAN]
       /\ stores'[p] = Join(stores[p], m.entry) /\ stores'[Other(p)] = stores[Other(p)]
       /\ payload'[p] = TRUE /\ payload'[Other(p)] = payload[Other(p)]
  BY <1>6, <1>7, <1>9 DEF SyncTypes
<1>11. /\ chan' \in [Peers -> Seq(Messages)] /\ \A x \in Peers : Len(chan'[x]) <= ChannelCap
  <2>1. todo' = [todo EXCEPT ![p] = << >>] /\ << >> \in Seq(Items)
    BY <1>2, <1>6, <1>7 DEF SyncTypes
  <2> QED
    BY <1>2, <1>7, <2>1, TakeStep
<1>12. SyncTypes'
  BY <1>6, <1>7, <1>10, <1>11 DEF SyncTypes
<1>13. Marked(p)
  BY <1>6, NothingMarked
<1> QED
  BY <1>1, <1>2, <1>4, <1>6, <1>10, <1>12, <1>13 DEF Consumes

(* received_message, SendPayload, is a step of the form Consumes.          *)
LEMMA PayloadConsumed ==
    ASSUME ReconcilerInv, NEW p \in Peers, ReceivePayload(p)
    PROVE  Consumes(p, Head(chan[p]))
<1>1. PICK m : m = Head(chan[p])
  OBVIOUS
<1>2. todo[p] = << >> /\ chan[p] # << >> /\ m.type = "SendPayload" /\ Take(p)
  BY <1>1 DEF ReceivePayload, Idle
<1>3. m \in Items /\ Needs(m) = Mode(p)
  BY <1>1, <1>2, ConsumedFirst
<1>4. ~ IsHeader(m) /\ Needs(m) = "payload" /\ Leaves(m) = "payload"
  BY <1>2 DEF IsHeader, Needs, Leaves
<1>5. expects_payload(p) /\ payload[p]
  BY <1>3, <1>4 DEF Mode, expects_payload
<1>6. UNCHANGED << stores, base, targets, entry_state, payload, todo, check, all, failed, writes >>
  BY <1>1, <1>5 DEF ReceivePayload
<1>7. SyncTypes
  BY DEF ReconcilerInv
<1>11. /\ chan' \in [Peers -> Seq(Messages)] /\ \A x \in Peers : Len(chan'[x]) <= ChannelCap
  <2>1. todo' = [todo EXCEPT ![p] = << >>] /\ << >> \in Seq(Items)
    BY <1>2, <1>6, <1>7 DEF SyncTypes
  <2> QED
    BY <1>2, <1>7, <2>1, TakeStep
<1>12. SyncTypes'
  BY <1>6, <1>7, <1>11 DEF SyncTypes
<1>13. Marked(p)
  BY <1>6, NothingMarked
<1> QED
  BY <1>1, <1>2, <1>4, <1>5, <1>6, <1>12, <1>13 DEF Consumes

(* received_message, TerminatePayload, is a step of the form Consumes,     *)
(* also when it completes the target.                                      *)
LEMMA TerminateConsumed ==
    ASSUME ReconcilerInv, NEW p \in Peers, ReceiveTerminate(p)
    PROVE  Consumes(p, Head(chan[p]))
<1>1. PICK m : m = Head(chan[p])
  OBVIOUS
<1>2. todo[p] = << >> /\ chan[p] # << >> /\ m.type = "TerminatePayload" /\ Take(p)
  BY <1>1 DEF ReceiveTerminate, Idle
<1>3. m \in Items /\ Needs(m) = Mode(p)
  BY <1>1, <1>2, ConsumedFirst
<1>4. /\ ~ IsHeader(m) /\ Needs(m) = "payload" /\ m.is_final \in BOOLEAN
      /\ Leaves(m) = IF m.is_final THEN "header" ELSE "entry"
  BY <1>2, <1>3, ItemFields DEF IsHeader, Needs, Leaves
<1>5. expects_payload(p)
  BY <1>3, <1>4 DEF Mode, expects_payload
<1>6. /\ payload' = [payload EXCEPT ![p] = FALSE]
      /\ UNCHANGED << stores, base, todo, check, failed, writes >>
  BY <1>1, <1>5 DEF ReceiveTerminate
<1>7. SyncTypes /\ Other(p) \in Peers /\ Other(p) # p
  BY TwoPeers DEF ReconcilerInv
<1>8. /\ payload' \in [Peers -> BOOLEAN] /\ payload'[p] = FALSE
      /\ payload'[Other(p)] = payload[Other(p)]
  BY <1>6, <1>7 DEF SyncTypes
<1>9. /\ entry_state' \in [Peers -> SUBSET Targets]
      /\ entry_state'[p] = IF m.is_final THEN {} ELSE entry_state[p]
      /\ entry_state'[Other(p)] = entry_state[Other(p)]
  <2>1. CASE m.is_final
    <3>1. entry_state' = [entry_state EXCEPT ![p] = {}]
      BY <1>1, <1>5, <2>1 DEF ReceiveTerminate
    <3> QED
      BY <1>7, <2>1, <3>1 DEF SyncTypes
  <2>2. CASE ~ m.is_final
    <3>1. entry_state' = entry_state
      BY <1>1, <1>5, <2>2 DEF ReceiveTerminate
    <3> QED
      BY <1>7, <2>2, <3>1 DEF SyncTypes
  <2> QED
    BY <2>1, <2>2
<1>10. /\ Marked(p) /\ targets' \in [Peers -> [Targets -> TargetState]]
       /\ all' \in [Peers -> Nat]
  <2>1. CASE UNCHANGED << targets, all >>
    BY <1>7, <2>1, NothingMarked DEF SyncTypes
  <2>2. CASE ~ UNCHANGED << targets, all >>
    <3>1. m.is_final /\ \E t \in entry_state[p] : is_complete(targets[p][t]) /\ Complete(p, t)
      BY <1>1, <1>5, <2>2 DEF ReceiveTerminate
    <3>2. PICK t \in entry_state[p] : is_complete(targets[p][t]) /\ Complete(p, t)
      BY <3>1
    <3>3. t \in Targets /\ entry_state'[p] = {}
      BY <1>7, <1>9, <3>1, PeerTypes
    <3> QED
      BY <1>7, <3>2, <3>3, CompleteMarks
  <2> QED
    BY <2>1, <2>2
<1>11. /\ chan' \in [Peers -> Seq(Messages)] /\ \A x \in Peers : Len(chan'[x]) <= ChannelCap
  <2>1. todo' = [todo EXCEPT ![p] = << >>] /\ << >> \in Seq(Items)
    BY <1>2, <1>6, <1>7 DEF SyncTypes
  <2> QED
    BY <1>2, <1>7, <2>1, TakeStep
<1>12. SyncTypes'
  BY <1>6, <1>7, <1>8, <1>9, <1>10, <1>11 DEF SyncTypes
<1> QED
  BY <1>1, <1>2, <1>4, <1>6, <1>8, <1>9, <1>10, <1>12 DEF Consumes

-----------------------------------------------------------------------------
(* Steps that leave all that is under way as it is.                        *)

(* What is left of an announcement is the last thing to send.              *)
LastIterator(s) ==
    \A i \in DOMAIN s : s[i].type = "Iterator" =>
        /\ i = Len(s)
        /\ s[i].entries # {} /\ IsFiniteSet(s[i].entries)
        /\ Frontier(s[i].entries) = s[i].entries

(* A step that leaves both pipelines as they are keeps the invariant.      *)
LEMMA StillKeepsInv ==
    ASSUME ReconcilerInv, NEW p \in Peers, SyncTypes',
           Pipeline(p)' = Pipeline(p), Pipeline(Other(p))' = Pipeline(Other(p)),
           Marked(p), base' = base, failed' = failed, stores'[Other(p)] = stores[Other(p)],
           stores'[p] = stores[p] \/ \E e \in Entry : stores'[p] = Join(stores[p], e),
           entry_state' = entry_state, payload' = payload,
           LastIterator(todo'[p]), todo'[Other(p)] = todo[Other(p)]
    PROVE  ReconcilerInv'
<1>1. \A q \in Peers : q = p \/ q = Other(p)
  BY TwoPeers
<1>2. Other(p) \in Peers /\ SyncTypes
  BY TwoPeers DEF ReconcilerInv
<1>3. Pipeline(p) \in Seq(Items) /\ Pipeline(Other(p)) \in Seq(Items)
  BY <1>2, PeerTypes
<1>4. Quiet(p)
  BY <1>3, SameAsItself DEF Quiet
<1>5. ASSUME NEW q \in Peers PROVE Pipeline(q)' = Pipeline(q)
  <2>1. CASE q = Other(p)
    <3>1. Pipeline(q)' = Pipeline(Other(p))' /\ Pipeline(q) = Pipeline(Other(p))
      BY <2>1 DEF Pipeline
    <3> QED
      BY <3>1
  <2> QED
    BY <1>1, <2>1
<1>6. ASSUME NEW q \in Peers PROVE Framed(q)'
  <2>1. LastIterator(todo'[q])
    BY <1>1, <1>2 DEF ReconcilerInv, Framed, LastIterator
  <2>2. Mode(q)' = Mode(q)
    BY DEF Mode
  <2>3. Framed(q)
    BY DEF ReconcilerInv
  <2>4. Leads(Mode(q)', Pipeline(q)', "header")
    BY <1>5, <2>2, <2>3 DEF Framed
  <2> QED
    BY <2>1, <2>3, <2>4 DEF Framed, LastIterator
<1>7. \A q \in Peers : \A t \in Targets, e \in Entry :
               Coming(Pipeline(q), entry_state[q], t, e) =>
                   Coming(Pipeline(q)', entry_state'[q], t, e) \/ Dominates(stores'[q], {e})
  BY <1>5
<1> QED
  BY <1>4, <1>6, <1>7, QuietKeepsInv

(* The check at the end of a handler keeps the invariant.                  *)
LEMMA CheckKeepsInv ==
    ASSUME ReconcilerInv, NEW p \in Peers, CheckComplete(p)
    PROVE  ReconcilerInv'
<1>1. SyncTypes /\ Other(p) \in Peers
  BY TwoPeers DEF ReconcilerInv
<1>2. /\ check' = [check EXCEPT ![p] = {}]
      /\ UNCHANGED << stores, base, entry_state, payload, chan, todo, failed, writes >>
  BY DEF CheckComplete
<1>3. /\ Marked(p) /\ targets' \in [Peers -> [Targets -> TargetState]]
      /\ all' \in [Peers -> Nat]
  <2>1. CASE UNCHANGED << targets, all >>
    BY <1>1, <2>1, NothingMarked DEF SyncTypes
  <2>2. CASE ~ UNCHANGED << targets, all >>
    <3>1. PICK t \in check[p] : is_complete(targets[p][t]) /\ entry_state[p] = {} /\ Complete(p, t)
      BY <2>2 DEF CheckComplete
    <3>2. t \in Targets /\ entry_state'[p] = {}
      BY <1>1, <1>2, <3>1, PeerTypes
    <3> QED
      BY <1>1, <3>1, <3>2, CompleteMarks
  <2> QED
    BY <2>1, <2>2
<1>4. SyncTypes'
  BY <1>1, <1>2, <1>3 DEF SyncTypes
<1>5. Pipeline(p)' = Pipeline(p) /\ Pipeline(Other(p))' = Pipeline(Other(p))
  BY <1>2 DEF Pipeline
<1>6. LastIterator(todo'[p])
  BY <1>2 DEF ReconcilerInv, Framed, LastIterator
<1> QED
  BY <1>2, <1>3, <1>4, <1>5, <1>6, StillKeepsInv

(* A write of the application keeps the invariant.                         *)
LEMMA WriteKeepsInv ==
    ASSUME ReconcilerInv, NEW p \in Peers, LocalWrite(p), ~ shifted'
    PROVE  ReconcilerInv'
<1>1. SyncTypes /\ Other(p) \in Peers /\ Other(p) # p /\ MaxWrites \in Nat
  BY TwoPeers, ReconcilerAssumption DEF ReconcilerInv
<1>2. PICK e \in LocalWrites : stores' = [stores EXCEPT ![p] = Join(@, e)] /\ UNCHANGED failed
  <2>1. PICK e \in LocalWrites : IngestEntry(p, e)
    BY DEF LocalWrite
  <2>2. e \in Entry
    BY ReconcilerAssumption
  <2> QED
    BY <1>1, <2>1, <2>2, IngestIsJoin
<1>3. e \in Entry
  BY <1>2, ReconcilerAssumption
<1>4. /\ writes[p] < MaxWrites /\ writes' = [writes EXCEPT ![p] = @ + 1]
      /\ UNCHANGED << base, targets, entry_state, payload, chan, todo, check, all, failed >>
  BY <1>2 DEF LocalWrite
<1>5. PICK S \in SUBSET Entry : S = stores[p] /\ IsFiniteSet(S) /\ Frontier(S) = S
  BY <1>1, PeerTypes DEF ReconcilerInv, Stored
<1>6. Join(S, e) \in SUBSET Entry
  BY <1>3, <1>5, JoinKeeps
<1>7. /\ stores' \in [Peers -> SUBSET Entry] /\ stores'[p] = Join(stores[p], e)
      /\ stores'[Other(p)] = stores[Other(p)]
  BY <1>1, <1>2, <1>5, <1>6 DEF SyncTypes
<1>8. writes' \in [Peers -> 0..MaxWrites]
  <2>1. writes \in [Peers -> 0..MaxWrites]
    BY <1>1 DEF SyncTypes
  <2>2. writes[p] + 1 \in 0..MaxWrites
    BY <1>1, <1>4, <2>1
  <2> QED
    BY <1>4, <2>1, <2>2
<1>9. SyncTypes'
  BY <1>1, <1>4, <1>7, <1>8 DEF SyncTypes
<1>10. Pipeline(p)' = Pipeline(p) /\ Pipeline(Other(p))' = Pipeline(Other(p))
  BY <1>4 DEF Pipeline
<1>11. Marked(p)
  BY <1>4, NothingMarked
<1>12. LastIterator(todo'[p])
  BY <1>4 DEF ReconcilerInv, Framed, LastIterator
<1> QED
  BY <1>3, <1>4, <1>7, <1>9, <1>10, <1>11, <1>12, StillKeepsInv

(* A send moves a message along its pipeline and changes nothing else.     *)
LEMMA SendKeepsInv ==
    ASSUME ReconcilerInv, NEW p \in Peers, Send(p)
    PROVE  ReconcilerInv'
<1>1. /\ SyncTypes /\ Other(p) \in Peers /\ Other(p) # p /\ Other(Other(p)) = p
      /\ \A x \in Peers : x = p \/ x = Other(p)
  BY TwoPeers DEF ReconcilerInv
<1>2. /\ todo[p] # << >> /\ Head(todo[p]).type # "Iterator" /\ Len(chan[Other(p)]) < ChannelCap
      /\ chan' = [chan EXCEPT ![Other(p)] = Append(@, Head(todo[p]))]
      /\ todo' = [todo EXCEPT ![p] = Tail(@)]
      /\ UNCHANGED << stores, base, targets, entry_state, payload, check, all, failed, writes >>
  BY DEF Send
<1>3. /\ chan \in [Peers -> Seq(Messages)] /\ todo \in [Peers -> Seq(Items)]
      /\ ChannelCap \in Nat
  BY <1>1, ReconcilerAssumption DEF SyncTypes, Items
<1>4. PICK c, d : c = chan[Other(p)] /\ d = todo[p]
  OBVIOUS
<1>5. c \in Seq(Messages) /\ c \in Seq(Items) /\ d \in Seq(Items) /\ d # << >> /\ Len(c) < ChannelCap
  BY <1>1, <1>2, <1>4, PeerTypes
<1>6. Head(d) \in Messages /\ Tail(d) \in Seq(Items)
  <2>1. Head(d) \in Items /\ Tail(d) \in Seq(Items)
    BY <1>5, TailFields
  <2> QED
    BY <1>2, <1>4, <2>1, ItemFields
<1>7. Append(c, Head(d)) \in Seq(Messages) /\ Len(Append(c, Head(d))) <= ChannelCap
  BY <1>3, <1>5, <1>6
<1>8. /\ chan'[Other(p)] = Append(c, Head(d)) /\ chan'[p] = chan[p]
      /\ todo'[p] = Tail(d) /\ todo'[Other(p)] = todo[Other(p)]
      /\ chan' \in [Peers -> Seq(Messages)] /\ todo' \in [Peers -> Seq(Items)]
  BY <1>1, <1>2, <1>3, <1>4, <1>6, <1>7
<1>9. \A x \in Peers : Len(chan'[x]) <= ChannelCap
  BY <1>1, <1>7, <1>8 DEF SyncTypes
<1>10. SyncTypes'
  BY <1>1, <1>2, <1>8, <1>9 DEF SyncTypes, Items
<1>11. Append(c, Head(d)) \o Tail(d) = c \o d
  <2>0. << Head(d) >> \in Seq(Items) /\ Tail(d) \in Seq(Items)
    <3>1. Head(d) \in Items /\ Tail(d) \in Seq(Items)
      BY <1>5, TailFields
    <3> QED
      BY <3>1
  <2>1. PICK x, y \in Seq(Items) : x = << Head(d) >> /\ y = Tail(d)
    BY <2>0
  <2>2. Append(c, Head(d)) = c \o x
    BY <1>5, <2>1
  <2>3. (c \o x) \o y = c \o (x \o y)
    BY <1>5
  <2>4. x \o y = d
    BY <1>5, <2>1, TailFields
  <2> QED
    BY <2>1, <2>2, <2>3, <2>4
<1>12. Pipeline(p)' = Pipeline(p) /\ Pipeline(Other(p))' = Pipeline(Other(p))
  BY <1>1, <1>4, <1>8, <1>11 DEF Pipeline
<1>13. Marked(p)
  BY <1>2, NothingMarked
<1>14. LastIterator(todo'[p])
  <2>1. LastIterator(d)
    BY <1>4 DEF ReconcilerInv, Framed, LastIterator
  <2>2. /\ Len(d) \in Nat /\ Len(Tail(d)) = Len(d) - 1 /\ DOMAIN Tail(d) = 1..(Len(d) - 1)
        /\ \A i \in DOMAIN Tail(d) : Tail(d)[i] = d[i + 1] /\ i + 1 \in DOMAIN d
    BY <1>5, TailFields
  <2>3. ASSUME NEW i \in DOMAIN Tail(d), Tail(d)[i].type = "Iterator"
        PROVE  /\ i = Len(Tail(d))
               /\ Tail(d)[i].entries # {} /\ IsFiniteSet(Tail(d)[i].entries)
               /\ Frontier(Tail(d)[i].entries) = Tail(d)[i].entries
    <3>1. Tail(d)[i] = d[i + 1] /\ i + 1 \in DOMAIN d
      BY <2>2
    <3>2. i + 1 = Len(d)
      BY <2>1, <2>3, <3>1 DEF LastIterator
    <3>3. i = Len(Tail(d))
      BY <2>2, <3>2
    <3> QED
      BY <2>1, <2>3, <3>1, <3>3 DEF LastIterator
  <2> QED
    BY <1>8, <2>3 DEF LastIterator
<1> QED
  BY <1>1, <1>2, <1>8, <1>10, <1>12, <1>13, <1>14, StillKeepsInv

-----------------------------------------------------------------------------
(* The iterator yields its next entry.                                     *)

(* A single message leads from what it needs to what it leaves.            *)
LEMMA LeadsOne ==
    ASSUME NEW m \in Items
    PROVE  Leads(Needs(m), << m >>, Leaves(m))
<1>1. DOMAIN << m >> = {1} /\ Len(<< m >>) = 1 /\ << m >>[1] = m /\ << m >> # << >>
  OBVIOUS
<1> QED
  BY <1>1 DEF Leads

(* What comes before a message leads to what that message needs.           *)
LEMMA LeadsPrefix ==
    ASSUME NEW c \in Seq(Items), NEW m \in Items, NEW a, NEW b, Leads(a, c \o << m >>, b)
    PROVE  Leads(a, c, Needs(m))
<1>1. PICK s : s = c \o << m >>
  OBVIOUS
<1>2. /\ Len(c) \in Nat /\ DOMAIN c = 1..Len(c) /\ DOMAIN s = 1..(Len(c) + 1)
      /\ s[Len(c) + 1] = m
  BY <1>1
<1>3. \A i \in 1..Len(c) : s[i] = c[i]
  BY <1>1, <1>2
<1>4. ASSUME NEW i \in DOMAIN c PROVE Needs(c[i]) = IF i = 1 THEN a ELSE Leaves(c[i - 1])
  <2>1. i \in DOMAIN s /\ (i # 1 => i - 1 \in 1..Len(c)) /\ i \in 1..Len(c)
    BY <1>2
  <2>2. Needs(s[i]) = IF i = 1 THEN a ELSE Leaves(s[i - 1])
    BY <1>1, <2>1 DEF Leads
  <2> QED
    BY <1>3, <2>1, <2>2
<1>5. Needs(m) = IF c = << >> THEN a ELSE Leaves(c[Len(c)])
  <2>1. Len(c) + 1 \in DOMAIN s /\ (Len(c) + 1) - 1 = Len(c)
    BY <1>2
  <2>2. Needs(m) = IF Len(c) + 1 = 1 THEN a ELSE Leaves(s[Len(c)])
    BY <1>1, <1>2, <2>1 DEF Leads
  <2>3. CASE c = << >>
    BY <1>2, <2>2, <2>3
  <2>4. CASE c # << >>
    <3>1. Len(c) \in 1..Len(c) /\ Len(c) + 1 # 1
      BY <1>2, <2>4
    <3> QED
      BY <1>3, <2>2, <2>4, <3>1
  <2> QED
    BY <2>3, <2>4
<1> QED
  BY <1>4, <1>5 DEF Leads

(* s is a run of messages that carry the entries S, or the end of one:     *)
(* no header in it, and what is left of an announcement comes last.        *)
Carries(s, S) ==
    /\ s \in Seq(Items) /\ LastIterator(s)
    /\ \A i \in DOMAIN s : ~ IsHeader(s[i])
    /\ \A f \in S : \E i \in DOMAIN s : Brings(s[i], f)

(* Two sequences in a row carry what each of them carries.                 *)
LEMMA CarriesConcat ==
    ASSUME NEW S, NEW T, NEW s, NEW r, Carries(s, S), Carries(r, T),
           \A i \in DOMAIN s : s[i].type # "Iterator"
    PROVE  Carries(s \o r, S \cup T)
<1>1. PICK w : w = s \o r
  OBVIOUS
<1>2. s \in Seq(Items) /\ r \in Seq(Items)
  BY DEF Carries
<1>3. /\ w \in Seq(Items) /\ Len(s) \in Nat /\ Len(r) \in Nat /\ Len(w) = Len(s) + Len(r)
  <2>1. s \o r \in Seq(Items) /\ Len(s \o r) = Len(s) + Len(r) /\ Len(s) \in Nat /\ Len(r) \in Nat
    BY <1>2, ConcatFields
  <2> QED
    BY <1>1, <2>1
<1>4. \A i \in DOMAIN s : w[i] = s[i] /\ i \in DOMAIN w
  <2>1. \A i \in DOMAIN s : (s \o r)[i] = s[i] /\ i \in DOMAIN (s \o r)
    BY <1>2, ConcatFields
  <2> QED
    BY <1>1, <2>1
<1>5. \A i \in DOMAIN r : w[Len(s) + i] = r[i] /\ Len(s) + i \in DOMAIN w
  <2>1. \A i \in DOMAIN r : (s \o r)[Len(s) + i] = r[i] /\ Len(s) + i \in DOMAIN (s \o r)
    BY <1>2, ConcatFields
  <2> QED
    BY <1>1, <2>1
<1>6. \A i \in DOMAIN w : i \in DOMAIN s \/ (i - Len(s) \in DOMAIN r /\ w[i] = r[i - Len(s)] /\ i \in Nat)
  <2>1. \A i \in DOMAIN (s \o r) : i \in DOMAIN s \/ (i - Len(s) \in DOMAIN r
                                                     /\ (s \o r)[i] = r[i - Len(s)])
    BY <1>2, ConcatFields
  <2> QED
    BY <1>1, <1>3, <2>1
<1>7. LastIterator(w)
  <2> SUFFICES ASSUME NEW i \in DOMAIN w, w[i].type = "Iterator"
               PROVE  /\ i = Len(w)
                      /\ w[i].entries # {} /\ IsFiniteSet(w[i].entries)
                      /\ Frontier(w[i].entries) = w[i].entries
    BY DEF LastIterator
  <2>1. i - Len(s) \in DOMAIN r /\ w[i] = r[i - Len(s)] /\ i \in Nat
    BY <1>4, <1>6
  <2>2. i - Len(s) = Len(r)
    BY <2>1 DEF Carries, LastIterator
  <2>3. i = Len(w)
    BY <1>3, <2>1, <2>2
  <2> QED
    BY <2>1, <2>3 DEF Carries, LastIterator
<1>8. \A i \in DOMAIN w : ~ IsHeader(w[i])
  BY <1>4, <1>6 DEF Carries
<1>9. \A f \in S \cup T : \E i \in DOMAIN w : Brings(w[i], f)
  BY <1>4, <1>5 DEF Carries
<1> QED
  BY <1>1, <1>3, <1>7, <1>8, <1>9 DEF Carries

(* The messages that carry what the iterator has left.                     *)
LEMMA EntriesAreCarried ==
    ASSUME NEW S \in SUBSET Entry, IsFiniteSet(S), Frontier(S) = S, NEW e \in S
    PROVE  /\ Carries(AfterEntry(e, S), S \ {e})
           /\ Leads("payload", AfterEntry(e, S), "header")
<1>1. PICK last, pay, term, rest :
          /\ last = (S = {e}) /\ pay = [type |-> "SendPayload"]
          /\ term = [type |-> "TerminatePayload", is_final |-> last]
          /\ rest = [type |-> "Iterator", entries |-> S \ {e}]
  OBVIOUS
<1>2. pay \in Items /\ pay.type = "SendPayload"
  BY <1>1 DEF Items, Messages
<1>3. term \in Items /\ term.type = "TerminatePayload" /\ term.is_final = last /\ last \in BOOLEAN
  BY <1>1 DEF Items, Messages
<1>4. rest \in Items /\ rest.type = "Iterator" /\ rest.entries = S \ {e}
  BY <1>1 DEF Items, Iterators
<1>5. Needs(pay) = "payload" /\ Leaves(pay) = "payload" /\ ~ IsHeader(pay)
  BY <1>2 DEF Needs, Leaves, IsHeader
<1>6. /\ Needs(term) = "payload" /\ Leaves(term) = (IF last THEN "header" ELSE "entry")
      /\ ~ IsHeader(term)
  BY <1>3 DEF Needs, Leaves, IsHeader
<1>7. Needs(rest) = "entry" /\ Leaves(rest) = "header" /\ ~ IsHeader(rest)
  BY <1>4 DEF Needs, Leaves, IsHeader
<1>8. PICK A, B, C : /\ A = (IF e \in Eager THEN << pay >> ELSE << >>) /\ B = << term >>
                     /\ C = (IF S = {e} THEN << >> ELSE << rest >>)
  OBVIOUS
<1>9. AfterEntry(e, S) = (A \o B) \o C
  BY <1>1, <1>8 DEF AfterEntry
<1>10. \A a : Leads(a, << >>, a)
  BY DEF Leads
<1>11. A \in Seq(Items) /\ Leads("payload", A, "payload") /\ Carries(A, {})
       /\ \A i \in DOMAIN A : A[i].type # "Iterator"
  <2>1. CASE e \in Eager
    <3>1. A = << pay >> /\ A \in Seq(Items) /\ DOMAIN A = {1} /\ A[1] = pay
      BY <1>2, <1>8, <2>1
    <3>2. Leads("payload", A, "payload")
      BY <1>2, <1>5, <3>1, LeadsOne
    <3> QED
      BY <1>2, <1>5, <3>1, <3>2 DEF Carries, LastIterator
  <2>2. CASE e \notin Eager
    <3>1. A = << >> /\ A \in Seq(Items) /\ DOMAIN A = {}
      BY <1>8, <2>2
    <3> QED
      BY <1>10, <3>1 DEF Carries, LastIterator
  <2> QED
    BY <2>1, <2>2
<1>12. /\ B \in Seq(Items) /\ Leads("payload", B, IF last THEN "header" ELSE "entry") /\ Carries(B, {})
       /\ \A i \in DOMAIN B : B[i].type # "Iterator"
  <2>1. B = << term >> /\ B \in Seq(Items) /\ DOMAIN B = {1} /\ B[1] = term
    BY <1>3, <1>8
  <2>2. Leads("payload", B, IF last THEN "header" ELSE "entry")
    BY <1>3, <1>6, <2>1, LeadsOne
  <2> QED
    BY <1>3, <1>6, <2>1, <2>2 DEF Carries, LastIterator
<1>13. C \in Seq(Items) /\ Leads(IF last THEN "header" ELSE "entry", C, "header") /\ Carries(C, S \ {e})
  <2>1. CASE S = {e}
    <3>1. C = << >> /\ C \in Seq(Items) /\ DOMAIN C = {} /\ S \ {e} = {} /\ last
      <4>1. C = << >> /\ S \ {e} = {}
        BY <1>8, <2>1
      <4>2. last
        BY <1>1, <2>1
      <4> QED
        BY <4>1, <4>2
    <3> QED
      BY <1>10, <3>1 DEF Carries, LastIterator
  <2>2. CASE S # {e}
    <3>1. C = << rest >> /\ C \in Seq(Items) /\ DOMAIN C = {1} /\ C[1] = rest /\ Len(C) = 1 /\ ~ last
      <4>1. C = << rest >>
        BY <1>8, <2>2
      <4>2. ~ last
        BY <1>1, <2>2
      <4>3. << rest >> \in Seq(Items)
        BY <1>4
      <4> QED
        BY <4>1, <4>2, <4>3
    <3>2. Leads("entry", C, "header")
      BY <1>4, <1>7, <3>1, LeadsOne
    <3>3. S \ {e} # {}
      BY <2>2
    <3>4. Frontier(S \ {e}) = S \ {e} /\ IsFiniteSet(S \ {e})
      <4>1. S \ {e} \in SUBSET S
        OBVIOUS
      <4> QED
        BY <4>1, FrontierPart
    <3>5. \A f \in S \ {e} : Brings(rest, f)
      BY <1>4 DEF Brings
    <3> QED
      BY <1>4, <1>7, <3>1, <3>2, <3>3, <3>4, <3>5 DEF Carries, LastIterator
  <2> QED
    BY <2>1, <2>2
<1>14. Leads("payload", A \o B, IF last THEN "header" ELSE "entry") /\ A \o B \in Seq(Items)
  BY <1>11, <1>12, LeadsConcat, ConcatFields
<1>15. Leads("payload", (A \o B) \o C, "header")
  BY <1>13, <1>14, LeadsConcat
<1>16. Carries(B \o C, {} \cup (S \ {e}))
  BY <1>12, <1>13, CarriesConcat
<1>17. Carries(A \o (B \o C), {} \cup ({} \cup (S \ {e})))
  BY <1>11, <1>16, CarriesConcat
<1>18. A \o (B \o C) = (A \o B) \o C /\ {} \cup ({} \cup (S \ {e})) = S \ {e}
  BY <1>11, <1>12, <1>13
<1> QED
  BY <1>9, <1>15, <1>17, <1>18

(* Entries carried in the place of an iterator are coming as before.       *)
LEMMA CarriedIsComing ==
    ASSUME NEW c \in Seq(Items), NEW m \in Items, m.type = "Iterator", NEW r, Carries(r, m.entries),
           NEW current, NEW t, NEW f, Coming(c \o << m >>, current, t, f)
    PROVE  Coming(c \o r, current, t, f)
<1>1. PICK s, x : s = c \o << m >> /\ x = c \o r
  OBVIOUS
<1>2. r \in Seq(Items)
  BY DEF Carries
<1>3. /\ Len(c) \in Nat /\ DOMAIN c = 1..Len(c) /\ DOMAIN s = 1..(Len(c) + 1)
      /\ s[Len(c) + 1] = m
  BY <1>1
<1>4. \A i \in 1..Len(c) : s[i] = c[i]
  BY <1>1, <1>3
<1>5. /\ Len(r) \in Nat /\ DOMAIN r = 1..Len(r) /\ DOMAIN x = 1..(Len(c) + Len(r))
  BY <1>1, <1>2
<1>6. \A i \in 1..Len(c) : x[i] = c[i]
  BY <1>1, <1>2, <1>3, <1>5
<1>7. \A i \in 1..Len(r) : x[Len(c) + i] = r[i]
  BY <1>1, <1>2, <1>3, <1>5
<1>8. PICK i \in DOMAIN s : \E j \in 0..(i - 1) :
          /\ Brings(s[i], f)
          /\ IF j = 0 THEN t \in current ELSE HeaderOf(s[j], t)
          /\ \A k \in (j + 1)..i : ~ IsHeader(s[k])
  BY <1>1 DEF Coming
<1>9. PICK j \in 0..(i - 1) :
          /\ Brings(s[i], f)
          /\ IF j = 0 THEN t \in current ELSE HeaderOf(s[j], t)
          /\ \A k \in (j + 1)..i : ~ IsHeader(s[k])
  BY <1>8
<1>10. i \in Nat /\ j \in Nat /\ j < i /\ i <= Len(c) + 1
  BY <1>3
<1>11. j # 0 => j \in 1..Len(c) /\ s[j] = x[j]
  BY <1>3, <1>4, <1>6, <1>10
<1>12. IF j = 0 THEN t \in current ELSE HeaderOf(x[j], t)
  BY <1>9, <1>11
<1>13. CASE i <= Len(c)
  <2>1. \A k \in (j + 1)..i : k \in 1..Len(c)
    BY <1>3, <1>10, <1>13
  <2>2. \A k \in (j + 1)..i : ~ IsHeader(x[k])
    BY <1>4, <1>6, <1>9, <2>1
  <2>3. i \in DOMAIN x /\ x[i] = s[i]
    BY <1>3, <1>4, <1>5, <1>6, <1>10, <1>13
  <2> QED
    BY <1>1, <1>9, <1>12, <2>2, <2>3 DEF Coming
<1>14. CASE i = Len(c) + 1
  <2>1. f \in m.entries
    BY <1>3, <1>9, <1>14 DEF Brings
  <2>2. PICK n \in DOMAIN r : Brings(r[n], f)
    BY <2>1 DEF Carries
  <2>3. PICK a : a = Len(c) + n
    OBVIOUS
  <2>4. a \in DOMAIN x /\ x[a] = r[n] /\ a \in Nat /\ j \in 0..(a - 1)
    BY <1>3, <1>5, <1>7, <1>10, <1>14, <2>2, <2>3
  <2>5. ASSUME NEW k \in (j + 1)..a PROVE ~ IsHeader(x[k])
    <3>1. CASE k \in 1..Len(c)
      <4>1. k \in (j + 1)..i
        BY <1>3, <1>10, <1>14, <3>1
      <4> QED
        BY <1>4, <1>6, <1>9, <3>1, <4>1
    <3>2. CASE k \notin 1..Len(c)
      <4>1. k - Len(c) \in 1..Len(r) /\ k = Len(c) + (k - Len(c))
        BY <1>3, <1>5, <1>10, <2>2, <2>3, <2>4, <3>2
      <4>2. x[k] = r[k - Len(c)]
        BY <1>7, <4>1
      <4> QED
        BY <1>5, <4>1, <4>2 DEF Carries
    <3> QED
      BY <3>1, <3>2
  <2>6. Brings(x[a], f)
    BY <2>2, <2>4
  <2> QED
    BY <1>1, <1>12, <2>4, <2>5, <2>6 DEF Coming
<1> QED
  BY <1>3, <1>10, <1>13, <1>14

(* The send of the next entry of an iterator keeps the invariant.          *)
LEMMA SendEntryKeepsInv ==
    ASSUME ReconcilerInv, NEW p \in Peers, SendEntry(p)
    PROVE  ReconcilerInv'
<1>1. /\ SyncTypes /\ Other(p) \in Peers /\ Other(p) # p /\ Other(Other(p)) = p
      /\ \A x \in Peers : x = p \/ x = Other(p)
  BY TwoPeers DEF ReconcilerInv
<1>2. PICK c, d : c = chan[Other(p)] /\ d = todo[p]
  OBVIOUS
<1>3. PICK m, S, e :
         /\ m = Head(d) /\ S = m.entries /\ e \in S
         /\ chan' = [chan EXCEPT ![Other(p)] = Append(@, [type |-> "SendEntry", entry |-> e])]
         /\ todo' = [todo EXCEPT ![p] = AfterEntry(e, S) \o Tail(@)]
  BY <1>2 DEF SendEntry
<1>4. PICK n, a : n = [type |-> "SendEntry", entry |-> e] /\ a = AfterEntry(e, S)
  OBVIOUS
<1>5. /\ d # << >> /\ m.type = "Iterator" /\ Len(c) < ChannelCap
      /\ chan' = [chan EXCEPT ![Other(p)] = Append(@, n)]
      /\ todo' = [todo EXCEPT ![p] = a \o Tail(@)]
      /\ UNCHANGED << stores, base, targets, entry_state, payload, check, all, failed, writes >>
  BY <1>2, <1>3, <1>4 DEF SendEntry
<1>6. /\ chan \in [Peers -> Seq(Messages)] /\ todo \in [Peers -> Seq(Items)]
      /\ ChannelCap \in Nat
  BY <1>1, ReconcilerAssumption DEF SyncTypes, Items
<1>7. c \in Seq(Messages) /\ c \in Seq(Items) /\ d \in Seq(Items)
  BY <1>1, <1>2, PeerTypes
<1>8. /\ m \in Items /\ d[1] = m /\ 1 \in DOMAIN d /\ Tail(d) \in Seq(Items) /\ Len(d) \in Nat
      /\ Len(Tail(d)) = Len(d) - 1
  BY <1>3, <1>5, <1>7, TailFields
<1>9. /\ Len(d) = 1 /\ S # {} /\ IsFiniteSet(S) /\ Frontier(S) = S
  <2>1. LastIterator(d)
    BY <1>2 DEF ReconcilerInv, Framed, LastIterator
  <2> QED
    BY <1>3, <1>5, <1>8, <2>1 DEF LastIterator
<1>10. Tail(d) = << >> /\ d = << m >>
  <2>1. Len(Tail(d)) = 0
    BY <1>8, <1>9
  <2>2. Tail(d) = << >>
    <3>1. PICK y \in Seq(Items) : y = Tail(d)
      BY <1>8
    <3>2. Len(y) = 0
      BY <2>1, <3>1
    <3>3. y = << >>
      BY <3>2
    <3> QED
      BY <3>1, <3>3
  <2>3. d = << Head(d) >> \o Tail(d)
    BY <1>5, <1>7, TailFields
  <2>4. << m >> \in Seq(Items)
    BY <1>8
  <2>5. << m >> \o << >> = << m >>
    BY <2>4
  <2> QED
    BY <1>3, <2>2, <2>3, <2>5
<1>11. S \in SUBSET Entry /\ e \in S /\ e \in Entry
  <2>1. S \in SUBSET Entry
    BY <1>3, <1>5, <1>8, ItemFields
  <2> QED
    BY <1>3, <2>1
<1>12. Carries(a, S \ {e}) /\ Leads("payload", a, "header") /\ a \in Seq(Items)
  <2>1. Carries(a, S \ {e}) /\ Leads("payload", a, "header")
    BY <1>4, <1>9, <1>11, EntriesAreCarried
  <2> QED
    BY <2>1 DEF Carries
<1>13. /\ n \in Messages /\ n \in Items /\ n.type = "SendEntry" /\ n.entry = e
       /\ Needs(n) = "entry" /\ Leaves(n) = "payload" /\ ~ IsHeader(n)
  BY <1>4, <1>11 DEF Items, Messages, Needs, Leaves, IsHeader
<1>14. PICK r : r = << n >> \o a
  OBVIOUS
<1>15. Carries(r, S) /\ Leads("entry", r, "header") /\ r \in Seq(Items)
  <2>1. << n >> \in Seq(Items) /\ DOMAIN << n >> = {1} /\ << n >>[1] = n
    BY <1>13
  <2>2. Carries(<< n >>, {e})
    <3>1. Brings(n, e)
      BY <1>13 DEF Brings
    <3> QED
      BY <1>13, <2>1, <3>1 DEF Carries, LastIterator
  <2>3. \A i \in DOMAIN << n >> : << n >>[i].type # "Iterator"
    BY <1>13, <2>1
  <2>4. Carries(<< n >> \o a, {e} \cup (S \ {e}))
    BY <1>12, <2>2, <2>3, CarriesConcat
  <2>5. {e} \cup (S \ {e}) = S
    BY <1>11
  <2>6. Leads("entry", << n >>, "payload")
    BY <1>13, LeadsOne
  <2>7. Leads("entry", << n >> \o a, "header")
    BY <1>12, <2>1, <2>6, LeadsConcat
  <2> QED
    BY <1>14, <2>4, <2>5, <2>7 DEF Carries
<1>16. a \o Tail(d) = a
  BY <1>10, <1>12
<1>17. Append(c, n) \in Seq(Messages) /\ Len(Append(c, n)) <= ChannelCap
  BY <1>5, <1>6, <1>7, <1>13
<1>18. /\ chan'[Other(p)] = Append(c, n) /\ chan'[p] = chan[p]
       /\ todo'[p] = a /\ todo'[Other(p)] = todo[Other(p)]
       /\ chan' \in [Peers -> Seq(Messages)] /\ todo' \in [Peers -> Seq(Items)]
  <2>1. todo' = [todo EXCEPT ![p] = a]
    BY <1>2, <1>5, <1>16
  <2> QED
    BY <1>1, <1>2, <1>5, <1>6, <1>12, <1>17, <2>1
<1>19. \A x \in Peers : Len(chan'[x]) <= ChannelCap
  BY <1>1, <1>17, <1>18 DEF SyncTypes
<1>20. SyncTypes'
  BY <1>1, <1>5, <1>18, <1>19 DEF SyncTypes, Items
<1>21. Pipeline(Other(p)) = c \o << m >> /\ Pipeline(Other(p))' = c \o r /\ Pipeline(p)' = Pipeline(p)
  <2>1. Pipeline(Other(p)) = c \o << m >>
    BY <1>1, <1>2, <1>10 DEF Pipeline
  <2>2. Append(c, n) \o a = c \o r
    <3>0. << n >> \in Seq(Items)
      BY <1>13
    <3>1. PICK x \in Seq(Items) : x = << n >>
      BY <3>0
    <3>2. Append(c, n) = c \o x
      BY <1>7, <3>1
    <3>3. (c \o x) \o a = c \o (x \o a)
      BY <1>7, <1>12
    <3> QED
      BY <1>14, <3>1, <3>2, <3>3
  <2> QED
    BY <1>1, <1>18, <2>1, <2>2 DEF Pipeline
<1>22. Quiet(p)
  <2>1. SameHeaders(c \o << m >>, c \o r)
    <3>1. << m >> \in Seq(Items) /\ \A i \in DOMAIN << m >> : ~ IsHeader(<< m >>[i])
      BY <1>5, <1>8 DEF IsHeader
    <3>2. \A i \in DOMAIN r : ~ IsHeader(r[i])
      BY <1>15 DEF Carries
    <3> QED
      BY <1>7, <1>15, <3>1, <3>2, SameWithoutLast
  <2>2. SameHeaders(Pipeline(p), Pipeline(p)')
    <3>1. Pipeline(p) \in Seq(Items)
      BY <1>1, PeerTypes
    <3> QED
      BY <1>21, <3>1, SameAsItself
  <2>3. Marked(p)
    BY <1>5, NothingMarked
  <2> QED
    BY <1>5, <1>20, <1>21, <2>1, <2>2, <2>3 DEF Quiet
<1>23. Framed(p)'
  <2>1. LastIterator(todo'[p])
    BY <1>12, <1>18 DEF Carries
  <2>2. Mode(p)' = Mode(p)
    BY <1>5 DEF Mode
  <2>3. Framed(p)
    BY DEF ReconcilerInv
  <2>4. Leads(Mode(p)', Pipeline(p)', "header")
    BY <1>21, <2>2, <2>3 DEF Framed
  <2> QED
    BY <1>5, <2>1, <2>3, <2>4 DEF Framed, LastIterator
<1>24. Framed(Other(p))'
  <2>1. Mode(Other(p))' = Mode(Other(p))
    BY <1>5 DEF Mode
  <2>2. Framed(Other(p))
    BY <1>1 DEF ReconcilerInv
  <2>3. Leads(Mode(Other(p)), c \o << m >>, "header")
    BY <1>21, <2>2 DEF Framed
  <2>4. Needs(m) = "entry"
    BY <1>5 DEF Needs, IsHeader
  <2>5. Leads(Mode(Other(p)), c, "entry")
    BY <1>7, <1>8, <2>3, <2>4, LeadsPrefix
  <2>6. Leads(Mode(Other(p)), c \o r, "header")
    BY <1>7, <1>15, <2>5, LeadsConcat
  <2> QED
    BY <1>5, <1>18, <1>21, <2>1, <2>2, <2>6 DEF Framed
<1>25. ASSUME NEW q \in Peers PROVE Framed(q)'
  BY <1>1, <1>23, <1>24
<1>26. ASSUME NEW q \in Peers, NEW t \in Targets, NEW f \in Entry,
              Coming(Pipeline(q), entry_state[q], t, f)
       PROVE  Coming(Pipeline(q)', entry_state'[q], t, f)
  <2>1. CASE q = p
    BY <1>5, <1>21, <1>26, <2>1
  <2>2. CASE q = Other(p)
    <3>1. Pipeline(q)' = Pipeline(Other(p))' /\ Pipeline(q) = Pipeline(Other(p))
      BY <2>2 DEF Pipeline
    <3>2. PICK current : current = entry_state[q]
      OBVIOUS
    <3>3. Coming(c \o << m >>, current, t, f)
      BY <1>21, <1>26, <3>1, <3>2
    <3>4. Carries(r, m.entries)
      BY <1>3, <1>15
    <3>5. Coming(c \o r, current, t, f)
      BY <1>5, <1>7, <1>8, <3>3, <3>4, CarriedIsComing
    <3> QED
      BY <1>5, <1>21, <3>1, <3>2, <3>5
  <2> QED
    BY <1>1, <2>1, <2>2
<1> QED
  BY <1>22, <1>25, <1>26, QuietKeepsInv

-----------------------------------------------------------------------------
(* A target begins.                                                        *)

(* Betty only waits.                                                       *)
LEMMA BettyBegins ==
    ASSUME ReconcilerInv, NEW t \in Targets, InitTarget("betty", t)
    PROVE  ReconcilerInv'
<1>1. /\ "alfie" \in Peers /\ "betty" \in Peers /\ Other("betty") = "alfie" /\ SyncTypes
      /\ Other("alfie") = "betty" /\ \A q \in Peers : q = "alfie" \/ q = "betty"
  BY TwoPeers DEF ReconcilerInv
<1>2. /\ targets' = [targets EXCEPT !["betty"][t] = NewTarget]
      /\ targets["betty"][t].status = "unknown"
      /\ UNCHANGED << stores, base, entry_state, payload, chan, todo, check, all, failed, writes >>
  BY DEF InitTarget
<1>3. targets["betty"][t] = [NewTarget EXCEPT !.status = "unknown"]
  BY <1>1, <1>2 DEF ReconcilerInv, Started
<1>4. NewTarget \in TargetState
  BY DEF NewTarget, TargetState
<1>5. /\ targets' \in [Peers -> [Targets -> TargetState]]
      /\ targets'["betty"][t] = NewTarget
      /\ \A u \in Targets : u # t => targets'["betty"][u] = targets["betty"][u]
      /\ \A u \in Targets : targets'["alfie"][u] = targets["alfie"][u]
  <2>1. "betty" \in Peers /\ SyncTypes
    BY <1>1
  <2>2. /\ targets' \in [Peers -> [Targets -> TargetState]]
        /\ targets'["betty"][t] = NewTarget
        /\ \A u \in Targets : u # t => targets'["betty"][u] = targets["betty"][u]
        /\ \A u \in Targets : targets'[Other("betty")][u] = targets[Other("betty")][u]
    BY <1>2, <1>4, <2>1, TargetChanges
  <2> QED
    BY <1>1, <2>2
<1>6. SyncTypes'
  BY <1>1, <1>2, <1>5 DEF SyncTypes
<1>7. \A x \in Peers, u \in Targets :
              /\ targets'[x][u].started = targets[x][u].started
              /\ targets'[x][u].uncovered = targets[x][u].uncovered
              /\ targets'[x][u].ours = targets[x][u].ours
              /\ targets'[x][u].theirs = targets[x][u].theirs
              /\ targets'[x][u].status = "unknown" => targets'[x][u] = targets[x][u]
              /\ targets'[x][u].status = "done" => targets'[x][u] = targets[x][u]
  <2>1. ASSUME NEW u \in Targets
        PROVE  /\ targets'["betty"][u].started = targets["betty"][u].started
               /\ targets'["betty"][u].uncovered = targets["betty"][u].uncovered
               /\ targets'["betty"][u].ours = targets["betty"][u].ours
               /\ targets'["betty"][u].theirs = targets["betty"][u].theirs
               /\ targets'["betty"][u].status = "unknown" => targets'["betty"][u] = targets["betty"][u]
               /\ targets'["betty"][u].status = "done" => targets'["betty"][u] = targets["betty"][u]
    <3>1. CASE u = t
      BY <1>3, <1>5, <3>1 DEF NewTarget
    <3>2. CASE u # t
      BY <1>5, <3>2
    <3> QED
      BY <3>1, <3>2
  <2> QED
    BY <1>1, <1>5, <2>1
<1>8. \A q : Pipeline(q)' = Pipeline(q) /\ Kept(q)' = Kept(q) /\ Mode(q)' = Mode(q)
  BY <1>2 DEF Pipeline, Kept, Mode
<1>9. ASSUME NEW q \in Peers PROVE PeerInv(q)'
  <2>1. PeerInv(q)
    BY DEF ReconcilerInv, PeerInv
  <2>2. Other(q) \in Peers
    BY TwoPeers
  <2>3. Framed(q)'
    BY <1>2, <1>8, <2>1 DEF PeerInv, Framed
  <2>4. Numbered(q)'
    BY <1>7, <1>8, <2>1, <2>2 DEF PeerInv, Numbered
  <2>5. Uncovering(q)'
    <3>1. Pipeline(q) \in Seq(Items)
      BY <1>1, PeerTypes
    <3>2. \A i \in DOMAIN Pipeline(q) : IsHeader(Pipeline(q)[i]) => Pipeline(q)[i].target \in Targets
      BY <3>1, ItemFields
    <3> QED
      BY <1>7, <1>8, <2>1, <3>2 DEF PeerInv, Uncovering
  <2>6. Started(q)'
    BY <1>1, <1>7, <1>8, <2>1, <2>2 DEF PeerInv, Started
  <2>7. Ended(q)'
    BY <1>2, <1>7, <1>8, <2>1 DEF PeerInv, Ended, Done
  <2>8. Stored(q)'
    BY <1>2, <1>8, <2>1 DEF PeerInv, Stored
  <2>9. Delivered(q)'
    BY <1>2, <1>5, <1>8, <2>1 DEF PeerInv, Delivered
  <2> QED
    BY <2>3, <2>4, <2>5, <2>6, <2>7, <2>8, <2>9 DEF PeerInv
<1>10. NeverFails'
  BY <1>2 DEF ReconcilerInv, NeverFails
<1>11. PeerInv("betty")' /\ PeerInv(Other("betty"))'
  BY <1>1, <1>9
<1> QED
  BY <1>1, <1>6, <1>10, <1>11, BothPeers

(* Alfie asks about the whole area: s is on its way to Alfie and w to      *)
(* Betty, before m.                                                        *)
Begins(t, m, s, w) ==
    /\ s = Pipeline("alfie") /\ w = Pipeline("betty")
    /\ s \in Seq(Items) /\ w \in Seq(Items) /\ m \in Items
    /\ m.type = "SendFingerprint" /\ m.target = t /\ m.range = AreaRange[t] /\ m.covers = {}
    /\ m.fingerprint = get_entries(stores["alfie"], AreaRange[t])
    /\ Pipeline("alfie")' = s /\ Pipeline(Other("betty"))' = s
    /\ Pipeline("betty")' = w \o << m >> /\ Pipeline(Other("alfie"))' = w \o << m >>
    /\ targets["alfie"][t] = [NewTarget EXCEPT !.status = "unknown"]
    /\ targets'["alfie"][t] = [status |-> "open", started |-> FALSE, uncovered |-> {0}, ours |-> 1,
                               theirs |-> 0]
    /\ \A u \in Targets : u # t => targets'["alfie"][u] = targets["alfie"][u]
    /\ \A u \in Targets : targets'["betty"][u] = targets["betty"][u]
    /\ todo'["alfie"] = << m >> /\ todo'["betty"] = todo["betty"]
    /\ stores' = stores /\ base' = base /\ entry_state' = entry_state /\ payload' = payload
    /\ failed' = failed /\ SyncTypes'

(* init_target at Alfie is a step of the form Begins.                      *)
LEMMA AlfieBegins ==
    ASSUME ReconcilerInv, NEW t \in Targets, InitTarget("alfie", t)
    PROVE  \E m, s, w : Begins(t, m, s, w)
<1>1. /\ "alfie" \in Peers /\ "betty" \in Peers /\ Other("betty") = "alfie" /\ SyncTypes
      /\ Other("alfie") = "betty" /\ \A q \in Peers : q = "alfie" \/ q = "betty"
  BY TwoPeers DEF ReconcilerInv
<1>2. PICK m, s, w : /\ m = FingerprintMsg(t, AreaRange[t], fingerprint(stores["alfie"], AreaRange[t]), {})
                     /\ s = Pipeline("alfie") /\ w = Pipeline("betty")
  OBVIOUS
<1>3. PICK N : N = MarkPending(NewTarget, 1)
  OBVIOUS
<1>4. /\ todo["alfie"] = << >> /\ targets["alfie"][t].status = "unknown"
      /\ targets' = [targets EXCEPT !["alfie"][t] = N]
      /\ todo' = [todo EXCEPT !["alfie"] = << m >>]
      /\ UNCHANGED << stores, base, entry_state, payload, chan, check, all, failed, writes >>
  BY <1>2, <1>3 DEF InitTarget, Idle
<1>5. s \in Seq(Items) /\ w \in Seq(Items) /\ stores["alfie"] \in SUBSET Entry
  BY <1>1, <1>2, PeerTypes
<1>6. /\ m \in Items /\ m.type = "SendFingerprint" /\ m.target = t /\ m.range = AreaRange[t]
      /\ m.covers = {} /\ m.fingerprint = get_entries(stores["alfie"], AreaRange[t])
  <2>1. get_entries(stores["alfie"], AreaRange[t]) \in SUBSET Entry
    BY <1>5 DEF get_entries
  <2>2. AreaRange[t] \in Range3d
    BY ReconcilerAssumption
  <2>3. m = [type |-> "SendFingerprint", target |-> t, range |-> AreaRange[t],
             fingerprint |-> get_entries(stores["alfie"], AreaRange[t]), covers |-> {}]
    BY <1>2 DEF FingerprintMsg, fingerprint
  <2> QED
    BY <2>1, <2>2, <2>3 DEF Items, Messages
<1>7. << m >> \in Seq(Items)
  BY <1>6
<1>8. targets["alfie"][t] = [NewTarget EXCEPT !.status = "unknown"]
  BY <1>1, <1>4 DEF ReconcilerInv, Started
<1>9. N = [status |-> "open", started |-> FALSE, uncovered |-> {0}, ours |-> 1, theirs |-> 0]
  <2>1. 0..(0 + 1 - 1) = {0} /\ 0 + 1 = 1
    OBVIOUS
  <2> QED
    BY <1>3, <2>1 DEF MarkPending, NewTarget
<1>10. N \in TargetState
  <2>1. {0} \in SUBSET Nat /\ 1 \in Nat /\ 0 \in Nat
    OBVIOUS
  <2> QED
    BY <1>9, <2>1 DEF TargetState
<1>11. /\ targets' \in [Peers -> [Targets -> TargetState]]
       /\ targets'["alfie"][t] = N
       /\ \A u \in Targets : u # t => targets'["alfie"][u] = targets["alfie"][u]
       /\ \A u \in Targets : targets'["betty"][u] = targets["betty"][u]
  <2>1. "alfie" \in Peers /\ SyncTypes
    BY <1>1
  <2>2. /\ targets' \in [Peers -> [Targets -> TargetState]]
        /\ targets'["alfie"][t] = N
        /\ \A u \in Targets : u # t => targets'["alfie"][u] = targets["alfie"][u]
        /\ \A u \in Targets : targets'[Other("alfie")][u] = targets[Other("alfie")][u]
    BY <1>4, <1>10, <2>1, TargetChanges
  <2> QED
    BY <1>1, <2>2
<1>12. /\ todo' \in [Peers -> Seq(Items)] /\ todo'["alfie"] = << m >> /\ todo'["betty"] = todo["betty"]
  BY <1>1, <1>4, <1>7 DEF SyncTypes, Items
<1>13. SyncTypes'
  BY <1>1, <1>4, <1>11, <1>12 DEF SyncTypes, Items
<1>14. chan["betty"] = w
  <2>1. w = chan["betty"] \o << >>
    BY <1>1, <1>2, <1>4 DEF Pipeline
  <2>2. chan["betty"] \in Seq(Items)
    BY <1>1, PeerTypes
  <2>3. \A y \in Seq(Items) : y \o << >> = y
    OBVIOUS
  <2> QED
    BY <2>1, <2>2, <2>3
<1>15. /\ Pipeline("alfie")' = s /\ Pipeline(Other("betty"))' = s
       /\ Pipeline("betty")' = w \o << m >> /\ Pipeline(Other("alfie"))' = w \o << m >>
  BY <1>1, <1>2, <1>4, <1>12, <1>14 DEF Pipeline
<1>16. Begins(t, m, s, w)
  BY <1>2, <1>4, <1>5, <1>6, <1>8, <1>9, <1>11, <1>12, <1>13, <1>15 DEF Begins
<1> QED
  BY <1>16

(* Nothing about the target is under way when Alfie begins.                *)
LEMMA BeginsFirst ==
    ASSUME ReconcilerInv, NEW t \in Targets, NEW m, NEW s, NEW w, Begins(t, m, s, w)
    PROVE  /\ \A i \in DOMAIN w : ~ HeaderOf(w[i], t)
           /\ \A i \in DOMAIN s : ~ HeaderOf(s[i], t)
           /\ ~ targets["betty"][t].started /\ targets["betty"][t].uncovered = {}
           /\ targets["betty"][t].theirs = 0 /\ Wanting(w, t) = 0
           /\ targets["alfie"][t].theirs = 0 /\ targets["alfie"][t].ours = 0
           /\ targets["alfie"][t].status = "unknown" /\ ~ targets["alfie"][t].started
<1>1. /\ "alfie" \in Peers /\ "betty" \in Peers /\ Other("betty") = "alfie" /\ SyncTypes
      /\ Other("alfie") = "betty"
  BY TwoPeers DEF ReconcilerInv
<1>2. s = Pipeline("alfie") /\ w = Pipeline("betty") /\ w \in Seq(Items)
  BY DEF Begins
<1>3. /\ targets["alfie"][t].theirs = 0 /\ targets["alfie"][t].ours = 0
      /\ targets["alfie"][t].status = "unknown" /\ ~ targets["alfie"][t].started
  BY DEF Begins, NewTarget
<1>4. ~ targets["betty"][t].started /\ \A i \in DOMAIN w : ~ HeaderOf(w[i], t)
  BY <1>1, <1>2, <1>3 DEF ReconcilerInv, Started
<1>5. targets["betty"][t].uncovered = {} /\ \A i \in DOMAIN s : ~ HeaderOf(s[i], t)
  BY <1>1, <1>2, <1>4 DEF ReconcilerInv, Started
<1>6. targets["alfie"][t].ours = targets["betty"][t].theirs + Wanting(w, t)
  BY <1>1, <1>2 DEF ReconcilerInv, Numbered
<1>7. targets["betty"][t].theirs \in Nat /\ Wanting(w, t) \in Nat
  BY <1>1, <1>2, PeerTypes, WaitingIsFinite
<1> QED
  BY <1>3, <1>4, <1>5, <1>6, <1>7
(* A sequence with one more element at its end.                            *)
LEMMA OneMore ==
    ASSUME NEW w \in Seq(Items), NEW m \in Items, NEW v, v = w \o << m >>
    PROVE  /\ v \in Seq(Items) /\ Len(w) \in Nat /\ Len(v) = Len(w) + 1
           /\ DOMAIN w = 1..Len(w) /\ DOMAIN v = 1..(Len(w) + 1)
           /\ v[Len(w) + 1] = m
           /\ \A i \in DOMAIN w : v[i] = w[i] /\ i \in DOMAIN v
           /\ \A i \in DOMAIN v : (i \in DOMAIN w /\ v[i] = w[i]) \/ (i = Len(w) + 1 /\ v[i] = m)
<1>1. << m >> \in Seq(Items) /\ DOMAIN << m >> = {1} /\ << m >>[1] = m /\ Len(<< m >>) = 1
  OBVIOUS
<1>2. /\ w \o << m >> \in Seq(Items) /\ Len(w) \in Nat
      /\ Len(w \o << m >>) = Len(w) + Len(<< m >>)
      /\ DOMAIN (w \o << m >>) = 1..(Len(w) + Len(<< m >>)) /\ DOMAIN w = 1..Len(w)
      /\ \A i \in DOMAIN w : (w \o << m >>)[i] = w[i]
      /\ \A i \in DOMAIN << m >> : (w \o << m >>)[Len(w) + i] = << m >>[i]
  BY <1>1, ConcatFields
<1>3. /\ v \in Seq(Items) /\ Len(w) \in Nat /\ Len(v) = Len(w) + 1
      /\ DOMAIN w = 1..Len(w) /\ DOMAIN v = 1..(Len(w) + 1)
      /\ v[Len(w) + 1] = m /\ \A i \in DOMAIN w : v[i] = w[i]
  BY <1>1, <1>2
<1>4. \A i \in DOMAIN v : i \in DOMAIN w \/ i = Len(w) + 1
  BY <1>3
<1> QED
  BY <1>3, <1>4

(* Begins keeps Framed: a fingerprint needs a header and leaves one due.   *)
LEMMA BeginsKeepsFrames ==
    ASSUME ReconcilerInv, NEW t \in Targets, NEW m, NEW s, NEW w, Begins(t, m, s, w)
    PROVE  Framed("alfie")' /\ Framed("betty")'
<1>1. /\ "alfie" \in Peers /\ "betty" \in Peers /\ Other("betty") = "alfie"
      /\ Other("alfie") = "betty"
  BY TwoPeers
<1>2. Framed("alfie") /\ Framed("betty")
  BY <1>1 DEF ReconcilerInv
<1>3. /\ s = Pipeline("alfie") /\ w = Pipeline("betty") /\ w \in Seq(Items) /\ m \in Items
      /\ m.type = "SendFingerprint"
      /\ Pipeline("alfie")' = s /\ Pipeline("betty")' = w \o << m >>
      /\ todo'["alfie"] = << m >> /\ todo'["betty"] = todo["betty"]
      /\ entry_state' = entry_state /\ payload' = payload
  BY DEF Begins
<1>4. Mode("alfie")' = Mode("alfie") /\ Mode("betty")' = Mode("betty")
  BY <1>3 DEF Mode
<1>5. Leads("header", << m >>, "header")
  <2>1. Needs(m) = "header" /\ Leaves(m) = "header"
    BY <1>3 DEF Needs, Leaves, IsHeader
  <2> QED
    BY <1>3, <2>1, LeadsOne
<1>6. Leads(Mode("betty"), w \o << m >>, "header")
  <2>1. << m >> \in Seq(Items)
    BY <1>3
  <2>2. Leads(Mode("betty"), w, "header")
    BY <1>2, <1>3 DEF Framed
  <2> QED
    BY <1>3, <1>5, <2>1, <2>2, LeadsConcat
<1>7. Leads(Mode("alfie")', Pipeline("alfie")', "header")
  BY <1>2, <1>3, <1>4 DEF Framed
<1>8. Leads(Mode("betty")', Pipeline("betty")', "header")
  BY <1>3, <1>4, <1>6
<1>9. \A i \in DOMAIN todo'["alfie"] : todo'["alfie"][i].type # "Iterator"
  <2>1. DOMAIN << m >> = {1} /\ << m >>[1] = m
    OBVIOUS
  <2> QED
    BY <1>3, <2>1
<1>10. Framed("alfie")'
  BY <1>2, <1>3, <1>7, <1>9 DEF Framed
<1>11. Framed("betty")'
  BY <1>2, <1>3, <1>8 DEF Framed
<1> QED
  BY <1>10, <1>11

(* Begins keeps Numbered: the first range of the target has number 0.      *)
LEMMA BeginsKeepsBooks ==
    ASSUME ReconcilerInv, NEW t \in Targets, NEW m, NEW s, NEW w, Begins(t, m, s, w)
    PROVE  Numbered("alfie")' /\ Numbered("betty")'
<1>1. /\ "alfie" \in Peers /\ "betty" \in Peers /\ Other("betty") = "alfie"
      /\ Other("alfie") = "betty" /\ SyncTypes
  BY TwoPeers DEF ReconcilerInv
<1>2. Numbered("alfie") /\ Numbered("betty")
  BY <1>1 DEF ReconcilerInv
<1>3. /\ s = Pipeline("alfie") /\ w = Pipeline("betty") /\ w \in Seq(Items) /\ m \in Items
      /\ m.type = "SendFingerprint" /\ m.target = t /\ m.covers = {}
      /\ Pipeline("alfie")' = s /\ Pipeline("betty")' = w \o << m >>
      /\ Pipeline(Other("betty"))' = s /\ Pipeline(Other("alfie"))' = w \o << m >>
      /\ \A u \in Targets : u # t => targets'["alfie"][u] = targets["alfie"][u]
      /\ \A u \in Targets : targets'["betty"][u] = targets["betty"][u]
  BY DEF Begins
<1>4. /\ targets'["alfie"][t].uncovered = {0} /\ targets'["alfie"][t].ours = 1
      /\ targets'["alfie"][t].theirs = 0
  BY DEF Begins
<1>5. /\ \A i \in DOMAIN s : ~ HeaderOf(s[i], t)
      /\ targets["betty"][t].theirs = 0 /\ Wanting(w, t) = 0
      /\ targets["alfie"][t].theirs = 0
  BY BeginsFirst
<1>6. PICK v : v = w \o << m >>
  OBVIOUS
<1>7. ASSUME NEW u \in Targets
      PROVE  Wanting(v, u) = Wanting(w, u) + (IF u = t THEN 1 ELSE 0)
  <2>1. << m >> \in Seq(Items)
    BY <1>3
  <2>2. Wanting(v, u) = Wanting(w, u) + Wanting(<< m >>, u)
    BY <1>3, <1>6, <2>1, WantingConcat
  <2>3. Wants(m, u) <=> u = t
    BY <1>3 DEF Wants
  <2> QED
    BY <1>3, <2>2, <2>3, WantingOne
<1>8. ASSUME NEW u \in Targets
      PROVE  Wanting(w, u) \in Nat
  BY <1>3, WaitingIsFinite
<1>9. Numbered("alfie")'
  <2>0. /\ Pipeline("alfie")' = s /\ Pipeline(Other("alfie"))' = v /\ Other("alfie") = "betty"
    BY <1>1, <1>3, <1>6
  <2> SUFFICES ASSUME NEW u \in Targets
      PROVE  /\ targets'["alfie"][u].ours = targets'["betty"][u].theirs + Wanting(v, u)
             /\ targets'["betty"][u].theirs..(targets'["alfie"][u].ours - 1)
                    \subseteq targets'["alfie"][u].uncovered
             /\ \A i \in DOMAIN s : HeaderOf(s[i], u) =>
                  /\ s[i].covers \subseteq targets'["alfie"][u].uncovered
                  /\ s[i].covers \subseteq 0..(targets'["betty"][u].theirs - 1)
                  /\ \A j \in DOMAIN s : HeaderOf(s[j], u) /\ i # j =>
                        s[i].covers \cap s[j].covers = {}
    BY <2>0 DEF Numbered
  <2>1. CASE u = t
    <3>1. 0..(1 - 1) \subseteq {0}
      OBVIOUS
    <3>2. targets'["betty"][u].theirs = 0 /\ Wanting(v, u) = 1
      BY <1>3, <1>5, <1>7, <2>1
    <3> QED
      BY <1>4, <1>5, <2>1, <3>1, <3>2
  <2>2. CASE u # t
    <3>1. Wanting(v, u) = Wanting(w, u)
      BY <1>7, <1>8, <2>2
    <3> QED
      BY <1>1, <1>2, <1>3, <2>2, <3>1 DEF Numbered
  <2> QED
    BY <2>1, <2>2
<1>10. Numbered("betty")'
  <2>0. /\ Pipeline("betty")' = v /\ Pipeline(Other("betty"))' = s /\ Other("betty") = "alfie"
    BY <1>1, <1>3, <1>6
  <2> SUFFICES ASSUME NEW u \in Targets
      PROVE  /\ targets'["betty"][u].ours = targets'["alfie"][u].theirs + Wanting(s, u)
             /\ targets'["alfie"][u].theirs..(targets'["betty"][u].ours - 1)
                    \subseteq targets'["betty"][u].uncovered
             /\ \A i \in DOMAIN v : HeaderOf(v[i], u) =>
                  /\ v[i].covers \subseteq targets'["betty"][u].uncovered
                  /\ v[i].covers \subseteq 0..(targets'["alfie"][u].theirs - 1)
                  /\ \A j \in DOMAIN v : HeaderOf(v[j], u) /\ i # j =>
                        v[i].covers \cap v[j].covers = {}
    BY <2>0 DEF Numbered
  <2>1. targets'["alfie"][u].theirs = targets["alfie"][u].theirs
    BY <1>3, <1>4, <1>5
  <2>2. /\ targets["betty"][u].ours = targets["alfie"][u].theirs + Wanting(s, u)
        /\ targets["alfie"][u].theirs..(targets["betty"][u].ours - 1)
                    \subseteq targets["betty"][u].uncovered
        /\ \A i \in DOMAIN w : HeaderOf(w[i], u) =>
                  /\ w[i].covers \subseteq targets["betty"][u].uncovered
                  /\ w[i].covers \subseteq 0..(targets["alfie"][u].theirs - 1)
                  /\ \A j \in DOMAIN w : HeaderOf(w[j], u) /\ i # j =>
                        w[i].covers \cap w[j].covers = {}
    BY <1>1, <1>2, <1>3 DEF Numbered
  <2>3. \A i \in DOMAIN v : (i \in DOMAIN w /\ v[i] = w[i]) \/ (i = Len(w) + 1 /\ v[i] = m)
    BY <1>3, <1>6, OneMore
  <2>4. \A i \in DOMAIN v : HeaderOf(v[i], u) =>
                  /\ v[i].covers \subseteq targets["betty"][u].uncovered
                  /\ v[i].covers \subseteq 0..(targets["alfie"][u].theirs - 1)
    BY <1>3, <2>2, <2>3
  <2>5. ASSUME NEW i \in DOMAIN v, NEW j \in DOMAIN v, HeaderOf(v[i], u), HeaderOf(v[j], u), i # j
        PROVE  v[i].covers \cap v[j].covers = {}
    <3>1. CASE v[i] = m \/ v[j] = m
      BY <1>3, <3>1
    <3>2. CASE i \in DOMAIN w /\ v[i] = w[i] /\ j \in DOMAIN w /\ v[j] = w[j]
      BY <2>2, <2>5, <3>2
    <3> QED
      BY <2>3, <3>1, <3>2
  <2> QED
    BY <1>3, <2>1, <2>2, <2>4, <2>5
<1> QED
  BY <1>9, <1>10

(* Begins keeps Uncovering: the first message covers nothing, and Betty    *)
(* has not started.                                                        *)
LEMMA BeginsKeepsUncovering ==
    ASSUME ReconcilerInv, NEW t \in Targets, NEW m, NEW s, NEW w, Begins(t, m, s, w)
    PROVE  Uncovering("alfie")' /\ Uncovering("betty")'
<1>1. /\ "alfie" \in Peers /\ "betty" \in Peers /\ "alfie" # "betty" /\ SyncTypes
  BY TwoPeers DEF ReconcilerInv
<1>2. Uncovering("alfie") /\ Uncovering("betty")
  BY <1>1 DEF ReconcilerInv
<1>3. /\ s = Pipeline("alfie") /\ w = Pipeline("betty") /\ w \in Seq(Items) /\ m \in Items
      /\ m.type = "SendFingerprint" /\ m.target = t /\ m.covers = {}
      /\ Pipeline("alfie")' = s /\ Pipeline("betty")' = w \o << m >>
      /\ \A u \in Targets : targets'["betty"][u] = targets["betty"][u]
  BY DEF Begins
<1>4. ~ targets["betty"][t].started
  BY BeginsFirst
<1>5. PICK v : v = w \o << m >>
  OBVIOUS
<1>6. /\ DOMAIN w = 1..Len(w) /\ DOMAIN v = 1..(Len(w) + 1) /\ Len(w) \in Nat /\ Len(v) = Len(w) + 1
      /\ \A i \in DOMAIN w : v[i] = w[i]
      /\ \A i \in DOMAIN v : (i \in DOMAIN w /\ v[i] = w[i]) \/ (i = Len(w) + 1 /\ v[i] = m)
  BY <1>3, <1>5, OneMore
<1>7. Uncovering("alfie")'
  BY <1>1, <1>2, <1>3 DEF Uncovering
<1>8. ASSUME NEW i \in DOMAIN v, IsHeader(v[i]), v[i].covers = {}
      PROVE  /\ v[i].type = "SendFingerprint"
             /\ \/ /\ i < Len(v)
                   /\ HeaderOf(v[i + 1], v[i].target)
                   /\ v[i + 1].covers # {}
                \/ ~ targets'["betty"][v[i].target].started
  <2>1. CASE i \in DOMAIN w /\ v[i] = w[i]
    <3>1. /\ w[i].type = "SendFingerprint"
          /\ \/ /\ i < Len(w)
                /\ HeaderOf(w[i + 1], w[i].target)
                /\ w[i + 1].covers # {}
             \/ ~ targets["betty"][w[i].target].started
      BY <1>2, <1>3, <1>8, <2>1 DEF Uncovering
    <3>2. w[i] \in Items /\ IsHeader(w[i])
      BY <1>3, <1>8, <2>1
    <3>3. w[i].target \in Targets
      BY <3>2, ItemFields
    <3>4. i < Len(w) => i + 1 \in DOMAIN w /\ v[i + 1] = w[i + 1] /\ i < Len(v)
      BY <1>6, <2>1
    <3> QED
      BY <1>3, <2>1, <3>1, <3>3, <3>4
  <2>2. CASE v[i] = m
    BY <1>3, <1>4, <2>2
  <2> QED
    BY <1>6, <2>1, <2>2
<1>9. Uncovering("betty")'
  BY <1>3, <1>5, <1>8 DEF Uncovering
<1> QED
  BY <1>7, <1>9

(* Begins keeps Started and Ended.                                         *)
LEMMA BeginsKeepsStart ==
    ASSUME ReconcilerInv, NEW t \in Targets, NEW m, NEW s, NEW w, Begins(t, m, s, w)
    PROVE  /\ Started("alfie")' /\ Started("betty")'
           /\ Ended("alfie")' /\ Ended("betty")'
<1>1. /\ "alfie" \in Peers /\ "betty" \in Peers /\ "alfie" # "betty" /\ Other("betty") = "alfie"
      /\ Other("alfie") = "betty" /\ SyncTypes
  BY TwoPeers DEF ReconcilerInv
<1>2. Started("alfie") /\ Started("betty") /\ Ended("alfie") /\ Ended("betty")
  BY <1>1 DEF ReconcilerInv
<1>3. /\ s = Pipeline("alfie") /\ w = Pipeline("betty") /\ w \in Seq(Items) /\ m \in Items
      /\ m.type = "SendFingerprint" /\ m.target = t
      /\ Pipeline("alfie")' = s /\ Pipeline("betty")' = w \o << m >>
      /\ Pipeline(Other("betty"))' = s /\ Pipeline(Other("alfie"))' = w \o << m >>
      /\ \A u \in Targets : u # t => targets'["alfie"][u] = targets["alfie"][u]
      /\ \A u \in Targets : targets'["betty"][u] = targets["betty"][u]
      /\ entry_state' = entry_state
  BY DEF Begins
<1>4. /\ targets'["alfie"][t].status = "open" /\ targets'["alfie"][t].ours = 1
      /\ ~ targets'["alfie"][t].started
  BY DEF Begins
<1>5. /\ \A i \in DOMAIN s : ~ HeaderOf(s[i], t)
      /\ ~ targets["betty"][t].started /\ targets["betty"][t].uncovered = {}
  BY BeginsFirst
<1>6. PICK v : v = w \o << m >>
  OBVIOUS
<1>7. \A i \in DOMAIN v : (i \in DOMAIN w /\ v[i] = w[i]) \/ (i = Len(w) + 1 /\ v[i] = m)
  BY <1>3, <1>6, OneMore
<1>8. \A i \in DOMAIN v : \A u : HeaderOf(v[i], u) =>
          u = t \/ (i \in DOMAIN w /\ HeaderOf(w[i], u))
  BY <1>3, <1>7 DEF HeaderOf
<1>9. Started("alfie")'
  <2>1. ASSUME NEW u \in Targets, targets'["alfie"][u].status = "unknown"
        PROVE  /\ targets'["alfie"][u] = [NewTarget EXCEPT !.status = "unknown"]
               /\ ~ targets'["betty"][u].started
               /\ \A i \in DOMAIN v : ~ HeaderOf(v[i], u)
    <3>1. u # t
      BY <1>4, <2>1
    <3>2. /\ targets["alfie"][u] = [NewTarget EXCEPT !.status = "unknown"]
          /\ ~ targets["betty"][u].started
          /\ \A i \in DOMAIN w : ~ HeaderOf(w[i], u)
      BY <1>1, <1>2, <1>3, <2>1, <3>1 DEF Started
    <3> QED
      BY <1>3, <1>8, <3>1, <3>2
  <2> QED
    BY <1>1, <1>3, <1>6, <2>1 DEF Started
<1>10. Started("betty")'
  <2>1. ASSUME NEW u \in Targets, targets'["betty"][u].status = "unknown"
        PROVE  /\ targets'["betty"][u] = [NewTarget EXCEPT !.status = "unknown"]
               /\ ~ targets'["alfie"][u].started
               /\ \A i \in DOMAIN s : ~ HeaderOf(s[i], u)
    <3>1. /\ targets["betty"][u] = [NewTarget EXCEPT !.status = "unknown"]
          /\ ~ targets["alfie"][u].started
          /\ \A i \in DOMAIN s : ~ HeaderOf(s[i], u)
      BY <1>1, <1>2, <1>3, <2>1 DEF Started
    <3> QED
      BY <1>3, <1>4, <3>1
  <2>2. ASSUME NEW u \in Targets, ~ targets'["betty"][u].started
        PROVE  /\ targets'["betty"][u].uncovered = {}
               /\ ~ targets'["alfie"][u].started /\ targets'["alfie"][u].ours <= 1
               /\ \A i \in DOMAIN s : ~ HeaderOf(s[i], u)
    <3>1. /\ targets["betty"][u].uncovered = {}
          /\ ~ targets["alfie"][u].started /\ targets["alfie"][u].ours <= 1
          /\ \A i \in DOMAIN s : ~ HeaderOf(s[i], u)
      BY <1>1, <1>2, <1>3, <2>2 DEF Started
    <3> QED
      BY <1>3, <1>4, <3>1
  <2> QED
    BY <1>1, <1>3, <2>1, <2>2 DEF Started
<1>11. Ended("alfie")'
  <2>1. ASSUME NEW u \in Targets, targets'["alfie"][u].status = "done"
        PROVE  /\ is_complete(targets'["alfie"][u]) /\ u \notin entry_state["alfie"]
               /\ \A i \in DOMAIN s : ~ HeaderOf(s[i], u)
    <3>1. u # t
      BY <1>4, <2>1
    <3> QED
      BY <1>2, <1>3, <2>1, <3>1 DEF Ended, Done
  <2> QED
    BY <1>3, <2>1 DEF Ended, Done
<1>12. Ended("betty")'
  <2>1. ASSUME NEW u \in Targets, targets'["betty"][u].status = "done"
        PROVE  /\ is_complete(targets'["betty"][u]) /\ u \notin entry_state["betty"]
               /\ \A i \in DOMAIN v : ~ HeaderOf(v[i], u)
    <3>1. /\ is_complete(targets["betty"][u]) /\ u \notin entry_state["betty"]
          /\ \A i \in DOMAIN w : ~ HeaderOf(w[i], u)
      BY <1>2, <1>3, <2>1 DEF Ended, Done
    <3>2. u # t
      BY <1>5, <3>1 DEF is_complete
    <3> QED
      BY <1>3, <1>8, <3>1, <3>2
  <2> QED
    BY <1>3, <1>6, <2>1 DEF Ended, Done
<1> QED
  BY <1>9, <1>10, <1>11, <1>12

(* Begins keeps Stored: the fingerprint is of what Alfie holds now.        *)
LEMMA BeginsKeepsStores ==
    ASSUME ReconcilerInv, NEW t \in Targets, NEW m, NEW s, NEW w, Begins(t, m, s, w)
    PROVE  Stored("alfie")' /\ Stored("betty")'
<1>1. /\ "alfie" \in Peers /\ "betty" \in Peers /\ Other("betty") = "alfie"
      /\ Other("alfie") = "betty" /\ SyncTypes
  BY TwoPeers DEF ReconcilerInv
<1>2. Stored("alfie") /\ Stored("betty")
  BY <1>1 DEF ReconcilerInv
<1>3. /\ s = Pipeline("alfie") /\ w = Pipeline("betty") /\ w \in Seq(Items) /\ m \in Items
      /\ Pipeline("alfie")' = s /\ Pipeline("betty")' = w \o << m >>
      /\ m.range = AreaRange[t] /\ m.fingerprint = get_entries(stores["alfie"], AreaRange[t])
      /\ stores' = stores /\ base' = base
  BY DEF Begins
<1>4. PICK v : v = w \o << m >>
  OBVIOUS
<1>5. \A i \in DOMAIN v : (i \in DOMAIN w /\ v[i] = w[i]) \/ (i = Len(w) + 1 /\ v[i] = m)
  BY <1>3, <1>4, OneMore
<1>6. Kept("alfie")' = Kept("alfie") /\ Kept("betty")' = Kept("betty")
  BY <1>3 DEF Kept
<1>7. Stored("alfie")'
  BY <1>1, <1>2, <1>3, <1>6 DEF Stored
<1>8. /\ get_entries(Kept("alfie"), m.range) \subseteq m.fingerprint
      /\ Dominates(stores["alfie"], m.fingerprint)
  BY <1>3 DEF Kept, get_entries, Dominates
<1>9. ASSUME NEW i \in DOMAIN v, v[i].type = "SendFingerprint"
      PROVE  /\ get_entries(Kept("alfie"), v[i].range) \subseteq v[i].fingerprint
             /\ Dominates(stores["alfie"], v[i].fingerprint)
  <2>1. CASE i \in DOMAIN w /\ v[i] = w[i]
    BY <1>1, <1>2, <1>3, <1>9, <2>1 DEF Stored
  <2>2. CASE v[i] = m
    BY <1>8, <2>2
  <2> QED
    BY <1>5, <2>1, <2>2
<1>10. Stored("betty")'
  BY <1>1, <1>2, <1>3, <1>4, <1>6, <1>9 DEF Stored
<1> QED
  BY <1>7, <1>10

(* Begins keeps Delivered: every entry of the area is offered to Betty and *)
(* asked about.                                                            *)
LEMMA BeginsKeepsDelivery ==
    ASSUME ReconcilerInv, NEW t \in Targets, NEW m, NEW s, NEW w, Begins(t, m, s, w)
    PROVE  Delivered("alfie")' /\ Delivered("betty")'
<1>1. /\ "alfie" \in Peers /\ "betty" \in Peers /\ Other("betty") = "alfie"
      /\ Other("alfie") = "betty" /\ SyncTypes
  BY TwoPeers DEF ReconcilerInv
<1>2. Delivered("alfie") /\ Delivered("betty")
  BY <1>1 DEF ReconcilerInv
<1>3. /\ s = Pipeline("alfie") /\ w = Pipeline("betty") /\ w \in Seq(Items) /\ m \in Items
      /\ m.type = "SendFingerprint" /\ m.target = t /\ m.range = AreaRange[t]
      /\ Pipeline("alfie")' = s /\ Pipeline("betty")' = w \o << m >>
      /\ Pipeline(Other("betty"))' = s /\ Pipeline(Other("alfie"))' = w \o << m >>
      /\ \A u \in Targets : u # t => targets'["alfie"][u] = targets["alfie"][u]
      /\ stores' = stores /\ base' = base /\ entry_state' = entry_state
  BY DEF Begins
<1>4. PICK v : v = w \o << m >>
  OBVIOUS
<1>5. /\ v[Len(w) + 1] = m /\ Len(w) + 1 \in DOMAIN v
  BY <1>3, <1>4, OneMore
<1>6. Kept("alfie")' = Kept("alfie") /\ Kept("betty")' = Kept("betty")
  BY <1>3 DEF Kept
<1>7. ASSUME NEW e, NEW u
      PROVE  /\ Offered(w, u, e) => Offered(v, u, e)
             /\ Asked(w, u, e) => Asked(v, u, e)
             /\ Coming(w, entry_state["betty"], u, e) => Coming(v, entry_state["betty"], u, e)
  <2>1. << m >> \in Seq(Items)
    BY <1>3
  <2> QED
    BY <1>3, <1>4, <2>1, MoreIsSent
<1>8. ASSUME NEW S, NEW e \in get_entries(S, AreaRange[t])
      PROVE  Offered(v, t, e) /\ Asked(v, t, e)
  <2>1. includes_entry(m.range, e)
    BY <1>3 DEF get_entries
  <2> QED
    BY <1>3, <1>5, <2>1 DEF Offered, Asked, Wants
<1>9. ASSUME NEW u \in Targets, targets'["alfie"][u].status # "unknown",
             NEW e \in get_entries(Kept("betty"), AreaRange[u])
      PROVE  \/ Dominates(stores["alfie"], {e})
             \/ Offered(s, u, e)
             \/ Asked(v, u, e)
             \/ Coming(s, entry_state["alfie"], u, e)
  <2>1. CASE u = t
    BY <1>8, <2>1
  <2>2. CASE u # t
    <3>1. targets["alfie"][u].status # "unknown"
      BY <1>3, <1>9, <2>2
    <3>2. \/ Dominates(stores["alfie"], {e})
          \/ Offered(s, u, e)
          \/ Asked(w, u, e)
          \/ Coming(s, entry_state["alfie"], u, e)
      BY <1>1, <1>2, <1>3, <3>1 DEF Delivered
    <3> QED
      BY <1>7, <3>2
  <2> QED
    BY <2>1, <2>2
<1>10. ASSUME NEW u \in Targets, targets'["alfie"][u].status # "unknown",
              NEW e \in get_entries(Kept("alfie"), AreaRange[u])
       PROVE  \/ Dominates(stores["betty"], {e})
              \/ Offered(v, u, e)
              \/ Asked(s, u, e)
              \/ Coming(v, entry_state["betty"], u, e)
  <2>1. CASE u = t
    BY <1>8, <2>1
  <2>2. CASE u # t
    <3>1. targets["alfie"][u].status # "unknown"
      BY <1>3, <1>10, <2>2
    <3>2. \/ Dominates(stores["betty"], {e})
          \/ Offered(w, u, e)
          \/ Asked(s, u, e)
          \/ Coming(w, entry_state["betty"], u, e)
      BY <1>1, <1>2, <1>3, <3>1 DEF Delivered
    <3> QED
      BY <1>7, <3>2
  <2> QED
    BY <2>1, <2>2
<1>11. Delivered("alfie")'
  BY <1>1, <1>3, <1>4, <1>6, <1>9 DEF Delivered
<1>12. Delivered("betty")'
  BY <1>1, <1>3, <1>4, <1>6, <1>10 DEF Delivered
<1> QED
  BY <1>11, <1>12

(* init_target at Alfie keeps the invariant.                               *)
LEMMA BeginsKeepsInv ==
    ASSUME ReconcilerInv, NEW t \in Targets, InitTarget("alfie", t)
    PROVE  ReconcilerInv'
<1>1. PICK m, s, w : Begins(t, m, s, w)
  BY AlfieBegins
<1>2. SyncTypes' /\ failed' = failed
  BY <1>1 DEF Begins
<1>3. NeverFails'
  BY <1>2 DEF ReconcilerInv, NeverFails
<1>4. PeerInv("alfie")' /\ PeerInv("betty")'
  BY <1>1, BeginsKeepsFrames, BeginsKeepsBooks, BeginsKeepsUncovering, BeginsKeepsStart,
     BeginsKeepsStores, BeginsKeepsDelivery DEF PeerInv
<1>5. ASSUME NEW q \in Peers PROVE PeerInv(q)'
  BY <1>4, TwoPeers
<1> QED
  BY <1>2, <1>3, <1>5 DEF ReconcilerInv, PeerInv

-----------------------------------------------------------------------------
(* The invariant.                                                          *)

(* The invariant holds when a session begins.                              *)
LEMMA InitialInv ==
    ASSUME SyncInit
    PROVE  ReconcilerInv
<1>1. /\ base \in [Peers -> Holdings] /\ stores = base
      /\ \A q \in Peers : /\ \A t \in Targets : targets[q][t] = [NewTarget EXCEPT !.status = "unknown"]
                          /\ entry_state[q] = {} /\ ~ payload[q] /\ chan[q] = << >> /\ todo[q] = << >>
                          /\ ~ failed[q]
  BY DEF SyncInit
<1>2. SyncTypes
  <2>1. [NewTarget EXCEPT !.status = "unknown"] \in TargetState
    BY DEF NewTarget, TargetState
  <2>2. targets \in [Peers -> [Targets -> TargetState]]
    BY <2>1 DEF SyncInit
  <2>3. base \in [Peers -> SUBSET Entry] /\ stores \in [Peers -> SUBSET Entry]
    BY <1>1, ReconcilerAssumption
  <2>4. /\ << >> \in Seq(Messages) /\ << >> \in Seq(Messages \cup Iterators)
        /\ Len(<< >>) = 0 /\ 0 <= ChannelCap /\ 0 \in 0..MaxWrites
    BY ReconcilerAssumption
  <2>5. \A q \in Peers : Len(chan[q]) <= ChannelCap
    BY <1>1, <2>4
  <2>6. chan \in [Peers -> Seq(Messages)] /\ todo \in [Peers -> Seq(Messages \cup Iterators)]
    BY <2>4 DEF SyncInit
  <2>7. /\ entry_state \in [Peers -> SUBSET Targets] /\ check \in [Peers -> SUBSET Targets]
        /\ payload \in [Peers -> BOOLEAN] /\ failed \in [Peers -> BOOLEAN]
        /\ all \in [Peers -> Nat]
    BY DEF SyncInit
  <2>8. writes \in [Peers -> 0..MaxWrites]
    BY <2>4 DEF SyncInit
  <2> QED
    BY <2>2, <2>3, <2>5, <2>6, <2>7, <2>8 DEF SyncTypes
<1>3. NeverFails
  BY <1>1 DEF NeverFails
<1>4. ASSUME NEW q \in Peers PROVE PeerInv(q)
  <2>1. Other(q) \in Peers
    BY TwoPeers
  <2>2. Pipeline(q) = << >> /\ Pipeline(Other(q)) = << >>
    <3>1. chan[q] = << >> /\ todo[q] = << >> /\ chan[Other(q)] = << >> /\ todo[Other(q)] = << >>
      BY <1>1, <2>1
    <3>2. Other(Other(q)) = q
      BY TwoPeers
    <3>3. << >> \o << >> = << >>
      OBVIOUS
    <3> QED
      BY <3>1, <3>2, <3>3 DEF Pipeline
  <2>3. << >> \in Seq(Items) /\ DOMAIN << >> = {}
    OBVIOUS
  <2>4. \A t \in Targets, x \in Peers :
           /\ targets[x][t].status = "unknown" /\ ~ targets[x][t].started
           /\ targets[x][t].uncovered = {} /\ targets[x][t].ours = 0 /\ targets[x][t].theirs = 0
           /\ targets[x][t] = [NewTarget EXCEPT !.status = "unknown"]
    BY <1>1 DEF NewTarget
  <2>5. \A t \in Targets : Wanting(<< >>, t) = 0
    BY <2>3, WantingNone
  <2>6. Framed(q)
    BY <1>1, <2>2, <2>3 DEF Framed, Leads, Mode
  <2>7. Numbered(q)
    <3>1. 0..(0 - 1) = {} /\ 0 = 0 + 0
      OBVIOUS
    <3> QED
      BY <2>1, <2>2, <2>3, <2>4, <2>5, <3>1 DEF Numbered
  <2>8. Uncovering(q)
    BY <2>2, <2>3 DEF Uncovering
  <2>9. Started(q)
    <3>1. "alfie" \in Peers /\ (q = "betty" => Other(q) = "alfie")
      BY TwoPeers
    <3> QED
      BY <2>1, <2>2, <2>3, <2>4, <3>1 DEF Started
  <2>10. Ended(q)
    BY <2>4 DEF Ended, Done
  <2>11. Stored(q)
    <3>1. base[q] \in Holdings /\ stores[q] = base[q]
      BY <1>1
    <3>2. IsFiniteSet(stores[q]) /\ Frontier(stores[q]) = stores[q]
      BY <3>1, ReconcilerAssumption
    <3>3. Dominates(stores[q], base[q])
      BY <3>1 DEF Dominates
    <3> QED
      BY <2>2, <2>3, <3>2, <3>3 DEF Stored
  <2>12. Delivered(q)
    <3>1. "alfie" \in Peers
      BY TwoPeers
    <3> QED
      BY <2>4, <3>1 DEF Delivered
  <2> QED
    BY <2>6, <2>7, <2>8, <2>9, <2>10, <2>11, <2>12 DEF PeerInv
<1> QED
  BY <1>2, <1>3, <1>4 DEF ReconcilerInv, PeerInv

(* Every step of either peer keeps the invariant.                          *)
LEMMA StepKeepsInv ==
    ASSUME ReconcilerInv, [SyncNext]_syncVars, ~ shifted'
    PROVE  ReconcilerInv'
<1>1. CASE UNCHANGED syncVars
  <2>1. /\ stores' = stores /\ base' = base /\ targets' = targets /\ entry_state' = entry_state
        /\ payload' = payload /\ chan' = chan /\ todo' = todo /\ check' = check /\ all' = all
        /\ failed' = failed /\ writes' = writes
    BY <1>1 DEF syncVars
  <2>2. SyncTypes' /\ NeverFails'
    BY <2>1 DEF ReconcilerInv, SyncTypes, NeverFails
  <2>3. \A q : Pipeline(q)' = Pipeline(q) /\ Kept(q)' = Kept(q) /\ Mode(q)' = Mode(q)
    BY <2>1 DEF Pipeline, Kept, Mode
  <2>4. ASSUME NEW q \in Peers PROVE PeerInv(q)'
    <3>1. PeerInv(q)
      BY DEF ReconcilerInv, PeerInv
    <3>2. Framed(q)' /\ Numbered(q)' /\ Uncovering(q)'
      BY <2>1, <2>3, <3>1 DEF PeerInv, Framed, Numbered, Uncovering
    <3>3. Started(q)' /\ Ended(q)'
      BY <2>1, <2>3, <3>1 DEF PeerInv, Started, Ended, Done
    <3>4. Stored(q)'
      BY <2>1, <2>3, <3>1 DEF PeerInv, Stored
    <3>5. Delivered(q)'
      BY <2>1, <2>3, <3>1 DEF PeerInv, Delivered
    <3> QED
      BY <3>2, <3>3, <3>4, <3>5 DEF PeerInv
  <2> QED
    BY <2>2, <2>4 DEF ReconcilerInv, PeerInv
<1>2. ASSUME NEW p \in Peers, NEW t \in Targets, InitTarget(p, t)
      PROVE  ReconcilerInv'
  <2>1. CASE p = "alfie"
    BY <1>2, <2>1, BeginsKeepsInv
  <2>2. CASE p = "betty"
    BY <1>2, <2>2, BettyBegins
  <2> QED
    BY <2>1, <2>2, TwoPeers
<1>3. ASSUME NEW p \in Peers, ReceiveFingerprint(p)
      PROVE  ReconcilerInv'
  <2>1. \E m, reply : Answers(p, m, reply)
    BY <1>3, FingerprintAnswers
  <2> QED
    BY <2>1, AnswerKeepsInv
<1>4. ASSUME NEW p \in Peers, ReceiveAnnounce(p)
      PROVE  ReconcilerInv'
  <2>1. \E m, reply : Answers(p, m, reply)
    BY <1>4, AnnouncementAnswers
  <2> QED
    BY <2>1, AnswerKeepsInv
<1>5. ASSUME NEW p \in Peers, ReceiveEntry(p)
      PROVE  ReconcilerInv'
  BY <1>5, EntryConsumed, ConsumeKeepsInv
<1>6. ASSUME NEW p \in Peers, ReceivePayload(p)
      PROVE  ReconcilerInv'
  BY <1>6, PayloadConsumed, ConsumeKeepsInv
<1>7. ASSUME NEW p \in Peers, ReceiveTerminate(p)
      PROVE  ReconcilerInv'
  BY <1>7, TerminateConsumed, ConsumeKeepsInv
<1>8. ASSUME NEW p \in Peers, Send(p)
      PROVE  ReconcilerInv'
  BY <1>8, SendKeepsInv
<1>9. ASSUME NEW p \in Peers, SendEntry(p)
      PROVE  ReconcilerInv'
  BY <1>9, SendEntryKeepsInv
<1>10. ASSUME NEW p \in Peers, CheckComplete(p)
      PROVE  ReconcilerInv'
  BY <1>10, CheckKeepsInv
<1>11. ASSUME NEW p \in Peers, LocalWrite(p)
      PROVE  ReconcilerInv'
  BY <1>11, WriteKeepsInv
<1>12. CASE SyncNext
  <2>1. PICK p \in Peers : Reconcile(p) \/ LocalWrite(p)
    BY <1>12 DEF SyncNext
  <2> QED
    BY <1>2, <1>3, <1>4, <1>5, <1>6, <1>7, <1>8, <1>9, <1>10, <1>11, <2>1 DEF Reconcile
<1> QED
  BY <1>1, <1>12

(* Once an ingest has found two entries to prune, it has.                  *)
LEMMA ShiftedStays ==
    ASSUME shifted, [SyncNext]_syncVars
    PROVE  shifted'
<1>1. ASSUME NEW p \in Peers, NEW e, IngestEntry(p, e) PROVE shifted'
  BY <1>1 DEF IngestEntry
<1>2. ASSUME NEW p \in Peers, Fail(p) PROVE shifted'
  BY <1>2 DEF Fail
<1>3. ASSUME NEW p \in Peers, Reconcile(p) PROVE shifted'
  <2>1. ASSUME NEW t \in Targets, InitTarget(p, t) PROVE shifted'
    BY <2>1 DEF InitTarget
  <2>2. ASSUME ReceiveFingerprint(p) PROVE shifted'
    BY <1>2, <2>2 DEF ReceiveFingerprint
  <2>3. ASSUME ReceiveAnnounce(p) PROVE shifted'
    BY <1>2, <2>3 DEF ReceiveAnnounce
  <2>4. ASSUME ReceiveEntry(p) PROVE shifted'
    BY <1>1, <1>2, <2>4 DEF ReceiveEntry
  <2>5. ASSUME ReceivePayload(p) PROVE shifted'
    BY <1>2, <2>5 DEF ReceivePayload
  <2>6. ASSUME ReceiveTerminate(p) PROVE shifted'
    BY <1>2, <2>6 DEF ReceiveTerminate
  <2>7. ASSUME Send(p) \/ SendEntry(p) \/ CheckComplete(p) PROVE shifted'
    BY <2>7 DEF Send, SendEntry, CheckComplete
  <2> QED
    BY <1>3, <2>1, <2>2, <2>3, <2>4, <2>5, <2>6, <2>7 DEF Reconcile
<1>4. ASSUME NEW p \in Peers, LocalWrite(p) PROVE shifted'
  BY <1>1, <1>4 DEF LocalWrite
<1>5. CASE UNCHANGED syncVars
  BY <1>5 DEF syncVars
<1> QED
  BY <1>3, <1>4, <1>5 DEF SyncNext

(* The invariant holds throughout a session, for every number of areas,    *)
(* every content of the stores, every channel capacity and every threshold *)
(* for the splitting of ranges, until an ingest finds two entries to prune.*)
THEOREM SyncInvariant == SyncSpec => [](~ shifted => ReconcilerInv)
<1>1. SyncInit => (~ shifted => ReconcilerInv)
  BY InitialInv
<1>2. (~ shifted => ReconcilerInv) /\ [SyncNext]_syncVars => (~ shifted => ReconcilerInv)'
  BY StepKeepsInv, ShiftedStays
<1> QED
  BY <1>1, <1>2, PTL DEF SyncSpec

(* The peers' range counters agree and no handler meets a message that its *)
(* state does not allow (received_message never returns an error).         *)
THEOREM PeersAgree == SyncSpec => []BooksAgree
<1>1. (~ shifted => ReconcilerInv) => BooksAgree
  BY DEF ReconcilerInv, BooksAgree, CountersAgree, Numbered
<1> QED
  BY <1>1, SyncInvariant, PTL

(* After complete_target, nothing about the area is on its way any more:   *)
(* no message waits for a target that the reconciler has forgotten.        *)
THEOREM NothingStraggles == SyncSpec => []NoStragglers
<1>1. (~ shifted => ReconcilerInv) => NoStragglers
  BY DEF ReconcilerInv, NoStragglers, Ended, HeaderOf
<1> QED
  BY <1>1, SyncInvariant, PTL

(* A peer that has completed a target holds what the other one held in the *)
(* area from the start, or something newer, whatever both wrote meanwhile. *)
THEOREM ReconciledIsComplete == SyncSpec => []ReconciledAreaIsComplete
<1>1. (~ shifted => ReconcilerInv) => ReconciledAreaIsComplete
  <2> SUFFICES ASSUME ReconcilerInv, NEW p \in Peers, NEW t \in Targets, Done(p, t)
               PROVE  Dominates(stores[p], get_entries(base[Other(p)] \cap stores[Other(p)],
                                                       AreaRange[t]))
    BY DEF ReconciledAreaIsComplete
  <2>1. /\ Other(p) \in Peers /\ SyncTypes /\ "alfie" \in Peers
        /\ p = "alfie" \/ Other(p) = "alfie"
        /\ Other(Other(p)) = p /\ Other("alfie") = "betty"
    BY TwoPeers DEF ReconcilerInv
  <2>2. /\ targets[p][t].started /\ targets[p][t].uncovered = {} /\ t \notin entry_state[p]
        /\ \A i \in DOMAIN Pipeline(p) : ~ HeaderOf(Pipeline(p)[i], t)
        /\ targets[p][t].status = "done"
    BY DEF ReconcilerInv, Ended, Done, is_complete
  <2>3. PICK s, w : s = Pipeline(p) /\ w = Pipeline(Other(p)) /\ s \in Seq(Items) /\ w \in Seq(Items)
    BY <2>1, PeerTypes
  <2>4. targets["alfie"][t].status # "unknown"
    <3>1. CASE p = "alfie"
      BY <2>2, <3>1
    <3>2. CASE Other(p) = "alfie"
      BY <2>1, <2>2, <3>2 DEF ReconcilerInv, Started
    <3> QED
      BY <2>1, <3>1, <3>2
  <2>5. Wanting(w, t) = 0
    <3>1. /\ targets[p][t].ours = targets[Other(p)][t].theirs + Wanting(w, t)
          /\ targets[Other(p)][t].theirs..(targets[p][t].ours - 1) \subseteq targets[p][t].uncovered
      BY <2>3 DEF ReconcilerInv, Numbered
    <3>2. targets[Other(p)][t].theirs \in Nat /\ Wanting(w, t) \in Nat
      BY <2>1, <2>3, PeerTypes, WaitingIsFinite
    <3>3. PICK c, n \in Nat : c = targets[Other(p)][t].theirs /\ n = Wanting(w, t)
      BY <3>2
    <3>4. c..(c + n - 1) \subseteq {}
      BY <2>2, <3>1, <3>3
    <3>5. n = 0
      BY <3>4
    <3> QED
      BY <3>3, <3>5
  <2>6. ASSUME NEW e \in get_entries(Kept(Other(p)), AreaRange[t])
        PROVE  Dominates(stores[p], {e})
    <3>1. \/ Dominates(stores[p], {e})
          \/ Offered(s, t, e)
          \/ Asked(w, t, e)
          \/ Coming(s, entry_state[p], t, e)
      BY <2>3, <2>4 DEF ReconcilerInv, Delivered
    <3>2. ~ Offered(s, t, e)
      BY <2>2, <2>3 DEF Offered, HeaderOf, IsHeader
    <3>3. ~ Asked(w, t, e)
      BY <2>3, <2>5, WantingNone DEF Asked
    <3>4. ~ Coming(s, entry_state[p], t, e)
      <4>1. \A i \in DOMAIN s : \A j \in 0..(i - 1) : j = 0 \/ j \in DOMAIN s
        BY <2>3
      <4> QED
        BY <2>2, <2>3, <4>1 DEF Coming
    <3> QED
      BY <3>1, <3>2, <3>3, <3>4
  <2> QED
    BY <2>6 DEF Dominates, Kept
<1> QED
  BY <1>1, SyncInvariant, PTL

=============================================================================
