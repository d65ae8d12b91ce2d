-------------------------- MODULE SessionLoops_proofs --------------------------
(***************************************************************************)
(* What the loops of a session owe to the intents and to the areas they    *)
(* ask for, for any intents, interests, authorisations and areas of the    *)
(* peer, and any size of the inboxes.                                      *)
(*                                                                         *)
(* Each invariant rests on the ones before it.  SessionTypes says what a   *)
(* message may be, given what the finder knows and what the reconciler has *)
(* reported; Places where an intent is; AreasInv how the areas an intent   *)
(* waits for and the reported ones are related; FinderInv that no overlap  *)
(* is forgotten.                                                           *)
(***************************************************************************)
EXTENDS SessionLoops, WellFoundedInduction, SequenceTheorems, FiniteSetTheorems, TLAPS

-----------------------------------------------------------------------------
(* Induction and sequences.                                                *)

(* A set of naturals that is not empty has a least element.                *)
LEMMA LeastNatural ==
    ASSUME NEW T, T \subseteq Nat, T # {}
    PROVE  \E x \in T : \A y \in T : x <= y
<1>1. PICK x \in T : \A y \in T : ~ (<< y, x >> \in OpToRel(<, Nat))
  BY NatLessThanWellFounded, WFMin
<1>2. ASSUME NEW y \in T PROVE x <= y
  <2>1. x \in Nat /\ y \in Nat
    OBVIOUS
  <2>2. ~ (y < x)
    BY <1>1, <2>1 DEF OpToRel
  <2> QED
    BY <2>1, <2>2
<1> QED
  BY <1>2

(* Induction over the naturals, for a set of them.                         *)
LEMMA NatSetInduction ==
    ASSUME NEW S, 0 \in S, \A k \in Nat : k \in S => k + 1 \in S
    PROVE  Nat \subseteq S
<1> SUFFICES ASSUME ~ (Nat \subseteq S) PROVE FALSE
  OBVIOUS
<1> DEFINE T == Nat \ S
<1>1. PICK x \in T : \A y \in T : x <= y
  <2>1. T \subseteq Nat /\ T # {}
    OBVIOUS
  <2> HIDE DEF T
  <2> QED
    BY <2>1, LeastNatural
<1>2. x \in Nat /\ x # 0 /\ x \notin S
  OBVIOUS
<1>3. x - 1 \in Nat /\ ~ (x <= x - 1) /\ (x - 1) + 1 = x
  BY <1>2
<1>4. x - 1 \in S
  BY <1>1, <1>3
<1> QED
  BY <1>2, <1>3, <1>4

(* What sequences hold.                                                    *)
LEMMA RangeConcat ==
    ASSUME NEW T, NEW s \in Seq(T), NEW t \in Seq(T)
    PROVE  /\ s \o t \in Seq(T)
           /\ Range(s) \subseteq Range(s \o t)
           /\ Range(t) \subseteq Range(s \o t)
<1>1. \A i \in 1..Len(s) : i \in 1..Len(s \o t) /\ (s \o t)[i] = s[i]
  OBVIOUS
<1>2. \A i \in 1..Len(t) : i + Len(s) \in 1..Len(s \o t) /\ (s \o t)[i + Len(s)] = t[i]
  OBVIOUS
<1>3. /\ s \o t \in Seq(T) /\ DOMAIN s = 1..Len(s) /\ DOMAIN t = 1..Len(t)
      /\ DOMAIN (s \o t) = 1..Len(s \o t)
  OBVIOUS
<1> QED
  BY <1>1, <1>2, <1>3 DEF Range

LEMMA RangeAppend ==
    ASSUME NEW T, NEW s \in Seq(T), NEW e \in T
    PROVE  /\ Append(s, e) \in Seq(T)
           /\ Len(Append(s, e)) = Len(s) + 1
           /\ Range(Append(s, e)) = Range(s) \cup {e}
<1>1. /\ Append(s, e) \in Seq(T) /\ Len(Append(s, e)) = Len(s) + 1
      /\ Append(s, e)[Len(s) + 1] = e
      /\ \A i \in 1..Len(s) : Append(s, e)[i] = s[i]
  OBVIOUS
<1>2. \A i \in 1..(Len(s) + 1) : i \in 1..Len(s) \/ i = Len(s) + 1
  OBVIOUS
<1>3. 1..Len(s) \subseteq 1..(Len(s) + 1) /\ Len(s) + 1 \in 1..(Len(s) + 1)
  OBVIOUS
<1>4. DOMAIN s = 1..Len(s) /\ DOMAIN Append(s, e) = 1..(Len(s) + 1)
  OBVIOUS
<1>5. Range(Append(s, e)) \subseteq Range(s) \cup {e}
  BY <1>1, <1>2, <1>4 DEF Range
<1>6. Range(s) \cup {e} \subseteq Range(Append(s, e))
  BY <1>1, <1>3, <1>4 DEF Range
<1> QED
  BY <1>1, <1>5, <1>6

LEMMA RangeTail ==
    ASSUME NEW T, NEW s \in Seq(T), s # << >>
    PROVE  /\ Head(s) \in T /\ Head(s) = s[1] /\ 1 \in DOMAIN s
           /\ Tail(s) \in Seq(T) /\ Len(Tail(s)) = Len(s) - 1
           /\ \A i \in DOMAIN Tail(s) : i + 1 \in DOMAIN s /\ i + 1 # 1 /\ Tail(s)[i] = s[i + 1]
           /\ Range(s) = {Head(s)} \cup Range(Tail(s))
<1>1. Len(s) \in Nat \ {0} /\ DOMAIN s = 1..Len(s)
  OBVIOUS
<1>2. /\ Head(s) \in T /\ Head(s) = s[1] /\ 1 \in DOMAIN s
      /\ Tail(s) \in Seq(T) /\ Len(Tail(s)) = Len(s) - 1 /\ DOMAIN Tail(s) = 1..(Len(s) - 1)
      /\ \A i \in 1..(Len(s) - 1) : i + 1 \in 1..Len(s) /\ i + 1 # 1 /\ Tail(s)[i] = s[i + 1]
  BY <1>1
<1>3. \A j \in 1..Len(s) : j = 1 \/ (j - 1 \in 1..(Len(s) - 1) /\ (j - 1) + 1 = j)
  BY <1>1
<1>4. Range(s) \subseteq {Head(s)} \cup Range(Tail(s))
  <2> SUFFICES ASSUME NEW j \in 1..Len(s) PROVE s[j] = s[1] \/ s[j] \in Range(Tail(s))
    BY <1>1, <1>2 DEF Range
  <2>1. CASE j = 1
    BY <2>1
  <2>2. CASE j - 1 \in 1..(Len(s) - 1) /\ (j - 1) + 1 = j
    <3>1. Tail(s)[j - 1] = s[j] /\ j - 1 \in DOMAIN Tail(s)
      BY <1>2, <2>2
    <3> QED
      BY <3>1 DEF Range
  <2> QED
    BY <1>3, <2>1, <2>2
<1>5. {Head(s)} \cup Range(Tail(s)) \subseteq Range(s)
  BY <1>1, <1>2 DEF Range
<1> QED
  BY <1>1, <1>2, <1>4, <1>5

(* An enumeration of a finite set holds all of it.                         *)
LEMMA EnumerationHolds ==
    ASSUME NEW S, IsFiniteSet(S), NEW s \in SetToSeqs(S)
    PROVE  s \in Seq(S) /\ Range(s) = S
<1> DEFINE n == Cardinality(S)
<1>1. n \in Nat
  BY FS_CardinalityType
<1>2. s \in [1..n -> S] /\ \A i, j \in 1..n : i # j => s[i] # s[j]
  BY DEF SetToSeqs
<1>3. s \in Injection(1..n, S)
  BY <1>2 DEF Injection, IsInjective
<1>4. Cardinality(1..n) = n
  <2>1. Cardinality(1..n) = IF 1 > n THEN 0 ELSE n - 1 + 1
    BY <1>1, FS_Interval
  <2> QED
    BY <1>1, <2>1
<1>5. s \in Surjection(1..n, S)
  BY <1>3, <1>4, FS_Injection
<1>6. s \in Seq(S)
  BY <1>1, <1>2
<1> QED
  BY <1>2, <1>5, <1>6 DEF Surjection, Range

(* What FlattenSeq folds.                                                   *)
Joined(ss, f) == f = [i \in 1..Len(ss) |-> IF i = 1 THEN ss[i] ELSE f[i - 1] \o ss[i]]

(* FlattenSeq is what its recursion says.                                  *)
LEMMA FlattenSteps ==
    ASSUME NEW ss, Len(ss) \in Nat, Len(ss) # 0
    PROVE  \E f : Joined(ss, f) /\ FlattenSeq(ss) = f[Len(ss)]
<1> DEFINE Steps(f, n) == f = [i \in 1..n |-> IF i = 1 THEN ss[i] ELSE f[i - 1] \o ss[i]]
           S == { n \in Nat : \E f : Steps(f, n) }
<1>1. 0 \in S
  <2> DEFINE f == [i \in 1..0 |-> ss[i]]
  <2>1. Steps(f, 0)
    OBVIOUS
  <2> QED
    BY <2>1
<1>2. ASSUME NEW n \in Nat, n \in S PROVE n + 1 \in S
  <2>1. PICK f : Steps(f, n)
    BY <1>2
  <2> DEFINE g == [i \in 1..(n + 1) |-> IF i <= n THEN f[i]
                                        ELSE IF i = 1 THEN ss[i] ELSE f[n] \o ss[i]]
  <2>2. ASSUME NEW i \in 1..(n + 1)
        PROVE  g[i] = IF i = 1 THEN ss[i] ELSE g[i - 1] \o ss[i]
    <3>1. CASE i <= n
      <4>1. i \in 1..n /\ g[i] = f[i] /\ (i # 1 => g[i - 1] = f[i - 1])
        BY <3>1
      <4>2. f[i] = IF i = 1 THEN ss[i] ELSE f[i - 1] \o ss[i]
        BY <2>1, <4>1
      <4> QED
        BY <4>1, <4>2
    <3>2. CASE i = n + 1
      <4>1. i # 1 => g[i - 1] = f[n]
        BY <3>2
      <4> QED
        BY <3>2, <4>1
    <3> QED
      BY <3>1, <3>2
  <2>3. Steps(g, n + 1)
    BY <2>2
  <2>4. \E h : Steps(h, n + 1)
    <3> HIDE DEF Steps, g
    <3> QED
      BY <2>3
  <2> HIDE DEF Steps
  <2> QED
    BY <2>4
<1>3. Len(ss) \in S
  <2> HIDE DEF S
  <2> QED
    BY <1>1, <1>2, NatSetInduction
<1>4. \E f : Steps(f, Len(ss))
  BY <1>3
<1>5. PICK f : f = CHOOSE flatten : Steps(flatten, Len(ss))
  OBVIOUS
<1>6. FlattenSeq(ss) = f[Len(ss)]
  BY <1>5 DEF FlattenSeq
<1>7. Steps(f, Len(ss))
  <2> HIDE DEF Steps
  <2> QED
    BY <1>4, <1>5
<1> QED
  BY <1>6, <1>7 DEF Joined

(* Sequences joined are a sequence, and hold what each of them holds.      *)
LEMMA FlattenHolds ==
    ASSUME NEW T, NEW ss, Len(ss) \in Nat, ss = << >> \/ Len(ss) # 0,
           \A i \in 1..Len(ss) : ss[i] \in Seq(T)
    PROVE  /\ FlattenSeq(ss) \in Seq(T)
           /\ \A i \in 1..Len(ss) : Range(ss[i]) \subseteq Range(FlattenSeq(ss))
<1>1. CASE ss = << >>
  <2>1. Len(ss) = 0
    BY <1>1
  <2>2. FlattenSeq(ss) = ss
    BY <2>1 DEF FlattenSeq
  <2>3. 1..Len(ss) = {}
    BY <2>1
  <2> QED
    BY <1>1, <2>2, <2>3, EmptySeq
<1>2. CASE Len(ss) # 0
  <2>1. PICK f : Joined(ss, f) /\ FlattenSeq(ss) = f[Len(ss)]
    BY <1>2, FlattenSteps
  <2>2. \A i \in 1..Len(ss) : f[i] = IF i = 1 THEN ss[i] ELSE f[i - 1] \o ss[i]
    BY <2>1 DEF Joined
  <2> DEFINE Holds(k) == /\ f[k] \in Seq(T)
                         /\ \A i \in 1..k : Range(ss[i]) \subseteq Range(f[k])
             S == { k \in Nat : k + 1 <= Len(ss) => Holds(k + 1) }
  <2>3. 0 \in S
    <3>1. 1 \in 1..Len(ss) /\ \A i \in 1..1 : i = 1
      BY <1>2
    <3>2. f[1] = ss[1]
      BY <2>2, <3>1
    <3> QED
      BY <3>1, <3>2
  <2>4. ASSUME NEW k \in Nat, k \in S PROVE k + 1 \in S
    <3> SUFFICES ASSUME (k + 1) + 1 <= Len(ss) PROVE Holds((k + 1) + 1)
      OBVIOUS
    <3>1. (k + 1) + 1 \in 1..Len(ss) /\ (k + 1) + 1 # 1 /\ ((k + 1) + 1) - 1 = k + 1 /\ k + 1 <= Len(ss)
      OBVIOUS
    <3>2. Holds(k + 1) /\ ss[(k + 1) + 1] \in Seq(T)
      BY <2>4, <3>1
    <3>3. f[(k + 1) + 1] = f[k + 1] \o ss[(k + 1) + 1]
      BY <2>2, <3>1
    <3>4. /\ f[(k + 1) + 1] \in Seq(T)
          /\ Range(f[k + 1]) \subseteq Range(f[(k + 1) + 1])
          /\ Range(ss[(k + 1) + 1]) \subseteq Range(f[(k + 1) + 1])
      BY <3>2, <3>3, RangeConcat
    <3>5. \A i \in 1..((k + 1) + 1) : i \in 1..(k + 1) \/ i = (k + 1) + 1
      OBVIOUS
    <3> QED
      BY <3>2, <3>4, <3>5
  <2>5. Len(ss) - 1 \in S
    <3>1. Nat \subseteq S
      <4> HIDE DEF S
      <4> QED
        BY <2>3, <2>4, NatSetInduction
    <3>2. Len(ss) - 1 \in Nat
      BY <1>2
    <3> HIDE DEF S
    <3> QED
      BY <3>1, <3>2
  <2>6. Holds(Len(ss))
    <3>1. (Len(ss) - 1) + 1 = Len(ss) /\ Len(ss) <= Len(ss)
      BY <1>2
    <3> HIDE DEF Holds
    <3> QED
      BY <2>5, <3>1
  <2> QED
    BY <2>1, <2>6
<1> QED
  BY <1>1, <1>2

-----------------------------------------------------------------------------
(* What the messages carry.                                                *)

AllInterests == UNION { Interests[i] \cup Extra[i] : i \in Intents }
AllAuths     == { x[1] : x \in AllInterests }
Points       == UNION ({ Area(x) : x \in AllInterests } \cup TheirAreas)
Areas        == SUBSET Points
Pairs        == AllInterests \X TheirAreas

Arguments == Intents \cup (SUBSET AllInterests) \cup AllAuths \cup Areas \cup Pairs
Kinds == {"SubmitIntent", "CapabilityIntersection", "InterestIntersection", "Reconciled",
          "AddInterests", "PaiIntersection", "ReceivedValidatedAoi", "AoiIntersection",
          "SubmitAuthorisation", "Established", "ReceivedReadCapForIntersection",
          "ReconciledAll"}

(* The authorisations the finder has interests for.                        *)
KnownAuths(f) == { x[1] : x \in f.interests }

(* A message names authorisations that the finder knows, and areas that    *)
(* were reported.                                                          *)
Honest(m, known, reported) ==
    /\ m.kind = "SubmitIntent" => m.to = "intents" /\ m.arg \in Intents
    /\ m.kind = "InterestIntersection" => m.arg \in Areas
    /\ m.kind = "Reconciled" => m.arg \in Areas /\ m.arg \in reported
    /\ m.kind = "AddInterests" => m.arg \in SUBSET AllInterests /\ IsFiniteSet(m.arg)
    /\ m.kind \in {"PaiIntersection", "SubmitAuthorisation"} => m.arg \in AllAuths /\ m.arg \in known
    /\ m.kind = "ReceivedValidatedAoi" => m.arg \in TheirAreas
    /\ m.kind = "AoiIntersection" => m.to = "reconciler" /\ m.arg \in Pairs
    /\ m.to = "intents" => m.kind \in {"SubmitIntent", "CapabilityIntersection",
                                       "InterestIntersection", "Reconciled"}

Message(known, reported) ==
    { m \in [to: Inboxes \cup {"run"}, kind: Kinds, arg: Arguments] : Honest(m, known, reported) }

(* Of the present state.                                                   *)
Messages == Message(KnownAuths(finder), targets.reported)

(* What waits in an inbox; what a loop has to send: only the update loop   *)
(* hands over intents.                                                     *)
Received(b, M) == { m \in M : m.to = b }
Sendable(l, M) == { m \in M : m.kind = "SubmitIntent" => l = "update" }

Wired(ib, td, M) ==
    /\ DOMAIN ib = Inboxes /\ \A b \in Inboxes : ib[b] \in Seq(Received(b, M))
    /\ DOMAIN td = Loops /\ \A l \in Loops : td[l] \in Seq(SUBSET Sendable(l, M))
    /\ ib = [b \in Inboxes |-> ib[b]] /\ td = [l \in Loops |-> td[l]]

SentUpdates == [to: Intents, kind: {"AddInterests"}, arg: AllInterests]
                   \cup [to: Intents, kind: {"Close"}, arg: {{}}]
Outcomes == {"unsubmitted", "none", "complete", "cancelled", "aborted", "returned", "dropped",
             "lost"}

AppTypes ==
    /\ updates \in Seq(Intents \cup {Abort})
    /\ handle \in [Intents -> [updates: BOOLEAN, events: BOOLEAN, sent: Seq(SentUpdates)]]
    /\ outcome \in [Intents -> Outcomes]

Dispatchers ==
    [pending: Seq(Intents), intents: SUBSET Intents, interests: [Intents -> SUBSET Areas],
     watched: SUBSET Intents, complete_areas: SUBSET Areas, asked: [Intents -> SUBSET Areas]]

DispatcherTypes ==
    /\ dispatcher \in Dispatchers
    /\ dispatcher.watched \subseteq dispatcher.intents
    /\ dispatcher.complete_areas \subseteq targets.reported

EngineTypes ==
    /\ finder \in [interests: SUBSET AllInterests, bound: SUBSET AllAuths,
                   ours: SUBSET AllInterests, theirs: SUBSET TheirAreas]
    /\ IsFiniteSet(finder.interests) /\ IsFiniteSet(finder.theirs)
    /\ finder.bound \subseteq KnownAuths(finder)
    /\ finder.ours \subseteq finder.interests
    /\ pai \in [established: BOOLEAN, submitted: SUBSET AllAuths, found: SUBSET AllAuths]
    /\ pai.submitted \subseteq KnownAuths(finder)
    /\ targets \in [open: SUBSET Pairs, given: SUBSET Pairs, reported: SUBSET Areas]
    /\ peer \in [cap: BOOLEAN, areas: SUBSET TheirAreas, waiting: SUBSET TheirAreas,
                 reveal: BOOLEAN, closed: BOOLEAN]

WireTypes ==
    /\ Wired(inbox, todo, Messages)
    /\ \A b \in Inboxes : Len(inbox[b]) <= InboxCap
    /\ closed \subseteq Inboxes \cup {"updates"}

EndTypes ==
    /\ done \subseteq Loops
    /\ cancelled \subseteq {"session", "inboxes", "abort"}
    /\ result \in {"running", "ok", "error"}

SessionTypes == AppTypes /\ DispatcherTypes /\ EngineTypes /\ WireTypes /\ EndTypes

-----------------------------------------------------------------------------
(* Sending and receiving.                                                  *)

(* The sends a loop has left after one of them.                            *)
LEMMA SendLeaves ==
    ASSUME NEW M, NEW g \in Seq(SUBSET M), g # << >>, NEW m \in Head(g)
    PROVE  /\ Without(g, m) \in Seq(SUBSET M)
           /\ m \in UNION Range(g)
           /\ UNION Range(Without(g, m)) \subseteq UNION Range(g)
           /\ UNION Range(g) \subseteq {m} \cup UNION Range(Without(g, m))
<1> DEFINE h == Without(g, m)
<1>0. h = IF Head(g) = {m} THEN Tail(g) ELSE [g EXCEPT ![1] = g[1] \ {m}]
  BY DEF Without
<1> HIDE DEF h
<1>1. /\ Head(g) \in SUBSET M /\ Head(g) = g[1] /\ 1 \in DOMAIN g
      /\ Tail(g) \in Seq(SUBSET M) /\ Range(g) = {Head(g)} \cup Range(Tail(g))
  <2> DEFINE T == SUBSET M
  <2>1. g \in Seq(T)
    OBVIOUS
  <2> HIDE DEF T
  <2>2. /\ Head(g) \in T /\ Head(g) = g[1] /\ 1 \in DOMAIN g
        /\ Tail(g) \in Seq(T) /\ Range(g) = {Head(g)} \cup Range(Tail(g))
    BY <2>1, RangeTail
  <2> QED
    BY <2>2 DEF T
<1>2. CASE Head(g) = {m}
  <2> DEFINE R == Range(Tail(g))
  <2>1. Range(g) = {{m}} \cup R /\ h = Tail(g)
    BY <1>1, <1>2, <1>0
  <2> HIDE DEF R
  <2>2. UNION Range(g) = {m} \cup UNION R
    <3>1. UNION ({{m}} \cup R) = {m} \cup UNION R
      OBVIOUS
    <3> QED
      BY <2>1, <3>1
  <2>3. UNION Range(h) = UNION R
    BY <2>1 DEF R
  <2>4. h \in Seq(SUBSET M)
    BY <1>1, <2>1
  <2>5. UNION Range(g) = {m} \cup UNION Range(h)
    BY <2>2, <2>3
  <2> QED
    BY <2>4, <2>5, Zenon DEF h
<1>3. CASE Head(g) # {m}
  <2>1. h = [g EXCEPT ![1] = g[1] \ {m}]
    BY <1>3, <1>0
  <2>2. h \in Seq(SUBSET M) /\ DOMAIN h = DOMAIN g
    <3> DEFINE T == SUBSET M
    <3>1. g \in Seq(T) /\ g[1] \ {m} \in T
      BY <1>1
    <3> HIDE DEF T
    <3>2. h \in Seq(T)
      BY <1>1, <2>1, <3>1, ExceptSeq, LenProperties
    <3> QED
      BY <2>1, <3>2 DEF T
  <2>3. \A k \in DOMAIN g : h[k] = IF k = 1 THEN g[1] \ {m} ELSE g[k]
    BY <2>1
  <2>4. UNION Range(h) \subseteq UNION Range(g)
    BY <1>1, <2>2, <2>3 DEF Range
  <2>5. UNION Range(g) \subseteq {m} \cup UNION Range(h)
    <3>1. ASSUME NEW n \in UNION Range(g), n # m PROVE n \in UNION Range(h)
      <4>1. PICK k \in DOMAIN g : n \in g[k]
        BY DEF Range
      <4>2. n \in h[k] /\ k \in DOMAIN h
        BY <2>2, <2>3, <3>1, <4>1
      <4> QED
        BY <4>2 DEF Range
    <3> QED
      BY <3>1, Zenon
  <2> QED
    BY <1>1, <2>2, <2>4, <2>5, Zenon DEF h
<1> QED
  BY <1>2, <1>3

(* A larger set of messages.                                               *)
LEMMA WiredMore ==
    ASSUME NEW ib, NEW td, NEW M, NEW N, Wired(ib, td, M), M \subseteq N
    PROVE  Wired(ib, td, N)
<1>1. ASSUME NEW b \in Inboxes PROVE ib[b] \in Seq(Received(b, N))
  <2>1. Received(b, M) \subseteq Received(b, N) /\ ib[b] \in Seq(Received(b, M))
    BY DEF Received, Wired
  <2> HIDE DEF Received
  <2> QED
    BY <2>1, SeqMonotonic
<1>2. ASSUME NEW l \in Loops PROVE td[l] \in Seq(SUBSET Sendable(l, N))
  <2> DEFINE S == SUBSET Sendable(l, M)
             T == SUBSET Sendable(l, N)
  <2>1. S \subseteq T /\ td[l] \in Seq(S)
    BY DEF Sendable, Wired
  <2> HIDE DEF S, T
  <2>2. td[l] \in Seq(T)
    BY <2>1, SeqMonotonic
  <2> QED
    BY <2>2 DEF T
<1> QED
  BY <1>1, <1>2 DEF Wired

(* A loop has new sends to make.                                           *)
LEMMA WiredTodo ==
    ASSUME NEW ib, NEW td, NEW M, Wired(ib, td, M), NEW l \in Loops,
           NEW out \in Seq(SUBSET Sendable(l, M))
    PROVE  Wired(ib, [td EXCEPT ![l] = out], M)
BY DEF Wired

(* A loop takes an input.                                                  *)
LEMMA WiredTake ==
    ASSUME NEW ib, NEW td, NEW M, Wired(ib, td, M), NEW b \in Inboxes, ib[b] # << >>
    PROVE  /\ Wired([ib EXCEPT ![b] = Tail(@)], td, M)
           /\ (\A c \in Inboxes : Len(ib[c]) <= InboxCap) =>
                 \A c \in Inboxes : Len([ib EXCEPT ![b] = Tail(@)][c]) <= InboxCap
           /\ Head(ib[b]) \in M /\ Head(ib[b]).to = b
<1>1. ib[b] \in Seq(Received(b, M))
  BY DEF Wired
<1>2. /\ Head(ib[b]) \in Received(b, M) /\ Tail(ib[b]) \in Seq(Received(b, M))
      /\ Len(Tail(ib[b])) = Len(ib[b]) - 1 /\ Len(ib[b]) \in Nat
  <2> HIDE DEF Received
  <2> QED
    BY <1>1, RangeTail
<1>3. Wired([ib EXCEPT ![b] = Tail(@)], td, M)
  BY <1>2 DEF Wired
<1>4. ASSUME \A c \in Inboxes : Len(ib[c]) <= InboxCap, NEW c \in Inboxes
      PROVE  Len([ib EXCEPT ![b] = Tail(@)][c]) <= InboxCap
  <2>1. DOMAIN ib = Inboxes
    BY DEF Wired
  <2>2. CASE c = b
    BY <1>2, <1>4, <2>1, <2>2, SessionAssumption
  <2>3. CASE c # b
    BY <1>4, <2>1, <2>3
  <2> QED
    BY <2>2, <2>3
<1> QED
  BY <1>2, <1>3, <1>4 DEF Received

(* Areas.                                                                  *)
LEMMA AreaFacts ==
    /\ \A x \in AllInterests : Area(x) \in Areas /\ x[1] \in AllAuths
    /\ \A t \in TheirAreas : t \in Areas
    /\ \A q \in Pairs : Area(q[1]) \cap q[2] \in Areas
    /\ \A i \in Intents : Interests[i] \subseteq AllInterests /\ Extra[i] \subseteq AllInterests
    /\ {} \in Areas
<1>1. \A x \in AllInterests : Area(x) \in Areas
  BY DEF Areas, Points
<1>2. \A x \in AllInterests : x[1] \in AllAuths
  BY DEF AllAuths
<1>3. \A t \in TheirAreas : t \in Areas
  BY DEF Areas, Points
<1>4. \A q \in Pairs : Area(q[1]) \cap q[2] \in Areas
  <2> SUFFICES ASSUME NEW q \in Pairs PROVE Area(q[1]) \cap q[2] \in Areas
    OBVIOUS
  <2>1. q[1] \in AllInterests
    BY DEF Pairs
  <2>2. Area(q[1]) \in SUBSET Points
    BY <1>1, <2>1 DEF Areas
  <2> HIDE DEF Area
  <2> QED
    BY <2>2 DEF Areas
<1>5. \A i \in Intents : Interests[i] \subseteq AllInterests /\ Extra[i] \subseteq AllInterests
  BY DEF AllInterests
<1> QED
  BY <1>1, <1>2, <1>3, <1>4, <1>5 DEF Areas

(* The messages the loops send.                                            *)
LEMMA MessageFacts ==
    ASSUME NEW known, NEW reported
    PROVE  LET M == Message(known, reported) IN
           /\ \A i \in Intents : Msg("intents", "SubmitIntent", i) \in M
           /\ \A xs \in SUBSET AllInterests : IsFiniteSet(xs) =>
                 Msg("intersection", "AddInterests", xs) \in M
           /\ \A auth \in AllAuths : auth \in known =>
                 /\ Msg("pai", "SubmitAuthorisation", auth) \in M
                 /\ Msg("intersection", "PaiIntersection", auth) \in M
           /\ \A q \in Pairs :
                 /\ Msg("reconciler", "AoiIntersection", q) \in M
                 /\ Msg("intents", "InterestIntersection", Area(q[1]) \cap q[2]) \in M
           /\ \A area \in Areas : area \in reported => Msg("intents", "Reconciled", area) \in M
           /\ \A t \in TheirAreas : Msg("intersection", "ReceivedValidatedAoi", t) \in M
           /\ Msg("intents", "CapabilityIntersection", {}) \in M
           /\ Msg("run", "ReconciledAll", {}) \in M
           /\ Msg("pai", "Established", {}) \in M
           /\ Msg("pai", "ReceivedReadCapForIntersection", {}) \in M
<1> DEFINE M == Message(known, reported)
<1> USE DEF Message, Honest, Msg, Kinds, Inboxes
<1>1. /\ Intents \subseteq Arguments /\ (SUBSET AllInterests) \subseteq Arguments
      /\ AllAuths \subseteq Arguments /\ Areas \subseteq Arguments /\ Pairs \subseteq Arguments
  BY DEF Arguments
<1>2. \A i \in Intents : Msg("intents", "SubmitIntent", i) \in M
  BY <1>1
<1>3. \A xs \in SUBSET AllInterests : IsFiniteSet(xs) => Msg("intersection", "AddInterests", xs) \in M
  BY <1>1
<1>4. \A auth \in AllAuths : auth \in known => /\ Msg("pai", "SubmitAuthorisation", auth) \in M
                                           /\ Msg("intersection", "PaiIntersection", auth) \in M
  BY <1>1
<1>5. \A q \in Pairs : Msg("reconciler", "AoiIntersection", q) \in M
  BY <1>1
<1>6. \A area \in Areas : /\ area \in reported => Msg("intents", "Reconciled", area) \in M
                         /\ Msg("intents", "InterestIntersection", area) \in M
  BY <1>1
<1>7. \A t \in TheirAreas : Msg("intersection", "ReceivedValidatedAoi", t) \in M
  BY <1>1, AreaFacts
<1>8. /\ Msg("intents", "CapabilityIntersection", {}) \in M
      /\ Msg("run", "ReconciledAll", {}) \in M
      /\ Msg("pai", "Established", {}) \in M
      /\ Msg("pai", "ReceivedReadCapForIntersection", {}) \in M
  BY <1>1, AreaFacts
<1> HIDE DEF M, Message, Honest, Msg, Kinds, Inboxes
<1>9. \A q \in Pairs : Msg("intents", "InterestIntersection", Area(q[1]) \cap q[2]) \in M
  BY <1>6, AreaFacts
<1> QED
  BY <1>2, <1>3, <1>4, <1>5, <1>6, <1>7, <1>8, <1>9 DEF M

(* More is known, more was reported.                                       *)
LEMMA MoreMessages ==
    ASSUME NEW k1, NEW k2, NEW r1, NEW r2, k1 \subseteq k2, r1 \subseteq r2
    PROVE  Message(k1, r1) \subseteq Message(k2, r2)
BY DEF Message, Honest

(* One group of sends, for a loop that does not hand over intents.         *)
LEMMA OneGroup ==
    ASSUME NEW M, NEW l, NEW G, G \subseteq M, \A m \in G : m.kind # "SubmitIntent"
    PROVE  << G >> \in Seq(SUBSET Sendable(l, M)) /\ << >> \in Seq(SUBSET Sendable(l, M))
<1>1. G \in SUBSET Sendable(l, M)
  BY DEF Sendable
<1> QED
  BY <1>1

(* One awaited send.                                                       *)
LEMMA SendTypes ==
    ASSUME SessionTypes, NEW l \in Loops, Send(l)
    PROVE  SessionTypes'
<1>1. AppTypes' /\ DispatcherTypes' /\ EngineTypes' /\ EndTypes' /\ Messages' = Messages
  BY DEF SessionTypes, Send, app, parts, ending, AppTypes, DispatcherTypes, EngineTypes, EndTypes, Messages
<1>2. todo[l] \in Seq(SUBSET Sendable(l, Messages)) /\ todo[l] # << >>
  BY DEF SessionTypes, WireTypes, Wired, Send
<1>3. PICK m \in Head(todo[l]) :
          /\ m.to \in Inboxes
          /\ m.to \in closed \/ Len(inbox[m.to]) < InboxCap
          /\ inbox' = IF m.to \in closed THEN inbox
                      ELSE [inbox EXCEPT ![m.to] = Append(@, m)]
          /\ todo' = [todo EXCEPT ![l] = Without(@, m)]
  BY DEF Send
<1> DEFINE h == Without(todo[l], m)
<1>4. h \in Seq(SUBSET Sendable(l, Messages)) /\ m \in UNION Range(todo[l])
  BY <1>2, SendLeaves
<1>5. m \in Messages
  <2>1. Head(todo[l]) \in SUBSET Sendable(l, Messages)
    BY <1>2
  <2> QED
    BY <2>1 DEF Sendable
<1>6. todo' = [todo EXCEPT ![l] = h]
  BY <1>3
<1> HIDE DEF h
<1>7. Wired(inbox, todo', Messages)
  BY <1>4, <1>6, WiredTodo DEF SessionTypes, WireTypes
<1>8. Wired(inbox', todo', Messages) /\ \A b \in Inboxes : Len(inbox'[b]) <= InboxCap
  <2>1. CASE m.to \in closed
    BY <1>3, <1>7, <2>1 DEF SessionTypes, WireTypes
  <2>2. CASE m.to \notin closed
    <3>1. inbox[m.to] \in Seq(Received(m.to, Messages)) /\ m \in Received(m.to, Messages)
      BY <1>3, <1>5, <1>7 DEF Wired, Received
    <3>2. /\ Append(inbox[m.to], m) \in Seq(Received(m.to, Messages))
          /\ Len(Append(inbox[m.to], m)) = Len(inbox[m.to]) + 1 /\ Len(inbox[m.to]) \in Nat
      <4> HIDE DEF Received
      <4> QED
        BY <3>1, RangeAppend, LenProperties
    <3>3. Len(inbox[m.to]) + 1 <= InboxCap
      BY <1>3, <2>2, <3>2, SessionAssumption
    <3>4. DOMAIN inbox = Inboxes
      BY <1>7 DEF Wired
    <3>5. \A b \in Inboxes : Len(inbox'[b]) <= InboxCap
      BY <1>3, <2>2, <3>2, <3>3, <3>4 DEF SessionTypes, WireTypes
    <3>6. Wired(inbox', todo', Messages)
      BY <1>3, <1>7, <2>2, <3>2 DEF Wired
    <3> QED
      BY <3>5, <3>6
  <2> QED
    BY <2>1, <2>2
<1> QED
  BY <1>1, <1>8 DEF SessionTypes, WireTypes, Send

-----------------------------------------------------------------------------
(* The dispatcher.                                                         *)

(* An event takes intents out of the dispatcher, and areas from what they  *)
(* wait for.                                                               *)
LEMMA EmitFacts ==
    ASSUME NEW d \in Dispatchers, NEW m, m.kind = "Reconciled" => m.arg \in Areas,
           NEW e, e = EmitEvent(d, m)
    PROVE  /\ e \in Dispatchers
           /\ e.pending = d.pending /\ e.asked = d.asked
           /\ e.intents \subseteq d.intents
           /\ d.watched \subseteq d.intents => e.watched \subseteq e.intents
           /\ e.complete_areas \subseteq d.complete_areas \cup {m.arg}
           /\ m.kind # "Reconciled" => e.complete_areas = d.complete_areas
           /\ \A i \in Intents : \A x \in d.interests[i] :
                 x \in e.interests[i] \/ (m.kind = "Reconciled" /\ x \subseteq m.arg)
           /\ \A i \in d.intents \ e.intents :
                 (SendFails(i) /\ Matches(d, i, m)) \/ is_complete(i, e.interests[i])
<1> DEFINE left == [i \in Intents |-> IF i \in d.intents /\ Matches(d, i, m)
                                     THEN RetainInterests(d.interests[i], m.arg) ELSE d.interests[i]]
           d1 == IF m.kind = "Reconciled"
                 THEN [d EXCEPT !.complete_areas = d.complete_areas \cup {m.arg}, !.interests = left]
                 ELSE d
           err == { i \in d.intents : Matches(d, i, m) /\ SendFails(i) }
           S == { i \in d.intents : IF i \in err THEN i \notin d.watched
                                    ELSE is_complete(i, d1.interests[i]) }
<1>1. e = [d1 EXCEPT !.intents = d1.intents \ S, !.watched = d1.watched \ S]
  BY DEF EmitEvent, CancelIntents, Dispatchers
<1>2. left \in [Intents -> SUBSET Areas] /\ \A i \in Intents : \A x \in d.interests[i] : x \in left[i] \/ x \subseteq m.arg
  <2>1. \A i \in Intents : RetainInterests(d.interests[i], m.arg) \subseteq d.interests[i]
    BY DEF RetainInterests
  <2>2. d.interests \in [Intents -> SUBSET Areas]
    BY DEF Dispatchers
  <2>3. \A i \in Intents : \A x \in d.interests[i] : x \in RetainInterests(d.interests[i], m.arg) \/ x \subseteq m.arg
    BY DEF RetainInterests
  <2> HIDE DEF RetainInterests, Matches
  <2> QED
    BY <2>1, <2>2, <2>3
<1> HIDE DEF left
<1>3. /\ d1 \in Dispatchers /\ d1.pending = d.pending /\ d1.asked = d.asked
      /\ d1.intents = d.intents /\ d1.watched = d.watched
      /\ d1.complete_areas \subseteq d.complete_areas \cup {m.arg}
      /\ m.kind # "Reconciled" => d1.complete_areas = d.complete_areas
  BY <1>2 DEF Dispatchers
<1>4. \A i \in Intents : \A x \in d.interests[i] :
          x \in d1.interests[i] \/ (m.kind = "Reconciled" /\ x \subseteq m.arg)
  BY <1>2 DEF Dispatchers
<1> HIDE DEF d1
<1>5. \A i \in S : i \in d.intents /\ ((SendFails(i) /\ Matches(d, i, m)) \/ is_complete(i, d1.interests[i]))
  OBVIOUS
<1> HIDE DEF S
<1>6. /\ e \in Dispatchers /\ e.pending = d1.pending /\ e.asked = d1.asked
      /\ e.interests = d1.interests /\ e.complete_areas = d1.complete_areas
      /\ e.intents = d1.intents \ S /\ e.watched = d1.watched \ S
  BY <1>1, <1>3 DEF Dispatchers
<1>7. \A i \in d.intents \ e.intents : i \in S
  BY <1>3, <1>6
<1> HIDE DEF err, SendFails, Matches, is_complete
<1> QED
  BY <1>3, <1>4, <1>5, <1>6, <1>7

(* The fields after submit_intent, whose argument is an intent that is     *)
(* not in the dispatcher; rest is the dispatcher without it.               *)
LEMMA SubmitFacts ==
    ASSUME DispatcherTypes, NEW i \in Intents, NEW rest \in Dispatchers, SubmitIntent(i, rest),
           rest.intents = dispatcher.intents, rest.watched = dispatcher.watched,
           rest.complete_areas = dispatcher.complete_areas
    PROVE  LET all  == flatten_interests(Interests[i])
               left == { x \in all : \A a \in dispatcher.complete_areas : ~ x \subseteq a } IN
           /\ dispatcher' \in Dispatchers
           /\ dispatcher'.pending = rest.pending
           /\ dispatcher'.watched \subseteq dispatcher'.intents
           /\ dispatcher'.complete_areas = dispatcher.complete_areas
           /\ dispatcher'.asked = [rest.asked EXCEPT ![i] = all]
           /\ \/ /\ is_complete(i, left)
                 /\ dispatcher'.intents = rest.intents
                 /\ dispatcher'.interests = rest.interests
                 /\ outcome' = [outcome EXCEPT ![i] = "complete"]
              \/ /\ dispatcher'.intents = rest.intents \cup {i}
                 /\ dispatcher'.interests = [rest.interests EXCEPT ![i] = left]
                 /\ outcome' = outcome
<1> DEFINE all  == flatten_interests(Interests[i])
           left == { x \in all : \A a \in dispatcher.complete_areas : ~ x \subseteq a }
<1>1. all \in SUBSET Areas /\ left \in SUBSET Areas
  BY AreaFacts DEF flatten_interests
<1> HIDE DEF all
<1>2. CASE is_complete(i, left) /\ dispatcher' = [rest EXCEPT !.asked = [rest.asked EXCEPT ![i] = all]]
             /\ outcome' = [outcome EXCEPT ![i] = "complete"]
  <2> HIDE DEF left
  <2> QED
    BY <1>1, <1>2 DEF Dispatchers, DispatcherTypes, all, left
<1>3. CASE /\ dispatcher' = [rest EXCEPT !.intents = rest.intents \cup {i},
                                         !.watched = rest.watched \cup ({i} \ Detached),
                                         !.interests = [rest.interests EXCEPT ![i] = left],
                                         !.asked = [rest.asked EXCEPT ![i] = all]]
           /\ UNCHANGED outcome
  <2> HIDE DEF left
  <2>1. /\ dispatcher' \in Dispatchers
        /\ dispatcher'.pending = rest.pending
        /\ dispatcher'.watched = rest.watched \cup ({i} \ Detached)
        /\ dispatcher'.complete_areas = rest.complete_areas
        /\ dispatcher'.asked = [rest.asked EXCEPT ![i] = all]
        /\ dispatcher'.intents = rest.intents \cup {i}
        /\ dispatcher'.interests = [rest.interests EXCEPT ![i] = left]
    BY <1>1, <1>3 DEF Dispatchers
  <2>2. dispatcher'.watched \subseteq dispatcher'.intents
    BY <2>1 DEF DispatcherTypes
  <2> QED
    BY <1>3, <2>1, <2>2 DEF all, left
<1> QED
  BY <1>2, <1>3 DEF SubmitIntent, all, left

-----------------------------------------------------------------------------
(* The finder's outputs.                                                   *)

Announced(q) == Msg("reconciler", "AoiIntersection", q)

(* A sequence of outputs, joined.                                          *)
LEMMA JoinedOutputs ==
    ASSUME NEW M, NEW n \in Nat, NEW ss, ss = [k \in 1..n |-> ss[k]],
           \A k \in 1..n : ss[k] \in Seq(SUBSET Sendable("intersection", M))
    PROVE  /\ FlattenSeq(ss) \in Seq(SUBSET Sendable("intersection", M))
           /\ \A k \in 1..n : UNION Range(ss[k]) \subseteq UNION Range(FlattenSeq(ss))
<1> DEFINE T == SUBSET Sendable("intersection", M)
<1>1. ss \in Seq(Range(ss)) /\ Len(ss) = n /\ DOMAIN ss = 1..n
  BY DEF Range
<1>2. ss = << >> \/ Len(ss) # 0
  BY <1>1
<1>3. \A k \in 1..Len(ss) : ss[k] \in Seq(T)
  BY <1>1
<1> HIDE DEF T
<1>4. FlattenSeq(ss) \in Seq(T) /\ \A k \in 1..n : Range(ss[k]) \subseteq Range(FlattenSeq(ss))
  BY <1>1, <1>2, <1>3, FlattenHolds
<1>5. \A k \in 1..n : UNION Range(ss[k]) \subseteq UNION Range(FlattenSeq(ss))
  BY <1>4
<1> QED
  BY <1>4, <1>5 DEF T

(* Every pair is announced to the reconciler.                              *)
LEMMA OutputsAnnounce ==
    ASSUME NEW known, NEW reported, NEW pairs \in Seq(Pairs)
    PROVE  /\ Outputs(pairs) \in Seq(SUBSET Sendable("intersection", Message(known, reported)))
           /\ \A q \in Range(pairs) : Announced(q) \in UNION Range(Outputs(pairs))
<1> DEFINE M == Message(known, reported)
           S == SUBSET Sendable("intersection", M)
           ss == [k \in DOMAIN pairs |-> IntersectionOutput(pairs[k])]
           n == Len(pairs)
<1>1. n \in Nat /\ DOMAIN pairs = 1..n /\ \A k \in 1..n : pairs[k] \in Pairs
  BY LenProperties
<1>2. ASSUME NEW q \in Pairs
      PROVE  IntersectionOutput(q) \in Seq(S) /\ Announced(q) \in UNION Range(IntersectionOutput(q))
  <2> DEFINE a == {Announced(q)}
             b == {Msg("intents", "InterestIntersection", Area(q[1]) \cap q[2])}
  <2>1. a \subseteq M /\ b \subseteq M
    BY MessageFacts DEF Announced
  <2>2. a \in S /\ b \in S
    BY <2>1 DEF Sendable, Announced, Msg
  <2>3. IntersectionOutput(q) = << a, b >> /\ Announced(q) \in a
    BY DEF IntersectionOutput, Announced
  <2> HIDE DEF a, b, S
  <2>4. << a, b >> \in Seq(S) /\ << a, b >>[1] = a /\ 1 \in DOMAIN << a, b >>
    BY <2>2
  <2>5. a \in Range(<< a, b >>)
    BY <2>4 DEF Range
  <2> QED
    BY <2>3, <2>4, <2>5
<1>3. /\ ss = [k \in 1..n |-> ss[k]]
      /\ \A k \in 1..n : ss[k] = IntersectionOutput(pairs[k])
  BY <1>1
<1>4. Outputs(pairs) = FlattenSeq(ss)
  BY DEF Outputs
<1> HIDE DEF ss, n, M, S
<1>5. \A k \in 1..n : ss[k] \in Seq(S)
  BY <1>1, <1>2, <1>3
<1>6. /\ FlattenSeq(ss) \in Seq(S)
      /\ \A k \in 1..n : UNION Range(ss[k]) \subseteq UNION Range(FlattenSeq(ss))
  BY <1>1, <1>3, <1>5, JoinedOutputs DEF S
<1>7. ASSUME NEW q \in Range(pairs) PROVE Announced(q) \in UNION Range(FlattenSeq(ss))
  <2>1. PICK k \in 1..n : pairs[k] = q
    BY <1>1 DEF Range
  <2>2. Announced(q) \in UNION Range(ss[k])
    BY <1>1, <1>2, <1>3, <2>1
  <2> QED
    BY <1>6, <2>2
<1> QED
  BY <1>4, <1>6, <1>7 DEF S, M

(* add_interests submits authorisations and announces pairs.               *)
LEMMA AddAnnounces ==
    ASSUME NEW known, NEW reported, NEW new, NEW A, A \subseteq AllAuths, A \subseteq known,
           NEW auths \in Seq(A), NEW pairs,
           \A k \in DOMAIN auths : pairs[k] \in Seq(Pairs)
    PROVE  /\ AddOutputs(new, auths, pairs)
                 \in Seq(SUBSET Sendable("intersection", Message(known, reported)))
           /\ \A k \in DOMAIN auths : auths[k] \notin new.submit =>
                 \A q \in Range(pairs[k]) :
                    Announced(q) \in UNION Range(AddOutputs(new, auths, pairs))
<1> DEFINE M == Message(known, reported)
           S == SUBSET Sendable("intersection", M)
           Submit1(k) == << {Msg("pai", "SubmitAuthorisation", auths[k])} >>
           ss == [k \in DOMAIN auths |-> IF auths[k] \in new.submit THEN Submit1(k)
                                          ELSE Outputs(pairs[k])]
           n == Len(auths)
<1>1. n \in Nat /\ DOMAIN auths = 1..n /\ \A k \in 1..n : auths[k] \in A
  BY LenProperties
<1>2. ASSUME NEW k \in 1..n PROVE Submit1(k) \in Seq(S)
  <2> DEFINE a == {Msg("pai", "SubmitAuthorisation", auths[k])}
  <2>1. a \subseteq M
    BY <1>1, MessageFacts
  <2>2. \A m \in a : m.kind # "SubmitIntent"
    BY DEF Msg
  <2> HIDE DEF a, M
  <2>3. << a >> \in Seq(S)
    BY <2>1, <2>2, OneGroup
  <2> QED
    BY <2>3 DEF a
<1>3. ASSUME NEW k \in 1..n
      PROVE  /\ Outputs(pairs[k]) \in Seq(S)
             /\ \A q \in Range(pairs[k]) : Announced(q) \in UNION Range(Outputs(pairs[k]))
  <2>1. pairs[k] \in Seq(Pairs)
    BY <1>1
  <2> QED
    BY <2>1, OutputsAnnounce
<1>4. /\ ss = [k \in 1..n |-> ss[k]]
      /\ \A k \in 1..n : ss[k] = IF auths[k] \in new.submit THEN Submit1(k) ELSE Outputs(pairs[k])
  BY <1>1
<1>5. AddOutputs(new, auths, pairs) = FlattenSeq(ss)
  BY DEF AddOutputs
<1> HIDE DEF ss, n, M, S, Submit1
<1>6. \A k \in 1..n : ss[k] \in Seq(S)
  BY <1>2, <1>3, <1>4
<1>7. /\ FlattenSeq(ss) \in Seq(S)
      /\ \A k \in 1..n : UNION Range(ss[k]) \subseteq UNION Range(FlattenSeq(ss))
  BY <1>1, <1>4, <1>6, JoinedOutputs DEF S
<1>8. ASSUME NEW k \in 1..n, auths[k] \notin new.submit, NEW q \in Range(pairs[k])
      PROVE  Announced(q) \in UNION Range(FlattenSeq(ss))
  <2>1. Announced(q) \in UNION Range(ss[k])
    BY <1>3, <1>4, <1>8
  <2> QED
    BY <1>7, <2>1
<1> QED
  BY <1>1, <1>5, <1>7, <1>8 DEF S, M

(* The pairs that new areas of ours, or an area of the peer, make.         *)
LEMMA BindFacts ==
    ASSUME EngineTypes
    PROVE  /\ \A xs \in SUBSET AllInterests : IsFiniteSet(xs) =>
                 BindOurs(finder, xs) \subseteq Pairs /\ IsFiniteSet(BindOurs(finder, xs))
           /\ \A t \in TheirAreas :
                 BindTheirs(finder, t) \subseteq Pairs /\ IsFiniteSet(BindTheirs(finder, t))
<1>1. ASSUME NEW xs \in SUBSET AllInterests, IsFiniteSet(xs)
      PROVE  BindOurs(finder, xs) \subseteq Pairs /\ IsFiniteSet(BindOurs(finder, xs))
  <2>1. BindOurs(finder, xs) \subseteq xs \X finder.theirs
    BY DEF BindOurs
  <2>2. xs \X finder.theirs \subseteq Pairs
    BY DEF EngineTypes, Pairs
  <2>3. IsFiniteSet(xs \X finder.theirs)
    BY <1>1, FS_Product DEF EngineTypes
  <2> QED
    BY <2>1, <2>2, <2>3, FS_Subset
<1>2. ASSUME NEW t \in TheirAreas
      PROVE  BindTheirs(finder, t) \subseteq Pairs /\ IsFiniteSet(BindTheirs(finder, t))
  <2>1. BindTheirs(finder, t) \subseteq finder.ours \X {t}
    BY DEF BindTheirs
  <2>2. IsFiniteSet(finder.ours) /\ IsFiniteSet({t})
    <3>1. finder.ours \in SUBSET finder.interests /\ IsFiniteSet(finder.interests)
      BY DEF EngineTypes
    <3> QED
      BY <3>1, FS_Subset, FS_Singleton
  <2>3. IsFiniteSet(finder.ours \X {t})
    BY <2>2, FS_Product
  <2>4. finder.ours \X {t} \subseteq Pairs
    BY DEF EngineTypes, Pairs
  <2> QED
    BY <2>1, <2>3, <2>4, FS_Subset
<1> QED
  BY <1>1, <1>2

(* They come in some order.                                                *)
LEMMA PairSequence ==
    ASSUME EngineTypes, NEW xs, xs \subseteq AllInterests, IsFiniteSet(xs),
           NEW pairs \in SetToSeqs(BindOurs(finder, xs))
    PROVE  pairs \in Seq(Pairs) /\ Range(pairs) = BindOurs(finder, xs)
<1>1. BindOurs(finder, xs) \subseteq Pairs /\ IsFiniteSet(BindOurs(finder, xs))
  BY BindFacts
<1>2. pairs \in Seq(BindOurs(finder, xs)) /\ Range(pairs) = BindOurs(finder, xs)
  BY <1>1, EnumerationHolds
<1> QED
  BY <1>1, <1>2, SeqMonotonic

(* The authorisations of finitely many interests.                          *)
LEMMA AuthsOf ==
    ASSUME NEW xs \in SUBSET AllInterests, IsFiniteSet(xs)
    PROVE  LET A == { x[1] : x \in xs } IN IsFiniteSet(A) /\ A \subseteq AllAuths
<1> DEFINE A == { x[1] : x \in xs }
           f == [x \in xs |-> x[1]]
<1>1. f \in Surjection(xs, A)
  BY DEF Surjection
<1>2. IsFiniteSet(A)
  <2> HIDE DEF f, A
  <2> QED
    BY <1>1, FS_Surjection
<1>3. A \subseteq AllAuths
  BY DEF AllAuths
<1> QED
  BY <1>2, <1>3

-----------------------------------------------------------------------------
(* The types, step by step.                                                *)

(* The actions of the dispatcher.                                          *)
LEMMA DispatcherKeepsTypes ==
    ASSUME SessionTypes,
           \/ SubmitPending \/ SubmitFromInbox \/ EmitFromInbox
           \/ \E i \in Intents : AddInterests(i) \/ CancelIntent(i) \/ Unwatch(i)
    PROVE  SessionTypes'
<1> USE DEF SessionTypes
<1>0. "intents" \in Inboxes /\ "intents" \in Loops
  BY DEF Inboxes, Loops
<1>1. ASSUME NEW i \in Intents
      PROVE  SubmitInterests(Interests[i]) \in Seq(SUBSET Sendable("intents", Messages))
  <2> DEFINE G == {Msg("intersection", "AddInterests", Interests[i])}
  <2>1. G \subseteq Messages
    BY MessageFacts, AreaFacts, SessionAssumption DEF Messages
  <2>2. \A m \in G : m.kind # "SubmitIntent"
    BY DEF Msg
  <2>3. << G >> \in Seq(SUBSET Sendable("intents", Messages))
    <3> HIDE DEF G
    <3> QED
      BY <2>1, <2>2, OneGroup
  <2> QED
    BY <2>3 DEF SubmitInterests
<1>2. << >> \in Seq(SUBSET Sendable("intents", Messages))
  OBVIOUS
<1>3. ASSUME NEW i \in Intents
      PROVE  SubmitOutput(i) \in Seq(SUBSET Sendable("intents", Messages))
  BY <1>1, <1>2 DEF SubmitOutput
<1>4. ASSUME NEW i \in Intents, outcome' = [outcome EXCEPT ![i] = "complete"] \/ outcome' = outcome
      PROVE  outcome' \in [Intents -> Outcomes]
  BY <1>4 DEF AppTypes, Outcomes
<1>5. CASE SubmitPending
  <2> DEFINE i == Head(dispatcher.pending)
             rest == [dispatcher EXCEPT !.pending = Tail(dispatcher.pending)]
  <2>1. dispatcher.pending \in Seq(Intents) /\ dispatcher.pending # << >>
    BY <1>5 DEF SubmitPending, DispatcherTypes, Dispatchers
  <2>2. i \in Intents /\ Tail(dispatcher.pending) \in Seq(Intents)
    BY <2>1
  <2>3. /\ rest \in Dispatchers /\ rest.intents = dispatcher.intents /\ rest.watched = dispatcher.watched
        /\ rest.complete_areas = dispatcher.complete_areas
    BY <2>2 DEF DispatcherTypes, Dispatchers
  <2>4. SubmitIntent(i, rest) /\ todo' = [todo EXCEPT !["intents"] = SubmitOutput(i)]
    BY <1>5 DEF SubmitPending
  <2> HIDE DEF i, rest
  <2>5. DispatcherTypes'
    BY <1>5, <2>2, <2>3, <2>4, SubmitFacts DEF DispatcherTypes, SubmitPending, engines
  <2>6. outcome' \in [Intents -> Outcomes]
    BY <1>4, <2>2, <2>3, <2>4, SubmitFacts
  <2>7. EngineTypes' /\ EndTypes' /\ AppTypes' /\ Messages' = Messages
    BY <1>5, <2>6 DEF SubmitPending, engines, ending, EngineTypes, EndTypes, AppTypes, Messages
  <2>8. Wired(inbox, todo', Messages)
    BY <1>0, <1>3, <2>2, <2>4, WiredTodo DEF WireTypes
  <2> QED
    BY <1>5, <2>5, <2>7, <2>8 DEF SubmitPending, WireTypes
<1>6. CASE SubmitFromInbox
  <2> DEFINE i == Arg("intents")
  <2>1. inbox["intents"] # << >> /\ Head(inbox["intents"]).kind = "SubmitIntent"
    BY <1>6 DEF SubmitFromInbox, HasInput
  <2>2. /\ Wired([inbox EXCEPT !["intents"] = Tail(@)], todo, Messages)
        /\ \A c \in Inboxes : Len([inbox EXCEPT !["intents"] = Tail(@)][c]) <= InboxCap
        /\ Head(inbox["intents"]) \in Messages
    BY <1>0, <2>1, WiredTake DEF WireTypes
  <2>3. i \in Intents
    BY <2>1, <2>2 DEF Messages, Message, Honest, Arg
  <2>4. /\ SubmitIntent(i, dispatcher)
        /\ inbox' = [inbox EXCEPT !["intents"] = Tail(@)]
        /\ todo' = [todo EXCEPT !["intents"] = SubmitOutput(i)]
    BY <1>6 DEF SubmitFromInbox, Take
  <2> HIDE DEF i
  <2>5. DispatcherTypes'
    BY <1>6, <2>3, <2>4, SubmitFacts DEF DispatcherTypes, SubmitFromInbox, engines
  <2>6. outcome' \in [Intents -> Outcomes]
    BY <1>4, <2>3, <2>4, SubmitFacts DEF DispatcherTypes
  <2>7. EngineTypes' /\ EndTypes' /\ AppTypes' /\ Messages' = Messages
    BY <1>6, <2>6 DEF SubmitFromInbox, engines, ending, EngineTypes, EndTypes, AppTypes, Messages
  <2>8. Wired(inbox', todo', Messages)
    BY <1>0, <1>3, <2>2, <2>3, <2>4, WiredTodo
  <2>9. \A b \in Inboxes : Len(inbox'[b]) <= InboxCap
    BY <2>2, <2>4
  <2> QED
    BY <1>6, <2>5, <2>7, <2>8, <2>9 DEF SubmitFromInbox, WireTypes
<1>7. CASE EmitFromInbox
  <2> DEFINE m == Head(inbox["intents"])
  <2>1. inbox["intents"] # << >> /\ m.kind # "SubmitIntent"
    BY <1>7 DEF EmitFromInbox, HasInput
  <2>2. /\ Wired([inbox EXCEPT !["intents"] = Tail(@)], todo, Messages)
        /\ \A c \in Inboxes : Len([inbox EXCEPT !["intents"] = Tail(@)][c]) <= InboxCap
        /\ m \in Messages
    BY <1>0, <2>1, WiredTake DEF WireTypes
  <2>3. m.kind = "Reconciled" => m.arg \in Areas /\ m.arg \in targets.reported
    BY <2>2 DEF Messages, Message, Honest
  <2>4. /\ dispatcher' = EmitEvent(dispatcher, m)
        /\ outcome' = OutcomeOf(dispatcher, m)
        /\ cancelled' \subseteq cancelled \cup {"session"}
        /\ inbox' = [inbox EXCEPT !["intents"] = Tail(@)]
        /\ todo' = [todo EXCEPT !["intents"] = << >>]
    BY <1>7 DEF EmitFromInbox, Take, CancelIfEmpty
  <2> HIDE DEF m
  <2>5. /\ dispatcher' \in Dispatchers
        /\ dispatcher'.watched \subseteq dispatcher'.intents
        /\ dispatcher'.complete_areas \subseteq dispatcher.complete_areas \cup {m.arg}
        /\ m.kind # "Reconciled" => dispatcher'.complete_areas = dispatcher.complete_areas
    BY <2>3, <2>4, EmitFacts DEF DispatcherTypes
  <2>6. DispatcherTypes'
    BY <1>7, <2>3, <2>5 DEF DispatcherTypes, EmitFromInbox, engines
  <2>7. outcome' \in [Intents -> Outcomes]
    BY <2>4 DEF OutcomeOf, AppTypes, Outcomes
  <2>8. EngineTypes' /\ EndTypes' /\ AppTypes' /\ Messages' = Messages
    BY <1>7, <2>4, <2>7 DEF EmitFromInbox, engines, EngineTypes, EndTypes, AppTypes, Messages
  <2>9. Wired(inbox', todo', Messages)
    BY <1>0, <1>2, <2>2, <2>4, WiredTodo
  <2>10. \A b \in Inboxes : Len(inbox'[b]) <= InboxCap
    BY <2>2, <2>4
  <2> QED
    BY <1>7, <2>6, <2>8, <2>9, <2>10 DEF EmitFromInbox, WireTypes
<1>8. ASSUME NEW i \in Intents, AddInterests(i) PROVE SessionTypes'
  <2> DEFINE x == Head(handle[i].sent).arg
  <2>1. handle[i].sent \in Seq(SentUpdates) /\ handle[i].sent # << >> /\ Head(handle[i].sent).kind = "AddInterests"
    BY <1>8 DEF AddInterests, AppTypes
  <2>2. Head(handle[i].sent) \in SentUpdates /\ Tail(handle[i].sent) \in Seq(SentUpdates)
    BY <2>1
  <2>3. x \in AllInterests
    BY <2>1, <2>2 DEF SentUpdates
  <2>4. /\ dispatcher' = [dispatcher EXCEPT !.interests[i] = @ \cup {Area(x)},
                                           !.asked[i] = @ \cup {Area(x)}]
        /\ todo' = [todo EXCEPT !["intents"] = SubmitInterests({x})]
        /\ handle' = [handle EXCEPT ![i].sent = Tail(@)]
    BY <1>8 DEF AddInterests
  <2> HIDE DEF x
  <2>5. Area(x) \in Areas
    BY <2>3, AreaFacts
  <2>6. /\ dispatcher' \in Dispatchers /\ dispatcher'.watched = dispatcher.watched
        /\ dispatcher'.intents = dispatcher.intents /\ dispatcher'.complete_areas = dispatcher.complete_areas
    BY <2>4, <2>5 DEF DispatcherTypes, Dispatchers
  <2>7. DispatcherTypes'
    BY <1>8, <2>6 DEF DispatcherTypes, AddInterests, engines
  <2>8. handle' \in [Intents -> [updates: BOOLEAN, events: BOOLEAN, sent: Seq(SentUpdates)]]
    BY <2>2, <2>4 DEF AppTypes
  <2>9. EngineTypes' /\ EndTypes' /\ AppTypes' /\ Messages' = Messages
    BY <1>8, <2>8 DEF AddInterests, engines, ending, EngineTypes, EndTypes, AppTypes, Messages
  <2>10. SubmitInterests({x}) \in Seq(SUBSET Sendable("intents", Messages))
    <3> DEFINE G == {Msg("intersection", "AddInterests", {x})}
    <3>1. IsFiniteSet({x}) /\ {x} \in SUBSET AllInterests
      BY <2>3, FS_Singleton
    <3>2. G \subseteq Messages
      BY <3>1, MessageFacts DEF Messages
    <3>3. \A m \in G : m.kind # "SubmitIntent"
      BY DEF Msg
    <3>4. << G >> \in Seq(SUBSET Sendable("intents", Messages))
      <4> HIDE DEF G
      <4> QED
        BY <3>2, <3>3, OneGroup
    <3> QED
      BY <3>4 DEF SubmitInterests
  <2>11. Wired(inbox, todo', Messages)
    BY <1>0, <2>4, <2>10, WiredTodo DEF WireTypes
  <2> QED
    BY <1>8, <2>7, <2>9, <2>11 DEF AddInterests, WireTypes
<1>9. ASSUME NEW i \in Intents, CancelIntent(i) PROVE SessionTypes'
  <2>1. DispatcherTypes'
    BY <1>9 DEF CancelIntent, CancelIntents, DispatcherTypes, Dispatchers, engines
  <2>2. EngineTypes' /\ EndTypes' /\ AppTypes' /\ Messages' = Messages
    BY <1>9 DEF CancelIntent, CancelIfEmpty, engines, EngineTypes, EndTypes, AppTypes, Messages, Outcomes
  <2> QED
    BY <1>9, <2>1, <2>2 DEF CancelIntent, WireTypes, wires
<1>10. ASSUME NEW i \in Intents, Unwatch(i) PROVE SessionTypes'
  <2>1. DispatcherTypes'
    BY <1>10 DEF Unwatch, DispatcherTypes, Dispatchers, engines
  <2>2. EngineTypes' /\ EndTypes' /\ AppTypes' /\ Messages' = Messages
    BY <1>10 DEF Unwatch, engines, ending, app, EngineTypes, EndTypes, AppTypes, Messages
  <2> QED
    BY <1>10, <2>1, <2>2 DEF Unwatch, WireTypes, wires
<1> QED
  BY <1>5, <1>6, <1>7, <1>8, <1>9, <1>10

(* A step that leaves the wires alone, or gives one loop new sends.        *)
LEMMA NewSends ==
    ASSUME SessionTypes, Messages \subseteq Messages', NEW l \in Loops,
           NEW out \in Seq(SUBSET Sendable(l, Messages')),
           todo' = [todo EXCEPT ![l] = out], inbox' = inbox, closed' = closed
    PROVE  WireTypes'
<1>1. Wired(inbox, todo, Messages')
  BY WiredMore DEF SessionTypes, WireTypes
<1>2. Wired(inbox', todo', Messages')
  BY <1>1, WiredTodo
<1> QED
  BY <1>2 DEF SessionTypes, WireTypes

(* A loop takes an input and has new sends.                                *)
LEMMA TakeInput ==
    ASSUME SessionTypes, Messages \subseteq Messages', NEW l \in Loops, NEW b \in Inboxes,
           inbox[b] # << >>, NEW out \in Seq(SUBSET Sendable(l, Messages')),
           Take(l, b, out), closed' = closed
    PROVE  WireTypes'
<1>1. Wired(inbox, todo, Messages')
  BY WiredMore DEF SessionTypes, WireTypes
<1>2. /\ Wired([inbox EXCEPT ![b] = Tail(@)], todo, Messages')
      /\ \A c \in Inboxes : Len([inbox EXCEPT ![b] = Tail(@)][c]) <= InboxCap
  BY <1>1, WiredTake DEF SessionTypes, WireTypes
<1>3. Wired(inbox', todo', Messages')
  BY <1>2, WiredTodo DEF Take
<1> QED
  BY <1>2, <1>3 DEF SessionTypes, WireTypes, Take

(* What is at the head of an inbox.                                        *)
LEMMA HeadIsMessage ==
    ASSUME SessionTypes, NEW b \in Inboxes, inbox[b] # << >>
    PROVE  Head(inbox[b]) \in Messages /\ Head(inbox[b]).to = b
BY WiredTake DEF SessionTypes, WireTypes

(* The finder.                                                             *)
LEMMA FinderKeepsTypes ==
    ASSUME SessionTypes, FinderAddInterests \/ FinderPaiIntersection \/ FinderValidatedAoi
    PROVE  SessionTypes'
<1> USE DEF SessionTypes
<1> DEFINE m == Head(inbox["intersection"])
<1>0. "intersection" \in Inboxes /\ "intersection" \in Loops
  BY DEF Inboxes, Loops
<1>1. inbox["intersection"] # << >> /\ m \in Messages
  BY <1>0, HeadIsMessage DEF FinderAddInterests, FinderPaiIntersection, FinderValidatedAoi, HasInput
<1>2. AppTypes' /\ EndTypes'
  BY DEF FinderAddInterests, FinderPaiIntersection, FinderValidatedAoi, app, ending, AppTypes, EndTypes
<1>3. UNCHANGED << dispatcher, pai, targets, peer, closed >>
  BY DEF FinderAddInterests, FinderPaiIntersection, FinderValidatedAoi
<1>4. DispatcherTypes'
  BY <1>3 DEF DispatcherTypes
<1>5. CASE FinderAddInterests
  <2> DEFINE xs  == Arg("intersection")
             new == NewInterests(xs)
             A   == { x[1] : x \in xs }
  <2>1. xs \in SUBSET AllInterests /\ IsFiniteSet(xs)
    BY <1>1, <1>5 DEF FinderAddInterests, HasInput, Messages, Message, Honest, Arg
  <2>2. finder' = [finder EXCEPT !.interests = @ \cup xs, !.ours = @ \cup new.bind]
    BY <1>5 DEF FinderAddInterests
  <2>3. PICK auths \in SetToSeqs(A) :
           \E pairs \in [DOMAIN auths -> UNION { NewPairs(new, auth) : auth \in Range(auths) }] :
              /\ \A k \in DOMAIN auths : pairs[k] \in NewPairs(new, auths[k])
              /\ Take("intersection", "intersection", AddOutputs(new, auths, pairs))
    BY <1>5 DEF FinderAddInterests
  <2>4. PICK pairs :
              /\ \A k \in DOMAIN auths : pairs[k] \in NewPairs(new, auths[k])
              /\ Take("intersection", "intersection", AddOutputs(new, auths, pairs))
    BY <2>3
  <2>5. new.bind \subseteq xs
    BY DEF NewInterests
  <2>6. IsFiniteSet(A) /\ A \subseteq AllAuths
    BY <2>1, AuthsOf
  <2> HIDE DEF xs, new
  <2>7. finder.interests \cup xs \in SUBSET AllInterests /\ IsFiniteSet(finder.interests \cup xs)
    BY <2>1, FS_Union DEF EngineTypes
  <2>8. KnownAuths(finder') = KnownAuths(finder) \cup A
    BY <2>2 DEF KnownAuths, EngineTypes
  <2> HIDE DEF A
  <2>9. Messages \subseteq Messages'
    BY <1>3, <2>8, MoreMessages DEF Messages
  <2>10. EngineTypes'
    <3>1. /\ finder' \in [interests: SUBSET AllInterests, bound: SUBSET AllAuths,
                          ours: SUBSET AllInterests, theirs: SUBSET TheirAreas]
          /\ finder'.interests = finder.interests \cup xs /\ finder'.theirs = finder.theirs
          /\ finder'.bound = finder.bound /\ finder'.ours = finder.ours \cup new.bind
      BY <2>1, <2>2, <2>5 DEF EngineTypes
    <3>2. finder'.ours \subseteq finder'.interests
      BY <2>5, <3>1 DEF EngineTypes
    <3> QED
      BY <1>3, <2>7, <2>8, <3>1, <3>2 DEF EngineTypes
  <2>11. \A k \in DOMAIN auths : pairs[k] \in Seq(Pairs)
    <3> SUFFICES ASSUME NEW k \in DOMAIN auths PROVE pairs[k] \in Seq(Pairs)
      OBVIOUS
    <3> DEFINE ys == { x \in new.bind : x[1] = auths[k] }
    <3>1. ys \subseteq AllInterests /\ IsFiniteSet(ys)
      BY <2>1, <2>5, FS_Subset
    <3>2. pairs[k] \in SetToSeqs(BindOurs(finder, ys))
      BY <2>4 DEF NewPairs
    <3> HIDE DEF ys
    <3> QED
      BY <3>1, <3>2, PairSequence
  <2>12. auths \in Seq(A)
    BY <2>6, EnumerationHolds
  <2>13. A \subseteq KnownAuths(finder')
    BY <2>8
  <2>14. AddOutputs(new, auths, pairs) \in Seq(SUBSET Sendable("intersection", Messages'))
    BY <2>6, <2>11, <2>12, <2>13, AddAnnounces DEF Messages
  <2>15. WireTypes'
    BY <1>0, <1>1, <1>3, <2>4, <2>9, <2>14, TakeInput
  <2> QED
    BY <1>2, <1>4, <2>10, <2>15
<1>6. CASE FinderPaiIntersection
  <2> DEFINE auth == Arg("intersection")
             xs   == { x \in finder.interests : x[1] = auth }
  <2>1. auth \in AllAuths /\ auth \in KnownAuths(finder)
    BY <1>1, <1>6 DEF FinderPaiIntersection, HasInput, Messages, Message, Honest, Arg
  <2>2. finder' = [finder EXCEPT !.bound = @ \cup {auth}, !.ours = @ \cup xs]
    BY <1>6 DEF FinderPaiIntersection
  <2>3. PICK pairs \in SetToSeqs(BindOurs(finder, xs)) : Take("intersection", "intersection", Outputs(pairs))
    BY <1>6 DEF FinderPaiIntersection
  <2>4. xs \subseteq AllInterests /\ xs \subseteq finder.interests /\ IsFiniteSet(xs)
    <3>1. xs \in SUBSET finder.interests /\ IsFiniteSet(finder.interests) /\ finder.interests \subseteq AllInterests
      BY DEF EngineTypes
    <3> HIDE DEF xs
    <3> QED
      BY <3>1, FS_Subset
  <2> HIDE DEF auth, xs
  <2>5. /\ finder' \in [interests: SUBSET AllInterests, bound: SUBSET AllAuths,
                         ours: SUBSET AllInterests, theirs: SUBSET TheirAreas]
        /\ finder'.interests = finder.interests /\ finder'.theirs = finder.theirs
        /\ finder'.bound = finder.bound \cup {auth} /\ finder'.ours = finder.ours \cup xs
    BY <2>1, <2>2, <2>4 DEF EngineTypes
  <2>6. KnownAuths(finder') = KnownAuths(finder)
    BY <2>5 DEF KnownAuths
  <2>7. EngineTypes' /\ Messages' = Messages
    BY <1>3, <2>1, <2>4, <2>5, <2>6 DEF EngineTypes, Messages
  <2>8. Outputs(pairs) \in Seq(SUBSET Sendable("intersection", Messages'))
    BY <2>3, <2>4, PairSequence, OutputsAnnounce DEF Messages
  <2>9. WireTypes'
    BY <1>0, <1>1, <1>3, <2>3, <2>7, <2>8, TakeInput
  <2> QED
    BY <1>2, <1>4, <2>7, <2>9
<1>7. CASE FinderValidatedAoi
  <2> DEFINE t == Arg("intersection")
  <2>1. t \in TheirAreas
    BY <1>1, <1>7 DEF FinderValidatedAoi, HasInput, Messages, Message, Honest, Arg
  <2>2. finder' = [finder EXCEPT !.theirs = @ \cup {t}]
    BY <1>7 DEF FinderValidatedAoi
  <2>3. PICK pairs \in SetToSeqs(BindTheirs(finder, t)) : Take("intersection", "intersection", Outputs(pairs))
    BY <1>7 DEF FinderValidatedAoi
  <2> HIDE DEF t
  <2>4. /\ finder' \in [interests: SUBSET AllInterests, bound: SUBSET AllAuths,
                         ours: SUBSET AllInterests, theirs: SUBSET TheirAreas]
        /\ finder'.interests = finder.interests /\ finder'.theirs = finder.theirs \cup {t}
        /\ finder'.bound = finder.bound /\ finder'.ours = finder.ours
    BY <2>1, <2>2 DEF EngineTypes
  <2>5. KnownAuths(finder') = KnownAuths(finder)
    BY <2>4 DEF KnownAuths
  <2>6. IsFiniteSet(finder.theirs \cup {t})
    BY FS_AddElement DEF EngineTypes
  <2>7. EngineTypes' /\ Messages' = Messages
    BY <1>3, <2>4, <2>5, <2>6 DEF EngineTypes, Messages
  <2>8. pairs \in Seq(Pairs)
    <3>1. BindTheirs(finder, t) \subseteq Pairs /\ IsFiniteSet(BindTheirs(finder, t))
      BY <2>1, BindFacts, FS_EmptySet
    <3>2. pairs \in Seq(BindTheirs(finder, t))
      BY <2>3, <3>1, EnumerationHolds
    <3> QED
      BY <3>1, <3>2, SeqMonotonic
  <2>9. Outputs(pairs) \in Seq(SUBSET Sendable("intersection", Messages'))
    BY <2>8, OutputsAnnounce DEF Messages
  <2>10. WireTypes'
    BY <1>0, <1>1, <1>3, <2>3, <2>7, <2>9, TakeInput
  <2> QED
    BY <1>2, <1>4, <2>7, <2>10
<1> QED
  BY <1>5, <1>6, <1>7

(* The PAI loop and the reconciler loop.                                   *)
LEMMA EnginesKeepTypes ==
    ASSUME SessionTypes,
           \/ PaiTakes \/ \E auth \in Common : PaiIntersection(auth)
           \/ ReconcilerTakes \/ ReconciledAll
           \/ \E q \in targets.open : CompleteTarget(q)
    PROVE  SessionTypes'
<1> USE DEF SessionTypes
<1>0. {"pai", "reconciler"} \subseteq Inboxes /\ {"pai", "reconciler"} \subseteq Loops
  BY DEF Inboxes, Loops
<1>1. \A l \in Loops : << >> \in Seq(SUBSET Sendable(l, Messages))
  OBVIOUS
<1>2. CASE PaiTakes
  <2>1. PICK kind \in {"SubmitAuthorisation", "Established", "ReceivedReadCapForIntersection"} :
          /\ HasInput("pai", "pai", kind)
          /\ Take("pai", "pai", << >>)
          /\ pai' = CASE kind = "SubmitAuthorisation" -> [pai EXCEPT !.submitted = @ \cup {Arg("pai")}]
                      [] kind = "Established" -> [pai EXCEPT !.established = TRUE]
                      [] OTHER -> pai
    BY <1>2 DEF PaiTakes
  <2>2. Head(inbox["pai"]) \in Messages /\ inbox["pai"] # << >> /\ Head(inbox["pai"]).kind = kind
    BY <1>0, <2>1, HeadIsMessage DEF HasInput
  <2>3. kind = "SubmitAuthorisation" => Arg("pai") \in AllAuths /\ Arg("pai") \in KnownAuths(finder)
    BY <2>2 DEF Messages, Message, Honest, Arg
  <2>4. /\ pai' \in [established: BOOLEAN, submitted: SUBSET AllAuths, found: SUBSET AllAuths]
        /\ pai'.submitted \subseteq KnownAuths(finder)
    <3>1. CASE kind = "SubmitAuthorisation"
      BY <2>1, <2>3, <3>1 DEF EngineTypes
    <3>2. CASE kind = "Established"
      BY <2>1, <3>2 DEF EngineTypes
    <3>3. CASE kind = "ReceivedReadCapForIntersection"
      BY <2>1, <3>3 DEF EngineTypes
    <3> QED
      BY <3>1, <3>2, <3>3
  <2>5. UNCHANGED << updates, handle, outcome, done, cancelled, result, dispatcher, finder, targets, peer, closed >>
    BY <1>2 DEF PaiTakes, app, ending
  <2>6. AppTypes' /\ DispatcherTypes' /\ EngineTypes' /\ EndTypes' /\ Messages' = Messages
    BY <2>4, <2>5 DEF AppTypes, DispatcherTypes, EngineTypes, EndTypes, Messages
  <2>7. WireTypes'
    BY <1>0, <1>1, <2>1, <2>2, <2>5, <2>6, TakeInput
  <2> QED
    BY <2>6, <2>7
<1>3. ASSUME NEW auth \in Common, PaiIntersection(auth) PROVE SessionTypes'
  <2> DEFINE G == {Msg("intersection", "PaiIntersection", auth), Msg("intents", "CapabilityIntersection", {})}
  <2>1. /\ pai' = [pai EXCEPT !.found = @ \cup {auth}]
        /\ todo' = [todo EXCEPT !["pai"] = << G >>]
        /\ auth \in pai.submitted
    BY <1>3 DEF PaiIntersection
  <2>2. auth \in AllAuths /\ auth \in KnownAuths(finder)
    BY <2>1 DEF EngineTypes
  <2>3. G \subseteq Messages /\ \A m \in G : m.kind # "SubmitIntent"
    <3>1. \A m \in G : m.kind # "SubmitIntent"
      BY DEF Msg
    <3>2. G \subseteq Messages
      BY <2>2, MessageFacts DEF Messages
    <3> QED
      BY <3>1, <3>2
  <2> HIDE DEF G
  <2>4. << G >> \in Seq(SUBSET Sendable("pai", Messages))
    BY <2>3, OneGroup
  <2>5. UNCHANGED << updates, handle, outcome, done, cancelled, result, dispatcher, finder, targets, peer, inbox, closed >>
    BY <1>3 DEF PaiIntersection, app, ending
  <2>6. AppTypes' /\ DispatcherTypes' /\ EngineTypes' /\ EndTypes' /\ Messages' = Messages
    BY <2>1, <2>2, <2>5 DEF AppTypes, DispatcherTypes, EngineTypes, EndTypes, Messages
  <2>7. WireTypes'
    BY <1>0, <2>1, <2>4, <2>5, <2>6, NewSends
  <2> QED
    BY <2>6, <2>7
<1>4. CASE ReconcilerTakes
  <2>1. Head(inbox["reconciler"]) \in Messages /\ inbox["reconciler"] # << >>
        /\ Head(inbox["reconciler"]).kind = "AoiIntersection"
    BY <1>0, <1>4, HeadIsMessage DEF ReconcilerTakes, HasInput
  <2>2. Arg("reconciler") \in Pairs
    BY <2>1 DEF Messages, Message, Honest, Arg
  <2>3. targets' = [targets EXCEPT !.open = @ \cup {Arg("reconciler")}, !.given = @ \cup {Arg("reconciler")}]
    BY <1>4 DEF ReconcilerTakes
  <2>4. /\ targets' \in [open: SUBSET Pairs, given: SUBSET Pairs, reported: SUBSET Areas]
        /\ targets'.reported = targets.reported
    BY <2>2, <2>3 DEF EngineTypes
  <2>5. UNCHANGED << updates, handle, outcome, done, cancelled, result, dispatcher, finder, pai, peer, closed >>
    BY <1>4 DEF ReconcilerTakes, app, ending
  <2>6. AppTypes' /\ DispatcherTypes' /\ EngineTypes' /\ EndTypes' /\ Messages' = Messages
    BY <2>4, <2>5 DEF AppTypes, DispatcherTypes, EngineTypes, EndTypes, Messages
  <2>7. WireTypes'
    BY <1>0, <1>1, <1>4, <2>1, <2>5, <2>6, TakeInput DEF ReconcilerTakes
  <2> QED
    BY <2>6, <2>7
<1>5. CASE ReconciledAll
  <2>1. UNCHANGED << updates, handle, outcome, result, dispatcher, finder, pai, targets, peer >>
    BY <1>5 DEF ReconciledAll, app, parts
  <2>2. /\ cancelled' \subseteq cancelled \cup {"session"} /\ done' \subseteq done \cup {"reconciler"}
        /\ closed' \subseteq closed \cup {"reconciler"}
        /\ inbox' = inbox \/ inbox' = [inbox EXCEPT !["reconciler"] = << >>]
        /\ todo' = [todo EXCEPT !["reconciler"] = << >>]
    BY <1>5 DEF ReconciledAll
  <2>3. AppTypes' /\ DispatcherTypes' /\ EngineTypes' /\ EndTypes' /\ Messages' = Messages
    BY <1>0, <2>1, <2>2 DEF AppTypes, DispatcherTypes, EngineTypes, EndTypes, Messages
  <2>4. Wired(inbox, todo', Messages)
    BY <1>0, <1>1, <2>2, WiredTodo DEF WireTypes
  <2>5. Wired(inbox', todo', Messages)
    <3>1. CASE inbox' = [inbox EXCEPT !["reconciler"] = << >>]
      <4>1. \A b \in Inboxes : << >> \in Seq(Received(b, Messages))
        OBVIOUS
      <4>2. \A b \in Inboxes : inbox'[b] = inbox[b] \/ inbox'[b] = << >>
        BY <2>4, <3>1 DEF Wired
      <4>3. \A b \in Inboxes : inbox'[b] \in Seq(Received(b, Messages))
        <5> SUFFICES ASSUME NEW b \in Inboxes PROVE inbox'[b] \in Seq(Received(b, Messages))
          OBVIOUS
        <5>1. inbox[b] \in Seq(Received(b, Messages))
          BY <2>4 DEF Wired
        <5>2. CASE inbox'[b] = inbox[b]
          BY <5>1, <5>2, Zenon
        <5>3. CASE inbox'[b] = << >>
          BY <4>1, <5>3, Zenon
        <5> QED
          BY <4>2, <5>2, <5>3
      <4>4. DOMAIN inbox' = Inboxes /\ inbox' = [b \in Inboxes |-> inbox'[b]]
        BY <2>4, <3>1 DEF Wired
      <4> QED
        BY <2>4, <4>3, <4>4 DEF Wired
    <3> QED
      BY <2>2, <2>4, <3>1
  <2>6. \A b \in Inboxes : Len(inbox'[b]) <= InboxCap
    <3>1. Len(<< >>) <= InboxCap /\ DOMAIN inbox = Inboxes
      BY SessionAssumption DEF WireTypes, Wired
    <3> QED
      BY <2>2, <3>1 DEF WireTypes
  <2> QED
    BY <1>0, <2>2, <2>3, <2>5, <2>6 DEF WireTypes
<1>6. ASSUME NEW q \in targets.open, CompleteTarget(q) PROVE SessionTypes'
  <2> DEFINE area == Area(q[1]) \cap q[2]
             a == {Msg("intents", "Reconciled", area)}
             b == {Msg("run", "ReconciledAll", {})}
  <2>1. /\ targets' = [targets EXCEPT !.open = @ \ {q}, !.reported = @ \cup {area}]
        /\ \/ todo' = [todo EXCEPT !["reconciler"] = << a >> \o << b >>]
           \/ todo' = [todo EXCEPT !["reconciler"] = << a >> \o << >>]
    BY <1>6 DEF CompleteTarget
  <2>2. area \in Areas
    BY AreaFacts DEF EngineTypes
  <2> HIDE DEF area
  <2>3. /\ targets' \in [open: SUBSET Pairs, given: SUBSET Pairs, reported: SUBSET Areas]
        /\ targets'.reported = targets.reported \cup {area}
    BY <2>1, <2>2 DEF EngineTypes
  <2>4. UNCHANGED << updates, handle, outcome, done, cancelled, result, dispatcher, finder, pai, peer, inbox, closed >>
    BY <1>6 DEF CompleteTarget, app, ending
  <2>5. AppTypes' /\ DispatcherTypes' /\ EngineTypes' /\ EndTypes'
    BY <2>3, <2>4 DEF AppTypes, DispatcherTypes, EngineTypes, EndTypes
  <2>6. Messages \subseteq Messages'
    BY <2>3, <2>4, MoreMessages DEF Messages
  <2>7. a \subseteq Messages' /\ b \subseteq Messages'
    BY <2>2, <2>3, MessageFacts DEF Messages
  <2>8. \A m \in a \cup b : m.kind # "SubmitIntent"
    BY DEF Msg
  <2> DEFINE S == SUBSET Sendable("reconciler", Messages')
  <2> HIDE DEF a, b
  <2>9. << a >> \in Seq(S) /\ << b >> \in Seq(S) /\ << >> \in Seq(S)
    BY <2>7, <2>8, OneGroup
  <2>10. << a >> \o << b >> \in Seq(S) /\ << a >> \o << >> \in Seq(S)
    <3> HIDE DEF S
    <3> QED
      BY <2>9, ConcatProperties
  <2>11. WireTypes'
    BY <1>0, <2>1, <2>4, <2>6, <2>10, NewSends
  <2> QED
    BY <2>5, <2>11
<1> QED
  BY <1>2, <1>3, <1>4, <1>5, <1>6

(* The loops that receive from the peer, and the update loop.              *)
LEMMA ReceivingKeepsTypes ==
    ASSUME SessionTypes,
           \/ ControlReceives \/ CapReceived \/ AoiValidated \/ UpdateSubmits
           \/ \E t \in TheirAreas : AoiReceived(t)
    PROVE  SessionTypes'
<1> USE DEF SessionTypes
<1>0. {"control", "caps_recv", "aoi_recv", "update"} \subseteq Loops
  BY DEF Loops
<1>1. CASE ControlReceives
  <2> DEFINE G == {Msg("pai", "Established", {})}
  <2>1. G \subseteq Messages
    BY MessageFacts DEF Messages
  <2>2. \A m \in G : m.kind # "SubmitIntent"
    BY DEF Msg
  <2>3. todo' = [todo EXCEPT !["control"] = << G >>] /\ peer' = [peer EXCEPT !.reveal = FALSE]
    BY <1>1 DEF ControlReceives
  <2> HIDE DEF G
  <2>4. << G >> \in Seq(SUBSET Sendable("control", Messages))
    BY <2>1, <2>2, OneGroup
  <2>5. UNCHANGED << updates, handle, outcome, done, cancelled, result, dispatcher, finder, pai, targets, inbox, closed >>
    BY <1>1 DEF ControlReceives, app, ending, engines
  <2>6. AppTypes' /\ DispatcherTypes' /\ EngineTypes' /\ EndTypes' /\ Messages' = Messages
    BY <2>3, <2>5 DEF AppTypes, DispatcherTypes, EngineTypes, EndTypes, Messages
  <2> QED
    BY <1>0, <2>3, <2>4, <2>5, <2>6, NewSends
<1>2. CASE CapReceived
  <2> DEFINE G == {Msg("pai", "ReceivedReadCapForIntersection", {})}
  <2>1. G \subseteq Messages
    BY MessageFacts DEF Messages
  <2>2. \A m \in G : m.kind # "SubmitIntent"
    BY DEF Msg
  <2>3. todo' = [todo EXCEPT !["caps_recv"] = << G >>] /\ peer' = [peer EXCEPT !.cap = TRUE]
    BY <1>2 DEF CapReceived
  <2> HIDE DEF G
  <2>4. << G >> \in Seq(SUBSET Sendable("caps_recv", Messages))
    BY <2>1, <2>2, OneGroup
  <2>5. UNCHANGED << updates, handle, outcome, done, cancelled, result, dispatcher, finder, pai, targets, inbox, closed >>
    BY <1>2 DEF CapReceived, app, ending, engines
  <2>6. AppTypes' /\ DispatcherTypes' /\ EngineTypes' /\ EndTypes' /\ Messages' = Messages
    BY <2>3, <2>5 DEF AppTypes, DispatcherTypes, EngineTypes, EndTypes, Messages
  <2> QED
    BY <1>0, <2>3, <2>4, <2>5, <2>6, NewSends
<1>3. CASE AoiValidated
  <2>0. PICK t \in peer.waiting :
          todo' = [todo EXCEPT !["aoi_recv"] = << {Msg("intersection", "ReceivedValidatedAoi", t)} >>]
    BY <1>3 DEF AoiValidated
  <2> DEFINE G == {Msg("intersection", "ReceivedValidatedAoi", t)}
  <2>1. G \subseteq Messages
    BY MessageFacts DEF Messages, EngineTypes
  <2>2. \A m \in G : m.kind # "SubmitIntent"
    BY DEF Msg
  <2>3. todo' = [todo EXCEPT !["aoi_recv"] = << G >>] /\ peer' = [peer EXCEPT !.waiting = {}]
    BY <1>3, <2>0 DEF AoiValidated
  <2> HIDE DEF G
  <2>4. << G >> \in Seq(SUBSET Sendable("aoi_recv", Messages))
    BY <2>1, <2>2, OneGroup
  <2>5. UNCHANGED << updates, handle, outcome, done, cancelled, result, dispatcher, finder, pai, targets, inbox, closed >>
    BY <1>3 DEF AoiValidated, app, ending, engines
  <2>6. AppTypes' /\ DispatcherTypes' /\ EngineTypes' /\ EndTypes' /\ Messages' = Messages
    BY <2>3, <2>5 DEF AppTypes, DispatcherTypes, EngineTypes, EndTypes, Messages
  <2> QED
    BY <1>0, <2>3, <2>4, <2>5, <2>6, NewSends
<1>4. CASE UpdateSubmits
  <2> DEFINE G == {Msg("intents", "SubmitIntent", Head(updates))}
  <2>0. updates \in Seq(Intents \cup {Abort}) /\ updates # << >> /\ Head(updates) # Abort
    BY <1>4 DEF UpdateSubmits, AppTypes
  <2>1. Head(updates) \in Intents /\ Tail(updates) \in Seq(Intents \cup {Abort})
    BY <2>0
  <2>2. G \subseteq Messages
    BY <2>1, MessageFacts DEF Messages
  <2>3. todo' = [todo EXCEPT !["update"] = << G >>] /\ updates' = Tail(updates)
    BY <1>4 DEF UpdateSubmits
  <2>4. << G >> \in Seq(SUBSET Sendable("update", Messages))
    <3>1. G \in SUBSET Sendable("update", Messages)
      BY <2>2 DEF Sendable
    <3> HIDE DEF G
    <3> QED
      BY <3>1
  <2> HIDE DEF G
  <2>5. UNCHANGED << handle, outcome, done, cancelled, result, dispatcher, finder, pai, targets, peer, inbox, closed >>
    BY <1>4 DEF UpdateSubmits, ending, parts
  <2>6. AppTypes' /\ DispatcherTypes' /\ EngineTypes' /\ EndTypes' /\ Messages' = Messages
    BY <2>1, <2>3, <2>5 DEF AppTypes, DispatcherTypes, EngineTypes, EndTypes, Messages
  <2> QED
    BY <1>0, <2>3, <2>4, <2>5, <2>6, NewSends
<1>5. ASSUME NEW t \in TheirAreas, AoiReceived(t) PROVE SessionTypes'
  <2>1. UNCHANGED << app, engines, wires, ending, dispatcher >>
    BY <1>5 DEF AoiReceived
  <2>2. AppTypes' /\ DispatcherTypes' /\ EndTypes' /\ Messages' = Messages /\ WireTypes'
    BY <2>1 DEF AppTypes, DispatcherTypes, EndTypes, WireTypes, Messages, app, engines, wires, ending
  <2>3. EngineTypes'
    BY <1>5, <2>1 DEF AoiReceived, EngineTypes, engines
  <2> QED
    BY <2>2, <2>3
<1> QED
  BY <1>1, <1>2, <1>3, <1>4, <1>5

(* The loops end.                                                          *)
LEMMA EndingKeepsTypes ==
    ASSUME SessionTypes,
           \/ DispatcherEnds \/ FinderEnds \/ PaiEnds \/ ReconcilerEnds \/ ControlEnds
           \/ CapsRecvEnds \/ AoiRecvEnds \/ UpdateAborts \/ UpdateEnds
    PROVE  SessionTypes'
<1> USE DEF SessionTypes
<1>1. /\ UNCHANGED << handle, outcome, dispatcher, finder, pai, targets, peer, inbox, todo, result >>
      /\ updates' = updates \/ (updates # << >> /\ updates' = Tail(updates))
      /\ cancelled' \subseteq cancelled \cup {"session", "abort", "inboxes"}
      /\ closed' \subseteq closed \cup Inboxes \cup {"updates"}
      /\ done' \subseteq done \cup Loops
  BY DEF DispatcherEnds, FinderEnds, PaiEnds, ReconcilerEnds, ControlEnds, CapsRecvEnds, AoiRecvEnds,
         UpdateAborts, UpdateEnds, End, app, parts, wires, Inboxes, Loops
<1>2. updates' \in Seq(Intents \cup {Abort})
  <2>1. updates \in Seq(Intents \cup {Abort})
    BY DEF AppTypes
  <2>2. CASE updates # << >> /\ updates' = Tail(updates)
    BY <2>1, <2>2
  <2> QED
    BY <1>1, <2>1, <2>2
<1>3. AppTypes' /\ DispatcherTypes' /\ EngineTypes' /\ Messages' = Messages
  BY <1>1, <1>2 DEF AppTypes, DispatcherTypes, EngineTypes, Messages
<1>4. EndTypes' /\ WireTypes'
  BY <1>1, <1>3 DEF EndTypes, WireTypes
<1> QED
  BY <1>3, <1>4

(* The application and the peer.                                           *)
LEMMA OutsideKeepsTypes ==
    ASSUME SessionTypes,
           \/ \E i \in Intents : Submit(i) \/ Update(i) \/ DropHandle(i)
           \/ AbortSession \/ PeerCloses
    PROVE  SessionTypes'
<1> USE DEF SessionTypes
<1>1. ASSUME NEW i \in Intents, Submit(i) PROVE SessionTypes'
  <2>1. updates' \in Seq(Intents \cup {Abort})
    BY <1>1 DEF Submit, AppTypes
  <2>2. AppTypes'
    BY <1>1, <2>1 DEF Submit, AppTypes, Outcomes
  <2>3. DispatcherTypes' /\ EngineTypes' /\ EndTypes' /\ WireTypes'
    BY <1>1 DEF Submit, DispatcherTypes, EngineTypes, EndTypes, WireTypes, Messages, parts, wires, ending
  <2> QED
    BY <2>2, <2>3
<1>2. ASSUME NEW i \in Intents, Update(i) PROVE SessionTypes'
  <2>1. \A x \in Extra[i] : Msg(i, "AddInterests", x) \in SentUpdates
    BY AreaFacts DEF Msg, SentUpdates
  <2>2. Msg(i, "Close", {}) \in SentUpdates
    BY DEF Msg, SentUpdates
  <2> HIDE DEF SentUpdates, Msg
  <2>3. \/ \E x \in Extra[i] : handle' = [handle EXCEPT ![i].sent = << Msg(i, "AddInterests", x) >>]
        \/ handle' = [handle EXCEPT ![i].sent = << Msg(i, "Close", {}) >>, ![i].updates = FALSE]
    BY <1>2 DEF Update
  <2>4. handle' \in [Intents -> [updates: BOOLEAN, events: BOOLEAN, sent: Seq(SentUpdates)]]
    <3>1. \A m \in SentUpdates : << m >> \in Seq(SentUpdates)
      OBVIOUS
    <3>2. ASSUME NEW x \in Extra[i], handle' = [handle EXCEPT ![i].sent = << Msg(i, "AddInterests", x) >>]
          PROVE  handle' \in [Intents -> [updates: BOOLEAN, events: BOOLEAN, sent: Seq(SentUpdates)]]
      BY <2>1, <3>1, <3>2 DEF AppTypes
    <3>3. ASSUME handle' = [handle EXCEPT ![i].sent = << Msg(i, "Close", {}) >>, ![i].updates = FALSE]
          PROVE  handle' \in [Intents -> [updates: BOOLEAN, events: BOOLEAN, sent: Seq(SentUpdates)]]
      BY <2>2, <3>1, <3>3 DEF AppTypes
    <3> QED
      BY <2>3, <3>2, <3>3
  <2>5. AppTypes'
    BY <1>2, <2>4 DEF Update, AppTypes
  <2>6. DispatcherTypes' /\ EngineTypes' /\ EndTypes' /\ WireTypes'
    BY <1>2 DEF Update, DispatcherTypes, EngineTypes, EndTypes, WireTypes, Messages, parts, wires, ending
  <2> QED
    BY <2>5, <2>6
<1>3. ASSUME NEW i \in Intents, DropHandle(i) PROVE SessionTypes'
  <2>1. \/ handle' = [handle EXCEPT ![i].updates = FALSE]
        \/ handle' = [handle EXCEPT ![i].events = FALSE]
    BY <1>3 DEF DropHandle, AppTypes
  <2> DEFINE H == [updates: BOOLEAN, events: BOOLEAN, sent: Seq(SentUpdates)]
  <2>2. handle \in [Intents -> H] /\ handle[i] \in H
    BY DEF AppTypes
  <2>3. [handle[i] EXCEPT !.updates = FALSE] \in H /\ [handle[i] EXCEPT !.events = FALSE] \in H
    BY <2>2
  <2>4. \/ handle' = [handle EXCEPT ![i] = [handle[i] EXCEPT !.updates = FALSE]]
        \/ handle' = [handle EXCEPT ![i] = [handle[i] EXCEPT !.events = FALSE]]
    BY <2>1
  <2>5. handle' \in [Intents -> H]
    <3> HIDE DEF H
    <3> QED
      BY <2>2, <2>3, <2>4
  <2>6. AppTypes'
    BY <1>3, <2>5 DEF DropHandle, AppTypes
  <2>7. DispatcherTypes' /\ EngineTypes' /\ EndTypes' /\ WireTypes'
    BY <1>3 DEF DropHandle, DispatcherTypes, EngineTypes, EndTypes, WireTypes, Messages, parts, wires, ending
  <2> QED
    BY <2>6, <2>7
<1>4. CASE AbortSession
  <2>1. updates' \in Seq(Intents \cup {Abort})
    BY <1>4 DEF AbortSession, AppTypes
  <2>2. AppTypes'
    BY <1>4, <2>1 DEF AbortSession, AppTypes
  <2>3. DispatcherTypes' /\ EngineTypes' /\ EndTypes' /\ WireTypes'
    BY <1>4 DEF AbortSession, DispatcherTypes, EngineTypes, EndTypes, WireTypes, Messages, parts, wires, ending
  <2> QED
    BY <2>2, <2>3
<1>5. CASE PeerCloses
  <2>1. EngineTypes'
    BY <1>5 DEF PeerCloses, EngineTypes, engines
  <2>2. AppTypes' /\ DispatcherTypes' /\ EndTypes' /\ WireTypes'
    BY <1>5 DEF PeerCloses, AppTypes, DispatcherTypes, EndTypes, WireTypes, Messages, engines, wires, ending
  <2> QED
    BY <2>1, <2>2
<1> QED
  BY <1>1, <1>2, <1>3, <1>4, <1>5

(* Nothing is on the wires.                                                *)
LEMMA EmptyWires ==
    ASSUME NEW M
    PROVE  /\ Wired([b \in Inboxes |-> << >>], [l \in Loops |-> << >>], M)
           /\ \A b \in Inboxes : Len([c \in Inboxes |-> << >>][b]) <= InboxCap
<1>1. Len(<< >>) = 0 /\ 0 <= InboxCap
  BY SessionAssumption
<1>2. Wired([b \in Inboxes |-> << >>], [l \in Loops |-> << >>], M)
  BY DEF Wired
<1> QED
  BY <1>1, <1>2

(* A send waits for room, or has found it.                                 *)
Waiting == \E l \in PeerSenders \cup AppSenders : Waits(l) \/ Proceeds(l)

(* Nothing else changes with it, but what counts the waits.                *)
LEMMA WaitingIsQuiet ==
    ASSUME Waiting
    PROVE  /\ result = "running"
           /\ UNCHANGED << parts, ending, updates, handle, outcome, inbox, closed, todo >>
           /\ acts' = acts \/ (acts < MaxActs /\ acts' = acts + 1)
           /\ waits \subseteq PeerSenders \cup AppSenders => waits' \subseteq PeerSenders \cup AppSenders
<1>1. PICK l \in PeerSenders \cup AppSenders : Waits(l) \/ Proceeds(l)
  BY DEF Waiting
<1>2. CASE Waits(l)
  <2>1. waits' = waits \cup {l}
    BY <1>2 DEF Waits
  <2> QED
    BY <1>2, <2>1 DEF Waits, Act
<1>3. CASE Proceeds(l)
  <2>1. waits' = waits \ {l} /\ acts' = acts
    BY <1>3 DEF Proceeds, app
  <2>2. UNCHANGED << parts, ending, updates, handle, outcome, inbox, closed, todo >>
    BY <1>3 DEF Proceeds, app
  <2>3. result = "running"
    BY <1>3 DEF Proceeds
  <2>4. waits' \subseteq waits
    BY <2>1
  <2>5. acts' = acts \/ (acts < MaxActs /\ acts' = acts + 1)
    BY <2>1
  <2> QED
    BY <2>2, <2>3, <2>4, <2>5, Zenon
<1> QED
  BY <1>1, <1>2, <1>3

LEMMA WaitingKeepsTypes ==
    ASSUME SessionTypes, Waiting
    PROVE  SessionTypes'
<1> USE DEF SessionTypes
<1>1. AppTypes'
  BY WaitingIsQuiet DEF AppTypes
<1>2. DispatcherTypes' /\ EngineTypes' /\ EndTypes' /\ WireTypes'
  BY WaitingIsQuiet DEF DispatcherTypes, EngineTypes, EndTypes, WireTypes, Messages, parts, ending
<1> QED
  BY <1>1, <1>2

(* The session ends.                                                       *)
LEMMA EndKeepsTypes ==
    ASSUME SessionTypes, NEW err, NEW broken, SessionEnds(err, broken)
    PROVE  SessionTypes'
<1> USE DEF SessionTypes
<1>1. outcome' \in [Intents -> Outcomes]
  BY DEF SessionEnds, Remaining, AppTypes, Outcomes
<1>2. AppTypes' /\ EndTypes'
  BY <1>1 DEF SessionEnds, AppTypes, EndTypes
<1>3. DispatcherTypes'
  <2> DEFINE none == [i \in Intents |-> {}]
  <2>1. /\ dispatcher' = [dispatcher EXCEPT !.pending = << >>, !.intents = {}, !.watched = {},
                                            !.interests = none]
        /\ targets' = targets
    BY DEF SessionEnds
  <2>2. none \in [Intents -> SUBSET Areas] /\ << >> \in Seq(Intents)
    OBVIOUS
  <2> HIDE DEF none
  <2>3. /\ dispatcher' \in Dispatchers /\ dispatcher'.watched = {}
        /\ dispatcher'.complete_areas = dispatcher.complete_areas
    BY <2>1, <2>2 DEF DispatcherTypes, Dispatchers
  <2> QED
    BY <2>1, <2>3 DEF DispatcherTypes
<1>4. EngineTypes'
  <2>1. IsFiniteSet({})
    BY FS_EmptySet
  <2> QED
    BY <2>1 DEF SessionEnds, EngineTypes, NoFinder, NoPai, NoPeer, KnownAuths
<1>5. WireTypes'
  BY EmptyWires DEF SessionEnds, WireTypes
<1> QED
  BY <1>2, <1>3, <1>4, <1>5

LEMMA TypesInit ==
    ASSUME Init
    PROVE  SessionTypes
<1> USE DEF Init
<1>1. AppTypes
  <2>1. << >> \in Seq(Intents \cup {Abort}) /\ << >> \in Seq(SentUpdates)
    OBVIOUS
  <2>2. \A i \in Intents : NewHandle(i) \in [updates: BOOLEAN, events: BOOLEAN, sent: Seq(SentUpdates)]
    BY <2>1 DEF NewHandle
  <2>3. handle \in [Intents -> [updates: BOOLEAN, events: BOOLEAN, sent: Seq(SentUpdates)]]
    BY <2>2
  <2> QED
    BY <2>1, <2>3 DEF AppTypes, Outcomes
<1>2. DispatcherTypes
  BY SessionAssumption DEF DispatcherTypes, Dispatchers
<1>3. EngineTypes
  <2>1. IsFiniteSet({})
    BY FS_EmptySet
  <2> QED
    BY <2>1 DEF EngineTypes, NoFinder, NoPai, KnownAuths
<1>4. WireTypes
  BY EmptyWires DEF WireTypes
<1>5. EndTypes
  BY DEF EndTypes
<1> QED
  BY <1>1, <1>2, <1>3, <1>4, <1>5 DEF SessionTypes

LEMMA TypesStep ==
    ASSUME SessionTypes, [Next]_vars
    PROVE  SessionTypes'
<1>1. CASE UNCHANGED vars
  BY <1>1 DEF vars, app, parts, wires, ending, SessionTypes, AppTypes, DispatcherTypes, EngineTypes,
     WireTypes, EndTypes, Messages
<1>2. CASE Session
  <2>1. ASSUME NEW l \in Loops, Send(l) PROVE SessionTypes'
    BY <2>1, SendTypes
  <2>2. CASE SubmitBreaks \/ SessionCompletes
    BY <2>2, EndKeepsTypes DEF SubmitBreaks, SessionCompletes
  <2> QED
    BY <1>2, <2>1, <2>2, DispatcherKeepsTypes, FinderKeepsTypes, EnginesKeepTypes,
       ReceivingKeepsTypes, EndingKeepsTypes DEF Session
<1>3. CASE Environment
  BY <1>3, EnginesKeepTypes, ReceivingKeepsTypes, OutsideKeepsTypes, EndKeepsTypes, WaitingKeepsTypes
     DEF Environment, SessionFails, Waiting
<1> QED
  BY <1>1, <1>2, <1>3 DEF Next

(* Types of the session's parts: what the inboxes and the loops hold is    *)
(* messages whose authorisations the finder has interests for and whose    *)
(* areas the reconciler has reported, in inboxes that stay within their    *)
(* capacity.                                                               *)
THEOREM SessionTyped == Spec => []SessionTypes
<1>1. Init => SessionTypes
  BY TypesInit
<1>2. SessionTypes /\ [Next]_vars => SessionTypes'
  BY TypesStep
<1> QED
  BY <1>1, <1>2, PTL DEF Spec

-----------------------------------------------------------------------------
(* Where the intents are.                                                  *)

Handed(i) == Msg("intents", "SubmitIntent", i)
Handovers == { Handed(i) : i \in Intents }

(* The members of S occur once in s.                                       *)
Single(s, S) == \A j, k \in DOMAIN s : s[j] = s[k] /\ s[j] \in S => j = k

HandedIn(s) == { i \in Intents : Handed(i) \in Range(s) }
TakenIn(g)  == { m.arg : m \in UNION Range(g) }

(* The places an intent may be in, from the update channel to the          *)
(* dispatcher.                                                             *)
InUpdates == Range(updates) \ {Abort}
InLoop    == TakenIn(todo["update"])
InInbox   == HandedIn(inbox["intents"])
InPending == Range(dispatcher.pending)
Active    == dispatcher.intents

NoneTwice ==
    /\ Single(updates, Intents)
    /\ Single(inbox["intents"], Handovers)
    /\ Single(dispatcher.pending, Intents)

OnePlace ==
    /\ InUpdates \cap (InLoop \cup InInbox \cup InPending \cup Active) = {}
    /\ InLoop \cap (InInbox \cup InPending \cup Active) = {}
    /\ InInbox \cap (InPending \cup Active) = {}
    /\ InPending \cap Active = {}

UpdateLoopFits ==
    \/ todo["update"] = << >>
    \/ \E i \in Intents : todo["update"] = << {Handed(i)} >>

(* While the session runs the intents without an outcome are those that    *)
(* are somewhere, and the dispatcher's inbox takes messages.               *)
Placed ==
    /\ \A i \in Intents : outcome[i] = "none" <=>
          i \in InUpdates \cup InLoop \cup InInbox \cup InPending \cup Active
    /\ "intents" \notin closed

Places ==
    /\ NoneTwice /\ OnePlace /\ UpdateLoopFits
    /\ result = "running" => Placed
    /\ Ended => "updates" \in closed /\ \A i \in Intents : outcome[i] # "none"

LEMMA SingleTail ==
    ASSUME NEW T, NEW S, NEW s \in Seq(T), s # << >>, Single(s, S)
    PROVE  /\ Single(Tail(s), S)
           /\ Head(s) \in S => Head(s) \notin Range(Tail(s))
<1>1. /\ Head(s) = s[1] /\ 1 \in DOMAIN s
      /\ \A i \in DOMAIN Tail(s) : i + 1 \in DOMAIN s /\ i + 1 # 1 /\ Tail(s)[i] = s[i + 1]
  BY RangeTail
<1>2. DOMAIN Tail(s) \subseteq Nat
  <2>1. Tail(s) \in Seq(T)
    BY RangeTail
  <2> QED
    BY <2>1
<1>3. ASSUME NEW j \in DOMAIN Tail(s), NEW k \in DOMAIN Tail(s), Tail(s)[j] = Tail(s)[k], Tail(s)[j] \in S
      PROVE  j = k
  <2>1. j + 1 = k + 1
    BY <1>1, <1>3 DEF Single
  <2> QED
    BY <1>2, <2>1
<1>4. ASSUME Head(s) \in S, NEW k \in DOMAIN Tail(s), Tail(s)[k] = Head(s)
      PROVE  FALSE
  BY <1>1, <1>4 DEF Single
<1> QED
  BY <1>3, <1>4 DEF Single, Range

LEMMA SingleAppend ==
    ASSUME NEW T, NEW S, NEW s \in Seq(T), NEW e \in T, Single(s, S), e \notin S \/ e \notin Range(s)
    PROVE  Single(Append(s, e), S)
<1> DEFINE t == Append(s, e)
<1>1. /\ DOMAIN t = 1..(Len(s) + 1) /\ DOMAIN s = 1..Len(s) /\ Len(s) \in Nat
      /\ t[Len(s) + 1] = e /\ \A i \in 1..Len(s) : t[i] = s[i]
  OBVIOUS
<1>2. \A i \in DOMAIN t : i \in DOMAIN s \/ i = Len(s) + 1
  BY <1>1
<1> HIDE DEF t
<1>3. ASSUME NEW j \in DOMAIN t, NEW k \in DOMAIN t, t[j] = t[k], t[j] \in S
      PROVE  j = k
  <2>1. CASE j \in DOMAIN s /\ k \in DOMAIN s
    BY <1>1, <1>3, <2>1 DEF Single
  <2>2. CASE j = Len(s) + 1 /\ k \in DOMAIN s
    <3>1. s[k] = e /\ e \in S
      BY <1>1, <1>3, <2>2
    <3> QED
      BY <2>2, <3>1 DEF Range
  <2>3. CASE j \in DOMAIN s /\ k = Len(s) + 1
    <3>1. s[j] = e /\ e \in S
      BY <1>1, <1>3, <2>3
    <3> QED
      BY <2>3, <3>1 DEF Range
  <2> QED
    BY <1>2, <2>1, <2>2, <2>3
<1> QED
  BY <1>3 DEF Single, t

(* Messages that hand over intents.                                        *)
LEMMA HandedFacts ==
    /\ \A i, j : Handed(i) = Handed(j) => i = j
    /\ \A i : Handed(i).kind = "SubmitIntent" /\ Handed(i).to = "intents" /\ Handed(i).arg = i
    /\ \A m \in Handovers : m.kind = "SubmitIntent" /\ m.arg \in Intents /\ m = Handed(m.arg)
<1>1. \A i : Handed(i).kind = "SubmitIntent" /\ Handed(i).to = "intents" /\ Handed(i).arg = i
  BY DEF Handed, Msg
<1>2. \A i, j : Handed(i) = Handed(j) => i = j
  BY <1>1
<1> QED
  BY <1>1, <1>2 DEF Handovers

LEMMA HandedBack ==
    ASSUME NEW m \in Messages, m.kind = "SubmitIntent"
    PROVE  m.arg \in Intents /\ m = Handed(m.arg)
<1>1. m.to = "intents" /\ m.arg \in Intents
  BY DEF Messages, Message, Honest
<1>2. m \in [to: Inboxes \cup {"run"}, kind: Kinds, arg: Arguments]
  BY DEF Messages, Message
<1>3. m = [to |-> "intents", kind |-> "SubmitIntent", arg |-> m.arg]
  BY <1>1, <1>2
<1> QED
  BY <1>1, <1>3 DEF Handed, Msg

LEMMA TakenFacts ==
    /\ TakenIn(<< >>) = {}
    /\ \A i : TakenIn(<< {Handed(i)} >>) = {i}
<1>1. Range(<< >>) = {}
  BY DEF Range
<1>2. TakenIn(<< >>) = {}
  BY <1>1 DEF TakenIn
<1>3. ASSUME NEW i PROVE TakenIn(<< {Handed(i)} >>) = {i}
  <2> DEFINE g == {Handed(i)}
  <2>1. Range(<< g >>) = {g}
    BY DEF Range
  <2>2. UNION Range(<< g >>) = {Handed(i)}
    BY <2>1
  <2>3. { m.arg : m \in {Handed(i)} } = {Handed(i).arg}
    OBVIOUS
  <2> QED
    BY <2>2, <2>3, HandedFacts DEF TakenIn
<1> QED
  BY <1>2, <1>3

(* The places hold intents; Queued are those the dispatcher has not begun  *)
(* to work on.                                                             *)
LEMMA PlacesHoldIntents ==
    ASSUME SessionTypes, UpdateLoopFits
    PROVE  /\ InUpdates \subseteq Intents /\ InLoop \subseteq Intents /\ InInbox \subseteq Intents
           /\ InPending \subseteq Intents /\ Active \subseteq Intents
           /\ Queued = InUpdates \cup InInbox \cup InPending
           /\ InUpdateLoop = InLoop
<1>1. InUpdates \subseteq Intents
  BY DEF InUpdates, Range, SessionTypes, AppTypes
<1>2. InLoop \subseteq Intents /\ InUpdateLoop = InLoop
  BY TakenFacts DEF InLoop, UpdateLoopFits, InUpdateLoop, TakenIn
<1>3. InInbox \subseteq Intents
  BY DEF InInbox, HandedIn
<1>4. InPending \subseteq Intents /\ Active \subseteq Intents
  BY DEF InPending, Active, Range, SessionTypes, DispatcherTypes, Dispatchers
<1>5. { m.arg : m \in { m \in Range(inbox["intents"]) : m.kind = "SubmitIntent" } } = InInbox
  <2>1. Range(inbox["intents"]) \subseteq Messages
    <3>1. inbox["intents"] \in Seq(Received("intents", Messages))
      BY DEF SessionTypes, WireTypes, Wired, Inboxes
    <3> QED
      BY <3>1 DEF Range, Received
  <2> DEFINE R == Range(inbox["intents"])
  <2> HIDE DEF R
  <2>2. \A m \in R : m.kind = "SubmitIntent" => m.arg \in Intents /\ m = Handed(m.arg)
    BY <2>1, HandedBack DEF R
  <2>3. { m.arg : m \in { m \in R : m.kind = "SubmitIntent" } } = { i \in Intents : Handed(i) \in R }
    BY <2>2, HandedFacts
  <2> QED
    BY <2>3 DEF R, InInbox, HandedIn
<1> QED
  BY <1>1, <1>2, <1>3, <1>4, <1>5 DEF Queued, InUpdates, InPending

(* The steps that move no intent.                                          *)
Quiet ==
    /\ UNCHANGED << updates, outcome, result >>
    /\ inbox'["intents"] = inbox["intents"] /\ todo'["update"] = todo["update"]
    /\ dispatcher'.pending = dispatcher.pending /\ dispatcher'.intents = dispatcher.intents
    /\ "intents" \in closed' => "intents" \in closed

LEMMA QuietSteps ==
    ASSUME SessionTypes,
           \/ UNCHANGED vars
           \/ \E i \in Intents : AddInterests(i) \/ Unwatch(i)
           \/ DispatcherEnds \/ FinderEnds \/ PaiEnds \/ ReconcilerEnds \/ ControlEnds
           \/ CapsRecvEnds \/ AoiRecvEnds \/ UpdateEnds
           \/ FinderAddInterests \/ FinderPaiIntersection \/ FinderValidatedAoi
           \/ PaiTakes \/ ReconcilerTakes \/ ReconciledAll \/ AoiValidated
           \/ \E auth \in Common : PaiIntersection(auth)
           \/ \E q \in targets.open : CompleteTarget(q)
           \/ ControlReceives \/ CapReceived
           \/ \E t \in TheirAreas : AoiReceived(t)
           \/ \E i \in Intents : Update(i) \/ DropHandle(i)
           \/ PeerCloses \/ Waiting
    PROVE  Quiet
<1> USE DEF Quiet
<1>0. DOMAIN inbox = Inboxes /\ DOMAIN todo = Loops /\ "intents" \in Inboxes /\ "update" \in Loops
  BY DEF SessionTypes, WireTypes, Wired, Inboxes, Loops
<1>1. CASE UNCHANGED vars
  BY <1>1 DEF vars, app, parts, wires, ending
<1>2. ASSUME NEW i \in Intents, AddInterests(i) \/ Unwatch(i) PROVE Quiet
  BY <1>0, <1>2 DEF AddInterests, Unwatch, ending, app, wires, SessionTypes, DispatcherTypes, Dispatchers
<1>3. CASE \/ DispatcherEnds \/ FinderEnds \/ PaiEnds \/ ReconcilerEnds \/ ControlEnds
           \/ CapsRecvEnds \/ AoiRecvEnds \/ UpdateEnds
  BY <1>3 DEF DispatcherEnds, FinderEnds, PaiEnds, ReconcilerEnds, ControlEnds, CapsRecvEnds, AoiRecvEnds,
     UpdateEnds, app, parts, wires
<1>4. CASE FinderAddInterests \/ FinderPaiIntersection \/ FinderValidatedAoi
  <2>1. \E out : Take("intersection", "intersection", out)
    BY <1>4 DEF FinderAddInterests, FinderPaiIntersection, FinderValidatedAoi
  <2>2. UNCHANGED << updates, outcome, result, dispatcher, closed >>
    BY <1>4 DEF FinderAddInterests, FinderPaiIntersection, FinderValidatedAoi, app, ending
  <2> QED
    BY <1>0, <2>1, <2>2 DEF Take
<1>5. CASE PaiTakes \/ ReconcilerTakes
  <2>1. Take("pai", "pai", << >>) \/ Take("reconciler", "reconciler", << >>)
    BY <1>5 DEF PaiTakes, ReconcilerTakes
  <2>2. UNCHANGED << updates, outcome, result, dispatcher, closed >>
    BY <1>5 DEF PaiTakes, ReconcilerTakes, app, ending
  <2> QED
    BY <1>0, <2>1, <2>2 DEF Take
<1>6. CASE ReconciledAll
  BY <1>0, <1>6 DEF ReconciledAll, app, parts
<1>7. CASE AoiValidated \/ ControlReceives \/ CapReceived
  BY <1>0, <1>7 DEF AoiValidated, ControlReceives, CapReceived, app, ending
<1>8. ASSUME NEW auth \in Common, PaiIntersection(auth) PROVE Quiet
  BY <1>0, <1>8 DEF PaiIntersection, app, ending
<1>9. ASSUME NEW q \in targets.open, CompleteTarget(q) PROVE Quiet
  BY <1>0, <1>9 DEF CompleteTarget, app, ending
<1>10. ASSUME NEW t \in TheirAreas, AoiReceived(t) PROVE Quiet
  BY <1>10 DEF AoiReceived, app, wires, ending
<1>11. ASSUME NEW i \in Intents, Update(i) \/ DropHandle(i) PROVE Quiet
  BY <1>11 DEF Update, DropHandle, parts, wires, ending
<1>12. CASE PeerCloses
  BY <1>12 DEF PeerCloses, wires, ending
<1>13. CASE Waiting
  BY <1>13, WaitingIsQuiet DEF parts, ending
<1> QED
  BY <1>1, <1>2, <1>3, <1>4, <1>5, <1>6, <1>7, <1>8, <1>9, <1>10, <1>11, <1>12, <1>13

LEMMA QuietKeepsPlaces ==
    ASSUME Places, Quiet, closed \subseteq closed' \/ result = "running"
    PROVE  Places'
<1> USE DEF Quiet
<1>1. UNCHANGED << InUpdates, InLoop, InInbox, InPending, Active >>
  BY DEF InUpdates, InLoop, InInbox, InPending, Active
<1>2. NoneTwice' /\ UpdateLoopFits'
  BY DEF Places, NoneTwice, UpdateLoopFits
<1>3. OnePlace'
  BY <1>1 DEF Places, OnePlace
<1>4. (result = "running" => Placed)'
  BY <1>1 DEF Places, Placed
<1> QED
  BY <1>2, <1>3, <1>4 DEF Places, Ended

(* A step of the session, or of what is around it.                         *)
LEMMA Running ==
    ASSUME Next, ~ \E i \in Intents : Submit(i)
    PROVE  result = "running"
BY DEF Next, Session, Environment, Send, SubmitPending, SubmitFromInbox, EmitFromInbox, SubmitBreaks,
   DispatcherEnds, AddInterests, CancelIntent, Unwatch, FinderAddInterests, FinderPaiIntersection,
   FinderValidatedAoi, FinderEnds, PaiTakes, PaiEnds, ReconcilerTakes, ReconciledAll, ReconcilerEnds,
   ControlEnds, CapsRecvEnds, AoiValidated, AoiRecvEnds, UpdateSubmits, UpdateAborts, UpdateEnds,
   SessionCompletes, PaiIntersection, CompleteTarget, ControlReceives, CapReceived, AoiReceived,
   Update, DropHandle, AbortSession, PeerCloses, SessionFails, Waits, Proceeds, End, HasInput,
   Ready, Act

LEMMA HandedMore ==
    ASSUME NEW T, NEW s \in Seq(T), NEW m \in T
    PROVE  HandedIn(Append(s, m)) = HandedIn(s) \cup { i \in Intents : m = Handed(i) }
BY RangeAppend DEF HandedIn

LEMMA HandedLess ==
    ASSUME NEW T, NEW s \in Seq(T), s # << >>
    PROVE  HandedIn(s) = HandedIn(Tail(s)) \cup { i \in Intents : Head(s) = Handed(i) }
BY RangeTail DEF HandedIn

(* The sequences the intents are in.                                       *)
LEMMA PlacesAreSequences ==
    ASSUME SessionTypes
    PROVE  /\ inbox["intents"] \in Seq(Messages)
           /\ updates \in Seq(Intents \cup {Abort})
           /\ dispatcher.pending \in Seq(Intents)
           /\ DOMAIN inbox = Inboxes /\ DOMAIN todo = Loops
           /\ "intents" \in Inboxes /\ "intents" \in Loops /\ "update" \in Loops
<1>1. inbox["intents"] \in Seq(Received("intents", Messages))
  BY DEF SessionTypes, WireTypes, Wired, Inboxes
<1>2. Received("intents", Messages) \subseteq Messages
  BY DEF Received
<1>3. inbox["intents"] \in Seq(Messages)
  BY <1>1, <1>2, SeqMonotonic
<1> QED
  BY <1>3 DEF SessionTypes, AppTypes, DispatcherTypes, Dispatchers, WireTypes, Wired, Inboxes, Loops

(* One awaited send.                                                       *)
LEMMA SendKeepsPlaces ==
    ASSUME SessionTypes, Places, NEW l \in Loops, Send(l)
    PROVE  Places'
<1>0. /\ inbox["intents"] \in Seq(Messages) /\ DOMAIN inbox = Inboxes /\ DOMAIN todo = Loops
      /\ "intents" \in Inboxes /\ "update" \in Loops
  BY PlacesAreSequences
<1>1. /\ UNCHANGED << updates, outcome, dispatcher, closed, result >> /\ result = "running"
      /\ todo[l] # << >>
  BY DEF Send, app, parts, ending
<1>2. PICK m \in Head(todo[l]) :
          /\ m.to \in Inboxes
          /\ m.to \in closed \/ Len(inbox[m.to]) < InboxCap
          /\ inbox' = IF m.to \in closed THEN inbox
                      ELSE [inbox EXCEPT ![m.to] = Append(@, m)]
          /\ todo' = [todo EXCEPT ![l] = Without(@, m)]
  BY DEF Send
<1>3. m \in Sendable(l, Messages) /\ m \in Messages
  <2>1. todo[l] \in Seq(SUBSET Sendable(l, Messages))
    BY DEF SessionTypes, WireTypes, Wired
  <2>2. Head(todo[l]) \in SUBSET Sendable(l, Messages)
    BY <1>1, <2>1
  <2> QED
    BY <2>2 DEF Sendable
<1>4. \/ inbox'["intents"] = inbox["intents"] /\ m.to # "intents"
      \/ inbox'["intents"] = Append(inbox["intents"], m) /\ m.to = "intents"
  BY <1>0, <1>1, <1>2 DEF Places, Placed
<1>5. UNCHANGED << InUpdates, InPending, Active >>
  BY <1>1 DEF InUpdates, InPending, Active
<1>6. CASE l = "update"
  <2>1. PICK i \in Intents : todo["update"] = << {Handed(i)} >>
    BY <1>1, <1>6 DEF Places, UpdateLoopFits
  <2>2. m = Handed(i) /\ todo'["update"] = << >>
    <3>1. Head(todo["update"]) = {Handed(i)} /\ Tail(todo["update"]) = << >>
      BY <2>1
    <3>2. m = Handed(i)
      BY <1>2, <1>6, <3>1
    <3> QED
      BY <1>0, <1>2, <1>6, <3>1, <3>2 DEF Without
  <2>3. InLoop = {i} /\ InLoop' = {}
    BY <2>1, <2>2, TakenFacts DEF InLoop
  <2>4. inbox'["intents"] = Append(inbox["intents"], m)
    BY <1>4, <2>2, HandedFacts
  <2>5. InInbox' = InInbox \cup {i}
    <3>1. { j \in Intents : m = Handed(j) } = {i}
      BY <2>2, HandedFacts
    <3> QED
      BY <1>0, <1>3, <2>4, <3>1, HandedMore DEF InInbox
  <2>6. i \notin InInbox
    BY <2>3 DEF Places, OnePlace
  <2>7. Single(inbox'["intents"], Handovers)
    <3>1. m \notin Range(inbox["intents"])
      BY <2>2, <2>6 DEF InInbox, HandedIn
    <3>2. Single(inbox["intents"], Handovers)
      BY DEF Places, NoneTwice
    <3> QED
      BY <1>0, <1>3, <2>4, <3>1, <3>2, SingleAppend
  <2>8. NoneTwice' /\ UpdateLoopFits'
    BY <1>1, <2>2, <2>7 DEF Places, NoneTwice, UpdateLoopFits
  <2>9. OnePlace'
    BY <1>5, <2>3, <2>5 DEF Places, OnePlace
  <2>10. Placed'
    BY <1>1, <1>5, <2>3, <2>5 DEF Places, Placed
  <2> QED
    BY <1>1, <2>8, <2>9, <2>10 DEF Places, Ended
<1>7. CASE l # "update"
  <2>1. todo'["update"] = todo["update"] /\ m.kind # "SubmitIntent"
    BY <1>0, <1>2, <1>3, <1>7 DEF Sendable
  <2>2. m \notin Handovers /\ \A i \in Intents : m # Handed(i)
    BY <2>1, HandedFacts
  <2>3. InLoop' = InLoop
    BY <2>1 DEF InLoop
  <2>4. InInbox' = InInbox /\ Single(inbox'["intents"], Handovers)
    <3>1. CASE inbox'["intents"] = inbox["intents"]
      BY <3>1 DEF InInbox, Places, NoneTwice
    <3>2. CASE inbox'["intents"] = Append(inbox["intents"], m)
      <4>1. { j \in Intents : m = Handed(j) } = {}
        BY <2>2
      <4>2. InInbox' = InInbox
        <5>1. InInbox' = HandedIn(inbox["intents"]) \cup { j \in Intents : m = Handed(j) }
          BY <1>0, <1>3, <3>2, HandedMore DEF InInbox
        <5> QED
          BY <4>1, <5>1 DEF InInbox
      <4>3. Single(inbox["intents"], Handovers)
        BY DEF Places, NoneTwice
      <4>4. Single(inbox'["intents"], Handovers)
        BY <1>0, <1>3, <2>2, <3>2, <4>3, SingleAppend
      <4> QED
        BY <4>2, <4>4
    <3> QED
      BY <1>4, <3>1, <3>2
  <2>5. NoneTwice' /\ UpdateLoopFits'
    BY <1>1, <2>1, <2>4 DEF Places, NoneTwice, UpdateLoopFits
  <2>6. OnePlace' /\ Placed'
    BY <1>1, <1>5, <2>3, <2>4 DEF Places, OnePlace, Placed
  <2> QED
    BY <1>1, <2>5, <2>6 DEF Places, Ended
<1> QED
  BY <1>6, <1>7

(* submit_intent: an intent leaves a queue for the dispatcher, or it is    *)
(* complete.                                                               *)
LEMMA SubmitKeepsPlaces ==
    ASSUME SessionTypes, Places, SubmitPending \/ SubmitFromInbox
    PROVE  Places'
<1>0. /\ inbox["intents"] \in Seq(Messages) /\ DOMAIN inbox = Inboxes /\ DOMAIN todo = Loops
      /\ "intents" \in Inboxes /\ "update" \in Loops /\ dispatcher.pending \in Seq(Intents)
  BY PlacesAreSequences
<1>1. /\ UNCHANGED << updates, closed, result >> /\ result = "running"
      /\ todo'["update"] = todo["update"]
  BY <1>0 DEF SubmitPending, SubmitFromInbox, Take, Ready, HasInput, ending
<1>2. UNCHANGED << InUpdates, InLoop >> /\ UpdateLoopFits'
  BY <1>1 DEF InUpdates, InLoop, Places, UpdateLoopFits
<1>3. outcome \in [Intents -> Outcomes] /\ DispatcherTypes /\ dispatcher \in Dispatchers
  BY DEF SessionTypes, AppTypes, DispatcherTypes
<1>4. ASSUME NEW i \in Intents, NEW rest \in Dispatchers, SubmitIntent(i, rest),
             rest.intents = dispatcher.intents, rest.watched = dispatcher.watched,
             rest.complete_areas = dispatcher.complete_areas
      PROVE  /\ dispatcher'.pending = rest.pending
             /\ \/ /\ Active' = Active
                   /\ outcome' = [outcome EXCEPT ![i] = "complete"]
                \/ /\ Active' = Active \cup {i}
                   /\ outcome' = outcome
  <2>1. /\ dispatcher'.pending = rest.pending
        /\ \/ /\ dispatcher'.intents = rest.intents
              /\ outcome' = [outcome EXCEPT ![i] = "complete"]
           \/ /\ dispatcher'.intents = rest.intents \cup {i}
              /\ outcome' = outcome
    BY <1>3, <1>4, SubmitFacts
  <2> QED
    BY <1>4, <2>1, Zenon DEF Active
<1>5. CASE SubmitPending
  <2> DEFINE i == Head(dispatcher.pending)
             rest == [dispatcher EXCEPT !.pending = Tail(dispatcher.pending)]
  <2>1. /\ i \in Intents /\ Tail(dispatcher.pending) \in Seq(Intents)
        /\ InPending = {i} \cup Range(Tail(dispatcher.pending))
        /\ i \notin Range(Tail(dispatcher.pending)) /\ Single(Tail(dispatcher.pending), Intents)
    BY <1>0, <1>5, RangeTail, SingleTail DEF SubmitPending, InPending, Places, NoneTwice
  <2>2. /\ rest \in Dispatchers /\ rest.intents = dispatcher.intents /\ rest.watched = dispatcher.watched
        /\ rest.complete_areas = dispatcher.complete_areas /\ rest.pending = Tail(dispatcher.pending)
    BY <1>3, <2>1 DEF Dispatchers
  <2>3. SubmitIntent(i, rest) /\ inbox' = inbox
    BY <1>5 DEF SubmitPending
  <2> HIDE DEF i, rest
  <2>4. /\ dispatcher'.pending = Tail(dispatcher.pending)
        /\ \/ Active' = Active /\ outcome' = [outcome EXCEPT ![i] = "complete"]
           \/ Active' = Active \cup {i} /\ outcome' = outcome
    BY <1>4, <2>1, <2>2, <2>3
  <2>5. InPending = {i} \cup InPending' /\ i \notin InPending' /\ InInbox' = InInbox
    BY <2>1, <2>3, <2>4 DEF InPending, InInbox
  <2>6. NoneTwice'
    BY <1>1, <2>1, <2>3, <2>4 DEF Places, NoneTwice
  <2>7. OnePlace'
    BY <1>2, <2>4, <2>5 DEF Places, OnePlace
  <2>8. Placed'
    BY <1>1, <1>2, <1>3, <2>1, <2>4, <2>5 DEF Places, Placed, OnePlace
  <2> QED
    BY <1>1, <1>2, <2>6, <2>7, <2>8 DEF Places, Ended
<1>6. CASE SubmitFromInbox
  <2> DEFINE i == Arg("intents")
             s == inbox["intents"]
  <2>1. s # << >> /\ Head(s).kind = "SubmitIntent" /\ s \in Seq(Messages) /\ Single(s, Handovers)
    BY <1>0, <1>6 DEF SubmitFromInbox, HasInput, Places, NoneTwice
  <2>2. i \in Intents /\ Head(s) = Handed(i)
    <3>1. Head(s) \in Messages
      BY <2>1
    <3> QED
      BY <2>1, <3>1, HandedBack DEF Arg
  <2>3. SubmitIntent(i, dispatcher) /\ inbox'["intents"] = Tail(s)
    BY <1>0, <1>6 DEF SubmitFromInbox, Take
  <2> HIDE DEF i, s
  <2>4. /\ dispatcher'.pending = dispatcher.pending
        /\ \/ Active' = Active /\ outcome' = [outcome EXCEPT ![i] = "complete"]
           \/ Active' = Active \cup {i} /\ outcome' = outcome
    BY <1>3, <1>4, <2>2, <2>3
  <2>5. InInbox = InInbox' \cup {i} /\ i \notin InInbox' /\ InPending' = InPending
    <3>1. { j \in Intents : Head(s) = Handed(j) } = {i}
      BY <2>2, HandedFacts
    <3>2. InInbox = InInbox' \cup {i}
      BY <2>1, <2>3, <3>1, HandedLess DEF InInbox, s
    <3>3. Handed(i) \notin Range(Tail(s))
      BY <2>1, <2>2, SingleTail DEF Handovers
    <3> QED
      BY <2>3, <2>4, <3>2, <3>3 DEF InInbox, HandedIn, InPending
  <2>6. NoneTwice'
    <3>1. Single(Tail(s), Handovers)
      BY <2>1, SingleTail
    <3> QED
      BY <1>1, <2>3, <2>4, <3>1 DEF Places, NoneTwice
  <2>7. OnePlace'
    BY <1>2, <2>4, <2>5 DEF Places, OnePlace
  <2>8. Placed'
    BY <1>1, <1>2, <1>3, <2>2, <2>4, <2>5 DEF Places, Placed, OnePlace
  <2> QED
    BY <1>1, <1>2, <2>6, <2>7, <2>8 DEF Places, Ended
<1> QED
  BY <1>5, <1>6

(* Intents leave the dispatcher at an event, or are cancelled.             *)
LEMMA LeavingKeepsPlaces ==
    ASSUME SessionTypes, Places, EmitFromInbox \/ \E i \in Intents : CancelIntent(i)
    PROVE  Places'
<1>0. /\ inbox["intents"] \in Seq(Messages) /\ DOMAIN inbox = Inboxes /\ DOMAIN todo = Loops
      /\ "intents" \in Inboxes /\ "update" \in Loops
  BY PlacesAreSequences
<1>1. /\ UNCHANGED << updates, closed, result >> /\ result = "running"
      /\ todo'["update"] = todo["update"]
  BY <1>0 DEF EmitFromInbox, CancelIntent, Take, Ready, HasInput, wires
<1>2. UNCHANGED << InUpdates, InLoop >> /\ UpdateLoopFits'
  BY <1>1 DEF InUpdates, InLoop, Places, UpdateLoopFits
<1>3. outcome \in [Intents -> Outcomes] /\ dispatcher \in Dispatchers
  BY DEF SessionTypes, AppTypes, DispatcherTypes
<1>4. CASE EmitFromInbox
  <2> DEFINE m == Head(inbox["intents"])
             s == inbox["intents"]
  <2>1. s # << >> /\ m.kind # "SubmitIntent" /\ Single(s, Handovers) /\ m \in Messages
    <3>1. s # << >> /\ m.kind # "SubmitIntent" /\ Single(s, Handovers)
      BY <1>4 DEF EmitFromInbox, HasInput, Places, NoneTwice
    <3> QED
      BY <1>0, <3>1
  <2>2. m.kind = "Reconciled" => m.arg \in Areas
    BY <2>1 DEF Messages, Message, Honest
  <2>3. /\ dispatcher' = EmitEvent(dispatcher, m) /\ outcome' = OutcomeOf(dispatcher, m)
        /\ inbox'["intents"] = Tail(s)
    BY <1>0, <1>4 DEF EmitFromInbox, Take
  <2>4. s \in Seq(Messages) /\ m = Head(s)
    BY <1>0
  <2> HIDE DEF m, s
  <2>5. dispatcher'.pending = dispatcher.pending /\ Active' \subseteq Active
    BY <1>3, <2>2, <2>3, EmitFacts DEF Active
  <2>6. \A i \in Intents : IF i \in Active \ Active' THEN outcome'[i] # "none" ELSE outcome'[i] = outcome[i]
    <3>1. Active' = EmitEvent(dispatcher, m).intents /\ Active = dispatcher.intents
      BY <2>3 DEF Active
    <3> QED
      BY <2>3, <3>1 DEF OutcomeOf
  <2>7. InInbox' = InInbox /\ InPending' = InPending
    <3>1. { j \in Intents : m = Handed(j) } = {}
      BY <2>1, HandedFacts
    <3>2. InInbox = HandedIn(Tail(s)) \cup { j \in Intents : m = Handed(j) }
      BY <2>1, <2>4, HandedLess DEF InInbox, s
    <3>3. InInbox = HandedIn(Tail(s))
      BY <3>1, <3>2
    <3> QED
      BY <2>3, <2>5, <3>3 DEF InInbox, InPending
  <2>8. NoneTwice'
    <3>1. Single(Tail(s), Handovers)
      BY <2>1, <2>4, SingleTail
    <3> QED
      BY <1>1, <2>3, <2>5, <3>1 DEF Places, NoneTwice
  <2>9. OnePlace'
    BY <1>2, <2>5, <2>7 DEF Places, OnePlace
  <2>10. Placed'
    BY <1>1, <1>2, <2>5, <2>6, <2>7 DEF Places, Placed, OnePlace
  <2> QED
    BY <1>1, <1>2, <2>8, <2>9, <2>10 DEF Places, Ended
<1>5. ASSUME NEW i \in Intents, CancelIntent(i) PROVE Places'
  <2>1. /\ dispatcher'.pending = dispatcher.pending /\ Active' = Active \ {i}
        /\ outcome' = [outcome EXCEPT ![i] = "cancelled"]
    BY <1>3, <1>5 DEF CancelIntent, CancelIntents, Active, Dispatchers
  <2>2. i \in Active /\ inbox' = inbox
    BY <1>5 DEF CancelIntent, Active, wires, SessionTypes, DispatcherTypes
  <2>3. InInbox' = InInbox /\ InPending' = InPending
    BY <2>1, <2>2 DEF InInbox, InPending
  <2>4. NoneTwice'
    BY <1>1, <2>1, <2>2 DEF Places, NoneTwice
  <2>5. OnePlace'
    BY <1>2, <2>1, <2>3 DEF Places, OnePlace
  <2>6. Placed'
    BY <1>1, <1>2, <1>3, <2>1, <2>2, <2>3 DEF Places, Placed, OnePlace
  <2> QED
    BY <1>1, <1>2, <2>4, <2>5, <2>6 DEF Places, Ended
<1> QED
  BY <1>4, <1>5

(* The update channel.                                                     *)
LEMMA UpdatesKeepPlaces ==
    ASSUME SessionTypes, Places,
           UpdateSubmits \/ UpdateAborts \/ AbortSession \/ \E i \in Intents : Submit(i)
    PROVE  Places'
<1>0. /\ updates \in Seq(Intents \cup {Abort}) /\ DOMAIN todo = Loops /\ "update" \in Loops
      /\ Single(updates, Intents) /\ Abort \notin Intents
  BY PlacesAreSequences, SessionAssumption DEF Places, NoneTwice, Abort
<1>1. UNCHANGED << dispatcher, inbox, closed, result >> /\ result = "running"
  BY DEF UpdateSubmits, UpdateAborts, AbortSession, Submit, Ready, Act, parts, wires, ending,
     Places, Ended, SessionTypes, EndTypes
<1>2. UNCHANGED << InInbox, InPending, Active >>
  BY <1>1 DEF InInbox, InPending, Active
<1>3. outcome \in [Intents -> Outcomes]
  BY DEF SessionTypes, AppTypes
<1>4. ASSUME Single(updates', Intents) PROVE NoneTwice'
  BY <1>1, <1>4 DEF Places, NoneTwice
<1>5. CASE UpdateSubmits
  <2> DEFINE i == Head(updates)
  <2>1. updates # << >> /\ i # Abort /\ updates' = Tail(updates) /\ todo["update"] = << >> /\ outcome' = outcome
    BY <1>5 DEF UpdateSubmits, Ready
  <2>2. todo'["update"] = << {Handed(i)} >>
    BY <1>0, <1>5 DEF UpdateSubmits, Handed
  <2>3. i \in Intents /\ Range(updates) = {i} \cup Range(updates')
    BY <1>0, <2>1, RangeTail
  <2>4. Single(updates', Intents) /\ i \notin Range(updates')
    BY <1>0, <2>1, <2>3, SingleTail
  <2> HIDE DEF i
  <2>5. InUpdates = {i} \cup InUpdates' /\ i \notin InUpdates'
    BY <2>1, <2>3, <2>4 DEF InUpdates
  <2>6. InLoop = {} /\ InLoop' = {i}
    BY <2>1, <2>2, TakenFacts DEF InLoop
  <2>7. UpdateLoopFits'
    BY <2>2, <2>3 DEF UpdateLoopFits
  <2>8. OnePlace' /\ Placed'
    BY <1>1, <1>2, <2>1, <2>5, <2>6 DEF Places, OnePlace, Placed
  <2> QED
    BY <1>1, <1>4, <2>4, <2>7, <2>8 DEF Places, Ended
<1>6. CASE UpdateAborts
  <2>1. /\ updates # << >> /\ Head(updates) = Abort /\ updates' = Tail(updates)
        /\ todo' = todo /\ outcome' = outcome
    BY <1>6 DEF UpdateAborts, wires
  <2>2. Range(updates) = {Abort} \cup Range(updates') /\ Single(updates', Intents)
    BY <1>0, <2>1, RangeTail, SingleTail
  <2>3. InUpdates' = InUpdates /\ InLoop' = InLoop
    BY <2>1, <2>2 DEF InUpdates, InLoop
  <2>4. UpdateLoopFits'
    BY <2>1 DEF Places, UpdateLoopFits
  <2>5. OnePlace' /\ Placed'
    BY <1>1, <1>2, <2>1, <2>3 DEF Places, OnePlace, Placed
  <2> QED
    BY <1>1, <1>4, <2>2, <2>4, <2>5 DEF Places, Ended
<1>7. CASE AbortSession
  <2>1. updates' = Append(updates, Abort) /\ todo' = todo /\ outcome' = outcome
    BY <1>7 DEF AbortSession, wires
  <2>2. Range(updates') = Range(updates) \cup {Abort} /\ Single(updates', Intents)
    BY <1>0, <2>1, RangeAppend, SingleAppend
  <2>3. InUpdates' = InUpdates /\ InLoop' = InLoop
    BY <2>1, <2>2 DEF InUpdates, InLoop
  <2>4. UpdateLoopFits'
    BY <2>1 DEF Places, UpdateLoopFits
  <2>5. OnePlace' /\ Placed'
    BY <1>1, <1>2, <2>1, <2>3 DEF Places, OnePlace, Placed
  <2> QED
    BY <1>1, <1>4, <2>2, <2>4, <2>5 DEF Places, Ended
<1>8. ASSUME NEW i \in Intents, Submit(i) PROVE Places'
  <2>1. /\ updates' = Append(updates, i) /\ todo' = todo /\ outcome[i] = "unsubmitted"
        /\ outcome' = [outcome EXCEPT ![i] = "none"]
    BY <1>8 DEF Submit, wires
  <2>2. i \notin InUpdates \cup InLoop \cup InInbox \cup InPending \cup Active
    BY <1>1, <2>1 DEF Places, Placed
  <2>3. i \notin Range(updates)
    BY <1>0, <2>2 DEF InUpdates
  <2>4. Range(updates') = Range(updates) \cup {i} /\ Single(updates', Intents)
    BY <1>0, <2>1, <2>3, RangeAppend, SingleAppend
  <2>5. InUpdates' = InUpdates \cup {i} /\ InLoop' = InLoop
    BY <1>0, <2>1, <2>4 DEF InUpdates, InLoop
  <2>6. UpdateLoopFits'
    BY <2>1 DEF Places, UpdateLoopFits
  <2>7. OnePlace'
    BY <1>2, <2>2, <2>5 DEF Places, OnePlace
  <2>8. Placed'
    BY <1>1, <1>2, <1>3, <2>1, <2>5 DEF Places, Placed
  <2> QED
    BY <1>1, <1>4, <2>4, <2>6, <2>7, <2>8 DEF Places, Ended
<1> QED
  BY <1>5, <1>6, <1>7, <1>8

(* The session ends, and every intent with it.                             *)
LEMMA EndKeepsPlaces ==
    ASSUME SessionTypes, Places, result = "running", NEW err, NEW broken, SessionEnds(err, broken)
    PROVE  Places'
<1>1. /\ updates' = << >> /\ dispatcher'.pending = << >> /\ dispatcher'.intents = {}
      /\ inbox'["intents"] = << >> /\ todo'["update"] = << >> /\ "updates" \in closed'
      /\ result' # "running"
  BY DEF SessionEnds, SessionTypes, DispatcherTypes, Dispatchers, Inboxes, Loops
<1>2. Range(<< >>) = {} /\ \A S : Single(<< >>, S)
  BY DEF Range, Single
<1>3. InUpdates' = {} /\ InInbox' = {} /\ InPending' = {} /\ Active' = {} /\ InLoop' = {}
  BY <1>1, <1>2, TakenFacts DEF InUpdates, InLoop, InInbox, HandedIn, InPending, Active
<1>4. NoneTwice' /\ UpdateLoopFits'
  BY <1>1, <1>2 DEF NoneTwice, UpdateLoopFits
<1>5. OnePlace'
  BY <1>3 DEF OnePlace
<1>6. ASSUME NEW i \in Intents, NEW failed PROVE Remaining(failed)[i] # "none"
  <2>1. Queued = InUpdates \cup InInbox \cup InPending /\ InUpdateLoop = InLoop
    BY PlacesHoldIntents DEF Places
  <2>2. outcome[i] # "none" \/ i \in Queued \/ i \in dispatcher.intents \/ i \in InUpdateLoop
    BY <2>1 DEF Places, Placed, Active
  <2> HIDE DEF Queued, InUpdateLoop, Drain
  <2> QED
    BY <2>2 DEF Remaining
<1>7. \A i \in Intents : outcome'[i] # "none"
  BY <1>6 DEF SessionEnds
<1> QED
  BY <1>1, <1>4, <1>5, <1>7 DEF Places

LEMMA PlacesInit ==
    ASSUME Init
    PROVE  Places
<1> USE DEF Init
<1>1. Range(<< >>) = {} /\ \A S : Single(<< >>, S)
  BY DEF Range, Single
<1>2. /\ updates = << >> /\ dispatcher.pending = Initial /\ dispatcher.intents = {}
      /\ inbox["intents"] = << >> /\ todo["update"] = << >> /\ closed = {} /\ result = "running"
      /\ outcome = [i \in Intents |-> IF i \in Range(Initial) THEN "none" ELSE "unsubmitted"]
  BY DEF Inboxes, Loops
<1>3. InUpdates = {} /\ InInbox = {} /\ InPending = Range(Initial) /\ Active = {} /\ InLoop = {}
  BY <1>1, <1>2, TakenFacts DEF InUpdates, InLoop, InInbox, HandedIn, InPending, Active
<1>4. Single(Initial, Intents)
  BY SessionAssumption DEF Single, IsInjective
<1>5. NoneTwice /\ UpdateLoopFits
  BY <1>1, <1>2, <1>4 DEF NoneTwice, UpdateLoopFits
<1>6. OnePlace /\ Placed
  BY <1>2, <1>3 DEF OnePlace, Placed
<1> QED
  BY <1>2, <1>5, <1>6 DEF Places, Ended

LEMMA PlacesStep ==
    ASSUME SessionTypes, Places, [Next]_vars
    PROVE  Places'
<1>1. CASE UNCHANGED vars
  <2>1. Quiet /\ closed' = closed
    BY <1>1, QuietSteps DEF vars, wires
  <2> QED
    BY <2>1, QuietKeepsPlaces
<1>2. ASSUME NEW i \in Intents, Submit(i) PROVE Places'
  BY <1>2, UpdatesKeepPlaces
<1>3. CASE Next /\ ~ \E i \in Intents : Submit(i)
  <2>1. result = "running"
    BY <1>3, Running
  <2>2. CASE Session
    <3>1. ASSUME NEW l \in Loops, Send(l) PROVE Places'
      BY <3>1, SendKeepsPlaces
    <3>2. CASE SubmitBreaks \/ SessionCompletes
      BY <2>1, <3>2, EndKeepsPlaces DEF SubmitBreaks, SessionCompletes
    <3> QED
      BY <2>1, <2>2, <3>1, <3>2, SubmitKeepsPlaces, LeavingKeepsPlaces, UpdatesKeepPlaces,
         QuietSteps, QuietKeepsPlaces DEF Session
  <2>3. CASE Environment
    BY <1>3, <2>1, <2>3, UpdatesKeepPlaces, EndKeepsPlaces, QuietSteps, QuietKeepsPlaces
       DEF Environment, SessionFails, Waiting
  <2> QED
    BY <1>3, <2>2, <2>3 DEF Next
<1> QED
  BY <1>1, <1>2, <1>3

(* While a session runs every intent that was handed to it and has no      *)
(* outcome yet is in one of its queues or in the dispatcher, and in one    *)
(* place only; so run_session, which drains the queues at the end, leaves   *)
(* none without an outcome, however the session comes to it.               *)
THEOREM SessionSettles == Spec => [](Places /\ IntentsAreSettled)
<1>1. Init => SessionTypes /\ Places
  BY TypesInit, PlacesInit
<1>2. SessionTypes /\ Places /\ [Next]_vars => SessionTypes' /\ Places'
  BY TypesStep, PlacesStep
<1>3. Places => IntentsAreSettled
  BY DEF Places, IntentsAreSettled
<1> QED
  BY <1>1, <1>2, <1>3, PTL DEF Spec

-----------------------------------------------------------------------------
(* What an intent waits for, and what was reconciled.                      *)

Covered(x) == \E a \in targets.reported : x \subseteq a

(* What an intent asked for and does not wait for any more is reconciled.  *)
WaitsForTheRest ==
    \A i \in dispatcher.intents : \A x \in dispatcher.asked[i] :
        x \in dispatcher.interests[i] \/ Covered(x)

AreasInv == WaitsForTheRest /\ CompleteIsReconciled

(* The dispatcher after the first n messages that drain_all finds.         *)
DrainStep(f, n) ==
    IF n = 0 THEN dispatcher
    ELSE IF inbox["intents"][n].kind = "SubmitIntent" THEN f[n - 1]
    ELSE EmitEvent(f[n - 1], inbox["intents"][n])

LEMMA DrainSteps ==
    ASSUME Len(inbox["intents"]) \in Nat
    PROVE  \E f : /\ f = [n \in 0..Len(inbox["intents"]) |-> DrainStep(f, n)]
                  /\ Drain = f[Len(inbox["intents"])]
<1> DEFINE L == Len(inbox["intents"])
           Steps(f, n) == f = [k \in 0..n |-> DrainStep(f, k)]
           S == { n \in Nat : \E f : Steps(f, n) }
<1>1. 0 \in S
  <2> DEFINE f == [k \in 0..0 |-> dispatcher]
  <2>1. Steps(f, 0)
    BY DEF DrainStep
  <2> QED
    BY <2>1
<1>2. ASSUME NEW n \in Nat, n \in S PROVE n + 1 \in S
  <2>1. PICK f : Steps(f, n)
    BY <1>2
  <2> DEFINE g == [k \in 0..(n + 1) |-> IF k <= n THEN f[k] ELSE DrainStep(f, n + 1)]
  <2>2. ASSUME NEW k \in 0..(n + 1) PROVE g[k] = DrainStep(g, k)
    <3>1. CASE k <= n
      <4>1. k \in 0..n /\ g[k] = f[k] /\ (k # 0 => g[k - 1] = f[k - 1])
        BY <3>1
      <4>2. f[k] = DrainStep(f, k)
        BY <2>1, <4>1
      <4> HIDE DEF g
      <4> QED
        BY <4>1, <4>2 DEF DrainStep
    <3>2. CASE k = n + 1
      <4>1. g[k] = DrainStep(f, n + 1) /\ k # 0 /\ k - 1 = n /\ g[n] = f[n] /\ (n + 1) - 1 = n
        BY <3>2
      <4> HIDE DEF g
      <4> QED
        BY <3>2, <4>1 DEF DrainStep
    <3> QED
      BY <3>1, <3>2
  <2>3. Steps(g, n + 1)
    BY <2>2
  <2>4. \E h : Steps(h, n + 1)
    <3> HIDE DEF Steps, g
    <3> QED
      BY <2>3
  <2> HIDE DEF Steps
  <2> QED
    BY <2>4
<1>3. L \in S
  <2> HIDE DEF S
  <2> QED
    BY <1>1, <1>2, NatSetInduction
<1>4. \E f : Steps(f, L)
  BY <1>3
<1>5. PICK f : f = CHOOSE after : Steps(after, L)
  OBVIOUS
<1>6. Drain = f[L]
  BY <1>5 DEF Drain, DrainStep
<1>7. Steps(f, L)
  <2> HIDE DEF Steps
  <2> QED
    BY <1>4, <1>5
<1> QED
  BY <1>6, <1>7

(* The events that are left at the end take from the intents' areas only   *)
(* what is reconciled.                                                     *)
LEMMA DrainFacts ==
    ASSUME SessionTypes
    PROVE  \A i \in Intents : \A x \in dispatcher.interests[i] : x \in Drain.interests[i] \/ Covered(x)
<1> DEFINE s == inbox["intents"]
           L == Len(s)
<1>1. s \in Seq(Messages) /\ L \in Nat
  BY PlacesAreSequences, LenProperties
<1>2. PICK f : f = [n \in 0..L |-> DrainStep(f, n)] /\ Drain = f[L]
  BY <1>1, DrainSteps
<1>3. \A n \in 0..L : f[n] = DrainStep(f, n)
  BY <1>2
<1> DEFINE Fine(d) == /\ d \in Dispatchers
                      /\ \A i \in Intents : \A x \in dispatcher.interests[i] :
                            x \in d.interests[i] \/ Covered(x)
           S == { n \in Nat : n <= L => Fine(f[n]) }
<1>4. 0 \in S
  <2>1. f[0] = dispatcher
    BY <1>1, <1>3 DEF DrainStep
  <2> QED
    BY <2>1 DEF SessionTypes, DispatcherTypes
<1>5. ASSUME NEW n \in Nat, n \in S PROVE n + 1 \in S
  <2> SUFFICES ASSUME n + 1 <= L PROVE Fine(f[n + 1])
    OBVIOUS
  <2> DEFINE m == s[n + 1]
             d == f[n]
  <2>1. n + 1 \in 0..L /\ n + 1 # 0 /\ (n + 1) - 1 = n /\ n <= L /\ n + 1 \in 1..L
    BY <1>1
  <2>2. Fine(d)
    BY <1>5, <2>1
  <2>3. f[n + 1] = IF m.kind = "SubmitIntent" THEN d ELSE EmitEvent(d, m)
    BY <1>3, <2>1 DEF DrainStep
  <2>4. m \in Messages
    BY <1>1, <2>1
  <2>5. m.kind = "Reconciled" => m.arg \in Areas /\ m.arg \in targets.reported
    BY <2>4 DEF Messages, Message, Honest
  <2> HIDE DEF m, d
  <2>6. CASE f[n + 1] = EmitEvent(d, m)
    <3> DEFINE e == EmitEvent(d, m)
    <3>1. /\ e \in Dispatchers
          /\ \A i \in Intents : \A x \in d.interests[i] :
                x \in e.interests[i] \/ (m.kind = "Reconciled" /\ x \subseteq m.arg)
      BY <2>2, <2>5, EmitFacts
    <3> HIDE DEF e
    <3>2. \A i \in Intents : \A x \in d.interests[i] : x \in e.interests[i] \/ Covered(x)
      BY <2>5, <3>1 DEF Covered
    <3>3. Fine(e)
      BY <2>2, <3>1, <3>2
    <3> QED
      BY <2>6, <3>3 DEF e
  <2> QED
    BY <2>2, <2>3, <2>6
<1>6. L \in S
  <2> HIDE DEF S
  <2> QED
    BY <1>1, <1>4, <1>5, NatSetInduction
<1>7. Fine(f[L])
  BY <1>1, <1>6
<1> QED
  BY <1>2, <1>7

(* A step that leaves the dispatcher and the outcomes alone.               *)
LEMMA AreasStay ==
    ASSUME AreasInv, dispatcher' = dispatcher, targets.reported \subseteq targets'.reported,
           \A i \in Intents : outcome'[i] = "complete" => outcome[i] = "complete"
    PROVE  AreasInv'
BY DEF AreasInv, WaitsForTheRest, CompleteIsReconciled, Covered

LEMMA QuietAreas ==
    ASSUME SessionTypes,
           \/ UNCHANGED vars
           \/ \E l \in Loops : Send(l)
           \/ DispatcherEnds \/ FinderEnds \/ PaiEnds \/ ReconcilerEnds \/ ControlEnds
           \/ CapsRecvEnds \/ AoiRecvEnds \/ UpdateEnds \/ UpdateSubmits \/ UpdateAborts
           \/ FinderAddInterests \/ FinderPaiIntersection \/ FinderValidatedAoi
           \/ PaiTakes \/ ReconcilerTakes \/ ReconciledAll \/ AoiValidated
           \/ \E auth \in Common : PaiIntersection(auth)
           \/ \E q \in targets.open : CompleteTarget(q)
           \/ ControlReceives \/ CapReceived
           \/ \E t \in TheirAreas : AoiReceived(t)
           \/ \E i \in Intents : Submit(i) \/ Update(i) \/ DropHandle(i)
           \/ AbortSession \/ PeerCloses \/ Waiting
    PROVE  /\ dispatcher' = dispatcher /\ targets.reported \subseteq targets'.reported
           /\ \A i \in Intents : outcome'[i] = "complete" => outcome[i] = "complete"
<1>0. Waiting => UNCHANGED << dispatcher, targets, outcome >>
  BY WaitingIsQuiet DEF parts, engines
<1>1. dispatcher' = dispatcher
  BY <1>0 DEF vars, Send, DispatcherEnds, FinderEnds, PaiEnds, ReconcilerEnds, ControlEnds, CapsRecvEnds,
     AoiRecvEnds, UpdateEnds, UpdateSubmits, UpdateAborts, FinderAddInterests, FinderPaiIntersection,
     FinderValidatedAoi, PaiTakes, ReconcilerTakes, ReconciledAll, AoiValidated, PaiIntersection,
     CompleteTarget, ControlReceives, CapReceived, AoiReceived, Submit, Update, DropHandle,
     AbortSession, PeerCloses, parts
<1>2. \/ targets' = targets
      \/ ReconcilerTakes
      \/ \E q \in targets.open : CompleteTarget(q)
  BY <1>0 DEF vars, Send, DispatcherEnds, FinderEnds, PaiEnds, ReconcilerEnds, ControlEnds, CapsRecvEnds,
     AoiRecvEnds, UpdateEnds, UpdateSubmits, UpdateAborts, FinderAddInterests, FinderPaiIntersection,
     FinderValidatedAoi, PaiTakes, ReconciledAll, AoiValidated, PaiIntersection,
     ControlReceives, CapReceived, AoiReceived, Submit, Update, DropHandle,
     AbortSession, PeerCloses, parts, engines
<1>3. targets.reported \subseteq targets'.reported
  <2>1. targets \in [open: SUBSET Pairs, given: SUBSET Pairs, reported: SUBSET Areas]
    BY DEF SessionTypes, EngineTypes
  <2>2. CASE ReconcilerTakes
    BY <2>1, <2>2 DEF ReconcilerTakes
  <2>3. ASSUME NEW q \in targets.open, CompleteTarget(q) PROVE targets.reported \subseteq targets'.reported
    <3> DEFINE area == Area(q[1]) \cap q[2]
    <3>1. targets' = [targets EXCEPT !.open = @ \ {q}, !.reported = @ \cup {area}]
      BY <2>3 DEF CompleteTarget
    <3> HIDE DEF area
    <3> QED
      BY <2>1, <3>1
  <2> QED
    BY <1>2, <2>2, <2>3
<1>4. outcome' = outcome \/ \E i \in Intents : Submit(i)
  BY <1>0 DEF vars, Send, DispatcherEnds, FinderEnds, PaiEnds, ReconcilerEnds, ControlEnds, CapsRecvEnds,
     AoiRecvEnds, UpdateEnds, UpdateSubmits, UpdateAborts, FinderAddInterests, FinderPaiIntersection,
     FinderValidatedAoi, PaiTakes, ReconcilerTakes, ReconciledAll, AoiValidated, PaiIntersection,
     CompleteTarget, ControlReceives, CapReceived, AoiReceived, Update, DropHandle,
     AbortSession, PeerCloses, app
<1>5. ASSUME NEW i \in Intents, outcome'[i] = "complete" PROVE outcome[i] = "complete"
  BY <1>4, <1>5 DEF Submit, SessionTypes, AppTypes
<1> QED
  BY <1>1, <1>3, <1>5

(* submit_intent, from either queue.                                       *)
LEMMA SubmitKeepsAreas ==
    ASSUME SessionTypes, Places, AreasInv, SubmitPending \/ SubmitFromInbox
    PROVE  AreasInv'
<1>0. DispatcherTypes /\ dispatcher \in Dispatchers /\ outcome \in [Intents -> Outcomes]
  BY DEF SessionTypes, DispatcherTypes, AppTypes
<1>1. result = "running" /\ targets' = targets
  BY DEF SubmitPending, SubmitFromInbox, Ready, HasInput, engines
<1>2. PICK i \in Intents, rest \in Dispatchers :
          /\ SubmitIntent(i, rest) /\ i \in InInbox \cup InPending
          /\ rest.intents = dispatcher.intents /\ rest.watched = dispatcher.watched
          /\ rest.complete_areas = dispatcher.complete_areas
          /\ rest.interests = dispatcher.interests /\ rest.asked = dispatcher.asked
  <2>1. CASE SubmitPending
    <3> DEFINE i == Head(dispatcher.pending)
               rest == [dispatcher EXCEPT !.pending = Tail(dispatcher.pending)]
    <3>1. /\ i \in Intents /\ Tail(dispatcher.pending) \in Seq(Intents) /\ i \in InPending
      BY <2>1, RangeTail, PlacesAreSequences DEF SubmitPending, InPending
    <3>2. /\ rest \in Dispatchers /\ rest.intents = dispatcher.intents /\ rest.watched = dispatcher.watched
          /\ rest.complete_areas = dispatcher.complete_areas
          /\ rest.interests = dispatcher.interests /\ rest.asked = dispatcher.asked
      BY <1>0, <3>1 DEF Dispatchers
    <3>3. SubmitIntent(i, rest)
      BY <2>1 DEF SubmitPending
    <3> HIDE DEF i, rest
    <3> QED
      BY <3>1, <3>2, <3>3
  <2>2. CASE SubmitFromInbox
    <3> DEFINE i == Arg("intents")
               s == inbox["intents"]
    <3>1. s # << >> /\ Head(s).kind = "SubmitIntent" /\ s \in Seq(Messages)
      BY <2>2, PlacesAreSequences DEF SubmitFromInbox, HasInput
    <3>2. Head(s) \in Messages /\ Head(s) \in Range(s)
      BY <3>1, RangeTail
    <3>3. i \in Intents /\ Head(s) = Handed(i)
      BY <3>1, <3>2, HandedBack DEF Arg
    <3>4. i \in InInbox
      BY <3>2, <3>3 DEF InInbox, HandedIn
    <3>5. SubmitIntent(i, dispatcher)
      BY <2>2 DEF SubmitFromInbox
    <3> HIDE DEF i, s
    <3> QED
      BY <1>0, <3>3, <3>4, <3>5
  <2> QED
    BY <2>1, <2>2
<1>3. outcome[i] = "none" /\ i \notin dispatcher.intents
  BY <1>1, <1>2 DEF Places, Placed, OnePlace, Active
<1> DEFINE all  == flatten_interests(Interests[i])
           left == { x \in all : \A a \in dispatcher.complete_areas : ~ x \subseteq a }
<1>4. /\ dispatcher'.asked = [dispatcher.asked EXCEPT ![i] = all]
      /\ \/ /\ is_complete(i, left)
            /\ dispatcher'.intents = dispatcher.intents
            /\ dispatcher'.interests = dispatcher.interests
            /\ outcome' = [outcome EXCEPT ![i] = "complete"]
         \/ /\ dispatcher'.intents = dispatcher.intents \cup {i}
            /\ dispatcher'.interests = [dispatcher.interests EXCEPT ![i] = left]
            /\ outcome' = outcome
  <2>1. /\ dispatcher'.asked = [rest.asked EXCEPT ![i] = all]
        /\ \/ /\ is_complete(i, left)
              /\ dispatcher'.intents = rest.intents
              /\ dispatcher'.interests = rest.interests
              /\ outcome' = [outcome EXCEPT ![i] = "complete"]
           \/ /\ dispatcher'.intents = rest.intents \cup {i}
              /\ dispatcher'.interests = [rest.interests EXCEPT ![i] = left]
              /\ outcome' = outcome
    BY <1>0, <1>2, SubmitFacts, Zenon
  <2> HIDE DEF all, left
  <2> QED
    BY <1>2, <2>1
<1>5. \A x \in all : x \in left \/ Covered(x)
  BY <1>0 DEF DispatcherTypes, Covered
<1>6. dispatcher.asked \in [Intents -> SUBSET Areas] /\ dispatcher.interests \in [Intents -> SUBSET Areas]
      /\ dispatcher.intents \subseteq Intents
  BY <1>0 DEF Dispatchers
<1> HIDE DEF all, left
<1>7. \A x : Covered(x)' <=> Covered(x)
  BY <1>1 DEF Covered
<1>8. WaitsForTheRest'
  <2> SUFFICES ASSUME NEW j \in dispatcher'.intents, NEW x \in dispatcher'.asked[j]
               PROVE  x \in dispatcher'.interests[j] \/ Covered(x)
    BY <1>7 DEF WaitsForTheRest
  <2>1. CASE j = i
    <3>1. dispatcher'.interests[i] = left /\ x \in all
      BY <1>2, <1>3, <1>4, <1>6, <2>1
    <3> QED
      BY <1>5, <2>1, <3>1
  <2>2. CASE j # i
    <3>1. j \in dispatcher.intents /\ dispatcher'.interests[j] = dispatcher.interests[j]
          /\ dispatcher'.asked[j] = dispatcher.asked[j]
      BY <1>4, <1>6, <2>2
    <3> QED
      BY <3>1 DEF AreasInv, WaitsForTheRest
  <2> QED
    BY <2>1, <2>2
<1>9. CompleteIsReconciled'
  <2> SUFFICES ASSUME NEW j \in Intents, outcome'[j] = "complete", NEW x \in dispatcher'.asked[j]
               PROVE  Covered(x)
    BY <1>1 DEF CompleteIsReconciled, Covered
  <2>1. CASE j = i
    <3>1. left = {} /\ x \in all
      BY <1>0, <1>3, <1>4, <1>6, <2>1 DEF is_complete
    <3> QED
      BY <1>5, <3>1
  <2>2. CASE j # i
    <3>1. outcome[j] = "complete" /\ dispatcher'.asked[j] = dispatcher.asked[j]
      BY <1>0, <1>4, <1>6, <2>2
    <3> QED
      BY <3>1 DEF AreasInv, CompleteIsReconciled, Covered
  <2> QED
    BY <2>1, <2>2
<1> QED
  BY <1>8, <1>9 DEF AreasInv

(* The other actions of the dispatcher.                                    *)
LEMMA DispatcherKeepsAreas ==
    ASSUME SessionTypes, Places, AreasInv,
           EmitFromInbox \/ \E i \in Intents : AddInterests(i) \/ CancelIntent(i) \/ Unwatch(i)
    PROVE  AreasInv'
<1>0. /\ dispatcher \in Dispatchers /\ outcome \in [Intents -> Outcomes]
      /\ dispatcher.watched \subseteq dispatcher.intents /\ dispatcher.intents \subseteq Intents
      /\ dispatcher.asked \in [Intents -> SUBSET Areas] /\ dispatcher.interests \in [Intents -> SUBSET Areas]
  BY DEF SessionTypes, DispatcherTypes, AppTypes, Dispatchers
<1>1. result = "running" /\ targets' = targets
  BY DEF EmitFromInbox, AddInterests, CancelIntent, Unwatch, Ready, HasInput, engines
<1>2. \A x : Covered(x)' <=> Covered(x)
  BY <1>1 DEF Covered
<1>3. CASE EmitFromInbox
  <2> DEFINE m == Head(inbox["intents"])
  <2>1. m \in Messages /\ dispatcher' = EmitEvent(dispatcher, m) /\ outcome' = OutcomeOf(dispatcher, m)
    BY <1>3, HeadIsMessage DEF EmitFromInbox, HasInput, Inboxes
  <2>2. m.kind = "Reconciled" => m.arg \in Areas /\ m.arg \in targets.reported
    BY <2>1 DEF Messages, Message, Honest
  <2> HIDE DEF m
  <2>3. /\ dispatcher'.asked = dispatcher.asked /\ dispatcher'.intents \subseteq dispatcher.intents
        /\ \A i \in Intents : \A x \in dispatcher.interests[i] :
              x \in dispatcher'.interests[i] \/ (m.kind = "Reconciled" /\ x \subseteq m.arg)
        /\ \A i \in dispatcher.intents \ dispatcher'.intents :
              (SendFails(i) /\ Matches(dispatcher, i, m)) \/ is_complete(i, dispatcher'.interests[i])
    BY <1>0, <2>1, <2>2, EmitFacts
  <2>4. \A i \in Intents : \A x \in dispatcher.interests[i] : x \in dispatcher'.interests[i] \/ Covered(x)
    BY <2>2, <2>3 DEF Covered
  <2>5. \A i \in Intents : outcome'[i] = "complete" =>
           \/ outcome[i] = "complete"
           \/ i \in dispatcher.intents /\ is_complete(i, dispatcher'.interests[i])
    <3>1. \A i \in Intents : outcome'[i] = "complete" =>
             \/ outcome[i] = "complete"
             \/ i \in dispatcher.intents \ dispatcher'.intents /\ ~ (SendFails(i) /\ Matches(dispatcher, i, m))
      BY <2>1 DEF OutcomeOf
    <3> QED
      BY <2>3, <3>1
  <2>6. \A i \in dispatcher.intents : \A x \in dispatcher.asked[i] : x \in dispatcher'.interests[i] \/ Covered(x)
    BY <1>0, <2>4 DEF AreasInv, WaitsForTheRest
  <2>7. WaitsForTheRest'
    BY <1>2, <2>3, <2>6 DEF WaitsForTheRest
  <2>8. CompleteIsReconciled'
    <3> SUFFICES ASSUME NEW j \in Intents, outcome'[j] = "complete", NEW x \in dispatcher.asked[j]
                 PROVE  Covered(x)
      BY <1>1, <2>3 DEF CompleteIsReconciled, Covered
    <3>1. CASE outcome[j] = "complete"
      BY <3>1 DEF AreasInv, CompleteIsReconciled, Covered
    <3>2. CASE j \in dispatcher.intents /\ is_complete(j, dispatcher'.interests[j])
      BY <2>6, <3>2 DEF is_complete
    <3> QED
      BY <2>5, <3>1, <3>2
  <2> QED
    BY <2>7, <2>8 DEF AreasInv
<1>4. ASSUME NEW i \in Intents, AddInterests(i) PROVE AreasInv'
  <2> DEFINE a == Area(Head(handle[i].sent).arg)
  <2>1. /\ dispatcher' = [dispatcher EXCEPT !.interests[i] = @ \cup {a}, !.asked[i] = @ \cup {a}]
        /\ outcome' = outcome /\ i \in dispatcher.watched
    BY <1>4 DEF AddInterests
  <2> HIDE DEF a
  <2>2. /\ dispatcher'.intents = dispatcher.intents
        /\ \A j \in Intents : IF j = i
              THEN /\ dispatcher'.interests[j] = dispatcher.interests[j] \cup {a}
                   /\ dispatcher'.asked[j] = dispatcher.asked[j] \cup {a}
              ELSE /\ dispatcher'.interests[j] = dispatcher.interests[j]
                   /\ dispatcher'.asked[j] = dispatcher.asked[j]
    BY <1>0, <2>1 DEF Dispatchers
  <2>3. outcome[i] # "complete"
    BY <1>0, <1>1, <2>1 DEF Places, Placed, Active
  <2>4. WaitsForTheRest'
    BY <1>0, <1>2, <2>2 DEF AreasInv, WaitsForTheRest
  <2>5. CompleteIsReconciled'
    <3> SUFFICES ASSUME NEW j \in Intents, outcome'[j] = "complete", NEW x \in dispatcher'.asked[j]
                 PROVE  Covered(x)
      BY <1>1 DEF CompleteIsReconciled, Covered
    <3>1. j # i /\ outcome[j] = "complete" /\ x \in dispatcher.asked[j]
      BY <2>1, <2>2, <2>3
    <3> QED
      BY <3>1 DEF AreasInv, CompleteIsReconciled, Covered
  <2> QED
    BY <2>4, <2>5 DEF AreasInv
<1>5. ASSUME NEW i \in Intents, CancelIntent(i) \/ Unwatch(i) PROVE AreasInv'
  <2>1. /\ dispatcher'.intents \subseteq dispatcher.intents
        /\ dispatcher'.interests = dispatcher.interests /\ dispatcher'.asked = dispatcher.asked
        /\ outcome' = outcome \/ outcome' = [outcome EXCEPT ![i] = "cancelled"]
    BY <1>0, <1>5 DEF CancelIntent, CancelIntents, Unwatch, Dispatchers, app
  <2>2. \A j \in Intents : outcome'[j] = "complete" => outcome[j] = "complete"
    BY <1>0, <2>1
  <2>3. WaitsForTheRest'
    BY <1>2, <2>1 DEF AreasInv, WaitsForTheRest
  <2>4. CompleteIsReconciled'
    BY <1>1, <2>1, <2>2 DEF AreasInv, CompleteIsReconciled
  <2> QED
    BY <2>3, <2>4 DEF AreasInv
<1> QED
  BY <1>3, <1>4, <1>5

(* drain_all, at the end of the session.                                   *)
LEMMA EndKeepsAreas ==
    ASSUME SessionTypes, AreasInv, NEW err, NEW broken, SessionEnds(err, broken)
    PROVE  AreasInv'
<1>1. dispatcher \in Dispatchers /\ dispatcher.intents \subseteq Intents
  BY DEF SessionTypes, DispatcherTypes, Dispatchers
<1>2. dispatcher'.intents = {} /\ dispatcher'.asked = dispatcher.asked /\ targets' = targets
  BY <1>1 DEF SessionEnds, Dispatchers
<1>3. ASSUME NEW i \in Intents, NEW failed, Remaining(failed)[i] = "complete"
      PROVE  \/ outcome[i] = "complete"
             \/ i \in dispatcher.intents /\ is_complete(i, Drain.interests[i])
  <2> HIDE DEF Queued, InUpdateLoop, Drain, is_complete
  <2> QED
    BY <1>3 DEF Remaining
<1>4. ASSUME NEW i \in Intents, outcome'[i] = "complete", NEW x \in dispatcher.asked[i]
      PROVE  Covered(x)
  <2>1. \/ outcome[i] = "complete"
        \/ i \in dispatcher.intents /\ is_complete(i, Drain.interests[i])
    BY <1>3, <1>4 DEF SessionEnds
  <2>2. CASE outcome[i] = "complete"
    BY <2>2 DEF AreasInv, CompleteIsReconciled, Covered
  <2>3. CASE i \in dispatcher.intents /\ Drain.interests[i] = {}
    <3>1. x \in dispatcher.interests[i] \/ Covered(x)
      BY <2>3 DEF AreasInv, WaitsForTheRest
    <3> QED
      BY <2>3, <3>1, DrainFacts
  <2> QED
    BY <2>1, <2>2, <2>3 DEF is_complete
<1>5. CompleteIsReconciled'
  BY <1>2, <1>4 DEF CompleteIsReconciled, Covered
<1>6. WaitsForTheRest'
  BY <1>2 DEF WaitsForTheRest
<1> QED
  BY <1>5, <1>6 DEF AreasInv

LEMMA AreasStep ==
    ASSUME SessionTypes, Places, AreasInv, [Next]_vars
    PROVE  AreasInv'
<1>1. CASE UNCHANGED vars
  BY <1>1, QuietAreas, AreasStay
<1>2. CASE Session
  <2>1. ASSUME NEW l \in Loops, Send(l) PROVE AreasInv'
    BY <2>1, QuietAreas, AreasStay
  <2>2. CASE SubmitBreaks \/ SessionCompletes
    BY <2>2, EndKeepsAreas DEF SubmitBreaks, SessionCompletes
  <2> QED
    BY <1>2, <2>1, <2>2, SubmitKeepsAreas, DispatcherKeepsAreas, QuietAreas, AreasStay DEF Session
<1>3. CASE Environment
  BY <1>3, EndKeepsAreas, QuietAreas, AreasStay DEF Environment, SessionFails, Waiting
<1> QED
  BY <1>1, <1>2, <1>3 DEF Next

(* An intent is reported complete (submit_intent, emit_event_inner,        *)
(* drain_all) only after the reconciler has reported every area it asked   *)
(* for, in the order and the overlaps in which reports, new interests and  *)
(* the end of the session may come.                                        *)
THEOREM SessionCompletesIntents == Spec => [](AreasInv /\ CompleteIsReconciled)
<1>1. Init => SessionTypes /\ Places /\ AreasInv
  <2>1. Init => AreasInv
    BY DEF Init, AreasInv, WaitsForTheRest, CompleteIsReconciled
  <2> QED
    BY <2>1, TypesInit, PlacesInit
<1>2. SessionTypes /\ Places /\ AreasInv /\ [Next]_vars => SessionTypes' /\ Places' /\ AreasInv'
  BY TypesStep, PlacesStep, AreasStep
<1>3. AreasInv => CompleteIsReconciled
  BY DEF AreasInv
<1> QED
  BY <1>1, <1>2, <1>3, PTL DEF Spec

-----------------------------------------------------------------------------
(* What the finder owes to the reconciler.                                 *)

FinderInv == OursAreSent /\ OverlapsAreReconciled

(* The reconciler knows of the pair q, or will.                            *)
Told(q, given, ib, td) == q \in given \/ Announced(q) \in Range(ib) \cup UNION Range(td)

LEMMA FinderInvIs ==
    /\ OverlapsAreReconciled <=>
          (result = "running" /\ "reconciler" \notin closed =>
              \A q \in finder.ours \X finder.theirs : Overlap(Area(q[1]), q[2]) =>
                  Told(q, targets.given, inbox["reconciler"], todo["intersection"]))
    /\ OverlapsAreReconciled' <=>
          (result' = "running" /\ "reconciler" \notin closed' =>
              \A q \in finder'.ours \X finder'.theirs : Overlap(Area(q[1]), q[2]) =>
                  Told(q, targets'.given, inbox'["reconciler"], todo'["intersection"]))
BY DEF OverlapsAreReconciled, Told, Announced

(* The steps that leave all of this alone, or close the reconciler.        *)
LEMMA FinderStays ==
    ASSUME FinderInv, UNCHANGED << finder, result >>, targets'.given = targets.given,
           "reconciler" \in closed => "reconciler" \in closed',
           "reconciler" \notin closed' => inbox'["reconciler"] = inbox["reconciler"],
           todo'["intersection"] = todo["intersection"]
    PROVE  FinderInv'
<1>1. OursAreSent'
  BY DEF FinderInv, OursAreSent
<1>2. OverlapsAreReconciled'
  BY FinderInvIs DEF FinderInv
<1> QED
  BY <1>1, <1>2 DEF FinderInv

LEMMA QuietFinder ==
    ASSUME SessionTypes, FinderInv,
           \/ UNCHANGED vars
           \/ SubmitPending \/ SubmitFromInbox \/ EmitFromInbox
           \/ \E i \in Intents : AddInterests(i) \/ CancelIntent(i) \/ Unwatch(i)
           \/ DispatcherEnds \/ FinderEnds \/ PaiEnds \/ ReconcilerEnds \/ ControlEnds
           \/ CapsRecvEnds \/ AoiRecvEnds \/ UpdateEnds \/ UpdateSubmits \/ UpdateAborts
           \/ PaiTakes \/ ReconciledAll \/ AoiValidated
           \/ \E auth \in Common : PaiIntersection(auth)
           \/ \E q \in targets.open : CompleteTarget(q)
           \/ ControlReceives \/ CapReceived
           \/ \E t \in TheirAreas : AoiReceived(t)
           \/ \E i \in Intents : Submit(i) \/ Update(i) \/ DropHandle(i)
           \/ AbortSession \/ PeerCloses
    PROVE  FinderInv'
<1>0. /\ DOMAIN inbox = Inboxes /\ DOMAIN todo = Loops
      /\ "reconciler" \in Inboxes /\ "intersection" \in Loops
  BY DEF SessionTypes, WireTypes, Wired, Inboxes, Loops
<1>1. UNCHANGED << finder, result >>
  BY DEF vars, SubmitPending, SubmitFromInbox, EmitFromInbox, AddInterests, CancelIntent, Unwatch,
     DispatcherEnds, FinderEnds, PaiEnds, ReconcilerEnds, ControlEnds, CapsRecvEnds,
     AoiRecvEnds, UpdateEnds, UpdateSubmits, UpdateAborts, PaiTakes, ReconciledAll, AoiValidated,
     PaiIntersection, CompleteTarget, ControlReceives, CapReceived, AoiReceived, Submit, Update,
     DropHandle, AbortSession, PeerCloses, parts, engines, ending
<1>2. targets'.given = targets.given
  <2>1. targets' = targets \/ \E q \in targets.open : CompleteTarget(q)
    BY DEF vars, SubmitPending, SubmitFromInbox, EmitFromInbox, AddInterests, CancelIntent, Unwatch,
       DispatcherEnds, FinderEnds, PaiEnds, ReconcilerEnds, ControlEnds, CapsRecvEnds,
       AoiRecvEnds, UpdateEnds, UpdateSubmits, UpdateAborts, PaiTakes, ReconciledAll, AoiValidated,
       PaiIntersection, ControlReceives, CapReceived, AoiReceived, Submit, Update,
       DropHandle, AbortSession, PeerCloses, parts, engines
  <2>2. targets \in [open: SUBSET Pairs, given: SUBSET Pairs, reported: SUBSET Areas]
    BY DEF SessionTypes, EngineTypes
  <2>3. ASSUME NEW q \in targets.open, CompleteTarget(q) PROVE targets'.given = targets.given
    <3> DEFINE area == Area(q[1]) \cap q[2]
    <3>1. targets' = [targets EXCEPT !.open = @ \ {q}, !.reported = @ \cup {area}]
      BY <2>3 DEF CompleteTarget
    <3> HIDE DEF area
    <3> QED
      BY <2>2, <3>1
  <2> QED
    BY <2>1, <2>3
<1>3. /\ "reconciler" \in closed => "reconciler" \in closed'
      /\ todo'["intersection"] = todo["intersection"]
  <2>1. closed \subseteq closed'
    BY DEF vars, SubmitPending, SubmitFromInbox, EmitFromInbox, AddInterests, CancelIntent, Unwatch,
       DispatcherEnds, FinderEnds, PaiEnds, ReconcilerEnds, ControlEnds, CapsRecvEnds,
       AoiRecvEnds, UpdateEnds, UpdateSubmits, UpdateAborts, PaiTakes, ReconciledAll, AoiValidated,
       PaiIntersection, CompleteTarget, ControlReceives, CapReceived, AoiReceived, Submit, Update,
       DropHandle, AbortSession, PeerCloses, wires
  <2>2. todo' = todo \/ \E l \in Loops \ {"intersection"} : \E out : todo' = [todo EXCEPT ![l] = out]
    <3>1. CASE SubmitPending \/ SubmitFromInbox \/ EmitFromInbox \/ PaiTakes
      BY <3>1 DEF SubmitPending, SubmitFromInbox, EmitFromInbox, PaiTakes, Take, Loops
    <3>2. CASE ReconciledAll \/ AoiValidated \/ ControlReceives \/ CapReceived \/ UpdateSubmits
      BY <3>2 DEF ReconciledAll, AoiValidated, ControlReceives, CapReceived, UpdateSubmits, Loops
    <3>3. ASSUME NEW i \in Intents, AddInterests(i)
          PROVE  \E l \in Loops \ {"intersection"} : \E out : todo' = [todo EXCEPT ![l] = out]
      BY <3>3 DEF AddInterests, Loops
    <3>4. ASSUME NEW auth \in Common, PaiIntersection(auth)
          PROVE  \E l \in Loops \ {"intersection"} : \E out : todo' = [todo EXCEPT ![l] = out]
      BY <3>4 DEF PaiIntersection, Loops
    <3>5. ASSUME NEW q \in targets.open, CompleteTarget(q)
          PROVE  \E l \in Loops \ {"intersection"} : \E out : todo' = [todo EXCEPT ![l] = out]
      <4> DEFINE area == Area(q[1]) \cap q[2]
                 out == << {Msg("intents", "Reconciled", area)} >>
                           \o IF targets'.open = {} THEN << {Msg("run", "ReconciledAll", {})} >> ELSE << >>
      <4>1. todo' = [todo EXCEPT !["reconciler"] = out]
        BY <3>5 DEF CompleteTarget
      <4> HIDE DEF out
      <4>2. "reconciler" \in Loops \ {"intersection"}
        BY DEF Loops
      <4> QED
        BY <4>1, <4>2
    <3> QED
      BY <3>1, <3>2, <3>3, <3>4, <3>5
         DEF vars, CancelIntent, Unwatch, DispatcherEnds, FinderEnds, PaiEnds, ReconcilerEnds,
             ControlEnds, CapsRecvEnds, AoiRecvEnds, UpdateEnds, UpdateAborts, AoiReceived, Submit,
             Update, DropHandle, AbortSession, PeerCloses, wires
  <2> QED
    BY <1>0, <2>1, <2>2
<1>4. "reconciler" \notin closed' => inbox'["reconciler"] = inbox["reconciler"]
  <2>1. CASE SubmitFromInbox \/ EmitFromInbox \/ PaiTakes
    BY <1>0, <2>1 DEF SubmitFromInbox, EmitFromInbox, PaiTakes, Take
  <2>2. CASE ReconciledAll
    BY <2>2 DEF ReconciledAll
  <2> QED
    BY <2>1, <2>2
       DEF vars, SubmitPending, AddInterests, CancelIntent, Unwatch,
       DispatcherEnds, FinderEnds, PaiEnds, ReconcilerEnds, ControlEnds, CapsRecvEnds,
       AoiRecvEnds, UpdateEnds, UpdateSubmits, UpdateAborts, AoiValidated,
       PaiIntersection, CompleteTarget, ControlReceives, CapReceived, AoiReceived, Submit, Update,
       DropHandle, AbortSession, PeerCloses, wires
<1> QED
  BY <1>1, <1>2, <1>3, <1>4, FinderStays

(* An announcement on its way.                                             *)
LEMMA SendKeepsFinder ==
    ASSUME SessionTypes, FinderInv, NEW l \in Loops, Send(l)
    PROVE  FinderInv'
<1>0. /\ DOMAIN inbox = Inboxes /\ DOMAIN todo = Loops
      /\ "reconciler" \in Inboxes /\ "intersection" \in Loops
      /\ todo[l] \in Seq(SUBSET Sendable(l, Messages)) /\ todo[l] # << >>
      /\ inbox["reconciler"] \in Seq(Received("reconciler", Messages))
  BY DEF SessionTypes, WireTypes, Wired, Inboxes, Loops, Send
<1>1. UNCHANGED << finder, result, closed, targets >>
  BY DEF Send, parts, ending
<1>2. PICK m \in Head(todo[l]) :
          /\ m.to \in Inboxes
          /\ m.to \in closed \/ Len(inbox[m.to]) < InboxCap
          /\ inbox' = IF m.to \in closed THEN inbox
                      ELSE [inbox EXCEPT ![m.to] = Append(@, m)]
          /\ todo' = [todo EXCEPT ![l] = Without(@, m)]
  BY DEF Send
<1>3. UNION Range(todo[l]) \subseteq {m} \cup UNION Range(Without(todo[l], m)) /\ m \in Messages
  <2>1. Head(todo[l]) \in SUBSET Sendable(l, Messages)
    BY <1>0
  <2>2. m \in Messages
    BY <2>1 DEF Sendable
  <2> QED
    BY <1>0, <2>2, SendLeaves
<1>4. OursAreSent'
  BY <1>1 DEF FinderInv, OursAreSent
<1>5. OverlapsAreReconciled'
  <2> SUFFICES ASSUME "reconciler" \notin closed, NEW q, Told(q, targets.given, inbox["reconciler"], todo["intersection"])
               PROVE  Told(q, targets'.given, inbox'["reconciler"], todo'["intersection"])
    BY <1>1, FinderInvIs DEF FinderInv
  <2>1. Range(inbox["reconciler"]) \subseteq Range(inbox'["reconciler"])
        /\ (m.to = "reconciler" => m \in Range(inbox'["reconciler"]))
    <3>1. CASE m.to = "reconciler"
      <4>1. inbox'["reconciler"] = Append(inbox["reconciler"], m) /\ m \in Received("reconciler", Messages)
        BY <1>0, <1>2, <1>3, <3>1 DEF Received
      <4> QED
        BY <1>0, <4>1, RangeAppend
    <3>2. CASE m.to # "reconciler"
      BY <1>0, <1>2, <3>2
    <3> QED
      BY <3>1, <3>2
  <2>2. Announced(q).to = "reconciler"
    BY DEF Announced, Msg
  <2>3. UNION Range(todo["intersection"]) \subseteq {m} \cup UNION Range(todo'["intersection"])
    <3>1. CASE l = "intersection"
      BY <1>0, <1>2, <1>3, <3>1
    <3>2. CASE l # "intersection"
      <4>1. todo'["intersection"] = todo["intersection"]
        BY <1>0, <1>2, <3>2
      <4> QED
        BY <4>1
    <3> QED
      BY <3>1, <3>2
  <2> DEFINE A == UNION Range(todo["intersection"])
             B == UNION Range(todo'["intersection"])
             C == Range(inbox["reconciler"])
             D == Range(inbox'["reconciler"])
  <2>4. q \in targets.given \/ Announced(q) \in C \/ Announced(q) \in A
    BY DEF Told
  <2> HIDE DEF A, B, C, D
  <2>5. q \in targets.given \/ Announced(q) \in D \/ Announced(q) \in B
    BY <2>1, <2>2, <2>3, <2>4 DEF A, B, C, D
  <2> QED
    BY <1>1, <2>5 DEF Told, B, D
<1> QED
  BY <1>4, <1>5 DEF FinderInv

(* The reconciler takes a pair on.                                         *)
LEMMA TakingKeepsFinder ==
    ASSUME SessionTypes, FinderInv, ReconcilerTakes
    PROVE  FinderInv'
<1> DEFINE s == inbox["reconciler"]
<1>0. /\ DOMAIN inbox = Inboxes /\ DOMAIN todo = Loops
      /\ "reconciler" \in Inboxes /\ "intersection" \in Loops
      /\ s \in Seq(Received("reconciler", Messages)) /\ s # << >>
  BY DEF SessionTypes, WireTypes, Wired, Inboxes, Loops, ReconcilerTakes, HasInput
<1>1. /\ UNCHANGED << finder, result, closed >> /\ inbox'["reconciler"] = Tail(s)
      /\ todo'["intersection"] = todo["intersection"]
  BY <1>0 DEF ReconcilerTakes, Take, ending
<1>2. targets'.given = targets.given \cup {Head(s).arg}
  BY DEF ReconcilerTakes, Arg, SessionTypes, EngineTypes
<1>3. Range(s) = {Head(s)} \cup Range(Tail(s))
  BY <1>0, RangeTail
<1> HIDE DEF s
<1>4. OursAreSent'
  BY <1>1 DEF FinderInv, OursAreSent
<1>5. ASSUME NEW q, Told(q, targets.given, inbox["reconciler"], todo["intersection"])
      PROVE  Told(q, targets'.given, inbox'["reconciler"], todo'["intersection"])
  <2>1. Announced(q).arg = q
    BY DEF Announced, Msg
  <2> QED
    BY <1>1, <1>2, <1>3, <1>5, <2>1 DEF Told, s
<1>6. OverlapsAreReconciled'
  BY <1>1, <1>5, FinderInvIs DEF FinderInv
<1> QED
  BY <1>4, <1>6 DEF FinderInv

(* The finder binds areas of ours, or of the peer.                         *)
LEMMA BindingKeepsFinder ==
    ASSUME SessionTypes, FinderInv, FinderAddInterests \/ FinderPaiIntersection \/ FinderValidatedAoi
    PROVE  FinderInv'
<1>0. /\ DOMAIN inbox = Inboxes /\ DOMAIN todo = Loops
      /\ {"reconciler", "intersection"} \subseteq Inboxes /\ "intersection" \in Loops
  BY DEF SessionTypes, WireTypes, Wired, Inboxes, Loops
<1>1. /\ UNCHANGED << result, closed, targets >> /\ inbox'["reconciler"] = inbox["reconciler"]
      /\ todo["intersection"] = << >>
  BY <1>0 DEF FinderAddInterests, FinderPaiIntersection, FinderValidatedAoi, HasInput, Ready, Take, ending
<1>2. Head(inbox["intersection"]) \in Messages
  BY <1>0, HeadIsMessage DEF FinderAddInterests, FinderPaiIntersection, FinderValidatedAoi, HasInput
<1>3. EngineTypes /\ OursAreSent
  BY DEF SessionTypes, FinderInv
<1>4. ASSUME NEW q, Told(q, targets.given, inbox["reconciler"], todo["intersection"])
      PROVE  Told(q, targets'.given, inbox'["reconciler"], todo'["intersection"])
  <2>1. UNION Range(<< >>) = {}
    BY DEF Range
  <2> QED
    BY <1>1, <1>4, <2>1 DEF Told
<1>5. ASSUME \A q \in finder'.ours \X finder'.theirs : Overlap(Area(q[1]), q[2]) =>
                q \in finder.ours \X finder.theirs \/ Announced(q) \in UNION Range(todo'["intersection"])
      PROVE  OverlapsAreReconciled'
  <2> SUFFICES ASSUME result = "running", "reconciler" \notin closed,
                      NEW q \in finder'.ours \X finder'.theirs, Overlap(Area(q[1]), q[2])
               PROVE  Told(q, targets'.given, inbox'["reconciler"], todo'["intersection"])
    BY <1>1, FinderInvIs
  <2>1. CASE q \in finder.ours \X finder.theirs
    <3>1. Told(q, targets.given, inbox["reconciler"], todo["intersection"])
      BY <2>1, FinderInvIs DEF FinderInv
    <3> QED
      BY <1>4, <3>1
  <2>2. CASE Announced(q) \in UNION Range(todo'["intersection"])
    BY <2>2 DEF Told
  <2> QED
    BY <1>5, <2>1, <2>2
<1>6. CASE FinderAddInterests
  <2> DEFINE xs  == Arg("intersection")
             new == NewInterests(xs)
             A   == { x[1] : x \in xs }
  <2>1. xs \in SUBSET AllInterests /\ IsFiniteSet(xs)
    BY <1>2, <1>6 DEF FinderAddInterests, HasInput, Messages, Message, Honest, Arg
  <2>2. finder' = [finder EXCEPT !.interests = @ \cup xs, !.ours = @ \cup new.bind]
    BY <1>6 DEF FinderAddInterests
  <2>3. PICK auths \in SetToSeqs(A) :
           \E pairs \in [DOMAIN auths -> UNION { NewPairs(new, auth) : auth \in Range(auths) }] :
              /\ \A k \in DOMAIN auths : pairs[k] \in NewPairs(new, auths[k])
              /\ Take("intersection", "intersection", AddOutputs(new, auths, pairs))
    BY <1>6 DEF FinderAddInterests
  <2>4. PICK pairs :
              /\ \A k \in DOMAIN auths : pairs[k] \in NewPairs(new, auths[k])
              /\ Take("intersection", "intersection", AddOutputs(new, auths, pairs))
    BY <2>3
  <2>5. /\ new.bind = { x \in xs \ finder.interests : x[1] \in finder.bound }
        /\ \A auth \in new.submit : auth \notin KnownAuths(finder)
    BY DEF NewInterests, KnownAuths
  <2>6. IsFiniteSet(A) /\ A \subseteq AllAuths /\ \A x \in xs : x[1] \in A
    BY <2>1, AuthsOf
  <2> HIDE DEF xs, new, A
  <2>7. auths \in Seq(A) /\ Range(auths) = A
    BY <2>6, EnumerationHolds
  <2>8. \A k \in DOMAIN auths : /\ pairs[k] \in Seq(Pairs)
                                /\ Range(pairs[k]) = BindOurs(finder, { x \in new.bind : x[1] = auths[k] })
    <3> SUFFICES ASSUME NEW k \in DOMAIN auths
                 PROVE  /\ pairs[k] \in Seq(Pairs)
                        /\ Range(pairs[k]) = BindOurs(finder, { x \in new.bind : x[1] = auths[k] })
      OBVIOUS
    <3> DEFINE ys == { x \in new.bind : x[1] = auths[k] }
    <3>1. ys \subseteq AllInterests /\ IsFiniteSet(ys)
      BY <2>1, <2>5, FS_Subset
    <3>2. pairs[k] \in SetToSeqs(BindOurs(finder, ys))
      BY <2>4 DEF NewPairs
    <3> HIDE DEF ys
    <3>3. pairs[k] \in Seq(Pairs) /\ Range(pairs[k]) = BindOurs(finder, ys)
      BY <1>3, <3>1, <3>2, PairSequence
    <3> QED
      BY <3>3 DEF ys
  <2>9. todo'["intersection"] = AddOutputs(new, auths, pairs)
    BY <1>0, <2>4 DEF Take
  <2>10. \A k \in DOMAIN auths : auths[k] \notin new.submit =>
            \A q \in Range(pairs[k]) : Announced(q) \in UNION Range(todo'["intersection"])
    <3>1. A \subseteq AllAuths
      BY <2>6
    <3> QED
      BY <2>7, <2>8, <2>9, <3>1, AddAnnounces
  <2>11. /\ finder'.ours = finder.ours \cup new.bind /\ finder'.theirs = finder.theirs
         /\ finder'.interests = finder.interests \cup xs /\ finder'.bound = finder.bound
    BY <1>3, <2>2 DEF EngineTypes
  <2>12. OursAreSent'
    BY <1>3, <2>5, <2>11 DEF OursAreSent
  <2>13. ASSUME NEW q \in finder'.ours \X finder'.theirs, Overlap(Area(q[1]), q[2]),
                q \notin finder.ours \X finder.theirs
         PROVE  Announced(q) \in UNION Range(todo'["intersection"])
    <3>1. q = << q[1], q[2] >> /\ q[1] \in new.bind /\ q[2] \in finder.theirs
      BY <2>11, <2>13
    <3>2. q[1] \in xs /\ q[1][1] \in finder.bound /\ q[1][1] \in A
      BY <2>5, <2>6, <3>1
    <3>3. PICK k \in DOMAIN auths : auths[k] = q[1][1]
      BY <2>7, <3>2 DEF Range
    <3>4. auths[k] \notin new.submit
      BY <1>3, <2>5, <3>2, <3>3 DEF EngineTypes
    <3>5. q \in BindOurs(finder, { x \in new.bind : x[1] = auths[k] })
      <4> DEFINE ys == { x \in new.bind : x[1] = auths[k] }
      <4>1. q[1] \in ys
        BY <3>1, <3>3
      <4> HIDE DEF ys
      <4>2. q \in ys \X finder.theirs
        BY <3>1, <4>1
      <4>3. q \in BindOurs(finder, ys)
        BY <2>13, <4>2 DEF BindOurs
      <4> QED
        BY <4>3 DEF ys
    <3> QED
      BY <2>8, <2>10, <3>4, <3>5
  <2> QED
    BY <1>5, <2>12, <2>13 DEF FinderInv
<1>7. CASE FinderPaiIntersection
  <2> DEFINE auth == Arg("intersection")
             xs   == { x \in finder.interests : x[1] = auth }
  <2>1. auth \in AllAuths /\ auth \in KnownAuths(finder)
    BY <1>2, <1>7 DEF FinderPaiIntersection, HasInput, Messages, Message, Honest, Arg
  <2>2. finder' = [finder EXCEPT !.bound = @ \cup {auth}, !.ours = @ \cup xs]
    BY <1>7 DEF FinderPaiIntersection
  <2>3. PICK pairs \in SetToSeqs(BindOurs(finder, xs)) : Take("intersection", "intersection", Outputs(pairs))
    BY <1>7 DEF FinderPaiIntersection
  <2>4. xs \subseteq AllInterests /\ IsFiniteSet(xs)
    <3>1. xs \in SUBSET finder.interests /\ IsFiniteSet(finder.interests) /\ finder.interests \subseteq AllInterests
      BY <1>3 DEF EngineTypes
    <3> HIDE DEF xs
    <3> QED
      BY <3>1, FS_Subset
  <2>5. /\ finder'.ours = finder.ours \cup xs /\ finder'.theirs = finder.theirs
        /\ finder'.interests = finder.interests /\ finder'.bound = finder.bound \cup {auth}
    BY <1>3, <2>2 DEF EngineTypes
  <2>6. OursAreSent'
    BY <1>3, <2>5 DEF OursAreSent
  <2> HIDE DEF auth, xs
  <2>7. pairs \in Seq(Pairs) /\ Range(pairs) = BindOurs(finder, xs)
    BY <1>3, <2>3, <2>4, PairSequence
  <2>8. todo'["intersection"] = Outputs(pairs)
    BY <1>0, <2>3 DEF Take
  <2>9. \A q \in Range(pairs) : Announced(q) \in UNION Range(todo'["intersection"])
    BY <2>7, <2>8, OutputsAnnounce
  <2>10. ASSUME NEW q \in finder'.ours \X finder'.theirs, Overlap(Area(q[1]), q[2]),
                q \notin finder.ours \X finder.theirs
         PROVE  Announced(q) \in UNION Range(todo'["intersection"])
    <3>1. q \in xs \X finder.theirs
      BY <2>5, <2>10
    <3>2. q \in BindOurs(finder, xs)
      BY <2>10, <3>1 DEF BindOurs
    <3> QED
      BY <2>7, <2>9, <3>2
  <2> QED
    BY <1>5, <2>6, <2>10 DEF FinderInv
<1>8. CASE FinderValidatedAoi
  <2> DEFINE t == Arg("intersection")
  <2>1. t \in TheirAreas
    BY <1>2, <1>8 DEF FinderValidatedAoi, HasInput, Messages, Message, Honest, Arg
  <2>2. finder' = [finder EXCEPT !.theirs = @ \cup {t}]
    BY <1>8 DEF FinderValidatedAoi
  <2>3. PICK pairs \in SetToSeqs(BindTheirs(finder, t)) : Take("intersection", "intersection", Outputs(pairs))
    BY <1>8 DEF FinderValidatedAoi
  <2> HIDE DEF t
  <2>4. /\ finder'.ours = finder.ours /\ finder'.theirs = finder.theirs \cup {t}
        /\ finder'.interests = finder.interests /\ finder'.bound = finder.bound
    BY <1>3, <2>2 DEF EngineTypes
  <2>5. OursAreSent'
    BY <1>3, <2>4 DEF OursAreSent
  <2>6. pairs \in Seq(Pairs) /\ Range(pairs) = BindTheirs(finder, t)
    <3>1. BindTheirs(finder, t) \subseteq Pairs /\ IsFiniteSet(BindTheirs(finder, t))
      BY <1>3, <2>1, BindFacts, FS_EmptySet
    <3>2. pairs \in Seq(BindTheirs(finder, t)) /\ Range(pairs) = BindTheirs(finder, t)
      BY <2>3, <3>1, EnumerationHolds
    <3> QED
      BY <3>1, <3>2, SeqMonotonic
  <2>7. todo'["intersection"] = Outputs(pairs)
    BY <1>0, <2>3 DEF Take
  <2>8. \A q \in Range(pairs) : Announced(q) \in UNION Range(todo'["intersection"])
    BY <2>6, <2>7, OutputsAnnounce
  <2>9. ASSUME NEW q \in finder'.ours \X finder'.theirs, Overlap(Area(q[1]), q[2]),
               q \notin finder.ours \X finder.theirs
        PROVE  Announced(q) \in UNION Range(todo'["intersection"])
    <3>1. q \in finder.ours \X {t}
      BY <2>4, <2>9
    <3>2. q \in BindTheirs(finder, t)
      BY <2>9, <3>1 DEF BindTheirs
    <3> QED
      BY <2>6, <2>8, <3>2
  <2> QED
    BY <1>5, <2>5, <2>9 DEF FinderInv
<1> QED
  BY <1>6, <1>7, <1>8

LEMMA FinderStep ==
    ASSUME SessionTypes, FinderInv, [Next]_vars
    PROVE  FinderInv'
<1>1. CASE UNCHANGED vars
  BY <1>1, QuietFinder
<1>2. ASSUME NEW err, NEW broken, SessionEnds(err, broken) PROVE FinderInv'
  <2>1. finder' = NoFinder /\ result' # "running"
    BY <1>2 DEF SessionEnds
  <2>2. OursAreSent'
    BY <2>1 DEF OursAreSent, NoFinder
  <2>3. OverlapsAreReconciled'
    BY <2>1 DEF OverlapsAreReconciled
  <2> QED
    BY <2>2, <2>3 DEF FinderInv
<1>3. CASE Session
  <2>1. ASSUME NEW l \in Loops, Send(l) PROVE FinderInv'
    BY <2>1, SendKeepsFinder
  <2>2. CASE SubmitBreaks \/ SessionCompletes
    BY <1>2, <2>2 DEF SubmitBreaks, SessionCompletes
  <2> QED
    BY <1>3, <2>1, <2>2, BindingKeepsFinder, TakingKeepsFinder, QuietFinder DEF Session
<1>4. CASE Environment
  <2>1. CASE Waiting
    BY <2>1, WaitingIsQuiet, FinderStays DEF parts, engines, ending
  <2> QED
    BY <1>2, <1>4, <2>1, QuietFinder DEF Environment, SessionFails, Waiting
<1> QED
  BY <1>1, <1>3, <1>4 DEF Next

(* Only sends to the peer and to the applications wait.                    *)
WaitTypes == waits \subseteq PeerSenders \cup AppSenders

LEMMA WaitTypesStep ==
    ASSUME WaitTypes, [Next]_vars
    PROVE  WaitTypes'
<1> USE DEF WaitTypes
<1>1. CASE UNCHANGED vars
  BY <1>1 DEF vars, wires
<1>2. ASSUME NEW err, NEW broken, SessionEnds(err, broken) PROVE WaitTypes'
  BY <1>2 DEF SessionEnds
<1>3. CASE Session
  <2>1. CASE SubmitBreaks \/ SessionCompletes
    BY <1>2, <2>1 DEF SubmitBreaks, SessionCompletes
  <2>2. CASE ~ (SubmitBreaks \/ SessionCompletes)
    <3>1. waits' = waits
      BY <1>3, <2>2 DEF Session, Send, SubmitPending, SubmitFromInbox, EmitFromInbox,
         DispatcherEnds, AddInterests, CancelIntent, Unwatch, FinderAddInterests,
         FinderPaiIntersection, FinderValidatedAoi, FinderEnds, PaiTakes, PaiEnds, ReconcilerTakes,
         ReconciledAll, ReconcilerEnds, ControlEnds, CapsRecvEnds, AoiValidated, AoiRecvEnds,
         UpdateSubmits, UpdateAborts, UpdateEnds, wires
    <3> QED
      BY <3>1
  <2> QED
    BY <2>1, <2>2
<1>4. CASE Environment
  <2>1. CASE SessionFails \/ Waiting
    BY <1>2, <2>1, WaitingIsQuiet DEF SessionFails
  <2>2. CASE ~ (SessionFails \/ Waiting)
    <3>1. waits' = waits
      BY <1>4, <2>2 DEF Environment, PaiIntersection, CompleteTarget, ControlReceives, CapReceived,
         AoiReceived, Submit, Update, DropHandle, AbortSession, PeerCloses, Waiting, wires
    <3> QED
      BY <3>1
  <2> QED
    BY <2>1, <2>2
<1> QED
  BY <1>1, <1>3, <1>4 DEF Next

(* The types that the run checks are among those of SessionTypes.          *)
LEMMA TypesAreOK ==
    ASSUME SessionTypes, WaitTypes
    PROVE  TypeOK
<1>1. Range(updates) \subseteq Intents \cup {Abort}
  BY DEF SessionTypes, AppTypes, Range
<1>2. ASSUME NEW b \in Inboxes PROVE Len(inbox[b]) <= InboxCap /\ \A m \in Range(inbox[b]) : m.to = b
  <2>1. inbox[b] \in Seq(Received(b, Messages)) /\ Len(inbox[b]) <= InboxCap
    BY DEF SessionTypes, WireTypes, Wired
  <2> QED
    BY <2>1 DEF Range, Received
<1> QED
  BY <1>1, <1>2 DEF TypeOK, SessionTypes, AppTypes, Outcomes, DispatcherTypes, WireTypes, EndTypes, WaitTypes

(* The finder binds each area of ours whose authorisation is bound, and    *)
(* every overlap of areas that were bound on the two sides is given to the *)
(* reconciler or on its way to it, whichever of add_interests,             *)
(* on_pai_intersection and bind_validated came first, and with any room in *)
(* the inboxes.                                                            *)
THEOREM SessionForgetsNothing == Spec => []NothingForgotten
<1>1. Init => SessionTypes /\ FinderInv /\ WaitTypes
  <2>1. Init => FinderInv /\ WaitTypes
    BY DEF Init, FinderInv, OursAreSent, OverlapsAreReconciled, NoFinder, WaitTypes
  <2> QED
    BY <2>1, TypesInit
<1>2. SessionTypes /\ FinderInv /\ WaitTypes /\ [Next]_vars => SessionTypes' /\ FinderInv' /\ WaitTypes'
  BY TypesStep, FinderStep, WaitTypesStep
<1>3. SessionTypes /\ FinderInv /\ WaitTypes => NothingForgotten
  BY TypesAreOK DEF FinderInv, NothingForgotten
<1> QED
  BY <1>1, <1>2, <1>3, PTL DEF Spec

================================================================================
