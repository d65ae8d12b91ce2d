--------------------------- MODULE Capability_proofs ---------------------------
(***************************************************************************)
(* What the capability stores of Auth hold and select, for every set of    *)
(* nodes, users, namespaces and areas, and for any number of delegations,  *)
(* hand-overs and imports.                                                 *)
(*                                                                         *)
(* After that, what two peers of PaiFinder tell each other of their read   *)
(* capabilities, for every set of authorisations.                          *)
(***************************************************************************)
EXTENDS Auth, PaiFinder, WellFoundedInduction, SequenceTheorems, FiniteSetTheorems, TLAPS

(* A set of naturals that is not empty has a least element.                *)
LEMMA LeastNatural ==
    ASSUME NEW T, T \subseteq Nat, T # {}
    PROVE  \E x \in T : \A y \in T : x <= y
<1>1. PICK x \in T : \A y \in T : ~ (<< y, x >> \in OpToRel(<, Nat))
  BY NatLessThanWellFounded, WFMin
<1>2. ASSUME NEW y \in T PROVE x <= y
  <2>1. x \in Nat /\ y \in Nat
    OBVIOUS
  <2>2. ~ (y < x)
    BY <1>1, <2>1 DEF OpToRel
  <2> QED
    BY <2>1, <2>2
<1> QED
  BY <1>2

(* Induction over the naturals, for a set of them.                         *)
LEMMA NatSetInduction ==
    ASSUME NEW S, 0 \in S, \A k \in Nat : k \in S => k + 1 \in S
    PROVE  Nat \subseteq S
<1> SUFFICES ASSUME ~ (Nat \subseteq S) PROVE FALSE
  OBVIOUS
<1> DEFINE T == Nat \ S
<1>1. PICK x \in T : \A y \in T : x <= y
  <2>1. T \subseteq Nat /\ T # {}
    OBVIOUS
  <2> HIDE DEF T
  <2> QED
    BY <2>1, LeastNatural
<1>2. x \in Nat /\ x # 0 /\ x \notin S
  OBVIOUS
<1>3. x - 1 \in Nat /\ ~ (x <= x - 1) /\ (x - 1) + 1 = x
  BY <1>2
<1>4. x - 1 \in S
  BY <1>1, <1>3
<1> QED
  BY <1>2, <1>3, <1>4


(* The reduction in get_read_cap and get_write_cap is what its recursion   *)
(* says.                                                                   *)
LEMMA ReductionSteps ==
    ASSUME NEW caps, NEW selector, Len(caps) \in Nat
    PROVE  Reduction(caps, selector) =
             [k \in 0..Len(caps) |->
                IF k = 0 THEN 0
                ELSE IF /\ is_covered_by(selector, caps[k])
                        /\ Reduction(caps, selector)[k - 1] # 0 =>
                              is_wider_than(caps[k], caps[Reduction(caps, selector)[k - 1]])
                     THEN k ELSE Reduction(caps, selector)[k - 1]]
<1> DEFINE Reduces(k, b) == IF /\ is_covered_by(selector, caps[k])
                               /\ b # 0 => is_wider_than(caps[k], caps[b])
                            THEN k ELSE b
           Steps(f, n) == f = [k \in 0..n |-> IF k = 0 THEN 0 ELSE Reduces(k, f[k - 1])]
           S == { n \in Nat : \E f : Steps(f, n) }
<1> HIDE DEF Reduces
<1>1. 0 \in S
  <2> DEFINE f == [k \in 0..0 |-> 0]
  <2>1. Steps(f, 0)
    OBVIOUS
  <2> QED
    BY <2>1
<1>2. ASSUME NEW n \in Nat, n \in S PROVE n + 1 \in S
  <2>1. PICK f : Steps(f, n)
    BY <1>2
  <2> DEFINE g == [k \in 0..(n + 1) |-> IF k <= n THEN f[k] ELSE Reduces(n + 1, f[n])]
  <2>2. ASSUME NEW k \in 0..(n + 1) PROVE g[k] = IF k = 0 THEN 0 ELSE Reduces(k, g[k - 1])
    <3>1. CASE k = 0
      BY <2>1, <3>1
    <3>2. CASE k \in 1..n
      <4>1. g[k] = f[k] /\ g[k - 1] = f[k - 1] /\ k \in 0..n
        BY <3>2
      <4>2. f[k] = IF k = 0 THEN 0 ELSE Reduces(k, f[k - 1])
        BY <2>1, <4>1
      <4> QED
        BY <4>1, <4>2
    <3>3. CASE k = n + 1
      BY <3>3
    <3> QED
      BY <3>1, <3>2, <3>3
  <2>3. Steps(g, n + 1)
    BY <2>2
  <2>4. \E h : Steps(h, n + 1)
    <3> HIDE DEF Steps, g
    <3> QED
      BY <2>3
  <2> QED
    BY <2>4
<1>3. Len(caps) \in S
  <2> HIDE DEF S
  <2> QED
    BY <1>1, <1>2, NatSetInduction
<1>4. PICK f : Steps(f, Len(caps))
  BY <1>3
<1>5. Reduction(caps, selector) = CHOOSE best : Steps(best, Len(caps))
  BY DEF Reduction, Reduces
<1>6. Steps(Reduction(caps, selector), Len(caps))
  <2> HIDE DEF Steps
  <2> QED
    BY <1>4, <1>5
<1> QED
  BY <1>6 DEF Reduces

(* a covers more than b.                                                   *)
Exceeds(a, b) == granted_area(b) \subseteq granted_area(a) /\ granted_area(b) # granted_area(a)

(* b is the best of the first k capabilities for a selector: 0 if there is *)
(* none it admits, otherwise one that no other exceeds.                    *)
BestOf(caps, selector, k, b) ==
    /\ b \in 0..k
    /\ b = 0 => \A j \in 1..k : ~ is_covered_by(selector, caps[j])
    /\ b # 0 => /\ is_covered_by(selector, caps[b])
                /\ \A j \in 1..k : is_covered_by(selector, caps[j]) => ~ Exceeds(caps[j], caps[b])

(* The reduction finds the best, although is_wider_than is a partial order *)
(* and it drops what is not comparable with the best so far.               *)
LEMMA ReductionIsBest ==
    ASSUME NEW caps, NEW selector, Len(caps) \in Nat
    PROVE  \A k \in 0..Len(caps) : BestOf(caps, selector, k, Reduction(caps, selector)[k])
<1> DEFINE R == Reduction(caps, selector)
           S == { k \in Nat : k <= Len(caps) => BestOf(caps, selector, k, R[k]) }
<1>1. \A k \in 0..Len(caps) :
         R[k] = IF k = 0 THEN 0
                ELSE IF /\ is_covered_by(selector, caps[k])
                        /\ R[k - 1] # 0 => is_wider_than(caps[k], caps[R[k - 1]])
                     THEN k ELSE R[k - 1]
  BY ReductionSteps
<1> HIDE DEF R
<1>2. 0 \in S
  <2>1. R[0] = 0
    BY <1>1
  <2> QED
    BY <2>1 DEF BestOf
<1>3. ASSUME NEW k \in Nat, k \in S PROVE k + 1 \in S
  <2> SUFFICES ASSUME k + 1 <= Len(caps) PROVE BestOf(caps, selector, k + 1, R[k + 1])
    OBVIOUS
  <2> DEFINE b == R[k]
  <2>1. BestOf(caps, selector, k, b)
    BY <1>3
  <2>2. R[k + 1] = IF /\ is_covered_by(selector, caps[k + 1])
                      /\ b # 0 => is_wider_than(caps[k + 1], caps[b])
                   THEN k + 1 ELSE b
    <3>1. k + 1 \in 0..Len(caps) /\ k + 1 # 0 /\ (k + 1) - 1 = k
      OBVIOUS
    <3> QED
      BY <1>1, <3>1
  <2> HIDE DEF b
  <2>3. b \in 0..k
    BY <2>1 DEF BestOf
  <2>4. \A j \in 1..(k + 1) : j \in 1..k \/ j = k + 1
    OBVIOUS
  <2>5. CASE is_covered_by(selector, caps[k + 1]) /\ b = 0
    <3>1. R[k + 1] = k + 1
      BY <2>2, <2>5
    <3>2. \A j \in 1..(k + 1) : is_covered_by(selector, caps[j]) => j = k + 1
      BY <2>1, <2>4, <2>5 DEF BestOf
    <3>3. \A j \in 1..(k + 1) : is_covered_by(selector, caps[j]) => ~ Exceeds(caps[j], caps[k + 1])
      BY <3>2 DEF Exceeds
    <3> QED
      BY <2>5, <3>1, <3>3 DEF BestOf
  <2>6. CASE is_covered_by(selector, caps[k + 1]) /\ b # 0 /\ is_wider_than(caps[k + 1], caps[b])
    <3>1. R[k + 1] = k + 1
      BY <2>2, <2>6
    <3>2. granted_area(caps[b]) \subseteq granted_area(caps[k + 1])
      BY <2>6 DEF is_wider_than
    <3>3. ASSUME NEW j \in 1..(k + 1), is_covered_by(selector, caps[j])
          PROVE  ~ Exceeds(caps[j], caps[k + 1])
      <4>1. CASE j = k + 1
        BY <4>1 DEF Exceeds
      <4>2. CASE j \in 1..k
        <5>1. ~ Exceeds(caps[j], caps[b])
          BY <2>1, <2>6, <3>3, <4>2 DEF BestOf
        <5> QED
          BY <3>2, <5>1 DEF Exceeds
      <4> QED
        BY <2>4, <4>1, <4>2
    <3> QED
      BY <2>6, <3>1, <3>3 DEF BestOf
  <2>7. CASE /\ is_covered_by(selector, caps[k + 1]) /\ b # 0
             /\ ~ is_wider_than(caps[k + 1], caps[b])
    <3>1. R[k + 1] = b
      BY <2>2, <2>7
    <3>2. ~ Exceeds(caps[k + 1], caps[b])
      BY <2>7 DEF Exceeds, is_wider_than
    <3>3. \A j \in 1..(k + 1) : is_covered_by(selector, caps[j]) => ~ Exceeds(caps[j], caps[b])
      BY <2>1, <2>4, <2>7, <3>2 DEF BestOf
    <3> QED
      BY <2>1, <2>3, <2>7, <3>1, <3>3 DEF BestOf
  <2>8. CASE ~ is_covered_by(selector, caps[k + 1])
    <3>1. R[k + 1] = b
      BY <2>2, <2>8
    <3> QED
      BY <2>1, <2>3, <2>4, <2>8, <3>1 DEF BestOf
  <2> QED
    BY <2>5, <2>6, <2>7, <2>8
<1>4. Nat \subseteq S
  <2> HIDE DEF S
  <2> QED
    BY <1>2, <1>3, NatSetInduction
<1> QED
  BY <1>4 DEF R

(* What a store returns for a selector is one of its capabilities, and one *)
(* that the selector admits.                                               *)
LEMMA SelectIsSound ==
    ASSUME NEW n, NEW caps, NEW selector, Len(caps) \in Nat, DOMAIN caps = 1..Len(caps)
    PROVE  \A i \in Select(n, caps, selector) : i \in DOMAIN caps /\ is_covered_by(selector, caps[i])
<1> DEFINE b == Reduction(caps, selector)[Len(caps)]
<1>1. BestOf(caps, selector, Len(caps), b)
  BY ReductionIsBest
<1> HIDE DEF b
<1>2. b # 0 => b \in DOMAIN caps /\ is_covered_by(selector, caps[b])
  BY <1>1 DEF BestOf
<1>3. Select(n, caps, selector) = IF n \in Persistent
                                  THEN { i \in DOMAIN caps : is_covered_by(selector, caps[i]) }
                                  ELSE {b} \ {0}
  BY DEF Select, b
<1> QED
  BY <1>2, <1>3

-----------------------------------------------------------------------------
(* The inductive invariant: what is handed out is genuine as well as what  *)
(* is stored, whoever imports it later, and it is filed under its mode     *)
(* only when it is stored, since packs may be mislabelled.                 *)

(* The subspace capability is there if private area intersection needs it, *)
(* unless it never came with what the capability was delegated from.       *)
HasSubspaceCap(cap, subspace) ==
    NeedsSubspaceCap(cap) => subspace \/ CameWithout(cap)

GenuineReads ==
    { auth \in ReadAuthorisation :
        /\ Genuine(auth.cap) /\ auth.cap.mode = "Read"
        /\ HasSubspaceCap(auth.cap, auth.subspace) }

GenuineWrites == { cap \in Capability : Genuine(cap) /\ cap.mode = "Write" }

GenuinePacks ==
    { p \in Pack : Genuine(p.cap) /\ (p.kind = "Read" => HasSubspaceCap(p.cap, p.subspace)) }

Authorised ==
    { e \in Entry : /\ e.cap \in GenuineWrites /\ e.cap.namespace = e.namespace
                    /\ e.signer = receiver(e.cap) /\ e.point \in granted_area(e.cap) }

StoresInv ==
    /\ user_secrets \in [Nodes -> SUBSET Users]
    /\ namespace_secrets \in [Nodes -> SUBSET Namespaces]
    /\ read_caps \in [Nodes -> Seq(GenuineReads)]
    /\ write_caps \in [Nodes -> Seq(GenuineWrites)]
    /\ packs \subseteq GenuinePacks
    /\ entries \in [Nodes -> SUBSET Authorised]

(* A genuine capability has a last receiver and a last area.               *)
LEMMA GenuineHasLast ==
    ASSUME NEW cap, Genuine(cap)
    PROVE  /\ cap \in Capability
           /\ Len(cap.users) \in Nat \ {0} /\ Len(cap.areas) = Len(cap.users)
           /\ receiver(cap) \in Users /\ granted_area(cap) \in Areas
<1>1. /\ cap \in Capability /\ Len(cap.users) \in Nat \ {0} /\ Len(cap.areas) = Len(cap.users)
      /\ cap.users \in Seq(Users) /\ cap.areas \in Seq(Areas)
  BY DEF Genuine, Capability
<1> QED
  BY <1>1 DEF receiver, granted_area, Last1

(* Delegating within the granted area gives a genuine capability with the  *)
(* new receiver and the new area.                                          *)
LEMMA DelegatedIsGenuine ==
    ASSUME NEW cap, Genuine(cap), NEW to \in Users, NEW area \in Areas,
           area \subseteq granted_area(cap)
    PROVE  /\ Genuine(Delegated(cap, to, area))
           /\ Delegated(cap, to, area).mode = cap.mode
           /\ Delegated(cap, to, area).namespace = cap.namespace
           /\ granted_area(Delegated(cap, to, area)) = area
<1> DEFINE d == Delegated(cap, to, area)
           m == Len(cap.users)
<1>1. /\ cap \in Capability /\ m \in Nat \ {0} /\ Len(cap.areas) = m
      /\ cap.users \in Seq(Users) /\ cap.areas \in Seq(Areas)
  BY GenuineHasLast DEF Capability
<1>2. /\ d.users = Append(cap.users, to) /\ d.areas = Append(cap.areas, area)
      /\ d.mode = cap.mode /\ d.namespace = cap.namespace /\ d \in Capability
  <2>1. Append(cap.users, to) \in Seq(Users) /\ Append(cap.areas, area) \in Seq(Areas)
    BY <1>1
  <2>2. d = [cap EXCEPT !.users = Append(cap.users, to), !.areas = Append(cap.areas, area)]
    BY DEF Delegated
  <2>3. cap \in [mode: AccessModes, namespace: Namespaces, users: Seq(Users), areas: Seq(Areas)]
    BY <1>1 DEF Capability
  <2> HIDE DEF d
  <2> QED
    BY <2>1, <2>2, <2>3 DEF Capability
<1> HIDE DEF d
<1>3. Len(d.users) = m + 1 /\ Len(d.areas) = m + 1
  BY <1>1, <1>2
<1>4. \A i \in 1..m : d.users[i] = cap.users[i] /\ d.areas[i] = cap.areas[i]
  BY <1>1, <1>2
<1>5. d.areas[m + 1] = area
  BY <1>1, <1>2
<1>6. d.areas[1] = RootArea(d.namespace, d.users[1])
  BY <1>1, <1>2, <1>4 DEF Genuine
<1>7. ASSUME NEW i \in 1..m PROVE d.areas[i + 1] \subseteq d.areas[i]
  <2>1. CASE i = m
    BY <1>1, <1>4, <1>5, <2>1 DEF granted_area, Last1
  <2>2. CASE i \in 1..(m - 1)
    <3>1. i + 1 \in 1..m
      BY <1>1, <2>2
    <3> QED
      BY <1>1, <1>4, <2>2, <3>1 DEF Genuine
  <2> QED
    BY <1>1, <2>1, <2>2
<1>8. Genuine(d)
  BY <1>1, <1>2, <1>3, <1>6, <1>7 DEF Genuine
<1>9. granted_area(d) = area
  BY <1>3, <1>5 DEF granted_area, Last1
<1> QED
  BY <1>2, <1>8, <1>9 DEF d

(* McCapability::delegate only appends: what the delegator's capability    *)
(* goes back to, the new one goes back to.                                 *)
LEMMA DelegatedDerives ==
    ASSUME NEW cap, Genuine(cap), NEW root, Genuine(root), DerivesFrom(cap, root),
           NEW to \in Users, NEW area \in Areas
    PROVE  DerivesFrom(Delegated(cap, to, area), root)
<1> DEFINE d == Delegated(cap, to, area)
<1>1. /\ cap.users \in Seq(Users) /\ cap.areas \in Seq(Areas) /\ Len(cap.areas) = Len(cap.users)
      /\ Len(cap.users) \in Nat /\ Len(root.users) \in Nat /\ Len(root.users) <= Len(cap.users)
  BY DEF Genuine, Capability, DerivesFrom
<1>2. /\ d.mode = cap.mode /\ d.namespace = cap.namespace
      /\ d.users = Append(cap.users, to) /\ d.areas = Append(cap.areas, area)
  BY DEF Delegated, Genuine, Capability
<1> HIDE DEF d
<1>3. /\ Len(d.users) = Len(cap.users) + 1
      /\ \A i \in 1..Len(cap.users) : d.users[i] = cap.users[i] /\ d.areas[i] = cap.areas[i]
  BY <1>1, <1>2
<1>4. /\ Len(root.users) <= Len(d.users)
      /\ \A i \in 1..Len(root.users) : i \in 1..Len(cap.users)
  BY <1>1, <1>3
<1> QED
  BY <1>2, <1>3, <1>4 DEF DerivesFrom, d

(* RestrictArea::or_default of a granted area is an area.                  *)
LEMMA DefaultArea ==
    ASSUME NEW cap, Genuine(cap), NEW restrict \in Areas \cup {{}}
    PROVE  or_default(restrict, granted_area(cap)) \in Areas
BY GenuineHasLast DEF or_default

(* What create_read_cap and create_write_cap make.                         *)
LEMMA FullPackIsGenuine ==
    ASSUME NEW mode \in AccessModes, NEW namespace \in Namespaces, NEW user \in Users
    PROVE  FullPack(mode, namespace, user) \in GenuinePacks /\ validate(FullPack(mode, namespace, user))
<1> DEFINE p == FullPack(mode, namespace, user)
           root == RootArea(namespace, user)
<1>1. root \in Areas
  BY AuthAssumption DEF RootArea
<1>2. /\ p.kind = mode /\ p.cap.mode = mode /\ p.cap.namespace = namespace
      /\ p.cap.users = << user >> /\ p.cap.areas = << root >>
      /\ p.subspace = (mode = "Read" /\ namespace \in Owned)
  BY DEF FullPack
<1>3. << user >> \in Seq(Users) /\ << root >> \in Seq(Areas)
  BY <1>1
<1>4. p \in Pack /\ p.cap \in Capability
  BY <1>3 DEF FullPack, Pack, Capability
<1> HIDE DEF p
<1>5. Genuine(p.cap)
  BY <1>2, <1>3, <1>4 DEF Genuine, root
<1>6. mode = "Read" => HasSubspaceCap(p.cap, p.subspace)
  BY <1>2 DEF HasSubspaceCap, NeedsSubspaceCap
<1> QED
  BY <1>2, <1>4, <1>5, <1>6 DEF GenuinePacks, validate, p

(* Vec::push, or inserting into a table.                                   *)
LEMMA PushKeeps ==
    ASSUME NEW n, NEW S, NEW caps \in Seq(S), NEW cap \in S
    PROVE  Push(n, caps, cap) \in Seq(S)
BY DEF Push

(* CapsStorage::insert files a validated pack with what it is.             *)
LEMMA InsertKeeps ==
    ASSUME NEW n, NEW has \in [read: Seq(GenuineReads), write: Seq(GenuineWrites)],
           NEW p \in GenuinePacks, validate(p)
    PROVE  Insert(n, has, p) \in [read: Seq(GenuineReads), write: Seq(GenuineWrites)]
<1>1. p \in Pack /\ Genuine(p.cap) /\ p.kind = p.cap.mode
  BY DEF GenuinePacks, validate
<1>2. CASE p.kind = "Read"
  <2> DEFINE auth == [cap |-> p.cap, subspace |-> p.subspace]
  <2>1. auth \in GenuineReads
    BY <1>1, <1>2 DEF GenuineReads, GenuinePacks, ReadAuthorisation, Pack
  <2>2. Push(n, has.read, auth) \in Seq(GenuineReads)
    BY <2>1, PushKeeps
  <2>3. Insert(n, has, p) = [has EXCEPT !.read = Push(n, has.read, auth)]
    BY <1>2 DEF Insert
  <2> QED
    BY <2>2, <2>3
<1>3. CASE p.kind = "Write"
  <2>1. p.cap \in GenuineWrites
    BY <1>1, <1>3 DEF GenuineWrites, Pack
  <2>2. Push(n, has.write, p.cap) \in Seq(GenuineWrites)
    BY <2>1, PushKeeps
  <2>3. Insert(n, has, p) = [has EXCEPT !.write = Push(n, has.write, p.cap)]
    BY <1>3 DEF Insert
  <2> QED
    BY <2>2, <2>3
<1> QED
  BY <1>1, <1>2, <1>3 DEF Pack, AccessModes

(* Inserting one or two validated packs.                                   *)
LEMMA InsertCapsKeeps ==
    ASSUME StoresInv, NEW n \in Nodes, NEW new, Len(new) \in {1, 2},
           \A i \in 1..Len(new) : new[i] \in GenuinePacks /\ validate(new[i]),
           InsertCaps(n, new)
    PROVE  /\ read_caps' \in [Nodes -> Seq(GenuineReads)]
           /\ write_caps' \in [Nodes -> Seq(GenuineWrites)]
<1> DEFINE Stores == [read: Seq(GenuineReads), write: Seq(GenuineWrites)]
           has   == [read |-> read_caps[n], write |-> write_caps[n]]
           first == Insert(n, has, new[1])
           all   == IF Len(new) = 1 THEN first ELSE Insert(n, first, new[2])
<1>1. has \in Stores
  BY DEF StoresInv
<1>2. first \in Stores
  BY <1>1, InsertKeeps
<1>3. all \in Stores
  <2>1. CASE Len(new) = 1
    BY <1>2, <2>1
  <2>2. CASE Len(new) = 2
    <3>1. Insert(n, first, new[2]) \in Stores
      <4> HIDE DEF first
      <4> QED
        BY <1>2, <2>2, InsertKeeps
    <3> QED
      BY <2>2, <3>1
  <2> QED
    BY <2>1, <2>2
<1>4. /\ read_caps' = [read_caps EXCEPT ![n] = all.read]
      /\ write_caps' = [write_caps EXCEPT ![n] = all.write]
  BY DEF InsertCaps
<1> HIDE DEF all
<1> QED
  BY <1>3, <1>4 DEF StoresInv

(* What get_read_cap and get_write_cap return is genuine.                  *)
LEMMA FoundIsGenuine ==
    ASSUME StoresInv, NEW n \in Nodes, NEW selector
    PROVE  /\ get_read_cap(n, selector) \subseteq GenuineReads
           /\ get_write_cap(n, selector) \subseteq GenuineWrites
<1>1. read_caps[n] \in Seq(GenuineReads) /\ write_caps[n] \in Seq(GenuineWrites)
  BY DEF StoresInv
<1>2. /\ Len(ReadCapsOf(n)) = Len(read_caps[n]) /\ DOMAIN ReadCapsOf(n) = 1..Len(read_caps[n])
      /\ Len(read_caps[n]) \in Nat
  BY <1>1 DEF ReadCapsOf
<1>3. \A i \in Select(n, ReadCapsOf(n), selector) : i \in 1..Len(read_caps[n])
  BY <1>2, SelectIsSound
<1>4. \A i \in Select(n, write_caps[n], selector) : i \in 1..Len(write_caps[n])
  BY <1>1, SelectIsSound
<1> QED
  BY <1>1, <1>3, <1>4 DEF get_read_cap, get_write_cap

(* delegate_full_caps hands out genuine packs.                             *)
LEMMA DelegateCapsKeeps ==
    ASSUME StoresInv, NEW n \in Nodes, NEW from, NEW mode \in AccessModes, NEW to \in Users,
           NEW restrict \in Areas \cup {{}}, DelegateCaps(n, from, mode, to, restrict)
    PROVE  packs' \subseteq GenuinePacks
<1>1. PICK auth \in get_read_cap(n, from) :
         /\ CanDelegate(n, auth.cap, restrict)
         /\ \/ packs' = packs \cup {delegate_read_cap(auth, to, restrict)}
            \/ \E cap \in get_write_cap(n, from) :
                  /\ CanDelegate(n, cap, restrict)
                  /\ packs' = packs \cup {delegate_read_cap(auth, to, restrict),
                                          delegate_write_cap(cap, to, restrict)}
  BY DEF DelegateCaps
<1>2. auth \in GenuineReads /\ Genuine(auth.cap) /\ auth.subspace \in BOOLEAN
  BY FoundIsGenuine DEF GenuineReads, ReadAuthorisation
<1>3. delegate_read_cap(auth, to, restrict) \in GenuinePacks
  <2> DEFINE area == or_default(restrict, granted_area(auth.cap))
             d    == Delegated(auth.cap, to, area)
             p    == delegate_read_cap(auth, to, restrict)
  <2>1. area \in Areas /\ area \subseteq granted_area(auth.cap)
    BY <1>1, <1>2, DefaultArea DEF CanDelegate, MayDelegate
  <2> HIDE DEF area
  <2>2. Genuine(d) /\ d \in Capability /\ d.namespace = auth.cap.namespace /\ granted_area(d) = area
    BY <1>2, <2>1, DelegatedIsGenuine, GenuineHasLast
  <2>3. p = [kind |-> "Read", cap |-> d, subspace |-> auth.subspace /\ area \in AnySubspace]
    BY DEF delegate_read_cap, area
  <2> HIDE DEF d, p
  <2>4. area \in AnySubspace => granted_area(auth.cap) \in AnySubspace
    BY <1>2, <2>1, GenuineHasLast, AuthAssumption
  <2>5. HasSubspaceCap(d, auth.subspace /\ area \in AnySubspace)
    <3>1. NeedsSubspaceCap(d) => NeedsSubspaceCap(auth.cap) /\ area \in AnySubspace
      BY <2>2, <2>4 DEF NeedsSubspaceCap
    <3>2. CameWithout(auth.cap) => CameWithout(d)
      <4> SUFFICES ASSUME NEW q \in Received, DerivesFrom(auth.cap, q.cap) PROVE DerivesFrom(d, q.cap)
        BY DEF CameWithout
      <4>1. Genuine(q.cap)
        BY AuthAssumption
      <4> QED
        BY <1>2, <2>1, <4>1, DelegatedDerives DEF d
    <3> QED
      BY <1>2, <3>1, <3>2 DEF HasSubspaceCap, GenuineReads
  <2> QED
    BY <2>2, <2>3, <2>5 DEF GenuinePacks, Pack, AccessModes, p
<1>4. ASSUME NEW cap \in get_write_cap(n, from), CanDelegate(n, cap, restrict)
      PROVE  delegate_write_cap(cap, to, restrict) \in GenuinePacks
  <2> DEFINE area == or_default(restrict, granted_area(cap))
             d    == Delegated(cap, to, area)
  <2>1. Genuine(cap)
    BY FoundIsGenuine DEF GenuineWrites
  <2>2. area \in Areas /\ area \subseteq granted_area(cap)
    BY <1>4, <2>1, DefaultArea DEF CanDelegate, MayDelegate
  <2> HIDE DEF area
  <2>3. Genuine(d) /\ d \in Capability
    BY <2>1, <2>2, DelegatedIsGenuine, GenuineHasLast
  <2>4. delegate_write_cap(cap, to, restrict) = [kind |-> "Write", cap |-> d, subspace |-> FALSE]
    BY DEF delegate_write_cap, area
  <2> HIDE DEF d
  <2> QED
    BY <2>3, <2>4 DEF GenuinePacks, Pack, AccessModes
<1> QED
  BY <1>1, <1>3, <1>4 DEF StoresInv

(* import_caps stores the packs before the first one it refuses.           *)
LEMMA ImportCapsKeeps ==
    ASSUME StoresInv, NEW n \in Nodes, NEW caps, Len(caps) \in {1, 2}, caps \in Seq(GenuinePacks),
           ImportCaps(n, caps)
    PROVE  /\ read_caps' \in [Nodes -> Seq(GenuineReads)]
           /\ write_caps' \in [Nodes -> Seq(GenuineWrites)]
<1> DEFINE refused == { i \in DOMAIN caps : \/ ~ validate(caps[i])
                                            \/ receiver(caps[i].cap) \notin user_secrets[n] }
           taken   == { i \in DOMAIN caps : \A r \in refused : i < r }
           new     == [i \in taken |-> caps[i]]
<1>1. DOMAIN caps = 1..Len(caps) /\ \A i \in 1..Len(caps) : caps[i] \in GenuinePacks
  OBVIOUS
<1>2. taken # {} /\ InsertCaps(n, new)
  BY DEF ImportCaps
<1>3. \A i \in taken : i \in 1..Len(caps) /\ validate(caps[i])
  BY <1>1
<1>4. taken = 1..1 \/ taken = 1..2
  <2>0. Len(caps) = 1 \/ Len(caps) = 2
    OBVIOUS
  <2>1. \A i \in 1..Len(caps) : i = 1 \/ i = 2
    <3>1. CASE Len(caps) = 1
      BY <3>1
    <3>2. CASE Len(caps) = 2
      <4>1. \A i \in 1..2 : i = 1 \/ i = 2
        OBVIOUS
      <4> QED
        BY <3>2, <4>1
    <3> QED
      BY <2>0, <3>1, <3>2
  <2>2. 2 \in taken => 1 \in taken
    BY <1>1
  <2> HIDE DEF taken
  <2> QED
    BY <1>2, <1>3, <2>1, <2>2
<1> HIDE DEF taken
<1>5. ASSUME NEW k \in {1, 2}, taken = 1..k
      PROVE  Len(new) = k /\ \A i \in 1..k : new[i] \in GenuinePacks /\ validate(new[i])
  BY <1>1, <1>3, <1>5
<1>6. Len(new) \in {1, 2} /\ \A i \in 1..Len(new) : new[i] \in GenuinePacks /\ validate(new[i])
  <2> HIDE DEF new
  <2> QED
    BY <1>4, <1>5
<1> HIDE DEF new
<1> QED
  BY <1>2, <1>6, InsertCapsKeeps

(* insert_entry signs only what a genuine write capability covers.         *)
LEMMA InsertEntryKeeps ==
    ASSUME StoresInv, NEW n \in Nodes, NEW namespace \in Namespaces, NEW point \in Points,
           NEW user \in Users, NEW exact, InsertEntry(n, namespace, point, user, exact)
    PROVE  entries' \in [Nodes -> SUBSET Authorised]
<1> DEFINE chosen == IF exact THEN { p.cap : p \in { q \in packs : q.kind = "Write" } }
                    ELSE get_write_cap(n, for_entry(namespace, point, user))
           new(cap) == [namespace |-> namespace, point |-> point, cap |-> cap, signer |-> user]
<1>1. PICK cap \in chosen :
         /\ receiver(cap) = user
         /\ cap.mode = "Write" /\ cap.namespace = namespace /\ point \in granted_area(cap)
         /\ entries' = [entries EXCEPT ![n] = @ \cup {new(cap)}]
  BY DEF InsertEntry, authorisation_token
<1>2. Genuine(cap) /\ cap \in Capability
  <2>1. CASE exact
    <3>1. PICK p \in packs : cap = p.cap
      BY <1>1, <2>1
    <3> QED
      BY <3>1, GenuineHasLast DEF StoresInv, GenuinePacks
  <2>2. CASE ~ exact
    BY <1>1, <2>2, FoundIsGenuine DEF GenuineWrites
  <2> QED
    BY <2>1, <2>2
<1>3. new(cap) \in Authorised
  BY <1>1, <1>2 DEF Authorised, Entry, GenuineWrites
<1> QED
  BY <1>1, <1>3 DEF StoresInv

(* The secrets and capabilities of every node, what was handed out and     *)
(* what was signed are genuine, in every reachable state.                  *)
THEOREM StoresInvariant == Spec => []StoresInv
<1>1. Init => StoresInv
  <2> SUFFICES ASSUME Init PROVE StoresInv
    OBVIOUS
  <2>1. Received \subseteq GenuinePacks
    <3> SUFFICES ASSUME NEW p \in Received PROVE p \in GenuinePacks
      OBVIOUS
    <3>1. p \in Pack /\ Genuine(p.cap)
      BY AuthAssumption
    <3>2. p.subspace \in BOOLEAN /\ DerivesFrom(p.cap, p.cap)
      BY <3>1 DEF Pack, DerivesFrom, Genuine
    <3>3. p.kind = "Read" => HasSubspaceCap(p.cap, p.subspace)
      BY <3>2 DEF HasSubspaceCap, CameWithout
    <3> QED
      BY <3>1, <3>3 DEF GenuinePacks
  <2>2. << >> \in Seq(GenuineReads) /\ << >> \in Seq(GenuineWrites)
    OBVIOUS
  <2> QED
    BY <2>1, <2>2 DEF Init, StoresInv
<1>2. StoresInv /\ [Next]_vars => StoresInv'
  <2> SUFFICES ASSUME StoresInv, [Next]_vars PROVE StoresInv'
    OBVIOUS
  <2>1. CASE UNCHANGED vars
    BY <2>1 DEF StoresInv, vars
  <2>2. ASSUME NEW n \in Nodes, NEW user \in Users, CreateUser(n, user) PROVE StoresInv'
    BY <2>2 DEF CreateUser, StoresInv
  <2>3. ASSUME NEW n \in Nodes, NEW namespace \in Namespaces, NEW owner \in Users,
               CreateNamespace(n, namespace, owner)
        PROVE  StoresInv'
    <3> DEFINE new == << FullPack("Read", namespace, owner), FullPack("Write", namespace, owner) >>
    <3>1. \A i \in 1..2 : new[i] \in GenuinePacks /\ validate(new[i])
      <4>1. \A i \in 1..2 : i = 1 \/ i = 2
        OBVIOUS
      <4> QED
        BY <4>1, FullPackIsGenuine DEF AccessModes
    <3>2. InsertCaps(n, new) /\ Len(new) = 2
      BY <2>3 DEF CreateNamespace
    <3> HIDE DEF new
    <3>3. /\ read_caps' \in [Nodes -> Seq(GenuineReads)]
          /\ write_caps' \in [Nodes -> Seq(GenuineWrites)]
      BY <3>1, <3>2, InsertCapsKeeps
    <3>4. /\ namespace_secrets' = [namespace_secrets EXCEPT ![n] = @ \cup {namespace}]
          /\ UNCHANGED << user_secrets, packs, entries >>
      BY <2>3 DEF CreateNamespace
    <3> QED
      BY <3>3, <3>4 DEF StoresInv
  <2>4. ASSUME NEW n \in Nodes, NEW from, NEW mode \in AccessModes, NEW to \in Users,
               NEW restrict \in Areas \cup {{}}, DelegateCaps(n, from, mode, to, restrict)
        PROVE  StoresInv'
    <3>1. packs' \subseteq GenuinePacks
      BY <2>4, DelegateCapsKeeps
    <3> QED
      BY <2>4, <3>1 DEF DelegateCaps, StoresInv
  <2>5. ASSUME NEW n \in Nodes, NEW caps, Len(caps) \in {1, 2}, caps \in Seq(GenuinePacks),
               ImportCaps(n, caps)
        PROVE  StoresInv'
    <3>1. /\ read_caps' \in [Nodes -> Seq(GenuineReads)]
          /\ write_caps' \in [Nodes -> Seq(GenuineWrites)]
      BY <2>5, ImportCapsKeeps
    <3>2. UNCHANGED << user_secrets, namespace_secrets, packs, entries >>
      BY <2>5 DEF ImportCaps
    <3> QED
      BY <3>1, <3>2 DEF StoresInv
  <2>6. ASSUME NEW n \in Nodes, NEW p \in packs, ImportCaps(n, << p >>) PROVE StoresInv'
    <3> DEFINE caps == << p >>
    <3>1. caps \in Seq(GenuinePacks) /\ Len(caps) = 1 /\ ImportCaps(n, caps)
      BY <2>6 DEF StoresInv
    <3> HIDE DEF caps
    <3>2. Len(caps) \in {1, 2}
      BY <3>1
    <3> QED
      BY <2>5, <3>1, <3>2
  <2>7. ASSUME NEW n \in Nodes, NEW p \in packs, NEW q \in packs, ImportCaps(n, << p, q >>)
        PROVE  StoresInv'
    <3> DEFINE caps == << p, q >>
    <3>1. caps \in Seq(GenuinePacks) /\ Len(caps) = 2 /\ ImportCaps(n, caps)
      BY <2>7 DEF StoresInv
    <3> HIDE DEF caps
    <3>2. Len(caps) \in {1, 2}
      BY <3>1
    <3> QED
      BY <2>5, <3>1, <3>2
  <2>8. ASSUME NEW n \in Nodes, NEW namespace \in Namespaces, NEW point \in Points,
               NEW user \in Users, NEW exact, InsertEntry(n, namespace, point, user, exact)
        PROVE  StoresInv'
    <3>1. entries' \in [Nodes -> SUBSET Authorised]
      BY <2>8, InsertEntryKeeps
    <3> QED
      BY <2>8, <3>1 DEF InsertEntry, StoresInv
  <2> QED
    BY <2>1, <2>2, <2>3, <2>4, <2>6, <2>7, <2>8 DEF Next
<1> QED
  BY <1>1, <1>2, PTL DEF Spec

(* Everything a node stores is of the right type, genuine and filed under  *)
(* its own access mode, and every entry it signed was covered by a write   *)
(* capability of its signer.                                               *)
THEOREM NothingExceedsItsGrant == Spec => []AuthInv
<1>1. StoresInv => AuthInv
  <2> SUFFICES ASSUME StoresInv PROVE AuthInv
    OBVIOUS
  <2>1. TypeOK
    <3>1. GenuineReads \subseteq ReadAuthorisation /\ GenuineWrites \subseteq Capability
      BY DEF GenuineReads, GenuineWrites
    <3>2. GenuinePacks \subseteq Pack /\ Authorised \subseteq Entry
      BY DEF GenuinePacks, Authorised
    <3>3. \A n \in Nodes : read_caps[n] \in Seq(ReadAuthorisation) /\ write_caps[n] \in Seq(Capability)
      BY <3>1 DEF StoresInv
    <3>4. \A n \in Nodes : entries[n] \subseteq Entry
      BY <3>2 DEF StoresInv
    <3> QED
      BY <3>2, <3>3, <3>4 DEF StoresInv, TypeOK
  <2>2. Authority
    <3> SUFFICES ASSUME NEW n \in Nodes
                 PROVE  /\ \A i \in DOMAIN read_caps[n] :
                              Genuine(read_caps[n][i].cap) /\ read_caps[n][i].cap.mode = "Read"
                        /\ \A i \in DOMAIN write_caps[n] :
                              Genuine(write_caps[n][i]) /\ write_caps[n][i].mode = "Write"
                        /\ \A e \in entries[n] :
                              /\ Genuine(e.cap) /\ e.cap.mode = "Write"
                              /\ e.cap.namespace = e.namespace
                              /\ e.signer = receiver(e.cap) /\ e.point \in granted_area(e.cap)
      BY DEF Authority
    <3>1. \A i \in DOMAIN read_caps[n] : read_caps[n][i] \in GenuineReads
      BY DEF StoresInv
    <3>2. \A i \in DOMAIN write_caps[n] : write_caps[n][i] \in GenuineWrites
      BY DEF StoresInv
    <3>3. entries[n] \subseteq Authorised
      BY DEF StoresInv
    <3> QED
      BY <3>1, <3>2, <3>3 DEF GenuineReads, GenuineWrites, Authorised
  <2> QED
    BY <2>1, <2>2 DEF AuthInv
<1> QED
  BY <1>1, StoresInvariant, PTL

(* No node loses a subspace capability: delegate_read_cap passes it on     *)
(* whenever the new area still spans all subspaces, so a stored capability *)
(* lacks the one it needs only if it goes back to a received pack that did, *)
(* which import_caps takes unchecked.                                      *)
THEOREM SubspaceCapabilitiesFollow == Spec => []SubspaceCapsFollow
<1>1. StoresInv => SubspaceCapsFollow
  <2> SUFFICES ASSUME StoresInv, NEW n \in Nodes, NEW i \in DOMAIN read_caps[n]
               PROVE  HasSubspaceCap(read_caps[n][i].cap, read_caps[n][i].subspace)
    BY DEF SubspaceCapsFollow, HasSubspaceCap
  <2>1. read_caps[n][i] \in GenuineReads
    BY DEF StoresInv
  <2> QED
    BY <2>1 DEF GenuineReads
<1> QED
  BY <1>1, StoresInvariant, PTL

(* The in-memory store answers AreaSelector::Widest with a capability that *)
(* no other one exceeds, for any contents and any order of insertion.      *)
THEOREM TheWidestIsSelected == Spec => []WidestIsSelected
<1>1. StoresInv => WidestIsSelected
  <2> SUFFICES ASSUME StoresInv, NEW n \in Nodes \ Persistent, NEW ns \in Namespaces,
                      NEW user \in Users \cup {"any"}
               PROVE  LET widest == [namespace |-> ns, receiver |-> user, covers |-> {}]
                          Beaten(by, area) == /\ by.namespace = ns /\ user \in {"any", receiver(by)}
                                              /\ area \subseteq granted_area(by)
                                              /\ area # granted_area(by)
                      IN /\ \A chosen \in get_write_cap(n, widest) : \A i \in DOMAIN write_caps[n] :
                                ~ Beaten(write_caps[n][i], granted_area(chosen))
                         /\ \A chosen \in resolve_interests(n, {[selector |-> widest, areas |-> {}]}) :
                                \A all \in resolve_all(n) : ~ Beaten(all[1].cap, chosen[2])
    BY DEF WidestIsSelected, WidestOn
  <2> DEFINE widest == [namespace |-> ns, receiver |-> user, covers |-> {}]
             Beaten(by, area) == /\ by.namespace = ns /\ user \in {"any", receiver(by)}
                                 /\ area \subseteq granted_area(by) /\ area # granted_area(by)
  <2>1. ASSUME NEW by, NEW cap, Beaten(by, granted_area(cap))
        PROVE  is_covered_by(widest, by) /\ Exceeds(by, cap)
    BY <2>1 DEF is_covered_by, Exceeds
  <2>2. ASSUME NEW caps, Len(caps) \in Nat, DOMAIN caps = 1..Len(caps),
               NEW i \in Select(n, caps, widest), NEW j \in DOMAIN caps
        PROVE  i \in DOMAIN caps /\ ~ Beaten(caps[j], granted_area(caps[i]))
    <3> HIDE DEF widest
    <3> DEFINE b == Reduction(caps, widest)[Len(caps)]
    <3>1. BestOf(caps, widest, Len(caps), b)
      BY <2>2, ReductionIsBest
    <3>2. i = b /\ b # 0
      BY <2>2 DEF Select
    <3> HIDE DEF b
    <3>3. is_covered_by(widest, caps[j]) => ~ Exceeds(caps[j], caps[i])
      BY <2>2, <3>1, <3>2 DEF BestOf
    <3>4. i \in DOMAIN caps
      BY <2>2, <3>1, <3>2 DEF BestOf
    <3> HIDE DEF Beaten
    <3> QED
      BY <2>1, <3>3, <3>4
  <2> HIDE DEF Beaten
  <2>3. ASSUME NEW chosen \in get_write_cap(n, widest), NEW j \in DOMAIN write_caps[n]
        PROVE  ~ Beaten(write_caps[n][j], granted_area(chosen))
    <3> HIDE DEF widest
    <3>1. Len(write_caps[n]) \in Nat /\ DOMAIN write_caps[n] = 1..Len(write_caps[n])
      BY DEF StoresInv
    <3>2. PICK i \in Select(n, write_caps[n], widest) : chosen = write_caps[n][i]
      BY <2>3 DEF get_write_cap
    <3> QED
      BY <2>2, <3>1, <3>2
  <2>4. ASSUME NEW chosen \in resolve_interests(n, {[selector |-> widest, areas |-> {}]}),
               NEW all \in resolve_all(n)
        PROVE  ~ Beaten(all[1].cap, chosen[2])
    <3>1. read_caps[n] \in Seq(GenuineReads)
      BY DEF StoresInv
    <3>2. /\ Len(ReadCapsOf(n)) \in Nat /\ DOMAIN ReadCapsOf(n) = 1..Len(ReadCapsOf(n))
          /\ DOMAIN ReadCapsOf(n) = DOMAIN read_caps[n]
          /\ \A i \in DOMAIN read_caps[n] : ReadCapsOf(n)[i] = read_caps[n][i].cap
      BY <3>1 DEF ReadCapsOf
    <3>3. PICK auth \in get_read_cap(n, widest) : chosen[2] = granted_area(auth.cap)
      <4> HIDE DEF widest
      <4> QED
        BY <2>4 DEF resolve_interests
    <3>4. PICK i \in Select(n, ReadCapsOf(n), widest) : auth = read_caps[n][i]
      <4> HIDE DEF widest
      <4> QED
        BY <3>3 DEF get_read_cap
    <3>5. PICK j \in DOMAIN read_caps[n] : all[1] = read_caps[n][j]
      <4>1. PICK other \in ToSet(read_caps[n]) : all = << other, granted_area(other.cap) >>
        BY <2>4 DEF resolve_all
      <4>2. all[1] = other
        BY <4>1
      <4> QED
        BY <4>1, <4>2 DEF ToSet
    <3> HIDE DEF widest
    <3>6. i \in DOMAIN ReadCapsOf(n) /\ ~ Beaten(ReadCapsOf(n)[j], granted_area(ReadCapsOf(n)[i]))
      BY <2>2, <3>2
    <3> QED
      BY <3>2, <3>3, <3>4, <3>5, <3>6
  <2> QED
    BY <2>3, <2>4 DEF Beaten
<1> QED
  BY <1>1, StoresInvariant, PTL

-----------------------------------------------------------------------------
(* PaiFinder: sequences.                                                   *)

Joined(ss, f) == f = [i \in 1..Len(ss) |-> IF i = 1 THEN ss[i] ELSE f[i - 1] \o ss[i]]

(* FlattenSeq is what its recursion says.                                  *)
LEMMA FlattenSteps ==
    ASSUME NEW ss, Len(ss) \in Nat, Len(ss) # 0
    PROVE  \E f : Joined(ss, f) /\ FlattenSeq(ss) = f[Len(ss)]
<1> DEFINE Steps(f, n) == f = [i \in 1..n |-> IF i = 1 THEN ss[i] ELSE f[i - 1] \o ss[i]]
           S == { n \in Nat : \E f : Steps(f, n) }
<1>1. 0 \in S
  <2> DEFINE f == [i \in 1..0 |-> ss[i]]
  <2>1. Steps(f, 0)
    OBVIOUS
  <2> QED
    BY <2>1
<1>2. ASSUME NEW n \in Nat, n \in S PROVE n + 1 \in S
  <2>1. PICK f : Steps(f, n)
    BY <1>2
  <2> DEFINE g == [i \in 1..(n + 1) |-> IF i <= n THEN f[i]
                                        ELSE IF i = 1 THEN ss[i] ELSE f[n] \o ss[i]]
  <2>2. ASSUME NEW i \in 1..(n + 1)
        PROVE  g[i] = IF i = 1 THEN ss[i] ELSE g[i - 1] \o ss[i]
    <3>1. CASE i <= n
      <4>1. i \in 1..n /\ g[i] = f[i] /\ (i # 1 => g[i - 1] = f[i - 1])
        BY <3>1
      <4>2. f[i] = IF i = 1 THEN ss[i] ELSE f[i - 1] \o ss[i]
        BY <2>1, <4>1
      <4> QED
        BY <4>1, <4>2
    <3>2. CASE i = n + 1
      <4>1. i # 1 => g[i - 1] = f[n]
        BY <3>2
      <4> QED
        BY <3>2, <4>1
    <3> QED
      BY <3>1, <3>2
  <2>3. Steps(g, n + 1)
    BY <2>2
  <2>4. \E h : Steps(h, n + 1)
    <3> HIDE DEF Steps, g
    <3> QED
      BY <2>3
  <2> HIDE DEF Steps
  <2> QED
    BY <2>4
<1>3. Len(ss) \in S
  <2> HIDE DEF S
  <2> QED
    BY <1>1, <1>2, NatSetInduction
<1>4. \E f : Steps(f, Len(ss))
  BY <1>3
<1>5. PICK f : f = CHOOSE flatten : Steps(flatten, Len(ss))
  OBVIOUS
<1>6. FlattenSeq(ss) = f[Len(ss)]
  BY <1>5 DEF FlattenSeq
<1>7. Steps(f, Len(ss))
  <2> HIDE DEF Steps
  <2> QED
    BY <1>4, <1>5
<1> QED
  BY <1>6, <1>7 DEF Joined

(* Sequences joined are a sequence.                                        *)
LEMMA FlattenType ==
    ASSUME NEW T, NEW ss, Len(ss) \in Nat, ss = << >> \/ Len(ss) # 0,
           \A i \in 1..Len(ss) : ss[i] \in Seq(T)
    PROVE  FlattenSeq(ss) \in Seq(T)
<1>1. CASE ss = << >>
  <2>1. Len(ss) = 0
    BY <1>1
  <2>2. FlattenSeq(ss) = ss
    BY <2>1 DEF FlattenSeq
  <2> QED
    BY <1>1, <2>2, EmptySeq
<1>2. CASE Len(ss) # 0
  <2>1. PICK f : Joined(ss, f) /\ FlattenSeq(ss) = f[Len(ss)]
    BY <1>2, FlattenSteps
  <2>2. \A i \in 1..Len(ss) : f[i] = IF i = 1 THEN ss[i] ELSE f[i - 1] \o ss[i]
    BY <2>1 DEF Joined
  <2> DEFINE S == { k \in Nat : k + 1 <= Len(ss) => f[k + 1] \in Seq(T) }
  <2>3. 0 \in S
    <3>1. 1 \in 1..Len(ss)
      BY <1>2
    <3>2. f[1] = ss[1]
      BY <2>2, <3>1
    <3> QED
      BY <3>1, <3>2
  <2>4. ASSUME NEW k \in Nat, k \in S PROVE k + 1 \in S
    <3> SUFFICES ASSUME (k + 1) + 1 <= Len(ss) PROVE f[(k + 1) + 1] \in Seq(T)
      OBVIOUS
    <3>1. (k + 1) + 1 \in 1..Len(ss) /\ (k + 1) + 1 # 1 /\ ((k + 1) + 1) - 1 = k + 1 /\ k + 1 <= Len(ss)
      OBVIOUS
    <3>2. f[k + 1] \in Seq(T) /\ ss[(k + 1) + 1] \in Seq(T)
      BY <2>4, <3>1
    <3>3. f[(k + 1) + 1] = f[k + 1] \o ss[(k + 1) + 1]
      BY <2>2, <3>1
    <3> QED
      BY <3>2, <3>3, ConcatProperties
  <2>5. Len(ss) - 1 \in S
    <3>1. Nat \subseteq S
      <4> HIDE DEF S
      <4> QED
        BY <2>3, <2>4, NatSetInduction
    <3> QED
      BY <1>2, <3>1
  <2>6. f[Len(ss)] \in Seq(T)
    BY <1>2, <2>5
  <2> QED
    BY <2>1, <2>6
<1> QED
  BY <1>1, <1>2

(* The orders in which a finite set can be gone through.                   *)
LEMMA OrdersOf ==
    ASSUME NEW S, IsFiniteSet(S), NEW order \in SetToSeqs(S)
    PROVE  /\ order \in Seq(S) /\ Len(order) = Cardinality(S) /\ Len(order) \in Nat
           /\ DOMAIN order = 1..Len(order)
           /\ \A i, j \in DOMAIN order : order[i] = order[j] => i = j
<1>1. PICK n \in Nat : n = Cardinality(S)
  BY FS_CardinalityType
<1>2. order \in [1..n -> S] /\ \A i, j \in 1..n : i # j => order[i] # order[j]
  BY <1>1 DEF SetToSeqs
<1>3. order \in Seq(S)
  BY <1>2
<1>4. DOMAIN order = 1..n /\ Len(order) = n
  BY <1>2, <1>3
<1> QED
  BY <1>1, <1>2, <1>3, <1>4

-----------------------------------------------------------------------------
(* The handle tables.  These lemmas are about any table, any messages and  *)
(* any fragments.                                                          *)

Upto(msgs, i) == { j \in Binds(msgs) : j <= i }

(* The bindings up to a message are finitely many.                         *)
LEMMA UptoFinite ==
    ASSUME NEW M, NEW msgs \in Seq(M), NEW i
    PROVE  /\ IsFiniteSet(Binds(msgs)) /\ Cardinality(Binds(msgs)) \in Nat
           /\ IsFiniteSet(Upto(msgs, i)) /\ Cardinality(Upto(msgs, i)) \in Nat
           /\ Cardinality(Upto(msgs, i)) <= Cardinality(Binds(msgs))
           /\ \A h \in Binds(msgs) : h \in Nat /\ 1 <= h /\ h <= Len(msgs)
           /\ \A h \in Binds(msgs) : Cardinality(Upto(msgs, h)) >= 1
<1>1. PICK n \in Nat : n = Len(msgs) /\ DOMAIN msgs = 1..n
  BY LenProperties
<1>2. IsFiniteSet(1..n)
  BY <1>1, FS_Interval
<1>3. Binds(msgs) \in SUBSET (1..n)
  BY <1>1 DEF Binds
<1>4. IsFiniteSet(Binds(msgs)) /\ Cardinality(Binds(msgs)) \in Nat
  BY <1>2, <1>3, FS_Subset, FS_CardinalityType
<1>5. \A k : Upto(msgs, k) \in SUBSET Binds(msgs)
  BY DEF Upto
<1>6. \A k : /\ IsFiniteSet(Upto(msgs, k)) /\ Cardinality(Upto(msgs, k)) \in Nat
             /\ Cardinality(Upto(msgs, k)) <= Cardinality(Binds(msgs))
  BY <1>4, <1>5, FS_Subset, FS_CardinalityType
<1>7. \A h \in Binds(msgs) : h \in Nat /\ 1 <= h /\ h <= Len(msgs)
  BY <1>1, <1>3
<1>8. ASSUME NEW h \in Binds(msgs) PROVE Cardinality(Upto(msgs, h)) >= 1
  <2>1. h \in Upto(msgs, h)
    BY <1>7 DEF Upto
  <2>2. Cardinality(Upto(msgs, h)) # 0
    BY <1>6, <2>1, FS_EmptySet
  <2> QED
    BY <1>6, <2>2
<1> QED
  BY <1>4, <1>6, <1>7, <1>8

(* Taking the first message off shifts the positions of the others.        *)
LEMMA TailShifts ==
    ASSUME NEW M, NEW msgs \in Seq(M), msgs # << >>
    PROVE  /\ Binds(Tail(msgs)) = { i \in Nat : i + 1 \in Binds(msgs) /\ i # 0 }
           /\ \A i \in Nat : Cardinality(Upto(Tail(msgs), i))
                = Cardinality(Upto(msgs, i + 1)) - (IF 1 \in Binds(msgs) THEN 1 ELSE 0)
           /\ Cardinality(Binds(Tail(msgs)))
                = Cardinality(Binds(msgs)) - (IF 1 \in Binds(msgs) THEN 1 ELSE 0)
<1>1. PICK n \in Nat : n = Len(msgs) /\ DOMAIN msgs = 1..n /\ n # 0
  BY LenProperties, EmptySeq
<1>2. /\ Tail(msgs) \in Seq(M) /\ DOMAIN Tail(msgs) = 1..(n - 1)
      /\ \A i \in 1..(n - 1) : Tail(msgs)[i] = msgs[i + 1]
  BY <1>1, HeadTailProperties, LenProperties
<1>3. Binds(Tail(msgs)) = { i \in Nat : i + 1 \in Binds(msgs) /\ i # 0 }
  BY <1>1, <1>2 DEF Binds
<1>4. ASSUME NEW i \in Nat
      PROVE  Cardinality(Upto(Tail(msgs), i))
               = Cardinality(Upto(msgs, i + 1)) - (IF 1 \in Binds(msgs) THEN 1 ELSE 0)
  <2> DEFINE A == Upto(Tail(msgs), i)
             B == Upto(msgs, i + 1) \ {1}
             f == [j \in A |-> j + 1]
  <2>1. \A j \in A : j \in Nat /\ j + 1 \in B
    BY <1>3 DEF Upto
  <2>2. \A k \in B : k - 1 \in A /\ (k - 1) + 1 = k
    <3>1. \A k \in B : k \in Nat /\ 1 <= k /\ k # 1 /\ k \in Binds(msgs) /\ k <= i + 1
      BY UptoFinite DEF Upto
    <3> QED
      BY <1>3, <3>1 DEF Upto
  <2>3. IsFiniteSet(A)
    BY <1>2, UptoFinite
  <2>4. ExistsBijection(A, B)
    <3>1. f \in [A -> B]
      BY <2>1
    <3>2. \A j, k \in A : f[j] = f[k] => j = k
      BY <2>1
    <3>3. \A k \in B : \E j \in A : f[j] = k
      BY <2>2
    <3> HIDE DEF A, B, f
    <3> QED
      BY <3>1, <3>2, <3>3 DEF ExistsBijection, Bijection, Injection, Surjection, IsInjective
  <2>5. Cardinality(B) = Cardinality(A)
    <3> HIDE DEF A, B
    <3> QED
      BY <2>3, <2>4, FS_Bijection
  <2>6. Cardinality(B) = IF 1 \in Upto(msgs, i + 1) THEN Cardinality(Upto(msgs, i + 1)) - 1
                         ELSE Cardinality(Upto(msgs, i + 1))
    BY UptoFinite, FS_RemoveElement
  <2>7. 1 \in Upto(msgs, i + 1) <=> 1 \in Binds(msgs)
    BY DEF Upto
  <2>8. Cardinality(Upto(msgs, i + 1)) \in Nat
    BY UptoFinite
  <2> HIDE DEF A, B
  <2>9. Cardinality(A) = IF 1 \in Binds(msgs) THEN Cardinality(Upto(msgs, i + 1)) - 1
                         ELSE Cardinality(Upto(msgs, i + 1))
    BY <2>5, <2>6, <2>7
  <2> QED
    BY <2>8, <2>9 DEF A
<1>5. Upto(msgs, n + 1) = Binds(msgs) /\ Upto(Tail(msgs), n) = Binds(Tail(msgs))
  BY <1>1, <1>2 DEF Upto, Binds
<1> QED
  BY <1>1, <1>3, <1>4, <1>5

(* TablesAgree, by the number of bindings up to a message.                 *)
LEMMA AgreeBy ==
    ASSUME NEW table, NEW msgs, NEW infos
    PROVE  TablesAgree(table, msgs, infos) <=>
             /\ Len(infos) = Len(table) + Cardinality(Binds(msgs))
             /\ \A h \in DOMAIN table : table[h] = StateOf(infos[h])
             /\ \A i \in Binds(msgs) :
                   [fragment |-> msgs[i].fragment, is_secondary |-> msgs[i].is_secondary]
                     = StateOf(infos[Len(table) + Cardinality(Upto(msgs, i))])
BY DEF TablesAgree, Upto

(* The tables agree after a message that is no binding was taken.          *)
LEMMA AgreeAfterReply ==
    ASSUME NEW M, NEW msgs \in Seq(M), msgs # << >>, Head(msgs).type # "PaiBindFragment",
           NEW table, Len(table) \in Nat, NEW infos, TablesAgree(table, msgs, infos)
    PROVE  TablesAgree(table, Tail(msgs), infos)
<1>1. 1 \notin Binds(msgs)
  BY DEF Binds
<1>2. \A i \in Binds(Tail(msgs)) :
         /\ i \in Nat /\ i + 1 \in Binds(msgs) /\ Tail(msgs)[i] = msgs[i + 1]
         /\ Cardinality(Upto(Tail(msgs), i)) = Cardinality(Upto(msgs, i + 1))
  <2>1. \A i \in Binds(Tail(msgs)) : i \in DOMAIN Tail(msgs) /\ i \in Nat /\ i + 1 \in Binds(msgs)
    BY TailShifts DEF Binds
  <2>2. \A i \in DOMAIN Tail(msgs) : Tail(msgs)[i] = msgs[i + 1]
    BY HeadTailProperties, LenProperties
  <2>3. \A i \in Nat : Cardinality(Upto(Tail(msgs), i)) = Cardinality(Upto(msgs, i + 1)) - 0
    BY <1>1, TailShifts
  <2>4. \A i \in Nat : Cardinality(Upto(msgs, i + 1)) \in Nat
    BY UptoFinite
  <2> TAKE i \in Binds(Tail(msgs))
  <2>5. i \in Nat /\ i + 1 \in Binds(msgs) /\ Tail(msgs)[i] = msgs[i + 1]
    BY <2>1, <2>2
  <2>6. Cardinality(Upto(Tail(msgs), i)) = Cardinality(Upto(msgs, i + 1)) - 0
    BY <2>3, <2>5
  <2>7. Cardinality(Upto(Tail(msgs), i)) = Cardinality(Upto(msgs, i + 1))
    <3>1. PICK c \in Nat : c = Cardinality(Upto(msgs, i + 1))
      BY <2>4, <2>5
    <3>2. c - 0 = c
      OBVIOUS
    <3> QED
      BY <2>6, <3>1, <3>2
  <2> QED
    BY <2>5, <2>7
<1>3. Cardinality(Binds(Tail(msgs))) = Cardinality(Binds(msgs))
  <2>1. Cardinality(Binds(Tail(msgs))) = Cardinality(Binds(msgs)) - 0
    BY <1>1, TailShifts
  <2> QED
    BY <2>1, UptoFinite
<1> QED
  BY <1>2, <1>3, AgreeBy

(* The tables agree after a binding was received.                          *)
LEMMA AgreeAfterBind ==
    ASSUME NEW M, NEW msgs \in Seq(M), msgs # << >>, Head(msgs).type = "PaiBindFragment",
           NEW T, NEW table \in Seq(T), NEW infos, TablesAgree(table, msgs, infos),
           NEW state \in T,
           state = [fragment |-> Head(msgs).fragment, is_secondary |-> Head(msgs).is_secondary]
    PROVE  TablesAgree(table \o << state >>, Tail(msgs), infos)
<1>1. PICK n \in Nat : n = Len(table) /\ DOMAIN table = 1..n
  BY LenProperties
<1>2. PICK new : new = table \o << state >>
  OBVIOUS
<1>3. /\ Len(new) = n + 1 /\ DOMAIN new = 1..(n + 1)
      /\ new[n + 1] = state /\ \A h \in 1..n : new[h] = table[h]
  BY <1>1, <1>2
<1>4. msgs[1] = Head(msgs) /\ 1 \in DOMAIN msgs
  BY LenProperties, EmptySeq
<1>5. 1 \in Binds(msgs)
  BY <1>4 DEF Binds
<1>6. \A i \in Binds(Tail(msgs)) :
         /\ i \in Nat /\ i + 1 \in Binds(msgs) /\ Tail(msgs)[i] = msgs[i + 1]
         /\ Cardinality(Upto(Tail(msgs), i)) \in Nat
         /\ Cardinality(Upto(Tail(msgs), i)) + 1 = Cardinality(Upto(msgs, i + 1))
  <2>1. \A i \in Binds(Tail(msgs)) : i \in DOMAIN Tail(msgs) /\ i \in Nat /\ i + 1 \in Binds(msgs)
    BY TailShifts DEF Binds
  <2>2. \A i \in DOMAIN Tail(msgs) : Tail(msgs)[i] = msgs[i + 1]
    BY HeadTailProperties, LenProperties
  <2>3. \A i \in Nat : Cardinality(Upto(Tail(msgs), i)) = Cardinality(Upto(msgs, i + 1)) - 1
    BY <1>5, TailShifts
  <2>4. \A i \in Nat : Cardinality(Upto(msgs, i + 1)) \in Nat
    BY UptoFinite
  <2>5. \A i \in Nat : Cardinality(Upto(Tail(msgs), i)) \in Nat
    BY HeadTailProperties, UptoFinite
  <2> TAKE i \in Binds(Tail(msgs))
  <2>6. i \in Nat /\ i + 1 \in Binds(msgs) /\ Tail(msgs)[i] = msgs[i + 1]
    BY <2>1, <2>2
  <2>7. /\ Cardinality(Upto(Tail(msgs), i)) = Cardinality(Upto(msgs, i + 1)) - 1
        /\ Cardinality(Upto(msgs, i + 1)) \in Nat /\ Cardinality(Upto(Tail(msgs), i)) \in Nat
    BY <2>3, <2>4, <2>5, <2>6
  <2>8. Cardinality(Upto(Tail(msgs), i)) + 1 = Cardinality(Upto(msgs, i + 1))
    <3>1. PICK c, d \in Nat : c = Cardinality(Upto(msgs, i + 1)) /\ d = Cardinality(Upto(Tail(msgs), i))
      BY <2>7
    <3>2. d + 1 = c
      BY <2>7, <3>1
    <3> QED
      BY <3>1, <3>2
  <2> QED
    BY <2>6, <2>7, <2>8
<1>7. Cardinality(Binds(Tail(msgs))) = Cardinality(Binds(msgs)) - 1 /\ Cardinality(Binds(msgs)) \in Nat
  BY <1>5, TailShifts, UptoFinite
<1>8. Upto(msgs, 1) = {1}
  <2>1. \A h \in Binds(msgs) : h \in Nat /\ 1 <= h
    BY UptoFinite
  <2>2. \A h \in Binds(msgs) : h <= 1 <=> h = 1
    BY <2>1
  <2> QED
    BY <1>5, <2>2 DEF Upto
<1>9. Cardinality(Upto(msgs, 1)) = 1
  BY <1>8, FS_Singleton
<1>10. /\ Len(infos) = n + Cardinality(Binds(msgs))
       /\ \A h \in 1..n : table[h] = StateOf(infos[h])
       /\ \A i \in Binds(msgs) :
             [fragment |-> msgs[i].fragment, is_secondary |-> msgs[i].is_secondary]
               = StateOf(infos[n + Cardinality(Upto(msgs, i))])
  BY <1>1, AgreeBy
<1>11. state = StateOf(infos[n + 1])
  BY <1>4, <1>5, <1>9, <1>10
<1>12. \A h \in DOMAIN new : new[h] = StateOf(infos[h])
  BY <1>3, <1>10, <1>11
<1>13. Len(infos) = Len(new) + Cardinality(Binds(Tail(msgs)))
  BY <1>3, <1>7, <1>10
<1>14. \A i \in Binds(Tail(msgs)) :
         [fragment |-> Tail(msgs)[i].fragment, is_secondary |-> Tail(msgs)[i].is_secondary]
           = StateOf(infos[Len(new) + Cardinality(Upto(Tail(msgs), i))])
  <2> TAKE i \in Binds(Tail(msgs))
  <2>1. n + Cardinality(Upto(msgs, i + 1)) = Len(new) + Cardinality(Upto(Tail(msgs), i))
    BY <1>3, <1>6
  <2> QED
    BY <1>6, <1>10, <2>1
<1> QED
  BY <1>2, <1>12, <1>13, <1>14, AgreeBy

(* The tables agree after messages were sent that are no bindings.         *)
LEMMA AgreeWithReplies ==
    ASSUME NEW M, NEW msgs \in Seq(M), NEW more \in Seq(M),
           \A i \in DOMAIN more : more[i].type # "PaiBindFragment",
           NEW table, NEW infos, TablesAgree(table, msgs, infos)
    PROVE  TablesAgree(table, msgs \o more, infos)
<1>1. PICK n \in Nat : n = Len(msgs) /\ DOMAIN msgs = 1..n
  BY LenProperties
<1>2. PICK k \in Nat : k = Len(more) /\ DOMAIN more = 1..k
  BY LenProperties
<1>3. PICK all : all = msgs \o more
  OBVIOUS
<1>4. /\ DOMAIN all = 1..(n + k)
      /\ \A i \in 1..n : all[i] = msgs[i]
      /\ \A i \in (n + 1)..(n + k) : all[i] = more[i - n]
  BY <1>1, <1>2, <1>3
<1>5. \A i \in (n + 1)..(n + k) : all[i].type # "PaiBindFragment"
  BY <1>2, <1>4
<1>6. Binds(all) = Binds(msgs)
  BY <1>1, <1>2, <1>4, <1>5 DEF Binds
<1>7. \A i \in Binds(msgs) : all[i] = msgs[i] /\ Upto(all, i) = Upto(msgs, i)
  BY <1>1, <1>4, <1>6 DEF Binds, Upto
<1> QED
  BY <1>3, <1>6, <1>7, AgreeBy

(* The tables agree after fragments were bound and sent.                   *)
LEMMA AgreeWithBinds ==
    ASSUME NEW M, NEW msgs \in Seq(M), NEW N, NEW infos \in Seq(N), NEW more \in Seq(N),
           NEW new \in Seq(M), new = [i \in DOMAIN more |-> BindFragment(more[i])],
           NEW T, NEW table \in Seq(T), TablesAgree(table, msgs, infos)
    PROVE  TablesAgree(table, msgs \o new, infos \o more)
<1>1. PICK n \in Nat : n = Len(msgs) /\ DOMAIN msgs = 1..n
  BY LenProperties
<1>2. PICK k \in Nat : k = Len(more) /\ DOMAIN more = 1..k
  BY LenProperties
<1>3. Len(new) = k /\ DOMAIN new = 1..k /\ \A i \in 1..k : new[i] = BindFragment(more[i])
  BY <1>2, LenProperties
<1>4. PICK l \in Nat : l = Len(infos) /\ DOMAIN infos = 1..l
  BY LenProperties
<1>5. PICK t \in Nat : t = Len(table) /\ DOMAIN table = 1..t
  BY LenProperties
<1>6. PICK all, both : all = msgs \o new /\ both = infos \o more
  OBVIOUS
<1>7. /\ all \in Seq(M) /\ DOMAIN all = 1..(n + k)
      /\ \A i \in 1..n : all[i] = msgs[i]
      /\ \A i \in (n + 1)..(n + k) : all[i] = new[i - n]
  BY <1>1, <1>3, <1>6, ConcatProperties, LenProperties
<1>8. /\ Len(both) = l + k
      /\ \A i \in 1..l : both[i] = infos[i]
      /\ \A i \in (l + 1)..(l + k) : both[i] = more[i - l]
  BY <1>2, <1>4, <1>6, ConcatProperties
<1>9. \A i \in (n + 1)..(n + k) : all[i] = BindFragment(more[i - n])
  <2> TAKE i \in (n + 1)..(n + k)
  <2>1. i - n \in 1..k
    OBVIOUS
  <2> QED
    BY <1>3, <1>7, <2>1
<1>10. \A i \in (n + 1)..(n + k) : all[i].type = "PaiBindFragment"
  <2>1. \A info : BindFragment(info).type = "PaiBindFragment"
    BY DEF BindFragment
  <2> QED
    BY <1>9, <2>1
<1>11. Binds(all) = Binds(msgs) \cup ((n + 1)..(n + k))
  BY <1>1, <1>7, <1>10 DEF Binds
<1>12. PICK b \in Nat : b = Cardinality(Binds(msgs))
  BY UptoFinite
<1>13. ASSUME NEW j \in 0..k
       PROVE  Cardinality(Binds(msgs) \cup ((n + 1)..(n + j))) = b + j
  <2>1. IsFiniteSet((n + 1)..(n + j)) /\ Cardinality((n + 1)..(n + j)) = j
    <3>1. n + 1 \in Int /\ n + j \in Int /\ (n + 1 > n + j <=> j = 0) /\ (n + j) - (n + 1) + 1 = j
      OBVIOUS
    <3> QED
      BY <3>1, FS_Interval
  <2>2. Binds(msgs) \cap ((n + 1)..(n + j)) = {}
    BY <1>1 DEF Binds
  <2>3. IsFiniteSet(Binds(msgs))
    BY UptoFinite
  <2>4. Cardinality(Binds(msgs) \cap ((n + 1)..(n + j))) = 0
    BY <2>2, FS_EmptySet
  <2>5. PICK I : I = (n + 1)..(n + j)
    OBVIOUS
  <2>6. Cardinality(Binds(msgs) \cup I)
          = Cardinality(Binds(msgs)) + Cardinality(I) - Cardinality(Binds(msgs) \cap I)
    BY <2>1, <2>3, <2>5, FS_Union
  <2>7. Cardinality(I) = j /\ Cardinality(Binds(msgs) \cap I) = 0
    BY <2>1, <2>4, <2>5
  <2>8. Cardinality(Binds(msgs) \cup I) = b + j
    BY <1>12, <2>6, <2>7
  <2> QED
    BY <2>5, <2>8
<1>14. Cardinality(Binds(all)) = b + k
  <2>1. k \in 0..k
    OBVIOUS
  <2> QED
    BY <1>11, <1>13, <2>1
<1>15. /\ l = t + b
       /\ \A h \in 1..t : table[h] = StateOf(infos[h])
       /\ \A i \in Binds(msgs) :
             [fragment |-> msgs[i].fragment, is_secondary |-> msgs[i].is_secondary]
               = StateOf(infos[t + Cardinality(Upto(msgs, i))])
  BY <1>4, <1>5, <1>12, AgreeBy
<1>16. \A h \in DOMAIN table : table[h] = StateOf(both[h])
  <2>1. \A h \in 1..t : h \in 1..l
    BY <1>15
  <2> QED
    BY <1>5, <1>8, <1>15, <2>1
<1>17. ASSUME NEW i \in Binds(all)
       PROVE  [fragment |-> all[i].fragment, is_secondary |-> all[i].is_secondary]
                = StateOf(both[t + Cardinality(Upto(all, i))])
  <2>1. CASE i \in Binds(msgs)
    <3>1. i \in 1..n
      BY <1>1, <2>1 DEF Binds
    <3>2. Upto(all, i) = Upto(msgs, i)
      BY <1>11, <3>1 DEF Upto
    <3>3. t + Cardinality(Upto(msgs, i)) \in 1..l
      <4>1. /\ Cardinality(Upto(msgs, i)) \in Nat
            /\ Cardinality(Upto(msgs, i)) <= b /\ Cardinality(Upto(msgs, i)) >= 1
        BY <1>12, <2>1, UptoFinite
      <4> QED
        BY <1>15, <4>1
    <3> QED
      BY <1>7, <1>8, <1>15, <2>1, <3>1, <3>2, <3>3
  <2>2. CASE i \in (n + 1)..(n + k)
    <3>1. PICK j \in 1..k : i = n + j
      <4>1. i - n \in 1..k /\ i = n + (i - n)
        BY <2>2
      <4> QED
        BY <4>1
    <3>2. Upto(all, i) = Binds(msgs) \cup ((n + 1)..(n + j))
      <4>1. \A h \in Binds(msgs) : h \in Nat /\ h <= n
        BY <1>1, UptoFinite
      <4>2. \A h \in Binds(msgs) : h <= i
        BY <3>1, <4>1
      <4>3. \A h \in (n + 1)..(n + k) : h <= i <=> h \in (n + 1)..(n + j)
        BY <3>1
      <4>4. \A h \in (n + 1)..(n + j) : h \in (n + 1)..(n + k)
        BY <3>1
      <4> QED
        BY <1>11, <4>2, <4>3, <4>4 DEF Upto
    <3>3. Cardinality(Upto(all, i)) = b + j
      <4>1. j \in 0..k
        OBVIOUS
      <4> QED
        BY <1>13, <3>2, <4>1
    <3>4. both[t + Cardinality(Upto(all, i))] = more[j]
      <4>1. t + (b + j) \in (l + 1)..(l + k) /\ (t + (b + j)) - l = j
        BY <1>15
      <4> QED
        BY <1>8, <3>3, <4>1
    <3>5. all[i] = BindFragment(more[j])
      <4>1. i - n = j
        BY <3>1
      <4> QED
        BY <1>9, <2>2, <4>1
    <3> QED
      BY <3>4, <3>5 DEF BindFragment, StateOf
  <2> QED
    BY <1>11, <2>1, <2>2
<1>18. Len(both) = Len(table) + Cardinality(Binds(all))
  BY <1>5, <1>8, <1>14, <1>15
<1> QED
  BY <1>5, <1>6, <1>16, <1>17, <1>18, AgreeBy

(* The tables say nothing of which fragments are complete.                 *)
LEMMA AgreeAnyway ==
    ASSUME NEW M, NEW msgs \in Seq(M), NEW T, NEW table \in Seq(T), NEW N, NEW infos \in Seq(N),
           TablesAgree(table, msgs, infos),
           NEW new, Len(new) = Len(infos), \A h \in DOMAIN infos : StateOf(new[h]) = StateOf(infos[h])
    PROVE  TablesAgree(table, msgs, new)
<1>1. PICK t \in Nat : t = Len(table) /\ DOMAIN table = 1..t
  BY LenProperties
<1>2. PICK b \in Nat : b = Cardinality(Binds(msgs))
  BY UptoFinite
<1>3. /\ Len(infos) = t + b
      /\ \A h \in DOMAIN table : table[h] = StateOf(infos[h])
      /\ \A i \in Binds(msgs) :
            [fragment |-> msgs[i].fragment, is_secondary |-> msgs[i].is_secondary]
              = StateOf(infos[t + Cardinality(Upto(msgs, i))])
  BY <1>1, <1>2, AgreeBy
<1>4. DOMAIN infos = 1..(t + b)
  BY <1>3, LenProperties
<1>5. \A h \in DOMAIN table : h \in DOMAIN infos
  BY <1>1, <1>4
<1>6. ASSUME NEW i \in Binds(msgs) PROVE t + Cardinality(Upto(msgs, i)) \in DOMAIN infos
  <2>1. /\ Cardinality(Upto(msgs, i)) \in Nat
        /\ Cardinality(Upto(msgs, i)) <= b /\ Cardinality(Upto(msgs, i)) >= 1
    BY <1>2, UptoFinite
  <2> QED
    BY <1>4, <2>1
<1>7. \A h \in DOMAIN table : table[h] = StateOf(new[h])
  BY <1>3, <1>5
<1>8. \A i \in Binds(msgs) :
         [fragment |-> msgs[i].fragment, is_secondary |-> msgs[i].is_secondary]
           = StateOf(new[t + Cardinality(Upto(msgs, i))])
  BY <1>3, <1>6
<1>9. Len(new) = t + b
  BY <1>3
<1> QED
  BY <1>1, <1>2, <1>7, <1>8, <1>9, AgreeBy

-----------------------------------------------------------------------------
(* The inductive invariant.                                                *)

AllAuths == Auths["alfie"] \cup Auths["betty"]
Subspaces == { a.subspace : a \in AllAuths } \cup {"pair"}
GrantedNamespaces == { a.namespace : a \in AllAuths }
PathPrefixes == UNION { { SubSeq(a.path, 1, i - 1) : i \in Nat } : a \in AllAuths }
Fragments == GrantedNamespaces \X Subspaces \X PathPrefixes
Infos == [fragment : Fragments, kind : {"primary", "secondary"}, is_most_specific : BOOLEAN,
          auth : AllAuths, complete : BOOLEAN]
States == [fragment : Fragments, is_secondary : BOOLEAN]

IntersectionMsgs ==
    [type : {"PaiBindFragment"}, fragment : Fragments, is_secondary : BOOLEAN]
      \cup [type : {"PaiReplyFragment"}, handle : Nat]
ControlMsgs ==
    {Reveal} \cup [type : {"PaiRequestSubspaceCapability"}, handle : Nat]
      \cup [type : {"PaiReplySubspaceCapability"}, handle : Nat,
            namespace : GrantedNamespaces]
CapabilityMsgs == [type : {"SetupBindReadCapability"}, handle : Nat, auth : AllAuths]
Intersections == [type : {"NewIntersection"}, handle : Nat, auth : AllAuths]
ErrorKinds == {"MissingResource", "SubspaceCapRequestForInvalidHandle",
               "SubspaceCapRequestForWrongNamespace"}
Errors == [error : ErrorKinds, handle : Nat]

PaiTypes ==
    /\ pending \in [Peers -> SUBSET AllAuths]
    /\ \A p \in Peers : IsFiniteSet(pending[p])
    /\ revealed \in [Peers -> BOOLEAN]
    /\ ours \in [Peers -> Seq(Infos)]
    /\ theirs \in [Peers -> Seq(States)]
    /\ requested \in [Peers -> SUBSET Nat]
    /\ \A p \in Peers : requested[p] \subseteq DOMAIN ours[p]
    /\ found \in [Peers -> Seq(Nat \X Nat)]
    /\ inbox \in [Peers -> Seq(Intersections)]
    /\ bound \in [Peers -> SUBSET AllAuths]
    /\ \A p \in Peers : /\ chan[p]["intersection"] \in Seq(IntersectionMsgs)
                        /\ chan[p]["control"] \in Seq(ControlMsgs)
                        /\ chan[p]["capability"] \in Seq(CapabilityMsgs)
    /\ failed \in [Peers -> Seq(Errors)]

(* Replies on their way: one for each fragment the peer has bound, and     *)
(* none for a fragment that is complete already.                           *)
Replies(msgs) == { i \in DOMAIN msgs : msgs[i].type = "PaiReplyFragment" }

RepliesFit(table, msgs, infos) ==
    /\ \A h \in DOMAIN infos : infos[h].complete = TRUE => h <= Len(table)
    /\ \A i \in Replies(msgs) :
          msgs[i].handle \in 1..Len(table) /\ infos[msgs[i].handle].complete = FALSE
    /\ \A i, j \in Replies(msgs) : msgs[i].handle = msgs[j].handle => i = j

(* The pairs reported are of complete fragments, each pair once.           *)
PairsFit(pairs, infos, table) ==
    /\ \A i \in DOMAIN pairs :
          /\ pairs[i][1] \in DOMAIN infos /\ infos[pairs[i][1]].complete = TRUE
          /\ pairs[i][2] \in 1..Len(table)
    /\ \A i, j \in DOMAIN pairs : pairs[i] = pairs[j] => i = j

(* The capabilities on their way are bound by their sender, each once.     *)
CapsFit(msgs, caps) ==
    /\ \A i \in DOMAIN msgs : msgs[i].auth \in caps
    /\ \A i, j \in DOMAIN msgs : msgs[i].auth = msgs[j].auth => i = j

(* Before a peer has seen the reveal: it has bound nothing, so neither     *)
(* side has anything to report or to ask for.                              *)
Unrevealed(control, capability, infos, inboxes, requests) ==
    /\ control # << >> /\ Head(control).type = "CommitmentReveal"
    /\ capability = << >> /\ infos = << >>
    /\ \A p \in Peers : inboxes[p] = << >> /\ requests[p] = {}

Answered == \A p \in Peers : RepliesFit(theirs[Other(p)], chan[p]["intersection"], ours[p])
Paired == \A p \in Peers : PairsFit(found[p], ours[p], theirs[p])
Capable == \A p \in Peers : CapsFit(chan[p]["capability"], bound[Other(p)])
Silent == \A p \in Peers : revealed[p] = FALSE =>
              Unrevealed(chan[p]["control"], chan[p]["capability"], ours[p], inbox, requested)

PaiInv == PaiTypes /\ HandlesAgree /\ Answered /\ Paired /\ Capable /\ Silent
            /\ NothingBeforeTheReveal

-----------------------------------------------------------------------------
(* There are two peers.                                                    *)
LEMMA OtherFacts ==
    ASSUME NEW p \in Peers
    PROVE  /\ Other(p) \in Peers /\ Other(p) # p /\ Other(Other(p)) = p
           /\ Peers = {p, Other(p)}
<1>1. \A r \in Peers : \E s \in Peers : s # r
  BY DEF Peers
<1>2. \A r \in Peers : Other(r) \in Peers /\ Other(r) # r
  BY <1>1 DEF Other
<1>3. p = "alfie" \/ p = "betty"
  BY DEF Peers
<1> QED
  BY <1>2, <1>3 DEF Peers

(* What Deliver does.                                                      *)
Delivered(p, q, from, outs) ==
    \A c \in Channels :
        /\ chan'[p][c] = IF c = from THEN Tail(chan[p][c]) ELSE chan[p][c]
        /\ chan'[q][c] = chan[q][c] \o outs[c]

(* Deliver, for the peer that acts and for the other one.                  *)
LEMMA DeliverFacts ==
    ASSUME NEW p \in Peers, NEW from, NEW outs, Deliver(p, from, outs)
    PROVE  Delivered(p, Other(p), from, outs)
BY OtherFacts DEF Deliver, Delivered

(* The fragments of an authorisation are bound as incomplete.              *)
Fresh == { info \in Infos : info.complete = FALSE }

(* The fragments of a kind.                                                *)
LEMMA FragmentTypes ==
    ASSUME NEW a \in AllAuths, NEW s \in Subspaces, NEW kind \in {"primary", "secondary"}
    PROVE  FragmentsOf(a, s, kind) \in Seq(Fresh)
<1>1. PICK n \in Nat : n = Len(a.path)
  BY AuthsAssumption DEF AllAuths, Peers
<1>2. PICK prefixes : prefixes = all_prefixes(a.path)
  OBVIOUS
<1>3. DOMAIN prefixes = 1..(n + 1) /\ \A i \in 1..(n + 1) : prefixes[i] = SubSeq(a.path, 1, i - 1)
  BY <1>1, <1>2 DEF all_prefixes
<1>4. \A i \in 1..(n + 1) : << a.namespace, s, prefixes[i] >> \in Fragments
  <2> TAKE i \in 1..(n + 1)
  <2>1. i \in Nat
    OBVIOUS
  <2>2. SubSeq(a.path, 1, i - 1) \in PathPrefixes
    <3>1. SubSeq(a.path, 1, i - 1) \in { SubSeq(a.path, 1, j - 1) : j \in Nat }
      BY <2>1
    <3>2. { SubSeq(a.path, 1, j - 1) : j \in Nat }
            \in { { SubSeq(b.path, 1, j - 1) : j \in Nat } : b \in AllAuths }
      BY Zenon
    <3> QED
      BY <3>1, <3>2, Zenon DEF PathPrefixes
  <2>3. a.namespace \in GrantedNamespaces
    BY DEF GrantedNamespaces
  <2> QED
    BY <1>3, <2>2, <2>3 DEF Fragments
<1>5. FragmentsOf(a, s, kind) = [i \in 1..(n + 1) |->
        [fragment |-> << a.namespace, s, prefixes[i] >>, kind |-> kind,
         is_most_specific |-> i = Len(prefixes), auth |-> a, complete |-> FALSE]]
  BY <1>2, <1>3 DEF FragmentsOf
<1>6. ASSUME NEW i \in 1..(n + 1)
      PROVE  [fragment |-> << a.namespace, s, prefixes[i] >>, kind |-> kind,
              is_most_specific |-> i = Len(prefixes), auth |-> a, complete |-> FALSE] \in Fresh
  <2>1. << a.namespace, s, prefixes[i] >> \in Fragments
    BY <1>4
  <2> QED
    BY <2>1 DEF Fresh, Infos
<1>7. \A f : (DOMAIN f = 1..(n + 1) /\ f = [i \in 1..(n + 1) |-> f[i]]
                /\ \A i \in 1..(n + 1) : f[i] \in Fresh) => f \in Seq(Fresh)
  OBVIOUS
<1> QED
  BY <1>5, <1>6, <1>7

(* All fragments of an authorisation.                                      *)
LEMMA FragmentSetType ==
    ASSUME NEW a \in AllAuths
    PROVE  fragment_set(a) \in Seq(Fresh)
<1>1. "pair" \in Subspaces /\ a.subspace \in Subspaces
  BY DEF Subspaces
<1>2. /\ FragmentsOf(a, "pair", "primary") \in Seq(Fresh)
      /\ FragmentsOf(a, "pair", "secondary") \in Seq(Fresh)
      /\ FragmentsOf(a, a.subspace, "primary") \in Seq(Fresh)
  BY <1>1, FragmentTypes
<1> QED
  BY <1>2, ConcatProperties DEF fragment_set


-----------------------------------------------------------------------------
(* The parts of the invariant, for any tables and messages.                *)

(* The first message, and those after it.                                  *)
LEMMA TailFacts ==
    ASSUME NEW M, NEW msgs \in Seq(M), msgs # << >>
    PROVE  /\ Tail(msgs) \in Seq(M) /\ Head(msgs) \in M
           /\ msgs[1] = Head(msgs) /\ 1 \in DOMAIN msgs
           /\ \A i \in DOMAIN Tail(msgs) :
                i \in Nat /\ i + 1 \in DOMAIN msgs /\ i + 1 # 1 /\ Tail(msgs)[i] = msgs[i + 1]
<1>1. PICK n \in Nat : n = Len(msgs) /\ DOMAIN msgs = 1..n /\ n # 0
  BY LenProperties, EmptySeq
<1>2. /\ Tail(msgs) \in Seq(M) /\ DOMAIN Tail(msgs) = 1..(n - 1) /\ Head(msgs) \in M
      /\ \A i \in 1..(n - 1) : Tail(msgs)[i] = msgs[i + 1]
  BY <1>1, HeadTailProperties, LenProperties
<1>3. \A i \in 1..(n - 1) : i \in Nat /\ i + 1 \in 1..n /\ i + 1 # 1
  BY <1>1
<1>4. msgs[1] = Head(msgs) /\ 1 \in 1..n
  BY <1>1
<1> QED
  BY <1>1, <1>2, <1>3, <1>4

Appended(all, msgs, more) ==
    /\ Len(msgs) \in Nat /\ DOMAIN msgs = 1..Len(msgs)
    /\ Len(more) \in Nat /\ DOMAIN more = 1..Len(more)
    /\ Len(all) = Len(msgs) + Len(more) /\ DOMAIN all = 1..(Len(msgs) + Len(more))
    /\ \A i \in DOMAIN msgs : i \in DOMAIN all /\ all[i] = msgs[i]
    /\ \A i \in DOMAIN all : i \in DOMAIN msgs \/
          (i - Len(msgs) \in DOMAIN more /\ all[i] = more[i - Len(msgs)])

(* What was there stays in place, what was sent comes after it.            *)
LEMMA ConcatFacts ==
    ASSUME NEW M, NEW msgs \in Seq(M), NEW more \in Seq(M)
    PROVE  msgs \o more \in Seq(M) /\ Appended(msgs \o more, msgs, more)
<1>1. PICK n, k \in Nat :
        n = Len(msgs) /\ k = Len(more) /\ DOMAIN msgs = 1..n /\ DOMAIN more = 1..k
  BY LenProperties
<1>2. PICK all : all = msgs \o more
  OBVIOUS
<1>3. all \in Seq(M) /\ Len(all) = n + k /\ DOMAIN all = 1..(n + k)
  BY <1>1, <1>2, ConcatProperties, LenProperties
<1>4. \A i \in 1..n : i \in 1..(n + k) /\ all[i] = msgs[i]
  BY <1>1, <1>2, ConcatProperties
<1>5. ASSUME NEW i \in 1..(n + k), i \notin 1..n
      PROVE  i - n \in 1..k /\ all[i] = more[i - n]
  <2>1. i > n /\ i - n \in 1..k
    BY <1>5
  <2> QED
    BY <1>1, <1>2, <2>1, ConcatProperties
<1>6. Appended(all, msgs, more)
  BY <1>1, <1>3, <1>4, <1>5 DEF Appended
<1> QED
  BY <1>2, <1>3, <1>6

(* A message that is no reply was taken.                                   *)
LEMMA FitAfterBind ==
    ASSUME NEW M, NEW msgs \in Seq(M), msgs # << >>, Head(msgs).type # "PaiReplyFragment",
           NEW table, NEW infos, RepliesFit(table, msgs, infos)
    PROVE  RepliesFit(table, Tail(msgs), infos)
<1>1. \A i \in Replies(Tail(msgs)) :
         i \in Nat /\ i + 1 \in Replies(msgs) /\ Tail(msgs)[i] = msgs[i + 1]
  BY TailFacts DEF Replies
<1>2. \A i, j \in Replies(Tail(msgs)) : i + 1 = j + 1 => i = j
  BY <1>1
<1>3. ASSUME NEW i \in Replies(Tail(msgs)), NEW j \in Replies(Tail(msgs)),
             Tail(msgs)[i].handle = Tail(msgs)[j].handle
      PROVE  i = j
  <2>1. PICK x, y \in Replies(msgs) : x = i + 1 /\ y = j + 1 /\ msgs[x].handle = msgs[y].handle
    BY <1>1, <1>3
  <2>2. x = y
    BY <2>1 DEF RepliesFit
  <2> QED
    BY <1>2, <2>1, <2>2
<1>4. ASSUME NEW i \in Replies(Tail(msgs))
      PROVE  Tail(msgs)[i].handle \in 1..Len(table) /\ infos[Tail(msgs)[i].handle].complete = FALSE
  <2>1. PICK x \in Replies(msgs) : x = i + 1 /\ Tail(msgs)[i] = msgs[x]
    BY <1>1
  <2> QED
    BY <2>1 DEF RepliesFit
<1> QED
  BY <1>3, <1>4 DEF RepliesFit

(* A reply was taken and completes our fragment, which was not complete.   *)
Completed(infos, new, h) ==
    /\ DOMAIN new = DOMAIN infos /\ new[h].complete = TRUE
    /\ \A g \in DOMAIN infos : g # h => new[g] = infos[g]

(* The other replies are for other fragments.                              *)
LEMMA FitAfterReply ==
    ASSUME NEW M, NEW msgs \in Seq(M), msgs # << >>, Head(msgs).type = "PaiReplyFragment",
           NEW table, Len(table) \in Nat, NEW infos, RepliesFit(table, msgs, infos),
           NEW h, h = Head(msgs).handle, NEW new, Completed(infos, new, h),
           DOMAIN infos = 1..Len(infos), Len(infos) \in Nat, Len(table) <= Len(infos)
    PROVE  /\ RepliesFit(table, Tail(msgs), new)
           /\ infos[h].complete = FALSE /\ h \in 1..Len(table)
<1>1. \A i \in Replies(Tail(msgs)) :
         i \in Nat /\ i + 1 \in Replies(msgs) /\ i + 1 # 1 /\ Tail(msgs)[i] = msgs[i + 1]
  BY TailFacts DEF Replies
<1>2. \A i, j \in Replies(Tail(msgs)) : i + 1 = j + 1 => i = j
  BY <1>1
<1>3. 1 \in Replies(msgs) /\ msgs[1].handle = h
  BY TailFacts DEF Replies
<1>4. infos[h].complete = FALSE /\ h \in 1..Len(table)
  BY <1>3 DEF RepliesFit
<1>5. \A g \in DOMAIN new : new[g].complete = TRUE => g <= Len(table)
  BY <1>4 DEF RepliesFit, Completed
<1>6. ASSUME NEW i \in Replies(Tail(msgs))
      PROVE  Tail(msgs)[i].handle \in 1..Len(table) /\ new[Tail(msgs)[i].handle].complete = FALSE
  <2>1. msgs[i + 1].handle \in 1..Len(table) /\ infos[msgs[i + 1].handle].complete = FALSE
    BY <1>1 DEF RepliesFit
  <2>2. msgs[i + 1].handle # h
    BY <1>1, <1>3 DEF RepliesFit
  <2>3. msgs[i + 1].handle \in DOMAIN infos
    BY <2>1
  <2> QED
    BY <1>1, <2>1, <2>2, <2>3 DEF Completed
<1>7. ASSUME NEW i \in Replies(Tail(msgs)), NEW j \in Replies(Tail(msgs)),
             Tail(msgs)[i].handle = Tail(msgs)[j].handle
      PROVE  i = j
  <2>1. PICK x, y \in Replies(msgs) : x = i + 1 /\ y = j + 1 /\ msgs[x].handle = msgs[y].handle
    <3>1. i + 1 \in Replies(msgs) /\ Tail(msgs)[i] = msgs[i + 1]
      BY <1>1
    <3>2. j + 1 \in Replies(msgs) /\ Tail(msgs)[j] = msgs[j + 1]
      BY <1>1
    <3> QED
      BY <1>7, <3>1, <3>2
  <2>2. x = y
    BY <2>1 DEF RepliesFit
  <2> QED
    BY <1>2, <2>1, <2>2
<1> QED
  BY <1>4, <1>5, <1>6, <1>7 DEF RepliesFit

(* A fragment of the peer was bound, and the reply was sent.               *)
LEMMA FitWithReply ==
    ASSUME NEW T, NEW table \in Seq(T), NEW state \in T, NEW M, NEW msgs \in Seq(M),
           ReplyFragment(Len(table) + 1) \in M, NEW N, NEW infos \in Seq(N),
           \A i \in DOMAIN infos : infos[i].complete \in BOOLEAN,
           Len(table) + 1 <= Len(infos), RepliesFit(table, msgs, infos)
    PROVE  RepliesFit(table \o << state >>, msgs \o << ReplyFragment(Len(table) + 1) >>, infos)
<1>1. PICK t \in Nat : t = Len(table)
  BY LenProperties
<1>2. PICK reply \in M : reply = ReplyFragment(t + 1)
  BY <1>1
<1>3. reply.type = "PaiReplyFragment" /\ reply.handle = t + 1
  BY <1>2 DEF ReplyFragment
<1>4. PICK n \in Nat : n = Len(msgs) /\ DOMAIN msgs = 1..n
  BY LenProperties
<1>5. PICK all, new : all = msgs \o << reply >> /\ new = table \o << state >>
  OBVIOUS
<1>6. DOMAIN all = 1..(n + 1) /\ all[n + 1] = reply /\ \A i \in 1..n : all[i] = msgs[i]
  BY <1>4, <1>5
<1>7. Len(new) = t + 1
  BY <1>1, <1>5
<1>8. t + 1 \in DOMAIN infos /\ infos[t + 1].complete = FALSE
  <2>1. t + 1 \in DOMAIN infos
    BY <1>1, LenProperties
  <2>2. ~ (t + 1 <= Len(table))
    BY <1>1
  <2>3. infos[t + 1].complete # TRUE
    BY <2>1, <2>2 DEF RepliesFit
  <2> QED
    BY <2>1, <2>3
<1>9. Replies(all) = Replies(msgs) \cup {n + 1}
  BY <1>3, <1>4, <1>6 DEF Replies
<1>10. \A i \in Replies(msgs) : /\ all[i] = msgs[i] /\ msgs[i].handle \in 1..t
                                /\ infos[msgs[i].handle].complete = FALSE
  BY <1>1, <1>4, <1>6 DEF Replies, RepliesFit
<1>11. \A h \in DOMAIN infos : infos[h].complete = TRUE => h <= Len(new)
  <2> SUFFICES ASSUME NEW h \in DOMAIN infos, infos[h].complete = TRUE PROVE h <= Len(new)
    OBVIOUS
  <2>1. h \in Nat /\ h <= t
    BY <1>1, LenProperties DEF RepliesFit
  <2> QED
    BY <1>7, <2>1
<1>12. \A i \in Replies(all) :
          all[i].handle \in 1..Len(new) /\ infos[all[i].handle].complete = FALSE
  <2>1. \A i \in Replies(msgs) : all[i].handle \in 1..(t + 1)
    BY <1>10
  <2>2. t + 1 \in 1..(t + 1)
    OBVIOUS
  <2> QED
    BY <1>3, <1>6, <1>7, <1>8, <1>9, <1>10, <2>1, <2>2
<1>13. \A i, j \in Replies(all) : all[i].handle = all[j].handle => i = j
  <2>1. \A i \in Replies(msgs) : all[i].handle # t + 1
    BY <1>10
  <2>2. \A i, j \in Replies(msgs) : all[i].handle = all[j].handle => i = j
    BY <1>10 DEF RepliesFit
  <2> QED
    BY <1>3, <1>6, <1>9, <2>1, <2>2
<1> QED
  BY <1>1, <1>2, <1>5, <1>11, <1>12, <1>13 DEF RepliesFit

(* Messages were sent that are no replies.                                 *)
LEMMA FitWithBinds ==
    ASSUME NEW M, NEW msgs \in Seq(M), NEW more \in Seq(M),
           \A i \in DOMAIN more : more[i].type # "PaiReplyFragment",
           NEW table, NEW infos, RepliesFit(table, msgs, infos)
    PROVE  RepliesFit(table, msgs \o more, infos)
<1>1. PICK all : all = msgs \o more /\ Appended(all, msgs, more)
  BY ConcatFacts
<1>2. \A i \in Replies(all) : i \in Replies(msgs) /\ all[i] = msgs[i]
  BY <1>1 DEF Replies, Appended
<1>3. RepliesFit(table, all, infos)
  BY <1>2 DEF RepliesFit
<1> QED
  BY <1>1, <1>3

(* Fragments were bound that are not complete.                             *)
LEMMA FitWithFresh ==
    ASSUME NEW msgs, NEW N, NEW infos \in Seq(N), NEW more \in Seq(N),
           \A i \in DOMAIN more : more[i].complete = FALSE,
           NEW table, Len(table) \in Nat, Len(table) <= Len(infos), RepliesFit(table, msgs, infos)
    PROVE  RepliesFit(table, msgs, infos \o more)
<1>1. PICK all : all = infos \o more /\ Appended(all, infos, more)
  BY ConcatFacts
<1>2. \A h \in DOMAIN all : all[h].complete = TRUE => h \in DOMAIN infos /\ all[h] = infos[h]
  BY <1>1 DEF Appended
<1>3. \A h \in 1..Len(table) : all[h] = infos[h]
  BY <1>1 DEF Appended
<1>4. RepliesFit(table, msgs, all)
  BY <1>2, <1>3 DEF RepliesFit
<1> QED
  BY <1>1, <1>4


(* Pairs were reported that are of complete fragments and were not         *)
(* reported before.                                                        *)
LEMMA PairsWithMore ==
    ASSUME NEW M, NEW pairs \in Seq(M), NEW more \in Seq(M), NEW infos, NEW table,
           PairsFit(pairs, infos, table), PairsFit(more, infos, table),
           \A i \in DOMAIN pairs : \A j \in DOMAIN more : pairs[i] # more[j]
    PROVE  PairsFit(pairs \o more, infos, table)
<1>1. PICK all : all = pairs \o more /\ Appended(all, pairs, more)
  BY ConcatFacts
<1>2. PICK n \in Nat : n = Len(pairs)
  BY <1>1 DEF Appended
<1>3. \A i \in DOMAIN all : \/ i \in DOMAIN pairs /\ all[i] = pairs[i]
                            \/ i - n \in DOMAIN more /\ all[i] = more[i - n]
  BY <1>1, <1>2 DEF Appended
<1>4. ASSUME NEW i \in DOMAIN all
      PROVE  /\ all[i][1] \in DOMAIN infos /\ infos[all[i][1]].complete = TRUE
             /\ all[i][2] \in 1..Len(table)
  <2>1. CASE i \in DOMAIN pairs /\ all[i] = pairs[i]
    BY <2>1 DEF PairsFit
  <2>2. CASE i - n \in DOMAIN more /\ all[i] = more[i - n]
    <3>1. PICK k \in DOMAIN more : k = i - n
      BY <2>2
    <3>2. /\ more[k][1] \in DOMAIN infos /\ infos[more[k][1]].complete = TRUE
          /\ more[k][2] \in 1..Len(table)
      BY DEF PairsFit
    <3> QED
      BY <2>2, <3>1, <3>2
  <2> QED
    BY <1>3, <2>1, <2>2
<1>5. ASSUME NEW i \in DOMAIN all, NEW j \in DOMAIN all, all[i] = all[j]
      PROVE  i = j
  <2>1. CASE i \in DOMAIN pairs /\ all[i] = pairs[i] /\ j \in DOMAIN pairs /\ all[j] = pairs[j]
    BY <1>5, <2>1 DEF PairsFit
  <2>2. CASE i - n \in DOMAIN more /\ all[i] = more[i - n] /\ j - n \in DOMAIN more /\ all[j] = more[j - n]
    <3>1. PICK k, l \in DOMAIN more : k = i - n /\ l = j - n
      BY <2>2
    <3>2. k = l
      BY <1>5, <2>2, <3>1 DEF PairsFit
    <3>3. i \in Nat /\ j \in Nat
      BY <1>1 DEF Appended
    <3> QED
      BY <3>1, <3>2, <3>3
  <2> QED
    BY <1>3, <1>5, <2>1, <2>2
<1>6. PairsFit(all, infos, table)
  BY <1>4, <1>5 DEF PairsFit
<1> QED
  BY <1>1, <1>6

(* More fragments on either side, or more of them complete, do no harm.    *)
LEMMA PairsStillFit ==
    ASSUME NEW pairs, NEW infos, NEW table, PairsFit(pairs, infos, table), Len(table) \in Nat,
           NEW new, \A h \in DOMAIN infos : /\ h \in DOMAIN new
                                            /\ infos[h].complete = TRUE => new[h].complete = TRUE,
           NEW longer, Len(longer) \in Nat, Len(table) <= Len(longer)
    PROVE  PairsFit(pairs, new, longer)
<1>1. \A h \in 1..Len(table) : h \in 1..Len(longer)
  OBVIOUS
<1> QED
  BY <1>1 DEF PairsFit

(* A capability was received.                                              *)
LEMMA CapsAfterOne ==
    ASSUME NEW M, NEW msgs \in Seq(M), msgs # << >>, NEW caps, CapsFit(msgs, caps)
    PROVE  CapsFit(Tail(msgs), caps)
<1>1. \A i \in DOMAIN Tail(msgs) : i \in Nat /\ i + 1 \in DOMAIN msgs /\ Tail(msgs)[i] = msgs[i + 1]
  BY TailFacts
<1>2. ASSUME NEW i \in DOMAIN Tail(msgs) PROVE Tail(msgs)[i].auth \in caps
  <2>1. PICK x \in DOMAIN msgs : x = i + 1 /\ Tail(msgs)[i] = msgs[x]
    BY <1>1
  <2> QED
    BY <2>1 DEF CapsFit
<1>3. ASSUME NEW i \in DOMAIN Tail(msgs), NEW j \in DOMAIN Tail(msgs),
             Tail(msgs)[i].auth = Tail(msgs)[j].auth
      PROVE  i = j
  <2>1. PICK x \in DOMAIN msgs : x = i + 1 /\ Tail(msgs)[i] = msgs[x]
    BY <1>1
  <2>2. PICK y \in DOMAIN msgs : y = j + 1 /\ Tail(msgs)[j] = msgs[y]
    BY <1>1
  <2>3. x = y
    BY <1>3, <2>1, <2>2 DEF CapsFit
  <2>4. i \in Nat /\ j \in Nat
    BY <1>1
  <2> QED
    BY <2>1, <2>2, <2>3, <2>4
<1> QED
  BY <1>2, <1>3 DEF CapsFit

(* A capability was bound and sent that was not bound before.              *)
LEMMA CapsWithOne ==
    ASSUME NEW M, NEW msgs \in Seq(M), NEW m \in M, NEW caps, CapsFit(msgs, caps),
           m.auth \notin caps
    PROVE  CapsFit(msgs \o << m >>, caps \cup {m.auth})
<1>1. PICK n \in Nat : n = Len(msgs) /\ DOMAIN msgs = 1..n
  BY LenProperties
<1>2. PICK all : all = msgs \o << m >>
  OBVIOUS
<1>3. DOMAIN all = 1..(n + 1) /\ all[n + 1] = m /\ \A i \in 1..n : all[i] = msgs[i]
  BY <1>1, <1>2
<1>4. \A i \in DOMAIN all : (i \in DOMAIN msgs /\ all[i] = msgs[i]) \/ i = n + 1
  BY <1>1, <1>3
<1>5. CapsFit(all, caps \cup {m.auth})
  BY <1>3, <1>4 DEF CapsFit
<1> QED
  BY <1>2, <1>5

-----------------------------------------------------------------------------
(* What the actions do.                                                    *)

(* p takes a message off channel from, if it is one of the channels.       *)
Took(p, from) ==
    \A c \in Channels : chan'[p][c] = IF c = from THEN Tail(chan[p][c]) ELSE chan[p][c]

(* p takes a message off channel from and sends to q on channel c only.    *)
Sent(p, q, from, c, msgs) ==
    /\ Took(p, from)
    /\ chan'[q][c] = chan[q][c] \o msgs
    /\ \A d \in Channels \ {c} : chan'[q][d] = chan[q][d]

(* Sending nothing changes nothing.                                        *)
LEMMA ChannelTypes ==
    ASSUME PaiTypes, NEW p \in Peers
    PROVE  \A c \in Channels : chan[p][c] \o << >> = chan[p][c]
<1>1. \A c \in Channels : \E M : chan[p][c] \in Seq(M)
  BY DEF PaiTypes, Channels
<1>2. \A M : \A s \in Seq(M) : s \o << >> = s
  BY ConcatEmptySeq
<1> QED
  BY <1>1, <1>2

(* Deliver, when one channel is sent on.                                   *)
LEMMA SendFacts ==
    ASSUME PaiTypes, NEW p \in Peers, NEW from, NEW c \in Channels, NEW msgs,
           Deliver(p, from, [NoSends EXCEPT ![c] = msgs])
    PROVE  Sent(p, Other(p), from, c, msgs)
<1>1. PICK outs : outs = [NoSends EXCEPT ![c] = msgs]
  OBVIOUS
<1>2. outs[c] = msgs /\ \A d \in Channels \ {c} : outs[d] = << >>
  BY <1>1 DEF NoSends
<1>3. Took(p, from)
  BY <1>1, DeliverFacts DEF Took, Delivered
<1>4. \A d \in Channels : chan'[Other(p)][d] = chan[Other(p)][d] \o outs[d]
  <2>1. Delivered(p, Other(p), from, outs)
    BY <1>1, DeliverFacts
  <2> QED
    BY <2>1, Zenon DEF Delivered
<1>5. \A d \in Channels : chan[Other(p)][d] \o << >> = chan[Other(p)][d]
  BY OtherFacts, ChannelTypes
<1>6. \A d \in Channels \ {c} : chan'[Other(p)][d] = chan[Other(p)][d]
  BY <1>2, <1>4, <1>5
<1> QED
  BY <1>2, <1>3, <1>4, <1>6 DEF Sent

(* Deliver, when nothing is sent.                                          *)
LEMMA QuietFacts ==
    ASSUME PaiTypes, NEW p \in Peers, NEW from, Deliver(p, from, NoSends)
    PROVE  Took(p, from) /\ \A d \in Channels : chan'[Other(p)][d] = chan[Other(p)][d]
<1>1. \A d \in Channels : NoSends[d] = << >>
  BY DEF NoSends
<1>2. Took(p, from)
  BY DeliverFacts DEF Took, Delivered
<1>3. \A d \in Channels : chan'[Other(p)][d] = chan[Other(p)][d] \o NoSends[d]
  <2>1. Delivered(p, Other(p), from, NoSends)
    BY DeliverFacts
  <2> QED
    BY <2>1, Zenon DEF Delivered
<1>4. \A d \in Channels : chan[Other(p)][d] \o << >> = chan[Other(p)][d]
  BY OtherFacts, ChannelTypes
<1> QED
  BY <1>1, <1>2, <1>3, <1>4

(* What check_for_intersection does.                                       *)
Distinct(order) == \A i, j \in DOMAIN order : order[i] = order[j] => i = j

Checked(p, infos, pairs, replies) ==
    /\ Took(p, "intersection")
    /\ chan'[Other(p)]["intersection"] = chan[Other(p)]["intersection"] \o replies
    /\ \E requests \in Seq(ControlMsgs) :
          chan'[Other(p)]["control"] = chan[Other(p)]["control"] \o requests
    /\ chan'[Other(p)]["capability"] = chan[Other(p)]["capability"]
    /\ requested' \in [Peers -> SUBSET Nat] /\ requested'[Other(p)] = requested[Other(p)]
    /\ \A h \in requested'[p] : h \in requested[p] \/ h \in DOMAIN infos
    /\ inbox' \in [Peers -> Seq(Intersections)] /\ inbox'[Other(p)] = inbox[Other(p)]
    /\ \E order \in Seq(Nat \X Nat) :
          /\ found' = [found EXCEPT ![p] = @ \o order]
          /\ \A i \in DOMAIN order : order[i] \in pairs
          /\ Distinct(order)
    /\ pairs = {} => inbox' = inbox /\ requested' = requested

(* CheckForIntersection, in whatever order the pairs are gone through.     *)
LEMMA CheckFacts ==
    ASSUME PaiTypes, NEW p \in Peers, NEW handle \in Nat, NEW infos \in Seq(Infos), NEW pairs,
           IsFiniteSet(pairs), \A pair \in pairs : pair \in Nat \X Nat /\ pair[1] \in DOMAIN infos,
           NEW replies, CheckForIntersection(p, handle, infos, pairs, replies)
    PROVE  Checked(p, infos, pairs, replies)
<1> DEFINE doing(what) == { pair \in pairs : on_intersection(infos[pair[1]]) = what }
<1>1. \A what : IsFiniteSet(doing(what))
  <2> TAKE what
  <2>1. doing(what) \in SUBSET pairs
    OBVIOUS
  <2> QED
    BY <2>1, FS_Subset
<1>2. PICK asking : asking = doing("RequestSubspaceCap")
  OBVIOUS
<1>3. PICK binding : binding = doing("BindReadCap")
  OBVIOUS
<1>4. PICK k \in Nat : k = Cardinality(asking)
  BY <1>1, <1>2, FS_CardinalityType
<1>5. PICK requests : requests = [i \in 1..k |-> RequestCap(handle)]
  OBVIOUS
<1>6. requests \in Seq(ControlMsgs)
  <2>1. RequestCap(handle) \in ControlMsgs
    BY DEF RequestCap, ControlMsgs
  <2> QED
    BY <1>5, <2>1
<1>7. PICK outs : outs = [NoSends EXCEPT !["intersection"] = replies, !["control"] = requests]
  OBVIOUS
<1>8. /\ Deliver(p, "intersection", outs)
      /\ requested' = [requested EXCEPT ![p] = @ \cup { pair[1] : pair \in asking }]
      /\ \E order \in SetToSeqs(binding) :
             /\ Report(p, [i \in DOMAIN order |->
                             NewIntersection(order[i][1], infos[order[i][1]].auth)])
             /\ found' = [found EXCEPT ![p] = @ \o order]
  BY <1>2, <1>3, <1>4, <1>5, <1>7 DEF CheckForIntersection
<1>9. /\ Took(p, "intersection")
      /\ chan'[Other(p)]["intersection"] = chan[Other(p)]["intersection"] \o replies
      /\ chan'[Other(p)]["control"] = chan[Other(p)]["control"] \o requests
      /\ chan'[Other(p)]["capability"] = chan[Other(p)]["capability"]
  <2>1. /\ outs["intersection"] = replies /\ outs["control"] = requests
        /\ outs["capability"] = << >>
    BY <1>7 DEF NoSends, Channels
  <2>2. Took(p, "intersection")
    BY <1>8, DeliverFacts DEF Took, Delivered
  <2>3. \A d \in Channels : chan'[Other(p)][d] = chan[Other(p)][d] \o outs[d]
    <3>1. Delivered(p, Other(p), "intersection", outs)
      BY <1>8, DeliverFacts
    <3> QED
      BY <3>1, Zenon DEF Delivered
  <2>4. "intersection" \in Channels /\ "control" \in Channels /\ "capability" \in Channels
    BY DEF Channels
  <2>5. chan[Other(p)]["capability"] \o << >> = chan[Other(p)]["capability"]
    BY <2>4, OtherFacts, ChannelTypes
  <2> QED
    BY <2>1, <2>2, <2>3, <2>4, <2>5
<1>10. \A pair \in asking : pair \in pairs /\ pair[1] \in Nat /\ pair[1] \in DOMAIN infos
  BY <1>2
<1>11. /\ requested' \in [Peers -> SUBSET Nat] /\ requested'[Other(p)] = requested[Other(p)]
       /\ \A h \in requested'[p] : h \in requested[p] \/ h \in DOMAIN infos
       /\ pairs = {} => requested' = requested
  <2>1. requested \in [Peers -> SUBSET Nat]
    BY DEF PaiTypes
  <2>2. PICK fresh : fresh = { pair[1] : pair \in asking }
    OBVIOUS
  <2>3. fresh \in SUBSET Nat /\ \A h \in fresh : h \in DOMAIN infos
    BY <1>10, <2>2
  <2>4. pairs = {} => fresh = {}
    BY <1>10, <2>2
  <2> QED
    BY <1>8, <2>1, <2>2, <2>3, <2>4, OtherFacts
<1>12. PICK order \in SetToSeqs(binding) :
          /\ Report(p, [i \in DOMAIN order |->
                          NewIntersection(order[i][1], infos[order[i][1]].auth)])
          /\ found' = [found EXCEPT ![p] = @ \o order]
  BY <1>8
<1>13. /\ order \in Seq(binding) /\ Len(order) \in Nat /\ DOMAIN order = 1..Len(order)
       /\ Distinct(order) /\ Len(order) = Cardinality(binding)
  BY <1>1, <1>3, OrdersOf DEF Distinct
<1>14. \A pair \in binding : pair \in pairs /\ pair \in Nat \X Nat /\ pair[1] \in DOMAIN infos
  BY <1>3
<1>15. \A i \in DOMAIN order : /\ order[i] \in pairs /\ order[i] \in Nat \X Nat
                               /\ order[i][1] \in Nat /\ order[i][1] \in DOMAIN infos
  BY <1>13, <1>14
<1>16. order \in Seq(Nat \X Nat)
  BY <1>13, <1>15
<1>17. PICK new : new = [i \in DOMAIN order |->
                           NewIntersection(order[i][1], infos[order[i][1]].auth)]
  OBVIOUS
<1>18. new \in Seq(Intersections)
  <2>1. \A h \in DOMAIN infos : infos[h].auth \in AllAuths
    <3>1. \A h \in DOMAIN infos : infos[h] \in Infos
      BY LenProperties, ElementOfSeq
    <3> QED
      BY <3>1 DEF Infos
  <2>2. \A h \in Nat : \A a \in AllAuths : NewIntersection(h, a) \in Intersections
    BY DEF NewIntersection, Intersections
  <2>3. \A i \in DOMAIN order : NewIntersection(order[i][1], infos[order[i][1]].auth) \in Intersections
    BY <1>15, <2>1, <2>2
  <2> QED
    BY <1>13, <1>17, <2>3
<1>19. inbox' = [inbox EXCEPT ![p] = @ \o new]
  BY <1>12, <1>17 DEF Report
<1>20. /\ inbox' \in [Peers -> Seq(Intersections)] /\ inbox'[Other(p)] = inbox[Other(p)]
       /\ inbox'[p] = inbox[p] \o new
  <2>1. inbox \in [Peers -> Seq(Intersections)]
    BY DEF PaiTypes
  <2>2. inbox[p] \o new \in Seq(Intersections)
    BY <1>18, <2>1, ConcatProperties
  <2> QED
    BY <1>19, <2>1, <2>2, OtherFacts
<1>21. ASSUME pairs = {} PROVE inbox' = inbox
  <2>1. binding = {}
    BY <1>14, <1>21
  <2>2. Len(order) = 0
    BY <1>13, <2>1, FS_EmptySet
  <2>3. new = << >>
    BY <1>13, <1>17, <2>2
  <2>4. inbox \in [Peers -> Seq(Intersections)]
    BY DEF PaiTypes
  <2>5. inbox[p] \o << >> = inbox[p]
    BY <2>4, ConcatEmptySeq
  <2> QED
    BY <1>19, <2>3, <2>4, <2>5
<1> QED
  BY <1>6, <1>9, <1>11, <1>12, <1>13, <1>15, <1>16, <1>20, <1>21 DEF Checked

(* A sequence, given by its elements.                                      *)
Listed(f, n) == f = [i \in 1..n |-> f[i]]

(* A function on 1..n is a sequence.                                       *)
LEMMA ListedIsSeq ==
    ASSUME NEW T, NEW n \in Nat, NEW f, Listed(f, n), \A i \in 1..n : f[i] \in T
    PROVE  f \in Seq(T) /\ Len(f) = n /\ DOMAIN f = 1..n
<1>1. f \in [1..n -> T]
  BY DEF Listed
<1>2. f \in Seq(T) /\ DOMAIN f = 1..n
  BY <1>1
<1> QED
  BY <1>2

(* What submitting authorisations does.                                    *)
Submitted(p, from) ==
    \E infos \in Seq(Fresh) :
        /\ ours' = [ours EXCEPT ![p] = @ \o infos]
        /\ Sent(p, Other(p), from, "intersection", [i \in DOMAIN infos |-> BindFragment(infos[i])])

(* SubmitAll binds fragments that are not complete and sends the same.     *)
LEMMA SubmitFacts ==
    ASSUME PaiTypes, NEW p \in Peers, NEW from, NEW as \in Seq(AllAuths), SubmitAll(p, from, as)
    PROVE  Submitted(p, from)
<1>1. PICK n \in Nat : n = Len(as) /\ DOMAIN as = 1..n /\ \A i \in 1..n : as[i] \in AllAuths
  BY LenProperties, ElementOfSeq
<1>2. PICK ss : ss = [i \in DOMAIN as |-> fragment_set(as[i])]
  OBVIOUS
<1>3. \A i \in 1..n : ss[i] \in Seq(Fresh)
  BY <1>1, <1>2, FragmentSetType
<1>4. DOMAIN ss = 1..n /\ Len(ss) = n /\ (ss = << >> \/ Len(ss) # 0)
  <2>1. Listed(ss, n)
    BY <1>1, <1>2 DEF Listed
  <2>2. PICK T : \A i \in 1..n : ss[i] \in T
    BY <1>3
  <2>3. ss \in Seq(T) /\ DOMAIN ss = 1..n /\ Len(ss) = n
    BY <2>1, <2>2, ListedIsSeq
  <2> QED
    BY <2>3, EmptySeq
<1>6. PICK infos : infos = FlattenSeq(ss)
  OBVIOUS
<1>7. infos \in Seq(Fresh)
  BY <1>3, <1>4, <1>6, FlattenType
<1>8. /\ ours' = [ours EXCEPT ![p] = @ \o infos]
      /\ Deliver(p, from, [NoSends EXCEPT !["intersection"] =
                             [i \in DOMAIN infos |-> BindFragment(infos[i])]])
  BY <1>2, <1>6, Zenon DEF SubmitAll, bind
<1>9. "intersection" \in Channels
  BY DEF Channels
<1>10. Sent(p, Other(p), from, "intersection", [i \in DOMAIN infos |-> BindFragment(infos[i])])
  BY <1>8, <1>9, SendFacts
<1> QED
  BY <1>7, <1>8, <1>10 DEF Submitted

(* The handle tables after authorisations were submitted.                  *)
LEMMA SubmitKeeps ==
    ASSUME PaiTypes, HandlesAgree, Answered, Paired, Capable,
           NEW p \in Peers, NEW from \in {"none", "control"}, Submitted(p, from),
           from = "control" => chan[p]["control"] # << >>,
           UNCHANGED << theirs, requested, found, inbox, bound >>
    PROVE  /\ ours' \in [Peers -> Seq(Infos)] /\ ours'[Other(p)] = ours[Other(p)]
           /\ \A r \in Peers : requested'[r] \subseteq DOMAIN ours'[r]
           /\ \A r \in Peers : /\ chan'[r]["intersection"] \in Seq(IntersectionMsgs)
                               /\ chan'[r]["control"] \in Seq(ControlMsgs)
                               /\ chan'[r]["capability"] = chan[r]["capability"]
           /\ chan'[Other(p)]["control"] = chan[Other(p)]["control"]
           /\ HandlesAgree' /\ Answered' /\ Paired' /\ Capable'
<1>1. PICK q \in Peers : q = Other(p) /\ q # p /\ p = Other(q) /\ Peers = {p, q}
  BY OtherFacts
<1>2. PICK infos \in Seq(Fresh) :
        /\ ours' = [ours EXCEPT ![p] = @ \o infos]
        /\ Sent(p, q, from, "intersection", [i \in DOMAIN infos |-> BindFragment(infos[i])])
  BY <1>1 DEF Submitted
<1>3. PICK msgs : msgs = [i \in DOMAIN infos |-> BindFragment(infos[i])]
  OBVIOUS
<1>4. /\ infos \in Seq(Infos) /\ \A i \in DOMAIN infos : infos[i].complete = FALSE
      /\ Len(infos) \in Nat /\ DOMAIN infos = 1..Len(infos)
  <2>1. \A i \in DOMAIN infos : infos[i] \in Fresh
    BY LenProperties, ElementOfSeq
  <2>2. Len(infos) \in Nat /\ DOMAIN infos = 1..Len(infos)
    BY LenProperties
  <2>3. \A i \in DOMAIN infos : infos[i] \in Infos /\ infos[i].complete = FALSE
    BY <2>1 DEF Fresh
  <2>4. infos = [i \in 1..Len(infos) |-> infos[i]]
    BY LenProperties
  <2> QED
    BY <2>2, <2>3, <2>4
<1>5. msgs \in Seq(IntersectionMsgs) /\ \A i \in DOMAIN msgs : msgs[i].type # "PaiReplyFragment"
  <2>1. \A info \in Infos : /\ BindFragment(info) \in IntersectionMsgs
                            /\ BindFragment(info).type # "PaiReplyFragment"
    BY DEF BindFragment, IntersectionMsgs, Infos
  <2>2. \A i \in 1..Len(infos) : infos[i] \in Infos
    BY <1>4, ElementOfSeq
  <2>3. \A i \in 1..Len(infos) : /\ BindFragment(infos[i]) \in IntersectionMsgs
                                 /\ BindFragment(infos[i]).type # "PaiReplyFragment"
    BY <2>1, <2>2
  <2> QED
    BY <1>3, <1>4, <2>3
<1>6. /\ chan'[q]["intersection"] = chan[q]["intersection"] \o msgs
      /\ chan'[q]["control"] = chan[q]["control"]
      /\ chan'[q]["capability"] = chan[q]["capability"]
      /\ chan'[p]["intersection"] = chan[p]["intersection"]
      /\ chan'[p]["control"] =
            IF from = "control" THEN Tail(chan[p]["control"]) ELSE chan[p]["control"]
      /\ chan'[p]["capability"] = chan[p]["capability"]
  BY <1>2, <1>3 DEF Sent, Took, Channels
<1>7. /\ ours[p] \in Seq(Infos) /\ ours[q] \in Seq(Infos)
      /\ theirs[p] \in Seq(States) /\ theirs[q] \in Seq(States)
      /\ chan[q]["intersection"] \in Seq(IntersectionMsgs)
      /\ chan[p]["intersection"] \in Seq(IntersectionMsgs)
      /\ chan[q]["control"] \in Seq(ControlMsgs) /\ chan[p]["control"] \in Seq(ControlMsgs)
      /\ ours \in [Peers -> Seq(Infos)]
  BY DEF PaiTypes
<1>8. ours[p] \o infos \in Seq(Infos)
  BY <1>4, <1>7, ConcatProperties
<1>9. /\ ours' \in [Peers -> Seq(Infos)] /\ ours'[q] = ours[q] /\ ours'[p] = ours[p] \o infos
  BY <1>1, <1>2, <1>7, <1>8
<1>10. Appended(ours[p] \o infos, ours[p], infos)
  BY <1>4, <1>7, ConcatFacts
<1>11. \A h \in DOMAIN ours[p] : h \in DOMAIN ours'[p] /\ ours'[p][h] = ours[p][h]
  BY <1>9, <1>10 DEF Appended
<1>12. \A r \in Peers : requested'[r] \subseteq DOMAIN ours'[r]
  BY <1>1, <1>9, <1>11 DEF PaiTypes
<1>13. chan'[q]["intersection"] \in Seq(IntersectionMsgs)
  BY <1>5, <1>6, <1>7, ConcatProperties
<1>14. chan'[p]["control"] \in Seq(ControlMsgs)
  <2>1. CASE from = "control"
    BY <1>6, <1>7, <2>1, TailFacts
  <2>2. CASE from # "control"
    BY <1>6, <1>7, <2>2
  <2> QED
    BY <2>1, <2>2
<1>15. HandlesAgree'
  <2>1. TablesAgree(theirs[q], chan[q]["intersection"], ours[p])
    BY <1>1 DEF HandlesAgree
  <2>2. TablesAgree(theirs[q], chan[q]["intersection"] \o msgs, ours[p] \o infos)
    BY <1>3, <1>4, <1>5, <1>7, <2>1, AgreeWithBinds
  <2>3. TablesAgree(theirs[p], chan[p]["intersection"], ours[q])
    BY <1>1 DEF HandlesAgree
  <2>4. /\ TablesAgree(theirs[q], chan'[q]["intersection"], ours'[p])
        /\ TablesAgree(theirs[p], chan'[p]["intersection"], ours'[q])
    BY <1>6, <1>9, <2>2, <2>3
  <2> QED
    BY <1>1, <2>4 DEF HandlesAgree
<1>16. Answered'
  <2>1. RepliesFit(theirs[p], chan[q]["intersection"], ours[q])
    BY <1>1 DEF Answered
  <2>2. RepliesFit(theirs[p], chan[q]["intersection"] \o msgs, ours[q])
    BY <1>5, <1>7, <2>1, FitWithBinds
  <2>3. RepliesFit(theirs[q], chan[p]["intersection"], ours[p])
    BY <1>1 DEF Answered
  <2>4. Len(theirs[q]) \in Nat /\ Len(theirs[q]) <= Len(ours[p])
    <3>1. TablesAgree(theirs[q], chan[q]["intersection"], ours[p])
      BY <1>1 DEF HandlesAgree
    <3>2. /\ Len(ours[p]) = Len(theirs[q]) + Cardinality(Binds(chan[q]["intersection"]))
          /\ Cardinality(Binds(chan[q]["intersection"])) \in Nat /\ Len(theirs[q]) \in Nat
      BY <1>7, <3>1, AgreeBy, UptoFinite, LenProperties
    <3> QED
      BY <3>2
  <2>5. RepliesFit(theirs[q], chan[p]["intersection"], ours[p] \o infos)
    BY <1>4, <1>7, <2>3, <2>4, FitWithFresh
  <2>6. /\ RepliesFit(theirs[p], chan'[q]["intersection"], ours'[q])
        /\ RepliesFit(theirs[q], chan'[p]["intersection"], ours'[p])
    BY <1>6, <1>9, <2>2, <2>5
  <2> QED
    BY <1>1, <2>6 DEF Answered
<1>17. Paired'
  <2>1. PairsFit(found[p], ours[p], theirs[p]) /\ PairsFit(found[q], ours[q], theirs[q])
    BY DEF Paired
  <2>2. Len(theirs[p]) \in Nat
    BY <1>7, LenProperties
  <2>3. PairsFit(found[p], ours'[p], theirs[p])
    <3>1. PICK old, new : old = ours[p] /\ new = ours'[p]
      OBVIOUS
    <3>2. \A h \in DOMAIN old : /\ h \in DOMAIN new
                                /\ old[h].complete = TRUE => new[h].complete = TRUE
      BY <1>11, <3>1
    <3>3. PairsFit(found[p], old, theirs[p]) /\ Len(theirs[p]) <= Len(theirs[p])
      BY <2>1, <2>2, <3>1
    <3>4. PairsFit(found[p], new, theirs[p])
      BY <2>2, <3>2, <3>3, PairsStillFit
    <3> QED
      BY <3>1, <3>4
  <2> QED
    BY <1>1, <1>9, <2>1, <2>3 DEF Paired
<1>18. Capable'
  BY <1>1, <1>6 DEF Capable
<1> QED
  BY <1>1, <1>6, <1>7, <1>9, <1>12, <1>13, <1>14, <1>15, <1>16, <1>17, <1>18

-----------------------------------------------------------------------------
(* Every action keeps the invariant.                                       *)

(* Input::SubmitAuthorisation.                                             *)
LEMMA SubmitAuthorisationStep ==
    ASSUME PaiInv, NEW p \in Peers, NEW a \in Auths[p], SubmitAuthorisation(p, a)
    PROVE  PaiInv'
<1> USE DEF PaiInv
<1>1. /\ Other(p) \in Peers /\ Peers = {p, Other(p)}
  BY OtherFacts
<1>2. a \in AllAuths
  BY DEF AllAuths, Peers
<1>3. UNCHANGED << revealed, theirs, requested, found, inbox, bound, failed >>
  BY DEF SubmitAuthorisation
<1>4. CASE revealed[p] /\ SubmitAll(p, "none", << a >>) /\ UNCHANGED pending
  <2>1. << a >> \in Seq(AllAuths)
    BY <1>2
  <2>2. Submitted(p, "none")
    BY <1>4, <2>1, SubmitFacts
  <2>3. /\ ours' \in [Peers -> Seq(Infos)] /\ ours'[Other(p)] = ours[Other(p)]
        /\ \A r \in Peers : requested'[r] \subseteq DOMAIN ours'[r]
        /\ \A r \in Peers : /\ chan'[r]["intersection"] \in Seq(IntersectionMsgs)
                            /\ chan'[r]["control"] \in Seq(ControlMsgs)
                            /\ chan'[r]["capability"] = chan[r]["capability"]
        /\ chan'[Other(p)]["control"] = chan[Other(p)]["control"]
        /\ HandlesAgree' /\ Answered' /\ Paired' /\ Capable'
    BY <1>3, <2>2, SubmitKeeps
  <2>4. PaiTypes'
    BY <1>3, <1>4, <2>3 DEF PaiTypes
  <2>5. Silent'
    <3>1. revealed[p] = TRUE
      BY <1>4 DEF PaiTypes
    <3> QED
      BY <1>1, <1>3, <2>3, <3>1 DEF Silent
  <2> QED
    BY <1>3, <2>3, <2>4, <2>5 DEF NothingBeforeTheReveal
<1>5. CASE pending' = [pending EXCEPT ![p] = @ \cup {a}] /\ UNCHANGED << ours, chan >>
  <2>1. PaiTypes'
    <3>1. pending \in [Peers -> SUBSET AllAuths] /\ \A r \in Peers : IsFiniteSet(pending[r])
      BY DEF PaiTypes
    <3>2. pending' \in [Peers -> SUBSET AllAuths]
      BY <1>2, <1>5, <3>1
    <3>3. IsFiniteSet(pending[p] \cup {a})
      BY <3>1, FS_AddElement
    <3>4. \A r \in Peers : IsFiniteSet(pending'[r])
      BY <1>5, <3>1, <3>3
    <3> QED
      BY <1>3, <1>5, <3>2, <3>4 DEF PaiTypes
  <2>2. HandlesAgree' /\ Answered' /\ Paired' /\ Capable' /\ Silent' /\ NothingBeforeTheReveal'
    BY <1>3, <1>5 DEF HandlesAgree, Answered, Paired, Capable, Silent, NothingBeforeTheReveal
  <2> QED
    BY <2>1, <2>2
<1> QED
  BY <1>4, <1>5 DEF SubmitAuthorisation

(* Input::Established.                                                     *)
LEMMA ReceiveRevealStep ==
    ASSUME PaiInv, NEW p \in Peers, ReceiveReveal(p)
    PROVE  PaiInv'
<1> USE DEF PaiInv
<1>1. /\ Other(p) \in Peers /\ Peers = {p, Other(p)} /\ Other(p) # p
  BY OtherFacts
<1>2. /\ UNCHANGED << theirs, requested, found, inbox, bound, failed >>
      /\ revealed' = [revealed EXCEPT ![p] = TRUE] /\ pending' = [pending EXCEPT ![p] = {}]
      /\ chan[p]["control"] # << >>
  BY DEF ReceiveReveal, Arrived
<1>3. PICK as \in SetToSeqs(pending[p]) : SubmitAll(p, "control", as)
  BY DEF ReceiveReveal
<1>4. as \in Seq(AllAuths)
  <2>1. IsFiniteSet(pending[p]) /\ \A a \in pending[p] : a \in AllAuths
    BY DEF PaiTypes
  <2>2. as \in Seq(pending[p]) /\ DOMAIN as = 1..Len(as) /\ Len(as) \in Nat
    BY <2>1, OrdersOf
  <2>3. Listed(as, Len(as)) /\ \A i \in 1..Len(as) : as[i] \in pending[p]
    <3>1. PICK S : S = pending[p]
      OBVIOUS
    <3>2. as \in Seq(S)
      BY <2>2, <3>1
    <3>3. \A i \in 1..Len(as) : as[i] \in S
      BY <3>2, ElementOfSeq
    <3>4. Listed(as, Len(as))
      BY <3>2, LenProperties DEF Listed
    <3> QED
      BY <3>1, <3>3, <3>4
  <2>4. \A i \in 1..Len(as) : as[i] \in AllAuths
    BY <2>1, <2>3
  <2> QED
    BY <2>2, <2>3, <2>4, ListedIsSeq
<1>5. Submitted(p, "control")
  BY <1>3, <1>4, SubmitFacts
<1>6. /\ ours' \in [Peers -> Seq(Infos)] /\ ours'[Other(p)] = ours[Other(p)]
      /\ \A r \in Peers : requested'[r] \subseteq DOMAIN ours'[r]
      /\ \A r \in Peers : /\ chan'[r]["intersection"] \in Seq(IntersectionMsgs)
                          /\ chan'[r]["control"] \in Seq(ControlMsgs)
                          /\ chan'[r]["capability"] = chan[r]["capability"]
      /\ chan'[Other(p)]["control"] = chan[Other(p)]["control"]
      /\ HandlesAgree' /\ Answered' /\ Paired' /\ Capable'
  BY <1>2, <1>5, SubmitKeeps
<1>7. revealed' \in [Peers -> BOOLEAN] /\ revealed'[p] = TRUE
      /\ revealed'[Other(p)] = revealed[Other(p)]
  BY <1>1, <1>2 DEF PaiTypes
<1>8. pending' \in [Peers -> SUBSET AllAuths] /\ \A r \in Peers : IsFiniteSet(pending'[r])
  BY <1>2, FS_EmptySet DEF PaiTypes
<1>9. PaiTypes'
  BY <1>2, <1>6, <1>7, <1>8 DEF PaiTypes
<1>10. Silent'
  BY <1>1, <1>2, <1>6, <1>7 DEF Silent
<1> QED
  BY <1>2, <1>6, <1>9, <1>10 DEF NothingBeforeTheReveal

(* Before a peer is established, its partner has nothing of it.            *)
LEMMA SilentFacts ==
    ASSUME PaiTypes, HandlesAgree, Silent, NEW p \in Peers, revealed[p] = FALSE
    PROVE  /\ Unrevealed(chan[p]["control"], chan[p]["capability"], ours[p], inbox, requested)
           /\ DOMAIN theirs[Other(p)] = {} /\ Binds(chan[Other(p)]["intersection"]) = {}
<1>1. Other(p) \in Peers /\ Other(Other(p)) = p
  BY OtherFacts
<1>2. Unrevealed(chan[p]["control"], chan[p]["capability"], ours[p], inbox, requested)
  BY DEF Silent
<1>3. Len(ours[p]) = 0
  BY <1>2 DEF Unrevealed
<1>4. TablesAgree(theirs[Other(p)], chan[Other(p)]["intersection"], ours[p])
  BY <1>1 DEF HandlesAgree
<1>5. PICK b \in Nat : b = Cardinality(Binds(chan[Other(p)]["intersection"]))
  BY <1>1, UptoFinite DEF PaiTypes
<1>6. PICK n \in Nat : n = Len(theirs[Other(p)]) /\ DOMAIN theirs[Other(p)] = 1..n
  BY <1>1, LenProperties DEF PaiTypes
<1>7. 0 = n + b
  BY <1>3, <1>4, <1>5, <1>6, AgreeBy
<1>8. n = 0 /\ b = 0
  BY <1>7
<1>9. IsFiniteSet(Binds(chan[Other(p)]["intersection"]))
  BY <1>1, UptoFinite DEF PaiTypes
<1>10. Binds(chan[Other(p)]["intersection"]) = {}
  BY <1>5, <1>8, <1>9, FS_EmptySet
<1> QED
  BY <1>2, <1>6, <1>8, <1>10


(* Only a complete fragment matches.                                       *)
LEMMA CompleteToMatch ==
    ASSUME NEW our \in Infos, NEW their, completes_with(our, their)
    PROVE  our.complete = TRUE
<1>1. our.complete \in BOOLEAN
  BY DEF Infos
<1>2. our.complete
  BY DEF completes_with
<1> QED
  BY <1>1, <1>2

(* The fields of our fragments.                                            *)
LEMMA InfoFields ==
    ASSUME NEW infos \in Seq(Infos)
    PROVE  /\ Len(infos) \in Nat /\ DOMAIN infos = 1..Len(infos)
           /\ \A h \in DOMAIN infos : h \in Nat /\ infos[h] \in Infos /\ infos[h].complete \in BOOLEAN
<1>1. Len(infos) \in Nat /\ DOMAIN infos = 1..Len(infos)
  BY LenProperties
<1>2. \A h \in DOMAIN infos : infos[h] \in Infos
  BY <1>1, ElementOfSeq
<1>3. \A h \in DOMAIN infos : infos[h].complete \in BOOLEAN
  BY <1>2 DEF Infos
<1> QED
  BY <1>1, <1>2, <1>3

(* The types after a fragment was looked for.                              *)
LEMMA CheckedTypes ==
    ASSUME PaiTypes, NEW p \in Peers, NEW infos, NEW pairs, NEW replies \in Seq(IntersectionMsgs),
           Checked(p, infos, pairs, replies), chan[p]["intersection"] # << >>
    PROVE  /\ \A r \in Peers : /\ chan'[r]["intersection"] \in Seq(IntersectionMsgs)
                               /\ chan'[r]["control"] \in Seq(ControlMsgs)
                               /\ chan'[r]["capability"] = chan[r]["capability"]
           /\ chan'[p]["intersection"] = Tail(chan[p]["intersection"])
           /\ chan'[p]["control"] = chan[p]["control"]
           /\ found' \in [Peers -> Seq(Nat \X Nat)] /\ found'[Other(p)] = found[Other(p)]
<1>1. PICK q \in Peers : q = Other(p) /\ Peers = {p, q} /\ q # p
  BY OtherFacts
<1>2. \A r \in Peers : /\ chan[r]["intersection"] \in Seq(IntersectionMsgs)
                       /\ chan[r]["control"] \in Seq(ControlMsgs)
  BY DEF PaiTypes
<1>3. /\ chan'[p]["intersection"] = Tail(chan[p]["intersection"])
      /\ chan'[p]["control"] = chan[p]["control"]
      /\ chan'[p]["capability"] = chan[p]["capability"]
  BY DEF Checked, Took, Channels
<1>4. PICK requests \in Seq(ControlMsgs) : chan'[q]["control"] = chan[q]["control"] \o requests
  BY <1>1 DEF Checked
<1>5. /\ chan'[q]["intersection"] = chan[q]["intersection"] \o replies
      /\ chan'[q]["capability"] = chan[q]["capability"]
  BY <1>1 DEF Checked
<1>6. chan'[p]["intersection"] \in Seq(IntersectionMsgs)
  BY <1>2, <1>3, TailFacts
<1>7. chan'[q]["intersection"] \in Seq(IntersectionMsgs)
  BY <1>2, <1>5, ConcatProperties
<1>8. chan'[q]["control"] \in Seq(ControlMsgs)
  BY <1>2, <1>4, ConcatProperties
<1>9. PICK order \in Seq(Nat \X Nat) : found' = [found EXCEPT ![p] = @ \o order]
  BY DEF Checked
<1>10. found \in [Peers -> Seq(Nat \X Nat)]
  BY DEF PaiTypes
<1>11. found[p] \o order \in Seq(Nat \X Nat)
  BY <1>10, ConcatProperties
<1>12. found' \in [Peers -> Seq(Nat \X Nat)] /\ found'[q] = found[q]
  BY <1>1, <1>9, <1>10, <1>11
<1> QED
  BY <1>1, <1>2, <1>3, <1>5, <1>6, <1>7, <1>8, <1>12

(* receive_bind: the new handle is in no pair and no reply yet.            *)
LEMMA ReceiveBindStep ==
    ASSUME PaiInv, NEW p \in Peers, ReceiveBind(p)
    PROVE  PaiInv'
<1> USE DEF PaiInv
<1>1. PICK q \in Peers : q = Other(p) /\ Peers = {p, q} /\ q # p /\ p = Other(q)
  BY OtherFacts
<1>2. PICK msgs : msgs = chan[p]["intersection"]
  OBVIOUS
<1>3. msgs \in Seq(IntersectionMsgs) /\ msgs # << >> /\ Head(msgs).type = "PaiBindFragment"
  BY <1>2 DEF ReceiveBind, Arrived, PaiTypes
<1>4. PICK state : state = [fragment |-> Head(msgs).fragment, is_secondary |-> Head(msgs).is_secondary]
  OBVIOUS
<1>5. state \in States
  <2>1. Head(msgs) \in IntersectionMsgs
    BY <1>3, TailFacts
  <2> QED
    BY <1>3, <1>4, <2>1 DEF IntersectionMsgs, States
<1>6. /\ ours[p] \in Seq(Infos) /\ ours[q] \in Seq(Infos)
      /\ theirs[p] \in Seq(States) /\ theirs[q] \in Seq(States)
      /\ chan[q]["intersection"] \in Seq(IntersectionMsgs)
      /\ theirs \in [Peers -> Seq(States)] /\ found \in [Peers -> Seq(Nat \X Nat)]
  BY DEF PaiTypes
<1>7. PICK t \in Nat : t = Len(theirs[p]) /\ DOMAIN theirs[p] = 1..t
  BY <1>6, LenProperties
<1>8. PICK handle \in Nat : handle = t + 1
  BY <1>7
<1>9. PICK matching : matching = { i \in DOMAIN ours[p] : completes_with(ours[p][i], state) }
  OBVIOUS
<1>10. PICK pairs : pairs = { << o, handle >> : o \in matching }
  OBVIOUS
<1>11. PICK replies : replies = << ReplyFragment(handle) >>
  OBVIOUS
<1>12. /\ theirs' = [theirs EXCEPT ![p] = @ \o << state >>]
       /\ CheckForIntersection(p, handle, ours[p], pairs, replies)
       /\ UNCHANGED << submitted, pending, revealed, ours, bound, failed >>
  BY <1>2, <1>4, <1>7, <1>8, <1>9, <1>10, <1>11 DEF ReceiveBind, bind
<1>13. \A o \in matching : o \in DOMAIN ours[p] /\ o \in Nat /\ ours[p][o].complete = TRUE
  BY <1>6, <1>9, InfoFields, CompleteToMatch
<1>14. \A pair \in pairs : /\ pair \in Nat \X Nat /\ pair[1] \in DOMAIN ours[p]
                           /\ ours[p][pair[1]].complete = TRUE /\ pair[2] = handle
  BY <1>10, <1>13
<1>15. IsFiniteSet(pairs)
  <2>1. PICK n \in Nat : DOMAIN ours[p] = 1..n
    BY <1>6, InfoFields
  <2>2. IsFiniteSet(1..n) /\ IsFiniteSet({handle})
    <3>1. IsFiniteSet(1..n)
      BY FS_Interval
    <3>2. IsFiniteSet({handle})
      BY FS_Singleton
    <3> QED
      BY <3>1, <3>2
  <2>3. IsFiniteSet((1..n) \X {handle})
    BY <2>2, FS_Product
  <2>4. pairs \in SUBSET ((1..n) \X {handle})
    BY <1>10, <1>13, <2>1
  <2> QED
    BY <2>3, <2>4, FS_Subset
<1>16. Checked(p, ours[p], pairs, replies)
  BY <1>6, <1>12, <1>14, <1>15, CheckFacts
<1>17. replies \in Seq(IntersectionMsgs) /\ ReplyFragment(handle) \in IntersectionMsgs
       /\ \A i \in DOMAIN replies : replies[i].type # "PaiBindFragment"
  <2>1. /\ ReplyFragment(handle) \in IntersectionMsgs
        /\ ReplyFragment(handle).type = "PaiReplyFragment"
    BY DEF ReplyFragment, IntersectionMsgs
  <2> QED
    BY <1>11, <2>1
<1>18. /\ \A r \in Peers : /\ chan'[r]["intersection"] \in Seq(IntersectionMsgs)
                           /\ chan'[r]["control"] \in Seq(ControlMsgs)
                           /\ chan'[r]["capability"] = chan[r]["capability"]
       /\ chan'[p]["intersection"] = Tail(msgs)
       /\ chan'[p]["control"] = chan[p]["control"]
       /\ found' \in [Peers -> Seq(Nat \X Nat)] /\ found'[q] = found[q]
  BY <1>1, <1>2, <1>3, <1>16, <1>17, CheckedTypes
<1>19. /\ theirs' \in [Peers -> Seq(States)] /\ theirs'[q] = theirs[q]
       /\ theirs'[p] = theirs[p] \o << state >> /\ Len(theirs'[p]) = t + 1
  <2>1. theirs[p] \o << state >> \in Seq(States) /\ Len(theirs[p] \o << state >>) = t + 1
    BY <1>5, <1>6, <1>7
  <2> QED
    BY <1>1, <1>6, <1>12, <2>1
<1>20. PaiTypes'
  <2>1. \A r \in Peers : requested'[r] \subseteq DOMAIN ours'[r]
    BY <1>1, <1>12, <1>16 DEF PaiTypes, Checked
  <2>2. \A r \in Peers : chan'[r]["capability"] \in Seq(CapabilityMsgs)
    BY <1>18 DEF PaiTypes
  <2>3. requested' \in [Peers -> SUBSET Nat] /\ inbox' \in [Peers -> Seq(Intersections)]
    BY <1>16 DEF Checked
  <2> QED
    BY <1>12, <1>18, <1>19, <2>1, <2>2, <2>3 DEF PaiTypes
<1>21. TablesAgree(theirs[p], msgs, ours[q]) /\ TablesAgree(theirs[q], chan[q]["intersection"], ours[p])
  BY <1>1, <1>2 DEF HandlesAgree
<1>22. chan'[q]["intersection"] = chan[q]["intersection"] \o replies
  BY <1>1, <1>16 DEF Checked
<1>23. HandlesAgree'
  <2>1. TablesAgree(theirs[p] \o << state >>, Tail(msgs), ours[q])
    BY <1>3, <1>4, <1>5, <1>6, <1>21, AgreeAfterBind
  <2>2. TablesAgree(theirs[q], chan[q]["intersection"] \o replies, ours[p])
    BY <1>6, <1>17, <1>21, AgreeWithReplies
  <2>3. TablesAgree(theirs'[p], chan'[p]["intersection"], ours'[q])
    BY <1>12, <1>18, <1>19, <2>1
  <2>4. TablesAgree(theirs'[q], chan'[q]["intersection"], ours'[p])
    BY <1>12, <1>19, <1>22, <2>2
  <2> QED
    BY <1>1, <2>3, <2>4 DEF HandlesAgree
<1>24. t + 1 <= Len(ours[q])
  <2>1. PICK b \in Nat : b = Cardinality(Binds(msgs))
    BY <1>3, UptoFinite
  <2>2. 1 \in Binds(msgs)
    BY <1>3, TailFacts DEF Binds
  <2>3. b # 0
    BY <1>3, <2>1, <2>2, UptoFinite, FS_EmptySet
  <2>4. Len(ours[q]) = t + b
    BY <1>7, <1>21, <2>1, AgreeBy
  <2> QED
    BY <2>3, <2>4
<1>25. Answered'
  <2>1. RepliesFit(theirs[q], msgs, ours[p]) /\ RepliesFit(theirs[p], chan[q]["intersection"], ours[q])
    BY <1>1, <1>2 DEF Answered
  <2>2. RepliesFit(theirs[q], Tail(msgs), ours[p])
    BY <1>3, <2>1, FitAfterBind
  <2>3. \A i \in DOMAIN ours[q] : ours[q][i].complete \in BOOLEAN
    BY <1>6, InfoFields
  <2>4. RepliesFit(theirs[p] \o << state >>, chan[q]["intersection"] \o replies, ours[q])
    BY <1>5, <1>6, <1>7, <1>8, <1>11, <1>17, <1>24, <2>1, <2>3, FitWithReply
  <2>5. RepliesFit(theirs'[q], chan'[p]["intersection"], ours'[p])
    BY <1>12, <1>18, <1>19, <2>2
  <2>6. RepliesFit(theirs'[p], chan'[q]["intersection"], ours'[q])
    BY <1>12, <1>19, <1>22, <2>4
  <2> QED
    BY <1>1, <2>5, <2>6 DEF Answered
<1>26. Paired'
  <2>1. PairsFit(found[p], ours[p], theirs[p]) /\ PairsFit(found[q], ours[q], theirs[q])
    BY DEF Paired
  <2>2. PICK order \in Seq(Nat \X Nat) :
          /\ found' = [found EXCEPT ![p] = @ \o order]
          /\ \A i \in DOMAIN order : order[i] \in pairs
          /\ Distinct(order)
    BY <1>16 DEF Checked
  <2>3. PICK old, infos, longer : old = found[p] /\ infos = ours[p] /\ longer = theirs'[p]
    OBVIOUS
  <2>4. PairsFit(old, infos, longer)
    <3>1. Len(longer) \in Nat /\ Len(theirs[p]) <= Len(longer) /\ Len(theirs[p]) \in Nat
      BY <1>7, <1>19, <2>3
    <3>2. \A h \in DOMAIN infos : /\ h \in DOMAIN infos
                                  /\ infos[h].complete = TRUE => infos[h].complete = TRUE
      OBVIOUS
    <3>3. PairsFit(old, infos, theirs[p])
      BY <2>1, <2>3
    <3> QED
      BY <3>1, <3>2, <3>3, PairsStillFit
  <2>5. PairsFit(order, infos, longer)
    <3>1. handle \in 1..Len(longer)
      BY <1>8, <1>19, <2>3
    <3>2. \A i \in DOMAIN order : /\ order[i][1] \in DOMAIN infos
                                  /\ infos[order[i][1]].complete = TRUE /\ order[i][2] = handle
      BY <1>14, <2>2, <2>3
    <3> QED
      BY <2>2, <3>1, <3>2 DEF PairsFit, Distinct
  <2>6. \A i \in DOMAIN old : \A j \in DOMAIN order : old[i] # order[j]
    <3>1. \A i \in DOMAIN old : old[i][2] \in 1..t
      BY <1>7, <2>1, <2>3 DEF PairsFit
    <3>2. \A i \in DOMAIN old : old[i][2] # handle
      BY <1>8, <3>1
    <3>3. \A j \in DOMAIN order : order[j][2] = handle
      BY <1>14, <2>2
    <3> QED
      BY <3>2, <3>3
  <2>7. PairsFit(old \o order, infos, longer)
    <3>1. old \in Seq(Nat \X Nat)
      BY <1>6, <2>3
    <3> QED
      BY <2>2, <2>4, <2>5, <2>6, <3>1, PairsWithMore
  <2>8. found'[p] = old \o order
    BY <1>6, <2>2, <2>3
  <2>9. PairsFit(found'[p], ours'[p], theirs'[p])
    BY <1>12, <2>3, <2>7, <2>8
  <2>10. PairsFit(found'[q], ours'[q], theirs'[q])
    BY <1>12, <1>18, <1>19, <2>1
  <2> QED
    BY <1>1, <2>9, <2>10 DEF Paired
<1>27. Capable'
  BY <1>12, <1>18 DEF Capable
<1>28. Silent'
  <2>1. ASSUME revealed[p] = FALSE
        PROVE  Unrevealed(chan'[p]["control"], chan'[p]["capability"], ours'[p], inbox', requested')
    <3>1. Unrevealed(chan[p]["control"], chan[p]["capability"], ours[p], inbox, requested)
      BY <2>1, SilentFacts
    <3>2. pairs = {}
      <4>1. DOMAIN ours[p] = {}
        BY <3>1 DEF Unrevealed
      <4> QED
        BY <1>14, <4>1
    <3>3. inbox' = inbox /\ requested' = requested
      BY <1>16, <3>2 DEF Checked
    <3> QED
      BY <1>12, <1>18, <3>1, <3>3
  <2>2. revealed[q] # FALSE
    <3>1. 1 \in Binds(msgs)
      BY <1>3, TailFacts DEF Binds
    <3> QED
      BY <1>1, <1>2, <3>1, SilentFacts
  <2> QED
    BY <1>1, <1>12, <2>1, <2>2 DEF Silent
<1> QED
  BY <1>12, <1>20, <1>23, <1>25, <1>26, <1>27, <1>28 DEF NothingBeforeTheReveal


(* Sending leaves the first message where it is.                           *)
LEMMA StillFirst ==
    ASSUME NEW M, NEW msgs \in Seq(M), msgs # << >>, NEW more \in Seq(M)
    PROVE  msgs \o more # << >> /\ Head(msgs \o more) = Head(msgs)
<1>1. 1 \in DOMAIN msgs /\ msgs[1] = Head(msgs)
  BY TailFacts
<1>2. PICK all : all = msgs \o more /\ all \in Seq(M) /\ Appended(all, msgs, more)
  BY ConcatFacts
<1>3. 1 \in DOMAIN all /\ all[1] = msgs[1]
  BY <1>1, <1>2 DEF Appended
<1>4. all # << >>
  BY <1>3
<1>5. Head(all) = all[1]
  BY <1>2, <1>4, TailFacts
<1> QED
  BY <1>1, <1>2, <1>3, <1>4, <1>5


(* receive_reply: the fragment was bound by the peer and not complete.     *)
LEMMA ReceiveReplyStep ==
    ASSUME PaiInv, NEW p \in Peers, ReceiveReply(p)
    PROVE  PaiInv'
<1> USE DEF PaiInv
<1>1. PICK q \in Peers : q = Other(p) /\ Peers = {p, q} /\ q # p /\ p = Other(q)
  BY OtherFacts
<1>2. PICK msgs : msgs = chan[p]["intersection"]
  OBVIOUS
<1>3. msgs \in Seq(IntersectionMsgs) /\ msgs # << >> /\ Head(msgs).type = "PaiReplyFragment"
  BY <1>2 DEF ReceiveReply, Arrived, PaiTypes
<1>4. /\ ours[p] \in Seq(Infos) /\ ours[q] \in Seq(Infos)
      /\ theirs[p] \in Seq(States) /\ theirs[q] \in Seq(States)
      /\ chan[q]["intersection"] \in Seq(IntersectionMsgs)
      /\ ours \in [Peers -> Seq(Infos)] /\ found \in [Peers -> Seq(Nat \X Nat)]
  BY DEF PaiTypes
<1>5. PICK handle : handle = Head(msgs).handle
  OBVIOUS
<1>6. PICK old : old = ours[p]
  OBVIOUS
<1>7. TablesAgree(theirs[p], msgs, ours[q]) /\ TablesAgree(theirs[q], chan[q]["intersection"], old)
  BY <1>1, <1>2, <1>6 DEF HandlesAgree
<1>8. RepliesFit(theirs[q], msgs, old) /\ RepliesFit(theirs[p], chan[q]["intersection"], ours[q])
  BY <1>1, <1>2, <1>6 DEF Answered
<1>9. Len(theirs[q]) \in Nat /\ Len(theirs[q]) <= Len(old)
  <2>1. /\ Len(old) = Len(theirs[q]) + Cardinality(Binds(chan[q]["intersection"]))
        /\ Cardinality(Binds(chan[q]["intersection"])) \in Nat /\ Len(theirs[q]) \in Nat
    BY <1>4, <1>7, AgreeBy, UptoFinite, LenProperties
  <2> QED
    BY <2>1
<1>10. /\ handle \in 1..Len(theirs[q]) /\ handle \in DOMAIN old /\ handle \in Nat
       /\ old[handle].complete = FALSE
  <2>1. 1 \in Replies(msgs) /\ msgs[1].handle = handle
    BY <1>3, <1>5, TailFacts DEF Replies
  <2>2. handle \in 1..Len(theirs[q]) /\ old[handle].complete = FALSE
    BY <1>8, <2>1 DEF RepliesFit
  <2> QED
    BY <1>4, <1>6, <1>9, <2>2, InfoFields
<1>11. PICK infos : infos = [old EXCEPT ![handle].complete = TRUE]
  OBVIOUS
<1>12. PICK matching : matching = { i \in DOMAIN theirs[p] : completes_with(infos[handle], theirs[p][i]) }
  OBVIOUS
<1>13. PICK pairs : pairs = { << handle, t >> : t \in matching }
  OBVIOUS
<1>14. /\ ours' = [ours EXCEPT ![p] = infos]
       /\ CheckForIntersection(p, handle, infos, pairs, << >>)
       /\ UNCHANGED << submitted, pending, revealed, theirs, bound, failed >>
  BY <1>2, <1>5, <1>6, <1>10, <1>11, <1>12, <1>13 DEF ReceiveReply
<1>15. /\ infos \in Seq(Infos) /\ DOMAIN infos = DOMAIN old /\ Len(infos) = Len(old)
       /\ infos[handle].complete = TRUE
       /\ \A g \in DOMAIN old : g # handle => infos[g] = old[g]
       /\ StateOf(infos[handle]) = StateOf(old[handle])
  <2>1. PICK n \in Nat : n = Len(old) /\ DOMAIN old = 1..n /\ \A h \in 1..n : old[h] \in Infos
    BY <1>4, <1>6, InfoFields
  <2>2. PICK info : info = [old[handle] EXCEPT !.complete = TRUE]
    OBVIOUS
  <2>3. info \in Infos /\ info.complete = TRUE /\ StateOf(info) = StateOf(old[handle])
    BY <1>10, <2>1, <2>2 DEF Infos, StateOf
  <2>4. infos = [old EXCEPT ![handle] = info]
    BY <1>11, <2>2
  <2>5. old \in [1..n -> Infos]
    BY <1>4, <1>6, <2>1
  <2>6. /\ DOMAIN infos = 1..n /\ infos[handle] = info
        /\ \A g \in 1..n : g # handle => infos[g] = old[g]
    BY <1>10, <2>1, <2>4, <2>5
  <2>7. Listed(infos, n) /\ \A g \in 1..n : infos[g] \in Infos
    BY <2>1, <2>3, <2>4, <2>5, <2>6 DEF Listed
  <2>8. infos \in Seq(Infos) /\ Len(infos) = n
    BY <2>7, ListedIsSeq
  <2> QED
    BY <2>1, <2>3, <2>6, <2>8
<1>16. PICK t \in Nat : t = Len(theirs[p]) /\ DOMAIN theirs[p] = 1..t
  BY <1>4, LenProperties
<1>17. \A pair \in pairs : pair \in Nat \X Nat /\ pair[1] = handle /\ pair[2] \in 1..t
  BY <1>10, <1>12, <1>13, <1>16
<1>18. IsFiniteSet(pairs)
  <2>1. IsFiniteSet(1..t) /\ IsFiniteSet({handle})
    <3>1. IsFiniteSet(1..t)
      BY FS_Interval
    <3>2. IsFiniteSet({handle})
      BY FS_Singleton
    <3> QED
      BY <3>1, <3>2
  <2>2. IsFiniteSet({handle} \X (1..t))
    BY <2>1, FS_Product
  <2>3. pairs \in SUBSET ({handle} \X (1..t))
    BY <1>12, <1>13, <1>16
  <2> QED
    BY <2>2, <2>3, FS_Subset
<1>19. Checked(p, infos, pairs, << >>)
  <2>1. \A pair \in pairs : pair \in Nat \X Nat /\ pair[1] \in DOMAIN infos
    BY <1>10, <1>15, <1>17
  <2> QED
    BY <1>10, <1>14, <1>15, <1>18, <2>1, CheckFacts
<1>20. /\ \A r \in Peers : /\ chan'[r]["intersection"] \in Seq(IntersectionMsgs)
                           /\ chan'[r]["control"] \in Seq(ControlMsgs)
                           /\ chan'[r]["capability"] = chan[r]["capability"]
       /\ chan'[p]["intersection"] = Tail(msgs)
       /\ chan'[p]["control"] = chan[p]["control"]
       /\ found' \in [Peers -> Seq(Nat \X Nat)] /\ found'[q] = found[q]
  <2>1. << >> \in Seq(IntersectionMsgs)
    BY EmptySeq
  <2> QED
    BY <1>1, <1>2, <1>3, <1>19, <2>1, CheckedTypes
<1>21. chan'[q]["intersection"] = chan[q]["intersection"]
  BY <1>1, <1>4, <1>19, ConcatEmptySeq DEF Checked
<1>22. ours' \in [Peers -> Seq(Infos)] /\ ours'[p] = infos /\ ours'[q] = ours[q]
  BY <1>1, <1>4, <1>14, <1>15
<1>23. PaiTypes'
  <2>1. \A r \in Peers : requested'[r] \subseteq DOMAIN ours'[r]
    BY <1>1, <1>6, <1>15, <1>19, <1>22 DEF PaiTypes, Checked
  <2>2. \A r \in Peers : chan'[r]["capability"] \in Seq(CapabilityMsgs)
    BY <1>20 DEF PaiTypes
  <2>3. requested' \in [Peers -> SUBSET Nat] /\ inbox' \in [Peers -> Seq(Intersections)]
    BY <1>19 DEF Checked
  <2> QED
    BY <1>14, <1>20, <1>22, <2>1, <2>2, <2>3 DEF PaiTypes
<1>24. HandlesAgree'
  <2>1. TablesAgree(theirs[p], Tail(msgs), ours[q])
    BY <1>3, <1>7, <1>16, AgreeAfterReply
  <2>2. TablesAgree(theirs[q], chan[q]["intersection"], infos)
    <3>1. \A h \in DOMAIN old : StateOf(infos[h]) = StateOf(old[h])
      BY <1>15
    <3> QED
      BY <1>4, <1>6, <1>7, <1>15, <3>1, AgreeAnyway
  <2>3. TablesAgree(theirs'[p], chan'[p]["intersection"], ours'[q])
    BY <1>14, <1>20, <1>22, <2>1
  <2>4. TablesAgree(theirs'[q], chan'[q]["intersection"], ours'[p])
    BY <1>14, <1>21, <1>22, <2>2
  <2> QED
    BY <1>1, <2>3, <2>4 DEF HandlesAgree
<1>25. Answered'
  <2>1. RepliesFit(theirs[q], Tail(msgs), infos)
    <3>1. PICK table : table = theirs[q]
      OBVIOUS
    <3>2. DOMAIN old = 1..Len(old) /\ Len(old) \in Nat /\ Len(table) <= Len(old)
      BY <1>4, <1>6, <1>9, <3>1, InfoFields
    <3>3. RepliesFit(table, msgs, old) /\ Len(table) \in Nat
      BY <1>8, <1>9, <3>1
    <3>4. Completed(old, infos, handle)
      BY <1>15 DEF Completed
    <3>5. RepliesFit(table, Tail(msgs), infos)
      BY <1>3, <1>5, <3>2, <3>3, <3>4, FitAfterReply
    <3> QED
      BY <3>1, <3>5
  <2>2. RepliesFit(theirs'[q], chan'[p]["intersection"], ours'[p])
    BY <1>14, <1>20, <1>22, <2>1
  <2>3. RepliesFit(theirs'[p], chan'[q]["intersection"], ours'[q])
    BY <1>8, <1>14, <1>21, <1>22
  <2> QED
    BY <1>1, <2>2, <2>3 DEF Answered
<1>26. Paired'
  <2>1. PairsFit(found[p], old, theirs[p]) /\ PairsFit(found[q], ours[q], theirs[q])
    BY <1>6 DEF Paired
  <2>2. PICK order \in Seq(Nat \X Nat) :
          /\ found' = [found EXCEPT ![p] = @ \o order]
          /\ \A i \in DOMAIN order : order[i] \in pairs
          /\ Distinct(order)
    BY <1>19 DEF Checked
  <2>3. PICK before, table : before = found[p] /\ table = theirs[p]
    OBVIOUS
  <2>4. PairsFit(before, infos, table)
    <3>1. Len(table) \in Nat /\ Len(table) <= Len(table)
      BY <1>16, <2>3
    <3>2. \A h \in DOMAIN old : /\ h \in DOMAIN infos
                                /\ old[h].complete = TRUE => infos[h].complete = TRUE
      BY <1>15
    <3>3. PairsFit(before, old, table)
      BY <2>1, <2>3
    <3> QED
      BY <3>1, <3>2, <3>3, PairsStillFit
  <2>5. PairsFit(order, infos, table)
    <3>1. \A i \in DOMAIN order : /\ order[i][1] \in DOMAIN infos
                                  /\ infos[order[i][1]].complete = TRUE
                                  /\ order[i][2] \in 1..Len(table)
      BY <1>10, <1>15, <1>16, <1>17, <2>2, <2>3
    <3> QED
      BY <2>2, <3>1 DEF PairsFit, Distinct
  <2>6. \A i \in DOMAIN before : \A j \in DOMAIN order : before[i] # order[j]
    <3>1. \A i \in DOMAIN before : old[before[i][1]].complete = TRUE
      BY <2>1, <2>3 DEF PairsFit
    <3>2. \A i \in DOMAIN before : before[i][1] # handle
      BY <1>10, <3>1
    <3>3. \A j \in DOMAIN order : order[j][1] = handle
      BY <1>17, <2>2
    <3> QED
      BY <3>2, <3>3
  <2>7. PairsFit(before \o order, infos, table)
    <3>1. before \in Seq(Nat \X Nat)
      BY <1>4, <2>3
    <3> QED
      BY <2>2, <2>4, <2>5, <2>6, <3>1, PairsWithMore
  <2>8. found'[p] = before \o order
    BY <1>4, <2>2, <2>3
  <2>9. PairsFit(found'[p], ours'[p], theirs'[p])
    BY <1>14, <1>22, <2>3, <2>7, <2>8
  <2>10. PairsFit(found'[q], ours'[q], theirs'[q])
    BY <1>14, <1>20, <1>22, <2>1
  <2> QED
    BY <1>1, <2>9, <2>10 DEF Paired
<1>27. Capable'
  BY <1>14, <1>20 DEF Capable
<1>28. Silent'
  <2>1. revealed[p] # FALSE
    <3>1. ASSUME revealed[p] = FALSE PROVE FALSE
      <4>1. Unrevealed(chan[p]["control"], chan[p]["capability"], ours[p], inbox, requested)
        BY <3>1, SilentFacts
      <4>2. DOMAIN old = {}
        BY <1>6, <4>1 DEF Unrevealed
      <4> QED
        BY <1>10, <4>2
    <3> QED
      BY <3>1
  <2>2. ASSUME revealed[q] = FALSE
        PROVE  Unrevealed(chan'[q]["control"], chan'[q]["capability"], ours'[q], inbox', requested')
    <3>1. /\ Unrevealed(chan[q]["control"], chan[q]["capability"], ours[q], inbox, requested)
          /\ DOMAIN theirs[p] = {}
      BY <1>1, <2>2, SilentFacts
    <3>2. pairs = {}
      BY <1>12, <1>13, <3>1
    <3>3. inbox' = inbox /\ requested' = requested
      BY <1>19, <3>2 DEF Checked
    <3>4. PICK requests \in Seq(ControlMsgs) : chan'[q]["control"] = chan[q]["control"] \o requests
      BY <1>1, <1>19 DEF Checked
    <3>5. chan[q]["control"] \in Seq(ControlMsgs)
      BY DEF PaiTypes
    <3>6. /\ chan'[q]["control"] # << >>
          /\ Head(chan'[q]["control"]) = Head(chan[q]["control"])
      BY <3>1, <3>4, <3>5, StillFirst DEF Unrevealed
    <3> QED
      BY <1>20, <1>22, <3>1, <3>3, <3>6 DEF Unrevealed
  <2> QED
    BY <1>1, <1>14, <2>1, <2>2 DEF Silent
<1> QED
  BY <1>14, <1>23, <1>24, <1>25, <1>26, <1>27, <1>28 DEF NothingBeforeTheReveal

(* What depends on the handle tables and the messages about fragments.     *)
LEMMA TablesKept ==
    ASSUME HandlesAgree, Answered, Paired, UNCHANGED << ours, theirs, found >>,
           \A r \in Peers : chan'[r]["intersection"] = chan[r]["intersection"]
    PROVE  HandlesAgree' /\ Answered' /\ Paired'
<1>1. HandlesAgree'
  <2>1. \A r \in Peers : TablesAgree(theirs[r], chan[r]["intersection"], ours[Other(r)])
    BY DEF HandlesAgree
  <2>2. \A r \in Peers : TablesAgree(theirs'[r], chan'[r]["intersection"], ours'[Other(r)])
    BY <2>1
  <2> QED
    BY <2>2 DEF HandlesAgree
<1>2. Answered' /\ Paired'
  BY DEF Answered, Paired
<1> QED
  BY <1>1, <1>2

(* An error other than the one of the challenge.                           *)
LEMMA FailFacts ==
    ASSUME PaiTypes, NothingBeforeTheReveal, NEW p \in Peers, NEW why \in ErrorKinds,
           NEW h \in Nat, Fail(p, why, h)
    PROVE  /\ failed' \in [Peers -> Seq(Errors)] /\ NothingBeforeTheReveal'
           /\ UNCHANGED << pending, revealed, ours, theirs, requested, found, inbox, bound >>
<1>1. failed \in [Peers -> Seq(Errors)]
  BY DEF PaiTypes
<1>2. failed' = [failed EXCEPT ![p] = << [error |-> why, handle |-> h] >>]
  BY DEF Fail
<1>3. << [error |-> why, handle |-> h] >> \in Seq(Errors)
  BY DEF Errors
<1>4. failed' \in [Peers -> Seq(Errors)]
  BY <1>1, <1>2, <1>3
<1>5. failed'[p] = << [error |-> why, handle |-> h] >> /\ \A r \in Peers \ {p} : failed'[r] = failed[r]
  BY <1>1, <1>2
<1>6. failed'[p][1].error = why
  BY <1>5
<1>7. why # "InvalidMessageInCurrentState"
  BY DEF ErrorKinds
<1>8. NothingBeforeTheReveal'
  BY <1>5, <1>6, <1>7 DEF NothingBeforeTheReveal
<1> QED
  BY <1>4, <1>8 DEF Fail

(* Whoever receives one of these messages has seen the reveal.             *)
LEMMA EstablishedFirst ==
    ASSUME PaiTypes, Silent, NEW p \in Peers,
           \/ chan[p]["capability"] # << >>
           \/ Head(chan[p]["control"]).type # "CommitmentReveal"
           \/ inbox[p] # << >>
           \/ requested[p] # {}
    PROVE  \A r \in Peers : r = p \/ inbox[p] # << >> \/ requested[p] # {} => revealed[r] = TRUE
<1>1. \A r \in Peers : revealed[r] = TRUE \/ revealed[r] = FALSE
  BY DEF PaiTypes
<1> QED
  BY <1>1 DEF Silent, Unrevealed

(* received_read_cap_for_intersection.                                     *)
LEMMA ReceiveReadCapStep ==
    ASSUME PaiInv, NEW p \in Peers, ReceiveReadCap(p)
    PROVE  PaiInv'
<1> USE DEF PaiInv
<1>1. PICK q \in Peers : q = Other(p) /\ Peers = {p, q} /\ q # p /\ p = Other(q)
  BY OtherFacts
<1>2. PICK msgs : msgs = chan[p]["capability"]
  OBVIOUS
<1>3. msgs \in Seq(CapabilityMsgs) /\ msgs # << >>
  BY <1>2 DEF ReceiveReadCap, Arrived, PaiTypes
<1>4. PICK handle \in Nat : handle = Head(msgs).handle
  <2>1. Head(msgs) \in CapabilityMsgs
    BY <1>3, TailFacts
  <2> QED
    BY <2>1 DEF CapabilityMsgs
<1>5. revealed[p] = TRUE
  BY <1>2, <1>3, EstablishedFirst
<1>6. Deliver(p, "capability", NoSends)
  BY <1>5 DEF ReceiveReadCap
<1>7. /\ chan'[p]["intersection"] = chan[p]["intersection"]
      /\ chan'[p]["control"] = chan[p]["control"]
      /\ chan'[p]["capability"] = Tail(msgs)
      /\ chan'[q]["intersection"] = chan[q]["intersection"]
      /\ chan'[q]["control"] = chan[q]["control"]
      /\ chan'[q]["capability"] = chan[q]["capability"]
  BY <1>1, <1>2, <1>6, QuietFacts DEF Took, Channels
<1>8. Tail(msgs) \in Seq(CapabilityMsgs)
  BY <1>3, TailFacts
<1>9. \A r \in Peers : /\ chan'[r]["intersection"] \in Seq(IntersectionMsgs)
                       /\ chan'[r]["control"] \in Seq(ControlMsgs)
                       /\ chan'[r]["capability"] \in Seq(CapabilityMsgs)
  BY <1>1, <1>7, <1>8 DEF PaiTypes
<1>10. ASSUME UNCHANGED bound PROVE Capable'
  <2>1. CapsFit(msgs, bound[q]) /\ CapsFit(chan[q]["capability"], bound[p])
    BY <1>1, <1>2 DEF Capable
  <2>2. CapsFit(Tail(msgs), bound[q])
    BY <1>3, <2>1, CapsAfterOne
  <2> QED
    BY <1>1, <1>7, <1>10, <2>1, <2>2 DEF Capable
<1>11. CASE /\ handle \in DOMAIN theirs[p]
            /\ \E order \in SetToSeqs({ i \in DOMAIN ours[p] :
                                          /\ completes_with(ours[p][i], theirs[p][handle])
                                          /\ on_intersection(ours[p][i]) = "ReplyReadCap" }) :
                  Report(p, [i \in DOMAIN order |->
                               NewIntersection(order[i], ours[p][order[i]].auth)])
            /\ UNCHANGED << submitted, pending, revealed, ours, theirs, requested, asked,
                            found, bound, failed >>
  <2>1. PICK matching : matching = { i \in DOMAIN ours[p] :
                                       /\ completes_with(ours[p][i], theirs[p][handle])
                                       /\ on_intersection(ours[p][i]) = "ReplyReadCap" }
    OBVIOUS
  <2>2. PICK order \in SetToSeqs(matching) :
          Report(p, [i \in DOMAIN order |-> NewIntersection(order[i], ours[p][order[i]].auth)])
    BY <1>11, <2>1
  <2>3. ours[p] \in Seq(Infos)
    BY DEF PaiTypes
  <2>4. \A h \in DOMAIN ours[p] : h \in Nat /\ ours[p][h].auth \in AllAuths
    <3>1. \A h \in DOMAIN ours[p] : h \in Nat /\ ours[p][h] \in Infos
      BY <2>3, InfoFields
    <3> QED
      BY <3>1 DEF Infos
  <2>5. IsFiniteSet(matching)
    <3>1. PICK n \in Nat : DOMAIN ours[p] = 1..n
      BY <2>3, InfoFields
    <3>2. IsFiniteSet(1..n)
      BY FS_Interval
    <3>3. matching \in SUBSET (1..n)
      BY <2>1, <3>1
    <3> QED
      BY <3>2, <3>3, FS_Subset
  <2>6. /\ order \in Seq(matching) /\ Len(order) \in Nat /\ DOMAIN order = 1..Len(order)
    BY <2>5, OrdersOf
  <2>7. \A i \in DOMAIN order : order[i] \in DOMAIN ours[p]
    <3>1. \A i \in DOMAIN order : order[i] \in matching
      BY <2>6, ElementOfSeq
    <3> QED
      BY <2>1, <3>1
  <2>8. PICK new : new = [i \in DOMAIN order |-> NewIntersection(order[i], ours[p][order[i]].auth)]
    OBVIOUS
  <2>9. new \in Seq(Intersections)
    <3>1. \A h \in Nat : \A a \in AllAuths : NewIntersection(h, a) \in Intersections
      BY DEF NewIntersection, Intersections
    <3>2. \A i \in DOMAIN order : NewIntersection(order[i], ours[p][order[i]].auth) \in Intersections
      BY <2>4, <2>7, <3>1
    <3> QED
      BY <2>6, <2>8, <3>2
  <2>10. inbox' \in [Peers -> Seq(Intersections)]
    <3>1. inbox \in [Peers -> Seq(Intersections)]
      BY DEF PaiTypes
    <3>2. inbox[p] \o new \in Seq(Intersections)
      BY <2>9, <3>1, ConcatProperties
    <3> QED
      BY <2>2, <2>8, <3>1, <3>2 DEF Report
  <2>11. PaiTypes'
    BY <1>9, <1>11, <2>10 DEF PaiTypes
  <2>12. HandlesAgree' /\ Answered' /\ Paired'
    BY <1>1, <1>7, <1>11, TablesKept
  <2>13. Silent'
    <3>1. revealed[q] # FALSE
      BY <1>1, <1>11, SilentFacts
    <3> QED
      BY <1>1, <1>5, <1>11, <3>1 DEF Silent
  <2> QED
    BY <1>10, <1>11, <2>11, <2>12, <2>13 DEF NothingBeforeTheReveal
<1>12. CASE Fail(p, "MissingResource", handle)
  <2>1. /\ failed' \in [Peers -> Seq(Errors)] /\ NothingBeforeTheReveal'
        /\ UNCHANGED << pending, revealed, ours, theirs, requested, found, inbox, bound >>
    <3>1. "MissingResource" \in ErrorKinds
      BY DEF ErrorKinds
    <3> QED
      BY <1>12, <3>1, FailFacts
  <2>2. PaiTypes'
    BY <1>9, <2>1 DEF PaiTypes
  <2>3. HandlesAgree' /\ Answered' /\ Paired'
    BY <1>1, <1>7, <2>1, TablesKept
  <2>4. Silent'
    BY <1>1, <1>5, <1>7, <2>1 DEF Silent
  <2> QED
    BY <1>10, <2>1, <2>2, <2>3, <2>4
<1> QED
  BY <1>2, <1>4, <1>5, <1>11, <1>12 DEF ReceiveReadCap


(* The message that arrived on the control channel.                        *)
LEMMA ControlHead ==
    ASSUME PaiTypes, NEW p \in Peers, NEW type, Arrived(p, "control", type)
    PROVE  /\ chan[p]["control"] # << >> /\ Head(chan[p]["control"]).type = type
           /\ Head(chan[p]["control"]) \in ControlMsgs
           /\ Tail(chan[p]["control"]) \in Seq(ControlMsgs)
<1>1. chan[p]["control"] # << >> /\ Head(chan[p]["control"]).type = type
  BY DEF Arrived
<1>2. chan[p]["control"] \in Seq(ControlMsgs)
  BY DEF PaiTypes
<1> QED
  BY <1>1, <1>2, TailFacts

(* received_subspace_cap_request.                                          *)
LEMMA ReceiveRequestStep ==
    ASSUME PaiInv, NEW p \in Peers, ReceiveRequest(p)
    PROVE  PaiInv'
<1> USE DEF PaiInv
<1>1. PICK q \in Peers : q = Other(p) /\ Peers = {p, q} /\ q # p /\ p = Other(q)
  BY OtherFacts
<1>2. PICK msgs : msgs = chan[p]["control"]
  OBVIOUS
<1>3. Arrived(p, "control", "PaiRequestSubspaceCapability")
  BY DEF ReceiveRequest
<1>4. /\ msgs # << >> /\ Head(msgs).type = "PaiRequestSubspaceCapability"
      /\ Head(msgs) \in ControlMsgs /\ Tail(msgs) \in Seq(ControlMsgs)
  BY <1>2, <1>3, ControlHead
<1>5. PICK handle \in Nat : handle = Head(msgs).handle
  BY <1>4 DEF ControlMsgs, Reveal
<1>6. revealed[p] = TRUE
  BY <1>2, <1>4, EstablishedFirst
<1>7. ASSUME NEW more \in Seq(ControlMsgs), Sent(p, q, "control", "control", more)
      PROVE  /\ \A r \in Peers : chan'[r]["intersection"] = chan[r]["intersection"]
             /\ \A r \in Peers : chan'[r]["capability"] = chan[r]["capability"]
             /\ \A r \in Peers : chan'[r]["control"] \in Seq(ControlMsgs)
             /\ chan'[q]["control"] = chan[q]["control"] \o more
  <2>1. /\ chan'[p]["intersection"] = chan[p]["intersection"]
        /\ chan'[p]["control"] = Tail(msgs)
        /\ chan'[p]["capability"] = chan[p]["capability"]
        /\ chan'[q]["intersection"] = chan[q]["intersection"]
        /\ chan'[q]["control"] = chan[q]["control"] \o more
        /\ chan'[q]["capability"] = chan[q]["capability"]
    BY <1>2, <1>7 DEF Sent, Took, Channels
  <2>2. chan[q]["control"] \in Seq(ControlMsgs)
    BY DEF PaiTypes
  <2>3. chan[q]["control"] \o more \in Seq(ControlMsgs)
    BY <2>2, ConcatProperties
  <2> QED
    BY <1>1, <1>4, <2>1, <2>3
<1>8. ASSUME UNCHANGED << pending, revealed, ours, theirs, requested, found, inbox, bound >>,
             failed' \in [Peers -> Seq(Errors)], NothingBeforeTheReveal',
             NEW more \in Seq(ControlMsgs), Sent(p, q, "control", "control", more)
      PROVE  PaiInv'
  <2>1. PaiTypes'
    BY <1>7, <1>8 DEF PaiTypes
  <2>2. HandlesAgree' /\ Answered' /\ Paired'
    BY <1>7, <1>8, TablesKept
  <2>3. Capable'
    BY <1>7, <1>8 DEF Capable
  <2>4. Silent'
    <3>1. ASSUME revealed[q] = FALSE
          PROVE  Unrevealed(chan'[q]["control"], chan'[q]["capability"], ours'[q], inbox', requested')
      <4>1. Unrevealed(chan[q]["control"], chan[q]["capability"], ours[q], inbox, requested)
        BY <3>1, SilentFacts
      <4>2. chan[q]["control"] \in Seq(ControlMsgs) /\ chan[q]["control"] # << >>
        BY <4>1 DEF PaiTypes, Unrevealed
      <4>3. /\ chan'[q]["control"] # << >>
            /\ Head(chan'[q]["control"]) = Head(chan[q]["control"])
        BY <1>7, <1>8, <4>2, StillFirst
      <4> QED
        BY <1>7, <1>8, <4>1, <4>3 DEF Unrevealed
    <3> QED
      BY <1>1, <1>6, <1>8, <3>1 DEF Silent
  <2> QED
    BY <1>8, <2>1, <2>2, <2>3, <2>4
<1>9. "control" \in Channels
  BY DEF Channels
<1>10. PICK matching : matching = { i \in DOMAIN ours[p] :
                                      /\ ours[p][i].complete
                                      /\ ours[p][i].fragment = theirs[p][handle].fragment
                                      /\ ours[p][i].auth.subspace = "any" }
  OBVIOUS
<1>11. PICK replies : replies = [i \in 1..Cardinality(matching) |->
                                   ReplyCap(handle, theirs[p][handle].fragment[1])]
  OBVIOUS
<1>12. CASE /\ handle \in DOMAIN theirs[p]
            /\ Deliver(p, "control", [NoSends EXCEPT !["control"] = replies])
            /\ UNCHANGED << submitted, pending, revealed, ours, theirs, requested, asked,
                            found, inbox, bound, failed >>
  <2>1. IsFiniteSet(matching) /\ Cardinality(matching) \in Nat
    <3>1. PICK n \in Nat : DOMAIN ours[p] = 1..n
      BY InfoFields DEF PaiTypes
    <3>2. IsFiniteSet(1..n)
      BY FS_Interval
    <3>3. matching \in SUBSET (1..n)
      BY <1>10, <3>1
    <3> QED
      BY <3>2, <3>3, FS_Subset, FS_CardinalityType
  <2>2. ReplyCap(handle, theirs[p][handle].fragment[1]) \in ControlMsgs
    <3>1. theirs[p] \in Seq(States)
      BY DEF PaiTypes
    <3>2. theirs[p][handle] \in States
      BY <1>12, <3>1, LenProperties, ElementOfSeq
    <3>3. theirs[p][handle].fragment \in Fragments
      BY <3>2 DEF States
    <3>4. theirs[p][handle].fragment[1] \in GrantedNamespaces
      BY <3>3 DEF Fragments
    <3>5. \A ns \in GrantedNamespaces : ReplyCap(handle, ns) \in ControlMsgs
      BY DEF ReplyCap, ControlMsgs
    <3> QED
      BY <3>4, <3>5
  <2>3. replies \in Seq(ControlMsgs)
    BY <1>11, <2>1, <2>2
  <2>4. Sent(p, q, "control", "control", replies)
    BY <1>1, <1>9, <1>12, SendFacts
  <2>5. /\ UNCHANGED << pending, revealed, ours, theirs, requested, found, inbox, bound >>
        /\ failed' \in [Peers -> Seq(Errors)] /\ NothingBeforeTheReveal'
    BY <1>12 DEF PaiTypes, NothingBeforeTheReveal
  <2> QED
    BY <1>8, <2>3, <2>4, <2>5
<1>13. CASE Deliver(p, "control", NoSends) /\ Fail(p, "MissingResource", handle)
  <2>1. /\ failed' \in [Peers -> Seq(Errors)] /\ NothingBeforeTheReveal'
        /\ UNCHANGED << pending, revealed, ours, theirs, requested, found, inbox, bound >>
    <3>1. "MissingResource" \in ErrorKinds
      BY DEF ErrorKinds
    <3> QED
      BY <1>13, <3>1, FailFacts
  <2>2. << >> \in Seq(ControlMsgs)
    BY EmptySeq
  <2>3. Sent(p, q, "control", "control", << >>)
    BY <1>1, <1>9, <1>13, QuietFacts, ChannelTypes DEF Sent
  <2> QED
    BY <1>8, <2>1, <2>2, <2>3
<1> QED
  BY <1>2, <1>5, <1>6, <1>10, <1>11, <1>12, <1>13 DEF ReceiveRequest

(* received_verified_subspace_cap_reply.                                   *)
LEMMA ReceiveSubspaceCapStep ==
    ASSUME PaiInv, NEW p \in Peers, ReceiveSubspaceCap(p)
    PROVE  PaiInv'
<1> USE DEF PaiInv
<1>1. PICK q \in Peers : q = Other(p) /\ Peers = {p, q} /\ q # p /\ p = Other(q)
  BY OtherFacts
<1>2. PICK msgs : msgs = chan[p]["control"]
  OBVIOUS
<1>3. Arrived(p, "control", "PaiReplySubspaceCapability") /\ Deliver(p, "control", NoSends)
  BY DEF ReceiveSubspaceCap
<1>4. /\ msgs # << >> /\ Head(msgs).type = "PaiReplySubspaceCapability"
      /\ Head(msgs) \in ControlMsgs /\ Tail(msgs) \in Seq(ControlMsgs)
  BY <1>2, <1>3, ControlHead
<1>5. PICK handle \in Nat : handle = Head(msgs).handle
  BY <1>4 DEF ControlMsgs, Reveal
<1>6. revealed[p] = TRUE
  BY <1>2, <1>4, EstablishedFirst
<1>7. /\ chan'[p]["intersection"] = chan[p]["intersection"]
      /\ chan'[p]["control"] = Tail(msgs)
      /\ chan'[p]["capability"] = chan[p]["capability"]
      /\ chan'[q]["intersection"] = chan[q]["intersection"]
      /\ chan'[q]["control"] = chan[q]["control"]
      /\ chan'[q]["capability"] = chan[q]["capability"]
  BY <1>1, <1>2, <1>3, QuietFacts DEF Took, Channels
<1>8. \A r \in Peers : /\ chan'[r]["intersection"] \in Seq(IntersectionMsgs)
                       /\ chan'[r]["control"] \in Seq(ControlMsgs)
                       /\ chan'[r]["capability"] \in Seq(CapabilityMsgs)
  BY <1>1, <1>4, <1>7 DEF PaiTypes
<1>9. CASE /\ handle \in requested[p]
           /\ requested' = [requested EXCEPT ![p] = @ \ {handle}]
           /\ Report(p, << NewIntersection(handle, ours[p][handle].auth) >>)
           /\ UNCHANGED << submitted, pending, revealed, ours, theirs, asked, found,
                           bound, failed >>
  <2>1. /\ requested' \in [Peers -> SUBSET Nat]
        /\ \A r \in Peers : requested'[r] \subseteq DOMAIN ours'[r]
    BY <1>9 DEF PaiTypes
  <2>2. PICK new : new = NewIntersection(handle, ours[p][handle].auth)
    OBVIOUS
  <2>3. new \in Intersections
    <3>1. handle \in DOMAIN ours[p] /\ ours[p] \in Seq(Infos)
      BY <1>9 DEF PaiTypes
    <3>2. ours[p][handle] \in Infos
      BY <3>1, InfoFields
    <3>3. ours[p][handle].auth \in AllAuths
      BY <3>2 DEF Infos
    <3> QED
      BY <2>2, <3>3 DEF NewIntersection, Intersections
  <2>4. inbox' \in [Peers -> Seq(Intersections)]
    <3>1. inbox \in [Peers -> Seq(Intersections)]
      BY DEF PaiTypes
    <3>2. inbox[p] \o << new >> \in Seq(Intersections)
      BY <2>3, <3>1
    <3> QED
      BY <1>9, <2>2, <3>1, <3>2 DEF Report
  <2>5. PaiTypes'
    BY <1>8, <1>9, <2>1, <2>4 DEF PaiTypes
  <2>6. HandlesAgree' /\ Answered' /\ Paired'
    BY <1>1, <1>7, <1>9, TablesKept
  <2>7. Capable'
    BY <1>1, <1>7, <1>9 DEF Capable
  <2>8. Silent'
    <3>1. requested[p] # {}
      BY <1>9
    <3>2. revealed[q] = TRUE
      BY <3>1, EstablishedFirst
    <3> QED
      BY <1>1, <1>6, <1>9, <3>2 DEF Silent
  <2> QED
    BY <1>9, <2>5, <2>6, <2>7, <2>8 DEF NothingBeforeTheReveal
<1>10. CASE \E why \in ErrorKinds : Fail(p, why, handle)
  <2>1. /\ failed' \in [Peers -> Seq(Errors)] /\ NothingBeforeTheReveal'
        /\ UNCHANGED << pending, revealed, ours, theirs, requested, found, inbox, bound >>
    BY <1>10, FailFacts
  <2>2. PaiTypes'
    BY <1>8, <2>1 DEF PaiTypes
  <2>3. HandlesAgree' /\ Answered' /\ Paired'
    BY <1>1, <1>7, <2>1, TablesKept
  <2>4. Capable'
    BY <1>1, <1>7, <2>1 DEF Capable
  <2>5. Silent'
    BY <1>1, <1>6, <1>7, <2>1 DEF Silent
  <2> QED
    BY <2>1, <2>2, <2>3, <2>4, <2>5
<1>11. \/ Fail(p, "SubspaceCapRequestForInvalidHandle", handle)
       \/ Fail(p, "SubspaceCapRequestForWrongNamespace", handle)
       \/ /\ handle \in requested[p]
          /\ requested' = [requested EXCEPT ![p] = @ \ {handle}]
          /\ Report(p, << NewIntersection(handle, ours[p][handle].auth) >>)
          /\ UNCHANGED << submitted, pending, revealed, ours, theirs, asked, found,
                          bound, failed >>
  BY <1>2, <1>5 DEF ReceiveSubspaceCap
<1>12. /\ "SubspaceCapRequestForInvalidHandle" \in ErrorKinds
       /\ "SubspaceCapRequestForWrongNamespace" \in ErrorKinds
  BY DEF ErrorKinds
<1> QED
  BY <1>9, <1>10, <1>11, <1>12


(* on_pai_intersection: the capability sent was not bound before.          *)
LEMMA OnPaiIntersectionStep ==
    ASSUME PaiInv, NEW p \in Peers, OnPaiIntersection(p)
    PROVE  PaiInv'
<1> USE DEF PaiInv
<1>1. PICK q \in Peers : q = Other(p) /\ Peers = {p, q} /\ q # p /\ p = Other(q)
  BY OtherFacts
<1>2. inbox \in [Peers -> Seq(Intersections)] /\ inbox[p] # << >>
  BY DEF OnPaiIntersection, PaiTypes
<1>3. PICK i \in Intersections : i = Head(inbox[p])
  BY <1>2, TailFacts
<1>4. i.handle \in Nat /\ i.auth \in AllAuths
  BY DEF Intersections
<1>5. Tail(inbox[p]) \in Seq(Intersections)
  BY <1>2, TailFacts
<1>6. revealed[p] = TRUE /\ revealed[q] = TRUE
  BY <1>2, EstablishedFirst
<1>7. CASE /\ inbox' = [inbox EXCEPT ![p] = Tail(@)]
           /\ UNCHANGED << submitted, pending, revealed, ours, theirs, requested, asked, found,
                           bound, chan, failed >>
  <2>1. inbox' \in [Peers -> Seq(Intersections)]
    BY <1>2, <1>5, <1>7
  <2>2. PaiTypes'
    BY <1>7, <2>1 DEF PaiTypes
  <2>3. HandlesAgree' /\ Answered' /\ Paired'
    BY <1>7, TablesKept
  <2>4. Capable' /\ NothingBeforeTheReveal'
    BY <1>7 DEF Capable, NothingBeforeTheReveal
  <2>5. Silent'
    BY <1>1, <1>6, <1>7 DEF Silent
  <2> QED
    BY <2>2, <2>3, <2>4, <2>5
<1>8. CASE /\ i.auth \notin bound[p]
           /\ inbox' = [inbox EXCEPT ![p] = Tail(@)]
           /\ bound' = [bound EXCEPT ![p] = @ \cup {i.auth}]
           /\ Deliver(p, "none", [NoSends EXCEPT !["capability"] = << ReadCap(i.handle, i.auth) >>])
           /\ UNCHANGED << submitted, pending, revealed, ours, theirs, requested, asked, found,
                           failed >>
  <2>1. inbox' \in [Peers -> Seq(Intersections)]
    BY <1>2, <1>5, <1>8
  <2>2. bound' \in [Peers -> SUBSET AllAuths] /\ bound'[p] = bound[p] \cup {i.auth} /\ bound'[q] = bound[q]
    BY <1>1, <1>4, <1>8 DEF PaiTypes
  <2>3. PICK m \in CapabilityMsgs : m = ReadCap(i.handle, i.auth) /\ m.auth = i.auth
    <3>1. ReadCap(i.handle, i.auth) \in CapabilityMsgs
      BY <1>4 DEF CapabilityMsgs, ReadCap
    <3>2. ReadCap(i.handle, i.auth).auth = i.auth
      BY DEF ReadCap
    <3> QED
      BY <3>1, <3>2
  <2>4. "capability" \in Channels
    BY DEF Channels
  <2>5. Sent(p, q, "none", "capability", << m >>)
    BY <1>1, <1>8, <2>3, <2>4, SendFacts
  <2>6. /\ chan'[p]["intersection"] = chan[p]["intersection"]
        /\ chan'[p]["control"] = chan[p]["control"]
        /\ chan'[p]["capability"] = chan[p]["capability"]
        /\ chan'[q]["intersection"] = chan[q]["intersection"]
        /\ chan'[q]["control"] = chan[q]["control"]
        /\ chan'[q]["capability"] = chan[q]["capability"] \o << m >>
    BY <2>5 DEF Sent, Took, Channels
  <2>7. chan[q]["capability"] \in Seq(CapabilityMsgs)
    BY DEF PaiTypes
  <2>8. chan[q]["capability"] \o << m >> \in Seq(CapabilityMsgs)
    BY <2>7
  <2>9. \A r \in Peers : /\ chan'[r]["intersection"] \in Seq(IntersectionMsgs)
                         /\ chan'[r]["control"] \in Seq(ControlMsgs)
                         /\ chan'[r]["capability"] \in Seq(CapabilityMsgs)
    BY <1>1, <2>6, <2>8 DEF PaiTypes
  <2>10. PaiTypes'
    BY <1>8, <2>1, <2>2, <2>9 DEF PaiTypes
  <2>11. HandlesAgree' /\ Answered' /\ Paired'
    BY <1>1, <1>8, <2>6, TablesKept
  <2>12. Capable'
    <3>1. CapsFit(chan[p]["capability"], bound[q]) /\ CapsFit(chan[q]["capability"], bound[p])
      BY <1>1 DEF Capable
    <3>2. CapsFit(chan[q]["capability"] \o << m >>, bound[p] \cup {m.auth})
      BY <1>8, <2>3, <2>7, <3>1, CapsWithOne
    <3>3. CapsFit(chan'[q]["capability"], bound'[p])
      BY <2>2, <2>3, <2>6, <3>2
    <3>4. CapsFit(chan'[p]["capability"], bound'[q])
      BY <2>2, <2>6, <3>1
    <3> QED
      BY <1>1, <3>3, <3>4 DEF Capable
  <2>13. Silent'
    BY <1>1, <1>6, <1>8 DEF Silent
  <2>14. NothingBeforeTheReveal'
    BY <1>8 DEF NothingBeforeTheReveal
  <2> QED
    BY <2>10, <2>11, <2>12, <2>13, <2>14
<1> QED
  BY <1>3, <1>6, <1>7, <1>8 DEF OnPaiIntersection

-----------------------------------------------------------------------------
(* Nothing is bound, and the reveals are on their way.                     *)
LEMMA PaiInitially == PaiInit => PaiInv
<1> SUFFICES ASSUME PaiInit PROVE PaiInv
  OBVIOUS
<1> USE DEF PaiInit
<1>1. \A p \in Peers : /\ chan[p]["intersection"] = << >> /\ chan[p]["capability"] = << >>
                       /\ chan[p]["control"] = << Reveal >>
  BY DEF Channels
<1>2. \A p \in Peers : /\ ours[p] = << >> /\ theirs[p] = << >> /\ found[p] = << >>
                       /\ inbox[p] = << >> /\ requested[p] = {} /\ failed[p] = << >>
                       /\ revealed[p] = FALSE /\ pending[p] = {}
  OBVIOUS
<1>4. \A p \in Peers : Other(p) \in Peers
  BY OtherFacts
<1>5. PaiTypes
  <2>1. \A S : << >> \in Seq(S)
    BY EmptySeq
  <2>2. << Reveal >> \in Seq(ControlMsgs)
    <3>1. Reveal \in ControlMsgs
      BY DEF ControlMsgs
    <3> QED
      BY <3>1
  <2>3. \A p \in Peers : IsFiniteSet(pending[p])
    BY <1>2, FS_EmptySet
  <2>4. \A p \in Peers : requested[p] \subseteq DOMAIN ours[p]
    BY <1>2
  <2>5. /\ pending \in [Peers -> SUBSET AllAuths] /\ requested \in [Peers -> SUBSET Nat]
        /\ bound \in [Peers -> SUBSET AllAuths] /\ revealed \in [Peers -> BOOLEAN]
    OBVIOUS
  <2>6. /\ ours \in [Peers -> Seq(Infos)] /\ theirs \in [Peers -> Seq(States)]
        /\ found \in [Peers -> Seq(Nat \X Nat)] /\ inbox \in [Peers -> Seq(Intersections)]
        /\ failed \in [Peers -> Seq(Errors)]
    BY <2>1
  <2> QED
    BY <1>1, <2>1, <2>2, <2>3, <2>4, <2>5, <2>6 DEF PaiTypes
<1>6. HandlesAgree
  <2>1. PICK e : e = << >> /\ Binds(e) = {} /\ DOMAIN e = {} /\ Len(e) = 0 /\ Cardinality({}) = 0
    BY FS_EmptySet DEF Binds
  <2>2. Len(e) = Len(e) + Cardinality(Binds(e))
    <3>1. Cardinality(Binds(e)) = 0
      BY <2>1, Zenon
    <3> QED
      BY <2>1, <3>1
  <2>3. TablesAgree(e, e, e)
    BY <2>1, <2>2, AgreeBy
  <2>4. \A p \in Peers : TablesAgree(theirs[p], chan[p]["intersection"], ours[Other(p)])
    BY <1>1, <1>2, <1>4, <2>1, <2>3
  <2> QED
    BY <2>4 DEF HandlesAgree
<1>7. Answered /\ Paired /\ Capable
  <2>1. RepliesFit(<< >>, << >>, << >>) /\ PairsFit(<< >>, << >>, << >>)
    BY DEF RepliesFit, Replies, PairsFit
  <2>2. \A S : CapsFit(<< >>, S)
    BY DEF CapsFit
  <2> QED
    BY <1>1, <1>2, <1>4, <2>1, <2>2 DEF Answered, Paired, Capable
<1>8. Silent
  <2>1. << Reveal >> # << >> /\ Head(<< Reveal >>).type = "CommitmentReveal"
    BY DEF Reveal
  <2> QED
    BY <1>1, <1>2, <2>1 DEF Silent, Unrevealed
<1>9. NothingBeforeTheReveal
  BY <1>2 DEF NothingBeforeTheReveal
<1> QED
  BY <1>5, <1>6, <1>7, <1>8, <1>9 DEF PaiInv

(* Every step of either peer keeps the invariant.                          *)
LEMMA PaiStep == PaiInv /\ [PaiNext]_paiVars => PaiInv'
<1> SUFFICES ASSUME PaiInv, [PaiNext]_paiVars PROVE PaiInv'
  OBVIOUS
<1>1. CASE PaiNext
  <2>1. PICK p \in Peers : Step(p)
    BY <1>1 DEF PaiNext
  <2> QED
    BY <2>1, SubmitAuthorisationStep, ReceiveRevealStep, ReceiveBindStep, ReceiveReplyStep,
       ReceiveReadCapStep, ReceiveRequestStep, ReceiveSubspaceCapStep, OnPaiIntersectionStep
       DEF Step
<1>2. CASE UNCHANGED paiVars
  <2>1. UNCHANGED << ours, theirs, found >> /\ UNCHANGED chan
    BY <1>2 DEF paiVars
  <2>2. HandlesAgree' /\ Answered' /\ Paired'
    BY <2>1, TablesKept DEF PaiInv
  <2> QED
    BY <1>2, <2>2 DEF paiVars, PaiInv, PaiTypes, Capable, Silent, NothingBeforeTheReveal
<1> QED
  BY <1>1, <1>2

(* The handle tables, the replies, the reported pairs, the capabilities on *)
(* their way and the silence before the reveal hold together: the          *)
(* strengthening of HandlesAgree, NothingBeforeTheReveal and EachOnce.     *)
THEOREM PaiInvariant == PaiSpec => []PaiInv
BY PaiInitially, PaiStep, PTL DEF PaiSpec

(* A handle means the same fragment to both peers, whatever authorisations *)
(* they have and however the channels interleave (ResourceMap::bind and    *)
(* receive_bind number the fragments without ever sending a number).       *)
THEOREM HandlesMeanTheSame == PaiSpec => []HandlesAgree
<1>1. PaiInv => HandlesAgree
  BY DEF PaiInv
<1> QED
  BY <1>1, PaiInvariant, PTL

(* No session stops with InvalidMessageInCurrentState: a peer that waits   *)
(* for Established before it binds a fragment never gets or sends anything *)
(* that needs the challenge before the reveal.                             *)
THEOREM RevealComesFirst == PaiSpec => []NothingBeforeTheReveal
<1>1. PaiInv => NothingBeforeTheReveal
  BY DEF PaiInv
<1> QED
  BY <1>1, PaiInvariant, PTL

(* check_for_intersection reports a pair of fragments once, whether the    *)
(* peer's bind or its reply comes last, and on_pai_intersection sends a    *)
(* capability once.                                                        *)
THEOREM NothingTwice == PaiSpec => []EachOnce
<1>1. PaiInv => EachOnce
  <2> SUFFICES ASSUME PaiInv PROVE EachOnce
    OBVIOUS
  <2>1. EachPairOnce
    BY DEF PaiInv, Paired, PairsFit, EachPairOnce, IsInjective
  <2>2. EachCapOnce
    <3> SUFFICES ASSUME NEW p \in Peers
                 PROVE  IsInjective([i \in DOMAIN chan[p].capability |-> chan[p].capability[i].auth])
      BY DEF EachCapOnce
    <3>1. CapsFit(chan[p]["capability"], bound[Other(p)])
      BY DEF PaiInv, Capable
    <3> QED
      BY <3>1 DEF CapsFit, IsInjective
  <2> QED
    BY <2>1, <2>2 DEF EachOnce
<1> QED
  BY <1>1, PaiInvariant, PTL

=============================================================================
