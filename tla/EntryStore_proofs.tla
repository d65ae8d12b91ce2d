-------------------------- MODULE EntryStore_proofs --------------------------
(***************************************************************************)
(* The in-memory store and its event streams, for every set of entries,    *)
(* origins and subscribers.                                                *)
(***************************************************************************)
EXTENDS EntryStore, WellFoundedInduction, TLAPS

(* A set of naturals that is not empty has a least element.                *)
LEMMA LeastNatural ==
    ASSUME NEW T, T \subseteq Nat, T # {}
    PROVE  \E x \in T : \A y \in T : x <= y
<1>1. PICK x \in T : \A y \in T : ~ (<< y, x >> \in OpToRel(<, Nat))
  BY NatLessThanWellFounded, WFMin
<1>2. ASSUME NEW y \in T PROVE x <= y
  <2>1. x \in Nat /\ y \in Nat
    OBVIOUS
  <2>2. ~ (y < x)
    BY <1>1, <2>1 DEF OpToRel
  <2> QED
    BY <2>1, <2>2
<1> QED
  BY <1>2

(* Induction over the naturals, for a set of them.                         *)
LEMMA NatSetInduction ==
    ASSUME NEW S, 0 \in S, \A k \in Nat : k \in S => k + 1 \in S
    PROVE  Nat \subseteq S
<1> SUFFICES ASSUME ~ (Nat \subseteq S) PROVE FALSE
  OBVIOUS
<1> DEFINE T == Nat \ S
<1>1. PICK x \in T : \A y \in T : x <= y
  <2>1. T \subseteq Nat /\ T # {}
    OBVIOUS
  <2> HIDE DEF T
  <2> QED
    BY <2>1, LeastNatural
<1>2. x \in Nat /\ x # 0 /\ x \notin S
  OBVIOUS
<1>3. x - 1 \in Nat /\ ~ (x <= x - 1) /\ (x - 1) + 1 = x
  BY <1>2
<1>4. x - 1 \in S
  BY <1>1, <1>3
<1> QED
  BY <1>2, <1>3, <1>4


(* Vec::remove.                                                            *)
LEMMA RemoveAtFields ==
    ASSUME NEW S, NEW s \in Seq(S), NEW i \in 1..Len(s)
    PROVE  /\ RemoveAt(s, i) \in Seq(S)
           /\ Len(RemoveAt(s, i)) = Len(s) - 1
           /\ \A k \in 1..(Len(s) - 1) : RemoveAt(s, i)[k] = IF k < i THEN s[k] ELSE s[k + 1]
<1> DEFINE a == SubSeq(s, 1, i - 1)
           b == SubSeq(s, i + 1, Len(s))
<1>1. a \in Seq(S) /\ Len(a) = i - 1 /\ \A k \in 1..(i - 1) : a[k] = s[k]
  OBVIOUS
<1>2. b \in Seq(S) /\ Len(b) = Len(s) - i /\ \A k \in 1..(Len(s) - i) : b[k] = s[i + k]
  OBVIOUS
<1>3. RemoveAt(s, i) = a \o b
  BY DEF RemoveAt
<1> HIDE DEF a, b
<1>4. a \o b \in Seq(S) /\ Len(a \o b) = Len(s) - 1
  <2>1. a \in Seq(S) /\ b \in Seq(S)
    BY <1>1, <1>2
  <2>2. a \o b \in Seq(S)
    BY <2>1
  <2>3. Len(a \o b) = Len(a) + Len(b)
    BY ONLY <2>1
  <2> QED
    BY <1>1, <1>2, <2>2, <2>3
<1>5. ASSUME NEW k \in 1..(Len(s) - 1) PROVE (a \o b)[k] = IF k < i THEN s[k] ELSE s[k + 1]
  <2>1. (a \o b)[k] = IF k <= Len(a) THEN a[k] ELSE b[k - Len(a)]
    BY <1>1, <1>2
  <2>2. CASE k < i
    BY <1>1, <2>1, <2>2
  <2>3. CASE ~ (k < i)
    <3>1. k - Len(a) \in 1..(Len(s) - i) /\ i + (k - Len(a)) = k + 1 /\ ~ (k <= Len(a))
      BY <1>1, <2>3
    <3> QED
      BY <1>2, <2>1, <2>3, <3>1
  <2> QED
    BY <2>2, <2>3
<1> QED
  BY <1>3, <1>4, <1>5

(* The entries of a Vec are different from one another.                    *)
Distinct(s) == \A j, k \in DOMAIN s : s[j] = s[k] => j = k

(* Removing from a Vec of different entries removes just that entry.       *)
LEMMA RemoveAtRange ==
    ASSUME NEW S, NEW s \in Seq(S), Distinct(s), NEW i \in 1..Len(s)
    PROVE  Distinct(RemoveAt(s, i)) /\ Range(RemoveAt(s, i)) = Range(s) \ {s[i]}
<1> DEFINE r == RemoveAt(s, i)
           at(k) == IF k < i THEN k ELSE k + 1
<1>1. r \in Seq(S) /\ DOMAIN r = 1..(Len(s) - 1) /\ DOMAIN s = 1..Len(s)
  BY RemoveAtFields
<1>2. \A k \in DOMAIN r : r[k] = s[at(k)] /\ at(k) \in DOMAIN s /\ at(k) # i
  <2>1. \A k \in DOMAIN r : r[k] = IF k < i THEN s[k] ELSE s[k + 1]
    BY <1>1, RemoveAtFields
  <2> HIDE DEF r
  <2> QED
    BY <1>1, <2>1
<1> HIDE DEF r
<1>3. Distinct(r)
  <2> SUFFICES ASSUME NEW j \in DOMAIN r, NEW k \in DOMAIN r, r[j] = r[k] PROVE j = k
    BY DEF Distinct
  <2>1. at(j) = at(k)
    BY <1>2 DEF Distinct
  <2> QED
    BY <1>1, <2>1
<1>4. Range(r) \subseteq Range(s) \ {s[i]}
  BY <1>1, <1>2 DEF Range, Distinct
<1>5. ASSUME NEW k \in DOMAIN s, s[k] # s[i] PROVE s[k] \in Range(r)
  <2>1. CASE k < i
    <3>1. k \in DOMAIN r /\ at(k) = k
      BY <1>1, <2>1
    <3> QED
      BY <1>2, <3>1 DEF Range
  <2>2. CASE k > i
    <3>1. k - 1 \in DOMAIN r /\ at(k - 1) = k
      BY <1>1, <2>2
    <3> QED
      BY <1>2, <3>1 DEF Range
  <2> QED
    BY <1>1, <1>5, <2>1, <2>2
<1> QED
  BY <1>3, <1>4, <1>5 DEF Range, r

-----------------------------------------------------------------------------
(* The event log.                                                          *)

(* What a subscriber that follows the log from the start has.              *)
Held(evs) ==
    { e \in Writes :
        \E i \in DOMAIN evs :
            /\ evs[i].kind = "Ingested" /\ evs[i].entry = e
            /\ \A j \in i + 1..Len(evs) : evs[j].entry # e }

(* A log that was only appended to.                                        *)
Grows(evs, more) ==
    Len(evs) <= Len(more) /\ \A i \in 1..Len(evs) : more[i] = evs[i]

(* An event changes the copy as it changed the store.                      *)
LEMMA HeldAfter ==
    ASSUME NEW evs \in Seq(Event), NEW ev \in Event
    PROVE  Held(Append(evs, ev)) = IF ev.kind = "Ingested" THEN Held(evs) \cup {ev.entry}
                                   ELSE Held(evs) \ {ev.entry}
<1> DEFINE n == Len(evs) + 1
           more == Append(evs, ev)
<1>1. /\ n \in Nat /\ DOMAIN evs = 1..(n - 1) /\ DOMAIN more = 1..n /\ Len(more) = n
      /\ more[n] = ev /\ \A i \in 1..(n - 1) : more[i] = evs[i]
  OBVIOUS
<1>2. ev.entry \in Writes /\ ev.kind \in {"Ingested", "Pruned"}
  BY DEF Event
<1> HIDE DEF more
<1>3. ASSUME NEW e \in Held(more), e # ev.entry PROVE e \in Held(evs)
  <2>1. PICK i \in 1..n : /\ more[i].kind = "Ingested" /\ more[i].entry = e
                          /\ \A j \in i + 1..n : more[j].entry # e
    BY <1>1, <1>3 DEF Held
  <2>2. i \in 1..(n - 1)
    BY <1>1, <1>3, <2>1
  <2>3. \A j \in i + 1..(n - 1) : evs[j].entry # e
    BY <1>1, <2>1, <2>2
  <2> QED
    BY <1>1, <1>3, <2>1, <2>2, <2>3 DEF Held
<1>4. ASSUME NEW e \in Held(evs), e # ev.entry PROVE e \in Held(more)
  <2>1. PICK i \in 1..(n - 1) : /\ evs[i].kind = "Ingested" /\ evs[i].entry = e
                                /\ \A j \in i + 1..(n - 1) : evs[j].entry # e
    BY <1>1, <1>4 DEF Held
  <2>2. \A j \in i + 1..n : more[j].entry # e
    BY <1>1, <1>4, <2>1
  <2> QED
    BY <1>1, <1>4, <2>1, <2>2 DEF Held
<1>5. ev.kind = "Ingested" => ev.entry \in Held(more)
  BY <1>1, <1>2 DEF Held
<1>6. ev.kind # "Ingested" => ev.entry \notin Held(more)
  <2> SUFFICES ASSUME ev.kind # "Ingested", ev.entry \in Held(more) PROVE FALSE
    OBVIOUS
  <2>1. PICK i \in 1..n : /\ more[i].kind = "Ingested" /\ more[i].entry = ev.entry
                          /\ \A j \in i + 1..n : more[j].entry # ev.entry
    BY <1>1 DEF Held
  <2>2. i \in 1..(n - 1)
    BY <1>1, <2>1
  <2> QED
    BY <1>1, <2>1, <2>2
<1> QED
  BY <1>3, <1>4, <1>5, <1>6 DEF more

-----------------------------------------------------------------------------
(* The loop of ingest_entry that removes what the new entry prunes.        *)

(* What it starts with.                                                    *)
Before(es, evs) == [entries |-> es, events |-> evs, panic |-> FALSE]

(* The loop is what its recursion says.                                    *)
LEMMA PruneLoopSteps ==
    ASSUME NEW es, NEW evs, NEW new, Len(es) \in Nat
    PROVE  PruneLoop(es, evs, new) =
             [k \in 0..Len(es) |->
                IF k = 0 THEN Before(es, evs)
                ELSE IF k \in to_prune(es, new) THEN RemoveNext(PruneLoop(es, evs, new)[k - 1], k, new)
                     ELSE PruneLoop(es, evs, new)[k - 1]]
<1> DEFINE Step(k, acc) == IF k \in to_prune(es, new) THEN RemoveNext(acc, k, new) ELSE acc
           Steps(f, n) == f = [k \in 0..n |-> IF k = 0 THEN Before(es, evs) ELSE Step(k, f[k - 1])]
           S == { n \in Nat : \E f : Steps(f, n) }
<1> HIDE DEF Step
<1>1. 0 \in S
  <2> DEFINE f == [k \in 0..0 |-> Before(es, evs)]
  <2>1. Steps(f, 0)
    OBVIOUS
  <2> QED
    BY <2>1
<1>2. ASSUME NEW n \in Nat, n \in S PROVE n + 1 \in S
  <2>1. PICK f : Steps(f, n)
    BY <1>2
  <2> DEFINE g == [k \in 0..(n + 1) |-> IF k <= n THEN f[k] ELSE Step(n + 1, f[n])]
  <2>2. ASSUME NEW k \in 0..(n + 1)
        PROVE  g[k] = IF k = 0 THEN Before(es, evs) ELSE Step(k, g[k - 1])
    <3>1. CASE k = 0
      BY <2>1, <3>1
    <3>2. CASE k \in 1..n
      <4>1. g[k] = f[k] /\ g[k - 1] = f[k - 1] /\ k \in 0..n
        BY <3>2
      <4>2. f[k] = IF k = 0 THEN Before(es, evs) ELSE Step(k, f[k - 1])
        BY <2>1, <4>1
      <4> QED
        BY <4>1, <4>2
    <3>3. CASE k = n + 1
      BY <3>3
    <3> QED
      BY <3>1, <3>2, <3>3
  <2>3. Steps(g, n + 1)
    BY <2>2
  <2>4. \E h : Steps(h, n + 1)
    <3> HIDE DEF Steps, g
    <3> QED
      BY <2>3
  <2> QED
    BY <2>4
<1>3. Len(es) \in S
  <2> HIDE DEF S
  <2> QED
    BY <1>1, <1>2, NatSetInduction
<1>4. PICK f : Steps(f, Len(es))
  BY <1>3
<1>5. PruneLoop(es, evs, new) = CHOOSE done : Steps(done, Len(es))
  BY DEF PruneLoop, Step, Before
<1>6. Steps(PruneLoop(es, evs, new), Len(es))
  <2> HIDE DEF Steps
  <2> QED
    BY <1>4, <1>5
<1> QED
  BY <1>6 DEF Step

(* The log and the Vec agree, and only what was there is left.             *)
Agree(es, evs, acc) ==
    /\ acc \in [entries: Seq(Writes), events: Seq(Event), panic: BOOLEAN]
    /\ Distinct(acc.entries) /\ Held(acc.events) = Range(acc.entries)
    /\ Range(acc.entries) \subseteq Range(es) /\ Grows(evs, acc.events)

(* One removal, of whatever is at the position by now.                     *)
LEMMA RemoveNextKeeps ==
    ASSUME NEW es, NEW evs, Len(evs) \in Nat, NEW acc, Agree(es, evs, acc),
           NEW i \in Nat \ {0}, NEW new \in Writes
    PROVE  Agree(es, evs, RemoveNext(acc, i, new))
<1>1. acc \in [entries: Seq(Writes), events: Seq(Event), panic: BOOLEAN]
  BY DEF Agree
<1>2. CASE acc.panic \/ i > Len(acc.entries)
  <2>1. RemoveNext(acc, i, new) = [acc EXCEPT !.panic = TRUE]
    BY <1>2 DEF RemoveNext
  <2> DEFINE r == [acc EXCEPT !.panic = TRUE]
  <2>2. /\ r \in [entries: Seq(Writes), events: Seq(Event), panic: BOOLEAN]
        /\ r.entries = acc.entries /\ r.events = acc.events
    BY <1>1
  <2> HIDE DEF r
  <2> QED
    BY <2>1, <2>2 DEF Agree, r
<1>3. CASE ~ (acc.panic \/ i > Len(acc.entries))
  <2> DEFINE r  == RemoveNext(acc, i, new)
             ev == Pruned(acc.entries[i], new)
  <2>1. i \in 1..Len(acc.entries)
    BY <1>1, <1>3
  <2>2. ev \in Event /\ ev.kind = "Pruned" /\ ev.entry = acc.entries[i]
    BY <1>1, <2>1 DEF Pruned, Event
  <2>3. r = [entries |-> RemoveAt(acc.entries, i), events |-> Append(acc.events, ev), panic |-> FALSE]
    BY <1>3 DEF RemoveNext
  <2> HIDE DEF r, ev
  <2>4. /\ r.entries = RemoveAt(acc.entries, i) /\ r.events = Append(acc.events, ev)
        /\ r.panic = FALSE
    BY <2>3
  <2>5. r \in [entries: Seq(Writes), events: Seq(Event), panic: BOOLEAN]
    <3>1. RemoveAt(acc.entries, i) \in Seq(Writes)
      BY <1>1, <2>1, RemoveAtFields
    <3>2. Append(acc.events, ev) \in Seq(Event)
      BY <1>1, <2>2
    <3> QED
      BY <2>3, <3>1, <3>2
  <2>6. Distinct(r.entries) /\ Range(r.entries) = Range(acc.entries) \ {acc.entries[i]}
    BY <1>1, <2>1, <2>4, RemoveAtRange DEF Agree
  <2>7. Held(r.events) = Held(acc.events) \ {acc.entries[i]}
    BY <1>1, <2>2, <2>4, HeldAfter
  <2>8. Grows(evs, r.events)
    <3>1. Grows(evs, acc.events)
      BY DEF Agree
    <3>2. /\ Len(r.events) = Len(acc.events) + 1
          /\ \A k \in 1..Len(acc.events) : r.events[k] = acc.events[k]
          /\ Len(acc.events) \in Nat
      BY <1>1, <2>2, <2>4
    <3> QED
      BY <3>1, <3>2 DEF Grows
  <2> QED
    BY <2>5, <2>6, <2>7, <2>8 DEF Agree, r
<1> QED
  BY <1>2, <1>3

(* The whole loop.                                                         *)
LEMMA PruneAllKeeps ==
    ASSUME NEW es \in Seq(Writes), NEW evs \in Seq(Event), NEW new \in Writes,
           Distinct(es), Held(evs) = Range(es)
    PROVE  Agree(es, evs, PruneAll(es, evs, new))
<1> DEFINE P == PruneLoop(es, evs, new)
           S == { k \in Nat : k <= Len(es) => Agree(es, evs, P[k]) }
<1>1. \A k \in 0..Len(es) :
         P[k] = IF k = 0 THEN Before(es, evs)
                ELSE IF k \in to_prune(es, new) THEN RemoveNext(P[k - 1], k, new) ELSE P[k - 1]
  BY PruneLoopSteps
<1> HIDE DEF P
<1>2. 0 \in S
  <2>1. P[0] = Before(es, evs)
    BY <1>1
  <2>2. Agree(es, evs, Before(es, evs))
    BY DEF Before, Agree, Grows
  <2> QED
    BY <2>1, <2>2
<1>3. ASSUME NEW k \in Nat, k \in S PROVE k + 1 \in S
  <2> SUFFICES ASSUME k + 1 <= Len(es) PROVE Agree(es, evs, P[k + 1])
    OBVIOUS
  <2>1. Agree(es, evs, P[k])
    BY <1>3
  <2>2. P[k + 1] = IF k + 1 \in to_prune(es, new) THEN RemoveNext(P[k], k + 1, new) ELSE P[k]
    <3>1. k + 1 \in 0..Len(es) /\ k + 1 # 0 /\ (k + 1) - 1 = k
      OBVIOUS
    <3> QED
      BY <1>1, <3>1
  <2>3. Agree(es, evs, RemoveNext(P[k], k + 1, new))
    BY <2>1, RemoveNextKeeps
  <2> QED
    BY <2>1, <2>2, <2>3
<1>4. Len(es) \in S
  <2> HIDE DEF S
  <2> QED
    BY <1>2, <1>3, NatSetInduction
<1> QED
  BY <1>4 DEF PruneAll, P

-----------------------------------------------------------------------------
(* The inductive invariant.  What a stream delivered is a fact about a     *)
(* part of the log that no longer changes: it ends where the stream is,    *)
(* and that is never past the end of the log.                              *)
WithinLog ==
    \A s \in Streams : stream[s].start <= stream[s].next /\ stream[s].next <= Len(events)

Unopened == \A s \in Streams : stream[s].state = "closed" => got[s] = << >>

FollowInv ==
    /\ TypeOK
    /\ Distinct(entries) /\ Held(events) = Range(entries)
    /\ WithinLog /\ DeliversExactlyTheMatching /\ NoLostWakeup /\ Unopened

(* What a stream has delivered of a log.                                   *)
Delivered(evs, s, from, to) == { i \in from..(to - 1) : matches(evs[i + 1], Params[s]) }

(* A longer log does not change what was delivered.                        *)
LEMMA DeliveredStays ==
    ASSUME NEW evs, NEW more, Grows(evs, more), Len(evs) \in Nat, NEW s,
           NEW from \in Nat, NEW to \in Nat, to <= Len(evs)
    PROVE  Delivered(more, s, from, to) = Delivered(evs, s, from, to)
<1>1. \A i \in from..(to - 1) : more[i + 1] = evs[i + 1]
  BY DEF Grows
<1> QED
  BY <1>1 DEF Delivered

(* Waking changes no position and leaves nobody parked.                    *)
LEMMA WakeAllFields ==
    ASSUME NEW st \in [Streams -> StreamState]
    PROVE  /\ WakeAll(st) \in [Streams -> StreamState]
           /\ \A s \in Streams : /\ WakeAll(st)[s].start = st[s].start
                                 /\ WakeAll(st)[s].next = st[s].next
                                 /\ WakeAll(st)[s].state # "parked"
                                 /\ WakeAll(st)[s].state = "closed" => st[s].state = "closed"
<1>1. ASSUME NEW s \in Streams
      PROVE  /\ WakeAll(st)[s] \in StreamState
             /\ WakeAll(st)[s].start = st[s].start
             /\ WakeAll(st)[s].next = st[s].next
             /\ WakeAll(st)[s].state # "parked"
             /\ WakeAll(st)[s].state = "closed" => st[s].state = "closed"
  <2>1. WakeAll(st)[s] = IF st[s].state = "parked" THEN [st[s] EXCEPT !.state = "ready"] ELSE st[s]
    BY DEF WakeAll
  <2>2. st[s] \in StreamState
    OBVIOUS
  <2> QED
    BY <2>1, <2>2 DEF StreamState
<1>2. WakeAll(st) = [s \in Streams |-> WakeAll(st)[s]]
  BY DEF WakeAll
<1> QED
  BY <1>1, <1>2

(* The log grows and every parked stream is woken.                         *)
LEMMA WakingKeepsStreams ==
    ASSUME FollowInv, stream' = WakeAll(stream), got' = got, Grows(events, events'),
           Len(events') \in Nat
    PROVE  /\ stream' \in [Streams -> StreamState]
           /\ WithinLog' /\ DeliversExactlyTheMatching' /\ NoLostWakeup' /\ Unopened'
<1>1. /\ stream \in [Streams -> StreamState] /\ Len(events) \in Nat
      /\ \A s \in Streams : stream[s].start \in Nat /\ stream[s].next \in Nat
  BY DEF FollowInv, TypeOK, StreamState
<1>2. /\ stream' \in [Streams -> StreamState]
      /\ \A s \in Streams : /\ stream'[s].start = stream[s].start
                            /\ stream'[s].next = stream[s].next
                            /\ stream'[s].state # "parked"
                            /\ stream'[s].state = "closed" => stream[s].state = "closed"
  BY <1>1, WakeAllFields
<1>3. WithinLog'
  BY <1>1, <1>2 DEF FollowInv, WithinLog, Grows
<1>4. DeliversExactlyTheMatching'
  <2> SUFFICES ASSUME NEW s \in Streams
               PROVE  /\ \A j, k \in DOMAIN got[s] : j < k => got[s][j] < got[s][k]
                      /\ Range(got[s]) = Delivered(events', s, stream[s].start, stream[s].next)
    BY <1>2 DEF DeliversExactlyTheMatching, Delivered
  <2>1. stream[s].next <= Len(events)
    BY DEF FollowInv, WithinLog
  <2>2. Delivered(events', s, stream[s].start, stream[s].next)
            = Delivered(events, s, stream[s].start, stream[s].next)
    BY <1>1, <2>1, DeliveredStays
  <2> QED
    BY <2>2 DEF FollowInv, DeliversExactlyTheMatching, Delivered
<1>5. NoLostWakeup' /\ Unopened'
  BY <1>2 DEF FollowInv, NoLostWakeup, Unopened
<1> QED
  BY <1>2, <1>3, <1>4, <1>5

(* ingest_entry keeps Vec and log in agreement, even when it removes the   *)
(* wrong entries or panics half way, and wakes whoever has to see it.      *)
LEMMA IngestEntryKeeps ==
    ASSUME FollowInv, NEW new \in Writes, NEW origin \in Origins, IngestEntry(new, origin)
    PROVE  FollowInv'
<1>0. /\ entries \in Seq(Writes) /\ events \in Seq(Event) /\ got \in [Streams -> Seq(Nat)]
      /\ offered \subseteq Writes /\ alive \in BOOLEAN /\ panicked \in BOOLEAN
      /\ Distinct(entries) /\ Held(events) = Range(entries)
  BY DEF FollowInv, TypeOK
<1>1. CASE refused(entries, new)
  <2>1. /\ UNCHANGED << entries, events, stream, panicked, got, alive, shifted >>
        /\ offered' = offered \cup {new}
    BY <1>1 DEF IngestEntry
  <2> QED
    BY <2>1 DEF FollowInv, TypeOK, WithinLog, DeliversExactlyTheMatching, NoLostWakeup, Unopened
<1>2. CASE ~ refused(entries, new)
  <2> DEFINE done == PruneAll(entries, events, new)
             ev   == Ingested(new, origin)
  <2>1. Agree(entries, events, done)
    BY <1>0, PruneAllKeeps
  <2>2. /\ panicked' = done.panic /\ stream' = WakeAll(stream)
        /\ got' = got /\ alive' = alive /\ offered' = offered \cup {new} /\ shifted' \in BOOLEAN
        /\ \/ done.panic /\ entries' = done.entries /\ events' = done.events
           \/ /\ ~ done.panic /\ entries' = Append(done.entries, new)
              /\ events' = Append(done.events, ev)
    BY <1>2 DEF IngestEntry
  <2> HIDE DEF done, ev
  <2>3. /\ done.entries \in Seq(Writes) /\ done.events \in Seq(Event) /\ done.panic \in BOOLEAN
        /\ Distinct(done.entries) /\ Held(done.events) = Range(done.entries)
        /\ Range(done.entries) \subseteq Range(entries) /\ Grows(events, done.events)
    BY <2>1 DEF Agree
  <2>4. /\ entries' \in Seq(Writes) /\ events' \in Seq(Event)
        /\ Distinct(entries') /\ Held(events') = Range(entries') /\ Grows(events, events')
    <3>1. CASE done.panic
      BY <2>2, <2>3, <3>1
    <3>2. CASE ~ done.panic
      <4>1. entries' = Append(done.entries, new) /\ events' = Append(done.events, ev)
        BY <2>2, <3>2
      <4>2. ev \in Event /\ ev.kind = "Ingested" /\ ev.entry = new
        BY DEF ev, Ingested, Event
      <4>3. /\ Len(entries') = Len(done.entries) + 1 /\ entries'[Len(done.entries) + 1] = new
            /\ \A k \in 1..Len(done.entries) : entries'[k] = done.entries[k]
            /\ entries' \in Seq(Writes)
        BY <2>3, <4>1
      <4>4. new \notin Range(done.entries)
        BY <1>2, <2>3 DEF Range, refused
      <4>5. Range(entries') = Range(done.entries) \cup {new}
        BY <2>3, <4>3 DEF Range
      <4>6. Distinct(entries')
        <5>1. \A k \in 1..Len(done.entries) : done.entries[k] # new
          BY <2>3, <4>4 DEF Range
        <5> QED
          BY <2>3, <4>3, <5>1 DEF Distinct
      <4>7. Held(events') = Held(done.events) \cup {new}
        BY <2>3, <4>1, <4>2, HeldAfter
      <4>8. events' \in Seq(Event) /\ Grows(events, events')
        <5>1. /\ Len(events') = Len(done.events) + 1
              /\ \A k \in 1..Len(done.events) : events'[k] = done.events[k]
              /\ Len(done.events) \in Nat /\ Len(events) \in Nat /\ events' \in Seq(Event)
          BY <1>0, <2>3, <4>1, <4>2
        <5> QED
          BY <2>3, <5>1 DEF Grows
      <4> QED
        BY <2>3, <4>3, <4>5, <4>6, <4>7, <4>8
    <3> QED
      BY <3>1, <3>2
  <2>5. Len(events') \in Nat
    BY <2>4
  <2>6. /\ stream' \in [Streams -> StreamState]
        /\ WithinLog' /\ DeliversExactlyTheMatching' /\ NoLostWakeup' /\ Unopened'
    BY <2>2, <2>4, <2>5, WakingKeepsStreams
  <2>7. TypeOK'
    BY <1>0, <2>2, <2>3, <2>4, <2>6 DEF TypeOK
  <2> QED
    BY <2>4, <2>6, <2>7 DEF FollowInv
<1> QED
  BY <1>1, <1>2

(* subscribe_area.                                                         *)
LEMMA SubscribeAreaKeeps ==
    ASSUME FollowInv, NEW s \in Streams, SubscribeArea(s)
    PROVE  FollowInv'
<1> DEFINE new == [state |-> "ready", start |-> Len(events), next |-> Len(events)]
<1>1. /\ stream \in [Streams -> StreamState] /\ Len(events) \in Nat
      /\ UNCHANGED << entries, events, got, alive, panicked, offered, shifted >>
      /\ stream' = [stream EXCEPT ![s] = new]
  BY DEF FollowInv, TypeOK, SubscribeArea
<1>2. new \in StreamState
  BY <1>1 DEF StreamState
<1>3. /\ stream' \in [Streams -> StreamState] /\ stream'[s] = new
      /\ \A r \in Streams : r # s => stream'[r] = stream[r]
  BY <1>1, <1>2
<1>4. new.state = "ready" /\ new.start = Len(events) /\ new.next = Len(events)
  OBVIOUS
<1> HIDE DEF new
<1>5. TypeOK'
  BY <1>1, <1>3 DEF FollowInv, TypeOK
<1>6. WithinLog' /\ NoLostWakeup' /\ Unopened'
  BY <1>1, <1>3, <1>4 DEF FollowInv, WithinLog, NoLostWakeup, Unopened
<1>7. DeliversExactlyTheMatching'
  <2> SUFFICES ASSUME NEW r \in Streams
               PROVE  /\ \A j, k \in DOMAIN got[r] : j < k => got[r][j] < got[r][k]
                      /\ Range(got[r]) = { i \in stream'[r].start..(stream'[r].next - 1) :
                                             matches(events[i + 1], Params[r]) }
    BY <1>1 DEF DeliversExactlyTheMatching
  <2>1. CASE r # s
    BY <1>3, <2>1 DEF FollowInv, DeliversExactlyTheMatching
  <2>2. CASE r = s
    <3>1. \A i \in stream'[r].start..(stream'[r].next - 1) : FALSE
      BY <1>1, <1>3, <1>4, <2>2
    <3>2. DOMAIN got[r] = {}
      BY <2>2 DEF FollowInv, Unopened, SubscribeArea
    <3> QED
      BY <3>1, <3>2 DEF Range
  <2> QED
    BY <2>1, <2>2
<1> QED
  BY <1>1, <1>5, <1>6, <1>7 DEF FollowInv

(* resume_subscription: from an event that was delivered, on.              *)
LEMMA ResumeSubscriptionKeeps ==
    ASSUME FollowInv, NEW s \in Streams, ResumeSubscription(s)
    PROVE  FollowInv'
<1>1. PICK p \in Range(got[s]) :
         /\ stream' = [stream EXCEPT ![s] = [state |-> "ready", start |-> p, next |-> p]]
         /\ got' = [got EXCEPT ![s] = << >>]
  BY DEF ResumeSubscription
<1> DEFINE new == [state |-> "ready", start |-> p, next |-> p]
<1>2. /\ stream \in [Streams -> StreamState] /\ Len(events) \in Nat /\ got \in [Streams -> Seq(Nat)]
      /\ stream[s].next \in Nat /\ stream[s].start \in Nat
      /\ UNCHANGED << entries, events, alive, panicked, offered, shifted >>
      /\ stream' = [stream EXCEPT ![s] = new]
  <2>1. /\ stream \in [Streams -> StreamState] /\ Len(events) \in Nat
        /\ got \in [Streams -> Seq(Nat)]
    BY DEF FollowInv, TypeOK
  <2>2. stream[s].next \in Nat /\ stream[s].start \in Nat
    BY <2>1 DEF StreamState
  <2> QED
    BY <1>1, <2>1, <2>2 DEF ResumeSubscription
<1>3. p \in Nat /\ p <= Len(events)
  <2>1. p \in stream[s].start..(stream[s].next - 1)
    BY DEF FollowInv, DeliversExactlyTheMatching
  <2>2. stream[s].next <= Len(events)
    BY DEF FollowInv, WithinLog
  <2> QED
    BY <1>2, <2>1, <2>2
<1>4. new \in StreamState
  BY <1>3 DEF StreamState
<1>5. new.state = "ready" /\ new.start = p /\ new.next = p
  OBVIOUS
<1> HIDE DEF new
<1>6. /\ stream' \in [Streams -> StreamState] /\ stream'[s] = new
      /\ \A r \in Streams : r # s => stream'[r] = stream[r]
  BY <1>2, <1>4
<1>7. /\ got' \in [Streams -> Seq(Nat)] /\ got'[s] = << >>
      /\ \A r \in Streams : r # s => got'[r] = got[r]
  BY <1>1, <1>2
<1>8. TypeOK'
  BY <1>2, <1>6, <1>7 DEF FollowInv, TypeOK
<1>9. WithinLog' /\ NoLostWakeup' /\ Unopened'
  BY <1>2, <1>3, <1>5, <1>6, <1>7 DEF FollowInv, WithinLog, NoLostWakeup, Unopened
<1>10. DeliversExactlyTheMatching'
  <2> SUFFICES ASSUME NEW r \in Streams
               PROVE  /\ \A j, k \in DOMAIN got'[r] : j < k => got'[r][j] < got'[r][k]
                      /\ Range(got'[r]) = { i \in stream'[r].start..(stream'[r].next - 1) :
                                              matches(events[i + 1], Params[r]) }
    BY <1>2 DEF DeliversExactlyTheMatching
  <2>1. CASE r # s
    BY <1>6, <1>7, <2>1 DEF FollowInv, DeliversExactlyTheMatching
  <2>2. CASE r = s
    <3>1. \A i \in stream'[r].start..(stream'[r].next - 1) : FALSE
      BY <1>3, <1>5, <1>6, <2>2
    <3>2. DOMAIN got'[r] = {}
      BY <1>7, <2>2
    <3> QED
      BY <3>1, <3>2 DEF Range
  <2> QED
    BY <2>1, <2>2
<1> QED
  BY <1>2, <1>8, <1>9, <1>10 DEF FollowInv

(* poll_next finds an event: the first one that matches.                   *)
LEMMA PollFindsKeeps ==
    ASSUME FollowInv, NEW s \in Streams, stream[s].state = "ready",
           NEW i \in stream[s].next..(Len(events) - 1), matches(events[i + 1], Params[s]),
           \A j \in stream[s].next..(Len(events) - 1) :
               matches(events[j + 1], Params[s]) => i <= j,
           stream' = [stream EXCEPT ![s].next = i + 1],
           got' = [got EXCEPT ![s] = Append(@, i)],
           UNCHANGED << entries, events, alive, panicked, offered, shifted >>
    PROVE  FollowInv'
<1> DEFINE new == [stream[s] EXCEPT !.next = i + 1]
<1>1. /\ stream \in [Streams -> StreamState] /\ Len(events) \in Nat /\ got \in [Streams -> Seq(Nat)]
      /\ got[s] \in Seq(Nat) /\ stream[s] \in StreamState
  BY DEF FollowInv, TypeOK
<1>2. /\ stream[s].start \in Nat /\ stream[s].next \in Nat
      /\ stream[s].start <= stream[s].next /\ stream[s].next <= Len(events)
  BY <1>1 DEF FollowInv, WithinLog, StreamState
<1>3. i \in Nat /\ i + 1 <= Len(events) /\ stream[s].next <= i
  BY <1>1, <1>2
<1>4. /\ new \in StreamState /\ new.start = stream[s].start /\ new.next = i + 1
      /\ new.state = "ready"
  <2>1. i + 1 \in Nat
    BY <1>3
  <2> QED
    BY <1>1, <2>1 DEF StreamState
<1>5. stream' = [stream EXCEPT ![s] = new]
  OBVIOUS
<1> HIDE DEF new
<1>6. /\ stream' \in [Streams -> StreamState] /\ stream'[s] = new
      /\ \A r \in Streams : r # s => stream'[r] = stream[r]
  BY <1>1, <1>4, <1>5
<1>7. /\ got' \in [Streams -> Seq(Nat)] /\ got'[s] = Append(got[s], i)
      /\ \A r \in Streams : r # s => got'[r] = got[r]
  <2>1. Append(got[s], i) \in Seq(Nat)
    BY <1>1, <1>3
  <2> QED
    BY <1>1, <2>1
<1>8. TypeOK'
  BY <1>6, <1>7 DEF FollowInv, TypeOK
<1>9. WithinLog' /\ NoLostWakeup' /\ Unopened'
  BY <1>2, <1>3, <1>4, <1>6, <1>7 DEF FollowInv, WithinLog, NoLostWakeup, Unopened
<1>10. DeliversExactlyTheMatching'
  <2> SUFFICES ASSUME NEW r \in Streams
               PROVE  /\ \A j, k \in DOMAIN got'[r] : j < k => got'[r][j] < got'[r][k]
                      /\ Range(got'[r]) = { k \in stream'[r].start..(stream'[r].next - 1) :
                                              matches(events[k + 1], Params[r]) }
    BY DEF DeliversExactlyTheMatching
  <2>1. CASE r # s
    BY <1>6, <1>7, <2>1 DEF FollowInv, DeliversExactlyTheMatching
  <2>2. CASE r = s
    <3> DEFINE n == Len(got[s])
    <3>1. /\ \A j, k \in 1..n : j < k => got[s][j] < got[s][k]
          /\ Range(got[s]) = { k \in stream[s].start..(stream[s].next - 1) :
                                 matches(events[k + 1], Params[s]) }
      BY <1>1 DEF FollowInv, DeliversExactlyTheMatching
    <3>2. /\ n \in Nat /\ DOMAIN got'[s] = 1..(n + 1) /\ got'[s][n + 1] = i
          /\ \A k \in 1..n : got'[s][k] = got[s][k] /\ got[s][k] \in Nat
      BY <1>1, <1>3, <1>7
    <3>3. \A k \in 1..n : got[s][k] \in Range(got[s])
      BY <1>1 DEF Range
    <3>4. \A k \in 1..n : got[s][k] < i
      BY <1>2, <1>3, <3>1, <3>3
    <3> HIDE DEF n
    <3>5. \A j, k \in 1..(n + 1) : j < k => got'[s][j] < got'[s][k]
      BY <3>1, <3>2, <3>4
    <3>6. Range(got'[s]) = Range(got[s]) \cup {i}
      <4>1. DOMAIN got[s] = 1..n
        BY <1>1 DEF n
      <4>2. \A k \in 1..(n + 1) : k \in 1..n \/ k = n + 1
        BY <3>2
      <4>3. \A k \in 1..n : k \in 1..(n + 1)
        BY <3>2
      <4>4. n + 1 \in 1..(n + 1)
        BY <3>2
      <4> QED
        BY <3>2, <4>1, <4>2, <4>3, <4>4 DEF Range
    <3>7. \A k \in stream[s].next..i : k \in stream[s].next..(Len(events) - 1)
      BY <1>1, <1>2, <1>3
    <3>8. { k \in stream[s].start..i : matches(events[k + 1], Params[s]) }
             = { k \in stream[s].start..(stream[s].next - 1) :
                   matches(events[k + 1], Params[s]) } \cup {i}
      <4>1. \A k \in stream[s].start..i : \/ k \in stream[s].start..(stream[s].next - 1)
                                          \/ k \in stream[s].next..i
        BY <1>2, <1>3
      <4>2. \A k \in stream[s].next..i : matches(events[k + 1], Params[s]) => k = i
        BY <1>2, <1>3, <3>7
      <4>3. \A k \in stream[s].start..(stream[s].next - 1) : k \in stream[s].start..i
        BY <1>2, <1>3
      <4>4. i \in stream[s].start..i
        BY <1>2, <1>3
      <4> QED
        BY <4>1, <4>2, <4>3, <4>4
    <3>9. stream'[s].start = stream[s].start /\ stream'[s].next - 1 = i
      BY <1>3, <1>4, <1>6
    <3> QED
      BY <2>2, <3>1, <3>2, <3>5, <3>6, <3>8, <3>9
  <2> QED
    BY <2>1, <2>2
<1> QED
  BY <1>8, <1>9, <1>10 DEF FollowInv

(* poll_next finds nothing and parks, or finds the store gone and ends.    *)
LEMMA PollStopsKeeps ==
    ASSUME FollowInv, NEW s \in Streams, NEW to \in {"parked", "ended"},
           to = "parked" => /\ alive
                            /\ \A i \in stream[s].next..(Len(events) - 1) :
                                  ~ matches(events[i + 1], Params[s]),
           stream' = [stream EXCEPT ![s].state = to],
           UNCHANGED << entries, events, got, alive, panicked, offered, shifted >>
    PROVE  FollowInv'
<1> DEFINE new == [stream[s] EXCEPT !.state = to]
<1>1. stream \in [Streams -> StreamState] /\ stream[s] \in StreamState
  BY DEF FollowInv, TypeOK
<1>2. /\ new \in StreamState /\ new.start = stream[s].start /\ new.next = stream[s].next
      /\ new.state = to
  BY <1>1 DEF StreamState
<1>3. stream' = [stream EXCEPT ![s] = new]
  OBVIOUS
<1> HIDE DEF new
<1>4. /\ stream' \in [Streams -> StreamState] /\ stream'[s] = new
      /\ \A r \in Streams : r # s => stream'[r] = stream[r]
  BY <1>1, <1>2, <1>3
<1>5. \A r \in Streams : stream'[r].start = stream[r].start /\ stream'[r].next = stream[r].next
  BY <1>2, <1>4
<1>6. TypeOK'
  BY <1>4 DEF FollowInv, TypeOK
<1>7. WithinLog' /\ DeliversExactlyTheMatching'
  BY <1>5 DEF FollowInv, WithinLog, DeliversExactlyTheMatching
<1>8. NoLostWakeup' /\ Unopened'
  BY <1>2, <1>4 DEF FollowInv, NoLostWakeup, Unopened
<1> QED
  BY <1>6, <1>7, <1>8 DEF FollowInv

(* EventStream::poll_next.                                                 *)
LEMMA PollNextKeeps ==
    ASSUME FollowInv, NEW s \in Streams, PollNext(s)
    PROVE  FollowInv'
<1> DEFINE hits == { i \in stream[s].next..(Len(events) - 1) : matches(events[i + 1], Params[s]) }
           i == CHOOSE i \in hits : \A j \in hits : i <= j
<1>1. /\ stream[s].state = "ready" /\ UNCHANGED << entries, events, alive, panicked, offered, shifted >>
      /\ \/ ~ alive /\ stream' = [stream EXCEPT ![s].state = "ended"] /\ UNCHANGED got
         \/ /\ alive /\ hits # {}
            /\ stream' = [stream EXCEPT ![s].next = i + 1]
            /\ got' = [got EXCEPT ![s] = Append(@, i)]
         \/ /\ alive /\ hits = {}
            /\ stream' = [stream EXCEPT ![s].state = "parked"] /\ UNCHANGED got
  BY DEF PollNext
<1>2. CASE ~ alive /\ stream' = [stream EXCEPT ![s].state = "ended"] /\ UNCHANGED got
  BY <1>1, <1>2, PollStopsKeeps
<1>3. CASE /\ alive /\ hits = {}
           /\ stream' = [stream EXCEPT ![s].state = "parked"] /\ UNCHANGED got
  <2>1. \A k \in stream[s].next..(Len(events) - 1) : ~ matches(events[k + 1], Params[s])
    BY <1>3
  <2> QED
    BY <1>1, <1>3, <2>1, PollStopsKeeps
<1>4. CASE /\ hits # {} /\ stream' = [stream EXCEPT ![s].next = i + 1]
           /\ got' = [got EXCEPT ![s] = Append(@, i)]
  <2>1. hits \subseteq Nat
    <3>1. stream[s].next \in Nat /\ Len(events) \in Nat
      BY DEF FollowInv, TypeOK, StreamState
    <3> QED
      BY <3>1
  <2>2. i \in hits /\ \A j \in hits : i <= j
    <3>1. \E x \in hits : \A y \in hits : x <= y
      <4> HIDE DEF hits
      <4> QED
        BY <1>4, <2>1, LeastNatural
    <3> QED
      BY <3>1
  <2>3. /\ i \in stream[s].next..(Len(events) - 1) /\ matches(events[i + 1], Params[s])
        /\ \A j \in stream[s].next..(Len(events) - 1) : matches(events[j + 1], Params[s]) => i <= j
    BY <2>2
  <2> HIDE DEF i
  <2> QED
    BY <1>1, <1>4, <2>3, PollFindsKeeps
<1> QED
  BY <1>1, <1>2, <1>3, <1>4

(* Streams follow the log and the log the store, in every reachable state. *)
THEOREM FollowInvariant == Spec => []FollowInv
<1>1. Init => FollowInv
  <2> SUFFICES ASSUME Init PROVE FollowInv
    OBVIOUS
  <2>1. TypeOK
    <3>1. entries \in Seq(Writes) /\ events \in Seq(Event)
      BY DEF Init
    <3>2. got \in [Streams -> Seq(Nat)]
      BY DEF Init
    <3>3. stream \in [Streams -> StreamState]
      BY DEF Init, StreamState
    <3> QED
      BY <3>1, <3>2, <3>3 DEF Init, TypeOK
  <2>2. Distinct(entries) /\ Held(events) = Range(entries)
    BY DEF Init, Distinct, Held, Range
  <2>3. \A s \in Streams : /\ stream[s].state = "closed" /\ stream[s].start = 0
                           /\ stream[s].next = 0 /\ got[s] = << >>
    BY DEF Init
  <2>4. Len(events) = 0
    BY DEF Init
  <2>5. WithinLog /\ NoLostWakeup /\ Unopened
    BY <2>3, <2>4 DEF WithinLog, NoLostWakeup, Unopened
  <2>6. DeliversExactlyTheMatching
    <3>1. \A s \in Streams : DOMAIN got[s] = {} /\ stream[s].start..(stream[s].next - 1) = {}
      BY <2>3
    <3> QED
      BY <3>1 DEF DeliversExactlyTheMatching, Range
  <2> QED
    BY <2>1, <2>2, <2>5, <2>6 DEF FollowInv
<1>2. FollowInv /\ [Next]_vars => FollowInv'
  <2> SUFFICES ASSUME FollowInv, [Next]_vars PROVE FollowInv'
    OBVIOUS
  <2>1. CASE UNCHANGED vars
    BY <2>1 DEF vars, FollowInv, TypeOK, WithinLog, DeliversExactlyTheMatching, NoLostWakeup, Unopened
  <2>2. CASE DropStore
    <3>1. /\ stream' = WakeAll(stream) /\ alive' = FALSE
          /\ UNCHANGED << entries, events, got, panicked, offered, shifted >>
      BY <2>2 DEF DropStore
    <3>2. Len(events) \in Nat
      BY DEF FollowInv, TypeOK
    <3>3. Grows(events, events') /\ Len(events') \in Nat
      BY <3>1, <3>2 DEF Grows
    <3>4. /\ stream' \in [Streams -> StreamState]
          /\ WithinLog' /\ DeliversExactlyTheMatching' /\ NoLostWakeup' /\ Unopened'
      BY <3>1, <3>3, WakingKeepsStreams
    <3> QED
      BY <3>1, <3>4 DEF FollowInv, TypeOK
  <2> QED
    BY <2>1, <2>2, IngestEntryKeeps, SubscribeAreaKeeps, ResumeSubscriptionKeeps, PollNextKeeps
    DEF Next
<1> QED
  BY <1>1, <1>2, PTL DEF Spec

(* Replaying the events gives the store, and every stream has delivered    *)
(* exactly the matching events between its start and where it is.          *)
THEOREM StreamsFollowTheStore == Spec => []StreamInv
<1>1. FollowInv => StreamInv
  BY DEF FollowInv, StreamInv, LogReplaysToStore, Held
<1> QED
  BY <1>1, FollowInvariant, PTL

(* No stream sleeps while there is an event for it or the store is gone.   *)
THEOREM NoWakeupIsLost == Spec => []NoLostWakeup
<1>1. FollowInv => NoLostWakeup
  BY DEF FollowInv
<1> QED
  BY <1>1, FollowInvariant, PTL

-----------------------------------------------------------------------------
(* Positions shift when ingest_entry removes the first of several: the     *)
(* Vec implements the abstract store as long as that never happens.        *)

(* willow_data_model's prunes is an order as the abstract store needs it.  *)
LEMMA PrunesIsAnOrder ==
    /\ \A e \in Writes : ~ prunes(e, e)
    /\ \A e, f, g \in Writes : prunes(e, f) /\ prunes(f, g) => prunes(e, g)
<1>1. \A e \in Writes : e.path \in Paths /\ e.timestamp \in Nat /\ e.digest \in Nat
  BY StoreAssumption DEF AnyEntry
<1>2. \A e \in Writes : ~ is_newer_than(e, e)
  BY <1>1 DEF is_newer_than
<1>3. \A e, f, g \in Writes : is_newer_than(e, f) /\ is_newer_than(f, g) => is_newer_than(e, g)
  BY <1>1 DEF is_newer_than
<1> QED
  BY <1>1, <1>2, <1>3, PathsAssumption DEF prunes

(* With at most one position to prune the loop removes what is there.      *)
LEMMA PruneAllOne ==
    ASSUME NEW es \in Seq(Writes), NEW evs, NEW new, Distinct(es),
           \A i, j \in to_prune(es, new) : i = j
    PROVE  LET done == PruneAll(es, evs, new) IN
           /\ ~ done.panic
           /\ Range(done.entries) = { f \in Range(es) : ~ prunes(new, f) }
           /\ \/ done.events = evs
              \/ \E f \in Range(es) : prunes(new, f) /\ done.events = Append(evs, Pruned(f, new))
<1> DEFINE P == PruneLoop(es, evs, new)
           start == Before(es, evs)
<1>1. \A k \in 0..Len(es) :
         P[k] = IF k = 0 THEN start
                ELSE IF k \in to_prune(es, new) THEN RemoveNext(P[k - 1], k, new) ELSE P[k - 1]
  BY PruneLoopSteps
<1>2. PruneAll(es, evs, new) = P[Len(es)]
  BY DEF PruneAll
<1>3. to_prune(es, new) = { i \in 1..Len(es) : prunes(new, es[i]) }
  BY DEF to_prune
<1>4. ~ start.panic /\ start.entries = es /\ start.events = evs
  BY DEF Before
<1> HIDE DEF P, start
<1>5. CASE to_prune(es, new) = {}
  <2> DEFINE S == { k \in Nat : k <= Len(es) => P[k] = start }
  <2>1. 0 \in S
    BY <1>1
  <2>2. ASSUME NEW k \in Nat, k \in S PROVE k + 1 \in S
    <3> SUFFICES ASSUME k + 1 <= Len(es) PROVE P[k + 1] = start
      OBVIOUS
    <3>1. k + 1 \in 0..Len(es) /\ k + 1 # 0 /\ (k + 1) - 1 = k
      OBVIOUS
    <3>2. P[k] = start
      BY <2>2
    <3> QED
      BY <1>1, <1>5, <3>1, <3>2
  <2>3. Len(es) \in S
    <3> HIDE DEF S
    <3> QED
      BY <2>1, <2>2, NatSetInduction
  <2>4. PruneAll(es, evs, new) = start
    BY <1>2, <2>3
  <2>5. \A f \in Range(es) : ~ prunes(new, f)
    BY <1>3, <1>5 DEF Range
  <2> QED
    BY <1>4, <2>4, <2>5
<1>6. CASE to_prune(es, new) # {}
  <2>1. PICK i \in 1..Len(es) : prunes(new, es[i]) /\ i \in to_prune(es, new)
    BY <1>3, <1>6
  <2>2. \A k \in Nat : k \in to_prune(es, new) <=> k = i
    BY <2>1
  <2> DEFINE gone == RemoveNext(start, i, new)
             S == { k \in Nat : k <= Len(es) => P[k] = IF i <= k THEN gone ELSE start }
  <2> HIDE DEF gone
  <2>3. 0 \in S
    BY <1>1
  <2>4. ASSUME NEW k \in Nat, k \in S PROVE k + 1 \in S
    <3> SUFFICES ASSUME k + 1 <= Len(es) PROVE P[k + 1] = IF i <= k + 1 THEN gone ELSE start
      OBVIOUS
    <3>1. k + 1 \in 0..Len(es) /\ k + 1 # 0 /\ (k + 1) - 1 = k
      OBVIOUS
    <3>2. P[k] = IF i <= k THEN gone ELSE start
      BY <2>4
    <3>3. P[k + 1] = IF k + 1 = i THEN RemoveNext(P[k], k + 1, new) ELSE P[k]
      BY <1>1, <2>2, <3>1
    <3>4. CASE k + 1 = i
      BY <3>2, <3>3, <3>4 DEF gone
    <3>5. CASE k + 1 # i
      BY <3>2, <3>3, <3>5
    <3> QED
      BY <3>4, <3>5
  <2>5. Len(es) \in S
    <3> HIDE DEF S
    <3> QED
      BY <2>3, <2>4, NatSetInduction
  <2>6. PruneAll(es, evs, new) = gone
    BY <1>2, <2>5
  <2>7. gone = [entries |-> RemoveAt(es, i), events |-> Append(evs, Pruned(es[i], new)),
                panic |-> FALSE]
    BY <1>4 DEF gone, RemoveNext
  <2>8. Range(RemoveAt(es, i)) = Range(es) \ {es[i]}
    BY RemoveAtRange
  <2>9. Range(es) \ {es[i]} = { f \in Range(es) : ~ prunes(new, f) }
    <3>1. ASSUME NEW k \in 1..Len(es) PROVE prunes(new, es[k]) <=> es[k] = es[i]
      <4>1. prunes(new, es[k]) => k = i
        BY <1>3, <2>2
      <4> QED
        BY <2>1, <4>1
    <3> QED
      BY <3>1 DEF Range
  <2>10. es[i] \in Range(es)
    BY DEF Range
  <2> QED
    BY <2>1, <2>6, <2>7, <2>8, <2>9, <2>10
<1> QED
  BY <1>5, <1>6

(* One ingest is one step of the abstract store, and says what it pruned.  *)
LEMMA IngestIsJoin ==
    ASSUME FollowInv, NEW new \in Writes, NEW origin \in Origins, IngestEntry(new, origin),
           ~ shifted'
    PROVE  Abstract!Ingest(new) /\ (PrunedByItsPruner => PrunedByItsPruner')
<1> DEFINE Prunes == { ef \in Writes \X Writes : prunes(ef[1], ef[2]) }
<1>0. entries \in Seq(Writes) /\ events \in Seq(Event) /\ Distinct(entries)
  BY DEF FollowInv, TypeOK
<1>1. Range(entries) \subseteq Writes
  BY <1>0 DEF Range
<1>2. \A e, f \in Writes : << e, f >> \in Prunes <=> prunes(e, f)
  OBVIOUS
<1>3. offered' = offered \cup {new}
  BY DEF IngestEntry
<1> HIDE DEF Prunes
<1>4. CASE refused(entries, new)
  <2>1. new \in Range(entries) \/ \E f \in Range(entries) : << f, new >> \in Prunes
    BY <1>1, <1>2, <1>4 DEF Range, refused
  <2>2. entries' = entries /\ events' = events
    BY <1>4 DEF IngestEntry
  <2> QED
    BY <1>3, <2>1, <2>2 DEF Abstract!Ingest, Abstract!Join, Abstract!Rejects, Prunes, PrunedByItsPruner
<1>5. CASE ~ refused(entries, new)
  <2> DEFINE done == PruneAll(entries, events, new)
             ev   == Ingested(new, origin)
  <2>1. new \notin Range(entries) /\ ~ \E f \in Range(entries) : << f, new >> \in Prunes
    BY <1>1, <1>2, <1>5 DEF Range, refused
  <2>2. /\ ~ done.panic
        /\ Range(done.entries) = { f \in Range(entries) : ~ prunes(new, f) }
        /\ \/ done.events = events
           \/ \E f \in Range(entries) :
                 prunes(new, f) /\ done.events = Append(events, Pruned(f, new))
    <3>1. \A i, j \in to_prune(entries, new) : i = j
      BY <1>5 DEF IngestEntry
    <3> QED
      BY <1>0, <3>1, PruneAllOne
  <2>3. entries' = Append(done.entries, new) /\ events' = Append(done.events, ev)
    BY <1>5, <2>2 DEF IngestEntry
  <2>4. done.entries \in Seq(Writes)
    BY <1>0, PruneAllKeeps DEF FollowInv, Agree
  <2> HIDE DEF done, ev
  <2>5. Range(entries') = Range(done.entries) \cup {new}
    <3>1. /\ DOMAIN entries' = 1..(Len(done.entries) + 1) /\ DOMAIN done.entries = 1..Len(done.entries)
          /\ entries'[Len(done.entries) + 1] = new /\ Len(done.entries) \in Nat
          /\ \A k \in 1..Len(done.entries) : entries'[k] = done.entries[k]
      BY <2>3, <2>4
    <3> QED
      BY <3>1 DEF Range
  <2>6. Range(entries') = { f \in Range(entries) : << new, f >> \notin Prunes } \cup {new}
    BY <1>1, <1>2, <2>2, <2>5
  <2>7. Abstract!Ingest(new)
    BY <1>3, <2>1, <2>6 DEF Abstract!Ingest, Abstract!Join, Abstract!Rejects, Prunes
  <2>8. ASSUME PrunedByItsPruner PROVE PrunedByItsPruner'
    <3>1. ev.kind = "Ingested" /\ ev \in Event
      BY DEF ev, Ingested, Event
    <3>2. done.events \in Seq(Event) /\ \A k \in DOMAIN done.events :
             done.events[k].kind = "Pruned" => prunes(done.events[k].by, done.events[k].entry)
      <4>1. CASE done.events = events
        BY <1>0, <2>8, <4>1 DEF PrunedByItsPruner
      <4>2. CASE \E f \in Range(entries) :
                    prunes(new, f) /\ done.events = Append(events, Pruned(f, new))
        <5>1. PICK f \in Range(entries) :
                 prunes(new, f) /\ done.events = Append(events, Pruned(f, new))
          BY <4>2
        <5>2. /\ Pruned(f, new) \in Event /\ Pruned(f, new).by = new /\ Pruned(f, new).entry = f
          BY <1>1 DEF Pruned, Event
        <5> QED
          BY <1>0, <2>8, <5>1, <5>2 DEF PrunedByItsPruner
      <4> QED
        BY <2>2, <4>1, <4>2
    <3> QED
      BY <2>3, <3>1, <3>2 DEF PrunedByItsPruner
  <2> QED
    BY <2>7, <2>8
<1> QED
  BY <1>4, <1>5

(* The Vec implements the abstract store as long as no ingest finds two    *)
(* entries to prune.  Without this it does not: see PrunedByItsPruner.     *)
THEOREM OnePrunedImplementsWillowStore == Spec /\ []~ shifted => ImplementsWillowStore
<1>1. Init => Abstract!Init
  BY DEF Init, Abstract!Init, Range
<1>2. FollowInv /\ (~ shifted)' /\ [Next]_vars => [Abstract!Next]_(Abstract!vars)
  <2> SUFFICES ASSUME FollowInv, ~ shifted', [Next]_vars
               PROVE  Abstract!Next \/ UNCHANGED Abstract!vars
    OBVIOUS
  <2>1. ASSUME NEW e \in Writes, NEW o \in Origins, IngestEntry(e, o) PROVE Abstract!Next
    BY <2>1, IngestIsJoin DEF Abstract!Next
  <2>2. CASE UNCHANGED << entries, offered >>
    BY <2>2 DEF Abstract!vars
  <2> QED
    BY <2>1, <2>2
    DEF Next, vars, SubscribeArea, ResumeSubscription, PollNext, DropStore
<1> QED
  BY <1>1, <1>2, FollowInvariant, PTL DEF Spec, ImplementsWillowStore, Abstract!Spec

(* And then a Pruned event names an entry and one that prunes it.          *)
THEOREM OnePrunedReportsPruner == Spec /\ []~ shifted => []PrunedByItsPruner
<1>1. Init => PrunedByItsPruner
  BY DEF Init, PrunedByItsPruner
<1>2. FollowInv /\ (~ shifted)' /\ PrunedByItsPruner /\ [Next]_vars => PrunedByItsPruner'
  <2> SUFFICES ASSUME FollowInv, ~ shifted', PrunedByItsPruner, [Next]_vars
               PROVE  PrunedByItsPruner'
    OBVIOUS
  <2>1. CASE UNCHANGED events
    BY <2>1 DEF PrunedByItsPruner
  <2> QED
    BY <2>1, IngestIsJoin DEF Next, vars, SubscribeArea, ResumeSubscription, PollNext, DropStore
<1> QED
  BY <1>1, <1>2, FollowInvariant, PTL DEF Spec

(* Order independence rests on three facts that are preserved together:    *)
(* the store holds only offered entries, no entry of it prunes another,    *)
(* and whatever was offered is in it or is pruned by an entry in it.       *)
OrderInv ==
    ~ shifted =>
        LET S == Range(entries) IN
        /\ S \subseteq offered
        /\ \A e, f \in S : ~ prunes(e, f)
        /\ \A e \in offered : e \in S \/ \E f \in S : prunes(f, e)

(* One ingest keeps them.                                                  *)
LEMMA IngestKeepsOrder ==
    ASSUME FollowInv, OrderInv, NEW new \in Writes, NEW origin \in Origins,
           IngestEntry(new, origin)
    PROVE  OrderInv'
<1> SUFFICES ASSUME ~ shifted' PROVE OrderInv'
  BY DEF OrderInv
<1>1. PICK S, T : S = Range(entries) /\ T = Range(entries')
  OBVIOUS
<1>2. S \subseteq Writes /\ offered \subseteq Writes /\ offered' = offered \cup {new}
  <2>1. entries \in Seq(Writes) /\ offered \subseteq Writes
    BY DEF FollowInv, TypeOK
  <2> QED
    BY <1>1, <2>1 DEF Range, IngestEntry
<1>3. ~ shifted
  BY DEF IngestEntry
<1>4. /\ S \subseteq offered
      /\ \A e, f \in S : ~ prunes(e, f)
      /\ \A e \in offered : e \in S \/ \E f \in S : prunes(f, e)
  BY <1>1, <1>3 DEF OrderInv
<1>5. \/ /\ T = S
         /\ new \in S \/ \E f \in S : prunes(f, new)
      \/ /\ T = { f \in S : ~ prunes(new, f) } \cup {new}
         /\ new \notin S /\ \A f \in S : ~ prunes(f, new)
  <2>1. Abstract!Ingest(new)
    BY IngestIsJoin
  <2> DEFINE P == { ef \in Writes \X Writes : prunes(ef[1], ef[2]) }
  <2>2. T = IF new \in S \/ \E f \in S : << f, new >> \in P THEN S
            ELSE { f \in S : << new, f >> \notin P } \cup {new}
    BY <1>1, <2>1 DEF Abstract!Ingest, Abstract!Join, Abstract!Rejects
  <2>3. \A e, f \in Writes : << e, f >> \in P <=> prunes(e, f)
    OBVIOUS
  <2> HIDE DEF P
  <2> QED
    BY <1>2, <2>2, <2>3
<1>6. /\ T \subseteq offered'
      /\ \A e, f \in T : ~ prunes(e, f)
      /\ \A e \in offered' : e \in T \/ \E f \in T : prunes(f, e)
  <2>1. CASE T = S /\ (new \in S \/ \E f \in S : prunes(f, new))
    BY <1>2, <1>4, <2>1
  <2>2. CASE /\ T = { f \in S : ~ prunes(new, f) } \cup {new}
             /\ new \notin S /\ \A f \in S : ~ prunes(f, new)
    <3>1. T \subseteq offered'
      BY <1>2, <1>4, <2>2
    <3>2. \A e, f \in T : ~ prunes(e, f)
      BY <1>4, <2>2, PrunesIsAnOrder
    <3>3. ASSUME NEW e \in offered', e \notin T PROVE \E f \in T : prunes(f, e)
      <4>1. e \in offered /\ e \in Writes
        BY <1>2, <2>2, <3>3
      <4>2. CASE e \in S
        BY <2>2, <3>3, <4>2
      <4>3. CASE e \notin S
        <5>1. PICK f \in S : prunes(f, e)
          BY <1>4, <4>1, <4>3
        <5>2. CASE prunes(new, f)
          <6>1. prunes(new, e)
            BY <1>2, <4>1, <5>1, <5>2, PrunesIsAnOrder
          <6> QED
            BY <2>2, <6>1
        <5>3. CASE ~ prunes(new, f)
          BY <2>2, <5>1, <5>3
        <5> QED
          BY <5>2, <5>3
      <4> QED
        BY <4>2, <4>3
    <3> QED
      BY <3>1, <3>2, <3>3
  <2> QED
    BY <1>5, <2>1, <2>2
<1> QED
  BY <1>1, <1>6 DEF OrderInv

(* The Vec holds exactly what no offered entry prunes, in whatever order   *)
(* local writes and entries from any number of sessions come, until an     *)
(* ingest finds two entries to prune.                                      *)
THEOREM StoreOrderIndependence == Spec => []OrderIndependence
<1>1. Init => OrderInv
  BY DEF Init, OrderInv, Range
<1>2. FollowInv /\ OrderInv /\ [Next]_vars => OrderInv'
  <2> SUFFICES ASSUME FollowInv, OrderInv, [Next]_vars PROVE OrderInv'
    OBVIOUS
  <2>1. CASE UNCHANGED << entries, offered, shifted >>
    BY <2>1 DEF OrderInv
  <2> QED
    BY <2>1, IngestKeepsOrder DEF Next, vars, SubscribeArea, ResumeSubscription, PollNext, DropStore
<1>3. FollowInv /\ OrderInv => OrderIndependence
  <2> SUFFICES ASSUME FollowInv, OrderInv, ~ shifted
               PROVE  Range(entries) = { e \in offered : \A f \in offered : ~ prunes(f, e) }
    BY DEF OrderIndependence
  <2>1. PICK S : S = Range(entries)
    OBVIOUS
  <2>2. offered \subseteq Writes
    BY DEF FollowInv, TypeOK
  <2>3. /\ S \subseteq offered
        /\ \A e, f \in S : ~ prunes(e, f)
        /\ \A e \in offered : e \in S \/ \E f \in S : prunes(f, e)
    BY <2>1 DEF OrderInv
  <2>4. ASSUME NEW e \in S, NEW f \in offered PROVE ~ prunes(f, e)
    <3> SUFFICES ASSUME prunes(f, e) PROVE FALSE
      OBVIOUS
    <3>1. f \notin S
      BY <2>3
    <3>2. PICK g \in S : prunes(g, f)
      BY <2>3, <3>1
    <3>3. prunes(g, e)
      BY <2>2, <2>3, <3>2, PrunesIsAnOrder
    <3> QED
      BY <2>3, <3>3
  <2> QED
    BY <2>1, <2>3, <2>4
<1> QED
  BY <1>1, <1>2, <1>3, FollowInvariant, PTL DEF Spec

=============================================================================
