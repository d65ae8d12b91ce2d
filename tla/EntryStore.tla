------------------------------ MODULE EntryStore ------------------------------
(***************************************************************************)
(* The in-memory entry store of one namespace (store/memory.rs):           *)
(* NamespaceStore { entries: Vec, events: EventQueue }, its ingest_entry,  *)
(* and the event streams that follow it (subscribe_area,                   *)
(* resume_subscription, EventStream::poll_next).                           *)
(*                                                                         *)
(* Vec positions are kept: ingest_entry collects positions to prune and    *)
(* then removes them one by one from the Vec they index.                   *)
(***************************************************************************)
EXTENDS Entries, Sequences, SequencesExt, FiniteSets

CONSTANTS
    Subspaces,  \* subspace ids
    MaxTime,    \* bound: timestamps are 0..MaxTime
    MaxDigest,  \* bound: payload digests are 0..MaxDigest, in their byte order
    Writes,     \* the entries that are ever written, a set of records
    Origins,    \* "local" and the ids of the sync sessions entries arrive on
    Streams,    \* the subscribers
    Params      \* per subscriber: [area, ignore_remote, ingest_only, ignore_empty]

(* An entry without its token; empty says its payload_length is 0.         *)
AnyEntry == [subspace: Subspaces, path: Paths, timestamp: 0..MaxTime,
             digest: 0..MaxDigest, empty: BOOLEAN]

NoRemote == "none"

ASSUME StoreAssumption ==
    /\ MaxTime \in Nat /\ MaxDigest \in Nat
    /\ Writes \subseteq AnyEntry
    /\ "local" \in Origins /\ NoRemote \notin Origins
    /\ Params \in [Streams -> [area: SUBSET Writes,
                               ignore_remote: (Origins \ {"local"}) \cup {NoRemote},
                               ingest_only: BOOLEAN, ignore_empty: BOOLEAN]]

VARIABLES
    entries,    \* NamespaceStore::entries
    events,     \* EventQueue::events; the progress id of events[i] is i - 1
    stream,     \* per subscriber, its EventStream and whether its task is parked
    got,        \* history: progress ids delivered since the stream was opened
    alive,      \* FALSE once the store (and its EventQueue) is dropped
    panicked,   \* Vec::remove was called with a position past the end
    offered,    \* history: every entry ingest_entry was called with
    shifted     \* history: an ingest had two positions or more to prune

vars == << entries, events, stream, got, alive, panicked, offered, shifted >>

Ingested(e, origin) == [kind |-> "Ingested", entry |-> e, origin |-> origin]
Pruned(e, by)       == [kind |-> "Pruned", entry |-> e, by |-> by]

Event == [kind: {"Ingested"}, entry: Writes, origin: Origins]
            \cup [kind: {"Pruned"}, entry: Writes, by: Writes]

(* state: "closed" - not opened; "ready" - its task will poll; "parked" -  *)
(* poll_next returned Pending and left a waker; "ended" - returned None.   *)
StreamState == [state: {"closed", "ready", "parked", "ended"}, start: Nat, next: Nat]

TypeOK ==
    /\ entries \in Seq(Writes)
    /\ events \in Seq(Event)
    /\ stream \in [Streams -> StreamState]
    /\ got \in [Streams -> Seq(Nat)]
    /\ alive \in BOOLEAN /\ panicked \in BOOLEAN
    /\ offered \subseteq Writes
    /\ shifted \in BOOLEAN

-----------------------------------------------------------------------------
(* Slip: the new entry is compared with itself only.                       *)
refused_same(es, new) == \E i \in DOMAIN es : es[i] = new

(* The early returns of ingest_entry's first loop.                         *)
refused(es, new) == \E i \in DOMAIN es : es[i] = new \/ prunes(es[i], new)

(* Slip: only entries at the very same path are collected.                 *)
to_prune_same_path(es, new) ==
    { i \in DOMAIN es : es[i].path = new.path /\ prunes(new, es[i]) }

(* The positions the first loop of ingest_entry collects.                  *)
to_prune(es, new) == { i \in DOMAIN es : prunes(new, es[i]) }

(* Slip: the removal is not announced.                                     *)
RemoveNext_Silent(acc, i, new) ==
    [acc EXCEPT !.entries = IF i <= Len(@) THEN RemoveAt(@, i) ELSE @]

(* The second loop removes a collected position from what the removals     *)
(* before it have left.                                                    *)
RemoveNext(acc, i, new) ==
    IF acc.panic \/ i > Len(acc.entries)
    THEN [acc EXCEPT !.panic = TRUE]
    ELSE [entries |-> RemoveAt(acc.entries, i),
          events  |-> Append(acc.events, Pruned(acc.entries[i], new)),
          panic   |-> FALSE]

(* It takes them in Vec order: what is left once it is past position k.    *)
PruneLoop(es, evs, new) ==
    LET done[k \in 0..Len(es)] ==
          IF k = 0 THEN [entries |-> es, events |-> evs, panic |-> FALSE]
          ELSE IF k \in to_prune(es, new) THEN RemoveNext(done[k - 1], k, new) ELSE done[k - 1]
    IN done

PruneAll(es, evs, new) == PruneLoop(es, evs, new)[Len(es)]

(* Slip: the wakers are kept instead of drained.                           *)
WakeAll_None(st) == st

(* EventQueue::insert and its Drop wake every parked stream.               *)
WakeAll(st) ==
    [s \in Streams |-> IF st[s].state = "parked" THEN [st[s] EXCEPT !.state = "ready"]
                       ELSE st[s]]

(* The event tells a subscriber with parameters p something it asked for.  *)
matches(ev, p) ==
    /\ ev.entry \in p.area
    /\ CASE ev.kind = "Ingested" ->
              ~ (p.ignore_empty /\ ev.entry.empty) /\ ev.origin # p.ignore_remote
         [] ev.kind = "Pruned" -> ~ p.ingest_only

-----------------------------------------------------------------------------

Init ==
    /\ entries = << >>
    /\ events = << >>
    /\ stream = [s \in Streams |-> [state |-> "closed", start |-> 0, next |-> 0]]
    /\ got = [s \in Streams |-> << >>]
    /\ alive = TRUE
    /\ panicked = FALSE
    /\ offered = {}
    /\ shifted = FALSE

Running == alive /\ ~ panicked

(* EntryStore::ingest_entry.                                               *)
IngestEntry(new, origin) ==
    /\ Running
    /\ offered' = offered \cup {new}
    /\ \/ /\ refused(entries, new)
          /\ UNCHANGED << entries, events, stream, panicked, shifted >>
       \/ /\ ~ refused(entries, new)
          /\ shifted' = (shifted \/ \E i, j \in to_prune(entries, new) : i # j)
          /\ LET done == PruneAll(entries, events, new) IN
                /\ panicked' = done.panic
                /\ stream' = WakeAll(stream)
                /\ \/ /\ done.panic
                      /\ entries' = done.entries
                      /\ events' = done.events
                   \/ /\ ~ done.panic
                      /\ entries' = Append(done.entries, new)
                      /\ events' = Append(done.events, Ingested(new, origin))
    /\ UNCHANGED << got, alive >>

(* subscribe_area: from the next progress id on.                           *)
SubscribeArea(s) ==
    /\ Running
    /\ stream[s].state = "closed"
    /\ stream' = [stream EXCEPT ![s] =
                    [state |-> "ready", start |-> Len(events), next |-> Len(events)]]
    /\ UNCHANGED << entries, events, got, alive, panicked, offered, shifted >>

(* resume_subscription, with the progress id of an event received before:  *)
(* StoreEvent::progress_id is the id of the event itself, so that event is *)
(* delivered again.                                                        *)
ResumeSubscription(s) ==
    /\ Running
    /\ stream[s].state \in {"ready", "parked"}
    /\ \E i \in Range(got[s]) :
          /\ stream' = [stream EXCEPT ![s] = [state |-> "ready", start |-> i, next |-> i]]
          /\ got' = [got EXCEPT ![s] = << >>]
    /\ UNCHANGED << entries, events, alive, panicked, offered, shifted >>

(* EventStream::poll_next and EventQueue::poll_next.                       *)
PollNext(s) ==
    /\ ~ panicked
    /\ stream[s].state = "ready"
    /\ \/ /\ ~ alive
          /\ stream' = [stream EXCEPT ![s].state = "ended"]
          /\ UNCHANGED got
       \/ /\ alive
          /\ LET hits == { i \in stream[s].next..(Len(events) - 1) :
                              matches(events[i + 1], Params[s]) }
             IN \/ /\ hits # {}
                   /\ LET i == CHOOSE i \in hits : \A j \in hits : i <= j IN
                        /\ stream' = [stream EXCEPT ![s].next = i + 1]
                        /\ got' = [got EXCEPT ![s] = Append(@, i)]
                \/ /\ hits = {}
                   /\ stream' = [stream EXCEPT ![s].state = "parked"]
                   /\ UNCHANGED got
    /\ UNCHANGED << entries, events, alive, panicked, offered, shifted >>

(* Slip: Drop without waking.                                              *)
DropStore_NoWake ==
    /\ Running
    /\ alive' = FALSE
    /\ UNCHANGED << entries, events, stream, got, panicked, offered, shifted >>

(* The last Rc to the store is dropped.                                    *)
DropStore ==
    /\ Running
    /\ alive' = FALSE
    /\ stream' = WakeAll(stream)
    /\ UNCHANGED << entries, events, got, panicked, offered, shifted >>

Next ==
    \/ \E e \in Writes, o \in Origins : IngestEntry(e, o)
    \/ \E s \in Streams : SubscribeArea(s)
    \/ \E s \in Streams : ResumeSubscription(s)
    \/ \E s \in Streams : PollNext(s)
    \/ DropStore

(* A woken task is polled again by the local task set it runs on.          *)
Fairness == \A s \in Streams : WF_vars(PollNext(s))

Spec == Init /\ [][Next]_vars /\ Fairness

-----------------------------------------------------------------------------

(* A Pruned event "[d]escribes an AuthorisedEntry which was pruned and the *)
(* AuthorisedEntry which triggered the pruning" (store/traits.rs).         *)
PrunedByItsPruner ==
    \A i \in DOMAIN events :
        events[i].kind = "Pruned" => prunes(events[i].by, events[i].entry)

(* Replaying the event log gives the store: an entry is held exactly when  *)
(* its last event is its ingestion.  A subscriber that follows Ingested    *)
(* and Pruned events from the start has a correct copy.                    *)
LogReplaysToStore ==
    Range(entries) =
        { e \in Writes :
            \E i \in DOMAIN events :
                /\ events[i].kind = "Ingested" /\ events[i].entry = e
                /\ \A j \in i + 1..Len(events) : events[j].entry # e }

(* A stream delivers every matching event after its start, once, in order, *)
(* and nothing else, however ingests, polls and parking interleave.        *)
DeliversExactlyTheMatching ==
    \A s \in Streams :
        /\ \A j, k \in DOMAIN got[s] : j < k => got[s][j] < got[s][k]
        /\ Range(got[s]) = { i \in stream[s].start..(stream[s].next - 1) :
                                matches(events[i + 1], Params[s]) }

(* A task is parked only while there is nothing for it to see: an ingest   *)
(* or the drop of the store between its check and its parking is not lost. *)
NoLostWakeup ==
    \A s \in Streams : stream[s].state = "parked" =>
        /\ alive
        /\ \A i \in stream[s].next..(Len(events) - 1) :
              ~ matches(events[i + 1], Params[s])

(* Every stream that is open when the store goes away ends.                *)
StreamsEndWithStore ==
    \A s \in Streams :
        (~ alive /\ stream[s].state \in {"ready", "parked"}) ~> (stream[s].state = "ended")

(* ORDER INDEPENDENCE.  The store holds the entries it was offered that no *)
(* other one prunes, in whatever order they came: an older one that comes  *)
(* late is refused, a newer one removes what it prunes and nothing else,   *)
(* and nothing comes back.  Until an ingest has two positions to prune:    *)
(* the first removal shifts the second, and others than the pruned go.     *)
OrderIndependence ==
    ~ shifted => Range(entries) = { e \in offered : \A f \in offered : ~ prunes(f, e) }

(* The Vec with its positions implements the abstract store, as long as no *)
(* ingest has two positions to prune.                                      *)
Abstract == INSTANCE WillowStore
    WITH Entry <- Writes,
         Prunes <- { ef \in Writes \X Writes : prunes(ef[1], ef[2]) },
         offered <- offered,
         store <- Range(entries)

ImplementsWillowStore == Abstract!Spec

(* What subscribers see is what happened: the log replays to the store,    *)
(* and each stream delivers its part of the log exactly.                   *)
StreamInv == TypeOK /\ LogReplaysToStore /\ DeliversExactlyTheMatching

=============================================================================
