------------------------------ MODULE Reconciler ------------------------------
(***************************************************************************)
(* Range-based set reconciliation between the two peers of a session       *)
(* (session/reconciler.rs).  Each peer runs one reconciler task; the two   *)
(* talk over the reconciliation channel, which is FIFO and bounded.        *)
(*                                                                         *)
(* A handler runs to its end before the task takes the next message, and   *)
(* every send in it is an await that may block while the channel is full.  *)
(* So a handler is one step that changes the task's state and queues its   *)
(* sends in todo; the sends follow one by one, then the check whether the  *)
(* area is complete, and only then the task is idle again.  Other tasks    *)
(* write to the store at any time in between.                              *)
(***************************************************************************)
EXTENDS Integers, RangeSplit, PruneOrder

CONSTANTS
    Targets,        \* area intersections, the TargetIds both peers agree on
    AreaRange,      \* target -> the range of its area (Area::to_range)
    Holdings,       \* the sets of entries a store may hold at the start
    Eager,          \* entries whose payload is sent along (SendPayload)
    LocalWrites,    \* entries the application may write during the session
    MaxWrites,      \* bound: local writes per peer
    ChannelCap      \* bound: messages the channel takes before a send blocks

(* Entries have a point in all three dimensions, and of two entries with   *)
(* one subspace and path the newer one prunes the other.                   *)
ASSUME ReconcilerAssumption ==
    /\ MaxWrites \in Nat
    /\ ChannelCap \in Nat \ {0}
    /\ Holdings \subseteq SUBSET Entry
    /\ \A S \in Holdings : IsFiniteSet(S) /\ Frontier(S) = S
    /\ LocalWrites \subseteq Entry
    /\ Eager \subseteq Entry
    /\ AreaRange \in [Targets -> Range3d]
    /\ \A e \in Entry : e.subspace \in Nat /\ e.path \in Nat /\ e.timestamp \in Nat
    /\ \A e, f \in Entry : e.subspace = f.subspace /\ e.path = f.path =>
          e = f \/ << e, f >> \in Prunes \/ << f, e >> \in Prunes

Peers == {"alfie", "betty"}
Other(p) == CHOOSE q \in Peers : q # p

VARIABLES
    stores,     \* the entries in each peer's store
    base,       \* history: what each store held when the session began
    targets,    \* TargetMap::map, and which targets have been completed
    entry_state,\* EntryState: the target entries are being received for, if any
    payload,    \* CurrentPayload is set
    chan,       \* chan[p]: messages on their way to p
    todo,       \* sends the running handler has left
    check,      \* the target whose completion it checks at its end, if any
    all,        \* number of ReconciledAll outputs
    failed,     \* the reconciler returned an error, or the peer's thread panicked
    writes,     \* number of local writes so far
    shifted     \* history: an ingest found two entries or more to prune

syncVars == << stores, base, targets, entry_state, payload, chan, todo, check, all, failed, writes,
               shifted >>

(* Target; uncovered is our_uncovered_ranges, ours and theirs the two      *)
(* range counters.                                                         *)
TargetState == [status: {"unknown", "open", "done"}, started: BOOLEAN,
                uncovered: SUBSET Nat, ours: Nat, theirs: Nat]

NewTarget == [status |-> "open", started |-> FALSE, uncovered |-> {},
              ours |-> 0, theirs |-> 0]

Messages ==
    [type: {"SendFingerprint"}, target: Targets, range: Range3d, fingerprint: SUBSET Entry,
        covers: SUBSET Nat]
    \cup [type: {"AnnounceEntries"}, target: Targets, range: Range3d, is_empty: BOOLEAN,
        want_response: BOOLEAN, covers: SUBSET Nat]
    \cup [type: {"SendEntry"}, entry: Entry]
    \cup [type: {"SendPayload"}]
    \cup [type: {"TerminatePayload"}, is_final: BOOLEAN]

(* What the iterator of announce_and_send_entries has yet to yield: the    *)
(* sends that are left of one handler, in one.                             *)
Iterators == [type: {"Iterator"}, entries: SUBSET Entry]

SyncTypes ==
    /\ stores \in [Peers -> SUBSET Entry]
    /\ base \in [Peers -> SUBSET Entry]
    /\ targets \in [Peers -> [Targets -> TargetState]]
    /\ entry_state \in [Peers -> SUBSET Targets]
    /\ payload \in [Peers -> BOOLEAN]
    /\ chan \in [Peers -> Seq(Messages)]
    /\ \A p \in Peers : Len(chan[p]) <= ChannelCap
    /\ todo \in [Peers -> Seq(Messages \cup Iterators)]
    /\ check \in [Peers -> SUBSET Targets]
    /\ all \in [Peers -> Nat]
    /\ failed \in [Peers -> BOOLEAN]
    /\ writes \in [Peers -> 0..MaxWrites]

-----------------------------------------------------------------------------
(* Building the messages of one handler.  covers is {} or {n}.             *)

FingerprintMsg(t, r, fp, covers) ==
    [type |-> "SendFingerprint", target |-> t, range |-> r, fingerprint |-> fp,
     covers |-> covers]

(* announce_and_send_entries: S are the entries its iterator yields; none  *)
(* when the caller knows that there is nothing to send.                    *)
AnnounceMsgs(t, r, want_response, covers, S) ==
    LET announce == [type |-> "AnnounceEntries", target |-> t, range |-> r, is_empty |-> S = {},
                     want_response |-> want_response, covers |-> covers]
    IN  IF S = {} THEN << announce >>
        ELSE << announce, [type |-> "Iterator", entries |-> S] >>

(* Slip: the last entry is not marked as the last one.                     *)
AfterEntry_NeverFinal(e, S) ==
    << [type |-> "TerminatePayload", is_final |-> FALSE] >>
        \o (IF S = {e} THEN << >> ELSE << [type |-> "Iterator", entries |-> S \ {e}] >>)

(* What the handler sends after entry e, the next one of S: its payload if *)
(* that is small, the end of the payload, and the rest of S.               *)
AfterEntry(e, S) ==
    (IF e \in Eager THEN << [type |-> "SendPayload"] >> ELSE << >>)
        \o << [type |-> "TerminatePayload", is_final |-> S = {e}] >>
        \o (IF S = {e} THEN << >> ELSE << [type |-> "Iterator", entries |-> S \ {e}] >>)

(* mark_our_next_range_pending, n times.                                   *)
MarkPending(T, n) ==
    [T EXCEPT !.uncovered = @ \cup T.ours..(T.ours + n - 1), !.ours = @ + n]

(* mark_our_range_covered; the caller has checked that the range is known. *)
MarkCovered(T, covers) == [T EXCEPT !.uncovered = @ \ covers]

is_complete(T) == T.started /\ T.uncovered = {}

-----------------------------------------------------------------------------

SyncInit ==
    /\ base \in [Peers -> Holdings]
    /\ stores = base
    /\ targets = [p \in Peers |-> [t \in Targets |-> [NewTarget EXCEPT !.status = "unknown"]]]
    /\ entry_state = [p \in Peers |-> {}]
    /\ payload = [p \in Peers |-> FALSE]
    /\ chan = [p \in Peers |-> << >>]
    /\ todo = [p \in Peers |-> << >>]
    /\ check = [p \in Peers |-> {}]
    /\ all = [p \in Peers |-> 0]
    /\ failed = [p \in Peers |-> FALSE]
    /\ writes = [p \in Peers |-> 0]
    /\ shifted = FALSE

Idle(p) == todo[p] = << >> /\ check[p] = {} /\ ~ failed[p]

(* ingest_entry of store/memory.rs on the store of peer p.  It refuses an  *)
(* entry that is there or is pruned by one that is.  An entry that prunes  *)
(* two or more removes positions of the Vec that have shifted (EntryStore  *)
(* has them): as many entries as it should, but not those, or Vec::remove  *)
(* panics, and the peer's thread is gone with all its tasks.               *)
IngestEntry(p, e) ==
    LET S      == stores[p]
        pruned == { f \in S : << e, f >> \in Prunes }
    IN  \/ /\ Rejects(S, e)
           /\ UNCHANGED << stores, failed, shifted >>
        \/ /\ ~ Rejects(S, e) /\ \A f, g \in pruned : f = g
           /\ stores' = [stores EXCEPT ![p] = (S \ pruned) \cup {e}]
           /\ UNCHANGED << failed, shifted >>
        \/ /\ ~ Rejects(S, e) /\ \E f, g \in pruned : f # g
           /\ shifted' = TRUE
           /\ \/ /\ \E X \in SUBSET S :
                       /\ Cardinality(X) = Cardinality(pruned) /\ X # pruned
                       /\ stores' = [stores EXCEPT ![p] = (S \ X) \cup {e}]
                 /\ UNCHANGED failed
              \/ /\ failed' = [failed EXCEPT ![p] = TRUE]
                 /\ UNCHANGED stores

(* Another task of the peer ingests an entry of its own.                   *)
LocalWrite(p) ==
    /\ ~ failed[p] /\ writes[p] < MaxWrites
    /\ \E e \in LocalWrites : IngestEntry(p, e)
    /\ writes' = [writes EXCEPT ![p] = @ + 1]
    /\ UNCHANGED << base, targets, entry_state, payload, chan, todo, check, all >>

(* The next AoiIntersection of the inbox (init_target): Alfie initiates.   *)
(* The two peers may find the intersections in different orders.  The same *)
(* step serves wait_for_target, while a message for an unknown target is   *)
(* held.                                                                   *)
InitTarget(p, t) ==
    /\ Idle(p)
    /\ targets[p][t].status = "unknown"
    /\ \/ /\ p = "alfie"
          /\ targets' = [targets EXCEPT ![p][t] = MarkPending(NewTarget, 1)]
          /\ todo' = [todo EXCEPT ![p] =
                << FingerprintMsg(t, AreaRange[t], fingerprint(stores[p], AreaRange[t]), {}) >>]
       \/ /\ p = "betty"
          /\ targets' = [targets EXCEPT ![p][t] = NewTarget]
          /\ UNCHANGED todo
    /\ UNCHANGED << stores, base, entry_state, payload, chan, check, all, failed, writes, shifted >>

(* Slip: the range counts as covered by the first part of the answer.      *)
SplitReply_CoversFirst(p, t, r, n) ==
    LET parts == split_range(stores[p], r)
        covers(i) == IF i = 1 THEN {n} ELSE {}
    IN  IF parts[1].action = "SendEntries"
        THEN AnnounceMsgs(t, r, TRUE, {n}, get_entries(stores[p], r))
        ELSE [i \in 1..2 |->
                FingerprintMsg(t, parts[i].range, parts[i].fingerprint, covers(i))]

(* Case 3 of received_send_fingerprint: the parts of the split range; the  *)
(* last one covers the range that was asked about.                         *)
SplitReply(p, t, r, n) ==
    LET parts == split_range(stores[p], r)
        covers(i) == IF i = Len(parts) THEN {n} ELSE {}
    IN  IF parts[1].action = "SendEntries"
        THEN AnnounceMsgs(t, r, TRUE, {n}, get_entries(stores[p], r))
        ELSE [i \in 1..2 |->
                FingerprintMsg(t, parts[i].range, parts[i].fingerprint, covers(i))]

(* m names a new range of its sender in target t that waits for an answer. *)
Wants(m, t) ==
    \/ m.type = "SendFingerprint" /\ m.target = t
    \/ m.type = "AnnounceEntries" /\ m.target = t /\ m.want_response

(* Number of such ranges among msgs.                                       *)
Wanting(msgs, t) == Cardinality({ i \in DOMAIN msgs : Wants(msgs[i], t) })

(* The answer to a fingerprint for the n-th range of the other peer.       *)
FingerprintReply(p, m, n) ==
    LET ours == fingerprint(stores[p], m.range) IN
    CASE ours = m.fingerprint ->
            AnnounceMsgs(m.target, m.range, FALSE, {n}, {})
      [] ours # m.fingerprint /\ m.fingerprint = {} ->
            AnnounceMsgs(m.target, m.range, TRUE, {n}, get_entries(stores[p], m.range))
      [] OTHER -> SplitReply(p, m.target, m.range, n)

Take(p) == chan' = [chan EXCEPT ![p] = Tail(@)]

(* The handler stops with an error: the session is over.                   *)
Fail(p) ==
    /\ failed' = [failed EXCEPT ![p] = TRUE]
    /\ UNCHANGED << stores, base, targets, entry_state, payload, todo, check, all, writes, shifted >>

(* received_message, ReconciliationMessage::SendFingerprint.               *)
ReceiveFingerprint(p) ==
    /\ Idle(p)
    /\ chan[p] # << >> /\ Head(chan[p]).type = "SendFingerprint"
    /\ LET m == Head(chan[p])
           T == targets[p][m.target]
           reply == FingerprintReply(p, m, T.theirs)
       IN /\ T.status = "open"
          /\ Take(p)
          /\ \/ m.covers \subseteq T.uncovered
                /\ targets' = [targets EXCEPT ![p][m.target] =
                      MarkPending([MarkCovered(T, m.covers) EXCEPT !.started = TRUE,
                                                                   !.theirs = @ + 1],
                                  Wanting(reply, m.target))]
                /\ todo' = [todo EXCEPT ![p] = reply]
                /\ check' = [check EXCEPT ![p] = {m.target}]
                /\ UNCHANGED << stores, base, entry_state, payload, all, failed, writes, shifted >>
             \/ ~ m.covers \subseteq T.uncovered /\ Fail(p)

(* EntryState: which message may come next.  After an announcement, the    *)
(* entries with their payloads, up to the last payload.                    *)
expects_announce(p) == entry_state[p] = {}
expects_entry(p)    == entry_state[p] # {} /\ ~ payload[p]
expects_payload(p)  == entry_state[p] # {} /\ payload[p]

(* Slip: an announcement is not answered although the peer wants it.       *)
ReceiveAnnounce_NoResponse(p) ==
    /\ Idle(p)
    /\ chan[p] # << >> /\ Head(chan[p]).type = "AnnounceEntries"
    /\ LET m == Head(chan[p])
           T == targets[p][m.target]
       IN /\ T.status = "open"
          /\ Take(p)
          /\ entry_state' = [entry_state EXCEPT ![p] = IF m.is_empty THEN {} ELSE {m.target}]
          /\ targets' = [targets EXCEPT ![p][m.target] =
                            [MarkCovered(T, m.covers) EXCEPT !.started = TRUE]]
          /\ check' = [check EXCEPT ![p] = {m.target}]
          /\ UNCHANGED << stores, base, payload, todo, all, failed, writes, shifted >>

(* received_message, ReconciliationMessage::AnnounceEntries.               *)
ReceiveAnnounce(p) ==
    /\ Idle(p)
    /\ chan[p] # << >> /\ Head(chan[p]).type = "AnnounceEntries"
    /\ LET m == Head(chan[p])
           T == targets[p][m.target]
           covered == [MarkCovered(T, m.covers) EXCEPT !.started = TRUE]
           reply == IF m.want_response
                    THEN AnnounceMsgs(m.target, m.range, FALSE, {T.theirs},
                                      get_entries(stores[p], m.range))
                    ELSE << >>
       IN /\ T.status = "open"
          /\ Take(p)
          /\ \/ /\ expects_announce(p) /\ m.covers \subseteq T.uncovered
                /\ entry_state' = [entry_state EXCEPT ![p] =
                                      IF m.is_empty THEN {} ELSE {m.target}]
                /\ targets' = [targets EXCEPT ![p][m.target] =
                      IF m.want_response THEN [covered EXCEPT !.theirs = @ + 1] ELSE covered]
                /\ todo' = [todo EXCEPT ![p] = reply]
                /\ check' = [check EXCEPT ![p] = {m.target}]
                /\ UNCHANGED << stores, base, payload, all, failed, writes, shifted >>
             \/ ~ (expects_announce(p) /\ m.covers \subseteq T.uncovered) /\ Fail(p)

(* received_message, ReconciliationMessage::SendEntry.                     *)
ReceiveEntry(p) ==
    /\ Idle(p)
    /\ chan[p] # << >> /\ Head(chan[p]).type = "SendEntry"
    /\ Take(p)
    /\ \/ /\ expects_entry(p)
          /\ payload' = [payload EXCEPT ![p] = TRUE]
          /\ IngestEntry(p, Head(chan[p]).entry)
          /\ UNCHANGED << base, targets, entry_state, todo, check, all, writes >>
       \/ ~ expects_entry(p) /\ Fail(p)

(* received_message, ReconciliationMessage::SendPayload.                   *)
ReceivePayload(p) ==
    /\ Idle(p)
    /\ chan[p] # << >> /\ Head(chan[p]).type = "SendPayload"
    /\ Take(p)
    /\ \/ /\ expects_payload(p)
          /\ UNCHANGED << stores, base, targets, entry_state, payload, todo, check, all, failed,
                          writes, shifted >>
       \/ ~ expects_payload(p) /\ Fail(p)

(* complete_target; the effect on targets and all.                         *)
Complete(p, t) ==
    /\ targets' = [targets EXCEPT ![p][t].status = "done"]
    /\ all' = [all EXCEPT ![p] = IF \A u \in Targets \ {t} : targets[p][u].status # "open"
                                 THEN @ + 1 ELSE @]

(* received_message, ReconciliationMessage::TerminatePayload.              *)
ReceiveTerminate(p) ==
    /\ Idle(p)
    /\ chan[p] # << >> /\ Head(chan[p]).type = "TerminatePayload"
    /\ Take(p)
    /\ \/ /\ expects_payload(p)
          /\ payload' = [payload EXCEPT ![p] = FALSE]
          /\ \/ /\ Head(chan[p]).is_final
                /\ entry_state' = [entry_state EXCEPT ![p] = {}]
                /\ \E t \in entry_state[p] :
                      IF is_complete(targets[p][t])
                      THEN Complete(p, t)
                      ELSE UNCHANGED << targets, all >>
             \/ /\ ~ Head(chan[p]).is_final
                /\ UNCHANGED << entry_state, targets, all >>
          /\ UNCHANGED << stores, base, todo, check, failed, writes, shifted >>
       \/ ~ expects_payload(p) /\ Fail(p)

(* One awaited send of the running handler.                                *)
Send(p) ==
    /\ ~ failed[p] /\ todo[p] # << >> /\ Head(todo[p]).type # "Iterator"
    /\ Len(chan[Other(p)]) < ChannelCap
    /\ chan' = [chan EXCEPT ![Other(p)] = Append(@, Head(todo[p]))]
    /\ todo' = [todo EXCEPT ![p] = Tail(@)]
    /\ UNCHANGED << stores, base, targets, entry_state, payload, check, all, failed, writes, shifted >>

(* The send of the next entry of the iterator, which yields the entries in *)
(* the order of the Vec, that is in any order.                             *)
SendEntry(p) ==
    /\ ~ failed[p] /\ todo[p] # << >> /\ Head(todo[p]).type = "Iterator"
    /\ Len(chan[Other(p)]) < ChannelCap
    /\ LET S == Head(todo[p]).entries IN
       \E e \in S :
          /\ chan' = [chan EXCEPT ![Other(p)] = Append(@, [type |-> "SendEntry", entry |-> e])]
          /\ todo' = [todo EXCEPT ![p] = AfterEntry(e, S) \o Tail(@)]
    /\ UNCHANGED << stores, base, targets, entry_state, payload, check, all, failed, writes, shifted >>

(* Slip: the area counts as reconciled while its entries are still coming. *)
CheckComplete_WhileReceiving(p) ==
    /\ ~ failed[p] /\ todo[p] = << >> /\ check[p] # {}
    /\ check' = [check EXCEPT ![p] = {}]
    /\ \E t \in check[p] :
          IF is_complete(targets[p][t]) THEN Complete(p, t) ELSE UNCHANGED << targets, all >>
    /\ UNCHANGED << stores, base, entry_state, payload, chan, todo, failed, writes, shifted >>

(* The last statement of the two handlers that answer the peer.            *)
CheckComplete(p) ==
    /\ ~ failed[p] /\ todo[p] = << >> /\ check[p] # {}
    /\ check' = [check EXCEPT ![p] = {}]
    /\ \E t \in check[p] :
          IF is_complete(targets[p][t]) /\ entry_state[p] = {}
          THEN Complete(p, t) ELSE UNCHANGED << targets, all >>
    /\ UNCHANGED << stores, base, entry_state, payload, chan, todo, failed, writes, shifted >>

Reconcile(p) ==
    \/ \E t \in Targets : InitTarget(p, t)
    \/ ReceiveFingerprint(p)
    \/ ReceiveAnnounce(p)
    \/ ReceiveEntry(p)
    \/ ReceivePayload(p)
    \/ ReceiveTerminate(p)
    \/ Send(p)
    \/ SendEntry(p)
    \/ CheckComplete(p)

SyncNext == \E p \in Peers : Reconcile(p) \/ LocalWrite(p)

(* Each peer's reconciler task is polled whenever it can go on; both peers *)
(* find every intersection sooner or later.                                *)
Fairness == \A p \in Peers : WF_syncVars(Reconcile(p))

SyncSpec == SyncInit /\ [][SyncNext]_syncVars /\ Fairness

-----------------------------------------------------------------------------

Done(p, t) == targets[p][t].status = "done"

(* All that is on its way to p, and the messages that belong to a target.  *)
Pipeline(p) == chan[p] \o todo[Other(p)]

IsHeader(m) == m.type \in {"SendFingerprint", "AnnounceEntries"}

(* Two peers that follow the protocol never see InvalidState or            *)
(* InvalidMessageInCurrentState, in whatever order the intersections are   *)
(* found, messages cross and the stores change meanwhile.                  *)
NeverFails == \A p \in Peers : ~ failed[p]

(* The range numbers in covers are never sent: each side counts.  A peer's *)
(* counter for its own ranges and the other's count of them agree, up to   *)
(* the requests that are still under way.                                  *)
CountersAgree ==
    \A p \in Peers, t \in Targets :
        targets[p][t].ours = targets[Other(p)][t].theirs
            + Wanting(Pipeline(Other(p)), t)

(* When a peer reports an area as reconciled, nothing about it is still on *)
(* its way to that peer: complete_target forgets the target, and a later   *)
(* message for it would block the task for ever (wait_for_target).  Like   *)
(* the properties below, up to an ingest that finds two entries to prune.  *)
NoStragglers ==
    ~ shifted => \A p \in Peers, t \in Targets : Done(p, t) =>
        /\ t \notin entry_state[p]
        /\ \A i \in DOMAIN Pipeline(p) :
              IsHeader(Pipeline(p)[i]) => Pipeline(p)[i].target # t

(* RECONCILED means reconciled: once a peer reports an area, it has every  *)
(* entry of the area that the other peer held from the start of the        *)
(* session until now, or an entry that prunes it.  (What the other peer    *)
(* has pruned meanwhile, by an entry that may lie outside the area, it no  *)
(* longer sends.)  Once an ingest has found two entries to prune, entries  *)
(* it should not touch are gone from a store, and this fails.              *)
ReconciledAreaIsComplete ==
    ~ shifted => \A p \in Peers, t \in Targets : Done(p, t) =>
        Dominates(stores[p], get_entries(base[Other(p)] \cap stores[Other(p)], AreaRange[t]))

(* A send of p's handler waits for room in the channel.                    *)
Blocked(p) ==
    /\ todo[p] # << >>
    /\ Len(chan[Other(p)]) = ChannelCap

(* Every area gets reconciled on both sides, whatever the stores hold and  *)
(* in whatever order the areas are found, as long as not both handlers     *)
(* come to wait for room in full channels and no ingest finds two entries  *)
(* to prune (which may end in a panic).                                    *)
ReconciledUnlessBlocked ==
    <>( \/ \A p \in Peers, t \in Targets : Done(p, t)
       \/ \A p \in Peers : Blocked(p)
       \/ shifted )

(* "[W]ill run a single reconciliation of the interests declared at        *)
(* session start, and then close the session" (session.rs): every area     *)
(* both peers know of gets reconciled on both sides.                       *)
EverythingGetsReconciled == <>(\A p \in Peers, t \in Targets : Done(p, t))

(* "Run a single, full reconciliation, and then quit" (session.rs,         *)
(* SessionMode::ReconcileOnce): ReconciledAll, on which the session quits, *)
(* comes after every area.                                                 *)
ReconciledAllMeansAll ==
    \A p \in Peers : all[p] > 0 => \A t \in Targets : Done(p, t)

(* The two sides keep the same books, and never meet a message that their  *)
(* state does not allow.                                                   *)
BooksAgree == ~ shifted => SyncTypes /\ NeverFails /\ CountersAgree

-----------------------------------------------------------------------------
(* What makes them inductive.                                              *)

(* What kind of message p may receive next (EntryState), the kind a        *)
(* message needs, and the one that may follow it.  An iterator stands for  *)
(* all that is left of an announcement.                                    *)
Mode(p) == IF entry_state[p] = {} THEN "header" ELSE IF payload[p] THEN "payload" ELSE "entry"

Needs(m) ==
    IF IsHeader(m) THEN "header"
    ELSE IF m.type \in {"SendEntry", "Iterator"} THEN "entry" ELSE "payload"

Leaves(m) ==
    IF m.type = "AnnounceEntries" THEN (IF m.is_empty THEN "header" ELSE "entry")
    ELSE IF m.type \in {"SendEntry", "SendPayload"} THEN "payload"
    ELSE IF m.type = "TerminatePayload" /\ ~ m.is_final THEN "entry" ELSE "header"

(* The messages of s lead from mode a to mode b.                           *)
Leads(a, s, b) ==
    /\ \A i \in DOMAIN s : Needs(s[i]) = IF i = 1 THEN a ELSE Leaves(s[i - 1])
    /\ b = IF s = << >> THEN a ELSE Leaves(s[Len(s)])

(* Announcements reach p whole, and what is left of one is at the end.     *)
Framed(p) ==
    /\ entry_state[p] # {} => \E t \in Targets : entry_state[p] = {t}
    /\ entry_state[p] = {} => ~ payload[p]
    /\ Leads(Mode(p), Pipeline(p), "header")
    /\ \A i \in DOMAIN todo[p] : todo[p][i].type = "Iterator" =>
          /\ i = Len(todo[p])
          /\ todo[p][i].entries # {} /\ IsFiniteSet(todo[p][i].entries)
          /\ Frontier(todo[p][i].entries) = todo[p][i].entries

HeaderOf(m, t) == IsHeader(m) /\ m.target = t

(* The requests of p the other peer has not counted yet are uncovered.  A  *)
(* header for p covers at most one range, which p has not covered yet, the *)
(* other peer has counted, and no other message covers.                    *)
Numbered(p) ==
    \A t \in Targets :
        LET s == Pipeline(p)
            counted == targets[Other(p)][t].theirs
        IN  /\ targets[p][t].ours = counted + Wanting(Pipeline(Other(p)), t)
            /\ counted..(targets[p][t].ours - 1) \subseteq targets[p][t].uncovered
            /\ \A i \in DOMAIN s : HeaderOf(s[i], t) =>
                  /\ s[i].covers \subseteq targets[p][t].uncovered
                  /\ s[i].covers \subseteq 0..(counted - 1)
                  /\ \A j \in DOMAIN s : HeaderOf(s[j], t) /\ i # j =>
                        s[i].covers \cap s[j].covers = {}

(* A header that covers nothing is the first half of a split range, or the *)
(* first message for its target.                                           *)
Uncovering(p) ==
    \A i \in DOMAIN Pipeline(p) :
        LET m == Pipeline(p)[i] IN
        IsHeader(m) /\ m.covers = {} =>
            /\ m.type = "SendFingerprint"
            /\ \/ /\ i < Len(Pipeline(p))
                  /\ HeaderOf(Pipeline(p)[i + 1], m.target)
                  /\ Pipeline(p)[i + 1].covers # {}
               \/ p = "betty" /\ ~ targets[p][m.target].started

(* A target starts with Alfie.                                             *)
Started(p) ==
    \A t \in Targets :
        /\ targets[p][t].status = "unknown" =>
              /\ targets[p][t] = [NewTarget EXCEPT !.status = "unknown"]
              /\ ~ targets[Other(p)][t].started
              /\ \A i \in DOMAIN Pipeline(Other(p)) : ~ HeaderOf(Pipeline(Other(p))[i], t)
        /\ p = "betty" /\ ~ targets[p][t].started =>
              /\ targets[p][t].uncovered = {}
              /\ ~ targets["alfie"][t].started /\ targets["alfie"][t].ours <= 1
              /\ \A i \in DOMAIN Pipeline("alfie") : ~ HeaderOf(Pipeline("alfie")[i], t)

Ended(p) ==
    \A t \in Targets : Done(p, t) =>
        /\ is_complete(targets[p][t]) /\ t \notin entry_state[p]
        /\ \A i \in DOMAIN Pipeline(p) : ~ HeaderOf(Pipeline(p)[i], t)

(* What p held from the start of the session until now.                    *)
Kept(p) == base[p] \cap stores[p]

(* A fingerprint for p is of entries that the other peer held, among them  *)
(* all that it still holds.                                                *)
Stored(p) ==
    /\ IsFiniteSet(stores[p]) /\ Frontier(stores[p]) = stores[p]
    /\ Dominates(stores[p], base[p])
    /\ \A i \in DOMAIN Pipeline(p) :
          LET m == Pipeline(p)[i] IN
          m.type = "SendFingerprint" =>
              /\ get_entries(Kept(Other(p)), m.range) \subseteq m.fingerprint
              /\ Dominates(stores[Other(p)], m.fingerprint)

(* Message m brings entry e.                                               *)
Brings(m, e) ==
    \/ m.type = "SendEntry" /\ m.entry = e
    \/ m.type = "Iterator" /\ e \in m.entries

(* e is on its way among the entries of an announcement for t: the current *)
(* one, whose entries are being received (j = 0), or one still to come.    *)
Coming(s, current, t, e) ==
    \E i \in DOMAIN s : \E j \in 0..(i - 1) :
        /\ Brings(s[i], e)
        /\ IF j = 0 THEN t \in current ELSE HeaderOf(s[j], t)
        /\ \A k \in (j + 1)..i : ~ IsHeader(s[k])

(* A message that is on its way will lead to p being sent e.               *)
Asked(s, t, e) ==
    \E i \in DOMAIN s : Wants(s[i], t) /\ includes_entry(s[i].range, e)

Offered(s, t, e) ==
    \E i \in DOMAIN s :
        s[i].type = "SendFingerprint" /\ s[i].target = t /\ includes_entry(s[i].range, e)

Delivered(p) ==
    \A t \in Targets : targets["alfie"][t].status # "unknown" =>
        \A e \in get_entries(Kept(Other(p)), AreaRange[t]) :
            \/ Dominates(stores[p], {e})
            \/ Offered(Pipeline(p), t, e)
            \/ Asked(Pipeline(Other(p)), t, e)
            \/ Coming(Pipeline(p), entry_state[p], t, e)

(* Up to the first ingest that finds two entries to prune.                 *)
ReconcilerInv ==
    /\ SyncTypes
    /\ NeverFails
    /\ \A p \in Peers : /\ Framed(p) /\ Numbered(p) /\ Uncovering(p) /\ Started(p) /\ Ended(p)
                        /\ Stored(p) /\ Delivered(p)

=============================================================================
