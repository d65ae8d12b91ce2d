---------------------------- MODULE PersistentStore ----------------------------
(***************************************************************************)
(* The persistent store (store/persistent.rs): entries, authorisation      *)
(* tokens with reference counts, capabilities and secrets in one redb      *)
(* database, of which at most one transaction is kept open between calls   *)
(* (Db::tx).  A write transaction stays open over many calls; a read that  *)
(* needs a snapshot, or a call that finds it too old, commits it.  When    *)
(* the process ends it is lost: nothing commits it on drop.                *)
(*                                                                         *)
(* A call is one step: the store is used from one thread and no call       *)
(* awaits.  The trees of willow_store are sets of entries.  The token of   *)
(* an entry is a signature of the entry, so the entry names it.            *)
(***************************************************************************)
EXTENDS Entries, Sequences, SequencesExt, FiniteSets

CONSTANTS
    Entry,      \* the entries that are ever ingested
    Items,      \* capabilities and secrets
    MaxIngests  \* bound: calls of ingest_entry

ASSUME PersistentAssumption ==
    /\ MaxIngests \in Nat
    /\ \A e \in Entry : /\ e = [subspace |-> e.subspace, path |-> e.path,
                               timestamp |-> e.timestamp, digest |-> e.digest]
                        /\ e.path \in Paths /\ e.timestamp \in Nat /\ e.digest \in Nat

VARIABLES
    db,         \* the tables as committed
    tx,         \* Db::tx, the CurrentTransaction and the tables it sees
    events,     \* the EventQueue of the namespace, since the process started
    opened,     \* history: the entries when the process started
    seen,       \* history: the entries that snapshots ever held
    announced,  \* history: the entries that Ingested events ever announced
    lost,       \* history: the entries whose ingest a restart undid
    ingests     \* number of calls of ingest_entry

storeVars == << db, tx, events, opened, seen, announced, lost, ingests >>

(* tables::Tables; a refcount of 0 is a missing row.  taken and late are   *)
(* history: the entries whose ingest is part of this state, and those of   *)
(* them that came after an entry that prunes them.                         *)
Tables == [entries: SUBSET Entry, auth_tokens: SUBSET Entry,
           auth_token_refcount: [Entry -> Nat], items: SUBSET Items,
           taken: SUBSET Entry, late: SUBSET Entry]

NoTables == [entries |-> {}, auth_tokens |-> {}, auth_token_refcount |-> [e \in Entry |-> 0],
             items |-> {}, taken |-> {}, late |-> {}]

NoTx == [kind |-> "None", tables |-> NoTables]

Event == [kind: {"Ingested", "Pruned"}, entry: Entry]

(* The types of the tables and of the open transaction.                    *)
StoreTypes ==
    /\ db \in Tables
    /\ tx \in [kind: {"None", "Write", "Read"}, tables: Tables]
    /\ events \in Seq(Event)
    /\ opened \subseteq Entry
    /\ seen \subseteq Entry /\ announced \subseteq Entry /\ lost \subseteq Entry
    /\ ingests \in 0..MaxIngests

-----------------------------------------------------------------------------
(* The database as the calls of this process have left it.                 *)
Current == IF tx.kind = "Write" THEN tx.tables ELSE db

(* add_entry_auth_token.                                                   *)
AddToken(T, e) ==
    [T EXCEPT !.auth_tokens = @ \cup {e}, !.auth_token_refcount[e] = @ + 1]

(* remove_entry_auth_token for each of S: the last reference removes the   *)
(* token; a lower count is not written back.                               *)
RemoveTokens(T, S) ==
    LET last == { e \in S : T.auth_token_refcount[e] = 1 }
    IN [T EXCEPT !.auth_tokens = @ \ last,
                 !.auth_token_refcount = [e \in Entry |-> IF e \in last THEN 0 ELSE @[e]]]

(* Entries at one point of the tree replace each other.                    *)
SamePoint(e, f) ==
    e.subspace = f.subspace /\ e.path = f.path /\ e.timestamp = f.timestamp

(* prune_candidates, of which those that e is newer than are deleted.      *)
prune_candidates(T, e) ==
    { f \in T.entries :
        /\ f.subspace = e.subspace
        /\ << e.path, f.path >> \in PrefixOf
        /\ f.timestamp < e.timestamp
        /\ is_newer_than(e, f) }

(* Slip: the node's deletion is forgotten.                                 *)
Prune_KeepsNode(T, fs) == RemoveTokens(T, Range(fs))

(* The loop over the candidates fs, each of which loses its node and a     *)
(* reference to its token.                                                 *)
Prune(T, fs) == RemoveTokens([T EXCEPT !.entries = @ \ Range(fs)], Range(fs))

(* History: {e} if an entry that prunes e was ingested before.             *)
TooLate(T, e) == { g \in {e} : \E f \in T.taken : prunes(f, g) }

(* Slip: an insert clears the whole path.                                  *)
Insert_WholePath(T, e) ==
    [AddToken(T, e) EXCEPT
        !.entries = { f \in @ : ~ (f.subspace = e.subspace /\ f.path = e.path) } \cup {e},
        !.taken = @ \cup {e}, !.late = @ \cup TooLate(T, e)]

(* The token and the entry are added; what is at the entry's point is      *)
(* replaced, newer or not.                                                 *)
Insert(T, e) ==
    [AddToken(T, e) EXCEPT !.entries = { f \in @ : ~ SamePoint(f, e) } \cup {e},
                           !.taken = @ \cup {e}, !.late = @ \cup TooLate(T, e)]

-----------------------------------------------------------------------------

StoreInit ==
    /\ db = NoTables
    /\ tx = NoTx
    /\ events = << >>
    /\ opened = {}
    /\ seen = {} /\ announced = {} /\ lost = {}
    /\ ingests = 0

(* Db::tables followed by modify, which leaves T in the transaction.  An   *)
(* open write transaction is committed first if it is older than           *)
(* MAX_COMMIT_DELAY; a read transaction is dropped.                        *)
Write(T) ==
    /\ \E too_old \in BOOLEAN :
          db' = IF tx.kind = "Write" /\ too_old THEN tx.tables ELSE db
    /\ tx' = [kind |-> "Write", tables |-> T]

(* Slip: the removals of an ingest are not announced.                      *)
IngestEntry_Silent(e) ==
    /\ ingests < MaxIngests
    /\ ingests' = ingests + 1
    /\ announced' = announced \cup {e}
    /\ \E fs \in SetToSeqs(prune_candidates(Current, e)) :
          /\ Write(Insert(Prune(Current, fs), e))
          /\ events' = Append(events, [kind |-> "Ingested", entry |-> e])
    /\ UNCHANGED << opened, seen, lost >>

(* EntryStorage::ingest_entry; it never refuses an entry.                  *)
IngestEntry(e) ==
    /\ ingests < MaxIngests
    /\ ingests' = ingests + 1
    /\ announced' = announced \cup {e}
    /\ \E fs \in SetToSeqs(prune_candidates(Current, e)) :
          /\ Write(Insert(Prune(Current, fs), e))
          /\ events' = events
                \o [i \in DOMAIN fs |-> [kind |-> "Pruned", entry |-> fs[i]]]
                \o << [kind |-> "Ingested", entry |-> e] >>
    /\ UNCHANGED << opened, seen, lost >>

(* Slip: inserted and committed in a transaction of its own, beside a read *)
(* transaction that is kept.                                               *)
InsertItem_OwnTransaction(i) ==
    /\ IF tx.kind = "Read"
       THEN db' = [db EXCEPT !.items = @ \cup {i}] /\ UNCHANGED tx
       ELSE Write([Current EXCEPT !.items = @ \cup {i}])
    /\ UNCHANGED << events, opened, seen, announced, lost, ingests >>

(* SecretStorage::insert and CapsStorage::insert.                          *)
InsertItem(i) ==
    /\ Write([Current EXCEPT !.items = @ \cup {i}])
    /\ UNCHANGED << events, opened, seen, announced, lost, ingests >>

(* get_user and get_namespace read through Db::tables: they open a write   *)
(* transaction, or commit one that is too old.                             *)
GetSecret ==
    /\ Write(Current)
    /\ UNCHANGED << events, opened, seen, announced, lost, ingests >>

(* Db::flush.                                                              *)
Flush == db' = Current /\ tx' = NoTx

(* EntryStorage::snapshot and every method of EntryReader: flush, then a   *)
(* read transaction of their own.                                          *)
Snapshot ==
    /\ Flush
    /\ seen' = seen \cup db'.entries
    /\ UNCHANGED << events, opened, announced, lost, ingests >>

(* list_read_caps, list_write_caps and what is built on them: Db::snapshot *)
(* commits an open write transaction and keeps its read transaction.       *)
ListCaps ==
    /\ db' = Current
    /\ tx' = IF tx.kind = "Read" THEN tx ELSE [kind |-> "Read", tables |-> db']
    /\ UNCHANGED << events, opened, seen, announced, lost, ingests >>

(* The process ends, by a crash or in order, and starts again: new_impl on *)
(* the committed database.                                                 *)
Restart ==
    /\ tx' = NoTx
    /\ events' = << >>
    /\ opened' = db.entries
    /\ lost' = lost \cup (Current.taken \ db.taken)
    /\ UNCHANGED << db, seen, announced, ingests >>

StoreNext ==
    \/ \E e \in Entry : IngestEntry(e)
    \/ \E i \in Items : InsertItem(i)
    \/ GetSecret
    \/ Snapshot
    \/ ListCaps
    \/ Restart

StoreSpec == StoreInit /\ [][StoreNext]_storeVars

-----------------------------------------------------------------------------

(* Every entry has its authorisation token, in the open transaction and in *)
(* the committed database, whatever was ingested twice, pruned, replaced   *)
(* or lost with a transaction: otherwise get_entry_auth_token reports an   *)
(* inconsistent database and the whole range becomes unreadable.           *)
EntriesHaveTokens ==
    \A T \in {db, Current} : T.entries \subseteq T.auth_tokens

(* What a snapshot showed survives a crash: fingerprints and entries of    *)
(* reconciliation come from committed state only.  Live data does not, see *)
(* AnnouncedIsKept.                                                        *)
ReadsAreDurable == seen \subseteq db.taken

(* Only a restart undoes an ingest that was announced, and then only one   *)
(* that no call had committed.                                             *)
AnnouncedOrLost == announced \subseteq Current.taken \cup lost

(* A read transaction that is kept for later reads sees every write.       *)
KeptReadIsFresh == tx.kind = "Read" => tx.tables = db

(* The events since the process started, replayed on the entries it        *)
(* started with, give the entries: a point holds what its last event says. *)
LogReplaysToEntries ==
    Current.entries =
        { e \in Entry :
            LET at == { i \in DOMAIN events : SamePoint(events[i].entry, e) } IN
            \/ at = {} /\ e \in opened
            \/ \E i \in at : /\ \A j \in at : j <= i
                             /\ events[i] = [kind |-> "Ingested", entry |-> e] }

(* Nothing goes missing but by the refusal that ingest_entry lacks: every  *)
(* entry that was ingested (and committed, once the process has restarted) *)
(* is in the store or an entry is that prunes it, unless one that came too *)
(* late, and should have been refused, has taken its point.                *)
NothingIsLost ==
    \A T \in {db, Current} : \A e \in T.taken :
        \E f \in T.entries : f = e \/ prunes(f, e) \/ (SamePoint(f, e) /\ f \in T.late)

(* ingest_entry returns "`false` if the entry was not ingested because a   *)
(* newer entry exists" (store/traits.rs): no entry is in the store         *)
(* together with one that prunes it.                                       *)
OlderIsNotIngested == \A e, f \in Current.entries : ~ prunes(e, f)

(* "Decrease auth token refcount to allow eventually cleaning up the       *)
(* token": a token that no entry refers to is removed.                     *)
TokensAreReleased == Current.auth_tokens \subseteq Current.entries

(* What was announced to subscribers is kept.  It is not: the event of an  *)
(* ingest is there before its commit, so that a session's DataSender may   *)
(* have sent an entry that a crash takes back.                             *)
AnnouncedIsKept == announced \subseteq Current.taken

(* The entries of a store can be read, after any restart too.              *)
TokenInv == StoreTypes /\ EntriesHaveTokens

(* What snapshots showed stays, a kept read transaction is not stale, and  *)
(* what subscribers were shown is undone by nothing but a restart.         *)
ReadInv == ReadsAreDurable /\ KeptReadIsFresh /\ AnnouncedOrLost

=============================================================================
