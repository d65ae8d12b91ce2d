------------------------------- MODULE LiveData -------------------------------
(***************************************************************************)
(* Entries and payloads on their way from one peer to the other            *)
(* (session/data.rs, static_tokens.rs, payload.rs, resource.rs and         *)
(* util/pipe.rs).  Two tasks of the sending session send entries: the      *)
(* reconciler ("rec"), what the store held when it answered a range, and   *)
(* the data sender ("data"), what is ingested after it subscribed.  Both   *)
(* bind static tokens in one table, and three channels carry bindings and  *)
(* the two kinds of entries.  The reconciliation itself is in Reconciler,  *)
(* the channels in Channel, subscriptions in EntryStore.                   *)
(***************************************************************************)
EXTENDS Naturals, Sequences, SequencesExt

CONSTANTS
    Entries,    \* the entries that the application may write
    Tokens,     \* static tokens (capabilities)
    TokenOf,    \* the token that authorises an entry
    Length,     \* payload_length of an entry
    Encoded,    \* bytes of the verifiable stream of its payload
    Unsent,     \* per task, the entries whose payload it does not send
    ChunkSize,  \* CHUNK_SIZE
    Cap,        \* bound: messages a channel holds
    MaxLog      \* bound: entries that are ingested

Tasks == {"rec", "data"}
Channels == Tasks \cup {"tokens"}

(* The data sender always sends a payload that the store has, the          *)
(* reconciler only if it is not too large.                                 *)
ASSUME LiveDataAssumption ==
    /\ TokenOf \in [Entries -> Tokens] /\ "none" \notin Entries
    /\ Length \in [Entries -> Nat] /\ Encoded \in [Entries -> Nat]
    /\ \A e \in Entries : Length[e] <= Encoded[e]
    /\ Unsent \in [Tasks -> SUBSET Entries] /\ Unsent["data"] \subseteq Unsent["rec"]
    /\ ChunkSize \in Nat \ {0} /\ Cap \in Nat \ {0} /\ MaxLog \in Nat

VARIABLES
    log,        \* entries in the order of their Ingested events
    started,    \* for a task that has its intersection, where in the log
    next,       \* how much of the log each task has taken
    ours,       \* sender's tokens by handle
    task,       \* what each sending task is doing
    chan,       \* messages under way
    theirs,     \* receiver's copy of the sender's tokens
    recv,       \* what each receiving task is doing
    current,    \* CurrentPayload of each receiving task
    ingested,   \* what the receiver ingested: task and entry
    payloads,   \* payloads the receiver finalized
    failed,     \* the receiving session has ended with an error
    broken,     \* the sides whose payload store has failed, and with it the session
    overtaken   \* history: a binding was sent before one that was bound earlier

sender   == << log, started, next, ours, task, overtaken >>
receiver == << theirs, recv, current, ingested, payloads, failed >>
vars     == << sender, chan, receiver, broken >>

NotStarted == MaxLog + 1
None == [entry |-> "none"]
Pipes == [left: Nat, buf: 0..ChunkSize, closed: BOOLEAN, parked: SUBSET {"reader", "writer"},
          chunk: 0..ChunkSize]
EmptyPipe == [left |-> 0, buf |-> 0, closed |-> FALSE, parked |-> {}, chunk |-> 0]

Idle == [pc |-> "idle", entry |-> "none", handle |-> 0, pipe |-> EmptyPipe]

TypeOK ==
    /\ log \in Seq(Entries) /\ Len(log) <= MaxLog
    /\ started \in [Tasks -> 0..NotStarted] /\ next \in [Tasks -> 0..NotStarted]
    /\ ours \in Seq(Tokens) /\ theirs \in Seq(Tokens)
    /\ \A t \in Tasks :
          /\ task[t].pc \in {"idle", "bind", "entry", "payload", "terminate"}
          /\ task[t].entry \in Entries \cup {"none"} /\ task[t].handle \in 0..Len(ours)
          /\ task[t].pipe \in Pipes
          /\ recv[t].pc \in {"recv", "poll", "parked"}
          /\ current[t].entry \in Entries \cup {"none"}
    /\ \A c \in Channels : Len(chan[c]) <= Cap
    /\ ingested \subseteq Tasks \X Entries
    /\ failed \in BOOLEAN /\ overtaken \in BOOLEAN /\ broken \subseteq {"sender", "receiver"}

Init ==
    /\ log = << >>
    /\ started = [t \in Tasks |-> NotStarted] /\ next = [t \in Tasks |-> 0]
    /\ ours = << >> /\ theirs = << >>
    /\ task = [t \in Tasks |-> Idle]
    /\ chan = [c \in Channels |-> << >>]
    /\ recv = [t \in Tasks |-> [pc |-> "recv", msg |-> None]]
    /\ current = [t \in Tasks |-> None]
    /\ ingested = {} /\ payloads = {}
    /\ failed = FALSE /\ overtaken = FALSE /\ broken = {}

-----------------------------------------------------------------------------
(* The sending session.                                                    *)

(* The application writes an entry.                                        *)
Ingest(e) ==
    /\ e \notin ToSet(log) /\ Len(log) < MaxLog
    /\ log' = Append(log, e)
    /\ UNCHANGED << started, next, ours, task, chan, receiver, broken, overtaken >>

(* The reconciler takes the snapshot it will send, or the data sender      *)
(* subscribes.  The intersection goes into one inbox and then into the     *)
(* other, and the two tasks get to it in any order.                        *)
Start(t) ==
    /\ "sender" \notin broken /\ started[t] = NotStarted
    /\ started' = [started EXCEPT ![t] = Len(log)]
    /\ next' = [next EXCEPT ![t] = IF t = "rec" THEN 0 ELSE Len(log)]
    /\ UNCHANGED << log, ours, task, chan, receiver, broken, overtaken >>

(* The entries a task has still to send.                                   *)
Waiting(t) ==
    IF started[t] = NotStarted THEN << >>
    ELSE SubSeq(log, next[t] + 1, IF t = "rec" THEN started[t] ELSE Len(log))

(* Slip: a token that is bound already is taken for the last one.          *)
bind_if_new_last(token) ==
    IF token \in ToSet(ours) THEN << Len(ours), FALSE, ours >>
    ELSE << Len(ours) + 1, TRUE, Append(ours, token) >>

(* ResourceMap::bind_if_new: the handle, if it is new, and the table.      *)
(* Handles are counted from 1 here.                                        *)
bind_if_new(token) ==
    IF token \in ToSet(ours)
    THEN << CHOOSE h \in DOMAIN ours : ours[h] = token, FALSE, ours >>
    ELSE << Len(ours) + 1, TRUE, Append(ours, token) >>

(* The next entry: its token is bound at once, the binding sent later.     *)
NextEntry(t) ==
    /\ "sender" \notin broken /\ task[t].pc = "idle" /\ Waiting(t) # << >>
    /\ LET e     == Head(Waiting(t))
           bound == bind_if_new(TokenOf[e])
       IN /\ ours' = bound[3]
          /\ task' = [task EXCEPT ![t] = [pc |-> IF bound[2] THEN "bind" ELSE "entry", entry |-> e,
                                          handle |-> bound[1], pipe |-> EmptyPipe]]
    /\ next' = [next EXCEPT ![t] = @ + 1]
    /\ UNCHANGED << log, started, chan, receiver, broken, overtaken >>

(* ChannelSenders::send of one message, once there is room for it.  The    *)
(* tasks that wait for room are all woken and tried in any order, and a    *)
(* short message may fit where a long one does not.                        *)
Send(c, msg) ==
    /\ Len(chan[c]) < Cap
    /\ chan' = [chan EXCEPT ![c] = Append(@, msg)]

(* bind_and_send_ours, from the await on.                                  *)
SendBinding(t) ==
    /\ "sender" \notin broken /\ task[t].pc = "bind"
    /\ Send("tokens", [token |-> ours[task[t].handle]])
    /\ task' = [task EXCEPT ![t].pc = "entry"]
    /\ overtaken' = (overtaken \/ \E u \in Tasks : task[u].pc = "bind" /\ task[u].handle < task[t].handle)
    /\ UNCHANGED << log, started, next, ours, receiver, broken >>

(* What follows a payload: TerminatePayload, or nothing on the data        *)
(* channel.                                                                *)
AfterPayload(t) == IF t = "rec" THEN [task[t] EXCEPT !.pc = "terminate"] ELSE Idle

(* A session ends where its payload store (external) fails; what it has    *)
(* sent is under way.                                                      *)
StoreFails(side) == broken' = broken \cup {side}

(* ReconciliationSendEntry or DataSendEntry; send_payload_chunked returns  *)
(* at once if the store does not have the payload, or cannot tell.         *)
SendEntry(t) ==
    /\ "sender" \notin broken /\ task[t].pc = "entry"
    /\ Send(t, [kind |-> "Entry", entry |-> task[t].entry, handle |-> task[t].handle])
    /\ task' = [task EXCEPT ![t] =
                   IF task[t].entry \in Unsent[t] THEN AfterPayload(t)
                   ELSE [@ EXCEPT !.pc = "payload", !.pipe.left = Encoded[task[t].entry]]]
    /\ \/ UNCHANGED broken
       \/ task[t].entry \notin Unsent[t] \ Unsent["data"] /\ StoreFails("sender")
    /\ UNCHANGED << log, started, next, ours, receiver, overtaken >>

Smaller(a, b) == IF a < b THEN a ELSE b

(* PipeWriter::write by write_verifiable_stream (external), which drops    *)
(* the writer when it is done.                                             *)
PipeWrite(t) ==
    LET p == task[t].pipe
        n == Smaller(p.left, ChunkSize - p.buf)
    IN /\ "sender" \notin broken
       /\ task[t].pc = "payload" /\ ~ p.closed /\ "writer" \notin p.parked
       /\ task' = [task EXCEPT ![t].pipe =
             CASE p.left = 0 -> [p EXCEPT !.closed = TRUE, !.parked = {}]
               [] p.left > 0 /\ n > 0 -> [p EXCEPT !.left = @ - n, !.buf = @ + n,
                                                   !.parked = @ \ {"reader"}]
               [] OTHER -> [p EXCEPT !.parked = @ \cup {"writer"}]]
       /\ UNCHANGED << log, started, next, ours, chan, receiver, broken, overtaken >>

(* write_verifiable_stream fails instead, and try_join drops the reader.   *)
PipeFails(t) ==
    /\ "sender" \notin broken
    /\ task[t].pc = "payload" /\ ~ task[t].pipe.closed
    /\ StoreFails("sender")
    /\ UNCHANGED << sender, chan, receiver >>

(* PipeReader::poll_next: a full chunk, or the rest once the writer is     *)
(* gone, or the end.                                                       *)
PipeRead(t) ==
    LET p == task[t].pipe
    IN /\ "sender" \notin broken
       /\ task[t].pc = "payload" /\ p.chunk = 0 /\ "reader" \notin p.parked
       /\ task' = [task EXCEPT ![t] =
             CASE p.buf = ChunkSize -> [@ EXCEPT !.pipe = [p EXCEPT !.chunk = p.buf, !.buf = 0,
                                                                    !.parked = @ \ {"writer"}]]
               [] p.buf # ChunkSize /\ p.closed /\ p.buf > 0 ->
                      [@ EXCEPT !.pipe = [p EXCEPT !.chunk = p.buf, !.buf = 0]]
               [] p.buf = 0 /\ p.closed -> AfterPayload(t)
               [] OTHER -> [@ EXCEPT !.pipe = [p EXCEPT !.parked = @ \cup {"reader"}]]]
       /\ UNCHANGED << log, started, next, ours, chan, receiver, broken, overtaken >>

(* ReconciliationSendPayload or DataSendPayload.                           *)
SendChunk(t) ==
    /\ "sender" \notin broken /\ task[t].pc = "payload" /\ task[t].pipe.chunk > 0
    /\ Send(t, [kind |-> "Payload", entry |-> task[t].entry, len |-> task[t].pipe.chunk])
    /\ task' = [task EXCEPT ![t].pipe.chunk = 0]
    /\ UNCHANGED << log, started, next, ours, receiver, broken, overtaken >>

(* ReconciliationTerminatePayload.                                         *)
SendTerminate(t) ==
    /\ "sender" \notin broken /\ task[t].pc = "terminate"
    /\ Send(t, [kind |-> "Terminate", entry |-> task[t].entry])
    /\ task' = [task EXCEPT ![t] = Idle]
    /\ UNCHANGED << log, started, next, ours, receiver, broken, overtaken >>

-----------------------------------------------------------------------------
(* The receiving session.                                                  *)

Fail ==
    /\ failed' = TRUE
    /\ UNCHANGED << recv, current, ingested, payloads >>

(* Slip: who waits for the handle is not woken.                            *)
BindTheirs_NoWake ==
    /\ ~ failed /\ "receiver" \notin broken /\ chan["tokens"] # << >>
    /\ theirs' = Append(theirs, Head(chan["tokens"]).token)
    /\ chan' = [chan EXCEPT !["tokens"] = Tail(@)]
    /\ UNCHANGED << sender, broken, recv, current, ingested, payloads, failed >>

(* The loop for static tokens: bind_theirs.                                *)
BindTheirs ==
    /\ ~ failed /\ "receiver" \notin broken /\ chan["tokens"] # << >>
    /\ theirs' = Append(theirs, Head(chan["tokens"]).token)
    /\ chan' = [chan EXCEPT !["tokens"] = Tail(@)]
    /\ recv' = [t \in Tasks |-> IF recv[t].pc = "parked" /\ recv[t].msg.handle = Len(theirs')
                                THEN [recv[t] EXCEPT !.pc = "poll"] ELSE recv[t]]
    /\ UNCHANGED << sender, broken, current, ingested, payloads, failed >>

(* A message is taken from channel t.                                      *)
Take(t, kind) ==
    /\ ~ failed /\ "receiver" \notin broken /\ recv[t].pc = "recv"
    /\ chan[t] # << >> /\ Head(chan[t]).kind = kind
    /\ chan' = [chan EXCEPT ![t] = Tail(@)]
    /\ UNCHANGED << sender, broken, theirs >>

is_active(t) == current[t] # None /\ current[t].writer

(* on_send_entry and Reconciler::received_message, up to the await.  Only  *)
(* the data receiver asks for the payload before it.                       *)
ReceiveEntry(t) ==
    /\ Take(t, "Entry")
    /\ IF t = "data" /\ is_active(t) THEN Fail
       ELSE /\ recv' = [recv EXCEPT ![t] = [pc |-> "poll", msg |-> Head(chan[t])]]
            /\ UNCHANGED << current, ingested, payloads, failed >>

(* authorise_entry_eventually, polled; then the entry is ingested and the  *)
(* payload set, by the reconciler in the other order.                      *)
PollToken(t) ==
    LET msg == recv[t].msg
        e   == msg.entry
        set == current[t] = None
    IN /\ ~ failed /\ "receiver" \notin broken /\ recv[t].pc = "poll"
       /\ \/ /\ msg.handle > Len(theirs)
             /\ recv' = [recv EXCEPT ![t].pc = "parked"]
             /\ UNCHANGED << current, ingested, payloads, failed >>
          \/ /\ msg.handle <= Len(theirs) /\ theirs[msg.handle] # TokenOf[e]
             /\ Fail
          \/ /\ msg.handle <= Len(theirs) /\ theirs[msg.handle] = TokenOf[e]
             /\ recv' = [recv EXCEPT ![t] = [pc |-> "recv", msg |-> None]]
             /\ failed' = ~ set
             /\ ingested' = IF set \/ t = "data" THEN ingested \cup {<< t, e >>} ELSE ingested
             /\ current' = IF set THEN [current EXCEPT ![t] = [entry |-> e, received |-> 0,
                                                  writer |-> FALSE, mixed |-> FALSE]]
                           ELSE current
             /\ UNCHANGED payloads
       /\ UNCHANGED << sender, broken, chan, theirs >>

(* CurrentPayload::finalize of p: the import (external) fails if the       *)
(* stream is not complete.                                                 *)
Finalize(t, p) ==
    /\ current' = [current EXCEPT ![t] = None]
    /\ payloads' = payloads \cup {[by |-> t, entry |-> p.entry, received |-> p.received,
                                   mixed |-> p.mixed]}
    /\ failed' = (p.writer /\ p.received < Encoded[p.entry])

(* Slip: a payload is complete one byte early.                             *)
is_complete_early(p) == p.received + 1 >= Length[p.entry]

(* CurrentPayload::is_complete.                                            *)
is_complete(p) == p.received >= Length[p.entry]

(* on_send_payload and received_send_payload: recv_chunk, and on the data  *)
(* channel finalize as soon as the payload's length is reached.            *)
ReceivePayload(t) ==
    /\ Take(t, "Payload")
    /\ IF current[t] = None THEN Fail
       ELSE LET msg == Head(chan[t])
                p == [current[t] EXCEPT !.received = @ + msg.len, !.writer = TRUE,
                                        !.mixed = @ \/ msg.entry # current[t].entry]
            IN /\ IF t = "data" /\ is_complete(p) THEN Finalize(t, p)
                  ELSE current' = [current EXCEPT ![t] = p] /\ UNCHANGED << payloads, failed >>
               /\ UNCHANGED << recv, ingested >>

(* received_terminate_payload.                                             *)
ReceiveTerminate(t) ==
    /\ Take(t, "Terminate")
    /\ IF current[t] = None THEN Fail
       ELSE Finalize(t, current[t]) /\ UNCHANGED << recv, ingested >>

(* import_verifiable_stream fails instead, which recv_chunk or finalize    *)
(* finds when its task is gone.                                            *)
ImportFails(t) ==
    /\ ~ failed /\ "receiver" \notin broken /\ recv[t].pc = "recv"
    /\ chan[t] # << >> /\ current[t] # None
    /\ \/ Head(chan[t]).kind = "Payload"
       \/ Head(chan[t]).kind = "Terminate" /\ is_active(t)
    /\ StoreFails("receiver")
    /\ UNCHANGED << sender, chan, receiver >>

-----------------------------------------------------------------------------

SendTask(t) ==
    \/ Start(t) \/ NextEntry(t) \/ SendBinding(t) \/ SendEntry(t)
    \/ SendChunk(t) \/ SendTerminate(t)

RecvTask(t) == ReceiveEntry(t) \/ PollToken(t) \/ ReceivePayload(t) \/ ReceiveTerminate(t)

Next ==
    \/ \E e \in Entries : Ingest(e)
    \/ \E t \in Tasks : SendTask(t) \/ PipeWrite(t) \/ PipeRead(t) \/ RecvTask(t)
    \/ \E t \in Tasks : PipeFails(t) \/ ImportFails(t)
    \/ BindTheirs

(* Every task is polled when it can go on; within a payload's transfer     *)
(* each half of the pipe that was woken is.                                *)
Fairness ==
    /\ \A t \in Tasks : WF_vars(SendTask(t)) /\ WF_vars(PipeWrite(t)) /\ WF_vars(PipeRead(t))
                        /\ WF_vars(RecvTask(t))
    /\ WF_vars(BindTheirs)

Spec == Init /\ [][Next]_vars /\ Fairness

-----------------------------------------------------------------------------

(* Handles are never sent with their tokens, and entries overtake the      *)
(* bindings: still every entry on its way names the handle of its token,   *)
(* and the receiver's table is a prefix of the sender's once the bindings  *)
(* on their way are added, unless one of them overtook another.            *)
HandlesMeanTheirTokens ==
    /\ \A t \in Tasks :
          /\ \A i \in DOMAIN chan[t] : chan[t][i].kind = "Entry"
                => ours[chan[t][i].handle] = TokenOf[chan[t][i].entry]
          /\ recv[t].pc = "parked" => recv[t].msg.handle > Len(theirs)
    /\ ~ overtaken => IsPrefix(theirs \o [i \in DOMAIN chan["tokens"] |-> chan["tokens"][i].token],
                               ours)

(* A payload is put together from all the bytes of its own stream, however *)
(* chunks, entries and the two channels interleave.                        *)
PayloadsAreWhole ==
    /\ \A t \in Tasks : current[t] # None => ~ current[t].mixed
    /\ ~ failed => \A p \in payloads :
          /\ ~ p.mixed
          /\ p.received = IF p.entry \in Unsent[p.by] THEN 0 ELSE Encoded[p.entry]

(* What the receiver holds is what the sender meant.                       *)
DataInv == TypeOK /\ HandlesMeanTheirTokens /\ PayloadsAreWhole

(* Messages a stream of n bytes takes.                                     *)
Chunks(n) == (n + ChunkSize - 1) \div ChunkSize

(* Entries that the data channel cannot transfer: without any chunk the    *)
(* receiver waits for a payload for ever, and hashes in the stream that    *)
(* need a chunk of their own come after it was finalized.                  *)
Untransferable(e) ==
    \/ e \in Unsent["data"] \/ Encoded[e] = 0
    \/ Chunks(Length[e]) < Chunks(Encoded[e])

(* A session between two peers that follow the protocol ends with an error *)
(* other than one of its payload store only after one binding overtook     *)
(* another, or after an entry was written while it was live that the data  *)
(* channel cannot transfer; also if the sender stops within a payload.     *)
OnlyKnownErrors ==
    failed => \/ overtaken
              \/ \E i \in DOMAIN log : started["data"] < i /\ Untransferable(log[i])

(* LIVE SYNC.  What the sender held when the reconciler took its snapshot, *)
(* and what was written after the subscription, arrives, unless the session *)
(* or a payload store fails.  (What is written between the two is not sent.) *)
EntriesArrive ==
    \A e \in Entries :
        (\E i \in DOMAIN log : log[i] = e /\ ( \/ started["rec"] # NotStarted /\ i <= started["rec"]
                                               \/ started["data"] < i ))
            ~> (failed \/ broken # {} \/ \E t \in Tasks : << t, e >> \in ingested)

=============================================================================
