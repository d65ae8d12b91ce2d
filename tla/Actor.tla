--------------------------------- MODULE Actor ---------------------------------
(***************************************************************************)
(* The storage actor and its handles (engine/actor.rs): clients on other   *)
(* threads send requests through a bounded inbox to the one thread that    *)
(* owns the store, which answers them, spawns tasks for sessions and       *)
(* streams, and is shut down by a request or by the drop of the last       *)
(* handle.  What the requests do to the store is in EntryStore and Auth,   *)
(* what a session does in SessionLoops.                                    *)
(***************************************************************************)
EXTENDS Naturals, Sequences, SequencesExt, Functions

CONSTANTS
    Clients,        \* who may hold an ActorHandle
    First,          \* the client that called spawn
    Kinds,          \* requests that clients make, see below
    InboxCap,       \* INBOX_CAP
    MaxRequests     \* bound: requests of all clients together

(* "write" changes the store at once, "insert" waits for the payload to be *)
(* imported, "session" is answered and goes on as a task, "stream" goes on *)
(* as a task and has no answer, "shutdown" stops the actor.                *)
AllKinds == {"write", "insert", "session", "stream", "shutdown"}

ASSUME ActorAssumption ==
    /\ First \in Clients /\ Kinds \subseteq AllKinds
    /\ InboxCap \in Nat \ {0} /\ MaxRequests \in Nat

VARIABLES
    client,     \* what each client is doing with its handle
    count,      \* requests a client has made; the last one is the current one
    result,     \* how the current request ended
    inbox,      \* inbox_rx
    open,       \* inbox_rx is not dropped
    actor,      \* what the actor does, and the message it works on
    tasks,      \* the JoinSet
    store,      \* "open", or "closed" once its last reference is dropped
    queued,     \* history: the requests in the order in which they came in
    handled     \* history: the requests whose handler has run, in that order

vars == << client, count, result, inbox, open, actor, tasks, store, queued, handled >>

NoMsg == [from |-> "nobody", n |-> 0, kind |-> "none"]

(* States of a client: no handle yet; a handle; a request that waits for   *)
(* room, or for its answer; in Drop::drop, and not the last one; the same, *)
(* with the sender dropped; the last one; waiting for the thread; gone.    *)
ClientStates == {"absent", "idle", "send", "wait", "drop", "detach", "last", "join", "gone"}

TypeOK ==
    /\ \A c \in Clients : client[c].pc \in ClientStates
    /\ count \in [Clients -> Nat]
    /\ result \in [Clients -> {"none", "ok", "closed"}]
    /\ Len(inbox) <= InboxCap
    /\ actor.pc \in {"run", "busy", "stopping", "ended"}
    /\ store \in {"open", "closed"} /\ open \in BOOLEAN
    /\ actor.pc = "ended" <=> ~ open

Init ==
    /\ client = [c \in Clients |-> [pc |-> IF c = First THEN "idle" ELSE "absent", msg |-> NoMsg]]
    /\ count = [c \in Clients |-> 0]
    /\ result = [c \in Clients |-> "none"]
    /\ inbox = << >> /\ open = TRUE
    /\ actor = [pc |-> "run", msg |-> NoMsg]
    /\ tasks = {} /\ store = "open"
    /\ queued = << >> /\ handled = << >>

-----------------------------------------------------------------------------
(* The clients.                                                            *)

clientVars == << client, count, result >>
actorVars  == << open, actor, tasks, store, handled >>

SetClient(c, pc, msg) == client' = [client EXCEPT ![c] = [pc |-> pc, msg |-> msg]]

(* The clients whose Sender, and whose share of join_handle, is alive.     *)
Senders == { c \in Clients : client[c].pc \in {"idle", "send", "wait", "drop", "last", "join"} }
Shares  == { c \in Clients : client[c].pc \notin {"absent", "join", "gone"} }

(* ActorHandle::clone.                                                     *)
Clone(c, d) ==
    /\ client[c].pc = "idle" /\ client[d].pc = "absent"
    /\ SetClient(d, "idle", NoMsg)
    /\ UNCHANGED << count, result, inbox, queued, actorVars >>

(* A method of ActorHandle is called.                                      *)
Request(c, kind) ==
    /\ client[c].pc = "idle" /\ FoldFunction(+, 0, count) < MaxRequests
    /\ count' = [count EXCEPT ![c] = @ + 1]
    /\ result' = [result EXCEPT ![c] = "none"]
    /\ SetClient(c, "send", [from |-> c, n |-> count[c] + 1, kind |-> kind])
    /\ UNCHANGED << inbox, queued, actorVars >>

(* Sender::send: waits for room, fails if the receiver is gone.  Methods   *)
(* that return a stream do not wait for more.                              *)
Enqueue(c) ==
    /\ client[c].pc = "send"
    /\ \/ /\ open /\ Len(inbox) < InboxCap
          /\ inbox' = Append(inbox, client[c].msg)
          /\ queued' = Append(queued, client[c].msg)
          /\ IF client[c].msg.kind = "stream"
             THEN SetClient(c, "idle", NoMsg) /\ result' = [result EXCEPT ![c] = "ok"]
             ELSE client' = [client EXCEPT ![c].pc = "wait"] /\ UNCHANGED result
       \/ /\ ~ open
          /\ SetClient(c, "idle", NoMsg)
          /\ result' = [result EXCEPT ![c] = "closed"]
          /\ UNCHANGED << inbox, queued >>
    /\ UNCHANGED << count, actorVars >>

(* The oneshot sender was dropped without an answer.                       *)
ReplyDropped(c) ==
    /\ client[c].pc = "wait"
    /\ client[c].msg # actor.msg /\ client[c].msg \notin ToSet(inbox)
    /\ SetClient(c, "idle", NoMsg)
    /\ result' = [result EXCEPT ![c] = "closed"]
    /\ UNCHANGED << count, inbox, queued, actorVars >>

(* The future of a call is dropped, before or after it was sent.           *)
Cancel(c) ==
    /\ client[c].pc \in {"send", "wait"}
    /\ SetClient(c, "idle", NoMsg)
    /\ UNCHANGED << count, result, inbox, queued, actorVars >>

(* Drop::drop: Arc::get_mut has an answer only for the last share.         *)
DropHandle(c) ==
    /\ client[c].pc = "idle"
    /\ SetClient(c, IF Shares = {c} THEN "last" ELSE "drop", NoMsg)
    /\ UNCHANGED << count, result, inbox, queued, actorVars >>

(* The fields of a handle that was not the last are dropped in turn.       *)
DropFields(c) ==
    /\ \/ client[c].pc = "drop" /\ SetClient(c, "detach", NoMsg)
       \/ client[c].pc = "detach" /\ SetClient(c, "gone", NoMsg)
    /\ UNCHANGED << count, result, inbox, queued, actorVars >>

(* The last handle: blocking_send of Shutdown, then join.                  *)
SendShutdown(c) ==
    /\ client[c].pc = "last"
    /\ \/ /\ open /\ Len(inbox) < InboxCap
          /\ inbox' = Append(inbox, [from |-> c, n |-> count[c] + 1, kind |-> "shutdown"])
          /\ queued' = Append(queued, [from |-> c, n |-> count[c] + 1, kind |-> "shutdown"])
       \/ ~ open /\ UNCHANGED << inbox, queued >>
    /\ count' = [count EXCEPT ![c] = @ + 1]
    /\ client' = [client EXCEPT ![c].pc = "join"]
    /\ result' = [result EXCEPT ![c] = "none"]
    /\ UNCHANGED actorVars

Join(c) ==
    /\ client[c].pc = "join" /\ actor.pc = "ended"
    /\ SetClient(c, "gone", NoMsg)
    /\ result' = [result EXCEPT ![c] = "ok"]
    /\ UNCHANGED << count, inbox, queued, actorVars >>

-----------------------------------------------------------------------------
(* The actor.                                                              *)

(* send_reply: nobody may be waiting any more.                             *)
SendReply(m) ==
    IF client[m.from].pc = "wait" /\ client[m.from].msg = m
    THEN /\ client' = [client EXCEPT ![m.from] = [pc |-> "idle", msg |-> NoMsg]]
         /\ result' = [result EXCEPT ![m.from] = "ok"]
    ELSE UNCHANGED << client, result >>

Receive(kinds) ==
    /\ actor.pc = "run" /\ inbox # << >> /\ Head(inbox).kind \in kinds
    /\ inbox' = Tail(inbox)
    /\ UNCHANGED << count, open, store, queued >>

(* The requests that are answered in handle_message.                       *)
HandleWrite ==
    /\ Receive({"write"})
    /\ handled' = Append(handled, Head(inbox))
    /\ SendReply(Head(inbox))
    /\ UNCHANGED << actor, tasks >>

(* InsertEntry: Store::insert_entry awaits PayloadForm::submit.            *)
StartInsert ==
    /\ Receive({"insert"})
    /\ actor' = [pc |-> "busy", msg |-> Head(inbox)]
    /\ UNCHANGED << client, result, tasks, handled >>

PayloadImported ==
    /\ actor.pc = "busy"
    /\ handled' = Append(handled, actor.msg)
    /\ SendReply(actor.msg)
    /\ actor' = [pc |-> "run", msg |-> NoMsg]
    /\ UNCHANGED << count, inbox, open, tasks, store, queued >>

(* InitSession, GetEntries, SubscribeArea and ResumeSubscription spawn.    *)
Spawn ==
    /\ Receive({"session", "stream"})
    /\ tasks' = tasks \cup {Head(inbox)}
    /\ handled' = Append(handled, Head(inbox))
    /\ SendReply(Head(inbox))
    /\ UNCHANGED actor

(* A session or a stream ends, or, after abort_all, is dropped.            *)
TaskEnds(t) ==
    /\ actor.pc # "ended"
    /\ tasks' = tasks \ {t}
    /\ UNCHANGED << clientVars, inbox, open, actor, store, queued, handled >>

ReceiveShutdown ==
    /\ Receive({"shutdown"})
    /\ actor' = [pc |-> "stopping", msg |-> Head(inbox)]
    /\ UNCHANGED << client, result, tasks, handled >>

(* run_async returns: the receiver and what is queued, the store and the   *)
(* JoinSet are dropped, with LocalSet the tasks too.                       *)
End ==
    /\ actor' = [pc |-> "ended", msg |-> NoMsg]
    /\ open' = FALSE /\ inbox' = << >>
    /\ store' = "closed" /\ tasks' = {}
    /\ UNCHANGED << count, queued, handled >>

(* Slip: the answer is sent before self is dropped.                        *)
Shutdown_ReplyFirst ==
    \/ /\ actor.pc = "stopping" /\ actor.msg # NoMsg
       /\ SendReply(actor.msg)
       /\ actor' = [actor EXCEPT !.msg = NoMsg]
       /\ UNCHANGED << count, inbox, open, tasks, store, queued, handled >>
    \/ actor.pc = "stopping" /\ actor.msg = NoMsg /\ tasks = {} /\ End /\ UNCHANGED << client, result >>

(* Input::Shutdown: tasks.shutdown has joined all tasks, self is dropped,  *)
(* and then the answer is sent.                                            *)
Shutdown ==
    /\ actor.pc = "stopping" /\ tasks = {}
    /\ End
    /\ SendReply(actor.msg)

(* Slip: recv returns None, and the loop goes on.                          *)
InboxClosed_Ignored == FALSE /\ UNCHANGED vars

(* recv returns None: all senders are dropped.                             *)
InboxClosed ==
    /\ actor.pc = "run" /\ inbox = << >> /\ Senders = {}
    /\ End
    /\ UNCHANGED << client, result >>

-----------------------------------------------------------------------------

ClientStep(c) ==
    Enqueue(c) \/ ReplyDropped(c) \/ DropFields(c) \/ SendShutdown(c) \/ Join(c)

ActorStep ==
    HandleWrite \/ StartInsert \/ Spawn \/ ReceiveShutdown \/ Shutdown \/ InboxClosed

Next ==
    \/ \E c \in Clients :
          \/ ClientStep(c) \/ Cancel(c) \/ DropHandle(c)
          \/ \E kind \in Kinds : Request(c, kind)
          \/ \E d \in Clients : Clone(c, d)
    \/ ActorStep
    \/ PayloadImported
    \/ \E t \in tasks : TaskEnds(t)

(* Threads run, the queue for room in the inbox is fair, aborted tasks are *)
(* dropped.  A session or a stream, and the import of a payload, may take  *)
(* for ever.                                                               *)
Fairness ==
    /\ \A c \in Clients : SF_vars(Enqueue(c)) /\ WF_vars(ClientStep(c))
    /\ WF_vars(ActorStep)
    /\ WF_vars(actor.pc = "stopping" /\ \E t \in tasks : TaskEnds(t))

Spec == Init /\ [][Next]_vars /\ Fairness

-----------------------------------------------------------------------------

(* A CLEAN SHUTDOWN.  When shutdown returns, or the drop of the last handle *)
(* has joined the thread, the store is closed, no session or stream runs,  *)
(* and what came in before any shutdown was carried out: another process   *)
(* may open the database.  (What comes in after a shutdown whose caller    *)
(* did not wait is dropped with the inbox.)                                *)
ShutdownIsClean ==
    \A i \in DOMAIN queued :
        LET m == queued[i]
        IN m.kind = "shutdown" /\ count[m.from] = m.n /\ result[m.from] = "ok" =>
              /\ store = "closed" /\ tasks = {} /\ ~ open
              /\ \A j \in 1..(i - 1) : (\A k \in 1..j : queued[k].kind # "shutdown")
                                         => queued[j] \in ToSet(handled)

(* Besides, requests are carried out in the order in which they came in,   *)
(* none twice and none skipped, although clients drop calls and ask again. *)
InOrder ==
    /\ IsPrefix(handled, queued)
    /\ \A i \in DOMAIN handled : handled[i].kind # "shutdown"

ActorInv ==
    /\ TypeOK /\ ShutdownIsClean /\ InOrder
    /\ store = "closed" => actor.pc = "ended"

(* Every call returns, with an answer or with an error, and once all       *)
(* handles are dropped the thread ends, whoever drops them in whatever     *)
(* order: unless the actor waits for a payload for ever.                   *)
EverythingEnds ==
    \/ <>[](actor.pc = "busy")
    \/ /\ \A c \in Clients : client[c].pc \in {"send", "wait"} ~> client[c].pc \notin {"send", "wait"}
       /\ (\A c \in Clients : client[c].pc \in {"absent", "join", "gone"}) ~> actor.pc = "ended"

=============================================================================
