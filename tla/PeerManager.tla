----------------------------- MODULE PeerManager -----------------------------
(***************************************************************************)
(* The peer manager of two nodes that connect to each other                *)
(* (engine/peer_manager.rs), with what it needs of the connection          *)
(* (establish, prepare_channels and terminate_gracefully in net.rs) and of *)
(* the session it starts (the end of run_session in session/run.rs).       *)
(*                                                                         *)
(* A manager handles one input, session event or joined task at a time, in *)
(* any order.  Its tasks run concurrently; those that have ended are       *)
(* joined in the order they ended.                                         *)
(***************************************************************************)
EXTENDS Naturals, Sequences, SequencesExt, FiniteSets

CONSTANTS
    Intents,        \* node -> the intents its application submits
    MaxDials,       \* bound: connections ever dialed
    MaxFailures,    \* bound: network failures, refused connections, session errors
    Stopping        \* the nodes that may shut down

Nodes == {1, 2}     \* node ids, in their order
Other(n) == 3 - n
Conns == 1..MaxDials

(* The intent that handle_connection creates for a connection it accepts.  *)
AcceptIntent(c) == << "accept", c >>

AllIntents(n) == Intents[n] \cup { AcceptIntent(c) : c \in Conns }

ASSUME ManagerAssumption ==
    /\ MaxDials \in Nat /\ MaxFailures \in Nat
    /\ Stopping \subseteq Nodes
    /\ DOMAIN Intents = Nodes
    /\ Intents[1] \cap Intents[2] = {}
    /\ \A n \in Nodes, c \in Conns : AcceptIntent(c) \notin Intents[n]

VARIABLES
    manager,    \* "running", "shutdown", "stopped", or how its task died
    peer,       \* PeerInfo for the other node, if known
    tasks,      \* conn_tasks that run
    ended,      \* conn_tasks that have ended and are not joined yet
    incoming,   \* Input::HandleConnection in the inbox
    sess,       \* the session task and its update and event channels
    conns,      \* the network: every connection ever dialed
    over,       \* history: intents that were told of their end
    submitted,  \* history: intents submitted
    dials,      \* number of connections dialed
    failures    \* number of failures so far

vars == << manager, peer, tasks, ended, incoming, sess, conns, over, submitted, dials, failures >>

(* our_dial: the dial that cancel_dial cancels; handle: the connection     *)
(* whose task the abort_handle of ConnState::Establishing aborts.          *)
NoPeer == [known |-> FALSE, pending |-> {}, conn_state |-> "None", our_dial |-> {},
           handle |-> {}, session_state |-> "None"]

(* A session holds the intents it works on and those still in its update   *)
(* channel; once "ended" its Complete event with the remaining intents     *)
(* waits for the manager.                                                  *)
NoSession == [state |-> "none", conn |-> 0, active |-> {}, queued |-> {}, remaining |-> {},
              abort |-> FALSE]

(* status: how the connection ended, "dup" with ERROR_CODE_DUPLICATE_CONN. *)
(* started, closed, stopped, bye: the nodes that started to establish it,  *)
(* closed their senders, stopped a stream of the other, sent their goodbye *)
(* byte.                                                                   *)
NoConn == [status |-> "up", started |-> {}, closed |-> {}, stopped |-> {}, bye |-> {}]

(* Whatever ends a connection first decides how its end is seen.           *)
Close(conn, how) == IF conn.status = "up" THEN [conn EXCEPT !.status = how] ELSE conn

Task(c, step, role) ==
    [conn |-> c, step |-> step, role |-> role, connecting |-> FALSE]

(* The life of a connection at a node: establish, close the senders, and   *)
(* only then say goodbye.                                                  *)
ConnType ==
    { c \in [status: {"up", "dup", "lost"}, started: SUBSET Nodes, closed: SUBSET Nodes,
             stopped: SUBSET Nodes, bye: SUBSET Nodes] :
        c.closed \subseteq c.started /\ c.bye \subseteq c.closed }

(* The types of the manager's, the tasks' and the connections' state.      *)
TypeOK ==
    /\ manager \in [Nodes -> {"running", "shutdown", "stopped", "unknown peer",
                              "session not inactive", "closed while none",
                              "done not active", "done while session active"}]
    /\ \A n \in Nodes :
          /\ peer[n] \in [known: BOOLEAN, pending: SUBSET AllIntents(n),
                  conn_state: {"None", "Establishing", "Active", "Terminating"},
                  our_dial: SUBSET Conns, handle: SUBSET Conns,
                  session_state: {"None", "Active"}]
          /\ \A t \in tasks[n] :
                t \in [conn: Conns, step: {"Established", "Done", "Closed"},
                       role: {"Alfie", "Betty"}, connecting: BOOLEAN]
          /\ \A k \in DOMAIN ended[n] :
                ended[n][k].result \in {"ok", "err", "dup", "local", "aborted"}
          /\ sess[n].state \in {"none", "running", "ended"}
    /\ conns \in [Conns -> ConnType]
    /\ dials \in 0..MaxDials

-----------------------------------------------------------------------------

Init ==
    /\ manager = [n \in Nodes |-> "running"]
    /\ peer = [n \in Nodes |-> NoPeer]
    /\ tasks = [n \in Nodes |-> {}]
    /\ ended = [n \in Nodes |-> << >>]
    /\ incoming = [n \in Nodes |-> {}]
    /\ sess = [n \in Nodes |-> NoSession]
    /\ conns = [c \in Conns |-> NoConn]
    /\ over = [n \in Nodes |-> {}]
    /\ submitted = [n \in Nodes |-> {}]
    /\ dials = 0
    /\ failures = 0

Alive(n) == manager[n] \in {"running", "shutdown"}

(* The manager's task ends; its connections and tasks are dropped.         *)
Die(n, why) ==
    /\ manager' = [manager EXCEPT ![n] = why]
    /\ tasks' = [tasks EXCEPT ![n] = {}]
    /\ ended' = [ended EXCEPT ![n] = << >>]
    /\ conns' = [c \in Conns |->
                    IF \/ \E t \in tasks[n] : t.conn = c
                       \/ \E k \in DOMAIN ended[n] : ended[n][k].task.conn = c
                    THEN [conns[c] EXCEPT !.status = "lost"] ELSE conns[c]]
    /\ UNCHANGED << peer, incoming, sess, over, submitted, dials, failures >>

(* The next task is joined, and new ones are spawned.  Once its output is  *)
(* handled, a manager that shuts down stops if no task is left.            *)
Joining(n) == ended' = [ended EXCEPT ![n] = Tail(@)]

StopIfDone(n) ==
    manager' = [manager EXCEPT ![n] =
        IF @ = "shutdown" /\ tasks'[n] = {} /\ ended'[n] = << >> THEN "stopped" ELSE @]

Spawn(n, new) == tasks' = [tasks EXCEPT ![n] = @ \cup new]

(* Slip: the peer is dialed whatever the state of its connection is.       *)
ConnectIfInactive_Always(n, i) ==
    /\ dials < MaxDials
    /\ dials' = dials + 1
    /\ Spawn(n, {[Task(dials + 1, "Established", "Alfie") EXCEPT !.connecting = TRUE]})
    /\ peer' = [peer EXCEPT ![n] =
                    [i EXCEPT !.conn_state = "Establishing", !.our_dial = {dials + 1},
                              !.handle = {dials + 1}]]

(* connect_if_inactive for n's peer in the state i.                        *)
ConnectIfInactive(n, i) ==
    \/ /\ i.conn_state = "None" /\ dials < MaxDials
       /\ dials' = dials + 1
       /\ Spawn(n, {[Task(dials + 1, "Established", "Alfie") EXCEPT !.connecting = TRUE]})
       /\ peer' = [peer EXCEPT ![n] =
                        [i EXCEPT !.conn_state = "Establishing", !.our_dial = {dials + 1},
                                  !.handle = {dials + 1}]]
    \/ /\ i.conn_state # "None"
       /\ peer' = [peer EXCEPT ![n] = i]
       /\ UNCHANGED << tasks, dials >>

(* push_intent, and whether the intent went into the session.              *)
IntoSession(n) == peer[n].session_state = "Active" /\ sess[n].state = "running"

PushIntent(n, i) ==
    IF IntoSession(n) THEN peer[n] ELSE [peer[n] EXCEPT !.known = TRUE, !.pending = @ \cup {i}]

Enqueue(n, i) ==
    IF IntoSession(n) THEN [sess EXCEPT ![n].queued = @ \cup {i}] ELSE sess

(* submit_intent.                                                          *)
SubmitIntent(n, i) ==
    /\ manager[n] = "running"
    /\ i \in Intents[n] \ submitted[n]
    /\ submitted' = [submitted EXCEPT ![n] = @ \cup {i}]
    /\ sess' = Enqueue(n, i)
    /\ \/ IntoSession(n) /\ UNCHANGED << peer, tasks, dials >>
       \/ ~ IntoSession(n) /\ ConnectIfInactive(n, PushIntent(n, i))
    /\ UNCHANGED << manager, ended, incoming, conns, over, failures >>

(* handle_connection: does the new connection win over what there is?      *)
AcceptConn(n) ==
    \/ peer[n].conn_state \in {"None", "Terminating"}
    \/ peer[n].conn_state = "Establishing" /\ peer[n].our_dial # {} /\ Other(n) > n

(* The tasks of n that work on a dial that is cancelled.                   *)
Cancelled(n) == { t \in tasks[n] : t.conn \in peer[n].our_dial }

(* handle_connection.  A dial of ours that loses is cancelled, and closed  *)
(* as a duplicate if it is already connected.  The accept handler may      *)
(* refuse: the connection is dropped.                                      *)
HandleConnection(n, c) ==
    /\ manager[n] = "running"
    /\ c \in incoming[n]
    /\ incoming' = [incoming EXCEPT ![n] = @ \ {c}]
    /\ \/ /\ AcceptConn(n)
          /\ sess' = Enqueue(n, AcceptIntent(c))
          /\ tasks' = [tasks EXCEPT ![n] =
                          (@ \ Cancelled(n)) \cup {Task(c, "Established", "Betty")}]
          /\ ended' = [ended EXCEPT ![n] = @ \o
                          SetToSeq({ [task |-> t, result |-> "local"] : t \in Cancelled(n) })]
          /\ peer' = [peer EXCEPT ![n] = [PushIntent(n, AcceptIntent(c)) EXCEPT
                          !.known = TRUE, !.conn_state = "Establishing", !.our_dial = {},
                          !.handle = {c}]]
          /\ conns' = [d \in Conns |->
                CASE d = c -> [conns[d] EXCEPT !.started = @ \cup {n}]
                  [] d # c /\ \E t \in Cancelled(n) : t.conn = d /\ ~ t.connecting ->
                        Close(conns[d], "dup")
                  [] OTHER -> conns[d]]
          /\ submitted' = [submitted EXCEPT ![n] = @ \cup {AcceptIntent(c)}]
          /\ UNCHANGED failures
       \/ /\ ~ AcceptConn(n)
          /\ conns' = [conns EXCEPT ![c] = Close(@, "dup")]
          /\ UNCHANGED << peer, tasks, ended, sess, submitted, failures >>
       \/ /\ failures < MaxFailures
          /\ failures' = failures + 1
          /\ conns' = [conns EXCEPT ![c] = Close(@, "lost")]
          /\ UNCHANGED << peer, tasks, ended, sess, submitted >>
    /\ UNCHANGED << manager, over, dials >>

-----------------------------------------------------------------------------
(* The tasks.                                                              *)

End(n, t, result) ==
    /\ tasks' = [tasks EXCEPT ![n] = @ \ {t}]
    /\ ended' = [ended EXCEPT ![n] = Append(@, [task |-> t, result |-> result])]

(* endpoint.connect succeeds: the connection shows up at the other node.   *)
DialConnects(n, t) ==
    /\ t \in tasks[n] /\ t.connecting /\ manager[Other(n)] = "running"
    /\ tasks' = [tasks EXCEPT ![n] = (@ \ {t}) \cup {[t EXCEPT !.connecting = FALSE]}]
    /\ incoming' = [incoming EXCEPT ![Other(n)] = @ \cup {t.conn}]
    /\ conns' = [conns EXCEPT ![t.conn].started = @ \cup {n}]
    /\ UNCHANGED << manager, peer, ended, sess, over, submitted, dials, failures >>

(* establish has the other side's part of the initial transmission.        *)
EstablishOk(n, t) ==
    /\ t \in tasks[n] /\ t.step = "Established"
    /\ conns[t.conn].started = Nodes /\ conns[t.conn].status = "up"
    /\ End(n, t, "ok")
    /\ UNCHANGED << manager, peer, incoming, sess, conns, over, submitted, dials, failures >>

(* establish fails: the connection was closed or lost, or the node cannot  *)
(* be reached.  A duplicate is seen as the ConnectionError it is; if the   *)
(* close comes in the middle of a read or write, as that call's error.     *)
EstablishFails(n, t) ==
    /\ t \in tasks[n] /\ t.step = "Established"
    /\ \/ /\ ~ t.connecting /\ conns[t.conn].status = "dup"
          /\ End(n, t, "dup")
          /\ UNCHANGED failures
       \/ /\ ~ t.connecting /\ conns[t.conn].status = "dup" /\ failures < MaxFailures
          /\ End(n, t, "err")
          /\ failures' = failures + 1
       \/ /\ \/ ~ t.connecting /\ conns[t.conn].status = "lost"
             \/ t.connecting /\ manager[Other(n)] # "running"
          /\ End(n, t, "err")
          /\ UNCHANGED failures
    /\ UNCHANGED << manager, peer, incoming, sess, conns, over, submitted, dials >>

(* Slip: the channel loops end as soon as the other side closes.           *)
ChannelsEnd_TheirEnd(n, t) ==
    /\ t \in tasks[n] /\ t.step = "Done"
    /\ \/ Other(n) \in conns[t.conn].closed /\ End(n, t, "ok")
       \/ conns[t.conn].status # "up" /\ End(n, t, "err")
    /\ UNCHANGED << manager, peer, incoming, sess, conns, over, submitted, dials, failures >>

(* recv_loop finds its receiver gone with the session (BrokenPipe) when    *)
(* more of what the other side's session sent arrives: it stops the stream *)
(* and ends.                                                               *)
RecvStops(n, t) ==
    /\ t \in tasks[n] /\ t.step = "Done"
    /\ ~ (sess[n].state = "running" /\ sess[n].conn = t.conn)
    /\ sess[Other(n)].conn = t.conn \/ Other(n) \in conns[t.conn].closed
    /\ conns' = [conns EXCEPT ![t.conn].stopped = @ \cup {n}]
    /\ UNCHANGED << manager, peer, tasks, ended, incoming, sess, over, submitted, dials, failures >>

(* The channel loops end: we closed our senders, and the other side did or *)
(* our receive loops stopped its streams.  Or they fail, because the       *)
(* connection did or a write met a stopped stream, and the connection is   *)
(* dropped.                                                                *)
ChannelsEnd(n, t) ==
    /\ t \in tasks[n] /\ t.step = "Done"
    /\ LET c == conns[t.conn] IN
       \/ /\ n \in c.closed /\ (Other(n) \in c.closed \/ n \in c.stopped)
          /\ End(n, t, "ok")
          /\ UNCHANGED conns
       \/ /\ c.status # "up" \/ Other(n) \in c.stopped
          /\ End(n, t, "err")
          /\ conns' = [conns EXCEPT ![t.conn] = Close(@, "lost")]
    /\ UNCHANGED << manager, peer, incoming, sess, over, submitted, dials, failures >>

(* terminate_gracefully ends: the other goodbye, or an error.              *)
GoodbyeEnds(n, t) ==
    /\ t \in tasks[n] /\ t.step = "Closed"
    /\ \/ conns[t.conn].bye = Nodes /\ End(n, t, "ok")
       \/ conns[t.conn].status # "up" /\ End(n, t, "err")
    /\ UNCHANGED << manager, peer, incoming, sess, conns, over, submitted, dials, failures >>

(* A connection is lost, or a dial times out.                              *)
NetworkFailure(c) ==
    /\ failures < MaxFailures
    /\ failures' = failures + 1
    /\ \/ /\ conns[c].status = "up" /\ conns[c].started # {}
          /\ conns' = [conns EXCEPT ![c].status = "lost"]
          /\ UNCHANGED << tasks, ended >>
       \/ /\ \E n \in Nodes : \E t \in tasks[n] :
                t.conn = c /\ t.connecting /\ End(n, t, "err")
          /\ UNCHANGED conns
    /\ UNCHANGED << manager, peer, incoming, sess, over, submitted, dials >>

-----------------------------------------------------------------------------
(* The session (run_session), seen from outside.                           *)

(* The session takes the updates in its channel.                           *)
SessionTakesUpdates(n) ==
    /\ sess[n].state = "running" /\ sess[n].queued # {}
    /\ sess' = [sess EXCEPT ![n].active = @ \cup sess[n].queued, ![n].queued = {}]
    /\ UNCHANGED << manager, peer, tasks, ended, incoming, conns, over, submitted, dials, failures >>

(* The session ends: aborted, with an error of its own (try_join of its    *)
(* loops) or of its connection, by its own decision (all intents done or   *)
(* dropped), or because the other peer closed it.  Its update channel      *)
(* closes; the updates it has not taken go back, unless an error aborts    *)
(* them too.                                                               *)
SessionEnds(n) ==
    /\ sess[n].state = "running"
    /\ LET s == sess[n]
           c == conns[s.conn]
           end(keep) ==
                /\ sess' = [sess EXCEPT ![n].state = "ended", ![n].active = {},
                                        ![n].queued = {}, ![n].remaining = keep]
                /\ over' = [over EXCEPT ![n] = @ \cup s.active \cup (s.queued \ keep)]
       IN \/ (s.abort \/ c.status # "up") /\ end({}) /\ UNCHANGED failures
          \/ failures < MaxFailures /\ end({}) /\ failures' = failures + 1
          \/ ~ s.abort /\ end(s.queued) /\ UNCHANGED failures
    /\ UNCHANGED << manager, peer, tasks, ended, incoming, conns, submitted, dials >>

(* handle_session_event, Complete.                                         *)
HandleSessionComplete(n) ==
    /\ Alive(n)
    /\ sess[n].state = "ended"
    /\ conns' = [conns EXCEPT ![sess[n].conn].closed = @ \cup {n}]
    /\ sess' = [sess EXCEPT ![n] = NoSession]
    /\ LET i == [peer[n] EXCEPT !.pending = @ \cup sess[n].remaining, !.session_state = "None"]
       IN \/ /\ peer[n].known /\ i.conn_state = "None" /\ i.pending = {}
             /\ peer' = [peer EXCEPT ![n] = NoPeer]
             /\ UNCHANGED << tasks, dials >>
          \/ /\ peer[n].known /\ ~ (i.conn_state = "None" /\ i.pending = {})
             /\ ConnectIfInactive(n, i)
          \/ ~ peer[n].known /\ UNCHANGED << peer, tasks, dials >>
    /\ UNCHANGED << manager, ended, incoming, over, submitted, failures >>

-----------------------------------------------------------------------------
(* handle_conn_output, for the task that is joined.                        *)

Joined(n, step, results) ==
    /\ Alive(n) /\ ended[n] # << >>
    /\ Head(ended[n]).task.step = step /\ Head(ended[n]).result \in results
    /\ peer[n].known

(* .context("got conn task output for unknown peer")?                      *)
UnknownPeer(n) ==
    /\ Alive(n) /\ ended[n] # << >> /\ Head(ended[n]).result # "aborted"
    /\ ~ peer[n].known
    /\ Die(n, "unknown peer")

AbortPending(n) == over' = [over EXCEPT ![n] = @ \cup peer[n].pending]

(* Slip: a peer whose connection failed is forgotten with its intents.     *)
EstablishedErr_Forgets(n) ==
    /\ Joined(n, "Established", {"local", "dup", "err"})
    /\ Joining(n)
    /\ peer' = [peer EXCEPT ![n] = NoPeer]
    /\ UNCHANGED << tasks, incoming, sess, conns, over, submitted, dials, failures >>
    /\ StopIfDone(n)

(* ConnStep::Established(Err).                                             *)
EstablishedErr(n) ==
    /\ Joined(n, "Established", {"local", "dup", "err"})
    /\ Joining(n)
    /\ \/ Head(ended[n]).result = "local" /\ UNCHANGED << peer, over >>
       \/ /\ Head(ended[n]).result = "dup"
          /\ peer' = [peer EXCEPT ![n] =
                IF @.conn_state = "Establishing" /\ @.our_dial # {}
                THEN [@ EXCEPT !.conn_state = "None", !.our_dial = {}, !.handle = {}] ELSE @]
          /\ UNCHANGED over
       \/ /\ Head(ended[n]).result = "err"
          /\ \/ /\ peer[n].session_state = "None"
                /\ AbortPending(n)
                /\ peer' = [peer EXCEPT ![n] = NoPeer]
             \/ /\ peer[n].session_state = "Active"
                /\ peer' = [peer EXCEPT ![n].conn_state = "None", ![n].our_dial = {},
                                        ![n].handle = {}]
                /\ UNCHANGED over
    /\ UNCHANGED << tasks, incoming, sess, conns, submitted, dials, failures >>
    /\ StopIfDone(n)

(* ConnStep::Established(Ok): a session starts with the pending intents.   *)
EstablishedOk(n) ==
    /\ Joined(n, "Established", {"ok"})
    /\ LET t == Head(ended[n]).task IN
       \/ /\ peer[n].session_state = "Active"
          /\ Die(n, "session not inactive")
       \/ /\ peer[n].session_state = "None" /\ manager[n] = "shutdown"
          /\ Joining(n)
          /\ peer' = [peer EXCEPT ![n].pending = {}]
          /\ AbortPending(n)
          /\ conns' = [conns EXCEPT ![t.conn] = Close(@, "lost")]
          /\ UNCHANGED << tasks, incoming, sess, submitted, dials, failures >>
          /\ StopIfDone(n)
       \/ /\ peer[n].session_state = "None" /\ manager[n] = "running"
          /\ Joining(n)
          /\ Spawn(n, {Task(t.conn, "Done", t.role)})
          /\ sess' = [sess EXCEPT ![n] = [NoSession EXCEPT !.state = "running",
                            !.conn = t.conn, !.active = peer[n].pending]]
          /\ peer' = [peer EXCEPT ![n].pending = {}, ![n].conn_state = "Active",
                                  ![n].our_dial = {}, ![n].handle = {},
                                  ![n].session_state = "Active"]
          /\ UNCHANGED << incoming, conns, over, submitted, dials, failures >>
          /\ StopIfDone(n)

(* ConnStep::Done(Ok): say goodbye.                                        *)
DoneOk(n) ==
    /\ Joined(n, "Done", {"ok"})
    /\ LET t == Head(ended[n]).task IN
       \/ /\ peer[n].conn_state = "Active" /\ peer[n].session_state = "None"
          /\ Joining(n)
          /\ Spawn(n, {Task(t.conn, "Closed", t.role)})
          /\ peer' = [peer EXCEPT ![n].conn_state = "Terminating"]
          /\ conns' = [conns EXCEPT ![t.conn].bye = @ \cup {n}]
          /\ UNCHANGED << incoming, sess, over, submitted, dials, failures >>
          /\ StopIfDone(n)
       \/ peer[n].conn_state # "Active" /\ Die(n, "done not active")
       \/ /\ peer[n].conn_state = "Active" /\ peer[n].session_state = "Active"
          /\ Die(n, "done while session active")

(* Slip: a failed connection removes the peer, session or not.             *)
DoneErr_Removes(n) ==
    /\ Joined(n, "Done", {"err"})
    /\ Joining(n)
    /\ AbortPending(n)
    /\ peer' = [peer EXCEPT ![n] = NoPeer]
    /\ UNCHANGED << tasks, incoming, sess, conns, submitted, dials, failures >>
    /\ StopIfDone(n)

(* ConnStep::Done(Err).                                                    *)
DoneErr(n) ==
    /\ Joined(n, "Done", {"err"})
    /\ \/ /\ peer[n].conn_state = "Active" /\ peer[n].session_state = "Active"
          /\ Joining(n)
          /\ sess' = [sess EXCEPT ![n].abort = (sess[n].state = "running")]
          /\ peer' = [peer EXCEPT ![n].conn_state = "None"]
          /\ UNCHANGED << tasks, incoming, conns, over, submitted, dials, failures >>
          /\ StopIfDone(n)
       \/ /\ peer[n].conn_state = "Active" /\ peer[n].session_state = "None"
          /\ Joining(n)
          /\ AbortPending(n)
          /\ peer' = [peer EXCEPT ![n] = NoPeer]
          /\ UNCHANGED << tasks, incoming, sess, conns, submitted, dials, failures >>
          /\ StopIfDone(n)
       \/ peer[n].conn_state # "Active" /\ Die(n, "done not active")

(* ConnStep::Closed.                                                       *)
Closed(n) ==
    /\ Joined(n, "Closed", {"ok", "err"})
    /\ \/ /\ peer[n].conn_state = "Terminating"
          /\ Joining(n)
          /\ LET i == [peer[n] EXCEPT !.conn_state = "None"] IN
             \/ /\ i.pending # {} /\ Head(ended[n]).result = "ok"
                /\ ConnectIfInactive(n, i)
                /\ UNCHANGED over
             \/ /\ i.pending # {} /\ Head(ended[n]).result = "err"
                /\ AbortPending(n)
                /\ peer' = [peer EXCEPT ![n] = [i EXCEPT !.pending = {}]]
                /\ UNCHANGED << tasks, dials >>
             \/ /\ i.pending = {}
                /\ peer' = [peer EXCEPT ![n] = IF i.session_state = "None" THEN NoPeer ELSE i]
                /\ UNCHANGED << tasks, over, dials >>
          /\ UNCHANGED << incoming, sess, conns, submitted, failures >>
          /\ StopIfDone(n)
       \/ /\ peer[n].conn_state \in {"Establishing", "Active"}
          /\ Joining(n)
          /\ UNCHANGED << peer, tasks, incoming, sess, conns, over, submitted, dials,
                          failures >>
          /\ StopIfDone(n)
       \/ peer[n].conn_state = "None" /\ Die(n, "closed while none")

-----------------------------------------------------------------------------
(* Shutting down.                                                          *)

(* Input::Shutdown and init_shutdown: the task of the connection that is   *)
(* establishing is aborted, the one the abort_handle is for; a running     *)
(* session is told to abort.                                               *)
Shutdown(n) ==
    /\ n \in Stopping /\ manager[n] = "running"
    /\ LET aborted == IF peer[n].conn_state = "Establishing"
                      THEN { t \in tasks[n] : t.step = "Established" /\ t.conn \in peer[n].handle }
                      ELSE {}
       IN /\ manager' = [manager EXCEPT ![n] =
                IF tasks[n] = {} /\ ended[n] = << >> THEN "stopped" ELSE "shutdown"]
          /\ tasks' = [tasks EXCEPT ![n] = @ \ aborted]
          /\ ended' = [ended EXCEPT ![n] = @ \o
                          SetToSeq({ [task |-> t, result |-> "aborted"] : t \in aborted })]
          /\ conns' = [c \in Conns |->
                IF c \in incoming[n] \/ \E t \in aborted : t.conn = c
                THEN Close(conns[c], "lost") ELSE conns[c]]
    /\ sess' = [sess EXCEPT ![n].abort = (sess[n].state = "running")]
    /\ incoming' = [incoming EXCEPT ![n] = {}]
    /\ UNCHANGED << peer, over, submitted, dials, failures >>

(* A joined task that was aborted is skipped, with the test for the end.   *)
JoinAborted(n) ==
    /\ Alive(n) /\ ended[n] # << >> /\ Head(ended[n]).result = "aborted"
    /\ Joining(n)
    /\ UNCHANGED << manager, peer, tasks, incoming, sess, conns, over, submitted, dials, failures >>

(* The shutdown timeout expires.                                           *)
ShutdownEnds(n) ==
    /\ manager[n] = "shutdown"
    /\ Die(n, "stopped")

HandleOutput(n) ==
    \/ UnknownPeer(n)
    \/ EstablishedErr(n)
    \/ EstablishedOk(n)
    \/ DoneOk(n)
    \/ DoneErr(n)
    \/ Closed(n)
    \/ JoinAborted(n)

RunTask(n, t) ==
    \/ DialConnects(n, t)
    \/ EstablishOk(n, t)
    \/ EstablishFails(n, t)
    \/ ChannelsEnd(n, t)
    \/ GoodbyeEnds(n, t)

Next ==
    \/ \E n \in Nodes : \E i \in Intents[n] : SubmitIntent(n, i)
    \/ \E n \in Nodes, c \in Conns : HandleConnection(n, c)
    \/ \E n \in Nodes : \E t \in tasks[n] : RunTask(n, t)
    \/ \E n \in Nodes : \E t \in tasks[n] : RecvStops(n, t)
    \/ \E n \in Nodes : HandleOutput(n)
    \/ \E n \in Nodes : HandleSessionComplete(n)
    \/ \E n \in Nodes : SessionTakesUpdates(n)
    \/ \E n \in Nodes : SessionEnds(n)
    \/ \E n \in Nodes : Shutdown(n)
    \/ \E n \in Nodes : ShutdownEnds(n)
    \/ \E c \in Conns : NetworkFailure(c)

SessionMustEnd(n) ==
    /\ sess[n].state = "running"
    /\ LET c == conns[sess[n].conn]
       IN sess[n].abort \/ c.status # "up" \/ Other(n) \in c.closed

(* Tasks run, the manager's select loop serves every source, and a session *)
(* ends once it is aborted or the other peer has closed its end.           *)
Fairness ==
    \A n \in Nodes :
        /\ WF_vars(\E c \in Conns : HandleConnection(n, c))
        /\ WF_vars(\E t \in tasks[n] : RunTask(n, t))
        /\ WF_vars(HandleOutput(n))
        /\ WF_vars(HandleSessionComplete(n))
        /\ WF_vars(SessionTakesUpdates(n))
        /\ WF_vars(SessionMustEnd(n) /\ SessionEnds(n))

Spec == Init /\ [][Next]_vars /\ Fairness

-----------------------------------------------------------------------------

(* NO INTENT IS LOST.  While the manager lives, every intent it was given  *)
(* is in exactly one place: waiting at the peer, in the session or its     *)
(* channel, on its way back with the Complete event, or told of its end.   *)
Places(n) == << peer[n].pending, sess[n].active, sess[n].queued, sess[n].remaining, over[n] >>

NoIntentLost ==
    \A n \in Nodes : Alive(n) =>
        /\ submitted[n] = UNION { Places(n)[k] : k \in 1..5 }
        /\ \A j, k \in 1..5 : j < k => Places(n)[j] \cap Places(n)[k] = {}

(* SIMULTANEOUS DIALS.  However dials cross, two nodes never run sessions  *)
(* on two connections that are both up, and that the other node has not    *)
(* closed its end of.                                                      *)
OneConnection ==
    LET c(n) == sess[n].conn IN
    (\A n \in Nodes : /\ sess[n].state = "running" /\ conns[c(n)].status = "up"
                      /\ Other(n) \notin conns[c(n)].closed)
        => c(1) = c(2)

(* THE SESSION IS KNOWN.  However the ends of connections and sessions     *)
(* interleave, a living manager takes its peer's session for active just   *)
(* as long as there is one whose Complete event it has not handled: it     *)
(* never removes the peer of a session, nor waits for one that is over.    *)
SessionIsKnown ==
    \A n \in Nodes : Alive(n) =>
        (peer[n].session_state = "Active" <=> sess[n].state # "none")

(* The intents of an application are served by a session or told that they *)
(* are not, unless the manager stops (or the bound on dials is reached).   *)
IntentsGetServed ==
    \A n \in Nodes : \A i \in Intents[n] :
        (i \in submitted[n])
            ~> (i \in sess[n].active \cup over[n] \/ ~ Alive(n) \/ dials = MaxDials)

(* unreachable!("session must be inactive when connection establishes")    *)
SessionInactiveOnEstablish == \A n \in Nodes : manager[n] # "session not inactive"

(* unreachable!("ConnState::Closed may not happen while None")             *)
ClosedNotWhileNone == \A n \in Nodes : manager[n] # "closed while none"

(* unreachable!("connection state mismatch: Done comes after Active only") *)
DoneAfterActiveOnly == \A n \in Nodes : manager[n] # "done not active"

(* THE CHANNELS OUTLIVE THEIR SESSION.  When the channel loops of a        *)
(* connection end without an error, this node's session on that connection *)
(* has ended and its Complete event was handled: a session never finds its *)
(* channels closed by its own node.  A session on another connection may   *)
(* be active then, see NoActiveSessionOnDone.                              *)
GracefulEndAfterSession ==
    \A n \in Nodes : Alive(n) => \A k \in DOMAIN ended[n] :
        ended[n][k].task.step = "Done" /\ ended[n][k].result = "ok" =>
            ~ (sess[n].conn = ended[n][k].task.conn /\ peer[n].session_state = "Active")

(* "TODO: Can this happen?", and unreachable!("connection may not          *)
(* terminate gracefully while session is still active")                    *)
NoActiveSessionOnDone == \A n \in Nodes : manager[n] # "done while session active"

(* The manager does not give up because of a peer it no longer knows.      *)
NoOutputForUnknownPeer == \A n \in Nodes : manager[n] # "unknown peer"

(* The manager's view of the session is right, in every state it may have. *)
SessionInv == TypeOK /\ SessionIsKnown

=============================================================================
