-------------------------- MODULE PeerManager_proofs --------------------------
(***************************************************************************)
(* Proofs about the peer manager: what it knows of its session, where its  *)
(* intents are, how connections end, and that two nodes never run sessions *)
(* on two connections, for any number of intents, dials and failures.      *)
(*                                                                         *)
(* The tasks that run and those that have ended and are not joined yet are *)
(* looked at as one set, the work of a node; the lemmas of the first part  *)
(* say how every step changes it, and the invariants are about that set.   *)
(***************************************************************************)
EXTENDS PeerManager, SequenceTheorems, FiniteSetTheorems, TLAPS

TaskType == [conn: Conns, step: {"Established", "Done", "Closed"},
             role: {"Alfie", "Betty"}, connecting: BOOLEAN]

Results == {"ok", "err", "dup", "local", "aborted"}

OutputType == [task: TaskType, result: Results]

PeerType(n) == [known: BOOLEAN, pending: SUBSET AllIntents(n),
                conn_state: {"None", "Establishing", "Active", "Terminating"},
                our_dial: SUBSET Conns, handle: SUBSET Conns,
                session_state: {"None", "Active"}]

SessType(n) == [state: {"none", "running", "ended"}, conn: Conns \cup {0},
                active: SUBSET AllIntents(n), queued: SUBSET AllIntents(n),
                remaining: SUBSET AllIntents(n), abort: BOOLEAN]

ManagerType == {"running", "shutdown", "stopped", "unknown peer", "session not inactive",
                "closed while none", "done not active", "done while session active"}

ConnShape == [status: {"up", "dup", "lost"}, started: SUBSET Nodes, closed: SUBSET Nodes,
              stopped: SUBSET Nodes, bye: SUBSET Nodes]

(* The types of all variables.                                             *)
Types ==
    /\ manager \in [Nodes -> ManagerType]
    /\ DOMAIN peer = Nodes /\ \A n \in Nodes : peer[n] \in PeerType(n)
    /\ tasks \in [Nodes -> SUBSET TaskType]
    /\ ended \in [Nodes -> Seq(OutputType)]
    /\ incoming \in [Nodes -> SUBSET Conns]
    /\ DOMAIN sess = Nodes /\ \A n \in Nodes : sess[n] \in SessType(n)
    /\ conns \in [Conns -> ConnShape]
    /\ DOMAIN over = Nodes /\ \A n \in Nodes : over[n] \subseteq AllIntents(n)
    /\ DOMAIN submitted = Nodes /\ \A n \in Nodes : submitted[n] \subseteq AllIntents(n)
    /\ dials \in 0..MaxDials
    /\ failures \in Nat

(* Every task a node has spawned and not joined, with its output.          *)
Running(t) == [task |-> t, result |-> "runs"]

Output(t, r) == [task |-> t, result |-> r]

Runs(S) == { Running(t) : t \in S }

Outputs(S, r) == { Output(t, r) : t \in S }

WorkOf(T, E) == { Running(t) : t \in T } \cup { E[k] : k \in DOMAIN E }

Work(n) == WorkOf(tasks[n], ended[n])

(* A node works on a connection with one task at a time.                   *)
OneTaskOf(T, E) ==
    /\ IsFiniteSet(T)
    /\ \A j, k \in DOMAIN E : E[j] = E[k] => j = k
    /\ \A w, v \in WorkOf(T, E) : w.task.conn = v.task.conn => w = v

OneTask == \A n \in Nodes : OneTaskOf(tasks[n], ended[n])

(* What the steps of a task say of its connection.                         *)
TaskFits(n, w) ==
    LET c == conns[w.task.conn] IN
    /\ w.task.conn <= dials
    /\ w.task.connecting => w.task.step = "Established" /\ c.started = {}
    /\ ~ w.task.connecting => n \in c.started
    /\ w.result \notin {"ok", "runs"} => w.task.connecting \/ c.status # "up"
    /\ w.task.step = "Established" => n \notin c.closed /\ sess[n].conn # w.task.conn
    /\ w.task.step = "Established" /\ w.result = "ok" => c.started = Nodes
    /\ w.task.step = "Done" /\ w.result = "ok" => n \in c.closed
    /\ w.task.step = "Closed" => n \in c.closed

TasksFit == \A n \in Nodes : \A w \in Work(n) : TaskFits(n, w)

(* A dial is made by one node.                                             *)
OneDialer ==
    \A w \in Work(1), v \in Work(2) :
        w.task.connecting /\ v.task.connecting => w.task.conn # v.task.conn

(* The node holds the connection: it establishes it or runs its channels.  *)
Holds(n, c) == \E w \in Work(n) : w.task.conn = c /\ w.task.step \in {"Established", "Done"}

(* Connections: not dialed yet, waiting to be accepted, in use.            *)
ConnsFit ==
    /\ \A c \in Conns : dials < c => conns[c].started = {}
    /\ \A c \in Conns : conns[c].closed \subseteq conns[c].started
    /\ \A c \in Conns : conns[c].bye \subseteq conns[c].closed
    /\ \A n \in Nodes : \A c \in incoming[n] : conns[c].started = {Other(n)}
    /\ \A n \in Nodes : \A c \in Conns :
          n \in conns[c].started /\ conns[c].status = "up" /\ n \notin conns[c].closed
            => Holds(n, c)

(* The second node never gives way: it holds one connection, and none when *)
(* it would accept or dial another.                                        *)
OneHeldAt(n) ==
    /\ \A c, d \in Conns : Holds(n, c) /\ Holds(n, d) => c = d
    /\ peer[n].conn_state \in {"None", "Terminating"} => \A c \in Conns : ~ Holds(n, c)

OneHeld == OneHeldAt(2)

(* A session that runs or has ended has the connection it was started on,  *)
(* and this node has not closed its end.                                   *)
SessFits(n) ==
    /\ sess[n].state = "none" => sess[n] = NoSession
    /\ sess[n].state = "running" => sess[n].remaining = {}
    /\ sess[n].state = "ended" => sess[n].active = {} /\ sess[n].queued = {}
    /\ sess[n].state # "none" =>
          /\ sess[n].conn \in Conns
          /\ conns[sess[n].conn].started = Nodes
          /\ n \notin conns[sess[n].conn].closed

(* NoIntentLost for one node.                                              *)
KeptIn(S, P, A, Q, R, O) ==
    /\ S = P \cup A \cup Q \cup R \cup O
    /\ P \cap A = {} /\ P \cap Q = {} /\ P \cap R = {} /\ P \cap O = {}
    /\ A \cap Q = {} /\ A \cap R = {} /\ A \cap O = {}
    /\ Q \cap R = {} /\ Q \cap O = {} /\ R \cap O = {}

Kept(n) == KeptIn(submitted[n], peer[n].pending, sess[n].active, sess[n].queued,
                  sess[n].remaining, over[n])

KnownAt(n) == peer[n].session_state = "Active" <=> sess[n].state # "none"

(* The manager's view of its peer, its session and its intents.  A manager *)
(* that is not alive has no task, a peer that is not known has no state,   *)
(* and the intent for a connection is there once it is accepted.           *)
NodeAt(n) ==
    /\ ~ Alive(n) => tasks[n] = {} /\ ended[n] = << >>
    /\ ~ peer[n].known => peer[n] = NoPeer
    /\ SessFits(n)
    /\ \A c \in Conns : AcceptIntent(c) \in submitted[n] => n \in conns[c].started
    /\ Alive(n) => KnownAt(n) /\ Kept(n)

ManagerInv ==
    /\ Types
    /\ OneTask
    /\ TasksFit
    /\ OneDialer
    /\ ConnsFit
    /\ OneHeld
    /\ \A n \in Nodes : NodeAt(n)

(* What the lemmas on tasks and outputs assume of them, as relations.      *)
Fit(T, E) == T \subseteq TaskType /\ E \in Seq(OutputType) /\ OneTaskOf(T, E)

Dropped(T, S, U) == S \subseteq T /\ U = T \ S

Spawned(T, E, t, U) ==
    t \in TaskType /\ (\A w \in WorkOf(T, E) : w.task.conn # t.conn) /\ U = T \cup {t}

Appended(T, E, t, r, U, F) ==
    t \in T /\ r \in Results /\ U = T \ {t} /\ F = Append(E, Output(t, r))

Concatenated(E, S, r, F) == r \in Results /\ F = E \o SetToSeq(Outputs(S, r))

-----------------------------------------------------------------------------
(* How the steps of tasks change the work of a node.                       *)

(* What is in the work of a node.                                          *)
LEMMA WorkTypes ==
    ASSUME NEW T, T \subseteq TaskType, NEW E \in Seq(OutputType)
    PROVE  /\ \A w \in WorkOf(T, E) : w.task \in TaskType /\ w.result \in Results \cup {"runs"}
           /\ \A w \in WorkOf(T, E) : w = [task |-> w.task, result |-> w.result]
           /\ \A w \in WorkOf(T, E) : w.result = "runs" => w.task \in T /\ w = Running(w.task)
           /\ \A t \in T : Running(t) \in WorkOf(T, E)
           /\ \A k \in DOMAIN E : E[k] \in WorkOf(T, E) /\ E[k].result # "runs"
<1>1. \A k \in DOMAIN E : E[k] \in OutputType
  BY ElementOfSeq
<1>2. \A x \in OutputType : /\ x.task \in TaskType /\ x.result \in Results /\ x.result # "runs"
                             /\ x = [task |-> x.task, result |-> x.result]
  BY DEF OutputType, Results
<1>3. \A t : Running(t).task = t /\ Running(t).result = "runs"
              /\ Running(t) = [task |-> t, result |-> "runs"]
  BY DEF Running
<1> QED
  BY <1>1, <1>2, <1>3 DEF WorkOf

(* A task that runs is dropped.                                            *)
LEMMA WorkDrop ==
    ASSUME NEW T, NEW E, Fit(T, E), NEW S, NEW U, Dropped(T, S, U)
    PROVE  /\ OneTaskOf(U, E)
           /\ WorkOf(U, E) = WorkOf(T, E) \ Runs(S)
<1> USE DEF Fit, Dropped
<1>1. WorkOf(T \ S, E) = WorkOf(T, E) \ Runs(S)
  <2>1. \A t, u : Running(t) = Running(u) => t = u
    BY DEF Running
  <2>2. \A k \in DOMAIN E : \A t \in S : E[k] # Running(t)
    <3>1. \A k \in DOMAIN E : E[k].result # "runs"
      BY WorkTypes
    <3>2. \A t : Running(t).result = "runs"
      BY DEF Running
    <3> QED
      BY <3>1, <3>2
  <2> QED
    BY <2>1, <2>2 DEF WorkOf, Runs
<1>2. IsFiniteSet(T \ S)
  BY FS_Difference DEF OneTaskOf
<1> QED
  BY <1>1, <1>2 DEF OneTaskOf

(* Tasks on other connections are spawned.                                 *)
LEMMA WorkSpawn ==
    ASSUME NEW T, NEW E, Fit(T, E), NEW t, NEW U, Spawned(T, E, t, U)
    PROVE  /\ OneTaskOf(U, E)
           /\ WorkOf(U, E) = WorkOf(T, E) \cup {Running(t)}
<1> USE DEF Fit, Spawned
<1>1. WorkOf(T \cup {t}, E) = WorkOf(T, E) \cup {Running(t)}
  BY DEF WorkOf
<1>2. IsFiniteSet(T \cup {t})
  BY FS_AddElement DEF OneTaskOf
<1>3. Running(t).task = t
  BY DEF Running
<1> QED
  BY <1>1, <1>2, <1>3 DEF OneTaskOf

(* The first output is joined.                                             *)
LEMMA WorkTail ==
    ASSUME NEW T, NEW E, Fit(T, E), E # << >>
    PROVE  /\ Tail(E) \in Seq(OutputType)
           /\ Head(E) \in OutputType /\ Head(E) \in WorkOf(T, E)
           /\ OneTaskOf(T, Tail(E))
           /\ WorkOf(T, Tail(E)) = WorkOf(T, E) \ {Head(E)}
<1> USE DEF Fit
<1>1. /\ Tail(E) \in Seq(OutputType) /\ Len(Tail(E)) = Len(E) - 1 /\ Len(E) \in Nat \ {0}
      /\ \A k \in 1..(Len(E) - 1) : Tail(E)[k] = E[k + 1]
  BY HeadTailProperties
<1>2. Head(E) = E[1] /\ 1 \in DOMAIN E /\ DOMAIN E = 1..Len(E) /\ DOMAIN Tail(E) = 1..(Len(E) - 1)
  BY <1>1, HeadTailProperties, LenProperties
<1>3. Head(E) \in OutputType
  BY <1>2, ElementOfSeq
<1>4. { Tail(E)[k] : k \in DOMAIN Tail(E) } = { E[k] : k \in DOMAIN E } \ {Head(E)}
  <2>1. ASSUME NEW k \in 1..(Len(E) - 1)
        PROVE  Tail(E)[k] \in { E[j] : j \in DOMAIN E } \ {Head(E)}
    <3>1. k + 1 \in DOMAIN E /\ k + 1 # 1
      BY <1>1, <1>2
    <3> QED
      BY <1>1, <1>2, <3>1 DEF OneTaskOf
  <2>2. ASSUME NEW k \in DOMAIN E, E[k] # Head(E)
        PROVE  E[k] \in { Tail(E)[j] : j \in DOMAIN Tail(E) }
    <3>1. k - 1 \in 1..(Len(E) - 1) /\ (k - 1) + 1 = k
      BY <1>1, <1>2, <2>2
    <3> QED
      BY <1>1, <1>2, <3>1
  <2> QED
    BY <1>2, <2>1, <2>2
<1>5. \A t \in T : Running(t) # Head(E)
  BY <1>2, WorkTypes DEF Running
<1>6. WorkOf(T, Tail(E)) = WorkOf(T, E) \ {Head(E)}
  BY <1>4, <1>5 DEF WorkOf
<1>7. \A j, k \in DOMAIN Tail(E) : Tail(E)[j] = Tail(E)[k] => j = k
  <2> SUFFICES ASSUME NEW j \in 1..(Len(E) - 1), NEW k \in 1..(Len(E) - 1), Tail(E)[j] = Tail(E)[k]
               PROVE  j = k
    BY <1>2
  <2>1. j + 1 \in DOMAIN E /\ k + 1 \in DOMAIN E /\ E[j + 1] = E[k + 1]
    BY <1>1, <1>2
  <2>2. j + 1 = k + 1
    BY <2>1 DEF OneTaskOf
  <2> QED
    BY <1>1, <2>2
<1>8. Head(E) \in WorkOf(T, E)
  BY <1>2 DEF WorkOf
<1> QED
  BY <1>1, <1>3, <1>6, <1>7, <1>8 DEF OneTaskOf

(* A task ends and leaves its output.                                      *)
LEMMA WorkEnd ==
    ASSUME NEW T, NEW E, Fit(T, E),
           NEW t, NEW r, NEW U, NEW F, Appended(T, E, t, r, U, F)
    PROVE  /\ F \in Seq(OutputType)
           /\ OneTaskOf(U, F)
           /\ WorkOf(U, F) = (WorkOf(T, E) \ {Running(t)}) \cup {Output(t, r)}
<1> USE DEF Fit, Appended
<1> DEFINE o == Output(t, r)
<1>1. o \in OutputType /\ o.task = t /\ o.result = r /\ r # "runs"
  BY DEF Output, OutputType, Results
<1>2. Running(t) \in WorkOf(T, E) /\ Running(t).task = t /\ Running(t).result = "runs"
  BY WorkTypes DEF Running
<1>3. \A k \in DOMAIN E : E[k] \in WorkOf(T, E) /\ E[k] # o
  <2>1. ASSUME NEW k \in DOMAIN E, E[k] = o PROVE FALSE
    <3>1. E[k] \in WorkOf(T, E) /\ E[k].task.conn = Running(t).task.conn
      BY <1>1, <1>2, <2>1, WorkTypes
    <3>2. E[k] = Running(t)
      BY <1>2, <3>1 DEF OneTaskOf
    <3> QED
      BY <1>1, <1>2, <2>1, <3>2
  <2> QED
    BY <2>1, WorkTypes
<1>0. F = Append(E, o)
  OBVIOUS
<1> HIDE DEF o
<1>4. F \in Seq(OutputType) /\ Len(F) = Len(E) + 1 /\ F[Len(E) + 1] = o
      /\ \A k \in 1..Len(E) : F[k] = E[k]
  BY <1>0, <1>1, AppendProperties
<1>5. DOMAIN E = 1..Len(E) /\ Len(E) \in Nat /\ DOMAIN F = 1..(Len(E) + 1)
  BY <1>4, LenProperties
<1>6. { F[k] : k \in DOMAIN F } = { E[k] : k \in DOMAIN E } \cup {o}
  <2>1. ASSUME NEW k \in DOMAIN F PROVE F[k] \in { E[j] : j \in DOMAIN E } \cup {o}
    <3>1. k \in 1..Len(E) \/ k = Len(E) + 1
      BY <1>5
    <3> QED
      BY <1>4, <1>5, <3>1
  <2>2. ASSUME NEW k \in DOMAIN E PROVE E[k] \in { F[j] : j \in DOMAIN F }
    <3>1. k \in DOMAIN F /\ F[k] = E[k]
      BY <1>4, <1>5
    <3> QED
      BY <3>1
  <2>3. o \in { F[j] : j \in DOMAIN F }
    <3>1. Len(E) + 1 \in DOMAIN F
      BY <1>5
    <3> QED
      BY <1>4, <3>1
  <2> QED
    BY <2>1, <2>2, <2>3
<1>7. \A j, k \in DOMAIN F : F[j] = F[k] => j = k
  <2>1. ASSUME NEW j \in DOMAIN F
        PROVE  \/ j \in DOMAIN E /\ F[j] = E[j]
               \/ j = Len(E) + 1 /\ F[j] = o
    <3>1. j \in 1..Len(E) \/ j = Len(E) + 1
      BY <1>5
    <3> QED
      BY <1>4, <1>5, <3>1
  <2> QED
    BY <1>3, <2>1 DEF OneTaskOf
<1>8. WorkOf(U, F) = (WorkOf(T, E) \ {Running(t)}) \cup {o}
  <2>1. WorkOf(U, E) = WorkOf(T, E) \ {Running(t)}
    <3> DEFINE S == {t}
    <3>1. Dropped(T, S, U)
      BY DEF Dropped
    <3> HIDE DEF S
    <3>2. WorkOf(U, E) = WorkOf(T, E) \ Runs(S)
      BY <3>1, WorkDrop
    <3> QED
      BY <3>2 DEF S, Runs
  <2>2. WorkOf(U, F) = WorkOf(U, E) \cup {o}
    BY <1>6 DEF WorkOf
  <2> QED
    BY <2>1, <2>2
<1>9. IsFiniteSet(U)
  BY FS_RemoveElement DEF OneTaskOf
<1>10. \A w, v \in WorkOf(U, F) : w.task.conn = v.task.conn => w = v
  <2>1. \A w \in WorkOf(T, E) \ {Running(t)} : w.task.conn # o.task.conn
    BY <1>1, <1>2 DEF OneTaskOf
  <2> QED
    BY <1>8, <2>1 DEF OneTaskOf
<1>11. F \in Seq(OutputType) /\ OneTaskOf(U, F)
  BY <1>4, <1>7, <1>9, <1>10 DEF OneTaskOf
<1> QED
  BY <1>8, <1>11 DEF o

(* The sequence of a finite set.                                           *)
LEMMA SeqOfSet ==
    ASSUME NEW S, IsFiniteSet(S)
    PROVE  /\ SetToSeq(S) \in Seq(S)
           /\ { SetToSeq(S)[k] : k \in DOMAIN SetToSeq(S) } = S
           /\ \A j, k \in DOMAIN SetToSeq(S) : SetToSeq(S)[j] = SetToSeq(S)[k] => j = k
<1> DEFINE I == [1..Cardinality(S) -> S]
<1>1. Cardinality(S) \in Nat /\ ExistsBijection(1..Cardinality(S), S)
  BY FS_CardinalityType
<1>2. \E f \in I : IsInjective(f)
  BY <1>1 DEF ExistsBijection, Bijection, Injection
<1>3. SetToSeq(S) \in I /\ IsInjective(SetToSeq(S))
  BY <1>2 DEF SetToSeq
<1> DEFINE q == SetToSeq(S)
<1> HIDE DEF q
<1>4. q \in I /\ IsInjective(q)
  BY <1>3 DEF q
<1>5. q \in Injection(1..Cardinality(S), S)
  BY <1>4 DEF Injection
<1>6. IsFiniteSet(1..Cardinality(S)) /\ Cardinality(1..Cardinality(S)) = Cardinality(S)
  BY <1>1, FS_Interval
<1>7. q \in Surjection(1..Cardinality(S), S)
  BY <1>5, <1>6, FS_Injection
<1>8. { q[k] : k \in DOMAIN q } = S
  BY <1>4, <1>7 DEF Surjection
<1>9. q \in Seq(S)
  BY <1>1, <1>4
<1> QED
  BY <1>4, <1>8, <1>9 DEF q, IsInjective

(* Tasks are cancelled together and leave the same output.                 *)
LEMMA WorkCancel ==
    ASSUME NEW T, NEW E, Fit(T, E), NEW S, NEW U, Dropped(T, S, U),
           NEW r, NEW F, Concatenated(E, S, r, F)
    PROVE  /\ F \in Seq(OutputType)
           /\ OneTaskOf(U, F)
           /\ WorkOf(U, F) = (WorkOf(T, E) \ Runs(S))
                                    \cup Outputs(S, r)
<1>19. WorkOf(U, E) = WorkOf(T, E) \ Runs(S)
  BY WorkDrop
<1> USE DEF Fit, Dropped, Concatenated
<1> DEFINE O == Outputs(S, r)
           q == SetToSeq(O)
<1>0. F = E \o q
  OBVIOUS
<1>1. \A t \in S : /\ Output(t, r) \in OutputType /\ Output(t, r).task = t
                    /\ Output(t, r).result = r /\ r # "runs"
  BY DEF Output, OutputType, Results
<1>2. \A t \in S : /\ Running(t) \in WorkOf(T, E) /\ Running(t).task = t
                    /\ Running(t).result = "runs"
  BY WorkTypes DEF Running
<1>3. IsFiniteSet(O)
  <2>1. IsFiniteSet(S)
    BY FS_Subset DEF OneTaskOf
  <2> DEFINE f == [t \in S |-> Output(t, r)]
  <2>2. f \in Surjection(S, O)
    BY DEF Surjection, Outputs
  <2> HIDE DEF f
  <2> QED
    BY <2>1, <2>2, FS_Surjection
<1>4. O \subseteq OutputType
  BY <1>1 DEF Outputs
<1>5. \A k \in DOMAIN E : E[k] \in WorkOf(T, E) /\ E[k] \notin O
  <2>1. ASSUME NEW k \in DOMAIN E, NEW t \in S, E[k] = Output(t, r) PROVE FALSE
    <3>1. E[k] \in WorkOf(T, E) /\ E[k].task.conn = Running(t).task.conn
      BY <1>1, <1>2, <2>1, WorkTypes
    <3>2. E[k] = Running(t)
      BY <1>2, <3>1 DEF OneTaskOf
    <3>3. Output(t, r).result = r /\ r # "runs" /\ Running(t).result = "runs"
      BY <1>1, <1>2
    <3> QED
      BY <2>1, <3>2, <3>3
  <2> QED
    BY <2>1, WorkTypes DEF Outputs
<1>6. \A w \in WorkOf(T, E) \ Runs(S) : \A o \in O : w.task.conn # o.task.conn
  BY <1>1, <1>2 DEF OneTaskOf, Runs, Outputs
<1>7. \A o, p \in O : o.task.conn = p.task.conn => o = p
  <2>1. ASSUME NEW t \in S, NEW u \in S, t.conn = u.conn PROVE t = u
    BY <1>2, <2>1 DEF OneTaskOf
  <2> QED
    BY <1>1, <2>1 DEF Outputs
<1> HIDE DEF O
<1>8. /\ q \in Seq(O) /\ { q[k] : k \in DOMAIN q } = O
      /\ \A j, k \in DOMAIN q : q[j] = q[k] => j = k
  BY <1>3, SeqOfSet
<1>9. q \in Seq(OutputType) /\ \A k \in DOMAIN q : q[k] \in O
  <2>1. q \in [1..Len(q) -> O] /\ Len(q) \in Nat
    BY <1>8, LenProperties
  <2> HIDE DEF q
  <2> QED
    BY <1>4, <1>8, <2>1
<1> HIDE DEF q
<1>10. /\ F \in Seq(OutputType) /\ Len(F) = Len(E) + Len(q)
       /\ \A k \in 1..(Len(E) + Len(q)) : F[k] = IF k <= Len(E) THEN E[k] ELSE q[k - Len(E)]
  BY <1>0, <1>9, ConcatProperties
<1>11. /\ DOMAIN E = 1..Len(E) /\ DOMAIN q = 1..Len(q) /\ DOMAIN F = 1..(Len(E) + Len(q))
       /\ Len(E) \in Nat /\ Len(q) \in Nat
  BY <1>9, <1>10, LenProperties
<1>12. ASSUME NEW k \in DOMAIN F
       PROVE  \/ k \in DOMAIN E /\ F[k] = E[k]
              \/ k - Len(E) \in DOMAIN q /\ F[k] = q[k - Len(E)] /\ k > Len(E)
  BY <1>10, <1>11
<1>13. { F[k] : k \in DOMAIN F } = { E[k] : k \in DOMAIN E } \cup O
  <2>1. ASSUME NEW k \in DOMAIN F PROVE F[k] \in { E[j] : j \in DOMAIN E } \cup O
    BY <1>9, <1>12
  <2>2. ASSUME NEW k \in DOMAIN E PROVE E[k] \in { F[j] : j \in DOMAIN F }
    <3>1. k \in DOMAIN F /\ F[k] = E[k]
      BY <1>10, <1>11
    <3> QED
      BY <3>1
  <2>3. ASSUME NEW o \in O PROVE o \in { F[j] : j \in DOMAIN F }
    <3>1. PICK k \in DOMAIN q : q[k] = o
      BY <1>8
    <3>2. k + Len(E) \in DOMAIN F /\ ~ (k + Len(E) <= Len(E)) /\ (k + Len(E)) - Len(E) = k
      BY <1>11
    <3>3. F[k + Len(E)] = o
      BY <1>10, <1>11, <3>1, <3>2
    <3> QED
      BY <3>2, <3>3
  <2> QED
    BY <2>1, <2>2, <2>3
<1>14. ASSUME NEW j \in DOMAIN F, NEW k \in DOMAIN F, F[j] = F[k] PROVE j = k
  <2>1. CASE j \in DOMAIN E /\ F[j] = E[j] /\ k \in DOMAIN E /\ F[k] = E[k]
    BY <1>14, <2>1 DEF OneTaskOf
  <2>2. CASE /\ j - Len(E) \in DOMAIN q /\ F[j] = q[j - Len(E)]
             /\ k - Len(E) \in DOMAIN q /\ F[k] = q[k - Len(E)]
    <3>1. j - Len(E) = k - Len(E)
      BY <1>8, <1>14, <2>2
    <3> QED
      BY <1>11, <3>1
  <2>3. CASE /\ j \in DOMAIN E /\ F[j] = E[j]
             /\ k - Len(E) \in DOMAIN q /\ F[k] = q[k - Len(E)]
    BY <1>5, <1>9, <1>14, <2>3
  <2>4. CASE /\ k \in DOMAIN E /\ F[k] = E[k]
             /\ j - Len(E) \in DOMAIN q /\ F[j] = q[j - Len(E)]
    BY <1>5, <1>9, <1>14, <2>4
  <2> QED
    BY <1>12, <2>1, <2>2, <2>3, <2>4
<1>15. WorkOf(U, F) = (WorkOf(T, E) \ Runs(S)) \cup O
  <2>1. WorkOf(U, F) = WorkOf(U, E) \cup O
    BY <1>13 DEF WorkOf
  <2> QED
    BY <1>19, <2>1
<1>16. IsFiniteSet(U)
  BY FS_Difference DEF OneTaskOf
<1>17. \A w, v \in WorkOf(U, F) : w.task.conn = v.task.conn => w = v
  BY <1>6, <1>7, <1>15 DEF OneTaskOf
<1>18. F \in Seq(OutputType) /\ OneTaskOf(U, F)
  BY <1>10, <1>14, <1>16, <1>17 DEF OneTaskOf
<1> QED
  BY <1>15, <1>18 DEF O

-----------------------------------------------------------------------------
(* The same for the steps of the specification.                            *)

(* A step of node n takes the work out away and adds the work in.          *)
WorkStep(n, out, in) ==
    /\ tasks' \in [Nodes -> SUBSET TaskType]
    /\ ended' \in [Nodes -> Seq(OutputType)]
    /\ OneTask'
    /\ Work(n)' = (Work(n) \ out) \cup in
    /\ \A m \in Nodes \ {n} : Work(m)' = Work(m)

(* The types of the tasks and their outputs.                               *)
LEMMA TaskTypes ==
    ASSUME Types, NEW n \in Nodes
    PROVE  tasks[n] \subseteq TaskType /\ ended[n] \in Seq(OutputType)
BY DEF Types

(* From what a step does at n to what it does everywhere.                  *)
LEMMA StepAt ==
    ASSUME Types, OneTask, NEW n \in Nodes, NEW T, NEW E,
           tasks' = [tasks EXCEPT ![n] = T], ended' = [ended EXCEPT ![n] = E],
           T \subseteq TaskType, E \in Seq(OutputType), OneTaskOf(T, E)
    PROVE  /\ tasks' \in [Nodes -> SUBSET TaskType]
           /\ ended' \in [Nodes -> Seq(OutputType)]
           /\ OneTask'
           /\ Work(n)' = WorkOf(T, E)
           /\ \A m \in Nodes \ {n} : Work(m)' = Work(m)
<1>1. tasks'[n] = T /\ ended'[n] = E
  BY DEF Types
<1>2. \A m \in Nodes \ {n} : tasks'[m] = tasks[m] /\ ended'[m] = ended[m]
  BY DEF Types
<1>3. tasks' \in [Nodes -> SUBSET TaskType]
  BY DEF Types
<1>4. ended' \in [Nodes -> Seq(OutputType)]
  BY DEF Types
<1>5. OneTask'
  BY <1>1, <1>2 DEF OneTask
<1> QED
  BY <1>1, <1>2, <1>3, <1>4, <1>5 DEF Work

(* Neither tasks nor outputs change.                                       *)
LEMMA NoWork ==
    ASSUME Types, OneTask, NEW n \in Nodes, UNCHANGED << tasks, ended >>
    PROVE  WorkStep(n, {}, {})
<1>1. \A m \in Nodes : Work(m)' = Work(m)
  BY DEF Work
<1>2. OneTask'
  BY DEF OneTask
<1> QED
  BY <1>1, <1>2 DEF WorkStep, Types

(* End.                                                                    *)
LEMMA EndWork ==
    ASSUME Types, OneTask, NEW n \in Nodes, NEW t \in tasks[n], NEW r \in Results, End(n, t, r)
    PROVE  WorkStep(n, {Running(t)}, {Output(t, r)})
<1> DEFINE T == tasks[n] \ {t}
           E == Append(ended[n], Output(t, r))
<1>1. Fit(tasks[n], ended[n]) /\ tasks[n] \subseteq TaskType
  BY TaskTypes DEF OneTask, Fit
<1>0. Appended(tasks[n], ended[n], t, r, T, E)
  BY DEF Appended
<1>3. tasks' = [tasks EXCEPT ![n] = T] /\ ended' = [ended EXCEPT ![n] = E]
  BY DEF End, Output
<1>4. T \subseteq TaskType
  BY <1>1
<1> HIDE DEF T, E
<1>2. /\ E \in Seq(OutputType) /\ OneTaskOf(T, E)
      /\ WorkOf(T, E) = (WorkOf(tasks[n], ended[n]) \ {Running(t)}) \cup {Output(t, r)}
  BY <1>0, <1>1, WorkEnd
<1>5. /\ tasks' \in [Nodes -> SUBSET TaskType] /\ ended' \in [Nodes -> Seq(OutputType)]
      /\ OneTask' /\ Work(n)' = WorkOf(T, E)
      /\ \A m \in Nodes \ {n} : Work(m)' = Work(m)
  BY <1>2, <1>3, <1>4, StepAt
<1> QED
  BY <1>2, <1>5 DEF WorkStep, Work

(* Joining, with no task spawned.                                          *)
LEMMA JoinWork ==
    ASSUME Types, OneTask, NEW n \in Nodes, ended[n] # << >>, Joining(n), UNCHANGED tasks
    PROVE  /\ Head(ended[n]) \in Work(n) /\ Head(ended[n]) \in OutputType
           /\ WorkStep(n, {Head(ended[n])}, {})
<1> DEFINE T == tasks[n]
           E == Tail(ended[n])
<1>1. Fit(tasks[n], ended[n]) /\ tasks[n] \subseteq TaskType
  BY TaskTypes DEF OneTask, Fit
<1>2. /\ E \in Seq(OutputType) /\ OneTaskOf(T, E)
      /\ Head(ended[n]) \in OutputType /\ Head(ended[n]) \in WorkOf(tasks[n], ended[n])
      /\ WorkOf(T, E) = WorkOf(tasks[n], ended[n]) \ {Head(ended[n])}
  BY <1>1, WorkTail
<1>3. tasks' = [tasks EXCEPT ![n] = T] /\ ended' = [ended EXCEPT ![n] = E]
  BY DEF Joining, Types
<1>4. T \subseteq TaskType
  BY <1>1
<1> HIDE DEF T, E
<1>5. /\ tasks' \in [Nodes -> SUBSET TaskType] /\ ended' \in [Nodes -> Seq(OutputType)]
      /\ OneTask' /\ Work(n)' = WorkOf(T, E)
      /\ \A m \in Nodes \ {n} : Work(m)' = Work(m)
  BY <1>2, <1>3, <1>4, StepAt
<1> QED
  BY <1>2, <1>5 DEF WorkStep, Work

(* Joining, with a task spawned that takes the connection over or works on *)
(* another one than all tasks of the node.                                 *)
LEMMA JoinSpawnWork ==
    ASSUME Types, OneTask, NEW n \in Nodes, ended[n] # << >>, Joining(n),
           NEW u \in TaskType, Spawn(n, {u}),
           \A w \in Work(n) \ {Head(ended[n])} : w.task.conn # u.conn
    PROVE  /\ Head(ended[n]) \in Work(n) /\ Head(ended[n]) \in OutputType
           /\ WorkStep(n, {Head(ended[n])}, {Running(u)})
<1> DEFINE T == tasks[n] \cup {u}
           E == Tail(ended[n])
<1>1. Fit(tasks[n], ended[n]) /\ tasks[n] \subseteq TaskType
  BY TaskTypes DEF OneTask, Fit
<1>2. /\ E \in Seq(OutputType) /\ OneTaskOf(tasks[n], E)
      /\ Head(ended[n]) \in OutputType /\ Head(ended[n]) \in WorkOf(tasks[n], ended[n])
      /\ WorkOf(tasks[n], E) = WorkOf(tasks[n], ended[n]) \ {Head(ended[n])}
  BY <1>1, WorkTail
<1>3. tasks' = [tasks EXCEPT ![n] = T] /\ ended' = [ended EXCEPT ![n] = E]
  BY DEF Joining, Spawn
<1>4. T \subseteq TaskType
  BY <1>1
<1>5. \A w \in WorkOf(tasks[n], E) : w.task.conn # u.conn
  BY <1>2 DEF Work
<1>0. Spawned(tasks[n], E, u, T) /\ Fit(tasks[n], E)
  BY <1>1, <1>2, <1>5 DEF Spawned, Fit
<1> HIDE DEF T, E
<1>6. OneTaskOf(T, E) /\ WorkOf(T, E) = WorkOf(tasks[n], E) \cup {Running(u)}
  BY <1>1, <1>0, <1>2, <1>5, WorkSpawn
<1>7. /\ tasks' \in [Nodes -> SUBSET TaskType] /\ ended' \in [Nodes -> Seq(OutputType)]
      /\ OneTask' /\ Work(n)' = WorkOf(T, E)
      /\ \A m \in Nodes \ {n} : Work(m)' = Work(m)
  BY <1>2, <1>3, <1>4, <1>6, StepAt
<1> QED
  BY <1>2, <1>6, <1>7 DEF WorkStep, Work

(* A task on another connection is spawned.                                *)
LEMMA SpawnWork ==
    ASSUME Types, OneTask, NEW n \in Nodes, NEW u \in TaskType, Spawn(n, {u}),
           UNCHANGED ended, \A w \in Work(n) : w.task.conn # u.conn
    PROVE  WorkStep(n, {}, {Running(u)})
<1> DEFINE T == tasks[n] \cup {u}
           E == ended[n]
<1>1. Fit(tasks[n], ended[n]) /\ tasks[n] \subseteq TaskType
  BY TaskTypes DEF OneTask, Fit
<1>2. tasks' = [tasks EXCEPT ![n] = T] /\ ended' = [ended EXCEPT ![n] = E]
  BY DEF Spawn, Types
<1>3. T \subseteq TaskType
  BY <1>1
<1>0. Spawned(tasks[n], E, u, T) /\ E \in Seq(OutputType)
  BY <1>1 DEF Work, Spawned, Fit
<1> HIDE DEF T
<1>4. OneTaskOf(T, E) /\ WorkOf(T, E) = WorkOf(tasks[n], E) \cup {Running(u)}
  BY <1>0, <1>1, WorkSpawn
<1>5. /\ tasks' \in [Nodes -> SUBSET TaskType] /\ ended' \in [Nodes -> Seq(OutputType)]
      /\ OneTask' /\ Work(n)' = WorkOf(T, E)
      /\ \A m \in Nodes \ {n} : Work(m)' = Work(m)
  BY <1>0, <1>2, <1>3, <1>4, StepAt
<1> QED
  BY <1>4, <1>5 DEF WorkStep, Work

(* A task is replaced by one on the same connection.                       *)
LEMMA ReplaceWork ==
    ASSUME Types, OneTask, NEW n \in Nodes, NEW t \in tasks[n], NEW u \in TaskType,
           u.conn = t.conn, tasks' = [tasks EXCEPT ![n] = (@ \ {t}) \cup {u}], UNCHANGED ended
    PROVE  WorkStep(n, {Running(t)}, {Running(u)})
<1> DEFINE S == {t}
           R == tasks[n] \ S
           T == R \cup {u}
           E == ended[n]
<1>1. Fit(tasks[n], ended[n]) /\ tasks[n] \subseteq TaskType
  BY TaskTypes DEF OneTask, Fit
<1>2. tasks' = [tasks EXCEPT ![n] = T] /\ ended' = [ended EXCEPT ![n] = E]
  BY DEF Types
<1>3. T \subseteq TaskType /\ R \subseteq TaskType /\ S \subseteq tasks[n] /\ Runs(S) = {Running(t)}
  BY <1>1 DEF Runs
<1>0. Dropped(tasks[n], S, R) /\ T = R \cup {u} /\ E \in Seq(OutputType)
  BY <1>1 DEF Dropped, Fit
<1> HIDE DEF S, R, T
<1>4. OneTaskOf(R, E) /\ WorkOf(R, E) = WorkOf(tasks[n], E) \ Runs(S)
  BY <1>0, <1>1, WorkDrop
<1>5. \A w \in WorkOf(R, E) : w.task.conn # u.conn
  <2>1. Running(t) \in WorkOf(tasks[n], E) /\ Running(t).task = t
    BY <1>0, <1>1, WorkTypes DEF Running
  <2> QED
    BY <1>1, <1>3, <1>4, <2>1 DEF OneTaskOf, Fit
<1>8. Fit(R, E) /\ Spawned(R, E, u, T)
  BY <1>0, <1>3, <1>4, <1>5 DEF Fit, Spawned
<1>6. OneTaskOf(T, E) /\ WorkOf(T, E) = WorkOf(R, E) \cup {Running(u)}
  BY <1>8, WorkSpawn
<1>7. /\ tasks' \in [Nodes -> SUBSET TaskType] /\ ended' \in [Nodes -> Seq(OutputType)]
      /\ OneTask' /\ Work(n)' = WorkOf(T, E)
      /\ \A m \in Nodes \ {n} : Work(m)' = Work(m)
  BY ONLY Types, OneTask, n \in Nodes, <1>0, <1>2, <1>3, <1>6, StepAt
<1> QED
  BY <1>3, <1>4, <1>6, <1>7 DEF WorkStep, Work

(* Tasks are cancelled.                                                    *)
LEMMA CancelWork ==
    ASSUME Types, OneTask, NEW n \in Nodes, NEW S, S \subseteq tasks[n], NEW r \in Results,
           tasks' = [tasks EXCEPT ![n] = @ \ S],
           ended' = [ended EXCEPT ![n] = @ \o SetToSeq(Outputs(S, r))]
    PROVE  WorkStep(n, Runs(S), Outputs(S, r))
<1> DEFINE T == tasks[n] \ S
           E == ended[n] \o SetToSeq(Outputs(S, r))
<1>1. Fit(tasks[n], ended[n]) /\ tasks[n] \subseteq TaskType
  BY TaskTypes DEF OneTask, Fit
<1>0. Dropped(tasks[n], S, T) /\ Concatenated(ended[n], S, r, E)
  BY DEF Dropped, Concatenated
<1>3. tasks' = [tasks EXCEPT ![n] = T] /\ ended' = [ended EXCEPT ![n] = E]
  OBVIOUS
<1>4. T \subseteq TaskType
  BY <1>1
<1> HIDE DEF T, E
<1>2. /\ E \in Seq(OutputType) /\ OneTaskOf(T, E)
      /\ WorkOf(T, E) = (WorkOf(tasks[n], ended[n]) \ Runs(S)) \cup Outputs(S, r)
  BY <1>0, <1>1, WorkCancel
<1>5. /\ tasks' \in [Nodes -> SUBSET TaskType] /\ ended' \in [Nodes -> Seq(OutputType)]
      /\ OneTask' /\ Work(n)' = WorkOf(T, E)
      /\ \A m \in Nodes \ {n} : Work(m)' = Work(m)
  BY <1>2, <1>3, <1>4, StepAt
<1> QED
  BY <1>2, <1>5 DEF WorkStep, Work

(* Tasks are cancelled and one on another connection is spawned.           *)
LEMMA CancelSpawnWork ==
    ASSUME Types, OneTask, NEW n \in Nodes, NEW S, S \subseteq tasks[n], NEW r \in Results,
           NEW u \in TaskType, \A w \in Work(n) : w.task.conn # u.conn,
           tasks' = [tasks EXCEPT ![n] = (@ \ S) \cup {u}],
           ended' = [ended EXCEPT ![n] = @ \o SetToSeq(Outputs(S, r))]
    PROVE  WorkStep(n, Runs(S), Outputs(S, r) \cup {Running(u)})
<1> DEFINE R == tasks[n] \ S
           T == R \cup {u}
           E == ended[n] \o SetToSeq(Outputs(S, r))
<1>1. Fit(tasks[n], ended[n]) /\ tasks[n] \subseteq TaskType
  BY TaskTypes DEF OneTask, Fit
<1>0. Dropped(tasks[n], S, R) /\ Concatenated(ended[n], S, r, E) /\ T = R \cup {u}
  BY DEF Dropped, Concatenated
<1>3. tasks' = [tasks EXCEPT ![n] = T] /\ ended' = [ended EXCEPT ![n] = E]
  OBVIOUS
<1>4. T \subseteq TaskType /\ R \subseteq TaskType
  BY <1>1
<1> HIDE DEF R, T, E
<1>2. /\ E \in Seq(OutputType) /\ OneTaskOf(R, E)
      /\ WorkOf(R, E) = (WorkOf(tasks[n], ended[n]) \ Runs(S)) \cup Outputs(S, r)
  BY <1>0, <1>1, WorkCancel
<1>5. \A w \in WorkOf(R, E) : w.task.conn # u.conn
  <2>1. \A o \in Outputs(S, r) : \E t \in tasks[n] : o.task = t
    BY DEF Outputs, Output
  <2>2. \A t \in tasks[n] : Running(t) \in WorkOf(tasks[n], ended[n]) /\ Running(t).task = t
    BY <1>1, WorkTypes DEF Running, Fit
  <2> QED
    BY <1>2, <2>1, <2>2 DEF Work
<1>8. Fit(R, E) /\ Spawned(R, E, u, T)
  BY <1>0, <1>2, <1>4, <1>5 DEF Fit, Spawned
<1>6. OneTaskOf(T, E) /\ WorkOf(T, E) = WorkOf(R, E) \cup {Running(u)}
  BY <1>8, WorkSpawn
<1>7. /\ tasks' \in [Nodes -> SUBSET TaskType] /\ ended' \in [Nodes -> Seq(OutputType)]
      /\ OneTask' /\ Work(n)' = WorkOf(T, E)
      /\ \A m \in Nodes \ {n} : Work(m)' = Work(m)
  BY ONLY Types, OneTask, n \in Nodes, <1>2, <1>3, <1>4, <1>6, StepAt
<1> QED
  BY <1>2, <1>6, <1>7 DEF WorkStep, Work

(* The manager's task ends.                                                *)
LEMMA DieWork ==
    ASSUME Types, OneTask, NEW n \in Nodes, NEW why, Die(n, why)
    PROVE  WorkStep(n, Work(n), {})
<1> DEFINE T == {}
           E == << >>
<1>1. tasks' = [tasks EXCEPT ![n] = T] /\ ended' = [ended EXCEPT ![n] = E]
  BY DEF Die
<1>2. T \subseteq TaskType /\ E \in Seq(OutputType)
  OBVIOUS
<1>3. OneTaskOf(T, E) /\ WorkOf(T, E) = {}
  BY FS_EmptySet DEF OneTaskOf, WorkOf
<1> HIDE DEF T, E
<1>4. /\ tasks' \in [Nodes -> SUBSET TaskType] /\ ended' \in [Nodes -> Seq(OutputType)]
      /\ OneTask' /\ Work(n)' = WorkOf(T, E)
      /\ \A m \in Nodes \ {n} : Work(m)' = Work(m)
  BY <1>1, <1>2, <1>3, StepAt
<1> QED
  BY <1>3, <1>4 DEF WorkStep

-----------------------------------------------------------------------------
(* The invariants of connections and tasks, for the kinds of steps there   *)
(* are.                                                                    *)

(* The types of what a node works on.                                      *)
LEMMA InWork ==
    ASSUME Types, NEW n \in Nodes
    PROVE  /\ \A w \in Work(n) : /\ w.task \in TaskType /\ w.task.conn \in Conns
                                 /\ w.task.connecting \in BOOLEAN
                                 /\ w.result \in Results \cup {"runs"}
           /\ \A t \in tasks[n] : Running(t) \in Work(n) /\ Running(t).task = t
                                  /\ Running(t).result = "runs"
           /\ \A k \in DOMAIN ended[n] : ended[n][k] \in Work(n)
<1>1. tasks[n] \subseteq TaskType /\ ended[n] \in Seq(OutputType)
  BY TaskTypes
<1>2. \A t \in TaskType : t.conn \in Conns /\ t.connecting \in BOOLEAN
  BY DEF TaskType
<1>3. \A t : Running(t).task = t /\ Running(t).result = "runs"
  BY DEF Running
<1> QED
  BY <1>1, <1>2, <1>3, WorkTypes DEF Work

(* A step that starts no connection.                                       *)
LEMMA RegularStep ==
    ASSUME Types, Types', TasksFit, OneDialer, ConnsFit,
           NEW n \in Nodes, NEW out, NEW in, WorkStep(n, out, in),
           dials <= dials',
           \A m \in Nodes : incoming'[m] \subseteq incoming[m],
           \A c \in Conns :
              /\ conns'[c].started = conns[c].started
              /\ conns[c].closed \subseteq conns'[c].closed
              /\ conns'[c].closed \subseteq conns[c].closed \cup {n}
              /\ conns'[c].closed \subseteq conns'[c].started
              /\ conns'[c].status = "up" => conns[c].status = "up"
              /\ conns'[c].bye \subseteq conns'[c].closed,
           \A m \in Nodes \ {n} : sess'[m].conn = sess[m].conn,
           \A w \in Work(n) \ out : w.task.step = "Established" =>
              n \notin conns'[w.task.conn].closed /\ sess'[n].conn # w.task.conn,
           \A w \in in : TaskFits(n, w)',
           \A w \in in : w.task.connecting =>
              dials < w.task.conn \/ \E v \in Work(n) : v.task.connecting /\ v.task.conn = w.task.conn,
           \A w \in out : w.task.step \in {"Established", "Done"} =>
              \/ \E v \in in : v.task.conn = w.task.conn /\ v.task.step \in {"Established", "Done"}
              \/ w.task.connecting
              \/ conns'[w.task.conn].status # "up" \/ n \in conns'[w.task.conn].closed
    PROVE  TasksFit' /\ OneDialer' /\ ConnsFit'
<1> USE DEF Nodes
<1>1. \A m \in Nodes : \A w \in Work(m) : w.task.conn \in Conns /\ w.task.connecting \in BOOLEAN
                        /\ w.task.conn \in Nat /\ w.result \in Results \cup {"runs"}
  BY InWork, ManagerAssumption DEF Conns
<1>2. dials \in Nat /\ dials' \in Nat /\ \A c \in Conns : c \in Nat
  BY ManagerAssumption DEF Types, Conns
<1>3. ASSUME NEW m \in Nodes, NEW w \in Work(m), m = n => w \notin out
      PROVE  TaskFits(m, w)'
  <2>1. TaskFits(m, w) /\ w.task.conn \in Conns /\ w.task.conn \in Nat
    BY <1>1 DEF TasksFit
  <2>2. w.task.step = "Established" => m \notin conns'[w.task.conn].closed
                                       /\ sess'[m].conn # w.task.conn
    <3>1. CASE m = n
      BY <1>3, <3>1
    <3>2. CASE m # n
      BY <2>1, <3>2 DEF TaskFits
    <3> QED
      BY <3>1, <3>2
  <2>3. m \in conns[w.task.conn].closed => m \in conns'[w.task.conn].closed
    BY <2>1
  <2> QED
    BY <1>2, <2>1, <2>2, <2>3 DEF TaskFits
<1>4. TasksFit'
  BY <1>3 DEF TasksFit, WorkStep
<1>5. OneDialer'
  <2> SUFFICES ASSUME NEW w \in Work(1)', NEW v \in Work(2)', w.task.connecting,
                      v.task.connecting, w.task.conn = v.task.conn
               PROVE  FALSE
    BY DEF OneDialer
  <2>1. \A m \in Nodes : \A u \in Work(m) : u.task.conn <= dials
    BY DEF TasksFit, TaskFits
  <2>2. CASE n = 1
    <3>1. v \in Work(2)
      BY <2>2 DEF WorkStep
    <3>2. w \in Work(1) \/ w \in in
      BY <2>2 DEF WorkStep
    <3>3. CASE w \in Work(1)
      BY <3>1, <3>3 DEF OneDialer
    <3>4. CASE w \in in
      <4>1. ~ (dials < w.task.conn)
        BY <1>1, <1>2, <2>1, <3>1
      <4>2. PICK u \in Work(1) : u.task.connecting /\ u.task.conn = w.task.conn
        BY <2>2, <3>4, <4>1
      <4> QED
        BY <3>1, <4>2 DEF OneDialer
    <3> QED
      BY <3>2, <3>3, <3>4
  <2>3. CASE n = 2
    <3>1. w \in Work(1)
      BY <2>3 DEF WorkStep
    <3>2. v \in Work(2) \/ v \in in
      BY <2>3 DEF WorkStep
    <3>3. CASE v \in Work(2)
      BY <3>1, <3>3 DEF OneDialer
    <3>4. CASE v \in in
      <4>1. ~ (dials < v.task.conn)
        BY <1>1, <1>2, <2>1, <3>1
      <4>2. PICK u \in Work(2) : u.task.connecting /\ u.task.conn = v.task.conn
        BY <2>3, <3>4, <4>1
      <4> QED
        BY <3>1, <4>2 DEF OneDialer
    <3> QED
      BY <3>2, <3>3, <3>4
  <2> QED
    BY <2>2, <2>3
<1>6. ASSUME NEW m \in Nodes, NEW c \in Conns,
             m \in conns'[c].started, conns'[c].status = "up", m \notin conns'[c].closed
      PROVE  Holds(m, c)'
  <2>1. m \in conns[c].started /\ conns[c].status = "up" /\ m \notin conns[c].closed
    BY <1>6
  <2>2. PICK w \in Work(m) : w.task.conn = c /\ w.task.step \in {"Established", "Done"}
    BY <2>1 DEF ConnsFit, Holds
  <2>3. CASE m = n => w \notin out
    BY <2>2, <2>3 DEF WorkStep, Holds
  <2>4. CASE m = n /\ w \in out
    <3>1. ~ w.task.connecting
      BY <2>1, <2>2 DEF TasksFit, TaskFits
    <3>2. PICK v \in in : v.task.conn = c /\ v.task.step \in {"Established", "Done"}
      BY <1>6, <2>2, <2>4, <3>1
    <3> QED
      BY <2>4, <3>2 DEF WorkStep, Holds
  <2> QED
    BY <2>3, <2>4
<1>7. \A c \in Conns : dials' < c => conns'[c].started = {}
  BY <1>2 DEF ConnsFit
<1>8. \A m \in Nodes : \A c \in incoming'[m] : conns'[c].started = {Other(m)}
  <2>1. \A m \in Nodes : incoming[m] \subseteq Conns
    BY DEF Types
  <2> QED
    BY <2>1 DEF ConnsFit
<1>9. ConnsFit'
  BY <1>6, <1>7, <1>8 DEF ConnsFit, Other
<1> QED
  BY <1>4, <1>5, <1>9

(* The node holds no more than before.                                     *)
LEMMA HeldKept ==
    ASSUME OneHeldAt(2), NEW n \in Nodes, NEW out, NEW in, WorkStep(n, out, in),
           \A m \in Nodes \ {n} : peer'[m] = peer[m],
           peer'[n].conn_state \in {"None", "Terminating"} => peer[n].conn_state \in {"None", "Terminating"},
           \A w \in in : w.task.step \in {"Established", "Done"} =>
              \E v \in out : v \in Work(n) /\ v.task.conn = w.task.conn /\ v.task.step \in {"Established", "Done"}
    PROVE  OneHeldAt(2)'
<1> USE DEF Nodes
<1>1. \A c : Holds(n, c)' => Holds(n, c)
  BY DEF WorkStep, Holds
<1>2. \A c : \A m \in Nodes \ {n} : Holds(m, c)' => Holds(m, c)
  BY DEF WorkStep, Holds
<1> QED
  BY <1>1, <1>2 DEF OneHeldAt

(* What the node held is joined.                                           *)
LEMMA HeldJoined ==
    ASSUME Types, OneTask, OneHeldAt(2), NEW n \in Nodes, NEW w \in Work(n), NEW in,
           WorkStep(n, {w}, in), w.task.step \in {"Established", "Done"},
           \A m \in Nodes \ {n} : peer'[m] = peer[m],
           \A v \in in : v.task.step = "Closed"
    PROVE  OneHeldAt(2)'
<1> USE DEF Nodes
<1>1. CASE n = 2
  <2>1. w.task.conn \in Conns /\ Holds(2, w.task.conn)
    BY <1>1, InWork DEF Holds
  <2>2. \A c \in Conns : ~ Holds(2, c)'
    <3> SUFFICES ASSUME NEW c \in Conns, Holds(2, c)' PROVE FALSE
      OBVIOUS
    <3>1. PICK v \in Work(2)' : v.task.conn = c /\ v.task.step \in {"Established", "Done"}
      BY DEF Holds
    <3>2. v \in Work(2) /\ v # w
      BY <1>1, <3>1 DEF WorkStep
    <3>3. c = w.task.conn
      BY <2>1, <3>1, <3>2 DEF OneHeldAt, Holds
    <3> QED
      BY <1>1, <3>1, <3>2, <3>3 DEF OneTask, OneTaskOf, Work
  <2> QED
    BY <2>2 DEF OneHeldAt
<1>2. CASE n # 2
  BY <1>2 DEF OneHeldAt, WorkStep, Holds
<1> QED
  BY <1>1, <1>2

(* A node that held none takes a connection.                               *)
TakesOnly(n, in, c) ==
    \A v \in in : v.task.step \in {"Established", "Done"} =>
        \/ v.task.conn = c
        \/ \E w \in Work(n) : w.task.conn \in Conns /\ w.task.conn = v.task.conn
                              /\ w.task.step \in {"Established", "Done"}

(* Then it holds that one only.                                            *)
LEMMA HeldNew ==
    ASSUME OneHeldAt(2), NEW n \in Nodes, NEW out, NEW in, WorkStep(n, out, in),
           \A m \in Nodes \ {n} : peer'[m] = peer[m],
           n = 2 => peer[n].conn_state \in {"None", "Terminating"},
           peer'[n].conn_state = "Establishing",
           NEW c, TakesOnly(n, in, c)
    PROVE  OneHeldAt(2)'
<1> USE DEF Nodes
<1>1. CASE n = 2
  <2>1. \A d \in Conns : ~ Holds(2, d)
    BY <1>1 DEF OneHeldAt
  <2>2. ASSUME NEW d \in Conns, Holds(2, d)' PROVE d = c
    <3>1. PICK v \in Work(2)' : v.task.conn = d /\ v.task.step \in {"Established", "Done"}
      BY <2>2 DEF Holds
    <3>2. v \in Work(2) \/ v \in in
      BY <1>1, <3>1 DEF WorkStep
    <3> QED
      BY <1>1, <2>1, <3>1, <3>2 DEF Holds, TakesOnly
  <2> QED
    BY <1>1, <2>2 DEF OneHeldAt
<1>2. CASE n # 2
  BY <1>2 DEF OneHeldAt, WorkStep, Holds
<1> QED
  BY <1>1, <1>2

-----------------------------------------------------------------------------
(* What the invariant says, and the node that does not move.               *)

(* The properties of the runs follow from the invariant.                   *)
LEMMA InvProperties ==
    ASSUME ManagerInv
    PROVE  TypeOK /\ SessionIsKnown /\ NoIntentLost /\ OneConnection /\ GracefulEndAfterSession
<1> USE DEF Nodes
<1>1. TypeOK
  <2>1. \A n \in Nodes : \A k \in DOMAIN ended[n] : ended[n][k].result \in Results
    <3> SUFFICES ASSUME NEW n \in Nodes, NEW k \in DOMAIN ended[n]
                 PROVE  ended[n][k].result \in Results
      OBVIOUS
    <3>1. ended[n] \in Seq(OutputType)
      BY TaskTypes DEF ManagerInv
    <3>2. ended[n][k] \in OutputType
      BY <3>1, ElementOfSeq
    <3> QED
      BY <3>2 DEF OutputType
  <2>2. conns \in [Conns -> ConnType]
    <3>1. \A c \in Conns : conns[c] \in ConnType
      BY DEF ManagerInv, Types, ConnsFit, ConnShape, ConnType
    <3> QED
      BY <3>1 DEF ManagerInv, Types
  <2>3. \A n \in Nodes : sess[n].state \in {"none", "running", "ended"}
    BY DEF ManagerInv, Types, SessType
  <2>4. \A n \in Nodes : tasks[n] \subseteq TaskType
    BY DEF ManagerInv, Types
  <2>5. \A n \in Nodes : peer[n] \in PeerType(n)
    BY DEF ManagerInv, Types
  <2>6. manager \in [Nodes -> ManagerType] /\ dials \in 0..MaxDials
    BY DEF ManagerInv, Types
  <2> QED
    BY <2>1, <2>2, <2>3, <2>4, <2>5, <2>6 DEF TypeOK, Results, TaskType, PeerType, ManagerType
<1>2. SessionIsKnown
  BY DEF ManagerInv, NodeAt, KnownAt, SessionIsKnown
<1>3. NoIntentLost
  <2> SUFFICES ASSUME NEW n \in Nodes, Alive(n)
               PROVE  /\ submitted[n] = UNION { Places(n)[k] : k \in 1..5 }
                      /\ \A j, k \in 1..5 : j < k => Places(n)[j] \cap Places(n)[k] = {}
    BY DEF NoIntentLost
  <2>1. Kept(n)
    BY DEF ManagerInv, NodeAt
  <2> DEFINE P == Places(n)
  <2>2. /\ P[1] = peer[n].pending /\ P[2] = sess[n].active /\ P[3] = sess[n].queued
        /\ P[4] = sess[n].remaining /\ P[5] = over[n]
    BY DEF Places
  <2> HIDE DEF P
  <2>3. \A k \in 1..5 : k = 1 \/ k = 2 \/ k = 3 \/ k = 4 \/ k = 5
    OBVIOUS
  <2>4. KeptIn(submitted[n], P[1], P[2], P[3], P[4], P[5])
    BY <2>1, <2>2 DEF Kept
  <2>5. submitted[n] = P[1] \cup P[2] \cup P[3] \cup P[4] \cup P[5]
    BY <2>4 DEF KeptIn
  <2>6. UNION { P[k] : k \in 1..5 } = P[1] \cup P[2] \cup P[3] \cup P[4] \cup P[5]
    <3>1. 1 \in 1..5 /\ 2 \in 1..5 /\ 3 \in 1..5 /\ 4 \in 1..5 /\ 5 \in 1..5
      OBVIOUS
    <3> QED
      BY <2>3, <3>1, Zenon
  <2>7. \A j, k \in 1..5 : j < k => P[j] \cap P[k] = {}
    BY <2>3, <2>4 DEF KeptIn
  <2> QED
    BY <2>5, <2>6, <2>7 DEF P
<1>4. OneConnection
  <2> SUFFICES ASSUME \A n \in Nodes : /\ sess[n].state = "running"
                                       /\ conns[sess[n].conn].status = "up"
                                       /\ Other(n) \notin conns[sess[n].conn].closed
               PROVE  sess[1].conn = sess[2].conn
    BY DEF OneConnection
  <2>1. \A n \in Nodes : /\ sess[n].conn \in Conns /\ conns[sess[n].conn].started = Nodes
                         /\ n \notin conns[sess[n].conn].closed
    BY DEF ManagerInv, NodeAt, SessFits
  <2>2. \A n \in Nodes : 2 \in Nodes /\ 2 \notin conns[sess[n].conn].closed
    BY <2>1 DEF Nodes, Other
  <2>3. \A n \in Nodes : Holds(2, sess[n].conn)
    BY <2>1, <2>2 DEF ManagerInv, ConnsFit
  <2> QED
    BY <2>1, <2>3 DEF ManagerInv, OneHeld, OneHeldAt, Nodes
<1>5. GracefulEndAfterSession
  <2> SUFFICES ASSUME NEW n \in Nodes, Alive(n), NEW k \in DOMAIN ended[n],
                      ended[n][k].task.step = "Done", ended[n][k].result = "ok",
                      sess[n].conn = ended[n][k].task.conn, peer[n].session_state = "Active"
               PROVE  FALSE
    BY DEF GracefulEndAfterSession
  <2>1. ended[n][k] \in Work(n)
    BY InWork DEF ManagerInv
  <2>2. n \in conns[sess[n].conn].closed
    BY <2>1 DEF ManagerInv, TasksFit, TaskFits
  <2>3. n \notin conns[sess[n].conn].closed
    BY DEF ManagerInv, NodeAt, KnownAt, SessFits
  <2> QED
    BY <2>2, <2>3
<1> QED
  BY <1>1, <1>2, <1>3, <1>4, <1>5

(* A node whose own state does not change.                                 *)
LEMMA OtherNode ==
    ASSUME NEW m \in Nodes, NodeAt(m), Types, Types',
           manager'[m] = manager[m], peer'[m] = peer[m], tasks'[m] = tasks[m],
           ended'[m] = ended[m], sess'[m] = sess[m], over'[m] = over[m],
           submitted'[m] = submitted[m],
           \A c \in Conns : /\ conns[c].started \subseteq conns'[c].started
                            /\ m \in conns'[c].closed => m \in conns[c].closed
    PROVE  NodeAt(m)'
<1>1. Alive(m)' <=> Alive(m)
  BY DEF Alive
<1>2. Kept(m)' <=> Kept(m)
  BY DEF Kept
<1>3. KnownAt(m)' <=> KnownAt(m)
  BY DEF KnownAt
<1>4. SessFits(m)'
  BY DEF NodeAt, SessFits, Types, ConnShape
<1> QED
  BY <1>1, <1>2, <1>3, <1>4 DEF NodeAt

-----------------------------------------------------------------------------
(* The initial state, and the steps of tasks, of the network and of the    *)
(* session.                                                                *)

LEMMA InitInv ==
    ASSUME Init
    PROVE  ManagerInv
<1> USE DEF Nodes
<1>1. \A n \in Nodes : tasks[n] = {} /\ ended[n] = << >> /\ peer[n] = NoPeer /\ sess[n] = NoSession
                       /\ incoming[n] = {} /\ over[n] = {} /\ submitted[n] = {}
                       /\ manager[n] = "running"
  BY DEF Init
<1>2. \A n \in Nodes : Work(n) = {}
  BY <1>1 DEF Work, WorkOf
<1>3. \A n : NoPeer \in PeerType(n) /\ NoSession \in SessType(n)
  BY DEF NoPeer, NoSession, PeerType, SessType
<1>4. NoConn \in ConnShape
  BY DEF NoConn, ConnShape
<1>5. Types
  <2>1. manager \in [Nodes -> ManagerType]
    BY DEF Init, ManagerType
  <2>2. tasks \in [Nodes -> SUBSET TaskType] /\ incoming \in [Nodes -> SUBSET Conns]
    BY DEF Init
  <2>3. ended \in [Nodes -> Seq(OutputType)]
    BY DEF Init
  <2>4. conns \in [Conns -> ConnShape]
    BY <1>4 DEF Init
  <2>5. dials \in 0..MaxDials /\ failures \in Nat
    BY ManagerAssumption DEF Init
  <2>6. /\ DOMAIN peer = Nodes /\ DOMAIN sess = Nodes /\ DOMAIN over = Nodes
        /\ DOMAIN submitted = Nodes
    BY DEF Init
  <2> QED
    BY <1>1, <1>3, <2>1, <2>2, <2>3, <2>4, <2>5, <2>6 DEF Types
<1>6. OneTask
  <2>1. OneTaskOf({}, << >>)
    BY FS_EmptySet DEF OneTaskOf, WorkOf
  <2> QED
    BY <1>1, <2>1 DEF OneTask
<1>7. TasksFit /\ OneDialer /\ OneHeld
  BY <1>2 DEF TasksFit, OneDialer, OneHeld, OneHeldAt, Holds
<1>8. ConnsFit
  BY <1>1 DEF ConnsFit, Init, NoConn
<1>9. \A n \in Nodes : NodeAt(n)
  BY <1>1 DEF NodeAt, Alive, SessFits, KnownAt, Kept, KeptIn, NoPeer, NoSession
<1> QED
  BY <1>5, <1>6, <1>7, <1>8, <1>9 DEF ManagerInv

(* Nodes whose tasks run are alive.                                        *)
LEMMA WorkersAlive ==
    ASSUME ManagerInv, NEW n \in Nodes, Work(n) # {}
    PROVE  Alive(n)
BY DEF ManagerInv, NodeAt, Work, WorkOf

(* Connections do not change, or only end.                                 *)
OnlyEnd ==
    /\ conns' \in [Conns -> ConnShape]
    /\ \A c \in Conns : /\ conns'[c].started = conns[c].started
                        /\ conns'[c].closed = conns[c].closed
                        /\ conns'[c].bye = conns[c].bye
                        /\ conns'[c].status = "up" => conns[c].status = "up"

LEMMA SameConns ==
    ASSUME ManagerInv, UNCHANGED conns
    PROVE  OnlyEnd
BY DEF ManagerInv, Types, OnlyEnd

(* A task that ends with an output its connection accounts for.            *)
LEMMA EndStep ==
    ASSUME ManagerInv, NEW n \in Nodes, NEW t \in tasks[n], NEW r \in Results, End(n, t, r),
           UNCHANGED << manager, peer, incoming, sess, over, submitted, dials >>,
           failures' \in Nat, OnlyEnd,
           r # "ok" => t.connecting \/ conns'[t.conn].status # "up",
           r = "ok" /\ t.step = "Established" => conns[t.conn].started = Nodes,
           r = "ok" /\ t.step = "Done" => n \in conns[t.conn].closed
    PROVE  ManagerInv'
<1> USE DEF Nodes
<1>1. Types /\ OneTask /\ TasksFit /\ OneDialer /\ ConnsFit /\ OneHeldAt(2)
  BY DEF ManagerInv, OneHeld
<1>2. WorkStep(n, {Running(t)}, {Output(t, r)})
  BY <1>1, EndWork
<1>3. Types'
  BY <1>1, <1>2 DEF Types, WorkStep, OnlyEnd
<1>4. Running(t) \in Work(n) /\ Running(t).task = t /\ TaskFits(n, Running(t)) /\ t.conn \in Conns
  BY <1>1, InWork DEF TasksFit
<1>5. Output(t, r).task = t /\ Output(t, r).result = r
  BY DEF Output
<1>6. TaskFits(n, Output(t, r))'
  <2>1. /\ conns'[t.conn].started = conns[t.conn].started
        /\ conns'[t.conn].closed = conns[t.conn].closed
        /\ conns'[t.conn].status = "up" => conns[t.conn].status = "up"
    BY <1>4 DEF OnlyEnd
  <2>2. Running(t).result = "runs"
    BY DEF Running
  <2> QED
    BY <1>4, <1>5, <2>1, <2>2 DEF TaskFits
<1>7. TasksFit' /\ OneDialer' /\ ConnsFit'
  <2>1. \A c \in Conns : conns[c].closed \subseteq conns[c].started
                         /\ conns[c].bye \subseteq conns[c].closed
    BY <1>1 DEF ConnsFit
  <2>2. \A w \in Work(n) \ {Running(t)} : w.task.step = "Established" =>
            n \notin conns'[w.task.conn].closed /\ sess'[n].conn # w.task.conn
    BY <1>1, InWork DEF TasksFit, TaskFits, OnlyEnd
  <2>3. dials <= dials'
    BY <1>1 DEF Types
  <2>4. \A c \in Conns :
              /\ conns'[c].started = conns[c].started
              /\ conns[c].closed \subseteq conns'[c].closed
              /\ conns'[c].closed \subseteq conns[c].closed \cup {n}
              /\ conns'[c].closed \subseteq conns'[c].started
              /\ conns'[c].status = "up" => conns[c].status = "up"
              /\ conns'[c].bye \subseteq conns'[c].closed
    BY <2>1 DEF OnlyEnd
  <2>5. /\ \A m \in Nodes : incoming'[m] \subseteq incoming[m]
        /\ \A m \in Nodes \ {n} : sess'[m].conn = sess[m].conn
    OBVIOUS
  <2>6. \A w \in {Running(t)} : w.task.step \in {"Established", "Done"} =>
              \E v \in {Output(t, r)} : v.task.conn = w.task.conn
                                       /\ v.task.step \in {"Established", "Done"}
    BY <1>4, <1>5
  <2>7. \A w \in {Output(t, r)} : w.task.connecting =>
              \E v \in Work(n) : v.task.connecting /\ v.task.conn = w.task.conn
    BY <1>4, <1>5
  <2> QED
    BY <1>1, <1>2, <1>3, <1>6, <2>2, <2>3, <2>4, <2>5, <2>6, <2>7, RegularStep
<1>8. OneHeldAt(2)'
  BY <1>1, <1>2, <1>4, <1>5, HeldKept
<1>9. ASSUME NEW m \in Nodes PROVE NodeAt(m)'
  <2>1. NodeAt(m)
    BY DEF ManagerInv
  <2>2. CASE m # n
    <3>1. tasks'[m] = tasks[m] /\ ended'[m] = ended[m]
      BY <1>1, <2>2 DEF End, Types
    <3> QED
      BY <1>1, <1>3, <2>1, <3>1, OtherNode DEF OnlyEnd
  <2>3. CASE m = n
    <3>1. Alive(n) /\ Alive(n)'
      BY <1>4, WorkersAlive DEF Alive
    <3>2. SessFits(n)'
      BY <2>1, <2>3 DEF NodeAt, SessFits, OnlyEnd
    <3> QED
      BY <2>1, <2>3, <3>1, <3>2 DEF NodeAt, Kept, KnownAt, OnlyEnd
  <2> QED
    BY <2>2, <2>3
<1> QED
  BY <1>2, <1>3, <1>7, <1>8, <1>9 DEF ManagerInv, OneHeld, WorkStep

(* EstablishOk, EstablishFails, ChannelsEnd and GoodbyeEnds.               *)
LEMMA TasksEndStep ==
    ASSUME ManagerInv, NEW n \in Nodes, NEW t \in tasks[n],
           EstablishOk(n, t) \/ EstablishFails(n, t) \/ ChannelsEnd(n, t) \/ GoodbyeEnds(n, t)
    PROVE  ManagerInv'
<1>1. failures \in Nat
  BY DEF ManagerInv, Types
<1>2. {"ok", "err", "dup"} \subseteq Results
  BY DEF Results
<1>3. CASE EstablishOk(n, t)
  BY <1>1, <1>2, <1>3, EndStep, SameConns DEF EstablishOk
<1>4. CASE EstablishFails(n, t)
  <2>1. CASE /\ ~ t.connecting /\ conns[t.conn].status = "dup"
             /\ End(n, t, "dup") /\ UNCHANGED failures
    BY <1>1, <1>2, <1>4, <2>1, EndStep, SameConns DEF EstablishFails
  <2>2. CASE /\ ~ t.connecting /\ conns[t.conn].status = "dup" /\ failures < MaxFailures
             /\ End(n, t, "err") /\ failures' = failures + 1
    BY <1>1, <1>2, <1>4, <2>2, EndStep, SameConns DEF EstablishFails
  <2>3. CASE /\ \/ ~ t.connecting /\ conns[t.conn].status = "lost"
                \/ t.connecting /\ manager[Other(n)] # "running"
             /\ End(n, t, "err") /\ UNCHANGED failures
    BY <1>1, <1>2, <1>4, <2>3, EndStep, SameConns DEF EstablishFails
  <2> QED
    BY <1>4, <2>1, <2>2, <2>3 DEF EstablishFails
<1>5. CASE ChannelsEnd(n, t)
  <2>1. /\ t.step = "Done" /\ t.conn \in Conns
        /\ UNCHANGED << manager, peer, incoming, sess, over, submitted, dials, failures >>
    BY <1>5, InWork DEF ChannelsEnd, ManagerInv
  <2>2. CASE n \in conns[t.conn].closed /\ End(n, t, "ok") /\ UNCHANGED conns
    BY <1>1, <1>2, <2>1, <2>2, EndStep, SameConns
  <2>3. CASE End(n, t, "err") /\ conns' = [conns EXCEPT ![t.conn] = Close(@, "lost")]
    <3> DEFINE x == Close(conns[t.conn], "lost")
    <3>1. conns \in [Conns -> ConnShape] /\ conns[t.conn] \in ConnShape
      BY <2>1 DEF ManagerInv, Types
    <3>2. /\ x \in ConnShape /\ x.started = conns[t.conn].started /\ x.status # "up"
          /\ x.closed = conns[t.conn].closed /\ x.bye = conns[t.conn].bye
      BY <3>1 DEF Close, ConnShape
    <3> HIDE DEF x
    <3>3. conns' = [conns EXCEPT ![t.conn] = x]
      BY <2>3 DEF x
    <3>4. OnlyEnd /\ conns'[t.conn].status # "up"
      BY <2>1, <3>1, <3>2, <3>3 DEF OnlyEnd
    <3> QED
      BY <1>1, <1>2, <2>1, <2>3, <3>4, EndStep
  <2> QED
    BY <1>5, <2>2, <2>3 DEF ChannelsEnd
<1>6. CASE GoodbyeEnds(n, t)
  BY <1>1, <1>2, <1>6, EndStep, SameConns DEF GoodbyeEnds
<1> QED
  BY <1>3, <1>4, <1>5, <1>6

(* The other node's state is left alone.                                   *)
OthersKept(n) ==
    \A m \in Nodes \ {n} :
        /\ manager'[m] = manager[m] /\ peer'[m] = peer[m] /\ tasks'[m] = tasks[m]
        /\ ended'[m] = ended[m] /\ sess'[m] = sess[m] /\ over'[m] = over[m]
        /\ submitted'[m] = submitted[m]

(* No connection starts; this node may close its end of some.              *)
ConnsKept(n) ==
    \A c \in Conns :
        /\ conns'[c].started = conns[c].started
        /\ conns[c].closed \subseteq conns'[c].closed
        /\ conns'[c].closed \subseteq conns[c].closed \cup {n}
        /\ conns'[c].closed \subseteq conns'[c].started
        /\ conns'[c].status = "up" => conns[c].status = "up"
        /\ conns'[c].bye \subseteq conns'[c].closed

(* From the parts of a step of n to the invariant.                         *)
LEMMA NodeStep ==
    ASSUME ManagerInv, Types', NEW n \in Nodes, NEW out, NEW in, WorkStep(n, out, in),
           OthersKept(n), ConnsKept(n), dials <= dials',
           \A m \in Nodes : incoming'[m] \subseteq incoming[m],
           \A w \in Work(n) \ out : w.task.step = "Established" =>
              n \notin conns'[w.task.conn].closed /\ sess'[n].conn # w.task.conn,
           \A w \in in : TaskFits(n, w)',
           \A w \in in : w.task.connecting =>
              dials < w.task.conn \/ \E v \in Work(n) : v.task.connecting /\ v.task.conn = w.task.conn,
           \A w \in out : w.task.step \in {"Established", "Done"} =>
              \/ \E v \in in : v.task.conn = w.task.conn /\ v.task.step \in {"Established", "Done"}
              \/ w.task.connecting
              \/ conns'[w.task.conn].status # "up" \/ n \in conns'[w.task.conn].closed,
           OneHeldAt(2)', NodeAt(n)'
    PROVE  ManagerInv'
<1>1. Types /\ TasksFit /\ OneDialer /\ ConnsFit
  BY DEF ManagerInv
<1>2. \A m \in Nodes \ {n} : sess'[m].conn = sess[m].conn
  BY DEF OthersKept
<1>3. TasksFit' /\ OneDialer' /\ ConnsFit'
  BY <1>1, <1>2, RegularStep DEF ConnsKept
<1>4. ASSUME NEW m \in Nodes \ {n} PROVE NodeAt(m)'
  <2>1. NodeAt(m) /\ m \in Nodes
    BY DEF ManagerInv
  <2>2. \A c \in Conns : /\ conns[c].started \subseteq conns'[c].started
                         /\ m \in conns'[c].closed => m \in conns[c].closed
    BY DEF ConnsKept
  <2> QED
    BY <1>1, <2>1, <2>2, OtherNode DEF OthersKept
<1> QED
  BY <1>3, <1>4 DEF ManagerInv, OneHeld, WorkStep

(* Connections that do not change, or only end, are kept.                  *)
LEMMA StatusKept ==
    ASSUME ManagerInv, NEW n \in Nodes,
           \A c \in Conns : /\ conns'[c].started = conns[c].started
                            /\ conns'[c].closed = conns[c].closed
                            /\ conns'[c].bye = conns[c].bye
                            /\ conns'[c].status = "up" => conns[c].status = "up"
    PROVE  /\ ConnsKept(n)
           /\ \A w \in Work(n) : w.task.step = "Established" =>
                  n \notin conns'[w.task.conn].closed /\ sess[n].conn # w.task.conn
<1>1. \A w \in Work(n) : w.task.conn \in Conns /\ TaskFits(n, w)
  BY InWork DEF ManagerInv, TasksFit
<1> QED
  BY <1>1 DEF ManagerInv, ConnsFit, ConnsKept, TaskFits

(* A step that touches neither tasks nor what connections hold.            *)
LEMMA LocalStep ==
    ASSUME ManagerInv, Types', NEW n \in Nodes, UNCHANGED << tasks, ended, dials, incoming >>,
           OnlyEnd, OthersKept(n), sess'[n].conn = sess[n].conn,
           peer'[n].conn_state = peer[n].conn_state, NodeAt(n)'
    PROVE  ManagerInv'
<1>1. Types /\ OneTask /\ OneHeldAt(2) /\ dials <= dials'
  BY DEF ManagerInv, OneHeld, Types
<1>2. WorkStep(n, {}, {})
  BY <1>1, NoWork
<1>3. ConnsKept(n) /\ \A w \in Work(n) : w.task.step = "Established" =>
                          n \notin conns'[w.task.conn].closed /\ sess'[n].conn # w.task.conn
  BY StatusKept DEF OnlyEnd
<1>4. OneHeldAt(2)'
  BY <1>1, <1>2, HeldKept DEF OthersKept
<1> QED
  BY <1>1, <1>2, <1>3, <1>4, NodeStep

(* SessionTakesUpdates.                                                    *)
LEMMA SessionTakesUpdatesStep ==
    ASSUME ManagerInv, NEW n \in Nodes, SessionTakesUpdates(n)
    PROVE  ManagerInv'
<1> DEFINE x == sess'[n]
<1>1. DOMAIN sess = Nodes /\ sess[n] \in SessType(n) /\ NodeAt(n)
  BY DEF ManagerInv, Types
<1>2. /\ x.state = "running" /\ x.conn = sess[n].conn /\ x.queued = {} /\ x \in SessType(n)
      /\ x.active = sess[n].active \cup sess[n].queued /\ x.remaining = sess[n].remaining
      /\ x.state = sess[n].state
  BY <1>1 DEF SessionTakesUpdates, SessType
<1>3. \A m \in Nodes \ {n} : sess'[m] = sess[m]
  BY <1>1 DEF SessionTakesUpdates
<1>4. DOMAIN sess' = Nodes
  BY <1>1 DEF SessionTakesUpdates
<1> HIDE DEF x
<1>5. Types'
  BY <1>2, <1>3, <1>4 DEF ManagerInv, Types, SessionTakesUpdates, x
<1>6. Kept(n) => Kept(n)'
  BY <1>2 DEF Kept, KeptIn, SessionTakesUpdates, x
<1>7. SessFits(n)'
  BY <1>1, <1>2 DEF NodeAt, SessFits, SessionTakesUpdates, x
<1>8. NodeAt(n)'
  BY <1>1, <1>2, <1>6, <1>7 DEF NodeAt, SessionTakesUpdates, Alive, KnownAt, x
<1>9. OthersKept(n)
  BY <1>3 DEF OthersKept, SessionTakesUpdates
<1> QED
  BY <1>2, <1>5, <1>8, <1>9, LocalStep, SameConns DEF SessionTakesUpdates, x

(* SessionEnds.                                                            *)
LEMMA SessionEndsStep ==
    ASSUME ManagerInv, NEW n \in Nodes, SessionEnds(n)
    PROVE  ManagerInv'
<1> DEFINE x == sess'[n]
<1>1. DOMAIN sess = Nodes /\ sess[n] \in SessType(n) /\ NodeAt(n)
      /\ DOMAIN over = Nodes /\ over[n] \subseteq AllIntents(n) /\ sess[n].state = "running"
  BY DEF ManagerInv, Types, SessionEnds
<1>2. PICK keep \in {{}, sess[n].queued} :
        /\ sess' = [sess EXCEPT ![n].state = "ended", ![n].active = {},
                                ![n].queued = {}, ![n].remaining = keep]
        /\ over' = [over EXCEPT ![n] = @ \cup sess[n].active \cup (sess[n].queued \ keep)]
  BY DEF SessionEnds
<1>3. keep \subseteq sess[n].queued /\ sess[n].queued \subseteq AllIntents(n)
      /\ sess[n].active \subseteq AllIntents(n) /\ keep \subseteq AllIntents(n)
  BY <1>1 DEF SessType
<1>4. /\ x.state = "ended" /\ x.conn = sess[n].conn /\ x.queued = {} /\ x.active = {}
      /\ x.remaining = keep /\ x \in SessType(n)
  BY <1>1, <1>2, <1>3 DEF SessType
<1>5. over'[n] = over[n] \cup sess[n].active \cup (sess[n].queued \ keep)
  BY <1>1, <1>2
<1>6. \A m \in Nodes \ {n} : sess'[m] = sess[m] /\ over'[m] = over[m]
  BY <1>1, <1>2
<1>7. DOMAIN sess' = Nodes /\ DOMAIN over' = Nodes
  BY <1>1, <1>2
<1> HIDE DEF x
<1>8. /\ UNCHANGED << manager, peer, tasks, ended, incoming, conns, submitted, dials >>
      /\ sess'[n] = x /\ failures' \in Nat
  BY DEF SessionEnds, x, ManagerInv, Types
<1>9. Types'
  <2>1. over'[n] \subseteq AllIntents(n)
    BY <1>1, <1>3, <1>5
  <2>2. \A m \in Nodes : sess'[m] \in SessType(m) /\ over'[m] \subseteq AllIntents(m)
    BY <1>4, <1>6, <1>8, <2>1 DEF ManagerInv, Types
  <2> QED
    BY <1>7, <1>8, <2>2 DEF ManagerInv, Types
<1>10. sess[n].remaining = {}
  BY <1>1 DEF NodeAt, SessFits
<1>11. Kept(n) => Kept(n)'
  <2>1. /\ submitted'[n] = submitted[n] /\ peer'[n] = peer[n]
        /\ sess'[n].active = {} /\ sess'[n].queued = {} /\ sess'[n].remaining = keep
    BY <1>4, <1>8
  <2> QED
    BY <1>3, <1>5, <1>10, <2>1 DEF Kept, KeptIn
<1>12. SessFits(n)'
  BY <1>1, <1>4, <1>8 DEF NodeAt, SessFits
<1>13. NodeAt(n)'
  BY <1>1, <1>4, <1>8, <1>11, <1>12 DEF NodeAt, Alive, KnownAt
<1>14. OthersKept(n)
  BY <1>6, <1>8 DEF OthersKept
<1> QED
  BY <1>4, <1>8, <1>9, <1>13, <1>14, LocalStep, SameConns

(* RecvStops.                                                              *)
LEMMA RecvStopsStep ==
    ASSUME ManagerInv, NEW n \in Nodes, NEW t \in tasks[n], RecvStops(n, t)
    PROVE  ManagerInv'
<1> DEFINE x == [conns[t.conn] EXCEPT !.stopped = conns[t.conn].stopped \cup {n}]
<1>1. /\ t.conn \in Conns /\ conns \in [Conns -> ConnShape] /\ conns[t.conn] \in ConnShape
      /\ NodeAt(n)
  BY InWork DEF ManagerInv, Types
<1>2. /\ x \in ConnShape /\ x.started = conns[t.conn].started /\ x.closed = conns[t.conn].closed
      /\ x.bye = conns[t.conn].bye /\ x.status = conns[t.conn].status
  BY <1>1 DEF ConnShape
<1>3. conns' = [conns EXCEPT ![t.conn] = x]
  BY DEF RecvStops
<1> HIDE DEF x
<1>4. OnlyEnd
  BY <1>1, <1>2, <1>3 DEF OnlyEnd
<1>5. UNCHANGED << manager, peer, tasks, ended, incoming, sess, over, submitted, dials, failures >>
  BY DEF RecvStops
<1>6. Types'
  BY <1>4, <1>5 DEF ManagerInv, Types, OnlyEnd
<1>7. SessFits(n)'
  BY <1>1, <1>4, <1>5 DEF NodeAt, SessFits, OnlyEnd
<1>8. NodeAt(n)'
  BY <1>1, <1>4, <1>5, <1>7 DEF NodeAt, Alive, Kept, KnownAt, OnlyEnd
<1> QED
  BY <1>4, <1>5, <1>6, <1>8, LocalStep DEF OthersKept

(* DialConnects: the connection is there, and waits at the other node.     *)
LEMMA DialConnectsStep ==
    ASSUME ManagerInv, NEW n \in Nodes, NEW t \in tasks[n], DialConnects(n, t)
    PROVE  ManagerInv'
<1> DEFINE u == [t EXCEPT !.connecting = FALSE]
           d == t.conn
<1>1. Types /\ OneTask /\ TasksFit /\ OneDialer /\ ConnsFit /\ OneHeldAt(2)
  BY DEF ManagerInv, OneHeld
<1>2. /\ t \in TaskType /\ u \in TaskType /\ u.conn = d /\ u.connecting = FALSE /\ u.step = t.step
      /\ d \in Conns /\ t.connecting
  <2>1. t \in TaskType /\ t.connecting
    BY <1>1 DEF Types, DialConnects
  <2> QED
    BY <2>1 DEF TaskType
<1>3. tasks' = [tasks EXCEPT ![n] = (@ \ {t}) \cup {u}] /\ UNCHANGED ended
  BY DEF DialConnects
<1> HIDE DEF u
<1>4. WorkStep(n, {Running(t)}, {Running(u)})
  BY <1>1, <1>2, <1>3, ReplaceWork
<1>5. Running(t) \in Work(n) /\ Running(t).task = t /\ Running(t).result = "runs"
      /\ Running(u).task = u /\ Running(u).result = "runs"
  BY <1>1, InWork DEF Running
<1>6. /\ d <= dials /\ t.step = "Established" /\ conns[d].started = {} /\ conns[d].closed = {}
      /\ sess[n].conn # d /\ conns[d].bye = {}
  <2>1. TaskFits(n, Running(t))
    BY <1>1, <1>5 DEF TasksFit
  <2>2. conns[d].closed \subseteq conns[d].started /\ conns[d].bye \subseteq conns[d].closed
    BY <1>1, <1>2 DEF ConnsFit
  <2> QED
    BY <1>2, <1>5, <2>1, <2>2 DEF TaskFits, Nodes
<1>7. /\ conns'[d].started = {n} /\ conns'[d].closed = {} /\ conns'[d].status = conns[d].status
      /\ conns'[d].bye = {} /\ conns'[d] \in ConnShape
      /\ \A c \in Conns \ {d} : conns'[c] = conns[c]
      /\ conns' \in [Conns -> ConnShape]
  <2>1. conns \in [Conns -> ConnShape] /\ conns[d] \in ConnShape
    BY <1>1, <1>2 DEF Types
  <2> DEFINE x == [conns[d] EXCEPT !.started = conns[d].started \cup {n}]
  <2>2. conns' = [conns EXCEPT ![d] = x]
    BY <2>1 DEF DialConnects
  <2>3. /\ x \in ConnShape /\ x.started = {n} /\ x.closed = {} /\ x.bye = {}
        /\ x.status = conns[d].status
    BY <1>6, <2>1 DEF ConnShape
  <2> HIDE DEF x, d
  <2> QED
    BY <1>2, <2>1, <2>2, <2>3
<1>8. /\ Other(n) \in Nodes /\ Other(n) # n /\ incoming'[n] = incoming[n]
      /\ incoming'[Other(n)] = incoming[Other(n)] \cup {d}
      /\ incoming' \in [Nodes -> SUBSET Conns]
  BY <1>1, <1>2 DEF DialConnects, Types, Other, Nodes
<1>9. UNCHANGED << manager, peer, ended, sess, over, submitted, dials, failures >>
  BY DEF DialConnects
<1> HIDE DEF d
<1>10. Types'
  BY <1>1, <1>4, <1>7, <1>8, <1>9 DEF Types, WorkStep
<1>11. \A m \in Nodes : \A w \in Work(m) : (w # Running(t) \/ m # n) =>
          (w.task.connecting => w.task.conn # d)
  <2> SUFFICES ASSUME NEW m \in Nodes, NEW w \in Work(m), w # Running(t) \/ m # n,
                      w.task.connecting, w.task.conn = d
               PROVE  FALSE
    OBVIOUS
  <2>1. CASE m = n
    BY <1>1, <1>5, <2>1 DEF OneTask, OneTaskOf, Work, d
  <2>2. CASE m # n
    BY <1>1, <1>2, <1>5, <2>2 DEF OneDialer, Nodes, d
  <2> QED
    BY <2>1, <2>2
<1>12. TasksFit'
  <2> SUFFICES ASSUME NEW m \in Nodes, NEW w \in Work(m)' PROVE TaskFits(m, w)'
    BY DEF TasksFit
  <2>1. CASE m = n /\ w = Running(u)
    BY <1>2, <1>5, <1>6, <1>7, <1>9, <2>1 DEF TaskFits
  <2>2. CASE w \in Work(m) /\ (w # Running(t) \/ m # n)
    <3>1. TaskFits(m, w) /\ w.task.conn \in Conns
      BY <1>1, <2>2, InWork DEF TasksFit
    <3>2. w.task.connecting => w.task.conn # d
      BY <1>11, <2>2
    <3>3. CASE w.task.conn = d
      BY <1>6, <1>7, <1>9, <3>1, <3>2, <3>3 DEF TaskFits, Nodes
    <3>4. CASE w.task.conn # d
      BY <1>7, <1>9, <3>1, <3>4 DEF TaskFits
    <3> QED
      BY <3>3, <3>4
  <2> QED
    BY <1>4, <2>1, <2>2 DEF WorkStep
<1>13. OneDialer'
  <2>1. \A m \in Nodes : \A w \in Work(m)' : w.task.connecting => w \in Work(m)
    BY <1>2, <1>4, <1>5 DEF WorkStep
  <2> QED
    BY <1>1, <2>1 DEF OneDialer, Nodes
<1>14. ConnsFit'
  <2>1. \A c \in Conns : dials' < c => conns'[c].started = {}
    <3>1. ~ (dials < d)
      BY <1>1, <1>2, <1>6, ManagerAssumption DEF Types, Conns, d
    <3> QED
      BY <1>1, <1>7, <1>9, <3>1 DEF ConnsFit
  <2>2. \A c \in Conns : conns'[c].closed \subseteq conns'[c].started
                         /\ conns'[c].bye \subseteq conns'[c].closed
    BY <1>1, <1>7 DEF ConnsFit
  <2>3. ASSUME NEW m \in Nodes, NEW c \in incoming'[m] PROVE conns'[c].started = {Other(m)}
    <3>1. CASE c \in incoming[m]
      <4>1. c \in Conns /\ conns[c].started = {Other(m)}
        BY <1>1, <3>1 DEF ConnsFit, Types
      <4>2. c # d
        BY <1>6, <4>1
      <4> QED
        BY <1>7, <4>1, <4>2
    <3>2. CASE c \notin incoming[m]
      <4>1. m = Other(n) /\ c = d
        BY <1>8, <2>3, <3>2 DEF Nodes, Other
      <4> QED
        BY <1>7, <4>1 DEF Nodes, Other
    <3> QED
      BY <3>1, <3>2
  <2>4. ASSUME NEW m \in Nodes, NEW c \in Conns,
               m \in conns'[c].started, conns'[c].status = "up", m \notin conns'[c].closed
        PROVE  Holds(m, c)'
    <3>1. CASE c = d
      <4>1. m = n
        BY <1>7, <2>4, <3>1
      <4> QED
        BY <1>2, <1>4, <1>5, <1>6, <3>1, <4>1 DEF Holds, WorkStep
    <3>2. CASE c # d
      <4>1. PICK w \in Work(m) : w.task.conn = c /\ w.task.step \in {"Established", "Done"}
        BY <1>1, <1>7, <2>4, <3>2 DEF ConnsFit, Holds
      <4>2. w # Running(t)
        BY <1>5, <3>2, <4>1 DEF d
      <4>3. w \in Work(m)'
        BY <1>4, <4>2 DEF WorkStep
      <4> QED
        BY <4>1, <4>3 DEF Holds
    <3> QED
      BY <3>1, <3>2
  <2> QED
    BY <2>1, <2>2, <2>3, <2>4 DEF ConnsFit, Other
<1>15. OneHeldAt(2)'
  BY <1>1, <1>2, <1>4, <1>5, <1>6, <1>9, HeldKept DEF d
<1>16. ASSUME NEW m \in Nodes PROVE NodeAt(m)'
  <2>1. NodeAt(m)
    BY DEF ManagerInv
  <2>2. \A c \in Conns : conns[c].started \subseteq conns'[c].started
                         /\ (m \in conns'[c].closed => m \in conns[c].closed)
    BY <1>6, <1>7
  <2>3. CASE m # n
    <3>1. tasks'[m] = tasks[m]
      BY <1>1, <2>3 DEF DialConnects, Types
    <3> QED
      BY <1>1, <1>9, <1>10, <2>1, <2>2, <3>1, OtherNode
  <2>4. CASE m = n
    <3>1. Alive(n) /\ Alive(n)'
      BY <1>5, <1>9, WorkersAlive DEF Alive
    <3>2. SessFits(n)'
      <4>1. SessFits(n)
        BY <2>1, <2>4 DEF NodeAt
      <4>2. CASE sess[n].state = "none"
        BY <1>9, <4>1, <4>2 DEF SessFits
      <4>3. CASE sess[n].state # "none"
        <5>1. /\ sess[n].conn \in Conns /\ conns[sess[n].conn].started = Nodes
              /\ n \notin conns[sess[n].conn].closed
          BY <4>1, <4>3 DEF SessFits
        <5>2. conns'[sess[n].conn] \in ConnShape
          BY <1>10, <5>1 DEF Types
        <5>3. conns'[sess[n].conn].started = Nodes /\ n \notin conns'[sess[n].conn].closed
          BY <2>2, <2>4, <5>1, <5>2 DEF ConnShape
        <5> QED
          BY <1>9, <4>1, <5>1, <5>3 DEF SessFits
      <4> QED
        BY <4>2, <4>3
    <3> QED
      BY <1>9, <2>1, <2>2, <2>4, <3>1, <3>2 DEF NodeAt, Kept, KnownAt
  <2> QED
    BY <2>3, <2>4
<1> QED
  BY <1>4, <1>10, <1>12, <1>13, <1>14, <1>15, <1>16 DEF ManagerInv, OneHeld, WorkStep

(* NetworkFailure.                                                         *)
LEMMA NetworkFailureStep ==
    ASSUME ManagerInv, NEW c \in Conns, NetworkFailure(c)
    PROVE  ManagerInv'
<1>1. Types /\ OneTask /\ OneHeldAt(2) /\ failures \in Nat /\ failures' \in Nat /\ dials <= dials'
  BY DEF ManagerInv, OneHeld, Types, NetworkFailure
<1>2. UNCHANGED << manager, peer, incoming, sess, over, submitted, dials >>
  BY DEF NetworkFailure
<1>3. CASE conns' = [conns EXCEPT ![c].status = "lost"] /\ UNCHANGED << tasks, ended >>
  <2> DEFINE n == 1
  <2>1. n \in Nodes
    BY DEF Nodes
  <2>2. conns' \in [Conns -> ConnShape]
        /\ \A e \in Conns : /\ conns'[e].started = conns[e].started
                            /\ conns'[e].closed = conns[e].closed
                            /\ conns'[e].bye = conns[e].bye
                            /\ conns'[e].status = "up" => conns[e].status = "up"
    <3>1. conns \in [Conns -> ConnShape]
      BY <1>1 DEF Types
    <3> QED
      BY <1>3, <3>1 DEF ConnShape
  <2> HIDE DEF n
  <2>3. WorkStep(n, {}, {})
    BY <1>1, <1>3, <2>1, NoWork
  <2>4. Types'
    BY <1>1, <1>2, <1>3, <2>2 DEF Types
  <2>5. ConnsKept(n) /\ \A w \in Work(n) : w.task.step = "Established" =>
                            n \notin conns'[w.task.conn].closed /\ sess[n].conn # w.task.conn
    BY <2>1, <2>2, StatusKept
  <2>6. OthersKept(n)
    BY <1>2, <1>3 DEF OthersKept
  <2>7. OneHeldAt(2)'
    BY <1>1, <1>2, <2>1, <2>3, HeldKept
  <2>8. NodeAt(n)'
    <3>1. NodeAt(n)
      BY <2>1 DEF ManagerInv
    <3>2. \A e \in Conns : /\ conns[e].started \subseteq conns'[e].started
                           /\ n \in conns'[e].closed => n \in conns[e].closed
      BY <2>2
    <3> QED
      BY <1>1, <1>2, <1>3, <2>1, <2>4, <3>1, <3>2, OtherNode
  <2> QED
    BY <1>1, <1>2, <2>1, <2>3, <2>4, <2>5, <2>6, <2>7, <2>8, NodeStep
<1>4. CASE /\ \E n \in Nodes : \E t \in tasks[n] : t.conn = c /\ t.connecting /\ End(n, t, "err")
           /\ UNCHANGED conns
  <2>0. PICK n \in Nodes : \E t \in tasks[n] : t.connecting /\ End(n, t, "err")
    BY <1>4
  <2>1. PICK t \in tasks[n] : t.connecting /\ End(n, t, "err")
    BY <2>0
  <2>2. "err" \in Results /\ "err" # "ok"
    BY DEF Results
  <2> QED
    BY <1>1, <1>2, <1>4, <2>1, <2>2, EndStep, SameConns
<1> QED
  BY <1>3, <1>4 DEF NetworkFailure

(* Die.                                                                    *)
LEMMA DieStep ==
    ASSUME ManagerInv, NEW n \in Nodes, NEW why \in ManagerType \ {"running", "shutdown"},
           Die(n, why)
    PROVE  ManagerInv'
<1>1. Types /\ OneTask /\ OneHeldAt(2) /\ dials <= dials'
  BY DEF ManagerInv, OneHeld, Types, Die
<1>2. UNCHANGED << peer, incoming, sess, over, submitted, dials, failures >>
  BY DEF Die
<1>3. WorkStep(n, Work(n), {})
  BY <1>1, DieWork
<1>4. /\ conns' \in [Conns -> ConnShape]
      /\ \A e \in Conns : /\ conns'[e].started = conns[e].started
                          /\ conns'[e].closed = conns[e].closed
                          /\ conns'[e].bye = conns[e].bye
                          /\ conns'[e].status = "up" => conns[e].status = "up"
  <2>1. conns \in [Conns -> ConnShape]
    BY <1>1 DEF Types
  <2>2. \A e \in Conns : conns'[e] \in { conns[e], [conns[e] EXCEPT !.status = "lost"] }
    BY DEF Die
  <2>3. DOMAIN conns' = Conns /\ conns' = [e \in Conns |-> conns'[e]]
    BY DEF Die
  <2>4. \A e \in Conns : /\ conns'[e] \in ConnShape
                         /\ conns'[e].started = conns[e].started
                         /\ conns'[e].closed = conns[e].closed
                         /\ conns'[e].bye = conns[e].bye
                         /\ conns'[e].status = "up" => conns[e].status = "up"
    <3> SUFFICES ASSUME NEW e \in Conns
                 PROVE  /\ conns'[e] \in ConnShape
                        /\ conns'[e].started = conns[e].started
                        /\ conns'[e].closed = conns[e].closed
                        /\ conns'[e].bye = conns[e].bye
                        /\ conns'[e].status = "up" => conns[e].status = "up"
      OBVIOUS
    <3>1. conns[e] \in ConnShape
      BY <2>1
    <3> QED
      BY <2>2, <3>1 DEF ConnShape
  <2>5. \A e \in Conns : conns'[e] \in ConnShape
    BY <2>4
  <2>6. conns' \in [Conns -> ConnShape]
    BY ONLY <2>3, <2>5
  <2> QED
    BY <2>4, <2>6
<1>5. \A w \in Work(n) : conns'[w.task.conn].status # "up"
  <2>1. ASSUME NEW t \in tasks[n] PROVE conns'[t.conn].status # "up"
    <3>1. t.conn \in Conns /\ conns[t.conn] \in ConnShape
      BY <1>1 DEF Types, TaskType
    <3>2. conns'[t.conn] = [conns[t.conn] EXCEPT !.status = "lost"]
      BY <3>1 DEF Die
    <3> QED
      BY <3>1, <3>2 DEF ConnShape
  <2>2. ASSUME NEW k \in DOMAIN ended[n] PROVE conns'[ended[n][k].task.conn].status # "up"
    <3>1. ended[n][k].task.conn \in Conns
      BY <1>1, InWork
    <3>2. conns[ended[n][k].task.conn] \in ConnShape
      BY <1>1, <3>1 DEF Types
    <3>3. conns'[ended[n][k].task.conn] = [conns[ended[n][k].task.conn] EXCEPT !.status = "lost"]
      BY <3>1 DEF Die
    <3> QED
      BY <3>2, <3>3 DEF ConnShape
  <2>3. \A t : Running(t).task = t
    BY DEF Running
  <2> QED
    BY <2>1, <2>2, <2>3 DEF Work, WorkOf
<1>6. manager' = [manager EXCEPT ![n] = why] /\ manager \in [Nodes -> ManagerType]
      /\ tasks' = [tasks EXCEPT ![n] = {}] /\ ended' = [ended EXCEPT ![n] = << >>]
      /\ DOMAIN tasks = Nodes /\ DOMAIN ended = Nodes
  BY <1>1 DEF Die, Types
<1>7. Types'
  <2>1. manager' \in [Nodes -> ManagerType]
    BY <1>6
  <2> QED
    BY <1>1, <1>2, <1>3, <1>4, <2>1 DEF Types, WorkStep
<1>8. ConnsKept(n)
  BY <1>4, StatusKept
<1>9. OthersKept(n)
  BY <1>2, <1>6 DEF OthersKept
<1>10. OneHeldAt(2)'
  BY <1>1, <1>2, <1>3, HeldKept
<1>11. NodeAt(n)'
  <2>1. manager'[n] = why /\ tasks'[n] = {} /\ ended'[n] = << >>
    BY <1>6
  <2>2. ~ Alive(n)'
    BY <2>1 DEF Alive
  <2>3. NodeAt(n)
    BY DEF ManagerInv
  <2>4. SessFits(n)'
    BY <1>2, <1>4, <2>3 DEF NodeAt, SessFits
  <2> QED
    BY <1>2, <1>4, <2>1, <2>2, <2>3, <2>4 DEF NodeAt
<1> QED
  BY <1>1, <1>2, <1>3, <1>5, <1>7, <1>8, <1>9, <1>10, <1>11, NodeStep

(* ShutdownEnds and UnknownPeer.                                           *)
LEMMA GivesUpStep ==
    ASSUME ManagerInv, NEW n \in Nodes, ShutdownEnds(n) \/ UnknownPeer(n)
    PROVE  ManagerInv'
<1>1. {"stopped", "unknown peer"} \subseteq ManagerType \ {"running", "shutdown"}
  BY DEF ManagerType
<1>2. Die(n, "stopped") \/ Die(n, "unknown peer")
  BY DEF ShutdownEnds, UnknownPeer
<1> QED
  BY <1>1, <1>2, DieStep

-----------------------------------------------------------------------------
(* handle_conn_output.                                                     *)

(* StopIfDone stops a manager only when no task is left.                   *)
LEMMA StopFacts ==
    ASSUME Types, NEW n \in Nodes, Alive(n), StopIfDone(n) \/ UNCHANGED manager
    PROVE  /\ manager' \in [Nodes -> ManagerType]
           /\ \A m \in Nodes \ {n} : manager'[m] = manager[m]
           /\ ~ Alive(n)' => tasks'[n] = {} /\ ended'[n] = << >>
<1>1. manager \in [Nodes -> ManagerType] /\ "stopped" \in ManagerType
  BY DEF Types, ManagerType
<1>2. CASE UNCHANGED manager
  BY <1>1, <1>2 DEF Alive
<1>3. CASE StopIfDone(n)
  BY <1>1, <1>3 DEF StopIfDone, Alive
<1> QED
  BY <1>2, <1>3

(* The state of the node that joins: its peer becomes p, its session x and *)
(* the intents that are over O.                                            *)
NewState(n, p, x, O) ==
    /\ p \in PeerType(n) /\ x \in SessType(n) /\ O \subseteq AllIntents(n)
    /\ DOMAIN peer' = Nodes /\ DOMAIN sess' = Nodes /\ DOMAIN over' = Nodes
    /\ peer'[n] = p /\ sess'[n] = x /\ over'[n] = O
    /\ \A m \in Nodes \ {n} : peer'[m] = peer[m] /\ sess'[m] = sess[m] /\ over'[m] = over[m]
    /\ ~ p.known => p = NoPeer
    /\ p.session_state = "Active" <=> x.state # "none"
    /\ KeptIn(submitted[n], p.pending, x.active, x.queued, x.remaining, O)

(* The new state and what the invariant says of it.                        *)
LEMMA NewStateFacts ==
    ASSUME Types, NEW n \in Nodes, NEW p, NEW x, NEW O, NewState(n, p, x, O)
    PROVE  /\ DOMAIN peer' = Nodes /\ DOMAIN sess' = Nodes /\ DOMAIN over' = Nodes
           /\ peer'[n] = p /\ sess'[n] = x /\ over'[n] = O
           /\ \A m \in Nodes \ {n} : peer'[m] = peer[m] /\ sess'[m] = sess[m] /\ over'[m] = over[m]
           /\ \A m \in Nodes : peer'[m] \in PeerType(m) /\ sess'[m] \in SessType(m)
                               /\ over'[m] \subseteq AllIntents(m)
           /\ KnownAt(n)'
           /\ submitted'[n] = submitted[n] => Kept(n)'
<1>1. /\ DOMAIN peer = Nodes /\ DOMAIN sess = Nodes /\ DOMAIN over = Nodes
      /\ \A m \in Nodes : peer[m] \in PeerType(m) /\ sess[m] \in SessType(m)
                          /\ over[m] \subseteq AllIntents(m)
  BY DEF Types
<1>2. peer'[n] = p /\ sess'[n] = x /\ over'[n] = O
  BY <1>1 DEF NewState
<1>3. \A m \in Nodes \ {n} : peer'[m] = peer[m] /\ sess'[m] = sess[m] /\ over'[m] = over[m]
  BY <1>1 DEF NewState
<1>4. DOMAIN peer' = Nodes /\ DOMAIN sess' = Nodes /\ DOMAIN over' = Nodes
  BY <1>1 DEF NewState
<1>5. \A m \in Nodes : peer'[m] \in PeerType(m) /\ sess'[m] \in SessType(m)
                       /\ over'[m] \subseteq AllIntents(m)
  BY <1>1, <1>2, <1>3 DEF NewState
<1>6. KnownAt(n)'
  BY <1>2 DEF KnownAt, NewState
<1>7. submitted'[n] = submitted[n] => Kept(n)'
  BY <1>2 DEF Kept, NewState
<1> QED
  BY <1>2, <1>3, <1>4, <1>5, <1>6, <1>7

(* A task is joined, none is spawned.                                      *)
LEMMA JoinStep ==
    ASSUME ManagerInv, NEW n \in Nodes, Alive(n), ended[n] # << >>, Joining(n),
           UNCHANGED << tasks, incoming, submitted, dials, failures >>,
           StopIfDone(n) \/ UNCHANGED manager,
           NEW p, NEW x, NEW O, NewState(n, p, x, O),
           x.conn = sess[n].conn, SessFits(n)',
           conns' \in [Conns -> ConnShape],
           \A c \in Conns : /\ conns'[c].started = conns[c].started
                            /\ conns'[c].closed = conns[c].closed
                            /\ conns'[c].bye = conns[c].bye
                            /\ conns'[c].status = "up" => conns[c].status = "up",
           Head(ended[n]).task.step = "Closed" =>
              (p.conn_state \in {"None", "Terminating"} => peer[n].conn_state \in {"None", "Terminating"}),
           Head(ended[n]).task.step # "Closed" =>
              Head(ended[n]).result # "ok" \/ conns'[Head(ended[n]).task.conn].status # "up"
    PROVE  ManagerInv'
<1> DEFINE h == Head(ended[n])
<1>1. Types /\ OneTask /\ TasksFit /\ OneHeldAt(2) /\ dials <= dials' /\ NodeAt(n)
  BY DEF ManagerInv, OneHeld, Types
<1>2. h \in Work(n) /\ h \in OutputType /\ WorkStep(n, {h}, {})
  BY <1>1, JoinWork
<1>3. /\ manager' \in [Nodes -> ManagerType]
      /\ \A m \in Nodes \ {n} : manager'[m] = manager[m]
      /\ ~ Alive(n)' => tasks'[n] = {} /\ ended'[n] = << >>
  BY <1>1, StopFacts
<1>4. /\ DOMAIN peer' = Nodes /\ DOMAIN sess' = Nodes /\ DOMAIN over' = Nodes
      /\ peer'[n] = p /\ sess'[n] = x /\ over'[n] = O
      /\ \A m \in Nodes \ {n} : peer'[m] = peer[m] /\ sess'[m] = sess[m] /\ over'[m] = over[m]
      /\ \A m \in Nodes : peer'[m] \in PeerType(m) /\ sess'[m] \in SessType(m)
                          /\ over'[m] \subseteq AllIntents(m)
      /\ KnownAt(n)' /\ Kept(n)'
  BY <1>1, NewStateFacts
<1> HIDE DEF h
<1>5. Types'
  BY <1>1, <1>2, <1>3, <1>4 DEF Types, WorkStep
<1>6. ConnsKept(n) /\ \A w \in Work(n) : w.task.step = "Established" =>
                          n \notin conns'[w.task.conn].closed /\ sess[n].conn # w.task.conn
  BY StatusKept
<1>7. OthersKept(n)
  <2>1. \A m \in Nodes \ {n} : ended'[m] = ended[m]
    BY <1>1 DEF Joining, Types
  <2> QED
    BY <1>3, <1>4, <2>1 DEF OthersKept
<1>8. h.task.step \in {"Established", "Done", "Closed"}
  BY <1>2 DEF OutputType, TaskType
<1>9. OneHeldAt(2)'
  <2>1. CASE h.task.step = "Closed"
    BY <1>1, <1>2, <1>4, <2>1, HeldKept DEF h
  <2>2. CASE h.task.step # "Closed"
    <3>1. h.task.step \in {"Established", "Done"}
      BY <1>8, <2>2
    <3> QED
      BY <1>1, <1>2, <1>4, <3>1, HeldJoined
  <2> QED
    BY <2>1, <2>2
<1>10. NodeAt(n)'
  BY <1>1, <1>3, <1>4 DEF NodeAt, NewState
<1>11. h.task.step \in {"Established", "Done"} =>
          h.task.connecting \/ conns'[h.task.conn].status # "up" \/ n \in conns'[h.task.conn].closed
  <2>1. TaskFits(n, h) /\ h.task.conn \in Conns /\ h.result # "runs"
    BY <1>1, <1>2, InWork DEF TasksFit, OutputType, Results
  <2> QED
    BY <2>1 DEF TaskFits, h
<1> QED
  BY <1>1, <1>2, <1>4, <1>5, <1>6, <1>7, <1>9, <1>10, <1>11, NodeStep

(* The state in which nothing changes.                                     *)
LEMMA SameState ==
    ASSUME ManagerInv, NEW n \in Nodes, Alive(n)
    PROVE  /\ peer[n] \in PeerType(n) /\ sess[n] \in SessType(n) /\ over[n] \subseteq AllIntents(n)
           /\ DOMAIN peer = Nodes /\ DOMAIN sess = Nodes /\ DOMAIN over = Nodes
           /\ ~ peer[n].known => peer[n] = NoPeer
           /\ peer[n].session_state = "Active" <=> sess[n].state # "none"
           /\ SessFits(n)
           /\ KeptIn(submitted[n], peer[n].pending, sess[n].active, sess[n].queued,
                     sess[n].remaining, over[n])
<1>1. /\ peer[n] \in PeerType(n) /\ sess[n] \in SessType(n) /\ over[n] \subseteq AllIntents(n)
      /\ DOMAIN peer = Nodes /\ DOMAIN sess = Nodes /\ DOMAIN over = Nodes
  BY DEF ManagerInv, Types
<1>2. NodeAt(n) /\ KnownAt(n) /\ Kept(n)
  BY DEF ManagerInv, NodeAt
<1> QED
  BY <1>1, <1>2 DEF NodeAt, KnownAt, Kept

(* A session that does not change on connections that only end.            *)
LEMMA SessKept ==
    ASSUME NEW n \in Nodes, SessFits(n), sess'[n] = sess[n],
           \A c \in Conns : /\ conns'[c].started = conns[c].started
                            /\ conns'[c].closed = conns[c].closed
    PROVE  SessFits(n)'
BY DEF SessFits

(* JoinAborted.                                                            *)
LEMMA JoinAbortedStep ==
    ASSUME ManagerInv, NEW n \in Nodes, JoinAborted(n)
    PROVE  ManagerInv'
<1>1. Alive(n) /\ ended[n] # << >> /\ Joining(n) /\ Head(ended[n]).result # "ok"
      /\ UNCHANGED << manager, peer, tasks, incoming, sess, conns, over, submitted, dials, failures >>
  BY DEF JoinAborted
<1>2. NewState(n, peer[n], sess[n], over[n]) /\ SessFits(n)
  BY <1>1, SameState DEF NewState
<1>3. conns' \in [Conns -> ConnShape]
  BY <1>1 DEF ManagerInv, Types
<1>4. SessFits(n)'
  BY <1>1, <1>2, SessKept
<1> QED
  BY <1>1, <1>2, <1>3, <1>4, JoinStep

(* Shapes of a peer's state.                                               *)
LEMMA PeerShapes ==
    ASSUME NEW n \in Nodes, NEW p \in PeerType(n)
    PROVE  /\ p.known \in BOOLEAN /\ p.pending \subseteq AllIntents(n)
           /\ p.conn_state \in {"None", "Establishing", "Active", "Terminating"}
           /\ p.our_dial \subseteq Conns /\ p.handle \subseteq Conns /\ p.session_state \in {"None", "Active"}
           /\ NoPeer \in PeerType(n) /\ NoPeer.known = FALSE /\ NoPeer.pending = {}
           /\ NoPeer.conn_state = "None" /\ NoPeer.session_state = "None" /\ NoPeer.our_dial = {} /\ NoPeer.handle = {}
BY DEF PeerType, NoPeer

(* A peer without a session is forgotten, its intents are told.            *)
LEMMA Forget ==
    ASSUME ManagerInv, NEW n \in Nodes, Alive(n), peer[n].session_state = "None",
           peer' = [peer EXCEPT ![n] = NoPeer], UNCHANGED sess, AbortPending(n)
    PROVE  NewState(n, NoPeer, sess[n], over[n] \cup peer[n].pending)
<1>1. /\ peer[n] \in PeerType(n) /\ sess[n] \in SessType(n) /\ over[n] \subseteq AllIntents(n)
      /\ DOMAIN peer = Nodes /\ DOMAIN sess = Nodes /\ DOMAIN over = Nodes
      /\ peer[n].session_state = "Active" <=> sess[n].state # "none"
      /\ KeptIn(submitted[n], peer[n].pending, sess[n].active, sess[n].queued,
                sess[n].remaining, over[n])
  BY SameState
<1>2. /\ peer[n].pending \subseteq AllIntents(n) /\ NoPeer \in PeerType(n) /\ NoPeer.known = FALSE
      /\ NoPeer.pending = {} /\ NoPeer.session_state = "None"
  BY <1>1, PeerShapes
<1>3. over' = [over EXCEPT ![n] = over[n] \cup peer[n].pending]
  BY DEF AbortPending
<1>4. KeptIn(submitted[n], {}, sess[n].active, sess[n].queued, sess[n].remaining,
             over[n] \cup peer[n].pending)
  BY <1>1 DEF KeptIn
<1> QED
  BY <1>1, <1>2, <1>3, <1>4 DEF NewState

(* A peer's state changes and keeps its intents and its session.           *)
LEMMA PeerMoves ==
    ASSUME ManagerInv, NEW n \in Nodes, Alive(n), peer[n].known,
           NEW p \in PeerType(n), p.known, p.pending = peer[n].pending,
           p.session_state = peer[n].session_state,
           peer' = [peer EXCEPT ![n] = p], UNCHANGED << sess, over >>
    PROVE  NewState(n, p, sess[n], over[n])
<1>1. /\ peer[n] \in PeerType(n) /\ sess[n] \in SessType(n) /\ over[n] \subseteq AllIntents(n)
      /\ DOMAIN peer = Nodes /\ DOMAIN sess = Nodes /\ DOMAIN over = Nodes
      /\ peer[n].session_state = "Active" <=> sess[n].state # "none"
      /\ KeptIn(submitted[n], peer[n].pending, sess[n].active, sess[n].queued,
                sess[n].remaining, over[n])
  BY SameState
<1> QED
  BY <1>1 DEF NewState

(* EstablishedErr.                                                         *)
LEMMA EstablishedErrStep ==
    ASSUME ManagerInv, NEW n \in Nodes, EstablishedErr(n)
    PROVE  ManagerInv'
<1>1. /\ Alive(n) /\ ended[n] # << >> /\ Joining(n) /\ peer[n].known
      /\ Head(ended[n]).task.step = "Established" /\ Head(ended[n]).result # "ok"
      /\ StopIfDone(n)
      /\ UNCHANGED << tasks, incoming, sess, conns, submitted, dials, failures >>
  BY DEF EstablishedErr, Joined
<1>2. conns' \in [Conns -> ConnShape] /\ SessFits(n) /\ peer[n] \in PeerType(n)
  BY <1>1, SameState DEF ManagerInv, Types
<1>3. SessFits(n)'
  BY <1>1, <1>2, SessKept
<1>4. \E p, O : NewState(n, p, sess[n], O)
  <2>1. CASE UNCHANGED << peer, over >>
    <3>1. NewState(n, peer[n], sess[n], over[n])
      BY <1>1, <2>1, SameState DEF NewState
    <3> QED
      BY <3>1
  <2>2. CASE /\ peer' = [peer EXCEPT ![n] =
                  IF @.conn_state = "Establishing" /\ @.our_dial # {}
                  THEN [@ EXCEPT !.conn_state = "None", !.our_dial = {}, !.handle = {}] ELSE @]
             /\ UNCHANGED over
    <3> DEFINE p == IF peer[n].conn_state = "Establishing" /\ peer[n].our_dial # {}
                    THEN [peer[n] EXCEPT !.conn_state = "None", !.our_dial = {}, !.handle = {}] ELSE peer[n]
    <3>1. /\ p \in PeerType(n) /\ p.known = peer[n].known /\ p.pending = peer[n].pending
          /\ p.session_state = peer[n].session_state
      BY <1>2 DEF PeerType
    <3>2. peer' = [peer EXCEPT ![n] = p]
      BY <2>2
    <3> HIDE DEF p
    <3>3. NewState(n, p, sess[n], over[n])
      BY <1>1, <2>2, <3>1, <3>2, PeerMoves
    <3> QED
      BY <3>3
  <2>3. CASE /\ peer[n].session_state = "None" /\ AbortPending(n)
             /\ peer' = [peer EXCEPT ![n] = NoPeer]
    BY <1>1, <2>3, Forget
  <2>4. CASE /\ peer' = [peer EXCEPT ![n].conn_state = "None", ![n].our_dial = {}, ![n].handle = {}]
             /\ UNCHANGED over
    <3> DEFINE p == [peer[n] EXCEPT !.conn_state = "None", !.our_dial = {}, !.handle = {}]
    <3>1. /\ p \in PeerType(n) /\ p.known = peer[n].known /\ p.pending = peer[n].pending
          /\ p.session_state = peer[n].session_state
      BY <1>2 DEF PeerType
    <3>2. peer' = [peer EXCEPT ![n] = p]
      BY <2>4, <1>1, SameState
    <3> HIDE DEF p
    <3>3. NewState(n, p, sess[n], over[n])
      BY <1>1, <2>4, <3>1, <3>2, PeerMoves
    <3> QED
      BY <3>3
  <2> QED
    BY <2>1, <2>2, <2>3, <2>4 DEF EstablishedErr
<1>5. PICK p, O : NewState(n, p, sess[n], O)
  BY <1>4
<1> QED
  BY <1>1, <1>2, <1>3, <1>5, JoinStep

(* A session that is told to abort, or to nobody.                          *)
LEMMA AbortFacts ==
    ASSUME ManagerInv, NEW n \in Nodes, sess' = [sess EXCEPT ![n].abort = (sess[n].state = "running")]
    PROVE  /\ DOMAIN sess' = Nodes /\ \A m \in Nodes \ {n} : sess'[m] = sess[m]
           /\ sess'[n] \in SessType(n)
           /\ sess'[n].state = sess[n].state /\ sess'[n].conn = sess[n].conn
           /\ sess'[n].active = sess[n].active /\ sess'[n].queued = sess[n].queued
           /\ sess'[n].remaining = sess[n].remaining
           /\ (\A c \in Conns : /\ conns'[c].started = conns[c].started
                                /\ conns'[c].closed = conns[c].closed) => SessFits(n)'
<1>1. DOMAIN sess = Nodes /\ sess[n] \in SessType(n) /\ SessFits(n)
  BY DEF ManagerInv, Types, NodeAt
<1> DEFINE b == (sess[n].state = "running")
           x == [sess[n] EXCEPT !.abort = b]
<1>2. b \in BOOLEAN /\ (sess[n].state = "none" => b = FALSE)
  OBVIOUS
<1>3. sess' = [sess EXCEPT ![n] = x]
  BY <1>1
<1> HIDE DEF b
<1>4. /\ x \in SessType(n) /\ x.state = sess[n].state /\ x.conn = sess[n].conn
      /\ x.active = sess[n].active /\ x.queued = sess[n].queued /\ x.remaining = sess[n].remaining
  BY <1>1, <1>2 DEF SessType
<1>5. sess[n].state = "none" => x = NoSession
  <2> SUFFICES ASSUME sess[n].state = "none" PROVE x = NoSession
    OBVIOUS
  <2>1. sess[n] = NoSession /\ b = FALSE
    BY <1>1, <1>2 DEF SessFits
  <2>2. x = [NoSession EXCEPT !.abort = FALSE]
    BY <2>1
  <2>3. [NoSession EXCEPT !.abort = FALSE] = NoSession
    <3>1. NoSession \in SessType(n)
      BY DEF NoSession, SessType
    <3>2. \A s \in SessType(n) : [s EXCEPT !.abort = s.abort] = s
      BY DEF SessType
    <3>3. NoSession.abort = FALSE
      BY DEF NoSession
    <3> QED
      BY <3>1, <3>2, <3>3
  <2> QED
    BY <2>2, <2>3
<1> HIDE DEF x
<1>6. DOMAIN sess' = Nodes /\ (\A m \in Nodes \ {n} : sess'[m] = sess[m]) /\ sess'[n] = x
  BY <1>1, <1>3
<1>7. (\A c \in Conns : /\ conns'[c].started = conns[c].started
                        /\ conns'[c].closed = conns[c].closed) => SessFits(n)'
  BY <1>1, <1>4, <1>5, <1>6 DEF SessFits
<1> QED
  BY <1>4, <1>6, <1>7

(* DoneErr.                                                                *)
LEMMA DoneErrStep ==
    ASSUME ManagerInv, NEW n \in Nodes, DoneErr(n)
    PROVE  ManagerInv'
<1>1. /\ Alive(n) /\ ended[n] # << >> /\ peer[n].known
      /\ Head(ended[n]).task.step = "Done" /\ Head(ended[n]).result # "ok"
  BY DEF DoneErr, Joined
<1>2. CASE /\ peer[n].conn_state = "Active" /\ peer[n].session_state = "Active"
           /\ Joining(n)
           /\ sess' = [sess EXCEPT ![n].abort = (sess[n].state = "running")]
           /\ peer' = [peer EXCEPT ![n].conn_state = "None"]
           /\ UNCHANGED << tasks, incoming, conns, over, submitted, dials, failures >>
           /\ StopIfDone(n)
  <2>1. /\ DOMAIN sess' = Nodes /\ \A m \in Nodes \ {n} : sess'[m] = sess[m]
        /\ sess'[n] \in SessType(n)
        /\ sess'[n].state = sess[n].state /\ sess'[n].conn = sess[n].conn
        /\ sess'[n].active = sess[n].active /\ sess'[n].queued = sess[n].queued
        /\ sess'[n].remaining = sess[n].remaining /\ SessFits(n)'
    BY <1>2, AbortFacts
  <2>2. /\ peer[n] \in PeerType(n) /\ over[n] \subseteq AllIntents(n)
        /\ DOMAIN peer = Nodes /\ DOMAIN over = Nodes
        /\ peer[n].session_state = "Active" <=> sess[n].state # "none"
        /\ KeptIn(submitted[n], peer[n].pending, sess[n].active, sess[n].queued,
                  sess[n].remaining, over[n])
    BY <1>1, SameState
  <2> DEFINE p == [peer[n] EXCEPT !.conn_state = "None"]
  <2>3. /\ p \in PeerType(n) /\ p.known = peer[n].known /\ p.pending = peer[n].pending
        /\ p.session_state = peer[n].session_state
    BY <2>2 DEF PeerType
  <2>4. peer' = [peer EXCEPT ![n] = p]
    BY <1>2, <2>2
  <2> HIDE DEF p
  <2>5. NewState(n, p, sess'[n], over[n])
    BY <1>1, <1>2, <2>1, <2>2, <2>3, <2>4 DEF NewState
  <2>6. conns' \in [Conns -> ConnShape]
    BY <1>2 DEF ManagerInv, Types
  <2>7. PICK x : x = sess'[n]
    OBVIOUS
  <2>8. NewState(n, p, x, over[n]) /\ x.conn = sess[n].conn
    BY <2>1, <2>5, <2>7
  <2> QED
    BY <1>1, <1>2, <2>1, <2>6, <2>8, JoinStep
<1>3. CASE /\ peer[n].conn_state = "Active" /\ peer[n].session_state = "None"
           /\ Joining(n)
           /\ AbortPending(n)
           /\ peer' = [peer EXCEPT ![n] = NoPeer]
           /\ UNCHANGED << tasks, incoming, sess, conns, submitted, dials, failures >>
           /\ StopIfDone(n)
  <2>1. NewState(n, NoPeer, sess[n], over[n] \cup peer[n].pending)
    BY <1>1, <1>3, Forget
  <2>2. conns' \in [Conns -> ConnShape] /\ SessFits(n)
    BY <1>1, <1>3, SameState DEF ManagerInv, Types
  <2>3. SessFits(n)'
    BY <1>3, <2>2, SessKept
  <2> QED
    BY <1>1, <1>3, <2>1, <2>2, <2>3, JoinStep
<1>4. CASE Die(n, "done not active")
  <2>1. "done not active" \in ManagerType \ {"running", "shutdown"}
    BY DEF ManagerType
  <2> QED
    BY <1>4, <2>1, DieStep
<1> QED
  BY <1>2, <1>3, <1>4 DEF DoneErr

(* Task.                                                                   *)
LEMMA TaskShape ==
    ASSUME NEW c \in Conns, NEW step \in {"Established", "Done", "Closed"},
           NEW role \in {"Alfie", "Betty"}
    PROVE  /\ Task(c, step, role) \in TaskType /\ Task(c, step, role).conn = c
           /\ Task(c, step, role).step = step /\ Task(c, step, role).connecting = FALSE
           /\ Running(Task(c, step, role)).task = Task(c, step, role)
           /\ Running(Task(c, step, role)).result = "runs"
BY DEF Task, TaskType, Running

(* Close.                                                                  *)
LEMMA CloseFacts ==
    ASSUME NEW x \in ConnShape, NEW how \in {"dup", "lost"}
    PROVE  /\ Close(x, how) \in ConnShape /\ Close(x, how).status # "up"
           /\ Close(x, how).started = x.started /\ Close(x, how).closed = x.closed
           /\ Close(x, how).bye = x.bye
BY DEF Close, ConnShape

(* The output of establish that is joined.                                 *)
LEMMA JoinedEstablished ==
    ASSUME ManagerInv, NEW n \in Nodes, Joined(n, "Established", {"ok"})
    PROVE  LET h == Head(ended[n]) IN
           /\ Alive(n) /\ ended[n] # << >> /\ peer[n].known
           /\ h \in Work(n) /\ h.task.step = "Established" /\ h.task.conn \in Conns
           /\ h.task.role \in {"Alfie", "Betty"} /\ h.task.conn <= dials
           /\ conns[h.task.conn].started = Nodes /\ n \notin conns[h.task.conn].closed
           /\ \A w \in Work(n) \ {h} : w.task.conn # h.task.conn
<1> DEFINE h == Head(ended[n])
<1>1. Alive(n) /\ ended[n] # << >> /\ peer[n].known /\ h.task.step = "Established" /\ h.result = "ok"
  BY DEF Joined
<1>2. Types /\ OneTask /\ TasksFit
  BY DEF ManagerInv
<1>3. Fit(tasks[n], ended[n])
  BY <1>2, TaskTypes DEF OneTask, Fit
<1>4. h \in OutputType /\ h \in Work(n)
  BY <1>1, <1>3, WorkTail DEF Work
<1> HIDE DEF h
<1>5. h.task.role \in {"Alfie", "Betty"} /\ h.task.conn \in Conns
  BY <1>4 DEF OutputType, TaskType
<1>6. TaskFits(n, h)
  BY <1>2, <1>4 DEF TasksFit
<1>7. \A w \in Work(n) \ {h} : w.task.conn # h.task.conn
  BY <1>2, <1>4 DEF OneTask, OneTaskOf, Work
<1> QED
  BY <1>1, <1>4, <1>5, <1>6, <1>7 DEF TaskFits, h

(* EstablishedOk, while the manager shuts down.                            *)
LEMMA EstablishedOkShutdown ==
    ASSUME ManagerInv, NEW n \in Nodes, Joined(n, "Established", {"ok"}),
           peer[n].session_state = "None", Joining(n),
           peer' = [peer EXCEPT ![n].pending = {}], AbortPending(n),
           conns' = [conns EXCEPT ![Head(ended[n]).task.conn] = Close(@, "lost")],
           UNCHANGED << tasks, incoming, sess, submitted, dials, failures >>, StopIfDone(n)
    PROVE  ManagerInv'
<1> DEFINE d == Head(ended[n]).task.conn
<1>1. /\ Alive(n) /\ ended[n] # << >> /\ peer[n].known /\ d \in Conns
      /\ Head(ended[n]).task.step = "Established"
  BY JoinedEstablished
<1>2. conns \in [Conns -> ConnShape]
  BY DEF ManagerInv, Types
<1> HIDE DEF d
<1>3. /\ conns' \in [Conns -> ConnShape] /\ conns'[d].status # "up"
      /\ \A c \in Conns : /\ conns'[c].started = conns[c].started
                          /\ conns'[c].closed = conns[c].closed
                          /\ conns'[c].bye = conns[c].bye
                          /\ conns'[c].status = "up" => conns[c].status = "up"
  <2> DEFINE x == Close(conns[d], "lost")
  <2>1. /\ x \in ConnShape /\ x.status # "up" /\ x.started = conns[d].started
        /\ x.closed = conns[d].closed /\ x.bye = conns[d].bye
    BY <1>1, <1>2, CloseFacts
  <2>2. conns' = [conns EXCEPT ![d] = x]
    BY DEF d
  <2> HIDE DEF x
  <2> QED
    BY <1>1, <1>2, <2>1, <2>2
<1>4. /\ peer[n] \in PeerType(n) /\ sess[n] \in SessType(n) /\ over[n] \subseteq AllIntents(n)
      /\ DOMAIN peer = Nodes /\ DOMAIN sess = Nodes /\ DOMAIN over = Nodes
      /\ peer[n].session_state = "Active" <=> sess[n].state # "none"
      /\ SessFits(n)
      /\ KeptIn(submitted[n], peer[n].pending, sess[n].active, sess[n].queued,
                sess[n].remaining, over[n])
  BY <1>1, SameState
<1> DEFINE p == [peer[n] EXCEPT !.pending = {}]
           O == over[n] \cup peer[n].pending
<1>5. /\ p \in PeerType(n) /\ p.known = peer[n].known /\ p.pending = {}
      /\ p.session_state = peer[n].session_state
  BY <1>4 DEF PeerType
<1>6. peer' = [peer EXCEPT ![n] = p]
  BY <1>4
<1>7. over' = [over EXCEPT ![n] = O] /\ O \subseteq AllIntents(n)
  BY <1>4, PeerShapes DEF AbortPending
<1>8. KeptIn(submitted[n], {}, sess[n].active, sess[n].queued, sess[n].remaining, O)
  BY <1>4 DEF KeptIn
<1> HIDE DEF p, O
<1>9. NewState(n, p, sess[n], O)
  BY <1>1, <1>4, <1>5, <1>6, <1>7, <1>8 DEF NewState
<1>10. SessFits(n)'
  BY <1>3, <1>4, SessKept
<1> QED
  BY <1>1, <1>3, <1>9, <1>10, JoinStep DEF d

(* EstablishedOk: the session starts.                                      *)
LEMMA EstablishedOkStarts ==
    ASSUME ManagerInv, NEW n \in Nodes, Joined(n, "Established", {"ok"}),
           peer[n].session_state = "None", Joining(n),
           LET t == Head(ended[n]).task IN
              /\ Spawn(n, {Task(t.conn, "Done", t.role)})
              /\ sess' = [sess EXCEPT ![n] = [NoSession EXCEPT !.state = "running",
                                !.conn = t.conn, !.active = peer[n].pending]],
           peer' = [peer EXCEPT ![n].pending = {}, ![n].conn_state = "Active",
                                ![n].our_dial = {}, ![n].handle = {}, ![n].session_state = "Active"],
           UNCHANGED << incoming, conns, over, submitted, dials, failures >>, StopIfDone(n)
    PROVE  ManagerInv'
<1>h. PICK h : h = Head(ended[n])
  OBVIOUS
<1>d. PICK d, r : d = h.task.conn /\ r = h.task.role
  OBVIOUS
<1>u. PICK u : u = Task(d, "Done", r)
  OBVIOUS
<1>1. /\ Alive(n) /\ ended[n] # << >> /\ peer[n].known /\ d \in Conns /\ h \in Work(n)
      /\ h.task.step = "Established" /\ r \in {"Alfie", "Betty"} /\ d <= dials
      /\ conns[d].started = Nodes /\ n \notin conns[d].closed
      /\ \A w \in Work(n) \ {h} : w.task.conn # d
  BY <1>h, <1>d, JoinedEstablished
<1>2. /\ u \in TaskType /\ u.conn = d /\ u.step = "Done" /\ u.connecting = FALSE
      /\ Running(u).task = u /\ Running(u).result = "runs"
  BY <1>u, <1>1 DEF Task, TaskType, Running
<1>3. Types /\ OneTask /\ OneHeldAt(2) /\ dials <= dials'
  BY DEF ManagerInv, OneHeld, Types
<1>4. Spawn(n, {u})
  BY <1>h, <1>d, <1>u
<1> DEFINE x == [NoSession EXCEPT !.state = "running", !.conn = d, !.active = peer[n].pending]
           p == [peer[n] EXCEPT !.pending = {}, !.conn_state = "Active", !.our_dial = {},
                                !.handle = {}, !.session_state = "Active"]
<1>5. /\ peer[n] \in PeerType(n) /\ sess[n] \in SessType(n) /\ over[n] \subseteq AllIntents(n)
      /\ DOMAIN peer = Nodes /\ DOMAIN sess = Nodes /\ DOMAIN over = Nodes
      /\ peer[n].session_state = "Active" <=> sess[n].state # "none"
      /\ SessFits(n)
      /\ KeptIn(submitted[n], peer[n].pending, sess[n].active, sess[n].queued,
                sess[n].remaining, over[n])
  BY <1>1, SameState
<1>6. /\ p \in PeerType(n) /\ p.known = peer[n].known /\ p.pending = {}
      /\ p.session_state = "Active" /\ p.conn_state = "Active"
  BY <1>5 DEF PeerType
<1>7. peer' = [peer EXCEPT ![n] = p] /\ sess' = [sess EXCEPT ![n] = x]
  BY <1>h, <1>d, <1>5
<1>8. /\ x \in SessType(n) /\ x.state = "running" /\ x.conn = d /\ x.active = peer[n].pending
      /\ x.queued = {} /\ x.remaining = {}
  <2>1. peer[n].pending \subseteq AllIntents(n)
    BY <1>5, PeerShapes
  <2> QED
    BY <1>1, <2>1 DEF SessType, NoSession
<1>9. KeptIn(submitted[n], {}, peer[n].pending, {}, {}, over[n])
  <2>1. sess[n].active = {} /\ sess[n].queued = {} /\ sess[n].remaining = {}
    BY <1>5 DEF SessFits, NoSession
  <2> QED
    BY <1>5, <2>1 DEF KeptIn
<1> HIDE DEF x, p
<1>10. NewState(n, p, x, over[n])
  BY <1>1, <1>5, <1>6, <1>7, <1>8, <1>9 DEF NewState
<1>11. WorkStep(n, {h}, {Running(u)})
  BY <1>1, <1>2, <1>3, <1>4, JoinSpawnWork, <1>h
<1>12. /\ DOMAIN peer' = Nodes /\ DOMAIN sess' = Nodes /\ DOMAIN over' = Nodes
       /\ peer'[n] = p /\ sess'[n] = x
       /\ \A m \in Nodes \ {n} : peer'[m] = peer[m] /\ sess'[m] = sess[m] /\ over'[m] = over[m]
       /\ \A m \in Nodes : peer'[m] \in PeerType(m) /\ sess'[m] \in SessType(m)
                           /\ over'[m] \subseteq AllIntents(m)
       /\ KnownAt(n)' /\ Kept(n)'
  <2>1. submitted'[n] = submitted[n]
    OBVIOUS
  <2>2. Types
    BY <1>3
  <2>3. /\ DOMAIN peer' = Nodes /\ DOMAIN sess' = Nodes /\ DOMAIN over' = Nodes
        /\ peer'[n] = p /\ sess'[n] = x
        /\ KnownAt(n)' /\ Kept(n)'
    BY <1>10, <2>1, <2>2, NewStateFacts
  <2>4. \A m \in Nodes \ {n} : peer'[m] = peer[m] /\ sess'[m] = sess[m] /\ over'[m] = over[m]
    BY <1>10, <2>2, NewStateFacts
  <2>5. \A m \in Nodes : peer'[m] \in PeerType(m) /\ sess'[m] \in SessType(m)
                         /\ over'[m] \subseteq AllIntents(m)
    BY <1>10, <2>2, NewStateFacts
  <2> QED
    BY <2>3, <2>4, <2>5
<1>13. /\ manager' \in [Nodes -> ManagerType]
       /\ \A m \in Nodes \ {n} : manager'[m] = manager[m]
       /\ ~ Alive(n)' => tasks'[n] = {} /\ ended'[n] = << >>
  BY <1>1, <1>3, StopFacts
<1>14. Types'
  BY <1>3, <1>11, <1>12, <1>13 DEF Types, WorkStep
<1>15. ConnsKept(n) /\ \A w \in Work(n) : w.task.step = "Established" =>
                           n \notin conns'[w.task.conn].closed /\ sess[n].conn # w.task.conn
  BY StatusKept
<1>16. OthersKept(n)
  <2>1. \A m \in Nodes \ {n} : ended'[m] = ended[m] /\ tasks'[m] = tasks[m]
    BY <1>3, <1>4 DEF Joining, Types, Spawn
  <2> QED
    BY <1>12, <1>13, <2>1 DEF OthersKept
<1>17. OneHeldAt(2)'
  BY <1>1, <1>2, <1>3, <1>6, <1>11, <1>12, HeldKept, <1>d
<1>18. SessFits(n)'
  BY <1>1, <1>8, <1>12 DEF SessFits
<1>19. NodeAt(n)'
  <2>1. NodeAt(n)
    BY DEF ManagerInv
  <2> QED
    BY <1>1, <1>6, <1>12, <1>13, <1>18, <2>1 DEF NodeAt
<1>20. TaskFits(n, Running(u))'
  BY <1>1, <1>2 DEF TaskFits
<1>21. \A w \in Work(n) \ {h} : w.task.step = "Established" =>
          n \notin conns'[w.task.conn].closed /\ sess'[n].conn # w.task.conn
  BY <1>1, <1>8, <1>12, <1>15
<1> QED
  BY <1>1, <1>2, <1>3, <1>11, <1>14, <1>15, <1>16, <1>17, <1>19, <1>20, <1>21, NodeStep, <1>d

(* EstablishedOk.                                                          *)
LEMMA EstablishedOkStep ==
    ASSUME ManagerInv, NEW n \in Nodes, EstablishedOk(n)
    PROVE  ManagerInv'
<1>1. CASE Die(n, "session not inactive")
  <2>1. "session not inactive" \in ManagerType \ {"running", "shutdown"}
    BY DEF ManagerType
  <2> QED
    BY <1>1, <2>1, DieStep
<1>2. CASE peer[n].session_state = "None" /\ manager[n] = "shutdown"
  BY <1>2, EstablishedOkShutdown DEF EstablishedOk
<1>3. CASE peer[n].session_state = "None" /\ manager[n] = "running"
  BY <1>3, EstablishedOkStarts DEF EstablishedOk
<1> QED
  BY <1>1, <1>2, <1>3 DEF EstablishedOk

(* DoneOk: this node says goodbye.                                         *)
LEMMA DoneOkGoodbye ==
    ASSUME ManagerInv, NEW n \in Nodes, Joined(n, "Done", {"ok"}),
           Joining(n),
           LET t == Head(ended[n]).task IN
              /\ Spawn(n, {Task(t.conn, "Closed", t.role)})
              /\ conns' = [conns EXCEPT ![t.conn].bye = @ \cup {n}],
           peer' = [peer EXCEPT ![n].conn_state = "Terminating"],
           UNCHANGED << incoming, sess, over, submitted, dials, failures >>, StopIfDone(n)
    PROVE  ManagerInv'
<1>h. PICK h : h = Head(ended[n])
  OBVIOUS
<1>d. PICK d, r : d = h.task.conn /\ r = h.task.role
  OBVIOUS
<1>u. PICK u : u = Task(d, "Closed", r)
  OBVIOUS
<1>1. /\ Alive(n) /\ ended[n] # << >> /\ peer[n].known
      /\ h.task.step = "Done" /\ h.result = "ok"
  BY <1>h DEF Joined
<1>2. Types /\ OneTask /\ TasksFit /\ ConnsFit /\ OneHeldAt(2) /\ dials <= dials'
  BY DEF ManagerInv, OneHeld, Types
<1>3. h \in OutputType /\ h \in Work(n)
  <2>1. Fit(tasks[n], ended[n])
    BY <1>2, TaskTypes DEF OneTask, Fit
  <2> QED
    BY <1>1, <1>h, <2>1, WorkTail DEF Work
<1>4. r \in {"Alfie", "Betty"} /\ d \in Conns
  BY <1>3, <1>d DEF OutputType, TaskType
<1>5. d <= dials /\ n \in conns[d].closed /\ n \in conns[d].started
  <2>1. TaskFits(n, h) /\ h.task.connecting \in BOOLEAN
    BY <1>2, <1>3, InWork DEF TasksFit
  <2> QED
    BY <1>1, <1>d, <2>1 DEF TaskFits
<1>6. \A w \in Work(n) \ {h} : w.task.conn # d
  BY <1>2, <1>3, <1>d DEF OneTask, OneTaskOf, Work
<1>7. /\ u \in TaskType /\ u.conn = d /\ u.step = "Closed" /\ u.connecting = FALSE
      /\ Running(u).task = u /\ Running(u).result = "runs"
  BY <1>u, <1>4 DEF Task, TaskType, Running
<1>8. Spawn(n, {u}) /\ conns' = [conns EXCEPT ![d].bye = @ \cup {n}]
  BY <1>h, <1>d, <1>u
<1>9. WorkStep(n, {h}, {Running(u)})
  BY <1>1, <1>2, <1>6, <1>7, <1>8, JoinSpawnWork, <1>h
<1>10. /\ conns' \in [Conns -> ConnShape]
       /\ conns'[d].bye \subseteq conns'[d].closed
       /\ \A c \in Conns : /\ conns'[c].started = conns[c].started
                           /\ conns'[c].closed = conns[c].closed
                           /\ conns'[c].status = conns[c].status
                           /\ c # d => conns'[c].bye = conns[c].bye
  <2>1. conns \in [Conns -> ConnShape] /\ conns[d] \in ConnShape
    BY <1>2, <1>4 DEF Types
  <2> DEFINE x == [conns[d] EXCEPT !.bye = conns[d].bye \cup {n}]
  <2>2. conns' = [conns EXCEPT ![d] = x]
    BY <1>8, <2>1
  <2>3. /\ x \in ConnShape /\ x.started = conns[d].started /\ x.closed = conns[d].closed
        /\ x.status = conns[d].status /\ x.bye \subseteq x.closed
    <3>1. conns[d].bye \subseteq conns[d].closed
      BY <1>4 DEF ManagerInv, ConnsFit
    <3> QED
      BY <1>5, <2>1, <3>1 DEF ConnShape
  <2> HIDE DEF x
  <2> QED
    BY <1>4, <1>5, <2>1, <2>2, <2>3
<1>11. ConnsKept(n)
  BY <1>2, <1>10 DEF ConnsFit, ConnsKept
<1>12. peer[n] \in PeerType(n) /\ SessFits(n) /\ DOMAIN peer = Nodes
  BY <1>1, SameState
<1> DEFINE p == [peer[n] EXCEPT !.conn_state = "Terminating"]
<1>13. /\ p \in PeerType(n) /\ p.known = peer[n].known /\ p.pending = peer[n].pending
       /\ p.session_state = peer[n].session_state
  BY <1>12 DEF PeerType
<1>14. peer' = [peer EXCEPT ![n] = p]
  BY <1>12
<1> HIDE DEF p
<1>15. NewState(n, p, sess[n], over[n])
  BY <1>1, <1>13, <1>14, PeerMoves
<1>16. /\ DOMAIN peer' = Nodes /\ DOMAIN sess' = Nodes /\ DOMAIN over' = Nodes
       /\ peer'[n] = p
       /\ \A m \in Nodes \ {n} : peer'[m] = peer[m] /\ sess'[m] = sess[m] /\ over'[m] = over[m]
       /\ \A m \in Nodes : peer'[m] \in PeerType(m) /\ sess'[m] \in SessType(m)
                           /\ over'[m] \subseteq AllIntents(m)
       /\ KnownAt(n)' /\ Kept(n)'
  BY <1>2, <1>15, NewStateFacts
<1>17. /\ manager' \in [Nodes -> ManagerType]
       /\ \A m \in Nodes \ {n} : manager'[m] = manager[m]
       /\ ~ Alive(n)' => tasks'[n] = {} /\ ended'[n] = << >>
  BY <1>1, <1>2, StopFacts
<1>18. Types'
  BY <1>2, <1>9, <1>10, <1>16, <1>17 DEF Types, WorkStep
<1>19. OthersKept(n)
  <2>1. \A m \in Nodes \ {n} : ended'[m] = ended[m] /\ tasks'[m] = tasks[m]
    BY <1>2, <1>8 DEF Joining, Types, Spawn
  <2> QED
    BY <1>16, <1>17, <2>1 DEF OthersKept
<1>20. OneHeldAt(2)'
  BY <1>1, <1>2, <1>3, <1>7, <1>9, <1>16, HeldJoined
<1>21. NodeAt(n)'
  <2>1. NodeAt(n)
    BY DEF ManagerInv
  <2>2. SessFits(n)'
    BY <1>10, <1>12, SessKept
  <2> QED
    BY <1>1, <1>10, <1>13, <1>16, <1>17, <2>1, <2>2 DEF NodeAt
<1>22. TaskFits(n, Running(u))'
  BY <1>4, <1>5, <1>7, <1>10 DEF TaskFits
<1>23. \A w \in Work(n) \ {h} : w.task.step = "Established" =>
          n \notin conns'[w.task.conn].closed /\ sess'[n].conn # w.task.conn
  <2>1. \A w \in Work(n) : w.task.conn \in Conns /\ TaskFits(n, w)
    BY <1>2, InWork DEF TasksFit
  <2> QED
    BY <1>10, <2>1 DEF TaskFits
<1>24. n \in conns'[h.task.conn].closed
  BY <1>4, <1>5, <1>10, <1>d
<1> QED
  BY <1>2, <1>7, <1>9, <1>11, <1>18, <1>19, <1>20, <1>21, <1>22, <1>23, <1>24, NodeStep

(* DoneOk.                                                                 *)
LEMMA DoneOkStep ==
    ASSUME ManagerInv, NEW n \in Nodes, DoneOk(n)
    PROVE  ManagerInv'
<1>1. CASE Die(n, "done not active") \/ Die(n, "done while session active")
  <2>1. {"done not active", "done while session active"} \subseteq ManagerType \ {"running", "shutdown"}
    BY DEF ManagerType
  <2> QED
    BY <1>1, <2>1, DieStep
<1>2. CASE ~ (Die(n, "done not active") \/ Die(n, "done while session active"))
  BY <1>2, DoneOkGoodbye DEF DoneOk
<1> QED
  BY <1>1, <1>2

(* A dial: the connection is new, and this node has no task for it.        *)
IsDial(u) == u = [Task(dials + 1, "Established", "Alfie") EXCEPT !.connecting = TRUE]

(* The task of a dial fits, and works on no connection of another.         *)
LEMMA DialFacts ==
    ASSUME ManagerInv, NEW n \in Nodes, dials < MaxDials, NEW u, IsDial(u)
    PROVE  /\ u \in TaskType /\ u.conn = dials + 1 /\ u.step = "Established" /\ u.connecting = TRUE
           /\ Running(u).task = u /\ Running(u).result = "runs"
           /\ dials + 1 \in Conns /\ dials \in Nat /\ dials + 1 \in 0..MaxDials
           /\ \A w \in Work(n) : w.task.conn # dials + 1
           /\ conns[dials + 1].started = {} /\ sess[n].conn # dials + 1
<1>1. Types /\ TasksFit /\ ConnsFit /\ SessFits(n)
  BY DEF ManagerInv, NodeAt
<1>2. dials + 1 \in Conns /\ dials \in Nat /\ dials + 1 \in 0..MaxDials
  BY <1>1, ManagerAssumption DEF Types, Conns
<1>3. /\ u \in TaskType /\ u.conn = dials + 1 /\ u.step = "Established" /\ u.connecting = TRUE
      /\ Running(u).task = u /\ Running(u).result = "runs"
  BY <1>2 DEF Task, TaskType, Running, IsDial
<1>4. \A w \in Work(n) : w.task.conn # dials + 1
  <2>1. \A w \in Work(n) : w.task.conn <= dials /\ w.task.conn \in Conns
    BY <1>1, InWork DEF TasksFit, TaskFits
  <2> QED
    BY <1>2, <2>1 DEF Conns
<1>5. conns[dials + 1].started = {}
  BY <1>1, <1>2 DEF ConnsFit
<1>6. sess[n].conn # dials + 1
  BY <1>1, <1>2, <1>5 DEF SessFits, NoSession, Nodes
<1> QED
  BY <1>2, <1>3, <1>4, <1>5, <1>6

(* A step in which a node dials.                                           *)
LEMMA DialStep ==
    ASSUME ManagerInv, Types', NEW n \in Nodes, dials < MaxDials, dials' = dials + 1, NEW u, IsDial(u),
           NEW out, WorkStep(n, out, {Running(u)}), \A w \in out : w.task.step = "Closed",
           OthersKept(n), ConnsKept(n),
           \A m \in Nodes : incoming'[m] \subseteq incoming[m],
           sess'[n].conn \in {sess[n].conn, 0},
           \A w \in Work(n) \ out : w.task.step = "Established" => n \notin conns'[w.task.conn].closed,
           peer[n].conn_state \in {"None", "Terminating"}, peer'[n].conn_state = "Establishing",
           NodeAt(n)'
    PROVE  ManagerInv'
<1>1. /\ u \in TaskType /\ u.conn = dials + 1 /\ u.step = "Established" /\ u.connecting = TRUE
      /\ Running(u).task = u /\ Running(u).result = "runs"
      /\ dials + 1 \in Conns /\ dials \in Nat /\ dials + 1 \in 0..MaxDials
      /\ \A w \in Work(n) : w.task.conn # dials + 1
      /\ conns[dials + 1].started = {} /\ sess[n].conn # dials + 1
  BY DialFacts
<1>2. conns'[dials + 1].started = {} /\ conns'[dials + 1].closed = {} /\ sess'[n].conn # dials + 1
  BY <1>1 DEF ConnsKept
<1>3. TaskFits(n, Running(u))'
  BY <1>1, <1>2 DEF TaskFits
<1>4. OneHeldAt(2)'
  <2>1. OneHeldAt(2) /\ \A m \in Nodes \ {n} : peer'[m] = peer[m]
    BY DEF ManagerInv, OneHeld, OthersKept
  <2>2. PICK c : c = dials + 1
    OBVIOUS
  <2>3. PICK in : in = {Running(u)}
    OBVIOUS
  <2>4. WorkStep(n, out, in) /\ \A v \in in : v.task.conn = c
    BY <1>1, <2>2, <2>3
  <2>5. TakesOnly(n, in, c)
    BY <2>4 DEF TakesOnly
  <2>6. /\ n \in Nodes /\ peer'[n].conn_state = "Establishing"
        /\ n = 2 => peer[n].conn_state \in {"None", "Terminating"}
    OBVIOUS
  <2> QED
    BY ONLY <2>1, <2>4, <2>5, <2>6, HeldNew
<1>5. \A w \in Work(n) \ out : w.task.step = "Established" => sess'[n].conn # w.task.conn
  <2>1. \A w \in Work(n) : w.task.conn \in Conns /\ TaskFits(n, w)
    BY InWork DEF ManagerInv, TasksFit
  <2> QED
    BY <2>1, ManagerAssumption DEF TaskFits, Conns
<1>6. dials <= dials'
  BY <1>1
<1>7. \A w \in {Running(u)} : dials < w.task.conn
  BY <1>1
<1> QED
  BY <1>3, <1>4, <1>5, <1>6, <1>7, NodeStep

(* ConnectIfInactive dials, or leaves the tasks alone.                     *)
Dials(n) == dials < MaxDials /\ dials' = dials + 1 /\ \E u : IsDial(u) /\ Spawn(n, {u})

ConnectsTo(n, i, p) ==
    /\ p \in PeerType(n) /\ p.known = i.known /\ p.pending = i.pending
    /\ p.session_state = i.session_state /\ peer' = [peer EXCEPT ![n] = p]
    /\ \/ i.conn_state = "None" /\ p.conn_state = "Establishing" /\ Dials(n)
       \/ i.conn_state # "None" /\ p.conn_state = i.conn_state /\ UNCHANGED << tasks, dials >>

(* What ConnectIfInactive does is one of the two.                          *)
LEMMA ConnectFacts ==
    ASSUME ManagerInv, NEW n \in Nodes, NEW i \in PeerType(n), ConnectIfInactive(n, i)
    PROVE  \E p : ConnectsTo(n, i, p)
<1>1. CASE /\ i.conn_state = "None" /\ dials < MaxDials
           /\ dials' = dials + 1
           /\ Spawn(n, {[Task(dials + 1, "Established", "Alfie") EXCEPT !.connecting = TRUE]})
           /\ peer' = [peer EXCEPT ![n] =
                            [i EXCEPT !.conn_state = "Establishing", !.our_dial = {dials + 1}, !.handle = {dials + 1}]]
  <2> DEFINE p == [i EXCEPT !.conn_state = "Establishing", !.our_dial = {dials + 1}, !.handle = {dials + 1}]
  <2>1. dials + 1 \in Conns
    BY <1>1, ManagerAssumption DEF ManagerInv, Types, Conns
  <2>2. /\ p \in PeerType(n) /\ p.known = i.known /\ p.pending = i.pending
        /\ p.session_state = i.session_state /\ p.conn_state = "Establishing"
    BY <2>1 DEF PeerType
  <2>3. peer' = [peer EXCEPT ![n] = p]
    BY <1>1
  <2>4. Dials(n)
    BY <1>1 DEF Dials, IsDial
  <2> HIDE DEF p
  <2>5. ConnectsTo(n, i, p)
    BY <1>1, <2>2, <2>3, <2>4 DEF ConnectsTo
  <2> QED
    BY <2>5
<1>2. CASE /\ i.conn_state # "None"
           /\ peer' = [peer EXCEPT ![n] = i]
           /\ UNCHANGED << tasks, dials >>
  <2>1. ConnectsTo(n, i, i)
    BY <1>2 DEF ConnectsTo
  <2> QED
    BY <2>1
<1> QED
  BY <1>1, <1>2 DEF ConnectIfInactive

(* Closed, with intents waiting: the node dials again.                     *)
LEMMA ClosedDials ==
    ASSUME ManagerInv, NEW n \in Nodes, Joined(n, "Closed", {"ok", "err"}),
           peer[n].conn_state = "Terminating", Joining(n),
           ConnectIfInactive(n, [peer[n] EXCEPT !.conn_state = "None"]),
           UNCHANGED << incoming, sess, conns, over, submitted, failures >>, StopIfDone(n)
    PROVE  ManagerInv'
<1>h. PICK h : h = Head(ended[n])
  OBVIOUS
<1>1. /\ Alive(n) /\ ended[n] # << >> /\ peer[n].known /\ h.task.step = "Closed"
  BY <1>h DEF Joined
<1>2. Types /\ OneTask
  BY DEF ManagerInv
<1>3. peer[n] \in PeerType(n) /\ SessFits(n)
  BY <1>1, SameState
<1> DEFINE i == [peer[n] EXCEPT !.conn_state = "None"]
<1>4. /\ i \in PeerType(n) /\ i.known = peer[n].known /\ i.pending = peer[n].pending
      /\ i.session_state = peer[n].session_state /\ i.conn_state = "None"
  BY <1>3 DEF PeerType
<1>5. ConnectIfInactive(n, i)
  OBVIOUS
<1> HIDE DEF i
<1>6. PICK p : ConnectsTo(n, i, p)
  BY <1>4, <1>5, ConnectFacts
<1>7. /\ p \in PeerType(n) /\ p.known = peer[n].known /\ p.pending = peer[n].pending
      /\ p.session_state = peer[n].session_state /\ peer' = [peer EXCEPT ![n] = p]
      /\ p.conn_state = "Establishing" /\ dials < MaxDials /\ dials' = dials + 1
      /\ \E u : IsDial(u) /\ Spawn(n, {u})
  BY <1>4, <1>6 DEF ConnectsTo, Dials
<1>8. PICK u : IsDial(u) /\ Spawn(n, {u})
  BY <1>7
<1>9. u \in TaskType /\ u.conn = dials + 1 /\ (\A w \in Work(n) : w.task.conn # dials + 1)
      /\ dials + 1 \in 0..MaxDials
  BY <1>7, <1>8, DialFacts
<1>10. h \in Work(n) /\ WorkStep(n, {h}, {Running(u)})
  BY <1>1, <1>2, <1>8, <1>9, <1>h, JoinSpawnWork
<1>11. NewState(n, p, sess[n], over[n])
  BY <1>1, <1>7, PeerMoves
<1>12. /\ DOMAIN peer' = Nodes /\ DOMAIN sess' = Nodes /\ DOMAIN over' = Nodes
       /\ peer'[n] = p
       /\ \A m \in Nodes \ {n} : peer'[m] = peer[m] /\ sess'[m] = sess[m] /\ over'[m] = over[m]
       /\ \A m \in Nodes : peer'[m] \in PeerType(m) /\ sess'[m] \in SessType(m)
                           /\ over'[m] \subseteq AllIntents(m)
       /\ KnownAt(n)' /\ Kept(n)'
  BY <1>2, <1>11, NewStateFacts
<1>13. /\ manager' \in [Nodes -> ManagerType]
       /\ \A m \in Nodes \ {n} : manager'[m] = manager[m]
       /\ ~ Alive(n)' => tasks'[n] = {} /\ ended'[n] = << >>
  BY <1>1, <1>2, StopFacts
<1>14. Types'
  BY <1>2, <1>7, <1>9, <1>10, <1>12, <1>13 DEF Types, WorkStep
<1>15. OthersKept(n)
  <2>1. \A m \in Nodes \ {n} : ended'[m] = ended[m] /\ tasks'[m] = tasks[m]
    BY <1>2, <1>8 DEF Joining, Types, Spawn
  <2> QED
    BY <1>12, <1>13, <2>1 DEF OthersKept
<1>16. ConnsKept(n) /\ \A w \in Work(n) : w.task.step = "Established" =>
                           n \notin conns'[w.task.conn].closed /\ sess[n].conn # w.task.conn
  BY StatusKept
<1>17. NodeAt(n)'
  <2>1. NodeAt(n)
    BY DEF ManagerInv
  <2>2. SessFits(n)'
    BY <1>3, SessKept
  <2> QED
    BY <1>1, <1>7, <1>12, <1>13, <2>1, <2>2 DEF NodeAt
<1>18. PICK out : out = {h}
  OBVIOUS
<1>19. WorkStep(n, out, {Running(u)}) /\ (\A w \in out : w.task.step = "Closed")
       /\ (\A w \in Work(n) \ out : w.task.step = "Established" => n \notin conns'[w.task.conn].closed)
       /\ \A m \in Nodes : incoming'[m] \subseteq incoming[m]
  BY <1>1, <1>10, <1>16, <1>18
<1>20. peer'[n].conn_state = "Establishing" /\ sess'[n].conn \in {sess[n].conn, 0}
  BY <1>7, <1>12
<1> QED
  BY <1>7, <1>8, <1>14, <1>15, <1>16, <1>17, <1>19, <1>20, DialStep

(* Closed.                                                                 *)
LEMMA ClosedStep ==
    ASSUME ManagerInv, NEW n \in Nodes, Closed(n)
    PROVE  ManagerInv'
<1>1. /\ Alive(n) /\ ended[n] # << >> /\ peer[n].known /\ Head(ended[n]).task.step = "Closed"
      /\ Joined(n, "Closed", {"ok", "err"})
  BY DEF Closed, Joined
<1>2. /\ peer[n] \in PeerType(n) /\ sess[n] \in SessType(n) /\ over[n] \subseteq AllIntents(n)
      /\ DOMAIN peer = Nodes /\ DOMAIN sess = Nodes /\ DOMAIN over = Nodes
      /\ peer[n].session_state = "Active" <=> sess[n].state # "none"
      /\ SessFits(n)
      /\ KeptIn(submitted[n], peer[n].pending, sess[n].active, sess[n].queued,
                sess[n].remaining, over[n])
  BY <1>1, SameState
<1>3. CASE Die(n, "closed while none")
  <2>1. "closed while none" \in ManagerType \ {"running", "shutdown"}
    BY DEF ManagerType
  <2> QED
    BY <1>3, <2>1, DieStep
<1>4. CASE /\ peer[n].conn_state = "Terminating" /\ Joining(n)
           /\ ConnectIfInactive(n, [peer[n] EXCEPT !.conn_state = "None"])
           /\ UNCHANGED << incoming, sess, conns, over, submitted, failures >>
           /\ StopIfDone(n)
  BY <1>1, <1>4, ClosedDials
<1> DEFINE Quiet == /\ Joining(n) /\ StopIfDone(n)
                    /\ UNCHANGED << tasks, incoming, sess, conns, submitted, dials, failures >>
           i == [peer[n] EXCEPT !.conn_state = "None"]
<1>i. /\ i \in PeerType(n) /\ i.known = peer[n].known /\ i.pending = peer[n].pending
      /\ i.session_state = peer[n].session_state /\ i.conn_state = "None"
  BY <1>2 DEF PeerType
<1>5. ASSUME Quiet, NEW p, NEW O, NewState(n, p, sess[n], O),
             p.conn_state \in {"None", "Terminating"} => peer[n].conn_state \in {"None", "Terminating"}
      PROVE  ManagerInv'
  <2>1. conns' \in [Conns -> ConnShape]
    BY <1>5 DEF ManagerInv, Types
  <2>2. SessFits(n)'
    BY <1>2, <1>5, SessKept
  <2> QED
    BY <1>1, <1>5, <2>1, <2>2, JoinStep
<1>6. CASE /\ Quiet /\ UNCHANGED << peer, over >>
  <2>1. NewState(n, peer[n], sess[n], over[n])
    BY <1>1, <1>2, <1>6 DEF NewState
  <2> QED
    BY <1>5, <1>6, <2>1
<1>7. CASE /\ Quiet /\ peer[n].conn_state = "Terminating" /\ AbortPending(n)
           /\ peer' = [peer EXCEPT ![n] = [i EXCEPT !.pending = {}]]
  <2> DEFINE p == [i EXCEPT !.pending = {}]
             O == over[n] \cup peer[n].pending
  <2>1. /\ p \in PeerType(n) /\ p.known = i.known /\ p.pending = {}
        /\ p.session_state = i.session_state
    BY <1>i DEF PeerType
  <2>2. over' = [over EXCEPT ![n] = O] /\ O \subseteq AllIntents(n)
    BY <1>2, <1>7, PeerShapes DEF AbortPending
  <2>3. KeptIn(submitted[n], {}, sess[n].active, sess[n].queued, sess[n].remaining, O)
    BY <1>2 DEF KeptIn
  <2>4. peer' = [peer EXCEPT ![n] = p]
    BY <1>7
  <2> HIDE DEF p, O, i
  <2>5. NewState(n, p, sess[n], O)
    BY <1>1, <1>2, <1>7, <1>i, <2>1, <2>2, <2>3, <2>4 DEF NewState
  <2> QED
    BY <1>5, <1>7, <2>5
<1>8. CASE /\ Quiet /\ peer[n].conn_state = "Terminating" /\ peer[n].pending = {}
           /\ peer[n].session_state = "None" /\ peer' = [peer EXCEPT ![n] = NoPeer]
           /\ UNCHANGED over
  <2>1. /\ NoPeer \in PeerType(n) /\ NoPeer.known = FALSE /\ NoPeer.pending = {}
        /\ NoPeer.session_state = "None"
    BY <1>2, PeerShapes
  <2>2. NewState(n, NoPeer, sess[n], over[n])
    BY <1>1, <1>2, <1>8, <2>1 DEF NewState
  <2> QED
    BY <1>5, <1>8, <2>2
<1>9. CASE /\ Quiet /\ peer[n].conn_state = "Terminating" /\ peer' = [peer EXCEPT ![n] = i]
           /\ UNCHANGED over
  <2> HIDE DEF i
  <2>1. NewState(n, i, sess[n], over[n])
    BY <1>1, <1>2, <1>9, <1>i, PeerMoves
  <2> QED
    BY <1>5, <1>9, <2>1
<1>10. peer[n].session_state \in {"None", "Active"}
  BY <1>2, PeerShapes
<1>11. CASE /\ peer[n].conn_state = "Terminating" /\ Joining(n) /\ StopIfDone(n)
            /\ UNCHANGED << incoming, sess, conns, submitted, failures >>
            /\ \/ /\ i.pending # {} /\ Head(ended[n]).result = "ok"
                  /\ ConnectIfInactive(n, i)
                  /\ UNCHANGED over
               \/ /\ i.pending # {} /\ Head(ended[n]).result = "err"
                  /\ AbortPending(n)
                  /\ peer' = [peer EXCEPT ![n] = [i EXCEPT !.pending = {}]]
                  /\ UNCHANGED << tasks, dials >>
               \/ /\ i.pending = {}
                  /\ peer' = [peer EXCEPT ![n] = IF i.session_state = "None" THEN NoPeer ELSE i]
                  /\ UNCHANGED << tasks, over, dials >>
  <2>1. CASE ConnectIfInactive(n, i) /\ UNCHANGED over
    BY <1>4, <1>11, <2>1
  <2>2. CASE /\ AbortPending(n)
             /\ peer' = [peer EXCEPT ![n] = [i EXCEPT !.pending = {}]]
             /\ UNCHANGED << tasks, dials >>
    BY <1>7, <1>11, <2>2
  <2>3. CASE /\ i.pending = {}
             /\ peer' = [peer EXCEPT ![n] = IF i.session_state = "None" THEN NoPeer ELSE i]
             /\ UNCHANGED << tasks, over, dials >>
    <3>1. CASE i.session_state = "None"
      BY <1>8, <1>11, <1>i, <2>3, <3>1
    <3>2. CASE i.session_state # "None"
      BY <1>9, <1>11, <1>i, <2>3, <3>2
    <3> QED
      BY <3>1, <3>2
  <2> QED
    BY <1>11, <2>1, <2>2, <2>3
<1> QED
  BY <1>3, <1>6, <1>11 DEF Closed

-----------------------------------------------------------------------------
(* The manager's inputs and the end of its session.                        *)

(* An intent that is new is in one place when it is put there.             *)
LEMMA KeptMore ==
    ASSUME NEW S, NEW P, NEW A, NEW Q, NEW R, NEW O, KeptIn(S, P, A, Q, R, O), NEW i, i \notin S
    PROVE  /\ KeptIn(S \cup {i}, P \cup {i}, A, Q, R, O)
           /\ KeptIn(S \cup {i}, P, A, Q \cup {i}, R, O)
BY DEF KeptIn

(* Where push_intent puts an intent.                                       *)
Pushed(n, i, p, x) ==
    /\ p \in PeerType(n) /\ x \in SessType(n) /\ p.known
    /\ p.session_state = peer[n].session_state /\ p.conn_state = peer[n].conn_state
    /\ x.state = sess[n].state /\ x.conn = sess[n].conn
    /\ x.state = "none" => x = NoSession
    /\ x.active = sess[n].active /\ x.remaining = sess[n].remaining
    /\ x.state = "ended" => x.queued = sess[n].queued
    /\ KeptIn(submitted[n] \cup {i}, p.pending, x.active, x.queued, x.remaining, over[n])

ChangesAt(f, g, n, x) ==
    DOMAIN g = Nodes /\ g[n] = x /\ \A m \in Nodes \ {n} : g[m] = f[m]

(* A submitted intent waits at the peer or goes to the session.            *)
LEMMA PushFacts ==
    ASSUME ManagerInv, NEW n \in Nodes, Alive(n), NEW i \in AllIntents(n) \ submitted[n]
    PROVE  \E x : /\ Pushed(n, i, PushIntent(n, i), x)
                  /\ ChangesAt(sess, Enqueue(n, i), n, x)
                  /\ ~ IntoSession(n) => Enqueue(n, i) = sess /\ x = sess[n]
                  /\ IntoSession(n) => PushIntent(n, i) = peer[n]
<1>1. /\ peer[n] \in PeerType(n) /\ sess[n] \in SessType(n) /\ over[n] \subseteq AllIntents(n)
      /\ DOMAIN peer = Nodes /\ DOMAIN sess = Nodes
      /\ ~ peer[n].known => peer[n] = NoPeer
      /\ SessFits(n)
      /\ KeptIn(submitted[n], peer[n].pending, sess[n].active, sess[n].queued,
                sess[n].remaining, over[n])
  BY SameState
<1>2. /\ KeptIn(submitted[n] \cup {i}, peer[n].pending \cup {i}, sess[n].active, sess[n].queued,
                sess[n].remaining, over[n])
      /\ KeptIn(submitted[n] \cup {i}, peer[n].pending, sess[n].active, sess[n].queued \cup {i},
                sess[n].remaining, over[n])
  BY <1>1, KeptMore
<1>3. CASE IntoSession(n)
  <2> DEFINE x == [sess[n] EXCEPT !.queued = sess[n].queued \cup {i}]
  <2>1. PushIntent(n, i) = peer[n] /\ Enqueue(n, i) = [sess EXCEPT ![n] = x]
    BY <1>1, <1>3 DEF PushIntent, Enqueue
  <2>2. sess[n].state = "running" /\ peer[n].session_state = "Active"
    BY <1>3 DEF IntoSession
  <2>3. /\ x \in SessType(n) /\ x.state = sess[n].state /\ x.conn = sess[n].conn
        /\ x.active = sess[n].active /\ x.remaining = sess[n].remaining
        /\ x.queued = sess[n].queued \cup {i}
    BY <1>1 DEF SessType
  <2>4. peer[n].known
    BY <1>1, <2>2 DEF NoPeer
  <2> HIDE DEF x
  <2>5. Pushed(n, i, peer[n], x)
    BY <1>1, <1>2, <2>2, <2>3, <2>4 DEF Pushed
  <2>6. ChangesAt(sess, Enqueue(n, i), n, x)
    BY <1>1, <2>1 DEF ChangesAt
  <2> QED
    BY <1>3, <2>1, <2>5, <2>6
<1>4. CASE ~ IntoSession(n)
  <2> DEFINE p == [peer[n] EXCEPT !.known = TRUE, !.pending = peer[n].pending \cup {i}]
  <2>1. PushIntent(n, i) = p /\ Enqueue(n, i) = sess
    BY <1>4 DEF PushIntent, Enqueue
  <2>2. /\ p \in PeerType(n) /\ p.known = TRUE /\ p.pending = peer[n].pending \cup {i}
        /\ p.session_state = peer[n].session_state /\ p.conn_state = peer[n].conn_state
    BY <1>1 DEF PeerType
  <2> HIDE DEF p
  <2>3. PICK x : x = sess[n]
    OBVIOUS
  <2>4. Pushed(n, i, p, x)
    BY <1>1, <1>2, <2>2, <2>3 DEF Pushed, SessFits
  <2>5. ChangesAt(sess, Enqueue(n, i), n, x)
    BY <1>1, <2>1, <2>3 DEF ChangesAt
  <2> QED
    BY <1>4, <2>1, <2>3, <2>4, <2>5
<1> QED
  BY <1>3, <1>4

(* Connections may start, and the one an intent was accepted for has.      *)
Growing(n, i) ==
    \A c \in Conns : /\ conns[c].started \subseteq conns'[c].started
                     /\ conns'[c].started \subseteq Nodes
                     /\ conns'[c].closed = conns[c].closed
                     /\ i = AcceptIntent(c) => n \in conns'[c].started

(* The peer's state that follows the push of an intent.                    *)
Follows(n, q, p) ==
    /\ p \in PeerType(n) /\ p.known = q.known /\ p.pending = q.pending
    /\ p.session_state = q.session_state /\ ChangesAt(peer, peer', n, p)

(* What an intent that was pushed leaves of the invariant at its node.     *)
LEMMA PushedNode ==
    ASSUME ManagerInv, NEW n \in Nodes, Alive(n), NEW i \in AllIntents(n) \ submitted[n],
           NEW q, NEW x, Pushed(n, i, q, x), ChangesAt(sess, sess', n, x),
           NEW p, Follows(n, q, p),
           submitted' = [submitted EXCEPT ![n] = @ \cup {i}], UNCHANGED << manager, over >>,
           Growing(n, i)
    PROVE  /\ NodeAt(n)'
           /\ DOMAIN peer' = Nodes /\ DOMAIN sess' = Nodes /\ DOMAIN over' = Nodes
           /\ DOMAIN submitted' = Nodes
           /\ \A m \in Nodes : /\ peer'[m] \in PeerType(m) /\ sess'[m] \in SessType(m)
                               /\ over'[m] \subseteq AllIntents(m)
                               /\ submitted'[m] \subseteq AllIntents(m)
           /\ \A m \in Nodes \ {n} : /\ peer'[m] = peer[m] /\ sess'[m] = sess[m]
                                     /\ submitted'[m] = submitted[m]
           /\ peer'[n] = p /\ sess'[n] = x
<1>1. /\ DOMAIN peer' = Nodes /\ DOMAIN sess' = Nodes
      /\ peer'[n] = p /\ sess'[n] = x
      /\ \A m \in Nodes \ {n} : peer'[m] = peer[m] /\ sess'[m] = sess[m]
  BY DEF ChangesAt, Follows
<1>2. /\ DOMAIN over = Nodes /\ DOMAIN submitted = Nodes
      /\ \A m \in Nodes : /\ peer[m] \in PeerType(m) /\ sess[m] \in SessType(m)
                          /\ over[m] \subseteq AllIntents(m) /\ submitted[m] \subseteq AllIntents(m)
  BY DEF ManagerInv, Types
<1>3. DOMAIN submitted' = Nodes /\ submitted'[n] = submitted[n] \cup {i}
      /\ \A m \in Nodes \ {n} : submitted'[m] = submitted[m]
  BY <1>2
<1>4. NodeAt(n) /\ SessFits(n) /\ KnownAt(n)
  BY DEF ManagerInv, NodeAt
<1>5. Alive(n)' /\ over'[n] = over[n]
  BY DEF Alive
<1>6. SessFits(n)'
  <2>1. /\ x.state = sess[n].state /\ x.conn = sess[n].conn /\ x.active = sess[n].active
        /\ x.remaining = sess[n].remaining /\ (x.state = "none" => x = NoSession)
        /\ (x.state = "ended" => x.queued = sess[n].queued)
    BY DEF Pushed
  <2>2. sess[n].state # "none" => /\ sess[n].conn \in Conns
                                  /\ conns'[sess[n].conn].started = Nodes
                                  /\ n \notin conns'[sess[n].conn].closed
    BY <1>4 DEF SessFits, Growing
  <2> QED
    BY <1>1, <1>4, <2>1, <2>2 DEF SessFits
<1>7. KnownAt(n)'
  BY <1>1, <1>4 DEF KnownAt, Pushed, Follows
<1>8. Kept(n)'
  BY <1>1, <1>3, <1>5 DEF Kept, Pushed, Follows
<1>9. \A c \in Conns : AcceptIntent(c) \in submitted'[n] => n \in conns'[c].started
  BY <1>3, <1>4 DEF NodeAt, Growing
<1>10. peer'[n].known
  BY <1>1 DEF Pushed, Follows
<1>11. NodeAt(n)'
  BY <1>5, <1>6, <1>7, <1>8, <1>9, <1>10 DEF NodeAt, AcceptIntent
<1> QED
  BY <1>1, <1>2, <1>3, <1>11 DEF Pushed, Follows

(* SubmitIntent.                                                           *)
LEMMA SubmitIntentStep ==
    ASSUME ManagerInv, NEW n \in Nodes, NEW i \in Intents[n], SubmitIntent(n, i)
    PROVE  ManagerInv'
<1>1. /\ Alive(n) /\ i \in AllIntents(n) \ submitted[n] /\ sess' = Enqueue(n, i)
      /\ submitted' = [submitted EXCEPT ![n] = @ \cup {i}]
      /\ UNCHANGED << manager, ended, incoming, conns, over, failures >>
  BY DEF SubmitIntent, Alive, AllIntents
<1>2. Types /\ OneTask
  BY DEF ManagerInv
<1>q. PICK q : q = PushIntent(n, i)
  OBVIOUS
<1>3. PICK x : /\ Pushed(n, i, q, x) /\ ChangesAt(sess, sess', n, x)
               /\ IntoSession(n) => q = peer[n]
  BY <1>1, <1>q, PushFacts
<1>4. /\ q \in PeerType(n) /\ q.session_state = peer[n].session_state
      /\ q.conn_state = peer[n].conn_state /\ x.conn = sess[n].conn
  BY <1>3 DEF Pushed
<1>5. \E p : \/ ConnectsTo(n, q, p)
             \/ p = q /\ ChangesAt(peer, peer', n, p) /\ UNCHANGED << tasks, dials >>
  <2>1. CASE IntoSession(n) /\ UNCHANGED << peer, tasks, dials >>
    BY <1>2, <1>3, <2>1 DEF ChangesAt, Types
  <2>2. CASE ConnectIfInactive(n, PushIntent(n, i))
    BY <1>4, <1>q, <2>2, ConnectFacts
  <2> QED
    BY <2>1, <2>2 DEF SubmitIntent
<1>6. PICK p : \/ ConnectsTo(n, q, p)
               \/ p = q /\ ChangesAt(peer, peer', n, p) /\ UNCHANGED << tasks, dials >>
  BY <1>5
<1>7. /\ p \in PeerType(n) /\ p.known = q.known /\ p.pending = q.pending
      /\ p.session_state = q.session_state /\ ChangesAt(peer, peer', n, p)
      /\ \/ UNCHANGED << tasks, dials >> /\ p.conn_state = q.conn_state
         \/ q.conn_state = "None" /\ p.conn_state = "Establishing" /\ Dials(n)
  BY <1>2, <1>4, <1>6 DEF ConnectsTo, ChangesAt, Types
<1>8. Growing(n, i)
  <2>1. conns \in [Conns -> ConnShape]
    BY <1>2 DEF Types
  <2>2. \A c \in Conns : i # AcceptIntent(c)
    BY ManagerAssumption
  <2> QED
    BY <1>1, <2>1, <2>2 DEF ConnShape, Growing
<1>9. /\ NodeAt(n)'
      /\ DOMAIN peer' = Nodes /\ DOMAIN sess' = Nodes /\ DOMAIN over' = Nodes
      /\ DOMAIN submitted' = Nodes
      /\ \A m \in Nodes : /\ peer'[m] \in PeerType(m) /\ sess'[m] \in SessType(m)
                          /\ over'[m] \subseteq AllIntents(m)
                          /\ submitted'[m] \subseteq AllIntents(m)
      /\ \A m \in Nodes \ {n} : /\ peer'[m] = peer[m] /\ sess'[m] = sess[m]
                                /\ submitted'[m] = submitted[m]
      /\ peer'[n] = p /\ sess'[n] = x
  <2>1. Follows(n, q, p)
    BY <1>7 DEF Follows
  <2> QED
    BY <1>1, <1>3, <1>8, <2>1, PushedNode
<1>10. CASE UNCHANGED << tasks, dials >> /\ p.conn_state = q.conn_state
  <2>1. Types'
    BY <1>1, <1>2, <1>9, <1>10 DEF Types
  <2>2. OthersKept(n)
    BY <1>1, <1>9, <1>10 DEF OthersKept
  <2>3. sess'[n].conn = sess[n].conn /\ peer'[n].conn_state = peer[n].conn_state
    BY <1>4, <1>9, <1>10
  <2> QED
    BY <1>1, <1>9, <1>10, <2>1, <2>2, <2>3, LocalStep, SameConns
<1>11. CASE q.conn_state = "None" /\ p.conn_state = "Establishing" /\ Dials(n)
  <2>1. dials < MaxDials /\ dials' = dials + 1
    BY <1>11 DEF Dials
  <2>2. PICK u : IsDial(u) /\ Spawn(n, {u})
    BY <1>11 DEF Dials
  <2>3. u \in TaskType /\ u.conn = dials + 1 /\ (\A w \in Work(n) : w.task.conn # dials + 1)
        /\ dials + 1 \in 0..MaxDials
    BY <2>1, <2>2, DialFacts
  <2>4. WorkStep(n, {}, {Running(u)})
    BY <1>1, <1>2, <2>2, <2>3, SpawnWork
  <2>5. Types'
    BY <1>1, <1>2, <1>9, <2>1, <2>3, <2>4 DEF Types, WorkStep
  <2>6. OthersKept(n)
    <3>1. \A m \in Nodes \ {n} : tasks'[m] = tasks[m]
      BY <1>2, <2>2 DEF Types, Spawn
    <3> QED
      BY <1>1, <1>9, <3>1 DEF OthersKept
  <2>7. ConnsKept(n) /\ \A w \in Work(n) : w.task.step = "Established" =>
                            n \notin conns'[w.task.conn].closed /\ sess[n].conn # w.task.conn
    BY <1>1, StatusKept
  <2>8. PICK out : out = {}
    OBVIOUS
  <2>9. WorkStep(n, out, {Running(u)}) /\ (\A w \in out : w.task.step = "Closed")
        /\ (\A w \in Work(n) \ out : w.task.step = "Established" => n \notin conns'[w.task.conn].closed)
        /\ \A m \in Nodes : incoming'[m] \subseteq incoming[m]
    BY <1>1, <2>4, <2>7, <2>8
  <2>10. /\ peer'[n].conn_state = "Establishing" /\ sess'[n].conn \in {sess[n].conn, 0}
         /\ peer[n].conn_state \in {"None", "Terminating"}
    BY <1>4, <1>9, <1>11
  <2> QED
    BY <1>9, <2>1, <2>2, <2>5, <2>6, <2>7, <2>9, <2>10, DialStep
<1> QED
  BY <1>7, <1>10, <1>11

(* HandleSessionComplete closes this node's end of the connection.         *)
LEMMA CompleteConns ==
    ASSUME ManagerInv, NEW n \in Nodes, sess[n].state = "ended",
           conns' = [conns EXCEPT ![sess[n].conn].closed = @ \cup {n}]
    PROVE  /\ conns' \in [Conns -> ConnShape] /\ ConnsKept(n)
           /\ \A w \in Work(n) : w.task.step = "Established" => n \notin conns'[w.task.conn].closed
<1>1. Types /\ TasksFit /\ ConnsFit /\ SessFits(n)
  BY DEF ManagerInv, NodeAt
<1>d. PICK d : d = sess[n].conn
  OBVIOUS
<1>2. d \in Conns /\ conns[d].started = Nodes /\ n \notin conns[d].closed
      /\ conns[d].bye \subseteq conns[d].closed
  BY <1>1, <1>d DEF SessFits, ConnsFit
<1>3. conns \in [Conns -> ConnShape] /\ conns[d] \in ConnShape
  BY <1>1, <1>2 DEF Types
<1> DEFINE x == [conns[d] EXCEPT !.closed = conns[d].closed \cup {n}]
<1>4. conns' = [conns EXCEPT ![d] = x]
  BY <1>3, <1>d
<1>5. /\ x \in ConnShape /\ x.started = Nodes /\ x.closed = conns[d].closed \cup {n}
      /\ x.bye = conns[d].bye /\ x.status = conns[d].status
  BY <1>2, <1>3 DEF ConnShape
<1> HIDE DEF x
<1>6. conns' \in [Conns -> ConnShape] /\ conns'[d] = x /\ \A c \in Conns \ {d} : conns'[c] = conns[c]
  BY <1>2, <1>3, <1>4, <1>5
<1>7. conns[d].closed \subseteq Nodes
  BY <1>3 DEF ConnShape
<1>8. ConnsKept(n)
  <2> SUFFICES ASSUME NEW c \in Conns
               PROVE  /\ conns'[c].started = conns[c].started
                      /\ conns[c].closed \subseteq conns'[c].closed
                      /\ conns'[c].closed \subseteq conns[c].closed \cup {n}
                      /\ conns'[c].closed \subseteq conns'[c].started
                      /\ conns'[c].status = "up" => conns[c].status = "up"
                      /\ conns'[c].bye \subseteq conns'[c].closed
    BY DEF ConnsKept
  <2>1. CASE c = d
    BY <1>2, <1>5, <1>6, <1>7, <2>1
  <2>2. CASE c # d
    BY <1>1, <1>6, <2>2 DEF ConnsFit
  <2> QED
    BY <2>1, <2>2
<1>9. ASSUME NEW w \in Work(n), w.task.step = "Established" PROVE n \notin conns'[w.task.conn].closed
  <2>1. TaskFits(n, w) /\ w.task.conn \in Conns
    BY <1>1, InWork DEF TasksFit
  <2> QED
    BY <1>6, <1>9, <1>d, <2>1 DEF TaskFits
<1> QED
  BY <1>6, <1>8, <1>9

(* HandleSessionComplete.                                                  *)
LEMMA HandleSessionCompleteStep ==
    ASSUME ManagerInv, NEW n \in Nodes, HandleSessionComplete(n)
    PROVE  ManagerInv'
<1>1. /\ Alive(n) /\ sess[n].state = "ended"
      /\ conns' = [conns EXCEPT ![sess[n].conn].closed = @ \cup {n}]
      /\ sess' = [sess EXCEPT ![n] = NoSession]
      /\ UNCHANGED << manager, ended, incoming, over, submitted, failures >>
  BY DEF HandleSessionComplete
<1>2. Types /\ OneTask /\ OneHeldAt(2) /\ NodeAt(n)
  BY DEF ManagerInv, OneHeld
<1>3. /\ conns' \in [Conns -> ConnShape] /\ ConnsKept(n)
      /\ \A w \in Work(n) : w.task.step = "Established" => n \notin conns'[w.task.conn].closed
  BY <1>1, CompleteConns
<1>4. /\ peer[n] \in PeerType(n) /\ sess[n] \in SessType(n) /\ over[n] \subseteq AllIntents(n)
      /\ DOMAIN peer = Nodes /\ DOMAIN sess = Nodes /\ DOMAIN over = Nodes
      /\ ~ peer[n].known => peer[n] = NoPeer
      /\ peer[n].session_state = "Active" <=> sess[n].state # "none"
      /\ SessFits(n)
      /\ KeptIn(submitted[n], peer[n].pending, sess[n].active, sess[n].queued,
                sess[n].remaining, over[n])
  BY <1>1, SameState
<1>5. peer[n].known
  BY <1>1, <1>4 DEF NoPeer
<1> DEFINE i == [peer[n] EXCEPT !.pending = @ \cup sess[n].remaining, !.session_state = "None"]
<1>6. /\ i \in PeerType(n) /\ i.known = peer[n].known /\ i.conn_state = peer[n].conn_state
      /\ i.pending = peer[n].pending \cup sess[n].remaining /\ i.session_state = "None"
  <2>1. sess[n].remaining \subseteq AllIntents(n)
    BY <1>4 DEF SessType
  <2> QED
    BY <1>4, <2>1 DEF PeerType
<1>7. \/ /\ i.conn_state = "None" /\ i.pending = {}
         /\ peer' = [peer EXCEPT ![n] = NoPeer] /\ UNCHANGED << tasks, dials >>
      \/ ConnectIfInactive(n, i)
  BY <1>5 DEF HandleSessionComplete
<1> HIDE DEF i
<1>8. NoSession \in SessType(n) /\ NoSession.state = "none" /\ NoSession.conn = 0
      /\ NoSession.active = {} /\ NoSession.queued = {} /\ NoSession.remaining = {}
  BY DEF NoSession, SessType
<1>9. KeptIn(submitted[n], i.pending, {}, {}, {}, over[n])
  <2>1. sess[n].active = {} /\ sess[n].queued = {}
    BY <1>1, <1>4 DEF SessFits
  <2> QED
    BY <1>4, <1>6, <2>1 DEF KeptIn
<1>10. SessFits(n)'
  <2>1. sess'[n] = NoSession
    BY <1>1, <1>4
  <2> QED
    BY <1>8, <2>1 DEF SessFits
<1>11. \A w \in Work(n) : w.task.step = "Established" => sess'[n].conn # w.task.conn
  <2>1. sess'[n].conn = 0 /\ \A w \in Work(n) : w.task.conn \in Conns
    BY <1>1, <1>2, <1>4, <1>8, InWork
  <2> QED
    BY <2>1, ManagerAssumption DEF Conns
<1>12. ASSUME NEW p, NewState(n, p, NoSession, over[n])
       PROVE  /\ DOMAIN peer' = Nodes /\ DOMAIN sess' = Nodes /\ DOMAIN over' = Nodes
              /\ peer'[n] = p /\ sess'[n] = NoSession
              /\ \A m \in Nodes \ {n} : peer'[m] = peer[m] /\ sess'[m] = sess[m] /\ over'[m] = over[m]
              /\ \A m \in Nodes : peer'[m] \in PeerType(m) /\ sess'[m] \in SessType(m)
                                  /\ over'[m] \subseteq AllIntents(m)
              /\ NodeAt(n)'
  <2>1. /\ DOMAIN peer' = Nodes /\ DOMAIN sess' = Nodes /\ DOMAIN over' = Nodes
        /\ peer'[n] = p /\ sess'[n] = NoSession
        /\ \A m \in Nodes \ {n} : peer'[m] = peer[m] /\ sess'[m] = sess[m] /\ over'[m] = over[m]
        /\ \A m \in Nodes : peer'[m] \in PeerType(m) /\ sess'[m] \in SessType(m)
                            /\ over'[m] \subseteq AllIntents(m)
        /\ KnownAt(n)' /\ Kept(n)'
    BY <1>1, <1>2, <1>12, NewStateFacts
  <2>2. Alive(n)'
    BY <1>1 DEF Alive
  <2>3. \A c \in Conns : conns'[c].started = conns[c].started
    BY <1>3 DEF ConnsKept
  <2>4. ~ p.known => p = NoPeer
    BY <1>12 DEF NewState
  <2>5. NodeAt(n)'
    BY <1>1, <1>2, <1>10, <2>1, <2>2, <2>3, <2>4 DEF NodeAt
  <2> QED
    BY <2>1, <2>5
<1>13. ASSUME UNCHANGED << tasks, dials >>, NEW p, NewState(n, p, NoSession, over[n]),
              p.conn_state = peer[n].conn_state
       PROVE  ManagerInv'
  <2>1. /\ DOMAIN peer' = Nodes /\ DOMAIN sess' = Nodes /\ DOMAIN over' = Nodes
        /\ peer'[n] = p /\ sess'[n] = NoSession
        /\ \A m \in Nodes \ {n} : peer'[m] = peer[m] /\ sess'[m] = sess[m] /\ over'[m] = over[m]
        /\ \A m \in Nodes : peer'[m] \in PeerType(m) /\ sess'[m] \in SessType(m)
                            /\ over'[m] \subseteq AllIntents(m)
        /\ NodeAt(n)'
    BY <1>12, <1>13
  <2>2. WorkStep(n, {}, {})
    BY <1>1, <1>2, <1>13, NoWork
  <2>3. Types'
    BY <1>1, <1>2, <1>3, <1>13, <2>1 DEF Types
  <2>4. OthersKept(n)
    BY <1>1, <1>13, <2>1 DEF OthersKept
  <2>5. OneHeldAt(2)'
    BY <1>2, <1>13, <2>1, <2>2, HeldKept
  <2>6. dials <= dials'
    BY <1>2, <1>13 DEF Types
  <2> QED
    BY <1>1, <1>3, <1>11, <2>1, <2>2, <2>3, <2>4, <2>5, <2>6, NodeStep
<1>14. CASE /\ i.conn_state = "None" /\ i.pending = {}
            /\ peer' = [peer EXCEPT ![n] = NoPeer] /\ UNCHANGED << tasks, dials >>
  <2>1. /\ NoPeer \in PeerType(n) /\ NoPeer.known = FALSE /\ NoPeer.pending = {}
        /\ NoPeer.session_state = "None" /\ NoPeer.conn_state = "None"
    BY <1>4, PeerShapes
  <2>2. NewState(n, NoPeer, NoSession, over[n])
    BY <1>1, <1>4, <1>8, <1>9, <1>14, <2>1 DEF NewState
  <2> QED
    BY <1>6, <1>13, <1>14, <2>1, <2>2
<1>15. CASE ConnectIfInactive(n, i)
  <2>1. PICK p : ConnectsTo(n, i, p)
    BY <1>6, <1>15, ConnectFacts
  <2>2. /\ p \in PeerType(n) /\ p.known = i.known /\ p.pending = i.pending
        /\ p.session_state = i.session_state /\ peer' = [peer EXCEPT ![n] = p]
    BY <2>1 DEF ConnectsTo
  <2>3. NewState(n, p, NoSession, over[n])
    BY <1>1, <1>4, <1>5, <1>6, <1>8, <1>9, <2>2 DEF NewState
  <2>4. CASE p.conn_state = i.conn_state /\ UNCHANGED << tasks, dials >>
    BY <1>6, <1>13, <2>3, <2>4
  <2>5. CASE i.conn_state = "None" /\ p.conn_state = "Establishing" /\ Dials(n)
    <3>1. dials < MaxDials /\ dials' = dials + 1
      BY <2>5 DEF Dials
    <3>2. PICK u : IsDial(u) /\ Spawn(n, {u})
      BY <2>5 DEF Dials
    <3>3. u \in TaskType /\ u.conn = dials + 1 /\ (\A w \in Work(n) : w.task.conn # dials + 1)
          /\ dials + 1 \in 0..MaxDials
      BY <3>1, <3>2, DialFacts
    <3>4. WorkStep(n, {}, {Running(u)})
      BY <1>1, <1>2, <3>2, <3>3, SpawnWork
    <3>5. /\ DOMAIN peer' = Nodes /\ DOMAIN sess' = Nodes /\ DOMAIN over' = Nodes
          /\ peer'[n] = p /\ sess'[n] = NoSession
          /\ \A m \in Nodes \ {n} : peer'[m] = peer[m] /\ sess'[m] = sess[m] /\ over'[m] = over[m]
          /\ \A m \in Nodes : peer'[m] \in PeerType(m) /\ sess'[m] \in SessType(m)
                              /\ over'[m] \subseteq AllIntents(m)
          /\ NodeAt(n)'
      BY <1>12, <2>3
    <3>6. Types'
      BY <1>1, <1>2, <1>3, <3>1, <3>3, <3>4, <3>5 DEF Types, WorkStep
    <3>7. OthersKept(n)
      <4>1. \A m \in Nodes \ {n} : tasks'[m] = tasks[m]
        BY <1>2, <3>2 DEF Types, Spawn
      <4> QED
        BY <1>1, <3>5, <4>1 DEF OthersKept
    <3>8. PICK out : out = {}
      OBVIOUS
    <3>9. WorkStep(n, out, {Running(u)}) /\ (\A w \in out : w.task.step = "Closed")
          /\ (\A w \in Work(n) \ out : w.task.step = "Established" => n \notin conns'[w.task.conn].closed)
          /\ \A m \in Nodes : incoming'[m] \subseteq incoming[m]
      BY <1>1, <1>3, <3>4, <3>8
    <3>10. /\ peer'[n].conn_state = "Establishing" /\ sess'[n].conn \in {sess[n].conn, 0}
           /\ peer[n].conn_state \in {"None", "Terminating"}
      BY <1>6, <1>8, <2>5, <3>5
    <3> QED
      BY <1>3, <3>1, <3>2, <3>5, <3>6, <3>7, <3>9, <3>10, DialStep
  <2> QED
    BY <2>1, <2>4, <2>5 DEF ConnectsTo
<1> QED
  BY <1>7, <1>14, <1>15

(* The tasks that are cancelled, and the outputs they leave.               *)
RunsOf(n, S, r) ==
    \A w \in Runs(S) : /\ w.task \in S /\ w \in Work(n) /\ w = Running(w.task)
                       /\ Output(w.task, r) \in Outputs(S, r)
                       /\ Output(w.task, r).task = w.task

OutputsOf(n, S, r) ==
    \A w \in Outputs(S, r) : /\ w.task \in S /\ w.result = r /\ Running(w.task) \in Runs(S)
                             /\ Running(w.task) \in Work(n)
                             /\ Running(w.task).task = w.task /\ Running(w.task).result = "runs"
                             /\ w.task.conn \in Conns /\ TaskFits(n, Running(w.task))
                             /\ w.task.connecting \in BOOLEAN

(* The work of a cancelled task goes on as its output.                     *)
LEMMA CancelFacts ==
    ASSUME ManagerInv, NEW n \in Nodes, NEW S, S \subseteq tasks[n], NEW r \in Results
    PROVE  RunsOf(n, S, r) /\ OutputsOf(n, S, r)
<1>1. Types /\ TasksFit
  BY DEF ManagerInv
<1>2. \A t : /\ Running(t).task = t /\ Running(t).result = "runs"
            /\ Output(t, r).task = t /\ Output(t, r).result = r
  BY DEF Running, Output
<1>3. \A t \in S : /\ Running(t) \in Work(n) /\ Running(t) \in Runs(S) /\ Output(t, r) \in Outputs(S, r)
                   /\ t \in TaskType /\ TaskFits(n, Running(t))
  BY <1>1, InWork DEF Runs, Outputs, Types, TasksFit
<1>4. \A t \in TaskType : t.conn \in Conns /\ t.connecting \in BOOLEAN
  BY DEF TaskType
<1>5. (\A w \in Runs(S) : \E t \in S : w = Running(t))
      /\ \A w \in Outputs(S, r) : \E t \in S : w = Output(t, r)
  BY DEF Runs, Outputs
<1> QED
  BY <1>2, <1>3, <1>4, <1>5 DEF RunsOf, OutputsOf

(* Without work there is neither a task nor an output.                     *)
LEMMA Idle ==
    ASSUME NEW T, NEW E \in Seq(OutputType), WorkOf(T, E) = {}
    PROVE  T = {} /\ E = << >>
<1>1. T = {}
  BY DEF WorkOf
<1>2. DOMAIN E = {}
  BY DEF WorkOf
<1>3. Len(E) \in Nat /\ DOMAIN E = 1..Len(E)
  BY LenProperties
<1>4. Len(E) = 0
  BY <1>2, <1>3
<1> QED
  BY <1>1, <1>4, EmptySeq

(* Shutdown.                                                               *)
LEMMA ShutdownStep ==
    ASSUME ManagerInv, NEW n \in Nodes, Shutdown(n)
    PROVE  ManagerInv'
<1>S. PICK S : S = IF peer[n].conn_state = "Establishing"
                   THEN { t \in tasks[n] : t.step = "Established" /\ t.conn \in peer[n].handle }
                   ELSE {}
  OBVIOUS
<1>1. /\ manager[n] = "running" /\ S \subseteq tasks[n] /\ \A t \in S : t.step = "Established"
      /\ UNCHANGED << peer, over, submitted, dials, failures >>
  BY <1>S DEF Shutdown
<1>2. /\ manager' = [manager EXCEPT ![n] =
            IF tasks[n] = {} /\ ended[n] = << >> THEN "stopped" ELSE "shutdown"]
      /\ tasks' = [tasks EXCEPT ![n] = @ \ S]
      /\ ended' = [ended EXCEPT ![n] = @ \o
            SetToSeq({ [task |-> t, result |-> "aborted"] : t \in S })]
      /\ conns' = [c \in Conns |->
            IF c \in incoming[n] \/ \E t \in S : t.conn = c
            THEN Close(conns[c], "lost") ELSE conns[c]]
      /\ sess' = [sess EXCEPT ![n].abort = (sess[n].state = "running")]
      /\ incoming' = [incoming EXCEPT ![n] = {}]
  BY <1>S DEF Shutdown
<1>3. Types /\ OneTask /\ TasksFit /\ OneHeldAt(2) /\ NodeAt(n) /\ dials <= dials'
  BY <1>1 DEF ManagerInv, OneHeld, Types
<1>4. Alive(n) /\ "aborted" \in Results
  BY <1>1 DEF Alive, Results
<1>5. WorkStep(n, Runs(S), Outputs(S, "aborted"))
  <2>1. ended' = [ended EXCEPT ![n] = @ \o SetToSeq(Outputs(S, "aborted"))]
    BY <1>2 DEF Outputs, Output
  <2> QED
    BY <1>1, <1>2, <1>3, <1>4, <2>1, CancelWork
<1>6. RunsOf(n, S, "aborted") /\ OutputsOf(n, S, "aborted")
  BY <1>1, <1>4, CancelFacts
<1>7. /\ conns' \in [Conns -> ConnShape]
      /\ \A c \in Conns : /\ conns'[c].started = conns[c].started
                          /\ conns'[c].closed = conns[c].closed
                          /\ conns'[c].bye = conns[c].bye
                          /\ conns'[c].status = "up" => conns[c].status = "up"
                          /\ (\E t \in S : t.conn = c) => conns'[c].status # "up"
  <2>1. \A c \in Conns : conns[c] \in ConnShape
    BY <1>3 DEF Types
  <2>2. \A c \in Conns : /\ Close(conns[c], "lost") \in ConnShape /\ Close(conns[c], "lost").status # "up"
                         /\ Close(conns[c], "lost").started = conns[c].started
                         /\ Close(conns[c], "lost").closed = conns[c].closed
                         /\ Close(conns[c], "lost").bye = conns[c].bye
    BY <2>1, CloseFacts
  <2>3. \A c \in Conns : conns'[c] = IF c \in incoming[n] \/ \E t \in S : t.conn = c
                                     THEN Close(conns[c], "lost") ELSE conns[c]
    BY <1>2
  <2>4. conns' \in [Conns -> ConnShape]
    BY <1>2, <2>1, <2>2
  <2> QED
    BY <2>2, <2>3, <2>4
<1>8. ConnsKept(n) /\ \A w \in Work(n) : w.task.step = "Established" =>
                          n \notin conns'[w.task.conn].closed /\ sess[n].conn # w.task.conn
  BY <1>7, StatusKept
<1>9. /\ DOMAIN sess' = Nodes /\ \A m \in Nodes \ {n} : sess'[m] = sess[m]
      /\ sess'[n] \in SessType(n)
      /\ sess'[n].state = sess[n].state /\ sess'[n].conn = sess[n].conn
      /\ sess'[n].active = sess[n].active /\ sess'[n].queued = sess[n].queued
      /\ sess'[n].remaining = sess[n].remaining /\ SessFits(n)'
  BY <1>2, <1>7, AbortFacts
<1>10. /\ manager' \in [Nodes -> ManagerType]
       /\ \A m \in Nodes \ {n} : manager'[m] = manager[m]
       /\ ~ Alive(n)' => tasks[n] = {} /\ ended[n] = << >>
       /\ incoming' \in [Nodes -> SUBSET Conns]
       /\ \A m \in Nodes : incoming'[m] \subseteq incoming[m]
  <2>1. manager \in [Nodes -> ManagerType] /\ {"stopped", "shutdown"} \subseteq ManagerType
        /\ incoming \in [Nodes -> SUBSET Conns]
    BY <1>3 DEF Types, ManagerType
  <2> QED
    BY <1>2, <2>1 DEF Alive
<1>11. Types'
  BY <1>1, <1>3, <1>5, <1>7, <1>9, <1>10 DEF Types, WorkStep
<1>12. OthersKept(n)
  <2>1. \A m \in Nodes \ {n} : ended'[m] = ended[m] /\ tasks'[m] = tasks[m]
    BY <1>2, <1>3 DEF Types
  <2> QED
    BY <1>1, <1>9, <1>10, <2>1 DEF OthersKept
<1>13. OneHeldAt(2)'
  <2>1. \A w \in Outputs(S, "aborted") : \E v \in Runs(S) :
           v \in Work(n) /\ v.task.conn = w.task.conn /\ v.task.step \in {"Established", "Done"}
    BY <1>1, <1>6 DEF OutputsOf
  <2> QED
    BY <1>1, <1>3, <1>5, <2>1, HeldKept
<1>14. NodeAt(n)'
  <2>1. ASSUME ~ Alive(n)' PROVE tasks'[n] = {} /\ ended'[n] = << >>
    <3>1. Work(n) = {} /\ Runs(S) = {} /\ Outputs(S, "aborted") = {}
      BY <1>1, <1>10, <2>1 DEF Work, WorkOf, Runs, Outputs
    <3>2. WorkOf(tasks'[n], ended'[n]) = {}
      BY <1>5, <3>1 DEF WorkStep, Work
    <3>3. ended'[n] \in Seq(OutputType)
      BY <1>5 DEF WorkStep
    <3> QED
      BY <3>2, <3>3, Idle
  <2>2. KnownAt(n)' /\ Kept(n)'
    BY <1>1, <1>3, <1>4, <1>9 DEF NodeAt, KnownAt, Kept
  <2> QED
    BY <1>1, <1>3, <1>7, <1>9, <2>1, <2>2 DEF NodeAt
<1>15. ASSUME NEW w \in Outputs(S, "aborted") PROVE TaskFits(n, w)'
  <2>1. PICK t : t = w.task
    OBVIOUS
  <2>2. /\ t \in S /\ t.conn \in Conns /\ t.step = "Established" /\ w.result = "aborted"
        /\ TaskFits(n, Running(t)) /\ Running(t).task = t
    BY <1>1, <1>6, <2>1 DEF OutputsOf
  <2>3. conns'[t.conn].status # "up"
    BY <1>7, <2>2
  <2> QED
    BY <1>1, <1>7, <1>9, <2>1, <2>2, <2>3 DEF TaskFits
<1>16. \A w \in Outputs(S, "aborted") : w.task.connecting =>
          \E v \in Work(n) : v.task.connecting /\ v.task.conn = w.task.conn
  BY <1>6 DEF OutputsOf
<1>17. \A w \in Runs(S) :
          \E v \in Outputs(S, "aborted") : v.task.conn = w.task.conn
                                           /\ v.task.step \in {"Established", "Done"}
  BY <1>1, <1>6 DEF RunsOf
<1>18. PICK out, in : out = Runs(S) /\ in = Outputs(S, "aborted")
  OBVIOUS
<1>19. /\ WorkStep(n, out, in)
       /\ \A w \in in : TaskFits(n, w)'
       /\ \A w \in in : w.task.connecting =>
             \E v \in Work(n) : v.task.connecting /\ v.task.conn = w.task.conn
       /\ \A w \in out : \E v \in in : v.task.conn = w.task.conn
                                       /\ v.task.step \in {"Established", "Done"}
       /\ \A w \in Work(n) \ out : w.task.step = "Established" =>
             n \notin conns'[w.task.conn].closed /\ sess'[n].conn # w.task.conn
  BY <1>5, <1>8, <1>9, <1>15, <1>16, <1>17, <1>18
<1> QED
  BY <1>3, <1>8, <1>10, <1>11, <1>12, <1>13, <1>14, <1>19, NodeStep

(* handle_connection turns a connection down, or its handler refuses it.   *)
LEMMA RefuseStep ==
    ASSUME ManagerInv, NEW n \in Nodes, NEW c \in Conns, NEW how \in {"dup", "lost"},
           incoming' = [incoming EXCEPT ![n] = @ \ {c}],
           conns' = [conns EXCEPT ![c] = Close(@, how)],
           UNCHANGED << manager, peer, tasks, ended, sess, over, submitted, dials >>, failures' \in Nat
    PROVE  ManagerInv'
<1>1. Types /\ OneTask /\ OneHeldAt(2) /\ NodeAt(n) /\ dials <= dials'
  BY DEF ManagerInv, OneHeld, Types
<1>2. /\ conns' \in [Conns -> ConnShape]
      /\ \A d \in Conns : /\ conns'[d].started = conns[d].started
                          /\ conns'[d].closed = conns[d].closed
                          /\ conns'[d].bye = conns[d].bye
                          /\ conns'[d].status = "up" => conns[d].status = "up"
  <2> DEFINE x == Close(conns[c], how)
  <2>1. conns \in [Conns -> ConnShape] /\ conns[c] \in ConnShape
    BY <1>1 DEF Types
  <2>2. /\ x \in ConnShape /\ x.status # "up" /\ x.started = conns[c].started
        /\ x.closed = conns[c].closed /\ x.bye = conns[c].bye
    BY <2>1, CloseFacts
  <2>3. conns' = [conns EXCEPT ![c] = x]
    OBVIOUS
  <2> HIDE DEF x
  <2> QED
    BY <2>1, <2>2, <2>3
<1>3. ConnsKept(n) /\ \A w \in Work(n) : w.task.step = "Established" =>
                          n \notin conns'[w.task.conn].closed /\ sess[n].conn # w.task.conn
  BY <1>2, StatusKept
<1>4. /\ incoming' \in [Nodes -> SUBSET Conns]
      /\ \A m \in Nodes : incoming'[m] \subseteq incoming[m]
  BY <1>1 DEF Types
<1>5. Types'
  BY <1>1, <1>2, <1>4 DEF Types
<1>6. WorkStep(n, {}, {})
  BY <1>1, NoWork
<1>7. OthersKept(n)
  BY DEF OthersKept
<1>8. OneHeldAt(2)'
  BY <1>1, <1>6, HeldKept
<1>9. NodeAt(n)'
  <2>1. SessFits(n)'
    BY <1>1, <1>2, SessKept DEF NodeAt
  <2> QED
    BY <1>1, <1>2, <2>1 DEF NodeAt, Alive, KnownAt, Kept
<1> QED
  BY <1>1, <1>3, <1>4, <1>5, <1>6, <1>7, <1>8, <1>9, NodeStep

(* A connection that waits to be accepted is new to this node.             *)
LEMMA IncomingFacts ==
    ASSUME ManagerInv, NEW n \in Nodes, NEW c \in incoming[n]
    PROVE  /\ c \in Conns /\ conns[c].started = {Other(n)} /\ Other(n) \in Nodes /\ Other(n) # n
           /\ n \notin conns[c].closed /\ c <= dials
           /\ \A w \in Work(n) : w.task.conn # c
           /\ sess[n].conn # c /\ AcceptIntent(c) \notin submitted[n]
           /\ \A m \in Nodes : \A w \in Work(m) : w.task.conn = c => ~ w.task.connecting
<1>1. Types /\ TasksFit /\ ConnsFit /\ NodeAt(n) /\ SessFits(n)
  BY DEF ManagerInv, NodeAt
<1>2. /\ c \in Conns /\ conns[c].started = {Other(n)} /\ Other(n) \in Nodes /\ Other(n) # n
  BY <1>1 DEF Types, ConnsFit, Other, Nodes
<1>3. n \notin conns[c].closed
  BY <1>1, <1>2 DEF ConnsFit
<1>4. c <= dials
  <2>1. ~ (dials < c)
    BY <1>1, <1>2 DEF ConnsFit
  <2>2. dials \in Nat /\ c \in Nat
    BY <1>1, <1>2, ManagerAssumption DEF Types, Conns
  <2> QED
    BY <2>1, <2>2
<1>5. \A m \in Nodes : \A w \in Work(m) : TaskFits(m, w)
  BY <1>1 DEF TasksFit
<1>6. \A m \in Nodes : \A w \in Work(m) : w.task.conn = c => ~ w.task.connecting
  BY <1>2, <1>5 DEF TaskFits
<1>7. \A w \in Work(n) : w.task.conn # c
  BY <1>2, <1>5, <1>6 DEF TaskFits
<1>8. sess[n].conn # c
  <2>1. CASE sess[n].state = "none"
    BY <1>1, <1>2, <2>1, ManagerAssumption DEF SessFits, NoSession, Conns
  <2>2. CASE sess[n].state # "none"
    BY <1>1, <1>2, <2>2 DEF SessFits
  <2> QED
    BY <2>1, <2>2
<1>9. AcceptIntent(c) \notin submitted[n]
  BY <1>1, <1>2 DEF NodeAt
<1> QED
  BY <1>2, <1>3, <1>4, <1>6, <1>7, <1>8, <1>9

(* The connections after c was accepted and the dials of S were cancelled. *)
AcceptedConns(n, c, S) ==
    /\ conns' \in [Conns -> ConnShape] /\ conns'[c].started = Nodes
    /\ \A d \in Conns :
          /\ conns[d].started \subseteq conns'[d].started
          /\ d # c => conns'[d].started = conns[d].started
          /\ conns'[d].closed = conns[d].closed /\ conns'[d].bye = conns[d].bye
          /\ conns'[d].status = "up" => conns[d].status = "up"
          /\ d # c /\ (\E t \in S : t.conn = d /\ ~ t.connecting) => conns'[d].status # "up"

(* What HandleConnection does to the connections.                          *)
LEMMA AcceptConns ==
    ASSUME ManagerInv, NEW n \in Nodes, NEW c \in incoming[n], NEW S,
           conns' = [d \in Conns |->
                CASE d = c -> [conns[d] EXCEPT !.started = @ \cup {n}]
                  [] d # c /\ \E t \in S : t.conn = d /\ ~ t.connecting -> Close(conns[d], "dup")
                  [] OTHER -> conns[d]]
    PROVE  AcceptedConns(n, c, S)
<1>1. \A d \in Conns : conns[d] \in ConnShape
  BY DEF ManagerInv, Types
<1>2. c \in Conns /\ conns[c].started = {Other(n)}
  BY IncomingFacts
<1> DEFINE x == [conns[c] EXCEPT !.started = conns[c].started \cup {n}]
<1>3. /\ x \in ConnShape /\ x.started = Nodes /\ x.closed = conns[c].closed
      /\ x.bye = conns[c].bye /\ x.status = conns[c].status
  <2>1. conns[c] \in ConnShape /\ conns[c].started \cup {n} = Nodes
    BY <1>1, <1>2 DEF Other, Nodes
  <2> QED
    BY <2>1 DEF ConnShape
<1>4. conns'[c] = x
  BY <1>2
<1>5. \A d \in Conns \ {c} : conns'[d] = IF \E t \in S : t.conn = d /\ ~ t.connecting
                                         THEN Close(conns[d], "dup") ELSE conns[d]
  OBVIOUS
<1>6. \A d \in Conns : /\ Close(conns[d], "dup") \in ConnShape /\ Close(conns[d], "dup").status # "up"
                       /\ Close(conns[d], "dup").started = conns[d].started
                       /\ Close(conns[d], "dup").closed = conns[d].closed
                       /\ Close(conns[d], "dup").bye = conns[d].bye
  BY <1>1, CloseFacts
<1> HIDE DEF x
<1>7. \A d \in Conns : conns'[d] \in ConnShape
  BY <1>1, <1>3, <1>4, <1>5, <1>6
<1>8. conns' \in [Conns -> ConnShape]
  <2>1. DOMAIN conns' = Conns /\ conns' = [d \in Conns |-> conns'[d]]
    OBVIOUS
  <2> QED
    BY <1>7, <2>1
<1>9. conns[c].started \subseteq Nodes
  BY <1>1, <1>2 DEF ConnShape
<1> QED
  BY <1>2, <1>3, <1>4, <1>5, <1>6, <1>8, <1>9 DEF AcceptedConns

(* The work of both nodes fits the connections when one is accepted.       *)
LEMMA AcceptFits ==
    ASSUME ManagerInv, NEW n \in Nodes, NEW c \in incoming[n], NEW S, S \subseteq tasks[n],
           AcceptedConns(n, c, S), NEW u \in TaskType, u.conn = c, u.step = "Established",
           u.connecting = FALSE,
           WorkStep(n, Runs(S), Outputs(S, "local") \cup {Running(u)}),
           UNCHANGED dials, \A m \in Nodes : sess'[m].conn = sess[m].conn
    PROVE  TasksFit' /\ OneDialer'
<1>1. Types /\ OneTask /\ TasksFit /\ OneDialer /\ ConnsFit
  BY DEF ManagerInv
<1>2. /\ c \in Conns /\ conns[c].started = {Other(n)} /\ Other(n) \in Nodes /\ Other(n) # n
      /\ n \notin conns[c].closed /\ c <= dials
      /\ \A w \in Work(n) : w.task.conn # c
      /\ sess[n].conn # c
      /\ \A m \in Nodes : \A w \in Work(m) : w.task.conn = c => ~ w.task.connecting
  BY IncomingFacts
<1>3. RunsOf(n, S, "local") /\ OutputsOf(n, S, "local")
  <2>1. "local" \in Results
    BY DEF Results
  <2> QED
    BY <2>1, CancelFacts
<1>4. Running(u).task = u /\ Running(u).result = "runs"
  BY DEF Running
<1>5. ASSUME NEW m \in Nodes, NEW w \in Work(m) PROVE TaskFits(m, w)'
  <2>1. TaskFits(m, w) /\ w.task.conn \in Conns
    BY <1>1, InWork DEF TasksFit
  <2>2. CASE w.task.conn = c
    <3>1. ~ w.task.connecting /\ conns'[c].started = Nodes /\ conns'[c].closed = conns[c].closed
          /\ (conns'[c].status = "up" => conns[c].status = "up")
      BY <1>2, <2>2 DEF AcceptedConns
    <3> QED
      BY <2>1, <2>2, <3>1 DEF TaskFits
  <2>3. CASE w.task.conn # c
    BY <2>1, <2>3 DEF TaskFits, AcceptedConns
  <2> QED
    BY <2>2, <2>3
<1>6. TaskFits(n, Running(u))'
  <2>1. conns'[c].started = Nodes /\ conns'[c].closed = conns[c].closed
    BY <1>2 DEF AcceptedConns
  <2> QED
    BY <1>2, <1>4, <2>1 DEF TaskFits
<1>7. ASSUME NEW w \in Outputs(S, "local") PROVE TaskFits(n, w)'
  <2>1. PICK t : t = w.task
    OBVIOUS
  <2>2. /\ t \in S /\ w.result = "local" /\ Running(t) \in Work(n) /\ Running(t).task = t
        /\ t.conn \in Conns /\ TaskFits(n, Running(t)) /\ t.connecting \in BOOLEAN
    BY <1>3, <2>1 DEF OutputsOf
  <2>3. t.conn # c
    BY <1>2, <2>2
  <2>4. /\ conns'[t.conn].started = conns[t.conn].started
        /\ conns'[t.conn].closed = conns[t.conn].closed
        /\ t.connecting \/ conns'[t.conn].status # "up"
    BY <2>2, <2>3 DEF AcceptedConns
  <2> QED
    BY <2>1, <2>2, <2>4 DEF TaskFits
<1>8. ASSUME NEW m \in Nodes, NEW w \in Work(m)'
      PROVE  w \in Work(m) \/ (m = n /\ (w = Running(u) \/ w \in Outputs(S, "local")))
  <2>1. CASE m = n
    <3>1. w \in Work(n)'
      BY <1>8, <2>1
    <3>2. Work(n)' = (Work(n) \ Runs(S)) \cup (Outputs(S, "local") \cup {Running(u)})
      BY DEF WorkStep
    <3> QED
      BY <2>1, <3>1, <3>2
  <2>2. CASE m # n
    BY <1>8, <2>2 DEF WorkStep
  <2> QED
    BY <2>1, <2>2
<1>9. TasksFit'
  BY <1>5, <1>6, <1>7, <1>8 DEF TasksFit
<1>10. ASSUME NEW m \in Nodes, NEW w \in Work(m)', w.task.connecting
       PROVE  \E v \in Work(m) : v.task.connecting /\ v.task.conn = w.task.conn
  <2>1. CASE w \in Work(m)
    BY <1>10, <2>1
  <2>2. CASE m = n /\ w = Running(u)
    BY <1>4, <1>10, <2>2
  <2>3. CASE m = n /\ w \in Outputs(S, "local")
    BY <1>3, <1>10, <2>3 DEF OutputsOf
  <2> QED
    BY <1>8, <2>1, <2>2, <2>3
<1>11. OneDialer'
  <2> SUFFICES ASSUME NEW w \in Work(1)', NEW v \in Work(2)',
                      w.task.connecting, v.task.connecting, w.task.conn = v.task.conn
               PROVE  FALSE
    BY DEF OneDialer
  <2>1. 1 \in Nodes /\ 2 \in Nodes
    BY DEF Nodes
  <2>2. PICK x \in Work(1) : x.task.connecting /\ x.task.conn = w.task.conn
    BY <1>10, <2>1
  <2>3. PICK y \in Work(2) : y.task.connecting /\ y.task.conn = v.task.conn
    BY <1>10, <2>1
  <2> QED
    BY <1>1, <2>2, <2>3 DEF OneDialer
<1> QED
  BY <1>9, <1>11

(* So do the connections.                                                  *)
LEMMA AcceptConnsFit ==
    ASSUME ManagerInv, NEW n \in Nodes, NEW c \in incoming[n], NEW S, S \subseteq tasks[n],
           AcceptedConns(n, c, S), NEW u \in TaskType, u.conn = c, u.step = "Established",
           WorkStep(n, Runs(S), Outputs(S, "local") \cup {Running(u)}),
           UNCHANGED dials, incoming' = [incoming EXCEPT ![n] = @ \ {c}]
    PROVE  ConnsFit'
<1>1. Types /\ ConnsFit
  BY DEF ManagerInv
<1>2. /\ c \in Conns /\ conns[c].started = {Other(n)} /\ Other(n) \in Nodes /\ Other(n) # n
      /\ c <= dials
  BY IncomingFacts
<1>3. RunsOf(n, S, "local")
  <2>1. "local" \in Results
    BY DEF Results
  <2> QED
    BY <2>1, CancelFacts
<1>4. Running(u).task = u
  BY DEF Running
<1>5. \A d \in Conns : dials' < d => conns'[d].started = {}
  <2>1. ~ (dials < c)
    BY <1>1, <1>2, ManagerAssumption DEF Types, Conns
  <2> QED
    BY <1>1, <2>1 DEF ConnsFit, AcceptedConns
<1>6. \A d \in Conns : conns'[d].closed \subseteq conns'[d].started
                       /\ conns'[d].bye \subseteq conns'[d].closed
  BY <1>1 DEF ConnsFit, AcceptedConns
<1>7. ASSUME NEW m \in Nodes, NEW d \in incoming'[m] PROVE conns'[d].started = {Other(m)}
  <2>1. d \in incoming[m] /\ (m = n => d # c)
    BY <1>1, <1>7 DEF Types
  <2>2. d \in Conns /\ conns[d].started = {Other(m)}
    BY <1>1, <2>1 DEF ConnsFit, Types
  <2>3. d # c
    BY <1>2, <2>1, <2>2 DEF Other, Nodes
  <2> QED
    BY <2>2, <2>3 DEF AcceptedConns
<1>8. ASSUME NEW m \in Nodes, NEW d \in Conns,
             m \in conns'[d].started, conns'[d].status = "up", m \notin conns'[d].closed
      PROVE  Holds(m, d)'
  <2>1. CASE d = c /\ m = n
    <3>1. Running(u) \in Work(n)'
      BY DEF WorkStep
    <3> QED
      BY <1>4, <2>1, <3>1 DEF Holds
  <2>2. CASE ~ (d = c /\ m = n)
    <3>1. m \in conns[d].started
      BY <1>2, <1>8, <2>2 DEF AcceptedConns, Other, Nodes
    <3>2. conns[d].status = "up" /\ m \notin conns[d].closed
      BY <1>8 DEF AcceptedConns
    <3>3. PICK w \in Work(m) : w.task.conn = d /\ w.task.step \in {"Established", "Done"}
      BY <1>1, <3>1, <3>2 DEF ConnsFit, Holds
    <3>4. CASE w \in Work(m)'
      BY <3>3, <3>4 DEF Holds
    <3>5. CASE w \notin Work(m)'
      <4>1. m = n /\ w \in Runs(S)
        BY <3>5 DEF WorkStep
      <4>2. Output(w.task, "local") \in Work(n)' /\ Output(w.task, "local").task = w.task
        BY <1>3, <4>1 DEF RunsOf, WorkStep
      <4> QED
        BY <3>3, <4>1, <4>2 DEF Holds
    <3> QED
      BY <3>4, <3>5
  <2> QED
    BY <2>1, <2>2
<1> QED
  BY <1>5, <1>6, <1>7, <1>8 DEF ConnsFit, Other

(* handle_connection accepts a connection.                                 *)
LEMMA AcceptStep ==
    ASSUME ManagerInv, NEW n \in Nodes, NEW c \in incoming[n], manager[n] = "running",
           AcceptConn(n),
           incoming' = [incoming EXCEPT ![n] = @ \ {c}],
           sess' = Enqueue(n, AcceptIntent(c)),
           tasks' = [tasks EXCEPT ![n] = (@ \ Cancelled(n)) \cup {Task(c, "Established", "Betty")}],
           ended' = [ended EXCEPT ![n] = @ \o
                        SetToSeq({ [task |-> t, result |-> "local"] : t \in Cancelled(n) })],
           peer' = [peer EXCEPT ![n] = [PushIntent(n, AcceptIntent(c)) EXCEPT
                        !.known = TRUE, !.conn_state = "Establishing", !.our_dial = {}, !.handle = {c}]],
           conns' = [d \in Conns |->
                CASE d = c -> [conns[d] EXCEPT !.started = @ \cup {n}]
                  [] d # c /\ \E t \in Cancelled(n) : t.conn = d /\ ~ t.connecting ->
                        Close(conns[d], "dup")
                  [] OTHER -> conns[d]],
           submitted' = [submitted EXCEPT ![n] = @ \cup {AcceptIntent(c)}],
           UNCHANGED << manager, over, dials, failures >>
    PROVE  ManagerInv'
<1>S. PICK S : S = Cancelled(n)
  OBVIOUS
<1>u. PICK u : u = Task(c, "Established", "Betty")
  OBVIOUS
<1>i. PICK i : i = AcceptIntent(c)
  OBVIOUS
<1>1. Types /\ OneTask /\ OneHeldAt(2)
  BY DEF ManagerInv, OneHeld
<1>2. Alive(n) /\ S \subseteq tasks[n] /\ "local" \in Results
  BY <1>S DEF Alive, Cancelled, Results
<1>3. /\ c \in Conns /\ conns[c].started = {Other(n)} /\ Other(n) \in Nodes /\ Other(n) # n
      /\ n \notin conns[c].closed /\ c <= dials
      /\ \A w \in Work(n) : w.task.conn # c
      /\ sess[n].conn # c /\ AcceptIntent(c) \notin submitted[n]
  BY IncomingFacts
<1>4. /\ u \in TaskType /\ u.conn = c /\ u.step = "Established" /\ u.connecting = FALSE
      /\ Running(u).task = u /\ Running(u).result = "runs"
  BY <1>3, <1>u DEF Task, TaskType, Running
<1>5. AcceptedConns(n, c, S)
  BY <1>S, AcceptConns
<1>6. WorkStep(n, Runs(S), Outputs(S, "local") \cup {Running(u)})
  <2>1. ended' = [ended EXCEPT ![n] = @ \o SetToSeq(Outputs(S, "local"))]
    BY <1>S DEF Outputs, Output
  <2>2. tasks' = [tasks EXCEPT ![n] = (@ \ S) \cup {u}]
    BY <1>S, <1>u
  <2>3. \A w \in Work(n) : w.task.conn # u.conn
    BY <1>3, <1>4
  <2> QED
    BY <1>1, <1>2, <1>4, <2>1, <2>2, <2>3, CancelSpawnWork
<1>7. i \in AllIntents(n) \ submitted[n]
  BY <1>3, <1>i DEF AllIntents
<1>q. PICK q : q = PushIntent(n, i)
  OBVIOUS
<1>8. PICK x : Pushed(n, i, q, x) /\ ChangesAt(sess, sess', n, x)
  <2>1. sess' = Enqueue(n, i)
    BY <1>i
  <2> QED
    BY <1>2, <1>7, <1>q, <2>1, PushFacts
<1>9. q \in PeerType(n) /\ q.known /\ x.conn = sess[n].conn
  BY <1>8 DEF Pushed
<1>c. c \in Conns
  BY DEF ManagerInv, Types
<1> DEFINE p == [q EXCEPT !.known = TRUE, !.conn_state = "Establishing", !.our_dial = {},
                          !.handle = {c}]
<1>10. /\ p \in PeerType(n) /\ p.known = q.known /\ p.pending = q.pending
       /\ p.session_state = q.session_state /\ p.conn_state = "Establishing"
  <2>1. q.known = TRUE
    BY <1>9 DEF PeerType
  <2> QED
    BY <1>9, <2>1, <1>c DEF PeerType
<1>11. ChangesAt(peer, peer', n, p)
  <2>1. peer' = [peer EXCEPT ![n] = p] /\ DOMAIN peer = Nodes
    BY <1>1, <1>i, <1>q DEF Types
  <2> QED
    BY <2>1 DEF ChangesAt
<1> HIDE DEF p
<1>12. Growing(n, i)
  <2>1. \A d \in Conns : AcceptIntent(c) = AcceptIntent(d) => c = d
    BY DEF AcceptIntent
  <2>2. \A d \in Conns : conns'[d].started \subseteq Nodes
    BY <1>5 DEF AcceptedConns, ConnShape
  <2> QED
    BY <1>5, <1>i, <2>1, <2>2 DEF AcceptedConns, Growing
<1>13. submitted' = [submitted EXCEPT ![n] = @ \cup {i}]
  BY <1>i
<1>14. /\ NodeAt(n)'
       /\ DOMAIN peer' = Nodes /\ DOMAIN sess' = Nodes /\ DOMAIN over' = Nodes
       /\ DOMAIN submitted' = Nodes
       /\ \A m \in Nodes : /\ peer'[m] \in PeerType(m) /\ sess'[m] \in SessType(m)
                           /\ over'[m] \subseteq AllIntents(m)
                           /\ submitted'[m] \subseteq AllIntents(m)
       /\ \A m \in Nodes \ {n} : /\ peer'[m] = peer[m] /\ sess'[m] = sess[m]
                                 /\ submitted'[m] = submitted[m]
       /\ peer'[n] = p /\ sess'[n] = x
  <2>1. Follows(n, q, p)
    BY <1>10, <1>11 DEF Follows
  <2>2. ManagerInv /\ n \in Nodes /\ Alive(n) /\ UNCHANGED << manager, over >>
    BY <1>2
  <2> QED
    BY ONLY <1>7, <1>8, <1>12, <1>13, <2>1, <2>2, PushedNode
<1>15. Types'
  <2>1. incoming' \in [Nodes -> SUBSET Conns] /\ conns' \in [Conns -> ConnShape]
    BY <1>1, <1>5 DEF Types, AcceptedConns
  <2> QED
    BY <1>1, <1>6, <1>14, <2>1 DEF Types, WorkStep
<1>16. \A m \in Nodes : sess'[m].conn = sess[m].conn
  BY <1>9, <1>14
<1>17. TasksFit' /\ OneDialer'
  BY <1>2, <1>4, <1>5, <1>6, <1>16, AcceptFits
<1>18. ConnsFit'
  BY <1>2, <1>4, <1>5, <1>6, AcceptConnsFit
<1>19. OneHeldAt(2)'
  <2>1. n = 2 => peer[n].conn_state \in {"None", "Terminating"}
    BY DEF AcceptConn, Other
  <2>2. PICK in : in = Outputs(S, "local") \cup {Running(u)}
    OBVIOUS
  <2>3. WorkStep(n, Runs(S), in)
    BY <1>6, <2>2
  <2>4. OutputsOf(n, S, "local")
    BY <1>2, CancelFacts
  <2>5. TakesOnly(n, in, c)
    BY <1>4, <2>2, <2>4 DEF TakesOnly, OutputsOf
  <2>6. peer'[n].conn_state = "Establishing" /\ \A m \in Nodes \ {n} : peer'[m] = peer[m]
    BY <1>10, <1>14
  <2> QED
    BY <1>1, <2>1, <2>3, <2>5, <2>6, HeldNew
<1>20. ASSUME NEW m \in Nodes \ {n} PROVE NodeAt(m)'
  <2>1. NodeAt(m) /\ m \in Nodes
    BY DEF ManagerInv
  <2>2. \A d \in Conns : /\ conns[d].started \subseteq conns'[d].started
                         /\ m \in conns'[d].closed => m \in conns[d].closed
    BY <1>5 DEF AcceptedConns
  <2>3. tasks'[m] = tasks[m] /\ ended'[m] = ended[m]
    BY <1>1, <1>20 DEF Types
  <2> QED
    BY <1>1, <1>14, <1>15, <2>1, <2>2, <2>3, OtherNode
<1> QED
  BY <1>6, <1>14, <1>15, <1>17, <1>18, <1>19, <1>20 DEF ManagerInv, OneHeld, WorkStep

(* HandleConnection.                                                       *)
LEMMA HandleConnectionStep ==
    ASSUME ManagerInv, NEW n \in Nodes, NEW c \in Conns, HandleConnection(n, c)
    PROVE  ManagerInv'
<1>1. /\ manager[n] = "running" /\ c \in incoming[n]
      /\ incoming' = [incoming EXCEPT ![n] = @ \ {c}]
      /\ UNCHANGED << manager, over, dials >> /\ failures \in Nat
  BY DEF HandleConnection, ManagerInv, Types
<1>2. CASE /\ ~ AcceptConn(n)
           /\ conns' = [conns EXCEPT ![c] = Close(@, "dup")]
           /\ UNCHANGED << peer, tasks, ended, sess, submitted, failures >>
  BY <1>1, <1>2, RefuseStep
<1>3. CASE /\ failures' = failures + 1
           /\ conns' = [conns EXCEPT ![c] = Close(@, "lost")]
           /\ UNCHANGED << peer, tasks, ended, sess, submitted >>
  <2>1. failures' \in Nat
    BY <1>1, <1>3
  <2> QED
    BY <1>1, <1>3, <2>1, RefuseStep
<1>4. CASE ~ (\/ /\ ~ AcceptConn(n)
                 /\ conns' = [conns EXCEPT ![c] = Close(@, "dup")]
                 /\ UNCHANGED << peer, tasks, ended, sess, submitted, failures >>
              \/ /\ failures' = failures + 1
                 /\ conns' = [conns EXCEPT ![c] = Close(@, "lost")]
                 /\ UNCHANGED << peer, tasks, ended, sess, submitted >>)
  BY <1>1, <1>4, AcceptStep DEF HandleConnection
<1> QED
  BY <1>2, <1>3, <1>4

-----------------------------------------------------------------------------
(* The theorems.                                                           *)

(* Nothing changes.                                                        *)
LEMMA StutterStep ==
    ASSUME ManagerInv, UNCHANGED vars
    PROVE  ManagerInv'
<1>1. 1 \in Nodes /\ Types' /\ \A n \in Nodes : NodeAt(n)'
  BY DEF vars, ManagerInv, Types, Nodes, NodeAt, Alive, SessFits, KnownAt, Kept
<1>2. OthersKept(1)
  BY DEF vars, OthersKept
<1> QED
  BY <1>1, <1>2, LocalStep, SameConns DEF vars

(* Every step of the managers, their tasks, their sessions and the network *)
(* preserves the invariant.                                                *)
LEMMA NextStep ==
    ASSUME ManagerInv, [Next]_vars
    PROVE  ManagerInv'
<1>1. ASSUME NEW n \in Nodes, NEW i \in Intents[n], SubmitIntent(n, i) PROVE ManagerInv'
  BY <1>1, SubmitIntentStep
<1>2. ASSUME NEW n \in Nodes, NEW c \in Conns, HandleConnection(n, c) PROVE ManagerInv'
  BY <1>2, HandleConnectionStep
<1>3. ASSUME NEW n \in Nodes, NEW t \in tasks[n], RunTask(n, t) PROVE ManagerInv'
  <2>1. CASE DialConnects(n, t)
    BY <2>1, DialConnectsStep
  <2>2. CASE EstablishOk(n, t) \/ EstablishFails(n, t) \/ ChannelsEnd(n, t) \/ GoodbyeEnds(n, t)
    BY <2>2, TasksEndStep
  <2> QED
    BY <1>3, <2>1, <2>2 DEF RunTask
<1>12. ASSUME NEW n \in Nodes, NEW t \in tasks[n], RecvStops(n, t) PROVE ManagerInv'
  BY <1>12, RecvStopsStep
<1>4. ASSUME NEW n \in Nodes, HandleOutput(n) PROVE ManagerInv'
  <2>1. CASE UnknownPeer(n)
    BY <2>1, GivesUpStep
  <2>2. CASE EstablishedErr(n)
    BY <2>2, EstablishedErrStep
  <2>3. CASE EstablishedOk(n)
    BY <2>3, EstablishedOkStep
  <2>4. CASE DoneOk(n)
    BY <2>4, DoneOkStep
  <2>5. CASE DoneErr(n)
    BY <2>5, DoneErrStep
  <2>6. CASE Closed(n)
    BY <2>6, ClosedStep
  <2>7. CASE JoinAborted(n)
    BY <2>7, JoinAbortedStep
  <2> QED
    BY <1>4, <2>1, <2>2, <2>3, <2>4, <2>5, <2>6, <2>7 DEF HandleOutput
<1>5. ASSUME NEW n \in Nodes, HandleSessionComplete(n) PROVE ManagerInv'
  BY <1>5, HandleSessionCompleteStep
<1>6. ASSUME NEW n \in Nodes, SessionTakesUpdates(n) PROVE ManagerInv'
  BY <1>6, SessionTakesUpdatesStep
<1>7. ASSUME NEW n \in Nodes, SessionEnds(n) PROVE ManagerInv'
  BY <1>7, SessionEndsStep
<1>8. ASSUME NEW n \in Nodes, Shutdown(n) PROVE ManagerInv'
  BY <1>8, ShutdownStep
<1>9. ASSUME NEW n \in Nodes, ShutdownEnds(n) PROVE ManagerInv'
  BY <1>9, GivesUpStep
<1>10. ASSUME NEW c \in Conns, NetworkFailure(c) PROVE ManagerInv'
  BY <1>10, NetworkFailureStep
<1>11. CASE UNCHANGED vars
  BY <1>11, StutterStep
<1> QED
  BY <1>1, <1>2, <1>3, <1>4, <1>5, <1>6, <1>7, <1>8, <1>9, <1>10, <1>11, <1>12 DEF Next

(* Work, connections, sessions and intents fit together in every state of  *)
(* the two managers, whatever they dial, lose, cancel or shut down.        *)
THEOREM Managers == Spec => []ManagerInv
BY InitInv, NextStep, PTL DEF Spec

(* A living manager takes its peer's session for active exactly as long as *)
(* there is one whose Complete event it has not handled (handle_conn_output *)
(* and handle_session_event agree), and the variables have their types.    *)
THEOREM SessionsAreKnown == Spec => []SessionInv
<1>1. ManagerInv => SessionInv
  BY InvProperties DEF SessionInv
<1> QED
  BY <1>1, Managers, PTL

(* An intent given to submit_intent or created by handle_connection is in  *)
(* exactly one place until it is told of its end, for as long as the       *)
(* manager lives: none is lost and none is served twice.                   *)
THEOREM IntentsAreKept == Spec => []NoIntentLost
<1>1. ManagerInv => NoIntentLost
  BY InvProperties
<1> QED
  BY <1>1, Managers, PTL

(* However the two nodes' dials cross, handle_connection's tie-break never *)
(* lets sessions run on two connections that are both up and that neither  *)
(* node has closed under the other.                                        *)
THEOREM DialsAgree == Spec => []OneConnection
<1>1. ManagerInv => OneConnection
  BY InvProperties
<1> QED
  BY <1>1, Managers, PTL

(* The channel loops of a connection end without an error only after this  *)
(* node's session on that connection: it never loses its channels to its   *)
(* own node.  (ConnStep::Done(Ok) may still find the session of a newer    *)
(* connection active, NoActiveSessionOnDone does not hold.)                *)
THEOREM ChannelsOutliveSession == Spec => []GracefulEndAfterSession
<1>1. ManagerInv => GracefulEndAfterSession
  BY InvProperties
<1> QED
  BY <1>1, Managers, PTL

=============================================================================
