---------------------------- MODULE Storage_proofs ----------------------------
(***************************************************************************)
(* The storage of a node: the order in which the actor carries out         *)
(* requests and what a shutdown guarantees, for any number of clients and  *)
(* requests and any size of the inbox; and the four invariants of the      *)
(* persistent store that it owns, for every set of entries, every prefix   *)
(* order on paths and any number of calls.                                 *)
(***************************************************************************)
EXTENDS Actor, PersistentStore, SequenceTheorems, FiniteSetTheorems, TLAPS

Msgs == [from: Clients, n: Nat, kind: AllKinds]

ClientRecords == [pc: ClientStates, msg: Msgs \cup {NoMsg}]

Types ==
    /\ client \in [Clients -> ClientRecords]
    /\ count \in [Clients -> Nat]
    /\ result \in [Clients -> {"none", "ok", "closed"}]
    /\ inbox \in Seq(Msgs) /\ queued \in Seq(Msgs) /\ handled \in Seq(Msgs)
    /\ Len(inbox) <= InboxCap
    /\ actor \in [pc: {"run", "busy", "stopping", "ended"}, msg: Msgs \cup {NoMsg}]
    /\ tasks \subseteq Msgs
    /\ store \in {"open", "closed"} /\ open \in BOOLEAN

(* The actor is gone with everything it holds, or all of it is there.      *)
EndsAtOnce ==
    /\ actor.pc = "ended" <=> ~ open
    /\ store = "closed" <=> ~ open
    /\ ~ open => tasks = {}

(* How many requests have been taken from the inbox.                       *)
Taken == IF actor.pc \in {"busy", "stopping"} THEN Len(handled) + 1 ELSE Len(handled)

(* What was handled, what is being handled and what waits in the inbox     *)
(* are, in this order, all that came in.  Once the actor is gone, what was *)
(* handled is all that came in before the first shutdown.                  *)
Order ==
    /\ Len(handled) <= Len(queued)
    /\ \A i \in 1..Len(handled) : handled[i] = queued[i] /\ handled[i].kind # "shutdown"
    /\ actor.pc \in {"busy", "stopping"} =>
          /\ Taken <= Len(queued) /\ queued[Taken] = actor.msg
          /\ actor.msg.kind = "shutdown" <=> actor.pc = "stopping"
    /\ open => /\ Len(queued) = Taken + Len(inbox)
               /\ \A k \in 1..Len(inbox) : inbox[k] = queued[Taken + k]
    /\ ~ open => \/ Len(handled) = Len(queued)
                 \/ Len(handled) < Len(queued) /\ queued[Len(handled) + 1].kind = "shutdown"

(* A client's requests are numbered: no two that came in are alike, and    *)
(* the one it still has to send did not come in.                           *)
Numbered ==
    /\ \A i \in DOMAIN queued : queued[i].n <= count[queued[i].from]
    /\ \A i, j \in DOMAIN queued :
          queued[i].from = queued[j].from /\ queued[i].n = queued[j].n => i = j

ClientOK(c) ==
    /\ client[c].pc \in {"send", "wait"} =>
          /\ client[c].msg \in Msgs /\ client[c].msg.from = c /\ client[c].msg.n = count[c]
          /\ result[c] = "none"
    /\ client[c].pc = "send" => \A i \in DOMAIN queued : queued[i].from = c => queued[i].n # count[c]

(* A shutdown has an answer only once the actor is gone.                   *)
AnswerIsLast ==
    \A i \in DOMAIN queued :
        LET m == queued[i] IN
        m.kind = "shutdown" /\ count[m.from] = m.n /\ result[m.from] = "ok" => ~ open

QueueInv ==
    /\ Types /\ EndsAtOnce /\ Order /\ Numbered /\ AnswerIsLast
    /\ \A c \in Clients : ClientOK(c)

-----------------------------------------------------------------------------
(* Clients.                                                                *)

(* A client's step that the actor does not see.                            *)
LEMMA ClientMoves ==
    ASSUME QueueInv, UNCHANGED << inbox, queued, actorVars >>,
           NEW c \in Clients, NEW to \in ClientRecords, NEW k \in Nat,
           NEW r \in {"none", "ok", "closed"},
           client' = [client EXCEPT ![c] = to], count' = [count EXCEPT ![c] = k],
           result' = [result EXCEPT ![c] = r],
           k >= count[c],
           r = "ok" => ~ open \/ (result[c] = "ok" /\ k = count[c]),
           to.pc \in {"send", "wait"} =>
               to.msg \in Msgs /\ to.msg.from = c /\ to.msg.n = k /\ r = "none",
           to.pc = "send" => k > count[c]
    PROVE  QueueInv'
<1>1. /\ client' \in [Clients -> ClientRecords] /\ client'[c] = to
      /\ \A d \in Clients : d # c => client'[d] = client[d]
  BY DEF QueueInv, Types
<1>2. /\ count' \in [Clients -> Nat] /\ count'[c] = k
      /\ \A d \in Clients : d # c => count'[d] = count[d]
  BY DEF QueueInv, Types
<1>3. /\ result' \in [Clients -> {"none", "ok", "closed"}] /\ result'[c] = r
      /\ \A d \in Clients : d # c => result'[d] = result[d]
  BY DEF QueueInv, Types
<1>4. \A i \in DOMAIN queued : queued[i].from \in Clients /\ queued[i].n \in Nat
  <2>1. queued \in Seq(Msgs)
    BY DEF QueueInv, Types
  <2>2. \A i \in DOMAIN queued : queued[i] \in Msgs
    BY <2>1
  <2> QED
    BY <2>2 DEF Msgs
<1>5. /\ UNCHANGED << inbox, queued, open, actor, tasks, store, handled >>
      /\ count[c] \in Nat
  BY DEF actorVars, QueueInv, Types
<1>6. Types' /\ EndsAtOnce' /\ Order'
  BY <1>1, <1>2, <1>3, <1>5 DEF QueueInv, Types, EndsAtOnce, Order, Taken
<1>7. Numbered'
  <2>1. \A i \in DOMAIN queued : queued[i].n <= count[queued[i].from]
    BY DEF QueueInv, Numbered
  <2>2. \A i \in DOMAIN queued : queued[i].n <= count'[queued[i].from]
    BY <1>2, <1>4, <1>5, <2>1
  <2> QED
    BY <1>5, <2>2 DEF QueueInv, Numbered
<1>8. AnswerIsLast'
  <2> SUFFICES ASSUME NEW i \in DOMAIN queued, queued[i].kind = "shutdown",
                      count'[queued[i].from] = queued[i].n, result'[queued[i].from] = "ok"
               PROVE  ~ open
    BY <1>5 DEF AnswerIsLast
  <2>1. CASE queued[i].from = c
    BY <1>2, <1>3, <2>1 DEF QueueInv, AnswerIsLast
  <2>2. CASE queued[i].from # c
    BY <1>2, <1>3, <1>4, <2>2 DEF QueueInv, AnswerIsLast
  <2> QED
    BY <2>1, <2>2
<1>9. ASSUME NEW d \in Clients PROVE ClientOK(d)'
  <2>1. CASE d # c
    BY <1>1, <1>2, <1>3, <1>5, <2>1 DEF QueueInv, ClientOK
  <2>2. CASE d = c
    <3>1. \A i \in DOMAIN queued : queued[i].from = c => queued[i].n <= count[c]
      BY DEF QueueInv, Numbered
    <3>2. to.pc = "send" => \A i \in DOMAIN queued : queued[i].from = c => queued[i].n # k
      BY <1>4, <1>5, <3>1
    <3> QED
      BY <1>1, <1>2, <1>3, <1>5, <2>2, <3>2 DEF ClientOK
  <2> QED
    BY <2>1, <2>2
<1> QED
  BY <1>6, <1>7, <1>8, <1>9 DEF QueueInv

(* No request of this client with this number has come in.                 *)
Fresh(c, n) == \A i \in DOMAIN queued : queued[i].from = c => queued[i].n # n

(* A request comes in.                                                     *)
LEMMA ComesIn ==
    ASSUME QueueInv, open, Len(inbox) < InboxCap, NEW c \in Clients, NEW m \in Msgs, m.from = c,
           NEW to \in ClientRecords, NEW r \in {"none", "ok", "closed"},
           inbox' = Append(inbox, m), queued' = Append(queued, m),
           client' = [client EXCEPT ![c] = to], count' = [count EXCEPT ![c] = m.n],
           result' = [result EXCEPT ![c] = r], UNCHANGED actorVars,
           m.n >= count[c],
           Fresh(c, m.n),
           r = "ok" => m.kind # "shutdown",
           to.pc # "send", to.pc = "wait" => to.msg = m /\ r = "none"
    PROVE  QueueInv'
<1> DEFINE q == Len(queued)
           b == Len(inbox)
<1>0. \A i \in DOMAIN queued : queued[i].from = c => queued[i].n # m.n
  BY DEF Fresh
<1>1. /\ client' \in [Clients -> ClientRecords] /\ client'[c] = to
      /\ \A d \in Clients : d # c => client'[d] = client[d]
  BY DEF QueueInv, Types
<1>2. /\ count' \in [Clients -> Nat] /\ count'[c] = m.n /\ count[c] \in Nat /\ m.n \in Nat
      /\ \A d \in Clients : d # c => count'[d] = count[d]
  BY DEF QueueInv, Types, Msgs
<1>3. /\ result' \in [Clients -> {"none", "ok", "closed"}] /\ result'[c] = r
      /\ \A d \in Clients : d # c => result'[d] = result[d]
  BY DEF QueueInv, Types
<1>4. inbox \in Seq(Msgs) /\ queued \in Seq(Msgs) /\ handled \in Seq(Msgs)
  BY DEF QueueInv, Types
<1>5. /\ q \in Nat /\ Len(queued') = q + 1 /\ queued'[q + 1] = m /\ queued' \in Seq(Msgs)
      /\ DOMAIN queued' = 1..(q + 1) /\ DOMAIN queued = 1..q
      /\ \A i \in 1..q : queued'[i] = queued[i] /\ queued[i] \in Msgs
  BY <1>4
<1>6. /\ b \in Nat /\ Len(inbox') = b + 1 /\ inbox'[b + 1] = m /\ inbox' \in Seq(Msgs)
      /\ \A k \in 1..b : inbox'[k] = inbox[k]
  BY <1>4
<1>7. /\ UNCHANGED << open, actor, tasks, store, handled >> /\ Len(handled) \in Nat
      /\ actor.pc \in {"run", "busy", "stopping"}
  BY <1>4 DEF actorVars, QueueInv, Types, EndsAtOnce
<1>8. \A i \in 1..q : queued[i].from \in Clients /\ queued[i].n \in Nat
  BY <1>5 DEF Msgs
<1> HIDE DEF q, b
<1>9. Types'
  <2>1. Len(inbox') <= InboxCap
    BY <1>6, ActorAssumption DEF b
  <2> QED
    BY <1>1, <1>2, <1>3, <1>5, <1>6, <1>7, <2>1 DEF QueueInv, Types
<1>10. EndsAtOnce'
  BY <1>7 DEF QueueInv, EndsAtOnce
<1>11. Order'
  <2>1. /\ Len(handled) <= q /\ Taken \in Nat /\ Taken' = Taken
        /\ \A i \in 1..Len(handled) : handled[i] = queued[i] /\ handled[i].kind # "shutdown"
        /\ q = Taken + b /\ \A k \in 1..b : inbox[k] = queued[Taken + k]
    <3>1. Taken \in Nat /\ Taken' = Taken
      BY <1>7 DEF Taken
    <3> QED
      BY <3>1 DEF QueueInv, Order, q, b
  <2>2. actor.pc \in {"busy", "stopping"} =>
          /\ Taken <= q /\ queued[Taken] = actor.msg /\ Taken >= 1
          /\ actor.msg.kind = "shutdown" <=> actor.pc = "stopping"
    BY <1>7 DEF QueueInv, Order, Taken, q
  <2>3. \A k \in 1..(b + 1) : inbox'[k] = queued'[Taken + k]
    <3> SUFFICES ASSUME NEW k \in 1..(b + 1) PROVE inbox'[k] = queued'[Taken + k]
      OBVIOUS
    <3>1. CASE k = b + 1
      BY <1>5, <1>6, <2>1, <3>1
    <3>2. CASE k \in 1..b
      <4>1. Taken + k \in 1..q
        BY <1>6, <2>1, <3>2
      <4> QED
        BY <1>5, <1>6, <2>1, <3>2, <4>1
    <3>3. b \in Nat
      BY <1>6
    <3>4. k = b + 1 \/ k \in 1..b
      BY <3>3
    <3> QED
      BY <3>1, <3>2, <3>4
  <2>4. \A i \in 1..Len(handled) : handled[i] = queued'[i]
    BY <1>5, <1>7, <2>1
  <2>5. actor.pc \in {"busy", "stopping"} => Taken <= q + 1 /\ queued'[Taken] = actor.msg
    BY <1>5, <2>1, <2>2
  <2>6. Len(queued') = Taken' + Len(inbox') /\ Len(handled) <= q + 1
    BY <1>5, <1>6, <1>7, <2>1
  <2> QED
    BY <1>5, <1>6, <1>7, <2>1, <2>2, <2>3, <2>4, <2>5, <2>6 DEF Order
<1>12. Numbered'
  <2>1. /\ \A i \in 1..q : queued[i].n <= count[queued[i].from]
        /\ \A i, j \in 1..q :
              queued[i].from = queued[j].from /\ queued[i].n = queued[j].n => i = j
    BY <1>5 DEF QueueInv, Numbered
  <2>2. \A i \in 1..(q + 1) : queued'[i].n <= count'[queued'[i].from]
    BY <1>2, <1>5, <1>8, <2>1
  <2>3. \A i, j \in 1..(q + 1) :
           queued'[i].from = queued'[j].from /\ queued'[i].n = queued'[j].n => i = j
    <3>1. \A i \in 1..(q + 1) : i \in 1..q \/ i = q + 1
      BY <1>5
    <3> QED
      BY <1>0, <1>5, <2>1, <3>1
  <2> QED
    BY <1>5, <2>2, <2>3 DEF Numbered
<1>13. AnswerIsLast'
  <2> SUFFICES ASSUME NEW i \in 1..(q + 1), queued'[i].kind = "shutdown",
                      count'[queued'[i].from] = queued'[i].n, result'[queued'[i].from] = "ok"
               PROVE  FALSE
    BY <1>5 DEF AnswerIsLast
  <2>1. CASE i = q + 1
    BY <1>3, <1>5, <2>1
  <2>2. CASE i \in 1..q /\ queued[i].from = c
    BY <1>0, <1>2, <1>5, <2>2
  <2>3. CASE i \in 1..q /\ queued[i].from # c
    BY <1>2, <1>3, <1>5, <1>8, <2>3 DEF QueueInv, AnswerIsLast
  <2> QED
    BY <1>5, <2>1, <2>2, <2>3
<1>14. ASSUME NEW d \in Clients PROVE ClientOK(d)'
  <2>1. CASE d # c
    <3>1. \A i \in 1..(q + 1) : queued'[i].from = d => i \in 1..q /\ queued'[i] = queued[i]
      BY <1>5, <2>1
    <3> QED
      BY <1>1, <1>2, <1>3, <1>5, <2>1, <3>1 DEF QueueInv, ClientOK
  <2>2. CASE d = c
    BY <1>1, <1>2, <1>3, <2>2 DEF ClientOK
  <2> QED
    BY <2>1, <2>2
<1> QED
  BY <1>9, <1>10, <1>11, <1>12, <1>13, <1>14 DEF QueueInv

(* Every step of a client.                                                 *)
LEMMA ClientKeeps ==
    ASSUME QueueInv, NEW c \in Clients,
           \/ ClientStep(c) \/ Cancel(c) \/ DropHandle(c)
           \/ \E kind \in Kinds : Request(c, kind)
           \/ \E d \in Clients : Clone(c, d)
    PROVE  QueueInv'
<1>1. /\ \A d \in Clients : client[d] \in ClientRecords /\ count[d] \in Nat
      /\ \A d \in Clients : result[d] \in {"none", "ok", "closed"}
      /\ client \in [Clients -> ClientRecords] /\ count \in [Clients -> Nat]
      /\ result \in [Clients -> {"none", "ok", "closed"}]
  BY DEF QueueInv, Types
<1>2. \A pc \in ClientStates : [pc |-> pc, msg |-> NoMsg] \in ClientRecords
  BY DEF ClientRecords
<1>3. ASSUME NEW d \in Clients PROVE count = [count EXCEPT ![d] = count[d]]
                                     /\ result = [result EXCEPT ![d] = result[d]]
  BY <1>1
<1>4. ASSUME NEW d \in Clients, NEW pc \in ClientStates \ {"send", "wait"},
             UNCHANGED << inbox, queued, actorVars, count >>, SetClient(d, pc, NoMsg),
             \/ UNCHANGED result
             \/ result' = [result EXCEPT ![d] = "closed"]
             \/ ~ open /\ result' = [result EXCEPT ![d] = "ok"]
      PROVE  QueueInv'
  <2> DEFINE to == [pc |-> pc, msg |-> NoMsg]
  <2>1. to \in ClientRecords /\ to.pc = pc /\ client' = [client EXCEPT ![d] = to]
    BY <1>2, <1>4 DEF SetClient
  <2>2. count' = [count EXCEPT ![d] = count[d]] /\ count[d] >= count[d]
    BY <1>1, <1>3, <1>4
  <2> HIDE DEF to
  <2>3. CASE UNCHANGED result
    <3>1. result' = [result EXCEPT ![d] = result[d]] /\ result[d] \in {"none", "ok", "closed"}
      BY <1>1, <1>3, <2>3
    <3> QED
      BY <1>1, <1>4, <2>1, <2>2, <3>1, ClientMoves
  <2>4. CASE result' = [result EXCEPT ![d] = "closed"]
    BY <1>1, <1>4, <2>1, <2>2, <2>4, ClientMoves
  <2>5. CASE ~ open /\ result' = [result EXCEPT ![d] = "ok"]
    BY <1>1, <1>4, <2>1, <2>2, <2>5, ClientMoves
  <2> QED
    BY <1>4, <2>3, <2>4, <2>5
<1>5. CASE Enqueue(c)
  <2> DEFINE m == client[c].msg
  <2>1. /\ client[c].pc = "send" /\ m \in Msgs /\ m.from = c /\ m.n = count[c]
        /\ result[c] = "none"
        /\ Fresh(c, m.n)
    BY <1>5 DEF Enqueue, QueueInv, ClientOK, Fresh
  <2>2. count' = [count EXCEPT ![c] = m.n] /\ UNCHANGED actorVars /\ m.n >= count[c] /\ UNCHANGED count
    BY <1>1, <1>3, <1>5, <2>1 DEF Enqueue
  <2>3. CASE open
    <3>1. /\ Len(inbox) < InboxCap /\ inbox' = Append(inbox, m) /\ queued' = Append(queued, m)
      BY <1>5, <2>3 DEF Enqueue
    <3>2. CASE m.kind = "stream"
      <4> DEFINE to == [pc |-> "idle", msg |-> NoMsg]
      <4>1. client' = [client EXCEPT ![c] = to] /\ result' = [result EXCEPT ![c] = "ok"]
        BY <1>5, <2>3, <3>2 DEF Enqueue, SetClient
      <4>2. to \in ClientRecords /\ to.pc = "idle" /\ m.kind # "shutdown"
        BY <1>2, <3>2 DEF ClientStates
      <4> HIDE DEF to, m
      <4> QED
        BY <2>1, <2>2, <2>3, <3>1, <4>1, <4>2, ComesIn
    <3>3. CASE m.kind # "stream"
      <4> DEFINE to == [client[c] EXCEPT !.pc = "wait"]
      <4>1. client' = [client EXCEPT ![c] = to] /\ result' = [result EXCEPT ![c] = "none"]
        BY <1>3, <1>5, <2>1, <2>3, <3>3 DEF Enqueue
      <4>2. to \in ClientRecords /\ to.pc = "wait" /\ to.msg = m
        BY <1>1 DEF ClientRecords, ClientStates
      <4> HIDE DEF to, m
      <4> QED
        BY <2>1, <2>2, <2>3, <3>1, <4>1, <4>2, ComesIn
    <3> QED
      BY <3>2, <3>3
  <2>4. CASE ~ open
    <3>1. /\ SetClient(c, "idle", NoMsg) /\ result' = [result EXCEPT ![c] = "closed"]
          /\ UNCHANGED << inbox, queued >>
      BY <1>5, <2>4 DEF Enqueue
    <3> QED
      BY <1>4, <2>2, <3>1 DEF ClientStates
  <2> QED
    BY <2>3, <2>4
<1>6. CASE SendShutdown(c)
  <2> DEFINE m  == [from |-> c, n |-> count[c] + 1, kind |-> "shutdown"]
             to == [client[c] EXCEPT !.pc = "join"]
  <2>1. /\ client[c].pc = "last" /\ count' = [count EXCEPT ![c] = count[c] + 1]
        /\ client' = [client EXCEPT ![c] = to] /\ result' = [result EXCEPT ![c] = "none"]
        /\ UNCHANGED actorVars
    BY <1>6 DEF SendShutdown
  <2>2. to \in ClientRecords /\ to.pc = "join"
    BY <1>1 DEF ClientRecords, ClientStates
  <2>3. /\ m \in Msgs /\ m.from = c /\ m.n = count[c] + 1 /\ m.kind = "shutdown"
        /\ count[c] + 1 \in Nat /\ count[c] + 1 >= count[c]
    BY <1>1 DEF Msgs, AllKinds
  <2>4. Fresh(c, m.n)
    <3>1. \A i \in DOMAIN queued : queued[i] \in Msgs
      BY DEF QueueInv, Types
    <3>2. \A i \in DOMAIN queued : queued[i].n \in Nat /\ queued[i].n <= count[queued[i].from]
      BY <3>1 DEF QueueInv, Numbered, Msgs
    <3> QED
      BY <1>1, <2>3, <3>2 DEF Fresh
  <2>5. CASE open
    <3>1. Len(inbox) < InboxCap /\ inbox' = Append(inbox, m) /\ queued' = Append(queued, m)
      BY <1>6, <2>5 DEF SendShutdown
    <3>2. /\ count' = [count EXCEPT ![c] = m.n] /\ m.n >= count[c] /\ "none" # "ok"
          /\ to.pc # "send" /\ to.pc # "wait" /\ "none" \in {"none", "ok", "closed"}
      BY <2>1, <2>2, <2>3
    <3> HIDE DEF m, to
    <3> QED
      BY <2>1, <2>2, <2>3, <2>4, <2>5, <3>1, <3>2, ComesIn
  <2>6. CASE ~ open
    <3>1. UNCHANGED << inbox, queued >>
      BY <1>6, <2>6 DEF SendShutdown
    <3> HIDE DEF to
    <3> QED
      BY <2>1, <2>2, <2>3, <3>1, ClientMoves
  <2> QED
    BY <2>5, <2>6
<1>7. ASSUME NEW kind \in Kinds, Request(c, kind) PROVE QueueInv'
  <2> DEFINE m  == [from |-> c, n |-> count[c] + 1, kind |-> kind]
             to == [pc |-> "send", msg |-> m]
  <2>1. /\ client' = [client EXCEPT ![c] = to] /\ count' = [count EXCEPT ![c] = count[c] + 1]
        /\ result' = [result EXCEPT ![c] = "none"] /\ UNCHANGED << inbox, queued, actorVars >>
    BY <1>7 DEF Request, SetClient
  <2>2. /\ m \in Msgs /\ m.from = c /\ m.n = count[c] + 1
        /\ count[c] + 1 \in Nat /\ count[c] + 1 > count[c] /\ count[c] + 1 >= count[c]
    BY <1>1, ActorAssumption DEF Msgs
  <2>3. to \in ClientRecords /\ to.pc = "send" /\ to.msg = m
    BY <2>2 DEF ClientRecords, ClientStates
  <2> HIDE DEF m, to
  <2> QED
    BY <2>1, <2>2, <2>3, ClientMoves
<1>8. CASE ReplyDropped(c)
  <2>1. /\ UNCHANGED << inbox, queued, actorVars, count >> /\ SetClient(c, "idle", NoMsg)
        /\ result' = [result EXCEPT ![c] = "closed"]
    BY <1>8 DEF ReplyDropped
  <2> QED
    BY <1>4, <2>1 DEF ClientStates
<1>9. CASE Cancel(c)
  <2>1. UNCHANGED << inbox, queued, actorVars, count, result >> /\ SetClient(c, "idle", NoMsg)
    BY <1>9 DEF Cancel
  <2> QED
    BY <1>4, <2>1 DEF ClientStates
<1>10. CASE DropHandle(c)
  <2>1. /\ UNCHANGED << inbox, queued, actorVars, count, result >>
        /\ SetClient(c, "last", NoMsg) \/ SetClient(c, "drop", NoMsg)
    BY <1>10 DEF DropHandle
  <2> QED
    BY <1>4, <2>1 DEF ClientStates
<1>11. CASE DropFields(c)
  <2>1. /\ UNCHANGED << inbox, queued, actorVars, count, result >>
        /\ SetClient(c, "detach", NoMsg) \/ SetClient(c, "gone", NoMsg)
    BY <1>11 DEF DropFields
  <2> QED
    BY <1>4, <2>1 DEF ClientStates
<1>12. CASE Join(c)
  <2>1. /\ UNCHANGED << inbox, queued, actorVars, count >> /\ SetClient(c, "gone", NoMsg)
        /\ result' = [result EXCEPT ![c] = "ok"] /\ actor.pc = "ended"
    BY <1>12 DEF Join
  <2>2. ~ open
    BY <2>1 DEF QueueInv, EndsAtOnce
  <2> QED
    BY <1>4, <2>1, <2>2 DEF ClientStates
<1>13. ASSUME NEW d \in Clients, Clone(c, d) PROVE QueueInv'
  <2>1. UNCHANGED << inbox, queued, actorVars, count, result >> /\ SetClient(d, "idle", NoMsg)
    BY <1>13 DEF Clone
  <2> QED
    BY <1>4, <2>1 DEF ClientStates
<1> QED
  BY <1>5, <1>6, <1>7, <1>8, <1>9, <1>10, <1>11, <1>12, <1>13 DEF ClientStep

-----------------------------------------------------------------------------
(* The actor.                                                              *)

(* What an answer, or none, does to the clients: only the one that waits   *)
(* for it is told, and for a shutdown only when the actor is gone.         *)
LEMMA Answers ==
    ASSUME QueueInv, UNCHANGED << count, queued >>, open' => open,
           \/ UNCHANGED << client, result >>
           \/ \E j \in DOMAIN queued :
                 SendReply(queued[j]) /\ (queued[j].kind # "shutdown" \/ ~ open')
    PROVE  /\ client' \in [Clients -> ClientRecords]
           /\ result' \in [Clients -> {"none", "ok", "closed"}]
           /\ Numbered' /\ AnswerIsLast' /\ \A c \in Clients : ClientOK(c)'
<1>1. /\ client \in [Clients -> ClientRecords] /\ queued \in Seq(Msgs)
      /\ result \in [Clients -> {"none", "ok", "closed"}]
      /\ Numbered /\ AnswerIsLast /\ \A c \in Clients : ClientOK(c)
  BY DEF QueueInv, Types
<1>2. \A i \in DOMAIN queued : queued[i] \in Msgs
  BY <1>1
<1>3. \A i \in DOMAIN queued : queued[i].from \in Clients
  BY <1>2 DEF Msgs
<1>4. Numbered'
  BY <1>1 DEF Numbered
<1>5. CASE UNCHANGED << client, result >>
  BY <1>1, <1>4, <1>5 DEF AnswerIsLast, ClientOK
<1>6. ASSUME NEW j \in DOMAIN queued, SendReply(queued[j]), queued[j].kind # "shutdown" \/ ~ open',
             ~ UNCHANGED << client, result >>
      PROVE  /\ client' \in [Clients -> ClientRecords]
             /\ result' \in [Clients -> {"none", "ok", "closed"}]
             /\ Numbered' /\ AnswerIsLast' /\ \A c \in Clients : ClientOK(c)'
  <2> DEFINE c  == queued[j].from
             to == [pc |-> "idle", msg |-> NoMsg]
  <2>1. /\ client[c].pc = "wait" /\ client[c].msg = queued[j]
        /\ client' = [client EXCEPT ![c] = to] /\ result' = [result EXCEPT ![c] = "ok"]
    BY <1>6 DEF SendReply
  <2>2. c \in Clients /\ to \in ClientRecords /\ to.pc = "idle"
    BY <1>3 DEF ClientRecords, ClientStates
  <2>3. queued[j].n = count[c]
    BY <1>1, <2>1, <2>2 DEF ClientOK
  <2> HIDE DEF c, to
  <2>4. /\ client' \in [Clients -> ClientRecords] /\ client'[c] = to
        /\ \A d \in Clients : d # c => client'[d] = client[d]
    BY <1>1, <2>1, <2>2
  <2>5. /\ result' \in [Clients -> {"none", "ok", "closed"}] /\ result'[c] = "ok"
        /\ \A d \in Clients : d # c => result'[d] = result[d]
    BY <1>1, <2>1, <2>2
  <2>6. AnswerIsLast'
    <3> SUFFICES ASSUME NEW i \in DOMAIN queued, queued[i].kind = "shutdown",
                        count[queued[i].from] = queued[i].n, result'[queued[i].from] = "ok"
                 PROVE  ~ open'
      BY DEF AnswerIsLast
    <3>1. CASE queued[i].from = c
      <4>1. i = j
        BY <1>1, <2>3, <3>1 DEF Numbered, c
      <4> QED
        BY <1>6, <4>1
    <3>2. CASE queued[i].from # c
      BY <1>1, <1>3, <2>5, <3>2 DEF AnswerIsLast
    <3> QED
      BY <3>1, <3>2
  <2>7. ASSUME NEW d \in Clients PROVE ClientOK(d)'
    <3>1. CASE d = c
      BY <2>2, <2>4, <3>1 DEF ClientOK
    <3>2. CASE d # c
      BY <1>1, <2>4, <2>5, <3>2 DEF ClientOK
    <3> QED
      BY <3>1, <3>2
  <2> QED
    BY <1>4, <2>4, <2>5, <2>6, <2>7
<1> QED
  BY <1>5, <1>6

(* The request that the actor takes is the first that came in and was not  *)
(* taken yet.                                                              *)
LEMMA TakesNext ==
    ASSUME QueueInv, NEW K, Receive(K)
    PROVE  /\ open /\ open' /\ actor.pc = "run" /\ store = "open"
           /\ Head(inbox) \in Msgs /\ Head(inbox).kind \in K
           /\ Len(handled) + 1 \in DOMAIN queued /\ queued[Len(handled) + 1] = Head(inbox)
           /\ inbox' \in Seq(Msgs) /\ Len(inbox') \in Nat /\ Len(inbox') <= InboxCap
           /\ Len(queued) = Len(handled) + 1 + Len(inbox')
           /\ \A k \in 1..Len(inbox') : inbox'[k] = queued[Len(handled) + 1 + k]
           /\ UNCHANGED << count, open, store, queued >>
<1>1. /\ inbox \in Seq(Msgs) /\ queued \in Seq(Msgs) /\ handled \in Seq(Msgs)
      /\ Len(inbox) <= InboxCap /\ actor.pc = "run" /\ inbox # << >> /\ inbox' = Tail(inbox)
      /\ Head(inbox).kind \in K /\ UNCHANGED << count, open, store, queued >>
      /\ InboxCap \in Nat
  BY ActorAssumption DEF QueueInv, Types, Receive
<1>2. open /\ store = "open"
  BY <1>1 DEF QueueInv, EndsAtOnce, Types
<1>3. /\ Len(queued) = Len(handled) + Len(inbox)
      /\ \A k \in 1..Len(inbox) : inbox[k] = queued[Len(handled) + k]
  <2>1. Taken = Len(handled)
    BY <1>1 DEF Taken
  <2> QED
    BY <1>2, <2>1 DEF QueueInv, Order
<1>4. /\ Len(inbox) \in Nat \ {0} /\ Len(handled) \in Nat /\ Len(queued) \in Nat
      /\ DOMAIN queued = 1..Len(queued)
      /\ Head(inbox) = inbox[1] /\ inbox[1] \in Msgs /\ inbox' \in Seq(Msgs)
      /\ Len(inbox') = Len(inbox) - 1
      /\ \A k \in 1..Len(inbox') : inbox'[k] = inbox[k + 1]
  BY <1>1
<1>5. queued[Len(handled) + 1] = Head(inbox)
  BY <1>3, <1>4
<1>6. \A k \in 1..Len(inbox') : inbox'[k] = queued[Len(handled) + 1 + k]
  <2> TAKE k \in 1..Len(inbox')
  <2>1. k + 1 \in 1..Len(inbox) /\ Len(handled) + (k + 1) = Len(handled) + 1 + k
    BY <1>4
  <2>2. inbox[k + 1] = queued[Len(handled) + (k + 1)]
    BY <1>3, <2>1
  <2> QED
    BY <1>4, <2>1, <2>2
<1> QED
  BY <1>1, <1>2, <1>3, <1>4, <1>5, <1>6

(* A request has been carried out: it is the next one that came in.        *)
LEMMA OneHandled ==
    ASSUME QueueInv, NEW m \in Msgs, handled' = Append(handled, m), queued' = queued,
           Len(handled) + 1 \in DOMAIN queued, queued[Len(handled) + 1] = m,
           m.kind # "shutdown", actor'.pc = "run", open', inbox' \in Seq(Msgs),
           Len(queued) = Len(handled) + 1 + Len(inbox'),
           \A k \in 1..Len(inbox') : inbox'[k] = queued[Len(handled) + 1 + k]
    PROVE  handled' \in Seq(Msgs) /\ Order'
<1> DEFINE h == Len(handled)
<1>1. handled \in Seq(Msgs) /\ queued \in Seq(Msgs)
  BY DEF QueueInv, Types
<1>2. /\ h \in Nat /\ handled' \in Seq(Msgs) /\ Len(handled') = h + 1 /\ handled'[h + 1] = m
      /\ \A i \in 1..h : handled'[i] = handled[i]
      /\ Len(queued) \in Nat /\ DOMAIN queued = 1..Len(queued)
  BY <1>1
<1>3. \A i \in 1..h : handled[i] = queued[i] /\ handled[i].kind # "shutdown"
  BY DEF QueueInv, Order
<1>4. Taken' = h + 1
  BY <1>2 DEF Taken
<1>5. \A i \in 1..(h + 1) : handled'[i] = queued[i] /\ handled'[i].kind # "shutdown"
  <2>1. \A i \in 1..(h + 1) : i \in 1..h \/ i = h + 1
    BY <1>2
  <2> QED
    BY <1>2, <1>3, <2>1
<1> HIDE DEF h
<1>6. h + 1 <= Len(queued)
  BY <1>2 DEF h
<1>7. /\ Len(queued) = Taken' + Len(inbox')
      /\ \A k \in 1..Len(inbox') : inbox'[k] = queued[Taken' + k]
  BY <1>4 DEF h
<1> QED
  BY <1>2, <1>4, <1>5, <1>6, <1>7 DEF Order

(* A request has been taken and is being carried out.                      *)
LEMMA OneTaken ==
    ASSUME QueueInv, NEW K, Receive(K), UNCHANGED << handled, tasks, client, result >>,
           NEW p \in {"busy", "stopping"}, actor' = [pc |-> p, msg |-> Head(inbox)],
           Head(inbox).kind = "shutdown" <=> p = "stopping"
    PROVE  QueueInv'
<1>1. /\ open /\ open' /\ actor.pc = "run" /\ store = "open"
      /\ Head(inbox) \in Msgs /\ Head(inbox).kind \in K
      /\ Len(handled) + 1 \in DOMAIN queued /\ queued[Len(handled) + 1] = Head(inbox)
      /\ inbox' \in Seq(Msgs) /\ Len(inbox') \in Nat /\ Len(inbox') <= InboxCap
      /\ Len(queued) = Len(handled) + 1 + Len(inbox')
      /\ \A k \in 1..Len(inbox') : inbox'[k] = queued[Len(handled) + 1 + k]
      /\ UNCHANGED << count, open, store, queued >>
  BY TakesNext
<1>2. actor'.pc = p /\ actor'.msg = Head(inbox)
      /\ actor' \in [pc: {"run", "busy", "stopping", "ended"}, msg: Msgs \cup {NoMsg}]
  BY <1>1
<1>3. /\ client' \in [Clients -> ClientRecords]
      /\ result' \in [Clients -> {"none", "ok", "closed"}]
      /\ Numbered' /\ AnswerIsLast' /\ \A c \in Clients : ClientOK(c)'
  BY <1>1, Answers
<1>4. Types'
  BY <1>1, <1>2, <1>3 DEF QueueInv, Types
<1>5. EndsAtOnce'
  BY <1>1, <1>2 DEF QueueInv, EndsAtOnce
<1>6. Order'
  <2>1. Len(handled) \in Nat /\ Len(queued) \in Nat
    BY DEF QueueInv, Types
  <2>2. Taken' = Len(handled) + 1
    BY <1>2 DEF Taken
  <2>3. /\ Len(handled) <= Len(queued)
        /\ \A i \in 1..Len(handled) : handled[i] = queued[i] /\ handled[i].kind # "shutdown"
    BY DEF QueueInv, Order
  <2>4. Taken' <= Len(queued) /\ queued[Taken'] = actor'.msg
    BY <1>1, <1>2, <2>1, <2>2
  <2>5. /\ Len(queued) = Taken' + Len(inbox')
        /\ \A k \in 1..Len(inbox') : inbox'[k] = queued[Taken' + k]
    BY <1>1, <2>2
  <2> QED
    BY <1>1, <1>2, <2>3, <2>4, <2>5 DEF Order
<1> QED
  BY <1>3, <1>4, <1>5, <1>6 DEF QueueInv

(* The actor ends, after a shutdown or when there are no handles left.     *)
LEMMA Ends ==
    ASSUME QueueInv, End,
           \/ actor.pc = "stopping" /\ SendReply(actor.msg)
           \/ actor.pc = "run" /\ inbox = << >> /\ UNCHANGED << client, result >>
    PROVE  QueueInv'
<1>1. /\ actor' = [pc |-> "ended", msg |-> NoMsg] /\ ~ open' /\ inbox' = << >>
      /\ store' = "closed" /\ tasks' = {} /\ UNCHANGED << count, queued, handled >>
  BY DEF End
<1>2. handled \in Seq(Msgs) /\ queued \in Seq(Msgs) /\ Len(handled) \in Nat /\ Len(queued) \in Nat
      /\ DOMAIN queued = 1..Len(queued) /\ Len(inbox) \in Nat /\ open
  BY DEF QueueInv, Types, EndsAtOnce
<1>3. actor.pc = "stopping" =>
         /\ Len(handled) + 1 \in DOMAIN queued /\ queued[Len(handled) + 1] = actor.msg
         /\ actor.msg.kind = "shutdown"
  <2>1. actor.pc = "stopping" => Taken = Len(handled) + 1
    BY DEF Taken
  <2>2. actor.pc = "stopping" =>
           Taken <= Len(queued) /\ queued[Taken] = actor.msg /\ actor.msg.kind = "shutdown"
    BY DEF QueueInv, Order
  <2> QED
    BY <1>2, <2>1, <2>2
<1>4. actor.pc = "run" => Len(queued) = Len(handled) + Len(inbox)
  BY <1>2 DEF QueueInv, Order, Taken
<1>5. /\ client' \in [Clients -> ClientRecords]
      /\ result' \in [Clients -> {"none", "ok", "closed"}]
      /\ Numbered' /\ AnswerIsLast' /\ \A c \in Clients : ClientOK(c)'
  <2>1. \/ UNCHANGED << client, result >>
        \/ \E j \in DOMAIN queued :
              SendReply(queued[j]) /\ (queued[j].kind # "shutdown" \/ ~ open')
    BY <1>1, <1>3
  <2> QED
    BY <1>1, <2>1, Answers
<1>6. Types' /\ EndsAtOnce'
  <2>1. inbox' \in Seq(Msgs) /\ Len(inbox') = 0
    BY <1>1
  <2>2. /\ actor' \in [pc: {"run", "busy", "stopping", "ended"}, msg: Msgs \cup {NoMsg}]
        /\ actor'.pc = "ended" /\ InboxCap \in Nat
    BY <1>1, ActorAssumption
  <2>3. /\ count' \in [Clients -> Nat] /\ queued' \in Seq(Msgs) /\ handled' \in Seq(Msgs)
        /\ Len(inbox') <= InboxCap /\ tasks' \subseteq Msgs
    BY <1>1, <1>2, <2>1, <2>2 DEF QueueInv, Types
  <2>4. Types'
    BY <1>1, <1>5, <2>1, <2>2, <2>3 DEF Types, End
  <2> QED
    BY <1>1, <2>2, <2>4 DEF EndsAtOnce
<1>7. Order'
  <2>1. /\ Len(handled) <= Len(queued)
        /\ \A i \in 1..Len(handled) : handled[i] = queued[i] /\ handled[i].kind # "shutdown"
    BY DEF QueueInv, Order
  <2>2. \/ Len(handled) = Len(queued)
        \/ Len(handled) < Len(queued) /\ queued[Len(handled) + 1].kind = "shutdown"
    <3>1. CASE actor.pc = "stopping"
      BY <1>2, <1>3, <3>1
    <3>2. CASE actor.pc = "run" /\ inbox = << >>
      BY <1>2, <1>4, <3>2
    <3> QED
      BY <3>1, <3>2
  <2>3. actor'.pc = "ended"
    BY <1>1
  <2> QED
    BY <1>1, <2>1, <2>2, <2>3 DEF Order
<1> QED
  BY <1>5, <1>6, <1>7 DEF QueueInv

(* Every step of the actor, and the end of a task.                         *)
LEMMA ActorKeeps ==
    ASSUME QueueInv, ActorStep \/ PayloadImported \/ \E t \in tasks : TaskEnds(t)
    PROVE  QueueInv'
<1>1. ASSUME HandleWrite \/ Spawn PROVE QueueInv'
  <2> DEFINE m == Head(inbox)
             K == IF HandleWrite THEN {"write"} ELSE {"session", "stream"}
  <2>1. Receive(K) /\ SendReply(m) /\ handled' = Append(handled, m) /\ UNCHANGED actor
        /\ (UNCHANGED tasks \/ tasks' = tasks \cup {m})
    BY <1>1 DEF HandleWrite, Spawn
  <2>2. "shutdown" \notin K
    OBVIOUS
  <2> HIDE DEF K
  <2>3. /\ open /\ open' /\ actor.pc = "run" /\ store = "open"
        /\ m \in Msgs /\ m.kind \in K
        /\ Len(handled) + 1 \in DOMAIN queued /\ queued[Len(handled) + 1] = m
        /\ inbox' \in Seq(Msgs) /\ Len(inbox') \in Nat /\ Len(inbox') <= InboxCap
        /\ Len(queued) = Len(handled) + 1 + Len(inbox')
        /\ \A k \in 1..Len(inbox') : inbox'[k] = queued[Len(handled) + 1 + k]
        /\ UNCHANGED << count, open, store, queued >>
    BY <2>1, TakesNext
  <2> HIDE DEF m
  <2>4. m.kind # "shutdown" /\ actor'.pc = "run" /\ queued' = queued
    BY <2>1, <2>2, <2>3
  <2>5. handled' \in Seq(Msgs) /\ Order'
    BY <2>1, <2>3, <2>4, OneHandled
  <2>6. /\ client' \in [Clients -> ClientRecords]
        /\ result' \in [Clients -> {"none", "ok", "closed"}]
        /\ Numbered' /\ AnswerIsLast' /\ \A c \in Clients : ClientOK(c)'
    <3>1. \E j \in DOMAIN queued :
             SendReply(queued[j]) /\ (queued[j].kind # "shutdown" \/ ~ open')
      BY <2>1, <2>3, <2>4
    <3> QED
      BY <2>3, <3>1, Answers
  <2>7. Types' /\ EndsAtOnce'
    BY <2>1, <2>3, <2>5, <2>6 DEF QueueInv, Types, EndsAtOnce
  <2> QED
    BY <2>5, <2>6, <2>7 DEF QueueInv
<1>2. ASSUME PayloadImported PROVE QueueInv'
  <2> DEFINE m == actor.msg
  <2>1. /\ actor.pc = "busy" /\ handled' = Append(handled, m) /\ SendReply(m)
        /\ actor' = [pc |-> "run", msg |-> NoMsg]
        /\ UNCHANGED << count, inbox, open, tasks, store, queued >>
    BY <1>2 DEF PayloadImported
  <2>2. /\ queued \in Seq(Msgs) /\ inbox \in Seq(Msgs) /\ Len(handled) \in Nat /\ open
        /\ Len(queued) \in Nat /\ DOMAIN queued = 1..Len(queued)
    BY <2>1 DEF QueueInv, Types, EndsAtOnce
  <2>3. Taken = Len(handled) + 1
    BY <2>1 DEF Taken
  <2>4. /\ Taken <= Len(queued) /\ queued[Taken] = m /\ m.kind # "shutdown"
        /\ Len(queued) = Taken + Len(inbox)
        /\ \A k \in 1..Len(inbox) : inbox[k] = queued[Taken + k]
    BY <2>1, <2>2 DEF QueueInv, Order
  <2>5. /\ Len(handled) + 1 \in DOMAIN queued /\ queued[Len(handled) + 1] = m /\ m \in Msgs
        /\ Len(queued) = Len(handled) + 1 + Len(inbox')
        /\ \A k \in 1..Len(inbox') : inbox'[k] = queued[Len(handled) + 1 + k]
        /\ inbox' \in Seq(Msgs) /\ open' /\ queued' = queued
    <3>1. Len(handled) + 1 \in DOMAIN queued
      BY <2>2, <2>3, <2>4
    <3> QED
      BY <2>1, <2>2, <2>3, <2>4, <3>1
  <2>6. /\ actor'.pc = "run"
        /\ actor' \in [pc: {"run", "busy", "stopping", "ended"}, msg: Msgs \cup {NoMsg}]
    BY <2>1
  <2> HIDE DEF m
  <2>7. handled' \in Seq(Msgs) /\ Order'
    BY <2>1, <2>4, <2>5, <2>6, OneHandled
  <2>8. /\ client' \in [Clients -> ClientRecords]
        /\ result' \in [Clients -> {"none", "ok", "closed"}]
        /\ Numbered' /\ AnswerIsLast' /\ \A c \in Clients : ClientOK(c)'
    <3>1. \E j \in DOMAIN queued :
             SendReply(queued[j]) /\ (queued[j].kind # "shutdown" \/ ~ open')
      BY <2>1, <2>4, <2>5
    <3> QED
      BY <2>1, <3>1, Answers
  <2>9. Types' /\ EndsAtOnce'
    BY <2>1, <2>2, <2>6, <2>7, <2>8 DEF QueueInv, Types, EndsAtOnce
  <2> QED
    BY <2>7, <2>8, <2>9 DEF QueueInv
<1>3. CASE StartInsert
  <2>1. Receive({"insert"}) /\ Head(inbox).kind \in {"insert"}
    BY <1>3 DEF StartInsert, Receive
  <2> QED
    BY <1>3, <2>1, OneTaken DEF StartInsert
<1>4. CASE ReceiveShutdown
  <2>1. Receive({"shutdown"}) /\ Head(inbox).kind \in {"shutdown"}
    BY <1>4 DEF ReceiveShutdown, Receive
  <2> QED
    BY <1>4, <2>1, OneTaken DEF ReceiveShutdown
<1>5. CASE Shutdown \/ InboxClosed
  BY <1>5, Ends DEF Shutdown, InboxClosed
<1>6. ASSUME NEW t \in tasks, TaskEnds(t) PROVE QueueInv'
  <2>1. /\ UNCHANGED << client, count, result, inbox, open, actor, store, queued, handled >>
        /\ tasks' \subseteq tasks
    BY <1>6 DEF TaskEnds, clientVars
  <2>2. Types' /\ EndsAtOnce' /\ Order'
    BY <2>1 DEF QueueInv, Types, EndsAtOnce, Order, Taken
  <2> QED
    BY <2>1, <2>2 DEF QueueInv, Numbered, AnswerIsLast, ClientOK
<1> QED
  BY <1>1, <1>2, <1>3, <1>4, <1>5, <1>6 DEF ActorStep

-----------------------------------------------------------------------------

(* QueueInv holds in every state: whatever clients ask, cancel and drop,   *)
(* and whenever the actor is stopped (run_async and handle_message of      *)
(* engine/actor.rs).                                                       *)
THEOREM QueueInvariant == Spec => []QueueInv
<1>1. Init => QueueInv
  <2> SUFFICES ASSUME Init PROVE QueueInv
    OBVIOUS
  <2>1. \A c \in Clients : client[c].pc \in {"idle", "absent"} /\ client[c] \in ClientRecords
    BY DEF Init, ClientRecords, ClientStates
  <2>2. client \in [Clients -> ClientRecords]
    BY <2>1 DEF Init
  <2>3. /\ inbox = << >> /\ queued = << >> /\ handled = << >> /\ DOMAIN queued = {}
        /\ Len(inbox) = 0 /\ Len(queued) = 0 /\ Len(handled) = 0
        /\ inbox \in Seq(Msgs) /\ queued \in Seq(Msgs) /\ handled \in Seq(Msgs)
        /\ actor.pc = "run" /\ open = TRUE /\ store = "open" /\ tasks = {}
        /\ actor \in [pc: {"run", "busy", "stopping", "ended"}, msg: Msgs \cup {NoMsg}]
    BY DEF Init
  <2>4. Types /\ EndsAtOnce
    BY <2>2, <2>3, ActorAssumption DEF Init, Types, EndsAtOnce
  <2>5. Taken = 0
    BY <2>3 DEF Taken
  <2>6. Order
    BY <2>3, <2>5 DEF Order
  <2>7. Numbered /\ AnswerIsLast /\ \A c \in Clients : ClientOK(c)
    BY <2>1, <2>3 DEF Numbered, AnswerIsLast, ClientOK
  <2> QED
    BY <2>4, <2>6, <2>7 DEF QueueInv
<1>2. QueueInv /\ [Next]_vars => QueueInv'
  <2> SUFFICES ASSUME QueueInv, [Next]_vars PROVE QueueInv'
    OBVIOUS
  <2>1. CASE UNCHANGED vars
    BY <2>1 DEF vars, QueueInv, Types, EndsAtOnce, Order, Taken, Numbered, AnswerIsLast, ClientOK
  <2>2. CASE Next
    BY <2>2, ClientKeeps, ActorKeeps DEF Next
  <2> QED
    BY <2>1, <2>2
<1> QED
  BY <1>1, <1>2, PTL DEF Spec

(* A CLEAN SHUTDOWN, AND ORDER: when shutdown, or the drop of the last     *)
(* handle, returns, the store is closed, no task runs and what came in     *)
(* before is done; requests are carried out in the order in which they     *)
(* came in, none twice and none skipped (Input::Shutdown in run_async).    *)
THEOREM ShutdownsAreClean == Spec => []ActorInv
<1>1. QueueInv => ActorInv
  <2> SUFFICES ASSUME QueueInv PROVE ActorInv
    OBVIOUS
  <2>1. /\ queued \in Seq(Msgs) /\ handled \in Seq(Msgs) /\ Len(handled) \in Nat
        /\ Len(queued) \in Nat /\ DOMAIN queued = 1..Len(queued)
        /\ DOMAIN handled = 1..Len(handled)
    BY DEF QueueInv, Types
  <2>2. /\ Len(handled) <= Len(queued)
        /\ \A i \in 1..Len(handled) : handled[i] = queued[i] /\ handled[i].kind # "shutdown"
    BY DEF QueueInv, Order
  <2>3. TypeOK
    <3>1. \A c \in Clients : client[c] \in ClientRecords
      BY DEF QueueInv, Types
    <3>2. \A c \in Clients : client[c].pc \in ClientStates
      BY <3>1 DEF ClientRecords
    <3> QED
      BY <3>2 DEF QueueInv, Types, EndsAtOnce, TypeOK
  <2>4. InOrder
    <3>1. SubSeq(handled, 1, Len(handled)) = SubSeq(queued, 1, Len(handled))
      BY <2>1, <2>2
    <3>2. IsPrefix(handled, queued)
      BY <2>1, <2>2, <3>1 DEF IsPrefix
    <3> QED
      BY <2>1, <2>2, <3>2 DEF InOrder
  <2>5. ShutdownIsClean
    <3> SUFFICES ASSUME NEW i \in DOMAIN queued, queued[i].kind = "shutdown",
                        count[queued[i].from] = queued[i].n, result[queued[i].from] = "ok"
                 PROVE  /\ store = "closed" /\ tasks = {} /\ ~ open
                        /\ \A j \in 1..(i - 1) : (\A k \in 1..j : queued[k].kind # "shutdown")
                                                    => queued[j] \in ToSet(handled)
      BY DEF ShutdownIsClean
    <3>1. ~ open
      BY DEF QueueInv, AnswerIsLast
    <3>2. store = "closed" /\ tasks = {}
      BY <3>1 DEF QueueInv, EndsAtOnce
    <3>3. ASSUME NEW j \in 1..(i - 1), \A k \in 1..j : queued[k].kind # "shutdown"
          PROVE  queued[j] \in ToSet(handled)
      <4>1. \/ Len(handled) = Len(queued)
            \/ Len(handled) < Len(queued) /\ queued[Len(handled) + 1].kind = "shutdown"
        BY <3>1 DEF QueueInv, Order
      <4>2. j \in 1..Len(handled)
        <5>1. j \in 1..Len(queued)
          BY <2>1
        <5>2. j > Len(handled) => Len(handled) + 1 \in 1..j
          BY <2>1
        <5>3. CASE Len(handled) = Len(queued)
          BY <5>1, <5>3
        <5>4. CASE queued[Len(handled) + 1].kind = "shutdown"
          <6>1. ~ (j > Len(handled))
            BY <3>3, <5>2, <5>4
          <6> QED
            BY <2>1, <5>1, <6>1
        <5> QED
          BY <4>1, <5>3, <5>4
      <4> QED
        BY <2>1, <2>2, <4>2 DEF ToSet
    <3> QED
      BY <3>1, <3>2, <3>3
  <2>6. store = "closed" => actor.pc = "ended"
    BY DEF QueueInv, EndsAtOnce
  <2> QED
    BY <2>3, <2>4, <2>5, <2>6 DEF ActorInv
<1> QED
  BY <1>1, QueueInvariant, PTL

-----------------------------------------------------------------------------
(* The persistent store.  None of its four invariants is inductive by      *)
(* itself.  Sane says what every state of the tables satisfies, committed  *)
(* or not; DatabaseInv adds how the open transaction, the committed        *)
(* tables, the event log and the readers are related.                      *)

(* The store owes nothing more for e once it holds f.  Stricter than       *)
(* pruning: prefix deletion goes by the timestamp alone.                   *)
Covers(f, e) ==
    \/ SamePoint(f, e)
    \/ /\ f.subspace = e.subspace
       /\ << f.path, e.path >> \in PrefixOf
       /\ e.timestamp < f.timestamp

OnePerPoint(S) == \A e, f \in S : SamePoint(e, f) => e = f

(* What one state of the tables satisfies.                                 *)
Sane(T) ==
    /\ T \in Tables
    /\ IsFiniteSet(T.entries)
    /\ T.entries \subseteq T.auth_tokens
    /\ T.entries \subseteq T.taken
    /\ OnePerPoint(T.entries)
    /\ \A e \in T.taken : \E f \in T.entries : Covers(f, e)
    /\ \A e \in T.taken, f \in T.entries : SamePoint(f, e) /\ is_newer_than(e, f) => f \in T.late

DatabaseInv ==
    /\ StoreTypes
    /\ Sane(db) /\ Sane(Current)
    /\ db.taken \subseteq Current.taken
    /\ OnePerPoint(opened)
    /\ ReadInv
    /\ LogReplaysToEntries

-----------------------------------------------------------------------------
(* The operators of the model.                                             *)

(* What the loop of ingest_entry walks over: candidates only, in some      *)
(* order.                                                                  *)
LEMMA CandidateSequence ==
    ASSUME NEW T, Sane(T), NEW e \in Entry, NEW fs \in SetToSeqs(prune_candidates(T, e))
    PROVE  /\ fs \in Seq(Entry)
           /\ Range(fs) = { fs[i] : i \in 1..Len(fs) }
           /\ Range(fs) \subseteq prune_candidates(T, e)
<1> DEFINE C == prune_candidates(T, e)
<1>1. C \subseteq T.entries /\ T.entries \subseteq Entry
  BY DEF prune_candidates, Sane, Tables
<1>2. Cardinality(C) \in Nat
  BY <1>1, FS_Subset, FS_CardinalityType DEF Sane
<1>3. fs \in [1..Cardinality(C) -> C]
  BY DEF SetToSeqs
<1>4. fs \in Seq(C)
  BY <1>2, <1>3
<1>5. fs \in Seq(Entry)
  BY <1>1, <1>4, SeqMonotonic
<1> QED
  BY <1>3, <1>4, <1>5, RangeEquality, RangeOfSeq

(* ingest_entry, seen on the tables: the fields after pruning fs and       *)
(* inserting e.                                                            *)
LEMMA IngestFields ==
    ASSUME NEW T, Sane(T), NEW e \in Entry, NEW fs \in Seq(Entry),
           Range(fs) \subseteq T.entries
    PROVE  LET U == Insert(Prune(T, fs), e) IN
           /\ U \in Tables
           /\ U.entries = { f \in T.entries \ Range(fs) : ~ SamePoint(f, e) } \cup {e}
           /\ U.taken = T.taken \cup {e} /\ U.late = T.late \cup TooLate(T, e)
           /\ (T.auth_tokens \ Range(fs)) \cup {e} \subseteq U.auth_tokens
<1> DEFINE S == Range(fs)
           P == [T EXCEPT !.entries = @ \ S]
           last == { f \in S : P.auth_token_refcount[f] = 1 }
           R == [f \in Entry |-> IF f \in last THEN 0 ELSE P.auth_token_refcount[f]]
           Q == [P EXCEPT !.auth_tokens = @ \ last, !.auth_token_refcount = R]
           V == AddToken(Q, e)
           U == Insert(Prune(T, fs), e)
<1> USE DEF Tables
<1>1. T \in Tables /\ S \subseteq Entry
  BY RangeOfSeq DEF Sane
<1>2. P \in Tables /\ P.entries = T.entries \ S /\ P.taken = T.taken /\ P.late = T.late
      /\ P.auth_tokens = T.auth_tokens
  BY <1>1
<1> HIDE DEF P
<1>3. R \in [Entry -> Nat]
  BY <1>2
<1>4. /\ Q \in Tables /\ Q.entries = P.entries /\ Q.taken = P.taken /\ Q.late = P.late
      /\ Q.auth_tokens = P.auth_tokens \ last
  <2> HIDE DEF R, last
  <2> QED BY <1>2, <1>3
<1>5. last \subseteq S
  OBVIOUS
<1>6. Prune(T, fs) = Q
  BY <1>2 DEF Prune, RemoveTokens, P
<1> HIDE DEF Q, last, R
<1>7. /\ V \in Tables /\ V.entries = Q.entries /\ V.taken = Q.taken /\ V.late = Q.late
      /\ V.auth_tokens = Q.auth_tokens \cup {e}
  <2> DEFINE N == [Q.auth_token_refcount EXCEPT ![e] = @ + 1]
  <2>1. Q.auth_token_refcount \in [Entry -> Nat]
    BY <1>4
  <2>2. N \in [Entry -> Nat]
    BY <2>1
  <2>3. V = [Q EXCEPT !.auth_tokens = @ \cup {e}, !.auth_token_refcount = N]
    BY <1>4 DEF AddToken
  <2> HIDE DEF N, V
  <2> QED
    BY <1>4, <2>2, <2>3
<1> HIDE DEF V
<1>8. U = [V EXCEPT !.entries = { f \in @ : ~ SamePoint(f, e) } \cup {e},
                    !.taken = @ \cup {e}, !.late = @ \cup TooLate(Q, e)]
  BY <1>6 DEF Insert, V
<1>9. /\ U \in Tables
      /\ U.entries = { f \in V.entries : ~ SamePoint(f, e) } \cup {e}
      /\ U.taken = V.taken \cup {e} /\ U.late = V.late \cup TooLate(Q, e)
      /\ U.auth_tokens = V.auth_tokens
  <2>1. TooLate(Q, e) \subseteq Entry
    BY DEF TooLate
  <2> HIDE DEF U
  <2> QED
    BY <1>7, <1>8, <2>1
<1> HIDE DEF U
<1>10. (T.auth_tokens \ S) \cup {e} \subseteq U.auth_tokens
  BY <1>2, <1>4, <1>5, <1>7, <1>9
<1>11. TooLate(Q, e) = TooLate(T, e)
  BY <1>2, <1>4 DEF TooLate
<1> QED
  BY <1>2, <1>4, <1>7, <1>9, <1>10, <1>11 DEF U

(* Covering is kept when the covering entry gives way, to one that prunes  *)
(* it by timestamp or to one at its point.                                 *)
LEMMA CoversTransitive ==
    ASSUME NEW e \in Entry, NEW f \in Entry, NEW g \in Entry, Covers(e, f), Covers(f, g)
    PROVE  Covers(e, g)
  BY PathsAssumption, PersistentAssumption DEF Covers, SamePoint

(* ingest_entry leaves sane tables sane: prefix deletion takes a token     *)
(* only with its entry, and whatever leaves the tree leaves a cover.       *)
LEMMA IngestKeepsSane ==
    ASSUME NEW T, Sane(T), NEW e \in Entry, NEW fs \in SetToSeqs(prune_candidates(T, e))
    PROVE  Sane(Insert(Prune(T, fs), e))
<1> DEFINE U == Insert(Prune(T, fs), e)
           S == Range(fs)
<1>1. fs \in Seq(Entry) /\ S \subseteq prune_candidates(T, e)
  BY CandidateSequence
<1>2. S \subseteq T.entries /\ T.entries \subseteq Entry /\ T.taken \subseteq Entry
  BY <1>1 DEF prune_candidates, Sane, Tables
<1>3. /\ U \in Tables
      /\ U.entries = { f \in T.entries \ S : ~ SamePoint(f, e) } \cup {e}
      /\ U.taken = T.taken \cup {e} /\ U.late = T.late \cup TooLate(T, e)
      /\ (T.auth_tokens \ S) \cup {e} \subseteq U.auth_tokens
  BY <1>1, <1>2, IngestFields
<1> HIDE DEF U, S
<1>4. IsFiniteSet(U.entries)
  <2>1. IsFiniteSet(T.entries \cup {e})
    BY FS_AddElement DEF Sane
  <2>2. U.entries \subseteq T.entries \cup {e}
    BY <1>3
  <2> QED
    BY <2>1, <2>2, FS_Subset
<1>5. U.entries \subseteq U.auth_tokens /\ U.entries \subseteq U.taken
  BY <1>3 DEF Sane
<1>6. OnePerPoint(U.entries)
  BY <1>3 DEF Sane, OnePerPoint, SamePoint
<1>7. ASSUME NEW g \in U.taken PROVE \E f \in U.entries : Covers(f, g)
  <2>1. CASE g = e
    BY <1>3, <2>1 DEF Covers, SamePoint
  <2>2. CASE g # e
    <3>1. g \in T.taken /\ g \in Entry
      BY <1>2, <1>3, <2>2
    <3>2. PICK f \in T.entries : Covers(f, g)
      BY <3>1 DEF Sane
    <3>3. CASE f \in U.entries
      BY <3>2, <3>3
    <3>4. CASE f \notin U.entries
      <4>1. f \in S \/ SamePoint(f, e)
        BY <1>3, <3>4
      <4>2. Covers(e, f)
        BY <1>1, <4>1 DEF Covers, SamePoint, prune_candidates
      <4> QED
        BY <1>2, <1>3, <3>1, <3>2, <4>2, CoversTransitive
    <3> QED
      BY <3>3, <3>4
  <2> QED
    BY <2>1, <2>2
<1>8. ASSUME NEW g \in U.taken, NEW f \in U.entries, SamePoint(f, g), is_newer_than(g, f)
      PROVE  f \in U.late
  <2>1. f \in Entry /\ g \in Entry
    BY <1>2, <1>3
  <2>2. g # f
    BY <1>8, <2>1, PersistentAssumption DEF is_newer_than
  <2>3. CASE f = e
    <3>1. g \in T.taken
      BY <1>3, <2>2, <2>3
    <3>2. prunes(g, f)
      BY <1>8, <2>1, PathsAssumption, PersistentAssumption DEF prunes, SamePoint
    <3> QED
      BY <1>3, <2>3, <3>1, <3>2 DEF TooLate
  <2>4. CASE f # e
    <3>1. f \in T.entries /\ ~ SamePoint(f, e)
      BY <1>3, <2>4
    <3>2. g \in T.taken
      BY <1>3, <1>8, <3>1
    <3> QED
      BY <1>3, <1>8, <3>1, <3>2 DEF Sane
  <2> QED
    BY <2>3, <2>4
<1> QED
  BY <1>3, <1>4, <1>5, <1>6, <1>7, <1>8 DEF Sane, U

(* The entries that replaying the log evs on the entries start gives.      *)
Replay(evs, start) ==
    { e \in Entry :
        LET at == { i \in DOMAIN evs : SamePoint(evs[i].entry, e) } IN
        \/ at = {} /\ e \in start
        \/ \E i \in at : /\ \A j \in at : j <= i
                         /\ evs[i] = [kind |-> "Ingested", entry |-> e] }

(* The events of one ingest_entry: a removal for each of fs, then the      *)
(* insertion.  Replaying them does to the entries what the call does.      *)
LEMMA IngestReplays ==
    ASSUME NEW start, NEW evs \in Seq(Event), NEW S \in SUBSET Entry,
           S = Replay(evs, start), OnePerPoint(S),
           NEW e \in Entry, NEW fs \in Seq(Entry), Range(fs) \subseteq S
    PROVE  LET log == evs \o [i \in DOMAIN fs |-> [kind |-> "Pruned", entry |-> fs[i]]]
                          \o << [kind |-> "Ingested", entry |-> e] >>
           IN /\ log \in Seq(Event)
              /\ Replay(log, start) = { f \in S \ Range(fs) : ~ SamePoint(f, e) } \cup {e}
<1> DEFINE mid == [i \in DOMAIN fs |-> [kind |-> "Pruned", entry |-> fs[i]]]
           end == [kind |-> "Ingested", entry |-> e]
           log == evs \o mid \o << end >>
           n == Len(evs)
           m == Len(fs)
           At(es, g) == { i \in DOMAIN es : SamePoint(es[i].entry, g) }
<1>1. /\ mid \in Seq(Event) /\ Len(mid) = m
      /\ \A i \in 1..m : mid[i].kind = "Pruned" /\ mid[i].entry = fs[i]
  <2>1. m \in Nat /\ DOMAIN fs = 1..m /\ \A i \in 1..m : fs[i] \in Entry
    BY LenProperties
  <2>2. mid \in [1..m -> Event]
    BY <2>1 DEF Event
  <2>3. mid \in Seq(Event)
    BY <2>1, <2>2
  <2> QED
    BY <2>1, <2>2, <2>3
<1>2. end \in Event /\ << end >> \in Seq(Event)
  BY DEF Event
<1> HIDE DEF mid
<1>3. /\ log \in Seq(Event)
      /\ DOMAIN log = 1..(n + m + 1)
      /\ \A i \in 1..n : log[i] = evs[i]
      /\ \A i \in 1..m : log[n + i].kind = "Pruned" /\ log[n + i].entry = fs[i]
      /\ log[n + m + 1] = end
  <2> DEFINE front == evs \o mid
  <2>1. /\ n \in Nat /\ m \in Nat /\ front \in Seq(Event) /\ Len(front) = n + m
        /\ \A i \in 1..(n + m) : front[i] = IF i <= n THEN evs[i] ELSE mid[i - n]
    <3>1. n \in Nat /\ m \in Nat
      BY LenProperties
    <3>2. /\ front \in Seq(Event) /\ Len(front) = Len(evs) + Len(mid)
          /\ \A i \in 1..(Len(evs) + Len(mid)) :
                front[i] = IF i <= Len(evs) THEN evs[i] ELSE mid[i - Len(evs)]
      <4>1. mid \in Seq(Event)
        BY <1>1
      <4> QED
        BY ONLY <4>1, evs \in Seq(Event), ConcatProperties
    <3> QED
      BY <1>1, <3>1, <3>2
  <2> HIDE DEF front, end
  <2>2. /\ log \in Seq(Event) /\ Len(log) = n + m + 1
        /\ \A i \in 1..(n + m + 1) :
              log[i] = IF i <= n + m THEN front[i] ELSE << end >>[i - (n + m)]
    BY <1>2, <2>1, ConcatProperties, LenProperties DEF front
  <2> HIDE DEF log
  <2>3. ASSUME NEW i \in 1..m PROVE log[n + i] = mid[i]
    <3>1. n + i \in 1..(n + m) /\ n + i \in 1..(n + m + 1) /\ (n + i) - n = i /\ ~ (n + i <= n)
      BY <2>1
    <3>2. log[n + i] = front[n + i]
      BY <2>1, <2>2, <3>1
    <3>3. front[n + i] = mid[(n + i) - n]
      BY <2>1, <3>1
    <3> QED
      BY <3>1, <3>2, <3>3
  <2>4. log[n + m + 1] = end
    BY <2>1, <2>2
  <2>5. ASSUME NEW i \in 1..n PROVE log[i] = evs[i]
    <3>1. i \in 1..(n + m) /\ i \in 1..(n + m + 1) /\ i <= n
      BY <2>1
    <3> QED
      BY <2>1, <2>2, <3>1
  <2> QED
    BY <1>1, <2>1, <2>2, <2>3, <2>4, <2>5, LenProperties
<1> HIDE DEF end
<1> HIDE DEF log
<1>4. n \in Nat /\ m \in Nat /\ DOMAIN evs = 1..n
  OBVIOUS
<1>5. ASSUME NEW g \in Entry
      PROVE  g \in Replay(log, start) <=> g \in { f \in S \ Range(fs) : ~ SamePoint(f, e) } \cup {e}
  <2>1. CASE SamePoint(g, e)
    <3>1. n + m + 1 \in At(log, g)
      BY <1>3, <1>4, <2>1 DEF end, SamePoint
    <3>2. \A j \in At(log, g) : j <= n + m + 1
      BY <1>3, <1>4
    <3>3. \A i \in At(log, g) : (\A j \in At(log, g) : j <= i) => i = n + m + 1
      <4> SUFFICES ASSUME NEW i \in At(log, g), \A j \in At(log, g) : j <= i
                   PROVE  i = n + m + 1
        OBVIOUS
      <4>1. n + m + 1 <= i /\ i <= n + m + 1 /\ i \in 1..(n + m + 1)
        BY <1>3, <3>1, <3>2
      <4> QED
        BY <1>4, <4>1
    <3>4. g \in Replay(log, start) <=> log[n + m + 1] = [kind |-> "Ingested", entry |-> g]
      BY <3>1, <3>2, <3>3 DEF Replay
    <3>5. g \in Replay(log, start) <=> g = e
      BY <1>3, <3>4 DEF end
    <3> QED
      BY <2>1, <3>5
  <2>2. CASE ~ SamePoint(g, e) /\ \E i \in 1..m : SamePoint(fs[i], g)
    <3>1. n + m + 1 \notin At(log, g)
      BY <1>3, <2>2 DEF end, SamePoint
    <3>2. PICK k \in 1..m : SamePoint(fs[k], g)
      BY <2>2
    <3>3. n + k \in At(log, g)
      <4>1. n + k \in 1..(n + m + 1)
        BY <1>4
      <4>2. log[n + k].entry = fs[k]
        BY <1>3
      <4> QED
        BY <1>3, <3>2, <4>1, <4>2
    <3>4. ASSUME NEW i \in At(log, g), \A j \in At(log, g) : j <= i
          PROVE  log[i] # [kind |-> "Ingested", entry |-> g]
      <4>1. i \in 1..(n + m + 1) /\ i # n + m + 1 /\ n + k <= i
        BY <1>3, <3>1, <3>3, <3>4
      <4>2. PICK j \in 1..m : i = n + j
        <5>1. i - n \in 1..m /\ i = n + (i - n)
          BY <1>4, <4>1
        <5> QED BY <5>1
      <4> QED
        <5>1. log[i].kind = "Pruned"
          BY <1>3, <4>2
        <5> QED BY <5>1
    <3>5. g \notin Replay(log, start)
      BY <3>3, <3>4 DEF Replay
    <3>6. fs[k] \in Range(fs) /\ fs[k] \in S
      BY <3>2 DEF Range
    <3>7. g \in S => g = fs[k]
      BY <3>2, <3>6 DEF OnePerPoint, SamePoint
    <3>8. g # e
      BY <2>2 DEF SamePoint
    <3> QED
      BY <3>5, <3>6, <3>7, <3>8
  <2>3. CASE ~ SamePoint(g, e) /\ \A i \in 1..m : ~ SamePoint(fs[i], g)
    <3>1. \A i \in 1..m : n + i \notin At(log, g)
      BY <1>3, <2>3
    <3>2. n + m + 1 \notin At(log, g)
      BY <1>3, <2>3 DEF end, SamePoint
    <3>3. \A i \in 1..(n + m + 1) : i \notin 1..n /\ i # n + m + 1 => i - n \in 1..m /\ i = n + (i - n)
      BY <1>4
    <3>4. At(log, g) \subseteq 1..n
      BY <1>3, <3>1, <3>2, <3>3
    <3>5. At(log, g) = At(evs, g)
      BY <1>3, <1>4, <3>4
    <3>6. \A i \in At(evs, g) : log[i] = evs[i]
      BY <1>3, <1>4
    <3>7. g \in Replay(log, start) <=> g \in Replay(evs, start)
      BY <3>5, <3>6 DEF Replay
    <3>8. g \notin Range(fs) /\ g # e
      BY <2>3, RangeEquality DEF SamePoint
    <3> QED
      BY <2>3, <3>7, <3>8
  <2> QED
    BY <2>1, <2>2, <2>3
<1>6. Replay(log, start) \subseteq Entry
  BY DEF Replay
<1> QED
  BY <1>3, <1>5, <1>6 DEF log, mid, end

-----------------------------------------------------------------------------

(* Every call keeps the relation of the tables, the open transaction, the  *)
(* log and the readers, and so does the end of the process, which drops an *)
(* open transaction.                                                       *)
THEOREM DatabaseInvariant == StoreSpec => []DatabaseInv
<1>1. StoreInit => DatabaseInv
  <2> SUFFICES ASSUME StoreInit PROVE DatabaseInv
    OBVIOUS
  <2>1. NoTables \in Tables /\ NoTables.entries = {} /\ NoTables.taken = {}
    BY DEF NoTables, Tables
  <2>2. Sane(NoTables)
    BY <2>1, FS_EmptySet DEF Sane, OnePerPoint
  <2>3. db = NoTables /\ Current = NoTables /\ tx = NoTx /\ tx.kind = "None"
    BY DEF StoreInit, Current, NoTx
  <2>4. StoreTypes
    BY <2>1, PersistentAssumption DEF StoreInit, StoreTypes, NoTx
  <2>5. ReadInv
    BY <2>3 DEF StoreInit, ReadInv, ReadsAreDurable, KeptReadIsFresh, AnnouncedOrLost
  <2>6. LogReplaysToEntries
    BY <2>1, <2>3 DEF StoreInit, LogReplaysToEntries
  <2> QED
    BY <2>2, <2>3, <2>4, <2>5, <2>6 DEF StoreInit, DatabaseInv, OnePerPoint
<1>2. DatabaseInv /\ [StoreNext]_storeVars => DatabaseInv'
  <2> SUFFICES ASSUME DatabaseInv, [StoreNext]_storeVars PROVE DatabaseInv'
    OBVIOUS
  <2> USE DEF DatabaseInv
  <2>1. Current.entries = Replay(events, opened)
    BY DEF LogReplaysToEntries, Replay
  <2>2. ASSUME NEW T, Sane(T), Write(T), Current.taken \subseteq T.taken
        PROVE  /\ db' \in Tables /\ tx' \in [kind: {"None", "Write", "Read"}, tables: Tables]
               /\ Sane(db)' /\ Sane(Current)' /\ Current' = T
               /\ db'.taken \subseteq Current'.taken
               /\ (seen' = seen /\ lost' = lost /\ announced' \subseteq announced \cup T.taken => ReadInv')
    <3>1. db' \in {db, Current}
      BY <2>2 DEF Write, Current
    <3>2. tx' = [kind |-> "Write", tables |-> T] /\ T \in Tables
      BY <2>2 DEF Write, Sane
    <3>3. Current' = T
      BY <3>2 DEF Current
    <3>4. Sane(db)' /\ Sane(Current)'
      BY <2>2, <3>1, <3>3 DEF Sane, OnePerPoint, SamePoint, Covers, is_newer_than
    <3>5. db.taken \subseteq db'.taken /\ db'.taken \subseteq T.taken
      BY <2>2, <3>1
    <3>6. seen' = seen /\ lost' = lost /\ announced' \subseteq announced \cup T.taken => ReadInv'
      BY <2>2, <3>2, <3>3, <3>5 DEF ReadInv, ReadsAreDurable, KeptReadIsFresh, AnnouncedOrLost
    <3> QED
      BY <3>2, <3>3, <3>4, <3>5, <3>6 DEF Sane
  <2>3. ASSUME NEW e \in Entry, IngestEntry(e) PROVE DatabaseInv'
    <3>1. PICK fs \in SetToSeqs(prune_candidates(Current, e)) :
            /\ Write(Insert(Prune(Current, fs), e))
            /\ events' = events
                  \o [i \in DOMAIN fs |-> [kind |-> "Pruned", entry |-> fs[i]]]
                  \o << [kind |-> "Ingested", entry |-> e] >>
      BY <2>3 DEF IngestEntry
    <3> DEFINE T == Insert(Prune(Current, fs), e)
    <3>2. Sane(T)
      BY IngestKeepsSane
    <3>3. fs \in Seq(Entry) /\ Range(fs) \subseteq Current.entries
      BY CandidateSequence DEF prune_candidates
    <3>4. /\ T.taken = Current.taken \cup {e}
          /\ T.entries = { f \in Current.entries \ Range(fs) : ~ SamePoint(f, e) } \cup {e}
      BY <3>3, IngestFields
    <3> HIDE DEF T
    <3>5. Write(T)
      BY <3>1 DEF T
    <3>6. seen' = seen /\ opened' = opened /\ lost' = lost /\ announced' = announced \cup {e}
      BY <2>3 DEF IngestEntry
    <3>7. /\ db' \in Tables /\ tx' \in [kind: {"None", "Write", "Read"}, tables: Tables]
          /\ Sane(db)' /\ Sane(Current)' /\ Current' = T
          /\ db'.taken \subseteq Current'.taken /\ ReadInv'
      BY <2>2, <3>2, <3>4, <3>5, <3>6
    <3>8. events' \in Seq(Event) /\ Current'.entries = Replay(events', opened)
      <4>1. Current.entries \in SUBSET Entry /\ OnePerPoint(Current.entries)
            /\ events \in Seq(Event)
        BY DEF Sane, Tables, StoreTypes
      <4> QED
        <5> DEFINE S == Current.entries
                   log == events
                     \o [i \in DOMAIN fs |-> [kind |-> "Pruned", entry |-> fs[i]]]
                     \o << [kind |-> "Ingested", entry |-> e] >>
        <5> HIDE DEF S
        <5>1. /\ log \in Seq(Event)
              /\ Replay(log, opened) = { f \in S \ Range(fs) : ~ SamePoint(f, e) } \cup {e}
          BY <2>1, <3>3, <4>1, IngestReplays DEF S
        <5> QED
          BY <3>1, <3>4, <3>7, <5>1 DEF S
    <3>9. ingests' \in 0..MaxIngests
      BY <2>3, PersistentAssumption DEF IngestEntry, StoreTypes
    <3>10. StoreTypes'
      BY <3>6, <3>7, <3>8, <3>9 DEF StoreTypes
    <3>11. LogReplaysToEntries'
      BY <3>6, <3>8 DEF LogReplaysToEntries, Replay
    <3> QED
      BY <3>6, <3>7, <3>10, <3>11 DEF OnePerPoint, SamePoint
  <2>4. ASSUME NEW T, Sane(T), Write(T), T.taken = Current.taken, T.entries = Current.entries,
               UNCHANGED << events, opened, seen, announced, lost, ingests >>
        PROVE  DatabaseInv'
    <3>1. StoreTypes'
      BY <2>2, <2>4 DEF StoreTypes
    <3>2. LogReplaysToEntries'
      BY <2>2, <2>4 DEF LogReplaysToEntries
    <3> QED
      BY <2>2, <2>4, <3>1, <3>2 DEF OnePerPoint, SamePoint
  <2>5. ASSUME NEW i \in Items, InsertItem(i) PROVE DatabaseInv'
    <3> DEFINE T == [Current EXCEPT !.items = @ \cup {i}]
    <3>1. Sane(T) /\ T.taken = Current.taken /\ T.entries = Current.entries
      BY DEF Sane, Tables
    <3>2. Write(T) /\ UNCHANGED << events, opened, seen, announced, lost, ingests >>
      BY <2>5 DEF InsertItem
    <3> QED
      BY <2>4, <3>1, <3>2
  <2>6. ASSUME GetSecret PROVE DatabaseInv'
    BY <2>4, <2>6 DEF GetSecret
  <2>7. ASSUME db' = Current, Current' = Current, UNCHANGED << events, opened, announced, lost, ingests >>,
               tx' \in [kind: {"None", "Write", "Read"}, tables: Tables],
               tx'.kind = "Read" => tx'.tables = db',
               seen' \subseteq seen \cup Current.entries
        PROVE  DatabaseInv'
    <3>1. seen' \subseteq db'.taken /\ seen' \subseteq Entry
      BY <2>7 DEF ReadInv, ReadsAreDurable, Sane, Tables, StoreTypes
    <3>2. StoreTypes' /\ ReadInv'
      BY <2>7, <3>1 DEF StoreTypes, ReadInv, ReadsAreDurable, KeptReadIsFresh, AnnouncedOrLost, Sane
    <3>3. LogReplaysToEntries'
      BY <2>7 DEF LogReplaysToEntries
    <3>4. Sane(db)' /\ Sane(Current)' /\ OnePerPoint(opened)'
      BY <2>7 DEF Sane, OnePerPoint, SamePoint, Covers, is_newer_than
    <3> QED
      BY <2>7, <3>2, <3>3, <3>4
  <2>8. ASSUME Snapshot PROVE DatabaseInv'
    <3>1. db' = Current /\ tx' = NoTx /\ Current' = Current
      BY <2>8 DEF Snapshot, Flush, Current, NoTx
    <3>2. NoTx \in [kind: {"None", "Write", "Read"}, tables: Tables] /\ NoTx.kind = "None"
      BY DEF NoTx, NoTables, Tables
    <3> QED
      BY <2>7, <2>8, <3>1, <3>2 DEF Snapshot
  <2>9. ASSUME ListCaps PROVE DatabaseInv'
    <3>1. db' = Current /\ tx' = IF tx.kind = "Read" THEN tx ELSE [kind |-> "Read", tables |-> db']
      BY <2>9 DEF ListCaps
    <3>2. tx'.kind = "Read" /\ Current' = db'
      BY <3>1 DEF Current
    <3>3. tx'.tables = db'
      BY <3>1 DEF ReadInv, KeptReadIsFresh, Current
    <3>4. tx' \in [kind: {"None", "Write", "Read"}, tables: Tables]
      BY <3>1 DEF StoreTypes, Sane
    <3> QED
      BY <2>7, <2>9, <3>1, <3>2, <3>3, <3>4 DEF ListCaps
  <2>10. ASSUME Restart PROVE DatabaseInv'
    <3>1. /\ tx' = NoTx /\ events' = << >> /\ opened' = db.entries
          /\ lost' = lost \cup (Current.taken \ db.taken)
          /\ UNCHANGED << db, seen, announced, ingests >>
      BY <2>10 DEF Restart
    <3>2. Current' = db /\ tx'.kind = "None"
      BY <3>1 DEF Current, NoTx
    <3>3. StoreTypes'
      BY <3>1 DEF StoreTypes, NoTx, NoTables, Tables, Sane
    <3>4. ReadInv'
      BY <3>1, <3>2 DEF ReadInv, ReadsAreDurable, KeptReadIsFresh, AnnouncedOrLost
    <3>5. LogReplaysToEntries'
      BY <3>1, <3>2 DEF LogReplaysToEntries, Sane, Tables
    <3>6. Sane(db)' /\ Sane(Current)' /\ OnePerPoint(opened)'
      BY <3>1, <3>2 DEF Sane, OnePerPoint, SamePoint, Covers, is_newer_than
    <3> QED
      BY <3>1, <3>2, <3>3, <3>4, <3>5, <3>6
  <2>11. CASE UNCHANGED storeVars
    <3>1. Current' = Current
      BY <2>11 DEF storeVars, Current
    <3>2. StoreTypes' /\ ReadInv' /\ LogReplaysToEntries'
      BY <2>11, <3>1 DEF storeVars, StoreTypes, ReadInv, ReadsAreDurable,
         KeptReadIsFresh, AnnouncedOrLost, LogReplaysToEntries
    <3> QED
      BY <2>11, <3>1, <3>2 DEF storeVars, Sane, OnePerPoint, SamePoint, Covers, is_newer_than
  <2> QED
    BY <2>3, <2>5, <2>6, <2>8, <2>9, <2>10, <2>11 DEF StoreNext
<1> QED
  BY <1>1, <1>2, PTL DEF StoreSpec

(* Whatever is ingested twice, replaced at its point, pruned by prefix or  *)
(* lost with a transaction: no entry of the tree is ever without its       *)
(* authorisation token, so get_entry_auth_token finds one.                 *)
THEOREM EntriesKeepTokens == StoreSpec => []TokenInv
<1>1. DatabaseInv => TokenInv
  BY DEF DatabaseInv, TokenInv, EntriesHaveTokens, Sane
<1> QED
  BY <1>1, DatabaseInvariant, PTL

(* snapshot commits before it reads: no crash takes back what a snapshot   *)
(* showed, and a read transaction that Db::tx keeps is never stale.  What  *)
(* event subscribers were shown can be taken back, but by nothing else     *)
(* than a restart before the commit.                                       *)
THEOREM ReadsSurviveRestarts == StoreSpec => []ReadInv
<1>1. DatabaseInv => ReadInv
  BY DEF DatabaseInv
<1> QED
  BY <1>1, DatabaseInvariant, PTL

(* A subscriber that replays the events of this process reaches the        *)
(* entries of the store, over any number of ingests, prunings, commits and *)
(* restarts.                                                               *)
THEOREM LogIsComplete == StoreSpec => []LogReplaysToEntries
<1>1. DatabaseInv => LogReplaysToEntries
  BY DEF DatabaseInv
<1> QED
  BY <1>1, DatabaseInvariant, PTL

(* An ingested entry is only ever displaced by one that prunes it, directly *)
(* or over any chain of displacements, or at its point by one that came    *)
(* after an entry that prunes it, which ingest_entry does not refuse.      *)
THEOREM NothingGoesMissing == StoreSpec => []NothingIsLost
<1>1. DatabaseInv => NothingIsLost
  <2> SUFFICES ASSUME DatabaseInv, NEW T \in {db, Current}, NEW e \in T.taken
               PROVE  \E f \in T.entries : f = e \/ prunes(f, e) \/ (SamePoint(f, e) /\ f \in T.late)
    BY DEF NothingIsLost
  <2>1. Sane(T)
    BY DEF DatabaseInv
  <2>2. PICK f \in T.entries : Covers(f, e)
    BY <2>1 DEF Sane
  <2>3. f \in Entry /\ e \in Entry
    BY <2>1 DEF Sane, Tables
  <2>4. CASE SamePoint(f, e)
    <3>1. is_newer_than(e, f) => f \in T.late
      BY <2>1, <2>4 DEF Sane
    <3>2. is_newer_than(f, e) => prunes(f, e)
      BY <2>3, <2>4, PathsAssumption, PersistentAssumption DEF SamePoint, prunes
    <3>3. e.digest = f.digest => f = e
      BY <2>3, <2>4, PersistentAssumption DEF SamePoint
    <3>4. is_newer_than(e, f) \/ is_newer_than(f, e) \/ e.digest = f.digest
      BY <2>3, <2>4, PersistentAssumption DEF SamePoint, is_newer_than
    <3> QED
      BY <2>4, <3>1, <3>2, <3>3, <3>4
  <2>5. CASE ~ SamePoint(f, e)
    BY <2>2, <2>3, <2>5, PersistentAssumption DEF Covers, prunes, is_newer_than
  <2> QED
    BY <2>4, <2>5
<1> QED
  BY <1>1, DatabaseInvariant, PTL

=============================================================================
