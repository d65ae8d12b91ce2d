---------------------------- MODULE LiveData_proofs ----------------------------
(***************************************************************************)
(* What the receiver of live data holds is what the sender meant, and why  *)
(* a session may fail, for any entries, tokens, payload lengths, chunk and *)
(* channel sizes.                                                          *)
(***************************************************************************)
EXTENDS LiveData, SequenceTheorems, TLAPS

EntryMsgs     == [kind: {"Entry"}, entry: Entries, handle: Nat]
PayloadMsgs   == [kind: {"Payload"}, entry: Entries, len: 1..ChunkSize]
TerminateMsgs == [kind: {"Terminate"}, entry: Entries]
Messages      == EntryMsgs \cup PayloadMsgs \cup TerminateMsgs
TokenMsgs     == [token: Tokens]

TaskStates == [pc: {"idle", "bind", "entry", "payload", "terminate"},
               entry: Entries \cup {"none"}, handle: Nat, pipe: Pipes]
RecvStates == [pc: {"recv", "poll", "parked"}, msg: EntryMsgs \cup {None}]
Payloads   == [entry: Entries, received: Nat, writer: BOOLEAN, mixed: BOOLEAN]

-----------------------------------------------------------------------------
(* What is on a channel, as a path.  A state of the path says how much of  *)
(* which entry has been sent before a message: the first is where the      *)
(* receiver is, the last where the sender is, and each message leads from  *)
(* one to the next.                                                        *)

(* The bytes that task t sends of the payload of e.                        *)
Whole(t, e) == IF e \in Unsent[t] THEN 0 ELSE Encoded[e]

(* Chunks are full, but for the last one.                                  *)
OnChunk(t, e, n) == n = Whole(t, e) \/ \E k \in Nat : n = k * ChunkSize

Nothing == [entry |-> "none", sent |-> 0]

Places(t) == {Nothing} \cup { s \in [entry: Entries, sent: Nat] :
                                s.sent <= Whole(t, s.entry) /\ OnChunk(t, s.entry, s.sent) }

(* The next entry may follow.  Nothing ends a payload on the data channel. *)
Finished(t, s) == s.entry = "none" \/ (t = "data" /\ s.sent = Whole(t, s.entry))

Leads(t, s, m, r) ==
    \/ /\ m.kind = "Entry" /\ Finished(t, s)
       /\ r.entry = m.entry /\ r.sent = 0
    \/ /\ m.kind = "Payload" /\ s.entry = m.entry
       /\ r.entry = m.entry /\ r.sent = s.sent + m.len
    \/ /\ m.kind = "Terminate" /\ t = "rec" /\ s.entry = m.entry /\ s.sent = Whole(t, s.entry)
       /\ r = Nothing

Path(t, ch, from, to) ==
    \E st \in [1..(Len(ch) + 1) -> Places(t)] :
        /\ st[1] = from /\ st[Len(ch) + 1] = to
        /\ \A i \in 1..Len(ch) : Leads(t, st[i], ch[i], st[i + 1])

(* An empty channel.                                                       *)
LEMMA PathEmpty ==
    ASSUME NEW t, NEW s \in Places(t)
    PROVE  Path(t, << >>, s, s)
<1> DEFINE st == [i \in 1..1 |-> s]
<1>1. st \in [1..(Len(<< >>) + 1) -> Places(t)] /\ st[1] = s
  OBVIOUS
<1> HIDE DEF st
<1>2. Len(<< >>) = 0 /\ Len(<< >>) + 1 = 1
  OBVIOUS
<1> QED
  BY <1>1, <1>2 DEF Path

(* A message is sent.                                                      *)
LEMMA PathAppend ==
    ASSUME NEW t, NEW M, NEW ch \in Seq(M), NEW from, NEW to, Path(t, ch, from, to),
           NEW m \in M, NEW r \in Places(t), Leads(t, to, m, r)
    PROVE  Path(t, Append(ch, m), from, r)
<1> DEFINE n == Len(ch)
           more == Append(ch, m)
<1>1. PICK st \in [1..(n + 1) -> Places(t)] :
        /\ st[1] = from /\ st[n + 1] = to
        /\ \A i \in 1..n : Leads(t, st[i], ch[i], st[i + 1])
  BY DEF Path
<1>2. n \in Nat /\ Len(more) = n + 1 /\ more[n + 1] = m /\ \A i \in 1..n : more[i] = ch[i]
  OBVIOUS
<1> HIDE DEF n, more
<1> DEFINE su == [i \in 1..(n + 2) |-> IF i = n + 2 THEN r ELSE st[i]]
<1>3. su \in [1..(n + 2) -> Places(t)]
  <2>1. \A i \in 1..(n + 2) : i = n + 2 \/ i \in 1..(n + 1)
    BY <1>2
  <2> QED
    BY <1>1, <2>1
<1>4. su[1] = from /\ su[n + 2] = r /\ \A i \in 1..(n + 1) : su[i] = st[i]
  BY <1>1, <1>2
<1> HIDE DEF su
<1>5. ASSUME NEW i \in 1..(n + 1) PROVE Leads(t, su[i], more[i], su[i + 1])
  <2>1. CASE i = n + 1
    <3>1. su[i] = to /\ more[i] = m /\ su[i + 1] = r
      BY <1>1, <1>2, <1>4, <2>1
    <3> QED
      BY <3>1
  <2>2. CASE i \in 1..n
    <3>1. su[i] = st[i] /\ more[i] = ch[i] /\ su[i + 1] = st[i + 1]
      BY <1>2, <1>4, <2>2
    <3> QED
      BY <1>1, <2>2, <3>1
  <2> QED
    BY <1>2, <2>1, <2>2
<1>6. (n + 1) + 1 = n + 2
  BY <1>2
<1> QED
  BY <1>2, <1>3, <1>4, <1>5, <1>6 DEF Path, more

(* A message is taken.                                                     *)
LEMMA PathTail ==
    ASSUME NEW t, NEW M, NEW ch \in Seq(M), NEW from, NEW to, Path(t, ch, from, to), ch # << >>
    PROVE  \E r \in Places(t) : Leads(t, from, Head(ch), r) /\ Path(t, Tail(ch), r, to)
<1> DEFINE n == Len(ch)
           rest == Tail(ch)
<1>1. PICK st \in [1..(n + 1) -> Places(t)] :
        /\ st[1] = from /\ st[n + 1] = to
        /\ \A i \in 1..n : Leads(t, st[i], ch[i], st[i + 1])
  BY DEF Path
<1>2. /\ n \in Nat \ {0} /\ Len(rest) = n - 1 /\ Head(ch) = ch[1]
      /\ \A i \in 1..(n - 1) : rest[i] = ch[i + 1]
  OBVIOUS
<1> HIDE DEF n, rest
<1> DEFINE su == [i \in 1..n |-> st[i + 1]]
<1>3. su \in [1..n -> Places(t)] /\ su[1] = st[2] /\ su[n] = to
  BY <1>1, <1>2
<1>4. \A i \in 1..n : su[i] = st[i + 1]
  OBVIOUS
<1> HIDE DEF su
<1>5. ASSUME NEW i \in 1..(n - 1) PROVE Leads(t, su[i], rest[i], su[i + 1])
  <2>1. i \in 1..n /\ i + 1 \in 1..n
    BY <1>2
  <2>2. su[i] = st[i + 1] /\ su[i + 1] = st[(i + 1) + 1] /\ rest[i] = ch[i + 1]
    BY <1>2, <1>4, <2>1
  <2>3. Leads(t, st[i + 1], ch[i + 1], st[(i + 1) + 1])
    BY <1>1, <2>1
  <2> QED
    BY <2>2, <2>3
<1>6. Leads(t, from, Head(ch), st[2]) /\ st[2] \in Places(t)
  <2>1. 1 \in 1..n /\ 1 + 1 = 2 /\ 2 \in 1..(n + 1)
    BY <1>2
  <2>2. Leads(t, st[1], ch[1], st[1 + 1])
    BY <1>1, <2>1
  <2> QED
    BY <1>1, <1>2, <2>1, <2>2
<1>7. Path(t, rest, st[2], to)
  <2>1. Len(rest) + 1 = n
    BY <1>2
  <2> QED
    BY <1>2, <1>3, <1>5, <2>1 DEF Path
<1> QED
  BY <1>6, <1>7 DEF rest

-----------------------------------------------------------------------------
(* Types.                                                                  *)

SenderTypes ==
    /\ log \in Seq(Entries) /\ Len(log) <= MaxLog
    /\ started \in [Tasks -> 0..NotStarted] /\ next \in [Tasks -> 0..NotStarted]
    /\ \A t \in Tasks : next[t] <= Len(log) /\ (started[t] # NotStarted => started[t] <= Len(log))
    /\ ours \in Seq(Tokens)
    /\ task \in [Tasks -> TaskStates]
    /\ \A t \in Tasks : task[t].pc # "idle" => task[t].entry \in Entries /\ task[t].handle \in 1..Len(ours)
    /\ \A t \in Tasks : task[t].handle <= Len(ours)
    /\ overtaken \in BOOLEAN

ChannelTypes ==
    /\ DOMAIN chan = Channels
    /\ \A t \in Tasks : chan[t] \in Seq(Messages)
    /\ chan["tokens"] \in Seq(TokenMsgs)
    /\ \A c \in Channels : Len(chan[c]) <= Cap

ReceiverTypes ==
    /\ theirs \in Seq(Tokens)
    /\ recv \in [Tasks -> RecvStates]
    /\ \A t \in Tasks : recv[t].pc # "recv" => recv[t].msg \in EntryMsgs
    /\ current \in [Tasks -> Payloads \cup {None}]
    /\ ingested \subseteq Tasks \X Entries
    /\ payloads \subseteq [by: Tasks, entry: Entries, received: Nat, mixed: BOOLEAN]
    /\ failed \in BOOLEAN

Types == SenderTypes /\ ChannelTypes /\ ReceiverTypes

(* A payload store fails.                                                  *)
StoreStep == \E t \in Tasks : PipeFails(t) \/ ImportFails(t)

(* Nothing else changes with it.                                           *)
LEMMA StillStep ==
    ASSUME StoreStep \/ UNCHANGED vars
    PROVE  /\ UNCHANGED << log, started, next, ours, task, overtaken, chan >>
           /\ UNCHANGED << theirs, recv, current, ingested, payloads, failed >>
<1>1. UNCHANGED << sender, chan, receiver >>
  BY DEF StoreStep, PipeFails, ImportFails, vars
<1> QED
  BY <1>1 DEF sender, receiver

(* The head and the rest of a sequence.                                    *)
LEMMA TailFields ==
    ASSUME NEW M, NEW s \in Seq(M), s # << >>
    PROVE  /\ Len(s) \in Nat \ {0} /\ Head(s) = s[1] /\ Len(Tail(s)) = Len(s) - 1
           /\ \A i \in 1..(Len(s) - 1) : Tail(s)[i] = s[i + 1] /\ i + 1 \in 1..Len(s)
<1>1. /\ Len(s) \in Nat \ {0} /\ Head(s) = s[1] /\ Len(Tail(s)) = Len(s) - 1
      /\ \A i \in 1..(Len(s) - 1) : Tail(s)[i] = s[i + 1]
  OBVIOUS
<1> QED
  BY <1>1

(* A message goes into a channel.                                          *)
LEMMA Sends ==
    ASSUME ChannelTypes, NEW c \in Channels, NEW msg, Send(c, msg),
           \/ c \in Tasks /\ msg \in Messages
           \/ c = "tokens" /\ msg \in TokenMsgs
    PROVE  /\ ChannelTypes' /\ chan'[c] = Append(chan[c], msg)
           /\ \A d \in Channels : d # c => chan'[d] = chan[d]
<1>1. /\ DOMAIN chan = Channels /\ Len(chan[c]) < Cap /\ Cap \in Nat
      /\ chan' = [chan EXCEPT ![c] = Append(chan[c], msg)]
  BY LiveDataAssumption DEF Send, ChannelTypes
<1>2. /\ DOMAIN chan' = Channels /\ chan'[c] = Append(chan[c], msg)
      /\ \A d \in Channels : d # c => chan'[d] = chan[d]
  BY <1>1
<1>3. /\ c \in Tasks => chan'[c] \in Seq(Messages)
      /\ c = "tokens" => chan'[c] \in Seq(TokenMsgs)
      /\ Len(chan'[c]) <= Cap
  <2>1. CASE c \in Tasks
    <3>1. chan[c] \in Seq(Messages) /\ msg \in Messages /\ c # "tokens"
      BY <2>1 DEF ChannelTypes, Tasks
    <3> QED
      BY <1>1, <1>2, <3>1
  <2>2. CASE c = "tokens"
    <3>1. chan[c] \in Seq(TokenMsgs) /\ msg \in TokenMsgs /\ c \notin Tasks
      BY <2>2 DEF ChannelTypes, Tasks
    <3> QED
      BY <1>1, <1>2, <3>1
  <2> QED
    BY <2>1, <2>2
<1>4. "tokens" \in Channels /\ Tasks \subseteq Channels
  BY DEF Channels
<1>5. /\ \A t \in Tasks : chan'[t] \in Seq(Messages)
      /\ chan'["tokens"] \in Seq(TokenMsgs)
      /\ \A d \in Channels : Len(chan'[d]) <= Cap
  BY <1>2, <1>3, <1>4 DEF ChannelTypes
<1> QED
  BY <1>2, <1>5 DEF ChannelTypes

(* A message is taken out of one.                                          *)
LEMMA Takes ==
    ASSUME ChannelTypes, NEW c \in Channels, chan[c] # << >>,
           chan' = [chan EXCEPT ![c] = Tail(@)]
    PROVE  /\ ChannelTypes' /\ chan'[c] = Tail(chan[c])
           /\ \A d \in Channels : d # c => chan'[d] = chan[d]
           /\ c \in Tasks => Head(chan[c]) \in Messages
           /\ c = "tokens" => Head(chan[c]) \in TokenMsgs
<1>1. DOMAIN chan = Channels /\ Len(chan[c]) <= Cap /\ Cap \in Nat
  BY LiveDataAssumption DEF ChannelTypes
<1>2. /\ DOMAIN chan' = Channels /\ chan'[c] = Tail(chan[c])
      /\ \A d \in Channels : d # c => chan'[d] = chan[d]
  BY <1>1
<1>3. /\ c \in Tasks => chan'[c] \in Seq(Messages) /\ Head(chan[c]) \in Messages
      /\ c = "tokens" => chan'[c] \in Seq(TokenMsgs) /\ Head(chan[c]) \in TokenMsgs
      /\ c \in Tasks \/ c = "tokens" => Len(chan'[c]) <= Cap
  <2>1. CASE c \in Tasks
    <3>1. chan[c] \in Seq(Messages) /\ c # "tokens"
      BY <2>1 DEF ChannelTypes, Tasks
    <3> QED
      BY <1>1, <1>2, <3>1
  <2>2. CASE c = "tokens"
    <3>1. chan[c] \in Seq(TokenMsgs) /\ c \notin Tasks
      BY <2>2 DEF ChannelTypes, Tasks
    <3> QED
      BY <1>1, <1>2, <3>1
  <2> QED
    BY <2>1, <2>2
<1>4. "tokens" \in Channels /\ Tasks \subseteq Channels /\ (c \in Tasks \/ c = "tokens")
  BY DEF Channels
<1>5. /\ \A t \in Tasks : chan'[t] \in Seq(Messages)
      /\ chan'["tokens"] \in Seq(TokenMsgs)
      /\ \A d \in Channels : Len(chan'[d]) <= Cap
  BY <1>2, <1>3, <1>4 DEF ChannelTypes
<1> QED
  BY <1>2, <1>3, <1>5 DEF ChannelTypes

(* The entry that a task takes is the next one in the log.                 *)
LEMMA TakesFromLog ==
    ASSUME SenderTypes, NEW t \in Tasks, Waiting(t) # << >>
    PROVE  /\ started[t] # NotStarted /\ next[t] + 1 \in 1..Len(log)
           /\ Head(Waiting(t)) = log[next[t] + 1] /\ Head(Waiting(t)) \in Entries
<1>1. /\ log \in Seq(Entries) /\ Len(log) \in Nat /\ next[t] \in Nat /\ next[t] <= Len(log)
      /\ started[t] \in Nat /\ (started[t] # NotStarted => started[t] <= Len(log))
  BY LiveDataAssumption DEF SenderTypes, NotStarted
<1>2. started[t] # NotStarted
  BY DEF Waiting
<1> DEFINE to == IF t = "rec" THEN started[t] ELSE Len(log)
<1>3. to \in Nat /\ to <= Len(log) /\ Waiting(t) = SubSeq(log, next[t] + 1, to)
  <2>1. to \in Nat /\ to <= Len(log)
    BY <1>1, <1>2
  <2>2. Waiting(t) = SubSeq(log, next[t] + 1, to)
    BY <1>2, Zenon DEF Waiting
  <2> QED
    BY <2>1, <2>2
<1> HIDE DEF to
<1>4. next[t] + 1 <= to
  BY <1>1, <1>3
<1>5. Head(Waiting(t)) = log[next[t] + 1]
  BY <1>1, <1>3, <1>4
<1> QED
  BY <1>1, <1>2, <1>3, <1>4, <1>5

(* bind_if_new returns the position of the token in the table it returns.  *)
LEMMA Binds ==
    ASSUME ours \in Seq(Tokens), NEW token \in Tokens
    PROVE  LET b == bind_if_new(token) IN
           /\ b[1] \in 1..Len(b[3]) /\ b[3] \in Seq(Tokens) /\ b[3][b[1]] = token
           /\ \/ b[2] = TRUE /\ b[3] = Append(ours, token) /\ b[1] = Len(ours) + 1
              \/ b[2] = FALSE /\ b[3] = ours
<1>1. CASE token \in ToSet(ours)
  <2>1. \E h \in DOMAIN ours : ours[h] = token
    BY <1>1 DEF ToSet
  <2> DEFINE h == CHOOSE h \in DOMAIN ours : ours[h] = token
  <2>2. h \in DOMAIN ours /\ ours[h] = token
    BY <2>1
  <2>3. DOMAIN ours = 1..Len(ours)
    OBVIOUS
  <2> HIDE DEF h
  <2>4. bind_if_new(token) = << h, FALSE, ours >>
    BY <1>1 DEF bind_if_new, h
  <2> QED
    BY <2>2, <2>3, <2>4
<1>2. CASE token \notin ToSet(ours)
  <2>1. bind_if_new(token) = << Len(ours) + 1, TRUE, Append(ours, token) >>
    BY <1>2 DEF bind_if_new
  <2>2. /\ Append(ours, token) \in Seq(Tokens) /\ Len(Append(ours, token)) = Len(ours) + 1
        /\ Append(ours, token)[Len(ours) + 1] = token /\ Len(ours) \in Nat
    OBVIOUS
  <2> QED
    BY <2>1, <2>2
<1> QED
  BY <1>1, <1>2

(* The writer moves bytes into the buffer of the pipe, or closes it.       *)
LEMMA Writes ==
    ASSUME SenderTypes, NEW t \in Tasks, PipeWrite(t)
    PROVE  \E q \in Pipes :
              LET p == task[t].pipe IN
              /\ task' = [task EXCEPT ![t] = [task[t] EXCEPT !.pipe = q]]
              /\ q.left + q.buf = p.left + p.buf /\ q.chunk = p.chunk
              /\ p.left = 0 => q.left = 0
              /\ q.closed => q.left = 0
<1> DEFINE p == task[t].pipe
           n == Smaller(p.left, ChunkSize - p.buf)
           q == CASE p.left = 0 -> [p EXCEPT !.closed = TRUE, !.parked = {}]
                  [] p.left > 0 /\ n > 0 -> [p EXCEPT !.left = @ - n, !.buf = @ + n,
                                                      !.parked = @ \ {"reader"}]
                  [] OTHER -> [p EXCEPT !.parked = @ \cup {"writer"}]
<1>1. task[t] \in TaskStates
  BY DEF SenderTypes
<1>2. p \in Pipes
  BY <1>1 DEF TaskStates
<1>3. /\ p.left \in Nat /\ p.buf \in 0..ChunkSize /\ p.closed \in BOOLEAN /\ p.chunk \in 0..ChunkSize
      /\ p.parked \subseteq {"reader", "writer"} /\ ChunkSize \in Nat
  BY <1>2, LiveDataAssumption DEF Pipes
<1>4. task' = [task EXCEPT ![t] = [task[t] EXCEPT !.pipe = q]] /\ ~ p.closed
  BY DEF PipeWrite
<1>5. n \in Nat /\ n <= p.left /\ n <= ChunkSize - p.buf
  BY <1>3 DEF Smaller
<1> HIDE DEF n
<1>6. CASE p.left = 0
  <2>1. q = [p EXCEPT !.closed = TRUE, !.parked = {}]
    BY <1>3, <1>6
  <2>2. q \in Pipes /\ q.left = p.left /\ q.buf = p.buf /\ q.chunk = p.chunk
    BY <1>2, <2>1 DEF Pipes
  <2> QED
    BY <1>3, <1>4, <1>6, <2>2
<1>7. CASE p.left > 0 /\ n > 0
  <2>1. q = [p EXCEPT !.left = p.left - n, !.buf = p.buf + n, !.parked = p.parked \ {"reader"}]
    BY <1>3, <1>7
  <2>2. p.left - n \in Nat /\ p.buf + n \in 0..ChunkSize
    BY <1>3, <1>5
  <2>3. /\ q \in Pipes /\ q.left = p.left - n /\ q.buf = p.buf + n /\ q.chunk = p.chunk
        /\ q.closed = p.closed
    BY <1>2, <1>3, <2>1, <2>2 DEF Pipes
  <2>4. q.left + q.buf = p.left + p.buf /\ p.left # 0 /\ ~ q.closed
    BY <1>3, <1>4, <1>5, <1>7, <2>3
  <2> HIDE DEF q
  <2> QED
    BY <1>4, <2>3, <2>4
<1>8. CASE p.left > 0 /\ ~ (n > 0)
  <2>1. q = [p EXCEPT !.parked = p.parked \cup {"writer"}]
    BY <1>3, <1>8
  <2>2. q \in Pipes /\ q.left = p.left /\ q.buf = p.buf /\ q.chunk = p.chunk /\ q.closed = p.closed
    BY <1>2, <1>3, <2>1 DEF Pipes
  <2> QED
    BY <1>3, <1>4, <1>8, <2>2
<1> QED
  BY <1>3, <1>6, <1>7, <1>8

(* The reader takes a full chunk, or the rest once the writer is gone, or  *)
(* ends.                                                                   *)
LEMMA Reads ==
    ASSUME SenderTypes, NEW t \in Tasks, PipeRead(t)
    PROVE  LET p == task[t].pipe IN
           \/ /\ task' = [task EXCEPT ![t] = AfterPayload(t)]
              /\ p.buf = 0 /\ p.closed /\ p.chunk = 0
           \/ \E q \in Pipes :
                 /\ task' = [task EXCEPT ![t] = [task[t] EXCEPT !.pipe = q]]
                 /\ p.chunk = 0 /\ q.left = p.left /\ q.closed = p.closed
                 /\ q.buf + q.chunk = p.buf
                 /\ q.chunk > 0 => q.chunk = ChunkSize \/ (p.closed /\ q.buf = 0)
<1> DEFINE p == task[t].pipe
           x == CASE p.buf = ChunkSize ->
                        [task[t] EXCEPT !.pipe = [p EXCEPT !.chunk = p.buf, !.buf = 0,
                                                           !.parked = @ \ {"writer"}]]
                  [] p.buf # ChunkSize /\ p.closed /\ p.buf > 0 ->
                        [task[t] EXCEPT !.pipe = [p EXCEPT !.chunk = p.buf, !.buf = 0]]
                  [] p.buf = 0 /\ p.closed -> AfterPayload(t)
                  [] OTHER -> [task[t] EXCEPT !.pipe = [p EXCEPT !.parked = @ \cup {"reader"}]]
<1>1. task[t] \in TaskStates
  BY DEF SenderTypes
<1>2. p \in Pipes
  BY <1>1 DEF TaskStates
<1>3. /\ p.left \in Nat /\ p.buf \in 0..ChunkSize /\ p.closed \in BOOLEAN /\ p.chunk \in 0..ChunkSize
      /\ p.parked \subseteq {"reader", "writer"} /\ ChunkSize \in Nat \ {0}
  BY <1>2, LiveDataAssumption DEF Pipes
<1>4. task' = [task EXCEPT ![t] = x] /\ p.chunk = 0
  BY Zenon DEF PipeRead
<1>5. CASE p.buf = ChunkSize
  <2> DEFINE q == [p EXCEPT !.chunk = p.buf, !.buf = 0, !.parked = p.parked \ {"writer"}]
  <2>1. x = [task[t] EXCEPT !.pipe = q]
    BY <1>3, <1>5
  <2>2. q \in Pipes /\ q.left = p.left /\ q.buf = 0 /\ q.chunk = ChunkSize /\ q.closed = p.closed
    <3>1. p.buf \in 0..ChunkSize /\ 0 \in 0..ChunkSize /\ p.parked \ {"writer"} \subseteq {"reader", "writer"}
      BY <1>3
    <3> QED
      BY <1>2, <1>5, <3>1 DEF Pipes
  <2> HIDE DEF q, x
  <2>3. q.buf + q.chunk = p.buf
    BY <1>3, <1>5, <2>2
  <2> QED
    BY <1>4, <2>1, <2>2, <2>3
<1>6. CASE p.buf # ChunkSize /\ p.closed /\ p.buf > 0
  <2> DEFINE q == [p EXCEPT !.chunk = p.buf, !.buf = 0]
  <2>1. x = [task[t] EXCEPT !.pipe = q]
    BY <1>3, <1>6
  <2>2. q \in Pipes /\ q.left = p.left /\ q.buf = 0 /\ q.chunk = p.buf /\ q.closed = p.closed
    <3>1. p.buf \in 0..ChunkSize /\ 0 \in 0..ChunkSize
      BY <1>3
    <3> QED
      BY <1>2, <3>1 DEF Pipes
  <2> HIDE DEF q, x
  <2>3. q.buf + q.chunk = p.buf
    BY <1>3, <1>6, <2>2
  <2> QED
    BY <1>4, <1>6, <2>1, <2>2, <2>3
<1>7. CASE p.buf = 0 /\ p.closed
  <2>1. x = AfterPayload(t)
    BY <1>3, <1>7
  <2> QED
    BY <1>4, <1>7, <2>1
<1>8. CASE ~ (p.buf = ChunkSize) /\ ~ p.closed
  <2> DEFINE q == [p EXCEPT !.parked = p.parked \cup {"reader"}]
  <2>1. x = [task[t] EXCEPT !.pipe = q]
    BY <1>3, <1>8
  <2>2. q \in Pipes /\ q.left = p.left /\ q.buf = p.buf /\ q.chunk = p.chunk /\ q.closed = p.closed
    BY <1>2, <1>3 DEF Pipes
  <2> HIDE DEF q, x
  <2>3. q.buf + q.chunk = p.buf /\ ~ (q.chunk > 0)
    BY <1>3, <1>4, <2>2
  <2> QED
    BY <1>4, <2>1, <2>2, <2>3
<1> QED
  BY <1>3, <1>5, <1>6, <1>7, <1>8

(* A task is set to another state, with the table and the log as they are. *)
LEMMA TaskMoves ==
    ASSUME SenderTypes, NEW t \in Tasks, NEW x \in TaskStates, task' = [task EXCEPT ![t] = x],
           x.pc # "idle" => x.entry \in Entries /\ x.handle \in 1..Len(ours),
           x.handle <= Len(ours), UNCHANGED << log, started, next, ours >>, overtaken' \in BOOLEAN
    PROVE  SenderTypes' /\ task'[t] = x /\ \A u \in Tasks : u # t => task'[u] = task[u]
<1>1. /\ task' \in [Tasks -> TaskStates] /\ task'[t] = x
      /\ \A u \in Tasks : u # t => task'[u] = task[u]
  BY DEF SenderTypes
<1>2. \A u \in Tasks : /\ task'[u].pc # "idle" => task'[u].entry \in Entries /\ task'[u].handle \in 1..Len(ours)
                       /\ task'[u].handle <= Len(ours)
  BY <1>1 DEF SenderTypes
<1> QED
  BY <1>1, <1>2 DEF SenderTypes

(* The fields of a task's state.                                           *)
LEMMA TaskFields ==
    ASSUME SenderTypes, NEW t \in Tasks
    PROVE  /\ task[t] \in TaskStates /\ task[t].pipe \in Pipes /\ task[t].handle \in Nat
           /\ task[t].handle <= Len(ours) /\ task[t].pc \in {"idle", "bind", "entry", "payload", "terminate"}
           /\ task[t].pc # "idle" => task[t].entry \in Entries /\ task[t].handle \in 1..Len(ours)
           /\ task[t].pipe.left \in Nat /\ task[t].pipe.buf \in 0..ChunkSize
           /\ task[t].pipe.chunk \in 0..ChunkSize /\ task[t].pipe.closed \in BOOLEAN
           /\ Len(ours) \in Nat /\ ChunkSize \in Nat \ {0}
<1>1. task[t] \in TaskStates
  BY DEF SenderTypes
<1>2. task[t].pipe \in Pipes /\ task[t].handle \in Nat /\ task[t].pc \in {"idle", "bind", "entry", "payload", "terminate"}
  BY <1>1 DEF TaskStates
<1>3. /\ task[t].pipe.left \in Nat /\ task[t].pipe.buf \in 0..ChunkSize
      /\ task[t].pipe.chunk \in 0..ChunkSize /\ task[t].pipe.closed \in BOOLEAN
  BY <1>2 DEF Pipes
<1> QED
  BY <1>1, <1>2, <1>3, LiveDataAssumption DEF SenderTypes

(* Idle and what follows a payload are states of a task.                   *)
LEMMA AfterFields ==
    ASSUME SenderTypes, NEW t \in Tasks
    PROVE  /\ Idle \in TaskStates /\ Idle.pc = "idle" /\ Idle.handle = 0
           /\ AfterPayload(t) \in TaskStates /\ AfterPayload(t).handle <= Len(ours)
           /\ t = "data" => AfterPayload(t) = Idle
           /\ t = "rec" => /\ AfterPayload(t).pc = "terminate" /\ AfterPayload(t).entry = task[t].entry
                           /\ AfterPayload(t).handle = task[t].handle
<1>1. EmptyPipe \in Pipes
  <2>1. 0 \in 0..ChunkSize /\ 0 \in Nat
    BY LiveDataAssumption
  <2> QED
    BY <2>1 DEF EmptyPipe, Pipes
<1>2. Idle \in TaskStates /\ Idle.pc = "idle" /\ Idle.handle = 0
  BY <1>1 DEF Idle, TaskStates
<1>3. task[t] \in TaskStates /\ task[t].handle <= Len(ours) /\ Len(ours) \in Nat
  BY TaskFields
<1>4. /\ [task[t] EXCEPT !.pc = "terminate"] \in TaskStates
      /\ [task[t] EXCEPT !.pc = "terminate"].pc = "terminate"
      /\ [task[t] EXCEPT !.pc = "terminate"].entry = task[t].entry
      /\ [task[t] EXCEPT !.pc = "terminate"].handle = task[t].handle
  BY <1>3 DEF TaskStates
<1> QED
  BY <1>2, <1>3, <1>4 DEF AfterPayload, Tasks

(* What the sending tasks do keeps the types of the sender, and what they  *)
(* send has the type of the channel.                                       *)
LEMMA SenderKeepsTypes ==
    ASSUME Types, NEW t \in Tasks, SendTask(t) \/ PipeWrite(t) \/ PipeRead(t)
    PROVE  Types' /\ UNCHANGED receiver
<1>1. SenderTypes /\ ChannelTypes /\ ReceiverTypes /\ t \in Channels
  BY DEF Types, Channels
<1>2. /\ task[t] \in TaskStates /\ task[t].pipe \in Pipes /\ task[t].handle \in Nat
      /\ task[t].handle <= Len(ours) /\ task[t].pc \in {"idle", "bind", "entry", "payload", "terminate"}
      /\ task[t].pc # "idle" => task[t].entry \in Entries /\ task[t].handle \in 1..Len(ours)
      /\ task[t].pipe.left \in Nat /\ task[t].pipe.buf \in 0..ChunkSize
      /\ task[t].pipe.chunk \in 0..ChunkSize /\ task[t].pipe.closed \in BOOLEAN
      /\ Len(ours) \in Nat /\ ChunkSize \in Nat \ {0}
  BY <1>1, TaskFields
<1>3. /\ Idle \in TaskStates /\ Idle.pc = "idle" /\ Idle.handle = 0
      /\ AfterPayload(t) \in TaskStates /\ AfterPayload(t).handle <= Len(ours)
      /\ t = "data" => AfterPayload(t) = Idle
      /\ t = "rec" => /\ AfterPayload(t).pc = "terminate" /\ AfterPayload(t).entry = task[t].entry
                      /\ AfterPayload(t).handle = task[t].handle
  BY <1>1, AfterFields
<1>4. UNCHANGED receiver => ReceiverTypes'
  BY <1>1 DEF ReceiverTypes, receiver
<1>5. UNCHANGED chan => ChannelTypes'
  BY <1>1 DEF ChannelTypes
<1>6. t = "rec" \/ t = "data"
  BY DEF Tasks
<1>7. overtaken \in BOOLEAN
  BY <1>1 DEF SenderTypes
<1>8. ASSUME Start(t) PROVE Types' /\ UNCHANGED receiver
  <2>1. /\ started' = [started EXCEPT ![t] = Len(log)]
        /\ next' = [next EXCEPT ![t] = IF t = "rec" THEN 0 ELSE Len(log)]
        /\ UNCHANGED << log, ours, task, overtaken >> /\ UNCHANGED chan /\ UNCHANGED receiver
    BY <1>8 DEF Start
  <2>2. Len(log) \in 0..NotStarted /\ 0 \in 0..NotStarted /\ Len(log) \in Nat /\ Len(log) # NotStarted
    BY <1>1, LiveDataAssumption DEF SenderTypes, NotStarted
  <2>3. /\ started' \in [Tasks -> 0..NotStarted] /\ next' \in [Tasks -> 0..NotStarted]
        /\ started'[t] = Len(log) /\ next'[t] <= Len(log)
        /\ \A u \in Tasks : u # t => started'[u] = started[u] /\ next'[u] = next[u]
    BY <1>1, <2>1, <2>2 DEF SenderTypes
  <2>4. \A u \in Tasks : next'[u] <= Len(log) /\ (started'[u] # NotStarted => started'[u] <= Len(log))
    BY <1>1, <2>2, <2>3 DEF SenderTypes
  <2>5. SenderTypes'
    BY <1>1, <2>1, <2>3, <2>4 DEF SenderTypes
  <2> QED
    BY <1>4, <1>5, <2>1, <2>5 DEF Types
<1>9. ASSUME NextEntry(t) PROVE Types' /\ UNCHANGED receiver
  <2> DEFINE e == Head(Waiting(t))
             b == bind_if_new(TokenOf[e])
             x == [pc |-> IF b[2] THEN "bind" ELSE "entry", entry |-> e,
                   handle |-> b[1], pipe |-> EmptyPipe]
  <2>1. /\ Waiting(t) # << >> /\ ours' = b[3] /\ task' = [task EXCEPT ![t] = x]
        /\ next' = [next EXCEPT ![t] = next[t] + 1]
        /\ UNCHANGED << log, started, overtaken >> /\ UNCHANGED chan /\ UNCHANGED receiver
    BY <1>9 DEF NextEntry
  <2>2. e \in Entries /\ next[t] + 1 \in 1..Len(log)
    BY <1>1, <2>1, TakesFromLog
  <2>3. TokenOf[e] \in Tokens /\ ours \in Seq(Tokens)
    BY <1>1, <2>2, LiveDataAssumption DEF SenderTypes
  <2>4. /\ b[1] \in 1..Len(b[3]) /\ b[3] \in Seq(Tokens)
        /\ \/ b[2] = TRUE /\ b[3] = Append(ours, TokenOf[e])
           \/ b[2] = FALSE /\ b[3] = ours
    <3> HIDE DEF e
    <3> QED
      BY <2>3, Binds
  <2> HIDE DEF e, b
  <2>5. Len(ours) <= Len(ours') /\ Len(ours') \in Nat /\ ours' \in Seq(Tokens)
    BY <2>1, <2>3, <2>4
  <2>6. b[1] \in Nat /\ b[1] \in 1..Len(ours') /\ b[1] <= Len(ours')
    BY <2>1, <2>4, <2>5
  <2>7. x \in TaskStates /\ x.entry = e /\ x.handle = b[1]
    <3>1. EmptyPipe \in Pipes
      <4>1. Idle.pipe = EmptyPipe /\ Idle.pipe \in Pipes
        BY <1>3 DEF Idle, TaskStates
      <4> QED
        BY <4>1
    <3> QED
      BY <2>2, <2>6, <3>1 DEF TaskStates
  <2> HIDE DEF x
  <2>8. /\ task' \in [Tasks -> TaskStates] /\ task'[t] = x
        /\ \A u \in Tasks : u # t => task'[u] = task[u]
    BY <1>1, <2>1, <2>7 DEF SenderTypes
  <2>9. \A u \in Tasks : /\ task'[u].pc # "idle" => task'[u].entry \in Entries /\ task'[u].handle \in 1..Len(ours')
                         /\ task'[u].handle <= Len(ours')
    <3> TAKE u \in Tasks
    <3>1. CASE u = t
      BY <2>2, <2>6, <2>7, <2>8, <3>1
    <3>2. CASE u # t
      <4>1. /\ task[u].pc # "idle" => task[u].entry \in Entries /\ task[u].handle \in 1..Len(ours)
            /\ task[u].handle <= Len(ours) /\ task[u].handle \in Nat /\ task'[u] = task[u]
        BY <1>1, <2>8, <3>2, TaskFields
      <4> QED
        BY <1>2, <2>5, <4>1
    <3> QED
      BY <3>1, <3>2
  <2>10. next[t] + 1 \in 0..NotStarted /\ next[t] + 1 <= Len(log)
    BY <1>1, <2>2, LiveDataAssumption DEF SenderTypes, NotStarted
  <2>11. /\ next' \in [Tasks -> 0..NotStarted]
         /\ \A u \in Tasks : next'[u] <= Len(log)
    BY <1>1, <2>1, <2>10 DEF SenderTypes
  <2>12. SenderTypes'
    BY <1>1, <2>1, <2>5, <2>8, <2>9, <2>11 DEF SenderTypes
  <2> QED
    BY <1>4, <1>5, <2>1, <2>12 DEF Types
<1>10. ASSUME SendBinding(t) PROVE Types' /\ UNCHANGED receiver
  <2> DEFINE x == [task[t] EXCEPT !.pc = "entry"]
             m == [token |-> ours[task[t].handle]]
  <2>1. /\ task[t].pc = "bind" /\ Send("tokens", m) /\ task' = [task EXCEPT ![t] = x]
        /\ overtaken' \in BOOLEAN
        /\ UNCHANGED << log, started, next, ours >> /\ UNCHANGED receiver
    BY <1>7, <1>10 DEF SendBinding
  <2>2. x \in TaskStates /\ x.entry = task[t].entry /\ x.handle = task[t].handle
    BY <1>2 DEF TaskStates
  <2>3. m \in TokenMsgs
    <3>1. ours[task[t].handle] \in Tokens
      BY <1>1, <1>2, <2>1 DEF SenderTypes
    <3> QED
      BY <3>1 DEF TokenMsgs
  <2> HIDE DEF x, m
  <2>4. SenderTypes'
    BY <1>1, <1>2, <2>1, <2>2, TaskMoves
  <2>5. ChannelTypes'
    BY <1>1, <2>1, <2>3, Sends DEF Channels
  <2> QED
    BY <1>4, <2>1, <2>4, <2>5 DEF Types
<1>11. ASSUME SendEntry(t) PROVE Types' /\ UNCHANGED receiver
  <2> DEFINE y == [task[t] EXCEPT !.pc = "payload", !.pipe.left = Encoded[task[t].entry]]
             x == IF task[t].entry \in Unsent[t] THEN AfterPayload(t) ELSE y
             m == [kind |-> "Entry", entry |-> task[t].entry, handle |-> task[t].handle]
  <2>1. /\ task[t].pc = "entry" /\ Send(t, m) /\ task' = [task EXCEPT ![t] = x]
        /\ UNCHANGED << log, started, next, ours, overtaken >> /\ UNCHANGED receiver
    BY <1>11 DEF SendEntry
  <2>2. m \in Messages
    <3>1. m \in EntryMsgs
      BY <1>2, <2>1 DEF EntryMsgs
    <3> QED
      BY <3>1 DEF Messages
  <2>3. y \in TaskStates /\ y.entry = task[t].entry /\ y.handle = task[t].handle
    <3>1. Encoded[task[t].entry] \in Nat
      BY <1>2, <2>1, LiveDataAssumption
    <3>2. [task[t].pipe EXCEPT !.left = Encoded[task[t].entry]] \in Pipes
      BY <1>2, <3>1 DEF Pipes
    <3>3. y = [task[t] EXCEPT !.pc = "payload",
                              !.pipe = [task[t].pipe EXCEPT !.left = Encoded[task[t].entry]]]
      BY <1>2 DEF TaskStates
    <3> QED
      BY <1>2, <3>2, <3>3 DEF TaskStates
  <2> HIDE DEF y, m
  <2>4. /\ x \in TaskStates /\ x.handle <= Len(ours)
        /\ x.pc # "idle" => x.entry \in Entries /\ x.handle \in 1..Len(ours)
    BY <1>2, <1>3, <1>6, <2>1, <2>3
  <2> HIDE DEF x
  <2>5. SenderTypes'
    BY <1>1, <1>7, <2>1, <2>4, TaskMoves
  <2>6. ChannelTypes'
    BY <1>1, <2>1, <2>2, Sends
  <2> QED
    BY <1>4, <2>1, <2>5, <2>6 DEF Types
<1>12. ASSUME SendChunk(t) PROVE Types' /\ UNCHANGED receiver
  <2> DEFINE x == [task[t] EXCEPT !.pipe = [task[t].pipe EXCEPT !.chunk = 0]]
             m == [kind |-> "Payload", entry |-> task[t].entry, len |-> task[t].pipe.chunk]
  <2>1. /\ task[t].pc = "payload" /\ task[t].pipe.chunk > 0
        /\ Send(t, m) /\ task' = [task EXCEPT ![t] = x]
        /\ UNCHANGED << log, started, next, ours, overtaken >> /\ UNCHANGED receiver
    BY <1>12 DEF SendChunk
  <2>2. m \in Messages
    <3>1. task[t].pipe.chunk \in 1..ChunkSize
      BY <1>2, <2>1
    <3>2. m \in PayloadMsgs
      BY <1>2, <2>1, <3>1 DEF PayloadMsgs
    <3> QED
      BY <3>2 DEF Messages
  <2>3. x \in TaskStates /\ x.entry = task[t].entry /\ x.handle = task[t].handle
    <3>1. 0 \in 0..ChunkSize
      BY <1>2
    <3>2. [task[t].pipe EXCEPT !.chunk = 0] \in Pipes
      BY <1>2, <3>1 DEF Pipes
    <3> QED
      BY <1>2, <3>2 DEF TaskStates
  <2> HIDE DEF x, m
  <2>4. SenderTypes'
    BY <1>1, <1>2, <1>7, <2>1, <2>3, TaskMoves
  <2>5. ChannelTypes'
    BY <1>1, <2>1, <2>2, Sends
  <2> QED
    BY <1>4, <2>1, <2>4, <2>5 DEF Types
<1>13. ASSUME SendTerminate(t) PROVE Types' /\ UNCHANGED receiver
  <2> DEFINE m == [kind |-> "Terminate", entry |-> task[t].entry]
  <2>1. /\ task[t].pc = "terminate" /\ Send(t, m) /\ task' = [task EXCEPT ![t] = Idle]
        /\ UNCHANGED << log, started, next, ours, overtaken >> /\ UNCHANGED receiver
    BY <1>13 DEF SendTerminate
  <2>2. m \in Messages
    <3>1. m \in TerminateMsgs
      BY <1>2, <2>1 DEF TerminateMsgs
    <3> QED
      BY <3>1 DEF Messages
  <2> HIDE DEF m
  <2>3. SenderTypes'
    <3>1. Idle.handle <= Len(ours) /\ overtaken' \in BOOLEAN
      BY <1>2, <1>3, <1>7, <2>1
    <3> QED
      BY <1>1, <1>3, <2>1, <3>1, TaskMoves
  <2>4. ChannelTypes'
    BY <1>1, <2>1, <2>2, Sends
  <2> QED
    BY <1>4, <2>1, <2>3, <2>4 DEF Types
<1>14. ASSUME NEW q \in Pipes, task' = [task EXCEPT ![t] = [task[t] EXCEPT !.pipe = q]],
              UNCHANGED << log, started, next, ours, overtaken >>
       PROVE  SenderTypes'
  <2> DEFINE x == [task[t] EXCEPT !.pipe = q]
  <2>1. x \in TaskStates /\ x.pc = task[t].pc /\ x.entry = task[t].entry /\ x.handle = task[t].handle
    BY <1>2 DEF TaskStates
  <2>2. task' = [task EXCEPT ![t] = x]
    BY <1>14
  <2> HIDE DEF x
  <2> QED
    BY <1>1, <1>2, <1>7, <1>14, <2>1, <2>2, TaskMoves
<1>15. ASSUME PipeWrite(t) PROVE Types' /\ UNCHANGED receiver
  <2>1. /\ UNCHANGED << log, started, next, ours, overtaken >>
        /\ UNCHANGED chan /\ UNCHANGED receiver
    BY <1>15 DEF PipeWrite
  <2>2. PICK q \in Pipes : task' = [task EXCEPT ![t] = [task[t] EXCEPT !.pipe = q]]
    BY <1>1, <1>15, Writes
  <2> QED
    BY <1>4, <1>5, <1>14, <2>1, <2>2 DEF Types
<1>16. ASSUME PipeRead(t) PROVE Types' /\ UNCHANGED receiver
  <2>1. /\ UNCHANGED << log, started, next, ours, overtaken >>
        /\ UNCHANGED chan /\ UNCHANGED receiver /\ task[t].pc = "payload"
    BY <1>16 DEF PipeRead
  <2>2. CASE task' = [task EXCEPT ![t] = AfterPayload(t)]
    <3>1. AfterPayload(t).pc # "idle" =>
             AfterPayload(t).entry \in Entries /\ AfterPayload(t).handle \in 1..Len(ours)
      BY <1>2, <1>3, <1>6, <2>1
    <3>2. SenderTypes'
      BY <1>1, <1>3, <1>7, <2>1, <2>2, <3>1, TaskMoves
    <3> QED
      BY <1>4, <1>5, <2>1, <3>2 DEF Types
  <2>3. CASE \E q \in Pipes : task' = [task EXCEPT ![t] = [task[t] EXCEPT !.pipe = q]]
    BY <1>4, <1>5, <1>14, <2>1, <2>3 DEF Types
  <2> QED
    BY <1>1, <1>16, <2>2, <2>3, Reads
<1> QED
  BY <1>8, <1>9, <1>10, <1>11, <1>12, <1>13, <1>15, <1>16 DEF SendTask

(* A payload is being received, or was.                                    *)
LEMMA CurrentFields ==
    ASSUME ReceiverTypes, NEW t \in Tasks
    PROVE  /\ current[t] \in Payloads \cup {None} /\ recv[t] \in RecvStates
           /\ recv[t].pc \in {"recv", "poll", "parked"}
           /\ recv[t].pc # "recv" => recv[t].msg \in EntryMsgs
           /\ current[t] # None =>
                 /\ current[t] \in Payloads /\ current[t].entry \in Entries
                 /\ current[t].received \in Nat /\ current[t].writer \in BOOLEAN
                 /\ current[t].mixed \in BOOLEAN
<1>1. current[t] \in Payloads \cup {None} /\ recv[t] \in RecvStates
  BY DEF ReceiverTypes
<1>2. current[t] # None => current[t] \in Payloads
  BY <1>1
<1>3. recv[t].pc \in {"recv", "poll", "parked"}
  BY <1>1 DEF RecvStates
<1> QED
  BY <1>1, <1>2, <1>3 DEF ReceiverTypes, Payloads

(* A message of each kind.                                                 *)
LEMMA MessageFields ==
    ASSUME NEW m \in Messages
    PROVE  /\ m.entry \in Entries /\ m.entry # "none"
           /\ m.kind = "Entry" => m \in EntryMsgs /\ m.handle \in Nat
           /\ m.kind = "Payload" => m \in PayloadMsgs /\ m.len \in 1..ChunkSize
<1>1. CASE m \in EntryMsgs
  BY <1>1, LiveDataAssumption DEF EntryMsgs
<1>2. CASE m \in PayloadMsgs
  BY <1>2, LiveDataAssumption DEF PayloadMsgs
<1>3. CASE m \in TerminateMsgs
  BY <1>3, LiveDataAssumption DEF TerminateMsgs
<1> QED
  BY <1>1, <1>2, <1>3 DEF Messages

(* What the receiving tasks do keeps the types of the receiver.            *)
LEMMA ReceiverKeepsTypes ==
    ASSUME Types, NEW t \in Tasks, RecvTask(t)
    PROVE  Types' /\ UNCHANGED << sender, theirs >>
<1>1. SenderTypes /\ ChannelTypes /\ ReceiverTypes /\ t \in Channels
  BY DEF Types, Channels
<1>2. /\ current[t] \in Payloads \cup {None} /\ recv[t] \in RecvStates
      /\ recv[t].pc \in {"recv", "poll", "parked"}
      /\ recv[t].pc # "recv" => recv[t].msg \in EntryMsgs
      /\ current[t] # None =>
            /\ current[t] \in Payloads /\ current[t].entry \in Entries
            /\ current[t].received \in Nat /\ current[t].writer \in BOOLEAN
            /\ current[t].mixed \in BOOLEAN
  BY <1>1, CurrentFields
<1>3. UNCHANGED sender => SenderTypes'
  BY <1>1 DEF SenderTypes, sender
<1>4. UNCHANGED chan => ChannelTypes'
  BY <1>1 DEF ChannelTypes
<1>5. ASSUME Fail, UNCHANGED theirs PROVE ReceiverTypes'
  BY <1>1, <1>5 DEF Fail, ReceiverTypes
<1>6. ASSUME NEW kind, Take(t, kind)
      PROVE  /\ ChannelTypes' /\ SenderTypes' /\ UNCHANGED << sender, theirs >>
             /\ Head(chan[t]) \in Messages /\ Head(chan[t]).kind = kind
  <2>1. /\ chan[t] # << >> /\ Head(chan[t]).kind = kind /\ chan' = [chan EXCEPT ![t] = Tail(@)]
        /\ UNCHANGED sender /\ UNCHANGED theirs
    BY <1>6 DEF Take
  <2> QED
    BY <1>1, <1>3, <2>1, Takes
<1>7. ASSUME NEW p \in Payloads, Finalize(t, p), UNCHANGED << theirs, recv, ingested >>
      PROVE  ReceiverTypes'
  <2>1. /\ current' = [current EXCEPT ![t] = None]
        /\ payloads' = payloads \cup {[by |-> t, entry |-> p.entry, received |-> p.received,
                                       mixed |-> p.mixed]}
        /\ failed' \in BOOLEAN
    BY <1>7 DEF Finalize
  <2>2. [by |-> t, entry |-> p.entry, received |-> p.received, mixed |-> p.mixed]
            \in [by: Tasks, entry: Entries, received: Nat, mixed: BOOLEAN]
    BY DEF Payloads
  <2>3. current' \in [Tasks -> Payloads \cup {None}]
    BY <1>1, <2>1 DEF ReceiverTypes
  <2> QED
    BY <1>1, <1>7, <2>1, <2>2, <2>3 DEF ReceiverTypes
<1>8. ASSUME ReceiveEntry(t) PROVE Types' /\ UNCHANGED << sender, theirs >>
  <2>1. /\ ChannelTypes' /\ SenderTypes' /\ UNCHANGED << sender, theirs >>
        /\ Head(chan[t]) \in Messages /\ Head(chan[t]).kind = "Entry"
    BY <1>6, <1>8 DEF ReceiveEntry
  <2>2. CASE Fail
    BY <1>5, <2>1, <2>2 DEF Types
  <2>3. CASE /\ recv' = [recv EXCEPT ![t] = [pc |-> "poll", msg |-> Head(chan[t])]]
             /\ UNCHANGED << current, ingested, payloads, failed >>
    <3>1. Head(chan[t]) \in EntryMsgs
      BY <2>1, MessageFields
    <3>2. [pc |-> "poll", msg |-> Head(chan[t])] \in RecvStates
      BY <3>1 DEF RecvStates
    <3>3. /\ recv' \in [Tasks -> RecvStates]
          /\ \A u \in Tasks : recv'[u].pc # "recv" => recv'[u].msg \in EntryMsgs
      BY <1>1, <2>3, <3>1, <3>2 DEF ReceiverTypes
    <3> QED
      BY <1>1, <2>1, <2>3, <3>3 DEF Types, ReceiverTypes
  <2> QED
    BY <1>8, <2>2, <2>3 DEF ReceiveEntry
<1>9. ASSUME PollToken(t) PROVE Types' /\ UNCHANGED << sender, theirs >>
  <2> DEFINE e   == recv[t].msg.entry
             set == current[t] = None
  <2>1. /\ recv[t].pc = "poll" /\ UNCHANGED sender /\ UNCHANGED chan /\ UNCHANGED theirs
    BY <1>9 DEF PollToken
  <2>2. e \in Entries
    BY <1>2, <2>1 DEF EntryMsgs
  <2>3. CASE Fail
    BY <1>3, <1>4, <1>5, <2>1, <2>3 DEF Types
  <2>4. CASE /\ recv' = [recv EXCEPT ![t].pc = "parked"]
             /\ UNCHANGED << current, ingested, payloads, failed >>
    <3>1. /\ [recv[t] EXCEPT !.pc = "parked"] \in RecvStates
          /\ [recv[t] EXCEPT !.pc = "parked"].msg = recv[t].msg
      BY <1>2 DEF RecvStates
    <3>2. /\ recv' \in [Tasks -> RecvStates]
          /\ \A u \in Tasks : recv'[u].pc # "recv" => recv'[u].msg \in EntryMsgs
      BY <1>1, <1>2, <2>1, <2>4, <3>1 DEF ReceiverTypes
    <3> QED
      BY <1>1, <1>3, <1>4, <2>1, <2>4, <3>2 DEF Types, ReceiverTypes
  <2>5. CASE /\ recv' = [recv EXCEPT ![t] = [pc |-> "recv", msg |-> None]]
             /\ failed' = ~ set
             /\ ingested' = IF set \/ t = "data" THEN ingested \cup {<< t, e >>} ELSE ingested
             /\ current' = IF set THEN [current EXCEPT ![t] = [entry |-> e, received |-> 0,
                                                  writer |-> FALSE, mixed |-> FALSE]]
                           ELSE current
             /\ UNCHANGED payloads
    <3>1. [pc |-> "recv", msg |-> None] \in RecvStates
      BY DEF RecvStates
    <3>2. /\ recv' \in [Tasks -> RecvStates]
          /\ \A u \in Tasks : recv'[u].pc # "recv" => recv'[u].msg \in EntryMsgs
      BY <1>1, <2>5, <3>1 DEF ReceiverTypes
    <3>3. [entry |-> e, received |-> 0, writer |-> FALSE, mixed |-> FALSE] \in Payloads
      BY <2>2 DEF Payloads
    <3> HIDE DEF e
    <3>4. current' \in [Tasks -> Payloads \cup {None}]
      BY <1>1, <2>5, <3>3 DEF ReceiverTypes
    <3>5. ingested' \subseteq Tasks \X Entries /\ failed' \in BOOLEAN
      BY <1>1, <2>2, <2>5 DEF ReceiverTypes
    <3> QED
      BY <1>1, <1>3, <1>4, <2>1, <2>5, <3>2, <3>4, <3>5 DEF Types, ReceiverTypes
  <2> QED
    BY <1>9, <2>3, <2>4, <2>5 DEF PollToken
<1>10. ASSUME ReceivePayload(t) PROVE Types' /\ UNCHANGED << sender, theirs >>
  <2> DEFINE msg == Head(chan[t])
             p == [current[t] EXCEPT !.received = @ + msg.len, !.writer = TRUE,
                                     !.mixed = @ \/ msg.entry # current[t].entry]
  <2>1. /\ ChannelTypes' /\ SenderTypes' /\ UNCHANGED << sender, theirs >>
        /\ msg \in Messages /\ msg.kind = "Payload"
    BY <1>6, <1>10 DEF ReceivePayload
  <2>2. CASE Fail
    BY <1>5, <2>1, <2>2 DEF Types
  <2>3. CASE /\ current[t] # None
             /\ \/ Finalize(t, p)
                \/ current' = [current EXCEPT ![t] = p] /\ UNCHANGED << payloads, failed >>
             /\ UNCHANGED << recv, ingested >>
    <3>1. msg.len \in Nat
      BY <2>1, MessageFields, LiveDataAssumption
    <3> HIDE DEF msg
    <3>2. p \in Payloads
      <4> DEFINE more == current[t].received + msg.len
                 mix  == current[t].mixed \/ msg.entry # current[t].entry
      <4>1. more \in Nat
        BY <1>2, <2>3, <3>1
      <4>2. mix \in BOOLEAN
        OBVIOUS
      <4>3. p = [current[t] EXCEPT !.received = more, !.writer = TRUE, !.mixed = mix]
        OBVIOUS
      <4> HIDE DEF more, mix, p
      <4> QED
        BY <1>2, <2>3, <4>1, <4>2, <4>3 DEF Payloads
    <3> HIDE DEF p
    <3>3. CASE Finalize(t, p)
      BY <1>7, <2>1, <2>3, <3>2, <3>3 DEF Types
    <3>4. CASE current' = [current EXCEPT ![t] = p] /\ UNCHANGED << payloads, failed >>
      <4>1. current' \in [Tasks -> Payloads \cup {None}]
        BY <1>1, <3>2, <3>4 DEF ReceiverTypes
      <4> QED
        BY <1>1, <2>1, <2>3, <3>4, <4>1 DEF Types, ReceiverTypes
    <3> QED
      BY <2>3, <3>3, <3>4
  <2> QED
    BY <1>10, <2>2, <2>3 DEF ReceivePayload
<1>11. ASSUME ReceiveTerminate(t) PROVE Types' /\ UNCHANGED << sender, theirs >>
  <2>1. /\ ChannelTypes' /\ SenderTypes' /\ UNCHANGED << sender, theirs >>
    BY <1>6, <1>11 DEF ReceiveTerminate
  <2>2. CASE Fail
    BY <1>5, <2>1, <2>2 DEF Types
  <2>3. CASE current[t] # None /\ Finalize(t, current[t]) /\ UNCHANGED << recv, ingested >>
    BY <1>2, <1>7, <2>1, <2>3 DEF Types
  <2> QED
    BY <1>11, <2>2, <2>3 DEF ReceiveTerminate
<1> QED
  BY <1>8, <1>9, <1>10, <1>11 DEF RecvTask

(* The application's writes and the loop for tokens.                       *)
LEMMA OthersKeepTypes ==
    ASSUME Types, BindTheirs \/ \E e \in Entries : Ingest(e)
    PROVE  Types'
<1>1. SenderTypes /\ ChannelTypes /\ ReceiverTypes
  BY DEF Types
<1>2. ASSUME NEW e \in Entries, Ingest(e) PROVE Types'
  <2>1. /\ Len(log) < MaxLog /\ log' = Append(log, e)
        /\ UNCHANGED << started, next, ours, task, overtaken >> /\ UNCHANGED chan
        /\ UNCHANGED receiver
    BY <1>2 DEF Ingest
  <2>2. log \in Seq(Entries) /\ Len(log) \in Nat
    BY <1>1 DEF SenderTypes
  <2>3. log' \in Seq(Entries) /\ Len(log') = Len(log) + 1 /\ Len(log') <= MaxLog
    BY <2>1, <2>2, LiveDataAssumption
  <2>4. \A t \in Tasks : next[t] \in Nat /\ started[t] \in Nat
    BY <1>1, LiveDataAssumption DEF SenderTypes, NotStarted
  <2>5. \A t \in Tasks : next[t] <= Len(log') /\ (started[t] # NotStarted => started[t] <= Len(log'))
    BY <1>1, <2>2, <2>3, <2>4 DEF SenderTypes
  <2>6. SenderTypes'
    BY <1>1, <2>1, <2>3, <2>5 DEF SenderTypes
  <2>7. ChannelTypes' /\ ReceiverTypes'
    BY <1>1, <2>1 DEF ChannelTypes, ReceiverTypes, receiver
  <2> QED
    BY <2>6, <2>7 DEF Types
<1>3. ASSUME BindTheirs PROVE Types'
  <2> DEFINE woken(t) == IF recv[t].pc = "parked" /\ recv[t].msg.handle = Len(theirs')
                         THEN [recv[t] EXCEPT !.pc = "poll"] ELSE recv[t]
  <2>1. /\ chan["tokens"] # << >> /\ theirs' = Append(theirs, Head(chan["tokens"]).token)
        /\ chan' = [chan EXCEPT !["tokens"] = Tail(@)]
        /\ recv' = [t \in Tasks |-> woken(t)]
        /\ UNCHANGED sender /\ UNCHANGED << current, ingested, payloads, failed >>
    BY <1>3 DEF BindTheirs
  <2>2. "tokens" \in Channels
    BY DEF Channels
  <2>3. ChannelTypes' /\ Head(chan["tokens"]) \in TokenMsgs
    BY <1>1, <2>1, <2>2, Takes
  <2>4. theirs' \in Seq(Tokens)
    BY <1>1, <2>1, <2>3 DEF ReceiverTypes, TokenMsgs
  <2>5. \A t \in Tasks : woken(t) \in RecvStates /\ (woken(t).pc # "recv" => woken(t).msg \in EntryMsgs)
    <3> TAKE t \in Tasks
    <3>1. recv[t] \in RecvStates /\ (recv[t].pc # "recv" => recv[t].msg \in EntryMsgs)
      BY <1>1, CurrentFields
    <3>2. /\ [recv[t] EXCEPT !.pc = "poll"] \in RecvStates
          /\ [recv[t] EXCEPT !.pc = "poll"].msg = recv[t].msg
      BY <3>1 DEF RecvStates
    <3> QED
      BY <3>1, <3>2
  <2>6. ReceiverTypes'
    BY <1>1, <2>1, <2>4, <2>5 DEF ReceiverTypes
  <2>7. SenderTypes'
    BY <1>1, <2>1 DEF SenderTypes, sender
  <2> QED
    BY <2>3, <2>6, <2>7 DEF Types
<1> QED
  BY <1>2, <1>3

(* Types holds in every state.                                             *)
THEOREM Typing == Spec => []Types
<1>1. Init => Types
  <2> SUFFICES ASSUME Init PROVE Types
    OBVIOUS
  <2>1. NotStarted \in 0..NotStarted /\ 0 \in 0..NotStarted /\ Cap \in Nat
    BY LiveDataAssumption DEF NotStarted
  <2>2. Idle \in TaskStates /\ Idle.pc = "idle" /\ Idle.handle = 0
    <3>1. 0 \in 0..ChunkSize /\ 0 \in Nat
      BY LiveDataAssumption
    <3>2. EmptyPipe \in Pipes
      BY <3>1 DEF EmptyPipe, Pipes
    <3> QED
      BY <3>2 DEF Idle, TaskStates
  <2>3. SenderTypes
    <3>1. /\ log = << >> /\ ours = << >> /\ overtaken = FALSE
          /\ started = [t \in Tasks |-> NotStarted] /\ next = [t \in Tasks |-> 0]
          /\ task = [t \in Tasks |-> Idle]
      BY DEF Init
    <3>2. /\ log \in Seq(Entries) /\ Len(log) = 0 /\ ours \in Seq(Tokens) /\ Len(ours) = 0
          /\ Len(log) <= MaxLog
      BY <3>1, LiveDataAssumption
    <3>3. \A t \in Tasks : task[t] = Idle /\ next[t] = 0 /\ started[t] = NotStarted
      BY <3>1
    <3>4. /\ started \in [Tasks -> 0..NotStarted] /\ next \in [Tasks -> 0..NotStarted]
          /\ task \in [Tasks -> TaskStates]
      BY <2>1, <2>2, <3>1
    <3>5. \A t \in Tasks : next[t] <= Len(log) /\ (started[t] # NotStarted => started[t] <= Len(log))
      BY <3>2, <3>3
    <3>6. \A t \in Tasks :
             /\ task[t].pc # "idle" => task[t].entry \in Entries /\ task[t].handle \in 1..Len(ours)
             /\ task[t].handle <= Len(ours)
      BY <2>2, <3>2, <3>3
    <3>7. overtaken \in BOOLEAN
      BY <3>1
    <3> QED
      BY <3>2, <3>4, <3>5, <3>6, <3>7 DEF SenderTypes
  <2>4. ChannelTypes
    BY <2>1 DEF Init, ChannelTypes, Channels
  <2>5. [pc |-> "recv", msg |-> None] \in RecvStates
    BY DEF RecvStates
  <2>6. ReceiverTypes
    <3>1. /\ theirs = << >> /\ recv = [t \in Tasks |-> [pc |-> "recv", msg |-> None]]
          /\ current = [t \in Tasks |-> None] /\ ingested = {} /\ payloads = {} /\ failed = FALSE
      BY DEF Init
    <3>2. /\ recv \in [Tasks -> RecvStates] /\ \A t \in Tasks : recv[t].pc = "recv"
          /\ theirs \in Seq(Tokens)
      BY <2>5, <3>1
    <3>3. current \in [Tasks -> Payloads \cup {None}]
      BY <3>1, Zenon
    <3> QED
      BY <3>1, <3>2, <3>3 DEF ReceiverTypes
  <2> QED
    BY <2>3, <2>4, <2>6 DEF Types
<1>2. Types /\ [Next]_vars => Types'
  <2> SUFFICES ASSUME Types, [Next]_vars PROVE Types'
    OBVIOUS
  <2>1. CASE StoreStep \/ UNCHANGED vars
    BY <2>1, StillStep DEF Types, SenderTypes, ChannelTypes, ReceiverTypes
  <2>2. CASE Next
    BY <2>1, <2>2, SenderKeepsTypes, ReceiverKeepsTypes, OthersKeepTypes DEF Next, StoreStep
  <2> QED
    BY <2>1, <2>2
<1> QED
  BY <1>1, <1>2, PTL DEF Spec

-----------------------------------------------------------------------------
(* Handles and tokens.                                                     *)

(* Handle h is that of the token of e in the sender's table.               *)
Bound(e, h) == h \in 1..Len(ours) /\ ours[h] = TokenOf[e]

HandleInv ==
    \A t \in Tasks :
       /\ task[t].pc \in {"bind", "entry"} => Bound(task[t].entry, task[t].handle)
       /\ \A i \in 1..Len(chan[t]) :
             chan[t][i].kind = "Entry" => Bound(chan[t][i].entry, chan[t][i].handle)
       /\ recv[t].pc # "recv" => Bound(recv[t].msg.entry, recv[t].msg.handle)
       /\ recv[t].pc = "parked" => recv[t].msg.handle > Len(theirs)

(* Bindings that have been sent.                                           *)
Announced == Len(theirs) + Len(chan["tokens"])

(* Unless a binding was overtaken, those sent are the first of the table,  *)
(* and each of the others is in the hands of one task.                     *)
TableInv ==
    ~ overtaken =>
       /\ Announced <= Len(ours)
       /\ \A i \in 1..Len(theirs) : theirs[i] = ours[i]
       /\ \A i \in 1..Len(chan["tokens"]) : chan["tokens"][i].token = ours[Len(theirs) + i]
       /\ \A t \in Tasks : task[t].pc = "bind" => task[t].handle > Announced
       /\ \A h \in (Announced + 1)..Len(ours) :
             \E t \in Tasks : task[t].pc = "bind" /\ task[t].handle = h
       /\ \A t, u \in Tasks : task[t].pc = "bind" /\ task[u].pc = "bind"
                                 /\ task[t].handle = task[u].handle => t = u

(* A step that sends nothing and binds nothing.                            *)
LEMMA QuietStep ==
    ASSUME HandleInv, TableInv, UNCHANGED << ours, chan, overtaken >>, UNCHANGED << theirs, recv >>,
           \A u \in Tasks : task[u].pc \in {"bind", "entry"} \/ task'[u].pc \in {"bind", "entry"}
                               => task'[u] = task[u]
    PROVE  HandleInv' /\ TableInv'
<1>1. HandleInv'
  BY DEF HandleInv, Bound
<1>2. \A u \in Tasks : (task'[u].pc = "bind" <=> task[u].pc = "bind")
                       /\ (task[u].pc = "bind" => task'[u].handle = task[u].handle)
  OBVIOUS
<1>3. Announced' = Announced
  BY DEF Announced
<1>4. TableInv'
  BY <1>2, <1>3 DEF TableInv
<1> QED
  BY <1>1, <1>4

(* A message goes out on the channel of a task.                            *)
LEMMA EntrySent ==
    ASSUME Types, HandleInv, TableInv, NEW t \in Tasks, NEW m \in Messages,
           m.kind = "Entry" => Bound(m.entry, m.handle),
           chan'[t] = Append(chan[t], m), \A d \in Channels : d # t => chan'[d] = chan[d],
           \A u \in Tasks : u # t => task'[u] = task[u],
           task[t].pc # "bind", task'[t].pc \notin {"bind", "entry"},
           UNCHANGED << ours, overtaken >>, UNCHANGED << theirs, recv >>
    PROVE  HandleInv' /\ TableInv'
<1>1. chan[t] \in Seq(Messages) /\ Len(chan[t]) \in Nat
  BY DEF Types, ChannelTypes
<1>2. /\ Len(chan'[t]) = Len(chan[t]) + 1 /\ chan'[t][Len(chan[t]) + 1] = m
      /\ \A i \in 1..Len(chan[t]) : chan'[t][i] = chan[t][i]
  BY <1>1
<1>3. "tokens" \in Channels /\ "tokens" \notin Tasks /\ Tasks \subseteq Channels
  BY DEF Channels, Tasks
<1>4. HandleInv'
  <2> SUFFICES ASSUME NEW u \in Tasks
               PROVE  (/\ task[u].pc \in {"bind", "entry"} => Bound(task[u].entry, task[u].handle)
                       /\ \A i \in 1..Len(chan[u]) :
                             chan[u][i].kind = "Entry" => Bound(chan[u][i].entry, chan[u][i].handle)
                       /\ recv[u].pc # "recv" => Bound(recv[u].msg.entry, recv[u].msg.handle)
                       /\ recv[u].pc = "parked" => recv[u].msg.handle > Len(theirs))'
    BY DEF HandleInv
  <2>1. /\ recv[u].pc # "recv" => Bound(recv[u].msg.entry, recv[u].msg.handle)'
        /\ recv[u].pc = "parked" => recv[u].msg.handle > Len(theirs)
    BY DEF HandleInv, Bound
  <2>2. task'[u].pc \in {"bind", "entry"} => Bound(task[u].entry, task[u].handle)'
    BY DEF HandleInv, Bound
  <2>3. ASSUME NEW i \in 1..Len(chan'[u]), chan'[u][i].kind = "Entry"
        PROVE  Bound(chan[u][i].entry, chan[u][i].handle)'
    <3>1. CASE u # t
      BY <1>3, <2>3, <3>1 DEF HandleInv, Bound
    <3>2. CASE u = t /\ i = Len(chan[t]) + 1
      BY <1>2, <2>3, <3>2 DEF Bound
    <3>3. CASE u = t /\ i \in 1..Len(chan[t])
      BY <1>2, <2>3, <3>3 DEF HandleInv, Bound
    <3> QED
      BY <1>1, <1>2, <3>1, <3>2, <3>3
  <2> QED
    BY <2>1, <2>2, <2>3
<1>5. /\ \A u \in Tasks : (task'[u].pc = "bind" <=> task[u].pc = "bind")
                          /\ (task[u].pc = "bind" => task'[u].handle = task[u].handle)
      /\ chan'["tokens"] = chan["tokens"]
  BY <1>3
<1>6. Announced' = Announced
  BY <1>5 DEF Announced
<1>7. TableInv'
  BY <1>5, <1>6 DEF TableInv
<1> QED
  BY <1>4, <1>7

(* What the sending tasks do.                                              *)
LEMMA SenderKeepsTables ==
    ASSUME Types, HandleInv, TableInv, NEW t \in Tasks,
           SendTask(t) \/ PipeWrite(t) \/ PipeRead(t)
    PROVE  HandleInv' /\ TableInv'
<1>1. SenderTypes /\ ChannelTypes /\ ReceiverTypes /\ t \in Channels /\ UNCHANGED receiver /\ Types'
  BY SenderKeepsTypes DEF Types, Channels
<1>2. UNCHANGED << theirs, recv >>
  BY <1>1 DEF receiver
<1>3. /\ task[t] \in TaskStates /\ task[t].handle \in Nat
      /\ task[t].pc # "idle" => task[t].entry \in Entries /\ task[t].handle \in 1..Len(ours)
      /\ task[t].pipe.chunk \in 0..ChunkSize
      /\ Len(ours) \in Nat /\ ChunkSize \in Nat
  BY <1>1, TaskFields
<1>4. /\ Idle \in TaskStates /\ Idle.pc = "idle" /\ AfterPayload(t).pc \in {"idle", "terminate"}
      /\ AfterPayload(t) \in TaskStates
  BY <1>1, AfterFields DEF Tasks
<1>5. task \in [Tasks -> TaskStates] /\ ours \in Seq(Tokens) /\ chan["tokens"] \in Seq(TokenMsgs)
      /\ theirs \in Seq(Tokens)
  BY <1>1 DEF SenderTypes, ChannelTypes, ReceiverTypes
<1>6. ASSUME NEW x \in TaskStates, task' = [task EXCEPT ![t] = x]
      PROVE  task'[t] = x /\ \A u \in Tasks : u # t => task'[u] = task[u]
  BY <1>5, <1>6
<1>7. ASSUME Start(t) PROVE HandleInv' /\ TableInv'
  BY <1>2, <1>7, QuietStep DEF Start
<1>8. ASSUME PipeWrite(t) PROVE HandleInv' /\ TableInv'
  <2>1. task[t].pc = "payload" /\ UNCHANGED << ours, chan, overtaken >>
    BY <1>8 DEF PipeWrite
  <2>2. PICK q \in Pipes : task' = [task EXCEPT ![t] = [task[t] EXCEPT !.pipe = q]]
    BY <1>1, <1>8, Writes
  <2>3. task'[t].pc = "payload" /\ \A u \in Tasks : u # t => task'[u] = task[u]
    BY <1>3, <1>5, <2>1, <2>2 DEF TaskStates
  <2> QED
    BY <1>2, <2>1, <2>3, QuietStep
<1>9. ASSUME PipeRead(t) PROVE HandleInv' /\ TableInv'
  <2>1. task[t].pc = "payload" /\ UNCHANGED << ours, chan, overtaken >>
    BY <1>9 DEF PipeRead
  <2>2. \/ task' = [task EXCEPT ![t] = AfterPayload(t)]
        \/ \E q \in Pipes : task' = [task EXCEPT ![t] = [task[t] EXCEPT !.pipe = q]]
    BY <1>1, <1>9, Reads
  <2>3. CASE task' = [task EXCEPT ![t] = AfterPayload(t)]
    <3>1. task'[t].pc \in {"idle", "terminate"} /\ \A u \in Tasks : u # t => task'[u] = task[u]
      BY <1>4, <1>5, <2>3
    <3> QED
      BY <1>2, <2>1, <3>1, QuietStep
  <2>4. CASE \E q \in Pipes : task' = [task EXCEPT ![t] = [task[t] EXCEPT !.pipe = q]]
    <3>1. task'[t].pc = "payload" /\ \A u \in Tasks : u # t => task'[u] = task[u]
      BY <1>3, <1>5, <2>1, <2>4 DEF TaskStates
    <3> QED
      BY <1>2, <2>1, <3>1, QuietStep
  <2> QED
    BY <2>2, <2>3, <2>4
<1>10. ASSUME SendEntry(t) PROVE HandleInv' /\ TableInv'
  <2> DEFINE m == [kind |-> "Entry", entry |-> task[t].entry, handle |-> task[t].handle]
             y == [task[t] EXCEPT !.pc = "payload", !.pipe.left = Encoded[task[t].entry]]
             x == IF task[t].entry \in Unsent[t] THEN AfterPayload(t) ELSE y
  <2>1. /\ task[t].pc = "entry" /\ Send(t, m) /\ task' = [task EXCEPT ![t] = x]
        /\ UNCHANGED << ours, overtaken >>
    BY <1>10 DEF SendEntry
  <2>2. m \in Messages /\ m.entry = task[t].entry /\ m.handle = task[t].handle
    BY <1>3, <2>1 DEF EntryMsgs, Messages
  <2>3. y.pc = "payload"
    BY <1>3 DEF TaskStates
  <2> HIDE DEF m, y
  <2>4. x.pc \notin {"bind", "entry"}
    BY <1>4, <2>3
  <2> HIDE DEF x
  <2>5. task'[t] = x /\ \A u \in Tasks : u # t => task'[u] = task[u]
    BY <1>5, <2>1
  <2>6. Bound(m.entry, m.handle)
    BY <2>1, <2>2 DEF HandleInv
  <2>7. chan'[t] = Append(chan[t], m) /\ \A d \in Channels : d # t => chan'[d] = chan[d]
    BY <1>1, <2>1, <2>2, Sends
  <2> QED
    BY <1>2, <2>1, <2>2, <2>4, <2>5, <2>6, <2>7, EntrySent
<1>11. ASSUME SendChunk(t) PROVE HandleInv' /\ TableInv'
  <2> DEFINE x == [task[t] EXCEPT !.pipe = [task[t].pipe EXCEPT !.chunk = 0]]
             m == [kind |-> "Payload", entry |-> task[t].entry, len |-> task[t].pipe.chunk]
  <2>1. /\ task[t].pc = "payload" /\ task[t].pipe.chunk > 0
        /\ Send(t, m) /\ task' = [task EXCEPT ![t] = x] /\ UNCHANGED << ours, overtaken >>
    BY <1>11 DEF SendChunk
  <2>2. m \in Messages /\ m.kind = "Payload"
    <3>1. task[t].pipe.chunk \in 1..ChunkSize
      BY <1>3, <2>1
    <3> QED
      BY <1>3, <2>1, <3>1 DEF PayloadMsgs, Messages
  <2>3. x.pc = "payload"
    BY <1>3, <2>1 DEF TaskStates
  <2> HIDE DEF m, x
  <2>4. task'[t] = x /\ \A u \in Tasks : u # t => task'[u] = task[u]
    BY <1>5, <2>1
  <2>5. chan'[t] = Append(chan[t], m) /\ \A d \in Channels : d # t => chan'[d] = chan[d]
    BY <1>1, <2>1, <2>2, Sends
  <2> QED
    BY <1>2, <2>1, <2>2, <2>3, <2>4, <2>5, EntrySent
<1>12. ASSUME SendTerminate(t) PROVE HandleInv' /\ TableInv'
  <2> DEFINE m == [kind |-> "Terminate", entry |-> task[t].entry]
  <2>1. /\ task[t].pc = "terminate" /\ Send(t, m) /\ task' = [task EXCEPT ![t] = Idle]
        /\ UNCHANGED << ours, overtaken >>
    BY <1>12 DEF SendTerminate
  <2>2. m \in Messages /\ m.kind = "Terminate"
    BY <1>3, <2>1 DEF TerminateMsgs, Messages
  <2> HIDE DEF m
  <2>3. task'[t].pc = "idle" /\ \A u \in Tasks : u # t => task'[u] = task[u]
    BY <1>4, <1>5, <2>1
  <2>4. chan'[t] = Append(chan[t], m) /\ \A d \in Channels : d # t => chan'[d] = chan[d]
    BY <1>1, <2>1, <2>2, Sends
  <2> QED
    BY <1>2, <2>1, <2>2, <2>3, <2>4, EntrySent
<1>13. ASSUME NextEntry(t) PROVE HandleInv' /\ TableInv'
  <2> DEFINE e == Head(Waiting(t))
             b == bind_if_new(TokenOf[e])
             x == [pc |-> IF b[2] THEN "bind" ELSE "entry", entry |-> e,
                   handle |-> b[1], pipe |-> EmptyPipe]
  <2>1. /\ task[t].pc = "idle" /\ Waiting(t) # << >> /\ ours' = b[3]
        /\ task' = [task EXCEPT ![t] = x] /\ UNCHANGED << chan, overtaken >>
    BY <1>13 DEF NextEntry
  <2>2. e \in Entries
    BY <1>1, <2>1, TakesFromLog
  <2>3. TokenOf[e] \in Tokens
    BY <2>2, LiveDataAssumption
  <2>4. /\ b[1] \in 1..Len(b[3]) /\ b[3] \in Seq(Tokens) /\ b[3][b[1]] = TokenOf[e]
        /\ \/ b[2] = TRUE /\ b[3] = Append(ours, TokenOf[e]) /\ b[1] = Len(ours) + 1
           \/ b[2] = FALSE /\ b[3] = ours
    <3> HIDE DEF e
    <3> QED
      BY <1>5, <2>3, Binds
  <2>5. x.entry = e /\ x.handle = b[1] /\ x.pc = IF b[2] THEN "bind" ELSE "entry"
    OBVIOUS
  <2> HIDE DEF e, b, x
  <2>6. task'[t] = x /\ \A u \in Tasks : u # t => task'[u] = task[u]
    BY <1>5, <2>1
  <2>7. /\ Len(ours) <= Len(ours') /\ Len(ours') \in Nat /\ \A i \in 1..Len(ours) : ours'[i] = ours[i]
        /\ Len(ours') = Len(ours) \/ Len(ours') = Len(ours) + 1
    <3>1. CASE b[3] = ours
      BY <1>3, <2>1, <3>1
    <3>2. CASE b[3] = Append(ours, TokenOf[e])
      BY <1>3, <1>5, <2>1, <2>3, <3>2
    <3> QED
      BY <2>4, <3>1, <3>2
  <2>9. x.handle \in 1..Len(ours') /\ ours'[x.handle] = TokenOf[x.entry]
    BY <2>1, <2>4, <2>5
  <2>10. HandleInv'
    <3> SUFFICES ASSUME NEW u \in Tasks
                 PROVE  (/\ task[u].pc \in {"bind", "entry"} => Bound(task[u].entry, task[u].handle)
                         /\ \A i \in 1..Len(chan[u]) :
                               chan[u][i].kind = "Entry" => Bound(chan[u][i].entry, chan[u][i].handle)
                         /\ recv[u].pc # "recv" => Bound(recv[u].msg.entry, recv[u].msg.handle)
                         /\ recv[u].pc = "parked" => recv[u].msg.handle > Len(theirs))'
      BY DEF HandleInv
    <3>1. task'[u].pc \in {"bind", "entry"} => Bound(task[u].entry, task[u].handle)'
      <4>1. CASE u = t
        BY <2>6, <2>9, <4>1 DEF Bound
      <4>2. CASE u # t
        <5>1. task[u].pc \in {"bind", "entry"} => Bound(task[u].entry, task[u].handle)
          BY DEF HandleInv
        <5>2. task'[u] = task[u]
          BY <2>6, <4>2
        <5> QED
          BY <2>7, <1>3, <5>1, <5>2 DEF Bound
      <4> QED
        BY <4>1, <4>2
    <3>2. \A i \in 1..Len(chan[u]) :
             chan[u][i].kind = "Entry" => Bound(chan[u][i].entry, chan[u][i].handle)'
      BY <1>3, <2>1, <2>7 DEF HandleInv, Bound
    <3>3. recv[u].pc # "recv" => Bound(recv[u].msg.entry, recv[u].msg.handle)'
      BY <1>2, <1>3, <2>7 DEF HandleInv, Bound
    <3>4. recv[u].pc = "parked" => recv[u].msg.handle > Len(theirs)
      BY DEF HandleInv
    <3> QED
      BY <1>2, <2>1, <3>1, <3>2, <3>3, <3>4
  <2>11. TableInv'
    <3> SUFFICES ASSUME ~ overtaken
                 PROVE  (/\ Announced <= Len(ours)
                         /\ \A i \in 1..Len(theirs) : theirs[i] = ours[i]
                         /\ \A i \in 1..Len(chan["tokens"]) : chan["tokens"][i].token = ours[Len(theirs) + i]
                         /\ \A u \in Tasks : task[u].pc = "bind" => task[u].handle > Announced
                         /\ \A h \in (Announced + 1)..Len(ours) :
                               \E u \in Tasks : task[u].pc = "bind" /\ task[u].handle = h
                         /\ \A u, v \in Tasks : task[u].pc = "bind" /\ task[v].pc = "bind"
                                                   /\ task[u].handle = task[v].handle => u = v)'
      BY <2>1 DEF TableInv
    <3> DEFINE a == Announced
    <3>1. Announced' = a /\ a \in Nat /\ Len(theirs) \in Nat /\ Len(chan["tokens"]) \in Nat
          /\ a = Len(theirs) + Len(chan["tokens"])
      BY <1>2, <1>5, <2>1 DEF Announced
    <3> HIDE DEF a
    <3>2. /\ a <= Len(ours)
          /\ \A i \in 1..Len(theirs) : theirs[i] = ours[i]
          /\ \A i \in 1..Len(chan["tokens"]) : chan["tokens"][i].token = ours[Len(theirs) + i]
          /\ \A u \in Tasks : task[u].pc = "bind" => task[u].handle > a
          /\ \A h \in (a + 1)..Len(ours) : \E u \in Tasks : task[u].pc = "bind" /\ task[u].handle = h
          /\ \A u, v \in Tasks : task[u].pc = "bind" /\ task[v].pc = "bind"
                                    /\ task[u].handle = task[v].handle => u = v
      BY DEF TableInv, a
    <3>3. \A u \in Tasks : task[u].pc = "bind" => task[u].handle \in 1..Len(ours) /\ u # t
      <4>1. \A u \in Tasks : task[u].pc # "idle" => task[u].handle \in 1..Len(ours)
        BY <1>1 DEF SenderTypes
      <4> QED
        BY <2>1, <4>1
    <3>4. /\ a <= Len(ours')
          /\ \A i \in 1..Len(theirs) : theirs'[i] = ours'[i]
      BY <1>2, <1>3, <2>7, <3>1, <3>2
    <3>5. \A i \in 1..Len(chan["tokens"]) : chan'["tokens"][i].token = ours'[Len(theirs') + i]
      <4> TAKE i \in 1..Len(chan["tokens"])
      <4>1. Len(theirs) + i \in 1..Len(ours)
        BY <1>3, <3>1, <3>2
      <4> QED
        BY <1>2, <2>1, <2>7, <3>2, <4>1
    <3>6. CASE b[2] = FALSE /\ b[3] = ours
      <4>1. /\ ours' = ours
            /\ \A u \in Tasks : (task'[u].pc = "bind" <=> task[u].pc = "bind")
                                /\ (task[u].pc = "bind" => task'[u].handle = task[u].handle)
        BY <2>1, <2>5, <2>6, <3>6
      <4> QED
        BY <1>2, <2>1, <3>1, <3>2, <3>4, <3>5, <4>1
    <3>7. CASE b[2] = TRUE /\ b[3] = Append(ours, TokenOf[e]) /\ b[1] = Len(ours) + 1
      <4>1. Len(ours') = Len(ours) + 1 /\ x.pc = "bind" /\ x.handle = Len(ours) + 1
        BY <1>5, <2>1, <2>5, <3>7
      <4>2. \A u \in Tasks : task'[u].pc = "bind" => task'[u].handle > a
        BY <1>3, <2>6, <3>1, <3>2, <4>1
      <4>3. \A h \in (a + 1)..Len(ours') :
               \E u \in Tasks : task'[u].pc = "bind" /\ task'[u].handle = h
        <5> TAKE h \in (a + 1)..Len(ours')
        <5>1. CASE h = Len(ours) + 1
          BY <2>6, <4>1, <5>1
        <5>2. CASE h \in (a + 1)..Len(ours)
          BY <2>6, <3>2, <3>3, <5>2
        <5> QED
          BY <1>3, <3>1, <4>1, <5>1, <5>2
      <4>4. \A u, v \in Tasks : task'[u].pc = "bind" /\ task'[v].pc = "bind"
                                   /\ task'[u].handle = task'[v].handle => u = v
        <5>1. \A u \in Tasks : u # t /\ task[u].pc = "bind" => task[u].handle # Len(ours) + 1
          BY <1>3, <3>3
        <5> QED
          BY <2>6, <3>2, <4>1, <5>1
      <4> QED
        BY <1>2, <2>1, <3>1, <3>4, <3>5, <4>2, <4>3, <4>4
    <3> QED
      BY <2>4, <3>6, <3>7
  <2> QED
    BY <2>10, <2>11
<1>14. ASSUME SendBinding(t) PROVE HandleInv' /\ TableInv'
  <2> DEFINE x == [task[t] EXCEPT !.pc = "entry"]
             m == [token |-> ours[task[t].handle]]
  <2>1. /\ task[t].pc = "bind" /\ Send("tokens", m) /\ task' = [task EXCEPT ![t] = x]
        /\ overtaken' = (overtaken \/ \E u \in Tasks : task[u].pc = "bind" /\ task[u].handle < task[t].handle)
        /\ UNCHANGED ours
    BY <1>14 DEF SendBinding
  <2>2. /\ x \in TaskStates /\ x.entry = task[t].entry /\ x.handle = task[t].handle /\ x.pc = "entry"
        /\ m.token = ours[task[t].handle]
    BY <1>3 DEF TaskStates
  <2>3. m \in TokenMsgs
    <3>1. ours[task[t].handle] \in Tokens
      BY <1>3, <1>5, <2>1
    <3> QED
      BY <3>1 DEF TokenMsgs
  <2> HIDE DEF x, m
  <2>4. task'[t] = x /\ \A u \in Tasks : u # t => task'[u] = task[u]
    BY <1>5, <2>1
  <2>5. /\ chan'["tokens"] = Append(chan["tokens"], m)
        /\ \A d \in Channels : d # "tokens" => chan'[d] = chan[d]
        /\ "tokens" \in Channels /\ "tokens" \notin Tasks /\ Tasks \subseteq Channels
    BY <1>1, <2>1, <2>3, Sends DEF Channels, Tasks
  <2>6. \A u \in Tasks : chan'[u] = chan[u]
    BY <2>5
  <2>7. HandleInv'
    <3>1. \A u \in Tasks : /\ task'[u].pc \in {"bind", "entry"} => task[u].pc \in {"bind", "entry"}
                           /\ task'[u].entry = task[u].entry /\ task'[u].handle = task[u].handle
      BY <2>1, <2>2, <2>4
    <3> QED
      BY <1>2, <2>1, <2>6, <3>1 DEF HandleInv, Bound
  <2>8. TableInv'
    <3> SUFFICES ASSUME ~ overtaken, \A u \in Tasks : task[u].pc = "bind" => ~ (task[u].handle < task[t].handle)
                 PROVE  (/\ Announced <= Len(ours)
                         /\ \A i \in 1..Len(theirs) : theirs[i] = ours[i]
                         /\ \A i \in 1..Len(chan["tokens"]) : chan["tokens"][i].token = ours[Len(theirs) + i]
                         /\ \A u \in Tasks : task[u].pc = "bind" => task[u].handle > Announced
                         /\ \A h \in (Announced + 1)..Len(ours) :
                               \E u \in Tasks : task[u].pc = "bind" /\ task[u].handle = h
                         /\ \A u, v \in Tasks : task[u].pc = "bind" /\ task[v].pc = "bind"
                                                   /\ task[u].handle = task[v].handle => u = v)'
      BY <2>1 DEF TableInv
    <3> DEFINE a == Announced
               c == Len(chan["tokens"])
    <3>1. /\ a \in Nat /\ Len(theirs) \in Nat /\ c \in Nat /\ a = Len(theirs) + c
          /\ Len(chan'["tokens"]) = c + 1 /\ chan'["tokens"][c + 1] = m
          /\ \A i \in 1..c : chan'["tokens"][i] = chan["tokens"][i]
      BY <1>5, <2>5 DEF Announced
    <3>2. /\ a <= Len(ours)
          /\ \A i \in 1..Len(theirs) : theirs[i] = ours[i]
          /\ \A i \in 1..c : chan["tokens"][i].token = ours[Len(theirs) + i]
          /\ \A u \in Tasks : task[u].pc = "bind" => task[u].handle > a
          /\ \A h \in (a + 1)..Len(ours) : \E u \in Tasks : task[u].pc = "bind" /\ task[u].handle = h
          /\ \A u, v \in Tasks : task[u].pc = "bind" /\ task[v].pc = "bind"
                                    /\ task[u].handle = task[v].handle => u = v
      BY DEF TableInv
    <3> HIDE DEF a, c
    <3>3. Announced' = a + 1
      BY <1>2, <3>1 DEF Announced
    <3>4. \A u \in Tasks : task[u].pc = "bind" => task[u].handle \in 1..Len(ours)
      BY <1>1 DEF SenderTypes
    <3>5. task[t].handle = a + 1
      <4>1. task[t].handle \in Nat /\ task[t].handle > a /\ task[t].handle <= Len(ours)
        BY <1>3, <2>1, <3>2, <3>4
      <4>2. a + 1 \in (a + 1)..Len(ours)
        BY <1>3, <3>1, <4>1
      <4>3. PICK u \in Tasks : task[u].pc = "bind" /\ task[u].handle = a + 1
        BY <3>2, <4>2
      <4>4. ~ (a + 1 < task[t].handle)
        BY <4>3
      <4> QED
        BY <3>1, <4>1, <4>4
    <3>6. a + 1 <= Len(ours)
      BY <2>1, <3>4, <3>5
    <3>7. \A i \in 1..(c + 1) : chan'["tokens"][i].token = ours[Len(theirs) + i]
      <4> TAKE i \in 1..(c + 1)
      <4>1. CASE i = c + 1
        BY <2>2, <3>1, <3>5, <4>1
      <4>2. CASE i \in 1..c
        BY <3>1, <3>2, <4>2
      <4> QED
        BY <3>1, <4>1, <4>2
    <3>8. \A u \in Tasks : task'[u].pc = "bind" => u # t /\ task[u].pc = "bind" /\ task'[u] = task[u]
      BY <2>2, <2>4
    <3>9. \A u \in Tasks : task'[u].pc = "bind" => task'[u].handle > a + 1
      <4> SUFFICES ASSUME NEW u \in Tasks, task'[u].pc = "bind" PROVE task[u].handle > a + 1
        BY <3>8
      <4>1. u # t /\ task[u].pc = "bind"
        BY <3>8
      <4>2. task[u].handle # a + 1 /\ task[u].handle > a /\ task[u].handle \in 1..Len(ours)
        BY <2>1, <3>2, <3>4, <3>5, <4>1
      <4> QED
        BY <3>1, <4>2
    <3>10. \A h \in ((a + 1) + 1)..Len(ours) :
              \E u \in Tasks : task'[u].pc = "bind" /\ task'[u].handle = h
      <4> TAKE h \in ((a + 1) + 1)..Len(ours)
      <4>1. h \in (a + 1)..Len(ours) /\ h # a + 1
        BY <3>1
      <4>2. PICK u \in Tasks : task[u].pc = "bind" /\ task[u].handle = h
        BY <3>2, <4>1
      <4>3. u # t
        BY <3>5, <4>1, <4>2
      <4> QED
        BY <2>4, <4>2, <4>3
    <3> QED
      BY <1>2, <2>1, <3>1, <3>2, <3>3, <3>6, <3>7, <3>8, <3>9, <3>10
  <2> QED
    BY <2>7, <2>8
<1> QED
  BY <1>7, <1>8, <1>9, <1>10, <1>11, <1>12, <1>13, <1>14 DEF SendTask

(* What the receiving tasks do.                                            *)
LEMMA ReceiverKeepsTables ==
    ASSUME Types, HandleInv, TableInv, NEW t \in Tasks, RecvTask(t)
    PROVE  HandleInv' /\ TableInv'
<1>1. SenderTypes /\ ChannelTypes /\ ReceiverTypes /\ t \in Channels /\ UNCHANGED << sender, theirs >>
  BY ReceiverKeepsTypes DEF Types, Channels
<1>2. UNCHANGED << ours, task, overtaken >> /\ theirs' = theirs
  BY <1>1 DEF sender
<1>3. "tokens" \in Channels /\ "tokens" \notin Tasks /\ Tasks \subseteq Channels
  BY DEF Channels, Tasks
<1>4. recv \in [Tasks -> RecvStates] /\ recv[t] \in RecvStates
  BY <1>1 DEF ReceiverTypes
(* What matters: where the channel and the receiver are afterwards.        *)
<1>5. ASSUME \/ UNCHANGED chan
             \/ chan[t] # << >> /\ chan' = [chan EXCEPT ![t] = Tail(@)],
             \/ UNCHANGED recv
             \/ \E r \in RecvStates :
                   /\ recv' = [recv EXCEPT ![t] = r]
                   /\ r.pc # "recv" => Bound(r.msg.entry, r.msg.handle)
                   /\ r.pc = "parked" => r.msg.handle > Len(theirs)
      PROVE  HandleInv' /\ TableInv'
  <2>1. /\ \A d \in Channels : d # t => chan'[d] = chan[d]
        /\ \A i \in 1..Len(chan'[t]) : chan'[t][i].kind = "Entry" =>
              Bound(chan'[t][i].entry, chan'[t][i].handle)
    <3>1. CASE UNCHANGED chan
      BY <3>1 DEF HandleInv
    <3>2. CASE chan[t] # << >> /\ chan' = [chan EXCEPT ![t] = Tail(@)]
      <4>1. chan'[t] = Tail(chan[t]) /\ \A d \in Channels : d # t => chan'[d] = chan[d]
        BY <1>1, <3>2, Takes
      <4>2. chan[t] \in Seq(Messages)
        BY <1>1 DEF ChannelTypes
      <4>3. Len(chan[t]) \in Nat \ {0} /\ Len(chan'[t]) = Len(chan[t]) - 1
            /\ \A i \in 1..Len(chan'[t]) : chan'[t][i] = chan[t][i + 1] /\ i + 1 \in 1..Len(chan[t])
        <5> DEFINE s == chan[t]
        <5>1. s \in Seq(Messages) /\ s # << >> /\ chan'[t] = Tail(s)
          BY <3>2, <4>1, <4>2
        <5> HIDE DEF s
        <5>2. /\ Len(s) \in Nat \ {0} /\ Len(chan'[t]) = Len(s) - 1
              /\ \A i \in 1..(Len(s) - 1) : chan'[t][i] = s[i + 1] /\ i + 1 \in 1..Len(s)
          BY <5>1, TailFields
        <5> QED
          BY <5>2 DEF s
      <4>4. \A i \in 1..Len(chan[t]) : chan[t][i].kind = "Entry" =>
               Bound(chan[t][i].entry, chan[t][i].handle)
        BY DEF HandleInv
      <4> QED
        BY <4>1, <4>3, <4>4
    <3> QED
      BY <1>5, <3>1, <3>2
  <2>2. \A u \in Tasks : /\ recv'[u].pc # "recv" => Bound(recv'[u].msg.entry, recv'[u].msg.handle)
                         /\ recv'[u].pc = "parked" => recv'[u].msg.handle > Len(theirs)
    <3>1. CASE UNCHANGED recv
      BY <3>1 DEF HandleInv
    <3>2. ASSUME NEW r \in RecvStates, recv' = [recv EXCEPT ![t] = r],
                 r.pc # "recv" => Bound(r.msg.entry, r.msg.handle),
                 r.pc = "parked" => r.msg.handle > Len(theirs)
          PROVE  \A u \in Tasks : /\ recv'[u].pc # "recv" => Bound(recv'[u].msg.entry, recv'[u].msg.handle)
                                  /\ recv'[u].pc = "parked" => recv'[u].msg.handle > Len(theirs)
      <4>1. recv'[t] = r /\ \A u \in Tasks : u # t => recv'[u] = recv[u]
        BY <1>4, <3>2
      <4> QED
        BY <3>2, <4>1 DEF HandleInv
    <3> QED
      BY <1>5, <3>1, <3>2
  <2>3. \A u \in Tasks : \A i \in 1..Len(chan'[u]) : chan'[u][i].kind = "Entry" =>
           Bound(chan'[u][i].entry, chan'[u][i].handle)
    <3>1. \A u \in Tasks : u # t => chan'[u] = chan[u]
      BY <1>3, <2>1
    <3> QED
      BY <2>1, <3>1 DEF HandleInv
  <2>4. HandleInv'
    <3>1. \A u \in Tasks : task[u].pc \in {"bind", "entry"} => Bound(task[u].entry, task[u].handle)
      BY DEF HandleInv
    <3> QED
      BY <1>2, <2>2, <2>3, <3>1 DEF HandleInv, Bound
  <2>5. chan'["tokens"] = chan["tokens"]
    BY <1>3, <2>1
  <2>6. Announced' = Announced
    BY <1>2, <2>5 DEF Announced
  <2>7. TableInv'
    BY <1>2, <2>5, <2>6 DEF TableInv
  <2> QED
    BY <2>4, <2>7
<1>6. ASSUME NEW kind, Take(t, kind)
      PROVE  /\ chan[t] # << >> /\ chan' = [chan EXCEPT ![t] = Tail(@)]
             /\ Head(chan[t]) \in Messages /\ Head(chan[t]).kind = kind
             /\ kind = "Entry" => Bound(Head(chan[t]).entry, Head(chan[t]).handle)
  <2>1. chan[t] # << >> /\ chan' = [chan EXCEPT ![t] = Tail(@)] /\ Head(chan[t]).kind = kind
    BY <1>6 DEF Take
  <2>2. Head(chan[t]) \in Messages
    BY <1>1, <2>1, Takes
  <2>3. chan[t] \in Seq(Messages)
    BY <1>1 DEF ChannelTypes
  <2>4. Head(chan[t]) = chan[t][1] /\ 1 \in 1..Len(chan[t])
    BY <2>1, <2>3
  <2> QED
    BY <2>1, <2>2, <2>4 DEF HandleInv
<1>7. ASSUME ReceiveEntry(t) PROVE HandleInv' /\ TableInv'
  <2>1. /\ chan[t] # << >> /\ chan' = [chan EXCEPT ![t] = Tail(@)]
        /\ Head(chan[t]) \in Messages /\ Head(chan[t]).kind = "Entry"
        /\ Bound(Head(chan[t]).entry, Head(chan[t]).handle)
    BY <1>6, <1>7 DEF ReceiveEntry
  <2> DEFINE r == [pc |-> "poll", msg |-> Head(chan[t])]
  <2>2. recv' = recv \/ recv' = [recv EXCEPT ![t] = r]
    BY <1>7 DEF ReceiveEntry, Fail
  <2>3. Head(chan[t]) \in EntryMsgs
    BY <2>1, MessageFields
  <2>4. r \in RecvStates /\ r.pc = "poll" /\ r.msg = Head(chan[t])
    BY <2>3 DEF RecvStates
  <2> HIDE DEF r
  <2> QED
    BY <1>5, <2>1, <2>2, <2>4
<1>8. ASSUME PollToken(t) PROVE HandleInv' /\ TableInv'
  <2>1. UNCHANGED chan /\ recv[t].pc = "poll"
    BY <1>8 DEF PollToken
  <2> DEFINE r == [recv[t] EXCEPT !.pc = "parked"]
             s == [pc |-> "recv", msg |-> None]
  <2>2. \/ recv' = recv
        \/ recv' = [recv EXCEPT ![t] = r] /\ recv[t].msg.handle > Len(theirs)
        \/ recv' = [recv EXCEPT ![t] = s]
    BY <1>8 DEF PollToken, Fail
  <2>3. r \in RecvStates /\ r.msg = recv[t].msg /\ s \in RecvStates /\ s.pc = "recv"
    BY <1>4 DEF RecvStates
  <2> HIDE DEF r, s
  <2>4. Bound(recv[t].msg.entry, recv[t].msg.handle)
    BY <2>1 DEF HandleInv
  <2> QED
    BY <1>5, <2>1, <2>2, <2>3, <2>4
<1>9. ASSUME ReceivePayload(t) \/ ReceiveTerminate(t) PROVE HandleInv' /\ TableInv'
  <2>1. /\ chan[t] # << >> /\ chan' = [chan EXCEPT ![t] = Tail(@)]
    BY <1>6, <1>9 DEF ReceivePayload, ReceiveTerminate
  <2>2. UNCHANGED recv
    BY <1>9 DEF ReceivePayload, ReceiveTerminate, Fail
  <2> QED
    BY <1>5, <2>1, <2>2
<1> QED
  BY <1>7, <1>8, <1>9 DEF RecvTask

(* The loop for tokens.                                                    *)
LEMMA BindTheirsKeepsTables ==
    ASSUME Types, HandleInv, TableInv, BindTheirs
    PROVE  HandleInv' /\ TableInv'
<1> DEFINE woken(t) == IF recv[t].pc = "parked" /\ recv[t].msg.handle = Len(theirs')
                       THEN [recv[t] EXCEPT !.pc = "poll"] ELSE recv[t]
           m == Head(chan["tokens"])
           c == chan["tokens"]
<1>1. /\ SenderTypes /\ ChannelTypes /\ ReceiverTypes
      /\ c # << >> /\ theirs' = Append(theirs, m.token)
      /\ chan' = [chan EXCEPT !["tokens"] = Tail(@)] /\ recv' = [t \in Tasks |-> woken(t)]
      /\ UNCHANGED << ours, task, overtaken >>
  BY DEF BindTheirs, Types, sender
<1>2. "tokens" \in Channels /\ "tokens" \notin Tasks /\ Tasks \subseteq Channels
  BY DEF Channels, Tasks
<1>3. /\ chan'["tokens"] = Tail(c) /\ m \in TokenMsgs
      /\ \A t \in Tasks : chan'[t] = chan[t]
  BY <1>1, <1>2, Takes
<1>4. c \in Seq(TokenMsgs) /\ theirs \in Seq(Tokens) /\ m.token \in Tokens
  BY <1>1, <1>3 DEF ChannelTypes, ReceiverTypes, TokenMsgs
<1> DEFINE n == Len(theirs)
<1>5. /\ n \in Nat /\ Len(theirs') = n + 1 /\ theirs'[n + 1] = m.token
      /\ \A i \in 1..n : theirs'[i] = theirs[i]
  BY <1>1, <1>4
<1>6. /\ Len(c) \in Nat \ {0} /\ m = c[1] /\ Len(chan'["tokens"]) = Len(c) - 1
      /\ \A i \in 1..(Len(c) - 1) : chan'["tokens"][i] = c[i + 1]
  <2> HIDE DEF c
  <2> QED
    BY <1>1, <1>3, <1>4, TailFields DEF m, c
<1> HIDE DEF m, c, n
<1>7. HandleInv'
  <2> SUFFICES ASSUME NEW u \in Tasks
               PROVE  /\ recv'[u].pc # "recv" => Bound(recv'[u].msg.entry, recv'[u].msg.handle)
                      /\ recv'[u].pc = "parked" => recv'[u].msg.handle > Len(theirs')
    BY <1>1, <1>3 DEF HandleInv, Bound
  <2>1. /\ recv[u] \in RecvStates /\ recv[u].pc \in {"recv", "poll", "parked"}
        /\ recv[u].pc # "recv" => recv[u].msg.handle \in Nat
    <3>1. recv[u] \in RecvStates /\ recv[u].pc \in {"recv", "poll", "parked"}
          /\ (recv[u].pc # "recv" => recv[u].msg \in EntryMsgs)
      BY <1>1, CurrentFields
    <3> QED
      BY <3>1 DEF EntryMsgs
  <2>2. recv'[u] = woken(u)
    BY <1>1
  <2>3. /\ recv[u].pc # "recv" => Bound(recv[u].msg.entry, recv[u].msg.handle)
        /\ recv[u].pc = "parked" => recv[u].msg.handle > n
    BY DEF HandleInv, n
  <2>4. CASE recv[u].pc = "parked" /\ recv[u].msg.handle = Len(theirs')
    <3>1. recv'[u].pc = "poll" /\ recv'[u].msg = recv[u].msg
      BY <2>1, <2>2, <2>4 DEF RecvStates
    <3> QED
      BY <2>3, <2>4, <3>1
  <2>5. CASE ~ (recv[u].pc = "parked" /\ recv[u].msg.handle = Len(theirs'))
    BY <1>5, <2>1, <2>2, <2>3, <2>5
  <2> QED
    BY <2>4, <2>5
<1>8. TableInv'
  <2> SUFFICES ASSUME ~ overtaken PROVE TableInv'
    BY <1>1 DEF TableInv
  <2>1. /\ Announced' = Announced /\ Announced = n + Len(c) /\ Announced \in Nat
    <3>1. Announced' = Len(theirs') + Len(chan'["tokens"])
      BY DEF Announced
    <3>2. Announced = n + Len(c)
      BY DEF Announced, n, c
    <3> QED
      BY <1>5, <1>6, <3>1, <3>2
  <2>2. /\ Announced <= Len(ours)
        /\ \A i \in 1..n : theirs[i] = ours[i]
        /\ \A i \in 1..Len(c) : c[i].token = ours[n + i]
    BY DEF TableInv, n, c
  <2>3. theirs'[n + 1] = ours[n + 1]
    BY <1>5, <1>6, <2>2
  <2>4. \A i \in 1..(n + 1) : theirs'[i] = ours[i]
    <3>1. \A i \in 1..(n + 1) : i \in 1..n \/ i = n + 1
      BY <1>5
    <3> QED
      BY <1>5, <2>2, <2>3, <3>1
  <2>5. \A i \in 1..(Len(c) - 1) : chan'["tokens"][i].token = ours[(n + 1) + i]
    <3> TAKE i \in 1..(Len(c) - 1)
    <3>1. i + 1 \in 1..Len(c) /\ n + (i + 1) = (n + 1) + i
      BY <1>5, <1>6
    <3> QED
      BY <1>6, <2>2, <3>1
  <2> QED
    BY <1>1, <1>5, <1>6, <2>1, <2>2, <2>4, <2>5 DEF TableInv
<1> QED
  BY <1>7, <1>8

(* Handles mean the same on both sides although they are only counted      *)
(* (bind_and_send_ours and bind_theirs of static_tokens.rs).               *)
THEOREM TablesAgree == Spec => [](HandleInv /\ TableInv)
<1>1. Init => HandleInv /\ TableInv
  <2> SUFFICES ASSUME Init PROVE HandleInv /\ TableInv
    OBVIOUS
  <2>1. /\ \A t \in Tasks : task[t].pc = "idle" /\ recv[t].pc = "recv" /\ chan[t] = << >>
        /\ chan["tokens"] = << >> /\ theirs = << >> /\ ours = << >>
    BY DEF Init, Idle, Channels
  <2>2. /\ \A t \in Tasks : Len(chan[t]) = 0
        /\ Len(chan["tokens"]) = 0 /\ Len(theirs) = 0 /\ Len(ours) = 0
    BY <2>1
  <2>3. Announced = 0
    BY <2>2 DEF Announced
  <2>4. HandleInv
    BY <2>1, <2>2 DEF HandleInv
  <2>5. TableInv
    BY <2>1, <2>2, <2>3 DEF TableInv
  <2> QED
    BY <2>4, <2>5
<1>2. Types /\ HandleInv /\ TableInv /\ [Next]_vars => HandleInv' /\ TableInv'
  <2> SUFFICES ASSUME Types, HandleInv, TableInv, [Next]_vars PROVE HandleInv' /\ TableInv'
    OBVIOUS
  <2>1. CASE StoreStep \/ UNCHANGED vars
    BY <2>1, QuietStep, StillStep
  <2>2. ASSUME NEW e \in Entries, Ingest(e) PROVE HandleInv' /\ TableInv'
    BY <2>2, QuietStep DEF Ingest, receiver
  <2> QED
    BY <2>1, <2>2, SenderKeepsTables, ReceiverKeepsTables, BindTheirsKeepsTables DEF Next, StoreStep
<1> QED
  BY <1>1, <1>2, Typing, PTL DEF Spec

-----------------------------------------------------------------------------
(* Entries and payloads.                                                   *)

(* Where the sender is: between entries, or within a payload, part of      *)
(* which is still in the pipe.                                             *)
AtSender(t, s) ==
    LET p == task[t].pipe IN
    /\ task[t].pc \in {"idle", "bind", "entry"} => Finished(t, s)
    /\ task[t].pc \in {"bind", "entry"} => p = EmptyPipe
    /\ task[t].pc = "payload" =>
          /\ s.entry = task[t].entry /\ task[t].entry \notin Unsent[t]
          /\ s.sent + p.chunk + p.buf + p.left = Encoded[task[t].entry]
          /\ p.closed => p.left = 0
          /\ p.chunk > 0 => p.chunk = ChunkSize \/ (p.buf = 0 /\ p.left = 0)
    /\ task[t].pc = "terminate" =>
          t = "rec" /\ s.entry = task[t].entry /\ s.sent = Whole(t, task[t].entry)

(* Where the receiver is.  An entry that it has taken may find the payload *)
(* before it unfinished only on the data channel, and if it cannot be      *)
(* transferred there.                                                      *)
AtReceiver(t, s) ==
    /\ recv[t].pc = "recv" /\ current[t] = None => Finished(t, s)
    /\ recv[t].pc = "recv" /\ current[t] # None =>
          /\ s.entry = current[t].entry /\ s.sent = current[t].received
          /\ current[t].writer <=> current[t].received > 0
          /\ t = "data" /\ current[t].writer => current[t].received < Length[current[t].entry]
    /\ recv[t].pc # "recv" =>
          /\ s.entry = recv[t].msg.entry /\ s.sent = 0
          /\ current[t] # None => t = "data" /\ Untransferable(current[t].entry)

PathInv(t) ==
    \E from, to \in Places(t) :
        AtReceiver(t, from) /\ AtSender(t, to) /\ Path(t, chan[t], from, to)

(* A step that does not touch a task, its channel and its receiver.        *)
LEMMA PathStays ==
    ASSUME NEW t \in Tasks, PathInv(t), task'[t] = task[t], chan'[t] = chan[t],
           recv'[t] = recv[t], current'[t] = current[t]
    PROVE  PathInv(t)'
  BY DEF PathInv, AtSender, AtReceiver

(* Places on a path.                                                       *)
LEMMA PlaceFields ==
    ASSUME NEW t, NEW s \in Places(t)
    PROVE  /\ s.sent \in Nat
           /\ s.entry = "none" => s = Nothing /\ s.sent = 0
           /\ s.entry # "none" => s.entry \in Entries /\ s.sent <= Whole(t, s.entry)
                                  /\ OnChunk(t, s.entry, s.sent)
<1>1. CASE s = Nothing
  BY <1>1 DEF Nothing
<1>2. CASE /\ s \in [entry: Entries, sent: Nat]
           /\ s.sent <= Whole(t, s.entry) /\ OnChunk(t, s.entry, s.sent)
  BY <1>2, LiveDataAssumption
<1> QED
  BY <1>1, <1>2 DEF Places

(* The bytes of a payload are a number.                                    *)
LEMMA WholeFields ==
    ASSUME NEW t \in Tasks, NEW e \in Entries
    PROVE  /\ Whole(t, e) \in Nat /\ Encoded[e] \in Nat /\ Length[e] \in Nat
           /\ Length[e] <= Encoded[e]
           /\ e \in Unsent[t] => Whole(t, e) = 0
           /\ e \notin Unsent[t] => Whole(t, e) = Encoded[e]
  BY LiveDataAssumption DEF Whole

(* An entry is announced: nothing of its payload was sent.                 *)
LEMMA FirstPlace ==
    ASSUME NEW t \in Tasks, NEW e \in Entries
    PROVE  [entry |-> e, sent |-> 0] \in Places(t)
<1>1. 0 <= Whole(t, e)
  BY WholeFields
<1>2. OnChunk(t, e, 0)
  <2>1. 0 = 0 * ChunkSize /\ 0 \in Nat
    BY LiveDataAssumption
  <2> QED
    BY <2>1 DEF OnChunk
<1> QED
  BY <1>1, <1>2 DEF Places

(* A chunk more.                                                           *)
LEMMA NextPlace ==
    ASSUME NEW t \in Tasks, NEW s \in Places(t), s.entry # "none", NEW n \in Nat \ {0},
           s.sent + n <= Whole(t, s.entry),
           n = ChunkSize \/ s.sent + n = Whole(t, s.entry)
    PROVE  [entry |-> s.entry, sent |-> s.sent + n] \in Places(t)
<1>1. s.sent \in Nat /\ s.entry \in Entries /\ OnChunk(t, s.entry, s.sent)
  BY PlaceFields
<1>2. OnChunk(t, s.entry, s.sent + n)
  <2>1. CASE s.sent + n = Whole(t, s.entry)
    BY <2>1 DEF OnChunk
  <2>2. CASE n = ChunkSize
    <3>1. Whole(t, s.entry) \in Nat
      BY <1>1, WholeFields
    <3>2. PICK k \in Nat : s.sent = k * ChunkSize
      BY <1>1, <3>1 DEF OnChunk
    <3>3. s.sent + n = (k + 1) * ChunkSize /\ k + 1 \in Nat
      <4>1. ChunkSize \in Nat
        BY LiveDataAssumption
      <4> QED
        BY <2>2, <3>2, <4>1
    <3> QED
      BY <3>3 DEF OnChunk
  <2> QED
    BY <2>1, <2>2
<1> QED
  BY <1>1, <1>2 DEF Places

(* Full chunks that cover the payload but not the hashes on top of it: the *)
(* stream needs more chunks than the payload.                              *)
LEMMA MoreChunks ==
    ASSUME NEW e \in Entries, NEW k \in Nat, Length[e] <= k * ChunkSize, k * ChunkSize < Encoded[e]
    PROVE  Chunks(Length[e]) < Chunks(Encoded[e])
<1> DEFINE l == Length[e]
           c == ChunkSize
           n == Encoded[e]
<1>1. l \in Nat /\ n \in Nat /\ c \in Nat \ {0} /\ k * c \in Nat
  BY LiveDataAssumption
<1> HIDE DEF l, c, n
<1> DEFINE a == (l + c - 1) \div c
           b == (n + c - 1) \div c
<1>2. a \in Int /\ b \in Int /\ c * a <= l + c - 1 /\ n + c - 1 < c * b + c
  BY <1>1
<1> HIDE DEF a, b
<1>3. l <= k * c /\ k * c < n
  BY DEF l, c, n
<1>4. a <= k
  <2>1. c * a < c * (k + 1)
    BY <1>1, <1>2, <1>3
  <2>2. ASSUME a >= k + 1 PROVE c * a >= c * (k + 1)
    BY <1>1, <1>2, <2>2
  <2> QED
    BY <1>1, <1>2, <2>1, <2>2
<1>5. k < b
  <2>1. c * k < c * b
    BY <1>1, <1>2, <1>3
  <2>2. ASSUME k >= b PROVE c * k >= c * b
    BY <1>1, <1>2, <2>2
  <2> QED
    BY <1>1, <1>2, <2>1, <2>2
<1>6. a < b
  BY <1>2, <1>4, <1>5
<1> QED
  BY <1>6 DEF Chunks, a, b, l, n, c

(* The sender moves without sending on the channel.                        *)
LEMMA SenderStays ==
    ASSUME NEW t \in Tasks, PathInv(t), chan'[t] = chan[t],
           recv'[t] = recv[t], current'[t] = current[t],
           \A s \in Places(t) : AtSender(t, s) => AtSender(t, s)'
    PROVE  PathInv(t)'
<1>1. PICK from, to \in Places(t) :
        AtReceiver(t, from) /\ AtSender(t, to) /\ Path(t, chan[t], from, to)
  BY DEF PathInv
<1>2. AtSender(t, to)'
  BY <1>1
<1>3. AtReceiver(t, from)'
  BY <1>1 DEF AtReceiver
<1>4. Path(t, chan'[t], from, to)
  BY <1>1
<1> QED
  BY <1>1, <1>2, <1>3, <1>4 DEF PathInv

(* The sender sends a message that leads from where it is to where it is   *)
(* then.                                                                   *)
LEMMA SenderSends ==
    ASSUME Types, NEW t \in Tasks, PathInv(t), NEW m \in Messages, chan'[t] = Append(chan[t], m),
           recv'[t] = recv[t], current'[t] = current[t],
           \A s \in Places(t) : AtSender(t, s) =>
               \E r \in Places(t) : Leads(t, s, m, r) /\ AtSender(t, r)'
    PROVE  PathInv(t)'
<1>1. PICK from, to \in Places(t) :
        AtReceiver(t, from) /\ AtSender(t, to) /\ Path(t, chan[t], from, to)
  BY DEF PathInv
<1>2. PICK r \in Places(t) : Leads(t, to, m, r) /\ AtSender(t, r)'
  BY <1>1
<1>3. AtReceiver(t, from)'
  BY <1>1 DEF AtReceiver
<1>4. chan[t] \in Seq(Messages)
  BY DEF Types, ChannelTypes
<1>5. Path(t, Append(chan[t], m), from, r)
  BY <1>1, <1>2, <1>4, PathAppend
<1>6. Path(t, chan'[t], from, r)
  BY <1>5
<1> QED
  BY <1>1, <1>2, <1>3, <1>6 DEF PathInv

(* Each message that a task sends continues the path.                      *)
LEMMA SenderKeepsPath ==
    ASSUME Types, NEW t \in Tasks, PathInv(t), SendTask(t) \/ PipeWrite(t) \/ PipeRead(t)
    PROVE  PathInv(t)'
<1>1. SenderTypes /\ ChannelTypes /\ t \in Channels /\ UNCHANGED receiver
  BY SenderKeepsTypes DEF Types, Channels
<1>2. recv'[t] = recv[t] /\ current'[t] = current[t]
  BY <1>1 DEF receiver
<1>3. /\ task[t] \in TaskStates /\ task[t].pipe \in Pipes
      /\ task[t].pc \in {"idle", "bind", "entry", "payload", "terminate"}
      /\ task[t].pc # "idle" => task[t].entry \in Entries
      /\ task[t].pipe.left \in Nat /\ task[t].pipe.buf \in 0..ChunkSize
      /\ task[t].pipe.chunk \in 0..ChunkSize /\ task[t].pipe.closed \in BOOLEAN
      /\ ChunkSize \in Nat \ {0} /\ DOMAIN task = Tasks
  BY <1>1, TaskFields DEF SenderTypes
<1>4. /\ Idle.pc = "idle" /\ AfterPayload(t).pc \in {"idle", "terminate"}
      /\ t = "data" => AfterPayload(t) = Idle
      /\ t = "rec" => AfterPayload(t).pc = "terminate" /\ AfterPayload(t).entry = task[t].entry
  BY <1>1, AfterFields DEF Tasks
<1>5. t = "rec" \/ t = "data"
  BY DEF Tasks
<1>6. task[t].pc # "idle" =>
        /\ task[t].entry # "none"
        /\ Whole(t, task[t].entry) \in Nat /\ Encoded[task[t].entry] \in Nat
        /\ task[t].entry \in Unsent[t] => Whole(t, task[t].entry) = 0
        /\ task[t].entry \notin Unsent[t] => Whole(t, task[t].entry) = Encoded[task[t].entry]
  BY <1>3, WholeFields, LiveDataAssumption
<1>7. ASSUME NEW s \in Places(t), s.entry = task[t].entry, s.sent = Whole(t, task[t].entry),
             task'[t] = AfterPayload(t)
      PROVE  AtSender(t, s)'
  BY <1>4, <1>5, <1>7 DEF AtSender, Finished
<1>8. ASSUME Start(t) PROVE PathInv(t)'
  BY <1>2, <1>8, PathStays DEF Start
<1>9. ASSUME NextEntry(t) PROVE PathInv(t)'
  <2> DEFINE e == Head(Waiting(t))
             b == bind_if_new(TokenOf[e])
             x == [pc |-> IF b[2] THEN "bind" ELSE "entry", entry |-> e,
                   handle |-> b[1], pipe |-> EmptyPipe]
  <2>1. task[t].pc = "idle" /\ task' = [task EXCEPT ![t] = x] /\ UNCHANGED chan
    BY <1>9 DEF NextEntry
  <2> HIDE DEF e, b
  <2>2. task'[t].pc \in {"bind", "entry"} /\ task'[t].pipe = EmptyPipe
    BY <1>3, <2>1
  <2>3. \A s \in Places(t) : AtSender(t, s) => AtSender(t, s)'
    BY <2>1, <2>2 DEF AtSender
  <2> QED
    BY <1>2, <2>1, <2>3, SenderStays
<1>10. ASSUME SendBinding(t) PROVE PathInv(t)'
  <2>1. /\ task[t].pc = "bind" /\ task' = [task EXCEPT ![t] = [task[t] EXCEPT !.pc = "entry"]]
        /\ Send("tokens", [token |-> ours[task[t].handle]])
    BY <1>10 DEF SendBinding
  <2>2. chan'[t] = chan[t]
    BY <1>1, <2>1 DEF Send, Tasks, ChannelTypes, Channels
  <2>3. task'[t].pc = "entry" /\ task'[t].pipe = task[t].pipe
    BY <1>3, <2>1 DEF TaskStates
  <2>4. \A s \in Places(t) : AtSender(t, s) => AtSender(t, s)'
    BY <2>1, <2>3 DEF AtSender
  <2> QED
    BY <1>2, <2>2, <2>4, SenderStays
<1>11. ASSUME NEW m \in Messages, Send(t, m) PROVE chan'[t] = Append(chan[t], m)
  BY <1>1, <1>11, Sends
<1>12. ASSUME SendEntry(t) PROVE PathInv(t)'
  <2> DEFINE e == task[t].entry
             y == [task[t] EXCEPT !.pc = "payload", !.pipe.left = Encoded[e]]
             m == [kind |-> "Entry", entry |-> e, handle |-> task[t].handle]
  <2>1. /\ task[t].pc = "entry" /\ Send(t, m)
        /\ task' = [task EXCEPT ![t] = IF e \in Unsent[t] THEN AfterPayload(t) ELSE y]
    BY <1>12 DEF SendEntry
  <2>2. e \in Entries /\ m.kind = "Entry" /\ m.entry = e
    BY <1>3, <2>1
  <2>3. m \in Messages
    <3>1. m \in EntryMsgs
      BY <1>1, <2>2, TaskFields DEF EntryMsgs
    <3> QED
      BY <3>1 DEF Messages
  <2>4. PICK r \in Places(t) : r.entry = e /\ r.sent = 0
    <3> HIDE DEF e
    <3> QED
      BY <2>2, FirstPlace
  <2> DEFINE q == [task[t].pipe EXCEPT !.left = Encoded[e]]
  <2>5. y.pc = "payload" /\ y.entry = e /\ y.pipe = q
    BY <1>3 DEF TaskStates
  <2>6. /\ q.left = Encoded[e] /\ q.buf = task[t].pipe.buf /\ q.chunk = task[t].pipe.chunk
        /\ q.closed = task[t].pipe.closed
    BY <1>3 DEF Pipes
  <2>7. task'[t] = IF e \in Unsent[t] THEN AfterPayload(t) ELSE y
    BY <1>3, <2>1
  <2>8. e \in Unsent[t] => Whole(t, e) = 0
    BY <1>6, <2>1
  <2> HIDE DEF m, y, q
  <2>9. ASSUME NEW s \in Places(t), AtSender(t, s)
        PROVE  Leads(t, s, m, r) /\ AtSender(t, r)'
    <3>1. Finished(t, s) /\ task[t].pipe = EmptyPipe
      BY <2>1, <2>9 DEF AtSender
    <3>2. Leads(t, s, m, r)
      BY <2>2, <2>4, <3>1 DEF Leads
    <3>3. CASE e \in Unsent[t]
      <4>1. /\ task'[t] = AfterPayload(t) /\ r.entry = task[t].entry
            /\ r.sent = Whole(t, task[t].entry)
        BY <2>4, <2>7, <2>8, <3>3
      <4> QED
        BY <1>7, <3>2, <4>1
    <3>4. CASE e \notin Unsent[t]
      <4>1. task'[t] = y /\ q.buf = 0 /\ q.chunk = 0 /\ q.closed = FALSE
        BY <2>6, <2>7, <3>1, <3>4 DEF EmptyPipe
      <4>2. r.sent + q.chunk + q.buf + q.left = Encoded[e]
        BY <1>6, <2>1, <2>4, <2>6, <4>1
      <4>3. /\ task'[t].pc = "payload" /\ task'[t].pipe = q /\ task'[t].entry = e
            /\ ~ (q.chunk > 0) /\ ~ q.closed
        BY <2>5, <4>1
      <4> HIDE DEF e
      <4> QED
        BY <2>4, <3>2, <3>4, <4>2, <4>3 DEF AtSender
    <3> QED
      BY <3>2, <3>3, <3>4
  <2>10. chan'[t] = Append(chan[t], m)
    BY <1>11, <2>1, <2>3
  <2> QED
    BY <1>2, <2>3, <2>4, <2>9, <2>10, SenderSends
<1>13. ASSUME SendChunk(t) PROVE PathInv(t)'
  <2> DEFINE e == task[t].entry
             p == task[t].pipe
             q == [p EXCEPT !.chunk = 0]
             m == [kind |-> "Payload", entry |-> e, len |-> p.chunk]
  <2>1. /\ task[t].pc = "payload" /\ p.chunk > 0 /\ Send(t, m)
        /\ task' = [task EXCEPT ![t] = [task[t] EXCEPT !.pipe = q]]
    BY <1>13 DEF SendChunk
  <2>2. e \in Entries /\ p.chunk \in 1..ChunkSize /\ m.kind = "Payload" /\ m.entry = e /\ m.len = p.chunk
    BY <1>3, <2>1
  <2>3. m \in Messages
    <3>1. m \in PayloadMsgs
      BY <2>2 DEF PayloadMsgs
    <3> QED
      BY <3>1 DEF Messages
  <2>4. task'[t].pc = "payload" /\ task'[t].entry = e /\ task'[t].pipe = q
    BY <1>3, <2>1 DEF TaskStates
  <2>5. q.left = p.left /\ q.buf = p.buf /\ q.chunk = 0 /\ q.closed = p.closed
    BY <1>3 DEF Pipes
  <2>6. p.left \in Nat /\ p.buf \in Nat /\ p.chunk \in Nat \ {0} /\ Encoded[e] \in Nat
    BY <1>3, <1>6, <2>1
  <2> HIDE DEF m, p, q
  <2>7. ASSUME NEW s \in Places(t), AtSender(t, s)
        PROVE  \E r \in Places(t) : Leads(t, s, m, r) /\ AtSender(t, r)'
    <3>1. /\ s.entry = e /\ e \notin Unsent[t] /\ s.sent + p.chunk + p.buf + p.left = Encoded[e]
          /\ p.closed => p.left = 0
          /\ p.chunk = ChunkSize \/ (p.buf = 0 /\ p.left = 0)
      BY <2>1, <2>7 DEF AtSender, p
    <3>2. s.sent \in Nat /\ s.entry # "none" /\ Whole(t, s.entry) = Encoded[e]
      BY <1>6, <2>1, <3>1, PlaceFields
    <3>3. /\ s.sent + p.chunk <= Whole(t, s.entry)
          /\ p.chunk = ChunkSize \/ s.sent + p.chunk = Whole(t, s.entry)
      BY <2>6, <3>1, <3>2
    <3>4. [entry |-> s.entry, sent |-> s.sent + p.chunk] \in Places(t)
      BY <2>6, <3>2, <3>3, NextPlace
    <3>5. PICK r \in Places(t) : r.entry = e /\ r.sent = s.sent + p.chunk
      BY <3>1, <3>4
    <3>6. Leads(t, s, m, r)
      BY <2>2, <3>1, <3>5 DEF Leads
    <3>7. r.sent + q.chunk + q.buf + q.left = Encoded[e]
      BY <2>5, <2>6, <3>1, <3>2, <3>5
    <3>8. AtSender(t, r)'
      BY <2>4, <2>5, <3>1, <3>5, <3>7 DEF AtSender
    <3> QED
      BY <3>6, <3>8
  <2>8. chan'[t] = Append(chan[t], m)
    BY <1>11, <2>1, <2>3
  <2> QED
    BY <1>2, <2>3, <2>7, <2>8, SenderSends
<1>14. ASSUME SendTerminate(t) PROVE PathInv(t)'
  <2> DEFINE e == task[t].entry
             m == [kind |-> "Terminate", entry |-> e]
  <2>1. task[t].pc = "terminate" /\ Send(t, m) /\ task' = [task EXCEPT ![t] = Idle]
    BY <1>14 DEF SendTerminate
  <2>2. e \in Entries /\ m.kind = "Terminate" /\ m.entry = e
    BY <1>3, <2>1
  <2>3. m \in Messages
    <3>1. m \in TerminateMsgs
      BY <2>2 DEF TerminateMsgs
    <3> QED
      BY <3>1 DEF Messages
  <2> HIDE DEF m
  <2>4. task'[t].pc = "idle"
    BY <1>3, <1>4, <2>1
  <2>5. Nothing \in Places(t) /\ Nothing.entry = "none"
    BY DEF Nothing, Places
  <2>6. ASSUME NEW s \in Places(t), AtSender(t, s)
        PROVE  Leads(t, s, m, Nothing) /\ AtSender(t, Nothing)'
    <3>1. t = "rec" /\ s.entry = e /\ s.sent = Whole(t, e)
      BY <2>1, <2>6 DEF AtSender
    <3>2. Leads(t, s, m, Nothing)
      BY <2>2, <3>1 DEF Leads
    <3>3. AtSender(t, Nothing)'
      BY <2>4, <2>5 DEF AtSender, Finished, Nothing
    <3> QED
      BY <3>2, <3>3
  <2>7. chan'[t] = Append(chan[t], m)
    BY <1>11, <2>1, <2>3
  <2> QED
    BY <1>2, <2>3, <2>5, <2>6, <2>7, SenderSends
<1>15. ASSUME NEW q \in Pipes, task' = [task EXCEPT ![t] = [task[t] EXCEPT !.pipe = q]],
              task[t].pc = "payload"
       PROVE  /\ task'[t].pc = "payload" /\ task'[t].entry = task[t].entry /\ task'[t].pipe = q
              /\ q.left \in Nat /\ q.buf \in Nat /\ q.chunk \in Nat /\ q.closed \in BOOLEAN
  <2>1. task'[t].pc = "payload" /\ task'[t].entry = task[t].entry /\ task'[t].pipe = q
    BY <1>3, <1>15 DEF TaskStates
  <2>2. q.left \in Nat /\ q.buf \in 0..ChunkSize /\ q.chunk \in 0..ChunkSize /\ q.closed \in BOOLEAN
    BY DEF Pipes
  <2> QED
    BY <1>3, <2>1, <2>2
<1>16. ASSUME PipeWrite(t) PROVE PathInv(t)'
  <2> DEFINE p == task[t].pipe
  <2>1. task[t].pc = "payload" /\ UNCHANGED chan
    BY <1>16 DEF PipeWrite
  <2>2. PICK q \in Pipes :
              /\ task' = [task EXCEPT ![t] = [task[t] EXCEPT !.pipe = q]]
              /\ q.left + q.buf = p.left + p.buf /\ q.chunk = p.chunk
              /\ p.left = 0 => q.left = 0
              /\ q.closed => q.left = 0
    BY <1>1, <1>16, Writes
  <2>3. /\ task'[t].pc = "payload" /\ task'[t].entry = task[t].entry /\ task'[t].pipe = q
        /\ q.left \in Nat /\ q.buf \in Nat /\ q.chunk \in Nat
    BY <1>15, <2>1, <2>2
  <2>4. p.left \in Nat /\ p.buf \in Nat /\ p.chunk \in Nat
    BY <1>3
  <2> HIDE DEF p
  <2>5. ASSUME NEW s \in Places(t), AtSender(t, s) PROVE AtSender(t, s)'
    <3>1. /\ s.entry = task[t].entry /\ task[t].entry \notin Unsent[t]
          /\ s.sent + p.chunk + p.buf + p.left = Encoded[task[t].entry]
          /\ p.chunk > 0 => p.chunk = ChunkSize \/ (p.buf = 0 /\ p.left = 0)
      BY <2>1, <2>5 DEF AtSender, p
    <3>2. s.sent \in Nat
      BY PlaceFields
    <3>3. /\ s.sent + q.chunk + q.buf + q.left = Encoded[task[t].entry]
          /\ q.chunk > 0 => q.chunk = ChunkSize \/ (q.buf = 0 /\ q.left = 0)
      BY <2>2, <2>3, <2>4, <3>1, <3>2
    <3> QED
      BY <2>2, <2>3, <3>1, <3>3 DEF AtSender
  <2> QED
    BY <1>2, <2>1, <2>5, SenderStays
<1>17. ASSUME PipeRead(t) PROVE PathInv(t)'
  <2> DEFINE p == task[t].pipe
  <2>1. task[t].pc = "payload" /\ UNCHANGED chan
    BY <1>17 DEF PipeRead
  <2>2. p.left \in Nat /\ p.buf \in Nat /\ p.chunk \in Nat
    BY <1>3
  <2>3. CASE /\ task' = [task EXCEPT ![t] = AfterPayload(t)]
             /\ p.buf = 0 /\ p.closed /\ p.chunk = 0
    <3>1. task'[t] = AfterPayload(t)
      BY <1>3, <2>3
    <3> HIDE DEF p
    <3>2. ASSUME NEW s \in Places(t), AtSender(t, s) PROVE AtSender(t, s)'
      <4>1. /\ s.entry = task[t].entry /\ task[t].entry \notin Unsent[t]
            /\ s.sent + p.chunk + p.buf + p.left = Encoded[task[t].entry] /\ p.left = 0
        BY <2>1, <2>3, <3>2 DEF AtSender, p
      <4>2. s.sent \in Nat
        BY PlaceFields
      <4>3. s.sent = Whole(t, task[t].entry)
        BY <1>6, <2>1, <2>2, <2>3, <4>1, <4>2
      <4> QED
        BY <1>7, <3>1, <4>1, <4>3
    <3> QED
      BY <1>2, <2>1, <3>2, SenderStays
  <2>4. ASSUME NEW q \in Pipes,
               task' = [task EXCEPT ![t] = [task[t] EXCEPT !.pipe = q]],
               p.chunk = 0, q.left = p.left, q.closed = p.closed, q.buf + q.chunk = p.buf,
               q.chunk > 0 => q.chunk = ChunkSize \/ (p.closed /\ q.buf = 0)
        PROVE  PathInv(t)'
    <3>1. /\ task'[t].pc = "payload" /\ task'[t].entry = task[t].entry /\ task'[t].pipe = q
          /\ q.left \in Nat /\ q.buf \in Nat /\ q.chunk \in Nat
      BY <1>15, <2>1, <2>4
    <3> HIDE DEF p
    <3>2. ASSUME NEW s \in Places(t), AtSender(t, s) PROVE AtSender(t, s)'
      <4>1. /\ s.entry = task[t].entry /\ task[t].entry \notin Unsent[t]
            /\ s.sent + p.chunk + p.buf + p.left = Encoded[task[t].entry]
            /\ p.closed => p.left = 0
        BY <2>1, <3>2 DEF AtSender, p
      <4>2. s.sent \in Nat
        BY PlaceFields
      <4>3. s.sent + q.chunk + q.buf + q.left = Encoded[task[t].entry]
        BY <2>2, <2>4, <3>1, <4>1, <4>2
      <4>4. /\ q.closed => q.left = 0
            /\ q.chunk > 0 => q.chunk = ChunkSize \/ (q.buf = 0 /\ q.left = 0)
        BY <2>4, <4>1
      <4> QED
        BY <3>1, <4>1, <4>3, <4>4 DEF AtSender
    <3> QED
      BY <1>2, <2>1, <3>2, SenderStays
  <2> QED
    BY <1>1, <1>17, <2>3, <2>4, Reads
<1> QED
  BY <1>8, <1>9, <1>10, <1>12, <1>13, <1>14, <1>16, <1>17 DEF SendTask

(* A step of a sending task: it may send one message, about the entry it   *)
(* is at, and only NextEntry takes it to another.                          *)
LEMMA SenderStep ==
    ASSUME Types, NEW t \in Tasks, SendTask(t) \/ PipeWrite(t) \/ PipeRead(t)
    PROVE  /\ \A u \in Tasks : u # t => task'[u] = task[u] /\ chan'[u] = chan[u]
           /\ \/ chan'[t] = chan[t]
              \/ /\ task[t].pc # "idle"
                 /\ \E m \in Messages : chan'[t] = Append(chan[t], m) /\ m.entry = task[t].entry
           /\ \/ task'[t].pc = "idle"
              \/ task[t].pc # "idle" /\ task'[t].entry = task[t].entry
              \/ NextEntry(t) /\ task'[t].entry = Head(Waiting(t))
<1>1. SenderTypes /\ ChannelTypes /\ t \in Channels /\ Tasks \subseteq Channels
  BY DEF Types, Channels
<1>2. /\ task[t] \in TaskStates /\ task[t].pipe \in Pipes /\ task[t].handle \in Nat
      /\ task[t].pc # "idle" => task[t].entry \in Entries
      /\ task[t].pipe.chunk \in 0..ChunkSize /\ ChunkSize \in Nat \ {0} /\ DOMAIN task = Tasks
  BY <1>1, TaskFields DEF SenderTypes
<1>3. /\ Idle.pc = "idle"
      /\ AfterPayload(t).pc # "idle" => AfterPayload(t).entry = task[t].entry
  BY <1>1, AfterFields DEF Tasks
<1>4. ASSUME NEW x, task' = [task EXCEPT ![t] = x]
      PROVE  task'[t] = x /\ \A u \in Tasks : u # t => task'[u] = task[u]
  BY <1>2, <1>4
<1>5. ASSUME NEW m \in Messages, Send(t, m)
      PROVE  chan'[t] = Append(chan[t], m) /\ \A u \in Tasks : u # t => chan'[u] = chan[u]
  BY <1>1, <1>5, Sends
<1> DEFINE Others == \A u \in Tasks : u # t => task'[u] = task[u] /\ chan'[u] = chan[u]
           Sent   == \/ chan'[t] = chan[t]
                     \/ /\ task[t].pc # "idle"
                        /\ \E m \in Messages : chan'[t] = Append(chan[t], m) /\ m.entry = task[t].entry
           Moved  == \/ task'[t].pc = "idle"
                     \/ task[t].pc # "idle" /\ task'[t].entry = task[t].entry
                     \/ NextEntry(t) /\ task'[t].entry = Head(Waiting(t))
<1>6. ASSUME Start(t) PROVE Others /\ Sent /\ Moved
  BY <1>2, <1>6 DEF Start
<1>7. ASSUME NextEntry(t) PROVE Others /\ Sent /\ Moved
  <2> DEFINE e == Head(Waiting(t))
             b == bind_if_new(TokenOf[e])
             x == [pc |-> IF b[2] THEN "bind" ELSE "entry", entry |-> e,
                   handle |-> b[1], pipe |-> EmptyPipe]
  <2>1. task' = [task EXCEPT ![t] = x] /\ UNCHANGED chan
    BY <1>7 DEF NextEntry
  <2>2. x.entry = e
    OBVIOUS
  <2> HIDE DEF x
  <2> QED
    BY <1>4, <1>7, <2>1, <2>2
<1>8. ASSUME SendBinding(t) PROVE Others /\ Sent /\ Moved
  <2> DEFINE x == [task[t] EXCEPT !.pc = "entry"]
  <2>1. /\ task[t].pc = "bind" /\ task' = [task EXCEPT ![t] = x]
        /\ Send("tokens", [token |-> ours[task[t].handle]])
    BY <1>8 DEF SendBinding
  <2>2. \A u \in Tasks : chan'[u] = chan[u]
    BY <1>1, <2>1 DEF Send, Tasks, ChannelTypes, Channels
  <2>3. x.entry = task[t].entry
    BY <1>2 DEF TaskStates
  <2> HIDE DEF x
  <2> QED
    BY <1>4, <2>1, <2>2, <2>3
<1>9. ASSUME SendEntry(t) PROVE Others /\ Sent /\ Moved
  <2> DEFINE y == [task[t] EXCEPT !.pc = "payload", !.pipe.left = Encoded[task[t].entry]]
             x == IF task[t].entry \in Unsent[t] THEN AfterPayload(t) ELSE y
             m == [kind |-> "Entry", entry |-> task[t].entry, handle |-> task[t].handle]
  <2>1. /\ task[t].pc = "entry" /\ Send(t, m) /\ task' = [task EXCEPT ![t] = x]
    BY <1>9 DEF SendEntry
  <2>2. m \in Messages /\ m.entry = task[t].entry
    BY <1>2, <2>1 DEF Messages, EntryMsgs
  <2>3. y.entry = task[t].entry
    BY <1>2 DEF TaskStates
  <2>4. x.pc = "idle" \/ x.entry = task[t].entry
    BY <1>3, <2>3
  <2> HIDE DEF x, m
  <2> QED
    BY <1>4, <1>5, <2>1, <2>2, <2>4
<1>10. ASSUME SendChunk(t) PROVE Others /\ Sent /\ Moved
  <2> DEFINE x == [task[t] EXCEPT !.pipe = [task[t].pipe EXCEPT !.chunk = 0]]
             m == [kind |-> "Payload", entry |-> task[t].entry, len |-> task[t].pipe.chunk]
  <2>1. /\ task[t].pc = "payload" /\ task[t].pipe.chunk > 0
        /\ Send(t, m) /\ task' = [task EXCEPT ![t] = x]
    BY <1>10 DEF SendChunk
  <2>2. task[t].pipe.chunk \in 1..ChunkSize
    BY <1>2, <2>1
  <2>3. m \in Messages /\ m.entry = task[t].entry
    BY <1>2, <2>1, <2>2 DEF Messages, PayloadMsgs
  <2>4. x.entry = task[t].entry
    BY <1>2 DEF TaskStates
  <2> HIDE DEF x, m
  <2> QED
    BY <1>4, <1>5, <2>1, <2>3, <2>4
<1>11. ASSUME SendTerminate(t) PROVE Others /\ Sent /\ Moved
  <2> DEFINE m == [kind |-> "Terminate", entry |-> task[t].entry]
  <2>1. /\ task[t].pc = "terminate" /\ Send(t, m) /\ task' = [task EXCEPT ![t] = Idle]
    BY <1>11 DEF SendTerminate
  <2>2. m \in Messages /\ m.entry = task[t].entry
    BY <1>2, <2>1 DEF Messages, TerminateMsgs
  <2> HIDE DEF m
  <2> QED
    BY <1>3, <1>4, <1>5, <2>1, <2>2
<1>12. ASSUME task[t].pc = "payload", UNCHANGED chan,
              \/ task' = [task EXCEPT ![t] = AfterPayload(t)]
              \/ \E q \in Pipes : task' = [task EXCEPT ![t] = [task[t] EXCEPT !.pipe = q]]
       PROVE  Others /\ Sent /\ Moved
  <2>1. CASE task' = [task EXCEPT ![t] = AfterPayload(t)]
    BY <1>3, <1>4, <1>12, <2>1
  <2>2. ASSUME NEW q \in Pipes, task' = [task EXCEPT ![t] = [task[t] EXCEPT !.pipe = q]]
        PROVE  Others /\ Sent /\ Moved
    <3>1. [task[t] EXCEPT !.pipe = q].entry = task[t].entry
      BY <1>2 DEF TaskStates
    <3> QED
      BY <1>4, <1>12, <2>2, <3>1
  <2> QED
    BY <1>12, <2>1, <2>2
<1>13. ASSUME PipeWrite(t) PROVE Others /\ Sent /\ Moved
  <2>1. task[t].pc = "payload" /\ UNCHANGED chan
    BY <1>13 DEF PipeWrite
  <2>2. \E q \in Pipes : task' = [task EXCEPT ![t] = [task[t] EXCEPT !.pipe = q]]
    BY <1>1, <1>13, Writes
  <2> HIDE DEF Others, Sent, Moved
  <2> QED
    BY <1>12, <2>1, <2>2
<1>14. ASSUME PipeRead(t) PROVE Others /\ Sent /\ Moved
  <2>1. task[t].pc = "payload" /\ UNCHANGED chan
    BY <1>14 DEF PipeRead
  <2>2. \/ task' = [task EXCEPT ![t] = AfterPayload(t)]
        \/ \E q \in Pipes : task' = [task EXCEPT ![t] = [task[t] EXCEPT !.pipe = q]]
    BY <1>1, <1>14, Reads
  <2> HIDE DEF Others, Sent, Moved
  <2> QED
    BY <1>12, <2>1, <2>2
<1>15. Others /\ Sent /\ Moved
  <2> HIDE DEF Others, Sent, Moved
  <2> QED
    BY <1>6, <1>7, <1>8, <1>9, <1>10, <1>11, <1>13, <1>14 DEF SendTask
<1> QED
  BY <1>15

(* A message is taken from the channel of a task.                          *)
LEMMA Taken ==
    ASSUME Types, NEW t \in Tasks, NEW kind, Take(t, kind)
    PROVE  /\ ~ failed /\ recv[t].pc = "recv" /\ chan[t] # << >> /\ chan[t] \in Seq(Messages)
           /\ Head(chan[t]) \in Messages /\ Head(chan[t]).kind = kind
           /\ chan'[t] = Tail(chan[t])
           /\ \A u \in Tasks : u # t => chan'[u] = chan[u]
<1>1. /\ ~ failed /\ recv[t].pc = "recv" /\ chan[t] # << >> /\ Head(chan[t]).kind = kind
      /\ chan' = [chan EXCEPT ![t] = Tail(@)]
  BY DEF Take
<1>2. ChannelTypes /\ t \in Channels /\ Tasks \subseteq Channels
  BY DEF Types, Channels
<1>3. chan[t] \in Seq(Messages)
  BY <1>2 DEF ChannelTypes
<1> QED
  BY <1>1, <1>2, <1>3, Takes

(* A step of a receiving task: it may take a message, it keeps an entry    *)
(* that it took from its channel, and the payload it expects is that of an *)
(* entry it kept.                                                          *)
LEMMA ReceiverStep ==
    ASSUME Types, NEW t \in Tasks, RecvTask(t)
    PROVE  /\ \A u \in Tasks : u # t => /\ recv'[u] = recv[u] /\ current'[u] = current[u]
                                        /\ chan'[u] = chan[u]
           /\ chan'[t] = chan[t] \/ (chan[t] # << >> /\ chan'[t] = Tail(chan[t]))
           /\ recv'[t].pc # "recv" =>
                 \/ recv[t].pc # "recv" /\ recv'[t].msg = recv[t].msg
                 \/ chan[t] # << >> /\ recv'[t].msg = Head(chan[t])
           /\ current'[t] # None =>
                 \/ current[t] # None /\ current'[t].entry = current[t].entry
                 \/ recv[t].pc # "recv" /\ current'[t].entry = recv[t].msg.entry
<1>1. ReceiverTypes
  BY DEF Types
<1>2. /\ current[t] \in Payloads \cup {None} /\ recv[t] \in RecvStates
      /\ current[t] # None => current[t] \in Payloads
  BY <1>1, CurrentFields
<1>3. DOMAIN recv = Tasks /\ DOMAIN current = Tasks
  BY <1>1 DEF ReceiverTypes
<1> DEFINE Others == \A u \in Tasks : u # t => /\ recv'[u] = recv[u] /\ current'[u] = current[u]
                                               /\ chan'[u] = chan[u]
           Read   == chan'[t] = chan[t] \/ (chan[t] # << >> /\ chan'[t] = Tail(chan[t]))
           Kept   == recv'[t].pc # "recv" =>
                        \/ recv[t].pc # "recv" /\ recv'[t].msg = recv[t].msg
                        \/ chan[t] # << >> /\ recv'[t].msg = Head(chan[t])
           Expects == current'[t] # None =>
                        \/ current[t] # None /\ current'[t].entry = current[t].entry
                        \/ recv[t].pc # "recv" /\ current'[t].entry = recv[t].msg.entry
<1>4. ASSUME ReceiveEntry(t) PROVE Others /\ Read /\ Kept /\ Expects
  <2>1. /\ chan[t] # << >> /\ chan'[t] = Tail(chan[t])
        /\ \A u \in Tasks : u # t => chan'[u] = chan[u]
    BY <1>4, Taken DEF ReceiveEntry
  <2> DEFINE r == [pc |-> "poll", msg |-> Head(chan[t])]
  <2>2. UNCHANGED current /\ (recv' = recv \/ recv' = [recv EXCEPT ![t] = r])
    BY <1>4 DEF ReceiveEntry, Fail
  <2>3. r.msg = Head(chan[t])
    OBVIOUS
  <2> HIDE DEF r
  <2> QED
    BY <1>3, <2>1, <2>2, <2>3
<1>5. ASSUME PollToken(t) PROVE Others /\ Read /\ Kept /\ Expects
  <2> DEFINE r == [recv[t] EXCEPT !.pc = "parked"]
             s == [pc |-> "recv", msg |-> None]
             p == [entry |-> recv[t].msg.entry, received |-> 0, writer |-> FALSE, mixed |-> FALSE]
  <2>1. UNCHANGED chan /\ recv[t].pc = "poll"
    BY <1>5 DEF PollToken
  <2>2. /\ recv' = recv \/ recv' = [recv EXCEPT ![t] = r] \/ recv' = [recv EXCEPT ![t] = s]
        /\ current' = current \/ current' = [current EXCEPT ![t] = p]
    BY <1>5 DEF PollToken, Fail
  <2>3. r.msg = recv[t].msg /\ s.pc = "recv" /\ p.entry = recv[t].msg.entry
    BY <1>2 DEF RecvStates
  <2> HIDE DEF r, s, p
  <2> QED
    BY <1>3, <2>1, <2>2, <2>3
<1>6. ASSUME ReceivePayload(t) \/ ReceiveTerminate(t) PROVE Others /\ Read /\ Kept /\ Expects
  <2>1. /\ chan[t] # << >> /\ chan'[t] = Tail(chan[t])
        /\ \A u \in Tasks : u # t => chan'[u] = chan[u]
    BY <1>6, Taken DEF ReceivePayload, ReceiveTerminate
  <2> DEFINE msg == Head(chan[t])
             p == [current[t] EXCEPT !.received = @ + msg.len, !.writer = TRUE,
                                     !.mixed = @ \/ msg.entry # current[t].entry]
  <2>2. /\ UNCHANGED recv
        /\ \/ current' = current
           \/ current' = [current EXCEPT ![t] = None]
           \/ current[t] # None /\ current' = [current EXCEPT ![t] = p]
    BY <1>6 DEF ReceivePayload, ReceiveTerminate, Fail, Finalize
  <2>3. current[t] # None => p.entry = current[t].entry
    BY <1>2 DEF Payloads
  <2> HIDE DEF p
  <2> QED
    BY <1>3, <2>1, <2>2, <2>3
<1>7. Others /\ Read /\ Kept /\ Expects
  <2> HIDE DEF Others, Read, Kept, Expects
  <2> QED
    BY <1>4, <1>5, <1>6 DEF RecvTask
<1> QED
  BY <1>7

-----------------------------------------------------------------------------
(* What goes over the data channel.                                        *)

(* e was ingested after the data sender subscribed.                        *)
LiveEntry(e) == \E i \in 1..Len(log) : started["data"] < i /\ log[i] = e

(* e is somewhere between the log and the receiver's payloads.             *)
UnderWay(e) ==
    \/ task["data"].pc # "idle" /\ task["data"].entry = e
    \/ \E i \in 1..Len(chan["data"]) : chan["data"][i].entry = e
    \/ recv["data"].pc # "recv" /\ recv["data"].msg.entry = e
    \/ current["data"] # None /\ current["data"].entry = e

LiveInv ==
    /\ started["data"] # NotStarted => started["data"] <= next["data"]
    /\ \A e : UnderWay(e) => LiveEntry(e)

(* What the data sender takes from the log is live.                        *)
LEMMA TakesLive ==
    ASSUME Types, LiveInv, NextEntry("data")
    PROVE  LiveEntry(Head(Waiting("data")))
<1>1. SenderTypes /\ "data" \in Tasks /\ Waiting("data") # << >>
  BY DEF Types, Tasks, NextEntry
<1>2. /\ started["data"] # NotStarted /\ next["data"] + 1 \in 1..Len(log)
      /\ Head(Waiting("data")) = log[next["data"] + 1]
  BY <1>1, TakesFromLog
<1>3. started["data"] \in Nat /\ next["data"] \in Nat
  BY <1>1, LiveDataAssumption DEF SenderTypes, NotStarted
<1>4. started["data"] < next["data"] + 1
  BY <1>2, <1>3 DEF LiveInv
<1> QED
  BY <1>2, <1>4 DEF LiveEntry

(* A live entry remains one: the log grows, and the data sender starts     *)
(* where it ends.                                                          *)
LEMMA LiveRemains ==
    ASSUME Types, NEW e, LiveEntry(e), [Next]_vars
    PROVE  LiveEntry(e)'
<1>1. /\ log \in Seq(Entries) /\ Len(log) \in Nat /\ Len(log) <= MaxLog /\ MaxLog \in Nat
      /\ started \in [Tasks -> 0..NotStarted] /\ "data" \in Tasks
  BY LiveDataAssumption DEF Types, SenderTypes, Tasks
<1>2. PICK i \in 1..Len(log) : started["data"] < i /\ log[i] = e
  BY DEF LiveEntry
<1>3. started["data"] # NotStarted
  BY <1>1, <1>2 DEF NotStarted
<1>4. CASE UNCHANGED << log, started >>
  BY <1>2, <1>4 DEF LiveEntry
<1>5. ASSUME NEW f \in Entries, Ingest(f) PROVE LiveEntry(e)'
  <2>1. log' = Append(log, f) /\ UNCHANGED started
    BY <1>5 DEF Ingest
  <2>2. i \in 1..Len(log') /\ log'[i] = e
    BY <1>1, <1>2, <2>1
  <2> QED
    BY <1>2, <2>1, <2>2 DEF LiveEntry
<1>6. ASSUME NEW t \in Tasks, Start(t) PROVE LiveEntry(e)'
  <2>1. started[t] = NotStarted /\ started' = [started EXCEPT ![t] = Len(log)] /\ UNCHANGED log
    BY <1>6 DEF Start
  <2>2. started'["data"] = started["data"]
    BY <1>1, <1>3, <2>1
  <2> QED
    BY <1>2, <2>1, <2>2 DEF LiveEntry
<1>7. ASSUME NEW t \in Tasks, SendTask(t) \/ PipeWrite(t) \/ PipeRead(t) \/ RecvTask(t)
      PROVE  LiveEntry(e)'
  <2>1. ASSUME RecvTask(t) PROVE UNCHANGED << log, started >>
    BY <2>1, ReceiverKeepsTypes DEF sender
  <2>2. Start(t) \/ UNCHANGED << log, started >>
    BY <1>7, <2>1 DEF SendTask, NextEntry, SendBinding, SendEntry, SendChunk, SendTerminate,
                      PipeWrite, PipeRead
  <2> QED
    BY <1>4, <1>6, <2>2
<1>8. BindTheirs \/ StoreStep \/ UNCHANGED vars => UNCHANGED << log, started >>
  BY StillStep DEF BindTheirs, sender
<1> QED
  BY <1>4, <1>5, <1>7, <1>8 DEF Next, StoreStep

(* Only NextEntry puts an entry under way on the data channel.             *)
LEMMA NothingElse ==
    ASSUME Types, [Next]_vars, NEW e, UnderWay(e)'
    PROVE  UnderWay(e) \/ (NextEntry("data") /\ e = Head(Waiting("data")))
<1>1. "data" \in Tasks /\ chan["data"] \in Seq(Messages) /\ Len(chan["data"]) \in Nat
  BY DEF Types, ChannelTypes, Tasks
<1>2. /\ \A u \in Tasks : DOMAIN recv = Tasks /\ recv[u] \in RecvStates
      /\ ReceiverTypes
  BY DEF Types, ReceiverTypes
<1>3. ASSUME NEW m, chan'["data"] = Append(chan["data"], m), NEW i \in 1..Len(chan'["data"]),
             chan'["data"][i].entry = e
      PROVE  m.entry = e \/ \E j \in 1..Len(chan["data"]) : chan["data"][j].entry = e
  <2> DEFINE c == chan["data"]
  <2>1. /\ Len(Append(c, m)) = Len(c) + 1 /\ Append(c, m)[Len(c) + 1] = m
        /\ \A j \in 1..Len(c) : Append(c, m)[j] = c[j]
    BY <1>1
  <2> HIDE DEF c
  <2>2. i \in 1..(Len(c) + 1) /\ Append(c, m)[i].entry = e /\ Len(c) \in Nat
    BY <1>1, <1>3, <2>1 DEF c
  <2>3. i = Len(c) + 1 \/ i \in 1..Len(c)
    BY <2>2
  <2>4. m.entry = e \/ \E j \in 1..Len(c) : c[j].entry = e
    BY <2>1, <2>2, <2>3
  <2> QED
    BY <2>4 DEF c
<1>4. ASSUME NEW t \in Tasks, SendTask(t) \/ PipeWrite(t) \/ PipeRead(t)
      PROVE  UnderWay(e) \/ (NextEntry("data") /\ e = Head(Waiting("data")))
  <2>1. UNCHANGED << recv, current >>
    BY <1>4, SenderKeepsTypes DEF receiver
  <2>2. CASE t # "data"
    <3>1. task'["data"] = task["data"] /\ chan'["data"] = chan["data"]
      BY <1>1, <1>4, <2>2, SenderStep
    <3> QED
      BY <2>1, <3>1 DEF UnderWay
  <2>3. CASE t = "data"
    <3>1. \/ chan'["data"] = chan["data"]
          \/ /\ task["data"].pc # "idle"
             /\ \E m \in Messages : chan'["data"] = Append(chan["data"], m) /\ m.entry = task["data"].entry
      BY <1>4, <2>3, SenderStep
    <3>2. \/ task'["data"].pc = "idle"
          \/ task["data"].pc # "idle" /\ task'["data"].entry = task["data"].entry
          \/ NextEntry("data") /\ task'["data"].entry = Head(Waiting("data"))
      BY <1>4, <2>3, SenderStep
    <3>3. CASE task'["data"].pc # "idle" /\ task'["data"].entry = e
      BY <3>2, <3>3 DEF UnderWay
    <3>4. CASE \E i \in 1..Len(chan'["data"]) : chan'["data"][i].entry = e
      <4>1. CASE chan'["data"] = chan["data"]
        BY <3>4, <4>1 DEF UnderWay
      <4>2. ASSUME task["data"].pc # "idle", NEW m \in Messages,
                   chan'["data"] = Append(chan["data"], m), m.entry = task["data"].entry
            PROVE  UnderWay(e)
        <5>1. m.entry = e \/ \E j \in 1..Len(chan["data"]) : chan["data"][j].entry = e
          BY <1>3, <3>4, <4>2
        <5> QED
          BY <4>2, <5>1 DEF UnderWay
      <4> QED
        BY <3>1, <4>1, <4>2
    <3> QED
      BY <2>1, <3>3, <3>4 DEF UnderWay
  <2> QED
    BY <2>2, <2>3
<1>5. ASSUME NEW t \in Tasks, RecvTask(t) PROVE UnderWay(e)
  <2>1. UNCHANGED task
    BY <1>5, ReceiverKeepsTypes DEF sender
  <2>2. CASE t # "data"
    <3>1. recv'["data"] = recv["data"] /\ current'["data"] = current["data"] /\ chan'["data"] = chan["data"]
      BY <1>1, <1>5, <2>2, ReceiverStep
    <3> QED
      BY <2>1, <3>1 DEF UnderWay
  <2>3. CASE t = "data"
    <3>1. chan'["data"] = chan["data"] \/ (chan["data"] # << >> /\ chan'["data"] = Tail(chan["data"]))
      BY <1>5, <2>3, ReceiverStep
    <3>2. recv'["data"].pc # "recv" =>
             \/ recv["data"].pc # "recv" /\ recv'["data"].msg = recv["data"].msg
             \/ chan["data"] # << >> /\ recv'["data"].msg = Head(chan["data"])
      BY <1>5, <2>3, ReceiverStep
    <3>3. current'["data"] # None =>
             \/ current["data"] # None /\ current'["data"].entry = current["data"].entry
             \/ recv["data"].pc # "recv" /\ current'["data"].entry = recv["data"].msg.entry
      BY <1>5, <2>3, ReceiverStep
    <3>4. chan["data"] # << >> =>
             /\ Head(chan["data"]) = chan["data"][1] /\ 1 \in 1..Len(chan["data"])
             /\ Len(Tail(chan["data"])) = Len(chan["data"]) - 1
             /\ \A i \in 1..(Len(chan["data"]) - 1) :
                   Tail(chan["data"])[i] = chan["data"][i + 1] /\ i + 1 \in 1..Len(chan["data"])
      <4> SUFFICES ASSUME chan["data"] # << >> PROVE
             /\ Head(chan["data"]) = chan["data"][1] /\ 1 \in 1..Len(chan["data"])
             /\ Len(Tail(chan["data"])) = Len(chan["data"]) - 1
             /\ \A i \in 1..(Len(chan["data"]) - 1) :
                   Tail(chan["data"])[i] = chan["data"][i + 1] /\ i + 1 \in 1..Len(chan["data"])
        OBVIOUS
      <4> QED
        BY <1>1, TailFields
    <3>5. CASE \E i \in 1..Len(chan'["data"]) : chan'["data"][i].entry = e
      BY <3>1, <3>4, <3>5 DEF UnderWay
    <3>6. CASE recv'["data"].pc # "recv" /\ recv'["data"].msg.entry = e
      BY <3>2, <3>4, <3>6 DEF UnderWay
    <3>7. CASE current'["data"] # None /\ current'["data"].entry = e
      BY <3>3, <3>7 DEF UnderWay
    <3> QED
      BY <2>1, <3>5, <3>6, <3>7 DEF UnderWay
  <2> QED
    BY <2>2, <2>3
<1>6. ASSUME BindTheirs PROVE UnderWay(e)
  <2>1. /\ chan' = [chan EXCEPT !["tokens"] = Tail(@)] /\ UNCHANGED << task, current >>
        /\ recv' = [t \in Tasks |-> IF recv[t].pc = "parked" /\ recv[t].msg.handle = Len(theirs')
                                    THEN [recv[t] EXCEPT !.pc = "poll"] ELSE recv[t]]
    BY <1>6 DEF BindTheirs, sender
  <2>2. chan'["data"] = chan["data"]
    BY <2>1 DEF Types, ChannelTypes, Channels, Tasks
  <2>3. recv'["data"].pc # "recv" => recv["data"].pc # "recv" /\ recv'["data"].msg = recv["data"].msg
    BY <1>1, <1>2, <2>1 DEF RecvStates
  <2> QED
    BY <2>1, <2>2, <2>3 DEF UnderWay
<1>7. ASSUME StoreStep \/ UNCHANGED vars \/ \E f \in Entries : Ingest(f) PROVE UnderWay(e)
  BY <1>7, StillStep DEF Ingest, receiver, UnderWay
<1> QED
  BY <1>4, <1>5, <1>6, <1>7 DEF Next, StoreStep

(* Whatever is under way on the data channel was ingested after the data   *)
(* sender subscribed (run_send_data of session/data.rs).                   *)
THEOREM OnlyLiveEntries == Spec => []LiveInv
<1>1. Init => LiveInv
  <2> SUFFICES ASSUME Init PROVE LiveInv
    OBVIOUS
  <2>1. /\ task["data"] = Idle /\ chan["data"] = << >> /\ recv["data"].pc = "recv"
        /\ current["data"] = None /\ started["data"] = NotStarted
    BY DEF Init, Tasks, Channels
  <2>2. Len(chan["data"]) = 0 /\ Idle.pc = "idle"
    BY <2>1 DEF Idle
  <2> QED
    BY <2>1, <2>2 DEF LiveInv, UnderWay
<1>2. Types /\ LiveInv /\ [Next]_vars => LiveInv'
  <2> SUFFICES ASSUME Types, LiveInv, [Next]_vars PROVE LiveInv'
    OBVIOUS
  <2>1. ASSUME NEW e, UnderWay(e)' PROVE LiveEntry(e)'
    <3>1. LiveEntry(e)
      BY <2>1, NothingElse, TakesLive DEF LiveInv
    <3> QED
      BY <3>1, LiveRemains
  <2>2. /\ started \in [Tasks -> 0..NotStarted] /\ next \in [Tasks -> 0..NotStarted] /\ "data" \in Tasks
        /\ NotStarted \in Nat /\ Len(log) \in Nat
    BY LiveDataAssumption DEF Types, SenderTypes, Tasks, NotStarted
  <2>3. CASE UNCHANGED << started, next >>
    BY <2>1, <2>3 DEF LiveInv
  <2>4. ASSUME NEW t \in Tasks, Start(t) PROVE LiveInv'
    <3>1. /\ started' = [started EXCEPT ![t] = Len(log)]
          /\ next' = [next EXCEPT ![t] = IF t = "rec" THEN 0 ELSE Len(log)]
      BY <2>4 DEF Start
    <3>2. (started["data"] # NotStarted => started["data"] <= next["data"])'
      <4>1. CASE t = "data"
        BY <2>2, <3>1, <4>1
      <4>2. CASE t # "data"
        BY <2>2, <3>1, <4>2 DEF LiveInv, NotStarted
      <4> QED
        BY <4>1, <4>2
    <3> QED
      BY <2>1, <3>2 DEF LiveInv
  <2>5. ASSUME NEW t \in Tasks, NextEntry(t) PROVE LiveInv'
    <3>1. UNCHANGED started /\ next' = [next EXCEPT ![t] = next[t] + 1]
      BY <2>5 DEF NextEntry
    <3>2. next["data"] <= next'["data"]
      BY <2>2, <3>1
    <3>3. next'["data"] \in Nat
      BY <2>2, <3>1
    <3>4. (started["data"] # NotStarted => started["data"] <= next["data"])'
      <4>1. CASE started["data"] = NotStarted
        BY <3>1, <4>1 DEF NotStarted
      <4>2. CASE started["data"] # NotStarted
        BY <2>2, <3>1, <3>2, <3>3, <4>2 DEF LiveInv
      <4> QED
        BY <4>1, <4>2
    <3> QED
      BY <2>1, <3>4 DEF LiveInv
  <2>6. ASSUME NEW t \in Tasks, SendTask(t) \/ PipeWrite(t) \/ PipeRead(t) \/ RecvTask(t)
        PROVE  LiveInv'
    <3>1. ASSUME RecvTask(t) PROVE UNCHANGED << started, next >>
      BY <3>1, ReceiverKeepsTypes DEF sender
    <3>2. Start(t) \/ NextEntry(t) \/ UNCHANGED << started, next >>
      BY <2>6, <3>1 DEF SendTask, SendBinding, SendEntry, SendChunk, SendTerminate, PipeWrite, PipeRead
    <3> QED
      BY <2>3, <2>4, <2>5, <3>2
  <2>7. BindTheirs \/ StoreStep \/ UNCHANGED vars \/ (\E f \in Entries : Ingest(f))
           => UNCHANGED << started, next >>
    BY StillStep DEF BindTheirs, sender, Ingest
  <2> QED
    BY <2>3, <2>6, <2>7 DEF Next, StoreStep
<1> QED
  BY <1>1, <1>2, Typing, PTL DEF Spec

-----------------------------------------------------------------------------
(* What the receiver makes of it.                                          *)

(* Why a session may fail.                                                 *)
Excused == overtaken \/ \E e : LiveEntry(e) /\ Untransferable(e)

(* The message that is taken leads from where the receiver is.             *)
LEMMA TakenFromPath ==
    ASSUME Types, NEW t \in Tasks, NEW kind, Take(t, kind), PathInv(t)
    PROVE  \E from, r \in Places(t) : /\ AtReceiver(t, from) /\ Leads(t, from, Head(chan[t]), r)
                                      /\ AtReceiver(t, r)' => PathInv(t)'
<1>1. chan[t] # << >> /\ chan[t] \in Seq(Messages) /\ chan'[t] = Tail(chan[t])
  BY Taken
<1>2. UNCHANGED task
  BY DEF Take, sender
<1>3. PICK from, to \in Places(t) :
        AtReceiver(t, from) /\ AtSender(t, to) /\ Path(t, chan[t], from, to)
  BY DEF PathInv
<1>4. PICK r \in Places(t) : Leads(t, from, Head(chan[t]), r) /\ Path(t, Tail(chan[t]), r, to)
  BY <1>1, <1>3, PathTail
<1>5. AtSender(t, to)'
  BY <1>2, <1>3 DEF AtSender
<1>6. Path(t, chan'[t], r, to)
  BY <1>1, <1>4
<1>7. AtReceiver(t, r)' => PathInv(t)'
  BY <1>5, <1>6 DEF PathInv
<1> QED
  BY <1>3, <1>4, <1>7

(* An entry arrives.  A payload that is still expected then is one that    *)
(* the data channel cannot transfer, and none of it has arrived.           *)
LEMMA EntryArrives ==
    ASSUME Types, NEW t \in Tasks, PathInv(t), PayloadsAreWhole, ReceiveEntry(t)
    PROVE  PayloadsAreWhole' /\ ~ failed' /\ PathInv(t)'
<1>1. Take(t, "Entry") /\ ReceiverTypes
  BY DEF ReceiveEntry, Types
<1> DEFINE m == Head(chan[t])
<1>2. ~ failed /\ recv[t].pc = "recv" /\ m \in Messages /\ m.kind = "Entry"
  BY <1>1, Taken
<1>3. PICK from, r \in Places(t) : /\ AtReceiver(t, from) /\ Leads(t, from, m, r)
                                   /\ AtReceiver(t, r)' => PathInv(t)'
  BY <1>1, TakenFromPath
<1> HIDE DEF m
<1>4. Finished(t, from) /\ r.entry = m.entry /\ r.sent = 0
  BY <1>2, <1>3 DEF Leads
<1>5. ASSUME current[t] # None
      PROVE  t = "data" /\ ~ current[t].writer /\ Untransferable(current[t].entry)
  <2> DEFINE e == current[t].entry
             n == current[t].received
             w == current[t].writer
  <2>1. e \in Entries /\ e # "none" /\ n \in Nat
    BY <1>1, <1>5, CurrentFields, LiveDataAssumption
  <2>2. /\ from.entry = e /\ from.sent = n /\ (w <=> n > 0)
        /\ t = "data" /\ w => n < Length[e]
    BY <1>2, <1>3, <1>5 DEF AtReceiver
  <2> HIDE DEF e, n, w
  <2>3. t = "data" /\ n = Whole(t, e)
    BY <1>4, <2>1, <2>2 DEF Finished
  <2>4. /\ Length[e] \in Nat /\ Encoded[e] \in Nat /\ Length[e] <= Encoded[e]
        /\ e \in Unsent[t] => Whole(t, e) = 0
        /\ e \notin Unsent[t] => Whole(t, e) = Encoded[e]
    BY <2>1, WholeFields
  <2>5. ~ w
    <3>1. ASSUME w PROVE FALSE
      <4>1. n > 0 /\ n < Length[e]
        BY <2>2, <2>3, <3>1
      <4> QED
        BY <2>1, <2>3, <2>4, <4>1
    <3> QED
      BY <3>1
  <2>6. Whole(t, e) = 0
    BY <2>1, <2>2, <2>3, <2>5
  <2>7. Untransferable(e)
    BY <2>3, <2>4, <2>6 DEF Untransferable
  <2> QED
    BY <2>3, <2>5, <2>7 DEF e, w
<1>6. ~ is_active(t)
  BY <1>5 DEF is_active
<1> DEFINE x == [pc |-> "poll", msg |-> m]
<1>7. recv' = [recv EXCEPT ![t] = x] /\ UNCHANGED << current, ingested, payloads, failed >>
  BY <1>6 DEF ReceiveEntry, m
<1>8. x.pc = "poll" /\ x.msg = m
  OBVIOUS
<1> HIDE DEF x
<1>9. recv'[t].pc = "poll" /\ recv'[t].msg = m
  BY <1>1, <1>7, <1>8 DEF ReceiverTypes
<1>10. AtReceiver(t, r)'
  BY <1>4, <1>5, <1>7, <1>9 DEF AtReceiver
<1>11. PayloadsAreWhole'
  BY <1>7 DEF PayloadsAreWhole
<1> QED
  BY <1>2, <1>3, <1>7, <1>10, <1>11

(* The token of an entry is asked for.  It is another only if a binding    *)
(* was overtaken, and a payload that is still expected is live.            *)
LEMMA EntryIsAuthorised ==
    ASSUME Types, NEW t \in Tasks, PathInv(t), PayloadsAreWhole, HandleInv, TableInv, LiveInv,
           PollToken(t)
    PROVE  PayloadsAreWhole' /\ (failed' => Excused) /\ (~ failed' => PathInv(t)')
<1> DEFINE e == recv[t].msg.entry
           h == recv[t].msg.handle
<1>1. /\ ~ failed /\ recv[t].pc = "poll" /\ UNCHANGED << task, chan >> /\ ReceiverTypes
  BY DEF PollToken, sender, Types
<1>2. recv[t] \in RecvStates /\ DOMAIN recv = Tasks /\ DOMAIN current = Tasks /\ Len(theirs) \in Nat
  BY <1>1 DEF ReceiverTypes
<1>3. h \in 1..Len(ours) /\ ours[h] = TokenOf[e]
  BY <1>1 DEF HandleInv, Bound
<1>4. PICK from, to \in Places(t) :
        AtReceiver(t, from) /\ AtSender(t, to) /\ Path(t, chan[t], from, to)
  BY DEF PathInv
<1>5. /\ from.entry = e /\ from.sent = 0
      /\ current[t] # None => t = "data" /\ Untransferable(current[t].entry)
  BY <1>1, <1>4 DEF AtReceiver
<1>6. AtReceiver(t, from)' => PathInv(t)'
  <2>1. AtSender(t, to)'
    BY <1>1, <1>4 DEF AtSender
  <2>2. Path(t, chan'[t], from, to)
    BY <1>1, <1>4
  <2> QED
    BY <2>1, <2>2 DEF PathInv
<1> HIDE DEF e, h
<1>7. CASE /\ recv' = [recv EXCEPT ![t].pc = "parked"]
           /\ UNCHANGED << current, ingested, payloads, failed >>
  <2>1. recv'[t].pc = "parked" /\ recv'[t].msg = recv[t].msg
    BY <1>2, <1>7 DEF RecvStates
  <2>2. AtReceiver(t, from)'
    BY <1>5, <1>7, <2>1 DEF AtReceiver, e
  <2>3. PayloadsAreWhole'
    BY <1>7 DEF PayloadsAreWhole
  <2> QED
    BY <1>1, <1>6, <1>7, <2>2, <2>3
<1>8. CASE h <= Len(theirs) /\ theirs[h] # TokenOf[e] /\ Fail
  <2>1. overtaken
    BY <1>2, <1>3, <1>8 DEF TableInv
  <2>2. PayloadsAreWhole' /\ failed'
    BY <1>8 DEF PayloadsAreWhole, Fail
  <2> QED
    BY <2>1, <2>2 DEF Excused
<1>9. CASE /\ recv' = [recv EXCEPT ![t] = [pc |-> "recv", msg |-> None]]
           /\ failed' = ~ (current[t] = None)
           /\ current' = IF current[t] = None
                         THEN [current EXCEPT ![t] = [entry |-> e, received |-> 0,
                                                      writer |-> FALSE, mixed |-> FALSE]]
                         ELSE current
           /\ UNCHANGED payloads
  <2> DEFINE p == [entry |-> e, received |-> 0, writer |-> FALSE, mixed |-> FALSE]
  <2>1. p.entry = e /\ p.received = 0 /\ p.writer = FALSE /\ p.mixed = FALSE
    OBVIOUS
  <2>2. CASE current[t] = None
    <3>1. /\ current' = [current EXCEPT ![t] = p] /\ ~ failed'
      BY <1>9, <2>2
    <3> HIDE DEF p
    <3>2. current'[t] = p /\ \A u \in Tasks : u # t => current'[u] = current[u]
      BY <1>2, <3>1
    <3>3. recv'[t].pc = "recv"
      BY <1>2, <1>9
    <3>4. p # None => AtReceiver(t, from)'
      BY <1>5, <2>1, <3>2, <3>3 DEF AtReceiver
    <3>5. p # None
      BY <1>1, <2>1, CurrentFields, LiveDataAssumption DEF e, EntryMsgs, None
    <3>6. PayloadsAreWhole'
      BY <1>1, <1>9, <2>1, <3>1, <3>2 DEF PayloadsAreWhole
    <3> QED
      BY <1>6, <3>1, <3>4, <3>5, <3>6
  <2>3. CASE current[t] # None
    <3>1. failed' /\ UNCHANGED current
      BY <1>9, <2>3
    <3>2. PayloadsAreWhole'
      BY <3>1 DEF PayloadsAreWhole
    <3>3. UnderWay(current[t].entry)
      BY <1>5, <2>3 DEF UnderWay
    <3>4. Excused
      BY <1>5, <2>3, <3>3 DEF LiveInv, Excused
    <3> QED
      BY <3>1, <3>2, <3>4
  <2> QED
    BY <2>2, <2>3
<1> QED
  BY <1>7, <1>8, <1>9 DEF PollToken, e, h

(* A payload is finalized, with all the bytes that were sent of it.        *)
LEMMA PayloadEnds ==
    ASSUME Types, NEW t \in Tasks, NEW p \in Payloads, ~ failed, PayloadsAreWhole, Finalize(t, p),
           ~ p.mixed, ~ failed' => p.received = Whole(t, p.entry)
    PROVE  PayloadsAreWhole' /\ current'[t] = None
<1> DEFINE q == [by |-> t, entry |-> p.entry, received |-> p.received, mixed |-> p.mixed]
<1>1. current' = [current EXCEPT ![t] = None] /\ payloads' = payloads \cup {q}
  BY DEF Finalize
<1>2. q.by = t /\ q.entry = p.entry /\ q.received = p.received /\ q.mixed = p.mixed
  OBVIOUS
<1> HIDE DEF q
<1>3. current'[t] = None /\ \A u \in Tasks : u # t => current'[u] = current[u]
  BY <1>1 DEF Types, ReceiverTypes
<1>4. \A u \in Tasks : current'[u] # None => ~ current'[u].mixed
  BY <1>3 DEF PayloadsAreWhole
<1>5. ASSUME ~ failed', NEW x \in payloads'
      PROVE  ~ x.mixed /\ x.received = IF x.entry \in Unsent[x.by] THEN 0 ELSE Encoded[x.entry]
  <2>1. CASE x \in payloads
    BY <2>1 DEF PayloadsAreWhole
  <2>2. CASE x = q
    BY <1>2, <1>5, <2>2 DEF Whole
  <2> QED
    BY <1>1, <2>1, <2>2
<1> QED
  BY <1>3, <1>4, <1>5 DEF PayloadsAreWhole

(* A chunk arrives: of the payload that is expected, and never one more    *)
(* than it has.  Only a stream that needs more chunks than its payload is  *)
(* finalized too early.                                                    *)
LEMMA ChunkArrives ==
    ASSUME Types, NEW t \in Tasks, PathInv(t), PayloadsAreWhole, LiveInv, ReceivePayload(t)
    PROVE  PayloadsAreWhole' /\ (failed' => Excused) /\ (~ failed' => PathInv(t)')
<1> DEFINE m == Head(chan[t])
           p == [current[t] EXCEPT !.received = @ + m.len, !.writer = TRUE,
                                   !.mixed = @ \/ m.entry # current[t].entry]
<1>1. Take(t, "Payload") /\ ReceiverTypes
  BY DEF ReceivePayload, Types
<1>2. ~ failed /\ recv[t].pc = "recv" /\ m \in Messages /\ m.kind = "Payload"
  BY <1>1, Taken
<1>3. PICK from, r \in Places(t) : /\ AtReceiver(t, from) /\ Leads(t, from, m, r)
                                   /\ AtReceiver(t, r)' => PathInv(t)'
  BY <1>1, TakenFromPath
<1>4. /\ IF current[t] = None THEN Fail
         ELSE /\ IF t = "data" /\ is_complete(p) THEN Finalize(t, p)
                 ELSE current' = [current EXCEPT ![t] = p] /\ UNCHANGED << payloads, failed >>
              /\ UNCHANGED << recv, ingested >>
  BY DEF ReceivePayload
<1>5. m.entry \in Entries /\ m.entry # "none" /\ m.len \in Nat \ {0}
  BY <1>2, MessageFields, LiveDataAssumption
<1> HIDE DEF m
<1>6. from.entry = m.entry /\ r.entry = m.entry /\ r.sent = from.sent + m.len
  BY <1>2, <1>3 DEF Leads
<1>7. /\ from.sent \in Nat /\ r.sent \in Nat /\ r.sent <= Whole(t, m.entry)
      /\ OnChunk(t, m.entry, r.sent)
  BY <1>5, <1>6, PlaceFields
<1>8. /\ Whole(t, m.entry) \in Nat /\ Length[m.entry] \in Nat /\ Encoded[m.entry] \in Nat
      /\ Length[m.entry] <= Encoded[m.entry]
      /\ m.entry \in Unsent[t] => Whole(t, m.entry) = 0
      /\ m.entry \notin Unsent[t] => Whole(t, m.entry) = Encoded[m.entry]
  BY <1>5, WholeFields
<1>9. r.sent > 0 /\ Whole(t, m.entry) = Encoded[m.entry]
  BY <1>5, <1>6, <1>7, <1>8
<1>10. current[t] # None
  <2>1. ASSUME current[t] = None PROVE FALSE
    <3>1. from.sent = Whole(t, m.entry)
      BY <1>2, <1>3, <1>5, <1>6, <2>1 DEF AtReceiver, Finished
    <3> QED
      BY <1>5, <1>6, <1>7, <1>8, <3>1
  <2> QED
    BY <2>1
<1>11. /\ current[t] \in Payloads /\ current[t].received \in Nat /\ DOMAIN current = Tasks
  BY <1>1, <1>10, CurrentFields DEF ReceiverTypes
<1>12. from.entry = current[t].entry /\ from.sent = current[t].received
  BY <1>2, <1>3, <1>10 DEF AtReceiver
<1>13. ~ current[t].mixed
  BY <1>10 DEF PayloadsAreWhole
<1>14. p \in Payloads /\ p.entry = m.entry /\ p.received = r.sent /\ p.writer = TRUE /\ p.mixed = FALSE
  <2> DEFINE more == current[t].received + m.len
             mix  == current[t].mixed \/ m.entry # current[t].entry
  <2>1. more = r.sent /\ mix = FALSE
    BY <1>6, <1>12, <1>13
  <2>2. p = [current[t] EXCEPT !.received = more, !.writer = TRUE, !.mixed = mix]
    OBVIOUS
  <2> HIDE DEF more, mix, p
  <2>3. p = [current[t] EXCEPT !.received = r.sent, !.writer = TRUE, !.mixed = FALSE]
    BY <2>1, <2>2
  <2> QED
    BY <1>6, <1>7, <1>11, <1>12, <2>3 DEF Payloads
<1> HIDE DEF p
<1>15. UNCHANGED recv
  BY <1>4, <1>10
<1>16. CASE t = "data" /\ is_complete(p)
  <2>1. Finalize(t, p) /\ Length[m.entry] <= r.sent
    BY <1>4, <1>10, <1>14, <1>16, <1>7, <1>8 DEF is_complete
  <2>2. failed' <=> r.sent < Encoded[m.entry]
    BY <1>14, <2>1 DEF Finalize
  <2>3. ~ failed' => r.sent = Whole(t, m.entry)
    BY <1>7, <1>8, <1>9, <2>2
  <2>4. PayloadsAreWhole' /\ current'[t] = None
    BY <1>2, <1>14, <2>1, <2>3, PayloadEnds
  <2>5. ~ failed' => AtReceiver(t, r)'
    BY <1>2, <1>6, <1>15, <1>16, <2>3, <2>4 DEF AtReceiver, Finished
  <2>6. ASSUME failed' PROVE Excused
    <3>1. r.sent < Encoded[m.entry]
      BY <2>2, <2>6
    <3>2. PICK k \in Nat : r.sent = k * ChunkSize
      BY <1>7, <1>8, <1>9, <3>1 DEF OnChunk
    <3>3. Chunks(Length[m.entry]) < Chunks(Encoded[m.entry])
      BY <1>5, <2>1, <3>1, <3>2, MoreChunks
    <3>4. Untransferable(m.entry)
      BY <3>3 DEF Untransferable
    <3>5. UnderWay(m.entry)
      BY <1>6, <1>10, <1>12, <1>16 DEF UnderWay
    <3> QED
      BY <3>4, <3>5 DEF LiveInv, Excused
  <2> QED
    BY <1>3, <2>4, <2>5, <2>6
<1>17. CASE ~ (t = "data" /\ is_complete(p))
  <2>1. current' = [current EXCEPT ![t] = p] /\ UNCHANGED << payloads, failed >>
    BY <1>4, <1>10, <1>17
  <2>2. current'[t] = p /\ \A u \in Tasks : u # t => current'[u] = current[u]
    BY <1>11, <2>1
  <2>3. t = "data" => r.sent < Length[m.entry]
    BY <1>7, <1>8, <1>14, <1>17 DEF is_complete
  <2>4. p # None
    BY <1>5, <1>14 DEF None
  <2>5. AtReceiver(t, r)'
    BY <1>2, <1>6, <1>9, <1>14, <1>15, <2>2, <2>3, <2>4 DEF AtReceiver
  <2>6. PayloadsAreWhole'
    BY <1>14, <2>1, <2>2 DEF PayloadsAreWhole
  <2> QED
    BY <1>2, <1>3, <2>1, <2>5, <2>6
<1> QED
  BY <1>16, <1>17

(* The reconciler is told that a payload has ended: all of it has arrived. *)
LEMMA PayloadIsTerminated ==
    ASSUME Types, NEW t \in Tasks, PathInv(t), PayloadsAreWhole, ReceiveTerminate(t)
    PROVE  PayloadsAreWhole' /\ ~ failed' /\ PathInv(t)'
<1> DEFINE m == Head(chan[t])
<1>1. Take(t, "Terminate") /\ ReceiverTypes
  BY DEF ReceiveTerminate, Types
<1>2. ~ failed /\ recv[t].pc = "recv" /\ m \in Messages /\ m.kind = "Terminate"
  BY <1>1, Taken
<1>3. PICK from, r \in Places(t) : /\ AtReceiver(t, from) /\ Leads(t, from, m, r)
                                   /\ AtReceiver(t, r)' => PathInv(t)'
  BY <1>1, TakenFromPath
<1>4. m.entry \in Entries /\ m.entry # "none"
  BY <1>2, MessageFields
<1> HIDE DEF m
<1>5. t = "rec" /\ from.entry = m.entry /\ from.sent = Whole(t, m.entry) /\ r = Nothing
  BY <1>2, <1>3 DEF Leads
<1>6. current[t] # None
  BY <1>2, <1>3, <1>4, <1>5 DEF AtReceiver, Finished
<1> DEFINE p == current[t]
<1>7. p \in Payloads /\ p.received \in Nat /\ ~ p.mixed
  BY <1>1, <1>6, CurrentFields DEF PayloadsAreWhole
<1>8. p.entry = m.entry /\ p.received = Whole(t, m.entry) /\ (p.writer <=> p.received > 0)
  BY <1>2, <1>3, <1>5, <1>6 DEF AtReceiver
<1>9. /\ Encoded[m.entry] \in Nat
      /\ m.entry \in Unsent[t] => Whole(t, m.entry) = 0
      /\ m.entry \notin Unsent[t] => Whole(t, m.entry) = Encoded[m.entry]
  BY <1>4, WholeFields
<1>10. Finalize(t, p) /\ UNCHANGED recv
  BY <1>6 DEF ReceiveTerminate
<1> HIDE DEF p
<1>11. ~ failed'
  <2>1. failed' <=> p.writer /\ p.received < Encoded[p.entry]
    BY <1>10 DEF Finalize
  <2>2. ~ (p.received > 0 /\ p.received < Encoded[m.entry])
    BY <1>7, <1>8, <1>9
  <2> QED
    BY <1>8, <2>1, <2>2
<1>12. PayloadsAreWhole' /\ current'[t] = None
  BY <1>2, <1>7, <1>8, <1>10, PayloadEnds
<1>13. AtReceiver(t, r)'
  BY <1>2, <1>5, <1>10, <1>12 DEF AtReceiver, Finished, Nothing
<1> QED
  BY <1>3, <1>11, <1>12, <1>13

TransferInv ==
    /\ ~ failed => \A t \in Tasks : PathInv(t)
    /\ PayloadsAreWhole
    /\ failed => Excused

(* An error that is excused remains so.                                    *)
LEMMA StaysExcused ==
    ASSUME Types, Excused, [Next]_vars
    PROVE  Excused'
<1>1. overtaken => overtaken'
  <2>1. ASSUME NEW t \in Tasks, RecvTask(t) PROVE overtaken' = overtaken
    BY <2>1, ReceiverKeepsTypes DEF sender
  <2>2. ASSUME NEW t \in Tasks, SendTask(t) \/ PipeWrite(t) \/ PipeRead(t)
        PROVE  overtaken => overtaken'
    BY <2>2 DEF SendTask, Start, NextEntry, SendBinding, SendEntry, SendChunk, SendTerminate,
                PipeWrite, PipeRead
  <2> QED
    BY <2>1, <2>2, StillStep DEF Next, StoreStep, Ingest, BindTheirs, sender
<1>2. ASSUME NEW e, LiveEntry(e), Untransferable(e) PROVE Excused'
  <2>1. LiveEntry(e)'
    BY <1>2, LiveRemains
  <2>2. Untransferable(e)'
    BY <1>2 DEF Untransferable, Chunks
  <2> QED
    BY <2>1, <2>2 DEF Excused
<1> QED
  BY <1>1, <1>2 DEF Excused

(* Whatever the channels carry leads from the receiver's state to the      *)
(* sender's, a payload that was finalized is whole, and a failed session   *)
(* has an excuse.                                                          *)
THEOREM Transfers == Spec => []TransferInv
<1>1. Init => TransferInv
  <2> SUFFICES ASSUME Init PROVE TransferInv
    OBVIOUS
  <2>1. /\ \A t \in Tasks : /\ task[t] = Idle /\ chan[t] = << >> /\ recv[t].pc = "recv"
                            /\ current[t] = None
        /\ payloads = {} /\ ~ failed
    BY DEF Init, Channels
  <2>2. ASSUME NEW t \in Tasks PROVE PathInv(t)
    <3>1. Nothing \in Places(t) /\ Nothing.entry = "none" /\ Idle.pc = "idle"
      BY DEF Nothing, Places, Idle
    <3>2. Path(t, chan[t], Nothing, Nothing)
      BY <2>1, <3>1, PathEmpty
    <3>3. AtReceiver(t, Nothing) /\ AtSender(t, Nothing)
      BY <2>1, <3>1 DEF AtReceiver, AtSender, Finished
    <3> QED
      BY <3>1, <3>2, <3>3 DEF PathInv
  <2>3. PayloadsAreWhole
    BY <2>1 DEF PayloadsAreWhole
  <2> QED
    BY <2>1, <2>2, <2>3 DEF TransferInv
<1>2. Types /\ HandleInv /\ TableInv /\ LiveInv /\ TransferInv /\ [Next]_vars => TransferInv'
  <2> SUFFICES ASSUME Types, HandleInv, TableInv, LiveInv, TransferInv, [Next]_vars
               PROVE  TransferInv'
    OBVIOUS
  <2>1. Excused => Excused'
    BY StaysExcused
  <2>2. CASE UNCHANGED << task, chan, recv, current, payloads, failed >>
    <3>1. ~ failed => \A t \in Tasks : PathInv(t)'
      BY <2>2, PathStays DEF TransferInv
    <3>2. PayloadsAreWhole'
      BY <2>2 DEF TransferInv, PayloadsAreWhole
    <3> QED
      BY <2>1, <2>2, <3>1, <3>2 DEF TransferInv
  <2>3. ASSUME NEW t \in Tasks, SendTask(t) \/ PipeWrite(t) \/ PipeRead(t) PROVE TransferInv'
    <3>1. UNCHANGED << recv, current, payloads, failed >>
      BY <2>3, SenderKeepsTypes DEF receiver
    <3>2. ASSUME ~ failed, NEW u \in Tasks PROVE PathInv(u)'
      <4>1. PathInv(u)
        BY <3>2 DEF TransferInv
      <4>2. CASE u = t
        BY <2>3, <4>1, <4>2, SenderKeepsPath
      <4>3. CASE u # t
        <5>1. task'[u] = task[u] /\ chan'[u] = chan[u]
          BY <2>3, <4>3, SenderStep
        <5>2. recv'[u] = recv[u] /\ current'[u] = current[u]
          BY <3>1
        <5> QED
          BY <4>1, <5>1, <5>2, PathStays
      <4> QED
        BY <4>2, <4>3
    <3>3. PayloadsAreWhole'
      BY <3>1 DEF TransferInv, PayloadsAreWhole
    <3> QED
      BY <2>1, <3>1, <3>2, <3>3 DEF TransferInv
  <2>4. ASSUME NEW t \in Tasks, RecvTask(t) PROVE TransferInv'
    <3>1. ~ failed
      BY <2>4 DEF RecvTask, ReceiveEntry, PollToken, ReceivePayload, ReceiveTerminate, Take
    <3>2. PayloadsAreWhole /\ \A u \in Tasks : PathInv(u)
      BY <3>1 DEF TransferInv
    <3>3. PayloadsAreWhole' /\ (failed' => Excused) /\ (~ failed' => PathInv(t)')
      BY <2>4, <3>2, EntryArrives, EntryIsAuthorised, ChunkArrives, PayloadIsTerminated DEF RecvTask
    <3>4. ASSUME NEW u \in Tasks, u # t PROVE PathInv(u)'
      <4>1. UNCHANGED task
        BY <2>4, ReceiverKeepsTypes DEF sender
      <4>2. recv'[u] = recv[u] /\ current'[u] = current[u] /\ chan'[u] = chan[u]
        BY <2>4, <3>4, ReceiverStep
      <4>3. task'[u] = task[u] /\ PathInv(u)
        BY <3>2, <4>1
      <4> QED
        BY <4>2, <4>3, PathStays
    <3> QED
      BY <2>1, <3>3, <3>4 DEF TransferInv
  <2>5. ASSUME BindTheirs PROVE TransferInv'
    <3>1. /\ chan' = [chan EXCEPT !["tokens"] = Tail(@)]
          /\ UNCHANGED task /\ UNCHANGED << current, payloads, failed >>
          /\ recv' = [t \in Tasks |-> IF recv[t].pc = "parked" /\ recv[t].msg.handle = Len(theirs')
                                      THEN [recv[t] EXCEPT !.pc = "poll"] ELSE recv[t]]
      BY <2>5 DEF BindTheirs, sender
    <3>2. ASSUME ~ failed, NEW t \in Tasks PROVE PathInv(t)'
      <4>1. chan'[t] = chan[t]
        BY <3>1 DEF Types, ChannelTypes, Channels, Tasks
      <4>2. recv[t] \in RecvStates
        BY DEF Types, ReceiverTypes
      <4>3. recv'[t].msg = recv[t].msg /\ (recv'[t].pc = "recv" <=> recv[t].pc = "recv")
        BY <3>1, <4>2 DEF RecvStates
      <4>4. PICK from, to \in Places(t) :
              AtReceiver(t, from) /\ AtSender(t, to) /\ Path(t, chan[t], from, to)
        BY <3>2 DEF TransferInv, PathInv
      <4>5. AtReceiver(t, from)' /\ AtSender(t, to)'
        BY <3>1, <4>3, <4>4 DEF AtReceiver, AtSender
      <4>6. Path(t, chan'[t], from, to)
        BY <4>1, <4>4
      <4> QED
        BY <4>5, <4>6 DEF PathInv
    <3>3. PayloadsAreWhole'
      BY <3>1 DEF TransferInv, PayloadsAreWhole
    <3> QED
      BY <2>1, <3>1, <3>2, <3>3 DEF TransferInv
  <2>6. StoreStep \/ UNCHANGED vars \/ (\E e \in Entries : Ingest(e))
           => UNCHANGED << task, chan, recv, current, payloads, failed >>
    BY StillStep DEF receiver, Ingest
  <2> QED
    BY <2>2, <2>3, <2>4, <2>5, <2>6 DEF Next, StoreStep
<1> QED
  BY <1>1, <1>2, Typing, TablesAgree, OnlyLiveEntries, PTL DEF Spec

(* A session between two peers that follow the protocol fails for the two  *)
(* reasons that are known and for no other, whatever the sizes of chunks   *)
(* and channels (the error paths of session/data.rs, payload.rs and        *)
(* reconciler.rs).                                                         *)
THEOREM ErrorsAreKnown == Spec => []OnlyKnownErrors
<1>1. TransferInv /\ Types => OnlyKnownErrors
  <2> SUFFICES ASSUME TransferInv, Types, failed PROVE OnlyKnownErrors
    BY DEF OnlyKnownErrors
  <2>1. Excused
    BY DEF TransferInv
  <2>2. DOMAIN log = 1..Len(log)
    BY DEF Types, SenderTypes
  <2> QED
    BY <2>1, <2>2 DEF Excused, LiveEntry, OnlyKnownErrors
<1> QED
  BY <1>1, Typing, Transfers, PTL

(* The receiver's table with the bindings under way is a prefix of the     *)
(* sender's table.                                                         *)
LEMMA TableIsPrefix ==
    ASSUME Types, TableInv, ~ overtaken
    PROVE  IsPrefix(theirs \o [i \in DOMAIN chan["tokens"] |-> chan["tokens"][i].token], ours)
<1> DEFINE c == chan["tokens"]
           d == [i \in DOMAIN c |-> c[i].token]
<1>1. theirs \in Seq(Tokens) /\ ours \in Seq(Tokens) /\ c \in Seq(TokenMsgs)
  BY DEF Types, SenderTypes, ReceiverTypes, ChannelTypes
<1>2. /\ Len(theirs) + Len(c) <= Len(ours)
      /\ \A i \in 1..Len(theirs) : theirs[i] = ours[i]
      /\ \A i \in 1..Len(c) : c[i].token = ours[Len(theirs) + i]
  BY DEF TableInv, Announced
<1> HIDE DEF c
<1>3. DOMAIN c = 1..Len(c) /\ Len(c) \in Nat /\ \A i \in 1..Len(c) : c[i] \in TokenMsgs
  BY <1>1
<1>4. \A i \in 1..Len(c) : c[i].token \in Tokens
  BY <1>3 DEF TokenMsgs
<1>5. d \in Seq(Tokens) /\ Len(d) = Len(c) /\ \A i \in 1..Len(c) : d[i] = c[i].token
  BY <1>3, <1>4
<1> HIDE DEF d
<1> DEFINE s == theirs \o d
<1>6. s \in Seq(Tokens) /\ Len(s) = Len(theirs) + Len(c)
  <2>1. theirs \o d \in Seq(Tokens) /\ Len(theirs \o d) = Len(theirs) + Len(d)
    BY <1>1, <1>5, ConcatProperties
  <2> QED
    BY <1>5, <2>1
<1>7. ASSUME NEW i \in 1..Len(s) PROVE s[i] = ours[i]
  <2>1. Len(theirs) \in Nat
    BY <1>1
  <2>2. CASE i <= Len(theirs)
    <3>1. s[i] = theirs[i]
      BY <1>1, <1>5, <2>2
    <3> QED
      BY <1>2, <1>6, <2>1, <2>2, <3>1
  <2>3. CASE ~ (i <= Len(theirs))
    <3>1. s[i] = d[i - Len(theirs)]
      BY <1>1, <1>5, <1>6, <2>3
    <3> HIDE DEF s
    <3>2. i - Len(theirs) \in 1..Len(c) /\ Len(theirs) + (i - Len(theirs)) = i
      BY <1>3, <1>6, <2>1, <2>3
    <3> QED
      BY <1>2, <1>5, <3>1, <3>2
  <2> QED
    BY <2>2, <2>3
<1> HIDE DEF s
<1>8. Len(s) \in Nat /\ Len(s) <= Len(ours) /\ Len(ours) \in Nat
  BY <1>1, <1>2, <1>6
<1>9. SubSeq(s, 1, Len(s)) = SubSeq(ours, 1, Len(s))
  <2>1. /\ SubSeq(s, 1, Len(s)) = [i \in 1..Len(s) |-> s[i]]
        /\ SubSeq(ours, 1, Len(s)) = [i \in 1..Len(s) |-> ours[i]]
    BY <1>1, <1>6, <1>8
  <2> QED
    BY <1>7, <2>1
<1>10. IsPrefix(s, ours)
  BY <1>8, <1>9 DEF IsPrefix
<1> QED
  BY <1>10 DEF s, d, c

(* A store of the sender or of the receiver has failed, or none.           *)
StoreTypes == broken \subseteq {"sender", "receiver"}

LEMMA StoreTypesStep ==
    ASSUME StoreTypes, [Next]_vars
    PROVE  StoreTypes'
<1>1. ASSUME NEW side \in {"sender", "receiver"}, StoreFails(side) PROVE StoreTypes'
  BY <1>1 DEF StoreFails, StoreTypes
<1>2. CASE StoreStep
  BY <1>1, <1>2 DEF StoreStep, PipeFails, ImportFails
<1>3. ASSUME NEW t \in Tasks, SendTask(t) \/ PipeWrite(t) \/ PipeRead(t) PROVE StoreTypes'
  <2>1. CASE SendEntry(t)
    BY <1>1, <2>1 DEF SendEntry, StoreTypes
  <2> QED
    BY <1>3, <2>1 DEF SendTask, Start, NextEntry, SendBinding, SendChunk, SendTerminate, PipeWrite,
                      PipeRead, StoreTypes
<1>4. ASSUME NEW t \in Tasks, RecvTask(t) PROVE StoreTypes'
  BY <1>4 DEF RecvTask, ReceiveEntry, PollToken, ReceivePayload, ReceiveTerminate, Take, StoreTypes
<1>5. UNCHANGED vars \/ BindTheirs \/ (\E e \in Entries : Ingest(e)) => StoreTypes'
  BY DEF vars, BindTheirs, Ingest, StoreTypes
<1> QED
  BY <1>2, <1>3, <1>4, <1>5 DEF Next, StoreStep

(* What the receiver holds is what the sender meant: handles mean their    *)
(* tokens, and payloads are whole (static_tokens.rs, payload.rs).          *)
THEOREM DataArrives == Spec => []DataInv
<1>1. Types /\ StoreTypes => TypeOK
  <2> SUFFICES ASSUME Types, StoreTypes PROVE TypeOK
    OBVIOUS
  <2>1. ASSUME NEW t \in Tasks
        PROVE  /\ task[t].pc \in {"idle", "bind", "entry", "payload", "terminate"}
               /\ task[t].entry \in Entries \cup {"none"} /\ task[t].handle \in 0..Len(ours)
               /\ task[t].pipe \in Pipes
               /\ recv[t].pc \in {"recv", "poll", "parked"}
               /\ current[t].entry \in Entries \cup {"none"}
    <3>1. /\ task[t] \in TaskStates /\ task[t].pipe \in Pipes /\ task[t].handle \in Nat
          /\ task[t].handle <= Len(ours) /\ Len(ours) \in Nat
          /\ task[t].pc \in {"idle", "bind", "entry", "payload", "terminate"}
      BY TaskFields DEF Types
    <3>2. task[t].entry \in Entries \cup {"none"}
      BY <3>1 DEF TaskStates
    <3>3. recv[t].pc \in {"recv", "poll", "parked"} /\ (current[t] # None => current[t].entry \in Entries)
      BY CurrentFields DEF Types
    <3>4. None.entry = "none"
      BY DEF None
    <3> QED
      BY <3>1, <3>2, <3>3, <3>4
  <2> QED
    BY <2>1 DEF TypeOK, Types, SenderTypes, ChannelTypes, ReceiverTypes, StoreTypes
<1>2. Types /\ HandleInv /\ TableInv => HandlesMeanTheirTokens
  <2> SUFFICES ASSUME Types, HandleInv, TableInv PROVE HandlesMeanTheirTokens
    OBVIOUS
  <2>1. ASSUME NEW t \in Tasks, NEW i \in DOMAIN chan[t], chan[t][i].kind = "Entry"
        PROVE  ours[chan[t][i].handle] = TokenOf[chan[t][i].entry]
    <3>1. DOMAIN chan[t] = 1..Len(chan[t])
      BY DEF Types, ChannelTypes
    <3> QED
      BY <2>1, <3>1 DEF HandleInv, Bound
  <2>2. \A t \in Tasks : recv[t].pc = "parked" => recv[t].msg.handle > Len(theirs)
    BY DEF HandleInv
  <2> QED
    BY <2>1, <2>2, TableIsPrefix DEF HandlesMeanTheirTokens
<1>3. TransferInv => PayloadsAreWhole
  BY DEF TransferInv
<1>4. Types /\ StoreTypes /\ HandleInv /\ TableInv /\ TransferInv => DataInv
  BY <1>1, <1>2, <1>3 DEF DataInv
<1>5. Init => StoreTypes
  BY DEF Init, StoreTypes
<1>6. Spec => []StoreTypes
  BY <1>5, StoreTypesStep, PTL DEF Spec
<1> QED
  BY <1>4, <1>6, Typing, TablesAgree, Transfers, PTL

=============================================================================
