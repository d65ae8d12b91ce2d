------------------------------- MODULE Channel -------------------------------
(***************************************************************************)
(* One direction of one WGPS channel, from the senders of a session to the *)
(* receiver of its peer (util/channel.rs and the loops of net.rs):         *)
(*                                                                         *)
(*   senders -> out -> send_loop -> QUIC stream -> recv_loop -> inn -> receiver *)
(*                                                                         *)
(* out and inn are the two `Inner`s of prepare_channel, each behind a mutex *)
(* that one poll holds: a poll is one step.  A task that got Pending sleeps *)
(* until a waker it left is woken, and is only then polled again.          *)
(*                                                                         *)
(* The bytes of a message carry the message they belong to and its length: *)
(* what a decoder reads off the head of the buffer.  The QUIC stream is    *)
(* external: it keeps the order, splits as it likes, can be finished by    *)
(* its sender, stopped by its receiver, and be lost with the connection.   *)
(***************************************************************************)
EXTENDS Integers, Sequences

CONSTANTS
    Senders,    \* the tasks that hold a clone of the Sender
    Lengths,    \* encoded_len of the messages
    Cap,        \* CHANNEL_CAP, the max_buffer_size of both buffers
    Modulus,    \* 2^64, the modulus of a guarantee counter
    Amounts,    \* the amounts of the ControlIssueGuarantee messages
    Limited,    \* FALSE for the control channel
    Window,     \* flow control window of the QUIC stream, in bytes
    MaxSends,   \* bound: messages per sender
    MaxIssues   \* bound: ControlIssueGuarantee messages

ASSUME ChannelAssumption ==
    /\ Cap \in Nat \ {0} /\ Window \in Nat \ {0}
    /\ Modulus \in Nat /\ Cap < Modulus
    /\ Lengths \subseteq Nat \ {0}
    /\ Amounts \subseteq 0..(Modulus - 1)
    /\ Limited \in BOOLEAN
    /\ MaxSends \in Nat /\ MaxIssues \in Nat
    /\ {"send_loop", "recv_loop", "receiver"} \cap Senders = {}

VARIABLES
    out,        \* Inner of the outbound channel
    inn,        \* Inner of the inbound channel
    asleep,     \* tasks whose last poll returned Pending and that no waker woke
    handle,     \* senders that have not dropped their Sender (sender_count)
    pending,    \* per sender: length of the message it is sending, 0 for none
    count,      \* per sender: messages it has started to send
    send,       \* send_loop: where it is, and the chunk write_chunk still holds
    stream,     \* the QUIC stream: bytes in flight, finished, stopped, lost
    recv,       \* recv_loop: where it is, and what write_all still holds
    rx,         \* the Receiver: "open", "none", "incomplete", "garbled", "dropped"
    issues,     \* guarantees issued so far: how often, and their sum
    accepted,   \* history: the bytes of every message that was accepted
    received    \* history: the bytes of every message that was decoded

vars == << out, inn, asleep, handle, pending, count, send, stream, recv, rx,
           issues, accepted, received >>

Tasks == Senders \cup {"send_loop", "recv_loop", "receiver"}

(* The lengths a buffer can take: nothing in channel.rs compares a message *)
(* with max_buffer_size, a longer one just never fits.                     *)
Fitting == {len \in Lengths : len <= Cap}

(* Byte i of the k-th message of sender s, which is len bytes long.        *)
Byte == [from: Senders, k: Nat, i: Nat, len: Fitting]

Message(s, k, len) == [i \in 1..len |-> [from |-> s, k |-> k, i |-> i, len |-> len]]

Inner == [buf: Seq(Byte), closed: BOOLEAN, limited: BOOLEAN, guarantees: 0..(Modulus - 1),
          write_wakers: SUBSET Tasks, read_wakers: SUBSET Tasks]

NewInner(limited) ==
    [buf |-> << >>, closed |-> FALSE, limited |-> limited, guarantees |-> 0,
     write_wakers |-> {}, read_wakers |-> {}]

SmallerOf(a, b) == IF a < b THEN a ELSE b

Drop(s, n) == SubSeq(s, n + 1, Len(s))

TypeOK ==
    /\ out \in Inner /\ inn \in Inner
    /\ asleep \subseteq Tasks
    /\ handle \subseteq Senders
    /\ pending \in [Senders -> Nat] /\ count \in [Senders -> Nat]
    /\ send \in [pc: {"read", "write", "finished", "done", "failed"}, chunk: Seq(Byte)]
    /\ stream \in [bytes: Seq(Byte), fin: BOOLEAN, stopped: BOOLEAN, lost: BOOLEAN]
    /\ recv \in [pc: {"read", "write", "done", "failed"}, chunk: Seq(Byte)]
    /\ rx \in {"open", "none", "incomplete", "garbled", "dropped"}
    /\ issues \in [n: Nat, sum: Nat]
    /\ accepted \in Seq(Byte) /\ received \in Seq(Byte)

-----------------------------------------------------------------------------
(* The methods of Guarantees and Inner, as functions of the record.        *)

(* Guarantees::get.                                                        *)
GuaranteesGet(c) == IF c.limited THEN c.guarantees ELSE Modulus - 1

(* Guarantees::use; nothing changes when they are unlimited.               *)
GuaranteesUse(c, n) == IF c.limited THEN (c.guarantees - n) % Modulus ELSE c.guarantees

(* Guarantees::add.                                                        *)
GuaranteesAdd(c, n) == IF c.limited THEN (c.guarantees + n) % Modulus ELSE c.guarantees

RemainingWriteCapacity(c) == SmallerOf(Cap - Len(c.buf), GuaranteesGet(c))

(* wake_writable and wake_readable drain the list of wakers and wake all.  *)
WakeWritable(c) == [c EXCEPT !.write_wakers = {}]
WakeReadable(c) == [c EXCEPT !.read_wakers = {}]

Close(c) == WakeReadable(WakeWritable([c EXCEPT !.closed = TRUE]))

(* Slip: the readers are not woken.                                        *)
Put_Silent(c, bytes) ==
    [c EXCEPT !.buf = @ \o bytes, !.guarantees = GuaranteesUse(c, Len(bytes))]

(* The tail of poll_write and poll_send_message: the bytes go in, their    *)
(* number is taken off the guarantees, the readers are woken.              *)
Put(c, bytes) ==
    WakeReadable([c EXCEPT !.buf = @ \o bytes, !.guarantees = GuaranteesUse(c, Len(bytes))])

(* read_bytes and the decoded case of poll_recv_message.                   *)
Take(c, n) == WakeWritable([c EXCEPT !.buf = Drop(@, n)])

(* Slip: only a channel that had no guarantees left is woken up.           *)
AddGuarantees_FromZero(c, amount) ==
    LET more == [c EXCEPT !.guarantees = GuaranteesAdd(c, amount)]
    IN IF RemainingWriteCapacity(c) = 0 THEN WakeWritable(more) ELSE more

AddGuarantees(c, amount) ==
    LET more == [c EXCEPT !.guarantees = GuaranteesAdd(c, amount)]
    IN IF RemainingWriteCapacity(more) > RemainingWriteCapacity(c)
       THEN WakeWritable(more) ELSE more

(* The tasks whose wakers d no longer holds.                               *)
Woken(c, d) == (c.write_wakers \ d.write_wakers) \cup (c.read_wakers \ d.read_wakers)

SetOut(new) == out' = new /\ asleep' = asleep \ Woken(out, new)
SetInn(new) == inn' = new /\ asleep' = asleep \ Woken(inn, new)

(* poll_write, poll_send_message: a waker is left and the task sleeps.     *)
ParkOnWrite(c, t) == [c EXCEPT !.write_wakers = @ \cup {t}]
ParkOnRead(c, t)  == [c EXCEPT !.read_wakers = @ \cup {t}]

-----------------------------------------------------------------------------

Init ==
    /\ out = NewInner(Limited)
    /\ inn = NewInner(FALSE)
    /\ asleep = {}
    /\ handle = Senders
    /\ pending = [s \in Senders |-> 0]
    /\ count = [s \in Senders |-> 0]
    /\ send = [pc |-> "read", chunk |-> << >>]
    /\ stream = [bytes |-> << >>, fin |-> FALSE, stopped |-> FALSE, lost |-> FALSE]
    /\ recv = [pc |-> "read", chunk |-> << >>]
    /\ rx = "open"
    /\ issues = [n |-> 0, sum |-> 0]
    /\ accepted = << >>
    /\ received = << >>

(* A task calls ChannelSenders::send.                                      *)
StartSend(s, len) ==
    /\ s \in handle
    /\ pending[s] = 0
    /\ count[s] < MaxSends
    /\ pending' = [pending EXCEPT ![s] = len]
    /\ count' = [count EXCEPT ![s] = @ + 1]
    /\ UNCHANGED << out, inn, asleep, handle, send, stream, recv, rx, issues,
                    accepted, received >>

(* Slip: what fits of the message is written, as poll_write does.          *)
PollSend_Partial(s) ==
    LET n     == SmallerOf(pending[s], RemainingWriteCapacity(out))
        bytes == SubSeq(Message(s, count[s], pending[s]), 1, n)
    IN /\ s \in handle \ asleep /\ pending[s] > 0
       /\ ~ out.closed
       /\ n > 0
       /\ SetOut(Put(out, bytes))
       /\ accepted' = accepted \o bytes
       /\ pending' = [pending EXCEPT ![s] = @ - n]
       /\ UNCHANGED << inn, handle, count, send, stream, recv, rx, issues, received >>

(* poll_send_message: an error once closed, all of the message if it fits, *)
(* otherwise the task sleeps, for ever when the message is longer than the *)
(* buffer.  encode_into cannot fail after encoded_len: both serialise the  *)
(* same message and the slice has exactly that length (messages.rs:142-153, *)
(* where a message that cannot be serialised panics in encoded_len).       *)
PollSend(s) ==
    LET bytes == Message(s, count[s], pending[s]) IN
    /\ s \in handle \ asleep /\ pending[s] > 0
    /\ \/ /\ out.closed
          /\ pending' = [pending EXCEPT ![s] = 0]
          /\ UNCHANGED << out, asleep, accepted >>
       \/ /\ ~ out.closed /\ pending[s] <= RemainingWriteCapacity(out)
          /\ SetOut(Put(out, bytes))
          /\ accepted' = accepted \o bytes
          /\ pending' = [pending EXCEPT ![s] = 0]
       \/ /\ ~ out.closed /\ pending[s] > RemainingWriteCapacity(out)
          /\ out' = ParkOnWrite(out, s)
          /\ asleep' = asleep \cup {s}
          /\ UNCHANGED << accepted, pending >>
    /\ UNCHANGED << inn, handle, count, send, stream, recv, rx, issues, received >>

(* Sender::drop, with whatever its task was sending: the last one closes   *)
(* the channel.  A waker it left stays behind.                             *)
DropSender(s) ==
    /\ s \in handle
    /\ handle' = handle \ {s}
    /\ pending' = [pending EXCEPT ![s] = 0]
    /\ IF handle = {s}
       THEN out' = Close(out) /\ asleep' = asleep \ (Woken(out, Close(out)) \cup {s})
       ELSE asleep' = asleep \ {s} /\ UNCHANGED out
    /\ UNCHANGED << inn, count, send, stream, recv, rx, issues, accepted, received >>

(* Sender::close, from ChannelSenders::close_all at the end of a session.  *)
CloseSenders ==
    /\ handle # {} /\ ~ out.closed
    /\ SetOut(Close(out))
    /\ UNCHANGED << inn, handle, pending, count, send, stream, recv, rx, issues,
                    accepted, received >>

(* The control loop got a ControlIssueGuarantee for this channel.          *)
IssueGuarantee(amount) ==
    /\ issues.n < MaxIssues /\ handle # {}
    /\ SetOut(AddGuarantees(out, amount))
    /\ issues' = [n |-> issues.n + 1, sum |-> issues.sum + amount]
    /\ UNCHANGED << inn, handle, pending, count, send, stream, recv, rx, accepted, received >>

-----------------------------------------------------------------------------
(* send_loop.                                                              *)

(* Reader::read_bytes: the whole buffer, or the end once closed.           *)
SendRead ==
    /\ send.pc = "read" /\ "send_loop" \notin asleep
    /\ \/ /\ out.buf # << >>
          /\ send' = [pc |-> "write", chunk |-> out.buf]
          /\ SetOut(Take(out, Len(out.buf)))
          /\ UNCHANGED stream
       \/ /\ out.buf = << >> /\ out.closed
          /\ send' = [send EXCEPT !.pc = "finished"]
          /\ stream' = [stream EXCEPT !.fin = TRUE]
          /\ UNCHANGED << out, asleep >>
       \/ /\ out.buf = << >> /\ ~ out.closed
          /\ out' = ParkOnRead(out, "send_loop")
          /\ asleep' = asleep \cup {"send_loop"}
          /\ UNCHANGED << send, stream >>
    /\ UNCHANGED << inn, handle, pending, count, recv, rx, issues, accepted, received >>

(* Slip: write for write_chunk: what flow control holds back is dropped.   *)
SendWrite_Short(n) ==
    /\ send.pc = "write" /\ ~ stream.stopped /\ ~ stream.lost
    /\ n \in 1..Len(send.chunk) /\ Len(stream.bytes) + n <= Window
    /\ stream' = [stream EXCEPT !.bytes = @ \o SubSeq(send.chunk, 1, n)]
    /\ send' = [pc |-> "read", chunk |-> << >>]
    /\ UNCHANGED << out, inn, asleep, handle, pending, count, recv, rx, issues,
                    accepted, received >>

(* SendStream::write_chunk hands over what flow control lets pass.         *)
SendWrite(n) ==
    /\ send.pc = "write" /\ ~ stream.stopped /\ ~ stream.lost
    /\ n \in 1..Len(send.chunk) /\ Len(stream.bytes) + n <= Window
    /\ stream' = [stream EXCEPT !.bytes = @ \o SubSeq(send.chunk, 1, n)]
    /\ send' = [pc |-> IF n = Len(send.chunk) THEN "read" ELSE "write",
                chunk |-> Drop(send.chunk, n)]
    /\ UNCHANGED << out, inn, asleep, handle, pending, count, recv, rx, issues,
                    accepted, received >>

(* SendStream::stopped returns: all was acknowledged, or the peer stopped. *)
SendDone ==
    /\ send.pc = "finished" /\ ~ stream.lost
    /\ send' = [send EXCEPT !.pc = "done"]
    /\ SetOut(Close(out))
    /\ UNCHANGED << inn, handle, pending, count, stream, recv, rx, issues, accepted, received >>

(* write_chunk or stopped fails, or the connection is lost and another     *)
(* loop's error makes try_join drop this one.  Its Reader is dropped.      *)
SendFails ==
    /\ send.pc \in {"read", "write", "finished"}
    /\ stream.lost \/ (send.pc = "write" /\ stream.stopped)
    /\ send' = [pc |-> "failed", chunk |-> << >>]
    /\ out' = Close(out)
    /\ asleep' = asleep \ (Woken(out, Close(out)) \cup {"send_loop"})
    /\ UNCHANGED << inn, handle, pending, count, stream, recv, rx, issues, accepted, received >>

-----------------------------------------------------------------------------
(* recv_loop.                                                              *)

(* RecvStream::read_chunk: at most max_buffer_size bytes, or the end.      *)
RecvRead(n) ==
    /\ recv.pc = "read" /\ ~ stream.lost
    /\ n \in 1..SmallerOf(Cap, Len(stream.bytes))
    /\ recv' = [pc |-> "write", chunk |-> SubSeq(stream.bytes, 1, n)]
    /\ stream' = [stream EXCEPT !.bytes = Drop(@, n)]
    /\ UNCHANGED << out, inn, asleep, handle, pending, count, send, rx, issues,
                    accepted, received >>

(* The stream ended: Writer::close.                                        *)
RecvEnd ==
    /\ recv.pc = "read" /\ stream.bytes = << >> /\ stream.fin
    /\ ~ stream.lost
    /\ recv' = [recv EXCEPT !.pc = "done"]
    /\ SetInn(Close(inn))
    /\ UNCHANGED << out, handle, pending, count, send, stream, rx, issues, accepted, received >>

(* One poll_write of write_all: what fits; or nothing, and sleep; or       *)
(* BrokenPipe, upon which the stream is stopped.                           *)
RecvWrite ==
    /\ recv.pc = "write" /\ "recv_loop" \notin asleep
    /\ \/ /\ inn.closed
          /\ recv' = [pc |-> "done", chunk |-> << >>]
          /\ stream' = [stream EXCEPT !.stopped = TRUE]
          /\ SetInn(Close(inn))
       \/ /\ ~ inn.closed /\ RemainingWriteCapacity(inn) = 0
          /\ inn' = ParkOnWrite(inn, "recv_loop")
          /\ asleep' = asleep \cup {"recv_loop"}
          /\ UNCHANGED << recv, stream >>
       \/ /\ ~ inn.closed /\ RemainingWriteCapacity(inn) > 0
          /\ LET n == SmallerOf(Len(recv.chunk), RemainingWriteCapacity(inn)) IN
                /\ SetInn(Put(inn, SubSeq(recv.chunk, 1, n)))
                /\ recv' = [pc |-> IF n = Len(recv.chunk) THEN "read" ELSE "write",
                            chunk |-> Drop(recv.chunk, n)]
          /\ UNCHANGED stream
    /\ UNCHANGED << out, handle, pending, count, send, rx, issues, accepted, received >>

(* read_chunk fails, or try_join drops the loop: its Writer is dropped.    *)
RecvFails ==
    /\ recv.pc \in {"read", "write"} /\ stream.lost
    /\ recv' = [pc |-> "failed", chunk |-> << >>]
    /\ inn' = Close(inn)
    /\ asleep' = asleep \ (Woken(inn, Close(inn)) \cup {"recv_loop"})
    /\ UNCHANGED << out, handle, pending, count, send, stream, rx, issues, accepted, received >>

-----------------------------------------------------------------------------
(* The receiver.                                                           *)

(* decode_from has a whole message at the head of the buffer.              *)
Decodable(buf) == buf # << >> /\ buf[1].len <= Len(buf)

(* Those bytes are the bytes of one message.                               *)
Intact(bytes) ==
    \A i \in 1..Len(bytes) :
        bytes[i] = [bytes[1] EXCEPT !.i = i] /\ Len(bytes) = bytes[1].len

(* poll_recv_message.                                                      *)
PollRecv ==
    /\ rx = "open" /\ "receiver" \notin asleep
    /\ \/ /\ inn.closed /\ inn.buf = << >>
          /\ rx' = "none"
          /\ UNCHANGED << inn, asleep, received >>
       \/ /\ inn.closed /\ inn.buf # << >> /\ ~ Decodable(inn.buf)
          /\ rx' = "incomplete"
          /\ UNCHANGED << inn, asleep, received >>
       \/ /\ ~ inn.closed /\ ~ Decodable(inn.buf)
          /\ inn' = ParkOnRead(inn, "receiver")
          /\ asleep' = asleep \cup {"receiver"}
          /\ UNCHANGED << rx, received >>
       \/ /\ Decodable(inn.buf)
          /\ LET bytes == SubSeq(inn.buf, 1, inn.buf[1].len) IN
                /\ SetInn(Take(inn, Len(bytes)))
                /\ received' = received \o bytes
                /\ rx' = IF Intact(bytes) THEN "open" ELSE "garbled"
    /\ UNCHANGED << out, handle, pending, count, send, stream, recv, issues, accepted >>

(* The session is over: Receiver::drop closes the channel.                 *)
DropReceiver ==
    /\ rx # "dropped"
    /\ rx' = "dropped"
    /\ inn' = Close(inn)
    /\ asleep' = asleep \ (Woken(inn, Close(inn)) \cup {"receiver"})
    /\ UNCHANGED << out, handle, pending, count, send, stream, recv, issues, accepted, received >>

-----------------------------------------------------------------------------

(* The connection is lost.                                                 *)
ConnectionLost ==
    /\ ~ stream.lost
    /\ stream' = [stream EXCEPT !.lost = TRUE]
    /\ UNCHANGED << out, inn, asleep, handle, pending, count, send, recv, rx, issues,
                    accepted, received >>

SenderNext == \E s \in Senders : PollSend(s) \/ DropSender(s) \/ \E len \in Lengths : StartSend(s, len)

LoopNext ==
    \/ SendRead \/ SendDone \/ SendFails \/ \E n \in 1..Len(send.chunk) : SendWrite(n)
    \/ RecvEnd \/ RecvWrite \/ RecvFails \/ \E n \in 1..Len(stream.bytes) : RecvRead(n)

Next ==
    \/ SenderNext
    \/ CloseSenders
    \/ \E amount \in Amounts : IssueGuarantee(amount)
    \/ LoopNext
    \/ PollRecv
    \/ DropReceiver
    \/ ConnectionLost

(* Senders and loops are polled when they are awake, and the network moves *)
(* what it holds.  Nobody has to send, close, drop, lose or guarantee      *)
(* anything, and the receiver need not poll: its task may be held up in a  *)
(* send of its own (reconciler.rs:569).                                    *)
Fairness ==
    /\ \A s \in Senders : WF_vars(PollSend(s))
    /\ WF_vars(SendRead) /\ WF_vars(SendDone) /\ WF_vars(SendFails)
    /\ WF_vars(\E n \in 1..Len(send.chunk) : SendWrite(n))
    /\ WF_vars(RecvEnd) /\ WF_vars(RecvWrite) /\ WF_vars(RecvFails)
    /\ WF_vars(\E n \in 1..Len(stream.bytes) : RecvRead(n))

Spec == Init /\ [][Next]_vars /\ Fairness

-----------------------------------------------------------------------------

(* No wakeup is lost in either buffer: a task that sleeps has left a waker *)
(* and could not go on if it were polled.  The four polls of channel.rs    *)
(* leave wakers, and put, take, add_guarantees, close and the drops of the *)
(* four ends wake them.                                                    *)
NoLostWakeup ==
    /\ \A s \in Senders \cap asleep :
          s \in out.write_wakers /\ ~ out.closed /\ pending[s] > RemainingWriteCapacity(out)
    /\ "send_loop" \in asleep =>
          "send_loop" \in out.read_wakers /\ ~ out.closed /\ out.buf = << >>
    /\ "recv_loop" \in asleep =>
          "recv_loop" \in inn.write_wakers /\ ~ inn.closed /\ RemainingWriteCapacity(inn) = 0
    /\ "receiver" \in asleep =>
          "receiver" \in inn.read_wakers /\ ~ inn.closed /\ ~ Decodable(inn.buf)

(* Neither counter of a buffer wraps: the buffer never exceeds its bound   *)
(* (max_buffer_size - buf.len() is an unsigned subtraction), and no more   *)
(* is accepted than the peer guaranteed to have room for.                  *)
WithinLimits ==
    /\ Len(out.buf) <= Cap /\ Len(inn.buf) <= Cap
    /\ Limited => Len(accepted) + out.guarantees <= issues.sum

(* What sits between a sender and the receiver, in order.                  *)
InTransit == inn.buf \o recv.chunk \o stream.bytes \o send.chunk \o out.buf

(* Every accepted byte is received or in transit, in the order in which it *)
(* was accepted, unless a loop gave up.  No loop drops, repeats or         *)
(* reorders what it holds over its awaits.                                 *)
NothingLostInTransit ==
    send.pc # "failed" /\ recv.pc # "failed" /\ ~ stream.stopped
        => accepted = received \o InTransit

(* The two ends of a buffer never wait for each other: a full inbound      *)
(* buffer holds a whole message, and a sender waits for room only while    *)
(* the send loop has something to do.  What is left is a sender that lacks *)
(* guarantees, or whose message is longer than the buffer.                 *)
NoMutualWait ==
    /\ ~ ({"recv_loop", "receiver"} \subseteq asleep)
    /\ \A s \in Senders : {s, "send_loop"} \subseteq asleep
                             => GuaranteesGet(out) < pending[s] \/ pending[s] > Cap

(* Neither buffer loses a wakeup or exceeds a limit, and nobody waits for  *)
(* somebody who waits: over any interleaving of senders, loops, receiver,  *)
(* guarantees, closing and drops.                                          *)
BufferInv == TypeOK /\ NoLostWakeup /\ WithinLimits /\ NoMutualWait

Pipe == INSTANCE MessagePipe WITH ended <- IF rx = "open" THEN "no" ELSE rx,
                                  broken <- stream.lost

(* The channel implements the pipe of messages: buffers, loops, partial    *)
(* writes, guarantees and wakers are invisible to the two sessions.        *)
ImplementsMessagePipe == Pipe!Spec

(* The receiver's task comes back to poll when it is awake: what progress  *)
(* presupposes of a session, and not what every session does.              *)
ReceiverPolls == WF_vars(PollRecv)

(* A send ends, with its message accepted or with WriteError::Closed: one  *)
(* that never does lacks guarantees from some time on, or its message is   *)
(* longer than the buffer.                                                 *)
SendsEnd ==
    \A s \in Senders :
        <>[](pending[s] > 0) => <>[](GuaranteesGet(out) < pending[s] \/ pending[s] > Cap)

(* What is accepted arrives, unless the connection or the receiver goes.   *)
AcceptedArrives ==
    \A n \in 1..(Cap * MaxSends) :
        Len(accepted) >= n ~> Len(received) >= n \/ stream.lost \/ rx = "dropped"

(* A closed channel ends at the receiver.                                  *)
CloseReachesReceiver == out.closed ~> rx # "open"

(* With a receiver that polls, the channel makes progress: sends end but   *)
(* for the two cases of SendsEnd, bytes arrive, the end arrives.           *)
Progress == ReceiverPolls => SendsEnd /\ AcceptedArrives /\ CloseReachesReceiver

=============================================================================
