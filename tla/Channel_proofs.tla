---------------------------- MODULE Channel_proofs ----------------------------
(***************************************************************************)
(* The safety properties of a channel and its refinement of MessagePipe,   *)
(* for any number of senders, any message lengths, buffer bound, guarantee *)
(* modulus, flow control window and number of messages.                    *)
(*                                                                         *)
(* Four inductive invariants, each of which uses the ones before it:       *)
(* TypeInv, WakeInv (who sleeps, and why), TransitInv (where the bytes     *)
(* are, and who may have given up) and FrameInv (message boundaries).      *)
(***************************************************************************)
EXTENDS Channel, SequenceTheorems, TLAPS

TypeInv ==
    /\ TypeOK
    /\ out.limited = Limited /\ inn.limited = FALSE
    /\ \A s \in Senders :
          /\ count[s] <= MaxSends
          /\ pending[s] > 0 => pending[s] \in Lengths /\ count[s] \in 1..MaxSends

-----------------------------------------------------------------------------
(* The operators of the model.                                             *)

(* Taking the first n of a sequence and keeping the rest loses nothing:    *)
(* how write_chunk, read_chunk, poll_write and decode_from split a buffer. *)
LEMMA Split ==
    ASSUME NEW S, NEW s \in Seq(S), NEW n \in 0..Len(s)
    PROVE  /\ SubSeq(s, 1, n) \in Seq(S) /\ Len(SubSeq(s, 1, n)) = n
           /\ \A i \in 1..n : SubSeq(s, 1, n)[i] = s[i]
           /\ Drop(s, n) \in Seq(S) /\ Len(Drop(s, n)) = Len(s) - n
           /\ s = SubSeq(s, 1, n) \o Drop(s, n)
<1>1. Len(s) \in Nat /\ \A i \in 1..Len(s) : s[i] \in S
  BY LenProperties, ElementOfSeq
<1>2. /\ SubSeq(s, 1, n) \in Seq(S) /\ Len(SubSeq(s, 1, n)) = n
      /\ \A i \in 1..n : SubSeq(s, 1, n)[i] = s[i]
  BY <1>1
<1>3. Drop(s, n) \in Seq(S) /\ Len(Drop(s, n)) = Len(s) - n
  BY <1>1 DEF Drop
<1>4. s = SubSeq(s, 1, n) \o Drop(s, n)
  <2>1. SubSeq(s, 1, Len(s)) = s
    BY SubSeqFull
  <2>2. /\ 1 \in 1..(Len(s) + 1) /\ n \in (1 - 1)..Len(s) /\ Len(s) \in n..Len(s)
    BY <1>1
  <2>3. SubSeq(s, 1, n) \o SubSeq(s, n + 1, Len(s)) = SubSeq(s, 1, Len(s))
    BY <2>2, ConcatAdjacentSubSeq
  <2> QED
    BY <2>1, <2>3 DEF Drop
<1> QED
  BY <1>2, <1>3, <1>4

(* A message that fits has at least one byte and at most max_buffer_size.  *)
LEMMA FittingLength ==
    ASSUME NEW len \in Fitting
    PROVE  len \in 1..Cap /\ Cap \in Nat
<1>1. len \in Lengths /\ len <= Cap
  BY DEF Fitting
<1>2. len \in Nat \ {0} /\ Cap \in Nat
  BY <1>1, ChannelAssumption
<1> QED
  BY <1>1, <1>2

(* The bytes of a message.                                                 *)
LEMMA MessageBytes ==
    ASSUME NEW s \in Senders, NEW k \in Nat, NEW len \in Fitting
    PROVE  /\ Message(s, k, len) \in Seq(Byte) /\ Len(Message(s, k, len)) = len
           /\ len \in 1..Cap
<1>1. len \in 1..Cap /\ Cap \in Nat
  BY ChannelAssumption DEF Fitting
<1>2. Message(s, k, len) \in [1..len -> Byte]
  BY <1>1 DEF Message, Byte
<1> QED
  BY <1>1, <1>2

(* Guarantees::use within what is left does not wrap, Guarantees::add may. *)
LEMMA GuaranteeArithmetic ==
    ASSUME NEW c \in Inner, NEW n \in Nat
    PROVE  /\ GuaranteesUse(c, n) \in 0..(Modulus - 1)
           /\ GuaranteesAdd(c, n) \in 0..(Modulus - 1)
           /\ GuaranteesAdd(c, n) <= c.guarantees + n
           /\ n <= GuaranteesGet(c) /\ c.limited => GuaranteesUse(c, n) = c.guarantees - n
           /\ c.limited => GuaranteesGet(c) = c.guarantees
           /\ ~ c.limited => GuaranteesGet(c) = Modulus - 1 /\ GuaranteesUse(c, n) = c.guarantees
           /\ GuaranteesGet(c) \in Nat
<1>1. Modulus \in Nat \ {0} /\ c.guarantees \in 0..(Modulus - 1) /\ c.limited \in BOOLEAN
  BY ChannelAssumption DEF Inner
<1> DEFINE g == c.guarantees
<1>2. g - n \in Int /\ g + n \in Nat
  BY <1>1
<1>3. (g - n) % Modulus \in 0..(Modulus - 1) /\ (g + n) % Modulus \in 0..(Modulus - 1)
  BY <1>1, <1>2
<1>4. (g + n) % Modulus <= g + n
  BY <1>1, <1>2
<1>5. n <= g => (g - n) % Modulus = g - n
  BY <1>1
<1> QED
  BY <1>1, <1>3, <1>4, <1>5 DEF GuaranteesUse, GuaranteesAdd, GuaranteesGet

(* The fields of a buffer.                                                 *)
LEMMA InnerFields ==
    ASSUME NEW c \in Inner
    PROVE  /\ c.buf \in Seq(Byte) /\ Len(c.buf) \in Nat
           /\ c.closed \in BOOLEAN /\ c.limited \in BOOLEAN
           /\ c.guarantees \in 0..(Modulus - 1)
           /\ c.write_wakers \subseteq Tasks /\ c.read_wakers \subseteq Tasks
  BY LenProperties DEF Inner

(* What put does to a buffer.                                              *)
LEMMA PutFields ==
    ASSUME NEW c \in Inner, NEW bytes \in Seq(Byte)
    PROVE  LET d == Put(c, bytes) IN
           /\ d \in Inner
           /\ d.buf = c.buf \o bytes /\ Len(d.buf) = Len(c.buf) + Len(bytes)
           /\ d.closed = c.closed /\ d.limited = c.limited
           /\ d.guarantees = GuaranteesUse(c, Len(bytes))
           /\ d.write_wakers = c.write_wakers /\ d.read_wakers = {}
<1>1. Len(bytes) \in Nat
  BY LenProperties
<1>2. GuaranteesUse(c, Len(bytes)) \in 0..(Modulus - 1)
  BY <1>1, GuaranteeArithmetic
<1>3. c.buf \o bytes \in Seq(Byte) /\ Len(c.buf \o bytes) = Len(c.buf) + Len(bytes)
  BY InnerFields, ConcatProperties
<1> QED
  BY <1>2, <1>3 DEF Inner, Put, WakeReadable

(* What taking n bytes does to a buffer.                                   *)
LEMMA TakeFields ==
    ASSUME NEW c \in Inner, NEW n \in 0..Len(c.buf)
    PROVE  LET d == Take(c, n) IN
           /\ d \in Inner
           /\ d.buf = Drop(c.buf, n) /\ Len(d.buf) = Len(c.buf) - n
           /\ d.closed = c.closed /\ d.limited = c.limited /\ d.guarantees = c.guarantees
           /\ d.write_wakers = {} /\ d.read_wakers = c.read_wakers
<1>1. Drop(c.buf, n) \in Seq(Byte) /\ Len(Drop(c.buf, n)) = Len(c.buf) - n
  BY InnerFields, Split
<1> QED
  BY <1>1 DEF Inner, Take, WakeWritable

(* What closing does to a buffer.                                          *)
LEMMA CloseFields ==
    ASSUME NEW c \in Inner
    PROVE  LET d == Close(c) IN
           /\ d \in Inner
           /\ d.buf = c.buf /\ d.closed = TRUE /\ d.limited = c.limited
           /\ d.guarantees = c.guarantees
           /\ d.write_wakers = {} /\ d.read_wakers = {}
  BY DEF Inner, Close, WakeReadable, WakeWritable

(* What leaving a waker does to a buffer.                                  *)
LEMMA ParkFields ==
    ASSUME NEW c \in Inner, NEW t \in Tasks
    PROVE  /\ LET d == ParkOnWrite(c, t) IN
              /\ d \in Inner
              /\ d.buf = c.buf /\ d.closed = c.closed /\ d.limited = c.limited
              /\ d.guarantees = c.guarantees
              /\ d.write_wakers = c.write_wakers \cup {t} /\ d.read_wakers = c.read_wakers
           /\ LET d == ParkOnRead(c, t) IN
              /\ d \in Inner
              /\ d.buf = c.buf /\ d.closed = c.closed /\ d.limited = c.limited
              /\ d.guarantees = c.guarantees
              /\ d.write_wakers = c.write_wakers /\ d.read_wakers = c.read_wakers \cup {t}
  BY DEF Inner, ParkOnWrite, ParkOnRead

(* What add_guarantees does to a buffer: whoever is not woken has no more  *)
(* room than before.                                                       *)
LEMMA GuaranteeFields ==
    ASSUME NEW c \in Inner, NEW amount \in Nat
    PROVE  LET d == AddGuarantees(c, amount) IN
           /\ d \in Inner
           /\ d.buf = c.buf /\ d.closed = c.closed /\ d.limited = c.limited
           /\ d.guarantees = GuaranteesAdd(c, amount)
           /\ d.read_wakers = c.read_wakers
           /\ \/ d.write_wakers = {}
              \/ /\ d.write_wakers = c.write_wakers
                 /\ ~ (RemainingWriteCapacity(d) > RemainingWriteCapacity(c))
<1> DEFINE more == [c EXCEPT !.guarantees = GuaranteesAdd(c, amount)]
<1>1. GuaranteesAdd(c, amount) \in 0..(Modulus - 1)
  BY GuaranteeArithmetic
<1>2. /\ more \in Inner /\ more.buf = c.buf /\ more.closed = c.closed
      /\ more.limited = c.limited /\ more.guarantees = GuaranteesAdd(c, amount)
      /\ more.read_wakers = c.read_wakers /\ more.write_wakers = c.write_wakers
  BY <1>1 DEF Inner
<1>3. AddGuarantees(c, amount)
        = IF RemainingWriteCapacity(more) > RemainingWriteCapacity(c)
          THEN WakeWritable(more) ELSE more
  BY DEF AddGuarantees
<1> HIDE DEF more
<1>4. CASE RemainingWriteCapacity(more) > RemainingWriteCapacity(c)
  BY <1>2, <1>3, <1>4 DEF WakeWritable, Inner
<1>5. CASE ~ (RemainingWriteCapacity(more) > RemainingWriteCapacity(c))
  BY <1>2, <1>3, <1>5
<1> QED
  BY <1>4, <1>5

-----------------------------------------------------------------------------
(* Typing.                                                                 *)

(* A decodable buffer starts with a length between one and its own.        *)
LEMMA DecodableLength ==
    ASSUME NEW buf \in Seq(Byte), Decodable(buf)
    PROVE  buf[1] \in Byte /\ buf[1].len \in 1..Len(buf) /\ Len(buf) \in Nat
<1>1. Len(buf) \in Nat /\ 1 \in 1..Len(buf)
  BY LenProperties, EmptySeq DEF Decodable
<1>2. buf[1] \in Byte
  BY <1>1, ElementOfSeq
<1>3. buf[1].len \in Fitting
  BY <1>2 DEF Byte
<1> QED
  <2>1. buf[1].len \in 1..Cap /\ Cap \in Nat
    BY <1>3, FittingLength
  <2>2. buf[1].len <= Len(buf)
    BY DEF Decodable
  <2> QED
    BY <1>1, <1>2, <2>1, <2>2

(* remaining_write_capacity is bounded by the buffer and by the guarantees. *)
LEMMA Capacity ==
    ASSUME NEW c \in Inner, Len(c.buf) <= Cap
    PROVE  /\ RemainingWriteCapacity(c) \in Nat
           /\ RemainingWriteCapacity(c) <= Cap - Len(c.buf)
           /\ RemainingWriteCapacity(c) <= GuaranteesGet(c)
           /\ RemainingWriteCapacity(c) \in {Cap - Len(c.buf), GuaranteesGet(c)}
<1>1. Len(c.buf) \in Nat /\ Cap \in Nat
  BY InnerFields, ChannelAssumption
<1>2. GuaranteesGet(c) \in Nat
  <2>1. 0 \in Nat
    OBVIOUS
  <2> QED
    BY <2>1, GuaranteeArithmetic
<1> QED
  BY <1>1, <1>2 DEF RemainingWriteCapacity, SmallerOf

(* What fits in a buffer's remaining capacity is no longer than the buffer. *)
LEMMA FitsBuffer ==
    ASSUME NEW c \in Inner, NEW len \in Lengths, len <= RemainingWriteCapacity(c)
    PROVE  len \in Fitting
<1>1. Len(c.buf) \in Nat /\ Cap \in Nat /\ len \in Nat
  BY InnerFields, ChannelAssumption
<1>2. GuaranteesGet(c) \in Nat
  BY <1>1, GuaranteeArithmetic
<1>3. len <= Cap
  BY <1>1, <1>2 DEF RemainingWriteCapacity, SmallerOf
<1> QED
  BY <1>3 DEF Fitting

(* The number of bytes that one poll_write of write_all moves.             *)
LEMMA WriteLength ==
    ASSUME NEW c \in Inner, Len(c.buf) <= Cap, NEW chunk \in Seq(Byte)
    PROVE  LET n == SmallerOf(Len(chunk), RemainingWriteCapacity(c)) IN
           n \in 0..Len(chunk) /\ n <= RemainingWriteCapacity(c)
<1>1. Len(chunk) \in Nat
  BY LenProperties
<1>2. RemainingWriteCapacity(c) \in Nat
  BY Capacity
<1> QED
  BY <1>1, <1>2 DEF SmallerOf

(* A buffer never exceeds max_buffer_size, on either side.                 *)
Bounded == Len(out.buf) <= Cap /\ Len(inn.buf) <= Cap

(* Every variable keeps its type, the buffers their bound, and what a      *)
(* sender is sending is a message it has counted.                          *)
THEOREM Typing == Spec => [](TypeInv /\ Bounded)
<1>1. Init => TypeInv /\ Bounded
  <2> SUFFICES ASSUME Init PROVE TypeInv /\ Bounded
    OBVIOUS
  <2>1. << >> \in Seq(Byte) /\ Len(<< >>) = 0
    BY EmptySeq
  <2>2. out \in Inner /\ inn \in Inner
    BY <2>1, ChannelAssumption DEF Init, NewInner, Inner
  <2>3. out.buf = << >> /\ inn.buf = << >> /\ out.limited = Limited /\ inn.limited = FALSE
    BY DEF Init, NewInner
  <2>4. TypeOK
    BY <2>1, <2>2 DEF Init, TypeOK
  <2>5. \A s \in Senders : count[s] = 0 /\ pending[s] = 0
    BY DEF Init
  <2> QED
    BY <2>1, <2>3, <2>4, <2>5, ChannelAssumption DEF TypeInv, Bounded
<1>2. TypeInv /\ Bounded /\ [Next]_vars => (TypeInv /\ Bounded)'
  <2> SUFFICES ASSUME TypeInv, Bounded, [Next]_vars PROVE (TypeInv /\ Bounded)'
    OBVIOUS
  <2> USE DEF TypeInv
  <2>1. /\ out \in Inner /\ inn \in Inner
        /\ send.chunk \in Seq(Byte) /\ stream.bytes \in Seq(Byte) /\ recv.chunk \in Seq(Byte)
        /\ Len(out.buf) \in Nat /\ Len(inn.buf) \in Nat
        /\ Len(send.chunk) \in Nat /\ Len(stream.bytes) \in Nat
    BY LenProperties, InnerFields DEF TypeOK
  <2>2. /\ "send_loop" \in Tasks /\ "recv_loop" \in Tasks /\ "receiver" \in Tasks
        /\ \A s \in Senders : s \in Tasks
    BY DEF Tasks
  <2>3. << >> \in Seq(Byte)
    BY EmptySeq
  <2>4. ASSUME NEW s \in Senders, NEW len \in Lengths, StartSend(s, len)
        PROVE  (TypeInv /\ Bounded)'
    <3>1. len \in Nat
      BY ChannelAssumption
    <3>2. /\ pending' = [pending EXCEPT ![s] = len] /\ count' = [count EXCEPT ![s] = @ + 1]
          /\ count[s] < MaxSends /\ count[s] \in Nat
          /\ UNCHANGED << out, inn, asleep, handle, send, stream, recv, rx, issues,
                          accepted, received >>
      BY <2>4 DEF StartSend, TypeOK
    <3>3. TypeOK'
      BY <3>1, <3>2 DEF TypeOK
    <3>4. \A t \in Senders :
            /\ count'[t] <= MaxSends
            /\ pending'[t] > 0 => pending'[t] \in Lengths /\ count'[t] \in 1..MaxSends
      BY <3>1, <3>2, ChannelAssumption DEF TypeOK
    <3> QED
      BY <3>2, <3>3, <3>4 DEF Bounded
  <2>5. ASSUME NEW s \in Senders, PollSend(s) PROVE (TypeInv /\ Bounded)'
    <3> DEFINE bytes == Message(s, count[s], pending[s])
    <3>1. /\ pending[s] > 0 /\ pending[s] \in Lengths /\ count[s] \in Nat
          /\ UNCHANGED << inn, handle, count, send, stream, recv, rx, issues, received >>
      BY <2>5 DEF PollSend, TypeOK
    <3>2. ASSUME pending[s] <= RemainingWriteCapacity(out)
          PROVE  bytes \in Seq(Byte) /\ Len(bytes) = pending[s]
      <4>1. pending[s] \in Fitting
        BY <2>1, <3>1, <3>2, FitsBuffer
      <4> QED
        BY <3>1, <4>1, MessageBytes
    <3> HIDE DEF bytes
    <3>3. CASE UNCHANGED << out, asleep, accepted >> /\ pending' = [pending EXCEPT ![s] = 0]
      BY <3>1, <3>3 DEF TypeOK, Bounded
    <3>4. CASE /\ pending[s] <= RemainingWriteCapacity(out)
               /\ SetOut(Put(out, bytes)) /\ accepted' = accepted \o bytes
               /\ pending' = [pending EXCEPT ![s] = 0]
      <4>0. bytes \in Seq(Byte) /\ Len(bytes) = pending[s]
        BY <3>2, <3>4
      <4>1. /\ out' \in Inner /\ out'.limited = out.limited
            /\ Len(out'.buf) = Len(out.buf) + pending[s]
        <5>1. out' = Put(out, bytes)
          BY <3>4 DEF SetOut
        <5>2. /\ out' \in Inner /\ out'.limited = out.limited
              /\ Len(out'.buf) = Len(out.buf) + Len(bytes)
          BY ONLY <2>1, <4>0, <5>1, PutFields
        <5> QED
          BY <4>0, <5>2
      <4>2. accepted' \in Seq(Byte)
        BY <4>0, <3>4, ConcatProperties DEF TypeOK
      <4>3. pending[s] <= Cap - Len(out.buf)
        <5>1. RemainingWriteCapacity(out) \in Nat /\ RemainingWriteCapacity(out) <= Cap - Len(out.buf)
          BY <2>1, Capacity DEF Bounded
        <5>2. pending[s] \in Nat
          BY DEF TypeOK
        <5> QED
          BY <2>1, <3>4, <5>1, <5>2, ChannelAssumption
      <4>4. asleep' \subseteq Tasks
        BY <3>4 DEF SetOut, TypeOK
      <4>5. TypeOK'
        BY <3>1, <3>4, <4>1, <4>2, <4>4 DEF TypeOK
      <4> QED
        <5>1. Len(out'.buf) <= Cap
          BY <2>1, <3>1, <4>1, <4>3, ChannelAssumption DEF TypeOK
        <5>2. \A t \in Senders : pending'[t] = pending[t] \/ pending'[t] = 0
          BY <3>4 DEF TypeOK
        <5> QED
          BY <3>1, <4>1, <4>5, <5>1, <5>2 DEF Bounded
    <3>5. CASE /\ out' = ParkOnWrite(out, s) /\ asleep' = asleep \cup {s}
               /\ UNCHANGED << accepted, pending >>
      <4>1. out' \in Inner /\ out'.limited = out.limited /\ out'.buf = out.buf
        BY <2>1, <2>2, <3>5, ParkFields
      <4> QED
        BY <2>2, <3>1, <3>5, <4>1 DEF TypeOK, Bounded
    <3> QED
      BY <2>5, <3>3, <3>4, <3>5 DEF PollSend, bytes
  <2>6. ASSUME out' = Close(out) \/ out' = out, asleep' \subseteq asleep,
               handle' \subseteq handle, send'.chunk \in Seq(Byte),
               send' \in [pc: {"read", "write", "finished", "done", "failed"}, chunk: Seq(Byte)],
               \A s \in Senders : pending'[s] = pending[s] \/ pending'[s] = 0,
               pending' \in [Senders -> Nat],
               UNCHANGED << inn, count, stream, recv, rx, issues, accepted, received >>
        PROVE  (TypeInv /\ Bounded)'
    <3>1. out' \in Inner /\ out'.limited = out.limited /\ out'.buf = out.buf
      <4>1. CASE out' = out
        BY <2>1, <4>1
      <4>2. CASE out' = Close(out)
        BY <2>1, <4>2, CloseFields
      <4> QED
        BY <2>6, <4>1, <4>2
    <3>2. TypeOK'
      BY <2>6, <3>1 DEF TypeOK
    <3> QED
      BY <2>6, <3>1, <3>2 DEF Bounded
  <2>7. ASSUME NEW s \in Senders, DropSender(s) PROVE (TypeInv /\ Bounded)'
    BY <2>6, <2>7 DEF DropSender, TypeOK
  <2>8. ASSUME CloseSenders PROVE (TypeInv /\ Bounded)'
    BY <2>6, <2>8 DEF CloseSenders, SetOut, TypeOK
  <2>9. ASSUME NEW amount \in Amounts, IssueGuarantee(amount) PROVE (TypeInv /\ Bounded)'
    <3>1. amount \in Nat
      BY ChannelAssumption
    <3>2. out' \in Inner /\ out'.limited = out.limited /\ out'.buf = out.buf
      BY <2>1, <2>9, <3>1, GuaranteeFields DEF IssueGuarantee, SetOut
    <3>3. issues' \in [n: Nat, sum: Nat] /\ asleep' \subseteq Tasks
      BY <2>9, <3>1 DEF IssueGuarantee, SetOut, TypeOK
    <3> QED
      BY <2>9, <3>2, <3>3 DEF IssueGuarantee, TypeOK, Bounded
  <2>10. ASSUME SendRead PROVE (TypeInv /\ Bounded)'
    <3>1. UNCHANGED << inn, handle, pending, count, recv, rx, issues, accepted, received >>
      BY <2>10 DEF SendRead
    <3>2. CASE /\ send' = [pc |-> "write", chunk |-> out.buf]
               /\ SetOut(Take(out, Len(out.buf))) /\ UNCHANGED stream
      <4>1. /\ out' \in Inner /\ out'.limited = out.limited
            /\ Len(out'.buf) = Len(out.buf) - Len(out.buf)
        BY <2>1, <3>2, TakeFields DEF SetOut
      <4>2. send' \in [pc: {"read", "write", "finished", "done", "failed"}, chunk: Seq(Byte)]
        BY <2>1, <3>2, InnerFields
      <4>3. TypeOK'
        BY <3>1, <3>2, <4>1, <4>2 DEF TypeOK, SetOut
      <4> QED
        BY <2>1, <3>1, <4>1, <4>3, ChannelAssumption DEF Bounded
    <3>3. CASE /\ send' = [send EXCEPT !.pc = "finished"]
               /\ stream' = [stream EXCEPT !.fin = TRUE] /\ UNCHANGED << out, asleep >>
      BY <3>1, <3>3 DEF TypeOK, Bounded
    <3>4. CASE /\ out' = ParkOnRead(out, "send_loop")
               /\ asleep' = asleep \cup {"send_loop"} /\ UNCHANGED << send, stream >>
      <4>1. out' \in Inner /\ out'.limited = out.limited /\ out'.buf = out.buf
        BY <2>1, <2>2, <3>4, ParkFields
      <4> QED
        BY <2>2, <3>1, <3>4, <4>1 DEF TypeOK, Bounded
    <3> QED
      BY <2>10, <3>2, <3>3, <3>4 DEF SendRead
  <2>11. ASSUME SendDone \/ SendFails PROVE (TypeInv /\ Bounded)'
    <3>1. CASE SendDone
      BY <2>6, <3>1 DEF SendDone, SetOut, TypeOK
    <3>2. CASE SendFails
      BY <2>3, <2>6, <3>2 DEF SendFails, TypeOK
    <3> QED
      BY <2>11, <3>1, <3>2
  <2>12. ASSUME NEW n \in 1..Len(send.chunk), SendWrite(n) PROVE (TypeInv /\ Bounded)'
    <3>1. n \in 0..Len(send.chunk)
      BY <2>1
    <3>2. SubSeq(send.chunk, 1, n) \in Seq(Byte) /\ Drop(send.chunk, n) \in Seq(Byte)
      BY <2>1, <3>1, Split
    <3>3. stream.bytes \o SubSeq(send.chunk, 1, n) \in Seq(Byte)
      BY <2>1, <3>2, ConcatProperties
    <3>4. stream' \in [bytes: Seq(Byte), fin: BOOLEAN, stopped: BOOLEAN, lost: BOOLEAN]
      BY <2>12, <3>3 DEF SendWrite, TypeOK
    <3>5. send' \in [pc: {"read", "write", "finished", "done", "failed"}, chunk: Seq(Byte)]
      BY <2>12, <3>2 DEF SendWrite
    <3> QED
      BY <2>12, <3>4, <3>5 DEF SendWrite, TypeOK, Bounded
  <2>13. ASSUME NEW n \in 1..Len(stream.bytes), RecvRead(n) PROVE (TypeInv /\ Bounded)'
    <3>1. n \in 0..Len(stream.bytes)
      BY <2>1
    <3>2. SubSeq(stream.bytes, 1, n) \in Seq(Byte) /\ Drop(stream.bytes, n) \in Seq(Byte)
      BY <2>1, <3>1, Split
    <3>3. stream' \in [bytes: Seq(Byte), fin: BOOLEAN, stopped: BOOLEAN, lost: BOOLEAN]
      BY <2>13, <3>2 DEF RecvRead, TypeOK
    <3>4. recv' \in [pc: {"read", "write", "done", "failed"}, chunk: Seq(Byte)]
      BY <2>13, <3>2 DEF RecvRead
    <3> QED
      BY <2>13, <3>3, <3>4 DEF RecvRead, TypeOK, Bounded
  <2>14. ASSUME inn' = Close(inn), asleep' \subseteq asleep,
                stream' \in [bytes: Seq(Byte), fin: BOOLEAN, stopped: BOOLEAN, lost: BOOLEAN],
                recv' \in [pc: {"read", "write", "done", "failed"}, chunk: Seq(Byte)],
                rx' \in {rx, "dropped"},
                UNCHANGED << out, handle, pending, count, send, issues, accepted, received >>
         PROVE  (TypeInv /\ Bounded)'
    <3>1. inn' \in Inner /\ inn'.limited = inn.limited /\ inn'.buf = inn.buf
      BY <2>1, <2>14, CloseFields
    <3> QED
      BY <2>14, <3>1 DEF TypeOK, Bounded
  <2>15. ASSUME RecvEnd \/ RecvFails \/ DropReceiver PROVE (TypeInv /\ Bounded)'
    <3>1. CASE RecvEnd
      BY <2>14, <3>1 DEF RecvEnd, SetInn, TypeOK
    <3>2. CASE RecvFails
      BY <2>3, <2>14, <3>2 DEF RecvFails, TypeOK
    <3>3. CASE DropReceiver
      BY <2>14, <3>3 DEF DropReceiver, TypeOK
    <3> QED
      BY <2>15, <3>1, <3>2, <3>3
  <2>16. ASSUME RecvWrite PROVE (TypeInv /\ Bounded)'
    <3>1. UNCHANGED << out, handle, pending, count, send, rx, issues, accepted, received >>
      BY <2>16 DEF RecvWrite
    <3>2. CASE /\ recv' = [pc |-> "done", chunk |-> << >>]
               /\ stream' = [stream EXCEPT !.stopped = TRUE] /\ SetInn(Close(inn))
      BY <2>3, <2>14, <3>1, <3>2 DEF SetInn, TypeOK
    <3>3. CASE /\ inn' = ParkOnWrite(inn, "recv_loop")
               /\ asleep' = asleep \cup {"recv_loop"} /\ UNCHANGED << recv, stream >>
      <4>1. inn' \in Inner /\ inn'.limited = inn.limited /\ inn'.buf = inn.buf
        BY <2>1, <2>2, <3>3, ParkFields
      <4> QED
        BY <2>2, <3>1, <3>3, <4>1 DEF TypeOK, Bounded
    <3> DEFINE n == SmallerOf(Len(recv.chunk), RemainingWriteCapacity(inn))
    <3>4. CASE /\ SetInn(Put(inn, SubSeq(recv.chunk, 1, n)))
               /\ recv' = [pc |-> IF n = Len(recv.chunk) THEN "read" ELSE "write",
                           chunk |-> Drop(recv.chunk, n)]
               /\ UNCHANGED stream
      <4>1. n \in 0..Len(recv.chunk) /\ n <= RemainingWriteCapacity(inn)
        BY <2>1, WriteLength DEF Bounded
      <4> HIDE DEF n
      <4>2. /\ SubSeq(recv.chunk, 1, n) \in Seq(Byte) /\ Len(SubSeq(recv.chunk, 1, n)) = n
            /\ Drop(recv.chunk, n) \in Seq(Byte)
        BY <2>1, <4>1, Split
      <4>3. inn' \in Inner /\ inn'.limited = inn.limited /\ Len(inn'.buf) = Len(inn.buf) + n
        BY <2>1, <3>4, <4>2, PutFields DEF SetInn
      <4>4. n <= Cap - Len(inn.buf)
        <5>1. RemainingWriteCapacity(inn) \in Nat /\ RemainingWriteCapacity(inn) <= Cap - Len(inn.buf)
          BY <2>1, Capacity DEF Bounded
        <5> QED
          BY <2>1, <4>1, <5>1, ChannelAssumption
      <4>5. recv' \in [pc: {"read", "write", "done", "failed"}, chunk: Seq(Byte)]
        BY <3>4, <4>2
      <4>6. TypeOK'
        BY <3>1, <3>4, <4>3, <4>5 DEF TypeOK, SetInn
      <4> QED
        BY <2>1, <3>1, <4>1, <4>3, <4>4, <4>6, ChannelAssumption DEF Bounded
    <3> QED
      BY <2>16, <3>2, <3>3, <3>4 DEF RecvWrite
  <2>17. ASSUME PollRecv PROVE (TypeInv /\ Bounded)'
    <3>1. UNCHANGED << out, handle, pending, count, send, stream, recv, issues, accepted >>
      BY <2>17 DEF PollRecv
    <3>2. CASE rx' \in {"none", "incomplete"} /\ UNCHANGED << inn, asleep, received >>
      BY <3>1, <3>2 DEF TypeOK, Bounded
    <3>3. CASE /\ inn' = ParkOnRead(inn, "receiver") /\ asleep' = asleep \cup {"receiver"}
               /\ UNCHANGED << rx, received >>
      <4>1. inn' \in Inner /\ inn'.limited = inn.limited /\ inn'.buf = inn.buf
        BY <2>1, <2>2, <3>3, ParkFields
      <4> QED
        BY <2>2, <3>1, <3>3, <4>1 DEF TypeOK, Bounded
    <3> DEFINE bytes == SubSeq(inn.buf, 1, inn.buf[1].len)
    <3>4. CASE /\ Decodable(inn.buf) /\ SetInn(Take(inn, Len(bytes)))
               /\ received' = received \o bytes
               /\ rx' = IF Intact(bytes) THEN "open" ELSE "garbled"
      <4>1. inn.buf \in Seq(Byte) /\ inn.buf[1].len \in 0..Len(inn.buf)
        BY <2>1, <3>4, InnerFields, DecodableLength
      <4>2. bytes \in Seq(Byte) /\ Len(bytes) \in 0..Len(inn.buf)
        BY <4>1, Split
      <4> HIDE DEF bytes
      <4>3. /\ inn' \in Inner /\ inn'.limited = inn.limited
            /\ Len(inn'.buf) = Len(inn.buf) - Len(bytes)
        BY <2>1, <3>4, <4>2, TakeFields DEF SetInn
      <4>4. received' \in Seq(Byte)
        BY <3>4, <4>2, ConcatProperties DEF TypeOK
      <4>5. rx' \in {"open", "garbled"} /\ asleep' \subseteq Tasks
        BY <3>4 DEF SetInn, TypeOK
      <4>6. TypeOK'
        BY <3>1, <4>3, <4>4, <4>5 DEF TypeOK
      <4> QED
        BY <2>1, <3>1, <4>2, <4>3, <4>6, ChannelAssumption DEF Bounded
    <3> QED
      BY <2>17, <3>2, <3>3, <3>4 DEF PollRecv
  <2>18. ASSUME ConnectionLost PROVE (TypeInv /\ Bounded)'
    BY <2>18 DEF ConnectionLost, TypeOK, Bounded
  <2>19. CASE UNCHANGED vars
    BY <2>19 DEF vars, TypeOK, Bounded
  <2> QED
    BY <2>4, <2>5, <2>7, <2>8, <2>9, <2>10, <2>11, <2>12, <2>13, <2>15, <2>16, <2>17,
       <2>18, <2>19 DEF Next, SenderNext, LoopNext
<1> QED
  BY <1>1, <1>2, PTL DEF Spec

-----------------------------------------------------------------------------
(* Wakers and limits.                                                      *)

(* The two halves of NoLostWakeup, one for each buffer.                    *)
OutWakes ==
    /\ \A s \in Senders \cap asleep :
          s \in out.write_wakers /\ ~ out.closed /\ pending[s] > RemainingWriteCapacity(out)
    /\ "send_loop" \in asleep =>
          "send_loop" \in out.read_wakers /\ ~ out.closed /\ out.buf = << >>

InnWakes ==
    /\ "recv_loop" \in asleep =>
          "recv_loop" \in inn.write_wakers /\ ~ inn.closed /\ RemainingWriteCapacity(inn) = 0
    /\ "receiver" \in asleep =>
          "receiver" \in inn.read_wakers /\ ~ inn.closed /\ ~ Decodable(inn.buf)

GuaranteesHold == Limited => Len(accepted) + out.guarantees <= issues.sum

WakeInv == OutWakes /\ InnWakes /\ GuaranteesHold

(* Every poll that returns Pending has left a waker that the change it     *)
(* waits for finds; the guarantees bound what was accepted.                *)
THEOREM Wakeups == Spec => []WakeInv
<1>1. Init => WakeInv
  <2> SUFFICES ASSUME Init PROVE WakeInv
    OBVIOUS
  <2>1. asleep = {} /\ accepted = << >> /\ out.guarantees = 0 /\ issues.sum = 0
    BY DEF Init, NewInner
  <2>2. OutWakes /\ InnWakes
    BY <2>1 DEF OutWakes, InnWakes
  <2>3. GuaranteesHold
    BY <2>1, EmptySeq DEF GuaranteesHold
  <2> QED
    BY <2>2, <2>3 DEF WakeInv
<1>2. TypeInv /\ Bounded /\ TypeInv' /\ Bounded' /\ WakeInv /\ [Next]_vars => WakeInv'
  <2> SUFFICES ASSUME TypeInv, Bounded, TypeInv', Bounded', WakeInv, [Next]_vars
               PROVE  WakeInv'
    OBVIOUS
  <2> USE DEF WakeInv
  <2>1. /\ out \in Inner /\ inn \in Inner /\ Len(out.buf) <= Cap /\ Len(inn.buf) <= Cap
        /\ Len(out.buf) \in Nat /\ Len(inn.buf) \in Nat /\ accepted \in Seq(Byte)
        /\ out.limited = Limited /\ inn.limited = FALSE
        /\ stream.bytes \in Seq(Byte) /\ recv.chunk \in Seq(Byte) /\ asleep \subseteq Tasks
        /\ \A s \in Senders : pending[s] \in Nat
    BY InnerFields DEF TypeInv, TypeOK, Bounded
  <2>2. /\ "send_loop" \in Tasks /\ "recv_loop" \in Tasks /\ "receiver" \in Tasks
        /\ \A s \in Senders : s \in Tasks
        /\ \A s \in Senders : s # "send_loop" /\ s # "recv_loop" /\ s # "receiver"
        /\ "send_loop" # "recv_loop" /\ "send_loop" # "receiver" /\ "recv_loop" # "receiver"
    BY ChannelAssumption DEF Tasks
  <2>3. RemainingWriteCapacity(out) \in Nat /\ RemainingWriteCapacity(inn) \in Nat
    BY <2>1, Capacity
  (* What leaves a buffer alone, and what closes it.                       *)
  <2>4. ASSUME out' = out, \A s \in Senders \cap asleep' : s \in asleep /\ pending'[s] = pending[s],
               "send_loop" \in asleep' => "send_loop" \in asleep
        PROVE  OutWakes'
    BY <2>4 DEF OutWakes, RemainingWriteCapacity, GuaranteesGet
  <2>5. ASSUME inn' = inn, "recv_loop" \in asleep' => "recv_loop" \in asleep,
               "receiver" \in asleep' => "receiver" \in asleep
        PROVE  InnWakes'
    BY <2>5 DEF InnWakes, RemainingWriteCapacity, GuaranteesGet, Decodable
  <2>6. ASSUME out' = Close(out), asleep' \subseteq asleep \ Woken(out, Close(out))
        PROVE  OutWakes' /\ out'.guarantees = out.guarantees
    <3>1. /\ Close(out).write_wakers = {} /\ Close(out).read_wakers = {}
          /\ Close(out).guarantees = out.guarantees
      BY <2>1, CloseFields
    <3>2. asleep' \cap (out.write_wakers \cup out.read_wakers) = {}
      BY <2>6, <3>1 DEF Woken
    <3>3. Senders \cap asleep' = {} /\ "send_loop" \notin asleep'
      BY <2>6, <3>2 DEF OutWakes
    <3> QED
      BY <2>6, <3>1, <3>3 DEF OutWakes
  <2>7. ASSUME inn' = Close(inn), asleep' \subseteq asleep \ Woken(inn, Close(inn))
        PROVE  InnWakes'
    <3>1. Close(inn).write_wakers = {} /\ Close(inn).read_wakers = {}
      BY <2>1, CloseFields
    <3>2. asleep' \cap (inn.write_wakers \cup inn.read_wakers) = {}
      BY <2>7, <3>1 DEF Woken
    <3> QED
      BY <2>7, <3>2 DEF InnWakes
  <2>8. ASSUME UNCHANGED << accepted, issues >>, out'.guarantees = out.guarantees
        PROVE  GuaranteesHold'
    BY <2>8 DEF GuaranteesHold
  <2>9. ASSUME NEW s \in Senders, NEW len \in Lengths, StartSend(s, len) PROVE WakeInv'
    <3>1. /\ pending[s] = 0 /\ pending' = [pending EXCEPT ![s] = len]
          /\ UNCHANGED << out, inn, asleep, issues, accepted >>
      BY <2>9 DEF StartSend
    <3>2. s \notin asleep
      BY <2>3, <3>1 DEF OutWakes
    <3>3. \A t \in Senders \cap asleep : pending'[t] = pending[t]
      BY <3>1, <3>2 DEF TypeInv, TypeOK
    <3> QED
      BY <2>4, <2>5, <2>8, <3>1, <3>3
  <2>10. ASSUME NEW s \in Senders, PollSend(s) PROVE WakeInv'
    <3> DEFINE bytes == Message(s, count[s], pending[s])
    <3>1. /\ pending[s] > 0 /\ pending[s] \in Lengths /\ count[s] \in Nat /\ s \notin asleep
          /\ UNCHANGED << inn, issues >>
      BY <2>10 DEF PollSend, TypeInv, TypeOK
    <3>2. ASSUME pending[s] <= RemainingWriteCapacity(out)
          PROVE  bytes \in Seq(Byte) /\ Len(bytes) = pending[s]
      <4>1. pending[s] \in Fitting
        BY <2>1, <3>1, <3>2, FitsBuffer
      <4> QED
        BY <3>1, <4>1, MessageBytes
    <3> HIDE DEF bytes
    <3>3. CASE UNCHANGED << out, asleep, accepted >> /\ pending' = [pending EXCEPT ![s] = 0]
      <4>1. \A t \in Senders \cap asleep : pending'[t] = pending[t]
        BY <3>1, <3>3 DEF TypeInv, TypeOK
      <4> QED
        BY <2>4, <2>5, <2>8, <3>1, <3>3, <4>1
    <3>4. CASE /\ pending[s] <= RemainingWriteCapacity(out)
               /\ SetOut(Put(out, bytes)) /\ accepted' = accepted \o bytes
               /\ pending' = [pending EXCEPT ![s] = 0]
      <4>0. bytes \in Seq(Byte) /\ Len(bytes) = pending[s]
        BY <3>2, <3>4
      <4> DEFINE d == Put(out, bytes)
      <4>1. /\ d \in Inner /\ d.buf = out.buf \o bytes /\ Len(d.buf) = Len(out.buf) + Len(bytes)
            /\ d.closed = out.closed /\ d.limited = out.limited
            /\ d.guarantees = GuaranteesUse(out, Len(bytes))
            /\ d.write_wakers = out.write_wakers /\ d.read_wakers = {}
        BY ONLY <2>1, <4>0, PutFields
      <4> HIDE DEF d
      <4>2. out' = d /\ asleep' = asleep \ Woken(out, d)
        BY <3>4 DEF SetOut, d
      <4>3. pending[s] <= GuaranteesGet(out) /\ pending[s] \in Nat /\ pending[s] <= Cap - Len(out.buf)
        <5>1. /\ RemainingWriteCapacity(out) <= GuaranteesGet(out)
              /\ RemainingWriteCapacity(out) <= Cap - Len(out.buf)
          BY <2>1, Capacity
        <5>2. GuaranteesGet(out) \in Nat
          BY <2>1, <3>1, GuaranteeArithmetic
        <5> QED
          BY <2>1, <2>3, <3>4, <5>1, <5>2, ChannelAssumption
      <4>4. /\ out.limited => d.guarantees = out.guarantees - pending[s]
            /\ GuaranteesGet(d) <= GuaranteesGet(out)
        <5>1. /\ out.limited => d.guarantees = out.guarantees - pending[s]
              /\ ~ out.limited => d.guarantees = out.guarantees
          BY <2>1, <4>0, <4>1, <4>3, GuaranteeArithmetic
        <5>2. out.guarantees \in Nat /\ d.guarantees \in Nat
          BY <2>1, <4>1, InnerFields
        <5> QED
          BY <4>1, <4>3, <5>1, <5>2, ChannelAssumption DEF GuaranteesGet
      <4>5. RemainingWriteCapacity(d) <= RemainingWriteCapacity(out)
        <5>1. GuaranteesGet(out) \in Nat /\ GuaranteesGet(d) \in Nat
          BY <2>1, <4>1, <4>3, GuaranteeArithmetic
        <5> QED
          BY <2>1, <4>0, <4>1, <4>3, <4>4, <5>1, ChannelAssumption
             DEF RemainingWriteCapacity, SmallerOf
      <4>6. RemainingWriteCapacity(d) \in Nat
        BY <4>1, <4>2, Capacity DEF Bounded
      <4>7. "send_loop" \notin asleep'
        BY <4>1, <4>2 DEF OutWakes, Woken
      <4>8. ASSUME NEW t \in Senders \cap asleep'
            PROVE  t \in d.write_wakers /\ ~ d.closed /\ pending'[t] > RemainingWriteCapacity(d)
        <5>1. t \in asleep /\ t # s /\ pending'[t] = pending[t] /\ pending[t] \in Nat
          BY <3>1, <3>4, <4>2 DEF TypeInv, TypeOK
        <5>2. t \in out.write_wakers /\ ~ out.closed /\ pending[t] > RemainingWriteCapacity(out)
          BY <5>1 DEF OutWakes
        <5> QED
          BY <2>3, <4>1, <4>5, <4>6, <5>1, <5>2
      <4>9. OutWakes'
        BY <4>2, <4>7, <4>8 DEF OutWakes, RemainingWriteCapacity, GuaranteesGet
      <4>10. InnWakes'
        BY <2>5, <3>1, <4>2
      <4>11. GuaranteesHold'
        <5>1. Len(accepted') = Len(accepted) + pending[s] /\ Len(accepted) \in Nat
          <6>1. Len(accepted \o bytes) = Len(accepted) + Len(bytes)
            BY ONLY <2>1, <4>0, ConcatProperties
          <6> QED
            BY <2>1, <4>0, <3>4, <6>1, LenProperties
        <5>2. out.guarantees \in Nat /\ issues.sum \in Nat
          BY <2>1, InnerFields DEF TypeInv, TypeOK
        <5> QED
          BY <2>1, <3>1, <4>2, <4>3, <4>4, <5>1, <5>2 DEF GuaranteesHold
      <4> QED
        BY <4>9, <4>10, <4>11
    <3>5. CASE /\ ~ out.closed /\ pending[s] > RemainingWriteCapacity(out)
               /\ out' = ParkOnWrite(out, s) /\ asleep' = asleep \cup {s}
               /\ UNCHANGED << accepted, pending >>
      <4>1. /\ out'.buf = out.buf /\ out'.closed = out.closed /\ out'.limited = out.limited
            /\ out'.guarantees = out.guarantees
            /\ out'.write_wakers = out.write_wakers \cup {s} /\ out'.read_wakers = out.read_wakers
        BY <2>1, <2>2, <3>5, ParkFields
      <4>2. RemainingWriteCapacity(out') = RemainingWriteCapacity(out)
        BY <4>1 DEF RemainingWriteCapacity, GuaranteesGet
      <4>3. OutWakes'
        BY <2>2, <3>5, <4>1, <4>2 DEF OutWakes, RemainingWriteCapacity, GuaranteesGet
      <4>4. InnWakes'
        BY <2>2, <2>5, <3>1, <3>5
      <4> QED
        BY <2>8, <3>1, <3>5, <4>1, <4>3, <4>4
    <3> QED
      BY <2>10, <3>3, <3>4, <3>5 DEF PollSend, bytes
  <2>11. ASSUME NEW s \in Senders, DropSender(s) PROVE WakeInv'
    <3>1. /\ pending' = [pending EXCEPT ![s] = 0] /\ UNCHANGED << inn, issues, accepted >>
          /\ s \notin asleep' /\ asleep' \subseteq asleep
      BY <2>11 DEF DropSender
    <3>2. InnWakes'
      BY <2>5, <3>1
    <3>3. CASE out' = out
      <4>1. \A t \in Senders \cap asleep' : pending'[t] = pending[t] /\ t \in asleep
        BY <3>1 DEF TypeInv, TypeOK
      <4> QED
        BY <2>4, <2>8, <3>1, <3>2, <3>3, <4>1
    <3>4. CASE out' = Close(out) /\ asleep' = asleep \ (Woken(out, Close(out)) \cup {s})
      BY <2>6, <2>8, <3>1, <3>2, <3>4
    <3> QED
      BY <2>11, <3>3, <3>4 DEF DropSender
  <2>12. ASSUME CloseSenders PROVE WakeInv'
    BY <2>5, <2>6, <2>8, <2>12 DEF CloseSenders, SetOut
  <2>13. ASSUME NEW amount \in Amounts, IssueGuarantee(amount) PROVE WakeInv'
    <3> DEFINE d == AddGuarantees(out, amount)
    <3>1. amount \in Nat
      BY ChannelAssumption
    <3>2. /\ d \in Inner /\ d.buf = out.buf /\ d.closed = out.closed /\ d.limited = out.limited
          /\ d.guarantees = GuaranteesAdd(out, amount) /\ d.read_wakers = out.read_wakers
          /\ \/ d.write_wakers = {}
             \/ /\ d.write_wakers = out.write_wakers
                /\ ~ (RemainingWriteCapacity(d) > RemainingWriteCapacity(out))
      BY <2>1, <3>1, GuaranteeFields
    <3> HIDE DEF d
    <3>3. /\ out' = d /\ asleep' = asleep \ Woken(out, d)
          /\ issues'.sum = issues.sum + amount /\ UNCHANGED << inn, pending, accepted >>
      BY <2>13 DEF IssueGuarantee, SetOut, d
    <3>4. RemainingWriteCapacity(d) \in Nat
      BY <2>1, <3>2, Capacity
    <3>5. OutWakes'
      <4>1. CASE d.write_wakers = {}
        <5>1. \A t \in Senders : t \notin asleep'
          BY <3>3, <4>1 DEF OutWakes, Woken
        <5> QED
          BY <3>2, <3>3, <5>1 DEF OutWakes
      <4>2. CASE /\ d.write_wakers = out.write_wakers
                 /\ ~ (RemainingWriteCapacity(d) > RemainingWriteCapacity(out))
        <5>1. \A t \in Senders \cap asleep' : pending[t] > RemainingWriteCapacity(d)
          BY <2>1, <2>3, <3>3, <3>4, <4>2 DEF OutWakes
        <5> QED
          BY <3>2, <3>3, <4>2, <5>1 DEF OutWakes, RemainingWriteCapacity, GuaranteesGet
      <4> QED
        BY <3>2, <4>1, <4>2
    <3>6. InnWakes'
      BY <2>5, <3>3
    <3>7. GuaranteesHold'
      <4>1. d.guarantees <= out.guarantees + amount /\ d.guarantees \in Nat
        BY <2>1, <3>1, <3>2, GuaranteeArithmetic, InnerFields
      <4>2. Len(accepted) \in Nat /\ out.guarantees \in Nat /\ issues.sum \in Nat
        BY <2>1, InnerFields, LenProperties DEF TypeInv, TypeOK
      <4> QED
        BY <3>1, <3>3, <4>1, <4>2 DEF GuaranteesHold
    <3> QED
      BY <3>5, <3>6, <3>7
  <2>14. ASSUME SendRead PROVE WakeInv'
    <3>1. /\ "send_loop" \notin asleep
          /\ UNCHANGED << inn, pending, issues, accepted >>
      BY <2>14 DEF SendRead
    <3>2. CASE SetOut(Take(out, Len(out.buf)))
      <4> DEFINE d == Take(out, Len(out.buf))
      <4>1. d.write_wakers = {} /\ d.guarantees = out.guarantees
        <5>1. Len(out.buf) \in 0..Len(out.buf)
          BY <2>1
        <5> QED
          BY <2>1, <5>1, TakeFields
      <4> HIDE DEF d
      <4>2. out' = d /\ asleep' = asleep \ Woken(out, d)
        BY <3>2 DEF SetOut, d
      <4>3. \A t \in Senders : t \notin asleep'
        BY <4>1, <4>2 DEF OutWakes, Woken
      <4>4. OutWakes'
        BY <3>1, <4>2, <4>3 DEF OutWakes
      <4> QED
        BY <2>5, <2>8, <3>1, <4>1, <4>2, <4>4
    <3>3. CASE UNCHANGED << out, asleep >>
      BY <2>4, <2>5, <2>8, <3>1, <3>3
    <3>4. CASE /\ out.buf = << >> /\ ~ out.closed /\ out' = ParkOnRead(out, "send_loop")
               /\ asleep' = asleep \cup {"send_loop"}
      <4>1. /\ out'.buf = out.buf /\ out'.closed = out.closed /\ out'.limited = out.limited
            /\ out'.guarantees = out.guarantees
            /\ out'.write_wakers = out.write_wakers
            /\ out'.read_wakers = out.read_wakers \cup {"send_loop"}
        BY <2>1, <2>2, <3>4, ParkFields
      <4>2. OutWakes'
        BY <2>2, <3>1, <3>4, <4>1 DEF OutWakes, RemainingWriteCapacity, GuaranteesGet
      <4>3. InnWakes'
        BY <2>2, <2>5, <3>1, <3>4
      <4> QED
        BY <2>8, <3>1, <4>1, <4>2, <4>3
    <3> QED
      BY <2>14, <3>2, <3>3, <3>4 DEF SendRead
  <2>15. ASSUME SendDone \/ SendFails PROVE WakeInv'
    <3>1. /\ out' = Close(out) /\ asleep' \subseteq asleep \ Woken(out, Close(out))
          /\ UNCHANGED << inn, issues, accepted >>
      BY <2>15 DEF SendDone, SendFails, SetOut
    <3> QED
      BY <2>5, <2>6, <2>8, <3>1
  <2>16. ASSUME UNCHANGED << out, inn, asleep, pending, issues, accepted >> PROVE WakeInv'
    BY <2>4, <2>5, <2>8, <2>16
  <2>17. ASSUME RecvEnd \/ RecvFails \/ DropReceiver PROVE WakeInv'
    <3>1. /\ inn' = Close(inn) /\ asleep' \subseteq asleep \ Woken(inn, Close(inn))
          /\ UNCHANGED << out, pending, issues, accepted >>
      BY <2>17 DEF RecvEnd, RecvFails, DropReceiver, SetInn
    <3> QED
      BY <2>4, <2>7, <2>8, <3>1
  <2>18. ASSUME RecvWrite PROVE WakeInv'
    <3>1. /\ "recv_loop" \notin asleep
          /\ UNCHANGED << out, pending, issues, accepted >>
      BY <2>18 DEF RecvWrite
    <3>2. CASE SetInn(Close(inn))
      BY <2>4, <2>7, <2>8, <3>1, <3>2 DEF SetInn
    <3>3. CASE /\ ~ inn.closed /\ RemainingWriteCapacity(inn) = 0
               /\ inn' = ParkOnWrite(inn, "recv_loop") /\ asleep' = asleep \cup {"recv_loop"}
      <4>1. /\ inn'.buf = inn.buf /\ inn'.closed = inn.closed /\ inn'.limited = inn.limited
            /\ inn'.guarantees = inn.guarantees
            /\ inn'.write_wakers = inn.write_wakers \cup {"recv_loop"}
            /\ inn'.read_wakers = inn.read_wakers
        BY <2>1, <2>2, <3>3, ParkFields
      <4>2. InnWakes'
        BY <2>2, <3>3, <4>1 DEF InnWakes, RemainingWriteCapacity, GuaranteesGet, Decodable
      <4>3. OutWakes'
        BY <2>2, <2>4, <3>1, <3>3
      <4> QED
        BY <2>8, <3>1, <4>2, <4>3
    <3> DEFINE n == SmallerOf(Len(recv.chunk), RemainingWriteCapacity(inn))
    <3>4. CASE SetInn(Put(inn, SubSeq(recv.chunk, 1, n)))
      <4>1. n \in 0..Len(recv.chunk)
        BY <2>1, WriteLength
      <4> HIDE DEF n
      <4>2. SubSeq(recv.chunk, 1, n) \in Seq(Byte)
        BY <2>1, <4>1, Split
      <4> DEFINE d == Put(inn, SubSeq(recv.chunk, 1, n))
      <4>3. d.read_wakers = {}
        BY <2>1, <4>2, PutFields
      <4> HIDE DEF d
      <4>4. inn' = d /\ asleep' = asleep \ Woken(inn, d)
        BY <3>4 DEF SetInn, d
      <4>5. "receiver" \notin asleep' /\ "recv_loop" \notin asleep'
        BY <3>1, <4>3, <4>4 DEF InnWakes, Woken
      <4> QED
        BY <2>4, <2>8, <3>1, <4>4, <4>5 DEF InnWakes
    <3> QED
      BY <2>18, <3>2, <3>3, <3>4 DEF RecvWrite
  <2>19. ASSUME PollRecv PROVE WakeInv'
    <3>1. "receiver" \notin asleep /\ UNCHANGED << out, pending, issues, accepted >>
      BY <2>19 DEF PollRecv
    <3>2. CASE UNCHANGED << inn, asleep >>
      BY <2>16, <3>1, <3>2
    <3>3. CASE /\ ~ inn.closed /\ ~ Decodable(inn.buf)
               /\ inn' = ParkOnRead(inn, "receiver") /\ asleep' = asleep \cup {"receiver"}
      <4>1. /\ inn'.buf = inn.buf /\ inn'.closed = inn.closed /\ inn'.limited = inn.limited
            /\ inn'.guarantees = inn.guarantees /\ inn'.write_wakers = inn.write_wakers
            /\ inn'.read_wakers = inn.read_wakers \cup {"receiver"}
        BY <2>1, <2>2, <3>3, ParkFields
      <4>2. InnWakes'
        BY <2>2, <3>3, <4>1 DEF InnWakes, RemainingWriteCapacity, GuaranteesGet, Decodable
      <4>3. OutWakes'
        BY <2>2, <2>4, <3>1, <3>3
      <4> QED
        BY <2>8, <3>1, <4>2, <4>3
    <3> DEFINE bytes == SubSeq(inn.buf, 1, inn.buf[1].len)
    <3>4. CASE Decodable(inn.buf) /\ SetInn(Take(inn, Len(bytes)))
      <4>1. inn.buf \in Seq(Byte) /\ inn.buf[1].len \in 0..Len(inn.buf)
        BY <2>1, <3>4, InnerFields, DecodableLength
      <4>2. Len(bytes) \in 0..Len(inn.buf)
        BY <4>1, Split
      <4> HIDE DEF bytes
      <4> DEFINE d == Take(inn, Len(bytes))
      <4>3. d.write_wakers = {}
        BY <2>1, <4>2, TakeFields
      <4> HIDE DEF d
      <4>4. inn' = d /\ asleep' = asleep \ Woken(inn, d)
        BY <3>4 DEF SetInn, d
      <4>5. "receiver" \notin asleep' /\ "recv_loop" \notin asleep'
        BY <3>1, <4>3, <4>4 DEF InnWakes, Woken
      <4> QED
        BY <2>4, <2>8, <3>1, <4>4, <4>5 DEF InnWakes
    <3> QED
      BY <2>19, <3>2, <3>3, <3>4 DEF PollRecv
  <2>20. ASSUME NEW n, SendWrite(n) \/ RecvRead(n) \/ ConnectionLost PROVE WakeInv'
    BY <2>16, <2>20 DEF SendWrite, RecvRead, ConnectionLost
  <2>21. CASE UNCHANGED vars
    BY <2>16, <2>21 DEF vars
  <2> QED
    BY <2>9, <2>10, <2>11, <2>12, <2>13, <2>14, <2>15, <2>17, <2>18, <2>19, <2>20, <2>21
       DEF Next, SenderNext, LoopNext
<1> QED
  BY <1>1, <1>2, Typing, PTL DEF Spec

(* No wakeup of either buffer is lost, no counter wraps, and nobody waits  *)
(* for somebody who waits: a full inbound buffer holds a whole message,    *)
(* because no message is longer than the buffer.                           *)
THEOREM BuffersAreLive == Spec => []BufferInv
<1>1. TypeInv /\ Bounded /\ WakeInv => BufferInv
  <2> SUFFICES ASSUME TypeInv, Bounded, WakeInv PROVE BufferInv
    OBVIOUS
  <2>1. /\ out \in Inner /\ inn \in Inner /\ Len(out.buf) <= Cap /\ Len(inn.buf) <= Cap
        /\ Len(out.buf) \in Nat /\ Len(inn.buf) \in Nat /\ inn.buf \in Seq(Byte)
    BY InnerFields DEF TypeInv, TypeOK, Bounded
  <2>2. NoLostWakeup
    BY DEF WakeInv, OutWakes, InnWakes, NoLostWakeup
  <2>3. WithinLimits
    BY <2>1 DEF WakeInv, GuaranteesHold, WithinLimits
  <2>4. ASSUME "recv_loop" \in asleep, "receiver" \in asleep PROVE FALSE
    <3>1. RemainingWriteCapacity(inn) = 0 /\ ~ Decodable(inn.buf)
      BY <2>4 DEF WakeInv, InnWakes
    <3>2. GuaranteesGet(inn) = Modulus - 1
      BY DEF TypeInv, GuaranteesGet
    <3>3. Len(inn.buf) = Cap
      BY <2>1, <3>1, <3>2, ChannelAssumption DEF RemainingWriteCapacity, SmallerOf
    <3>4. 1 \in 1..Len(inn.buf) /\ inn.buf # << >>
      BY <2>1, <3>3, ChannelAssumption, EmptySeq
    <3>5. inn.buf[1] \in Byte
      BY <2>1, <3>4, ElementOfSeq
    <3>6. inn.buf[1].len \in Fitting
      BY <3>5 DEF Byte
    <3>7. inn.buf[1].len \in 1..Cap /\ Cap \in Nat
      BY <3>6, FittingLength
    <3> QED
      BY <3>1, <3>3, <3>4, <3>7 DEF Decodable
  <2>5. ASSUME NEW s \in Senders, s \in asleep, "send_loop" \in asleep
        PROVE  GuaranteesGet(out) < pending[s] \/ pending[s] > Cap
    <3>1. pending[s] > RemainingWriteCapacity(out) /\ out.buf = << >>
      BY <2>5 DEF WakeInv, OutWakes
    <3>2. RemainingWriteCapacity(out) \in Nat /\ RemainingWriteCapacity(out) \in {Cap - Len(out.buf), GuaranteesGet(out)}
      BY <2>1, Capacity
    <3>3. pending[s] \in Lengths
      BY <3>1, <3>2 DEF TypeInv, TypeOK
    <3>4. pending[s] \in Nat /\ Cap \in Nat
      BY <3>3, ChannelAssumption
    <3>5. Len(out.buf) = 0
      BY <3>1, EmptySeq
    <3> QED
      BY <3>1, <3>2, <3>4, <3>5, ChannelAssumption
  <2>6. NoMutualWait
    BY <2>4, <2>5 DEF NoMutualWait
  <2> QED
    BY <2>2, <2>3, <2>6 DEF BufferInv, TypeInv
<1> QED
  BY <1>1, Typing, Wakeups, PTL

-----------------------------------------------------------------------------
(* Where the bytes are.                                                    *)

(* Who holds nothing, and what the end of a loop means for the others: the *)
(* stream is finished only after the last byte, a loop fails only with the *)
(* connection or because the receiver went, and the inbound buffer is      *)
(* closed only by the receiver or by the end of recv_loop.                 *)
StopInv ==
    /\ send.pc # "write" => send.chunk = << >>
    /\ recv.pc # "write" => recv.chunk = << >>
    /\ stream.fin => /\ out.closed /\ out.buf = << >>
                     /\ send.pc \in {"finished", "done", "failed"}
    /\ send.pc = "failed" => stream.lost \/ stream.stopped
    /\ recv.pc = "failed" => stream.lost
    /\ stream.stopped => rx = "dropped"
    /\ inn.closed => rx = "dropped" \/ recv.pc \in {"done", "failed"}
    /\ recv.pc = "done" => stream.stopped \/ (stream.fin /\ stream.bytes = << >>)

(* The fields that the actions on records leave alone.                     *)
LEMMA RecordFields ==
    ASSUME TypeInv
    PROVE  /\ stream \in [bytes: Seq(Byte), fin: BOOLEAN, stopped: BOOLEAN, lost: BOOLEAN]
           /\ send \in [pc: {"read", "write", "finished", "done", "failed"}, chunk: Seq(Byte)]
           /\ recv \in [pc: {"read", "write", "done", "failed"}, chunk: Seq(Byte)]
           /\ out \in Inner /\ inn \in Inner
  BY DEF TypeInv, TypeOK

(* The loops end for the reasons that net.rs gives them.                   *)
THEOREM Stopping == Spec => []StopInv
<1>1. Init => StopInv
  BY DEF Init, StopInv, NewInner
<1>2. TypeInv /\ Bounded /\ StopInv /\ [Next]_vars => StopInv'
  <2> SUFFICES ASSUME TypeInv, Bounded, StopInv, [Next]_vars PROVE StopInv'
    OBVIOUS
  <2> USE DEF StopInv
  <2>1. /\ stream \in [bytes: Seq(Byte), fin: BOOLEAN, stopped: BOOLEAN, lost: BOOLEAN]
        /\ send \in [pc: {"read", "write", "finished", "done", "failed"}, chunk: Seq(Byte)]
        /\ recv \in [pc: {"read", "write", "done", "failed"}, chunk: Seq(Byte)]
        /\ out \in Inner /\ inn \in Inner
        /\ out.buf \in Seq(Byte) /\ Len(out.buf) \in Nat
    BY RecordFields, InnerFields
  <2>2. /\ "send_loop" \in Tasks /\ "recv_loop" \in Tasks /\ "receiver" \in Tasks
        /\ \A s \in Senders : s \in Tasks
    BY DEF Tasks
  <2>3. ASSUME out'.closed = out.closed \/ out'.closed, out'.buf = out.buf,
               UNCHANGED << inn, send, stream, recv, rx >>
        PROVE  StopInv'
    BY <2>1, <2>3
  <2>4. ASSUME NEW s \in Senders, PollSend(s) PROVE StopInv'
    <3>1. UNCHANGED << inn, send, stream, recv, rx >>
      BY <2>4 DEF PollSend
    <3>2. CASE UNCHANGED out
      BY <2>3, <3>1, <3>2
    <3>3. CASE ~ out.closed
      <4>1. ~ stream.fin
        BY <3>3
      <4> QED
        BY <3>1, <4>1
    <3> QED
      BY <2>4, <3>2, <3>3 DEF PollSend
  <2>5. ASSUME NEW s \in Senders, DropSender(s) PROVE StopInv'
    <3>1. UNCHANGED << inn, send, stream, recv, rx >> /\ out' \in {out, Close(out)}
      BY <2>5 DEF DropSender
    <3> QED
      BY <2>1, <2>3, <3>1, CloseFields
  <2>6. ASSUME CloseSenders PROVE StopInv'
    <3>1. UNCHANGED << inn, send, stream, recv, rx >> /\ out' = Close(out)
      BY <2>6 DEF CloseSenders, SetOut
    <3> QED
      BY <2>1, <2>3, <3>1, CloseFields
  <2>7. ASSUME NEW amount \in Amounts, IssueGuarantee(amount) PROVE StopInv'
    <3>1. amount \in Nat
      BY ChannelAssumption
    <3>2. UNCHANGED << inn, send, stream, recv, rx >> /\ out' = AddGuarantees(out, amount)
      BY <2>7 DEF IssueGuarantee, SetOut
    <3>3. out'.closed = out.closed /\ out'.buf = out.buf
      BY <2>1, <3>1, <3>2, GuaranteeFields
    <3> QED
      BY <2>3, <3>2, <3>3
  <2>8. ASSUME SendRead PROVE StopInv'
    <3>1. send.pc = "read" /\ ~ stream.fin /\ UNCHANGED << inn, recv, rx >>
      BY <2>8 DEF SendRead
    <3>2. CASE send' = [pc |-> "write", chunk |-> out.buf] /\ UNCHANGED stream
      BY <3>1, <3>2
    <3>3. CASE /\ out.buf = << >> /\ out.closed
               /\ send' = [send EXCEPT !.pc = "finished"]
               /\ stream' = [stream EXCEPT !.fin = TRUE] /\ UNCHANGED out
      <4>1. send'.pc = "finished" /\ send'.chunk = send.chunk
        BY <2>1, <3>3
      <4>2. /\ stream'.bytes = stream.bytes /\ stream'.fin = TRUE
            /\ stream'.stopped = stream.stopped /\ stream'.lost = stream.lost
        BY <2>1, <3>3
      <4> QED
        BY <3>1, <3>3, <4>1, <4>2
    <3>4. CASE UNCHANGED << send, stream >>
      BY <3>1, <3>4
    <3> QED
      BY <2>8, <3>2, <3>3, <3>4 DEF SendRead
  <2>9. ASSUME SendDone PROVE StopInv'
    <3>1. /\ send.pc = "finished" /\ send'.pc = "done" /\ send'.chunk = send.chunk
          /\ out' = Close(out) /\ UNCHANGED << inn, stream, recv, rx >>
      BY <2>1, <2>9 DEF SendDone, SetOut
    <3>2. out'.closed = TRUE /\ out'.buf = out.buf
      BY <2>1, <3>1, CloseFields
    <3> QED
      BY <3>1, <3>2
  <2>10. ASSUME SendFails PROVE StopInv'
    <3>1. /\ send'.pc = "failed" /\ send'.chunk = << >> /\ out' = Close(out)
          /\ stream.lost \/ stream.stopped
          /\ UNCHANGED << inn, stream, recv, rx >>
      BY <2>10 DEF SendFails
    <3>2. out'.closed = TRUE /\ out'.buf = out.buf
      BY <2>1, <3>1, CloseFields
    <3> QED
      BY <3>1, <3>2
  <2>11. ASSUME NEW n \in 1..Len(send.chunk), SendWrite(n) PROVE StopInv'
    <3>1. /\ send.pc = "write" /\ ~ stream.stopped /\ UNCHANGED << out, inn, recv, rx >>
          /\ send'.pc = (IF n = Len(send.chunk) THEN "read" ELSE "write")
          /\ send'.chunk = Drop(send.chunk, n)
          /\ stream'.fin = stream.fin /\ stream'.stopped = stream.stopped
          /\ stream'.lost = stream.lost
      BY <2>1, <2>11 DEF SendWrite
    <3>2. n = Len(send.chunk) => Drop(send.chunk, n) = << >>
      <4>1. Len(send.chunk) \in Nat
        BY <2>1, LenProperties
      <4>2. n = Len(send.chunk) => SubSeq(send.chunk, n + 1, Len(send.chunk)) = << >>
        BY <4>1, SubSeqEmpty
      <4> QED
        BY <4>2 DEF Drop
    <3>3. ~ stream.fin /\ recv.pc # "done"
      BY <3>1
    <3> QED
      BY <3>1, <3>2, <3>3
  <2>12. ASSUME NEW n \in 1..Len(stream.bytes), RecvRead(n) PROVE StopInv'
    <3>1. /\ recv.pc = "read" /\ recv'.pc = "write" /\ UNCHANGED << out, inn, send, rx >>
          /\ stream'.fin = stream.fin /\ stream'.stopped = stream.stopped
          /\ stream'.lost = stream.lost
      BY <2>1, <2>12 DEF RecvRead
    <3> QED
      BY <3>1
  <2>13. ASSUME RecvEnd PROVE StopInv'
    <3>1. /\ recv.pc = "read" /\ recv'.pc = "done" /\ recv'.chunk = recv.chunk
          /\ stream.bytes = << >> /\ stream.fin /\ UNCHANGED << out, send, stream, rx >>
      BY <2>1, <2>13 DEF RecvEnd
    <3> QED
      BY <3>1
  <2>14. ASSUME RecvWrite PROVE StopInv'
    <3>1. recv.pc = "write" /\ UNCHANGED << out, send, rx >>
      BY <2>14 DEF RecvWrite
    <3>2. CASE /\ inn.closed /\ recv' = [pc |-> "done", chunk |-> << >>]
               /\ stream' = [stream EXCEPT !.stopped = TRUE]
      <4>1. /\ stream'.bytes = stream.bytes /\ stream'.fin = stream.fin
            /\ stream'.stopped = TRUE /\ stream'.lost = stream.lost
        BY <2>1, <3>2
      <4> QED
        BY <3>1, <3>2, <4>1
    <3>3. CASE /\ ~ inn.closed /\ inn' = ParkOnWrite(inn, "recv_loop")
               /\ UNCHANGED << recv, stream >>
      <4>1. inn'.closed = inn.closed
        BY <2>1, <2>2, <3>3, ParkFields
      <4> QED
        BY <3>1, <3>3, <4>1
    <3> DEFINE n == SmallerOf(Len(recv.chunk), RemainingWriteCapacity(inn))
    <3>4. CASE /\ ~ inn.closed /\ SetInn(Put(inn, SubSeq(recv.chunk, 1, n)))
               /\ recv' = [pc |-> IF n = Len(recv.chunk) THEN "read" ELSE "write",
                           chunk |-> Drop(recv.chunk, n)]
               /\ UNCHANGED stream
      <4>1. n \in 0..Len(recv.chunk) /\ Len(recv.chunk) \in Nat
        BY <2>1, WriteLength, LenProperties DEF Bounded
      <4> HIDE DEF n
      <4>2. SubSeq(recv.chunk, 1, n) \in Seq(Byte)
        BY <2>1, <4>1, Split
      <4>3. inn'.closed = inn.closed
        BY <2>1, <3>4, <4>2, PutFields DEF SetInn
      <4>4. n = Len(recv.chunk) => Drop(recv.chunk, n) = << >>
        <5>1. n = Len(recv.chunk) => SubSeq(recv.chunk, n + 1, Len(recv.chunk)) = << >>
          BY <4>1, SubSeqEmpty
        <5> QED
          BY <5>1 DEF Drop
      <4> QED
        BY <3>1, <3>4, <4>3, <4>4
    <3> QED
      BY <2>14, <3>2, <3>3, <3>4 DEF RecvWrite
  <2>15. ASSUME RecvFails PROVE StopInv'
    <3>1. /\ stream.lost /\ recv' = [pc |-> "failed", chunk |-> << >>]
          /\ UNCHANGED << out, send, stream, rx >>
      BY <2>15 DEF RecvFails
    <3> QED
      BY <3>1
  <2>16. ASSUME PollRecv PROVE StopInv'
    <3>1. rx = "open" /\ UNCHANGED << out, send, stream, recv >>
      BY <2>16 DEF PollRecv
    <3>2. inn'.closed = inn.closed
      <4>1. CASE UNCHANGED inn
        BY <4>1
      <4>2. CASE inn' = ParkOnRead(inn, "receiver")
        BY <2>1, <2>2, <4>2, ParkFields
      <4> DEFINE bytes == SubSeq(inn.buf, 1, inn.buf[1].len)
      <4>3. CASE Decodable(inn.buf) /\ SetInn(Take(inn, Len(bytes)))
        <5>1. inn.buf \in Seq(Byte) /\ inn.buf[1].len \in 0..Len(inn.buf)
          BY <2>1, <4>3, InnerFields, DecodableLength
        <5>2. Len(bytes) \in 0..Len(inn.buf)
          BY <5>1, Split
        <5> HIDE DEF bytes
        <5> QED
          BY <2>1, <4>3, <5>2, TakeFields DEF SetInn
      <4> QED
        BY <2>16, <4>1, <4>2, <4>3 DEF PollRecv
    <3> QED
      BY <3>1, <3>2
  <2>17. ASSUME DropReceiver PROVE StopInv'
    BY <2>17 DEF DropReceiver
  <2>18. ASSUME ConnectionLost PROVE StopInv'
    <3>1. /\ stream'.bytes = stream.bytes /\ stream'.fin = stream.fin
          /\ stream'.stopped = stream.stopped /\ stream'.lost = TRUE
          /\ UNCHANGED << out, inn, send, recv, rx >>
      BY <2>1, <2>18 DEF ConnectionLost
    <3> QED
      BY <3>1
  <2>19. ASSUME NEW s, NEW len, StartSend(s, len) PROVE StopInv'
    BY <2>3, <2>19 DEF StartSend
  <2>20. CASE UNCHANGED vars
    BY <2>3, <2>20 DEF vars
  <2> QED
    BY <2>4, <2>5, <2>6, <2>7, <2>8, <2>9, <2>10, <2>11, <2>12, <2>13, <2>14, <2>15, <2>16,
       <2>17, <2>18, <2>19, <2>20 DEF Next, SenderNext, LoopNext
<1> QED
  BY <1>1, <1>2, Typing, PTL DEF Spec

(* Concatenation by its algebra alone: the provers lose themselves in the  *)
(* indices of nested concatenations otherwise.                             *)
Cat(s, t) == s \o t

(* It yields sequences of bytes,                                           *)
LEMMA CatType == \A s, t \in Seq(Byte) : Cat(s, t) \in Seq(Byte)
  BY ConcatProperties DEF Cat

(* is associative,                                                         *)
LEMMA CatAssoc ==
    \A s, t, u \in Seq(Byte) : Cat(Cat(s, t), u) = Cat(s, Cat(t, u))
<1> SUFFICES ASSUME NEW s \in Seq(Byte), NEW t \in Seq(Byte), NEW u \in Seq(Byte)
             PROVE  (s \o t) \o u = s \o (t \o u)
  BY DEF Cat
<1> QED
  BY ConcatAssociative

(* lets bytes move from one holder to the next without a change of the     *)
(* whole,                                                                  *)
LEMMA CatShift ==
    \A r, x, y, z \in Seq(Byte) :
        Cat(Cat(r, x), Cat(y, z)) = Cat(r, Cat(Cat(x, y), z))
<1> SUFFICES ASSUME NEW r \in Seq(Byte), NEW x \in Seq(Byte), NEW y \in Seq(Byte),
                    NEW z \in Seq(Byte)
             PROVE  Cat(Cat(r, x), Cat(y, z)) = Cat(r, Cat(Cat(x, y), z))
  OBVIOUS
<1>1. Cat(y, z) \in Seq(Byte)
  BY CatType
<1> QED
  BY <1>1, CatAssoc

(* and has a neutral element.                                              *)
LEMMA CatEmpty ==
    << >> \in Seq(Byte) /\ \A s \in Seq(Byte) : Cat(<< >>, s) = s /\ Cat(s, << >>) = s
  BY EmptySeq, ConcatEmptySeq DEF Cat

(* What has come out of the stream, and what is accepted and held          *)
(* somewhere, in order.                                                    *)
Arrived == Cat(received, Cat(inn.buf, recv.chunk))
Carried == Cat(Cat(Arrived, stream.bytes), Cat(send.chunk, out.buf))

(* accepted starts with s.                                                 *)
Begins(s) == \E rest \in Seq(Byte) : accepted = Cat(s, rest)

(* All bytes are where NothingLostInTransit says; and whatever failed, no  *)
(* byte is ever invented, repeated or out of order on the receiving side.  *)
ByteInv ==
    /\ send.pc # "failed" /\ recv.pc # "failed" /\ ~ stream.stopped => accepted = Carried
    /\ recv.pc \in {"read", "write"} => Begins(Cat(Arrived, stream.bytes))
    /\ Begins(Arrived)

(* The sequences that the invariant is made of.                            *)
LEMMA BufferSequences ==
    ASSUME TypeInv
    PROVE  /\ received \in Seq(Byte) /\ inn.buf \in Seq(Byte) /\ recv.chunk \in Seq(Byte)
           /\ stream.bytes \in Seq(Byte) /\ send.chunk \in Seq(Byte) /\ out.buf \in Seq(Byte)
           /\ accepted \in Seq(Byte)
           /\ Arrived \in Seq(Byte) /\ Cat(Arrived, stream.bytes) \in Seq(Byte)
           /\ Cat(send.chunk, out.buf) \in Seq(Byte)
<1>1. /\ received \in Seq(Byte) /\ inn.buf \in Seq(Byte) /\ recv.chunk \in Seq(Byte)
      /\ stream.bytes \in Seq(Byte) /\ send.chunk \in Seq(Byte) /\ out.buf \in Seq(Byte)
      /\ accepted \in Seq(Byte)
  BY InnerFields DEF TypeInv, TypeOK
<1>2. Cat(inn.buf, recv.chunk) \in Seq(Byte) /\ Cat(send.chunk, out.buf) \in Seq(Byte)
  BY <1>1, CatType
<1>3. Arrived \in Seq(Byte)
  BY <1>1, <1>2, CatType DEF Arrived
<1> QED
  BY <1>1, <1>2, <1>3, CatType

(* A prefix of a prefix.                                                   *)
LEMMA BeginsShorter ==
    ASSUME NEW s \in Seq(Byte), NEW t \in Seq(Byte), Begins(Cat(s, t))
    PROVE  Begins(s)
<1>1. PICK rest \in Seq(Byte) : accepted = Cat(Cat(s, t), rest)
  BY DEF Begins
<1>2. accepted = Cat(s, Cat(t, rest)) /\ Cat(t, rest) \in Seq(Byte)
  BY <1>1, CatAssoc, CatType
<1> QED
  BY <1>2 DEF Begins

(* No loop, buffer or stream drops, repeats or reorders a byte.            *)
THEOREM BytesInOrder == Spec => []ByteInv
<1>1. Init => ByteInv
  <2> SUFFICES ASSUME Init PROVE ByteInv
    OBVIOUS
  <2>1. /\ received = << >> /\ inn.buf = << >> /\ recv.chunk = << >> /\ stream.bytes = << >>
        /\ send.chunk = << >> /\ out.buf = << >> /\ accepted = << >>
    BY DEF Init, NewInner
  <2>2. Cat(<< >>, << >>) = << >> /\ << >> \in Seq(Byte)
    BY CatEmpty
  <2>3. Arrived = << >> /\ Cat(Arrived, stream.bytes) = << >> /\ Carried = << >>
    BY <2>1, <2>2 DEF Arrived, Carried
  <2> QED
    BY <2>1, <2>2, <2>3 DEF ByteInv, Begins
<1>2. TypeInv /\ Bounded /\ TypeInv' /\ StopInv /\ ByteInv /\ [Next]_vars => ByteInv'
  <2> SUFFICES ASSUME TypeInv, Bounded, TypeInv', StopInv, ByteInv, [Next]_vars
               PROVE  ByteInv'
    OBVIOUS
  <2>1. /\ received \in Seq(Byte) /\ inn.buf \in Seq(Byte) /\ recv.chunk \in Seq(Byte)
        /\ stream.bytes \in Seq(Byte) /\ send.chunk \in Seq(Byte) /\ out.buf \in Seq(Byte)
        /\ accepted \in Seq(Byte)
        /\ Arrived \in Seq(Byte) /\ Cat(Arrived, stream.bytes) \in Seq(Byte)
        /\ Cat(send.chunk, out.buf) \in Seq(Byte)
    BY BufferSequences
  <2>2. /\ stream \in [bytes: Seq(Byte), fin: BOOLEAN, stopped: BOOLEAN, lost: BOOLEAN]
        /\ send \in [pc: {"read", "write", "finished", "done", "failed"}, chunk: Seq(Byte)]
        /\ recv \in [pc: {"read", "write", "done", "failed"}, chunk: Seq(Byte)]
        /\ out \in Inner /\ inn \in Inner
    BY RecordFields
  <2>3. /\ "send_loop" \in Tasks /\ "recv_loop" \in Tasks /\ "receiver" \in Tasks
        /\ \A s \in Senders : s \in Tasks
    BY DEF Tasks
  <2>4. << >> \in Seq(Byte) /\ \A s \in Seq(Byte) : Cat(<< >>, s) = s /\ Cat(s, << >>) = s
    BY CatEmpty
  (* The bytes stay where they are, and no loop that had failed goes on.   *)
  <2>5. ASSUME UNCHANGED accepted, Arrived' = Arrived, stream'.bytes = stream.bytes,
               Cat(send'.chunk, out'.buf) = Cat(send.chunk, out.buf),
               recv'.pc \in {"read", "write"} => recv.pc \in {"read", "write"},
               send'.pc # "failed" => send.pc # "failed",
               recv'.pc # "failed" => recv.pc # "failed",
               ~ stream'.stopped => ~ stream.stopped
        PROVE  ByteInv'
    <3>1. Carried' = Carried
      BY <2>5 DEF Carried
    <3> QED
      BY <2>5, <3>1 DEF ByteInv, Begins
  <2>6. ASSUME out'.buf = out.buf, UNCHANGED << inn, send, stream, recv, accepted, received >>
        PROVE  ByteInv'
    <3>1. Arrived' = Arrived
      BY <2>6 DEF Arrived
    <3> QED
      BY <2>5, <2>6, <3>1
  <2>7. ASSUME NEW s \in Senders, PollSend(s) PROVE ByteInv'
    <3> DEFINE bytes == Message(s, count[s], pending[s])
    <3>1. /\ pending[s] > 0 /\ pending[s] \in Lengths /\ count[s] \in Nat
          /\ UNCHANGED << inn, send, stream, recv, received >>
      BY <2>7 DEF PollSend, TypeInv, TypeOK
    <3>2. ASSUME pending[s] <= RemainingWriteCapacity(out)
          PROVE  bytes \in Seq(Byte)
      <4>1. pending[s] \in Fitting
        BY <2>2, <3>1, <3>2, FitsBuffer
      <4> QED
        BY <3>1, <4>1, MessageBytes
    <3> HIDE DEF bytes
    <3>3. CASE UNCHANGED << out, accepted >>
      BY <2>6, <3>1, <3>3
    <3>4. CASE /\ pending[s] <= RemainingWriteCapacity(out)
               /\ SetOut(Put(out, bytes)) /\ accepted' = accepted \o bytes
      <4>0. bytes \in Seq(Byte)
        BY <3>2, <3>4
      <4>1. out'.buf = Cat(out.buf, bytes) /\ accepted' = Cat(accepted, bytes)
        BY <2>2, <4>0, <3>4, PutFields DEF SetOut, Cat
      <4>2. Arrived' = Arrived
        BY <3>1 DEF Arrived
      <4>3. ASSUME NEW x \in Seq(Byte), Begins(x) PROVE Begins(x)'
        <5>1. PICK rest \in Seq(Byte) : accepted = Cat(x, rest)
          BY <4>3 DEF Begins
        <5>2. accepted' = Cat(x, Cat(rest, bytes))
          BY <4>0, <4>1, <5>1, CatAssoc
        <5>3. Cat(rest, bytes) \in Seq(Byte)
          BY <4>0, CatType
        <5> QED
          BY <5>2, <5>3 DEF Begins
      <4>4. Carried' = Cat(Carried, bytes)
        <5>1. Carried' = Cat(Cat(Arrived, stream.bytes), Cat(send.chunk, Cat(out.buf, bytes)))
          BY <3>1, <4>1, <4>2 DEF Carried
        <5>2. Cat(send.chunk, Cat(out.buf, bytes)) = Cat(Cat(send.chunk, out.buf), bytes)
          BY <2>1, <4>0, CatAssoc
        <5>3. Cat(Cat(Arrived, stream.bytes), Cat(Cat(send.chunk, out.buf), bytes)) = Cat(Carried, bytes)
          BY <2>1, <4>0, CatAssoc DEF Carried
        <5> QED
          BY <5>1, <5>2, <5>3
      <4>5. Begins(Arrived)'
        BY <2>1, <4>2, <4>3 DEF ByteInv
      <4>6. recv'.pc \in {"read", "write"} => Begins(Cat(Arrived, stream.bytes))'
        BY <2>1, <3>1, <4>2, <4>3 DEF ByteInv
      <4> QED
        BY <3>1, <4>1, <4>4, <4>5, <4>6 DEF ByteInv
    <3>5. CASE out' = ParkOnWrite(out, s) /\ UNCHANGED accepted
      <4>1. out'.buf = out.buf
        BY <2>2, <2>3, <3>5, ParkFields
      <4> QED
        BY <2>6, <3>1, <3>5, <4>1
    <3> QED
      BY <2>7, <3>3, <3>4, <3>5 DEF PollSend, bytes
  <2>8. ASSUME NEW s \in Senders, DropSender(s) PROVE ByteInv'
    <3>1. /\ UNCHANGED << inn, send, stream, recv, accepted, received >>
          /\ out' \in {out, Close(out)}
      BY <2>8 DEF DropSender
    <3> QED
      BY <2>2, <2>6, <3>1, CloseFields
  <2>9. ASSUME CloseSenders PROVE ByteInv'
    <3>1. UNCHANGED << inn, send, stream, recv, accepted, received >> /\ out' = Close(out)
      BY <2>9 DEF CloseSenders, SetOut
    <3> QED
      BY <2>2, <2>6, <3>1, CloseFields
  <2>10. ASSUME NEW amount \in Amounts, IssueGuarantee(amount) PROVE ByteInv'
    <3>1. amount \in Nat
      BY ChannelAssumption
    <3>2. /\ UNCHANGED << inn, send, stream, recv, accepted, received >>
          /\ out' = AddGuarantees(out, amount)
      BY <2>10 DEF IssueGuarantee, SetOut
    <3>3. out'.buf = out.buf
      BY <2>2, <3>1, <3>2, GuaranteeFields
    <3> QED
      BY <2>6, <3>2, <3>3
  <2>11. ASSUME SendRead PROVE ByteInv'
    <3>1. send.pc = "read" /\ UNCHANGED << inn, recv, accepted, received >>
      BY <2>11 DEF SendRead
    <3>2. send.chunk = << >> /\ Arrived' = Arrived
      BY <3>1 DEF StopInv, Arrived
    <3>3. CASE /\ send' = [pc |-> "write", chunk |-> out.buf]
               /\ SetOut(Take(out, Len(out.buf))) /\ UNCHANGED stream
      <4>1. Len(out.buf) \in 0..Len(out.buf)
        BY <2>1, LenProperties
      <4>2. out'.buf = Drop(out.buf, Len(out.buf))
        BY <2>2, <3>3, <4>1, TakeFields DEF SetOut
      <4>3. out'.buf = << >>
        BY <4>1, <4>2, SubSeqEmpty DEF Drop
      <4>4. Cat(send'.chunk, out'.buf) = Cat(send.chunk, out.buf)
        BY <2>1, <2>4, <3>2, <3>3, <4>3
      <4> QED
        BY <2>5, <3>1, <3>2, <3>3, <4>4
    <3>4. CASE /\ send' = [send EXCEPT !.pc = "finished"]
               /\ stream' = [stream EXCEPT !.fin = TRUE] /\ UNCHANGED out
      <4>1. /\ send'.chunk = send.chunk /\ stream'.bytes = stream.bytes
            /\ stream'.stopped = stream.stopped
        BY <2>2, <3>4
      <4> QED
        BY <2>5, <3>1, <3>2, <3>4, <4>1
    <3>5. CASE out' = ParkOnRead(out, "send_loop") /\ UNCHANGED << send, stream >>
      <4>1. out'.buf = out.buf
        BY <2>2, <2>3, <3>5, ParkFields
      <4> QED
        BY <2>6, <3>1, <3>5, <4>1
    <3> QED
      BY <2>11, <3>3, <3>4, <3>5 DEF SendRead
  <2>12. ASSUME SendDone PROVE ByteInv'
    <3>1. /\ send.pc = "finished" /\ send'.chunk = send.chunk /\ out' = Close(out)
          /\ UNCHANGED << inn, stream, recv, accepted, received >>
      BY <2>2, <2>12 DEF SendDone, SetOut
    <3>2. out'.buf = out.buf
      BY <2>2, <3>1, CloseFields
    <3> QED
      BY <2>5, <3>1, <3>2 DEF Arrived
  <2>13. ASSUME SendFails PROVE ByteInv'
    <3>1. /\ send'.pc = "failed" /\ UNCHANGED << inn, stream, recv, accepted, received >>
      BY <2>13 DEF SendFails
    <3>2. Arrived' = Arrived
      BY <3>1 DEF Arrived
    <3> QED
      BY <3>1, <3>2 DEF ByteInv, Begins
  <2>14. ASSUME NEW n \in 1..Len(send.chunk), SendWrite(n) PROVE ByteInv'
    <3> DEFINE x == SubSeq(send.chunk, 1, n)
               y == Drop(send.chunk, n)
    <3>1. /\ send.pc = "write" /\ ~ stream.stopped
          /\ stream'.bytes = Cat(stream.bytes, x) /\ stream'.stopped = stream.stopped
          /\ send'.pc \in {"read", "write"} /\ send'.chunk = y
          /\ UNCHANGED << out, inn, recv, accepted, received >>
      BY <2>2, <2>14 DEF SendWrite, Cat
    <3>2. x \in Seq(Byte) /\ y \in Seq(Byte) /\ send.chunk = Cat(x, y)
      <4>1. n \in 0..Len(send.chunk)
        BY <2>1, LenProperties
      <4> QED
        BY <2>1, <4>1, Split DEF Cat
    <3> HIDE DEF x, y
    <3>3. Arrived' = Arrived
      BY <3>1 DEF Arrived
    <3>4. Cat(Arrived, Cat(stream.bytes, x)) = Cat(Cat(Arrived, stream.bytes), x)
      BY <2>1, <3>2, CatAssoc
    <3>5. Carried' = Carried
      <4>1. Carried' = Cat(Cat(Cat(Arrived, stream.bytes), x), Cat(y, out.buf))
        BY <3>1, <3>3, <3>4 DEF Carried
      <4>2. Carried = Cat(Cat(Arrived, stream.bytes), Cat(Cat(x, y), out.buf))
        BY <3>2 DEF Carried
      <4> QED
        <5> DEFINE r == Cat(Arrived, stream.bytes)
                   z == out.buf
        <5>1. r \in Seq(Byte) /\ x \in Seq(Byte) /\ y \in Seq(Byte) /\ z \in Seq(Byte)
          BY <2>1, <3>2
        <5> HIDE DEF r, z
        <5>2. Cat(Cat(r, x), Cat(y, z)) = Cat(r, Cat(Cat(x, y), z))
          BY <5>1, CatShift
        <5>3. Cat(Cat(Cat(Arrived, stream.bytes), x), Cat(y, out.buf))
                = Cat(Cat(Arrived, stream.bytes), Cat(Cat(x, y), out.buf))
          BY <5>2 DEF r, z
        <5> QED
          BY <4>1, <4>2, <5>3
    <3>6. ASSUME recv.pc # "failed" PROVE Begins(Cat(Arrived, stream.bytes))'
      <4>1. accepted = Carried
        BY <3>1, <3>6 DEF ByteInv
      <4>2. accepted' = Cat(Cat(Arrived, stream.bytes)', Cat(y, out.buf))
        BY <3>1, <3>3, <3>5, <4>1 DEF Carried
      <4>3. Cat(y, out.buf) \in Seq(Byte)
        BY <2>1, <3>2, CatType
      <4> QED
        BY <4>2, <4>3 DEF Begins
    <3> QED
      BY <3>1, <3>3, <3>5, <3>6 DEF ByteInv, Begins
  <2>15. ASSUME NEW n \in 1..Len(stream.bytes), RecvRead(n) PROVE ByteInv'
    <3> DEFINE x == SubSeq(stream.bytes, 1, n)
               y == Drop(stream.bytes, n)
    <3>1. /\ recv.pc = "read" /\ recv'.pc = "write" /\ recv'.chunk = x
          /\ stream'.bytes = y /\ stream'.stopped = stream.stopped
          /\ UNCHANGED << out, inn, send, accepted, received >>
      BY <2>2, <2>15 DEF RecvRead
    <3>2. x \in Seq(Byte) /\ y \in Seq(Byte) /\ stream.bytes = Cat(x, y)
      <4>1. n \in 0..Len(stream.bytes)
        BY <2>1, LenProperties
      <4> QED
        BY <2>1, <4>1, Split DEF Cat
    <3> HIDE DEF x, y
    <3>3. Arrived' = Cat(Arrived, x)
      <4>1. recv.chunk = << >>
        BY <3>1 DEF StopInv
      <4>2. Arrived = Cat(received, inn.buf)
        BY <2>1, <2>4, <4>1 DEF Arrived
      <4>3. Arrived' = Cat(received, Cat(inn.buf, x))
        BY <3>1 DEF Arrived
      <4> QED
        BY <2>1, <3>2, <4>2, <4>3, CatAssoc
    <3>4. Cat(Arrived, stream.bytes)' = Cat(Arrived, stream.bytes)
      <4>1. Cat(Arrived, stream.bytes)' = Cat(Cat(Arrived, x), y)
        BY <3>1, <3>3
      <4> QED
        BY <2>1, <3>2, <4>1, CatAssoc
    <3>5. Carried' = Carried
      BY <3>1, <3>4 DEF Carried
    <3>6. Begins(Cat(Arrived, stream.bytes))'
      BY <3>1, <3>4 DEF ByteInv, Begins
    <3>7. Begins(Arrived)'
      <4>1. Begins(Cat(Cat(Arrived, x), y))
        BY <2>1, <3>1, <3>2, CatAssoc DEF ByteInv
      <4>2. Cat(Arrived, x) \in Seq(Byte)
        BY <2>1, <3>2, CatType
      <4>3. Begins(Cat(Arrived, x))
        BY <3>2, <4>1, <4>2, BeginsShorter
      <4> QED
        BY <3>1, <3>3, <4>3 DEF Begins
    <3> QED
      BY <3>1, <3>5, <3>6, <3>7 DEF ByteInv
  <2>16. ASSUME RecvEnd PROVE ByteInv'
    <3>1. /\ recv.pc = "read" /\ recv'.pc = "done" /\ recv'.chunk = recv.chunk
          /\ inn' = Close(inn) /\ UNCHANGED << out, send, stream, accepted, received >>
      BY <2>2, <2>16 DEF RecvEnd, SetInn
    <3>2. inn'.buf = inn.buf
      BY <2>2, <3>1, CloseFields
    <3>3. Arrived' = Arrived
      BY <3>1, <3>2 DEF Arrived
    <3> QED
      BY <2>5, <3>1, <3>3
  (* The loop gives up what it holds.                                      *)
  <2>17. ASSUME recv'.chunk = << >>, inn'.buf = inn.buf, UNCHANGED << accepted, received >>,
                recv'.pc = "failed" \/ (recv'.pc = "done" /\ stream'.stopped)
         PROVE  ByteInv'
    <3>1. Cat(received, inn.buf) \in Seq(Byte)
      BY <2>1, CatType
    <3>2. Arrived = Cat(Cat(received, inn.buf), recv.chunk)
      BY <2>1, CatAssoc DEF Arrived
    <3>3. Begins(Cat(received, inn.buf))
      BY <2>1, <3>1, <3>2, BeginsShorter DEF ByteInv
    <3>4. Arrived' = Cat(received, inn.buf)
      BY <2>1, <2>4, <2>17 DEF Arrived
    <3> QED
      BY <2>17, <3>3, <3>4 DEF ByteInv, Begins
  <2>18. ASSUME RecvWrite PROVE ByteInv'
    <3>1. recv.pc = "write" /\ UNCHANGED << out, send, rx, accepted, received >>
      BY <2>18 DEF RecvWrite
    <3>2. CASE /\ recv' = [pc |-> "done", chunk |-> << >>] /\ SetInn(Close(inn))
               /\ stream' = [stream EXCEPT !.stopped = TRUE]
      <4>1. inn'.buf = inn.buf
        BY <2>2, <3>2, CloseFields DEF SetInn
      <4>2. stream'.stopped
        BY <2>2, <3>2
      <4> QED
        BY <2>17, <3>1, <3>2, <4>1, <4>2
    <3>3. CASE inn' = ParkOnWrite(inn, "recv_loop") /\ UNCHANGED << recv, stream >>
      <4>1. inn'.buf = inn.buf
        BY <2>2, <2>3, <3>3, ParkFields
      <4>2. Arrived' = Arrived
        BY <3>1, <3>3, <4>1 DEF Arrived
      <4> QED
        BY <2>5, <3>1, <3>3, <4>2
    <3> DEFINE n == SmallerOf(Len(recv.chunk), RemainingWriteCapacity(inn))
               x == SubSeq(recv.chunk, 1, n)
               y == Drop(recv.chunk, n)
    <3>4. CASE /\ SetInn(Put(inn, x)) /\ UNCHANGED stream
               /\ recv' = [pc |-> IF n = Len(recv.chunk) THEN "read" ELSE "write", chunk |-> y]
      <4>1. n \in 0..Len(recv.chunk)
        BY <2>1, <2>2, WriteLength DEF Bounded
      <4> HIDE DEF n
      <4>2. x \in Seq(Byte) /\ y \in Seq(Byte) /\ recv.chunk = Cat(x, y)
        BY <2>1, <4>1, Split DEF Cat
      <4> HIDE DEF x, y
      <4>3. inn'.buf = Cat(inn.buf, x)
        BY <2>2, <3>4, <4>2, PutFields DEF SetInn, Cat
      <4>4. Cat(Cat(inn.buf, x), y) = Cat(inn.buf, Cat(x, y))
        BY <2>1, <4>2, CatAssoc
      <4>5. Arrived' = Arrived
        BY <3>1, <3>4, <4>2, <4>3, <4>4 DEF Arrived
      <4> QED
        BY <2>5, <3>1, <3>4, <4>5
    <3> QED
      BY <2>18, <3>2, <3>3, <3>4 DEF RecvWrite
  <2>19. ASSUME RecvFails PROVE ByteInv'
    <3>1. /\ recv' = [pc |-> "failed", chunk |-> << >>] /\ inn' = Close(inn)
          /\ UNCHANGED << accepted, received >>
      BY <2>19 DEF RecvFails
    <3>2. inn'.buf = inn.buf
      BY <2>2, <3>1, CloseFields
    <3> QED
      BY <2>17, <3>1, <3>2
  <2>20. ASSUME PollRecv PROVE ByteInv'
    <3>1. UNCHANGED << out, send, stream, recv, accepted >>
      BY <2>20 DEF PollRecv
    <3>2. CASE UNCHANGED << inn, received >>
      BY <2>6, <3>1, <3>2
    <3>3. CASE inn' = ParkOnRead(inn, "receiver") /\ UNCHANGED received
      <4>1. inn'.buf = inn.buf
        BY <2>2, <2>3, <3>3, ParkFields
      <4>2. Arrived' = Arrived
        BY <3>1, <3>3, <4>1 DEF Arrived
      <4> QED
        BY <2>5, <3>1, <4>2
    <3> DEFINE x == SubSeq(inn.buf, 1, inn.buf[1].len)
               y == Drop(inn.buf, inn.buf[1].len)
    <3>4. CASE /\ Decodable(inn.buf) /\ SetInn(Take(inn, Len(x))) /\ received' = received \o x
      <4>1. inn.buf[1].len \in 0..Len(inn.buf)
        BY <2>1, <3>4, DecodableLength
      <4>2. /\ x \in Seq(Byte) /\ y \in Seq(Byte) /\ inn.buf = Cat(x, y)
            /\ Len(x) = inn.buf[1].len
        BY <2>1, <4>1, Split DEF Cat
      <4> HIDE DEF x
      <4>3. inn'.buf = y
        BY <2>2, <3>4, <4>1, <4>2, TakeFields DEF SetInn
      <4> HIDE DEF y
      <4>4. Arrived' = Cat(Cat(received, x), Cat(y, recv.chunk))
        BY <3>1, <3>4, <4>3 DEF Arrived, Cat
      <4>5. Arrived' = Cat(received, Cat(Cat(x, y), recv.chunk))
        <5> DEFINE z == recv.chunk
        <5>1. received \in Seq(Byte) /\ x \in Seq(Byte) /\ y \in Seq(Byte) /\ z \in Seq(Byte)
          BY <2>1, <4>2
        <5> HIDE DEF z
        <5>2. Cat(Cat(received, x), Cat(y, z)) = Cat(received, Cat(Cat(x, y), z))
          BY <5>1, CatShift
        <5>3. Cat(Cat(received, x), Cat(y, recv.chunk))
                = Cat(received, Cat(Cat(x, y), recv.chunk))
          BY <5>2 DEF z
        <5> QED
          BY <4>4, <5>3
      <4>6. Arrived' = Arrived
        BY <4>2, <4>5 DEF Arrived
      <4> QED
        BY <2>5, <3>1, <4>6
    <3> QED
      BY <2>20, <3>2, <3>3, <3>4 DEF PollRecv
  <2>21. ASSUME DropReceiver PROVE ByteInv'
    <3>1. inn' = Close(inn) /\ UNCHANGED << out, send, stream, recv, accepted, received >>
      BY <2>21 DEF DropReceiver
    <3>2. inn'.buf = inn.buf
      BY <2>2, <3>1, CloseFields
    <3>3. Arrived' = Arrived
      BY <3>1, <3>2 DEF Arrived
    <3> QED
      BY <2>5, <3>1, <3>3
  <2>22. ASSUME ConnectionLost PROVE ByteInv'
    <3>1. /\ stream'.bytes = stream.bytes /\ stream'.stopped = stream.stopped
          /\ UNCHANGED << out, inn, send, recv, accepted, received >>
      BY <2>2, <2>22 DEF ConnectionLost
    <3> QED
      BY <2>5, <3>1 DEF Arrived
  <2>23. ASSUME NEW s, NEW len, StartSend(s, len) PROVE ByteInv'
    BY <2>6, <2>23 DEF StartSend
  <2>24. CASE UNCHANGED vars
    BY <2>6, <2>24 DEF vars
  <2> QED
    BY <2>7, <2>8, <2>9, <2>10, <2>11, <2>12, <2>13, <2>14, <2>15, <2>16, <2>18, <2>19,
       <2>20, <2>21, <2>22, <2>23, <2>24 DEF Next, SenderNext, LoopNext
<1> QED
  BY <1>1, <1>2, Typing, Stopping, PTL DEF Spec

(* Every accepted byte is received or in transit and in order, as long as  *)
(* no loop gave up: over partial writes, short reads, full buffers and     *)
(* closing at any time.                                                    *)
THEOREM NothingIsLostInTransit == Spec => []NothingLostInTransit
<1>1. TypeInv /\ ByteInv => NothingLostInTransit
  <2> SUFFICES ASSUME TypeInv, ByteInv, accepted = Carried
               PROVE  accepted = received \o InTransit
    BY DEF ByteInv, NothingLostInTransit
  <2> DEFINE a == received
             b == inn.buf
             c == recv.chunk
             d == stream.bytes
             e == send.chunk
             f == out.buf
  <2>1. /\ a \in Seq(Byte) /\ b \in Seq(Byte) /\ c \in Seq(Byte)
        /\ d \in Seq(Byte) /\ e \in Seq(Byte) /\ f \in Seq(Byte)
    BY BufferSequences
  <2>2. Carried = Cat(Cat(Cat(a, Cat(b, c)), d), Cat(e, f))
    BY DEF Carried, Arrived
  <2>3. InTransit = Cat(Cat(Cat(Cat(b, c), d), e), f)
    BY DEF InTransit, Cat
  <2> HIDE DEF a, b, c, d, e, f
  <2>4. /\ Cat(b, c) \in Seq(Byte) /\ Cat(e, f) \in Seq(Byte)
        /\ Cat(Cat(b, c), d) \in Seq(Byte)
    BY <2>1, CatType
  <2>5. Carried = Cat(a, Cat(Cat(Cat(b, c), d), Cat(e, f)))
    BY <2>1, <2>2, <2>4, CatAssoc
  <2>6. Carried = Cat(a, InTransit)
    BY <2>1, <2>3, <2>4, <2>5, CatAssoc
  <2> QED
    BY <2>6 DEF a, Cat
<1> QED
  BY <1>1, Typing, BytesInOrder, PTL

-----------------------------------------------------------------------------
(* Message boundaries, and the refinement.                                 *)

(* Around each byte of bs lies the whole message it belongs to.            *)
Framed(bs) ==
    \A j \in 1..Len(bs) :
        /\ bs[j].i \in 1..bs[j].len
        /\ bs[j].i <= j /\ j - bs[j].i + bs[j].len <= Len(bs)
        /\ \A m \in 1..bs[j].len : bs[j - bs[j].i + m] = [bs[j] EXCEPT !.i = m]

(* Messages are accepted and decoded whole.                                *)
FrameInv ==
    /\ Framed(accepted)
    /\ Len(received) < Len(accepted) => accepted[Len(received) + 1].i = 1
    /\ rx # "garbled"

(* The fields of a byte.                                                   *)
LEMMA ByteFields ==
    ASSUME NEW b \in Byte
    PROVE  b.i \in Nat /\ b.len \in Nat /\ b.len \in 1..Cap
<1>1. b.i \in Nat /\ b.len \in Fitting
  BY DEF Byte
<1>2. b.len \in 1..Cap /\ Cap \in Nat
  BY <1>1, FittingLength
<1> QED
  BY <1>1, <1>2

(* poll_send_message appends a whole message or nothing.                   *)
LEMMA FramedAppend ==
    ASSUME NEW bs \in Seq(Byte), Framed(bs),
           NEW s \in Senders, NEW k \in Nat, NEW len \in Fitting
    PROVE  /\ Framed(bs \o Message(s, k, len))
           /\ Len(bs \o Message(s, k, len)) = Len(bs) + len
           /\ \A j \in 1..Len(bs) : (bs \o Message(s, k, len))[j] = bs[j]
           /\ (bs \o Message(s, k, len))[Len(bs) + 1].i = 1
<1> DEFINE msg == Message(s, k, len)
           cs == bs \o msg
           n == Len(bs)
<1>1. /\ msg \in Seq(Byte) /\ Len(msg) = len /\ len \in 1..Cap /\ len \in Nat /\ n \in Nat
      /\ \A m \in 1..len : msg[m] = [from |-> s, k |-> k, i |-> m, len |-> len]
  BY MessageBytes, LenProperties, ChannelAssumption DEF Message, Fitting
<1> HIDE DEF msg
<1>2. /\ cs \in Seq(Byte) /\ Len(cs) = n + len
      /\ \A j \in 1..(n + len) : cs[j] = IF j <= n THEN bs[j] ELSE msg[j - n]
  BY <1>1, ConcatProperties
<1> HIDE DEF cs
<1>3. \A j \in 1..n : cs[j] = bs[j]
  BY <1>1, <1>2
<1>4. \A m \in 1..len : cs[n + m] = [from |-> s, k |-> k, i |-> m, len |-> len]
  <2> SUFFICES ASSUME NEW m \in 1..len
               PROVE  cs[n + m] = [from |-> s, k |-> k, i |-> m, len |-> len]
    OBVIOUS
  <2>1. n + m \in 1..(n + len) /\ ~ (n + m <= n) /\ (n + m) - n = m
    BY <1>1
  <2>2. cs[n + m] = msg[(n + m) - n]
    BY <1>2, <2>1
  <2> QED
    BY <1>1, <2>1, <2>2
<1>5. ASSUME NEW j \in 1..Len(cs)
      PROVE  /\ cs[j].i \in 1..cs[j].len
             /\ cs[j].i <= j /\ j - cs[j].i + cs[j].len <= Len(cs)
             /\ \A m \in 1..cs[j].len : cs[j - cs[j].i + m] = [cs[j] EXCEPT !.i = m]
  <2>1. CASE j <= n
    <3>1. j \in 1..n /\ cs[j] = bs[j] /\ bs[j] \in Byte
      BY <1>1, <1>2, <1>3, <2>1, ElementOfSeq
    <3>2. bs[j].i \in Nat /\ bs[j].len \in Nat
      BY <3>1, ByteFields
    <3>3. /\ bs[j].i \in 1..bs[j].len
          /\ bs[j].i <= j /\ j - bs[j].i + bs[j].len <= n
          /\ \A m \in 1..bs[j].len : bs[j - bs[j].i + m] = [bs[j] EXCEPT !.i = m]
      BY <3>1 DEF Framed
    <3>4. ASSUME NEW m \in 1..bs[j].len PROVE cs[j - bs[j].i + m] = bs[j - bs[j].i + m]
      <4>1. j - bs[j].i + m \in 1..n
        BY <1>1, <3>1, <3>2, <3>3
      <4> QED
        BY <1>3, <4>1
    <3> QED
      <4>1. j - bs[j].i + bs[j].len <= Len(cs)
        BY <1>1, <1>2, <3>1, <3>2, <3>3
      <4>2. \A m \in 1..bs[j].len : cs[j - bs[j].i + m] = [bs[j] EXCEPT !.i = m]
        BY <3>3, <3>4
      <4> QED
        BY <3>1, <3>3, <4>1, <4>2
  <2>2. CASE ~ (j <= n)
    <3>1. j - n \in 1..len /\ j = n + (j - n)
      BY <1>1, <1>2, <2>2
    <3>2. cs[j] = [from |-> s, k |-> k, i |-> j - n, len |-> len]
      BY <1>4, <3>1
    <3>3. cs[j].i = j - n /\ cs[j].len = len
      BY <3>2
    <3>4. \A m \in 1..len : j - (j - n) + m = n + m
      BY <1>1, <3>1
    <3>5. \A m \in 1..len : cs[j - cs[j].i + m] = [cs[j] EXCEPT !.i = m]
      <4> SUFFICES ASSUME NEW m \in 1..len
                   PROVE  cs[j - cs[j].i + m] = [cs[j] EXCEPT !.i = m]
        BY <3>3
      <4>1. cs[j - cs[j].i + m] = cs[n + m]
        BY <3>3, <3>4
      <4>2. cs[n + m] = [from |-> s, k |-> k, i |-> m, len |-> len]
        BY <1>4
      <4>3. [cs[j] EXCEPT !.i = m] = [from |-> s, k |-> k, i |-> m, len |-> len]
        BY <3>2
      <4> QED
        BY <4>1, <4>2, <4>3
    <3> QED
      BY <1>1, <1>2, <3>1, <3>3, <3>5
  <2> QED
    BY <2>1, <2>2
<1>6. Framed(cs)
  BY <1>5 DEF Framed
<1>7. cs[n + 1].i = 1
  BY <1>1, <1>4
<1> QED
  BY <1>2, <1>3, <1>6, <1>7 DEF cs, msg

(* The inbound buffer continues what was received, as it was accepted.     *)
LEMMA BufferContinues ==
    ASSUME TypeInv, ByteInv
    PROVE  /\ received \in Seq(Byte) /\ accepted \in Seq(Byte) /\ inn.buf \in Seq(Byte)
           /\ Len(received) \in Nat /\ Len(accepted) \in Nat /\ Len(inn.buf) \in Nat
           /\ Len(received) + Len(inn.buf) <= Len(accepted)
           /\ \A j \in 1..Len(received) : accepted[j] = received[j]
           /\ \A j \in 1..Len(inn.buf) : accepted[Len(received) + j] = inn.buf[j]
<1> DEFINE r == received
           b == inn.buf
           c == recv.chunk
<1>1. r \in Seq(Byte) /\ b \in Seq(Byte) /\ c \in Seq(Byte) /\ accepted \in Seq(Byte)
      /\ Arrived \in Seq(Byte)
  BY BufferSequences
<1>2. PICK rest \in Seq(Byte) : accepted = Cat(Arrived, rest)
  BY DEF ByteInv, Begins
<1>3. Arrived = Cat(r, Cat(b, c))
  BY DEF Arrived
<1> HIDE DEF r, b, c
<1>4. Cat(b, c) \in Seq(Byte) /\ Cat(c, rest) \in Seq(Byte)
  BY <1>1, <1>2, CatType
<1>5. accepted = Cat(r, Cat(b, Cat(c, rest)))
  <2>1. accepted = Cat(r, Cat(Cat(b, c), rest))
    BY <1>1, <1>2, <1>3, <1>4, CatAssoc
  <2>2. Cat(Cat(b, c), rest) = Cat(b, Cat(c, rest))
    BY <1>1, <1>2, CatAssoc
  <2> QED
    BY <2>1, <2>2
<1> DEFINE t == Cat(c, rest)
           u == Cat(b, t)
<1>6. t \in Seq(Byte) /\ u \in Seq(Byte)
  BY <1>1, <1>4, CatType
<1> HIDE DEF t
<1>7. /\ Len(u) = Len(b) + Len(t) /\ \A j \in 1..Len(b) : u[j] = b[j]
      /\ Len(b) \in Nat /\ Len(t) \in Nat
  <2>1. Len(b) \in Nat /\ Len(t) \in Nat
    BY <1>1, <1>6, LenProperties
  <2>2. /\ Len(b \o t) = Len(b) + Len(t)
        /\ \A j \in 1..(Len(b) + Len(t)) : (b \o t)[j] = IF j <= Len(b) THEN b[j] ELSE t[j - Len(b)]
    BY <1>1, <1>6, ConcatProperties
  <2> QED
    BY <2>1, <2>2 DEF Cat
<1> HIDE DEF u
<1>8. /\ Len(accepted) = Len(r) + Len(u) /\ Len(r) \in Nat /\ Len(accepted) \in Nat
      /\ \A j \in 1..(Len(r) + Len(u)) : accepted[j] = IF j <= Len(r) THEN r[j] ELSE u[j - Len(r)]
  <2>1. accepted = r \o u
    BY <1>5 DEF Cat, u, t
  <2>2. /\ Len(r \o u) = Len(r) + Len(u)
        /\ \A j \in 1..(Len(r) + Len(u)) : (r \o u)[j] = IF j <= Len(r) THEN r[j] ELSE u[j - Len(r)]
    BY <1>1, <1>6, ConcatProperties
  <2> QED
    BY <1>1, <2>1, <2>2, LenProperties
<1>9. \A j \in 1..Len(r) : accepted[j] = r[j]
  BY <1>7, <1>8
<1>10. ASSUME NEW j \in 1..Len(b) PROVE accepted[Len(r) + j] = b[j]
  <2>1. /\ Len(r) + j \in 1..(Len(r) + Len(u)) /\ ~ (Len(r) + j <= Len(r))
        /\ (Len(r) + j) - Len(r) = j
    BY <1>7, <1>8
  <2>2. accepted[Len(r) + j] = u[(Len(r) + j) - Len(r)]
    BY <1>8, <2>1
  <2> QED
    BY <1>7, <2>1, <2>2
<1>11. Len(r) + Len(b) <= Len(accepted)
  BY <1>7, <1>8
<1> QED
  BY <1>1, <1>7, <1>8, <1>9, <1>10, <1>11 DEF r, b

(* What decode_from takes off the buffer is the next message that was      *)
(* accepted, all of it and nothing else.                                   *)
LEMMA DecodesNext ==
    ASSUME TypeInv, ByteInv, FrameInv, Decodable(inn.buf)
    PROVE  LET bytes == SubSeq(inn.buf, 1, inn.buf[1].len)
               end == Len(received) + accepted[Len(received) + 1].len
           IN /\ Intact(bytes)
              /\ Len(received) < Len(accepted)
              /\ received \o bytes = SubSeq(accepted, 1, end)
              /\ Len(received \o bytes) = end
              /\ end < Len(accepted) => accepted[end + 1].i = 1
<1> DEFINE bytes == SubSeq(inn.buf, 1, inn.buf[1].len)
           r == Len(received)
           len == inn.buf[1].len
           end == r + accepted[r + 1].len
<1>1. /\ received \in Seq(Byte) /\ accepted \in Seq(Byte) /\ inn.buf \in Seq(Byte)
      /\ r \in Nat /\ Len(accepted) \in Nat /\ Len(inn.buf) \in Nat
      /\ r + Len(inn.buf) <= Len(accepted)
      /\ \A j \in 1..r : accepted[j] = received[j]
      /\ \A j \in 1..Len(inn.buf) : accepted[r + j] = inn.buf[j]
  BY BufferContinues
<1>2. inn.buf[1] \in Byte /\ len \in 1..Len(inn.buf) /\ len \in Nat
  BY <1>1, DecodableLength
<1>3. /\ bytes \in Seq(Byte) /\ Len(bytes) = len
      /\ \A i \in 1..len : bytes[i] = inn.buf[i]
  <2>1. len \in 0..Len(inn.buf)
    BY <1>2
  <2> QED
    BY <1>1, <2>1, Split
<1>4. r < Len(accepted) /\ r + 1 \in 1..Len(accepted) /\ r + len <= Len(accepted)
  BY <1>1, <1>2
<1>5. accepted[r + 1] = inn.buf[1] /\ accepted[r + 1].len = len /\ end = r + len
  BY <1>1, <1>2
<1>6. accepted[r + 1].i = 1
  BY <1>4 DEF FrameInv
<1>7. \A m \in 1..len : accepted[r + m] = [inn.buf[1] EXCEPT !.i = m]
  <2>1. \A m \in 1..accepted[r + 1].len :
           accepted[(r + 1) - accepted[r + 1].i + m] = [accepted[r + 1] EXCEPT !.i = m]
    BY <1>4 DEF FrameInv, Framed
  <2>2. \A m \in 1..len : accepted[(r + 1) - 1 + m] = [inn.buf[1] EXCEPT !.i = m]
    BY <1>5, <1>6, <2>1
  <2>3. \A m \in 1..len : (r + 1) - 1 + m = r + m
    BY <1>1, <1>2
  <2> QED
    BY <2>2, <2>3
<1> HIDE DEF bytes, r, len, end
<1>8. Intact(bytes)
  <2>1. \A i \in 1..len : bytes[i] = [inn.buf[1] EXCEPT !.i = i]
    <3> SUFFICES ASSUME NEW i \in 1..len PROVE bytes[i] = [inn.buf[1] EXCEPT !.i = i]
      OBVIOUS
    <3>1. i \in 1..Len(inn.buf)
      BY <1>1, <1>2
    <3>2. accepted[r + i] = inn.buf[i]
      BY <1>1, <3>1
    <3>3. bytes[i] = inn.buf[i]
      BY <1>3
    <3>4. accepted[r + i] = [inn.buf[1] EXCEPT !.i = i]
      BY <1>7
    <3> QED
      BY <3>2, <3>3, <3>4
  <2>2. bytes[1] = inn.buf[1]
    BY <1>2, <1>3
  <2>3. Len(bytes) = bytes[1].len
    BY <1>3, <2>2 DEF len
  <2> QED
    BY <1>3, <2>1, <2>2, <2>3 DEF Intact
<1>9. Len(received \o bytes) = end
  BY <1>1, <1>3, <1>5, ConcatProperties DEF r
<1>10. received \o bytes = SubSeq(accepted, 1, end)
  <2>1. end \in 0..Len(accepted)
    BY <1>1, <1>2, <1>4, <1>5
  <2>2. /\ SubSeq(accepted, 1, end) \in Seq(Byte) /\ Len(SubSeq(accepted, 1, end)) = end
        /\ \A j \in 1..end : SubSeq(accepted, 1, end)[j] = accepted[j]
    BY <1>1, <2>1, Split
  <2>3. /\ received \o bytes \in Seq(Byte)
        /\ \A j \in 1..(r + len) : (received \o bytes)[j] = IF j <= r THEN received[j] ELSE bytes[j - r]
    BY <1>1, <1>3, ConcatProperties DEF r
  <2>4. ASSUME NEW j \in 1..end PROVE (received \o bytes)[j] = accepted[j]
    <3>1. CASE j <= r
      <4>1. j \in 1..r /\ j \in 1..(r + len)
        BY <1>1, <1>5, <3>1
      <4> QED
        BY <1>1, <2>3, <3>1, <4>1
    <3>2. CASE ~ (j <= r)
      <4>1. j - r \in 1..len /\ j - r \in 1..Len(inn.buf) /\ r + (j - r) = j /\ j \in 1..(r + len)
        BY <1>1, <1>2, <1>5, <3>2
      <4>2. accepted[r + (j - r)] = inn.buf[j - r]
        BY <1>1, <4>1
      <4> QED
        BY <1>3, <2>3, <3>2, <4>1, <4>2
    <3> QED
      BY <3>1, <3>2
  <2> HIDE DEF end
  <2> QED
    BY <1>9, <2>2, <2>3, <2>4, SeqEqual
<1>11. ASSUME end < Len(accepted) PROVE accepted[end + 1].i = 1
  <2> DEFINE j == end + 1
             b == accepted[j]
  <2>1. j \in 1..Len(accepted) /\ end \in Nat /\ end = r + len
    BY <1>1, <1>2, <1>5, <1>11
  <2>2. b \in Byte /\ b.i \in Nat /\ b.len \in Nat
    <3>1. b \in Byte
      BY <1>1, <2>1, ElementOfSeq
    <3> QED
      BY <3>1, ByteFields
  <2>3. b.i \in 1..b.len /\ \A m \in 1..b.len : accepted[j - b.i + m] = [b EXCEPT !.i = m]
    BY <2>1 DEF FrameInv, Framed
  <2>4. ASSUME b.i # 1 PROVE FALSE
    <3> HIDE DEF b
    <3>1. b.i - 1 \in 1..b.len /\ j - b.i + (b.i - 1) = end
      BY <2>1, <2>2, <2>3, <2>4
    <3>2. accepted[end] = [b EXCEPT !.i = b.i - 1]
      BY <2>3, <3>1
    <3>3. accepted[end] = [inn.buf[1] EXCEPT !.i = len]
      BY <1>2, <1>7, <2>1
    <3>4. [b EXCEPT !.i = b.i - 1].i = b.i - 1 /\ [b EXCEPT !.i = b.i - 1].len = b.len
      BY <2>2 DEF Byte
    <3>5. [inn.buf[1] EXCEPT !.i = len].i = len /\ [inn.buf[1] EXCEPT !.i = len].len = len
      BY <1>2 DEF Byte, len
    <3>6. b.i - 1 = len /\ b.len = len
      BY <3>2, <3>3, <3>4, <3>5
    <3> QED
      BY <1>2, <2>2, <2>3, <3>6
  <2> QED
    BY <2>4
<1> QED
  BY <1>4, <1>8, <1>9, <1>10, <1>11 DEF bytes, r, len, end

(* What the actions do to the two histories and to the end that the        *)
(* receiver sees; all other steps are invisible to the two sessions.       *)
Accepting ==
    \E s \in Senders :
        /\ pending[s] \in Fitting /\ count[s] \in 1..MaxSends
        /\ accepted' = accepted \o Message(s, count[s], pending[s])
        /\ UNCHANGED << received, rx, stream >>

Decoding ==
    LET bytes == SubSeq(inn.buf, 1, inn.buf[1].len) IN
    /\ rx = "open" /\ Decodable(inn.buf)
    /\ received' = received \o bytes
    /\ rx' = IF Intact(bytes) THEN "open" ELSE "garbled"
    /\ UNCHANGED << accepted, stream >>

Ending ==
    /\ rx = "open" /\ inn.closed /\ ~ Decodable(inn.buf)
    /\ rx' = IF inn.buf = << >> THEN "none" ELSE "incomplete"
    /\ UNCHANGED << accepted, received, stream >>

Leaving == rx' = "dropped" /\ UNCHANGED << accepted, received, stream >>

Internal == UNCHANGED << accepted, received, rx >> /\ (stream'.lost = stream.lost \/ stream'.lost)

(* A step does one of four things that the ends of the channel can see, or *)
(* none of them.                                                           *)
LEMMA VisibleSteps ==
    ASSUME TypeInv, [Next]_vars
    PROVE  Accepting \/ Decoding \/ Ending \/ Leaving \/ Internal
<1>1. stream \in [bytes: Seq(Byte), fin: BOOLEAN, stopped: BOOLEAN, lost: BOOLEAN]
  BY RecordFields
<1>2. ASSUME NEW s \in Senders, PollSend(s) PROVE Accepting \/ Internal
  <2>1. pending[s] \in Lengths /\ count[s] \in 1..MaxSends
    BY <1>2 DEF PollSend, TypeInv
  <2>2. pending[s] <= RemainingWriteCapacity(out) => pending[s] \in Fitting
    BY <2>1, FitsBuffer DEF TypeInv, TypeOK
  <2> QED
    BY <1>2, <2>1, <2>2 DEF PollSend, Accepting, Internal
<1>3. ASSUME PollRecv PROVE Decoding \/ Ending \/ Internal
  <2>1. inn.buf = << >> => ~ Decodable(inn.buf)
    BY DEF Decodable
  <2> QED
    BY <1>3, <2>1 DEF PollRecv, Decoding, Ending, Internal
<1>4. ASSUME DropReceiver PROVE Leaving
  BY <1>4 DEF DropReceiver, Leaving
<1>5. ASSUME NEW s, DropSender(s) \/ \E len \in Lengths : StartSend(s, len) PROVE Internal
  BY <1>5 DEF DropSender, StartSend, Internal
<1>6. ASSUME NEW amount, CloseSenders \/ IssueGuarantee(amount) PROVE Internal
  BY <1>6 DEF CloseSenders, IssueGuarantee, Internal
<1>7. ASSUME SendRead \/ SendDone \/ SendFails \/ ConnectionLost PROVE Internal
  BY <1>1, <1>7 DEF SendRead, SendDone, SendFails, ConnectionLost, Internal
<1>8. ASSUME RecvEnd \/ RecvWrite \/ RecvFails PROVE Internal
  BY <1>1, <1>8 DEF RecvEnd, RecvWrite, RecvFails, Internal
<1>9. ASSUME NEW n, SendWrite(n) \/ RecvRead(n) PROVE Internal
  BY <1>1, <1>9 DEF SendWrite, RecvRead, Internal
<1>10. CASE UNCHANGED vars
  BY <1>10 DEF vars, Internal
<1> QED
  BY <1>2, <1>3, <1>4, <1>5, <1>6, <1>7, <1>8, <1>9, <1>10 DEF Next, SenderNext, LoopNext

(* Messages are accepted whole, and the receiver is always between two.    *)
THEOREM Framing == Spec => []FrameInv
<1>1. Init => FrameInv
  <2> SUFFICES ASSUME Init PROVE FrameInv
    OBVIOUS
  <2>1. accepted = << >> /\ received = << >> /\ rx = "open" /\ Len(<< >>) = 0
    BY EmptySeq DEF Init
  <2> QED
    BY <2>1 DEF FrameInv, Framed
<1>2. TypeInv /\ ByteInv /\ FrameInv /\ [Next]_vars => FrameInv'
  <2> SUFFICES ASSUME TypeInv, ByteInv, FrameInv, [Next]_vars PROVE FrameInv'
    OBVIOUS
  <2>1. CASE Accepting
    <3>1. PICK s \in Senders :
            /\ pending[s] \in Fitting /\ count[s] \in 1..MaxSends
            /\ accepted' = accepted \o Message(s, count[s], pending[s])
            /\ UNCHANGED << received, rx, stream >>
      BY <2>1 DEF Accepting
    <3>2. count[s] \in Nat /\ pending[s] \in Nat /\ pending[s] \in 1..Cap
      BY <3>1, ChannelAssumption DEF TypeInv, TypeOK, Fitting
    <3>3. /\ accepted \in Seq(Byte) /\ Len(accepted) \in Nat /\ Len(received) \in Nat
          /\ Len(received) <= Len(accepted)
      BY BufferContinues
    <3>4. /\ Framed(accepted') /\ Len(accepted') = Len(accepted) + pending[s]
          /\ \A j \in 1..Len(accepted) : accepted'[j] = accepted[j]
          /\ accepted'[Len(accepted) + 1].i = 1
      BY <3>1, <3>2, <3>3, FramedAppend DEF FrameInv
    <3>5. accepted'[Len(received) + 1].i = 1
      <4>1. CASE Len(received) = Len(accepted)
        BY <3>4, <4>1
      <4>2. CASE Len(received) < Len(accepted)
        <5>1. Len(received) + 1 \in 1..Len(accepted)
          BY <3>3, <4>2
        <5> QED
          BY <3>4, <4>2, <5>1 DEF FrameInv
      <4> QED
        BY <3>3, <4>1, <4>2
    <3> QED
      BY <3>1, <3>4, <3>5 DEF FrameInv
  <2>2. CASE Decoding
    <3> DEFINE bytes == SubSeq(inn.buf, 1, inn.buf[1].len)
               end == Len(received) + accepted[Len(received) + 1].len
    <3>1. /\ Decodable(inn.buf) /\ received' = received \o bytes
          /\ rx' = (IF Intact(bytes) THEN "open" ELSE "garbled") /\ UNCHANGED accepted
      BY <2>2 DEF Decoding
    <3>2. /\ Intact(bytes) /\ Len(received \o bytes) = end
          /\ end < Len(accepted) => accepted[end + 1].i = 1
      BY <3>1, DecodesNext
    <3> HIDE DEF bytes, end
    <3> QED
      BY <3>1, <3>2 DEF FrameInv
  <2>3. CASE Ending \/ Leaving \/ Internal
    BY <2>3 DEF Ending, Leaving, Internal, FrameInv
  <2> QED
    BY <2>1, <2>2, <2>3, VisibleSteps
<1> QED
  BY <1>1, <1>2, Typing, BytesInOrder, PTL DEF Spec

(* When the inbound buffer is closed although the connection stands and    *)
(* the receiver has not left, the stream had ended: the buffer holds       *)
(* everything that was accepted and not yet received.                      *)
LEMMA ClosedMeansComplete ==
    ASSUME TypeInv, StopInv, ByteInv, rx = "open", inn.closed, ~ stream.lost
    PROVE  accepted = received \o inn.buf
<1>1. recv.pc = "done" /\ ~ stream.stopped
  BY RecordFields DEF StopInv
<1>2. /\ stream.fin /\ stream.bytes = << >> /\ out.buf = << >>
      /\ send.pc \in {"finished", "done"}
  BY <1>1 DEF StopInv
<1>3. send.chunk = << >> /\ recv.chunk = << >>
  BY <1>1, <1>2 DEF StopInv
<1>4. accepted = Carried
  BY <1>1, <1>2 DEF ByteInv
<1>5. /\ received \in Seq(Byte) /\ inn.buf \in Seq(Byte) /\ Arrived \in Seq(Byte)
      /\ Cat(<< >>, << >>) = << >>
  BY BufferSequences, CatEmpty
<1>6. Carried = Cat(Cat(Arrived, << >>), << >>)
  BY <1>2, <1>3, <1>5 DEF Carried
<1>7. Carried = Arrived /\ Arrived = Cat(received, Cat(inn.buf, << >>))
  BY <1>3, <1>5, <1>6, CatEmpty DEF Arrived
<1>8. Carried = Cat(received, inn.buf)
  BY <1>5, <1>7, CatEmpty
<1> QED
  BY <1>4, <1>8 DEF Cat

(* The channel implements the pipe of messages: to the sessions at its two *)
(* ends, its buffers, loops, wakers, guarantees and the QUIC stream are    *)
(* one queue of whole messages that ends after the last one or breaks with *)
(* the connection.                                                         *)
THEOREM ChannelImplementsPipe == Spec => ImplementsMessagePipe
<1>1. Init => Pipe!Init
  BY DEF Init, Pipe!Init
<1>2. TypeInv /\ TypeInv' /\ StopInv /\ ByteInv /\ FrameInv /\ [Next]_vars => [Pipe!Next]_(Pipe!vars)
  <2> SUFFICES ASSUME TypeInv, TypeInv', StopInv, ByteInv, FrameInv, [Next]_vars
               PROVE  [Pipe!Next]_(Pipe!vars)
    OBVIOUS
  <2>1. CASE Accepting
    <3>1. PICK s \in Senders :
            /\ pending[s] \in Fitting /\ count[s] \in 1..MaxSends
            /\ accepted' = accepted \o Message(s, count[s], pending[s])
            /\ UNCHANGED << received, rx, stream >>
      BY <2>1 DEF Accepting
    <3>2. Message(s, count[s], pending[s]) = Pipe!Whole(s, count[s], pending[s])
      BY DEF Message, Pipe!Whole
    <3>3. Pipe!Accept(s, count[s], pending[s])
      BY <3>1, <3>2 DEF Pipe!Accept
    <3> QED
      BY <3>1, <3>3 DEF Pipe!Next, Fitting
  <2>2. CASE Decoding
    <3> DEFINE bytes == SubSeq(inn.buf, 1, inn.buf[1].len)
               end == Len(received) + accepted[Len(received) + 1].len
    <3>1. /\ rx = "open" /\ Decodable(inn.buf) /\ received' = received \o bytes
          /\ rx' = (IF Intact(bytes) THEN "open" ELSE "garbled") /\ UNCHANGED << accepted, stream >>
      BY <2>2 DEF Decoding
    <3>2. /\ Intact(bytes) /\ Len(received) < Len(accepted)
          /\ received \o bytes = SubSeq(accepted, 1, end)
      BY <3>1, DecodesNext
    <3> HIDE DEF bytes
    <3>3. rx' = "open" /\ received' = SubSeq(accepted, 1, end)
      BY <3>1, <3>2
    <3>4. Pipe!Deliver
      BY <3>1, <3>2, <3>3 DEF Pipe!Deliver
    <3> QED
      BY <3>4 DEF Pipe!Next
  <2>3. CASE Ending
    <3>1. /\ rx = "open" /\ inn.closed /\ ~ Decodable(inn.buf)
          /\ rx' = (IF inn.buf = << >> THEN "none" ELSE "incomplete")
          /\ UNCHANGED << accepted, received, stream >>
      BY <2>3 DEF Ending
    <3>2. CASE inn.buf = << >>
      <4>1. stream.lost \/ received = accepted
        <5> SUFFICES ASSUME ~ stream.lost PROVE received = accepted
          BY RecordFields
        <5>1. accepted = received \o << >>
          BY <3>1, <3>2, ClosedMeansComplete
        <5> QED
          BY <5>1, BufferSequences, ConcatEmptySeq
      <4>2. Pipe!End
        BY <3>1, <3>2, <4>1 DEF Pipe!End
      <4> QED
        BY <4>2 DEF Pipe!Next
    <3>3. CASE inn.buf # << >>
      <4>1. ASSUME ~ stream.lost PROVE FALSE
        <5> DEFINE r == Len(received)
        <5>1. /\ received \in Seq(Byte) /\ accepted \in Seq(Byte) /\ inn.buf \in Seq(Byte)
              /\ r \in Nat /\ Len(inn.buf) \in Nat
              /\ \A j \in 1..Len(inn.buf) : accepted[r + j] = inn.buf[j]
          BY BufferContinues
        <5>2. Len(inn.buf) > 0 /\ 1 \in 1..Len(inn.buf)
          BY <3>3, <5>1, EmptySeq
        <5>3. accepted = received \o inn.buf
          BY <3>1, <4>1, ClosedMeansComplete
        <5>4. Len(accepted) = r + Len(inn.buf)
          BY <5>1, <5>3, ConcatProperties
        <5>5. r < Len(accepted) /\ r + 1 \in 1..Len(accepted)
          BY <5>1, <5>2, <5>4
        <5>6. accepted[r + 1] = inn.buf[1] /\ inn.buf[1] \in Byte
          BY <5>1, <5>2, ElementOfSeq
        <5>7. inn.buf[1].i = 1
          BY <5>5, <5>6 DEF FrameInv
        <5>8. (r + 1) - inn.buf[1].i + inn.buf[1].len <= Len(accepted)
          BY <5>5, <5>6 DEF FrameInv, Framed
        <5>9. inn.buf[1].len \in Nat
          BY <5>6, ByteFields
        <5>10. inn.buf[1].len <= Len(inn.buf)
          BY <5>1, <5>4, <5>7, <5>8, <5>9
        <5> QED
          BY <3>1, <3>3, <5>10 DEF Decodable
      <4>2. Pipe!End
        BY <3>1, <3>3, <4>1 DEF Pipe!End
      <4> QED
        BY <4>2 DEF Pipe!Next
    <3> QED
      BY <3>2, <3>3
  <2>4. CASE Leaving
    <3>1. Pipe!Leave
      BY <2>4 DEF Leaving, Pipe!Leave
    <3> QED
      BY <3>1 DEF Pipe!Next
  <2>5. CASE Internal
    <3>1. CASE stream'.lost = stream.lost
      BY <2>5, <3>1 DEF Internal, Pipe!vars
    <3>2. CASE stream'.lost
      <4>1. stream'.lost = TRUE
        BY <3>2, RecordFields DEF TypeInv, TypeOK
      <4>2. Pipe!Break
        BY <2>5, <4>1 DEF Internal, Pipe!Break
      <4> QED
        BY <4>2 DEF Pipe!Next
    <3> QED
      BY <2>5, <3>1, <3>2 DEF Internal
  <2> QED
    BY <2>1, <2>2, <2>3, <2>4, <2>5, VisibleSteps
<1> QED
  BY <1>1, <1>2, Typing, Stopping, BytesInOrder, Framing, PTL
     DEF Spec, ImplementsMessagePipe, Pipe!Spec

=============================================================================
