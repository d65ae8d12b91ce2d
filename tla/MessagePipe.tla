----------------------------- MODULE MessagePipe -----------------------------
(***************************************************************************)
(* What a WGPS channel promises to the sessions at its two ends            *)
(* (util/channel.rs, net.rs prepare_channel): whole messages arrive in the *)
(* order in which they were accepted, none twice and none left out, and    *)
(* the end of the channel is reported after the last of them, or after a   *)
(* failure that the receiver did not cause.                                *)
(***************************************************************************)
EXTENDS Integers, Sequences

CONSTANTS
    Senders, Lengths,
    MaxSends    \* bound: messages per sender

VARIABLES
    accepted,   \* bytes of all messages accepted from the senders
    received,   \* bytes of all messages handed to the receiver
    ended,      \* what ended the channel for the receiver, "no" while it is open
    broken      \* the connection was lost

vars == << accepted, received, ended, broken >>

(* The bytes of the k-th message of a sender.                              *)
Whole(s, k, len) == [i \in 1..len |-> [from |-> s, k |-> k, i |-> i, len |-> len]]

Init ==
    /\ accepted = << >> /\ received = << >>
    /\ ended = "no" /\ broken = FALSE

Accept(s, k, len) ==
    /\ accepted' = accepted \o Whole(s, k, len)
    /\ UNCHANGED << received, ended, broken >>

(* The next message, all of it.                                            *)
Deliver ==
    /\ ended = "no"
    /\ Len(received) < Len(accepted)
    /\ received' = SubSeq(accepted, 1, Len(received) + accepted[Len(received) + 1].len)
    /\ UNCHANGED << accepted, ended, broken >>

Break ==
    /\ broken' = TRUE
    /\ UNCHANGED << accepted, received, ended >>

(* None, after everything; or early, once the connection broke.            *)
End ==
    /\ ended = "no"
    /\ \/ ended' = "none" /\ (broken \/ received = accepted)
       \/ ended' = "incomplete" /\ broken
    /\ UNCHANGED << accepted, received, broken >>

(* The receiver goes away.                                                 *)
Leave ==
    /\ ended' = "dropped"
    /\ UNCHANGED << accepted, received, broken >>

Next ==
    \/ \E s \in Senders, len \in Lengths, k \in 1..MaxSends : Accept(s, k, len)
    \/ Deliver \/ Break \/ End \/ Leave

Spec == Init /\ [][Next]_vars

=============================================================================
