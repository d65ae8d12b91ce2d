------------------------------ MODULE PaiFinder ------------------------------
(***************************************************************************)
(* Private area intersection between the two peers of a session            *)
(* (session/pai_finder.rs), with the commitment reveal it waits for        *)
(* (control_loop in session/run.rs, session/capabilities.rs) and the       *)
(* binding of read capabilities that follows an intersection               *)
(* (on_pai_intersection in session/aoi_finder.rs).                         *)
(*                                                                         *)
(* The messages travel on three logical channels.  Each is FIFO; between   *)
(* them there is no order.  A PsiGroup element that both scalars have been *)
(* applied to is represented by the fragment itself, since only such       *)
(* elements are ever compared.  Signatures are always good.                *)
(***************************************************************************)
EXTENDS Naturals, Sequences, SequencesExt, FiniteSets

CONSTANT Auths     \* peer -> the read authorisations of its interests

Peers == {"alfie", "betty"}
Other(p) == CHOOSE q \in Peers : q # p

(* A ReadAuthorisation: its granted area and, for the subspace "any", the  *)
(* subspace capability that comes with it.  A path is a sequence.          *)
ASSUME AuthsAssumption ==
    /\ DOMAIN Auths = Peers
    /\ \A p \in Peers : \A a \in Auths[p] :
          /\ DOMAIN a = {"receiver", "namespace", "subspace", "path"}
          /\ Len(a.path) \in Nat

VARIABLES
    submitted,   \* authorisations submitted to the finder
    pending,     \* PaiFinder::pending: they wait for Established
    revealed,    \* ChallengeState::Revealed
    ours,        \* our_intersection_handles with fragments_info
    theirs,      \* their_intersection_handles
    requested,   \* requested_subspace_cap_handles
    asked,       \* history: handles of the PaiRequestSubspaceCapability sent
    found,       \* history: << our, their >> handles of each BindReadCap match
    inbox,       \* NewIntersection outputs on their way to the aoi finder
    bound,       \* Capabilities::ours
    chan,        \* chan[p]: messages on their way to p, by logical channel
    failed       \* the error the session stopped with, if any

paiVars == << submitted, pending, revealed, ours, theirs, requested, asked, found,
           inbox, bound, chan, failed >>

Channels == {"intersection", "control", "capability"}

-----------------------------------------------------------------------------
(* Fragments (proto/pai.rs).  A pair has no subspace.                      *)

all_prefixes(path) == [i \in 1..Len(path) + 1 |-> SubSeq(path, 1, i - 1)]

FragmentsOf(a, subspace, kind) ==
    LET prefixes == all_prefixes(a.path) IN
    [i \in DOMAIN prefixes |->
        [fragment |-> << a.namespace, subspace, prefixes[i] >>, kind |-> kind,
         is_most_specific |-> i = Len(prefixes), auth |-> a, complete |-> FALSE]]

(* get_fragment_kit and into_fragment_set, as submit_authorisation goes    *)
(* through them.                                                           *)
fragment_set(a) ==
    IF a.subspace = "any" THEN FragmentsOf(a, "pair", "primary")
    ELSE FragmentsOf(a, a.subspace, "primary") \o FragmentsOf(a, "pair", "secondary")

(* LocalFragmentInfo::on_intersection.                                     *)
on_intersection(info) ==
    CASE info.kind = "primary"   /\   info.is_most_specific -> "BindReadCap"
      [] info.kind = "primary"   /\ ~ info.is_most_specific -> "ReplyReadCap"
      [] info.kind = "secondary" /\   info.is_most_specific -> "RequestSubspaceCap"
      [] info.kind = "secondary" /\ ~ info.is_most_specific -> "DoNothing"

(* Slip: our side of the pair may still be waiting for its reply.          *)
completes_with_pending(our, their) ==
    /\ ~ (our.kind = "secondary" /\ their.is_secondary)
    /\ our.fragment = their.fragment

(* GroupState::completes_with; a state of theirs is always complete.       *)
completes_with(our, their) ==
    /\ our.complete
    /\ ~ (our.kind = "secondary" /\ their.is_secondary)
    /\ our.fragment = their.fragment

-----------------------------------------------------------------------------
(* Messages and outputs.                                                   *)

BindFragment(info) ==
    [type |-> "PaiBindFragment", fragment |-> info.fragment,
     is_secondary |-> info.kind = "secondary"]
ReplyFragment(h) == [type |-> "PaiReplyFragment", handle |-> h]
RequestCap(h)    == [type |-> "PaiRequestSubspaceCapability", handle |-> h]
ReplyCap(h, ns)  == [type |-> "PaiReplySubspaceCapability", handle |-> h, namespace |-> ns]
Reveal           == [type |-> "CommitmentReveal"]
ReadCap(h, a)    == [type |-> "SetupBindReadCapability", handle |-> h, auth |-> a]
NewIntersection(h, a) == [type |-> "NewIntersection", handle |-> h, auth |-> a]

(* What a handler sends, by the channel of each message: "intersection"    *)
(* for fragments and their replies, "capability" for read capabilities,    *)
(* "control" for the others.                                               *)
NoSends == [c \in Channels |-> << >>]

(* The channels after p's sends outs and, if p received a message, after   *)
(* that message is taken off channel from.                                 *)
Deliver(p, from, outs) ==
    chan' = [q \in Peers |-> [c \in Channels |->
        IF q = p THEN IF c = from THEN Tail(chan[q][c]) ELSE chan[q][c]
        ELSE chan[q][c] \o outs[c]]]

Report(p, intersections) == inbox' = [inbox EXCEPT ![p] = @ \o intersections]

Fail(p, why, h) ==
    /\ failed' = [failed EXCEPT ![p] = << [error |-> why, handle |-> h] >>]
    /\ UNCHANGED << submitted, pending, revealed, ours, theirs, requested, asked, found,
                    inbox, bound >>

Running(p) == failed[p] = << >>

Arrived(p, c, type) == Running(p) /\ chan[p][c] # << >> /\ Head(chan[p][c]).type = type

PaiInit ==
    /\ submitted = [p \in Peers |-> {}]
    /\ pending = [p \in Peers |-> {}]
    /\ revealed = [p \in Peers |-> FALSE]
    /\ ours = [p \in Peers |-> << >>]
    /\ theirs = [p \in Peers |-> << >>]
    /\ requested = [p \in Peers |-> {}]
    /\ asked = [p \in Peers |-> {}]
    /\ found = [p \in Peers |-> << >>]
    /\ inbox = [p \in Peers |-> << >>]
    /\ bound = [p \in Peers |-> {}]
    /\ chan = [p \in Peers |-> [c \in Channels |-> IF c = "control" THEN << Reveal >> ELSE << >>]]
    /\ failed = [p \in Peers |-> << >>]

(* ResourceMap::bind, for resources that are bound in turn: the handle is  *)
(* the position, and is never sent with a resource.                        *)
bind(handles, resources) == handles \o resources

(* Slip: the fragments are bound in one order and sent in another.         *)
SubmitAll_Reversed(p, from, as) ==
    LET infos == FlattenSeq([i \in DOMAIN as |-> fragment_set(as[i])]) IN
    /\ ours' = [ours EXCEPT ![p] = bind(@, infos)]
    /\ Deliver(p, from, [NoSends EXCEPT !["intersection"] =
                            Reverse([i \in DOMAIN infos |-> BindFragment(infos[i])])])

(* submit_authorisation for each of the given authorisations in turn.      *)
SubmitAll(p, from, as) ==
    LET infos == FlattenSeq([i \in DOMAIN as |-> fragment_set(as[i])]) IN
    /\ ours' = [ours EXCEPT ![p] = bind(@, infos)]
    /\ Deliver(p, from, [NoSends EXCEPT !["intersection"] =
                            [i \in DOMAIN infos |-> BindFragment(infos[i])]])

(* Slip: fragments are bound before the commitment is revealed.            *)
SubmitAuthorisation_AtOnce(p, a) ==
    /\ Running(p)
    /\ a \in Auths[p] \ submitted[p]
    /\ submitted' = [submitted EXCEPT ![p] = @ \cup {a}]
    /\ SubmitAll(p, "none", << a >>)
    /\ UNCHANGED << pending, revealed, theirs, requested, asked, found, inbox, bound, failed >>

(* Input::SubmitAuthorisation.                                             *)
SubmitAuthorisation(p, a) ==
    /\ Running(p)
    /\ a \in Auths[p] \ submitted[p]
    /\ submitted' = [submitted EXCEPT ![p] = @ \cup {a}]
    /\ \/ /\ revealed[p]
          /\ SubmitAll(p, "none", << a >>)
          /\ UNCHANGED pending
       \/ /\ ~ revealed[p]
          /\ pending' = [pending EXCEPT ![p] = @ \cup {a}]
          /\ UNCHANGED << ours, chan >>
    /\ UNCHANGED << revealed, theirs, requested, asked, found, inbox, bound, failed >>

(* CommitmentReveal and Input::Established: the pending authorisations are *)
(* submitted, in any order.                                                *)
ReceiveReveal(p) ==
    /\ Arrived(p, "control", "CommitmentReveal")
    /\ \E as \in SetToSeqs(pending[p]) : SubmitAll(p, "control", as)
    /\ revealed' = [revealed EXCEPT ![p] = TRUE]
    /\ pending' = [pending EXCEPT ![p] = {}]
    /\ UNCHANGED << submitted, theirs, requested, asked, found, inbox, bound, failed >>

-----------------------------------------------------------------------------
(* check_for_intersection, given the << our handle, their handle >> pairs  *)
(* that complete each other, which are gone through in any order.  handle  *)
(* is the handle that was checked, ours or theirs, and the one that is     *)
(* sent; replies is what was sent before.                                  *)
CheckForIntersection(p, handle, our_infos, pairs, replies) ==
    LET doing(what) == { pair \in pairs : on_intersection(our_infos[pair[1]]) = what }
        asking == doing("RequestSubspaceCap")
        requests == [i \in 1..Cardinality(asking) |-> RequestCap(handle)]
    IN /\ Deliver(p, "intersection", [NoSends EXCEPT !["intersection"] = replies,
                                                     !["control"] = requests])
       /\ requested' = [requested EXCEPT ![p] = @ \cup { pair[1] : pair \in asking }]
       /\ asked' = [asked EXCEPT ![p] = @ \cup { handle : pair \in asking }]
       /\ \E order \in SetToSeqs(doing("BindReadCap")) :
             /\ Report(p, [i \in DOMAIN order |->
                             NewIntersection(order[i][1], our_infos[order[i][1]].auth)])
             /\ found' = [found EXCEPT ![p] = @ \o order]

(* Slip: a fragment is only answered if it matches one of ours.            *)
ReceiveBind_ReplyOnMatch(p) ==
    /\ Arrived(p, "intersection", "PaiBindFragment")
    /\ LET m == Head(chan[p].intersection)
           state == [fragment |-> m.fragment, is_secondary |-> m.is_secondary]
           handle == Len(theirs[p]) + 1
           matching == { i \in DOMAIN ours[p] : completes_with(ours[p][i], state) }
       IN /\ theirs' = [theirs EXCEPT ![p] = bind(@, << state >>)]
          /\ CheckForIntersection(p, handle, ours[p], { << o, handle >> : o \in matching },
                IF matching = {} THEN << >> ELSE << ReplyFragment(handle) >>)
    /\ UNCHANGED << submitted, pending, revealed, ours, bound, failed >>

(* receive_bind.                                                           *)
ReceiveBind(p) ==
    /\ Arrived(p, "intersection", "PaiBindFragment")
    /\ LET m == Head(chan[p].intersection)
           state == [fragment |-> m.fragment, is_secondary |-> m.is_secondary]
           handle == Len(theirs[p]) + 1
       IN /\ theirs' = [theirs EXCEPT ![p] = bind(@, << state >>)]
          /\ CheckForIntersection(p, handle, ours[p],
                { << o, handle >> : o \in { i \in DOMAIN ours[p] :
                                              completes_with(ours[p][i], state) } },
                << ReplyFragment(handle) >>)
    /\ UNCHANGED << submitted, pending, revealed, ours, bound, failed >>

(* receive_reply.                                                          *)
ReceiveReply(p) ==
    /\ Arrived(p, "intersection", "PaiReplyFragment")
    /\ LET handle == Head(chan[p].intersection).handle
           infos == [ours[p] EXCEPT ![handle].complete = TRUE]
       IN \/ /\ handle \in DOMAIN ours[p]
             /\ ours' = [ours EXCEPT ![p] = infos]
             /\ CheckForIntersection(p, handle, infos,
                   { << handle, t >> : t \in { i \in DOMAIN theirs[p] :
                                                 completes_with(infos[handle], theirs[p][i]) } },
                   << >>)
             /\ UNCHANGED << submitted, pending, revealed, theirs, bound, failed >>
          \/ /\ handle \notin DOMAIN ours[p]
             /\ Deliver(p, "intersection", NoSends)
             /\ Fail(p, "MissingResource", handle)

(* The caps loop's validate_and_bind_theirs, then                          *)
(* received_read_cap_for_intersection.                                     *)
ReceiveReadCap(p) ==
    /\ Arrived(p, "capability", "SetupBindReadCapability")
    /\ LET handle == Head(chan[p].capability).handle
           matching == { i \in DOMAIN ours[p] :
                            /\ completes_with(ours[p][i], theirs[p][handle])
                            /\ on_intersection(ours[p][i]) = "ReplyReadCap" }
       IN \/ /\ revealed[p] /\ handle \in DOMAIN theirs[p]
             /\ Deliver(p, "capability", NoSends)
             /\ \E order \in SetToSeqs(matching) :
                   Report(p, [i \in DOMAIN order |->
                                NewIntersection(order[i], ours[p][order[i]].auth)])
             /\ UNCHANGED << submitted, pending, revealed, ours, theirs, requested, asked,
                             found, bound, failed >>
          \/ /\ ~ revealed[p]
             /\ Deliver(p, "capability", NoSends)
             /\ Fail(p, "InvalidMessageInCurrentState", handle)
          \/ /\ revealed[p] /\ handle \notin DOMAIN theirs[p]
             /\ Deliver(p, "capability", NoSends)
             /\ Fail(p, "MissingResource", handle)

(* received_subspace_cap_request: one reply for every fragment of ours     *)
(* that equals the one asked about.                                        *)
ReceiveRequest(p) ==
    /\ Arrived(p, "control", "PaiRequestSubspaceCapability")
    /\ LET handle == Head(chan[p].control).handle
           matching == { i \in DOMAIN ours[p] :
                            /\ ours[p][i].complete
                            /\ ours[p][i].fragment = theirs[p][handle].fragment
                            /\ ours[p][i].auth.subspace = "any" }
           replies == [i \in 1..Cardinality(matching) |->
                        ReplyCap(handle, theirs[p][handle].fragment[1])]
       IN \/ /\ revealed[p] /\ handle \in DOMAIN theirs[p]
             /\ Deliver(p, "control", [NoSends EXCEPT !["control"] = replies])
             /\ UNCHANGED << submitted, pending, revealed, ours, theirs, requested, asked,
                             found, inbox, bound, failed >>
          \/ /\ ~ revealed[p]
             /\ Deliver(p, "control", NoSends)
             /\ Fail(p, "InvalidMessageInCurrentState", handle)
          \/ /\ revealed[p] /\ handle \notin DOMAIN theirs[p]
             /\ Deliver(p, "control", NoSends)
             /\ Fail(p, "MissingResource", handle)

(* received_verified_subspace_cap_reply.                                   *)
ReceiveSubspaceCap(p) ==
    /\ Arrived(p, "control", "PaiReplySubspaceCapability")
    /\ LET m == Head(chan[p].control)
           info == ours[p][m.handle]
           ok == m.handle \in requested[p]
       IN /\ Deliver(p, "control", NoSends)
          /\ \/ /\ ok /\ info.fragment[1] = m.namespace
                /\ requested' = [requested EXCEPT ![p] = @ \ {m.handle}]
                /\ Report(p, << NewIntersection(m.handle, info.auth) >>)
                /\ UNCHANGED << submitted, pending, revealed, ours, theirs, asked, found,
                                bound, failed >>
             \/ /\ ~ ok
                /\ Fail(p, "SubspaceCapRequestForInvalidHandle", m.handle)
             \/ /\ ok /\ info.fragment[1] # m.namespace
                /\ Fail(p, "SubspaceCapRequestForWrongNamespace", m.handle)

(* IntersectionFinder::on_pai_intersection, up to the areas of interest:   *)
(* a capability is bound and sent once.                                    *)
OnPaiIntersection(p) ==
    /\ Running(p) /\ inbox[p] # << >>
    /\ LET i == Head(inbox[p]) IN
       \/ /\ i.auth \in bound[p]
          /\ inbox' = [inbox EXCEPT ![p] = Tail(@)]
          /\ UNCHANGED << submitted, pending, revealed, ours, theirs, requested, asked, found,
                          bound, chan, failed >>
       \/ /\ i.auth \notin bound[p] /\ revealed[p]
          /\ inbox' = [inbox EXCEPT ![p] = Tail(@)]
          /\ bound' = [bound EXCEPT ![p] = @ \cup {i.auth}]
          /\ Deliver(p, "none", [NoSends EXCEPT !["capability"] = << ReadCap(i.handle, i.auth) >>])
          /\ UNCHANGED << submitted, pending, revealed, ours, theirs, requested, asked, found,
                          failed >>
       \/ /\ i.auth \notin bound[p] /\ ~ revealed[p]
          /\ Fail(p, "InvalidMessageInCurrentState", i.handle)
          /\ UNCHANGED chan

Step(p) ==
    \/ \E a \in Auths[p] : SubmitAuthorisation(p, a)
    \/ ReceiveReveal(p)
    \/ ReceiveBind(p)
    \/ ReceiveReply(p)
    \/ ReceiveReadCap(p)
    \/ ReceiveRequest(p)
    \/ ReceiveSubspaceCap(p)
    \/ OnPaiIntersection(p)

PaiNext == \E p \in Peers : Step(p)

(* Every loop of the session is polled; every message arrives.             *)
Fairness ==
    \A p \in Peers :
        /\ WF_paiVars(\E a \in Auths[p] : SubmitAuthorisation(p, a))
        /\ WF_paiVars(ReceiveReveal(p) \/ ReceiveRequest(p) \/ ReceiveSubspaceCap(p))
        /\ WF_paiVars(ReceiveBind(p) \/ ReceiveReply(p))
        /\ WF_paiVars(ReceiveReadCap(p))
        /\ WF_paiVars(OnPaiIntersection(p))

PaiSpec == PaiInit /\ [][PaiNext]_paiVars /\ Fairness

-----------------------------------------------------------------------------

(* The table of the peer's fragments is the peer's own table, as far as    *)
(* the messages have come, and the fragments on their way will get the     *)
(* handles they have at the peer: a handle means the same fragment on both *)
(* sides, although it is never sent with the fragment.                     *)
StateOf(info) == [fragment |-> info.fragment, is_secondary |-> info.kind = "secondary"]

Binds(msgs) == { i \in DOMAIN msgs : msgs[i].type = "PaiBindFragment" }

TablesAgree(table, msgs, infos) ==
    LET handle(i) == Len(table) + Cardinality({ j \in Binds(msgs) : j <= i }) IN
    /\ Len(infos) = Len(table) + Cardinality(Binds(msgs))
    /\ \A h \in DOMAIN table : table[h] = StateOf(infos[h])
    /\ \A i \in Binds(msgs) :
          [fragment |-> msgs[i].fragment, is_secondary |-> msgs[i].is_secondary]
            = StateOf(infos[handle(i)])

HandlesAgree ==
    \A p \in Peers : TablesAgree(theirs[p], chan[p].intersection, ours[Other(p)])

(* Nothing that must be checked against the peer's challenge arrives       *)
(* before the peer's reveal, although the reveal has a channel of its own, *)
(* and nothing is signed before: waiting for Established is enough.        *)
NothingBeforeTheReveal ==
    \A p \in Peers : failed[p] # << >> => failed[p][1].error # "InvalidMessageInCurrentState"

(* "We found an intersection between our and the peer's capabilities"      *)
(* (session/intents.rs): an intersection is reported, and our capability   *)
(* shown to the peer, only if the peer has one that overlaps it.           *)
Overlap(a, b) ==
    /\ a.namespace = b.namespace
    /\ IsPrefix(a.path, b.path) \/ IsPrefix(b.path, a.path)
    /\ a.subspace = "any" \/ b.subspace = "any" \/ a.subspace = b.subspace

CapsAreShownOnIntersection ==
    \A p \in Peers : \A a \in bound[p] : \E b \in submitted[Other(p)] : Overlap(a, b)

(* A pair of equal fragments is reported once, whether the bind or the     *)
(* reply comes last.                                                       *)
EachPairOnce == \A p \in Peers : IsInjective(found[p])

(* Every read capability is sent once, and the handles both sides keep for *)
(* capabilities are counted, never sent.                                   *)
EachCapOnce ==
    \A p \in Peers :
        IsInjective([i \in DOMAIN chan[p].capability |-> chan[p].capability[i].auth])

(* Two peers whose authorisations grant the same area both find it,        *)
(* however the three channels interleave, unless an error ends one of the  *)
(* sessions before (see RequestsNameASecondary for one that can).          *)
SameArea(a, b) ==
    a.namespace = b.namespace /\ a.subspace = b.subspace /\ a.path = b.path

EqualAreasMeet ==
    \A p \in Peers : \A a \in Auths[p] :
        (\E b \in Auths[Other(p)] : SameArea(a, b)) =>
            <>(a \in bound[p] \/ \E q \in Peers : ~ Running(q))

(* The same for areas one of which contains the other, as the test         *)
(* pai_subspace (session/pai_finder.rs) has it for Betty: the peer with    *)
(* the larger path gets its intersection when the read capability comes.   *)
NestedAreasMeet ==
    \A p \in Peers : \A a \in Auths[p] :
        (\E b \in Auths[Other(p)] : Overlap(a, b)) => <>(a \in bound[p])

(* PaiRequestSubspaceCapability::handle is "[t]he IntersectionHandle bound *)
(* by the sender for the least-specific secondary fragment"                *)
(* (proto/wgps/messages.rs): at least, a secondary fragment of the sender. *)
RequestsNameASecondary ==
    \A p \in Peers : \A h \in asked[p] :
        h \in DOMAIN ours[p] /\ ours[p][h].kind = "secondary"

(* "Partner replied with subspace cap for handle which we never sent a     *)
(* request for" (PaiError): the error is raised only then.                 *)
InvalidHandleWasNeverAsked ==
    \A p \in Peers :
        failed[p] # << >> /\ failed[p][1].error = "SubspaceCapRequestForInvalidHandle"
            => failed[p][1].handle \notin asked[p]

(* Nothing is reported or shown twice, although a fragment can be answered *)
(* by the peer's bind and by its reply, and matches several times.         *)
EachOnce == EachPairOnce /\ EachCapOnce

=============================================================================
