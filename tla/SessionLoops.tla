----------------------------- MODULE SessionLoops -----------------------------
(***************************************************************************)
(* The loops of one session (session/run.rs) with the inboxes between      *)
(* them, the dispatcher of intents (session/intents.rs), the finder of     *)
(* common areas (session/aoi_finder.rs), and how a session ends.           *)
(*                                                                         *)
(* A loop takes an input, and then makes the sends that it leads to; it    *)
(* takes no other input before the last of them has found room.  What the  *)
(* peer, the PAI finder and the reconciler find out (modules PaiFinder and *)
(* Reconciler) is a free choice here, and so is when a loop sends to the   *)
(* peer or tells an application: such a send may wait, for as long as the  *)
(* peer gives no guarantees or room, or the application reads no events.   *)
(* There is one namespace.  An area is a set of points.                    *)
(***************************************************************************)
EXTENDS Naturals, Sequences, SequencesExt, FiniteSets

CONSTANTS
    Intents,        \* intents
    Initial,        \* the intents the session is started with, a sequence
    Interests,      \* their interests, pairs of an authorisation and an area
    Extra,          \* interests the application may add to an intent
    LiveIntents,    \* those in mode Continuous
    Detached,       \* those without channels to the application
    Common,         \* the authorisations that intersect with one of the peer
    TheirAreas,     \* the areas of interest of the peer
    MaxActs,        \* bound: updates, dropped handles, aborts and closings from outside,
                    \* and sends to the outside that wait
    InboxCap        \* capacity of an inbox

ASSUME SessionAssumption ==
    /\ Initial \in Seq(Intents) /\ IsInjective(Initial)
    /\ "Abort" \notin Intents
    /\ \A i \in Intents : IsFiniteSet(Interests[i])
    /\ LiveIntents \subseteq Intents
    /\ Detached \subseteq Intents
    /\ MaxActs \in Nat
    /\ InboxCap \in Nat \ {0}

VARIABLES
    updates,    \* SessionUpdate messages to the session
    handle,     \* the application's IntentHandle of an intent: what is open, what is sent
    outcome,    \* how an intent left the session
    dispatcher, \* the IntentDispatcher
    finder,     \* the IntersectionFinder
    pai,        \* the reveal, the authorisations the PAI finder has and found common
    targets,    \* the reconciler's targets, and history: the areas it reported
    peer,       \* what the peer still may send, and whether it has closed
    inbox,      \* the inboxes
    closed,     \* the inboxes that take no more messages
    todo,       \* of each loop: the sends it has to make, groups in order
    waits,      \* the loops that wait in a send to the peer or to an application
    done,       \* the loops that have ended
    cancelled,  \* the cancelled tokens: close_session_token, close_inboxes_token
    result,     \* of the session
    acts        \* number of acts from outside

app     == << updates, handle, outcome, acts >>
engines == << finder, pai, targets >>
parts   == << dispatcher, finder, pai, targets, peer >>
wires   == << inbox, closed, todo, waits >>
ending  == << done, cancelled, result >>
vars    == << app, parts, wires, ending >>

Inboxes == {"intents", "intersection", "pai", "reconciler"}
Loops   == {"intents", "update", "intersection", "pai", "reconciler",
            "control", "caps_recv", "aoi_recv"}

(* Those that send to the peer, and those that tell applications: the      *)
(* dispatcher, and run_session itself when the loops have ended.           *)
PeerSenders == {"intersection", "pai", "reconciler", "control"}
AppSenders  == {"intents", "run"}

Area(interest) == interest[2]

Abort == "Abort"

(* The mode is fixed by the initial intents.                               *)
IsLive == \E i \in DOMAIN Initial : Initial[i] \in LiveIntents

NoFinder == [interests |-> {}, bound |-> {}, ours |-> {}, theirs |-> {}]
NoPai    == [established |-> FALSE, submitted |-> {}, found |-> {}]
NoPeer   == [cap |-> FALSE, areas |-> {}, waiting |-> {}, reveal |-> FALSE, closed |-> TRUE]

(* Intent::new and new_detached.                                           *)
NewHandle(i) == [updates |-> i \notin Detached, events |-> i \notin Detached, sent |-> << >>]

Init ==
    /\ updates = << >>
    /\ handle = [i \in Intents |-> NewHandle(i)]
    /\ outcome = [i \in Intents |-> IF i \in Range(Initial) THEN "none" ELSE "unsubmitted"]
    /\ dispatcher = [pending |-> Initial, intents |-> {}, interests |-> [i \in Intents |-> {}],
                     watched |-> {}, complete_areas |-> {}, asked |-> [i \in Intents |-> {}]]
    /\ finder = NoFinder
    /\ pai = NoPai
    /\ targets = [open |-> {}, given |-> {}, reported |-> {}]
    /\ peer = [cap |-> FALSE, areas |-> TheirAreas, waiting |-> {}, reveal |-> TRUE,
               closed |-> FALSE]
    /\ inbox = [b \in Inboxes |-> << >>]
    /\ closed = {}
    /\ todo = [l \in Loops |-> << >>]
    /\ waits = {}
    /\ done = {}
    /\ cancelled = {}
    /\ result = "running"
    /\ acts = 0

-----------------------------------------------------------------------------
(* The inboxes.                                                            *)

Msg(to, kind, arg) == [to |-> to, kind |-> kind, arg |-> arg]

(* A loop that takes inputs: it runs and has made all its sends.           *)
Ready(l) == result = "running" /\ l \notin done \cup waits /\ todo[l] = << >>

(* Loop l can take the head of inbox b.                                    *)
HasInput(l, b, kind) == Ready(l) /\ inbox[b] # << >> /\ Head(inbox[b]).kind = kind

(* It does so, and has then to make the sends out.                         *)
Take(l, b, out) ==
    /\ inbox' = [inbox EXCEPT ![b] = Tail(@)]
    /\ todo' = [todo EXCEPT ![l] = out]

Arg(b) == Head(inbox[b]).arg

(* The sends that are left after m, which is of the first group.           *)
Without(sends, m) ==
    IF Head(sends) = {m} THEN Tail(sends) ELSE [sends EXCEPT ![1] = @ \ {m}]

(* One awaited send of loop l: it waits for room, or fails if the receiver *)
(* is closed, which is ignored.                                            *)
Send(l) ==
    /\ result = "running" /\ l \notin waits
    /\ todo[l] # << >>
    /\ \E m \in Head(todo[l]) :
          /\ m.to \in Inboxes
          /\ m.to \in closed \/ Len(inbox[m.to]) < InboxCap
          /\ inbox' = IF m.to \in closed THEN inbox
                      ELSE [inbox EXCEPT ![m.to] = Append(@, m)]
          /\ todo' = [todo EXCEPT ![l] = Without(@, m)]
    /\ UNCHANGED << app, parts, ending, closed, waits >>

(* A cancelable receiver closes when its token is cancelled and it has no  *)
(* message left.                                                           *)
Drained(b) == "inboxes" \in cancelled /\ inbox[b] = << >>

(* A channel from the peer ends when the session is cancelled or the peer  *)
(* closes; messages that have not arrived by then are not read.            *)
RecvEnded == "session" \in cancelled \/ peer.closed

End(l) == Ready(l) /\ done' = done \cup {l}

-----------------------------------------------------------------------------
(* The dispatcher of intents.                                              *)

Overlap(a, b) == a \cap b # {}

(* Slip: an interest is done with as soon as a part of it is reconciled.   *)
RetainInterests_Overlap(interests, area) == { x \in interests : ~ Overlap(x, area) }

(* complete_area_if_matches: what is left of the interests.                *)
RetainInterests(interests, area) == { x \in interests : ~ x \subseteq area }

is_complete(i, interests) == interests = {} /\ i \notin LiveIntents

(* A send to the application fails when it has dropped its event stream.   *)
SendFails(i) == i \notin Detached /\ ~ handle[i].events

(* cancel_intent_inner.                                                    *)
CancelIntents(d, is) == [d EXCEPT !.intents = @ \ is, !.watched = @ \ is]

(* matches in handle_event, for an active intent.                          *)
Matches(d, i, m) ==
    CASE m.kind = "CapabilityIntersection" -> d.interests[i] # {}
      [] m.kind \in {"InterestIntersection", "Reconciled"} ->
            \E x \in d.interests[i] : Overlap(x, m.arg)

(* emit_event_inner.                                                       *)
EmitEvent(d, m) ==
    LET d1 == IF m.kind = "Reconciled"
              THEN [d EXCEPT !.complete_areas = @ \cup {m.arg},
                             !.interests = [i \in Intents |->
                                IF i \in d.intents /\ Matches(d, i, m)
                                THEN RetainInterests(@[i], m.arg) ELSE @[i]]]
              ELSE d
        err == { i \in d.intents : Matches(d, i, m) /\ SendFails(i) } IN
    CancelIntents(d1, { i \in d.intents : IF i \in err THEN i \notin d.watched
                                          ELSE is_complete(i, d1.interests[i]) })

(* The outcome of the intents that leave the dispatcher at an event.       *)
OutcomeOf(d, m) ==
    LET gone == d.intents \ EmitEvent(d, m).intents IN
    [i \in Intents |->
        IF i \notin gone THEN outcome[i]
        ELSE IF SendFails(i) /\ Matches(d, i, m) THEN "cancelled" ELSE "complete"]

(* AllIntentsDropped.                                                      *)
CancelIfEmpty(d) == cancelled' = IF d.intents = {} THEN cancelled \cup {"session"} ELSE cancelled

(* The sends of Output::SubmitInterests.                                   *)
SubmitInterests(interests) == << {Msg("intersection", "AddInterests", interests)} >>

(* In submit_intent an intent learns of the areas that are complete        *)
(* already; if it has dropped its event stream by then the send fails, and *)
(* with it the session (SubmitBreaks).                                     *)
SubmitFails(i) ==
    /\ SendFails(i)
    /\ \E x \in Interests[i], a \in dispatcher.complete_areas : Overlap(Area(x), a)

flatten_interests(interests) == { Area(x) : x \in interests }

(* submit_intent, without its output; rest is the dispatcher without i.    *)
SubmitIntent(i, rest) ==
    LET all  == flatten_interests(Interests[i])
        left == { x \in all : \A a \in dispatcher.complete_areas : ~ x \subseteq a } IN
    /\ ~ SubmitFails(i)
    /\ IF is_complete(i, left)
       THEN /\ dispatcher' = [rest EXCEPT !.asked[i] = all]
            /\ outcome' = [outcome EXCEPT ![i] = "complete"]
       ELSE /\ dispatcher' = [rest EXCEPT !.intents = @ \cup {i},
                                          !.watched = @ \cup ({i} \ Detached),
                                          !.interests[i] = left,
                                          !.asked[i] = all]
            /\ UNCHANGED outcome

(* The output of submit_intent, if the intent was inserted.                *)
SubmitOutput(i) ==
    IF i \in dispatcher'.intents THEN SubmitInterests(Interests[i]) ELSE << >>

(* run: the initial intents come first, the inbox waits.                   *)
SubmitPending ==
    /\ Ready("intents")
    /\ dispatcher.pending # << >>
    /\ LET i == Head(dispatcher.pending) IN
          /\ SubmitIntent(i, [dispatcher EXCEPT !.pending = Tail(@)])
          /\ todo' = [todo EXCEPT !["intents"] = SubmitOutput(i)]
    /\ UNCHANGED << engines, ending, updates, handle, acts, peer, inbox, closed, waits >>

SubmitFromInbox ==
    /\ dispatcher.pending = << >>
    /\ HasInput("intents", "intents", "SubmitIntent")
    /\ SubmitIntent(Arg("intents"), dispatcher)
    /\ Take("intents", "intents", SubmitOutput(Arg("intents")))
    /\ UNCHANGED << engines, ending, updates, handle, acts, peer, closed, waits >>

EmitFromInbox ==
    /\ dispatcher.pending = << >>
    /\ \E kind \in {"CapabilityIntersection", "InterestIntersection", "Reconciled"} :
          HasInput("intents", "intents", kind)
    /\ Take("intents", "intents", << >>)
    /\ dispatcher' = EmitEvent(dispatcher, Head(inbox["intents"]))
    /\ outcome' = OutcomeOf(dispatcher, Head(inbox["intents"]))
    /\ CancelIfEmpty(dispatcher')
    /\ UNCHANGED << engines, updates, handle, acts, peer, closed, waits, done, result >>

(* update_intent: AddInterests; merge_interests.                           *)
AddInterests(i) ==
    /\ Ready("intents")
    /\ dispatcher.pending = << >>
    /\ i \in dispatcher.watched
    /\ handle[i].sent # << >> /\ Head(handle[i].sent).kind = "AddInterests"
    /\ LET x == Head(handle[i].sent).arg IN
          /\ dispatcher' = [dispatcher EXCEPT !.interests[i] = @ \cup {Area(x)},
                                              !.asked[i] = @ \cup {Area(x)}]
          /\ todo' = [todo EXCEPT !["intents"] = SubmitInterests({x})]
    /\ handle' = [handle EXCEPT ![i].sent = Tail(@)]
    /\ UNCHANGED << engines, ending, updates, outcome, acts, peer, inbox, closed, waits >>

(* update_intent: Close, and the end of the update channel of an intent    *)
(* whose event stream is dropped too.                                      *)
CancelIntent(i) ==
    /\ Ready("intents")
    /\ dispatcher.pending = << >>
    /\ i \in dispatcher.watched
    /\ \/ handle[i].sent # << >> /\ Head(handle[i].sent).kind = "Close"
       \/ handle[i].sent = << >> /\ ~ handle[i].updates /\ ~ handle[i].events
    /\ dispatcher' = CancelIntents(dispatcher, {i})
    /\ outcome' = [outcome EXCEPT ![i] = "cancelled"]
    /\ CancelIfEmpty(dispatcher')
    /\ UNCHANGED << engines, wires, updates, handle, acts, peer, done, result >>

(* The update channel of an intent ends, its event stream is still there.  *)
Unwatch(i) ==
    /\ Ready("intents")
    /\ dispatcher.pending = << >>
    /\ i \in dispatcher.watched
    /\ handle[i].sent = << >> /\ ~ handle[i].updates /\ handle[i].events
    /\ dispatcher' = [dispatcher EXCEPT !.watched = @ \ {i}]
    /\ UNCHANGED << app, engines, wires, ending, peer >>

(* The inbox ends when every loop that holds a sender has ended.           *)
DispatcherEnds ==
    /\ dispatcher.pending = << >>
    /\ inbox["intents"] = << >>
    /\ {"update", "intersection", "pai", "reconciler"} \subseteq done
    /\ End("intents")
    /\ UNCHANGED << app, parts, wires, cancelled, result >>

-----------------------------------------------------------------------------
(* The finder of common areas.                                             *)

(* Output::AoiIntersection for a pair of areas: to the reconciler, then to *)
(* the intents.                                                            *)
IntersectionOutput(pair) ==
    << {Msg("reconciler", "AoiIntersection", pair)},
       {Msg("intents", "InterestIntersection", Area(pair[1]) \cap pair[2])} >>

Outputs(pairs) == FlattenSeq([k \in DOMAIN pairs |-> IntersectionOutput(pairs[k])])

(* Slip: the areas of the peer that came first are not looked at.          *)
BindOurs_IgnoresTheirs(f, xs) == {}

(* bind_and_send_ours for the interests xs: the pairs they make.           *)
BindOurs(f, xs) == { p \in xs \X f.theirs : Overlap(Area(p[1]), p[2]) }

(* bind_validated for an area of the peer.                                 *)
BindTheirs(f, t) == { p \in f.ours \X {t} : Overlap(Area(p[1]), p[2]) }

(* add_interests: new areas of an authorisation that is known and bound    *)
(* are bound at once; an authorisation that is new is submitted.           *)
NewInterests(xs) ==
    [bind   |-> { x \in xs \ finder.interests : x[1] \in finder.bound },
     submit |-> { x[1] : x \in xs } \ { x[1] : x \in finder.interests }]

(* The pairs of the new areas of an authorisation, in any order.           *)
NewPairs(new, auth) == SetToSeqs(BindOurs(finder, { x \in new.bind : x[1] = auth }))

(* The outputs of add_interests, authorisation by authorisation.           *)
AddOutputs(new, auths, pairs) ==
    FlattenSeq([k \in DOMAIN auths |->
        IF auths[k] \in new.submit THEN << {Msg("pai", "SubmitAuthorisation", auths[k])} >>
        ELSE Outputs(pairs[k])])

FinderAddInterests ==
    /\ HasInput("intersection", "intersection", "AddInterests")
    /\ LET xs  == Arg("intersection")
           new == NewInterests(xs) IN
          /\ \E auths \in SetToSeqs({ x[1] : x \in xs }) :
                \E pairs \in [DOMAIN auths -> UNION { NewPairs(new, auth) : auth \in Range(auths) }] :
                   /\ \A k \in DOMAIN auths : pairs[k] \in NewPairs(new, auths[k])
                   /\ Take("intersection", "intersection", AddOutputs(new, auths, pairs))
          /\ finder' = [finder EXCEPT !.interests = @ \cup xs, !.ours = @ \cup new.bind]
    /\ UNCHANGED << app, ending, dispatcher, pai, targets, peer, closed, waits >>

(* on_pai_intersection.                                                    *)
FinderPaiIntersection ==
    /\ HasInput("intersection", "intersection", "PaiIntersection")
    /\ LET auth == Arg("intersection")
           xs   == { x \in finder.interests : x[1] = auth } IN
          /\ \E pairs \in SetToSeqs(BindOurs(finder, xs)) :
                Take("intersection", "intersection", Outputs(pairs))
          /\ finder' = [finder EXCEPT !.bound = @ \cup {auth}, !.ours = @ \cup xs]
    /\ UNCHANGED << app, ending, dispatcher, pai, targets, peer, closed, waits >>

FinderValidatedAoi ==
    /\ HasInput("intersection", "intersection", "ReceivedValidatedAoi")
    /\ LET t == Arg("intersection") IN
          /\ \E pairs \in SetToSeqs(BindTheirs(finder, t)) :
                Take("intersection", "intersection", Outputs(pairs))
          /\ finder' = [finder EXCEPT !.theirs = @ \cup {t}]
    /\ UNCHANGED << app, ending, dispatcher, pai, targets, peer, closed, waits >>

FinderEnds ==
    /\ Drained("intersection")
    /\ End("intersection")
    /\ closed' = closed \cup {"intersection"}
    /\ UNCHANGED << app, parts, inbox, todo, waits, cancelled, result >>

-----------------------------------------------------------------------------
(* The PAI loop.                                                           *)

PaiTakes ==
    /\ \E kind \in {"SubmitAuthorisation", "Established", "ReceivedReadCapForIntersection"} :
          /\ HasInput("pai", "pai", kind)
          /\ Take("pai", "pai", << >>)
          /\ pai' = CASE kind = "SubmitAuthorisation" ->
                            [pai EXCEPT !.submitted = @ \cup {Arg("pai")}]
                      [] kind = "Established" -> [pai EXCEPT !.established = TRUE]
                      [] OTHER -> pai
    /\ UNCHANGED << app, ending, dispatcher, finder, targets, peer, closed, waits >>

(* Authorisations wait for the reveal; from then on the peer answers.      *)
PaiStarted == pai.established /\ pai.submitted # {}

(* Output::NewIntersection: two sends that are joined.                     *)
PaiIntersection(auth) ==
    /\ Ready("pai")
    /\ PaiStarted
    /\ auth \in (pai.submitted \cap Common) \ pai.found
    /\ pai' = [pai EXCEPT !.found = @ \cup {auth}]
    /\ todo' = [todo EXCEPT !["pai"] = << {Msg("intersection", "PaiIntersection", auth),
                                           Msg("intents", "CapabilityIntersection", {})} >>]
    /\ UNCHANGED << app, ending, dispatcher, finder, targets, peer, inbox, closed, waits >>

PaiEnds ==
    /\ Drained("pai") /\ RecvEnded
    /\ End("pai")
    /\ closed' = closed \cup {"pai"}
    /\ UNCHANGED << app, parts, inbox, todo, waits, cancelled, result >>

-----------------------------------------------------------------------------
(* The reconciler loop.                                                    *)

ReconcilerTakes ==
    /\ HasInput("reconciler", "reconciler", "AoiIntersection")
    /\ Take("reconciler", "reconciler", << >>)
    /\ targets' = [targets EXCEPT !.open = @ \cup {Arg("reconciler")},
                                  !.given = @ \cup {Arg("reconciler")}]
    /\ UNCHANGED << app, ending, dispatcher, finder, pai, peer, closed, waits >>

(* complete_target: ReconciledArea, and after the last known one           *)
(* ReconciledAll.                                                          *)
CompleteTarget(p) ==
    /\ Ready("reconciler")
    /\ p \in targets.open
    /\ LET area == Area(p[1]) \cap p[2] IN
          /\ targets' = [targets EXCEPT !.open = @ \ {p}, !.reported = @ \cup {area}]
          /\ todo' = [todo EXCEPT !["reconciler"] =
                        << {Msg("intents", "Reconciled", area)} >>
                        \o IF targets'.open = {} THEN << {Msg("run", "ReconciledAll", {})} >>
                           ELSE << >>]
    /\ UNCHANGED << app, ending, dispatcher, finder, pai, peer, inbox, closed, waits >>

(* Output::ReconciledAll: outside of live mode the loop breaks.            *)
ReconciledAll ==
    /\ result = "running" /\ "reconciler" \notin waits
    /\ todo["reconciler"] # << >> /\ Head(todo["reconciler"]) = {Msg("run", "ReconciledAll", {})}
    /\ todo' = [todo EXCEPT !["reconciler"] = << >>]
    /\ IF IsLive THEN UNCHANGED << inbox, closed, done, cancelled >>
       ELSE /\ cancelled' = cancelled \cup {"session"}
            /\ done' = done \cup {"reconciler"}
            /\ closed' = closed \cup {"reconciler"}
            /\ inbox' = [inbox EXCEPT !["reconciler"] = << >>]
    /\ UNCHANGED << app, parts, waits, result >>

ReconcilerEnds ==
    /\ Drained("reconciler") /\ RecvEnded
    /\ End("reconciler")
    /\ closed' = closed \cup {"reconciler"}
    /\ UNCHANGED << app, parts, inbox, todo, waits, cancelled, result >>

-----------------------------------------------------------------------------
(* The loops that receive from the peer.                                   *)

(* control_loop: the peer reveals its nonce.                               *)
ControlReceives ==
    /\ Ready("control")
    /\ peer.reveal
    /\ peer' = [peer EXCEPT !.reveal = FALSE]
    /\ todo' = [todo EXCEPT !["control"] = << {Msg("pai", "Established", {})} >>]
    /\ UNCHANGED << app, engines, ending, dispatcher, inbox, closed, waits >>


(* Once the control loop has ended, the inboxes are closed.                *)
ControlEnds ==
    /\ RecvEnded
    /\ End("control")
    /\ cancelled' = cancelled \cup {"inboxes"}
    /\ UNCHANGED << app, parts, wires, result >>

(* caps_recv_loop: the peer binds a read capability.                       *)
CapReceived ==
    /\ Ready("caps_recv")
    /\ ~ peer.cap /\ PaiStarted
    /\ peer' = [peer EXCEPT !.cap = TRUE]
    /\ todo' = [todo EXCEPT !["caps_recv"] = << {Msg("pai", "ReceivedReadCapForIntersection", {})} >>]
    /\ UNCHANGED << app, engines, ending, dispatcher, inbox, closed, waits >>

CapsRecvEnds ==
    /\ RecvEnded
    /\ End("caps_recv")
    /\ UNCHANGED << app, parts, wires, cancelled, result >>

(* aoi_recv_loop: an area of interest arrives on a channel of its own, and *)
(* waits for the capability that it names (get_theirs_eventually).         *)
AoiReceived(t) ==
    /\ Ready("aoi_recv")
    /\ peer.waiting = {}
    /\ t \in peer.areas /\ PaiStarted
    /\ peer' = [peer EXCEPT !.areas = @ \ {t}, !.waiting = {t}]
    /\ UNCHANGED << app, engines, wires, ending, dispatcher >>

AoiValidated ==
    /\ Ready("aoi_recv")
    /\ peer.cap
    /\ \E t \in peer.waiting :
          todo' = [todo EXCEPT !["aoi_recv"] = << {Msg("intersection", "ReceivedValidatedAoi", t)} >>]
    /\ peer' = [peer EXCEPT !.waiting = {}]
    /\ UNCHANGED << app, engines, ending, dispatcher, inbox, closed, waits >>

AoiRecvEnds ==
    /\ RecvEnded
    /\ peer.waiting = {}
    /\ End("aoi_recv")
    /\ UNCHANGED << app, parts, wires, cancelled, result >>

-----------------------------------------------------------------------------
(* The update loop, and the end of the session.                            *)

UpdateSubmits ==
    /\ Ready("update")
    /\ updates # << >> /\ Head(updates) # Abort
    /\ updates' = Tail(updates)
    /\ todo' = [todo EXCEPT !["update"] = << {Msg("intents", "SubmitIntent", Head(updates))} >>]
    /\ UNCHANGED << parts, ending, handle, outcome, acts, inbox, closed, waits >>

(* The loop breaks; the channel is drained at the end of the session.      *)
UpdateAborts ==
    /\ Ready("update")
    /\ updates # << >> /\ Head(updates) = Abort
    /\ updates' = Tail(updates)
    /\ done' = done \cup {"update"}
    /\ cancelled' = cancelled \cup {"session", "abort"}
    /\ UNCHANGED << parts, wires, handle, outcome, acts, result >>

UpdateEnds ==
    /\ "inboxes" \in cancelled /\ updates = << >>
    /\ End("update")
    /\ closed' = closed \cup {"updates"}
    /\ UNCHANGED << app, parts, inbox, todo, waits, cancelled, result >>

(* Slip: the update channel is closed, not drained.                        *)
Queued_Undrained ==
    { m.arg : m \in { m \in Range(inbox["intents"]) : m.kind = "SubmitIntent" } }
        \cup Range(dispatcher.pending)

(* The intents that the session has not begun to work on: in the           *)
(* dispatcher's inbox, not yet submitted, in the update channel.           *)
Queued ==
    { m.arg : m \in { m \in Range(inbox["intents"]) : m.kind = "SubmitIntent" } }
        \cup Range(dispatcher.pending)
        \cup (Range(updates) \ {Abort})

(* drain_all: events that are left are still emitted.                      *)
Drain ==
    LET after[n \in 0..Len(inbox["intents"])] ==
            IF n = 0 THEN dispatcher
            ELSE IF inbox["intents"][n].kind = "SubmitIntent" THEN after[n - 1]
            ELSE EmitEvent(after[n - 1], inbox["intents"][n])
    IN  after[Len(inbox["intents"])]

(* An intent that the update loop has taken and not yet handed over.       *)
InUpdateLoop == { m.arg : m \in UNION Range(todo["update"]) }

(* What becomes of the intents that are left.                              *)
Remaining(failed) ==
    [i \in Intents |->
        CASE i \in Queued -> IF failed THEN "aborted" ELSE "returned"
          [] i \in dispatcher.intents ->
                IF is_complete(i, Drain.interests[i]) THEN "complete"
                ELSE IF i \notin Drain.intents THEN "cancelled"
                ELSE IF failed \/ "session" \notin cancelled THEN "aborted"
                ELSE "dropped"
          [] i \in InUpdateLoop -> "lost"
          [] OTHER -> outcome[i]]

(* After try_join: all loops have ended, or one has met an error and the   *)
(* others are dropped where they are, with all they hold, and so is the    *)
(* intent that broke the session, if one did.                              *)
SessionEnds(err, broken) ==
    /\ LET failed == err \/ "abort" \in cancelled \/ Abort \in Range(updates) IN
          /\ outcome' = [i \in Intents |-> IF i \in broken THEN "cancelled"
                                            ELSE Remaining(failed)[i]]
          /\ result' = IF failed THEN "error" ELSE "ok"
    /\ updates' = << >>
    /\ closed' = Inboxes \cup {"updates"}
    /\ dispatcher' = [dispatcher EXCEPT !.pending = << >>, !.intents = {}, !.watched = {},
                                        !.interests = [i \in Intents |-> {}]]
    /\ finder' = NoFinder
    /\ pai' = NoPai
    /\ peer' = NoPeer
    /\ cancelled' = {}
    /\ inbox' = [b \in Inboxes |-> << >>]
    /\ todo' = [l \in Loops |-> << >>]
    /\ waits' = {}
    /\ done' = Loops
    /\ UNCHANGED << handle, acts, targets >>

(* A loop meets an error: a protocol error, a lost connection.             *)
SessionFails ==
    /\ result = "running"
    /\ SessionEnds(TRUE, {})

(* In submit_intent, an event for an intent that dropped its event stream. *)
SubmitBreaks ==
    /\ Ready("intents")
    /\ \E i \in Intents :
          /\ IF dispatcher.pending # << >> THEN i = Head(dispatcher.pending)
             ELSE HasInput("intents", "intents", "SubmitIntent") /\ i = Arg("intents")
          /\ SubmitFails(i)
          /\ SessionEnds(TRUE, {i})

SessionCompletes ==
    /\ result = "running" /\ "run" \notin waits
    /\ done = Loops
    /\ SessionEnds(FALSE, {})

-----------------------------------------------------------------------------
(* The application, the peer manager and the peer.                         *)

Act == acts < MaxActs /\ acts' = acts + 1 /\ result = "running"

Submit(i) ==
    /\ outcome[i] = "unsubmitted"
    /\ "updates" \notin closed
    /\ updates' = Append(updates, i)
    /\ outcome' = [outcome EXCEPT ![i] = "none"]
    /\ UNCHANGED << parts, wires, ending, handle, acts >>

AbortSession ==
    /\ Act
    /\ "updates" \notin closed /\ Abort \notin Range(updates) /\ "abort" \notin cancelled
    /\ updates' = Append(updates, Abort)
    /\ UNCHANGED << parts, wires, ending, handle, outcome >>

(* The application adds interests to an intent, or closes it.              *)
Update(i) ==
    /\ Act
    /\ handle[i].updates /\ handle[i].sent = << >>
    /\ \/ \E x \in Extra[i] :
             /\ Area(x) \notin dispatcher.asked[i]
             /\ handle' = [handle EXCEPT ![i].sent = << Msg(i, "AddInterests", x) >>]
       \/ handle' = [handle EXCEPT ![i].sent = << Msg(i, "Close", {}) >>, ![i].updates = FALSE]
    /\ UNCHANGED << parts, wires, ending, updates, outcome >>

(* It drops one half of the handle.                                        *)
DropHandle(i) ==
    /\ Act
    /\ \E half \in {"updates", "events"} :
          /\ handle[i][half]
          /\ handle' = [handle EXCEPT ![i][half] = FALSE]
    /\ UNCHANGED << parts, wires, ending, updates, outcome >>

(* The next send of a loop is to the peer (channel_sender.send), or to an  *)
(* application that has its event stream, and there is no room for it.     *)
Waits(l) ==
    /\ Act
    /\ l \notin done \cup waits
    /\ l = "run" => done = Loops
    /\ l \in AppSenders => \E i \in Intents \ Detached : handle[i].events
    /\ waits' = waits \cup {l}
    /\ UNCHANGED << parts, ending, updates, handle, outcome, inbox, closed, todo >>

(* The peer has issued guarantees and read, or the application has read    *)
(* its events or dropped them: the send ends.                              *)
Proceeds(l) ==
    /\ result = "running" /\ l \in waits
    /\ waits' = waits \ {l}
    /\ UNCHANGED << app, parts, ending, inbox, closed, todo >>

PeerCloses ==
    /\ Act
    /\ ~ peer.closed
    /\ peer' = [peer EXCEPT !.closed = TRUE]
    /\ UNCHANGED << engines, wires, ending, updates, handle, outcome, dispatcher >>

-----------------------------------------------------------------------------

(* What the loops do by themselves.                                        *)
Session ==
    \/ \E l \in Loops : Send(l)
    \/ SubmitPending \/ SubmitFromInbox \/ EmitFromInbox \/ SubmitBreaks \/ DispatcherEnds
    \/ \E i \in Intents : AddInterests(i) \/ CancelIntent(i) \/ Unwatch(i)
    \/ FinderAddInterests \/ FinderPaiIntersection \/ FinderValidatedAoi \/ FinderEnds
    \/ PaiTakes \/ PaiEnds
    \/ ReconcilerTakes \/ ReconciledAll \/ ReconcilerEnds
    \/ ControlEnds \/ CapsRecvEnds \/ AoiValidated \/ AoiRecvEnds
    \/ UpdateSubmits \/ UpdateAborts \/ UpdateEnds
    \/ SessionCompletes

(* What the peer, the application and the peer manager do, and failures.   *)
Environment ==
    \/ \E auth \in Common : PaiIntersection(auth)
    \/ \E p \in targets.open : CompleteTarget(p)
    \/ ControlReceives \/ CapReceived
    \/ \E t \in TheirAreas : AoiReceived(t)
    \/ \E i \in Intents : Submit(i) \/ Update(i) \/ DropHandle(i)
    \/ AbortSession \/ PeerCloses \/ SessionFails
    \/ \E l \in PeerSenders \cup AppSenders : Waits(l) \/ Proceeds(l)

Next == Session \/ Environment

(* The loops are joined in one future, which is polled while any of them   *)
(* can go on.                                                              *)
Fairness == WF_vars(Session)

Spec == Init /\ [][Next]_vars /\ Fairness

-----------------------------------------------------------------------------

(* The types of the queues and of the loops' states.                       *)
TypeOK ==
    /\ Range(updates) \subseteq Intents \cup {Abort}
    /\ \A b \in Inboxes : Len(inbox[b]) <= InboxCap /\ \A m \in Range(inbox[b]) : m.to = b
    /\ outcome \in [Intents -> {"unsubmitted", "none", "complete", "cancelled", "aborted",
                                "returned", "dropped", "lost"}]
    /\ dispatcher.watched \subseteq dispatcher.intents
    /\ closed \subseteq Inboxes \cup {"updates"}
    /\ done \subseteq Loops
    /\ waits \subseteq PeerSenders \cup AppSenders
    /\ cancelled \subseteq {"session", "inboxes", "abort"}
    /\ result \in {"running", "ok", "error"}

Ended == result \in {"ok", "error"}

(* An intent that is complete has had every area it asked for reconciled   *)
(* as a whole: the reconciler has reported an area that includes it.       *)
CompleteIsReconciled ==
    \A i \in Intents : outcome[i] = "complete" =>
        \A x \in dispatcher.asked[i] : \E a \in targets.reported : x \subseteq a

(* No interest is forgotten between the intents and the binding of         *)
(* capabilities, whichever comes first: all areas the finder knows of for  *)
(* a bound authorisation are bound, and no other.                          *)
OursAreSent == finder.ours = { x \in finder.interests : x[1] \in finder.bound }

(* Every overlap of an area of ours with one of the peer reaches the       *)
(* reconciler, in whichever order they were bound.                         *)
OverlapsAreReconciled ==
    result = "running" /\ "reconciler" \notin closed =>
        \A p \in finder.ours \X finder.theirs : Overlap(Area(p[1]), p[2]) =>
            \/ p \in targets.given
            \/ Msg("reconciler", "AoiIntersection", p)
                  \in Range(inbox["reconciler"]) \cup UNION Range(todo["intersection"])

(* When the session has ended every intent that was handed to it is        *)
(* complete, cancelled, aborted, returned for another session, dropped     *)
(* because this side closed, or lost with the update loop, see             *)
(* AbortReachesAll; none is left in a queue that nobody reads.             *)
IntentsAreSettled == Ended => \A i \in Intents : outcome[i] # "none"

(* Loops that wait for room in each other's inboxes.                       *)
Blocked(l) ==
    /\ todo[l] # << >>
    /\ \A m \in Head(todo[l]) : /\ m.to \in Inboxes \ closed
                                /\ Len(inbox[m.to]) >= InboxCap

Deadlocked ==
    \E S \in SUBSET Inboxes \ {{}} :
        \A l \in S : Blocked(l) /\ \A m \in Head(todo[l]) : m.to \in S

(* The loop for areas waits for a capability that nobody receives.         *)
WaitsForCap == peer.waiting # {} /\ ~ peer.cap /\ "caps_recv" \in done

(* The peer takes what is sent to it, the applications read their events.  *)
(* Nothing in the code makes them, so Spec does not assume it.             *)
SendsFindRoom == \A l \in PeerSenders \cup AppSenders : WF_vars(Proceeds(l))


(* "Make all our receivers close once the close session token is           *)
(* triggered" (session/run.rs): a session that is closed ends.             *)
EndsWhenClosed == RecvEnded ~> Ended

(* "The [`IntentHandle`] will then receive events for these interests in   *)
(* addition to already submitted interests" (add_interests): no intent     *)
(* goes on waiting for an area that is reconciled already.                 *)
ReconciledIsToldToAll ==
    \A i \in dispatcher.intents : \A x \in dispatcher.interests[i] :
        \A a \in dispatcher.complete_areas : ~ x \subseteq a

(* "Abort both incomplete active and queued unprocessed intents"           *)
(* (abort_all): no intent is left without an outcome.                      *)
AbortReachesAll == \A i \in Intents : outcome[i] # "lost"

(* "return queued unprocessed intents" (abort_active): an intent that the  *)
(* dispatcher takes on is worked on, its interests reach the finder.       *)
ActiveIsWorkedOn ==
    result = "running" => \A i \in dispatcher.intents :
        Interests[i] \subseteq finder.interests \cup
            UNION { m.arg : m \in { m \in Range(inbox["intersection"])
                                              \cup UNION Range(todo["intents"]) :
                                          m.kind = "AddInterests" } }

(* No interest and no overlap is forgotten between the loops, which check  *)
(* and queue independently of each other.                                  *)
NothingForgotten == TypeOK /\ OursAreSent /\ OverlapsAreReconciled

=============================================================================
