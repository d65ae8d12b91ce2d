--------------------------------- MODULE Auth ---------------------------------
(***************************************************************************)
(* Secrets and capabilities (store/auth.rs, store.rs, interest.rs, and the *)
(* secret and capability stores of store/memory.rs and                     *)
(* store/persistent.rs): users and namespaces are created, capabilities    *)
(* are delegated, handed to other nodes and imported there, and entries    *)
(* are inserted under a capability the node selects.                       *)
(*                                                                         *)
(* An area is the set of the points it includes.  meadowcap is external: a *)
(* capability is the chain of its receivers and of the areas they were     *)
(* granted, delegating fails outside the granted area, and what is         *)
(* deserialized was delegated properly.  All operations of a node run one  *)
(* after the other on the thread of its actor.                             *)
(***************************************************************************)
EXTENDS Naturals, Sequences, SequencesExt, FiniteSets

CONSTANTS
    Nodes,          \* the nodes
    Persistent,     \* the nodes whose store is store/persistent.rs
    Users, Namespaces,
    Owned,          \* the namespaces that are not communal
    Points,         \* where an entry can be: subspace, path and timestamp
    Areas,          \* the areas that are ever granted or asked for
    AnySubspace,    \* the areas that span all subspaces
    OwnArea,        \* per user, the area of the subspace with its id
    Received,       \* capability packs that come from nodes not modelled
    MaxChain,       \* bound: receivers of a capability
    MaxCaps,        \* bound: read and write capabilities per node
    MaxPacks,       \* bound: packs handed out
    MaxEntries      \* bound: entries a node inserts

Last1(s) == s[Len(s)]

AccessModes == {"Read", "Write"}

Capability == [mode: AccessModes, namespace: Namespaces,
               users: Seq(Users), areas: Seq(Areas)]

receiver(cap)     == Last1(cap.users)
granted_area(cap) == Last1(cap.areas)

(* The area of a capability that was not delegated.                        *)
RootArea(namespace, user) == IF namespace \in Owned THEN Points ELSE OwnArea[user]

(* Every receiver got its area from the one before it, and the first from  *)
(* the namespace: what deserializing a capability checks.                  *)
Genuine(cap) ==
    /\ cap \in Capability
    /\ Len(cap.users) \in Nat \ {0} /\ Len(cap.areas) = Len(cap.users)
    /\ cap.areas[1] = RootArea(cap.namespace, cap.users[1])
    /\ \A i \in 1..(Len(cap.areas) - 1) : cap.areas[i + 1] \subseteq cap.areas[i]

(* CapabilityPack; subspace says if a read pack has a subspace capability. *)
Pack == [kind: AccessModes, cap: Capability, subspace: BOOLEAN]

(* An area of one subspace includes none that spans all of them.           *)
ASSUME AuthAssumption ==
    /\ Persistent \subseteq Nodes /\ Owned \subseteq Namespaces
    /\ Areas \subseteq SUBSET Points /\ Points \in AnySubspace /\ AnySubspace \subseteq Areas
    /\ \A a \in AnySubspace, b \in Areas : a \subseteq b => b \in AnySubspace
    /\ OwnArea \in [Users -> Areas \ AnySubspace]
    /\ Received \subseteq Pack
    /\ \A p \in Received : Genuine(p.cap)
    /\ MaxChain \in Nat /\ MaxCaps \in Nat /\ MaxPacks \in Nat /\ MaxEntries \in Nat

VARIABLES
    user_secrets,       \* per node, the users whose secret it holds
    namespace_secrets,  \* per node, the namespaces whose secret it holds
    read_caps,          \* per node, ReadAuthorisations in the order of insertion
    write_caps,         \* per node, write capabilities in the order of insertion
    packs,              \* the packs that were handed to applications
    entries             \* per node, the entries it inserted, with their token

vars == << user_secrets, namespace_secrets, read_caps, write_caps, packs, entries >>

Entry == [namespace: Namespaces, point: Points, cap: Capability, signer: Users]

ReadAuthorisation == [cap: Capability, subspace: BOOLEAN]

TypeOK ==
    /\ user_secrets \in [Nodes -> SUBSET Users]
    /\ namespace_secrets \in [Nodes -> SUBSET Namespaces]
    /\ read_caps \in [Nodes -> Seq(ReadAuthorisation)]
    /\ write_caps \in [Nodes -> Seq(Capability)]
    /\ packs \subseteq Pack
    /\ entries \in [Nodes -> SUBSET Entry]

-----------------------------------------------------------------------------
(* CapSelector: the namespace, "any" user or one, and what the area must   *)
(* include: nothing for Widest, an area or a single point otherwise.       *)
CapSelector == [namespace: Namespaces, receiver: Users \cup {"any"}, covers: SUBSET Points]

is_covered_by(selector, cap) ==
    /\ selector.namespace = cap.namespace
    /\ selector.receiver \in {"any", receiver(cap)}
    /\ selector.covers \subseteq granted_area(cap)

for_entry(namespace, point, user) ==
    [namespace |-> namespace, receiver |-> user, covers |-> {point}]

(* Slip: b's area decides.                                                 *)
is_wider_than_swapped(a, b) == granted_area(a) \subseteq granted_area(b)

is_wider_than(a, b) ==
    \/ granted_area(b) \subseteq granted_area(a)
    \/ granted_area(a) = granted_area(b) /\ Len(a.users) < Len(b.users)

(* The reduction of the capabilities a selector admits, in memory: where   *)
(* the best of the first k is, 0 while there is none.                      *)
Reduction(caps, selector) ==
    LET best[k \in 0..Len(caps)] ==
          IF k = 0 THEN 0
          ELSE IF /\ is_covered_by(selector, caps[k])
                  /\ best[k - 1] # 0 => is_wider_than(caps[k], caps[best[k - 1]])
               THEN k ELSE best[k - 1]
    IN best

(* Where the capability is that a store returns for a selector, as the set *)
(* of possible answers: the reduction of the candidates in memory, the     *)
(* first in the byte order of its table in the persistent store, which can *)
(* be any.                                                                 *)
Select(n, caps, selector) ==
    IF n \in Persistent THEN { i \in DOMAIN caps : is_covered_by(selector, caps[i]) }
    ELSE {Reduction(caps, selector)[Len(caps)]} \ {0}

ReadCapsOf(n) == [i \in DOMAIN read_caps[n] |-> read_caps[n][i].cap]

(* get_read_cap and get_write_cap.                                         *)
get_read_cap(n, selector) == { read_caps[n][i] : i \in Select(n, ReadCapsOf(n), selector) }

get_write_cap(n, selector) == { write_caps[n][i] : i \in Select(n, write_caps[n], selector) }

(* resolve_interests, for Interests::All or a set of selectors with the    *)
(* areas that go with each, {} for AreaOfInterestSelector::Widest.  A      *)
(* selector that finds nothing is skipped, and the areas of selectors that *)
(* find the same capability are united.                                    *)
resolve_all(n) == { << auth, granted_area(auth.cap) >> : auth \in ToSet(read_caps[n]) }

resolve_interests(n, interests) ==
    UNION { UNION { {auth} \X (IF i.areas = {} THEN {granted_area(auth.cap)} ELSE i.areas) :
                        auth \in get_read_cap(n, i.selector) } : i \in interests }

(* McCapability::delegate; the caller has the receiver's secret.           *)
MayDelegate(cap, area) == area \subseteq granted_area(cap) /\ Len(cap.users) < MaxChain
Delegated(cap, to, area) == [cap EXCEPT !.users = Append(@, to), !.areas = Append(@, area)]

(* Slip: packs are taken for what they say they are.                       *)
validate_any(pack) == TRUE

(* CapabilityPack::validate.                                               *)
validate(pack) == pack.kind = pack.cap.mode

(* Vec::push in memory; the table of the persistent store is a set.        *)
Push(n, caps, cap) == IF n \in Persistent /\ cap \in ToSet(caps) THEN caps ELSE Append(caps, cap)

(* CapsStorage::insert of a pack into what a node has.                     *)
Insert(n, has, pack) ==
    IF pack.kind = "Read"
    THEN [has EXCEPT !.read = Push(n, @, [cap |-> pack.cap, subspace |-> pack.subspace])]
    ELSE [has EXCEPT !.write = Push(n, @, pack.cap)]

(* One or two packs are inserted, in their order.                          *)
InsertCaps(n, new) ==
    LET has   == [read |-> read_caps[n], write |-> write_caps[n]]
        first == Insert(n, has, new[1])
        all   == IF Len(new) = 1 THEN first ELSE Insert(n, first, new[2])
    IN /\ Len(read_caps[n]) + Len(write_caps[n]) + Len(new) <= MaxCaps
       /\ read_caps' = [read_caps EXCEPT ![n] = all.read]
       /\ write_caps' = [write_caps EXCEPT ![n] = all.write]

-----------------------------------------------------------------------------

Init ==
    /\ user_secrets = [n \in Nodes |-> {}]
    /\ namespace_secrets = [n \in Nodes |-> {}]
    /\ read_caps = [n \in Nodes |-> << >>]
    /\ write_caps = [n \in Nodes |-> << >>]
    /\ packs = Received
    /\ entries = [n \in Nodes |-> {}]

(* create_user: a fresh secret.                                            *)
CreateUser(n, user) ==
    /\ \A m \in Nodes : user \notin user_secrets[m]
    /\ user_secrets' = [user_secrets EXCEPT ![n] = @ \cup {user}]
    /\ UNCHANGED << namespace_secrets, read_caps, write_caps, packs, entries >>

(* create_read_cap and create_write_cap.                                   *)
FullPack(mode, namespace, user) ==
    [kind |-> mode, subspace |-> mode = "Read" /\ namespace \in Owned,
     cap |-> [mode |-> mode, namespace |-> namespace, users |-> << user >>,
              areas |-> << RootArea(namespace, user) >>]]

(* create_namespace: a fresh secret, and create_full_caps.  The owner need *)
(* not be a user of this node.                                             *)
CreateNamespace(n, namespace, owner) ==
    /\ \A m \in Nodes : namespace \notin namespace_secrets[m]
    /\ \A p \in Received : p.cap.namespace # namespace
    /\ namespace_secrets' = [namespace_secrets EXCEPT ![n] = @ \cup {namespace}]
    /\ InsertCaps(n, << FullPack("Read", namespace, owner), FullPack("Write", namespace, owner) >>)
    /\ UNCHANGED << user_secrets, packs, entries >>

(* RestrictArea::or_default; {} is RestrictArea::None.                     *)
or_default(restrict, area) == IF restrict = {} THEN area ELSE restrict

(* Slip: the subspace capability is only passed on with the full area.     *)
delegate_read_cap_full(auth, to, restrict) ==
    LET area == or_default(restrict, granted_area(auth.cap))
    IN [kind |-> "Read", cap |-> Delegated(auth.cap, to, area),
        subspace |-> auth.subspace /\ area = Points]

(* What delegate_read_cap makes of the capability it found.                *)
delegate_read_cap(auth, to, restrict) ==
    LET area == or_default(restrict, granted_area(auth.cap))
    IN [kind |-> "Read", cap |-> Delegated(auth.cap, to, area),
        subspace |-> auth.subspace /\ area \in AnySubspace]

delegate_write_cap(cap, to, restrict) ==
    [kind |-> "Write", cap |-> Delegated(cap, to, or_default(restrict, granted_area(cap))),
     subspace |-> FALSE]

(* The capability was found, its receiver's secret is here, and the area   *)
(* lies within it.                                                         *)
CanDelegate(n, cap, restrict) ==
    /\ receiver(cap) \in user_secrets[n]
    /\ MayDelegate(cap, or_default(restrict, granted_area(cap)))

(* delegate_full_caps, which ActorHandle::delegate_caps calls with store   *)
(* FALSE: a read pack, and for write access a write pack too, or neither.  *)
DelegateCaps(n, from, mode, to, restrict) ==
    /\ Cardinality(packs) < MaxPacks
    /\ \E auth \in get_read_cap(n, from) :
          /\ CanDelegate(n, auth.cap, restrict)
          /\ \/ /\ mode = "Read"
                /\ packs' = packs \cup {delegate_read_cap(auth, to, restrict)}
             \/ /\ mode = "Write"
                /\ \E cap \in get_write_cap(n, from) :
                      /\ CanDelegate(n, cap, restrict)
                      /\ packs' = packs \cup {delegate_read_cap(auth, to, restrict),
                                              delegate_write_cap(cap, to, restrict)}
    /\ UNCHANGED << user_secrets, namespace_secrets, read_caps, write_caps, entries >>

(* import_caps: one after the other, up to the first one that is refused.  *)
ImportCaps(n, caps) ==
    LET refused == { i \in DOMAIN caps : \/ ~ validate(caps[i])
                                         \/ receiver(caps[i].cap) \notin user_secrets[n] }
        taken   == { i \in DOMAIN caps : \A r \in refused : i < r }
    IN /\ taken # {}
       /\ InsertCaps(n, [i \in taken |-> caps[i]])
       /\ UNCHANGED << user_secrets, namespace_secrets, packs, entries >>

(* McCapability::authorisation_token: signing fails unless the capability  *)
(* is the user's and covers the entry.  insert_entry relies on it for the  *)
(* capability of an AuthForm::Exact, and calls new_unchecked after it.     *)
authorisation_token(cap, namespace, point, user) ==
    /\ receiver(cap) = user
    /\ cap.mode = "Write" /\ cap.namespace = namespace /\ point \in granted_area(cap)

(* insert_entry under the capability of an AuthForm::Exact, or one that    *)
(* AuthForm::Any finds.                                                    *)
InsertEntry(n, namespace, point, user, exact) ==
    /\ Cardinality(entries[n]) < MaxEntries
    /\ user \in user_secrets[n]
    /\ \E cap \in IF exact THEN { p.cap : p \in { q \in packs : q.kind = "Write" } }
                           ELSE get_write_cap(n, for_entry(namespace, point, user)) :
          /\ authorisation_token(cap, namespace, point, user)
          /\ entries' = [entries EXCEPT ![n] = @ \cup
                {[namespace |-> namespace, point |-> point, cap |-> cap, signer |-> user]}]
    /\ UNCHANGED << user_secrets, namespace_secrets, read_caps, write_caps, packs >>

(* The requests of applications, one at a time on each node.               *)
Next ==
    \E n \in Nodes :
        \/ \E user \in Users : CreateUser(n, user)
        \/ \E namespace \in Namespaces, owner \in Users : CreateNamespace(n, namespace, owner)
        \/ \E namespace \in Namespaces, user \in Users \cup {"any"}, covers \in Areas \cup {{}} :
           \E mode \in AccessModes, to \in Users, restrict \in Areas \cup {{}} :
              DelegateCaps(n, [namespace |-> namespace, receiver |-> user, covers |-> covers],
                           mode, to, restrict)
        \/ \E p \in packs : ImportCaps(n, << p >>) \/ \E q \in packs : ImportCaps(n, << p, q >>)
        \/ \E namespace \in Namespaces, point \in Points, user \in Users, exact \in BOOLEAN :
              InsertEntry(n, namespace, point, user, exact)

Spec == Init /\ [][Next]_vars

-----------------------------------------------------------------------------

(* Nothing a node stores or accepts exceeds what the namespace granted, over *)
(* any sequence of delegations, hand-overs and imports: capabilities are   *)
(* genuine and filed under their own access mode, and an entry carries a   *)
(* write capability of its signer that covers it.                          *)
Authority ==
    \A n \in Nodes :
        /\ \A i \in DOMAIN read_caps[n] :
              Genuine(read_caps[n][i].cap) /\ read_caps[n][i].cap.mode = "Read"
        /\ \A i \in DOMAIN write_caps[n] :
              Genuine(write_caps[n][i]) /\ write_caps[n][i].mode = "Write"
        /\ \A e \in entries[n] :
              /\ Genuine(e.cap) /\ e.cap.mode = "Write"
              /\ e.cap.namespace = e.namespace
              /\ e.signer = receiver(e.cap) /\ e.point \in granted_area(e.cap)

(* Private area intersection asks for a subspace capability with a read    *)
(* capability for all subspaces of an owned namespace.                     *)
NeedsSubspaceCap(cap) == cap.namespace \in Owned /\ granted_area(cap) \in AnySubspace

(* cap was delegated from root, in any number of steps.                    *)
DerivesFrom(cap, root) ==
    /\ cap.mode = root.mode /\ cap.namespace = root.namespace
    /\ Len(root.users) <= Len(cap.users)
    /\ \A i \in 1..Len(root.users) :
          cap.users[i] = root.users[i] /\ cap.areas[i] = root.areas[i]

(* A pack from elsewhere that lacks the subspace capability cap should have *)
(* had: import_caps takes it, nothing checks for one.                      *)
CameWithout(cap) ==
    \E p \in Received : /\ p.kind = "Read" /\ ~ p.subspace
                       /\ NeedsSubspaceCap(p.cap) /\ DerivesFrom(cap, p.cap)

(* No node loses a subspace capability: a stored read capability that needs *)
(* one and lacks it goes back to a pack that came in without, however      *)
(* often either was delegated, handed over and imported.                   *)
SubspaceCapsFollow ==
    \A n \in Nodes : \A i \in DOMAIN read_caps[n] :
        LET auth == read_caps[n][i] IN
        NeedsSubspaceCap(auth.cap) => auth.subspace \/ CameWithout(auth.cap)

(* AreaSelector::Widest: no capability that the selector admits covers     *)
(* more than the one that is returned.                                     *)
WidestOn(n) ==
    \A ns \in Namespaces, user \in Users \cup {"any"} :
        LET widest == [namespace |-> ns, receiver |-> user, covers |-> {}]
            Beaten(by, area) == /\ by.namespace = ns /\ user \in {"any", receiver(by)}
                                /\ area \subseteq granted_area(by) /\ area # granted_area(by)
        IN /\ \A found \in get_write_cap(n, widest) : \A i \in DOMAIN write_caps[n] :
                  ~ Beaten(write_caps[n][i], granted_area(found))
           /\ \A found \in resolve_interests(n, {[selector |-> widest, areas |-> {}]}) :
                  \A all \in resolve_all(n) : ~ Beaten(all[1].cap, found[2])

(* The in-memory store selects a widest capability, whatever the order in  *)
(* which capabilities that do not include one another were inserted.       *)
WidestIsSelected == \A n \in Nodes \ Persistent : WidestOn(n)

(* What a node stores and signs is what it may, of the right types.        *)
AuthInv == TypeOK /\ Authority

=============================================================================
